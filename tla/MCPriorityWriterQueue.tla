---------------------- MODULE MCPriorityWriterQueue ----------------------
(* The frame limits of frame_calculator<3>. *)
EXTENDS PriorityWriterQueue

FrameLimits == [i \in 0 .. 2 |-> CASE i = 0 -> 4 [] i = 1 -> 2 [] i = 2 -> 1]
=============================================================================
