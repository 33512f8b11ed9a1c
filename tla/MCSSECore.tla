------------------------------ MODULE MCSSECore -------------------------------
(* Model checking of the core.  The configurations choose the number of       *)
(* handles, the capacity of the queue, the events the adapters push, and who   *)
(* keeps the flag sse.is_connected reads.                                      *)
EXTENDS SSECore
=============================================================================
