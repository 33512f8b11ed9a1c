----------------------------- MODULE MCSSEDesktop -----------------------------
(* Model checking of the libcurl adapter: one connection through three        *)
(* attempts, and the main thread's loops over its record.                     *)
EXTENDS SSEDesktop
=============================================================================
