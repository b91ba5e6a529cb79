---------------------------- MODULE MCEventLoop -----------------------------
(* Two timers over a few milliseconds. *)
EXTENDS EventLoop

MCCount == {1, 2, -1}
=============================================================================
