----------------------------- MODULE MCEventLoop -----------------------------
(* Two foreign threads and the loop's own, against a pipe that can fill.     *)
EXTENDS EventLoop
==============================================================================
