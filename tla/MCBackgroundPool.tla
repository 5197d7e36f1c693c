-------------------------- MODULE MCBackgroundPool --------------------------
(* A pool of three threads. *)
EXTENDS BackgroundPool
=============================================================================
