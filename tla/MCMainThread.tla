---------------------------- MODULE MCMainThread ----------------------------
(* The main thread of each platform. *)
EXTENDS MainThread

Every == {"linux", "headless", "windows", "web"}
Browser == {"web"}
=============================================================================
