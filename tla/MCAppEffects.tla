---------------------------- MODULE MCAppEffects ----------------------------
(* Small instances of AppEffects. *)
EXTENDS AppEffects

AllEntries == {"update", "frame", "idle"}
Guarded == {"update", "frame"}
=============================================================================
