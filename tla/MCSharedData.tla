----------------------------- MODULE MCSharedData -----------------------------
(* Two or three worker threads that serve two requests each. *)
EXTENDS SharedData, TLC
=============================================================================
