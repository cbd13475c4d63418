----------------------------- MODULE MCOrderClient -----------------------------
(* Streams of three messages, one more than the code's, and up to two hits. *)
EXTENDS OrderClient
=============================================================================
