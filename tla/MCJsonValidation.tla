--------------------------- MODULE MCJsonValidation ---------------------------
(* Two keys, and bodies of up to two parts. *)
EXTENDS JsonValidation, TLC
=============================================================================
