-------------------------------- MODULE Wget --------------------------------
(* The download of dev/cobra/cmd/wget.go.  log.Fatal ends the process wherever
   something fails, without the deferred Close, and so may a signal. *)
EXTENDS Naturals

CONSTANT Size  \* bound: blocks of a body and of an old file

VARIABLES
  file,      \* "none", "old" or "new", the file that os.Create has made
  blocks,    \* how many blocks it has
  body,      \* how many the server sends, error pages included
  length,    \* the Content-Length, at least body; Size + 1 if there is none
  received,  \* how many blocks of the body have been copied
  pc         \* "create", "get", "copy", "saved" or "dead"

answer == <<body, length>>
vars == <<file, blocks, answer, received, pc>>

Unknown == Size + 1

(* A server that stops short sends less than it has announced. *)
Init == /\ file \in {"none", "old"} /\ blocks \in IF file = "old" THEN 0..Size ELSE {0}
        /\ body \in 0..Size /\ length \in body..Unknown
        /\ received = 0 /\ pc = "create"

(* An old file is emptied; the slip is to append to it. *)
Appended == blocks
Emptied == 0

Create == /\ pc = "create" /\ pc' = "get" /\ file' = "new" /\ blocks' = Emptied
          /\ UNCHANGED <<answer, received>>

(* The status of the answer is not looked at. *)
Get == /\ pc = "get" /\ pc' = "copy" /\ UNCHANGED <<file, blocks, answer, received>>

Copy == /\ pc = "copy" /\ received < body
        /\ received' = received + 1 /\ blocks' = blocks + 1
        /\ UNCHANGED <<file, answer, pc>>

(* io.Copy returns an error if the connection ends before the announced length; the
   slip is not to look at it. *)
Unchecked == TRUE
Checked == length \in {body, Unknown}

Save == /\ pc = "copy" /\ received = body /\ Checked
        /\ pc' = "saved"
        /\ UNCHANGED <<file, blocks, answer, received>>

(* check ends the process: what there is of the file stays. *)
Fatal == /\ pc \in {"create", "get", "copy"} /\ pc' = "dead"
         /\ UNCHANGED <<file, blocks, answer, received>>

Next == Create \/ Get \/ Copy \/ Save \/ Fatal
Spec == Init /\ [][Next]_vars

-----------------------------------------------------------------------------
(* Properties. *)

TypeOK == /\ file \in {"none", "old", "new"} /\ blocks \in 0..Size /\ body \in 0..Size
          /\ length \in body..Unknown /\ received \in 0..body
          /\ pc \in {"create", "get", "copy", "saved", "dead"}

(* wget.go:40-50: "save as" is printed only for a file that is the whole body, as far
   as its length was announced, and nothing of an older file; a process that ends
   before leaves what there was or, once it has created the file, a beginning of the
   body in place of it. *)
SavedIsWhole ==
  /\ pc = "saved" => file = "new" /\ blocks = body /\ (length # Unknown => blocks = length)
  /\ file = "new" => blocks = received
=============================================================================
