----------------------------- MODULE FlagSources -----------------------------
(* Where the command line tools of dev/cobra take the values of their flags from:
   the command line, the environment, a configuration file and the default.
   backup/stringenv.go reads a file, cmd/time.go does not. *)
EXTENDS Naturals

CONSTANTS Number, Text,    \* the flags, by the type of their values
          Value,           \* values that can be told apart
          Default,         \* the default of each flag
          Zero, Largest    \* what is left of a number that could not be parsed

Flag == Number \cup Text

Absent == "absent"      \* also a variable of the environment that is empty
Malformed == {"word", "huge"} \* set, but not to a number, or to one out of range

ASSUME FlagAssumption == Number \cap Text = {}
ASSUME ValueAssumption == /\ Default \in [Flag -> Value]
                          /\ Value \cap ({Zero, Largest, Absent} \cup Malformed) = {}

Given(f) == Value \cup {Absent} \cup (IF f \in Number THEN Malformed ELSE {})

VARIABLES
  readsFile,       \* which of the two commands it is
  cli, env, file,  \* what each source gives each flag
  fileState,       \* of the configuration file: "found", "missing" or "broken"
  pc,              \* "parse", "file", "bind", "run" or "failed"
  todo,            \* the flags that VisitAll has still to visit
  value, changed   \* the flags, and those that have been set

sources == <<readsFile, cli, env, file, fileState>>
vars == <<sources, pc, todo, value, changed>>

Sources == {s \in [Flag -> Value \cup {Absent} \cup Malformed] : \A f \in Flag : s[f] \in Given(f)}

Init == /\ readsFile \in BOOLEAN
        /\ cli \in Sources /\ env \in Sources /\ file \in Sources
        /\ fileState \in {"found", "missing", "broken"}
        /\ ~readsFile \/ fileState # "found" => \A f \in Flag : file[f] = Absent
        /\ pc = "parse" /\ todo = Flag /\ value = Default /\ changed = {}

(* A number that cannot be parsed on the command line ends the command. *)
Parse ==
  /\ pc = "parse"
  /\ IF \E f \in Flag : cli[f] \in Malformed
       THEN pc' = "failed" /\ UNCHANGED <<value, changed>>
       ELSE /\ pc' = IF readsFile THEN "file" ELSE "bind"
            /\ value' = [f \in Flag |-> IF cli[f] = Absent THEN value[f] ELSE cli[f]]
            /\ changed' = {f \in Flag : cli[f] # Absent}
  /\ UNCHANGED <<sources, todo>>

(* A missing file is as good as an empty one; the slip is to go on with a broken one. *)
GoesOnAlways == TRUE
GoesOn == fileState # "broken"

ReadInConfig ==
  /\ pc = "file" /\ pc' = IF GoesOn THEN "bind" ELSE "failed"
  /\ UNCHANGED <<sources, todo, value, changed>>

FromFile(f) == IF readsFile THEN file[f] ELSE Absent
(* The slip is to look into the file first. *)
FileFirst(f) == IF FromFile(f) # Absent THEN FromFile(f) ELSE env[f]
Get(f) == IF env[f] # Absent THEN env[f] ELSE FromFile(f)

(* Set puts a number that it cannot parse at 0, or at the end of its range, and says so
   in an error that nobody looks at.  The slip is to take the text as it is. *)
Binds(f) == f \notin changed /\ Get(f) # Absent
SetAsIs(f, v) == v
Left(v) == IF v = "huge" THEN Largest ELSE Zero
SetTo(f, v) == IF v \in Malformed THEN Left(v) ELSE v

BindFlag(f) ==
  /\ pc = "bind" /\ f \in todo
  /\ todo' = todo \ {f}
  /\ IF Binds(f)
       THEN /\ value' = [value EXCEPT ![f] = SetTo(f, Get(f))]
            /\ changed' = IF Get(f) \in Malformed THEN changed ELSE changed \cup {f}
       ELSE UNCHANGED <<value, changed>>
  /\ UNCHANGED <<sources, pc>>

Run == /\ pc = "bind" /\ todo = {} /\ pc' = "run"
       /\ UNCHANGED <<sources, todo, value, changed>>

Next == Parse \/ ReadInConfig \/ Run \/ \E f \in Flag : BindFlag(f)

Spec == Init /\ [][Next]_vars

-----------------------------------------------------------------------------
(* Properties. *)

TypeOK == /\ readsFile \in BOOLEAN
          /\ cli \in Sources /\ env \in Sources /\ file \in Sources
          /\ pc \in {"parse", "file", "bind", "run", "failed"}
          /\ todo \subseteq Flag /\ changed \subseteq Flag
          /\ value \in [Flag -> Value \cup {Zero, Largest}]

(* backup/stringenv.go:63-65, cmd/time.go:85-126: a command that runs has each flag
   from the first source that names it: the command line, the environment, the file,
   the default; a first source outside the command line that is not a number counts
   as 0, or as the largest, and hides the later ones.  A command that reads a file does
   not run with a broken one. *)
FirstSourceWins ==
  pc = "run" =>
    /\ readsFile => fileState # "broken"
    /\ \A f \in Flag :
         LET given == {s \in {<<1, cli[f]>>, <<2, env[f]>>, <<3, FromFile(f)>>, <<4, Default[f]>>} :
                         s[2] # Absent}
             first == CHOOSE s \in given : \A t \in given : s[1] <= t[1]
         IN  value[f] = IF first[2] \in Malformed THEN Left(first[2]) ELSE first[2]
=============================================================================
