------------------------------- MODULE MCCobra -------------------------------
(* The command line tools: one that takes a number and a text from its flags, with or
   without a configuration file, and the download. *)
EXTENDS FlagSources, TLC

CONSTANT Size

ASSUME SizeAssumption == Size \in Nat

VARIABLES command, outputFile, blocks, body, length, received, wget

Wget == INSTANCE Wget WITH file <- outputFile, pc <- wget

flagVars == <<readsFile, cli, env, file, fileState, pc, todo, value, changed>>
wgetVars == <<outputFile, blocks, body, length, received, wget>>

Defaults == [f \in Flag |-> "a"]

(* What belongs to the other command stays at one of its beginnings. *)
ToolInit == /\ command \in {"flags", "wget"} /\ Init /\ Wget!Init
            /\ command = "flags" => outputFile = "none" /\ body = 0 /\ length = 0
            /\ command = "wget" => /\ cli = Defaults /\ env = Defaults /\ file = Defaults
                                   /\ readsFile /\ fileState = "found"

ToolNext == /\ UNCHANGED command
            /\ \/ command = "flags" /\ Next /\ UNCHANGED wgetVars
               \/ command = "wget" /\ Wget!Next /\ UNCHANGED flagVars

ToolSpec == ToolInit /\ [][ToolNext]_<<command, flagVars, wgetVars>>

(* wget.go:40-50, see Wget. *)
SavedIsWhole == Wget!SavedIsWhole
=============================================================================
