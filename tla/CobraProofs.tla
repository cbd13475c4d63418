----------------------------- MODULE CobraProofs -----------------------------
(* Proofs about the command line tools: the flags take their values from the first
   source that names them, whatever the flags and the values are, and a download of
   any length is saved whole. *)
EXTENDS MCCobra, TLAPS

toolVars == <<command, flagVars, wgetVars>>

-----------------------------------------------------------------------------
(* The flags. *)

(* What the command line leaves of a flag, and what a flag is in the end. *)
Parsed(f) == IF cli[f] = Absent THEN Default[f] ELSE cli[f]
Wins(f) == IF cli[f] # Absent THEN cli[f]
           ELSE IF Get(f) = Absent THEN Default[f] ELSE SetTo(f, Get(f))

(* bindFlags, dev/cobra/cmd/time.go:110-126: the flags that VisitAll has not reached
   are as the command line left them, the others have their last value. *)
Settled == pc \in {"file", "bind", "run"} =>
  \A f \in Flag : /\ cli[f] \notin Malformed
                  /\ f \in todo => value[f] = Parsed(f) /\ (f \in changed <=> cli[f] # Absent)
                  /\ f \notin todo => value[f] = Wins(f)

Phases == /\ pc = "parse" => value = Default /\ changed = {} /\ todo = Flag
          /\ pc = "file" => readsFile
          /\ pc \in {"bind", "run"} /\ readsFile => fileState # "broken"
          /\ pc = "run" => todo = {}

FlagInv == TypeOK /\ Phases /\ Settled

LEMMA FlagInit == Init => FlagInv
  BY ValueAssumption DEF Init, FlagInv, TypeOK, Phases, Settled

(* backup/stringenv.go:26-31, 70-109: each step of the command keeps the invariant. *)
LEMMA FlagStep == FlagInv /\ (Next \/ UNCHANGED flagVars) => FlagInv'
<1> SUFFICES ASSUME FlagInv, Next \/ UNCHANGED flagVars PROVE FlagInv'
  OBVIOUS
<1> USE DEF FlagInv, TypeOK, Phases, Settled, sources
<1>1. ASSUME Parse PROVE FlagInv'
  <2>1. \A f \in Flag : cli[f] \in Value \cup {Absent} \cup Malformed
    BY DEF Sources
  <2>2. TypeOK'
    BY <1>1, <2>1 DEF Parse
  <2>3. Phases'
    BY <1>1 DEF Parse
  <2>4. Settled'
    BY <1>1, <2>1 DEF Parse, Parsed
  <2> QED BY <2>2, <2>3, <2>4
<1>2. ASSUME ReadInConfig PROVE FlagInv'
  BY <1>2 DEF ReadInConfig, GoesOn, Parsed, Wins, Get, FromFile
<1>3. ASSUME Run PROVE FlagInv'
  BY <1>3 DEF Run, Parsed, Wins, Get, FromFile
<1>4. ASSUME NEW f \in Flag, BindFlag(f) PROVE FlagInv'
  <2>1. Get(f) \in Value \cup {Absent} \cup Malformed
    BY DEF Get, FromFile, Sources
  <2>2. SetTo(f, Get(f)) \in Value \cup {Zero, Largest} \/ Get(f) = Absent
    BY <2>1 DEF SetTo, Left
  <2>3. TypeOK'
    BY <1>4, <2>2 DEF BindFlag, Binds
  <2>4. Phases'
    BY <1>4 DEF BindFlag
  <2>5. value'[f] = Wins(f)
    BY <1>4 DEF BindFlag, Binds, Parsed, Wins
  <2>6. \A g \in Flag \ {f} : value'[g] = value[g] /\ (g \in changed' <=> g \in changed)
                              /\ (g \in todo' <=> g \in todo)
    BY <1>4 DEF BindFlag
  <2>7. Settled'
    BY <1>4, <2>5, <2>6 DEF BindFlag, Parsed, Wins, Get, FromFile
  <2> QED BY <2>3, <2>4, <2>7
<1>5. ASSUME UNCHANGED flagVars PROVE FlagInv'
  BY <1>5 DEF flagVars, Parsed, Wins, Get, FromFile
<1> QED BY <1>1, <1>2, <1>3, <1>4, <1>5 DEF Next

(* When all flags have been visited, the value that is left is that of the first
   source. *)
LEMMA FlagMeaning == FlagInv => FirstSourceWins
<1> SUFFICES ASSUME FlagInv, pc = "run" PROVE FirstSourceWins
  BY DEF FirstSourceWins
<1>1. ASSUME NEW f \in Flag
      PROVE  LET given == {s \in {<<1, cli[f]>>, <<2, env[f]>>, <<3, FromFile(f)>>, <<4, Default[f]>>} :
                             s[2] # Absent}
                 first == CHOOSE s \in given : \A t \in given : s[1] <= t[1]
             IN  value[f] = IF first[2] \in Malformed THEN Left(first[2]) ELSE first[2]
  <2> DEFINE given == {s \in {<<1, cli[f]>>, <<2, env[f]>>, <<3, FromFile(f)>>, <<4, Default[f]>>} :
                         s[2] # Absent}
             first == CHOOSE s \in given : \A t \in given : s[1] <= t[1]
  <2> SUFFICES value[f] = IF first[2] \in Malformed THEN Left(first[2]) ELSE first[2]
    OBVIOUS
  <2>1. Default[f] # Absent
    BY ValueAssumption
  <2>2. cli[f] \notin Malformed /\ value[f] = Wins(f) /\ Default[f] \notin Malformed
    BY ValueAssumption DEF FlagInv, Settled, Phases
  <2> DEFINE best == IF cli[f] # Absent THEN <<1, cli[f]>>
                     ELSE IF env[f] # Absent THEN <<2, env[f]>>
                     ELSE IF FromFile(f) # Absent THEN <<3, FromFile(f)>> ELSE <<4, Default[f]>>
  <2>3. best \in given /\ \A t \in given : best[1] <= t[1]
    BY <2>1
  <2>4. \A s \in given : (\A t \in given : s[1] <= t[1]) => s = best
    <3>1. \A s, t \in given : s[1] \in Nat /\ (s[1] = t[1] => s = t)
      OBVIOUS
    <3> HIDE DEF given, best
    <3> QED BY <2>3, <3>1
  <2>5. first = best
    BY <2>3, <2>4
  <2>6. best[2] = IF cli[f] # Absent THEN cli[f]
                  ELSE IF Get(f) # Absent THEN Get(f) ELSE Default[f]
    BY DEF Get
  <2>7. value[f] = IF best[2] \in Malformed THEN Left(best[2]) ELSE best[2]
    BY <2>1, <2>2, <2>6 DEF Wins, SetTo
  <2> HIDE DEF best, given, first
  <2> QED BY <2>5, <2>7
<1>2. readsFile => fileState # "broken"
  BY DEF FlagInv, Phases
<1> QED BY <1>1, <1>2 DEF FirstSourceWins

-----------------------------------------------------------------------------
(* The download. *)

(* io.Copy, dev/cobra/cmd/wget.go:48: what has been received is what the new file has. *)
DownloadInv == /\ Wget!TypeOK /\ SavedIsWhole
               /\ wget \in {"get", "copy", "saved"} => outputFile = "new"
               /\ wget \in {"create", "get"} => received = 0
               /\ wget = "create" => outputFile # "new"
               /\ wget = "saved" => received = body /\ length \in {body, Size + 1}

LEMMA DownloadInit == Wget!Init => DownloadInv
  BY SizeAssumption
  DEF Wget!Init, DownloadInv, Wget!TypeOK, SavedIsWhole, Wget!SavedIsWhole, Wget!Unknown

(* wget.go:39-56: each step of Download, a failure included, keeps the invariant. *)
LEMMA DownloadStep == DownloadInv /\ (Wget!Next \/ UNCHANGED wgetVars) => DownloadInv'
<1> SUFFICES ASSUME DownloadInv, Wget!Next \/ UNCHANGED wgetVars PROVE DownloadInv'
  OBVIOUS
<1> USE SizeAssumption
    DEF DownloadInv, Wget!TypeOK, SavedIsWhole, Wget!SavedIsWhole, Wget!Unknown, Wget!answer
<1>1. ASSUME Wget!Create PROVE DownloadInv'
  BY <1>1 DEF Wget!Create, Wget!Emptied
<1>2. ASSUME Wget!Get PROVE DownloadInv'
  BY <1>2 DEF Wget!Get
<1>3. ASSUME Wget!Copy PROVE DownloadInv'
  BY <1>3 DEF Wget!Copy
<1>4. ASSUME Wget!Save PROVE DownloadInv'
  BY <1>4 DEF Wget!Save, Wget!Checked
<1>5. ASSUME Wget!Fatal PROVE DownloadInv'
  BY <1>5 DEF Wget!Fatal
<1>6. ASSUME UNCHANGED wgetVars PROVE DownloadInv'
  BY <1>6 DEF wgetVars
<1> QED BY <1>1, <1>2, <1>3, <1>4, <1>5, <1>6 DEF Wget!Next

-----------------------------------------------------------------------------
LEMMA ToolInduction == ToolSpec => [](FlagInv /\ DownloadInv)
<1>1. ToolInit => FlagInv /\ DownloadInv
  BY FlagInit, DownloadInit DEF ToolInit
<1>2. FlagInv /\ DownloadInv /\ [ToolNext]_toolVars => (FlagInv /\ DownloadInv)'
  <2> SUFFICES ASSUME FlagInv, DownloadInv, [ToolNext]_toolVars PROVE FlagInv' /\ DownloadInv'
    OBVIOUS
  <2>1. Next \/ UNCHANGED flagVars
    BY DEF ToolNext, toolVars
  <2>2. Wget!Next \/ UNCHANGED wgetVars
    BY DEF ToolNext, toolVars
  <2> QED BY <2>1, <2>2, FlagStep, DownloadStep
<1> QED BY <1>1, <1>2, PTL DEF ToolSpec, toolVars

(* bindFlags, dev/cobra/cmd/time.go:85-126, and initializeConfig,
   backup/stringenv.go:70-128: a command that runs has every flag from the first
   source that names it. *)
THEOREM FlagsComeFromTheFirstSource == ToolSpec => []FirstSourceWins
<1>1. FlagInv /\ DownloadInv => FirstSourceWins
  BY FlagMeaning
<1> QED BY <1>1, ToolInduction, PTL

(* Download, dev/cobra/cmd/wget.go:39-51: a file that is reported as saved is the whole
   body, and nothing of an older file is left in a file that has been created. *)
THEOREM DownloadsAreWhole == ToolSpec => []SavedIsWhole
<1>1. FlagInv /\ DownloadInv => SavedIsWhole
  BY DEF DownloadInv
<1> QED BY <1>1, ToolInduction, PTL
=============================================================================
