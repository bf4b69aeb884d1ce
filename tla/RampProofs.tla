----------------------------- MODULE RampProofs -----------------------------
(***************************************************************************)
(* Proofs for Ramp: what the exit code of a bring-up and a row of a ramp   *)
(* say, for any fleet, any waves, any number of steps and of calls that    *)
(* fail, whatever the generators and the router do in between.             *)
(***************************************************************************)
EXTENDS Ramp, TLAPS

LEMMA ConstantTypes ==
    /\ MaxSteps \in Nat /\ MaxUpsets \in Nat
    /\ Len(Order) \in Nat /\ First(Len(Order)) = Sessions
    /\ \A k \in 0 .. Len(Order) : First(k) \subseteq Sessions
    /\ Boxes \cap Sessions = {} /\ Exabgp \subseteq Sessions
<1>1. Len(Order) \in Nat
  BY RampAssumption
<1>2. First(Len(Order)) = Sessions
  <2>1. {j \in 1 .. Len(Order) : j <= Len(Order)} = 1 .. Len(Order)
    BY <1>1
  <2> QED
    BY <2>1 DEF First, Sessions
<1>3. \A k \in 0 .. Len(Order) : First(k) \subseteq Sessions
  BY DEF First, Sessions
<1> QED
  BY <1>1, <1>2, <1>3, RampAssumption

(* The generators of some sessions are some of all. *)
LEMMA GeneratorsMonotonic ==
    /\ \A S \in SUBSET Sessions : GeneratorsOf(S) \subseteq GeneratorsOf(Sessions)
    /\ Gobgp \subseteq GeneratorsOf(Sessions)
    /\ \A s \in Gobgp : Generator(s) = s
    /\ Gobgp \cap Boxes = {}
  BY ConstantTypes DEF GeneratorsOf, Generator, Gobgp

LEMMA InitOK == Init => IInv
<1> SUFFICES ASSUME Init PROVE IInv
  OBVIOUS
<1>1. todo \subseteq GeneratorsOf(Sessions) /\ running \subseteq GeneratorsOf(Sessions)
  BY DEF Init
<1>2. /\ started \in 0 .. Len(Order) /\ step \in 0 .. MaxSteps /\ upsets \in 0 .. MaxUpsets
      /\ (command # "ramp" => started = Len(Order))
  <2>1. started = 0 \/ started = Len(Order)
    BY DEF Init
  <2>2. step = 0 /\ upsets = 0 /\ (command # "ramp" => started = Len(Order))
    BY DEF Init
  <2> QED
    BY <2>1, <2>2, ConstantTypes
<1>3. /\ latest \in [read : BOOLEAN, established : SUBSET Sessions]
      /\ row \in [converged : BOOLEAN, shown : SUBSET Sessions]
      /\ row.converged = FALSE
  BY DEF Init, NoRecord, NoRow
<1>4. TypeOK
  <2>1. table \in [Gobgp -> {NoTable, "whole", "other"}]
    BY DEF Init
  <2>2. file \in [Gobgp -> {"whole", "other", "missing"}]
    BY DEF Init
  <2>3. helperLog \in [Boxes -> SUBSET {"sent", "missing"}] /\ bootFile \subseteq Boxes
    BY DEF Init
  <2>4. {running, died, todo} \subseteq SUBSET (GeneratorsOf(Sessions) \cup Gobgp)
    BY <1>1 DEF Init
  <2>5. /\ pc \in {"start", "confirm", "check", "inject", "exit", "step", "wait", "judge", "done"}
        /\ verdict \in Verdicts /\ (verdict # "none" <=> pc = "done")
    BY DEF Init, Verdicts
  <2> QED
    BY <1>2, <1>3, <2>1, <2>2, <2>3, <2>4, <2>5 DEF Init, TypeOK
<1>5. CommandInv /\ FilesInv
  BY <1>2 DEF Init, CommandInv, FilesInv
<1>6. LoadedInv /\ ExitInv
  BY DEF Init, LoadedInv, ExitInv
<1> QED
  BY <1>3, <1>4, <1>5, <1>6 DEF IInv, ConvergedRowsAreWhole

----------------------------------------------------------------------------
(***************************************************************************)
(* The generators, the router and the sampler                              *)
(***************************************************************************)
(* What the harness knows, they leave alone; a table they take away has a  *)
(* generator that died.                                                    *)
LEMMA WorldKeeps ==
    ASSUME IInv, TypeOK',
           UNCHANGED <<onHost, command, width, pc, todo, failed, hidden, injected, step, started,
                       row, verdict, file>>,
           \A s \in Gobgp : table'[s] = table[s] \/ s \in died',
           died \subseteq died'
    PROVE  IInv'
<1>1. CommandInv' /\ FilesInv' /\ ExitInv' /\ ConvergedRowsAreWhole'
  BY DEF IInv, CommandInv, FilesInv, Visible, IsThere, ExitInv, ConvergedRowsAreWhole,
         First
<1>2. LoadedInv'
  BY DEF IInv, LoadedInv, TypeOK
<1> QED
  BY <1>1, <1>2 DEF IInv

LEMMA UpsetType ==
    ASSUME TypeOK, Upset \/ Works
    PROVE  upsets' \in 0 .. MaxUpsets
<1>1. upsets \in 0 .. MaxUpsets /\ MaxUpsets \in Nat
  BY ConstantTypes DEF TypeOK
<1>2. upsets' = upsets \/ (upsets < MaxUpsets /\ upsets' = upsets + 1)
  BY DEF Upset, Works
<1> QED
  BY <1>1, <1>2

LEMMA DiesStep ==
    ASSUME IInv, NEW g \in GeneratorsOf(Sessions), Dies(g)
    PROVE  IInv'
<1>1. /\ g \in running
      /\ running' = running \ {g} /\ booted' = booted \ {g} /\ died' = died \cup {g}
      /\ table' = [s \in Gobgp |-> IF s = g THEN NoTable ELSE table[s]]
      /\ up' = {s \in up : Generator(s) # g}
      /\ UNCHANGED <<onHost, command, width, pc, todo, failed, hidden, injected, step, started,
                     row, verdict, file, bootFile, helperLog, latest, fresh>>
  BY DEF Dies, WorldFrame, fixedVars, harnessVars, samplerVars
<1>2. TypeOK
  BY DEF IInv
<1>3. TypeOK'
  <2>1. upsets' \in 0 .. MaxUpsets
    BY <1>2, UpsetType DEF Dies
  <2>2. table' \in [Gobgp -> {NoTable, "whole", "other"}]
    BY <1>1, <1>2 DEF TypeOK
  <2>3. booted' \subseteq running' \cap Boxes
    BY <1>1, <1>2 DEF TypeOK
  <2>4. up' \subseteq {s \in Sessions : Generator(s) \in running'}
    BY <1>1, <1>2 DEF TypeOK
  <2>5. {running', died', todo'} \subseteq SUBSET (GeneratorsOf(Sessions) \cup Gobgp)
    BY <1>1, <1>2 DEF TypeOK
  <2> QED
    BY <1>1, <1>2, <2>1, <2>2, <2>3, <2>4, <2>5 DEF TypeOK
<1>4. \A s \in Gobgp : table'[s] = table[s] \/ s \in died'
  BY <1>1
<1> QED
  BY <1>1, <1>3, <1>4, WorldKeeps

LEMMA SessionsStep == IInv /\ (SessionUp \/ SessionDown) => IInv'
<1> SUFFICES ASSUME IInv, SessionUp \/ SessionDown PROVE IInv'
  OBVIOUS
<1>1. UNCHANGED <<onHost, command, width, pc, todo, failed, hidden, injected, step, started,
                  row, verdict, file, bootFile, running, table, booted, helperLog,
                  died, latest, fresh>>
  BY DEF SessionUp, SessionDown, WorldFrame, fixedVars, harnessVars, samplerVars
<1>2. TypeOK
  BY DEF IInv
<1>3. TypeOK'
  <2>1. upsets' \in 0 .. MaxUpsets
    BY <1>2, UpsetType DEF SessionUp, SessionDown, Works
  <2>2. up' \subseteq {s \in Sessions : Generator(s) \in running}
    BY <1>2 DEF SessionUp, SessionDown, TypeOK
  <2> QED
    BY <1>1, <1>2, <2>1, <2>2 DEF TypeOK
<1> QED
  BY <1>1, <1>3, WorldKeeps

LEMMA HelperBootsStep ==
    ASSUME IInv, NEW c \in Boxes, HelperBoots(c)
    PROVE  IInv'
<1>1. /\ c \in running \ booted /\ booted' = booted \cup {c}
      /\ helperLog' = [helperLog EXCEPT ![c] =
                         @ \cup {IF c \in bootFile THEN "sent" ELSE "missing"}]
      /\ UNCHANGED <<upsets, onHost, command, width, pc, todo, failed, hidden, injected, step,
                     started, row, verdict, file, bootFile, running, table, up, died,
                     latest, fresh>>
  BY DEF HelperBoots, WorldFrame, fixedVars, harnessVars, samplerVars
<1>2. TypeOK
  BY DEF IInv
<1>3. TypeOK'
  <2>1. helperLog' \in [Boxes -> SUBSET {"sent", "missing"}]
    BY <1>1, <1>2 DEF TypeOK
  <2>2. booted' \subseteq running \cap Boxes
    BY <1>1, <1>2 DEF TypeOK
  <2> QED
    BY <1>1, <1>2, <2>1, <2>2 DEF TypeOK
<1> QED
  BY <1>1, <1>3, WorldKeeps

LEMMA SampleStep == IInv /\ Sample => IInv'
<1> SUFFICES ASSUME IInv, Sample PROVE IInv'
  OBVIOUS
<1>1. /\ latest' = [read |-> TRUE, established |-> up] \/ latest' = NoRecord
      /\ fresh' = TRUE
      /\ UNCHANGED <<onHost, command, width, pc, todo, failed, hidden, injected, step, started,
                     row, verdict, file, bootFile, running, table, booted, helperLog,
                     up, died>>
  BY DEF Sample, WorldFrame, fixedVars, harnessVars
<1>2. TypeOK
  BY DEF IInv
<1>3. TypeOK'
  <2>1. upsets' \in 0 .. MaxUpsets
    BY <1>2, UpsetType DEF Sample
  <2>2. latest' \in [read : BOOLEAN, established : SUBSET Sessions]
    <3>1. up \subseteq Sessions
      BY <1>2 DEF TypeOK
    <3>2. CASE latest' = [read |-> TRUE, established |-> up]
      BY <3>1, <3>2
    <3>3. CASE latest' = NoRecord
      BY <3>3 DEF NoRecord
    <3> QED
      BY <1>1, <3>2, <3>3
  <2> QED
    BY <1>1, <1>2, <2>1, <2>2 DEF TypeOK
<1> QED
  BY <1>1, <1>3, WorldKeeps

----------------------------------------------------------------------------
(***************************************************************************)
(* _start_generators                                                       *)
(***************************************************************************)
LEMMA StartGeneratorStep ==
    ASSUME IInv, NEW g \in GeneratorsOf(Sessions), StartGenerator(g)
    PROVE  IInv'
<1>1. /\ pc = "start" /\ g \in todo /\ todo' = todo \ {g}
      /\ running' = running \/ running' = running \cup {g}
      /\ UNCHANGED <<onHost, command, width, latest, fresh, file, bootFile, helperLog, up, table,
                     booted, died, pc, failed, hidden, injected, step, started, row,
                     verdict>>
  BY DEF StartGenerator, HarnessFrame, Done, Seen, fixedVars, samplerVars
<1>2. TypeOK /\ CommandInv /\ FilesInv /\ LoadedInv /\ ExitInv /\ ConvergedRowsAreWhole
  BY DEF IInv
<1>3. TypeOK'
  <2>1. upsets' \in 0 .. MaxUpsets
    <3>1. Upset \/ Works
      BY DEF StartGenerator, Seen, NotSeen
    <3> QED
      BY <1>2, <3>1, UpsetType
  <2>2. {running', died', todo'} \subseteq SUBSET (GeneratorsOf(Sessions) \cup Gobgp)
    <3> DEFINE G == GeneratorsOf(Sessions) \cup Gobgp
    <3>1. running \subseteq G /\ died \subseteq G /\ todo \subseteq G
      BY <1>2 DEF TypeOK
    <3>2. running' \subseteq G /\ died' \subseteq G /\ todo' \subseteq G
      BY <1>1, <3>1
    <3> QED
      BY <3>2
  <2>3. /\ booted' \subseteq running' \cap Boxes
        /\ up' \subseteq {s \in Sessions : Generator(s) \in running'}
    BY <1>1, <1>2 DEF TypeOK
  <2> QED
    BY <1>1, <1>2, <2>1, <2>2, <2>3 DEF TypeOK
<1>4. CommandInv' /\ FilesInv' /\ LoadedInv' /\ ExitInv' /\ ConvergedRowsAreWhole'
  BY <1>1, <1>2 DEF CommandInv, FilesInv, LoadedInv, ExitInv, ConvergedRowsAreWhole, First
<1> QED
  BY <1>3, <1>4 DEF IInv

LEMMA ConfirmGeneratorStep ==
    ASSUME IInv, NEW g \in GeneratorsOf(Sessions), ConfirmGenerator(g)
    PROVE  IInv'
<1>1. /\ pc = "confirm" /\ g \in todo /\ todo' = todo \ {g}
      /\ UNCHANGED <<onHost, command, width, latest, fresh, file, bootFile, helperLog, up, running,
                     table, booted, died, pc, hidden, injected, step, started, row,
                     verdict>>
  BY DEF ConfirmGenerator, HarnessFrame, Done, fixedVars, samplerVars
<1>2. TypeOK /\ CommandInv /\ FilesInv /\ LoadedInv /\ ExitInv /\ ConvergedRowsAreWhole
  BY DEF IInv
<1>3. TypeOK'
  <2>1. upsets' \in 0 .. MaxUpsets
    BY <1>2, UpsetType DEF ConfirmGenerator, Seen, NotSeen
  <2>2. {running', died', todo'} \subseteq SUBSET (GeneratorsOf(Sessions) \cup Gobgp)
    BY <1>1, <1>2 DEF TypeOK
  <2>3. failed' \in BOOLEAN
    <3>1. failed' = (failed \/ (g \in Boxes /\ SentNothing(g))) \/ failed' = TRUE
      BY DEF ConfirmGenerator
    <3> QED
      BY <3>1, Zenon
  <2> QED
    BY <1>1, <1>2, <2>1, <2>2, <2>3 DEF TypeOK
<1>4. verdict = "none"
  BY <1>1, <1>2 DEF TypeOK
<1>5. CommandInv' /\ FilesInv' /\ LoadedInv' /\ ExitInv' /\ ConvergedRowsAreWhole'
  BY <1>1, <1>2, <1>4 DEF CommandInv, FilesInv, LoadedInv, ExitInv,
     ConvergedRowsAreWhole, First
<1> QED
  BY <1>3, <1>5 DEF IInv

(* From one stage of a bring-up to the next.  All sessions are checked.    *)
LEMMA StageStep ==
    IInv /\ (Confirm \/ Confirmed \/ Checked \/ Injected \/ Exit) => IInv'
<1> SUFFICES ASSUME IInv, Confirm \/ Confirmed \/ Checked \/ Injected \/ Exit
             PROVE  IInv'
  OBVIOUS
<1>1. UNCHANGED <<upsets, onHost, command, width, latest, file, bootFile, helperLog, up, running,
                  table, booted, died, failed, hidden, injected, step, started, row>>
  BY DEF Confirm, Confirmed, Checked, Injected, Exit, HarnessFrame, fixedVars,
     samplerVars, peersVars
<1>2. TypeOK /\ CommandInv /\ FilesInv /\ LoadedInv /\ ExitInv /\ ConvergedRowsAreWhole
  BY DEF IInv
<1>3. todo' \subseteq GeneratorsOf(Sessions) \cup Gobgp /\ fresh' \in BOOLEAN
  <2>1. CASE Confirm
    <3>1. Wave \subseteq Sessions
      <4>1. started \in 0 .. Len(Order)
        BY <1>2 DEF TypeOK
      <4>2. First(started) \subseteq Sessions
        BY <4>1, ConstantTypes
      <4> QED
        BY <4>2 DEF Wave
    <3>2. todo' = GeneratorsOf(Wave) /\ fresh' = fresh
      BY <2>1 DEF Confirm, HarnessFrame, samplerVars
    <3> QED
      BY <1>2, <3>1, <3>2, GeneratorsMonotonic DEF TypeOK
  <2>2. CASE Confirmed \/ Checked \/ Injected \/ Exit
    <3>1. todo' \subseteq Gobgp \/ todo' = todo
      BY <2>2 DEF Confirmed, Checked, Injected, Exit
    <3>2. fresh' = fresh \/ fresh' = FALSE
      BY <2>2 DEF Confirmed, Checked, Injected, Exit, HarnessFrame, samplerVars
    <3> QED
      BY <1>2, <3>1, <3>2 DEF TypeOK
  <2> QED
    BY <2>1, <2>2
<1>4. LoadedInv' /\ ConvergedRowsAreWhole'
  BY <1>1, <1>2 DEF LoadedInv, ConvergedRowsAreWhole, First
<1>5. CASE Exit
  <2>1. /\ pc = "exit" /\ pc' = "done"
        /\ verdict' = IF failed \/ (command = "bringup" /\ injected # Gobgp)
                        THEN "1" ELSE "0"
    BY <1>5 DEF Exit
  <2>2. verdict' \in {"0", "1"} /\ verdict' # "none" /\ verdict' \in Verdicts
    BY <2>1 DEF Verdicts
  <2>3. TypeOK'
    <3>1. {running, died, todo}' \subseteq SUBSET (GeneratorsOf(Sessions) \cup Gobgp)
      BY <1>1, <1>2, <1>3 DEF TypeOK
    <3>2. pc' = "done" /\ (verdict' # "none" <=> pc' = "done")
      BY <2>1, <2>2
    <3> QED
      BY <1>1, <1>2, <1>3, <2>2, <3>1, <3>2 DEF TypeOK
  <2>4. CommandInv' /\ FilesInv' /\ ExitInv'
    BY <1>1, <1>2, <2>1 DEF CommandInv, FilesInv, Visible, IsThere, ExitInv
  <2> QED
    BY <1>4, <2>3, <2>4 DEF IInv
<1>6. CASE Confirm \/ Confirmed \/ Checked \/ Injected
  <2>1. /\ verdict' = verdict
        /\ pc \in {"start", "confirm", "check", "inject"}
        /\ pc' \in {"confirm", "check", "inject", "exit", "wait"}
    BY <1>6 DEF Confirm, Confirmed, Checked, Injected
  <2>2. verdict = "none"
    BY <1>2, <2>1 DEF TypeOK
  <2>3. TypeOK'
    BY <1>1, <1>2, <1>3, <2>1, <2>2 DEF TypeOK
  <2>4. CommandInv'
    BY <1>1, <1>2, <1>6 DEF Confirm, Confirmed, Checked, Injected, CommandInv
  <2>5. FilesInv'
    <3> SUFFICES ASSUME command = "bringup", ~failed
                 PROVE  /\ pc' = "check" => \A s \in Gobgp \ todo' : Visible(s)
                        /\ pc' \in {"inject", "exit", "done"} =>
                             \A s \in Gobgp : Visible(s)
      BY <1>1 DEF FilesInv, Gobgp, Visible, IsThere
    <3>1. CASE Confirm
      BY <3>1 DEF Confirm
    <3>2. CASE Confirmed
      <4>1. pc' = "check" /\ todo' = Gobgp \cap First(started)
        BY <3>2 DEF Confirmed
      <4>2. Gobgp \subseteq First(started)
        BY <1>2, ConstantTypes DEF CommandInv, Gobgp
      <4> QED
        BY <4>1, <4>2
    <3>3. CASE Checked
      <4>1. pc = "check" /\ todo = {} /\ pc' = "inject"
        BY <3>3 DEF Checked
      <4> QED
        BY <1>2, <4>1 DEF FilesInv
    <3>4. CASE Injected
      <4>1. pc = "inject" /\ pc' = "exit"
        BY <3>4 DEF Injected
      <4> QED
        BY <1>2, <4>1 DEF FilesInv
    <3> QED
      BY <1>6, <3>1, <3>2, <3>3, <3>4
  <2>6. ExitInv'
    BY <1>1, <2>1, <2>2 DEF ExitInv
  <2> QED
    BY <1>4, <2>3, <2>4, <2>5, <2>6 DEF IInv
<1> QED
  BY <1>5, <1>6

(* A file that does not pass the check is a failure. *)
LEMMA CheckTableStep ==
    ASSUME IInv, NEW s \in Gobgp, CheckTable(s)
    PROVE  IInv'
<1>1. /\ pc = "check" /\ s \in todo /\ todo' = todo \ {s}
      /\ \/ Visible(s) /\ failed' = failed /\ hidden' = hidden
         \/ failed' = TRUE /\ hidden' = hidden \cup {s}
      /\ UNCHANGED <<onHost, command, width, latest, fresh, file, bootFile, helperLog, up, running,
                     table, booted, died, pc, injected, step, started, row, verdict>>
  BY DEF CheckTable, HarnessFrame, Done, fixedVars, samplerVars
<1>2. TypeOK /\ CommandInv /\ FilesInv /\ LoadedInv /\ ExitInv /\ ConvergedRowsAreWhole
  BY DEF IInv
<1>3. TypeOK'
  <2>1. upsets' \in 0 .. MaxUpsets
    BY <1>2, UpsetType DEF CheckTable
  <2>2. {running', died', todo'} \subseteq SUBSET (GeneratorsOf(Sessions) \cup Gobgp)
    BY <1>1, <1>2 DEF TypeOK
  <2>3. failed' \in BOOLEAN
    <3>1. failed \in BOOLEAN
      BY <1>2 DEF TypeOK
    <3> QED
      BY <1>1, <3>1
  <2>4. {hidden', injected'} \subseteq SUBSET Gobgp
    <3>1. hidden \subseteq Gobgp /\ injected \subseteq Gobgp
      BY <1>2 DEF TypeOK
    <3>2. hidden' \subseteq Gobgp /\ injected' \subseteq Gobgp
      BY <1>1, <3>1
    <3> QED
      BY <3>2
  <2> QED
    BY <1>1, <1>2, <2>1, <2>2, <2>3, <2>4 DEF TypeOK
<1>4. verdict = "none"
  BY <1>1, <1>2 DEF TypeOK
<1>5. FilesInv'
  <2> SUFFICES ASSUME command = "bringup", ~failed', NEW t \in Gobgp \ todo'
               PROVE  Visible(t)
    BY <1>1 DEF FilesInv, Gobgp, Visible, IsThere
  <2>1. Visible(s) /\ ~failed
    BY <1>1
  <2>2. t = s \/ t \in Gobgp \ todo
    BY <1>1
  <2> QED
    BY <1>1, <1>2, <2>1, <2>2 DEF FilesInv
<1>6. CommandInv' /\ LoadedInv' /\ ExitInv' /\ ConvergedRowsAreWhole'
  BY <1>1, <1>2, <1>4 DEF CommandInv, LoadedInv, ExitInv, ConvergedRowsAreWhole, First
<1> QED
  BY <1>3, <1>5, <1>6 DEF IInv

(* Whatever an injection returns, the table of another session stays, and
   this one's is its file or what it was. *)
LEMMA InjectStep ==
    ASSUME IInv, NEW s \in Gobgp, Inject(s)
    PROVE  IInv'
<1>1. /\ pc = "inject" /\ s \in todo /\ todo' = todo \ {s}
      /\ UNCHANGED <<onHost, command, width, latest, fresh, file, bootFile, helperLog, up, running,
                     booted, pc, failed, hidden, step, started, row, verdict>>
      /\ \/ /\ IsThere(s) /\ table' = Loaded(s) /\ died' = died \ {s}
            /\ injected' \in {injected, injected \cup {s}}
         \/ UNCHANGED <<table, died, injected>>
  BY DEF Inject, HarnessFrame, Done, fixedVars, samplerVars
<1>2. TypeOK /\ CommandInv /\ FilesInv /\ LoadedInv /\ ExitInv /\ ConvergedRowsAreWhole
  BY DEF IInv
<1>3. TypeOK'
  <2>1. upsets' \in 0 .. MaxUpsets
    BY <1>2, UpsetType DEF Inject
  <2>2. {running', died', todo'} \subseteq SUBSET (GeneratorsOf(Sessions) \cup Gobgp)
    BY <1>1, <1>2 DEF TypeOK
  <2>3. table' \in [Gobgp -> {NoTable, "whole", "other"}]
    <3>1. /\ table \in [Gobgp -> {NoTable, "whole", "other"}]
          /\ file \in [Gobgp -> {"whole", "other", "missing"}]
      BY <1>2 DEF TypeOK
    <3> QED
      BY <1>1, <3>1 DEF Loaded, IsThere
  <2>4. {hidden', injected'} \subseteq SUBSET Gobgp
    BY <1>1, <1>2 DEF TypeOK
  <2> QED
    BY <1>1, <1>2, <2>1, <2>2, <2>3, <2>4 DEF TypeOK
<1>4. verdict = "none"
  BY <1>1, <1>2 DEF TypeOK
<1>5. LoadedInv'
  <2>1. CASE UNCHANGED <<table, died, injected>>
    BY <1>1, <1>2, <2>1 DEF LoadedInv
  <2>2. CASE /\ table' = Loaded(s) /\ died' = died \ {s}
             /\ injected' \in {injected, injected \cup {s}}
    <3>1. table \in [Gobgp -> {NoTable, "whole", "other"}] /\ injected' \subseteq Gobgp
      BY <1>2, <2>2 DEF TypeOK
    <3>2. table'[s] = file[s] /\ \A t \in Gobgp \ {s} : table'[t] = table[t]
      BY <2>2, <3>1 DEF Loaded
    <3>3. ASSUME NEW t \in injected' PROVE table'[t] = file'[t] \/ t \in died'
      <4>1. CASE t = s
        BY <1>1, <3>2, <4>1
      <4>2. CASE t # s
        <5>1. t \in injected /\ t \in Gobgp
          BY <2>2, <3>1, <4>2
        <5> QED
          BY <1>1, <1>2, <2>2, <3>2, <4>2, <5>1 DEF LoadedInv
      <4> QED
        BY <4>1, <4>2
    <3> QED
      BY <3>3 DEF LoadedInv
  <2> QED
    BY <1>1, <2>1, <2>2
<1>6. CommandInv' /\ FilesInv' /\ ExitInv' /\ ConvergedRowsAreWhole'
  BY <1>1, <1>2, <1>4 DEF CommandInv, FilesInv, Visible, IsThere, ExitInv,
                           ConvergedRowsAreWhole, First
<1> QED
  BY <1>3, <1>5, <1>6 DEF IInv

----------------------------------------------------------------------------
(***************************************************************************)
(* cmd_ramp                                                                *)
(***************************************************************************)
(* A step of a ramp tells nothing of a bring-up.                           *)
LEMMA RampKeeps ==
    ASSUME IInv, TypeOK', command = "ramp",
           UNCHANGED <<command, injected, table, file, died>>,
           ConvergedRowsAreWhole'
    PROVE  IInv'
<1>1. CommandInv' /\ FilesInv' /\ ExitInv'
  BY DEF CommandInv, FilesInv, ExitInv
<1>2. LoadedInv'
  BY DEF IInv, LoadedInv
<1> QED
  BY <1>1, <1>2 DEF IInv

LEMMA StepStep == IInv /\ Step => IInv'
<1> SUFFICES ASSUME IInv, Step PROVE IInv'
  OBVIOUS
<1>1. /\ pc = "step" /\ step < MaxSteps /\ step' = step + 1 /\ started' = WithWave
      /\ todo' = GeneratorsOf(First(WithWave) \ First(started))
      /\ pc' = "start" /\ row' = NoRow /\ verdict' = verdict
      /\ UNCHANGED <<upsets, file, bootFile, running, table, booted, helperLog, up, died,
                     latest, fresh, onHost, command, width, failed, hidden, injected>>
  BY DEF Step, RampFrame, peersVars, samplerVars, fixedVars
<1>2. TypeOK /\ CommandInv
  BY DEF IInv
<1>3. WithWave \in 0 .. Len(Order) /\ step' \in 0 .. MaxSteps
  <2>1. /\ started \in 0 .. Len(Order) /\ width \in 1 .. Len(Order)
        /\ step \in 0 .. MaxSteps
    BY <1>2 DEF TypeOK
  <2> QED
    BY <1>1, <2>1, ConstantTypes DEF WithWave, Smaller
<1>4. todo' \subseteq GeneratorsOf(Sessions)
  <2>1. First(WithWave) \subseteq Sessions
    BY <1>3, ConstantTypes
  <2> QED
    BY <1>1, <2>1, GeneratorsMonotonic
<1>5. row' \in [converged : BOOLEAN, shown : SUBSET Sessions] /\ row'.converged = FALSE
  BY <1>1 DEF NoRow
<1>6. verdict = "none"
  BY <1>1, <1>2 DEF TypeOK
<1>7. TypeOK'
  BY <1>1, <1>2, <1>3, <1>4, <1>5, <1>6 DEF TypeOK
<1>8. command = "ramp"
  BY <1>1, <1>2 DEF CommandInv
<1>9. ConvergedRowsAreWhole'
  BY <1>5 DEF ConvergedRowsAreWhole
<1> QED
  BY <1>1, <1>7, <1>8, <1>9, RampKeeps

(* No peer is failed in a record the gate is opened by, so all sessions are
   Established in it, and those that were started are some of them. *)
LEMMA WaitStep == IInv /\ (Converges \/ TimesOut) => IInv'
<1> SUFFICES ASSUME IInv, Converges \/ TimesOut PROVE IInv'
  OBVIOUS
<1>1. /\ pc = "wait" /\ pc' = "judge"
      /\ UNCHANGED <<upsets, file, bootFile, running, table, booted, helperLog, up, died,
                     latest, fresh, onHost, command, width, failed, hidden, injected, todo, step,
                     started, verdict>>
  BY DEF Converges, TimesOut, RampFrame, peersVars, samplerVars, fixedVars
<1>2. TypeOK /\ CommandInv
  BY DEF IInv
<1>3. /\ row'.shown = latest.established /\ row'.converged \in BOOLEAN
      /\ row' \in [converged : BOOLEAN, shown : SUBSET Sessions]
      /\ row'.converged => SessionsOK(latest)
  <2>1. latest.established \subseteq Sessions
    BY <1>2 DEF TypeOK
  <2>2. CASE Converges
    BY <2>1, <2>2 DEF Converges
  <2>3. CASE TimesOut
    BY <2>1, <2>3 DEF TimesOut
  <2> QED
    BY <2>2, <2>3
<1>4. TypeOK'
  <2>1. verdict = "none"
    BY <1>1, <1>2 DEF TypeOK
  <2> QED
    BY <1>1, <1>2, <1>3, <2>1 DEF TypeOK
<1>5. command = "ramp"
  BY <1>1, <1>2 DEF CommandInv
<1>6. ConvergedRowsAreWhole'
  <2> SUFFICES ASSUME row'.converged PROVE First(started) \subseteq latest.established
    BY <1>1, <1>3 DEF ConvergedRowsAreWhole, First
  <2>1. Sessions \subseteq latest.established
    BY <1>3 DEF SessionsOK, EnoughUp, FailedPeers
  <2>2. First(started) \subseteq Sessions
    BY <1>2, ConstantTypes DEF TypeOK
  <2> QED
    BY <2>1, <2>2
<1> QED
  BY <1>1, <1>4, <1>5, <1>6, RampKeeps

LEMMA EndStep == IInv /\ (AllSteps \/ Judge \/ Interrupt) => IInv'
<1> SUFFICES ASSUME IInv, AllSteps \/ Judge \/ Interrupt PROVE IInv'
  OBVIOUS
<1>1. UNCHANGED <<upsets, file, bootFile, running, table, booted, helperLog, up, died,
                  latest, fresh, onHost, command, width, failed, hidden, injected, todo, step,
                  started, row>>
  BY DEF AllSteps, Judge, Interrupt, RampFrame, peersVars, samplerVars, fixedVars
<1>2. TypeOK /\ CommandInv /\ ConvergedRowsAreWhole
  BY DEF IInv
<1>3. /\ pc # "done" /\ verdict' \in Verdicts
      /\ \/ pc' = "done" /\ verdict' # "none"
         \/ pc' = "step" /\ verdict' = verdict
  <2>1. CASE AllSteps \/ Interrupt
    BY <2>1 DEF AllSteps, Interrupt, Verdicts
  <2>2. CASE Judge
    <3>1. verdict \in Verdicts
      BY <1>2 DEF TypeOK
    <3> QED
      BY <2>2, <3>1 DEF Judge, Verdicts
  <2> QED
    BY <2>1, <2>2
<1>4. verdict = "none"
  BY <1>2, <1>3 DEF TypeOK
<1>5. TypeOK'
  BY <1>1, <1>2, <1>3, <1>4 DEF TypeOK
<1>6. command = "ramp"
  BY <1>2 DEF AllSteps, Judge, Interrupt, CommandInv
<1>7. ConvergedRowsAreWhole'
  BY <1>1, <1>2 DEF ConvergedRowsAreWhole, First
<1> QED
  BY <1>1, <1>5, <1>6, <1>7, RampKeeps

----------------------------------------------------------------------------
(* The conjunction of all parts is an invariant. *)
THEOREM Inductive == Spec => []IInv
<1>1. IInv /\ [Next]_vars => IInv'
  <2> SUFFICES ASSUME IInv, [Next]_vars PROVE IInv'
    OBVIOUS
  <2>1. CASE World
    BY <2>1, DiesStep, SessionsStep, HelperBootsStep, SampleStep DEF World
  <2>2. CASE \E g \in GeneratorsOf(Sessions) : StartGenerator(g) \/ ConfirmGenerator(g)
    BY <2>2, StartGeneratorStep, ConfirmGeneratorStep
  <2>3. CASE \E s \in Gobgp : CheckTable(s) \/ Inject(s)
    BY <2>3, CheckTableStep, InjectStep
  <2>4. CASE Confirm \/ Confirmed \/ Checked \/ Injected \/ Exit
    BY <2>4, StageStep
  <2>5. CASE Step \/ AllSteps \/ Converges \/ TimesOut \/ Judge \/ Interrupt
    BY <2>5, StepStep, WaitStep, EndStep
  <2>6. CASE UNCHANGED vars
    <3>1. UNCHANGED <<upsets, file, bootFile, running, table, booted, helperLog, up, died,
                      latest, fresh, onHost, command, width, pc, todo, failed, hidden, injected,
                      step, started, row, verdict>>
      BY <2>6 DEF vars, peersVars, samplerVars, fixedVars, harnessVars
    <3>2. TypeOK'
      BY <3>1 DEF IInv, TypeOK
    <3> QED
      BY <3>1, <3>2, WorldKeeps DEF IInv, TypeOK
  <2> QED
    BY <2>1, <2>2, <2>3, <2>4, <2>5, <2>6 DEF Next
<1> QED
  BY InitOK, <1>1, PTL DEF Spec

(* Every reachable state of a bring-up or a ramp is well typed. *)
THEOREM TypeCorrect == Spec => []TypeOK
<1>1. IInv => TypeOK
  BY DEF IInv
<1> QED
  BY Inductive, <1>1, PTL

(* cmd_bringup: where its exit code is 0, every gobgp session announces a
   table, and one of the size of the file generated for it if that is on the
   host; or its generator died after it was loaded. *)
THEOREM ZeroIsLoaded == Spec => []ExitZeroIsLoaded
<1>1. IInv => ExitZeroIsLoaded
  <2> SUFFICES ASSUME IInv, command = "bringup", verdict = "0", NEW s \in Gobgp \ died
               PROVE  table[s] # NoTable /\ (s \in onHost => table[s] = "whole")
    BY DEF ExitZeroIsLoaded
  <2>1. pc = "done"
    BY DEF IInv, TypeOK
  <2>2. s \in injected /\ Visible(s)
    BY <2>1 DEF IInv, ExitInv, FilesInv
  <2>3. table[s] = file[s]
    BY <2>2 DEF IInv, LoadedInv
  <2>4. file[s] \in {"whole", "other", "missing"}
    BY DEF IInv, TypeOK
  <2> QED
    BY <2>2, <2>3, <2>4 DEF Visible, IsThere, NoTable
<1> QED
  BY Inductive, <1>1, PTL

(* cmd_ramp: a row that says converged quotes a record in which all sessions
   that were started are Established. *)
THEOREM ConvergedIsWhole == Spec => []ConvergedRowsAreWhole
<1>1. IInv => ConvergedRowsAreWhole
  BY DEF IInv
<1> QED
  BY Inductive, <1>1, PTL

=============================================================================
