---------------------------- MODULE ActionProofs ----------------------------
(***************************************************************************)
(* Proofs about the action transaction and its recovery, for any limits    *)
(* and any number of transactions.  For any number of processes: types,    *)
(* and that what is executed was charged and licensed on disk beforehand.  *)
(* For one: the journal tells one story, whatever is left can be           *)
(* reconciled, and the transaction implements the bounded lease.  What the *)
(* store does in a step comes from StoreProofs.                            *)
(***************************************************************************)
EXTENDS ConstitutionalAction, StoreProofs, FiniteSetTheorems

ChargedFor(tx) == \E k \in DOMAIN history : history[k].snap.pending = tx
LicensedFor(tx) ==
  \E k \in DOMAIN journal : journal[k].tx = tx /\ journal[k].type = "LICENSED"
PerformedFor(tx) == \E i \in DOMAIN performed : performed[i].tx = tx

\* A command on its way to the adapter: what it has left to do tells what it has
\* already put on disk.
Licensing(r) ==
  \/ r.todo = <<SaveStep(Charged(r.loaded, r.tx, r.ticks)),
                LogStep(Event(r.tx, "LICENSED")), ExecuteStep>>
  \/ r.todo = <<LogStep(Event(r.tx, "LICENSED")), ExecuteStep>> /\ ChargedFor(r.tx)
  \/ r.todo = <<ExecuteStep>> /\ ChargedFor(r.tx) /\ LicensedFor(r.tx)

\* Any other: it executes nothing, and what it reports first was performed.
Reporting(r) ==
  \A j \in DOMAIN r.todo :
    /\ r.todo[j].do # "execute"
    /\ r.todo[j].line.type = "OUTCOME" => j = 1 /\ PerformedFor(r.todo[j].line.tx)

RunOK(r) ==
  /\ r.phase = "work" => r.todo # <<>> /\ (Licensing(r) \/ Reporting(r))
  /\ r.phase = "reconcile" => r.status \notin {"CLEAN", "RAISES"}

\* A save under way is of the state its command has come to, and is in the
\* history once it goes on to replace the state file.
SaveOK(s, r) ==
  s.phase # "idle" =>
    /\ r.phase = "work" /\ Head(r.todo).do = "save"
    /\ s.next = Head(r.todo).state
    /\ s.phase = "replace" => \E k \in DOMAIN history : history[k].snap = s.next

CommandsOK == \A p \in Procs : RunOK(run[p]) /\ SaveOK(saving[p], run[p])

AheadInv ==
  /\ \A i \in DOMAIN performed :
       ChargedFor(performed[i].tx) /\ LicensedFor(performed[i].tx)
  /\ \A k \in DOMAIN journal :
       journal[k].type = "OUTCOME" => PerformedFor(journal[k].tx)

ActionInv == StoreInv /\ ActionTypeOK /\ CommandsOK /\ AheadInv

-----------------------------------------------------------------------------
(* Sequences, states and steps.                                            *)

JournalLine == [prev : Nat, tx : Nat, type : EventTypes, ok : BOOLEAN]
Performance == [tx : Nat, lease : Nat]

LEMMA SeqElements ==
  ASSUME NEW S, NEW q \in Seq(S)
  PROVE  /\ Len(q) \in Nat /\ DOMAIN q = 1 .. Len(q)
         /\ \A i \in DOMAIN q : q[i] \in S
  OBVIOUS

LEMMA SeqAppend ==
  ASSUME NEW S, NEW q \in Seq(S), NEW e \in S
  PROVE  /\ Append(q, e) \in Seq(S)
         /\ Len(Append(q, e)) = Len(q) + 1
         /\ DOMAIN Append(q, e) = 1 .. (Len(q) + 1)
         /\ DOMAIN q \subseteq DOMAIN Append(q, e)
         /\ Append(q, e)[Len(q) + 1] = e
         /\ \A i \in DOMAIN q : Append(q, e)[i] = q[i]
         /\ \A i \in DOMAIN Append(q, e) : i \in DOMAIN q \/ Append(q, e)[i] = e
  OBVIOUS

LEMMA SeqGrows ==
  ASSUME NEW S, NEW T, S \subseteq T
  PROVE  Seq(S) \subseteq Seq(T)
  OBVIOUS

LEMMA SeqTail ==
  ASSUME NEW S, NEW q \in Seq(S), q # <<>>, Len(q) # 1
  PROVE  /\ Tail(q) \in Seq(S) /\ Tail(q) # <<>>
         /\ \A j \in DOMAIN Tail(q) : j \in Nat /\ j + 1 \in DOMAIN q /\ j + 1 # 1
                                     /\ Tail(q)[j] = q[j + 1]
<1>0. Len(q) \in Nat /\ Len(q) > 0
  OBVIOUS
<1>1. Len(q) \in Nat /\ Len(q) > 1
  BY <1>0
<1>2. Tail(q) \in Seq(S) /\ Len(Tail(q)) = Len(q) - 1
  BY <1>1
<1>3. \A j \in DOMAIN Tail(q) : j \in 1 .. (Len(q) - 1) /\ Tail(q)[j] = q[j + 1]
  BY <1>1, <1>2
<1>4. DOMAIN q = 1 .. Len(q)
  OBVIOUS
<1>5. Tail(q) # <<>>
  BY <1>1, <1>2
<1> QED
  BY <1>1, <1>2, <1>3, <1>4, <1>5

LEMMA SnapshotTypes ==
  ASSUME NEW p \in Procs, NEW s \in Snapshot, NEW tx \in Nat, NEW ticks \in Nat
  PROVE  /\ Collapsed(p, s, tx) \in Snapshot
         /\ Charged(s, tx, ticks) \in Snapshot
         /\ Charged(s, tx, ticks).pending = tx
         /\ Completed(s, tx) \in Snapshot
         /\ Promoted(p, s) \in Snapshot
<1>1. /\ s.used + 1 \in Nat /\ s.ticks + ticks \in Nat /\ s.revision + 1 \in Nat
      /\ Genesis \in Snapshot
  BY GenesisType DEF Snapshot
<1>2. Collapsed(p, s, tx) \in Snapshot
  BY <1>1 DEF Collapsed, Snapshot
<1>3. Charged(s, tx, ticks) \in Snapshot /\ Charged(s, tx, ticks).pending = tx
  BY <1>1 DEF Charged, Snapshot
<1>4. Completed(s, tx) \in Snapshot
  BY DEF Completed, Snapshot
<1>5. Promoted(p, s) \in Snapshot
  BY <1>1 DEF Promoted, Snapshot, Modes
<1> QED
  BY <1>2, <1>3, <1>4, <1>5

LEMMA StepTypes ==
  /\ \A s \in Snapshot : SaveStep(s) \in Step
  /\ \A tx \in Nat, type \in EventTypes : Event(tx, type) \in Line
  /\ \A tx \in Nat, ok \in BOOLEAN : Outcome(tx, ok) \in Line
  /\ \A line \in Line : LogStep(line) \in Step
  /\ ExecuteStep \in Step
  BY GenesisType DEF SaveStep, LogStep, ExecuteStep, Step, Event, Outcome, Line, EventTypes

LEMMA IdleType == Idle \in Run /\ RunOK(Idle)
<1>1. Idle \in Run
  BY GenesisType DEF Idle, Run, Statuses, NotAppending
<1>2. RunOK(Idle)
  BY DEF Idle, RunOK
<1> QED
  BY <1>1, <1>2

LEMMA ActionInvInit == Init => ActionInv
<1> SUFFICES ASSUME Init PROVE ActionInv
  OBVIOUS
<1>1. StoreInv
  BY StoreInitInv DEF Init
<1>2. ActionTypeOK
  <2>1. journal \in Seq(JournalLine) /\ performed \in Seq(Performance)
    BY DEF Init
  <2>2. run \in [Procs -> Run]
    BY IdleType DEF Init
  <2> QED
    BY <1>1, <2>1, <2>2 DEF Init, ActionTypeOK, StoreInv, JournalLine, Performance
<1>3. CommandsOK
  BY IdleType DEF Init, StoreInit, CommandsOK, SaveOK, NotSaving
<1>4. AheadInv
  BY DEF Init, AheadInv
<1> QED
  BY <1>1, <1>2, <1>3, <1>4 DEF ActionInv

-----------------------------------------------------------------------------
(* Frames.                                                                 *)

\* The files and the record of executions are only ever appended to.
Grown ==
  /\ DOMAIN history \subseteq DOMAIN history'
  /\ \A k \in DOMAIN history : history'[k] = history[k]
  /\ DOMAIN journal \subseteq DOMAIN journal'
  /\ \A k \in DOMAIN journal : journal'[k] = journal[k]
  /\ DOMAIN performed \subseteq DOMAIN performed'
  /\ \A i \in DOMAIN performed : performed'[i] = performed[i]

LEMMA GrownKeeps ==
  ASSUME Grown
  PROVE  \A tx : /\ ChargedFor(tx) => ChargedFor(tx)'
                 /\ LicensedFor(tx) => LicensedFor(tx)'
                 /\ PerformedFor(tx) => PerformedFor(tx)'
  BY DEF Grown, ChargedFor, LicensedFor, PerformedFor

LEMMA RunKept ==
  ASSUME Grown, NEW r, RunOK(r)
  PROVE  RunOK(r)'
<1>1. Licensing(r) => Licensing(r)'
  BY GrownKeeps DEF Licensing
<1>2. Reporting(r) => Reporting(r)'
  BY GrownKeeps DEF Reporting
<1> QED
  BY <1>1, <1>2 DEF RunOK

LEMMA SaveKept ==
  ASSUME Grown, NEW r, NEW s, NEW t, SaveOK(s, r), t.phase = s.phase, t.next = s.next
  PROVE  SaveOK(t, r)'
  BY DEF SaveOK, Grown

\* What a step of process p has to show.
LEMMA ProcessStep ==
  ASSUME ActionInv, StoreInv', ActionTypeOK', Grown, NEW p \in Procs,
         \A q \in Procs \ {p} : /\ run'[q] = run[q]
                                /\ saving'[q].phase = saving[q].phase
                                /\ saving'[q].next = saving[q].next,
         RunOK(run[p])', SaveOK(saving[p], run[p])', AheadInv'
  PROVE  ActionInv'
<1>1. ASSUME NEW q \in Procs \ {p}
      PROVE  RunOK(run[q])' /\ SaveOK(saving[q], run[q])'
  <2>1. RunOK(run[q]) /\ SaveOK(saving[q], run[q])
    BY DEF ActionInv, CommandsOK
  <2>2. RunOK(run[q])'
    BY <2>1, RunKept DEF RunOK, Licensing, Reporting
  <2>3. SaveOK(saving[q], run[q])'
    BY <2>1, SaveKept DEF SaveOK
  <2> QED
    BY <2>2, <2>3
<1>2. CommandsOK'
  BY <1>1 DEF CommandsOK
<1> QED
  BY <1>2 DEF ActionInv

LEMMA AheadKept ==
  ASSUME AheadInv, Grown, UNCHANGED <<journal, performed>>
  PROVE  AheadInv'
  BY GrownKeeps DEF AheadInv

\* A process reads, decides or gives up: nothing of the files changes.
LEMMA CommandStep ==
  ASSUME ActionInv, NEW p \in Procs, NEW r \in Run, RunOK(r),
         run' = [run EXCEPT ![p] = r],
         UNCHANGED <<storeVars, journalVars, control, performed>>, next_tx' \in Nat,
         saving[p].phase = "idle"
  PROVE  ActionInv'
<1>1. StoreInv'
  BY StoreStutterInv DEF ActionInv
<1>2. ActionTypeOK'
  BY <1>1 DEF ActionInv, ActionTypeOK, StoreInv, journalVars
<1>3. Grown
  BY DEF Grown, storeVars, journalVars
<1>4. run'[p] = r /\ \A q \in Procs \ {p} : run'[q] = run[q]
  BY DEF ActionInv, ActionTypeOK
<1>5. RunOK(run[p])'
  BY <1>3, <1>4, RunKept DEF RunOK, Licensing, Reporting
<1>6. SaveOK(saving[p], run[p])'
  BY DEF SaveOK, storeVars
<1>7. AheadInv'
  BY <1>3, AheadKept DEF ActionInv, journalVars
<1> QED
  BY <1>1, <1>2, <1>3, <1>4, <1>5, <1>6, <1>7, ProcessStep DEF storeVars

LEMMA FinishStep ==
  ASSUME ActionInv, NEW p \in Procs, Finish(p), saving[p].phase = "idle",
         UNCHANGED <<storeVars, journalVars, control, performed, next_tx>>
  PROVE  ActionInv'
<1>1. next_tx' \in Nat
  BY DEF ActionInv, ActionTypeOK
<1> QED
  BY <1>1, IdleType, CommandStep DEF Finish

\* A process that is not at a save has none under way.
LEMMA NotAtSave ==
  ASSUME ActionInv, NEW p \in Procs,
         run[p].phase # "work" \/ Head(run[p].todo).do # "save"
  PROVE  saving[p].phase = "idle"
  BY DEF ActionInv, CommandsOK, SaveOK

LEMMA RunType ==
  ASSUME ActionInv, NEW p \in Procs
  PROVE  /\ run[p] \in Run /\ RunOK(run[p])
         /\ run[p].loaded \in Snapshot /\ run[p].tx \in Nat /\ run[p].ticks \in Nat
         /\ run[p].todo \in Seq(Step)
  BY DEF ActionInv, ActionTypeOK, CommandsOK, Run

LEMMA CurrentType ==
  ASSUME ActionInv, Readable
  PROVE  /\ Current \in Snapshot /\ Current.revision \in Nat
         /\ Current.pending \in Nat
<1>1. history \in Seq(Entry) /\ Len(history) \in Nat /\ state_file \in Nat \union {Torn}
  BY DEF ActionInv, StoreInv, StoreTypeOK
<1>2. state_file \in 1 .. Len(history)
  BY <1>1 DEF Readable, NoFile
<1>3. history[state_file] \in Entry
  BY <1>1, <1>2
<1> QED
  BY <1>3 DEF Current, Entry, Snapshot

-----------------------------------------------------------------------------
(* Commands that execute nothing.                                          *)

HarmlessStep == {step \in Step : step.do # "execute" /\ step.line.type # "OUTCOME"}

LEMMA HarmlessTypes ==
  /\ \A s \in Snapshot : SaveStep(s) \in HarmlessStep
  /\ \A tx \in Nat, type \in EventTypes \ {"OUTCOME"} :
       LogStep(Event(tx, type)) \in HarmlessStep
<1>1. ASSUME NEW s \in Snapshot
      PROVE  SaveStep(s) \in HarmlessStep
  <2>1. SaveStep(s) \in Step
    BY StepTypes
  <2> QED
    BY <2>1 DEF SaveStep, Event, HarmlessStep
<1>2. ASSUME NEW tx \in Nat, NEW type \in EventTypes \ {"OUTCOME"}
      PROVE  LogStep(Event(tx, type)) \in HarmlessStep
  <2>1. LogStep(Event(tx, type)) \in Step
    BY StepTypes
  <2> QED
    BY <2>1 DEF LogStep, Event, HarmlessStep
<1> QED
  BY <1>1, <1>2

LEMMA HarmlessTodo ==
  ASSUME NEW r, r.todo \in Seq(HarmlessStep), r.todo # <<>>, r.phase = "work"
  PROVE  RunOK(r)
<1>1. \A j \in DOMAIN r.todo : r.todo[j] \in HarmlessStep
  BY SeqElements
<1> QED
  BY <1>1 DEF RunOK, Reporting, HarmlessStep

LEMMA ShortSequences ==
  ASSUME NEW S, NEW a \in S, NEW b \in S, NEW c \in S
  PROVE  /\ <<>> \in Seq(S)
         /\ <<a>> \in Seq(S) /\ <<a>> # <<>>
         /\ <<a, b>> \in Seq(S) /\ <<a, b>> # <<>>
         /\ <<a, b, c>> \in Seq(S) /\ <<a, b, c>> # <<>>
  OBVIOUS

LEMMA Concatenation ==
  ASSUME NEW S, NEW q \in Seq(S), NEW t \in Seq(S), t # <<>>
  PROVE  q \o t \in Seq(S) /\ q \o t # <<>>
<1>1. q \o t \in Seq(S) /\ Len(q \o t) = Len(q) + Len(t)
  OBVIOUS
<1>2. Len(q) \in Nat /\ Len(t) \in Nat /\ Len(t) > 0
  OBVIOUS
<1> QED
  BY <1>1, <1>2

\* What a recovery decides on is harmless: it never executes, and journals no
\* outcome of its own.
LEMMA ReconcileHarmless ==
  ASSUME NEW p \in Procs, NEW s \in Snapshot, run[p].tx \in Nat,
         run[p].status \in Statuses \ {"CLEAN", "RAISES"}
  PROVE  ReconcileSteps(p, s) \in Seq(HarmlessStep) /\ ReconcileSteps(p, s) # <<>>
<1> DEFINE tx == run[p].tx
           H == HarmlessStep
           first == IF ~Succeeded(tx) THEN SaveStep(Collapsed(p, s, tx))
                    ELSE IF Lapsed(s, run[p].seen) THEN SaveStep(Collapsed(p, s, 0))
                    ELSE SaveStep(Completed(s, tx))
           collapse == SaveStep(Collapsed(p, s, 0))
           before == IF Lapsed(s, run[p].seen) THEN <<collapse>> ELSE <<>>
           audit == LogStep(Event(0, "RECOVERY"))
<1>1. first \in H /\ collapse \in H
  BY SnapshotTypes, HarmlessTypes, Zenon
<1>2. audit \in H /\ LogStep(Event(tx, "RECOVERY")) \in H /\ LogStep(Event(tx, "COMMITTED")) \in H
  BY HarmlessTypes DEF EventTypes
<1>3. CloseSteps(tx) \in Seq(H) /\ CloseSteps(tx) # <<>>
  BY <1>2, ShortSequences DEF CloseSteps
<1>4. /\ <<first>> \in Seq(H) /\ <<collapse>> \in Seq(H)
      /\ <<collapse, audit>> \in Seq(H) /\ <<collapse, audit>> # <<>>
  BY <1>1, <1>2, ShortSequences
<1>5. before \in Seq(H)
  BY <1>4
<1>6. /\ <<first>> \o CloseSteps(tx) \in Seq(H) /\ <<first>> \o CloseSteps(tx) # <<>>
      /\ <<collapse>> \o CloseSteps(tx) \in Seq(H) /\ <<collapse>> \o CloseSteps(tx) # <<>>
      /\ before \o CloseSteps(tx) \in Seq(H) /\ before \o CloseSteps(tx) # <<>>
  BY <1>3, <1>4, <1>5, Concatenation
<1>7. ReconcileSteps(p, s) \in
        {<<first>> \o CloseSteps(tx), <<collapse>> \o CloseSteps(tx),
         before \o CloseSteps(tx), CloseSteps(tx), <<collapse, audit>>}
  BY DEF ReconcileSteps, Statuses
<1> HIDE DEF first, collapse, before, audit
<1> QED
  BY <1>3, <1>4, <1>6, <1>7

-----------------------------------------------------------------------------
(* The commands, up to their first durable step.                           *)

LEMMA StartActionInv ==
  ASSUME ActionInv, NEW p \in Procs, NEW ticks \in 1 .. MaxClockTicks, StartAction(p, ticks)
  PROVE  ActionInv'
<1> DEFINE r == [Idle EXCEPT !.phase = "decide", !.loaded = Current,
                             !.tx = next_tx, !.ticks = ticks]
<1>1. Current \in Snapshot
  BY CurrentType DEF StartAction
<1>2. next_tx \in Nat /\ ticks \in Nat
  BY DEF ActionInv, ActionTypeOK
<1>3. r \in Run /\ r.phase = "decide"
  BY <1>1, <1>2, IdleType DEF Run
<1>4. saving[p].phase = "idle"
  BY NotAtSave DEF StartAction
<1>5. run' = [run EXCEPT ![p] = r]
  BY DEF StartAction
<1>6. UNCHANGED <<storeVars, journalVars, control, performed>> /\ next_tx' \in Nat
  BY <1>2 DEF StartAction
<1> HIDE DEF r
<1> QED
  BY <1>3, <1>4, <1>5, <1>6, CommandStep DEF RunOK

LEMMA DecideInv ==
  ASSUME ActionInv, NEW p \in Procs, Decide(p)
  PROVE  ActionInv'
<1> DEFINE old == run[p]
           licensed == <<SaveStep(Charged(old.loaded, old.tx, old.ticks)),
                         LogStep(Event(old.tx, "LICENSED")), ExecuteStep>>
           refused == <<LogStep(Event(old.tx, "REFUSED"))>>
           r(steps) == [old EXCEPT !.phase = "work", !.todo = steps, !.seen = lapsed]
<1>1. PICK steps \in {RefuseAndCollapse(p), refused, licensed} :
        run' = [run EXCEPT ![p].phase = "work", ![p].todo = steps, ![p].seen = lapsed]
  <2>1. control \in {"open", "review", "contained"}
    BY DEF ActionInv, ActionTypeOK
  <2> QED
    BY <2>1 DEF Decide
<1>2. /\ old \in Run /\ old.loaded \in Snapshot /\ old.tx \in Nat /\ old.ticks \in Nat
      /\ lapsed \in SUBSET Nat
  BY RunType DEF ActionInv, StoreInv, StoreTypeOK
<1>3. RefuseAndCollapse(p) \in Seq(HarmlessStep) /\ RefuseAndCollapse(p) # <<>>
  <2>1. /\ SaveStep(Collapsed(p, old.loaded, 0)) \in HarmlessStep
        /\ LogStep(Event(old.tx, "REFUSED")) \in HarmlessStep
    BY <1>2, SnapshotTypes, HarmlessTypes DEF EventTypes
  <2> QED
    BY <2>1, ShortSequences DEF RefuseAndCollapse
<1>4. refused \in Seq(HarmlessStep) /\ refused # <<>>
  <2>1. LogStep(Event(old.tx, "REFUSED")) \in HarmlessStep
    BY <1>2, HarmlessTypes DEF EventTypes
  <2> QED
    BY <2>1, ShortSequences
<1>5. licensed \in Seq(Step) /\ licensed # <<>>
  <2>1. /\ SaveStep(Charged(old.loaded, old.tx, old.ticks)) \in Step
        /\ LogStep(Event(old.tx, "LICENSED")) \in Step /\ ExecuteStep \in Step
    BY <1>2, SnapshotTypes, StepTypes DEF EventTypes
  <2> QED
    BY <2>1, ShortSequences
<1>6. HarmlessStep \subseteq Step
  BY DEF HarmlessStep
<1>7. steps \in Seq(Step)
  <2>1. Seq(HarmlessStep) \subseteq Seq(Step)
    BY <1>6, SeqGrows
  <2> HIDE DEF licensed, refused
  <2> QED
    BY <1>1, <1>3, <1>4, <1>5, <2>1
<1>8. r(steps) \in Run
  BY <1>2, <1>7 DEF Run
<1>9. /\ r(steps).phase = "work" /\ r(steps).todo = steps /\ r(steps).tx = old.tx
      /\ r(steps).loaded = old.loaded /\ r(steps).ticks = old.ticks
  BY <1>2 DEF Run
<1>10. run' = [run EXCEPT ![p] = r(steps)]
  BY <1>1
<1>11. RunOK(r(steps))
  <2>1. CASE steps = licensed
    <3> HIDE DEF r
    <3> QED
      BY <2>1, <1>5, <1>9 DEF RunOK, Licensing
  <2>2. CASE steps # licensed
    <3> HIDE DEF r, licensed, refused
    <3> QED
      BY <2>2, <1>1, <1>3, <1>4, <1>9, HarmlessTodo
  <2> QED
    BY <2>1, <2>2
<1>12. saving[p].phase = "idle"
  BY NotAtSave DEF Decide
<1>13. UNCHANGED <<storeVars, journalVars, control, performed>> /\ next_tx' \in Nat
  BY DEF Decide, ActionInv, ActionTypeOK
<1> HIDE DEF r
<1> QED
  BY <1>8, <1>10, <1>11, <1>12, <1>13, CommandStep

\* A command that starts with one save.
LEMMA OneSaveInv ==
  ASSUME ActionInv, NEW p \in Procs, NEW s \in Snapshot, run[p].phase = "idle",
         run' = [run EXCEPT ![p] = [Idle EXCEPT !.phase = "work", !.seen = lapsed,
                                                !.todo = <<SaveStep(s)>>]],
         UNCHANGED <<storeVars, journalVars, control, performed, next_tx>>
  PROVE  ActionInv'
<1> DEFINE r == [Idle EXCEPT !.phase = "work", !.seen = lapsed, !.todo = <<SaveStep(s)>>]
<1>1. SaveStep(s) \in HarmlessStep
  BY HarmlessTypes
<1>2. <<SaveStep(s)>> \in Seq(HarmlessStep) /\ <<SaveStep(s)>> # <<>>
  BY <1>1, ShortSequences
<1>3. <<SaveStep(s)>> \in Seq(Step)
  BY <1>1, ShortSequences DEF HarmlessStep
<1>4. lapsed \in SUBSET Nat /\ next_tx' \in Nat
  BY DEF ActionInv, StoreInv, StoreTypeOK, ActionTypeOK
<1>5. r \in Run /\ r.phase = "work" /\ r.todo = <<SaveStep(s)>>
  BY <1>3, <1>4, IdleType DEF Run
<1>6. saving[p].phase = "idle"
  BY NotAtSave
<1> HIDE DEF r
<1>7. RunOK(r)
  BY <1>2, <1>5, HarmlessTodo
<1>8. run' = [run EXCEPT ![p] = r]
  BY DEF r
<1> QED
  BY <1>4, <1>5, <1>6, <1>7, <1>8, CommandStep

LEMMA RouteInv ==
  ASSUME ActionInv, NEW p \in Procs, Route(p)
  PROVE  ActionInv'
<1>1. Collapsed(p, Current, 0) \in Snapshot
  BY CurrentType, SnapshotTypes DEF Route
<1> QED
  BY <1>1, OneSaveInv DEF Route

LEMMA PromoteInv ==
  ASSUME ActionInv, NEW p \in Procs, Promote(p)
  PROVE  ActionInv'
<1>1. Loaded \in Snapshot
  BY CurrentType, GenesisType DEF Promote, CanLoad, Loaded
<1>2. Promoted(p, Loaded) \in Snapshot
  BY <1>1, SnapshotTypes
<1> QED
  BY <1>2, OneSaveInv DEF Promote

\* The transaction an inspection names is one of the journal's, or none.
LEMMA InspectedType ==
  ASSUME ActionInv, NEW s
  PROVE  InspectedTx(s) \in Nat
<1>1. journal \in Seq(JournalLine)
  BY DEF ActionInv, ActionTypeOK, JournalLine
<1>2. \A i \in DOMAIN journal : journal[i].tx \in Nat
  <2>1. \A i \in DOMAIN journal : journal[i] \in JournalLine
    BY <1>1, SeqElements
  <2> QED
    BY <2>1 DEF JournalLine
<1>3. Transactions \subseteq Nat
  BY <1>2 DEF Transactions
<1> QED
  BY <1>3 DEF InspectedTx

LEMMA RecoverInv ==
  ASSUME ActionInv, NEW p \in Procs, Recover(p)
  PROVE  ActionInv'
<1> DEFINE status == Inspection(Current, lapsed)
           r == [Idle EXCEPT !.phase = "reconcile", !.seen = lapsed,
                             !.status = status, !.tx = InspectedTx(Current)]
<1>1. status \in Statuses
  BY Zenon DEF Inspection, PendingStatus, OpenStatus, Statuses
<1>2. InspectedTx(Current) \in Nat /\ lapsed \in SUBSET Nat /\ next_tx' \in Nat
  BY InspectedType DEF Recover, ActionInv, ActionTypeOK, StoreInv, StoreTypeOK
<1>3. status \notin {"CLEAN", "RAISES"}
  BY DEF Recover
<1>4. run' = [run EXCEPT ![p] = r]
  BY DEF Recover
<1> HIDE DEF status
<1>5. r \in Run /\ r.phase = "reconcile" /\ r.status = status
  BY <1>1, <1>2, IdleType DEF Run
<1>6. saving[p].phase = "idle"
  BY NotAtSave DEF Recover
<1> HIDE DEF r
<1>7. RunOK(r)
  BY <1>3, <1>5 DEF RunOK
<1> QED
  BY <1>2, <1>4, <1>5, <1>6, <1>7, CommandStep DEF Recover

LEMMA ReconcileInv ==
  ASSUME ActionInv, NEW p \in Procs, Reconcile(p)
  PROVE  ActionInv'
<1>1. saving[p].phase = "idle"
  BY NotAtSave DEF Reconcile
<1>2. CASE Finish(p)
  BY <1>1, <1>2, FinishStep DEF Reconcile
<1>3. CASE Readable /\ Proceed(p, ReconcileSteps(p, Current))
  <2> DEFINE steps == ReconcileSteps(p, Current)
             r == [run[p] EXCEPT !.phase = "work", !.todo = steps]
  <2>1. run[p] \in Run /\ RunOK(run[p]) /\ Current \in Snapshot
    BY <1>3, RunType, CurrentType
  <2>2. run[p].tx \in Nat /\ run[p].status \in Statuses \ {"CLEAN", "RAISES"}
    BY <2>1 DEF Run, RunOK, Reconcile
  <2>3. steps \in Seq(HarmlessStep) /\ steps # <<>>
    BY <2>1, <2>2, ReconcileHarmless
  <2>4. run' = [run EXCEPT ![p] = r]
    BY <1>3 DEF Proceed
  <2>5. next_tx' \in Nat
    BY DEF Reconcile, ActionInv, ActionTypeOK
  <2> HIDE DEF steps
  <2>6. steps \in Seq(Step)
    BY <2>3 DEF HarmlessStep
  <2>7. r \in Run /\ r.phase = "work" /\ r.todo = steps
    BY <2>1, <2>6 DEF Run
  <2> HIDE DEF r
  <2>8. RunOK(r)
    BY <2>3, <2>7, HarmlessTodo
  <2> QED
    BY <1>1, <2>4, <2>5, <2>7, <2>8, CommandStep DEF Reconcile
<1> QED
  BY <1>2, <1>3 DEF Reconcile

LEMMA ReadJournalInv ==
  ASSUME ActionInv, NEW p \in Procs, ReadJournal(p)
  PROVE  ActionInv'
<1>1. saving[p].phase = "idle"
  BY NotAtSave DEF ReadJournal, Doing
<1>2. CASE Finish(p)
  BY <1>1, <1>2, FinishStep DEF ReadJournal
<1>3. CASE run' = [run EXCEPT ![p].link = Len(journal)]
  <2> DEFINE r == [run[p] EXCEPT !.link = Len(journal)]
  <2>1. run[p] \in Run /\ RunOK(run[p])
    BY RunType
  <2>2. Len(journal) \in Nat /\ next_tx' \in Nat
    BY DEF ReadJournal, ActionInv, ActionTypeOK
  <2>3. /\ r \in Run /\ r.phase = run[p].phase /\ r.todo = run[p].todo /\ r.tx = run[p].tx
        /\ r.loaded = run[p].loaded /\ r.ticks = run[p].ticks /\ r.status = run[p].status
    BY <2>1, <2>2 DEF Run
  <2>4. run' = [run EXCEPT ![p] = r]
    BY <1>3
  <2> HIDE DEF r
  <2>5. RunOK(r)
    BY <2>1, <2>3 DEF RunOK, Licensing, Reporting
  <2> QED
    BY <1>1, <2>2, <2>3, <2>4, <2>5, CommandStep DEF ReadJournal
<1> QED
  BY <1>2, <1>3 DEF ReadJournal

-----------------------------------------------------------------------------
(* The durable steps.                                                      *)

\* A command is done with its first step, having done what that step is for.
LEMMA StepDoneOK ==
  ASSUME ActionInv, Grown, NEW p \in Procs, StepDone(p), run[p].phase = "work",
         NEW first, first = Head(run[p].todo), first.do # "execute",
         first.do = "save" => ChargedFor(first.state.pending)',
         first.do = "log" /\ first.line.type = "LICENSED" => LicensedFor(first.line.tx)'
  PROVE  /\ run' \in [Procs -> Run]
         /\ \A q \in Procs \ {p} : run'[q] = run[q]
         /\ RunOK(run[p])'
<1>0. PICK old : old = run[p]
  OBVIOUS
<1>5. PICK new : new = [old EXCEPT !.todo = Tail(old.todo), !.link = NotAppending]
  OBVIOUS
<1>1. /\ old \in Run /\ RunOK(old) /\ old.todo \in Seq(Step)
      /\ old.loaded \in Snapshot /\ old.tx \in Nat /\ old.ticks \in Nat
      /\ run \in [Procs -> Run] /\ old.phase = "work" /\ first = Head(old.todo)
  BY <1>0, RunType DEF ActionInv, ActionTypeOK
<1>2. old.todo # <<>> /\ (Licensing(old) \/ Reporting(old))
  BY <1>1 DEF RunOK
<1>3. CASE Finish(p)
  <2>1. RunOK(Idle)'
    BY DEF RunOK, Idle
  <2>2. run'[p] = Idle /\ run' \in [Procs -> Run] /\ \A q \in Procs \ {p} : run'[q] = run[q]
    BY <1>1, <1>3, IdleType DEF Finish
  <2> QED
    BY <2>1, <2>2 DEF RunOK, Licensing, Reporting
<1>4. CASE Len(old.todo) # 1 /\ run' = [run EXCEPT ![p] = new]
  <2>1. /\ Tail(old.todo) \in Seq(Step) /\ Tail(old.todo) # <<>>
        /\ \A j \in DOMAIN Tail(old.todo) :
             /\ j + 1 \in DOMAIN old.todo /\ j + 1 # 1
             /\ Tail(old.todo)[j] = old.todo[j + 1]
    BY <1>1, <1>2, <1>4, SeqTail
  <2>2. /\ new \in Run /\ new.phase = "work" /\ new.todo = Tail(old.todo)
        /\ new.tx = old.tx /\ new.loaded = old.loaded /\ new.ticks = old.ticks
    <3>1. NotAppending \in Nat \union {NotAppending}
      OBVIOUS
    <3> QED
      BY <1>1, <1>5, <2>1, <3>1 DEF Run
  <2>3. run'[p] = new /\ run' \in [Procs -> Run] /\ \A q \in Procs \ {p} : run'[q] = run[q]
    BY <1>1, <1>4, <2>2
  <2>4. CASE Reporting(old)
    <3>1. \A j \in DOMAIN new.todo :
            new.todo[j].do # "execute" /\ new.todo[j].line.type # "OUTCOME"
      BY <2>1, <2>2, <2>4 DEF Reporting
    <3>2. Reporting(new)'
      BY <3>1 DEF Reporting
    <3> QED
      BY <2>1, <2>2, <2>3, <3>2 DEF RunOK, Reporting
  <2>5. CASE Licensing(old)
    <3> DEFINE charge == SaveStep(Charged(old.loaded, old.tx, old.ticks))
               license == LogStep(Event(old.tx, "LICENSED"))
    <3>0. Charged(old.loaded, old.tx, old.ticks).pending = old.tx
      BY <1>1, SnapshotTypes
    <3>1. /\ charge.do = "save" /\ charge.state.pending = old.tx
          /\ license.do = "log" /\ license.line.type = "LICENSED" /\ license.line.tx = old.tx
          /\ ExecuteStep.do = "execute"
      BY <3>0 DEF SaveStep, LogStep, Event, ExecuteStep
    <3>2. ChargedFor(old.tx) => ChargedFor(old.tx)'
      BY GrownKeeps
    <3>3. Licensing(new)'
      <4> HIDE DEF charge, license
      <4>1. CASE old.todo = <<charge, license, ExecuteStep>>
        <5>1. Head(old.todo) = charge /\ Tail(old.todo) = <<license, ExecuteStep>>
          BY <4>1
        <5>2. ChargedFor(old.tx)'
          BY <5>1, <3>1, <1>1
        <5> QED
          BY <5>1, <5>2, <2>2 DEF Licensing, license
      <4>2. CASE old.todo = <<license, ExecuteStep>> /\ ChargedFor(old.tx)
        <5>1. Head(old.todo) = license /\ Tail(old.todo) = <<ExecuteStep>>
          BY <4>2
        <5>2. LicensedFor(old.tx)'
          BY <5>1, <3>1, <1>1
        <5> QED
          BY <5>1, <5>2, <4>2, <3>2, <2>2 DEF Licensing
      <4>3. CASE old.todo = <<ExecuteStep>>
        BY <4>3, <1>4
      <4> QED
        BY <2>5, <4>1, <4>2, <4>3 DEF Licensing, charge, license
    <3> QED
      BY <2>1, <2>2, <2>3, <3>3 DEF RunOK, Licensing
  <2> QED
    BY <1>2, <2>4, <2>5
<1> QED
  <2>1. Finish(p) \/ (Len(old.todo) # 1 /\ run' = [run EXCEPT ![p] = new])
    <3>1. CASE Len(old.todo) = 1
      BY <1>0, <3>1 DEF StepDone
    <3>2. CASE Len(old.todo) # 1
      <4>1. run' = [run EXCEPT ![p].todo = Tail(@), ![p].link = NotAppending]
        BY <1>0, <3>2 DEF StepDone
      <4>2. run' = [run EXCEPT ![p] = [run[p] EXCEPT !.todo = Tail(run[p].todo),
                                                     !.link = NotAppending]]
        BY <4>1
      <4> QED
        BY <1>0, <1>5, <3>2, <4>2
    <3> QED
      BY <3>1, <3>2
  <2> QED
    BY <1>3, <1>4, <2>1

LEMMA BeginSaveInv ==
  ASSUME ActionInv, NEW p \in Procs, BeginSave(p)
  PROVE  ActionInv'
<1> DEFINE state == Head(run[p].todo).state
<1>1. CASE Finish(p) /\ UNCHANGED storeVars
  BY <1>1, FinishStep DEF BeginSave, Saving
<1>2. CASE SaveCheck(p, state, run[p].seen) /\ UNCHANGED run
  <2>1. state \in Snapshot
    <3>1. run[p].todo \in Seq(Step) /\ run[p].todo # <<>>
      BY RunType DEF BeginSave, Doing, RunOK
    <3>2. Head(run[p].todo) \in Step
      BY <3>1
    <3> QED
      BY <3>2 DEF Step
  <2>2. StoreInv'
    BY <1>2, <2>1, SaveCheckInv DEF ActionInv
  <2>3. UNCHANGED <<journalVars, control, performed, next_tx, run, history>>
    BY <1>2 DEF BeginSave, SaveCheck
  <2>4. ActionTypeOK'
    BY <2>2, <2>3 DEF ActionInv, ActionTypeOK, StoreInv, journalVars
  <2>5. Grown
    BY <2>3 DEF Grown, journalVars
  <2>6. /\ saving'[p].phase = "append" /\ saving'[p].next = state
        /\ \A q \in Procs \ {p} : saving'[q] = saving[q]
    BY <1>2 DEF SaveCheck, NotSaving, ActionInv, StoreInv, StoreTypeOK
  <2>7. RunOK(run[p])'
    BY <2>3, <2>5, RunType, RunKept DEF RunOK, Licensing, Reporting
  <2>8. SaveOK(saving[p], run[p])'
    BY <2>3, <2>6 DEF SaveOK, BeginSave, Doing
  <2>9. AheadInv'
    BY <2>3, <2>5, AheadKept DEF ActionInv, journalVars
  <2> QED
    BY <2>2, <2>3, <2>4, <2>5, <2>6, <2>7, <2>8, <2>9, ProcessStep
<1> QED
  BY <1>1, <1>2 DEF BeginSave

LEMMA AppendStateInv ==
  ASSUME ActionInv, NEW p \in Procs, AppendState(p)
  PROVE  ActionInv'
<1> DEFINE e == [prev |-> saving[p].base, snap |-> saving[p].next]
<1>1. StoreInv'
  BY SaveAppendInv DEF AppendState, ActionInv
<1>2. UNCHANGED <<journalVars, control, performed, next_tx, run>>
  BY DEF AppendState
<1>3. ActionTypeOK'
  BY <1>1, <1>2 DEF ActionInv, ActionTypeOK, StoreInv, journalVars
<1>4. /\ history \in Seq(Entry) /\ saving \in [Procs -> SaveInProgress]
      /\ e \in Entry /\ e.snap = saving[p].next
  BY DEF ActionInv, StoreInv, StoreTypeOK, SaveInProgress, Entry
<1>5. history' = Append(history, e)
  BY DEF AppendState, SaveAppend
<1> HIDE DEF e
<1>6. /\ DOMAIN history \subseteq DOMAIN history'
      /\ \A k \in DOMAIN history : history'[k] = history[k]
      /\ \E k \in DOMAIN history' : history'[k] = e
  <2>1. Len(history) + 1 \in 1 .. (Len(history) + 1)
    BY <1>4
  <2> QED
    BY <2>1, <1>4, <1>5, SeqAppend
<1>7. Grown
  BY <1>2, <1>6 DEF Grown, journalVars
<1>8. /\ saving'[p].phase = "replace" /\ saving'[p].next = saving[p].next
      /\ \A q \in Procs \ {p} :
           saving'[q].phase = saving[q].phase /\ saving'[q].next = saving[q].next
  BY <1>4 DEF AppendState, SaveAppend, SaveInProgress
<1>9. RunOK(run[p])'
  BY <1>2, <1>7, RunType, RunKept DEF RunOK, Licensing, Reporting
<1>10. SaveOK(saving[p], run[p])
  BY DEF ActionInv, CommandsOK
<1>11. SaveOK(saving[p], run[p])'
  BY <1>2, <1>4, <1>6, <1>8, <1>10 DEF SaveOK, AppendState, SaveAppend
<1>12. AheadInv'
  BY <1>2, <1>7, AheadKept DEF ActionInv, journalVars
<1> QED
  BY <1>1, <1>2, <1>3, <1>7, <1>8, <1>9, <1>11, <1>12, ProcessStep

LEMMA FinishSaveInv ==
  ASSUME ActionInv, NEW p \in Procs, FinishSave(p)
  PROVE  ActionInv'
<1>1. StoreInv'
  BY SaveReplaceInv, SaveLostInv DEF FinishSave, ActionInv
<1>2. /\ UNCHANGED <<journalVars, control, performed, next_tx, history>>
      /\ saving' = [saving EXCEPT ![p] = NotSaving]
      /\ saving[p].phase = "replace"
  BY DEF FinishSave, SaveReplace, SaveLost
<1>3. Grown
  BY <1>2 DEF Grown, journalVars
<1>4. /\ saving'[p].phase = "idle"
      /\ \A q \in Procs \ {p} : saving'[q] = saving[q]
  BY <1>2 DEF NotSaving, ActionInv, StoreInv, StoreTypeOK
<1>5. /\ run' \in [Procs -> Run] /\ RunOK(run[p])'
      /\ \A q \in Procs \ {p} : run'[q] = run[q]
  <2>1. CASE Finish(p)
    <3>1. RunOK(Idle)'
      BY DEF RunOK, Idle
    <3>2. run'[p] = Idle /\ run' \in [Procs -> Run] /\ \A q \in Procs \ {p} : run'[q] = run[q]
      BY <2>1, IdleType DEF Finish, ActionInv, ActionTypeOK
    <3> QED
      BY <3>1, <3>2 DEF RunOK, Licensing, Reporting
  <2>2. CASE StepDone(p)
    <3>0. PICK first : first = Head(run[p].todo)
      OBVIOUS
    <3>1. SaveOK(saving[p], run[p])
      BY DEF ActionInv, CommandsOK
    <3>2. /\ run[p].phase = "work" /\ first.do = "save"
          /\ \E k \in DOMAIN history : history[k].snap = first.state
      BY <3>0, <3>1, <1>2 DEF SaveOK
    <3>3. ChargedFor(first.state.pending)'
      BY <3>2, <1>2 DEF ChargedFor
    <3> QED
      BY <1>3, <2>2, <3>0, <3>2, <3>3, StepDoneOK
  <2> QED
    BY <2>1, <2>2 DEF FinishSave
<1>6. ActionTypeOK'
  BY <1>1, <1>2, <1>5 DEF ActionInv, ActionTypeOK, StoreInv, journalVars
<1>7. SaveOK(saving[p], run[p])'
  BY <1>4 DEF SaveOK
<1>8. AheadInv'
  BY <1>2, <1>3, AheadKept DEF ActionInv, journalVars
<1> QED
  BY <1>1, <1>3, <1>4, <1>5, <1>6, <1>7, <1>8, ProcessStep

LEMMA AppendJournalInv ==
  ASSUME ActionInv, NEW p \in Procs, AppendJournal(p)
  PROVE  ActionInv'
<1>0. PICK first : first = Head(run[p].todo)
  OBVIOUS
<1>1. PICK e : e = [prev |-> run[p].link, tx |-> first.line.tx,
                    type |-> first.line.type, ok |-> first.line.ok]
  OBVIOUS
<1>2. /\ run[p].phase = "work" /\ first.do = "log" /\ StepDone(p)
      /\ journal' = Append(journal, e)
      /\ UNCHANGED <<storeVars, journal_torn, control, performed, next_tx>>
  BY <1>0, <1>1 DEF AppendJournal, Doing
<1>3. /\ run[p] \in Run /\ RunOK(run[p]) /\ run[p].todo \in Seq(Step) /\ run[p].tx \in Nat
      /\ run[p].todo # <<>>
  BY <1>2, RunType DEF RunOK
<1>4. e \in JournalLine
  <2>1. first \in Step
    BY <1>0, <1>3
  <2>2. first.line \in Line
    BY <2>1 DEF Step
  <2>3. run[p].link \in Nat
    BY <1>3 DEF AppendJournal, Run
  <2> QED
    BY <1>1, <2>2, <2>3 DEF Line, JournalLine
<1>5. journal \in Seq(JournalLine)
  BY DEF ActionInv, ActionTypeOK, JournalLine
<1>6. /\ journal' \in Seq(JournalLine)
      /\ DOMAIN journal \subseteq DOMAIN journal'
      /\ \A k \in DOMAIN journal : journal'[k] = journal[k]
      /\ \E k \in DOMAIN journal' : journal'[k] = e
      /\ \A k \in DOMAIN journal' : k \in DOMAIN journal \/ journal'[k] = e
  <2>1. Len(journal) + 1 \in 1 .. (Len(journal) + 1)
    BY <1>5
  <2> QED
    BY <2>1, <1>2, <1>4, <1>5, SeqAppend
<1>7. Grown
  BY <1>2, <1>6 DEF Grown, storeVars
<1>8. first.line.type = "LICENSED" => LicensedFor(first.line.tx)'
  BY <1>1, <1>6 DEF LicensedFor
<1>9. /\ run' \in [Procs -> Run] /\ RunOK(run[p])'
      /\ \A q \in Procs \ {p} : run'[q] = run[q]
  BY <1>0, <1>2, <1>7, <1>8, StepDoneOK
<1>10. StoreInv'
  BY <1>2, StoreStutterInv DEF ActionInv
<1>11. ActionTypeOK'
  BY <1>2, <1>6, <1>9, <1>10 DEF ActionInv, ActionTypeOK, StoreInv, JournalLine
<1>12. SaveOK(saving[p], run[p])'
  BY <1>0, <1>2, NotAtSave DEF SaveOK, storeVars
<1>13. e.type = "OUTCOME" => PerformedFor(e.tx)
  <2>1. CASE Reporting(run[p])
    <3>1. 1 \in DOMAIN run[p].todo /\ run[p].todo[1] = first
      BY <1>0, <1>3
    <3> QED
      BY <1>1, <2>1, <3>1 DEF Reporting
  <2>2. CASE Licensing(run[p])
    <3>1. first \in {SaveStep(Charged(run[p].loaded, run[p].tx, run[p].ticks)),
                     LogStep(Event(run[p].tx, "LICENSED")), ExecuteStep}
      BY <1>0, <2>2 DEF Licensing
    <3>2. first.line.type # "OUTCOME"
      BY <3>1 DEF SaveStep, LogStep, ExecuteStep, Event
    <3> QED
      BY <1>1, <3>2
  <2> QED
    BY <1>2, <1>3, <2>1, <2>2 DEF RunOK
<1>14. AheadInv'
  <2>1. AheadInv /\ performed' = performed
    BY <1>2 DEF ActionInv
  <2> QED
    BY <2>1, <1>6, <1>7, <1>13, GrownKeeps DEF AheadInv, PerformedFor
<1> QED
  BY <1>2, <1>7, <1>9, <1>10, <1>11, <1>12, <1>14, ProcessStep DEF storeVars

\* By the time of the execution the command has nothing left to do but this.
LEMMA AtExecution ==
  ASSUME ActionInv, NEW p \in Procs, Doing(p, "execute")
  PROVE  run[p].todo = <<ExecuteStep>> /\ ChargedFor(run[p].tx) /\ LicensedFor(run[p].tx)
<1>0. PICK old : old = run[p]
  OBVIOUS
<1>1. /\ RunOK(old) /\ old.todo \in Seq(Step) /\ old.todo # <<>>
      /\ old.phase = "work" /\ Head(old.todo).do = "execute"
  BY <1>0, RunType DEF RunOK, Doing
<1>2. Head(old.todo) = old.todo[1] /\ 1 \in DOMAIN old.todo
  BY <1>1
<1>3. ~Reporting(old)
  BY <1>1, <1>2 DEF Reporting
<1>4. Licensing(old)
  BY <1>1, <1>3 DEF RunOK
<1>5. /\ SaveStep(Charged(old.loaded, old.tx, old.ticks)).do # "execute"
      /\ LogStep(Event(old.tx, "LICENSED")).do # "execute"
  BY DEF SaveStep, LogStep
<1> QED
  BY <1>0, <1>1, <1>4, <1>5 DEF Licensing

\* The execution itself.
LEMMA ExecuteInv ==
  ASSUME ActionInv, NEW p \in Procs, NEW ok \in BOOLEAN, Execute(p, ok)
  PROVE  ActionInv'
<1>0. PICK old : old = run[p]
  OBVIOUS
<1>1. PICK final : final = IF ok THEN Completed(Charged(old.loaded, old.tx, old.ticks), old.tx)
                           ELSE Collapsed(p, Charged(old.loaded, old.tx, old.ticks), old.tx)
  OBVIOUS
<1>2. PICK steps : steps = <<LogStep(Outcome(old.tx, ok)), SaveStep(final),
                             LogStep(Event(old.tx, "COMMITTED"))>>
  OBVIOUS
<1>3. PICK new : new = [old EXCEPT !.phase = "work", !.todo = steps]
  OBVIOUS
<1>4. PICK e : e = [tx |-> old.tx, lease |-> old.loaded.revision]
  OBVIOUS
<1>5. /\ old.phase = "work" /\ Head(old.todo).do = "execute"
      /\ performed' = Append(performed, e)
      /\ UNCHANGED <<storeVars, journalVars, control, next_tx>>
  BY <1>0, <1>4 DEF Execute, Doing
<1>6. run' = [run EXCEPT ![p] = new]
  BY <1>0, <1>1, <1>2, <1>3 DEF Execute, Proceed
<1>7. /\ old \in Run /\ RunOK(old) /\ old.loaded \in Snapshot /\ old.tx \in Nat
      /\ old.ticks \in Nat /\ old.todo \in Seq(Step) /\ old.todo # <<>>
      /\ run \in [Procs -> Run]
  BY <1>0, <1>5, RunType DEF RunOK, ActionInv, ActionTypeOK
<1>8. old.todo = <<ExecuteStep>> /\ ChargedFor(old.tx) /\ LicensedFor(old.tx)
  BY <1>0, AtExecution DEF Execute
<1>9. final \in Snapshot /\ e \in Performance
  <2>1. Charged(old.loaded, old.tx, old.ticks) \in Snapshot
    BY <1>7, SnapshotTypes
  <2>2. final \in Snapshot
    BY <1>1, <1>7, <2>1, SnapshotTypes
  <2>3. old.loaded.revision \in Nat
    BY <1>7 DEF Snapshot
  <2> QED
    BY <1>4, <1>7, <2>2, <2>3 DEF Performance
<1>10. /\ LogStep(Outcome(old.tx, ok)) \in Step /\ SaveStep(final) \in Step
       /\ LogStep(Event(old.tx, "COMMITTED")) \in Step
  BY <1>7, <1>9, StepTypes DEF EventTypes
<1>11. steps \in Seq(Step) /\ steps # <<>>
  BY <1>2, <1>10, ShortSequences
<1>12. new \in Run /\ new.phase = "work" /\ new.todo = steps
  BY <1>3, <1>7, <1>11 DEF Run
<1>13. performed \in Seq(Performance)
  BY DEF ActionInv, ActionTypeOK, Performance
<1>14. /\ performed' \in Seq(Performance)
       /\ DOMAIN performed \subseteq DOMAIN performed'
       /\ \A i \in DOMAIN performed : performed'[i] = performed[i]
       /\ \E i \in DOMAIN performed' : performed'[i] = e
       /\ \A i \in DOMAIN performed' : i \in DOMAIN performed \/ performed'[i] = e
  <2>1. Len(performed) + 1 \in 1 .. (Len(performed) + 1)
    BY <1>13
  <2> QED
    BY <2>1, <1>5, <1>9, <1>13, SeqAppend
<1>15. Grown
  BY <1>5, <1>14 DEF Grown, storeVars, journalVars
<1>16. PerformedFor(old.tx)'
  BY <1>4, <1>14 DEF PerformedFor
<1>17. RunOK(new)'
  <2>1. /\ DOMAIN steps = 1 .. 3
        /\ steps[1] = LogStep(Outcome(old.tx, ok))
        /\ steps[2] = SaveStep(final)
        /\ steps[3] = LogStep(Event(old.tx, "COMMITTED"))
    BY <1>2
  <2>2. /\ steps[1].do = "log" /\ steps[1].line.tx = old.tx
        /\ steps[2].do = "save" /\ steps[2].line.type = "REFUSED"
        /\ steps[3].do = "log" /\ steps[3].line.type = "COMMITTED"
    BY <2>1 DEF LogStep, SaveStep, Event, Outcome
  <2>3. Reporting(new)'
    BY <1>12, <1>16, <2>1, <2>2 DEF Reporting
  <2> QED
    BY <1>11, <1>12, <2>3 DEF RunOK
<1>18. run'[p] = new /\ run' \in [Procs -> Run] /\ \A q \in Procs \ {p} : run'[q] = run[q]
  BY <1>6, <1>7, <1>12
<1>19. RunOK(run[p])'
  BY <1>17, <1>18 DEF RunOK, Licensing, Reporting
<1>20. StoreInv'
  BY <1>5, StoreStutterInv DEF ActionInv
<1>21. ActionTypeOK'
  BY <1>5, <1>14, <1>18, <1>20
     DEF ActionInv, ActionTypeOK, StoreInv, Performance, journalVars
<1>22. SaveOK(saving[p], run[p])'
  BY <1>0, <1>5, NotAtSave DEF SaveOK, storeVars
<1>23. AheadInv'
  <2>1. AheadInv /\ journal' = journal
    BY <1>5 DEF ActionInv, journalVars
  <2>2. \A i \in DOMAIN performed' :
          ChargedFor(performed[i].tx)' /\ LicensedFor(performed[i].tx)'
    <3>1. \A tx : /\ ChargedFor(tx) => ChargedFor(tx)'
                  /\ LicensedFor(tx) => LicensedFor(tx)'
      BY <1>15, GrownKeeps
    <3>2. ASSUME NEW i \in DOMAIN performed'
          PROVE  ChargedFor(performed'[i].tx) /\ LicensedFor(performed'[i].tx)
      BY <1>4, <1>8, <1>14, <2>1 DEF AheadInv
    <3> QED
      BY <3>1, <3>2 DEF ChargedFor, LicensedFor
  <2>3. \A k \in DOMAIN journal : journal[k].type = "OUTCOME" => PerformedFor(journal[k].tx)'
    BY <2>1, <1>15, GrownKeeps DEF AheadInv, PerformedFor
  <2> QED
    BY <2>1, <2>2, <2>3 DEF AheadInv, PerformedFor
<1> QED
  BY <1>5, <1>15, <1>18, <1>19, <1>20, <1>21, <1>22, <1>23, ProcessStep DEF storeVars

LEMMA CrashInv ==
  ASSUME ActionInv, NEW p \in Procs, Crash(p)
  PROVE  ActionInv'
<1>1. StoreInv'
  BY SaveCrashInv DEF Crash, ActionInv
<1>2. /\ saving' = [saving EXCEPT ![p] = NotSaving]
      /\ UNCHANGED <<history, journal, control, performed, next_tx>>
      /\ journal_torn' \in BOOLEAN
  BY DEF Crash, SaveCrash, ActionInv, ActionTypeOK
<1>3. /\ run'[p] = Idle /\ run' \in [Procs -> Run]
      /\ \A q \in Procs \ {p} : run'[q] = run[q]
  BY IdleType DEF Crash, Finish, ActionInv, ActionTypeOK
<1>4. /\ saving'[p].phase = "idle"
      /\ \A q \in Procs \ {p} : saving'[q] = saving[q]
  BY <1>2 DEF NotSaving, ActionInv, StoreInv, StoreTypeOK
<1>5. Grown
  BY <1>2 DEF Grown
<1>6. RunOK(Idle)'
  BY DEF RunOK, Idle
<1>7. RunOK(run[p])'
  BY <1>3, <1>6 DEF RunOK, Licensing, Reporting
<1>8. ActionTypeOK'
  BY <1>1, <1>2, <1>3 DEF ActionInv, ActionTypeOK, StoreInv
<1>9. SaveOK(saving[p], run[p])'
  BY <1>4 DEF SaveOK
<1>10. AheadInv'
  BY <1>2, <1>5, AheadKept DEF ActionInv
<1> QED
  BY <1>1, <1>3, <1>4, <1>5, <1>7, <1>8, <1>9, <1>10, ProcessStep

\* The environment touches neither the files nor any command.
LEMMA EnvironmentInv ==
  ASSUME ActionInv, StoreInv', UNCHANGED <<history, saving, journalVars, performed, run>>,
         control' \in {"open", "review", "contained"}, next_tx' = next_tx
  PROVE  ActionInv'
<1>1. ActionTypeOK'
  BY DEF ActionInv, ActionTypeOK, StoreInv, journalVars
<1>2. CommandsOK'
  BY DEF ActionInv, CommandsOK, RunOK, Licensing, Reporting, SaveOK, ChargedFor, LicensedFor,
         PerformedFor, journalVars
<1>3. AheadInv'
  BY DEF ActionInv, AheadInv, ChargedFor, LicensedFor, PerformedFor, journalVars
<1> QED
  BY <1>1, <1>2, <1>3 DEF ActionInv

-----------------------------------------------------------------------------
(* The theorems.                                                           *)

LEMMA ActionStepInv == ActionInv /\ [Next]_vars => ActionInv'
<1> SUFFICES ASSUME ActionInv, [Next]_vars PROVE ActionInv'
  OBVIOUS
<1>1. control \in {"open", "review", "contained"}
  BY DEF ActionInv, ActionTypeOK
<1>2. ASSUME NEW p \in Procs, NEW ticks \in 1 .. MaxClockTicks, StartAction(p, ticks)
      PROVE  ActionInv'
  BY <1>2, StartActionInv
<1>3. ASSUME NEW p \in Procs, NEW ok \in BOOLEAN, Execute(p, ok)
      PROVE  ActionInv'
  BY <1>3, ExecuteInv
<1>4. ASSUME NEW p \in Procs,
             \/ Decide(p) \/ Route(p) \/ Promote(p) \/ Recover(p) \/ Reconcile(p)
             \/ BeginSave(p) \/ AppendState(p) \/ FinishSave(p)
             \/ ReadJournal(p) \/ AppendJournal(p) \/ Crash(p)
      PROVE  ActionInv'
  BY <1>4, DecideInv, RouteInv, PromoteInv, RecoverInv, ReconcileInv, BeginSaveInv,
     AppendStateInv, FinishSaveInv, ReadJournalInv, AppendJournalInv, CrashInv
<1>5. ASSUME ChangeControl
      PROVE  ActionInv'
  <2>1. StoreInv'
    BY <1>5, StoreStutterInv DEF ChangeControl, ActionInv
  <2> QED
    BY <1>5, <2>1, EnvironmentInv DEF ChangeControl, storeVars
<1>6. ASSUME NEW r \in 1 .. MaxRevision, Expire(r)
      PROVE  ActionInv'
  <2>1. StoreInv'
    BY <1>6, BoundsAssumption, LapseInv DEF Expire, ActionInv
  <2> QED
    BY <1>1, <1>6, <2>1, EnvironmentInv DEF Expire, Lapse
<1>7. CASE UNCHANGED vars
  <2>1. StoreInv'
    BY <1>7, StoreStutterInv DEF vars, ActionInv
  <2> QED
    BY <1>1, <1>7, <2>1, EnvironmentInv DEF vars, storeVars
<1> QED
  BY <1>2, <1>3, <1>4, <1>5, <1>6, <1>7 DEF Next

\* The store, the journal and every command keep their types, whatever runs at
\* the same time and whatever crashes.
THEOREM ActionTypeCorrect == Spec => []ActionTypeOK
<1>1. ActionInv => ActionTypeOK
  BY DEF ActionInv
<1> QED
  BY <1>1, ActionInvInit, ActionStepInv, PTL DEF Spec

\* Any number of shells may race, crash and recover: nothing is ever executed
\* that was not charged in the history and LICENSED in the journal beforehand,
\* and no OUTCOME is reported of what was not executed.
THEOREM AlwaysWrittenAhead == Spec => []WrittenAhead
<1>1. ActionInv => WrittenAhead
  <2>1. \A tx : LicensedFor(tx) => Events(tx, "LICENSED") # {}
    BY DEF LicensedFor, Events
  <2> QED
    BY <2>1 DEF ActionInv, AheadInv, ChargedFor, PerformedFor, WrittenAhead
<1> QED
  BY <1>1, ActionInvInit, ActionStepInv, PTL DEF Spec

\* The history that transactions and recoveries write never goes back either.
THEOREM ActionsNeverGoBack == Spec => []NeverGoesBack
<1>1. ActionInv => NeverGoesBack
  BY DEF ActionInv, StoreInv
<1> QED
  BY <1>1, ActionInvInit, ActionStepInv, PTL DEF Spec

-----------------------------------------------------------------------------
(* One process.  When commands do not overlap, the journal, the state file *)
(* and what the command in progress has left to do fit together: that is   *)
(* what keeps the story of a transaction one story, whoever finishes it.   *)

Mentioned(tx, type) ==
  \E k \in DOMAIN journal : journal[k].tx = tx /\ journal[k].type = type

Failed(tx) ==
  \E k \in DOMAIN journal :
    journal[k].tx = tx /\ journal[k].type = "OUTCOME" /\ ~journal[k].ok

\* State s is later than every lease tx was performed under.
Beyond(tx, s) ==
  \A i \in DOMAIN performed : performed[i].tx = tx => performed[i].lease < s.revision

\* The journal so far.
OneStory ==
  /\ \A k \in DOMAIN journal : journal[k].tx < next_tx
  /\ \A i, j \in DOMAIN journal :
       journal[i].tx = journal[j].tx /\ journal[i].tx # 0 =>
         /\ journal[i].type = journal[j].type /\ journal[i].type # "RECOVERY" => i = j
         /\ journal[i].type = "REFUSED" => journal[j].type # "LICENSED"
         /\ journal[i].type = "COMMITTED" /\ journal[j].type \in {"OUTCOME", "LICENSED"}
              => j < i
  /\ \A i \in DOMAIN journal :
       journal[i].tx # 0 /\ journal[i].type = "OUTCOME" =>
         \E j \in DOMAIN journal :
           j < i /\ journal[j].tx = journal[i].tx /\ journal[j].type = "LICENSED"

\* The state file and the save under way, which nobody else touches.
OneFile(save) ==
  /\ state_file \in DOMAIN history \union {NoFile}
  /\ ~save.shared
  /\ save.phase # "idle" =>
       /\ WellFormed(save.next)
       /\ state_file # NoFile => Successor(Current, save.next)
  /\ save.phase = "replace" =>
       save.entry \in DOMAIN history /\ history[save.entry].snap = save.next

\* The state file against the journal and the executions.
OneState ==
  /\ DOMAIN performed # {} => state_file # NoFile
  /\ state_file # NoFile =>
       /\ Current.pending # 0 => Current.mode = "BOUNDED_CONTROL"
       /\ \A i \in DOMAIN performed :
            \/ performed[i].lease < Current.revision
            \/ performed[i].lease = Current.revision /\ Current.mode = "BOUNDED_CONTROL"
       /\ \A tx \in Transactions : Mentioned(tx, "COMMITTED") =>
            Current.pending # tx /\ (Failed(tx) => Beyond(tx, Current))

Lines(r) == {j \in DOMAIN r.todo : r.todo[j].do = "log" /\ r.todo[j].line.tx # 0}

Executes(r) == \E j \in DOMAIN r.todo : r.todo[j].do = "execute"

\* The action has failed, as journaled or as about to be.
Fails(r) ==
  \/ Failed(r.tx)
  \/ \E j \in Lines(r) : r.todo[j].line.type = "OUTCOME" /\ ~r.todo[j].line.ok

\* With state s on disk, the transaction may be committed.
Settles(r, s) == (r.tx # 0 => s.pending # r.tx) /\ (Fails(r) => Beyond(r.tx, s))

\* What a line about to be journaled takes for granted.
Tells(r, j) ==
  LET type == r.todo[j].line.type IN
  /\ r.todo[j].line.tx = r.tx
  /\ type \in {"REFUSED", "LICENSED"} => \A t \in EventTypes : ~Mentioned(r.tx, t)
  /\ type = "OUTCOME" =>
       /\ Mentioned(r.tx, "LICENSED")
       /\ ~Mentioned(r.tx, "OUTCOME") /\ ~Mentioned(r.tx, "COMMITTED")
  /\ type = "COMMITTED" =>
       /\ ~Mentioned(r.tx, "COMMITTED")
       /\ \/ \E i \in DOMAIN r.todo :
               i < j /\ r.todo[i].do = "save" /\ Settles(r, r.todo[i].state)
          \/ state_file # NoFile /\ Settles(r, Current)
  /\ \A i \in Lines(r) :
       i < j => r.todo[i].line.type \in {"OUTCOME", "RECOVERY"} /\ type = "COMMITTED"
  /\ Executes(r) => type = "LICENSED"

\* What an execution to come takes for granted.
Executable(r) ==
  /\ r.tx # 0
  /\ ~Mentioned(r.tx, "OUTCOME") /\ ~Mentioned(r.tx, "COMMITTED")
  /\ \A j \in DOMAIN r.todo :
       r.todo[j].do = "save" => /\ r.todo[j].state.mode = "BOUNDED_CONTROL"
                                /\ r.todo[j].state.revision = r.loaded.revision
  /\ \/ \E j \in DOMAIN r.todo : r.todo[j].do = "save"
     \/ /\ state_file # NoFile /\ Current.mode = "BOUNDED_CONTROL"
        /\ Current.revision = r.loaded.revision

TodoOne(r) ==
  /\ \A j \in Lines(r) : Tells(r, j)
  /\ Executes(r) => Executable(r)
  /\ \A j \in DOMAIN r.todo :
       r.todo[j].do = "save" /\ r.todo[j].state.pending # 0 =>
         Executes(r) /\ r.todo[j].state.pending = r.tx

Grounded(r) ==
  /\ TodoOne(r)
  /\ r.phase = "decide" =>
       /\ r.tx # 0 /\ r.loaded.mode = "BOUNDED_CONTROL"
       /\ \A t \in EventTypes : ~Mentioned(r.tx, t)
  /\ r.phase = "reconcile" =>
       /\ state_file # NoFile
       /\ r.tx # 0 => ~Mentioned(r.tx, "COMMITTED")
       /\ r.status \in {"COMMIT_MARKER_MISSING", "ORPHANED_LICENSE"} => Settles(r, Current)

OneInv(p) ==
  /\ next_tx > 0
  /\ OneStory
  /\ OneState
  /\ \A save \in {saving[p]} : OneFile(save)
  /\ \A r \in {run[p]} : r.tx < next_tx /\ Grounded(r)

-----------------------------------------------------------------------------
(* Steps of the one process that change nothing on disk.                   *)

LEMMA JournalElements ==
  ASSUME ActionInv
  PROVE  /\ journal \in Seq(JournalLine) /\ DOMAIN journal = 1 .. Len(journal)
         /\ Len(journal) \in Nat
         /\ \A k \in DOMAIN journal : journal[k].tx \in Nat /\ journal[k].type \in EventTypes
                                      /\ journal[k].ok \in BOOLEAN
<1>1. journal \in Seq(JournalLine)
  BY DEF ActionInv, ActionTypeOK, JournalLine
<1>2. \A k \in DOMAIN journal : journal[k] \in JournalLine
  BY <1>1, SeqElements
<1> QED
  BY <1>1, <1>2 DEF JournalLine

LEMMA FileElements ==
  ASSUME ActionInv
  PROVE  /\ history \in Seq(Entry) /\ DOMAIN history = 1 .. Len(history)
         /\ Len(history) \in Nat
         /\ \A k \in DOMAIN history : history[k].snap \in Snapshot
<1>1. history \in Seq(Entry)
  BY DEF ActionInv, StoreInv, StoreTypeOK
<1>2. \A k \in DOMAIN history : history[k] \in Entry
  BY <1>1, SeqElements
<1> QED
  BY <1>1, <1>2 DEF Entry

LEMMA PerformedElements ==
  ASSUME ActionInv
  PROVE  /\ performed \in Seq(Performance) /\ DOMAIN performed = 1 .. Len(performed)
         /\ Len(performed) \in Nat
         /\ \A i \in DOMAIN performed : performed[i].tx \in Nat /\ performed[i].lease \in Nat
<1>1. performed \in Seq(Performance)
  BY DEF ActionInv, ActionTypeOK, Performance
<1>2. \A i \in DOMAIN performed : performed[i] \in Performance
  BY <1>1, SeqElements
<1> QED
  BY <1>1, <1>2 DEF Performance

\* What a command takes for granted stays, when files and executions do.
LEMMA OneKept ==
  ASSUME UNCHANGED <<state_file, journal, performed>>,
         state_file # NoFile => Current' = Current
  PROVE  /\ \A tx, t : Mentioned(tx, t)' <=> Mentioned(tx, t)
         /\ \A tx : Failed(tx)' <=> Failed(tx)
         /\ \A tx, s : Beyond(tx, s)' <=> Beyond(tx, s)
         /\ \A r : Fails(r)' <=> Fails(r)
         /\ \A r, s : Settles(r, s)' <=> Settles(r, s)
         /\ \A r : TodoOne(r) => TodoOne(r)'
         /\ \A r : Grounded(r) => Grounded(r)'
         /\ OneState => OneState'
<1>1. /\ \A tx, t : Mentioned(tx, t)' <=> Mentioned(tx, t)
      /\ \A tx : Failed(tx)' <=> Failed(tx)
      /\ \A tx, s : Beyond(tx, s)' <=> Beyond(tx, s)
  BY DEF Mentioned, Failed, Beyond
<1>2. \A r : Fails(r)' <=> Fails(r)
  BY <1>1 DEF Fails, Lines
<1>3. \A r, s : Settles(r, s)' <=> Settles(r, s)
  BY <1>1, <1>2 DEF Settles
<1>4. ASSUME NEW r, NEW j, Tells(r, j)
      PROVE  Tells(r, j)'
  <2>1. state_file # NoFile /\ Settles(r, Current) => Settles(r, Current)'
    BY <1>3 DEF Settles, Fails, Beyond
  <2> QED
    BY <1>1, <1>3, <1>4, <2>1 DEF Tells, Lines, Executes
<1>5. ASSUME NEW r, Executable(r)
      PROVE  Executable(r)'
  BY <1>1, <1>5 DEF Executable
<1>6. \A r : TodoOne(r) => TodoOne(r)'
  BY <1>4, <1>5 DEF TodoOne, Lines, Executes
<1>7. OneState => OneState'
  BY <1>1 DEF OneState, Beyond, Transactions
<1>8. ASSUME NEW r, Grounded(r)
      PROVE  Grounded(r)'
  BY <1>1, <1>3, <1>6, <1>8 DEF Grounded, Settles, Fails, Beyond
<1> QED
  BY <1>1, <1>2, <1>3, <1>6, <1>7, <1>8

\* A process with nothing to do takes nothing for granted.
LEMMA NothingTodo ==
  ASSUME NEW r, r.todo = <<>>
  PROVE  TodoOne(r)
  BY DEF TodoOne, Lines, Executes

\* The command goes on, without a step on disk, to be what r says.
LEMMA OneCommand ==
  ASSUME ActionInv, NEW p, Procs = {p}, OneInv(p),
         NEW r, run' = [run EXCEPT ![p] = r], Grounded(r), r.tx < next_tx',
         UNCHANGED <<storeVars, journalVars, performed>>,
         next_tx' = next_tx \/ next_tx' = next_tx + 1
  PROVE  OneInv(p)'
<1>1. run'[p] = r /\ next_tx \in Nat
  BY DEF ActionInv, ActionTypeOK
<1>2. UNCHANGED <<state_file, history, saving, journal, performed>> /\ Current' = Current
  BY DEF storeVars, journalVars, Current
<1>3. OneStory'
  BY <1>1, <1>2, JournalElements DEF OneInv, OneStory
<1>4. OneState' /\ Grounded(r)'
  BY <1>2, OneKept DEF OneInv
<1>5. \A save \in {saving'[p]} : OneFile(save)'
  BY <1>2 DEF OneInv, OneFile
<1>6. \A q \in {run'[p]} : q.tx < next_tx' /\ Grounded(q)'
  BY <1>1, <1>4
<1> QED
  BY <1>1, <1>3, <1>4, <1>5, <1>6 DEF OneInv

LEMMA IdleGrounded == Grounded(Idle) /\ Idle.tx = 0
<1>1. Idle.todo = <<>> /\ Idle.phase = "idle" /\ Idle.tx = 0
  BY DEF Idle
<1> QED
  BY <1>1, NothingTodo DEF Grounded

LEMMA FinishOne ==
  ASSUME ActionInv, NEW p, Procs = {p}, OneInv(p), Finish(p),
         UNCHANGED <<storeVars, journalVars, performed, next_tx>>
  PROVE  OneInv(p)'
<1>1. Idle.tx < next_tx'
  BY IdleGrounded DEF OneInv
<1> QED
  BY <1>1, IdleGrounded, OneCommand DEF Finish

LEMMA OwnRun ==
  ASSUME ActionInv, NEW p, Procs = {p}, OneInv(p)
  PROVE  /\ run[p] \in Run /\ run[p].tx \in Nat /\ run[p].tx < next_tx /\ next_tx \in Nat
         /\ run[p].loaded \in Snapshot /\ run[p].ticks \in Nat /\ run[p].todo \in Seq(Step)
         /\ Grounded(run[p]) /\ RunOK(run[p])
  BY RunType DEF OneInv, ActionInv, ActionTypeOK

LEMMA StartActionOne ==
  ASSUME ActionInv, NEW p, Procs = {p}, OneInv(p), NEW ticks \in 1 .. MaxClockTicks,
         StartAction(p, ticks)
  PROVE  OneInv(p)'
<1> DEFINE r == [Idle EXCEPT !.phase = "decide", !.loaded = Current,
                             !.tx = next_tx, !.ticks = ticks]
<1>1. /\ r.phase = "decide" /\ r.loaded = Current /\ r.tx = next_tx /\ r.todo = <<>>
  BY DEF Idle
<1>2. next_tx \in Nat /\ next_tx > 0 /\ next_tx' = next_tx + 1
  BY OwnRun DEF OneInv, StartAction
<1>3. \A t \in EventTypes : ~Mentioned(next_tx, t)
  BY <1>2, JournalElements DEF OneInv, OneStory, Mentioned
<1>4. run' = [run EXCEPT ![p] = r] /\ Current.mode = "BOUNDED_CONTROL"
  BY DEF StartAction
<1> HIDE DEF r
<1>5. Grounded(r)
  BY <1>1, <1>2, <1>3, <1>4, NothingTodo DEF Grounded
<1>6. r.tx < next_tx'
  BY <1>1, <1>2
<1> QED
  BY <1>2, <1>4, <1>5, <1>6, OneCommand DEF StartAction

\* A command of one save and no line of its own.
LEMMA SavingTodo ==
  ASSUME NEW r, NEW s, s.pending = 0,
         \/ r.todo = <<SaveStep(s)>>
         \/ r.todo = <<SaveStep(s), LogStep(Event(0, "RECOVERY"))>>
  PROVE  TodoOne(r)
<1>1. /\ SaveStep(s).do = "save" /\ SaveStep(s).state = s
      /\ LogStep(Event(0, "RECOVERY")).do = "log"
      /\ LogStep(Event(0, "RECOVERY")).line.tx = 0
  BY DEF SaveStep, LogStep, Event
<1>2. \A j \in DOMAIN r.todo :
        r.todo[j] = SaveStep(s) \/ r.todo[j] = LogStep(Event(0, "RECOVERY"))
  OBVIOUS
<1> QED
  BY <1>1, <1>2 DEF TodoOne, Lines, Executes

LEMMA OneSaveOne ==
  ASSUME ActionInv, NEW p, Procs = {p}, OneInv(p), NEW s, s.pending = 0,
         run' = [run EXCEPT ![p] = [Idle EXCEPT !.phase = "work", !.seen = lapsed,
                                                !.todo = <<SaveStep(s)>>]],
         UNCHANGED <<storeVars, journalVars, performed, next_tx>>
  PROVE  OneInv(p)'
<1> DEFINE r == [Idle EXCEPT !.phase = "work", !.seen = lapsed, !.todo = <<SaveStep(s)>>]
<1>1. r.phase = "work" /\ r.todo = <<SaveStep(s)>> /\ r.tx = 0
  BY DEF Idle
<1> HIDE DEF r
<1>2. Grounded(r)
  BY <1>1, SavingTodo DEF Grounded
<1>3. r.tx < next_tx'
  BY <1>1 DEF OneInv
<1>4. run' = [run EXCEPT ![p] = r]
  BY DEF r
<1> QED
  BY <1>2, <1>3, <1>4, OneCommand

LEMMA PendingOfNew ==
  ASSUME NEW p, NEW s, NEW tx
  PROVE  /\ Collapsed(p, s, tx).pending = 0 /\ Collapsed(p, s, tx).revision = s.revision + 1
         /\ Promoted(p, s).pending = 0
  BY DEF Collapsed, Promoted, Genesis

LEMMA RouteOrPromoteOne ==
  ASSUME ActionInv, NEW p, Procs = {p}, OneInv(p), Route(p) \/ Promote(p)
  PROVE  OneInv(p)'
<1>1. CASE Route(p)
  <2>1. PICK s : s = Collapsed(p, Current, 0)
    OBVIOUS
  <2>2. s.pending = 0
    BY <2>1, PendingOfNew
  <2>3. /\ UNCHANGED <<storeVars, journalVars, performed, next_tx>>
        /\ run' = [run EXCEPT ![p] = [Idle EXCEPT !.phase = "work", !.seen = lapsed,
                                                  !.todo = <<SaveStep(s)>>]]
    BY <1>1, <2>1 DEF Route
  <2> QED
    BY <2>2, <2>3, OneSaveOne, Zenon
<1>2. CASE Promote(p)
  <2>1. PICK s : s = Promoted(p, Loaded)
    OBVIOUS
  <2>2. s.pending = 0
    BY <2>1, PendingOfNew
  <2>3. /\ UNCHANGED <<storeVars, journalVars, performed, next_tx>>
        /\ run' = [run EXCEPT ![p] = [Idle EXCEPT !.phase = "work", !.seen = lapsed,
                                                  !.todo = <<SaveStep(s)>>]]
    BY <1>2, <2>1 DEF Promote
  <2> QED
    BY <2>2, <2>3, OneSaveOne, Zenon
<1> QED
  BY <1>1, <1>2

\* Nothing else of a command matters to what its steps take for granted.
LEMMA SameTodo ==
  ASSUME NEW q, NEW r, q.todo = r.todo, q.tx = r.tx, q.loaded = r.loaded, TodoOne(r)
  PROVE  TodoOne(q)
<1>1. Lines(q) = Lines(r) /\ (Executes(q) <=> Executes(r))
  BY DEF Lines, Executes
<1>2. Fails(q) <=> Fails(r)
  BY <1>1 DEF Fails
<1>3. \A s : Settles(q, s) <=> Settles(r, s)
  BY <1>2 DEF Settles
<1>4. \A j : Tells(r, j) => Tells(q, j)
  BY <1>1, <1>3 DEF Tells
<1>5. Executable(r) => Executable(q)
  BY DEF Executable
<1> QED
  BY <1>1, <1>4, <1>5 DEF TodoOne

LEMMA ReadJournalOne ==
  ASSUME ActionInv, NEW p, Procs = {p}, OneInv(p), ReadJournal(p)
  PROVE  OneInv(p)'
<1>1. CASE Finish(p)
  BY <1>1, FinishOne DEF ReadJournal
<1>2. CASE run' = [run EXCEPT ![p].link = Len(journal)]
  <2> DEFINE r == [run[p] EXCEPT !.link = Len(journal)]
  <2>1. /\ r.phase = run[p].phase /\ r.todo = run[p].todo /\ r.tx = run[p].tx
        /\ r.loaded = run[p].loaded /\ r.status = run[p].status
    BY OwnRun DEF Run
  <2>2. run' = [run EXCEPT ![p] = r]
    BY <1>2
  <2> HIDE DEF r
  <2>3. Grounded(r)
    BY <2>1, OwnRun, SameTodo DEF Grounded, ReadJournal, Doing
  <2>4. r.tx < next_tx'
    BY <2>1, OwnRun DEF ReadJournal
  <2> QED
    BY <2>2, <2>3, <2>4, OneCommand DEF ReadJournal
<1> QED
  BY <1>1, <1>2 DEF ReadJournal

\* What a decision leaves to do rests on nothing having been said of it yet.
LEMMA DecideOne ==
  ASSUME ActionInv, NEW p, Procs = {p}, OneInv(p), Decide(p)
  PROVE  OneInv(p)'
<1>0. PICK old : old = run[p]
  OBVIOUS
<1> DEFINE charged == Charged(old.loaded, old.tx, old.ticks)
           licensed == <<SaveStep(charged), LogStep(Event(old.tx, "LICENSED")), ExecuteStep>>
           refused == <<LogStep(Event(old.tx, "REFUSED"))>>
           collapsed == <<SaveStep(Collapsed(p, old.loaded, 0)),
                          LogStep(Event(old.tx, "REFUSED"))>>
<1>1. PICK steps \in {collapsed, refused, licensed} :
        run' = [run EXCEPT ![p].phase = "work", ![p].todo = steps, ![p].seen = lapsed]
  <2>1. control \in {"open", "review", "contained"}
    BY DEF ActionInv, ActionTypeOK
  <2> QED
    BY <2>1, <1>0 DEF Decide, RefuseAndCollapse
<1>2. PICK r : r = [old EXCEPT !.phase = "work", !.todo = steps, !.seen = lapsed]
  OBVIOUS
<1>3. /\ old \in Run /\ old.phase = "decide" /\ old.tx \in Nat /\ old.tx < next_tx
      /\ old.loaded \in Snapshot /\ old.ticks \in Nat /\ Grounded(old)
  BY <1>0, OwnRun DEF Decide
<1>4. /\ old.tx # 0 /\ old.loaded.mode = "BOUNDED_CONTROL"
      /\ \A t \in EventTypes : ~Mentioned(old.tx, t)
  BY <1>3 DEF Grounded
<1>5. /\ r.phase = "work" /\ r.todo = steps /\ r.tx = old.tx /\ r.loaded = old.loaded
  BY <1>2, <1>3 DEF Run
<1>6. /\ SaveStep(charged).do = "save" /\ SaveStep(charged).state = charged
      /\ SaveStep(Collapsed(p, old.loaded, 0)).do = "save"
      /\ SaveStep(Collapsed(p, old.loaded, 0)).state = Collapsed(p, old.loaded, 0)
      /\ Collapsed(p, old.loaded, 0).pending = 0
      /\ LogStep(Event(old.tx, "LICENSED")).do = "log"
      /\ LogStep(Event(old.tx, "LICENSED")).line.tx = old.tx
      /\ LogStep(Event(old.tx, "LICENSED")).line.type = "LICENSED"
      /\ LogStep(Event(old.tx, "REFUSED")).do = "log"
      /\ LogStep(Event(old.tx, "REFUSED")).line.tx = old.tx
      /\ LogStep(Event(old.tx, "REFUSED")).line.type = "REFUSED"
      /\ ExecuteStep.do = "execute"
  BY PendingOfNew DEF SaveStep, LogStep, Event, ExecuteStep
<1>7. /\ charged.pending = old.tx /\ charged.mode = "BOUNDED_CONTROL"
      /\ charged.revision = old.loaded.revision
  BY <1>3, <1>4 DEF Charged, Snapshot
<1>8. {"OUTCOME", "COMMITTED"} \subseteq EventTypes
  BY DEF EventTypes
<1>9. TodoOne(r)
  <2> HIDE DEF charged
  <2>1. CASE steps = licensed
    <3>1. DOMAIN r.todo = 1 .. 3 /\ r.todo[1] = SaveStep(charged)
          /\ r.todo[2] = LogStep(Event(old.tx, "LICENSED")) /\ r.todo[3] = ExecuteStep
      BY <1>5, <2>1
    <3>2. Lines(r) = {2} /\ Executes(r)
      BY <1>4, <1>6, <3>1 DEF Lines, Executes
    <3>3. Executable(r)
      BY <1>4, <1>5, <1>6, <1>7, <1>8, <3>1 DEF Executable
    <3>4. Tells(r, 2)
      BY <1>4, <1>5, <1>6, <3>1, <3>2 DEF Tells
    <3>5. \A j \in DOMAIN r.todo : r.todo[j].do = "save" => r.todo[j].state.pending = r.tx
      BY <1>5, <1>6, <1>7, <3>1
    <3> QED
      BY <3>2, <3>3, <3>4, <3>5 DEF TodoOne
  <2>2. CASE steps = refused
    <3>1. DOMAIN r.todo = {1} /\ r.todo[1] = LogStep(Event(old.tx, "REFUSED"))
      BY <1>5, <2>2
    <3>2. Lines(r) = {1} /\ ~Executes(r)
      BY <1>4, <1>6, <3>1 DEF Lines, Executes
    <3>3. Tells(r, 1)
      BY <1>4, <1>5, <1>6, <3>1, <3>2 DEF Tells
    <3> QED
      BY <1>6, <3>1, <3>2, <3>3 DEF TodoOne
  <2>3. CASE steps = collapsed
    <3>1. DOMAIN r.todo = 1 .. 2 /\ r.todo[1] = SaveStep(Collapsed(p, old.loaded, 0))
          /\ r.todo[2] = LogStep(Event(old.tx, "REFUSED"))
      BY <1>5, <2>3
    <3>2. Lines(r) = {2} /\ ~Executes(r)
      BY <1>4, <1>6, <3>1 DEF Lines, Executes
    <3>3. Tells(r, 2)
      BY <1>4, <1>5, <1>6, <3>1, <3>2 DEF Tells
    <3> QED
      BY <1>6, <3>1, <3>2, <3>3 DEF TodoOne
  <2> QED
    BY <1>1, <2>1, <2>2, <2>3
<1>10. Grounded(r)
  BY <1>5, <1>9 DEF Grounded
<1>11. run' = [run EXCEPT ![p] = r]
  BY <1>0, <1>1, <1>2
<1>12. r.tx < next_tx'
  BY <1>3, <1>5 DEF Decide
<1> QED
  BY <1>10, <1>11, <1>12, OneCommand DEF Decide

-----------------------------------------------------------------------------
(* What an inspection finds, and what a reconciliation does about it.      *)

LEMMA EventsMentioned ==
  \A tx, type : (Events(tx, type) # {}) <=> Mentioned(tx, type)
  BY DEF Events, Mentioned

LEMMA FailedEvents ==
  ASSUME ActionInv
  PROVE  \A tx : ~Succeeded(tx) <=> Failed(tx)
  BY JournalElements DEF Succeeded, Failed, Events

\* The inspected transaction is not committed, and what is only to be closed is
\* settled already.
LEMMA RecoverOne ==
  ASSUME ActionInv, NEW p, Procs = {p}, OneInv(p), Recover(p)
  PROVE  OneInv(p)'
<1>0. PICK s : s = Current
  OBVIOUS
<1>1. PICK status : status = Inspection(s, lapsed)
  OBVIOUS
<1>2. PICK tx : tx = InspectedTx(s)
  OBVIOUS
<1>3. PICK r : r = [Idle EXCEPT !.phase = "reconcile", !.seen = lapsed,
                                !.status = status, !.tx = tx]
  OBVIOUS
<1>4. /\ run' = [run EXCEPT ![p] = r] /\ Readable /\ status \notin {"CLEAN", "RAISES"}
      /\ state_file # NoFile
  BY <1>0, <1>1, <1>2, <1>3 DEF Recover, Readable
<1>5. r.phase = "reconcile" /\ r.status = status /\ r.tx = tx /\ r.todo = <<>>
  BY <1>3 DEF Idle
<1>6. s \in Snapshot /\ s.revision \in Nat /\ s.pending \in Nat
  BY <1>0, <1>4, CurrentType
<1>7. CASE s.mode = "BOUNDED_CONTROL" /\ s.pending # 0
  <2>1. status = PendingStatus(s)
    BY <1>1, <1>4, <1>7 DEF Inspection
  <2>2. tx \in {0, s.pending} /\ (tx # 0 => Events(tx, "LICENSED") # {})
    BY <1>2, <1>7 DEF InspectedTx
  <2>3. tx # 0 => Events(tx, "COMMITTED") = {}
    BY <1>4, <2>1, <2>2 DEF PendingStatus
  <2>4. status \notin {"COMMIT_MARKER_MISSING", "ORPHANED_LICENSE"}
    BY <2>1 DEF PendingStatus
  <2>5. tx < next_tx
    <3>1. tx = 0 \/ \E k \in DOMAIN journal : journal[k].tx = tx
      BY <2>2 DEF Events
    <3> QED
      BY <3>1 DEF OneInv, OneStory
  <2>6. Grounded(r)
    BY <1>4, <1>5, <2>3, <2>4, NothingTodo, EventsMentioned DEF Grounded
  <2> QED
    BY <1>4, <1>5, <2>5, <2>6, OneCommand DEF Recover
<1>8. CASE ~(s.mode = "BOUNDED_CONTROL" /\ s.pending # 0)
  <2>0. tx = IF OpenLicensed = {} THEN 0 ELSE CHOOSE t \in OpenLicensed : TRUE
    <3>1. PICK open : open = {t \in Transactions :
                                IF s.mode = "BOUNDED_CONTROL" /\ s.pending # 0
                                THEN t = s.pending /\ Events(t, "LICENSED") # {}
                                ELSE t \in OpenLicensed}
      OBVIOUS
    <3>2. open = OpenLicensed
      BY <1>8, <3>1 DEF OpenLicensed
    <3>3. tx = IF open = {} THEN 0 ELSE CHOOSE t \in open : TRUE
      BY <1>2, <3>1 DEF InspectedTx
    <3> QED
      BY <3>2, <3>3
  <2>1. s.pending = 0
    BY <1>0, <1>4, <1>8 DEF OneInv, OneState
  <2>2. (tx = 0 /\ OpenLicensed = {}) \/ (tx \in OpenLicensed /\ OpenLicensed # {})
    BY <2>0
  <2>3. tx # 0 => Events(tx, "COMMITTED") = {} /\ tx \in Transactions
    BY <2>2 DEF OpenLicensed
  <2>4. tx < next_tx
    BY <2>2 DEF OpenLicensed, Transactions, OneInv, OneStory
  <2>5. status \in {"COMMIT_MARKER_MISSING", "ORPHANED_LICENSE"} =>
          tx # 0 /\ (CompletedFor(s, tx) \/ s.mode = "SHADOW")
    <3>1. ASSUME status \in {"COMMIT_MARKER_MISSING", "ORPHANED_LICENSE"}
          PROVE  OpenLicensed # {} /\ status = OpenStatus(s, CHOOSE t \in OpenLicensed : TRUE)
      BY <1>1, <1>8, <3>1 DEF Inspection
    <3>2. OpenLicensed # {} => tx = CHOOSE t \in OpenLicensed : TRUE
      BY <2>0
    <3>3. tx \in OpenLicensed => tx # 0
      BY DEF OpenLicensed, Transactions
    <3> QED
      BY <2>2, <3>1, <3>2, <3>3 DEF OpenStatus
  <2>6. status \in {"COMMIT_MARKER_MISSING", "ORPHANED_LICENSE"} => Settles(r, s)
    <3>1. ASSUME CompletedFor(s, tx) \/ s.mode = "SHADOW", Failed(tx)
          PROVE  Beyond(tx, s)
      <4>1. s.mode # "BOUNDED_CONTROL"
        BY <3>1, FailedEvents DEF CompletedFor
      <4> QED
        BY <1>0, <1>4, <4>1 DEF Beyond, OneInv, OneState
    <3>2. Fails(r) => Failed(tx)
      BY <1>5 DEF Fails, Lines
    <3> QED
      BY <1>5, <2>1, <2>5, <3>1, <3>2 DEF Settles
  <2>7. Grounded(r)
    BY <1>0, <1>4, <1>5, <2>3, <2>6, NothingTodo, EventsMentioned DEF Grounded
  <2> QED
    BY <1>4, <1>5, <2>4, <2>7, OneCommand DEF Recover
<1> QED
  BY <1>7, <1>8

LEMMA OneAndTwo ==
  ASSUME NEW a, NEW b, NEW c
  PROVE  /\ DOMAIN (<<a>> \o <<b, c>>) = 1 .. 3
         /\ (<<a>> \o <<b, c>>)[1] = a
         /\ (<<a>> \o <<b, c>>)[2] = b
         /\ (<<a>> \o <<b, c>>)[3] = c
<1> DEFINE S == {a, b, c}
<1>1. <<a>> \in Seq(S) /\ <<b, c>> \in Seq(S)
  OBVIOUS
<1>2. Len(<<a>>) = 1 /\ Len(<<b, c>>) = 2
  OBVIOUS
<1> QED
  BY <1>1, <1>2

\* The closing lines of a recovery, after a save that settles the transaction or
\* when it is settled already.
LEMMA ClosingTodo ==
  ASSUME NEW r, r.tx # 0 => ~Mentioned(r.tx, "COMMITTED"), NEW s,
         r.tx # 0 => s.pending # r.tx, Failed(r.tx) => Beyond(r.tx, s),
         \/ r.todo = <<SaveStep(s)>> \o CloseSteps(r.tx) /\ s.pending = 0
         \/ r.todo = CloseSteps(r.tx) /\ state_file # NoFile /\ s = Current
  PROVE  TodoOne(r)
<1>1. /\ SaveStep(s).do = "save" /\ SaveStep(s).state = s
      /\ \A type : /\ LogStep(Event(r.tx, type)).do = "log"
                   /\ LogStep(Event(r.tx, type)).line.tx = r.tx
                   /\ LogStep(Event(r.tx, type)).line.type = type
  BY DEF SaveStep, LogStep, Event
<1>2. PICK n \in {0, 1} :
        /\ DOMAIN r.todo = 1 .. (n + 2)
        /\ r.todo[n + 1] = LogStep(Event(r.tx, "RECOVERY"))
        /\ r.todo[n + 2] = LogStep(Event(r.tx, "COMMITTED"))
        /\ n = 1 => r.todo[1] = SaveStep(s) /\ s.pending = 0
        /\ n = 0 => state_file # NoFile /\ s = Current
  <2>1. CASE r.todo = <<SaveStep(s)>> \o CloseSteps(r.tx) /\ s.pending = 0
    <3>1. /\ DOMAIN r.todo = 1 .. 3 /\ r.todo[1] = SaveStep(s)
          /\ r.todo[2] = LogStep(Event(r.tx, "RECOVERY"))
          /\ r.todo[3] = LogStep(Event(r.tx, "COMMITTED"))
      BY <2>1, OneAndTwo DEF CloseSteps
    <3> QED
      BY <2>1, <3>1
  <2>2. CASE r.todo = CloseSteps(r.tx) /\ state_file # NoFile /\ s = Current
    <3>1. r.todo = <<LogStep(Event(r.tx, "RECOVERY")), LogStep(Event(r.tx, "COMMITTED"))>>
      BY <2>2 DEF CloseSteps
    <3> QED
      BY <2>2, <3>1
  <2> QED
    BY <2>1, <2>2
<1>3. \A j \in DOMAIN r.todo : j = n + 1 \/ j = n + 2 \/ (n = 1 /\ j = 1)
  BY <1>2
<1>4. ~Executes(r) /\ Lines(r) \subseteq {n + 1, n + 2} /\ (Lines(r) # {} => r.tx # 0)
  BY <1>1, <1>2, <1>3 DEF Executes, Lines
<1>5. Fails(r) => Failed(r.tx)
  BY <1>1, <1>2, <1>4 DEF Fails
<1>6. Settles(r, s)
  BY <1>5 DEF Settles
<1>7. ASSUME NEW j \in Lines(r)
      PROVE  Tells(r, j)
  <2>1. CASE j = n + 1
    <3>1. \A i \in Lines(r) : ~(i < j)
      BY <1>2, <1>4, <2>1
    <3> QED
      BY <1>1, <1>2, <1>4, <2>1, <3>1 DEF Tells
  <2>2. CASE j = n + 2
    <3>1. \A i \in Lines(r) : i < j => i = n + 1
      BY <1>2, <1>4, <2>2
    <3>2. \/ \E i \in DOMAIN r.todo : i < j /\ r.todo[i].do = "save" /\ Settles(r, r.todo[i].state)
          \/ state_file # NoFile /\ Settles(r, Current)
      <4>1. CASE n = 1
        <5>1. 1 \in DOMAIN r.todo /\ 1 < j /\ r.todo[1].do = "save" /\ r.todo[1].state = s
          BY <1>1, <1>2, <2>2, <4>1
        <5> QED
          BY <1>6, <5>1
      <4>2. CASE n = 0
        BY <1>2, <1>6, <4>2
      <4> QED
        BY <1>2, <4>1, <4>2
    <3> QED
      BY <1>1, <1>2, <1>4, <1>7, <2>2, <3>1, <3>2 DEF Tells
  <2> QED
    BY <1>4, <1>7, <2>1, <2>2
<1>8. \A j \in DOMAIN r.todo : r.todo[j].do = "save" => r.todo[j].state.pending = 0
  BY <1>1, <1>2, <1>3
<1> QED
  BY <1>4, <1>7, <1>8 DEF TodoOne

LEMMA ReconcileOne ==
  ASSUME ActionInv, NEW p, Procs = {p}, OneInv(p), Reconcile(p)
  PROVE  OneInv(p)'
<1>1. CASE Finish(p)
  BY <1>1, FinishOne DEF Reconcile
<1>2. CASE Readable /\ StillReconcilable(run[p], Current) /\ Proceed(p, ReconcileSteps(p, Current))
  <2>0. PICK old : old = run[p]
    OBVIOUS
  <2>1. PICK s : s = Current
    OBVIOUS
  <2>2. PICK steps : steps = ReconcileSteps(p, s)
    OBVIOUS
  <2>3. PICK r : r = [old EXCEPT !.phase = "work", !.todo = steps]
    OBVIOUS
  <2>4. /\ old \in Run /\ old.phase = "reconcile" /\ old.tx \in Nat /\ old.tx < next_tx
        /\ Grounded(old) /\ old.status \in Statuses \ {"CLEAN", "RAISES"}
        /\ s \in Snapshot /\ s.revision \in Nat /\ s.pending \in Nat
    BY <1>2, <2>0, <2>1, OwnRun, CurrentType DEF Reconcile, RunOK, Run
  <2>5. r.phase = "work" /\ r.todo = steps /\ r.tx = old.tx
    BY <2>3, <2>4 DEF Run
  <2>6. /\ state_file # NoFile /\ (r.tx # 0 => ~Mentioned(r.tx, "COMMITTED"))
        /\ old.status \in {"COMMIT_MARKER_MISSING", "ORPHANED_LICENSE"} =>
             (r.tx # 0 => s.pending # r.tx) /\ (Failed(r.tx) => Beyond(r.tx, s))
    BY <2>1, <2>4, <2>5 DEF Grounded, Settles, Fails
  <2>7. \A tx : Beyond(r.tx, Collapsed(p, s, tx)) /\ Collapsed(p, s, tx).pending = 0
    BY <2>1, <2>4, <2>6, PendingOfNew, PerformedElements DEF Beyond, OneInv, OneState
  <2>8. CloseSteps(r.tx) \in Seq(HarmlessStep)
    <3>1. {"RECOVERY", "COMMITTED"} \subseteq EventTypes \ {"OUTCOME"} /\ r.tx \in Nat
      BY <2>4, <2>5 DEF EventTypes
    <3>2. /\ LogStep(Event(r.tx, "RECOVERY")) \in HarmlessStep
          /\ LogStep(Event(r.tx, "COMMITTED")) \in HarmlessStep
      BY <3>1, HarmlessTypes
    <3> QED
      BY <3>2, ShortSequences DEF CloseSteps
  <2>9. ASSUME NEW t, t.pending = 0, Failed(r.tx) => Beyond(r.tx, t),
               steps = <<SaveStep(t)>> \o CloseSteps(r.tx)
        PROVE  TodoOne(r)
    BY <2>5, <2>6, <2>9, ClosingTodo
  <2>10. ASSUME old.status \in {"COMMIT_MARKER_MISSING", "ORPHANED_LICENSE"},
                steps = CloseSteps(r.tx)
         PROVE  TodoOne(r)
    BY <2>1, <2>5, <2>6, <2>10, ClosingTodo
  <2>11. TodoOne(r)
    <3>1. CASE old.status = "PENDING_OUTCOME_READY"
      <4>1. PICK t : t = IF ~Succeeded(r.tx) THEN Collapsed(p, s, r.tx)
                         ELSE IF Lapsed(s, old.seen) THEN Collapsed(p, s, 0)
                         ELSE Completed(s, r.tx)
        OBVIOUS
      <4>2. steps = <<SaveStep(t)>> \o CloseSteps(r.tx)
        BY <2>0, <2>2, <2>5, <3>1, <4>1, Zenon DEF ReconcileSteps
      <4>3. Completed(s, r.tx).pending = 0
        BY <2>4 DEF Completed, Snapshot
      <4>4. t.pending = 0 /\ (Failed(r.tx) => Beyond(r.tx, t))
        BY <2>7, <4>1, <4>3, FailedEvents
      <4> QED
        BY <2>9, <4>2, <4>4
    <3>2. CASE old.status = "PENDING_UNKNOWN"
      <4>1. steps = <<SaveStep(Collapsed(p, s, 0))>> \o CloseSteps(r.tx)
        BY <2>0, <2>2, <2>5, <3>2 DEF ReconcileSteps
      <4> QED
        BY <2>7, <2>9, <4>1
    <3>3. CASE old.status = "COMMIT_MARKER_MISSING"
      <4>1. CASE Lapsed(s, old.seen)
        <5>1. steps = <<SaveStep(Collapsed(p, s, 0))>> \o CloseSteps(r.tx)
          BY <2>0, <2>2, <2>5, <3>3, <4>1 DEF ReconcileSteps
        <5> QED
          BY <2>7, <2>9, <5>1
      <4>2. CASE ~Lapsed(s, old.seen)
        <5>1. steps = <<>> \o CloseSteps(r.tx)
          BY <2>0, <2>2, <2>5, <3>3, <4>2 DEF ReconcileSteps
        <5>2. steps = CloseSteps(r.tx)
          BY <2>8, <5>1
        <5> QED
          BY <2>10, <3>3, <5>2
      <4> QED
        BY <4>1, <4>2
    <3>4. CASE old.status = "ORPHANED_LICENSE"
      <4>1. steps = CloseSteps(r.tx)
        BY <2>0, <2>2, <2>5, <3>4 DEF ReconcileSteps
      <4> QED
        BY <2>10, <3>4, <4>1
    <3>5. CASE old.status = "EXPIRED_ACTIVE"
      <4>1. steps = <<SaveStep(Collapsed(p, s, 0)), LogStep(Event(0, "RECOVERY"))>>
        BY <2>0, <2>2, <3>5 DEF ReconcileSteps
      <4> QED
        BY <2>5, <2>7, <4>1, SavingTodo
    <3> QED
      BY <2>4, <3>1, <3>2, <3>3, <3>4, <3>5 DEF Statuses
  <2>12. Grounded(r)
    BY <2>5, <2>11 DEF Grounded
  <2>13. run' = [run EXCEPT ![p] = r]
    BY <1>2, <2>0, <2>1, <2>2, <2>3 DEF Proceed
  <2> QED
    BY <2>4, <2>5, <2>12, <2>13, OneCommand DEF Reconcile
<1> QED
  BY <1>1, <1>2 DEF Reconcile

-----------------------------------------------------------------------------
(* The durable steps of the one process.                                   *)

LEMMA BeginSaveOne ==
  ASSUME ActionInv, NEW p, Procs = {p}, OneInv(p), BeginSave(p)
  PROVE  OneInv(p)'
<1> DEFINE state == Head(run[p].todo).state
<1>1. CASE Finish(p) /\ UNCHANGED storeVars
  BY <1>1, FinishOne DEF BeginSave
<1>2. CASE SaveCheck(p, state, run[p].seen) /\ UNCHANGED run
  <2>1. PICK new : new = [NotSaving EXCEPT !.phase = "append", !.base = state_file,
                                           !.next = state]
    OBVIOUS
  <2>2. saving'[p] = new
    BY <1>2, <2>1 DEF SaveCheck, ActionInv, StoreInv, StoreTypeOK
  <2>3. /\ UNCHANGED <<state_file, history, journal, performed, next_tx, run>>
        /\ Current' = Current
    BY <1>2 DEF BeginSave, SaveCheck, journalVars, Current
  <2>4. /\ WellFormed(state) /\ (state_file # NoFile => Successor(Current, state))
    BY <1>2 DEF SaveCheck, CanSave
  <2>5. ~new.shared /\ new.phase = "append" /\ new.next = state
    BY <2>1 DEF NotSaving
  <2>6. OneFile(new)'
    <3>1. OneFile(saving[p])
      BY DEF OneInv
    <3> QED
      BY <2>3, <2>4, <2>5, <3>1 DEF OneFile
  <2>7. OneStory' /\ OneState' /\ \A r : Grounded(r) => Grounded(r)'
    BY <2>3, OneKept DEF OneInv, OneStory
  <2> QED
    BY <2>2, <2>3, <2>6, <2>7 DEF OneInv
<1> QED
  BY <1>1, <1>2 DEF BeginSave

LEMMA AppendStateOne ==
  ASSUME ActionInv, NEW p, Procs = {p}, OneInv(p), AppendState(p)
  PROVE  OneInv(p)'
<1>0. PICK old : old = saving[p]
  OBVIOUS
<1>1. PICK new : new = [old EXCEPT !.phase = "replace", !.entry = Len(history) + 1,
                                   !.shared = FALSE]
  OBVIOUS
<1>2. PICK e : e = [prev |-> old.base, snap |-> old.next]
  OBVIOUS
<1>5. old.phase = "append" /\ Staging = {}
  BY <1>0 DEF Staging, AppendState, SaveAppend
<1>3. /\ saving'[p] = new /\ history' = Append(history, e)
      /\ UNCHANGED <<state_file, journal, performed, next_tx, run>>
  BY <1>0, <1>1, <1>2, <1>5 DEF AppendState, SaveAppend, journalVars
<1>4. /\ old \in SaveInProgress /\ e \in Entry /\ e.snap = old.next
      /\ OneFile(old)
  BY <1>0, <1>2 DEF ActionInv, StoreInv, StoreTypeOK, SaveInProgress, Entry, OneInv
<1>6. /\ new.phase = "replace" /\ new.entry = Len(history) + 1 /\ ~new.shared
      /\ new.next = old.next
  BY <1>1, <1>4 DEF SaveInProgress
<1>7. /\ DOMAIN history \subseteq DOMAIN history' /\ Len(history) + 1 \in DOMAIN history'
      /\ history'[Len(history) + 1] = e
      /\ \A k \in DOMAIN history : history'[k] = history[k]
  <2>1. Len(history) + 1 \in 1 .. (Len(history) + 1)
    BY FileElements
  <2> QED
    BY <1>3, <1>4, <2>1, FileElements, SeqAppend
<1>8. state_file # NoFile => Current' = Current
  BY <1>3, <1>4, <1>7 DEF OneFile, Current
<1>9. OneFile(new)'
  <2>1. /\ state_file \in DOMAIN history \union {NoFile} /\ WellFormed(old.next)
        /\ state_file # NoFile => Successor(Current, old.next)
    BY <1>4, <1>5 DEF OneFile
  <2>2. /\ state_file' \in DOMAIN history' \union {NoFile}
        /\ state_file' # NoFile => Successor(Current', new.next)
    BY <1>3, <1>6, <1>7, <1>8, <2>1
  <2>3. new.entry \in DOMAIN history' /\ history'[new.entry].snap = new.next
    BY <1>4, <1>6, <1>7
  <2> QED
    BY <1>6, <2>1, <2>2, <2>3 DEF OneFile
<1>10. OneStory' /\ OneState' /\ \A r : Grounded(r) => Grounded(r)'
  BY <1>3, <1>8, OneKept DEF OneInv, OneStory
<1> QED
  BY <1>3, <1>9, <1>10 DEF OneInv

LEMMA TailShifts ==
  ASSUME NEW S, NEW q \in Seq(S), q # <<>>, Len(q) # 1
  PROVE  /\ \A j \in DOMAIN Tail(q) : j \in Nat /\ j + 1 \in DOMAIN q /\ j + 1 # 1
                                     /\ Tail(q)[j] = q[j + 1]
         /\ \A i \in DOMAIN q : i # 1 => i - 1 \in DOMAIN Tail(q) /\ q[i] = Tail(q)[i - 1]
         /\ 1 \in DOMAIN q /\ Head(q) = q[1] /\ DOMAIN q \subseteq Nat
<1>0. Len(q) \in Nat /\ Len(q) > 0
  OBVIOUS
<1>1. Len(q) \in Nat /\ Len(q) > 1
  BY <1>0
<1>2. Tail(q) \in Seq(S) /\ Len(Tail(q)) = Len(q) - 1
  BY <1>1
<1>3. \A j \in 1 .. (Len(q) - 1) : Tail(q)[j] = q[j + 1]
  BY <1>1, <1>2
<1>4. DOMAIN q = 1 .. Len(q) /\ DOMAIN Tail(q) = 1 .. (Len(q) - 1)
  BY <1>1, <1>2
<1> QED
  BY <1>1, <1>3, <1>4

\* The state a save has put in place.
LEMMA SavedState ==
  ASSUME ActionInv, NEW p, Procs = {p}, OneInv(p), saving[p].phase = "replace",
         state_file' = saving[p].entry, UNCHANGED <<history, journal, performed>>,
         NEW s, s = saving[p].next
  PROVE  /\ Current' = s /\ state_file' # NoFile /\ state_file' \in DOMAIN history'
         /\ run[p].phase = "work" /\ Head(run[p].todo).do = "save"
         /\ Head(run[p].todo).state = s
         /\ \A tx : state_file # NoFile /\ Beyond(tx, Current) => Beyond(tx, s)
         /\ OneState'
<1>1. /\ OneFile(saving[p]) /\ SaveOK(saving[p], run[p])
      /\ Grounded(run[p]) /\ RunOK(run[p])
  BY OwnRun DEF OneInv, ActionInv, CommandsOK
<1>2. Current' = s /\ state_file' \in DOMAIN history' /\ state_file' # NoFile
  <2>1. 0 \notin DOMAIN history
    BY FileElements
  <2> QED
    BY <1>1, <2>1 DEF OneFile, Current, NoFile
<1>3. /\ run[p].phase = "work" /\ Head(run[p].todo).do = "save"
      /\ Head(run[p].todo).state = s
  BY <1>1 DEF SaveOK
<1>4. /\ WellFormed(s) /\ (state_file # NoFile => Successor(Current, s))
  BY <1>1 DEF OneFile
<1>5. /\ s.revision \in Nat
      /\ state_file # NoFile => Current.revision \in Nat
  BY <1>1, FileElements DEF OneFile, Current, Snapshot
<1>6. state_file # NoFile =>
        \/ s.revision = Current.revision + 1
        \/ s.revision = Current.revision /\ s.mode = Current.mode
  BY <1>4 DEF Successor
<1>7. \A tx : state_file # NoFile /\ Beyond(tx, Current) => Beyond(tx, s)
  BY <1>5, <1>6, PerformedElements DEF Beyond
<1>8. s.pending # 0 => s.mode = "BOUNDED_CONTROL"
  <2>1. s.mode \in {"SHADOW", "ADVISE", "BOUNDED_CONTROL"}
    BY <1>1, FileElements DEF OneFile, Snapshot, Modes
  <2>2. CASE s.mode = "SHADOW" /\ s.revision = 0
    BY <1>4, <2>2 DEF WellFormed, Genesis
  <2>3. CASE s.mode = "SHADOW" /\ s.revision > 0
    <3>1. /\ ~(s.mode = "SHADOW" /\ s.revision = 0) /\ s.mode # "ADVISE"
          /\ s.mode # "BOUNDED_CONTROL"
      BY <2>3
    <3>2. NoActiveControl(s)
      BY <1>4, <2>3, <3>1, Zenon DEF WellFormed
    <3> QED
      BY <3>2 DEF NoActiveControl
  <2>4. CASE s.mode = "ADVISE"
    BY <1>4, <2>4 DEF WellFormed, NoActiveControl
  <2> QED
    BY <1>5, <2>1, <2>2, <2>3, <2>4
<1>9. \A i \in DOMAIN performed :
        \/ performed[i].lease < s.revision
        \/ performed[i].lease = s.revision /\ s.mode = "BOUNDED_CONTROL"
  BY <1>5, <1>6, PerformedElements DEF OneInv, OneState
<1>10. ASSUME NEW tx \in Transactions, Mentioned(tx, "COMMITTED")
       PROVE  s.pending # tx /\ (Failed(tx) => Beyond(tx, s))
  <2>1. s.pending = 0 \/ (s.pending = run[p].tx /\ ~Mentioned(run[p].tx, "COMMITTED"))
    <3>1. run[p].todo # <<>> /\ run[p].todo \in Seq(Step)
      BY <1>1, <1>3, OwnRun DEF RunOK
    <3>2. 1 \in DOMAIN run[p].todo /\ run[p].todo[1] = Head(run[p].todo)
      BY <3>1
    <3> QED
      BY <1>1, <1>3, <3>2 DEF Grounded, TodoOne, Executable
  <2>2. s.pending # tx
    BY <1>10, <2>1 DEF Transactions
  <2>3. Failed(tx) => Beyond(tx, s)
    BY <1>7, <1>10 DEF OneInv, OneState, Beyond
  <2> QED
    BY <2>2, <2>3
<1>11. OneState'
  <2>1. /\ \A tx : /\ Mentioned(tx, "COMMITTED")' <=> Mentioned(tx, "COMMITTED")
                   /\ Failed(tx)' <=> Failed(tx)
        /\ Transactions' = Transactions
    BY DEF Mentioned, Failed, Transactions
  <2> QED
    BY <1>2, <1>8, <1>9, <1>10, <2>1 DEF OneState, Beyond
<1> QED
  BY <1>2, <1>3, <1>7, <1>11
\* A command with one step less to take.
LEMMA ShiftedTodo ==
  ASSUME NEW old, NEW new, old.todo \in Seq(Step), old.todo # <<>>, Len(old.todo) # 1,
         new.todo = Tail(old.todo)
  PROVE  /\ 1 \in DOMAIN old.todo /\ Head(old.todo) = old.todo[1]
         /\ \A j \in DOMAIN new.todo : j \in Nat /\ j + 1 \in DOMAIN old.todo /\ j + 1 # 1
                                      /\ new.todo[j] = old.todo[j + 1]
         /\ \A i \in DOMAIN old.todo :
              i \in Nat /\ (i # 1 => i - 1 \in DOMAIN new.todo /\ old.todo[i] = new.todo[i - 1])
         /\ \A j \in Lines(new) : j \in DOMAIN new.todo /\ j + 1 \in Lines(old)
         /\ \A i \in Lines(old) : i \in DOMAIN old.todo /\ (i # 1 => i - 1 \in Lines(new))
         /\ old.todo[1].do # "execute" => (Executes(new) <=> Executes(old))
<1>1. /\ 1 \in DOMAIN old.todo /\ Head(old.todo) = old.todo[1]
      /\ \A j \in DOMAIN new.todo : j \in Nat /\ j + 1 \in DOMAIN old.todo /\ j + 1 # 1
                                   /\ new.todo[j] = old.todo[j + 1]
      /\ \A i \in DOMAIN old.todo :
           i \in Nat /\ (i # 1 => i - 1 \in DOMAIN new.todo /\ old.todo[i] = new.todo[i - 1])
  BY TailShifts
<1>2. \A j \in Lines(new) : j \in DOMAIN new.todo /\ j + 1 \in Lines(old)
  BY <1>1 DEF Lines
<1>3. \A i \in Lines(old) : i \in DOMAIN old.todo /\ (i # 1 => i - 1 \in Lines(new))
  BY <1>1 DEF Lines
<1>4. old.todo[1].do # "execute" => (Executes(new) <=> Executes(old))
  BY <1>1 DEF Executes
<1> QED
  BY <1>1, <1>2, <1>3, <1>4

LEMMA StepDoneShape ==
  ASSUME ActionInv, NEW p \in Procs, StepDone(p), run[p].phase = "work"
  PROVE  \/ run'[p] = Idle
         \/ /\ run[p].todo \in Seq(Step) /\ run[p].todo # <<>> /\ Len(run[p].todo) # 1
            /\ run'[p].phase = "work" /\ run'[p].todo = Tail(run[p].todo)
            /\ run'[p].tx = run[p].tx /\ run'[p].loaded = run[p].loaded
<1>1. run[p] \in Run /\ run[p].todo \in Seq(Step) /\ run[p].todo # <<>>
  BY RunType DEF RunOK
<1>2. run \in [Procs -> Run]
  BY DEF ActionInv, ActionTypeOK
<1>3. CASE Len(run[p].todo) = 1
  BY <1>2, <1>3 DEF StepDone, Finish
<1>4. CASE Len(run[p].todo) # 1
  <2>1. run' = [run EXCEPT ![p].todo = Tail(@), ![p].link = NotAppending]
    BY <1>4 DEF StepDone
  <2>2. run'[p] = [run[p] EXCEPT !.todo = Tail(run[p].todo), !.link = NotAppending]
    BY <1>2, <2>1
  <2> QED
    BY <1>1, <1>4, <2>2 DEF Run
<1> QED
  BY <1>3, <1>4

LEMMA IdleGroundedNext == Grounded(Idle)'
<1>1. Idle.todo = <<>> /\ Idle.phase = "idle"
  BY DEF Idle
<1> QED
  BY <1>1 DEF Grounded, TodoOne, Lines, Executes

LEMMA FinishSaveOne ==
  ASSUME ActionInv, NEW p, Procs = {p}, OneInv(p), FinishSave(p)
  PROVE  OneInv(p)'
<1>0. PICK s : s = saving[p].next
  OBVIOUS
<1>1. /\ saving[p].phase = "replace" /\ state_file' = saving[p].entry
      /\ UNCHANGED <<history, journal, performed, next_tx>>
      /\ saving'[p] = NotSaving /\ StepDone(p)
  <2>1. OneFile(saving[p])
    BY DEF OneInv
  <2> QED
    BY <2>1 DEF FinishSave, SaveReplace, SaveLost, OneFile, journalVars,
                ActionInv, StoreInv, StoreTypeOK
<1>2. /\ Current' = s /\ state_file' # NoFile /\ state_file' \in DOMAIN history'
      /\ run[p].phase = "work" /\ Head(run[p].todo).do = "save"
      /\ Head(run[p].todo).state = s
      /\ \A tx : state_file # NoFile /\ Beyond(tx, Current) => Beyond(tx, s)
      /\ OneState'
  BY <1>0, <1>1, SavedState
<1>3. OneStory' /\ next_tx' > 0
  BY <1>1 DEF OneInv, OneStory
<1>4. OneFile(NotSaving)'
  BY <1>2 DEF OneFile, NotSaving
<1>5. ASSUME NEW old, old = run[p], NEW new, new = run'[p],
             old.todo \in Seq(Step), old.todo # <<>>, Len(old.todo) # 1,
             new.phase = "work", new.todo = Tail(old.todo),
             new.tx = old.tx, new.loaded = old.loaded
      PROVE  Grounded(new)'
  <2>1. TodoOne(old) /\ old.todo[1].do = "save" /\ old.todo[1].state = s
    BY <1>2, <1>5, OwnRun, ShiftedTodo DEF Grounded
  <2>2. /\ 1 \in DOMAIN old.todo /\ 1 \notin Lines(old)
        /\ \A j \in DOMAIN new.todo : j \in Nat /\ j + 1 \in DOMAIN old.todo
                                     /\ new.todo[j] = old.todo[j + 1]
        /\ \A i \in DOMAIN old.todo :
             i \in Nat /\ (i # 1 => i - 1 \in DOMAIN new.todo /\ old.todo[i] = new.todo[i - 1])
        /\ \A j \in Lines(new) : j \in DOMAIN new.todo /\ j + 1 \in Lines(old)
        /\ \A i \in Lines(old) : i \in DOMAIN old.todo /\ i # 1 /\ i - 1 \in Lines(new)
        /\ Executes(new) <=> Executes(old)
    <3>1. 1 \notin Lines(old)
      BY <2>1 DEF Lines
    <3>2. /\ 1 \in DOMAIN old.todo
          /\ \A j \in DOMAIN new.todo : j \in Nat /\ j + 1 \in DOMAIN old.todo /\ j + 1 # 1
                                       /\ new.todo[j] = old.todo[j + 1]
      BY <1>5, ShiftedTodo
    <3>3. \A i \in DOMAIN old.todo :
            i \in Nat /\ (i # 1 => i - 1 \in DOMAIN new.todo /\ old.todo[i] = new.todo[i - 1])
      BY <1>5, ShiftedTodo
    <3>4. \A j \in Lines(new) : j \in DOMAIN new.todo /\ j + 1 \in Lines(old)
      BY <1>5, ShiftedTodo
    <3>5. \A i \in Lines(old) : i \in DOMAIN old.todo /\ (i # 1 => i - 1 \in Lines(new))
      BY <1>5, ShiftedTodo
    <3>6. Executes(new) <=> Executes(old)
      BY <1>5, <2>1, ShiftedTodo
    <3> QED
      BY <3>1, <3>2, <3>3, <3>4, <3>5, <3>6
  <2>3. /\ \A tx, t : Mentioned(tx, t)' <=> Mentioned(tx, t)
        /\ \A tx : Failed(tx)' <=> Failed(tx)
        /\ \A tx, t : Beyond(tx, t)' <=> Beyond(tx, t)
    BY <1>1 DEF Mentioned, Failed, Beyond
  <2>4. Fails(new)' <=> Fails(old)
    <3>1. Lines(new)' = Lines(new)
      BY DEF Lines
    <3>2. (\E j \in Lines(new) : new.todo[j].line.type = "OUTCOME" /\ ~new.todo[j].line.ok)
          <=> (\E j \in Lines(old) : old.todo[j].line.type = "OUTCOME" /\ ~old.todo[j].line.ok)
      BY <2>2
    <3> QED
      BY <1>5, <2>3, <3>1, <3>2 DEF Fails
  <2>5. \A t : Settles(new, t)' <=> Settles(old, t)
    BY <1>5, <2>3, <2>4 DEF Settles
  <2>6. ASSUME NEW j \in Lines(new)
        PROVE  Tells(new, j)'
    <3>1. Tells(old, j + 1) /\ j \in Nat /\ new.todo[j] = old.todo[j + 1]
      BY <2>1, <2>2 DEF TodoOne
    <3>2. new.todo[j].line.type = "COMMITTED" =>
            \/ \E i \in DOMAIN new.todo :
                 i < j /\ new.todo[i].do = "save" /\ Settles(new, new.todo[i].state)'
            \/ Settles(new, s)'
      <4>1. CASE \E i \in DOMAIN old.todo : i < j + 1 /\ old.todo[i].do = "save"
                                           /\ Settles(old, old.todo[i].state)
        <5>1. PICK i \in DOMAIN old.todo : i < j + 1 /\ old.todo[i].do = "save"
                                           /\ Settles(old, old.todo[i].state)
          BY <4>1
        <5>2. CASE i = 1
          BY <2>1, <2>5, <5>1, <5>2
        <5>3. CASE i # 1
          <6>1. i - 1 \in DOMAIN new.todo /\ old.todo[i] = new.todo[i - 1] /\ i - 1 < j
            BY <2>2, <3>1, <5>1, <5>3
          <6> QED
            BY <2>5, <5>1, <6>1
        <5> QED
          BY <5>2, <5>3
      <4>2. CASE /\ state_file # NoFile /\ Settles(old, Current)
                 /\ new.todo[j].line.type = "COMMITTED"
        <5>1. ~Executes(old)
          BY <3>1, <4>2 DEF Tells
        <5>2. s.pending = 0
          BY <2>1, <2>2, <5>1 DEF TodoOne
        <5>3. Settles(old, s)
          BY <1>2, <4>2, <5>2 DEF Settles
        <5> QED
          BY <2>5, <5>3
      <4> QED
        BY <3>1, <4>1, <4>2 DEF Tells
    <3>3. \A i \in Lines(new) : i < j =>
            new.todo[i].line.type \in {"OUTCOME", "RECOVERY"} /\ new.todo[j].line.type = "COMMITTED"
      <4>1. SUFFICES ASSUME NEW i \in Lines(new), i < j
                     PROVE  /\ new.todo[i].line.type \in {"OUTCOME", "RECOVERY"}
                            /\ new.todo[j].line.type = "COMMITTED"
        OBVIOUS
      <4>2. i + 1 \in Lines(old) /\ i + 1 < j + 1 /\ new.todo[i] = old.todo[i + 1]
        BY <2>2, <3>1, <4>1
      <4> QED
        BY <3>1, <4>2 DEF Tells
    <3> QED
      BY <1>2, <1>5, <2>2, <2>3, <3>1, <3>2, <3>3 DEF Tells
  <2>7. ASSUME Executes(new)
        PROVE  Executable(new)'
    <3>1. Executable(old)
      BY <2>1, <2>2, <2>7 DEF TodoOne
    <3>2. s.mode = "BOUNDED_CONTROL" /\ s.revision = new.loaded.revision
      BY <1>5, <2>1, <2>2, <3>1 DEF Executable
    <3>3. \A j \in DOMAIN new.todo :
            new.todo[j].do = "save" => /\ new.todo[j].state.mode = "BOUNDED_CONTROL"
                                       /\ new.todo[j].state.revision = new.loaded.revision
      BY <1>5, <2>2, <3>1 DEF Executable
    <3> QED
      BY <1>2, <1>5, <2>3, <3>1, <3>2, <3>3 DEF Executable
  <2>8. \A j \in DOMAIN new.todo :
          new.todo[j].do = "save" /\ new.todo[j].state.pending # 0 =>
            Executes(new) /\ new.todo[j].state.pending = new.tx
    BY <1>5, <2>1, <2>2 DEF TodoOne
  <2>9. TodoOne(new)'
    BY <2>6, <2>7, <2>8 DEF TodoOne, Lines, Executes
  <2> QED
    BY <1>5, <2>9 DEF Grounded
<1>6. run[p].tx < next_tx' /\ Idle.tx < next_tx'
  BY <1>1, OwnRun, IdleGrounded DEF OneInv
<1>7. \A new \in {run'[p]} : new.tx < next_tx' /\ Grounded(new)'
  <2>1. CASE run'[p] = Idle
    BY <1>6, <2>1, IdleGroundedNext
  <2>2. CASE run'[p] # Idle
    <3>0. PICK new : new = run'[p]
      OBVIOUS
    <3>1. /\ run[p].todo \in Seq(Step) /\ run[p].todo # <<>> /\ Len(run[p].todo) # 1
          /\ new.phase = "work" /\ new.todo = Tail(run[p].todo)
          /\ new.tx = run[p].tx /\ new.loaded = run[p].loaded
      BY <1>1, <1>2, <2>2, <3>0, StepDoneShape
    <3>2. Grounded(new)'
      BY <1>5, <3>0, <3>1
    <3> QED
      BY <1>6, <3>0, <3>1, <3>2
  <2> QED
    BY <2>1, <2>2
<1> QED
  BY <1>1, <1>2, <1>3, <1>4, <1>7 DEF OneInv
\* What an append to the journal adds to what is mentioned there.
LEMMA OneLineMore ==
  ASSUME ActionInv, NEW e \in JournalLine, journal' = Append(journal, e)
  PROVE  /\ DOMAIN journal' = DOMAIN journal \union {Len(journal) + 1}
         /\ Len(journal) + 1 \notin DOMAIN journal /\ journal'[Len(journal) + 1] = e
         /\ \A k \in DOMAIN journal : journal'[k] = journal[k] /\ k < Len(journal) + 1
         /\ \A tx, t : Mentioned(tx, t)' <=> Mentioned(tx, t) \/ (e.tx = tx /\ e.type = t)
         /\ \A tx : Failed(tx)' <=>
                      Failed(tx) \/ (e.tx = tx /\ e.type = "OUTCOME" /\ ~e.ok)
<1>1. journal \in Seq(JournalLine) /\ DOMAIN journal = 1 .. Len(journal) /\ Len(journal) \in Nat
  BY JournalElements
<1>2. /\ DOMAIN journal' = DOMAIN journal \union {Len(journal) + 1}
      /\ Len(journal) + 1 \notin DOMAIN journal /\ journal'[Len(journal) + 1] = e
      /\ \A k \in DOMAIN journal : journal'[k] = journal[k] /\ k < Len(journal) + 1
  <2>1. DOMAIN journal' = 1 .. (Len(journal) + 1)
    BY <1>1, SeqAppend
  <2>2. /\ journal'[Len(journal) + 1] = e
        /\ \A k \in DOMAIN journal : journal'[k] = journal[k]
    BY <1>1, SeqAppend
  <2> QED
    BY <1>1, <2>1, <2>2
<1>3. \A tx, t : Mentioned(tx, t)' <=> Mentioned(tx, t) \/ (e.tx = tx /\ e.type = t)
  BY <1>2 DEF Mentioned
<1>4. \A tx : Failed(tx)' <=> Failed(tx) \/ (e.tx = tx /\ e.type = "OUTCOME" /\ ~e.ok)
  BY <1>2 DEF Failed
<1> QED
  BY <1>2, <1>3, <1>4

LEMMA AppendJournalOne ==
  ASSUME ActionInv, NEW p, Procs = {p}, OneInv(p), AppendJournal(p)
  PROVE  OneInv(p)'
<1>0. PICK old : old = run[p]
  OBVIOUS
<1>1. PICK line : line = Head(old.todo).line
  OBVIOUS
<1>2. PICK e : e = [prev |-> old.link, tx |-> line.tx, type |-> line.type, ok |-> line.ok]
  OBVIOUS
<1>3. /\ old.phase = "work" /\ Head(old.todo).do = "log" /\ StepDone(p)
      /\ journal' = Append(journal, e)
      /\ UNCHANGED <<state_file, history, saving, performed, next_tx>>
  BY <1>0, <1>1, <1>2 DEF AppendJournal, Doing, storeVars
<1>4. /\ old \in Run /\ old.tx \in Nat /\ old.tx < next_tx /\ next_tx \in Nat
      /\ TodoOne(old) /\ old.todo \in Seq(Step) /\ old.todo # <<>>
  BY <1>0, <1>3, OwnRun DEF Grounded, RunOK
<1>5. /\ 1 \in DOMAIN old.todo /\ Head(old.todo) = old.todo[1] /\ DOMAIN old.todo \subseteq Nat
      /\ \A i \in DOMAIN old.todo : ~(i < 1)
      /\ Head(old.todo) \in Step
  BY <1>4
<1>6. /\ e \in JournalLine /\ e.tx = old.todo[1].line.tx /\ e.type = old.todo[1].line.type
      /\ e.ok = old.todo[1].line.ok /\ e.tx \in Nat /\ e.type \in EventTypes
  <2>1. line \in Line
    BY <1>1, <1>5 DEF Step
  <2>2. old.link \in Nat
    BY <1>0, <1>4 DEF AppendJournal, Run
  <2> QED
    BY <1>1, <1>2, <1>5, <2>1, <2>2 DEF Line, JournalLine
<1>7. e.tx # 0 => 1 \in Lines(old) /\ Tells(old, 1) /\ e.tx = old.tx
  <2>1. e.tx # 0 => 1 \in Lines(old) /\ Tells(old, 1)
    BY <1>3, <1>4, <1>5, <1>6 DEF Lines, TodoOne
  <2> QED
    BY <1>6, <2>1 DEF Tells
<1>8. /\ e.tx # 0 /\ e.type \in {"REFUSED", "LICENSED"} =>
           \A t \in EventTypes : ~Mentioned(e.tx, t)
      /\ e.tx # 0 /\ e.type = "OUTCOME" =>
           /\ Mentioned(e.tx, "LICENSED")
           /\ ~Mentioned(e.tx, "OUTCOME") /\ ~Mentioned(e.tx, "COMMITTED")
      /\ e.tx # 0 /\ e.type = "COMMITTED" =>
           ~Mentioned(e.tx, "COMMITTED") /\ state_file # NoFile /\ Settles(old, Current)
  BY <1>5, <1>6, <1>7 DEF Tells
<1>9. /\ DOMAIN journal' = DOMAIN journal \union {Len(journal) + 1}
      /\ Len(journal) + 1 \notin DOMAIN journal /\ journal'[Len(journal) + 1] = e
      /\ \A k \in DOMAIN journal : journal'[k] = journal[k] /\ k < Len(journal) + 1
      /\ \A tx, t : Mentioned(tx, t)' <=> Mentioned(tx, t) \/ (e.tx = tx /\ e.type = t)
      /\ \A tx : Failed(tx)' <=>
                   Failed(tx) \/ (e.tx = tx /\ e.type = "OUTCOME" /\ ~e.ok)
  BY <1>3, <1>6, OneLineMore
<1>10. OneStory'
  <2>1. \A k \in DOMAIN journal' : journal'[k].tx < next_tx'
    BY <1>3, <1>4, <1>6, <1>7, <1>9 DEF OneInv, OneStory
  <2>2. \A k \in DOMAIN journal : journal[k].type \in EventTypes
                                 /\ Mentioned(journal[k].tx, journal[k].type)
    BY JournalElements DEF Mentioned
  <2>3. ASSUME NEW j \in DOMAIN journal, journal[j].tx = e.tx, e.tx # 0
        PROVE  /\ e.type = journal[j].type => e.type = "RECOVERY"
               /\ e.type = "REFUSED" => journal[j].type # "LICENSED"
               /\ journal[j].type = "REFUSED" => e.type # "LICENSED"
               /\ journal[j].type = "COMMITTED" => e.type \notin {"OUTCOME", "LICENSED"}
    BY <1>6, <1>8, <2>2, <2>3 DEF EventTypes
  <2>4. ASSUME NEW i \in DOMAIN journal', NEW j \in DOMAIN journal',
               journal'[i].tx = journal'[j].tx, journal'[i].tx # 0
        PROVE  /\ journal'[i].type = journal'[j].type /\ journal'[i].type # "RECOVERY" => i = j
               /\ journal'[i].type = "REFUSED" => journal'[j].type # "LICENSED"
               /\ journal'[i].type = "COMMITTED" /\ journal'[j].type \in {"OUTCOME", "LICENSED"}
                    => j < i
    <3>1. CASE i \in DOMAIN journal /\ j \in DOMAIN journal
      BY <1>9, <2>4, <3>1 DEF OneInv, OneStory
    <3>2. CASE i = Len(journal) + 1 /\ j \in DOMAIN journal
      BY <1>9, <2>3, <2>4, <3>2
    <3>3. CASE i \in DOMAIN journal /\ j = Len(journal) + 1
      BY <1>9, <2>3, <2>4, <3>3
    <3>4. CASE i = Len(journal) + 1 /\ j = Len(journal) + 1
      BY <1>9, <3>4
    <3> QED
      BY <1>9, <3>1, <3>2, <3>3, <3>4
  <2>5. ASSUME NEW i \in DOMAIN journal', journal'[i].tx # 0, journal'[i].type = "OUTCOME"
        PROVE  \E j \in DOMAIN journal' :
                 j < i /\ journal'[j].tx = journal'[i].tx /\ journal'[j].type = "LICENSED"
    <3>1. CASE i \in DOMAIN journal
      <4>1. PICK j \in DOMAIN journal :
              j < i /\ journal[j].tx = journal[i].tx /\ journal[j].type = "LICENSED"
        BY <1>9, <2>5, <3>1 DEF OneInv, OneStory
      <4> QED
        BY <1>9, <3>1, <4>1
    <3>2. CASE i = Len(journal) + 1
      <4>1. PICK j \in DOMAIN journal : journal[j].tx = e.tx /\ journal[j].type = "LICENSED"
        BY <1>8, <1>9, <2>5, <3>2 DEF Mentioned
      <4> QED
        BY <1>9, <3>2, <4>1
    <3> QED
      BY <1>9, <3>1, <3>2
  <2> QED
    BY <2>1, <2>4, <2>5 DEF OneStory
<1>11. Current' = Current /\ \A tx, s : Beyond(tx, s)' <=> Beyond(tx, s)
  BY <1>3 DEF Current, Beyond
<1>12. OneState'
  <2>1. ASSUME state_file # NoFile, NEW tx \in Transactions', Mentioned(tx, "COMMITTED")'
        PROVE  Current.pending # tx /\ (Failed(tx)' => Beyond(tx, Current))
    <3>1. tx # 0
      BY <2>1 DEF Transactions
    <3>2. CASE Mentioned(tx, "COMMITTED")
      <4>1. tx \in Transactions
        BY <3>1, <3>2 DEF Transactions, Mentioned
      <4>2. Failed(tx)' => Failed(tx)
        BY <1>8, <1>9, <3>1, <3>2
      <4> QED
        BY <2>1, <3>2, <4>1, <4>2 DEF OneInv, OneState
    <3>3. CASE e.tx = tx /\ e.type = "COMMITTED"
      <4>1. Settles(old, Current) /\ tx = old.tx
        BY <1>7, <1>8, <3>1, <3>3
      <4>2. Failed(tx)' => Failed(tx)
        BY <1>9, <3>3
      <4> QED
        BY <3>1, <4>1, <4>2 DEF Settles, Fails
    <3> QED
      BY <1>9, <2>1, <3>2, <3>3
  <2>2. state_file' = state_file /\ performed' = performed
    BY <1>3
  <2> QED
    BY <1>11, <2>1, <2>2 DEF OneInv, OneState
<1>13. \A save \in {saving'[p]} : OneFile(save)'
  BY <1>3, <1>11 DEF OneInv, OneFile
<1>14. ASSUME NEW new, new = run'[p], Len(old.todo) # 1,
              new.phase = "work", new.todo = Tail(old.todo),
              new.tx = old.tx, new.loaded = old.loaded
       PROVE  Grounded(new)'
  <2>1. /\ \A j \in DOMAIN new.todo : j \in Nat /\ j + 1 \in DOMAIN old.todo /\ j + 1 # 1
                                      /\ new.todo[j] = old.todo[j + 1]
        /\ \A j \in Lines(new) : j \in DOMAIN new.todo /\ j + 1 \in Lines(old)
        /\ Executes(new) <=> Executes(old)
    <3>1. \A j \in DOMAIN new.todo : j \in Nat /\ j + 1 \in DOMAIN old.todo /\ j + 1 # 1
                                    /\ new.todo[j] = old.todo[j + 1]
      BY <1>4, <1>14, ShiftedTodo
    <3>2. \A j \in Lines(new) : j \in DOMAIN new.todo /\ j + 1 \in Lines(old)
      BY <1>4, <1>14, ShiftedTodo
    <3>3. Executes(new) <=> Executes(old)
      BY <1>3, <1>4, <1>5, <1>14, ShiftedTodo
    <3> QED
      BY <3>1, <3>2, <3>3
  <2>2. \A i \in DOMAIN old.todo :
          i \in Nat /\ (i # 1 => i - 1 \in DOMAIN new.todo /\ old.todo[i] = new.todo[i - 1])
    BY <1>4, <1>14, ShiftedTodo
  <2>3. Lines(old) # {} => old.tx # 0
    BY <1>4 DEF TodoOne, Tells, Lines
  <2>4. Lines(new)' = Lines(new) /\ (Executes(new)' <=> Executes(new))
    BY DEF Lines, Executes
  <2>5. old.tx # 0 /\ Fails(new)' => Fails(old)
    <3>1. (\E j \in Lines(new) : new.todo[j].line.type = "OUTCOME" /\ ~new.todo[j].line.ok)
          => (\E j \in Lines(old) : old.todo[j].line.type = "OUTCOME" /\ ~old.todo[j].line.ok)
      BY <2>1
    <3>2. old.tx # 0 /\ Failed(old.tx)' => Fails(old)
      BY <1>6, <1>7, <1>9 DEF Fails
    <3> QED
      BY <1>14, <2>4, <3>1, <3>2 DEF Fails
  <2>6. \A t : old.tx # 0 /\ Settles(old, t) => Settles(new, t)'
    BY <1>11, <1>14, <2>5 DEF Settles
  <2>7. ASSUME NEW j \in Lines(new)
        PROVE  Tells(new, j)'
    <3>1. Tells(old, j + 1) /\ j \in Nat /\ new.todo[j] = old.todo[j + 1] /\ old.tx # 0
      BY <1>4, <2>1, <2>3 DEF TodoOne
    <3>2. e.tx # 0 => e.type \in {"OUTCOME", "RECOVERY"} /\ new.todo[j].line.type = "COMMITTED"
      <4>1. 1 < j + 1
        BY <2>1, <3>1
      <4> QED
        BY <1>6, <1>7, <3>1, <4>1 DEF Tells
    <3>3. ASSUME NEW t, Mentioned(new.tx, t)', ~Mentioned(new.tx, t)
          PROVE  t \in {"OUTCOME", "RECOVERY"} /\ new.todo[j].line.type = "COMMITTED"
      BY <1>9, <1>14, <3>1, <3>2, <3>3
    <3>4. new.todo[j].line.type = "COMMITTED" =>
            \/ \E i \in DOMAIN new.todo :
                 i < j /\ new.todo[i].do = "save" /\ Settles(new, new.todo[i].state)'
            \/ state_file # NoFile /\ Settles(new, Current)'
      <4>1. CASE \E i \in DOMAIN old.todo : i < j + 1 /\ old.todo[i].do = "save"
                                           /\ Settles(old, old.todo[i].state)
        <5>1. PICK i \in DOMAIN old.todo : i < j + 1 /\ old.todo[i].do = "save"
                                           /\ Settles(old, old.todo[i].state)
          BY <4>1
        <5>2. i # 1
          BY <1>3, <1>5, <5>1
        <5>3. i - 1 \in DOMAIN new.todo /\ old.todo[i] = new.todo[i - 1] /\ i - 1 < j
          BY <2>2, <3>1, <5>1, <5>2
        <5> QED
          BY <2>6, <3>1, <5>1, <5>3
      <4>2. CASE state_file # NoFile /\ Settles(old, Current)
        BY <1>11, <2>6, <3>1, <4>2 DEF Settles, Fails
      <4> QED
        BY <3>1, <4>1, <4>2 DEF Tells
    <3>5. \A i \in Lines(new) : i < j =>
            new.todo[i].line.type \in {"OUTCOME", "RECOVERY"} /\ new.todo[j].line.type = "COMMITTED"
      <4>1. SUFFICES ASSUME NEW i \in Lines(new), i < j
                     PROVE  /\ new.todo[i].line.type \in {"OUTCOME", "RECOVERY"}
                            /\ new.todo[j].line.type = "COMMITTED"
        OBVIOUS
      <4>2. i + 1 \in Lines(old) /\ i + 1 < j + 1 /\ new.todo[i] = old.todo[i + 1]
        BY <2>1, <3>1, <4>1
      <4> QED
        BY <3>1, <4>2 DEF Tells
    <3>6. /\ new.todo[j].line.tx = new.tx
          /\ new.todo[j].line.type \in {"REFUSED", "LICENSED"} =>
               \A t \in EventTypes : ~Mentioned(new.tx, t)'
          /\ new.todo[j].line.type = "OUTCOME" =>
               /\ Mentioned(new.tx, "LICENSED")'
               /\ ~Mentioned(new.tx, "OUTCOME")' /\ ~Mentioned(new.tx, "COMMITTED")'
          /\ new.todo[j].line.type = "COMMITTED" => ~Mentioned(new.tx, "COMMITTED")'
          /\ Executes(new) => new.todo[j].line.type = "LICENSED"
      BY <1>9, <1>14, <2>1, <3>1, <3>3 DEF Tells
    <3>7. state_file' = state_file
      BY <1>3
    <3> QED
      BY <2>4, <3>4, <3>5, <3>6, <3>7 DEF Tells
  <2>8. ASSUME Executes(new)
        PROVE  Executable(new)'
    <3>1. Executable(old) /\ Executes(old)
      BY <1>4, <2>1, <2>8 DEF TodoOne
    <3>2. e.tx # 0 => e.type = "LICENSED"
      BY <1>6, <1>7, <3>1 DEF Tells
    <3>3. ~Mentioned(new.tx, "OUTCOME")' /\ ~Mentioned(new.tx, "COMMITTED")' /\ new.tx # 0
      BY <1>9, <1>14, <3>1, <3>2 DEF Executable
    <3>4. \A j \in DOMAIN new.todo :
            new.todo[j].do = "save" => /\ new.todo[j].state.mode = "BOUNDED_CONTROL"
                                       /\ new.todo[j].state.revision = new.loaded.revision
      BY <1>14, <2>1, <3>1 DEF Executable
    <3>5. (\E j \in DOMAIN old.todo : old.todo[j].do = "save") =>
            \E j \in DOMAIN new.todo : new.todo[j].do = "save"
      BY <1>3, <1>5, <2>2
    <3>6. state_file' = state_file
      BY <1>3
    <3> QED
      BY <1>11, <1>14, <3>1, <3>3, <3>4, <3>5, <3>6 DEF Executable
  <2>9. \A j \in DOMAIN new.todo :
          new.todo[j].do = "save" /\ new.todo[j].state.pending # 0 =>
            Executes(new) /\ new.todo[j].state.pending = new.tx
    BY <1>4, <1>14, <2>1 DEF TodoOne
  <2>10. TodoOne(new)'
    BY <2>4, <2>7, <2>8, <2>9 DEF TodoOne
  <2> QED
    BY <1>14, <2>10 DEF Grounded
<1>15. \A new \in {run'[p]} : new.tx < next_tx' /\ Grounded(new)'
  <2>0. Idle.tx < next_tx' /\ old.tx < next_tx'
    BY <1>3, <1>4, IdleGrounded
  <2>1. CASE run'[p] = Idle
    BY <2>0, <2>1, IdleGroundedNext
  <2>2. CASE run'[p] # Idle
    <3>0. PICK new : new = run'[p]
      OBVIOUS
    <3>1. /\ Len(old.todo) # 1 /\ new.phase = "work" /\ new.todo = Tail(old.todo)
          /\ new.tx = old.tx /\ new.loaded = old.loaded
      BY <1>0, <1>3, <2>2, <3>0, StepDoneShape
    <3>2. Grounded(new)'
      BY <1>14, <3>0, <3>1
    <3> QED
      BY <2>0, <3>0, <3>1, <3>2
  <2> QED
    BY <2>1, <2>2
<1> QED
  BY <1>3, <1>10, <1>12, <1>13, <1>15 DEF OneInv
\* The execution: the lease is still the one on disk, and the outcome, the
\* state that settles it and the marker follow in that order.
LEMMA ExecuteOne ==
  ASSUME ActionInv, NEW p, Procs = {p}, OneInv(p), NEW ok \in BOOLEAN, Execute(p, ok)
  PROVE  OneInv(p)'
<1>0. PICK old : old = run[p]
  OBVIOUS
<1>1. PICK final : final = IF ok THEN Completed(Charged(old.loaded, old.tx, old.ticks), old.tx)
                           ELSE Collapsed(p, Charged(old.loaded, old.tx, old.ticks), old.tx)
  OBVIOUS
<1>2. PICK steps : steps = <<LogStep(Outcome(old.tx, ok)), SaveStep(final),
                             LogStep(Event(old.tx, "COMMITTED"))>>
  OBVIOUS
<1>3. PICK new : new = [old EXCEPT !.phase = "work", !.todo = steps]
  OBVIOUS
<1>4. PICK e : e = [tx |-> old.tx, lease |-> old.loaded.revision]
  OBVIOUS
<1>5. /\ old.phase = "work" /\ performed' = Append(performed, e)
      /\ UNCHANGED <<state_file, history, saving, journal, next_tx>>
  BY <1>0, <1>4 DEF Execute, Doing, storeVars, journalVars
<1>6. run' = [run EXCEPT ![p] = new]
  BY <1>0, <1>1, <1>2, <1>3 DEF Execute, Proceed
<1>7. /\ old \in Run /\ old.loaded \in Snapshot /\ old.tx \in Nat /\ old.ticks \in Nat
      /\ old.tx < next_tx /\ TodoOne(old) /\ run \in [Procs -> Run]
  BY <1>0, OwnRun DEF Grounded, ActionInv, ActionTypeOK
<1>8. old.todo = <<ExecuteStep>> /\ Mentioned(old.tx, "LICENSED")
  BY <1>0, AtExecution DEF Execute, LicensedFor, Mentioned
<1>9. ExecuteStep.do = "execute" /\ DOMAIN old.todo = {1} /\ old.todo[1] = ExecuteStep
  BY <1>8 DEF ExecuteStep
<1>10. /\ old.tx # 0 /\ ~Mentioned(old.tx, "OUTCOME") /\ ~Mentioned(old.tx, "COMMITTED")
       /\ state_file # NoFile /\ Current.mode = "BOUNDED_CONTROL"
       /\ Current.revision = old.loaded.revision /\ old.loaded.revision \in Nat
  BY <1>7, <1>9 DEF TodoOne, Executes, Executable, Snapshot
<1>11. new.phase = "work" /\ new.todo = steps /\ new.tx = old.tx
  BY <1>3, <1>7 DEF Run
<1>12. e \in Performance /\ e.tx = old.tx /\ e.lease = old.loaded.revision
  BY <1>4, <1>7, <1>10 DEF Performance
<1>13. /\ DOMAIN performed' = DOMAIN performed \union {Len(performed) + 1}
       /\ performed'[Len(performed) + 1] = e
       /\ \A i \in DOMAIN performed : performed'[i] = performed[i]
  <2>1. performed \in Seq(Performance) /\ Len(performed) \in Nat
        /\ DOMAIN performed = 1 .. Len(performed)
    BY PerformedElements
  <2>2. DOMAIN performed' = 1 .. (Len(performed) + 1)
    BY <1>5, <1>12, <2>1, SeqAppend
  <2>3. /\ performed'[Len(performed) + 1] = e
        /\ \A i \in DOMAIN performed : performed'[i] = performed[i]
    BY <1>5, <1>12, <2>1, SeqAppend
  <2> QED
    BY <2>1, <2>2, <2>3
<1>14. /\ Current' = Current /\ Transactions' = Transactions
       /\ \A tx, t : Mentioned(tx, t)' <=> Mentioned(tx, t)
       /\ \A tx : Failed(tx)' <=> Failed(tx)
  BY <1>5 DEF Current, Transactions, Mentioned, Failed
<1>15. OneStory' /\ next_tx' > 0
  BY <1>5 DEF OneInv, OneStory
<1>16. \A save \in {saving'[p]} : OneFile(save)'
  BY <1>5, <1>14 DEF OneInv, OneFile
<1>17. \A i \in DOMAIN performed' :
         \/ performed'[i].lease < Current.revision
         \/ performed'[i].lease = Current.revision
  BY <1>10, <1>12, <1>13 DEF OneInv, OneState
<1>18. OneState'
  <2>1. \A tx, t : tx # old.tx /\ Beyond(tx, t) => Beyond(tx, t)'
    BY <1>12, <1>13 DEF Beyond
  <2>2. \A tx \in Transactions : Mentioned(tx, "COMMITTED") =>
          Current.pending # tx /\ (Failed(tx) => Beyond(tx, Current)')
    <3>1. SUFFICES ASSUME NEW tx \in Transactions, Mentioned(tx, "COMMITTED")
                   PROVE  Current.pending # tx /\ (Failed(tx) => Beyond(tx, Current)')
      OBVIOUS
    <3>2. Current.pending # tx /\ (Failed(tx) => Beyond(tx, Current)) /\ tx # old.tx
      BY <1>10, <3>1 DEF OneInv, OneState
    <3> QED
      BY <1>14, <2>1, <3>2
  <2>3. \A tx \in Transactions' : Mentioned(tx, "COMMITTED")' =>
          Current'.pending # tx /\ (Failed(tx)' => Beyond(tx, Current)')
    BY <1>14, <2>2
  <2> QED
    BY <1>5, <1>10, <1>14, <1>17, <2>3 DEF OneInv, OneState
<1>19. /\ DOMAIN new.todo = 1 .. 3
       /\ new.todo[1] = LogStep(Outcome(old.tx, ok))
       /\ new.todo[2] = SaveStep(final)
       /\ new.todo[3] = LogStep(Event(old.tx, "COMMITTED"))
  BY <1>2, <1>11
<1>20. /\ new.todo[1].do = "log" /\ new.todo[1].line.tx = old.tx
       /\ new.todo[1].line.type = "OUTCOME" /\ new.todo[1].line.ok = ok
       /\ new.todo[2].do = "save" /\ new.todo[2].state = final
       /\ new.todo[3].do = "log" /\ new.todo[3].line.tx = old.tx
       /\ new.todo[3].line.type = "COMMITTED"
  BY <1>19 DEF LogStep, SaveStep, Event, Outcome
<1>21. final.pending = 0 /\ (~ok => final.revision = old.loaded.revision + 1)
  <2>0. Charged(old.loaded, old.tx, old.ticks) \in Snapshot
    BY <1>7, SnapshotTypes
  <2>1. /\ Charged(old.loaded, old.tx, old.ticks) \in Snapshot
        /\ Charged(old.loaded, old.tx, old.ticks).revision = old.loaded.revision
    BY <1>7, <2>0 DEF Charged, Snapshot
  <2>2. Completed(Charged(old.loaded, old.tx, old.ticks), old.tx).pending = 0
    BY <2>1 DEF Completed, Snapshot
  <2> QED
    BY <1>1, <2>1, <2>2, PendingOfNew
<1>22. Lines(new)' = {1, 3} /\ ~Executes(new)'
  BY <1>10, <1>19, <1>20 DEF Lines, Executes
<1>23. Settles(new, final)'
  <2>1. Fails(new)' => ~ok
    <3>1. ~Failed(old.tx)
      BY <1>10 DEF Failed, Mentioned
    <3> QED
      BY <1>11, <1>14, <1>20, <1>22, <3>1 DEF Fails
  <2>2. ~ok => Beyond(old.tx, final)'
    <3>1. \A i \in DOMAIN performed' : performed'[i].lease \in Nat
      BY <1>10, <1>12, <1>13, PerformedElements
    <3> QED
      BY <1>10, <1>17, <1>21, <3>1 DEF Beyond
  <2> QED
    BY <1>10, <1>11, <1>21, <2>1, <2>2 DEF Settles
<1>24. Tells(new, 1)'
  BY <1>8, <1>10, <1>11, <1>14, <1>20, <1>22 DEF Tells
<1>25. Tells(new, 3)'
  <2>1. 2 \in DOMAIN new.todo /\ 2 < 3
    BY <1>19
  <2>2. \A i \in {1, 3} : i < 3 => new.todo[i].line.type = "OUTCOME"
    BY <1>20
  <2> QED
    BY <1>10, <1>11, <1>14, <1>20, <1>22, <1>23, <2>1, <2>2 DEF Tells
<1>26. Grounded(new)'
  <2>1. \A j \in DOMAIN new.todo :
          new.todo[j].do = "save" /\ new.todo[j].state.pending # 0 => FALSE
    BY <1>19, <1>20, <1>21
  <2>2. TodoOne(new)'
    BY <1>22, <1>24, <1>25, <2>1 DEF TodoOne
  <2> QED
    BY <1>11, <2>2 DEF Grounded
<1>27. run'[p] = new /\ new.tx < next_tx'
  BY <1>5, <1>6, <1>7, <1>11
<1> QED
  BY <1>15, <1>16, <1>18, <1>26, <1>27 DEF OneInv

LEMMA CrashOne ==
  ASSUME ActionInv, NEW p, Procs = {p}, OneInv(p), Crash(p)
  PROVE  OneInv(p)'
<1>1. /\ UNCHANGED <<state_file, history, journal, performed, next_tx>>
      /\ saving'[p] = NotSaving /\ run'[p] = Idle
  BY DEF Crash, SaveCrash, Finish, ActionInv, StoreInv, StoreTypeOK, ActionTypeOK
<1>2. Current' = Current
  BY <1>1 DEF Current
<1>3. OneStory' /\ next_tx' > 0
  BY <1>1 DEF OneInv, OneStory
<1>4. OneState'
  BY <1>1, <1>2, OneKept DEF OneInv
<1>5. OneFile(NotSaving)'
  BY <1>1 DEF OneInv, OneFile, NotSaving
<1>6. Idle.tx < next_tx'
  BY <1>3, IdleGrounded DEF ActionInv, ActionTypeOK
<1> QED
  BY <1>1, <1>3, <1>4, <1>5, <1>6, IdleGroundedNext DEF OneInv

\* What the one process knows does not depend on the environment.
LEMMA EnvironmentOne ==
  ASSUME ActionInv, NEW p, OneInv(p),
         UNCHANGED <<state_file, history, saving, journal, performed, next_tx, run>>
  PROVE  OneInv(p)'
<1>1. Current' = Current
  BY DEF Current
<1>2. OneStory' /\ OneState' /\ \A r : Grounded(r) => Grounded(r)'
  BY <1>1, OneKept DEF OneInv, OneStory
<1>3. \A save \in {saving'[p]} : OneFile(save)'
  BY <1>1 DEF OneInv, OneFile
<1> QED
  BY <1>2, <1>3 DEF OneInv

LEMMA OneInvInit == ASSUME NEW p, Procs = {p}, Init PROVE OneInv(p)
<1>1. /\ state_file = NoFile /\ saving[p] = NotSaving /\ run[p] = Idle /\ next_tx = 1
      /\ DOMAIN journal = {} /\ DOMAIN performed = {}
  BY DEF Init, StoreInit
<1>2. OneStory /\ OneState
  BY <1>1 DEF OneStory, OneState
<1>3. OneFile(NotSaving)
  BY <1>1 DEF OneFile, NotSaving
<1>4. Idle.tx < next_tx
  BY <1>1, IdleGrounded
<1> QED
  BY <1>1, <1>2, <1>3, <1>4, IdleGrounded DEF OneInv

LEMMA OneStepInv ==
  ASSUME NEW p, Procs = {p}, ActionInv, OneInv(p), [Next]_vars
  PROVE  OneInv(p)'
<1>1. ASSUME NEW ticks \in 1 .. MaxClockTicks, StartAction(p, ticks)
      PROVE  OneInv(p)'
  BY <1>1, StartActionOne
<1>2. ASSUME NEW ok \in BOOLEAN, Execute(p, ok)
      PROVE  OneInv(p)'
  BY <1>2, ExecuteOne
<1>3. ASSUME \/ Decide(p) \/ Route(p) \/ Promote(p) \/ Recover(p) \/ Reconcile(p)
             \/ BeginSave(p) \/ AppendState(p) \/ FinishSave(p)
             \/ ReadJournal(p) \/ AppendJournal(p) \/ Crash(p)
      PROVE  OneInv(p)'
  BY <1>3, DecideOne, RouteOrPromoteOne, RecoverOne, ReconcileOne, BeginSaveOne,
     AppendStateOne, FinishSaveOne, ReadJournalOne, AppendJournalOne, CrashOne
<1>4. CASE ChangeControl \/ (\E r \in 1 .. MaxRevision : Expire(r)) \/ UNCHANGED vars
  <2>1. UNCHANGED <<state_file, history, saving, journal, performed, next_tx, run>>
    BY <1>4 DEF ChangeControl, Expire, Lapse, vars, storeVars, journalVars
  <2> QED
    BY <2>1, EnvironmentOne
<1> QED
  BY <1>1, <1>2, <1>3, <1>4 DEF Next

LEMMA OneInvAlways ==
  ASSUME NEW p, Procs = {p}
  PROVE  Spec => [](ActionInv /\ OneInv(p))
<1>1. Init => OneInv(p)
  BY OneInvInit
<1>2. ActionInv /\ OneInv(p) /\ [Next]_vars => OneInv(p)'
  BY OneStepInv
<1> QED
  BY <1>1, <1>2, ActionInvInit, ActionStepInv, PTL DEF Spec

\* A transaction has at most one event of each type but RECOVERY.
LEMMA EventsOnce ==
  ASSUME ActionInv, OneStory, NEW tx, tx # 0, NEW type, type # "RECOVERY"
  PROVE  Cardinality(Events(tx, type)) \in {0, 1}
<1>1. \A i, j \in Events(tx, type) : i = j
  BY DEF Events, OneStory
<1>2. CASE Events(tx, type) = {}
  BY <1>2, FS_EmptySet
<1>3. CASE Events(tx, type) # {}
  <2>1. PICK k : Events(tx, type) = {k}
    BY <1>1, <1>3
  <2> QED
    BY <2>1, FS_Singleton
<1> QED
  BY <1>2, <1>3

\* While commands do not overlap, wherever they are killed and however often they
\* are recovered, the journal tells one story of every transaction.
THEOREM OneProcessOneStory ==
  ASSUME NEW p, Procs = {p}
  PROVE  Spec => []JournalTellsOneStory
<1>1. ASSUME ActionInv, OneInv(p)
      PROVE  JournalTellsOneStory
  <2>1. SUFFICES ASSUME NEW tx \in Transactions
                 PROVE  /\ \A type \in EventTypes \ {"RECOVERY"} :
                             Cardinality(Events(tx, type)) <= 1
                        /\ Events(tx, "REFUSED") # {} => Events(tx, "LICENSED") = {}
                        /\ \A i \in Events(tx, "OUTCOME") :
                             \E j \in Events(tx, "LICENSED") : j < i
                        /\ \A i \in Events(tx, "COMMITTED") :
                             \A j \in Events(tx, "OUTCOME") \union Events(tx, "LICENSED") : j < i
    BY DEF JournalTellsOneStory
  <2>2. OneStory /\ tx # 0
    BY <1>1 DEF OneInv, Transactions
  <2>3. \A type \in EventTypes \ {"RECOVERY"} : Cardinality(Events(tx, type)) <= 1
    BY <1>1, <2>2, EventsOnce
  <2>4. Events(tx, "REFUSED") # {} => Events(tx, "LICENSED") = {}
    BY <2>2 DEF OneStory, Events
  <2>5. \A i \in Events(tx, "OUTCOME") : \E j \in Events(tx, "LICENSED") : j < i
    BY <2>2 DEF OneStory, Events
  <2>6. \A i \in Events(tx, "COMMITTED") :
          \A j \in Events(tx, "OUTCOME") \union Events(tx, "LICENSED") : j < i
    BY <2>2 DEF OneStory, Events
  <2> QED
    BY <2>3, <2>4, <2>5, <2>6
<1>2. Spec => [](ActionInv /\ OneInv(p))
  BY OneInvAlways
<1> QED
  BY <1>1, <1>2, PTL

\* While commands do not overlap, an action left pending by a killed command can
\* always be reconciled.
THEOREM OneProcessReconciles ==
  ASSUME NEW p, Procs = {p}
  PROVE  Spec => []PendingIsReconcilable
<1>1. ASSUME ActionInv, OneInv(p)
      PROVE  PendingIsReconcilable
  <2>1. SUFFICES ASSUME Quiet, Current.pending # 0
                 PROVE  Inspection(Current, lapsed) \in {"PENDING_UNKNOWN", "PENDING_OUTCOME_READY"}
    BY DEF PendingIsReconcilable
  <2>2. PICK tx : tx = Current.pending
    OBVIOUS
  <2>3. JournalIntact /\ Current.mode = "BOUNDED_CONTROL"
    BY <1>1, <2>1 DEF Quiet, Readable, OneInv, OneState
  <2>4. Inspection(Current, lapsed) = PendingStatus(Current)
    BY <2>1, <2>3 DEF Inspection
  <2>5. ~Repeated("LICENSED") /\ ~(Cardinality(Events(tx, "OUTCOME")) > 1)
    <3>1. \A t : t # 0 => /\ ~(Cardinality(Events(t, "LICENSED")) > 1)
                          /\ ~(Cardinality(Events(t, "OUTCOME")) > 1)
      BY <1>1, EventsOnce DEF OneInv
    <3> QED
      BY <2>1, <2>2, <3>1 DEF Repeated, Transactions
  <2>6. Events(tx, "LICENSED") # {} => Events(tx, "COMMITTED") = {}
    <3>1. Events(tx, "LICENSED") # {} => tx \in Transactions
      BY <2>1, <2>2 DEF Events, Transactions
    <3>2. ~(tx \in Transactions /\ Mentioned(tx, "COMMITTED"))
      BY <1>1, <2>1, <2>2 DEF Quiet, Readable, OneInv, OneState
    <3> QED
      BY <3>1, <3>2, EventsMentioned
  <2> QED
    BY <2>2, <2>4, <2>5, <2>6, Zenon DEF PendingStatus
<1>2. Spec => [](ActionInv /\ OneInv(p))
  BY OneInvAlways
<1> QED
  BY <1>1, <1>2, PTL

\* While commands do not overlap, a COMMITTED marker is true: the action is not
\* pending any more, and a failure has ended the lease it was performed under.
THEOREM OneProcessSettles ==
  ASSUME NEW p, Procs = {p}
  PROVE  Spec => []CommittedIsSettled
<1>1. ASSUME ActionInv, OneInv(p)
      PROVE  CommittedIsSettled
  <2>1. SUFFICES ASSUME Readable, NEW tx \in Transactions, Events(tx, "COMMITTED") # {}
                 PROVE  /\ Current.pending # tx
                        /\ ~Succeeded(tx) => Current.revision > LeaseOf(tx)
    BY DEF CommittedIsSettled
  <2>2. Mentioned(tx, "COMMITTED") /\ state_file # NoFile
    BY <2>1, EventsMentioned DEF Readable
  <2>3. Current.pending # tx /\ (Failed(tx) => Beyond(tx, Current))
    BY <1>1, <2>2 DEF OneInv, OneState
  <2>4. ASSUME ~Succeeded(tx)
        PROVE  Current.revision > LeaseOf(tx)
    <3>1. Failed(tx)
      BY <1>1, <2>4, FailedEvents
    <3>2. PerformedFor(tx)
      BY <1>1, <3>1 DEF ActionInv, AheadInv, Failed
    <3>3. PICK i \in DOMAIN performed : performed[i].tx = tx /\ LeaseOf(tx) = performed[i].lease
      BY <3>2, Zenon DEF PerformedFor, LeaseOf
    <3>4. performed[i].lease < Current.revision /\ performed[i].lease \in Nat
      BY <1>1, <2>3, <3>1, <3>3, PerformedElements DEF Beyond
    <3>5. Current.revision \in Nat
      BY <1>1, <2>1, CurrentType DEF Snapshot
    <3> QED
      BY <3>3, <3>4, <3>5
  <2> QED
    BY <2>3, <2>4
<1>2. Spec => [](ActionInv /\ OneInv(p))
  BY OneInvAlways
<1> QED
  BY <1>1, <1>2, PTL
-----------------------------------------------------------------------------
(* One process honours its leases.  What was charged is the most any entry *)
(* of the history says; while nobody else writes, that is what the state   *)
(* file says, and the command counts from there.                           *)

UsedUnder(r) ==
  {history[i].snap.used :
     i \in {j \in DOMAIN history :
              history[j].snap.revision = r /\ history[j].snap.mode = "BOUNDED_CONTROL"}}

\* The charges of every lease have a largest one.
Countable ==
  \A r : UsedUnder(r) = {} \/ \E u \in UsedUnder(r) : \A v \in UsedUnder(r) : v <= u

\* A state to be saved goes on counting, or begins a lease of its own.
Counts(s) ==
  s.mode = "BOUNDED_CONTROL" =>
    /\ state_file # NoFile
    /\ \/ /\ Current.mode = "BOUNDED_CONTROL" /\ s.revision = Current.revision
          /\ s.used = Current.used \/ s.used = Current.used + 1
       \/ Current.revision < s.revision /\ s.used = 0

Saves(r) == {j \in DOMAIN r.todo : r.todo[j].do = "save"}

\* What a command has yet to charge and to perform.
Accounts(r) ==
  /\ \A i, j \in Saves(r) : i = j
  /\ \A j \in Saves(r) : Counts(r.todo[j].state)
  /\ r.phase = "decide" => state_file # NoFile /\ Current = r.loaded
  /\ Executes(r) =>
       /\ state_file # NoFile
       /\ Current.revision = r.loaded.revision /\ Current.mode = "BOUNDED_CONTROL"
       /\ PerformedUnder(Current.revision) <= r.loaded.used
       /\ \A j \in Saves(r) :
            Current.used = r.loaded.used /\ r.todo[j].state.used = r.loaded.used + 1
       /\ Saves(r) = {} => Current.used = r.loaded.used + 1

LeaseInv(p) ==
  /\ Countable
  /\ saving[p].phase = "append" /\ state_file # NoFile => Readable
  /\ state_file # NoFile /\ Current.mode = "BOUNDED_CONTROL" =>
       PerformedUnder(Current.revision) <= Current.used
  /\ \A r \in {run[p]} : Accounts(r)

Most(S) == IF S = {} THEN 0 ELSE CHOOSE u \in S : \A v \in S : v <= u

LEMMA MostIs ==
  ASSUME NEW S, S \subseteq Nat, NEW m \in S, \A v \in S : v <= m
  PROVE  Most(S) = m
<1> DEFINE u == CHOOSE u \in S : \A v \in S : v <= u
<1>1. u \in S /\ \A v \in S : v <= u
  OBVIOUS
<1>2. Most(S) = u
  BY DEF Most
<1> HIDE DEF u
<1>3. u <= m /\ m <= u /\ u \in Nat /\ m \in Nat
  BY <1>1
<1> QED
  BY <1>2, <1>3

LEMMA ChargedMost ==
  \A l : ChargedTo(l) = Most(UsedUnder(l)) /\ ChargedTo(l)' = Most(UsedUnder(l)')
  BY DEF ChargedTo, UsedUnder, Most

LEMMA UsedTypes ==
  ASSUME ActionInv
  PROVE  \A l : UsedUnder(l) \subseteq Nat
  BY FileElements DEF UsedUnder, Snapshot

LEMMA PerformedCount ==
  ASSUME ActionInv
  PROVE  /\ \A l : IsFiniteSet({i \in DOMAIN performed : performed[i].lease = l})
         /\ \A l : PerformedUnder(l) \in Nat
<1>1. IsFiniteSet(DOMAIN performed)
  BY PerformedElements, FS_Interval
<1>2. \A l : IsFiniteSet({i \in DOMAIN performed : performed[i].lease = l})
  BY <1>1, FS_Subset
<1> QED
  BY <1>2, FS_CardinalityType DEF PerformedUnder

LEMMA PerformedOnce ==
  ASSUME ActionInv, NEW e, e \in Performance, performed' = Append(performed, e)
  PROVE  \A l : PerformedUnder(l)' = IF l = e.lease THEN PerformedUnder(l) + 1
                                     ELSE PerformedUnder(l)
<1> DEFINE n == Len(performed) + 1
           under(l) == {i \in DOMAIN performed : performed[i].lease = l}
<1>1. /\ DOMAIN performed' = DOMAIN performed \union {n} /\ n \notin DOMAIN performed
      /\ performed'[n] = e
      /\ \A i \in DOMAIN performed : performed'[i] = performed[i]
  <2>1. performed \in Seq(Performance) /\ Len(performed) \in Nat
        /\ DOMAIN performed = 1 .. Len(performed)
    BY PerformedElements
  <2>2. DOMAIN performed' = 1 .. n
    BY <2>1, SeqAppend
  <2>3. /\ performed'[n] = e
        /\ \A i \in DOMAIN performed : performed'[i] = performed[i]
    BY <2>1, SeqAppend
  <2> QED
    BY <2>1, <2>2, <2>3
<1> HIDE DEF n
<1>2. SUFFICES ASSUME NEW l
               PROVE  PerformedUnder(l)' = IF l = e.lease THEN PerformedUnder(l) + 1
                                           ELSE PerformedUnder(l)
  OBVIOUS
<1>3. IsFiniteSet(under(l)) /\ n \notin under(l)
  BY <1>1, PerformedCount
<1>4. CASE l = e.lease
  <2>1. {i \in DOMAIN performed' : performed'[i].lease = l} = under(l) \union {n}
    BY <1>1, <1>4
  <2>2. Cardinality(under(l) \union {n}) = Cardinality(under(l)) + 1
    BY <1>3, FS_AddElement
  <2> QED
    BY <1>4, <2>1, <2>2 DEF PerformedUnder
<1>5. CASE l # e.lease
  <2>1. {i \in DOMAIN performed' : performed'[i].lease = l} = under(l)
    BY <1>1, <1>5
  <2> QED
    BY <1>5, <2>1 DEF PerformedUnder
<1> QED
  BY <1>4, <1>5

LEMMA NothingPerformed ==
  ASSUME NEW l, \A i \in DOMAIN performed : performed[i].lease # l
  PROVE  PerformedUnder(l) = 0
<1>1. {i \in DOMAIN performed : performed[i].lease = l} = {}
  OBVIOUS
<1> QED
  BY <1>1, FS_EmptySet DEF PerformedUnder

\* What the state file says of its lease is the most any entry says of it, and
\* no entry is of a later revision.
LEMMA CurrentIsMost ==
  ASSUME ActionInv, Readable, NEW j \in DOMAIN history
  PROVE  /\ history[j].snap.revision <= Current.revision
         /\ history[j].snap.revision = Current.revision /\ history[j].snap.mode = "BOUNDED_CONTROL"
              => Current.mode = "BOUNDED_CONTROL" /\ history[j].snap.used <= Current.used
<1>1. /\ state_file \in DOMAIN history /\ ChainIntact /\ NeverGoesBack
      /\ j = state_file \/ j < state_file
  <2>1. DOMAIN history = 1 .. Len(history) /\ Len(history) \in Nat
    BY FileElements
  <2> QED
    BY <2>1 DEF Readable, ActionInv, StoreInv, NoFile
<1>2. /\ Current = history[state_file].snap
      /\ Current.revision \in Nat /\ Current.used \in Nat
  BY <1>1, FileElements DEF Current, Snapshot
<1>3. CASE j = state_file
  BY <1>2, <1>3
<1>4. CASE j < state_file
  <2>1. Succeeds(history[j].snap, Current)
    BY <1>1, <1>2, <1>4 DEF NeverGoesBack
  <2> QED
    BY <2>1 DEF Succeeds
<1> QED
  BY <1>1, <1>3, <1>4

-----------------------------------------------------------------------------
(* The steps.                                                              *)

LEMMA AccountsKept ==
  ASSUME UNCHANGED <<state_file, performed>>, state_file # NoFile => Current' = Current
  PROVE  /\ \A l : PerformedUnder(l)' = PerformedUnder(l)
         /\ \A r : Accounts(r) => Accounts(r)'
<1>1. \A l : PerformedUnder(l)' = PerformedUnder(l)
  BY DEF PerformedUnder
<1>2. \A s : Counts(s) => Counts(s)'
  BY DEF Counts
<1>3. ASSUME NEW r, Accounts(r)
      PROVE  Accounts(r)'
  <2>1. Saves(r)' = Saves(r) /\ (Executes(r)' <=> Executes(r))
    BY DEF Saves, Executes
  <2> QED
    BY <1>1, <1>2, <1>3, <2>1 DEF Accounts
<1> QED
  BY <1>1, <1>3

LEMMA IdleAccounts == Accounts(Idle) /\ Accounts(Idle)'
<1>1. Idle.todo = <<>> /\ Idle.phase = "idle"
  BY DEF Idle
<1> QED
  BY <1>1 DEF Accounts, Saves, Executes

LEMMA NothingToSave ==
  ASSUME NEW r, r.todo = <<>>, r.phase = "decide" => state_file # NoFile /\ Current = r.loaded
  PROVE  Accounts(r)
  BY DEF Accounts, Saves, Executes

\* A command that executes nothing and saves at most once, as its first step.
LEMMA SavesFirst ==
  ASSUME NEW r, r.phase = "work", \A j \in DOMAIN r.todo : r.todo[j].do # "execute",
         \A j \in DOMAIN r.todo : r.todo[j].do = "save" => j = 1 /\ Counts(r.todo[j].state)
  PROVE  Accounts(r)
  BY DEF Accounts, Saves, Executes

LEMMA AccountCommand ==
  ASSUME ActionInv, NEW p, Procs = {p}, LeaseInv(p),
         NEW r, run' = [run EXCEPT ![p] = r], Accounts(r),
         UNCHANGED <<storeVars, performed>>
  PROVE  LeaseInv(p)'
<1>1. run'[p] = r
  BY DEF ActionInv, ActionTypeOK
<1>2. UNCHANGED <<state_file, history, history_torn, saving, performed>> /\ Current' = Current
  BY DEF storeVars, Current
<1>3. Countable' /\ (Readable' <=> Readable)
  <2>1. \A l : UsedUnder(l)' = UsedUnder(l)
    BY <1>2 DEF UsedUnder
  <2>2. Countable'
    BY <2>1 DEF LeaseInv, Countable
  <2> QED
    BY <1>2, <2>2 DEF Readable, ChainIntact
<1>4. (\A l : PerformedUnder(l)' = PerformedUnder(l)) /\ Accounts(r)'
  BY <1>2, AccountsKept
<1> QED
  BY <1>1, <1>2, <1>3, <1>4 DEF LeaseInv

LEMMA AccountFinish ==
  ASSUME ActionInv, NEW p, Procs = {p}, LeaseInv(p), Finish(p),
         UNCHANGED <<storeVars, performed>>
  PROVE  LeaseInv(p)'
  BY IdleAccounts, AccountCommand DEF Finish

LEMMA AccountReads ==
  ASSUME ActionInv, NEW p, Procs = {p}, OneInv(p), LeaseInv(p),
         \/ \E ticks \in 1 .. MaxClockTicks : StartAction(p, ticks)
         \/ Recover(p) \/ ReadJournal(p)
  PROVE  LeaseInv(p)'
<1>1. ASSUME NEW ticks \in 1 .. MaxClockTicks, StartAction(p, ticks)
      PROVE  LeaseInv(p)'
  <2> DEFINE r == [Idle EXCEPT !.phase = "decide", !.loaded = Current,
                               !.tx = next_tx, !.ticks = ticks]
  <2>1. r.todo = <<>> /\ r.loaded = Current /\ run' = [run EXCEPT ![p] = r]
    BY <1>1 DEF Idle, StartAction
  <2> HIDE DEF r
  <2>2. Accounts(r)
    BY <1>1, <2>1, NothingToSave DEF StartAction, Readable
  <2> QED
    BY <1>1, <2>1, <2>2, AccountCommand DEF StartAction
<1>2. CASE Recover(p)
  <2>1. PICK status : status = Inspection(Current, lapsed)
    OBVIOUS
  <2> DEFINE r == [Idle EXCEPT !.phase = "reconcile", !.seen = lapsed,
                               !.status = status, !.tx = InspectedTx(Current)]
  <2>2. r.todo = <<>> /\ r.phase = "reconcile"
    BY DEF Idle
  <2>3. run' = [run EXCEPT ![p] = r]
    BY <1>2, <2>1 DEF Recover
  <2> HIDE DEF r
  <2>4. Accounts(r)
    BY <2>2, NothingToSave
  <2> QED
    BY <1>2, <2>3, <2>4, AccountCommand DEF Recover
<1>3. CASE ReadJournal(p) /\ run' = [run EXCEPT ![p].link = Len(journal)]
  <2> DEFINE r == [run[p] EXCEPT !.link = Len(journal)]
  <2>1. /\ r.phase = run[p].phase /\ r.todo = run[p].todo /\ r.loaded = run[p].loaded
        /\ run' = [run EXCEPT ![p] = r]
    BY <1>3, OwnRun DEF Run
  <2> HIDE DEF r
  <2>2. Accounts(run[p])
    BY DEF LeaseInv
  <2>3. Accounts(r)
    BY <2>1, <2>2 DEF Accounts, Saves, Executes
  <2> QED
    BY <1>3, <2>1, <2>3, AccountCommand DEF ReadJournal
<1>4. CASE ReadJournal(p) /\ Finish(p)
  BY <1>4, AccountFinish DEF ReadJournal
<1> QED
  BY <1>1, <1>2, <1>3, <1>4 DEF ReadJournal

LEMMA CountsOfNew ==
  ASSUME NEW p, NEW s, NEW tx
  PROVE  Counts(Collapsed(p, s, tx))
  BY DEF Collapsed, Genesis, Counts

LEMMA AccountOneSave ==
  ASSUME ActionInv, NEW p, Procs = {p}, LeaseInv(p), NEW s, Counts(s),
         run' = [run EXCEPT ![p] = [Idle EXCEPT !.phase = "work", !.seen = lapsed,
                                                !.todo = <<SaveStep(s)>>]],
         UNCHANGED <<storeVars, performed>>
  PROVE  LeaseInv(p)'
<1> DEFINE r == [Idle EXCEPT !.phase = "work", !.seen = lapsed, !.todo = <<SaveStep(s)>>]
<1>1. r.phase = "work" /\ r.todo = <<SaveStep(s)>>
  BY DEF Idle
<1>2. SaveStep(s).do = "save" /\ SaveStep(s).state = s
  BY DEF SaveStep
<1>3. run' = [run EXCEPT ![p] = r]
  OBVIOUS
<1> HIDE DEF r
<1>4. \A j \in DOMAIN r.todo : j = 1 /\ r.todo[j] = SaveStep(s)
  BY <1>1
<1>5. Accounts(r)
  BY <1>1, <1>2, <1>4, SavesFirst
<1> QED
  BY <1>3, <1>5, AccountCommand

LEMMA AccountRouteOrPromote ==
  ASSUME ActionInv, NEW p, Procs = {p}, LeaseInv(p), Route(p) \/ Promote(p)
  PROVE  LeaseInv(p)'
<1>1. CASE Route(p)
  <2>1. PICK s : s = Collapsed(p, Current, 0)
    OBVIOUS
  <2>2. Counts(s)
    BY <2>1, CountsOfNew
  <2>3. /\ UNCHANGED <<storeVars, performed>>
        /\ run' = [run EXCEPT ![p] = [Idle EXCEPT !.phase = "work", !.seen = lapsed,
                                                  !.todo = <<SaveStep(s)>>]]
    BY <1>1, <2>1 DEF Route
  <2> QED
    BY <2>2, <2>3, AccountOneSave, Zenon
<1>2. CASE Promote(p)
  <2>1. PICK s : s = Promoted(p, Loaded)
    OBVIOUS
  <2>2. Counts(s)
    <3>1. /\ s.revision = Loaded.revision + 1 /\ s.used = 0
          /\ s.mode = "BOUNDED_CONTROL" => Loaded.mode # "SHADOW"
      BY <2>1 DEF Promoted, Genesis
    <3>2. CASE state_file = NoFile
      BY <3>1, <3>2 DEF Loaded, Genesis, Counts
    <3>3. CASE state_file # NoFile
      <4>1. Loaded = Current /\ Current.revision \in Nat
        BY <1>2, <3>3, CurrentType DEF Loaded, Promote, CanLoad, Snapshot
      <4> QED
        BY <3>1, <3>3, <4>1 DEF Counts
    <3> QED
      BY <3>2, <3>3
  <2>3. /\ UNCHANGED <<storeVars, performed>>
        /\ run' = [run EXCEPT ![p] = [Idle EXCEPT !.phase = "work", !.seen = lapsed,
                                                  !.todo = <<SaveStep(s)>>]]
    BY <1>2, <2>1 DEF Promote
  <2> QED
    BY <2>2, <2>3, AccountOneSave, Zenon
<1> QED
  BY <1>1, <1>2

LEMMA AccountDecide ==
  ASSUME ActionInv, NEW p, Procs = {p}, OneInv(p), LeaseInv(p), Decide(p)
  PROVE  LeaseInv(p)'
<1>0. PICK old : old = run[p]
  OBVIOUS
<1> DEFINE charged == Charged(old.loaded, old.tx, old.ticks)
           licensed == <<SaveStep(charged), LogStep(Event(old.tx, "LICENSED")), ExecuteStep>>
           refused == <<LogStep(Event(old.tx, "REFUSED"))>>
           collapsed == <<SaveStep(Collapsed(p, old.loaded, 0)),
                          LogStep(Event(old.tx, "REFUSED"))>>
<1>1. PICK steps \in {collapsed, refused, licensed} :
        run' = [run EXCEPT ![p].phase = "work", ![p].todo = steps, ![p].seen = lapsed]
  <2>1. control \in {"open", "review", "contained"}
    BY DEF ActionInv, ActionTypeOK
  <2> QED
    BY <2>1, <1>0 DEF Decide, RefuseAndCollapse
<1>2. PICK r : r = [old EXCEPT !.phase = "work", !.todo = steps, !.seen = lapsed]
  OBVIOUS
<1>3. /\ old \in Run /\ old.phase = "decide" /\ old.loaded \in Snapshot /\ old.tx \in Nat
      /\ Grounded(old) /\ Accounts(old)
  BY <1>0, OwnRun DEF Decide, LeaseInv
<1>4. /\ state_file # NoFile /\ Current = old.loaded /\ old.loaded.mode = "BOUNDED_CONTROL"
      /\ PerformedUnder(Current.revision) <= Current.used
  BY <1>3 DEF Grounded, Accounts, LeaseInv
<1>5. r.phase = "work" /\ r.todo = steps /\ r.loaded = old.loaded
  BY <1>2, <1>3 DEF Run
<1>6. /\ SaveStep(charged).do = "save" /\ SaveStep(charged).state = charged
      /\ SaveStep(Collapsed(p, old.loaded, 0)).do = "save"
      /\ SaveStep(Collapsed(p, old.loaded, 0)).state = Collapsed(p, old.loaded, 0)
      /\ LogStep(Event(old.tx, "LICENSED")).do = "log"
      /\ LogStep(Event(old.tx, "REFUSED")).do = "log"
      /\ ExecuteStep.do = "execute"
  BY DEF SaveStep, LogStep, ExecuteStep
<1>7. /\ charged.mode = "BOUNDED_CONTROL" /\ charged.revision = old.loaded.revision
      /\ charged.used = old.loaded.used + 1
  BY <1>3, <1>4 DEF Charged, Snapshot
<1>8. Accounts(r)
  <2> HIDE DEF charged
  <2>1. CASE steps = licensed
    <3>1. DOMAIN r.todo = 1 .. 3 /\ r.todo[1] = SaveStep(charged)
          /\ r.todo[2] = LogStep(Event(old.tx, "LICENSED")) /\ r.todo[3] = ExecuteStep
      BY <1>5, <2>1
    <3>2. Saves(r) = {1}
      BY <1>6, <3>1 DEF Saves
    <3>3. Counts(charged)
      BY <1>4, <1>7 DEF Counts
    <3> QED
      BY <1>4, <1>5, <1>6, <1>7, <3>1, <3>2, <3>3 DEF Accounts
  <2>2. CASE steps = refused
    <3>1. \A j \in DOMAIN r.todo : r.todo[j] = LogStep(Event(old.tx, "REFUSED"))
      BY <1>5, <2>2
    <3> QED
      BY <1>5, <1>6, <3>1, SavesFirst
  <2>3. CASE steps = collapsed
    <3>1. DOMAIN r.todo = 1 .. 2 /\ r.todo[1] = SaveStep(Collapsed(p, old.loaded, 0))
          /\ r.todo[2] = LogStep(Event(old.tx, "REFUSED"))
      BY <1>5, <2>3
    <3>2. \A j \in DOMAIN r.todo : j = 1 \/ j = 2
      BY <3>1
    <3> QED
      BY <1>5, <1>6, <3>1, <3>2, SavesFirst, CountsOfNew
  <2> QED
    BY <1>1, <2>1, <2>2, <2>3
<1>9. run' = [run EXCEPT ![p] = r]
  BY <1>0, <1>1, <1>2
<1> QED
  BY <1>8, <1>9, AccountCommand DEF Decide

LEMMA AccountReconcile ==
  ASSUME ActionInv, NEW p, Procs = {p}, OneInv(p), LeaseInv(p), Reconcile(p)
  PROVE  LeaseInv(p)'
<1>1. CASE Finish(p)
  BY <1>1, AccountFinish DEF Reconcile
<1>2. CASE Readable /\ Proceed(p, ReconcileSteps(p, Current))
  <2>0. PICK old : old = run[p]
    OBVIOUS
  <2>1. PICK s : s = Current
    OBVIOUS
  <2>2. PICK steps : steps = ReconcileSteps(p, s)
    OBVIOUS
  <2>3. PICK r : r = [old EXCEPT !.phase = "work", !.todo = steps]
    OBVIOUS
  <2>4. /\ old \in Run /\ old.status \in Statuses \ {"CLEAN", "RAISES"}
        /\ s \in Snapshot /\ state_file # NoFile
    BY <1>2, <2>0, <2>1, OwnRun, CurrentType DEF Reconcile, RunOK, Run, Readable
  <2>5. r.phase = "work" /\ r.todo = steps
    BY <2>3, <2>4 DEF Run
  <2>6. \A tx : Counts(Completed(s, tx)) /\ Counts(Collapsed(p, s, tx))
    <3>1. \A tx : Completed(s, tx).mode = s.mode /\ Completed(s, tx).revision = s.revision
                  /\ Completed(s, tx).used = s.used
      BY <2>4 DEF Completed, Snapshot
    <3> QED
      BY <2>1, <2>4, <3>1, CountsOfNew DEF Counts
  <2>7. /\ \A t : SaveStep(t).do = "save" /\ SaveStep(t).state = t
        /\ \A line : LogStep(line).do = "log"
    BY DEF SaveStep, LogStep
  <2>8. ASSUME NEW t, Counts(t), steps = <<SaveStep(t)>> \o CloseSteps(old.tx)
        PROVE  Accounts(r)
    <3>1. /\ DOMAIN r.todo = 1 .. 3 /\ r.todo[1] = SaveStep(t)
          /\ r.todo[2] = LogStep(Event(old.tx, "RECOVERY"))
          /\ r.todo[3] = LogStep(Event(old.tx, "COMMITTED"))
      BY <2>5, <2>8, OneAndTwo DEF CloseSteps
    <3>2. \A j \in DOMAIN r.todo : j = 1 \/ j = 2 \/ j = 3
      BY <3>1
    <3> QED
      BY <2>5, <2>7, <2>8, <3>1, <3>2, SavesFirst
  <2>9. ASSUME steps = CloseSteps(old.tx)
        PROVE  Accounts(r)
    <3>1. r.todo = <<LogStep(Event(old.tx, "RECOVERY")), LogStep(Event(old.tx, "COMMITTED"))>>
      BY <2>5, <2>9 DEF CloseSteps
    <3>2. \A j \in DOMAIN r.todo : \/ r.todo[j] = LogStep(Event(old.tx, "RECOVERY"))
                                   \/ r.todo[j] = LogStep(Event(old.tx, "COMMITTED"))
      BY <3>1
    <3> QED
      BY <2>5, <2>7, <3>2, SavesFirst
  <2>10. Accounts(r)
    <3>1. CASE old.status = "PENDING_OUTCOME_READY"
      <4>1. PICK t : t = IF ~Succeeded(old.tx) THEN Collapsed(p, s, old.tx)
                         ELSE IF Lapsed(s, old.seen) THEN Collapsed(p, s, 0)
                         ELSE Completed(s, old.tx)
        OBVIOUS
      <4>2. steps = <<SaveStep(t)>> \o CloseSteps(old.tx)
        BY <2>0, <2>2, <3>1, <4>1, Zenon DEF ReconcileSteps
      <4>3. Counts(t)
        BY <2>6, <4>1
      <4> QED
        BY <2>8, <4>2, <4>3
    <3>2. CASE old.status = "PENDING_UNKNOWN"
      <4>1. steps = <<SaveStep(Collapsed(p, s, 0))>> \o CloseSteps(old.tx)
        BY <2>0, <2>2, <3>2 DEF ReconcileSteps
      <4> QED
        BY <2>6, <2>8, <4>1
    <3>3. CASE old.status = "COMMIT_MARKER_MISSING"
      <4>1. CASE Lapsed(s, old.seen)
        <5>1. steps = <<SaveStep(Collapsed(p, s, 0))>> \o CloseSteps(old.tx)
          BY <2>0, <2>2, <3>3, <4>1 DEF ReconcileSteps
        <5> QED
          BY <2>6, <2>8, <5>1
      <4>2. CASE ~Lapsed(s, old.seen)
        <5>1. steps = <<>> \o CloseSteps(old.tx)
          BY <2>0, <2>2, <3>3, <4>2 DEF ReconcileSteps
        <5>2. CloseSteps(old.tx) \in Seq({LogStep(Event(old.tx, "RECOVERY")),
                                          LogStep(Event(old.tx, "COMMITTED"))})
          BY DEF CloseSteps
        <5>3. steps = CloseSteps(old.tx)
          BY <5>1, <5>2
        <5> QED
          BY <2>9, <5>3
      <4> QED
        BY <4>1, <4>2
    <3>4. CASE old.status = "ORPHANED_LICENSE"
      <4>1. steps = CloseSteps(old.tx)
        BY <2>0, <2>2, <3>4 DEF ReconcileSteps
      <4> QED
        BY <2>9, <4>1
    <3>5. CASE old.status = "EXPIRED_ACTIVE"
      <4>1. r.todo = <<SaveStep(Collapsed(p, s, 0)), LogStep(Event(0, "RECOVERY"))>>
        BY <2>0, <2>2, <2>5, <3>5 DEF ReconcileSteps
      <4>2. /\ DOMAIN r.todo = 1 .. 2 /\ r.todo[1] = SaveStep(Collapsed(p, s, 0))
            /\ r.todo[2] = LogStep(Event(0, "RECOVERY"))
        BY <4>1
      <4>3. \A j \in DOMAIN r.todo : j = 1 \/ j = 2
        BY <4>2
      <4> QED
        BY <2>5, <2>6, <2>7, <4>2, <4>3, SavesFirst
    <3> QED
      BY <2>4, <3>1, <3>2, <3>3, <3>4, <3>5 DEF Statuses
  <2>11. run' = [run EXCEPT ![p] = r]
    BY <1>2, <2>0, <2>1, <2>2, <2>3 DEF Proceed
  <2> QED
    BY <2>10, <2>11, AccountCommand DEF Reconcile
<1> QED
  BY <1>1, <1>2 DEF Reconcile

LEMMA AccountBeginSave ==
  ASSUME ActionInv, NEW p, Procs = {p}, LeaseInv(p), BeginSave(p)
  PROVE  LeaseInv(p)'
<1> DEFINE state == Head(run[p].todo).state
<1>1. CASE Finish(p) /\ UNCHANGED storeVars
  BY <1>1, AccountFinish DEF BeginSave
<1>2. CASE SaveCheck(p, state, run[p].seen) /\ UNCHANGED run
  <2>1. /\ UNCHANGED <<state_file, history, history_torn, performed, run>>
        /\ Current' = Current
    BY <1>2 DEF BeginSave, SaveCheck, Current
  <2>2. state_file # NoFile => Readable
    BY <1>2 DEF SaveCheck, CanSave
  <2>3. Countable' /\ (Readable' <=> Readable)
    <3>1. \A l : UsedUnder(l)' = UsedUnder(l)
      BY <2>1 DEF UsedUnder
    <3>2. Countable'
      BY <3>1 DEF LeaseInv, Countable
    <3> QED
      BY <2>1, <3>2 DEF Readable, ChainIntact
  <2>4. (\A l : PerformedUnder(l)' = PerformedUnder(l)) /\ \A r : Accounts(r) => Accounts(r)'
    BY <2>1, AccountsKept
  <2> QED
    BY <2>1, <2>2, <2>3, <2>4 DEF LeaseInv
<1> QED
  BY <1>1, <1>2 DEF BeginSave

\* What the state about to be saved counts, and what it succeeds.
LEMMA SavedCounts ==
  ASSUME ActionInv, NEW p, Procs = {p}, OneInv(p), LeaseInv(p), saving[p].phase # "idle",
         NEW s, s = saving[p].next
  PROVE  /\ Counts(s) /\ WellFormed(s) /\ s \in Snapshot
         /\ 1 \in DOMAIN run[p].todo /\ run[p].todo[1] = Head(run[p].todo)
         /\ run[p].todo[1].do = "save" /\ run[p].todo[1].state = s
<1>1. SaveOK(saving[p], run[p]) /\ OneFile(saving[p]) /\ Accounts(run[p])
  BY DEF ActionInv, CommandsOK, OneInv, LeaseInv
<1>2. run[p].phase = "work" /\ Head(run[p].todo).do = "save" /\ s = Head(run[p].todo).state
  BY <1>1 DEF SaveOK
<1>3. run[p].todo \in Seq(Step) /\ run[p].todo # <<>>
  BY <1>2, RunType DEF RunOK
<1>4. 1 \in DOMAIN run[p].todo /\ run[p].todo[1] = Head(run[p].todo)
  BY <1>3
<1>5. Counts(s)
  BY <1>1, <1>2, <1>4 DEF Accounts, Saves
<1>6. s \in Snapshot
  BY DEF ActionInv, StoreInv, StoreTypeOK, SaveInProgress
<1> QED
  BY <1>1, <1>2, <1>4, <1>5, <1>6 DEF OneFile

\* An append charges one action more to the lease it is of, and no other.
LEMMA ChargesOfAppend ==
  ASSUME ActionInv, NEW p, Procs = {p}, OneInv(p), LeaseInv(p), AppendState(p)
  PROVE  /\ Countable'
         /\ \A l : \/ ChargedTo(l)' = ChargedTo(l)
                   \/ /\ l = saving[p].next.revision
                      /\ ChargedTo(l) \in Nat /\ ChargedTo(l) < MaxTotalActions
                      /\ ChargedTo(l)' = ChargedTo(l) + 1
<1>0. PICK s : s = saving[p].next
  OBVIOUS
<1>1. PICK e : e = [prev |-> saving[p].base, snap |-> s]
  OBVIOUS
<1>2. /\ saving[p].phase = "append" /\ history' = Append(history, e)
      /\ e \in Entry /\ e.snap = s
  BY <1>0, <1>1 DEF AppendState, SaveAppend, ActionInv, StoreInv, StoreTypeOK,
                    SaveInProgress, Entry
<1>3. Counts(s) /\ WellFormed(s) /\ s.revision \in Nat /\ s.used \in Nat
  BY <1>0, <1>2, SavedCounts DEF Snapshot
<1>4. state_file # NoFile => Readable
  BY <1>2 DEF LeaseInv
<1> DEFINE n == Len(history) + 1
<1>5. /\ DOMAIN history' = DOMAIN history \union {n} /\ history'[n] = e
      /\ \A k \in DOMAIN history : history'[k] = history[k]
  <2>1. DOMAIN history' = 1 .. n
    BY <1>2, FileElements, SeqAppend
  <2>2. history'[n] = e /\ \A k \in DOMAIN history : history'[k] = history[k]
    BY <1>2, FileElements, SeqAppend
  <2> QED
    BY <2>1, <2>2, FileElements
<1> HIDE DEF n
<1>6. \A l : UsedUnder(l)' = IF s.revision = l /\ s.mode = "BOUNDED_CONTROL"
                             THEN UsedUnder(l) \union {s.used} ELSE UsedUnder(l)
  BY <1>2, <1>5 DEF UsedUnder
<1>7. CASE s.mode # "BOUNDED_CONTROL"
  <2>1. \A l : UsedUnder(l)' = UsedUnder(l)
    BY <1>6, <1>7
  <2>2. Countable'
    BY <2>1 DEF LeaseInv, Countable
  <2> QED
    BY <2>1, <2>2, ChargedMost
<1>8. CASE s.mode = "BOUNDED_CONTROL"
  <2> DEFINE l == s.revision
  <2>1. s.used <= MaxTotalActions
    BY <1>3, <1>8 DEF WellFormed, WithinLimits
  <2>2. /\ Readable
        /\ \/ /\ Current.mode = "BOUNDED_CONTROL" /\ l = Current.revision
              /\ s.used = Current.used \/ s.used = Current.used + 1
           \/ Current.revision < l /\ s.used = 0
    BY <1>3, <1>4, <1>8 DEF Counts
  <2>3. UsedUnder(l) \subseteq Nat /\ UsedUnder(l)' = UsedUnder(l) \union {s.used}
    BY <1>6, <1>8, UsedTypes
  <2>4. \A k : k # l => UsedUnder(k)' = UsedUnder(k)
    BY <1>6
  <2>5. /\ state_file \in DOMAIN history /\ Current \in Snapshot
        /\ Current.used \in Nat /\ Current.revision \in Nat
    BY <2>2, CurrentType, FileElements DEF Readable, NoFile, Snapshot, OneInv, OneFile
  <2>6. CASE Current.mode = "BOUNDED_CONTROL" /\ l = Current.revision
    <3>1. Current.used \in UsedUnder(l) /\ \A v \in UsedUnder(l) : v <= Current.used
      BY <2>2, <2>5, <2>6, CurrentIsMost DEF UsedUnder, Current
    <3>2. \A v \in UsedUnder(l)' : v <= s.used
      BY <1>3, <2>2, <2>3, <2>5, <2>6, <3>1
    <3>3. s.used \in UsedUnder(l)' /\ UsedUnder(l)' \subseteq Nat
      BY <1>3, <2>3
    <3>4. Most(UsedUnder(l)) = Current.used
      BY <2>3, <3>1, MostIs
    <3>5. Most(UsedUnder(l)') = s.used
      BY <3>2, <3>3, MostIs
    <3>6. Countable'
      BY <2>4, <3>2, <3>3 DEF LeaseInv, Countable
    <3>7. ChargedTo(l) = Current.used /\ ChargedTo(l)' = s.used
      BY <3>4, <3>5, ChargedMost
    <3>8. \A k : k # l => ChargedTo(k)' = ChargedTo(k)
      BY <2>4, ChargedMost
    <3>9. \/ s.used = Current.used
          \/ Current.used < MaxTotalActions /\ s.used = Current.used + 1
      BY <1>3, <2>1, <2>2, <2>5, <2>6, LimitsAssumption
    <3> QED
      BY <1>0, <2>5, <3>6, <3>7, <3>8, <3>9
  <2>7. CASE Current.revision < l /\ s.used = 0
    <3>1. UsedUnder(l) = {}
      BY <1>3, <2>2, <2>5, <2>7, CurrentIsMost, FileElements DEF UsedUnder, Snapshot
    <3>2. UsedUnder(l)' = {0}
      BY <2>3, <2>7, <3>1
    <3>3. Most(UsedUnder(l)) = 0 /\ Most(UsedUnder(l)') = 0
      BY <3>1, <3>2, MostIs DEF Most
    <3>4. Countable'
      BY <2>4, <3>2 DEF LeaseInv, Countable
    <3>5. \A k : ChargedTo(k)' = ChargedTo(k)
      BY <2>4, <3>3, ChargedMost
    <3> QED
      BY <3>4, <3>5
  <2> QED
    BY <2>2, <2>6, <2>7
<1> QED
  BY <1>7, <1>8

LEMMA AccountAppendState ==
  ASSUME ActionInv, NEW p, Procs = {p}, OneInv(p), LeaseInv(p), AppendState(p)
  PROVE  LeaseInv(p)'
<1>1. UNCHANGED <<state_file, performed, run>> /\ saving'[p].phase = "replace"
  BY DEF AppendState, SaveAppend, ActionInv, StoreInv, StoreTypeOK, SaveInProgress
<1>2. state_file # NoFile => Current' = Current
  <2>1. OneFile(saving[p]) /\ history \in Seq(Entry)
        /\ [prev |-> saving[p].base, snap |-> saving[p].next] \in Entry
        /\ history' = Append(history, [prev |-> saving[p].base, snap |-> saving[p].next])
    BY DEF OneInv, AppendState, SaveAppend, ActionInv, StoreInv, StoreTypeOK,
           SaveInProgress, Entry
  <2>2. \A k \in DOMAIN history : history'[k] = history[k]
    BY <2>1, SeqAppend
  <2> QED
    BY <1>1, <2>1, <2>2 DEF OneFile, Current
<1>3. (\A l : PerformedUnder(l)' = PerformedUnder(l)) /\ \A r : Accounts(r) => Accounts(r)'
  BY <1>1, <1>2, AccountsKept
<1>4. Countable'
  BY ChargesOfAppend
<1> QED
  BY <1>1, <1>2, <1>3, <1>4 DEF LeaseInv

LEMMA AccountFinishSave ==
  ASSUME ActionInv, NEW p, Procs = {p}, OneInv(p), LeaseInv(p), FinishSave(p)
  PROVE  LeaseInv(p)'
<1>0. PICK s : s = saving[p].next
  OBVIOUS
<1>1. /\ saving[p].phase = "replace" /\ state_file' = saving[p].entry
      /\ UNCHANGED <<history, journal, performed>>
      /\ saving'[p] = NotSaving /\ StepDone(p)
  <2>1. OneFile(saving[p])
    BY DEF OneInv
  <2> QED
    BY <2>1 DEF FinishSave, SaveReplace, SaveLost, OneFile, journalVars,
                ActionInv, StoreInv, StoreTypeOK
<1>2. /\ Current' = s /\ state_file' # NoFile
      /\ run[p].phase = "work" /\ Head(run[p].todo).do = "save"
  BY <1>0, <1>1, SavedState
<1>3. /\ Counts(s) /\ s.used \in Nat /\ s.revision \in Nat
      /\ 1 \in DOMAIN run[p].todo /\ run[p].todo[1].do = "save" /\ run[p].todo[1].state = s
  BY <1>0, <1>1, SavedCounts DEF Snapshot
<1>4. Accounts(run[p]) /\ (Executes(run[p]) => Executable(run[p]))
  BY OwnRun DEF LeaseInv, Grounded, TodoOne
<1>5. \A l : PerformedUnder(l)' = PerformedUnder(l) /\ PerformedUnder(l) \in Nat
  BY <1>1, PerformedCount DEF PerformedUnder
<1>6. Countable'
  <2>1. \A l : UsedUnder(l)' = UsedUnder(l)
    BY <1>1 DEF UsedUnder
  <2> QED
    BY <2>1 DEF LeaseInv, Countable
<1>7. s.mode = "BOUNDED_CONTROL" => PerformedUnder(s.revision) <= s.used
  <2>1. CASE s.mode = "BOUNDED_CONTROL" /\ Current.revision < s.revision
    <3>1. state_file # NoFile
      BY <1>3, <2>1 DEF Counts
    <3>2. Current.revision \in Nat
      BY <3>1, FileElements DEF OneInv, OneFile, Current, Snapshot
    <3>3. \A i \in DOMAIN performed : performed[i].lease # s.revision
      BY <1>3, <2>1, <3>1, <3>2, PerformedElements DEF OneInv, OneState
    <3> QED
      BY <1>3, <3>3, NothingPerformed
  <2>2. CASE /\ s.mode = "BOUNDED_CONTROL" /\ Current.mode = "BOUNDED_CONTROL"
             /\ s.revision = Current.revision
             /\ s.used = Current.used \/ s.used = Current.used + 1
    <3>1. state_file # NoFile
      BY <1>3, <2>2 DEF Counts
    <3>2. Current.used \in Nat /\ PerformedUnder(s.revision) <= Current.used
      BY <2>2, <3>1, FileElements DEF LeaseInv, OneInv, OneFile, Current, Snapshot
    <3> QED
      BY <1>3, <1>5, <2>2, <3>2
  <2> QED
    BY <1>3, <2>1, <2>2 DEF Counts
<1>8. \A r \in {run'[p]} : Accounts(r)'
  <2>1. CASE run'[p] = Idle
    BY <2>1, IdleAccounts
  <2>2. CASE run'[p] # Idle
    <3>0. PICK new : new = run'[p]
      OBVIOUS
    <3>1. /\ run[p].todo \in Seq(Step) /\ run[p].todo # <<>> /\ Len(run[p].todo) # 1
          /\ new.phase = "work" /\ new.todo = Tail(run[p].todo)
          /\ new.loaded = run[p].loaded
      BY <1>1, <1>2, <2>2, <3>0, StepDoneShape
    <3>2. Saves(new) = {}
      <4>1. \A j \in DOMAIN new.todo : j \in Nat /\ j + 1 \in DOMAIN run[p].todo /\ j + 1 # 1
                                      /\ new.todo[j] = run[p].todo[j + 1]
        BY <3>1, ShiftedTodo
      <4>2. \A j \in Saves(run[p]) : j = 1
        BY <1>3, <1>4 DEF Accounts, Saves
      <4> QED
        BY <4>1, <4>2 DEF Saves
    <3>3. Executes(new) => Executes(run[p])
      BY <1>3, <3>1, ShiftedTodo
    <3>4. ASSUME Executes(new)
          PROVE  /\ s.revision = new.loaded.revision /\ s.mode = "BOUNDED_CONTROL"
                 /\ PerformedUnder(s.revision) <= new.loaded.used
                 /\ s.used = new.loaded.used + 1
      <4>1. /\ s.mode = "BOUNDED_CONTROL" /\ s.revision = new.loaded.revision
            /\ Current.revision = new.loaded.revision
            /\ PerformedUnder(Current.revision) <= new.loaded.used
        BY <1>3, <1>4, <3>1, <3>3, <3>4 DEF Executable, Accounts
      <4>2. s.used = new.loaded.used + 1
        BY <1>3, <1>4, <3>1, <3>3, <3>4 DEF Saves, Accounts
      <4> QED
        BY <4>1, <4>2
    <3>5. Saves(new)' = {} /\ (Executes(new)' <=> Executes(new))
      BY <3>2 DEF Saves, Executes
    <3>6. Accounts(new)'
      BY <1>2, <1>5, <3>1, <3>4, <3>5 DEF Accounts
    <3> QED
      BY <3>0, <3>6
  <2> QED
    BY <2>1, <2>2
<1> QED
  BY <1>1, <1>2, <1>5, <1>6, <1>7, <1>8 DEF LeaseInv, NotSaving

LEMMA AccountAppendJournal ==
  ASSUME ActionInv, NEW p, Procs = {p}, OneInv(p), LeaseInv(p), AppendJournal(p)
  PROVE  LeaseInv(p)'
<1>1. /\ run[p].phase = "work" /\ Head(run[p].todo).do = "log" /\ StepDone(p)
      /\ UNCHANGED <<storeVars, performed>>
  BY DEF AppendJournal, Doing
<1>2. PICK new : new = run'[p]
  OBVIOUS
<1>3. run' = [run EXCEPT ![p] = new]
  <2>1. run \in [Procs -> Run]
    BY DEF ActionInv, ActionTypeOK
  <2> QED
    BY <1>1, <1>2, <2>1 DEF StepDone, Finish
<1>4. Accounts(new)
  <2>1. CASE new = Idle
    BY <2>1, IdleAccounts
  <2>2. CASE new # Idle
    <3>1. /\ run[p].todo \in Seq(Step) /\ run[p].todo # <<>> /\ Len(run[p].todo) # 1
          /\ new.phase = "work" /\ new.todo = Tail(run[p].todo)
          /\ new.loaded = run[p].loaded
      BY <1>1, <1>2, <2>2, StepDoneShape
    <3>2. /\ run[p].todo[1].do = "log"
          /\ \A j \in DOMAIN new.todo : j \in Nat /\ j + 1 \in DOMAIN run[p].todo
                                       /\ new.todo[j] = run[p].todo[j + 1]
          /\ \A i \in DOMAIN run[p].todo :
               i # 1 => i - 1 \in DOMAIN new.todo /\ run[p].todo[i] = new.todo[i - 1]
          /\ Executes(new) <=> Executes(run[p])
      <4>1. /\ run[p].todo[1].do = "log"
            /\ \A j \in DOMAIN new.todo : j \in Nat /\ j + 1 \in DOMAIN run[p].todo
                                         /\ new.todo[j] = run[p].todo[j + 1]
        BY <1>1, <3>1, ShiftedTodo
      <4>2. \A i \in DOMAIN run[p].todo :
              i # 1 => i - 1 \in DOMAIN new.todo /\ run[p].todo[i] = new.todo[i - 1]
        BY <3>1, ShiftedTodo
      <4>3. Executes(new) <=> Executes(run[p])
        BY <3>1, <4>1, ShiftedTodo
      <4> QED
        BY <4>1, <4>2, <4>3
    <3>3. /\ \A j \in Saves(new) : j \in Nat /\ j + 1 \in Saves(run[p])
                                   /\ new.todo[j] = run[p].todo[j + 1]
          /\ Saves(new) = {} => Saves(run[p]) = {}
      BY <3>2 DEF Saves
    <3>4. Accounts(run[p])
      BY DEF LeaseInv
    <3>5. \A i, j \in Saves(new) : i = j
      <4>1. \A i, j \in Saves(new) : i + 1 = j + 1 /\ i \in Nat /\ j \in Nat
        BY <3>3, <3>4 DEF Accounts
      <4> QED
        BY <4>1
    <3>6. \A j \in Saves(new) : Counts(new.todo[j].state)
      BY <3>3, <3>4 DEF Accounts
    <3>7. Executes(new) =>
            /\ state_file # NoFile
            /\ Current.revision = new.loaded.revision /\ Current.mode = "BOUNDED_CONTROL"
            /\ PerformedUnder(Current.revision) <= new.loaded.used
      BY <3>1, <3>2, <3>4 DEF Accounts
    <3>8. Executes(new) =>
            /\ \A j \in Saves(new) :
                 Current.used = new.loaded.used /\ new.todo[j].state.used = new.loaded.used + 1
            /\ Saves(new) = {} => Current.used = new.loaded.used + 1
      BY <3>1, <3>2, <3>3, <3>4 DEF Accounts
    <3> QED
      BY <3>1, <3>5, <3>6, <3>7, <3>8 DEF Accounts
  <2> QED
    BY <2>1, <2>2
<1> QED
  BY <1>1, <1>3, <1>4, AccountCommand

\* The execution was charged for before, and is the only one since.
LEMMA ChargedExecution ==
  ASSUME ActionInv, NEW p, Procs = {p}, OneInv(p), LeaseInv(p),
         NEW ok \in BOOLEAN, Execute(p, ok)
  PROVE  LET lease == run[p].loaded.revision
         IN  /\ state_file # NoFile /\ Current.mode = "BOUNDED_CONTROL"
             /\ Current.revision = lease /\ Current.used = run[p].loaded.used + 1
             /\ Current.used \in Nat /\ PerformedUnder(lease) \in Nat
             /\ PerformedUnder(lease) < Current.used
             /\ \A l : PerformedUnder(l)' = IF l = lease THEN PerformedUnder(l) + 1
                                            ELSE PerformedUnder(l)
<1>1. run[p].todo = <<ExecuteStep>> /\ ExecuteStep.do = "execute"
  BY AtExecution DEF Execute, ExecuteStep
<1>2. Executes(run[p]) /\ Saves(run[p]) = {} /\ Accounts(run[p])
  BY <1>1 DEF Executes, Saves, LeaseInv
<1>3. /\ state_file # NoFile /\ Current.mode = "BOUNDED_CONTROL"
      /\ Current.revision = run[p].loaded.revision
      /\ Current.used = run[p].loaded.used + 1
      /\ PerformedUnder(Current.revision) <= run[p].loaded.used
  BY <1>2 DEF Accounts
<1>4. run[p].loaded.used \in Nat /\ run[p].loaded.revision \in Nat /\ run[p].tx \in Nat
      /\ PerformedUnder(Current.revision) \in Nat
  BY OwnRun, PerformedCount DEF Snapshot
<1>5. PICK e : e = [tx |-> run[p].tx, lease |-> run[p].loaded.revision]
  OBVIOUS
<1>6. e \in Performance /\ e.lease = run[p].loaded.revision /\ performed' = Append(performed, e)
  BY <1>4, <1>5 DEF Execute, Performance
<1>7. \A l : PerformedUnder(l)' = IF l = e.lease THEN PerformedUnder(l) + 1
                                  ELSE PerformedUnder(l)
  BY <1>6, PerformedOnce
<1> QED
  BY <1>3, <1>4, <1>6, <1>7

LEMMA AccountExecute ==
  ASSUME ActionInv, NEW p, Procs = {p}, OneInv(p), LeaseInv(p),
         NEW ok \in BOOLEAN, Execute(p, ok)
  PROVE  LeaseInv(p)'
<1>0. PICK old : old = run[p]
  OBVIOUS
<1>1. PICK final : final = IF ok THEN Completed(Charged(old.loaded, old.tx, old.ticks), old.tx)
                           ELSE Collapsed(p, Charged(old.loaded, old.tx, old.ticks), old.tx)
  OBVIOUS
<1>2. PICK steps : steps = <<LogStep(Outcome(old.tx, ok)), SaveStep(final),
                             LogStep(Event(old.tx, "COMMITTED"))>>
  OBVIOUS
<1>3. PICK new : new = [old EXCEPT !.phase = "work", !.todo = steps]
  OBVIOUS
<1>4. UNCHANGED <<state_file, history, history_torn, saving>> /\ Current' = Current
  BY DEF Execute, storeVars, Current
<1>5. run'[p] = new
  BY <1>0, <1>1, <1>2, <1>3 DEF Execute, Proceed, ActionInv, ActionTypeOK
<1>6. /\ state_file # NoFile /\ Current.mode = "BOUNDED_CONTROL"
      /\ Current.revision = old.loaded.revision /\ Current.used = old.loaded.used + 1
      /\ Current.used \in Nat /\ PerformedUnder(old.loaded.revision) \in Nat
      /\ PerformedUnder(old.loaded.revision) < Current.used
      /\ PerformedUnder(old.loaded.revision)' = PerformedUnder(old.loaded.revision) + 1
  BY <1>0, ChargedExecution
<1>7. /\ old \in Run /\ old.loaded \in Snapshot /\ old.tx \in Nat /\ old.ticks \in Nat
  BY <1>0, OwnRun
<1>8. new.phase = "work" /\ new.todo = steps
  BY <1>3, <1>7 DEF Run
<1>9. Counts(final)
  <2>1. CASE ok
    <3>1. final = Completed(Charged(old.loaded, old.tx, old.ticks), old.tx)
      BY <1>1, <2>1
    <3>2. Charged(old.loaded, old.tx, old.ticks) \in Snapshot
      BY <1>7, SnapshotTypes
    <3>3. /\ Charged(old.loaded, old.tx, old.ticks).revision = old.loaded.revision
          /\ Charged(old.loaded, old.tx, old.ticks).used = old.loaded.used + 1
      BY <1>7 DEF Charged, Snapshot
    <3>4. final.revision = old.loaded.revision /\ final.used = old.loaded.used + 1
      BY <3>1, <3>2, <3>3 DEF Completed, Snapshot
    <3> QED
      BY <1>6, <3>4 DEF Counts
  <2>2. CASE ~ok
    BY <1>1, <2>2, CountsOfNew
  <2> QED
    BY <2>1, <2>2
<1>10. /\ DOMAIN new.todo = 1 .. 3 /\ new.todo[1].do = "log"
       /\ new.todo[2].do = "save" /\ new.todo[2].state = final
       /\ new.todo[3].do = "log"
  <2>1. /\ DOMAIN new.todo = 1 .. 3
        /\ new.todo[1] = LogStep(Outcome(old.tx, ok)) /\ new.todo[2] = SaveStep(final)
        /\ new.todo[3] = LogStep(Event(old.tx, "COMMITTED"))
    BY <1>2, <1>8
  <2> QED
    BY <2>1 DEF LogStep, SaveStep
<1>11. Accounts(new)'
  <2>1. \A j \in DOMAIN new.todo : j = 1 \/ j = 2 \/ j = 3
    BY <1>10
  <2>2. Saves(new)' = {2} /\ ~Executes(new)'
    BY <1>10, <2>1 DEF Saves, Executes
  <2>3. Counts(final)'
    BY <1>4, <1>9 DEF Counts
  <2> QED
    BY <1>8, <1>10, <2>2, <2>3 DEF Accounts
<1>12. Countable' /\ (Readable' <=> Readable)
  <2>1. \A l : UsedUnder(l)' = UsedUnder(l)
    BY <1>4 DEF UsedUnder
  <2>2. Countable'
    BY <2>1 DEF LeaseInv, Countable
  <2> QED
    BY <1>4, <2>2 DEF Readable, ChainIntact
<1>13. PerformedUnder(Current.revision)' <= Current.used
  BY <1>4, <1>6
<1> QED
  BY <1>4, <1>5, <1>11, <1>12, <1>13 DEF LeaseInv

\* A crash, and what others do, leaves the counting as it is.
LEMMA AccountCrash ==
  ASSUME ActionInv, NEW p, Procs = {p}, LeaseInv(p), Crash(p)
  PROVE  LeaseInv(p)'
<1>1. /\ UNCHANGED <<state_file, history, performed>>
      /\ saving'[p] = NotSaving /\ run'[p] = Idle /\ Current' = Current
  BY DEF Crash, SaveCrash, Finish, ActionInv, StoreInv, StoreTypeOK, ActionTypeOK, Current
<1>2. Countable'
  <2>1. \A l : UsedUnder(l)' = UsedUnder(l)
    BY <1>1 DEF UsedUnder
  <2> QED
    BY <2>1 DEF LeaseInv, Countable
<1>3. \A l : PerformedUnder(l)' = PerformedUnder(l)
  BY <1>1, AccountsKept
<1> QED
  BY <1>1, <1>2, <1>3, IdleAccounts DEF LeaseInv, NotSaving

LEMMA AccountEnvironment ==
  ASSUME NEW p, LeaseInv(p),
         UNCHANGED <<state_file, history, history_torn, saving, performed, run>>
  PROVE  LeaseInv(p)'
<1>1. Current' = Current /\ (Readable' <=> Readable)
  BY DEF Current, Readable, ChainIntact
<1>2. Countable'
  <2>1. \A l : UsedUnder(l)' = UsedUnder(l)
    BY DEF UsedUnder
  <2> QED
    BY <2>1 DEF LeaseInv, Countable
<1>3. (\A l : PerformedUnder(l)' = PerformedUnder(l)) /\ \A r : Accounts(r) => Accounts(r)'
  BY <1>1, AccountsKept
<1> QED
  BY <1>1, <1>2, <1>3 DEF LeaseInv

LEMMA LeaseInvInit == ASSUME NEW p, Procs = {p}, Init PROVE LeaseInv(p)
<1>1. /\ state_file = NoFile /\ saving[p].phase = "idle" /\ run[p] = Idle
      /\ DOMAIN history = {}
  BY DEF Init, StoreInit, NotSaving
<1>2. Countable
  BY <1>1 DEF Countable, UsedUnder
<1> QED
  BY <1>1, <1>2, IdleAccounts DEF LeaseInv

LEMMA LeaseStepInv ==
  ASSUME NEW p, Procs = {p}, ActionInv, OneInv(p), LeaseInv(p), [Next]_vars
  PROVE  LeaseInv(p)'
<1>1. ASSUME NEW ticks \in 1 .. MaxClockTicks, StartAction(p, ticks)
      PROVE  LeaseInv(p)'
  BY <1>1, AccountReads
<1>2. ASSUME NEW ok \in BOOLEAN, Execute(p, ok)
      PROVE  LeaseInv(p)'
  BY <1>2, AccountExecute
<1>3. ASSUME \/ Decide(p) \/ Route(p) \/ Promote(p) \/ Recover(p) \/ Reconcile(p)
             \/ BeginSave(p) \/ AppendState(p) \/ FinishSave(p)
             \/ ReadJournal(p) \/ AppendJournal(p) \/ Crash(p)
      PROVE  LeaseInv(p)'
  BY <1>3, AccountDecide, AccountRouteOrPromote, AccountReads, AccountReconcile,
     AccountBeginSave, AccountAppendState, AccountFinishSave, AccountAppendJournal,
     AccountCrash
<1>4. CASE ChangeControl \/ (\E r \in 1 .. MaxRevision : Expire(r)) \/ UNCHANGED vars
  <2>1. UNCHANGED <<state_file, history, history_torn, saving, performed, run>>
    BY <1>4 DEF ChangeControl, Expire, Lapse, vars, storeVars, journalVars
  <2> QED
    BY <2>1, AccountEnvironment
<1> QED
  BY <1>1, <1>2, <1>3, <1>4 DEF Next

LEMMA LeaseInvAlways ==
  ASSUME NEW p, Procs = {p}
  PROVE  Spec => [](ActionInv /\ OneInv(p) /\ LeaseInv(p))
<1>1. Init => LeaseInv(p)
  BY LeaseInvInit
<1>2. ActionInv /\ OneInv(p) /\ LeaseInv(p) /\ [Next]_vars => LeaseInv(p)'
  BY LeaseStepInv
<1> QED
  BY <1>1, <1>2, OneInvAlways, PTL DEF Spec

LEMMA LeaseKept ==
  ASSUME UNCHANGED <<history, performed>>
  PROVE  \A l : ChargedTo(l)' = ChargedTo(l) /\ PerformedUnder(l)' = PerformedUnder(l)
  BY DEF ChargedTo, PerformedUnder

\* A step of the one process charges a lease, performs a charged action of one,
\* or leaves the leases alone.
LEMMA StepIsLease ==
  ASSUME NEW p, Procs = {p}, ActionInv, OneInv(p), LeaseInv(p), [Next]_vars
  PROVE  LET spent == [r \in 1 .. MaxRevision |-> ChargedTo(r)]
             done == [r \in 1 .. MaxRevision |-> PerformedUnder(r)]
         IN  Lease!Next \/ UNCHANGED <<spent, done>>
<1> DEFINE spent == [r \in 1 .. MaxRevision |-> ChargedTo(r)]
           done == [r \in 1 .. MaxRevision |-> PerformedUnder(r)]
<1>1. CASE AppendState(p)
  <2>1. /\ \A l : PerformedUnder(l)' = PerformedUnder(l)
        /\ \A l : \/ ChargedTo(l)' = ChargedTo(l)
                  \/ /\ l = saving[p].next.revision
                     /\ ChargedTo(l) \in Nat /\ ChargedTo(l) < MaxTotalActions
                     /\ ChargedTo(l)' = ChargedTo(l) + 1
    BY <1>1, ChargesOfAppend DEF AppendState, PerformedUnder
  <2>2. CASE \A l \in 1 .. MaxRevision : ChargedTo(l)' = ChargedTo(l)
    BY <2>1, <2>2
  <2>3. ASSUME NEW l \in 1 .. MaxRevision, ChargedTo(l)' # ChargedTo(l)
        PROVE  Lease!Charge(l)
    <3>1. /\ ChargedTo(l) < MaxTotalActions /\ ChargedTo(l)' = ChargedTo(l) + 1
          /\ \A k : k # l => ChargedTo(k)' = ChargedTo(k)
      BY <2>1, <2>3
    <3>2. spent' = [spent EXCEPT ![l] = @ + 1] /\ spent[l] < MaxTotalActions
      BY <3>1
    <3>3. done' = done
      BY <2>1
    <3> QED
      BY <3>2, <3>3 DEF Lease!Charge
  <2> QED
    BY <2>2, <2>3 DEF Lease!Next
<1>2. ASSUME NEW ok \in BOOLEAN, Execute(p, ok)
      PROVE  Lease!Next \/ UNCHANGED <<spent, done>>
  <2>0. PICK lease : lease = run[p].loaded.revision
    OBVIOUS
  <2>1. /\ state_file # NoFile /\ Current.mode = "BOUNDED_CONTROL"
        /\ Current.revision = lease /\ Current.used \in Nat
        /\ PerformedUnder(lease) \in Nat /\ PerformedUnder(lease) < Current.used
        /\ \A l : PerformedUnder(l)' = IF l = lease THEN PerformedUnder(l) + 1
                                       ELSE PerformedUnder(l)
    BY <1>2, <2>0, ChargedExecution
  <2>2. PerformedUnder(lease) < ChargedTo(lease)
    <3>1. Current.used \in UsedUnder(lease)
      BY <2>1, FileElements DEF OneInv, OneFile, Current, UsedUnder
    <3>2. PICK m \in UsedUnder(lease) : \A v \in UsedUnder(lease) : v <= m
      BY <3>1 DEF LeaseInv, Countable
    <3>3. UsedUnder(lease) \subseteq Nat /\ Most(UsedUnder(lease)) = m /\ Current.used <= m
      BY <3>1, <3>2, UsedTypes, MostIs
    <3>4. ChargedTo(lease) = m /\ m \in Nat
      BY <3>2, <3>3, ChargedMost
    <3> QED
      BY <2>1, <3>3, <3>4
  <2>3. \A l : ChargedTo(l)' = ChargedTo(l)
    BY <1>2 DEF Execute, storeVars, ChargedTo
  <2>4. spent' = spent
    BY <2>3
  <2>5. CASE lease \in 1 .. MaxRevision
    <3>1. done' = [done EXCEPT ![lease] = @ + 1] /\ done[lease] < spent[lease]
      BY <2>1, <2>2, <2>5
    <3> QED
      BY <2>4, <2>5, <3>1 DEF Lease!Perform, Lease!Next
  <2>6. CASE lease \notin 1 .. MaxRevision
    BY <2>1, <2>4, <2>6
  <2> QED
    BY <2>5, <2>6
<1>3. CASE UNCHANGED <<history, performed>>
  BY <1>3, LeaseKept
<1>4. CASE \/ \E ticks \in 1 .. MaxClockTicks : StartAction(p, ticks)
           \/ Decide(p) \/ Route(p) \/ Promote(p) \/ Recover(p) \/ Reconcile(p)
           \/ BeginSave(p) \/ FinishSave(p)
           \/ ReadJournal(p) \/ AppendJournal(p) \/ Crash(p)
           \/ ChangeControl \/ (\E r \in 1 .. MaxRevision : Expire(r)) \/ UNCHANGED vars
  <2>1. UNCHANGED <<history, performed>>
    BY <1>4 DEF StartAction, Decide, Route, Promote, Recover, Reconcile, BeginSave,
         SaveCheck, FinishSave, SaveReplace, SaveLost, ReadJournal, AppendJournal,
         Crash, SaveCrash, ChangeControl, Expire, Lapse, vars, storeVars
  <2> QED
    BY <1>3, <2>1
<1> QED
  BY <1>1, <1>2, <1>4 DEF Next

\* While commands do not overlap, the transaction, its crashes and its recovery
\* implement the bounded lease for every process and every limit: whatever the
\* adapter executed had been charged to its lease on disk, one by one and never
\* beyond the contract, and no charge is given back.
THEOREM OneProcessHonoursLease ==
  ASSUME NEW p, Procs = {p}
  PROVE  Spec => HonoursLease
<1> DEFINE spent == [r \in 1 .. MaxRevision |-> ChargedTo(r)]
           done == [r \in 1 .. MaxRevision |-> PerformedUnder(r)]
<1>1. Init => Lease!Init
  <2> SUFFICES ASSUME Init PROVE Lease!Init
    OBVIOUS
  <2>1. DOMAIN history = {} /\ DOMAIN performed = {}
    BY DEF Init, StoreInit
  <2>2. \A l : UsedUnder(l) = {} /\ PerformedUnder(l) = 0
    BY <2>1, NothingPerformed DEF UsedUnder
  <2>3. \A l : ChargedTo(l) = 0
    BY <2>2, ChargedMost DEF Most
  <2> QED
    BY <2>2, <2>3 DEF Lease!Init
<1>2. ActionInv /\ OneInv(p) /\ LeaseInv(p) /\ [Next]_vars => [Lease!Next]_<<spent, done>>
  BY StepIsLease
<1> QED
  BY <1>1, <1>2, LeaseInvAlways, PTL DEF Spec, HonoursLease, Lease!Spec
=============================================================================
