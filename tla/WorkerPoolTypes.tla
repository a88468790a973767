-------------------------- MODULE WorkerPoolTypes ---------------------------
(* Type correctness of WorkerPool, for any number of workers, groups and items. *)
EXTENDS WorkerPool, TLAPS

\* The time a leaf without a prover of its own may take.
USE SMTT(60), ZenonT(20), SMTT(61)

-----------------------------------------------------------------------------
(* Facts about sequences and about the operators the model is built from. *)

\* The concatenation of two sequences.
LEMMA ConcatProperties ==
  ASSUME NEW S, NEW s \in Seq(S), NEW t \in Seq(S)
  PROVE  /\ s \o t \in Seq(S)
         /\ Len(s \o t) = Len(s) + Len(t)
         /\ \A n \in 1..(Len(s) + Len(t)) :
              (s \o t)[n] = IF n <= Len(s) THEN s[n] ELSE t[n - Len(s)]
OBVIOUS

\* A sequence with one more element.
LEMMA AppendProperties ==
  ASSUME NEW S, NEW s \in Seq(S), NEW x \in S
  PROVE  /\ Append(s, x) \in Seq(S) /\ Append(s, x) # <<>>
         /\ Len(Append(s, x)) = Len(s) + 1
         /\ \A n \in 1..Len(s) : Append(s, x)[n] = s[n]
         /\ Append(s, x)[Len(s) + 1] = x
OBVIOUS

\* The empty sequence.
LEMMA EmptySeq ==
  ASSUME NEW S
  PROVE  /\ <<>> \in Seq(S)
         /\ \A s \in Seq(S) : s = <<>> <=> Len(s) = 0
OBVIOUS

\* An item of group g is <<g, k>> with k up to the size of the group.
LEMMA ItemsMember ==
  \A i : i \in Items <=> \E g \in Groups : \E k \in 1..Size[g] : i = <<g, k>>
BY DEF Items

\* The node id of a result that names no test is not an item.
LEMMA NoItemUnknown == NoItem \notin Items
BY PoolAssumption, ItemsMember DEF NoItem, Groups

\* The sentinels of handle_drain_outcome are one message per remaining item.
LEMMA SentinelsAreMessages ==
  ASSUME NEW g \in Groups, NEW n \in 0..Size[g], NEW o \in Outcomes, NEW w \in Workers
  PROVE  /\ Sentinels(g, n, o, w) \in Seq(Messages)
         /\ Len(Sentinels(g, n, o, w)) = Size[g] - n
         /\ \A j \in 1..(Size[g] - n) :
              Sentinels(g, n, o, w)[j] = ResultMessage(<<g, n + j>>, o, w)
<1> DEFINE S == Sentinels(g, n, o, w)
<1>1. Size[g] \in Nat /\ n \in Nat /\ Size[g] - n \in Nat
  BY PoolAssumption DEF Groups
<1>2. \A j \in 1..(Size[g] - n) : ResultMessage(<<g, n + j>>, o, w) \in Messages
  <2> TAKE j \in 1..(Size[g] - n)
  <2>1. n + j \in 1..Size[g]
    BY <1>1
  <2>2. <<g, n + j>> \in Items
    BY <2>1, ItemsMember
  <2> QED BY <2>2 DEF ResultMessage, Messages
<1>3. S \in [1..(Size[g] - n) -> Messages]
  BY <1>2 DEF Sentinels
<1>4. S \in Seq(Messages) /\ Len(S) = Size[g] - n
  BY <1>1, <1>3
<1>5. \A j \in 1..(Size[g] - n) : S[j] = ResultMessage(<<g, n + j>>, o, w)
  BY DEF Sentinels
<1> HIDE DEF S
<1> QED BY <1>4, <1>5 DEF S

-----------------------------------------------------------------------------
(* Type correctness.  TypeOK alone is not inductive: a thread that sends or  *)
(* drains holds a group of the phase and still expects an answer, and a      *)
(* subprocess that runs has read a task.                                     *)

HoldsGroup(w) == pc[w] \in {"send", "drain"}

Held ==
  \A w \in Workers :
    /\ HoldsGroup(w) => grp[w] \in Groups /\ received[w] < Size[grp[w]]
    /\ proc[w] = "running" => ptask[w] \in Groups

TypeInv == TypeOK /\ Held

\* Sending typed messages keeps the result channel typed.
LEMMA SendTyped ==
  ASSUME CoordTypes, NEW msgs \in Seq(Messages), Send(msgs)
  PROVE  rx' \in Seq(Messages)
BY ConcatProperties DEF CoordTypes, Send

\* The initial state is typed.
LEMMA InitTyped == Init => TypeInv
<1> SUFFICES ASSUME Init PROVE TypeInv
  OBVIOUS
<1> USE PoolAssumption DEF Init
<1>1. CoordTypes
  <2>1. <<>> \in Seq(Outcomes) /\ <<>> \in Seq(Messages)
    OBVIOUS
  <2>2. reports \in [Items -> Seq(Outcomes)] /\ rx \in Seq(Messages)
    BY <2>1
  <2>3. next \in 1..(NumGroups + 1)
    OBVIOUS
  <2> QED BY Zenon, <2>2, <2>3 DEF CoordTypes
<1>2. ThreadTypes
  BY DEF ThreadTypes
<1>3. ProcTypes
  BY DEF ProcTypes
<1>4. Held
  BY DEF Held, HoldsGroup
<1> QED BY <1>1, <1>2, <1>3, <1>4 DEF TypeInv, TypeOK

\* A step that leaves a group of variables alone leaves its types alone.
LEMMA UnchangedTypes ==
  /\ CoordTypes /\ UNCHANGED coordVars => CoordTypes'
  /\ ThreadTypes /\ UNCHANGED threadVars => ThreadTypes'
  /\ ProcTypes /\ UNCHANGED procVars => ProcTypes'
  /\ Held /\ UNCHANGED <<threadVars, procVars>> => Held'
<1>1. CoordTypes /\ UNCHANGED coordVars => CoordTypes'
  BY DEF CoordTypes, coordVars
<1>2. ThreadTypes /\ UNCHANGED threadVars => ThreadTypes'
  BY DEF ThreadTypes, threadVars
<1>3. ProcTypes /\ UNCHANGED procVars => ProcTypes'
  BY DEF ProcTypes, procVars
<1>4. Held /\ UNCHANGED <<threadVars, procVars>> => Held'
  BY DEF Held, HoldsGroup, threadVars, procVars
<1> QED BY <1>1, <1>2, <1>3, <1>4

\* The coordinator touches neither threads nor subprocesses.
LEMMA CoordinatorLeaves ==
  ASSUME Coordinator
  PROVE  UNCHANGED <<threadVars, procVars>>
BY Zenon DEF Coordinator, RecvDiagnostic, RecvResult, RecvClosed, StopPhase, JoinThreads

\* The steps of the coordinator keep the types.
LEMMA CoordinatorTyped == TypeInv /\ Coordinator => TypeInv'
<1> SUFFICES ASSUME TypeInv, Coordinator PROVE TypeInv'
  OBVIOUS
<1>0. UNCHANGED <<threadVars, procVars>>
  BY CoordinatorLeaves
<1>1. SUFFICES CoordTypes'
  BY <1>0, UnchangedTypes DEF TypeInv, TypeOK
<1>2. CoordTypes
  BY DEF TypeInv, TypeOK
<1>3. CASE RecvDiagnostic
  <2>1. Head(rx) \in Messages /\ Tail(rx) \in Seq(Messages)
    BY <1>2, <1>3 DEF RecvDiagnostic, CoordTypes
  <2>2. Head(rx).from \in Workers
    BY <2>1 DEF Messages
  <2>3. recorded' \in [Workers -> Nat]
    BY <1>2, <1>3, <2>2 DEF RecvDiagnostic, CoordTypes
  <2>4. skipWarned' \subseteq Workers
    BY <1>2, <1>3, <2>2 DEF RecvDiagnostic, CoordTypes
  <2> QED BY <1>2, <1>3, <2>1, <2>3, <2>4 DEF RecvDiagnostic, CoordTypes
<1>4. CASE RecvResult
  <2>1. Head(rx) \in Messages /\ Tail(rx) \in Seq(Messages)
    BY <1>2, <1>4 DEF RecvResult, CoordTypes
  <2>2. Head(rx).outcome \in Outcomes
    BY <2>1 DEF Messages
  <2>3. reports' \in [Items -> Seq(Outcomes)]
    BY <1>2, <1>4, <2>2 DEF RecvResult, CoordTypes
  <2>4. fails' \in Nat /\ interrupted' \in BOOLEAN /\ inFlight' \subseteq Items
    BY <1>2, <1>4 DEF RecvResult, Recorded, StopAfter, InFlightWithout, CoordTypes
  <2>5. coord' \in {"recv", "stopping"} /\ rx' \in Seq(Messages)
    BY <1>4, <2>1 DEF RecvResult
  <2> QED BY <1>2, <1>4, <2>3, <2>4, <2>5 DEF RecvResult, CoordTypes
<1>5. CASE RecvClosed
  BY <1>2, <1>5 DEF RecvClosed, CoordTypes
<1>6. CASE StopPhase
  <2>1. reports' \in [Items -> Seq(Outcomes)]
    BY <1>2, <1>6 DEF StopPhase, CoordTypes, Outcomes
  <2>2. next' \in 1..(NumGroups + 1)
    BY <1>2, <1>6, PoolAssumption DEF StopPhase, CoordTypes
  <2> QED BY <1>2, <1>6, <2>1, <2>2 DEF StopPhase, CoordTypes
<1>7. CASE JoinThreads
  BY <1>2, <1>7 DEF JoinThreads, CoordTypes
<1> QED BY <1>3, <1>4, <1>5, <1>6, <1>7 DEF Coordinator

\* The warning of warn_skipped_process_teardowns is a sequence of messages.
LEMMA SkippedTeardownsTyped ==
  ASSUME NEW w \in Workers
  PROVE  SkippedTeardowns(w) \in Seq(Messages)
<1>1. SkippedMessage(w) \in Messages
  BY DEF SkippedMessage, Messages, Outcomes
<1> QED BY <1>1 DEF SkippedTeardowns

\* What DrainOther and TailLine forward is a sequence of messages.
LEMMA ForwardedTyped ==
  ASSUME NEW w \in Workers, NEW kind
  PROVE  (IF kind = "diagnostic" THEN <<DiagMessage(w)>> ELSE <<>>) \in Seq(Messages)
<1>1. DiagMessage(w) \in Messages
  BY DEF DiagMessage, Messages, Outcomes
<1> QED BY <1>1

\* The steps of a worker thread keep the types.
LEMMA ThreadTyped ==
  ASSUME TypeInv, NEW w \in Workers, ThreadStep(w) \/ Watchdog(w)
  PROVE  TypeInv'
<1>0. CoordTypes /\ ThreadTypes /\ ProcTypes /\ Held
  BY DEF TypeInv, TypeOK
<1> USE PoolAssumption
<1>1. CASE SpawnWorker(w)
  <2>1. CoordTypes'
    BY <1>0, <1>1, UnchangedTypes DEF SpawnWorker
  <2> QED BY <1>0, <1>1, <2>1
          DEF SpawnWorker, ThreadTypes, ProcTypes, Held, HoldsGroup, TypeInv, TypeOK
<1>2. CASE SpawnFails(w) \/ LeaveLoop(w) \/ TailTimedOut(w) \/ TailDisconnected(w) \/ ReapChild(w)
  <2>1. CoordTypes' /\ ProcTypes'
    BY <1>0, <1>2, UnchangedTypes
    DEF SpawnFails, LeaveLoop, TailTimedOut, TailDisconnected, ReapChild
  <2>2. ThreadTypes' /\ Held'
    BY Zenon, <1>0, <1>2
    DEF SpawnFails, LeaveLoop, TailTimedOut, TailDisconnected, ReapChild, ThreadTypes,
        Held, HoldsGroup, procVars
  <2> QED BY <2>1, <2>2 DEF TypeInv, TypeOK
<1>3. CASE PopGroup(w)
  <2>1. ProcTypes'
    BY <1>0, <1>3, UnchangedTypes DEF PopGroup
  <2>2. next \in Groups
    BY <1>0, <1>3 DEF PopGroup, Queued, CoordTypes, Groups
  <2>3. CoordTypes'
    BY <1>0, <1>3, <2>2 DEF PopGroup, CoordTypes, Groups
  <2>4. ThreadTypes' /\ Held'
    BY <1>0, <1>3, <2>2 DEF PopGroup, ThreadTypes, Held, HoldsGroup, Groups, procVars
  <2> QED BY <2>1, <2>3, <2>4 DEF TypeInv, TypeOK
<1>4. CASE SendTask(w)
  <2>1. grp[w] \in Groups
    BY <1>0, <1>4 DEF SendTask, Held, HoldsGroup
  <2>2. GroupItems(grp[w]) \subseteq Items
    BY <2>1, ItemsMember DEF GroupItems
  <2>3. CoordTypes'
    BY <1>0, <1>4, <2>2 DEF SendTask, CoordTypes
  <2>4. ThreadTypes' /\ ProcTypes'
    BY Zenon, <1>0, <1>4 DEF SendTask, ThreadTypes, ProcTypes
  <2>5. Held'
    BY <1>0, <1>4 DEF SendTask, Held, HoldsGroup, ThreadTypes
  <2> QED BY <2>3, <2>4, <2>5 DEF TypeInv, TypeOK
<1>5. CASE SendTaskFails(w)
  <2>1. grp[w] \in Groups /\ 0 \in 0..Size[grp[w]]
    BY <1>0, <1>5 DEF SendTaskFails, Held, HoldsGroup, Groups
  <2>2. rx' \in Seq(Messages)
    BY <1>0, <1>5, <2>1, SendTyped, SentinelsAreMessages DEF SendTaskFails, Outcomes
  <2>3. CoordTypes'
    BY <1>0, <1>5, <2>2 DEF SendTaskFails, CoordTypes
  <2>4. ProcTypes'
    BY <1>0, <1>5, UnchangedTypes DEF SendTaskFails
  <2>5. ThreadTypes' /\ Held'
    BY <1>0, <1>5 DEF SendTaskFails, ThreadTypes, Held, HoldsGroup, procVars
  <2> QED BY <2>3, <2>4, <2>5 DEF TypeInv, TypeOK
<1>6. CASE DrainAnswer(w)
  <2>1. lines[w] \in Seq(Lines) /\ Head(lines[w]) \in Lines /\ Tail(lines[w]) \in Seq(Lines)
    BY <1>0, <1>6 DEF DrainAnswer, ProcTypes
  <2> DEFINE msg == IF Head(lines[w]).kind = "result"
                      THEN ResultMessage(Head(lines[w]).item, Head(lines[w]).outcome, w)
                      ELSE ResultMessage(NoItem, "failed", w)
  <2>2. msg \in Messages
    BY <2>1 DEF Lines, Messages, ResultMessage, Outcomes
  <2>3. Send(<<msg>>)
    BY <1>6 DEF DrainAnswer
  <2> HIDE DEF msg
  <2>4. rx' \in Seq(Messages)
    <3>1. <<msg>> \in Seq(Messages)
      BY <2>2
    <3> QED BY ONLY Zenon, <1>0, <2>3, <3>1, SendTyped
  <2>5. CoordTypes'
    BY <1>0, <1>6, <2>4 DEF DrainAnswer, CoordTypes
  <2>6. ProcTypes'
    BY <1>0, <1>6, <2>1 DEF DrainAnswer, ProcTypes
  <2>7. ThreadTypes'
    BY <1>0, <1>6 DEF DrainAnswer, ThreadTypes
  <2>8. Held'
    <3>1. /\ pc[w] = "drain" /\ UNCHANGED <<grp, proc, ptask>>
          /\ received' = [received EXCEPT ![w] = @ + 1]
          /\ pc' = [pc EXCEPT ![w] = IF received[w] + 1 >= Size[grp[w]] THEN "loop" ELSE "drain"]
      BY Zenon, <1>6 DEF DrainAnswer
    <3> QED BY <1>0, <3>1 DEF ThreadTypes, Held, HoldsGroup, Groups
  <2> QED BY <2>5, <2>6, <2>7, <2>8 DEF TypeInv, TypeOK
<1>7. CASE DrainOther(w)
  <2>1. lines[w] \in Seq(Lines) /\ Tail(lines[w]) \in Seq(Lines)
    BY <1>0, <1>7 DEF DrainOther, ProcTypes
  <2>2. rx' \in Seq(Messages)
    BY Zenon, <1>0, <1>7, SendTyped, ForwardedTyped DEF DrainOther
  <2>3. CoordTypes' /\ ProcTypes'
    BY <1>0, <1>7, <2>1, <2>2 DEF DrainOther, CoordTypes, ProcTypes
  <2>4. ThreadTypes' /\ Held'
    BY <1>0, <1>7 DEF DrainOther, ThreadTypes, threadVars, Held, HoldsGroup
  <2> QED BY <2>3, <2>4 DEF TypeInv, TypeOK
<1>8. CASE DrainTimedOut(w)
  <2>1. grp[w] \in Groups /\ received[w] \in 0..Size[grp[w]]
    BY <1>0, <1>8 DEF DrainTimedOut, Held, HoldsGroup, ThreadTypes, Groups
  <2>2. SkippedTeardowns(w) \o Sentinels(grp[w], received[w], "timedout", w) \in Seq(Messages)
    BY <2>1, SkippedTeardownsTyped, SentinelsAreMessages, ConcatProperties DEF Outcomes
  <2>3. rx' \in Seq(Messages)
    BY Zenon, <1>0, <1>8, <2>2, SendTyped DEF DrainTimedOut
  <2>4. CoordTypes'
    BY <1>0, <1>8, <2>3 DEF DrainTimedOut, CoordTypes
  <2>5. ThreadTypes' /\ ProcTypes'
    BY <1>0, <1>8 DEF DrainTimedOut, Killed, Gone, ThreadTypes, ProcTypes
  <2>6. Held'
    BY <1>0, <1>8 DEF DrainTimedOut, Killed, Gone, ThreadTypes, ProcTypes, Held, HoldsGroup
  <2> QED BY <2>4, <2>5, <2>6 DEF TypeInv, TypeOK
<1>9. CASE DrainDisconnected(w)
  <2>1. grp[w] \in Groups /\ received[w] \in 0..Size[grp[w]]
    BY <1>0, <1>9 DEF DrainDisconnected, Held, HoldsGroup, ThreadTypes, Groups
  <2>2. SkippedTeardowns(w) \o Sentinels(grp[w], received[w], "crashed", w) \in Seq(Messages)
    BY <2>1, SkippedTeardownsTyped, SentinelsAreMessages, ConcatProperties DEF Outcomes
  <2>3. rx' \in Seq(Messages)
    BY Zenon, <1>0, <1>9, <2>2, SendTyped DEF DrainDisconnected
  <2>4. CoordTypes'
    BY <1>0, <1>9, <2>3 DEF DrainDisconnected, CoordTypes
  <2>5. ProcTypes'
    BY <1>0, <1>9, UnchangedTypes DEF DrainDisconnected
  <2>6. ThreadTypes' /\ Held'
    BY <1>0, <1>9 DEF DrainDisconnected, ThreadTypes, Held, HoldsGroup, procVars
  <2> QED BY <2>4, <2>5, <2>6 DEF TypeInv, TypeOK
<1>10. CASE TailLine(w)
  <2>1. lines[w] \in Seq(Lines) /\ Tail(lines[w]) \in Seq(Lines)
    BY <1>0, <1>10 DEF TailLine, ProcTypes
  <2>2. rx' \in Seq(Messages)
    <3>1. CASE tailRead[w] + 1 > MaxTailLines
      BY <1>0, <1>10, <3>1 DEF TailLine, CoordTypes
    <3>2. CASE ~(tailRead[w] + 1 > MaxTailLines)
      BY Zenon, <1>0, <1>10, <3>2, SendTyped, ForwardedTyped DEF TailLine
    <3> QED BY <3>1, <3>2
  <2>3. CoordTypes' /\ ProcTypes'
    BY <1>0, <1>10, <2>1, <2>2 DEF TailLine, CoordTypes, ProcTypes
  <2>4. ThreadTypes'
    <3>1. CASE tailRead[w] + 1 > MaxTailLines
      BY Zenon, <1>0, <1>10, <3>1 DEF TailLine, ThreadTypes
    <3>2. CASE ~(tailRead[w] + 1 > MaxTailLines)
      <4>1. tailRead[w] + 1 \in 0..MaxTailLines
        BY <1>0, <3>2 DEF ThreadTypes
      <4> QED BY Zenon, <1>0, <1>10, <3>2, <4>1 DEF TailLine, ThreadTypes
    <3> QED BY <3>1, <3>2
  <2>5. Held'
    BY <1>0, <1>10 DEF TailLine, ThreadTypes, Held, HoldsGroup
  <2> QED BY <2>3, <2>4, <2>5 DEF TypeInv, TypeOK
<1> QED
  BY <1>1, <1>2, <1>3, <1>4, <1>5, <1>6, <1>7, <1>8, <1>9, <1>10 DEF ThreadStep, Watchdog

\* The steps of a subprocess keep the types.
LEMMA ProcessTyped ==
  ASSUME TypeInv, NEW w \in Workers,
         \/ ProcessStep(w) \/ BeginDiagnostic(w) \/ PrintLine(w) \/ PrintBrokenPipe(w)
         \/ Misbehave(w)
  PROVE  TypeInv'
<1>0. CoordTypes /\ ThreadTypes /\ ProcTypes /\ Held
  BY DEF TypeInv, TypeOK
<1> USE PoolAssumption
<1>1. CoordTypes' /\ ThreadTypes'
  BY <1>0, UnchangedTypes
  DEF ProcessStep, ReadTask, RunItem, EndTask, StdinEof, Exit, WriteDiagnostic, BrokenPipe,
      BeginDiagnostic, PrintLine, PrintBrokenPipe, Misbehave, Crash, TaskDies, Wedge
<1>2. SUFFICES ProcTypes' /\ Held'
  BY <1>1 DEF TypeInv, TypeOK
<1>3. CASE ReadTask(w)
  <2>1. ProcTypes'
    BY <1>0, <1>3 DEF ReadTask, ProcTypes
  <2>2. task[w] \in Groups
    BY <1>0, <1>3 DEF ReadTask, ProcTypes, Groups
  <2>3. /\ UNCHANGED <<pc, grp, received>>
        /\ proc' = [proc EXCEPT ![w] = "running"] /\ ptask' = [ptask EXCEPT ![w] = task[w]]
    BY Zenon, <1>3 DEF ReadTask, threadVars
  <2>4. Held'
    BY <1>0, <2>2, <2>3 DEF ProcTypes, Held, HoldsGroup
  <2> QED BY <2>1, <2>4
<1>4. CASE RunItem(w)
  <2>1. <<ptask[w], ppos[w] + 1>> \in Items
    <3>1. ptask[w] \in Groups /\ ppos[w] < Size[ptask[w]]
      BY <1>0, <1>4 DEF RunItem, Held
    <3>2. ppos[w] + 1 \in 1..Size[ptask[w]]
      BY <1>0, <3>1 DEF ProcTypes, Groups
    <3> QED BY Zenon, <3>1, <3>2, ItemsMember
  <2>2. Answers(w) \subseteq Lines
    BY <2>1 DEF Answers, Lines, LineKinds, Line, Outcomes
  <2>3. PICK line \in Lines : Write(w, line)
    BY <1>4, <2>2 DEF RunItem
  <2>4. lines' \in [Workers -> Seq(Lines)]
    BY <1>0, <2>3 DEF Write, ProcTypes
  <2>5. ppos' \in [Workers -> Nat]
    BY <1>0, <1>4 DEF RunItem, ProcTypes
  <2>6. ProcTypes'
    BY <1>0, <1>4, <2>4, <2>5 DEF RunItem, ProcTypes
  <2> QED BY <1>0, <1>4, <2>6 DEF RunItem, Held, HoldsGroup, threadVars
<1>5. CASE EndTask(w) \/ StdinEof(w) \/ Exit(w) \/ BrokenPipe(w) \/ PrintBrokenPipe(w) \/ Misbehave(w)
  <2>1. /\ UNCHANGED <<threadVars, task, ptask, ppos, writing, emitted, lines>>
        /\ \E p \in {"idle", "ending", "exited", "dead", "wedged"} :
             proc' = [proc EXCEPT ![w] = p]
    BY Zenon, <1>5 DEF EndTask, StdinEof, Exit, BrokenPipe, PrintBrokenPipe, Misbehave, Crash, TaskDies, Wedge
  <2> QED BY <1>0, <2>1 DEF ProcTypes, Held, HoldsGroup, threadVars
<1>6. CASE WriteDiagnostic(w)
  <2>1. Line("diagnostic", NoItem, "passed") \in Lines
    BY DEF Line, Lines, LineKinds, Outcomes
  <2>2. lines' \in [Workers -> Seq(Lines)]
    BY <1>0, <1>6, <2>1 DEF WriteDiagnostic, Write, ProcTypes
  <2>3. emitted' \in [Workers -> Nat]
    BY <1>0, <1>6 DEF WriteDiagnostic, ProcTypes
  <2> QED BY Zenon, <1>0, <1>6, <2>2, <2>3 DEF WriteDiagnostic, ProcTypes, Held, HoldsGroup, threadVars
<1>7. CASE BeginDiagnostic(w)
  BY <1>0, <1>7 DEF BeginDiagnostic, ProcTypes, Held, HoldsGroup, threadVars
<1>8. CASE PrintLine(w)
  <2>1. \A kind \in Prints : Line(kind, NoItem, "passed") \in Lines
    BY DEF Line, Lines, LineKinds, Outcomes
  <2>2. lines' \in [Workers -> Seq(Lines)]
    BY <1>0, <1>8, <2>1 DEF PrintLine, Write, ProcTypes
  <2> QED BY Zenon, <1>0, <1>8, <2>2 DEF PrintLine, ProcTypes, Held, HoldsGroup, threadVars
<1> QED BY <1>3, <1>4, <1>5, <1>6, <1>7, <1>8 DEF ProcessStep

\* Every step keeps the types.
LEMMA NextTyped == TypeInv /\ [Next]_vars => TypeInv'
<1> SUFFICES ASSUME TypeInv, [Next]_vars PROVE TypeInv'
  OBVIOUS
<1>1. CASE Coordinator
  BY <1>1, CoordinatorTyped
<1>2. CASE \E w \in Workers :
             \/ ThreadStep(w) \/ Watchdog(w)
             \/ ProcessStep(w) \/ BeginDiagnostic(w) \/ PrintLine(w) \/ PrintBrokenPipe(w)
             \/ Misbehave(w)
  BY <1>2, ThreadTyped, ProcessTyped
<1>3. CASE UNCHANGED vars
  BY <1>3, UnchangedTypes DEF vars, TypeInv, TypeOK
<1> QED BY <1>1, <1>2, <1>3 DEF Next, Finished

\* Type correctness of the parallel phase: the states of run_phase_parallel and
\* run_worker_loop and the contents of every pipe and channel, for any number
\* of workers, groups and items and any mix of faults.
THEOREM TypeCorrect == Spec => []TypeOK
<1>1. Spec => []TypeInv
  BY InitTyped, NextTyped, PTL DEF Spec
<1>2. TypeInv => TypeOK
  BY DEF TypeInv
<1> QED BY <1>1, <1>2, PTL
=============================================================================
