------------------------- MODULE WorkerPoolComplete -------------------------
(* No test is forgotten. *)
EXTENDS WorkerPoolOnce

\* The time a leaf without a prover of its own may take.
USE SMTT(60), ZenonT(20), SMTT(61)

-----------------------------------------------------------------------------
\* Nothing is forgotten: a popped item is owed or settled, and a phase that was
\* not stopped leaves its consumer loop only when no item is owed.
Unforgotten == \A i \in Items : i[1] < next => Settled(i) \/ \E w \in Workers : Owed(w, i)
AllParsed == \A w \in Workers : \A n \in 1..Len(lines[w]) : lines[w][n].kind # "garbled"
Conserved ==
  /\ coord = "recv" => ~interrupted /\ Unforgotten
  /\ coord # "recv" /\ ~interrupted =>
       /\ \A w \in Workers : pc[w] = "done"
       /\ \A i \in Items : i[1] < next => reports[i] # <<>>
  /\ coord \in {"join", "done"} /\ ~interrupted => next = NumGroups + 1
  /\ AllParsed

-----------------------------------------------------------------------------
(* Nothing is forgotten. *)

\* When every result line parses, no line of a pipe is garbled.
LEMMA ParsedStep ==
  ASSUME "garble" \notin Faults, TypeInv, AllParsed, [Next]_vars
  PROVE  AllParsed'
<1>0. ProcTypes
  BY DEF TypeInv, TypeOK
<1>1. CASE UNCHANGED lines
  BY <1>1 DEF AllParsed
<1>2. ASSUME NEW w \in Workers, lines[w] # <<>>, lines' = [lines EXCEPT ![w] = Tail(@)]
      PROVE  AllParsed'
  <2>1. lines[w] \in Seq(Lines) /\ lines'[w] = Tail(lines[w])
    BY <1>0, <1>2 DEF ProcTypes
  <2>2. \A v \in Workers : v # w => lines'[v] = lines[v]
    BY <1>0, <1>2 DEF ProcTypes
  <2>3. \A n \in 1..Len(lines'[w]) : lines'[w][n].kind # "garbled"
    BY <1>2, <2>1, TailLines DEF AllParsed
  <2> QED BY <2>2, <2>3 DEF AllParsed
<1>3. ASSUME NEW w \in Workers, NEW x \in Lines, x.kind # "garbled", Write(w, x)
      PROVE  AllParsed'
  <2>1. lines[w] \in Seq(Lines) /\ lines'[w] = Append(lines[w], x)
    BY <1>0, <1>3 DEF ProcTypes, Write
  <2>2. \A v \in Workers : v # w => lines'[v] = lines[v]
    BY <1>0, <1>3 DEF ProcTypes, Write
  <2>3. \A n \in 1..Len(lines'[w]) : lines'[w][n].kind # "garbled"
    BY <1>3, <2>1, AppendLines DEF AllParsed
  <2> QED BY <2>2, <2>3 DEF AllParsed
<1>4. ASSUME NEW w \in Workers, DrainAnswer(w) \/ DrainOther(w) \/ TailLine(w) PROVE AllParsed'
  BY <1>2, <1>4 DEF DrainAnswer, DrainOther, TailLine
<1>5. ASSUME NEW w \in Workers, WriteDiagnostic(w) \/ PrintLine(w) PROVE AllParsed'
  <2>1. \A kind \in {"diagnostic", "noise", "trace"} :
          LET x == Line(kind, NoItem, "passed") IN x \in Lines /\ x.kind # "garbled"
    BY DEF Line, Lines, LineKinds, Outcomes
  <2>2. \E kind \in {"diagnostic", "noise", "trace"} : Write(w, Line(kind, NoItem, "passed"))
    BY <1>5, PoolAssumption DEF WriteDiagnostic, PrintLine
  <2> QED BY <1>3, <2>1, <2>2
<1>6. ASSUME NEW w \in Workers, RunItem(w) PROVE AllParsed'
  <2>1. <<ptask[w], ppos[w] + 1>> \in Items
    BY <1>0, <1>6, ItemsMember, PoolAssumption DEF RunItem, TypeInv, Held, ProcTypes, Groups
  <2>2. Answers(w) \subseteq Lines
    BY <2>1, PoolAssumption DEF Answers, Lines, LineKinds, Line, Outcomes
  <2>3. \A x \in Answers(w) : x.kind # "garbled"
    <3>1. \A kind, i, o : Line(kind, i, o).kind = kind
      BY DEF Line
    <3> QED BY <3>1 DEF Answers
  <2> QED BY <1>3, <1>6, <2>2, <2>3 DEF RunItem
<1>7. CASE Coordinator \/ Finished \/ UNCHANGED vars
  BY <1>1, <1>7, CoordinatorLeaves DEF Finished, vars, procVars
<1>8. ASSUME NEW w \in Workers, WorkerStep(w) PROVE AllParsed'
  <2>1. CASE \/ DrainAnswer(w) \/ DrainOther(w) \/ TailLine(w) \/ WriteDiagnostic(w)
             \/ PrintLine(w) \/ RunItem(w)
    BY <1>4, <1>5, <1>6, <2>1
  <2>2. CASE ~(\/ DrainAnswer(w) \/ DrainOther(w) \/ TailLine(w) \/ WriteDiagnostic(w)
               \/ PrintLine(w) \/ RunItem(w))
    <3>1. UNCHANGED lines
      BY Zenon, <1>8, <2>2
      DEF WorkerStep, ThreadStep, Watchdog, SpawnWorker, SpawnFails, PopGroup, LeaveLoop,
          SendTask, SendTaskFails, DrainDisconnected, TailDisconnected, ReapChild,
          DrainTimedOut, TailTimedOut, ProcessStep, ReadTask, EndTask, StdinEof, Exit,
          BrokenPipe, BeginDiagnostic, PrintBrokenPipe, Misbehave, Crash, TaskDies, Wedge,
          procVars
    <3> QED BY <1>1, <3>1
  <2> QED BY <2>1, <2>2
<1> QED BY <1>7, <1>8 DEF Next, WorkerStep

\* While the consumer loop runs, what is sent is settled and stays settled.
LEMMA SendKeeps ==
  ASSUME TypeInv, coord = "recv", NEW msgs \in Seq(Messages), Send(msgs), UNCHANGED reports,
         NEW i, Settled(i) \/ InChannel(msgs, i)
  PROVE  Settled(i)'
<1>1. rx \in Seq(Messages) /\ rx' = rx \o msgs
  BY DEF TypeInv, TypeOK, CoordTypes, Send
<1> QED BY <1>1, ConcatChannel DEF Settled

\* A thread settles an item before it stops owing it.
LEMMA ThreadKeeps ==
  ASSUME TypeInv, PipeInv, AllParsed, Unforgotten, coord = "recv",
         NEW w \in Workers, ThreadStep(w) \/ Watchdog(w)
  PROVE  Unforgotten'
<1>0. CoordTypes /\ ThreadTypes /\ ProcTypes /\ Held
  BY DEF TypeInv, TypeOK
<1>a. ASSUME HoldsGroup(w)
      PROVE  /\ grp[w] \in Groups /\ received[w] \in 0..Size[grp[w]] /\ received[w] \in Nat
             /\ Size[grp[w]] \in Nat
             /\ \A i \in Items : Owed(w, i) =>
                  \E k \in (received[w] + 1)..Size[grp[w]] : i = <<grp[w], k>>
  <2>1. grp[w] \in Groups /\ received[w] \in 0..Size[grp[w]] /\ Size[grp[w]] \in Nat
    BY <1>0, <1>a, PoolAssumption DEF Held, ThreadTypes, Groups
  <2>2. ASSUME NEW i \in Items, Owed(w, i)
        PROVE  \E k \in (received[w] + 1)..Size[grp[w]] : i = <<grp[w], k>>
    <3>0. PICK g \in Groups : \E k \in 1..Size[g] : i = <<g, k>>
      BY ItemsMember
    <3>1. PICK k \in 1..Size[g] : i = <<g, k>>
      BY <3>0
    <3>2. g = grp[w] /\ k > received[w]
      BY <2>2, <3>1 DEF Owed
    <3> QED BY <2>1, <3>1, <3>2
  <2> QED BY <2>1, <2>2
<1>b. ASSUME UNCHANGED next, \A i \in Items : Settled(i) => Settled(i)',
             \A i \in Items, v \in Workers : Owed(v, i) => Owed(v, i)' \/ Settled(i)'
      PROVE  Unforgotten'
  BY <1>b DEF Unforgotten
<1>1. CASE PopGroup(w)
  <2>1. /\ UNCHANGED <<rx, reports>> /\ next' = next + 1 /\ next \in Nat
        /\ pc'[w] = "send" /\ grp'[w] = next /\ received'[w] = 0
    BY <1>0, <1>1 DEF PopGroup, CoordTypes, ThreadTypes
  <2>2. \A i \in Items, v \in Workers : Owed(v, i) => Owed(v, i)'
    BY <1>0, <1>1 DEF PopGroup, Owed, HoldsGroup, ThreadTypes
  <2>3. \A i \in Items : Settled(i) => Settled(i)'
    BY <2>1 DEF Settled
  <2>4. \A i \in Items : i[1] \in Nat /\ i[2] > 0
    BY ItemsMember DEF Groups
  <2>5. \A i \in Items : i[1] = next => Owed(w, i)'
    BY <2>1, <2>4 DEF Owed, HoldsGroup
  <2> QED BY <2>1, <2>2, <2>3, <2>4, <2>5 DEF Unforgotten
<1>2. CASE SendTask(w) \/ SpawnWorker(w) \/ SpawnFails(w) \/ LeaveLoop(w) \/ TailTimedOut(w)
           \/ TailDisconnected(w) \/ ReapChild(w)
  <2>1. /\ UNCHANGED <<next, rx, reports>>
        /\ \A i \in Items, v \in Workers : Owed(v, i) => Owed(v, i)'
    BY <1>0, <1>2
    DEF SendTask, SpawnWorker, SpawnFails, LeaveLoop, TailTimedOut, TailDisconnected, ReapChild,
        coordVars, Owed, HoldsGroup, ThreadTypes
  <2>2. \A i \in Items : Settled(i) => Settled(i)'
    BY <2>1 DEF Settled
  <2> QED BY <1>b, <2>1, <2>2
<1>3. CASE SendTaskFails(w)
  <2> DEFINE S == Sentinels(grp[w], 0, "crashed", w)
  <2>1. HoldsGroup(w) /\ received[w] = 0
    BY <1>3 DEF SendTaskFails, HoldsGroup, PipeInv, NoneStale
  <2>2. grp[w] \in Groups /\ 0 \in 0..Size[grp[w]] /\ "crashed" \in Outcomes
    BY <1>a, <2>1 DEF Outcomes
  <2>3. /\ S \in Seq(Messages)
        /\ \A i : (\E k \in 1..Size[grp[w]] : i = <<grp[w], k>>) => InChannel(S, i)
    BY <2>2, SentinelsAreMessages, SentinelsChannel
  <2>4. /\ Send(S) /\ UNCHANGED <<next, reports, grp, received>>
        /\ \A v \in Workers : v # w => pc'[v] = pc[v]
    BY <1>0, <1>3 DEF SendTaskFails, ThreadTypes
  <2> HIDE DEF S
  <2>5. \A i \in Items : Owed(w, i) => InChannel(S, i)
    BY <1>a, <2>1, <2>3
  <2>6. \A i : Settled(i) \/ InChannel(S, i) => Settled(i)'
    BY <2>3, <2>4, SendKeeps
  <2>7. \A i \in Items, v \in Workers : Owed(v, i) /\ v # w => Owed(v, i)'
    BY <2>4 DEF Owed, HoldsGroup
  <2> QED BY <1>b, <2>4, <2>5, <2>6, <2>7
<1>4. ASSUME NEW o \in Outcomes, pc[w] = "drain",
             \A v \in Workers : v # w => pc'[v] = pc[v],
             UNCHANGED <<next, reports, grp, received>>,
             Send(SkippedTeardowns(w) \o Sentinels(grp[w], received[w], o, w))
      PROVE  Unforgotten'
  <2> DEFINE S == SkippedTeardowns(w) \o Sentinels(grp[w], received[w], o, w)
  <2>1. HoldsGroup(w)
    BY <1>4 DEF HoldsGroup
  <2>2. grp[w] \in Groups /\ received[w] \in 0..Size[grp[w]]
    BY <1>a, <2>1
  <2>3. /\ S \in Seq(Messages)
        /\ \A i : (\E k \in (received[w] + 1)..Size[grp[w]] : i = <<grp[w], k>>) => InChannel(S, i)
    BY <2>2, LossChannel
  <2>4. Send(S)
    BY <1>4
  <2> HIDE DEF S
  <2>5. \A i \in Items : Owed(w, i) => InChannel(S, i)
    BY <1>a, <2>1, <2>3
  <2>6. \A i : Settled(i) \/ InChannel(S, i) => Settled(i)'
    BY <1>4, <2>3, <2>4, SendKeeps
  <2>7. \A i \in Items, v \in Workers : Owed(v, i) /\ v # w => Owed(v, i)'
    BY <1>4 DEF Owed, HoldsGroup
  <2> QED BY <1>4, <1>b, <2>5, <2>6, <2>7
<1>5. CASE DrainTimedOut(w)
  <2>1. \A v \in Workers : v # w => pc'[v] = pc[v]
    BY <1>0, <1>5 DEF DrainTimedOut, ThreadTypes
  <2>2. "timedout" \in Outcomes
    BY DEF Outcomes
  <2> QED BY <1>4, <1>5, <2>1, <2>2 DEF DrainTimedOut
<1>6. CASE DrainDisconnected(w)
  <2>1. \A v \in Workers : v # w => pc'[v] = pc[v]
    BY <1>0, <1>6 DEF DrainDisconnected, ThreadTypes
  <2>2. "crashed" \in Outcomes
    BY DEF Outcomes
  <2> QED BY <1>4, <1>6, <2>1, <2>2 DEF DrainDisconnected
<1>7. CASE DrainAnswer(w)
  <2> DEFINE line == Head(lines[w])
             msg == ResultMessage(line.item, line.outcome, w)
             done == <<grp[w], received[w] + 1>>
  <2>1. line.item = done
    BY <1>7, DrainAnswerPipe DEF PipeInv
  <2>2. line \in Lines /\ line.kind = "result"
    <3>1. lines[w] \in Seq(Lines) /\ lines[w] # <<>> /\ IsAnswer(line)
      BY <1>0, <1>7 DEF DrainAnswer, ProcTypes
    <3>2. line = lines[w][1] /\ 1 \in 1..Len(lines[w]) /\ line \in Lines
      BY <3>1
    <3>3. line.kind # "garbled"
      BY <3>2 DEF AllParsed
    <3> QED BY <3>1, <3>2, <3>3 DEF IsAnswer
  <2>3. msg \in Messages /\ msg.kind = "result" /\ msg.item = line.item
    <3>1. line.item \in Items \cup {NoItem} /\ line.outcome \in Outcomes
      BY <2>2 DEF Lines
    <3> HIDE DEF line
    <3> QED BY <3>1 DEF Messages, ResultMessage
  <2>4. Send(<<msg>>) /\ UNCHANGED <<next, reports, grp>>
    BY Zenon, <1>7, <2>2 DEF DrainAnswer
  <2>5. /\ HoldsGroup(w) /\ received'[w] = received[w] + 1
        /\ pc'[w] = IF received[w] + 1 >= Size[grp[w]] THEN "loop" ELSE "drain"
        /\ \A v \in Workers : v # w => pc'[v] = pc[v] /\ received'[v] = received[v]
    BY <1>0, <1>7 DEF DrainAnswer, HoldsGroup, ThreadTypes
  <2> HIDE DEF msg, line
  <2>6. <<msg>> \in Seq(Messages) /\ InChannel(<<msg>>, done)
    BY <2>1, <2>3 DEF InChannel
  <2>7. \A i : Settled(i) \/ InChannel(<<msg>>, i) => Settled(i)'
    BY Zenon, <2>4, <2>6, SendKeeps
  <2>8. ASSUME NEW i \in Items, Owed(w, i) PROVE Owed(w, i)' \/ i = done
    <3>1. PICK k \in (received[w] + 1)..Size[grp[w]] : i = <<grp[w], k>>
      BY <1>a, <2>5, <2>8
    <3>2. CASE k = received[w] + 1
      BY <3>1, <3>2
    <3>3. CASE k # received[w] + 1
      <4>1. k > received[w] + 1 /\ ~(received[w] + 1 >= Size[grp[w]])
        BY <1>a, <2>5, <3>3
      <4> QED BY <2>4, <2>5, <3>1, <4>1 DEF Owed, HoldsGroup
    <3> QED BY <3>2, <3>3
  <2>9. \A i \in Items, v \in Workers : Owed(v, i) /\ v # w => Owed(v, i)'
    BY <2>4, <2>5 DEF Owed, HoldsGroup
  <2> HIDE DEF done
  <2>10. \A i : i = done => Settled(i)'
    BY <2>6, <2>7
  <2> QED BY <1>b, <2>4, <2>7, <2>8, <2>9, <2>10
<1>8. CASE DrainOther(w) \/ TailLine(w)
  <2>1. /\ UNCHANGED <<next, reports>>
        /\ \A i \in Items, v \in Workers : Owed(v, i) => Owed(v, i)'
    BY <1>0, <1>8 DEF DrainOther, TailLine, threadVars, Owed, HoldsGroup, ThreadTypes
  <2>2. \/ UNCHANGED rx
        \/ Send(<<DiagMessage(w)>>)
    <3>1. Send(<<>>) => UNCHANGED rx
      BY <1>0, ConcatProperties DEF Send, CoordTypes
    <3> QED BY <1>8, <3>1 DEF DrainOther, TailLine
  <2>3. <<DiagMessage(w)>> \in Seq(Messages)
    BY DEF DiagMessage, Messages, Outcomes
  <2>4. \A i : Settled(i) => Settled(i)'
    <3>1. CASE UNCHANGED rx
      BY <2>1, <3>1 DEF Settled
    <3>2. CASE Send(<<DiagMessage(w)>>)
      BY Zenon, <2>1, <2>3, <3>2, SendKeeps
    <3> QED BY <2>2, <3>1, <3>2
  <2> QED BY <1>b, <2>1, <2>4
<1> QED
  BY <1>1, <1>2, <1>3, <1>5, <1>6, <1>7, <1>8 DEF ThreadStep, Watchdog

\* The steps of the coordinator forget nothing.
LEMMA CoordinatorKeeps ==
  ASSUME TypeInv, OnceInv, Conserved, Coordinator
  PROVE  /\ coord' = "recv" => ~interrupted' /\ Unforgotten'
         /\ coord' # "recv" /\ ~interrupted' =>
              /\ \A w \in Workers : pc'[w] = "done"
              /\ \A i \in Items : i[1] < next' => reports'[i] # <<>>
         /\ coord' \in {"join", "done"} /\ ~interrupted' => next' = NumGroups + 1
<1>0. CoordTypes
  BY DEF TypeInv, TypeOK
<1>1. /\ UNCHANGED pc /\ \A i, v : Owed(v, i)' <=> Owed(v, i)
  BY CoordinatorLeaves DEF threadVars, Owed, HoldsGroup
<1>2. CASE RecvDiagnostic
  <2>1. /\ rx \in Seq(Messages) /\ rx # <<>> /\ rx' = Tail(rx) /\ Head(rx).kind # "result"
        /\ UNCHANGED <<coord, next, reports, interrupted>> /\ coord = "recv"
    BY <1>0, <1>2 DEF RecvDiagnostic, CoordTypes
  <2>2. \A i : InChannel(rx, i) => InChannel(rx', i)
    BY <2>1, TailChannel
  <2>3. \A i \in Items : Settled(i) => Settled(i)'
    BY <2>1, <2>2 DEF Settled
  <2> QED BY <1>1, <2>1, <2>3 DEF Conserved, Unforgotten
<1>3. CASE RecvResult
  <2> DEFINE h == Head(rx)
  <2>1. /\ rx \in Seq(Messages) /\ rx # <<>> /\ coord = "recv" /\ h.kind = "result"
        /\ UNCHANGED next
        /\ reports' = IF h.item \in Items THEN [reports EXCEPT ![h.item] = Append(@, h.outcome)]
                                          ELSE reports
        /\ \/ rx' = Tail(rx) /\ coord' = "recv" /\ ~interrupted'
           \/ coord' = "stopping" /\ interrupted'
    BY Zenon, <1>0, <1>3 DEF RecvResult, CoordTypes
  <2>2. \A i : InChannel(rx, i) => InChannel(Tail(rx), i) \/ h.item = i
    BY <2>1, TailChannel
  <2>3. h \in Messages
    BY <2>1
  <2>4. ASSUME NEW i \in Items, reports[i] # <<>> \/ i = h.item PROVE reports'[i] # <<>>
    <3>1. h.outcome \in Outcomes /\ reports[i] \in Seq(Outcomes)
      BY <1>0, <2>3 DEF Messages, CoordTypes
    <3>2. CASE i = h.item
      <4>1. reports'[i] = Append(reports[i], h.outcome)
        BY <1>0, <2>1, <3>2 DEF CoordTypes
      <4> QED BY <3>1, <4>1, AppendProperties
    <3>3. CASE i # h.item
      BY <1>0, <2>1, <2>4, <3>3 DEF CoordTypes
    <3> QED BY <3>2, <3>3
  <2> HIDE DEF h
  <2>5. rx' = Tail(rx) => \A i \in Items : Settled(i) => Settled(i)'
    BY <2>2, <2>4 DEF Settled
  <2> QED BY <1>1, <2>1, <2>5 DEF Conserved, Unforgotten
<1>4. CASE RecvClosed
  <2>1. /\ \A w \in Workers : pc[w] = "done"
        /\ rx = <<>> /\ coord = "recv" /\ coord' = "stopping"
        /\ UNCHANGED <<next, reports, interrupted>>
    BY <1>4 DEF RecvClosed
  <2>2. \A i \in Items : \A w \in Workers : ~Owed(w, i)
    BY <2>1 DEF Owed, HoldsGroup
  <2>3. \A i \in Items : i[1] < next => reports[i] # <<>>
    BY <2>1, <2>2 DEF Conserved, Unforgotten, Settled, InChannel
  <2> QED BY <1>1, <2>1, <2>3
<1>5. CASE StopPhase
  <2>1. coord = "stopping" /\ coord' = "join" /\ UNCHANGED interrupted
    BY <1>5 DEF StopPhase
  <2>2. CASE interrupted
    BY <2>1, <2>2
  <2>3. CASE ~interrupted
    <3>1. next' = NumGroups + 1
      BY <1>5, <2>3 DEF StopPhase
    <3>2. ASSUME NEW i \in Items PROVE reports'[i] # <<>>
      <4>1. i[1] \in 1..NumGroups /\ next \in 1..(NumGroups + 1) /\ reports[i] \in Seq(Outcomes)
        BY <1>0, ItemsMember DEF CoordTypes, Groups
      <4>2. CASE i[1] < next
        <5>1. reports[i] # <<>> /\ i \notin Leftover
          BY <2>1, <2>3, <4>1, <4>2, PoolAssumption DEF Conserved, Leftover
        <5> QED BY <1>5, <5>1 DEF StopPhase
      <4>3. CASE ~(i[1] < next)
        <5>1. i \in Leftover
          BY <2>3, <4>1, <4>3, PoolAssumption DEF Leftover
        <5>2. reports'[i] = Append(reports[i], "crashed")
          BY <1>5, <5>1 DEF StopPhase
        <5> QED BY <4>1, <5>2, AppendProperties DEF Outcomes
      <4> QED BY <4>2, <4>3
    <3> QED BY <1>1, <2>1, <2>3, <3>1, <3>2 DEF Conserved
  <2> QED BY <2>2, <2>3
<1>6. CASE JoinThreads
  BY <1>1, <1>6 DEF JoinThreads, Conserved
<1> QED BY <1>2, <1>3, <1>4, <1>5, <1>6 DEF Coordinator

\* Every step keeps the second invariant.
LEMMA NextConserved ==
  ASSUME "garble" \notin Faults, TypeInv, OnceInv, Conserved, [Next]_vars
  PROVE  Conserved'
<1>0. ThreadTypes
  BY DEF TypeInv, TypeOK
<1>1. AllParsed'
  BY ParsedStep DEF Conserved
<1>2. CASE Coordinator
  BY <1>1, <1>2, CoordinatorKeeps DEF Conserved
<1>3. ASSUME NEW w \in Workers, ThreadStep(w) \/ Watchdog(w) PROVE Conserved'
  <2>1. UNCHANGED <<coord, interrupted, reports>>
    BY Zenon, <1>3
    DEF ThreadStep, Watchdog, SpawnWorker, SpawnFails, PopGroup, LeaveLoop, SendTask,
        SendTaskFails, DrainAnswer, DrainOther, DrainDisconnected, TailLine, TailDisconnected,
        ReapChild, DrainTimedOut, TailTimedOut, coordVars
  <2>2. pc[w] # "done"
    BY Zenon, <1>3
    DEF ThreadStep, Watchdog, SpawnWorker, SpawnFails, PopGroup, LeaveLoop, SendTask,
        SendTaskFails, DrainAnswer, DrainOther, DrainDisconnected, TailLine, TailDisconnected,
        ReapChild, DrainTimedOut, TailTimedOut
  <2>3. CASE coord = "recv"
    <3>1. Unforgotten'
      BY <1>3, <2>3, ThreadKeeps DEF OnceInv, Conserved
    <3> QED BY <1>1, <2>1, <2>3, <3>1 DEF Conserved
  <2>4. CASE coord # "recv"
    BY <1>1, <2>1, <2>2, <2>4 DEF Conserved
  <2> QED BY <2>3, <2>4
<1>4. ASSUME UNCHANGED <<coordVars, threadVars>> PROVE Conserved'
  BY <1>1, <1>4
  DEF Conserved, Unforgotten, Settled, Owed, HoldsGroup, coordVars, threadVars
<1> QED BY <1>2, <1>3, <1>4, ProcessLeaves DEF Next, Finished, vars

\* The second invariant holds initially.
LEMMA InitConserved == Init => Conserved
<1> SUFFICES ASSUME Init PROVE Conserved
  OBVIOUS
<1>1. \A i \in Items : ~(i[1] < next)
  BY ItemsMember DEF Init, Groups
<1> QED BY <1>1 DEF Init, Conserved, Unforgotten, AllParsed

\* No test is forgotten, for any number of workers, groups and items: a phase
\* that --maxfail did not stop returns with exactly one outcome per test, also
\* when subprocesses crash, hang, end early or cannot be started, provided that
\* every result line arrives on a line of its own and parses.
THEOREM NoneForgotten ==
  ASSUME "swallow" \notin Faults, "garble" \notin Faults
  PROVE  Spec => []EveryItemReported
<1>1. Init => TypeInv /\ OnceInv /\ Conserved
  BY InitTyped, InitOnce, InitConserved
<1>2. TypeInv /\ OnceInv /\ Conserved /\ [Next]_vars => (TypeInv /\ OnceInv /\ Conserved)'
  BY NextTyped, NextOnce, NextConserved
<1>3. TypeInv /\ OnceInv /\ Conserved => EveryItemReported
  <2> SUFFICES ASSUME TypeInv, OnceInv, Conserved, coord = "done", ~interrupted, NEW i \in Items
               PROVE  Len(reports[i]) = 1
    BY DEF EveryItemReported
  <2>1. i[1] < next
    BY ItemsMember, PoolAssumption DEF Conserved, Groups
  <2>2. reports[i] # <<>> /\ reports[i] \in Seq(Outcomes)
    BY <2>1 DEF Conserved, TypeInv, TypeOK, CoordTypes
  <2>3. Len(reports[i]) <= 1
    BY DEF OnceInv, ReportedAtMostOnce
  <2>4. Len(reports[i]) \in Nat /\ Len(reports[i]) # 0
    BY <2>2, EmptySeq
  <2>5. \A n \in Nat : n <= 1 /\ n # 0 => n = 1
    OBVIOUS
  <2> QED BY <2>3, <2>4, <2>5, Zenon
<1> QED BY <1>1, <1>2, <1>3, PTL DEF Spec
=============================================================================
