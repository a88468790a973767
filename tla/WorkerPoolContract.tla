------------------------- MODULE WorkerPoolContract -------------------------
(* What the parallel phase owes its caller: it stops at the limit of         *)
(* --maxfail, it implements the contract of a phase, and it leaves neither a *)
(* subprocess nor anything in flight behind.                                 *)
EXTENDS WorkerPoolComplete, FiniteSetTheorems

\* The time a leaf without a prover of its own may take.
USE SMTT(60), ZenonT(20), SMTT(61)

-----------------------------------------------------------------------------
(* --maxfail. *)

\* The consumer loop runs only as long as the accumulator did not say stop.
StopInv == (coord = "recv" => ~interrupted) /\ StopsAtMaxFail

\* Only the consumer loop and the leftover drain report, only the former counts.
LEMMA WorkersReportNothing ==
  ASSUME [Next]_vars, ~Coordinator
  PROVE  UNCHANGED <<coord, fails, interrupted, reports>>
<1>1. ASSUME NEW w \in Workers, ThreadStep(w) \/ Watchdog(w)
      PROVE  UNCHANGED <<coord, fails, interrupted, reports>>
  BY Zenon, <1>1
  DEF ThreadStep, Watchdog, SpawnWorker, SpawnFails, PopGroup, LeaveLoop, SendTask,
      SendTaskFails, DrainAnswer, DrainOther, DrainDisconnected, TailLine, TailDisconnected,
      ReapChild, DrainTimedOut, TailTimedOut, coordVars
<1>2. ASSUME UNCHANGED coordVars PROVE UNCHANGED <<coord, fails, interrupted, reports>>
  BY <1>2 DEF coordVars
<1> QED BY <1>1, <1>2, ProcessLeaves DEF Next, Finished, vars

\* What one result does to the accumulator.
LEMMA AccumulatorStep ==
  ASSUME TypeInv, StopInv, RecvResult
  PROVE  StopInv'
<1>0. fails \in Nat /\ MaxFail \in Nat /\ ~interrupted
  BY PoolAssumption DEF TypeInv, TypeOK, CoordTypes, StopInv, RecvResult
<1> DEFINE known == Head(rx).item \in Items
           count == Recorded(Head(rx).outcome)
           stop == known /\ StopAfter(Head(rx).outcome)
<1>1. /\ fails' = IF known THEN count ELSE fails
      /\ interrupted' = stop
      /\ coord' = IF stop THEN "stopping" ELSE "recv"
  BY Zenon DEF RecvResult
<1>2. /\ count \in {fails, fails + 1}
      /\ StopAfter(Head(rx).outcome) <=> MaxFail > 0 /\ count >= MaxFail
  BY DEF Recorded, StopAfter
<1>a. stop \in BOOLEAN /\ (stop <=> known /\ MaxFail > 0 /\ count >= MaxFail)
  BY <1>2
<1> HIDE DEF known, count, stop
<1>3. CASE MaxFail = 0
  <2>1. ~stop
    BY <1>a, <1>3
  <2> QED BY <1>1, <1>3, <2>1 DEF StopInv, StopsAtMaxFail
<1>4. CASE MaxFail > 0
  <2>1. fails < MaxFail
    BY <1>0, <1>4 DEF StopInv, StopsAtMaxFail
  <2>2. fails' <= MaxFail /\ (stop <=> fails' = MaxFail)
    BY <1>0, <1>1, <1>2, <1>4, <1>a, <2>1
  <2>3. (interrupted' <=> stop) /\ (coord' = "recv" => ~stop)
    BY <1>1, <1>a
  <2> QED BY <2>2, <2>3 DEF StopInv, StopsAtMaxFail
<1> QED BY <1>0, <1>3, <1>4

\* Every step keeps the accumulator and the flag together.
LEMMA NextStops ==
  ASSUME TypeInv, StopInv, [Next]_vars
  PROVE  StopInv'
<1>1. CASE RecvResult
  BY <1>1, AccumulatorStep
<1>2. CASE RecvDiagnostic \/ RecvClosed \/ StopPhase \/ JoinThreads
  BY <1>2 DEF RecvDiagnostic, RecvClosed, StopPhase, JoinThreads, StopInv, StopsAtMaxFail
<1>3. CASE ~Coordinator
  BY <1>3, WorkersReportNothing DEF StopInv, StopsAtMaxFail
<1> QED BY <1>1, <1>2, <1>3 DEF Coordinator

\* The accumulator starts below the limit.
LEMMA InitStops == Init => StopInv
BY PoolAssumption DEF Init, StopInv, StopsAtMaxFail

\* --maxfail stops the phase exactly at its limit, for every limit and
\* whatever the subprocesses do: FailureAccumulator::record never counts past
\* it, and the phase is interrupted if and only if it is reached.
THEOREM StopsAtTheLimit == Spec => []StopsAtMaxFail
<1>1. Init => TypeInv /\ StopInv
  BY InitTyped, InitStops
<1>2. TypeInv /\ StopInv /\ [Next]_vars => (TypeInv /\ StopInv)'
  BY NextTyped, NextStops
<1>3. StopInv => StopsAtMaxFail
  BY DEF StopInv
<1> QED BY <1>1, <1>2, <1>3, PTL DEF Spec

\* After --maxfail broke the consumer loop no step reports an outcome,
\* although workers still run and send: the loop is left for good, and
\* drain_remaining_into_crashed returns early.
THEOREM NothingReportedAfterStop == Spec => NothingAfterStop
<1>1. Init => TypeInv /\ StopInv
  BY InitTyped, InitStops
<1>2. TypeInv /\ StopInv /\ [Next]_vars => (TypeInv /\ StopInv)'
  BY NextTyped, NextStops
<1>3. TypeInv /\ StopInv /\ [Next]_vars => [interrupted => reports' = reports]_vars
  <2> SUFFICES ASSUME TypeInv, StopInv, [Next]_vars, interrupted PROVE reports' = reports
    OBVIOUS
  <2>1. CASE ~Coordinator
    BY <2>1, WorkersReportNothing
  <2>2. CASE RecvDiagnostic \/ RecvClosed \/ JoinThreads
    BY <2>2 DEF RecvDiagnostic, RecvClosed, JoinThreads
  <2>3. CASE RecvResult
    BY <2>3 DEF RecvResult, StopInv
  <2>4. CASE StopPhase
    <3>1. reports' = [i \in Items |-> reports[i]]
      BY <2>4 DEF StopPhase, Leftover
    <3>2. reports \in [Items -> Seq(Outcomes)]
      BY DEF TypeInv, TypeOK, CoordTypes
    <3> QED BY <3>1, <3>2
  <2> QED BY <2>1, <2>2, <2>3, <2>4 DEF Coordinator
<1> QED BY <1>1, <1>2, <1>3, PTL DEF Spec, NothingAfterStop
-----------------------------------------------------------------------------
(* The contract of a phase. *)

\* The verdicts the contract sees, and the hard failures among them.
VerdictOf(i) == IF reports[i] = <<>> THEN "none" ELSE Head(reports[i])
HardItems == {i \in Items : VerdictOf(i) \in {"failed", "crashed", "timedout"}}

\* The accumulator counts the hard failures as long as the consumer loop runs.
CountInv == coord = "recv" => IsFiniteSet(HardItems) /\ fails = Cardinality(HardItems)

\* What a result of item i finds and leaves behind.
LEMMA ResultVerdict ==
  ASSUME TypeInv, OnceInv, RecvResult, NEW i \in Items, NEW o, i = Head(rx).item, o = Head(rx).outcome
  PROVE  /\ o \in Outcomes
         /\ VerdictOf(i) = "none" /\ VerdictOf(i)' = o
         /\ \A j \in Items : j # i => VerdictOf(j)' = VerdictOf(j)
<1>1. /\ rx \in Seq(Messages) /\ rx # <<>> /\ Head(rx).kind = "result"
      /\ reports \in [Items -> Seq(Outcomes)]
  BY DEF TypeInv, TypeOK, CoordTypes, RecvResult
<1>2. Head(rx) \in Messages
  BY <1>1
<1>3. o \in Outcomes
  BY <1>2 DEF Messages
<1>4. InChannel(rx, i)
  BY <1>1, TailChannel
<1>5. reports[i] = <<>>
  BY <1>4 DEF OnceInv, SettledOnce
<1>6. reports' = [reports EXCEPT ![i] = Append(@, o)]
  BY Zenon DEF RecvResult
<1>7. Append(<<>>, o) = <<o>> /\ Head(<<o>>) = o /\ <<o>> # <<>>
  OBVIOUS
<1>8. reports'[i] = <<o>> /\ \A j \in Items : j # i => reports'[j] = reports[j]
  BY <1>1, <1>5, <1>6, <1>7
<1>9. VerdictOf(i) = "none" /\ VerdictOf(i)' = o
  BY <1>5, <1>7, <1>8 DEF VerdictOf
<1>10. \A j \in Items : j # i => VerdictOf(j)' = VerdictOf(j)
  BY <1>8 DEF VerdictOf
<1> QED BY <1>3, <1>9, <1>10

\* A result counts once among the hard failures.
LEMMA ResultCounted ==
  ASSUME TypeInv, OnceInv, CountInv, RecvResult, NEW i \in Items, NEW o,
         i = Head(rx).item, o = Head(rx).outcome
  PROVE  IsFiniteSet(HardItems') /\ fails' = Cardinality(HardItems')
<1>1. IsFiniteSet(HardItems) /\ fails = Cardinality(HardItems)
  BY DEF CountInv, RecvResult
<1>2. /\ o \in Outcomes
      /\ VerdictOf(i) = "none" /\ VerdictOf(i)' = o
      /\ \A j \in Items : j # i => VerdictOf(j)' = VerdictOf(j)
  BY Zenon, ResultVerdict
<1>3. fails' = IF o # "passed" THEN fails + 1 ELSE fails
  BY DEF RecvResult, Recorded, IsHardFailure
<1>4. i \notin HardItems
  BY <1>2 DEF HardItems
<1>5. CASE o = "passed"
  <2>1. HardItems' = HardItems
    BY <1>2, <1>4, <1>5 DEF HardItems
  <2> QED BY <1>1, <1>3, <1>5, <2>1
<1>6. CASE o # "passed"
  <2>1. HardItems' = HardItems \cup {i}
    BY <1>2, <1>4, <1>6 DEF HardItems, Outcomes
  <2>2. IsFiniteSet(HardItems \cup {i}) /\ Cardinality(HardItems \cup {i}) = Cardinality(HardItems) + 1
    BY <1>1, <1>4, FS_AddElement
  <2> QED BY <1>1, <1>3, <1>6, <2>1, <2>2
<1> QED BY <1>5, <1>6

\* Every step keeps the count.
LEMMA NextCounted ==
  ASSUME TypeInv, OnceInv, CountInv, [Next]_vars
  PROVE  CountInv'
<1>1. ASSUME UNCHANGED <<fails, reports>>, coord' = "recv" => coord = "recv" PROVE CountInv'
  <2>1. HardItems' = HardItems
    BY <1>1 DEF HardItems, VerdictOf
  <2> QED BY <1>1, <2>1 DEF CountInv
<1>2. CASE RecvResult
  <2>1. CASE Head(rx).item \in Items
    BY <1>2, <2>1, ResultCounted DEF CountInv
  <2>2. CASE Head(rx).item \notin Items
    BY <1>1, <1>2, <2>2 DEF RecvResult
  <2> QED BY <2>1, <2>2
<1>3. CASE RecvDiagnostic \/ RecvClosed \/ JoinThreads
  BY <1>1, <1>3 DEF RecvDiagnostic, RecvClosed, JoinThreads
<1>4. CASE StopPhase
  BY <1>4 DEF StopPhase, CountInv
<1>5. CASE ~Coordinator
  BY <1>1, <1>5, WorkersReportNothing
<1> QED BY <1>2, <1>3, <1>4, <1>5 DEF Coordinator

ContractInv == TypeInv /\ OnceInv /\ Conserved /\ StopInv /\ CountInv

\* The contract counts as the accumulator does.
LEMMA SameCardinality == \A S : Contract!Cardinality(S) = Cardinality(S)
BY DEF Contract!Cardinality, Cardinality

\* A step of the parallel phase is a step of the contract or changes nothing
\* the contract sees.
LEMMA StepImplements ==
  ASSUME ContractInv, [Next]_vars
  PROVE  [Contract!Next]_(Contract!contractVars)
<1> DEFINE V == [i \in Items |-> VerdictOf(i)]
<1>0. TypeInv /\ OnceInv /\ Conserved /\ StopInv /\ CountInv /\ reports \in [Items -> Seq(Outcomes)]
  BY DEF ContractInv, TypeInv, TypeOK, CoordTypes
<1>1. ASSUME UNCHANGED <<reports, interrupted>>, (coord = "done") <=> (coord' = "done")
      PROVE  UNCHANGED Contract!contractVars
  BY <1>1 DEF Contract!contractVars
<1>2. CASE RecvResult
  <2>1. CASE Head(rx).item \notin Items
    <3>1. interrupted' = FALSE /\ coord = "recv" /\ coord' = "recv" /\ UNCHANGED reports
      BY <1>2, <2>1 DEF RecvResult
    <3>2. interrupted = FALSE
      BY <1>0, <3>1 DEF StopInv, TypeInv, TypeOK, CoordTypes
    <3> QED BY <1>1, <3>1, <3>2
  <2>2. CASE Head(rx).item \in Items
    <3>a. PICK i \in Items : i = Head(rx).item
      BY <2>2
    <3>b. PICK o : o = Head(rx).outcome
      OBVIOUS
    <3>0. i = Head(rx).item /\ o = Head(rx).outcome
      BY <3>a, <3>b
    <3>1. /\ o \in Outcomes
          /\ VerdictOf(i) = "none" /\ VerdictOf(i)' = o
          /\ \A j \in Items : j # i => VerdictOf(j)' = VerdictOf(j)
      BY Zenon, <1>0, <1>2, <3>0, ResultVerdict
    <3>2. fails' = Cardinality(HardItems')
      BY <1>0, <1>2, <3>0, ResultCounted
    <3>3. /\ interrupted' = (MaxFail > 0 /\ fails' >= MaxFail)
          /\ coord = "recv" /\ coord' \in {"recv", "stopping"} /\ ~interrupted
      BY <1>0, <1>2, <2>2 DEF RecvResult, StopAfter, StopInv
    <3>5. Contract!Report(i, o)
      <4>1. V' = [V EXCEPT ![i] = o]
        BY <3>1
      <4>2. Contract!Hard(V') = HardItems'
        BY DEF Contract!Hard, HardItems
      <4>3. V[i] = "none"
        BY <3>1
      <4>4. interrupted' = (MaxFail > 0 /\ Contract!Cardinality(Contract!Hard(V')) >= MaxFail)
        BY <3>2, <3>3, <4>2, SameCardinality
      <4>5. ~(coord = "done") /\ ~(coord' = "done")
        BY <3>3
      <4> QED BY Zenon, <3>3, <4>1, <4>3, <4>4, <4>5 DEF Contract!Report, VerdictOf
    <3>6. o \in Contract!Verdicts \ {"none"}
      BY <3>1 DEF Outcomes, Contract!Verdicts
    <3> QED BY <3>5, <3>6 DEF Contract!Next
  <2> QED BY <2>1, <2>2
<1>3. CASE StopPhase
  <2>1. CASE interrupted
    <3>1. reports' = [j \in Items |-> reports[j]] /\ UNCHANGED interrupted
          /\ coord = "stopping" /\ coord' = "join"
      BY <1>3, <2>1 DEF StopPhase, Leftover
    <3>2. UNCHANGED reports
      BY <1>0, <3>1
    <3> QED BY <1>1, <3>1, <3>2
  <2>2. CASE ~interrupted
    <3>1. /\ coord = "stopping" /\ coord' = "join" /\ UNCHANGED interrupted
          /\ reports' = [j \in Items |-> IF j \in Leftover THEN Append(reports[j], "crashed")
                                                           ELSE reports[j]]
      BY <1>3 DEF StopPhase
    <3>2. ASSUME NEW j \in Items
          PROVE  VerdictOf(j)' = IF VerdictOf(j) = "none" THEN "crashed" ELSE VerdictOf(j)
      <4>1. /\ reports[j] \in Seq(Outcomes) /\ j[1] \in 1..NumGroups
            /\ next \in 1..(NumGroups + 1)
        BY <1>0, ItemsMember DEF Groups, TypeInv, TypeOK, CoordTypes
      <4>2. CASE j[1] < next
        <5>1. reports[j] # <<>> /\ j \notin Leftover
          BY <1>0, <2>2, <3>1, <4>1, <4>2, PoolAssumption DEF Conserved, Leftover
        <5>2. Head(reports[j]) \in Outcomes
          BY <4>1, <5>1
        <5> QED BY <3>1, <5>1, <5>2 DEF VerdictOf, Outcomes
      <4>3. CASE ~(j[1] < next)
        <5>1. j \in Leftover /\ reports[j] = <<>>
          BY <1>0, <2>2, <4>1, <4>3, PoolAssumption DEF Leftover, OnceInv, SettledOnce, Settled
        <5>2. Append(<<>>, "crashed") = <<"crashed">> /\ Head(<<"crashed">>) = "crashed"
              /\ <<"crashed">> # <<>>
          OBVIOUS
        <5>3. reports'[j] = <<"crashed">>
          BY <3>1, <5>1, <5>2
        <5> QED BY <5>1, <5>2, <5>3 DEF VerdictOf
      <4> QED BY <4>2, <4>3
    <3>3. V' = [j \in Items |-> IF V[j] = "none" THEN "crashed" ELSE V[j]]
      BY <3>2
    <3>4. Contract!LoseRest
      BY Zenon, <2>2, <3>1, <3>3 DEF Contract!LoseRest, VerdictOf
    <3> QED BY <3>4 DEF Contract!Next
  <2> QED BY <2>1, <2>2
<1>4. CASE JoinThreads
  <2>1. coord = "join" /\ coord' = "done" /\ UNCHANGED <<reports, interrupted>>
    BY <1>4 DEF JoinThreads
  <2>2. interrupted \/ Contract!Pending = {}
    <3> SUFFICES ASSUME ~interrupted, NEW j \in Items, VerdictOf(j) = "none" PROVE FALSE
      BY DEF Contract!Pending, VerdictOf
    <3>1. j[1] \in 1..NumGroups /\ reports[j] \in Seq(Outcomes)
      BY <1>0, ItemsMember DEF Groups
    <3>2. reports[j] # <<>>
      BY <1>0, <2>1, <3>1, PoolAssumption DEF Conserved
    <3>3. Head(reports[j]) \in Outcomes
      BY <3>1, <3>2
    <3> QED BY <3>2, <3>3 DEF VerdictOf, Outcomes
  <2>3. Contract!End
    BY <2>1, <2>2 DEF Contract!End
  <2> QED BY <2>3 DEF Contract!Next
<1>5. CASE RecvDiagnostic \/ RecvClosed
  BY <1>1, <1>5 DEF RecvDiagnostic, RecvClosed
<1>6. CASE ~Coordinator
  BY <1>1, <1>6, WorkersReportNothing
<1> QED BY <1>2, <1>3, <1>4, <1>5, <1>6 DEF Coordinator

\* The parallel phase implements the contract of an execution phase, for any
\* number of workers, groups and items and every --maxfail: run_phase_parallel
\* settles each item at most once, stops at the hard failure that reaches the
\* limit, and otherwise returns only when every item has an outcome, provided
\* that every result line arrives on a line of its own and parses.
THEOREM ContractImplemented ==
  ASSUME "swallow" \notin Faults, "garble" \notin Faults
  PROVE  Spec => ImplementsContract
<1>1. Init => ContractInv
  <2> SUFFICES ASSUME Init PROVE ContractInv
    OBVIOUS
  <2>1. CountInv
    <3>1. HardItems = {} /\ fails = 0
      BY DEF Init, HardItems, VerdictOf
    <3> QED BY <3>1, FS_EmptySet DEF CountInv
  <2> QED BY <2>1, InitTyped, InitOnce, InitConserved, InitStops DEF ContractInv
<1>2. ContractInv /\ [Next]_vars => ContractInv'
  BY NextTyped, NextOnce, NextConserved, NextStops, NextCounted DEF ContractInv
<1>3. Init => Contract!Init
  BY DEF Init, Contract!Init
<1>4. ContractInv /\ [Next]_vars => [Contract!Next]_(Contract!contractVars)
  BY StepImplements
<1> QED BY <1>1, <1>2, <1>3, <1>4, PTL DEF Spec, ImplementsContract, Contract!Spec

-----------------------------------------------------------------------------
(* Subprocesses. *)

\* A thread that has not spawned has no subprocess, and one that returned has
\* reaped its own; the phase returns after its threads.
ReapedInv ==
  /\ \A w \in Workers : pc[w] = "spawn" => proc[w] = "none"
  /\ \A w \in Workers : pc[w] = "done" => proc[w] = "none" \/ Gone(w)
  /\ coord = "done" => \A w \in Workers : pc[w] = "done"

\* A subprocess moves only while it lives.
LEMMA ProcessMoves ==
  ASSUME TypeInv, NEW w \in Workers,
         \/ ProcessStep(w) \/ BeginDiagnostic(w) \/ PrintLine(w) \/ PrintBrokenPipe(w)
         \/ Misbehave(w)
  PROVE  /\ \A v \in Workers : v # w => proc'[v] = proc[v]
         /\ proc[w] # "none" /\ ~Gone(w)
<1>1. proc \in [Workers -> {"none", "idle", "running", "ending", "wedged", "exited", "dead"}]
  BY DEF TypeInv, TypeOK, ProcTypes
<1> QED BY <1>1
    DEF ProcessStep, ReadTask, RunItem, EndTask, StdinEof, Exit, WriteDiagnostic, BrokenPipe,
        BeginDiagnostic, PrintLine, PrintBrokenPipe, Misbehave, Crash, TaskDies, Wedge, Gone

\* Every step keeps the subprocesses with their threads.
LEMMA NextReaped ==
  ASSUME TypeInv, ReapedInv, [Next]_vars
  PROVE  ReapedInv'
<1>0. ThreadTypes /\ ProcTypes
  BY DEF TypeInv, TypeOK
<1>1. CASE Coordinator
  <2>1. UNCHANGED <<pc, proc>>
    BY <1>1, CoordinatorLeaves DEF threadVars, procVars
  <2>2. coord' = "done" => \A w \in Workers : pc[w] = "done"
    BY <1>1 DEF Coordinator, RecvDiagnostic, RecvResult, RecvClosed, StopPhase, JoinThreads
  <2> QED BY <2>1, <2>2 DEF ReapedInv, Gone
<1>2. ASSUME NEW w \in Workers, ThreadStep(w) \/ Watchdog(w) PROVE ReapedInv'
  <2>1. pc[w] # "done" /\ UNCHANGED coord
    BY Zenon, <1>2
    DEF ThreadStep, Watchdog, SpawnWorker, SpawnFails, PopGroup, LeaveLoop, SendTask,
        SendTaskFails, DrainAnswer, DrainOther, DrainDisconnected, TailLine, TailDisconnected,
        ReapChild, DrainTimedOut, TailTimedOut, coordVars
  <2>2. \A v \in Workers : v # w => pc'[v] = pc[v] /\ proc'[v] = proc[v]
    <3>1. CASE \/ SpawnWorker(w) \/ SpawnFails(w) \/ LeaveLoop(w) \/ PopGroup(w) \/ SendTask(w)
               \/ SendTaskFails(w) \/ DrainAnswer(w) \/ DrainOther(w)
      BY <1>0, <3>1
      DEF SpawnWorker, SpawnFails, PopGroup, LeaveLoop, SendTask, SendTaskFails, DrainAnswer,
          DrainOther, ThreadTypes, ProcTypes, procVars, threadVars
    <3>2. CASE \/ DrainDisconnected(w) \/ TailLine(w) \/ TailDisconnected(w) \/ ReapChild(w)
               \/ DrainTimedOut(w) \/ TailTimedOut(w)
      BY <1>0, <3>2
      DEF DrainDisconnected, TailLine, TailDisconnected, ReapChild, DrainTimedOut, TailTimedOut,
          ThreadTypes, ProcTypes, procVars
    <3> QED BY <1>2, <3>1, <3>2 DEF ThreadStep, Watchdog
  <2>3. /\ pc'[w] # "spawn"
        /\ pc'[w] = "done" => proc'[w] = "none" \/ Gone(w)'
    <3>1. CASE \/ SpawnWorker(w) \/ LeaveLoop(w) \/ PopGroup(w) \/ SendTask(w)
               \/ SendTaskFails(w) \/ DrainAnswer(w) \/ DrainOther(w) \/ DrainDisconnected(w)
               \/ TailLine(w) \/ TailDisconnected(w) \/ DrainTimedOut(w) \/ TailTimedOut(w)
      BY <1>0, <3>1
      DEF SpawnWorker, LeaveLoop, PopGroup, SendTask, SendTaskFails, DrainAnswer, DrainOther,
          DrainDisconnected, TailLine, TailDisconnected, DrainTimedOut, TailTimedOut,
          ThreadTypes, threadVars
    <3>2. CASE SpawnFails(w)
      BY <1>0, <3>2 DEF SpawnFails, ReapedInv, ThreadTypes, procVars
    <3>3. CASE ReapChild(w)
      BY <1>0, <3>3 DEF ReapChild, ThreadTypes, procVars, Gone
    <3> QED BY <1>2, <3>1, <3>2, <3>3 DEF ThreadStep, Watchdog
  <2> QED BY <2>1, <2>2, <2>3 DEF ReapedInv, Gone
<1>3. ASSUME NEW w \in Workers,
             \/ ProcessStep(w) \/ BeginDiagnostic(w) \/ PrintLine(w) \/ PrintBrokenPipe(w)
             \/ Misbehave(w)
      PROVE  ReapedInv'
  <2>1. UNCHANGED <<coord, pc>>
    BY <1>3, ProcessLeaves DEF coordVars, threadVars
  <2>2. /\ \A v \in Workers : v # w => proc'[v] = proc[v]
        /\ proc[w] # "none" /\ ~Gone(w)
    BY <1>3, ProcessMoves
  <2>3. pc[w] # "spawn" /\ pc[w] # "done"
    BY <2>2 DEF ReapedInv
  <2> QED BY <2>1, <2>2, <2>3 DEF ReapedInv, Gone
<1>4. CASE UNCHANGED vars
  BY <1>4 DEF vars, coordVars, threadVars, procVars, ReapedInv, Gone
<1> QED BY <1>1, <1>2, <1>3, <1>4 DEF Next, Finished

\* The phase never returns while a subprocess it started is running, for any
\* number of workers and whatever the subprocesses do: a thread returns from
\* run_worker_loop only after child.wait(), and the phase joins every thread.
THEOREM NoneLeftRunning == Spec => []NoSubprocessLeft
<1>1. Init => TypeInv /\ ReapedInv
  <2>1. Init => ReapedInv
    BY DEF Init, ReapedInv
  <2> QED BY <2>1, InitTyped
<1>2. TypeInv /\ ReapedInv /\ [Next]_vars => (TypeInv /\ ReapedInv)'
  BY NextTyped, NextReaped
<1>3. ReapedInv => NoSubprocessLeft
  BY DEF ReapedInv, NoSubprocessLeft
<1> QED BY <1>1, <1>2, <1>3, PTL DEF Spec

-----------------------------------------------------------------------------
(* The in-flight set. *)

\* An item in flight was popped and has no report.
FlightInv == \A i \in inFlight : i \in Items /\ i[1] < next /\ reports[i] = <<>>

\* Every step keeps the in-flight set apart from the reports.
LEMMA NextFlight ==
  ASSUME TypeInv, OnceInv, FlightInv, [Next]_vars
  PROVE  FlightInv'
<1>0. CoordTypes /\ ThreadTypes /\ Held
  BY DEF TypeInv, TypeOK
<1>a. \A i \in Items : i[1] \in Nat
  BY ItemsMember DEF Groups
<1>b. next \in Nat
  BY <1>0 DEF CoordTypes
<1>1. ASSUME UNCHANGED <<inFlight, reports, next>> PROVE FlightInv'
  BY <1>1 DEF FlightInv
<1>2. CASE RecvDiagnostic \/ RecvClosed \/ JoinThreads
  BY <1>1, <1>2 DEF RecvDiagnostic, RecvClosed, JoinThreads
<1>3. CASE RecvResult
  <2> DEFINE h == Head(rx).item
  <2>1. /\ inFlight' = inFlight \ {h} /\ UNCHANGED next
        /\ reports' = IF h \in Items THEN [reports EXCEPT ![h] = Append(@, Head(rx).outcome)]
                                     ELSE reports
    BY Zenon, <1>3 DEF RecvResult, InFlightWithout
  <2>2. reports \in [Items -> Seq(Outcomes)]
    BY <1>0 DEF CoordTypes
  <2> HIDE DEF h
  <2>3. \A i \in Items : i # h => reports'[i] = reports[i]
    BY <2>1, <2>2
  <2> QED BY <2>1, <2>3 DEF FlightInv
<1>4. CASE StopPhase
  <2>1. /\ UNCHANGED inFlight /\ next' \in {next, NumGroups + 1}
        /\ \A i \in Items : i \notin Leftover => reports'[i] = reports[i]
    BY <1>4 DEF StopPhase
  <2>2. \A i \in Items : i[1] < next => i \notin Leftover
    BY <1>a, <1>b DEF Leftover
  <2>3. \A i \in Items : i[1] < next => i[1] < next'
    BY <1>0, <1>a, <2>1, PoolAssumption DEF CoordTypes
  <2> QED BY <2>1, <2>2, <2>3 DEF FlightInv
<1>5. ASSUME NEW w \in Workers, ThreadStep(w) \/ Watchdog(w) PROVE FlightInv'
  <2>1. CASE PopGroup(w)
    <3>1. UNCHANGED <<inFlight, reports>> /\ next' = next + 1
      BY <2>1 DEF PopGroup
    <3> QED BY <1>a, <1>b, <3>1 DEF FlightInv
  <2>2. CASE SendTask(w)
    <3>1. /\ pc[w] = "send" /\ inFlight' = inFlight \cup GroupItems(grp[w])
          /\ UNCHANGED <<reports, next>>
      BY <2>2 DEF SendTask
    <3>2. HoldsGroup(w) /\ received[w] = 0 /\ grp[w] < next /\ grp[w] \in Groups
      BY <1>0, <3>1 DEF HoldsGroup, OnceInv, PipeInv, NoneStale, GroupsApart, Held
    <3>3. ASSUME NEW i \in GroupItems(grp[w])
          PROVE  i \in Items /\ i[1] < next /\ reports[i] = <<>>
      <4>1. PICK k \in 1..Size[grp[w]] : i = <<grp[w], k>>
        BY DEF GroupItems
      <4>2. i \in Items /\ i[1] = grp[w] /\ i[2] > 0
        BY <3>2, <4>1, ItemsMember
      <4>3. Owed(w, i)
        BY <3>2, <4>2 DEF Owed
      <4>4. ~Settled(i)
        BY <4>2, <4>3 DEF OnceInv, SettledOnce
      <4> QED BY <3>2, <4>2, <4>4 DEF Settled
    <3> QED BY <3>1, <3>3 DEF FlightInv
  <2>3. CASE ~PopGroup(w) /\ ~SendTask(w)
    <3>1. UNCHANGED <<inFlight, reports, next>>
      BY Zenon, <1>5, <2>3
      DEF ThreadStep, Watchdog, SpawnWorker, SpawnFails, LeaveLoop, SendTaskFails, DrainAnswer,
          DrainOther, DrainDisconnected, TailLine, TailDisconnected, ReapChild, DrainTimedOut,
          TailTimedOut, coordVars
    <3> QED BY <1>1, <3>1
  <2> QED BY <2>1, <2>2, <2>3
<1>6. ASSUME UNCHANGED coordVars PROVE FlightInv'
  BY <1>1, <1>6 DEF coordVars
<1> QED BY <1>2, <1>3, <1>4, <1>5, <1>6, ProcessLeaves DEF Next, Finished, vars, Coordinator

\* A phase that --maxfail did not stop leaves nothing in flight, for any number
\* of workers, groups and items: the threads insert an item before its answer
\* can come, the consumer removes it with its report, and every item is
\* reported, provided that every result arrives on a line of its own and parses.
THEOREM NoneLeftInFlight ==
  ASSUME "swallow" \notin Faults, "garble" \notin Faults
  PROVE  Spec => []NothingLeftInFlight
<1> DEFINE Inv == TypeInv /\ OnceInv /\ Conserved /\ FlightInv
<1>1. Init => Inv
  <2>1. Init => FlightInv
    BY DEF Init, FlightInv
  <2> QED BY <2>1, InitTyped, InitOnce, InitConserved
<1>2. Inv /\ [Next]_vars => Inv'
  BY NextTyped, NextOnce, NextConserved, NextFlight
<1>3. Inv => NothingLeftInFlight
  <2> SUFFICES ASSUME Inv, coord = "done", ~interrupted, NEW i \in inFlight PROVE FALSE
    BY DEF NothingLeftInFlight
  <2>1. i \in Items /\ i[1] < next /\ reports[i] = <<>>
    BY DEF FlightInv
  <2> QED BY <2>1 DEF Conserved
<1> QED BY <1>1, <1>2, <1>3, PTL DEF Spec
=============================================================================
