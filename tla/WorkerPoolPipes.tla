-------------------------- MODULE WorkerPoolPipes ---------------------------
(* Which groups the threads hold and what is in the pipe of each worker. *)
EXTENDS WorkerPoolTypes

\* The time a leaf without a prover of its own may take.
USE SMTT(60), ZenonT(20), SMTT(61)

-----------------------------------------------------------------------------
\* Threads hold different groups, all of them popped.
GroupsApart ==
  \A v, w \in Workers :
    /\ HoldsGroup(w) => grp[w] < next
    /\ HoldsGroup(v) /\ HoldsGroup(w) /\ v # w => grp[v] # grp[w]

\* Answers the subprocess has written for the group its thread is draining.
Answered(w) == IF task[w] = 0 THEN ppos[w] ELSE 0

\* The answers in pipe L are one line for each item of group g after the first
\* r and up to the first a, in item order.
InOrder(L, g, r, a) ==
  /\ \A n \in 1..Len(L) : IsAnswer(L[n]) =>
       L[n].item = <<g, L[n].item[2]>> /\ L[n].item[2] \in (r + 1)..a
  /\ \A m, n \in 1..Len(L) :
       m < n /\ IsAnswer(L[m]) /\ IsAnswer(L[n]) => L[m].item[2] < L[n].item[2]
  /\ \A k \in (r + 1)..a : \E n \in 1..Len(L) : IsAnswer(L[n]) /\ L[n].item[2] = k

\* The pipe of a thread that drains holds the answers after the first `received`.
Aligned(w) == pc[w] = "drain" =>
  /\ IF task[w] = 0 THEN ptask[w] = grp[w] ELSE task[w] = grp[w]
  /\ received[w] <= Answered(w) /\ Answered(w) <= Size[grp[w]]
  /\ InOrder(lines[w], grp[w], received[w], Answered(w))

\* Between two groups no task and no answer is under way.
NoneStale(w) == pc[w] \in {"spawn", "loop", "send", "tail"} =>
  /\ pc[w] = "send" => received[w] = 0
  /\ task[w] = 0
  /\ \A n \in 1..Len(lines[w]) : ~IsAnswer(lines[w][n])

\* A subprocess only has answers left to give for the group being drained.
OldAnswered(w) == proc[w] = "running" =>
  /\ ppos[w] <= Size[ptask[w]]
  /\ pc[w] \notin {"wait", "done"} /\ ~(pc[w] = "drain" /\ task[w] = 0)
       => ppos[w] = Size[ptask[w]]

PipeInv == \A w \in Workers : Aligned(w) /\ NoneStale(w) /\ OldAnswered(w)

-----------------------------------------------------------------------------
WorkerStep(w) ==
  \/ ThreadStep(w) \/ Watchdog(w)
  \/ ProcessStep(w) \/ BeginDiagnostic(w) \/ PrintLine(w) \/ PrintBrokenPipe(w)
  \/ Misbehave(w)

\* A subprocess touches neither the coordinator nor its thread.
LEMMA ProcessLeaves ==
  ASSUME NEW w \in Workers,
         \/ ProcessStep(w) \/ BeginDiagnostic(w) \/ PrintLine(w) \/ PrintBrokenPipe(w)
         \/ Misbehave(w)
  PROVE  UNCHANGED <<coordVars, threadVars>>
BY DEF ProcessStep, ReadTask, RunItem, EndTask, StdinEof, Exit, WriteDiagnostic, BrokenPipe,
       BeginDiagnostic, PrintLine, PrintBrokenPipe, Misbehave, Crash, TaskDies, Wedge

\* Threads hold different groups: only `pop` hands one out, under the lock.
LEMMA GroupsApartStep == TypeInv /\ GroupsApart /\ [Next]_vars => GroupsApart'
<1> SUFFICES ASSUME TypeInv, GroupsApart, [Next]_vars PROVE GroupsApart'
  OBVIOUS
<1>0. ThreadTypes /\ CoordTypes
  BY DEF TypeInv, TypeOK
<1>1. CASE Coordinator
  <2>1. UNCHANGED threadVars
    BY <1>1, CoordinatorLeaves
  <2>2. next' >= next /\ next' \in Nat
    <3>1. CASE StopPhase
      BY <1>0, <3>1, PoolAssumption DEF StopPhase, CoordTypes
    <3>2. CASE ~StopPhase
      <4>1. UNCHANGED next
        BY <1>1, <3>2 DEF Coordinator, RecvDiagnostic, RecvResult, RecvClosed, JoinThreads
      <4> QED BY <1>0, <4>1 DEF CoordTypes
    <3> QED BY <3>1, <3>2
  <2> QED BY <1>0, <2>1, <2>2 DEF GroupsApart, HoldsGroup, threadVars, ThreadTypes, CoordTypes
<1>2. ASSUME NEW w \in Workers, ThreadStep(w) \/ Watchdog(w) PROVE GroupsApart'
  <2>1. CASE PopGroup(w)
    BY <1>0, <2>1 DEF PopGroup, GroupsApart, HoldsGroup, ThreadTypes, CoordTypes
  <2>2. CASE ~PopGroup(w)
    <3>1. UNCHANGED <<next, grp>> /\ \A v \in Workers : HoldsGroup(v)' => HoldsGroup(v)
      <4>1. CASE SpawnWorker(w) \/ SpawnFails(w) \/ LeaveLoop(w) \/ TailTimedOut(w)
                   \/ TailDisconnected(w) \/ ReapChild(w)
        BY <1>0, <4>1
        DEF SpawnWorker, SpawnFails, LeaveLoop, TailTimedOut, TailDisconnected, ReapChild,
            coordVars, HoldsGroup, ThreadTypes
      <4>2. CASE SendTask(w) \/ SendTaskFails(w)
        BY <1>0, <4>2 DEF SendTask, SendTaskFails, HoldsGroup, ThreadTypes
      <4>3. CASE DrainAnswer(w)
        BY <1>0, <4>3 DEF DrainAnswer, HoldsGroup, ThreadTypes
      <4>4. CASE DrainOther(w)
        BY <1>0, <4>4 DEF DrainOther, HoldsGroup, threadVars
      <4>5. CASE TailLine(w)
        BY <1>0, <4>5 DEF TailLine, HoldsGroup, ThreadTypes
      <4>6. CASE DrainTimedOut(w) \/ DrainDisconnected(w)
        BY <1>0, <4>6 DEF DrainTimedOut, DrainDisconnected, HoldsGroup, ThreadTypes
      <4> QED BY <1>2, <2>2, <4>1, <4>2, <4>3, <4>4, <4>5, <4>6 DEF ThreadStep, Watchdog
    <3> QED BY <3>1 DEF GroupsApart
  <2> QED BY <2>1, <2>2
<1>3. ASSUME NEW w \in Workers,
             \/ ProcessStep(w) \/ BeginDiagnostic(w) \/ PrintLine(w) \/ PrintBrokenPipe(w)
             \/ Misbehave(w)
      PROVE  GroupsApart'
  BY <1>3, ProcessLeaves DEF GroupsApart, HoldsGroup, threadVars, coordVars
<1>4. CASE UNCHANGED vars
  BY <1>4 DEF GroupsApart, HoldsGroup, vars, threadVars, coordVars
<1> QED BY <1>1, <1>2, <1>3, <1>4 DEF Next, Finished

\* The variables of worker v that PipeInv speaks of.
PipeOf(v) == <<pc[v], grp[v], received[v], proc[v], task[v], ptask[v], ppos[v], lines[v]>>

\* A step of one worker leaves the pipes of the others alone.
LEMMA OtherPipes ==
  ASSUME TypeInv, NEW w \in Workers, WorkerStep(w), NEW v \in Workers, v # w
  PROVE  UNCHANGED PipeOf(v)
<1>0. ThreadTypes /\ ProcTypes
  BY DEF TypeInv, TypeOK
<1>1. CASE SpawnWorker(w) \/ SpawnFails(w) \/ PopGroup(w) \/ LeaveLoop(w) \/ TailTimedOut(w)
            \/ TailDisconnected(w) \/ ReapChild(w)
  BY Zenon, <1>0, <1>1
  DEF SpawnWorker, SpawnFails, PopGroup, LeaveLoop, TailTimedOut, TailDisconnected, ReapChild,
      procVars, PipeOf, ThreadTypes, ProcTypes
<1>2. CASE SendTask(w) \/ SendTaskFails(w) \/ DrainTimedOut(w) \/ DrainDisconnected(w)
  BY Zenon, <1>0, <1>2
  DEF SendTask, SendTaskFails, DrainTimedOut, DrainDisconnected, procVars, PipeOf, ThreadTypes,
      ProcTypes
<1>3. CASE DrainAnswer(w) \/ DrainOther(w) \/ TailLine(w)
  BY Zenon, <1>0, <1>3
  DEF DrainAnswer, DrainOther, TailLine, threadVars, PipeOf, ThreadTypes, ProcTypes
<1>4. CASE ReadTask(w) \/ RunItem(w) \/ WriteDiagnostic(w) \/ BeginDiagnostic(w) \/ PrintLine(w)
  BY Zenon, <1>0, <1>4
  DEF ReadTask, RunItem, WriteDiagnostic, BeginDiagnostic, PrintLine, Write, threadVars, PipeOf,
      ProcTypes
<1>5. CASE EndTask(w) \/ StdinEof(w) \/ Exit(w) \/ BrokenPipe(w) \/ PrintBrokenPipe(w)
            \/ Misbehave(w)
  BY Zenon, <1>0, <1>5
  DEF EndTask, StdinEof, Exit, BrokenPipe, PrintBrokenPipe, Misbehave, Crash, TaskDies, Wedge,
      threadVars, PipeOf, ProcTypes
<1> QED
  BY Zenon, <1>1, <1>2, <1>3, <1>4, <1>5 DEF WorkerStep, ThreadStep, Watchdog, ProcessStep

\* A worker whose pipe is unchanged keeps its part of PipeInv.
LEMMA PipeUnchanged ==
  ASSUME NEW v \in Workers, UNCHANGED PipeOf(v),
         Aligned(v) /\ NoneStale(v) /\ OldAnswered(v)
  PROVE  (Aligned(v) /\ NoneStale(v) /\ OldAnswered(v))'
<1>1. Answered(v)' = Answered(v)
  BY DEF PipeOf, Answered
<1>2. Aligned(v)'
  BY <1>1 DEF PipeOf, Aligned
<1>3. NoneStale(v)' /\ OldAnswered(v)'
  BY DEF PipeOf, NoneStale, OldAnswered
<1> QED BY <1>2, <1>3

\* Reading the head of a pipe, as indices.
LEMMA TailLines ==
  ASSUME NEW L \in Seq(Lines), L # <<>>
  PROVE  /\ Len(L) \in Nat \ {0} /\ Len(Tail(L)) = Len(L) - 1 /\ Head(L) = L[1]
         /\ \A n \in 1..Len(Tail(L)) : Tail(L)[n] = L[n + 1] /\ n + 1 \in 1..Len(L)
         /\ \A n \in 1..Len(L) : n # 1 => n - 1 \in 1..Len(Tail(L)) /\ Tail(L)[n - 1] = L[n]
OBVIOUS

\* Writing to a pipe, as indices.
LEMMA AppendLines ==
  ASSUME NEW L \in Seq(Lines), NEW x \in Lines
  PROVE  /\ Len(L) \in Nat /\ Len(Append(L, x)) = Len(L) + 1
         /\ \A n \in 1..Len(L) : Append(L, x)[n] = L[n]
         /\ Append(L, x)[Len(L) + 1] = x
OBVIOUS

\* The first answer is that of the next item, and the others follow it.
LEMMA InOrderAnswer ==
  ASSUME NEW L \in Seq(Lines), L # <<>>, IsAnswer(Head(L)),
         NEW g, NEW r \in Nat, NEW a \in Nat, InOrder(L, g, r, a)
  PROVE  Head(L).item = <<g, r + 1>> /\ r + 1 <= a /\ InOrder(Tail(L), g, r + 1, a)
<1> DEFINE T == Tail(L)
<1>2. /\ Len(L) \in Nat \ {0} /\ Len(T) = Len(L) - 1 /\ Head(L) = L[1]
      /\ \A n \in 1..Len(T) : T[n] = L[n + 1] /\ n + 1 \in 1..Len(L)
      /\ \A n \in 1..Len(L) : n # 1 => n - 1 \in 1..Len(T) /\ T[n - 1] = L[n]
  BY TailLines
<1>3. /\ \A n \in 1..Len(L) : IsAnswer(L[n]) =>
           L[n].item = <<g, L[n].item[2]>> /\ L[n].item[2] \in (r + 1)..a
      /\ \A m, n \in 1..Len(L) :
           m < n /\ IsAnswer(L[m]) /\ IsAnswer(L[n]) => L[m].item[2] < L[n].item[2]
      /\ \A k \in (r + 1)..a : \E n \in 1..Len(L) : IsAnswer(L[n]) /\ L[n].item[2] = k
  BY DEF InOrder
<1> HIDE DEF T
<1>7. L[1].item[2] \in (r + 1)..a /\ L[1].item = <<g, L[1].item[2]>>
  BY <1>2, <1>3
<1>8. L[1].item[2] = r + 1
  <2>1. r + 1 \in (r + 1)..a
    BY <1>7
  <2>2. PICK n \in 1..Len(L) : IsAnswer(L[n]) /\ L[n].item[2] = r + 1
    BY <1>3, <2>1
  <2>3. CASE n = 1
    BY <2>2, <2>3
  <2>4. CASE n # 1
    <3>1. 1 \in 1..Len(L) /\ 1 < n /\ IsAnswer(L[1])
      BY <1>2, <2>4
    <3>2. L[1].item[2] < r + 1
      BY <1>3, <2>2, <3>1
    <3> QED BY <1>7, <3>2
  <2> QED BY <2>3, <2>4
<1>9. \A n \in 1..Len(T) : IsAnswer(T[n]) =>
        T[n].item = <<g, T[n].item[2]>> /\ T[n].item[2] \in (r + 1 + 1)..a
  <2> SUFFICES ASSUME NEW n \in 1..Len(T), IsAnswer(T[n])
               PROVE  T[n].item = <<g, T[n].item[2]>> /\ T[n].item[2] \in (r + 1 + 1)..a
    OBVIOUS
  <2>1. /\ n + 1 \in 1..Len(L) /\ T[n] = L[n + 1]
        /\ 1 \in 1..Len(L) /\ 1 < n + 1 /\ IsAnswer(L[1])
    BY <1>2
  <2>2. L[1].item[2] < L[n + 1].item[2]
    BY <1>3, <2>1
  <2>3. L[n + 1].item = <<g, L[n + 1].item[2]>> /\ L[n + 1].item[2] \in (r + 1)..a
    BY <1>3, <2>1
  <2> QED BY <1>8, <2>1, <2>2, <2>3
<1>10. \A m, n \in 1..Len(T) :
         m < n /\ IsAnswer(T[m]) /\ IsAnswer(T[n]) => T[m].item[2] < T[n].item[2]
  BY <1>2, <1>3
<1>11. \A k \in (r + 1 + 1)..a : \E n \in 1..Len(T) : IsAnswer(T[n]) /\ T[n].item[2] = k
  <2> SUFFICES ASSUME NEW k \in (r + 1 + 1)..a
               PROVE  \E n \in 1..Len(T) : IsAnswer(T[n]) /\ T[n].item[2] = k
    OBVIOUS
  <2>1. k \in (r + 1)..a /\ k # r + 1
    OBVIOUS
  <2>2. PICK n \in 1..Len(L) : IsAnswer(L[n]) /\ L[n].item[2] = k
    BY <1>3, <2>1
  <2>3. n # 1
    BY <1>8, <2>1, <2>2
  <2>4. n - 1 \in 1..Len(T) /\ T[n - 1] = L[n]
    BY <1>2, <2>3
  <2> QED BY <2>2, <2>4
<1>12. InOrder(T, g, r + 1, a)
  BY <1>9, <1>10, <1>11 DEF InOrder
<1>13. r + 1 <= a
  BY <1>7
<1>14. Head(L).item = <<g, r + 1>>
  BY <1>2, <1>7, <1>8
<1> QED BY <1>12, <1>13, <1>14 DEF T

\* Two pipes with the same answers, up to a shift of the index, are in order
\* together.
LEMMA InOrderShift ==
  ASSUME NEW L \in Seq(Lines), NEW K \in Seq(Lines), NEW d \in {0, 1},
         \A n \in 1..Len(K) : IsAnswer(K[n]) => n + d \in 1..Len(L) /\ K[n] = L[n + d],
         \A n \in 1..Len(L) : IsAnswer(L[n]) => n - d \in 1..Len(K) /\ K[n - d] = L[n],
         NEW g, NEW r \in Nat, NEW a \in Nat, InOrder(L, g, r, a)
  PROVE  InOrder(K, g, r, a)
<1>1. /\ \A n \in 1..Len(L) : IsAnswer(L[n]) =>
           L[n].item = <<g, L[n].item[2]>> /\ L[n].item[2] \in (r + 1)..a
      /\ \A m, n \in 1..Len(L) :
           m < n /\ IsAnswer(L[m]) /\ IsAnswer(L[n]) => L[m].item[2] < L[n].item[2]
      /\ \A k \in (r + 1)..a : \E n \in 1..Len(L) : IsAnswer(L[n]) /\ L[n].item[2] = k
  BY DEF InOrder
<1>2. Len(K) \in Nat /\ Len(L) \in Nat
  OBVIOUS
<1>3. \A n \in 1..Len(K) : IsAnswer(K[n]) =>
        K[n].item = <<g, K[n].item[2]>> /\ K[n].item[2] \in (r + 1)..a
  BY <1>1
<1>4. \A m, n \in 1..Len(K) :
        m < n /\ IsAnswer(K[m]) /\ IsAnswer(K[n]) => K[m].item[2] < K[n].item[2]
  <2> SUFFICES ASSUME NEW m \in 1..Len(K), NEW n \in 1..Len(K),
                      m < n, IsAnswer(K[m]), IsAnswer(K[n])
               PROVE  K[m].item[2] < K[n].item[2]
    OBVIOUS
  <2>1. /\ m + d \in 1..Len(L) /\ n + d \in 1..Len(L) /\ m + d < n + d
        /\ K[m] = L[m + d] /\ K[n] = L[n + d]
    BY <1>2
  <2> QED BY <1>1, <2>1
<1>5. \A k \in (r + 1)..a : \E n \in 1..Len(K) : IsAnswer(K[n]) /\ K[n].item[2] = k
  <2> SUFFICES ASSUME NEW k \in (r + 1)..a
               PROVE  \E n \in 1..Len(K) : IsAnswer(K[n]) /\ K[n].item[2] = k
    OBVIOUS
  <2>1. PICK n \in 1..Len(L) : IsAnswer(L[n]) /\ L[n].item[2] = k
    BY <1>1
  <2>2. n - d \in 1..Len(K) /\ K[n - d] = L[n]
    BY <2>1
  <2> QED BY <2>1, <2>2
<1> QED BY <1>3, <1>4, <1>5 DEF InOrder

\* A line that is no answer may leave or enter the pipe.
LEMMA InOrderOther ==
  ASSUME NEW L \in Seq(Lines), NEW K,
         \/ L # <<>> /\ ~IsAnswer(Head(L)) /\ K = Tail(L)
         \/ \E x \in Lines : ~IsAnswer(x) /\ K = Append(L, x),
         NEW g, NEW r \in Nat, NEW a \in Nat
  PROVE  /\ InOrder(L, g, r, a) => InOrder(K, g, r, a)
         /\ (\A n \in 1..Len(L) : ~IsAnswer(L[n])) => \A n \in 1..Len(K) : ~IsAnswer(K[n])
<1>1. CASE L # <<>> /\ ~IsAnswer(Head(L)) /\ K = Tail(L)
  <2>1. /\ \A n \in 1..Len(K) : K[n] = L[n + 1] /\ n + 1 \in 1..Len(L)
        /\ \A n \in 1..Len(L) : n # 1 => n - 1 \in 1..Len(K) /\ K[n - 1] = L[n]
        /\ ~IsAnswer(L[1]) /\ K \in Seq(Lines)
    BY <1>1, TailLines
  <2>2. \A n \in 1..Len(L) : IsAnswer(L[n]) => n - 1 \in 1..Len(K) /\ K[n - 1] = L[n]
    BY <2>1
  <2>3. InOrder(L, g, r, a) => InOrder(K, g, r, a)
    BY <2>1, <2>2, InOrderShift
  <2> QED BY <2>1, <2>3
<1>2. ASSUME NEW x \in Lines, ~IsAnswer(x), K = Append(L, x)
      PROVE  /\ InOrder(L, g, r, a) => InOrder(K, g, r, a)
             /\ (\A n \in 1..Len(L) : ~IsAnswer(L[n])) => \A n \in 1..Len(K) : ~IsAnswer(K[n])
  <2>1. /\ Len(L) \in Nat /\ Len(K) = Len(L) + 1 /\ K \in Seq(Lines)
        /\ \A n \in 1..Len(L) : K[n] = L[n]
        /\ K[Len(L) + 1] = x
    BY <1>2, AppendLines, AppendProperties
  <2>2. \A n \in 1..Len(K) : IsAnswer(K[n]) => n + 0 \in 1..Len(L) /\ K[n] = L[n + 0]
    BY <1>2, <2>1
  <2>3. \A n \in 1..Len(L) : IsAnswer(L[n]) => n - 0 \in 1..Len(K) /\ K[n - 0] = L[n]
    BY <2>1
  <2>4. InOrder(L, g, r, a) => InOrder(K, g, r, a)
    BY <2>1, <2>2, <2>3, InOrderShift
  <2> QED BY <2>2, <2>4
<1> QED BY <1>1, <1>2

\* The answer of the item after the last one goes to the end of the pipe.
LEMMA InOrderNext ==
  ASSUME NEW L \in Seq(Lines), NEW x \in Lines, IsAnswer(x),
         NEW g, NEW r \in Nat, NEW a \in Nat, r <= a, InOrder(L, g, r, a),
         x.item = <<g, a + 1>>
  PROVE  InOrder(Append(L, x), g, r, a + 1)
<1> DEFINE K == Append(L, x)
<1>1. /\ Len(L) \in Nat /\ Len(K) = Len(L) + 1
      /\ \A n \in 1..Len(L) : K[n] = L[n]
      /\ K[Len(L) + 1] = x
  BY AppendLines
<1>2. /\ \A n \in 1..Len(L) : IsAnswer(L[n]) =>
           L[n].item = <<g, L[n].item[2]>> /\ L[n].item[2] \in (r + 1)..a
      /\ \A m, n \in 1..Len(L) :
           m < n /\ IsAnswer(L[m]) /\ IsAnswer(L[n]) => L[m].item[2] < L[n].item[2]
      /\ \A k \in (r + 1)..a : \E n \in 1..Len(L) : IsAnswer(L[n]) /\ L[n].item[2] = k
  BY DEF InOrder
<1>3. x.item[2] = a + 1 /\ x.item = <<g, x.item[2]>>
  OBVIOUS
<1> HIDE DEF K
<1>4. \A n \in 1..Len(K) : IsAnswer(K[n]) =>
         K[n].item = <<g, K[n].item[2]>> /\ K[n].item[2] \in (r + 1)..(a + 1)
  <2> SUFFICES ASSUME NEW n \in 1..Len(K), IsAnswer(K[n])
               PROVE  K[n].item = <<g, K[n].item[2]>> /\ K[n].item[2] \in (r + 1)..(a + 1)
    OBVIOUS
  <2>1. CASE n = Len(L) + 1
    BY <1>1, <1>3, <2>1
  <2>2. CASE n # Len(L) + 1
    <3>1. n \in 1..Len(L) /\ K[n] = L[n]
      BY <1>1, <2>2
    <3>2. L[n].item = <<g, L[n].item[2]>> /\ L[n].item[2] \in (r + 1)..a
      BY <1>2, <3>1
    <3> QED BY <3>1, <3>2
  <2> QED BY <2>1, <2>2
<1>5. \A m, n \in 1..Len(K) :
         m < n /\ IsAnswer(K[m]) /\ IsAnswer(K[n]) => K[m].item[2] < K[n].item[2]
  <2> SUFFICES ASSUME NEW m \in 1..Len(K), NEW n \in 1..Len(K),
                      m < n, IsAnswer(K[m]), IsAnswer(K[n])
               PROVE  K[m].item[2] < K[n].item[2]
    OBVIOUS
  <2>1. m \in 1..Len(L) /\ K[m] = L[m]
    BY <1>1
  <2>2. L[m].item[2] \in (r + 1)..a
    BY <1>2, <2>1
  <2>3. CASE n = Len(L) + 1
    BY <1>1, <1>3, <2>1, <2>2, <2>3
  <2>4. CASE n # Len(L) + 1
    <3>1. n \in 1..Len(L) /\ K[n] = L[n]
      BY <1>1, <2>4
    <3> QED BY <1>2, <2>1, <3>1
  <2> QED BY <2>3, <2>4
<1>6. \A k \in (r + 1)..(a + 1) : \E n \in 1..Len(K) : IsAnswer(K[n]) /\ K[n].item[2] = k
  <2> SUFFICES ASSUME NEW k \in (r + 1)..(a + 1)
               PROVE  \E n \in 1..Len(K) : IsAnswer(K[n]) /\ K[n].item[2] = k
    BY Zenon
  <2>1. CASE k = a + 1
    <3>1. Len(L) + 1 \in 1..Len(K)
      BY <1>1
    <3> QED BY <1>1, <1>3, <2>1, <3>1
  <2>2. CASE k # a + 1
    <3>1. k \in (r + 1)..a
      BY <2>2
    <3>2. PICK n \in 1..Len(L) : IsAnswer(L[n]) /\ L[n].item[2] = k
      BY <1>2, <3>1
    <3>3. n \in 1..Len(K) /\ K[n] = L[n]
      BY <1>1
    <3> QED BY <3>2, <3>3
  <2> QED BY <2>1, <2>2
<1>7. InOrder(K, g, r, a + 1)
  BY <1>4, <1>5, <1>6 DEF InOrder
<1> QED BY <1>7 DEF K

\* Once every answer is read the pipe holds none.
LEMMA InOrderNone ==
  ASSUME NEW L, NEW g, NEW a \in Nat, InOrder(L, g, a, a)
  PROVE  \A n \in 1..Len(L) : ~IsAnswer(L[n])
<1>1. \A n \in 1..Len(L) : IsAnswer(L[n]) => L[n].item[2] \in (a + 1)..a
  BY Zenon DEF InOrder
<1>2. (a + 1)..a = {}
  OBVIOUS
<1> QED BY Zenon, <1>1, <1>2

\* drain_worker_results keeps the pipe aligned when it counts an answer: the
\* answer it reads is that of the next item.
LEMMA DrainAnswerPipe ==
  ASSUME TypeInv, NEW w \in Workers, DrainAnswer(w),
         Aligned(w), NoneStale(w), OldAnswered(w)
  PROVE  /\ Head(lines[w]).item = <<grp[w], received[w] + 1>>
         /\ Aligned(w)' /\ NoneStale(w)' /\ OldAnswered(w)'
<1>0. ThreadTypes /\ ProcTypes /\ Held
  BY DEF TypeInv, TypeOK
<1> DEFINE L == lines[w]
           r == received[w]
           g == grp[w]
           A == Answered(w)
<1>1. pc[w] = "drain" /\ L # <<>> /\ IsAnswer(Head(L))
  BY Zenon DEF DrainAnswer
<1>2. /\ L \in Seq(Lines) /\ r \in Nat /\ g \in Groups /\ Size[g] \in Nat \ {0} /\ A \in Nat
      /\ r < Size[g]
  BY <1>0, <1>1, PoolAssumption DEF ProcTypes, ThreadTypes, Held, HoldsGroup, Groups, Answered
<1>3. /\ IF task[w] = 0 THEN ptask[w] = g ELSE task[w] = g
      /\ r <= A /\ A <= Size[g] /\ InOrder(L, g, r, A)
  BY Zenon, <1>1 DEF Aligned
<1>4. /\ UNCHANGED <<grp, proc, task, ptask, ppos>>
      /\ lines'[w] = Tail(L) /\ received'[w] = r + 1
      /\ pc'[w] = IF r + 1 >= Size[g] THEN "loop" ELSE "drain"
  BY <1>0 DEF DrainAnswer, ThreadTypes, ProcTypes
<1>5. Answered(w)' = A
  BY <1>4 DEF Answered
<1>6. A = IF task[w] = 0 THEN ppos[w] ELSE 0
  BY DEF Answered
<1> HIDE DEF L, r, g, A
<1>7. Head(L).item = <<g, r + 1>> /\ r + 1 <= A /\ InOrder(Tail(L), g, r + 1, A)
  BY Zenon, <1>1, <1>2, <1>3, InOrderAnswer
<1>8. Aligned(w)'
  <2>1. grp'[w] = g /\ task'[w] = task[w] /\ ptask'[w] = ptask[w]
    BY <1>4 DEF g
  <2> QED BY <1>3, <1>4, <1>5, <1>7, <2>1 DEF Aligned
<1>9. NoneStale(w)' /\ OldAnswered(w)'
  <2>1. CASE pc'[w] = "drain"
    BY <1>1, <1>4, <2>1 DEF NoneStale, OldAnswered
  <2>2. CASE pc'[w] # "drain"
    <3>0. pc'[w] = "loop" /\ r + 1 >= Size[g]
      BY Zenon, <1>4, <2>2
    <3>1. pc'[w] = "loop" /\ r + 1 = Size[g] /\ A = Size[g]
      BY ONLY <1>2, <1>3, <1>7, <3>0
    <3>2. task[w] = 0 /\ ppos[w] = Size[g] /\ ptask[w] = g
      BY <1>2, <1>3, <1>6, <3>1
    <3>3. \A n \in 1..Len(Tail(L)) : ~IsAnswer(Tail(L)[n])
      BY Zenon, <1>2, <1>7, <3>1, InOrderNone
    <3> QED BY <1>4, <3>1, <3>2, <3>3 DEF NoneStale, OldAnswered
  <2> QED BY <2>1, <2>2
<1> QED BY <1>7, <1>8, <1>9 DEF L, g, r

\* A line that is no answer, read or written, leaves the answers aligned.
LEMMA OtherLinePipe ==
  ASSUME TypeInv, NEW w \in Workers, Aligned(w), NoneStale(w), OldAnswered(w),
         UNCHANGED <<grp, received, proc, task, ptask, ppos>>,
         pc'[w] = pc[w],
         \/ lines[w] # <<>> /\ ~IsAnswer(Head(lines[w])) /\ lines'[w] = Tail(lines[w])
         \/ \E x \in Lines : ~IsAnswer(x) /\ lines'[w] = Append(lines[w], x)
  PROVE  Aligned(w)' /\ NoneStale(w)' /\ OldAnswered(w)'
<1> DEFINE L == lines[w]
           K == lines'[w]
           g == grp[w]
           r == received[w]
           A == Answered(w)
<1>1. L \in Seq(Lines) /\ r \in Nat /\ A \in Nat
  BY DEF TypeInv, TypeOK, ProcTypes, ThreadTypes, Answered
<1>2. Answered(w)' = A
  BY DEF Answered
<1>3. \/ L # <<>> /\ ~IsAnswer(Head(L)) /\ K = Tail(L)
      \/ \E x \in Lines : ~IsAnswer(x) /\ K = Append(L, x)
  BY Zenon
<1>4. /\ InOrder(L, g, r, A) => InOrder(K, g, r, A)
      /\ (\A n \in 1..Len(L) : ~IsAnswer(L[n])) => \A n \in 1..Len(K) : ~IsAnswer(K[n])
  <2> HIDE DEF L, K, g, r, A
  <2> QED BY ONLY Zenon, <1>1, <1>3, InOrderOther
<1>5. Aligned(w)'
  BY Zenon, <1>2, <1>4 DEF Aligned
<1>6. NoneStale(w)'
  BY Zenon, <1>4 DEF NoneStale
<1>7. OldAnswered(w)'
  BY Zenon DEF OldAnswered
<1> QED BY <1>5, <1>6, <1>7

\* worker.py answers the items of a task in order, one line each.
LEMMA RunItemPipe ==
  ASSUME "swallow" \notin Faults, TypeInv, NEW w \in Workers, RunItem(w),
         Aligned(w), NoneStale(w), OldAnswered(w)
  PROVE  Aligned(w)' /\ NoneStale(w)' /\ OldAnswered(w)'
<1>0. ThreadTypes /\ ProcTypes /\ Held
  BY DEF TypeInv, TypeOK
<1> DEFINE L == lines[w]
           r == received[w]
           g == grp[w]
           p == ppos[w]
<1>1. /\ pc[w] = "drain" /\ task[w] = 0 /\ proc[w] = "running"
      /\ ptask[w] \in Groups /\ ppos[w] < Size[ptask[w]]
  <2>1. proc[w] = "running" /\ ppos[w] < Size[ptask[w]] /\ pc[w] \notin {"wait", "done"}
    BY Zenon DEF RunItem, Room, StdoutClosed
  <2>2. ptask[w] \in Groups /\ ppos[w] \in Nat /\ Size[ptask[w]] \in Nat
    BY <1>0, <2>1, PoolAssumption DEF Held, ProcTypes, Groups
  <2> QED BY <2>1, <2>2 DEF OldAnswered
<1>2. ptask[w] = grp[w] /\ Answered(w) = p
  BY Zenon, <1>1 DEF Aligned, Answered
<1>3. /\ L \in Seq(Lines) /\ p \in Nat /\ r \in Nat /\ g \in Groups /\ Size[g] \in Nat
      /\ p < Size[g]
  BY <1>0, <1>1, <1>2, PoolAssumption DEF ProcTypes, ThreadTypes, Groups
<1>4. PICK x \in Answers(w) : lines' = [lines EXCEPT ![w] = Append(@, x)]
  BY Zenon DEF RunItem, Write
<1>5. \/ \E o \in RunOutcomes : x = Line("result", <<g, p + 1>>, o)
      \/ x = Line("garbled", <<g, p + 1>>, "failed")
  BY <1>2 DEF Answers
<1>6. x.item = <<g, p + 1>> /\ IsAnswer(x)
  <2>1. \A kind, i, o : Line(kind, i, o).kind = kind /\ Line(kind, i, o).item = i
    BY DEF Line
  <2> QED BY <1>5, <2>1 DEF IsAnswer
<1>7. x \in Lines
  <2>1. <<g, p + 1>> \in Items
    BY <1>3, ItemsMember
  <2>2. \A kind \in {"result", "garbled"}, o \in Outcomes : Line(kind, <<g, p + 1>>, o) \in Lines
    BY <2>1 DEF Line, Lines, LineKinds
  <2>3. RunOutcomes \subseteq Outcomes /\ "failed" \in Outcomes
    BY PoolAssumption DEF Outcomes
  <2> QED BY <1>5, <2>2, <2>3
<1>8. lines'[w] = Append(L, x)
  BY <1>0, <1>4 DEF ProcTypes
<1>9. /\ UNCHANGED <<grp, received, pc, proc, task, ptask>> /\ ppos'[w] = p + 1
  BY <1>0 DEF RunItem, threadVars, ProcTypes
<1>10. Answered(w)' = p + 1
  BY <1>1, <1>9 DEF Answered
<1>11. r <= p /\ InOrder(L, g, r, p)
  BY <1>1, <1>2 DEF Aligned
<1>12. InOrder(Append(L, x), g, r, p + 1)
  BY <1>3, <1>6, <1>7, <1>11, InOrderNext
<1> HIDE DEF L, r, g, p
<1>13. /\ r <= p + 1 /\ p + 1 <= Size[g]
       /\ grp'[w] = g /\ received'[w] = r /\ task'[w] = 0 /\ ptask'[w] = g
       /\ pc'[w] = "drain" /\ proc'[w] = "running"
  BY <1>1, <1>2, <1>3, <1>9, <1>11 DEF r, g
<1>14. Aligned(w)'
  BY Zenon, <1>8, <1>10, <1>12, <1>13 DEF Aligned
<1>15. NoneStale(w)'
  BY ONLY <1>13 DEF NoneStale
<1>16. OldAnswered(w)'
  <2>1. ppos'[w] <= Size[ptask'[w]]
    BY ONLY Zenon, <1>9, <1>13
  <2> QED BY ONLY <1>13, <2>1 DEF OldAnswered
<1> QED BY <1>14, <1>15, <1>16

\* Every step keeps the answers of each worker in line with its thread.
LEMMA PipeStep ==
  ASSUME "swallow" \notin Faults, TypeInv, PipeInv, [Next]_vars
  PROVE  PipeInv'
<1>0. ThreadTypes /\ ProcTypes /\ Held
  BY DEF TypeInv, TypeOK
<1>1. ASSUME NEW w \in Workers, WorkerStep(w) PROVE PipeInv'
  <2>0. Aligned(w) /\ NoneStale(w) /\ OldAnswered(w)
    BY DEF PipeInv
  <2>1. SUFFICES Aligned(w)' /\ NoneStale(w)' /\ OldAnswered(w)'
    BY <1>1, OtherPipes, PipeUnchanged DEF PipeInv
  <2>2. CASE DrainAnswer(w)
    BY <2>0, <2>2, DrainAnswerPipe
  <2>3. CASE RunItem(w)
    BY <2>0, <2>3, RunItemPipe
  <2>4. CASE DrainOther(w)
    <3>1. lines'[w] = Tail(lines[w])
      BY <1>0, <2>4 DEF DrainOther, ProcTypes
    <3> QED BY <2>0, <2>4, <3>1, OtherLinePipe DEF DrainOther, threadVars
  <2>5. CASE WriteDiagnostic(w) \/ PrintLine(w)
    <3>1. \A kind \in {"diagnostic", "noise", "trace"} :
            LET x == Line(kind, NoItem, "passed") IN x \in Lines /\ ~IsAnswer(x)
      BY DEF Line, Lines, LineKinds, Outcomes, IsAnswer
    <3>2. \E kind \in {"diagnostic", "noise", "trace"} :
            lines'[w] = Append(lines[w], Line(kind, NoItem, "passed"))
      BY Zenon, <1>0, <2>5, PoolAssumption DEF WriteDiagnostic, PrintLine, Write, ProcTypes
    <3>3. \E x \in Lines : ~IsAnswer(x) /\ lines'[w] = Append(lines[w], x)
      BY <3>1, <3>2
    <3> QED BY <2>0, <2>5, <3>3, OtherLinePipe DEF WriteDiagnostic, PrintLine, threadVars
  <2>6. CASE TailLine(w)
    <3>1. lines[w] \in Seq(Lines) /\ lines[w] # <<>> /\ lines'[w] = Tail(lines[w])
      BY <1>0, <2>6 DEF TailLine, ProcTypes
    <3>2. /\ pc[w] = "tail" /\ pc'[w] \in {"tail", "wait"}
          /\ UNCHANGED <<grp, received, proc, task, ptask, ppos>>
      BY <1>0, <2>6 DEF TailLine, ThreadTypes
    <3>3. \A n \in 1..Len(lines[w]) : ~IsAnswer(lines[w][n])
      BY <2>0, <3>2 DEF NoneStale
    <3>4. \A n \in 1..Len(lines'[w]) : ~IsAnswer(lines'[w][n])
      BY <3>1, <3>3, TailLines
    <3>5. Aligned(w)' /\ NoneStale(w)'
      BY <2>0, <3>2, <3>4 DEF Aligned, NoneStale
    <3>6. OldAnswered(w)'
      BY <2>0, <3>2 DEF OldAnswered
    <3> QED BY <3>5, <3>6
  <2>7. CASE SendTask(w)
    <3>1. grp[w] \in Groups /\ grp[w] # 0 /\ Size[grp[w]] \in Nat
      BY <1>0, <2>7, PoolAssumption DEF SendTask, Held, HoldsGroup, Groups
    <3>2. /\ pc'[w] = "drain" /\ task'[w] = grp[w]
          /\ UNCHANGED <<grp, received, proc, ptask, ppos, lines>>
      BY <1>0, <2>7 DEF SendTask, ThreadTypes, ProcTypes
    <3>3. /\ received[w] = 0 /\ pc[w] = "send"
          /\ \A n \in 1..Len(lines[w]) : ~IsAnswer(lines[w][n])
      BY Zenon, <2>0, <2>7 DEF SendTask, NoneStale
    <3>4. Answered(w)' = 0
      BY <3>1, <3>2 DEF Answered
    <3>5. InOrder(lines[w], grp[w], 0, 0)
      BY <3>3 DEF InOrder
    <3>6. Aligned(w)'
      BY <3>1, <3>2, <3>3, <3>4, <3>5 DEF Aligned
    <3> QED BY Zenon, <2>0, <3>1, <3>2, <3>3, <3>6 DEF NoneStale, OldAnswered
  <2>8. CASE ReadTask(w)
    <3>1. /\ UNCHANGED <<pc, grp, received, lines>>
          /\ proc'[w] = "running" /\ ptask'[w] = task[w] /\ ppos'[w] = 0 /\ task'[w] = 0
          /\ task[w] # 0
      BY <1>0, <2>8 DEF ReadTask, ProcTypes, threadVars
    <3>2. task[w] \in Groups /\ Size[task[w]] \in Nat
      BY <1>0, <3>1, PoolAssumption DEF ProcTypes, Groups
    <3>3. pc[w] \in {"drain", "wait", "done"}
      BY <1>0, <2>0, <3>1 DEF NoneStale, ThreadTypes
    <3>4. Answered(w)' = 0 /\ Answered(w) = 0
      BY <3>1 DEF Answered
    <3>5. Aligned(w)'
      BY Zenon, <2>0, <3>1, <3>4 DEF Aligned
    <3> QED BY <3>1, <3>2, <3>3, <3>5 DEF NoneStale, OldAnswered
  <2>9. CASE PopGroup(w)
    BY Zenon, <1>0, <2>0, <2>9
    DEF PopGroup, procVars, ThreadTypes, Aligned, NoneStale, OldAnswered
  <2>10. CASE SpawnWorker(w) \/ SpawnFails(w) \/ LeaveLoop(w) \/ SendTaskFails(w)
              \/ DrainTimedOut(w) \/ DrainDisconnected(w) \/ TailTimedOut(w)
              \/ TailDisconnected(w) \/ ReapChild(w)
    <3>1. /\ UNCHANGED <<grp, received, task, ptask, ppos, lines>>
          /\ pc'[w] # "drain" /\ pc'[w] # "send"
          /\ pc'[w] \in {"wait", "done"} \/ pc[w] \in {"spawn", "loop", "send", "tail"}
          /\ proc'[w] = "running" => proc[w] = "running"
          /\ pc'[w] \in {"wait", "done"} \/ proc'[w] # "running" \/ pc[w] # "drain"
      <4>1. CASE SpawnWorker(w) \/ SpawnFails(w) \/ LeaveLoop(w) \/ SendTaskFails(w)
        BY <1>0, <4>1
        DEF SpawnWorker, SpawnFails, LeaveLoop, SendTaskFails, procVars, ThreadTypes, ProcTypes
      <4>2. CASE DrainTimedOut(w) \/ DrainDisconnected(w)
        BY <1>0, <4>2
        DEF DrainTimedOut, DrainDisconnected, Killed, procVars, ThreadTypes, ProcTypes
      <4>3. CASE TailTimedOut(w) \/ TailDisconnected(w) \/ ReapChild(w)
        BY <1>0, <4>3
        DEF TailTimedOut, TailDisconnected, ReapChild, procVars, ThreadTypes, ProcTypes
      <4> QED BY Zenon, <2>10, <4>1, <4>2, <4>3
    <3> QED BY Zenon, <2>0, <3>1 DEF Aligned, NoneStale, OldAnswered
  <2>11. CASE EndTask(w) \/ StdinEof(w) \/ Exit(w) \/ BrokenPipe(w) \/ PrintBrokenPipe(w)
              \/ BeginDiagnostic(w) \/ Misbehave(w)
    <3>1. /\ UNCHANGED <<pc, grp, received, task, ptask, ppos, lines>>
          /\ proc'[w] = "running" => proc[w] = "running"
      BY <1>0, <2>11
      DEF EndTask, StdinEof, Exit, BrokenPipe, PrintBrokenPipe, BeginDiagnostic, Misbehave,
          Crash, TaskDies, Wedge, threadVars, ProcTypes
    <3> QED BY Zenon, <2>0, <3>1 DEF Aligned, NoneStale, OldAnswered, Answered
  <2> QED
    BY <1>1, <2>2, <2>3, <2>4, <2>5, <2>6, <2>7, <2>8, <2>9, <2>10, <2>11
    DEF WorkerStep, ThreadStep, Watchdog, ProcessStep
<1>2. CASE Coordinator \/ UNCHANGED vars
  <2>1. UNCHANGED <<threadVars, procVars>>
    BY Zenon, <1>2, CoordinatorLeaves DEF vars
  <2>2. \A v \in Workers : UNCHANGED PipeOf(v)
    BY Zenon, <2>1 DEF threadVars, procVars, PipeOf
  <2> QED BY <2>2, PipeUnchanged DEF PipeInv
<1> QED BY <1>1, <1>2 DEF Next, Finished, WorkerStep
=============================================================================
