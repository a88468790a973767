----------------------------- MODULE WorkerPool -----------------------------
(***************************************************************************)
(* The parallel phase of a run: `run_phase_parallel` (parallel/mod.rs),    *)
(* one coordinator thread per worker running `run_worker_loop`             *)
(* (worker_session.rs) with its two drains (parallel/drain.rs), the worker *)
(* subprocesses (`run` and `main` of _bridge/worker.py) and the pipes and  *)
(* channels between them.                                                  *)
(*                                                                         *)
(* A test item is <<g, k>>, the k-th item of group g.  Groups leave the    *)
(* scheduler's queue in order and nothing is ever pushed back, so the      *)
(* queue is the number `next` of its first group.  `lines` is the stdout   *)
(* pipe, its reader thread and the bounded line channel taken together:    *)
(* the reader only copies, and a dropped receiver is a broken pipe.        *)
(***************************************************************************)
EXTENDS Integers, Sequences, FiniteSets

CONSTANTS
  Requested,    \* the worker count the caller asks for
  NumGroups,    \* how many task groups the phase has
  Size,         \* Size[g]: how many items group g has
  MaxFail,      \* --maxfail; 0 means no limit
  HasProcessFixtures, \* the suite declares a lifetime="process" fixture
  TaskFits,     \* a task line fits in the stdin pipe while nobody reads it
  PipeCap,      \* lines the stdout pipe and the line channel hold
  MaxTailLines, \* MAX_TAIL_LINES
  MaxDiags,     \* bound: diagnostic lines one subprocess emits
  RunOutcomes,  \* outcomes a test that runs may have: passed, failed
  Prints,       \* kinds of line outside the protocol's results that tests print
  Faults        \* what may go wrong in a subprocess, out of FaultKinds

\* crash: the subprocess dies.  die: an exception escapes `run`, and the two
\* `finally` blocks end the process.  wedge: a test never returns.  stall: a
\* teardown never returns.  swallow: a result is glued to unterminated output.
\* garble: a result line that does not parse and names no test.  spawn: the
\* subprocess cannot be started.
FaultKinds == {"crash", "die", "wedge", "stall", "swallow", "garble", "spawn"}

ASSUME PoolAssumption ==
  /\ Requested \in Nat
  /\ NumGroups \in Nat
  /\ Size \in [1..NumGroups -> Nat \ {0}]
  /\ MaxFail \in Nat
  /\ HasProcessFixtures \in BOOLEAN
  /\ TaskFits \in BOOLEAN
  /\ PipeCap \in Nat \ {0}
  /\ MaxTailLines \in Nat
  /\ MaxDiags \in Nat
  /\ RunOutcomes \subseteq {"passed", "failed"} /\ RunOutcomes # {}
  /\ Prints \subseteq {"noise", "trace"}
  /\ Faults \subseteq FaultKinds

AtLeastOne(n) == IF n >= 1 THEN n ELSE 1
WorkerCount ==
  IF AtLeastOne(Requested) <= AtLeastOne(NumGroups)
    THEN AtLeastOne(Requested)
    ELSE AtLeastOne(NumGroups)
Workers == 1..WorkerCount

Groups == 1..NumGroups
Items == UNION {{g} \X (1..Size[g]) : g \in Groups}
NoItem == <<0, 0>>   \* the node id of a result that names no test

Outcomes == {"passed", "failed", "crashed", "timedout"}
\* Mutant: the sentinels of a crash are not counted.
SentinelsSoft(o) == o \in {"failed", "timedout"}
IsHardFailure(o) == o # "passed"

VARIABLES
  \* the coordinator: run_phase_parallel and what it shares with its threads
  coord,       \* "recv", "stopping", "join" or "done"
  next,        \* the scheduler: first group still queued
  cancelled,   \* the flag the worker loops read
  rx,          \* the result channel
  inFlight,    \* the in-flight set
  fails,       \* FailureAccumulator.count
  interrupted,
  reports,     \* reports[i]: outcomes reported for item i, in order
  recorded,    \* recorded[w]: diagnostics recorded for worker w
  skipWarned,  \* workers whose skipped process teardowns were reported
  \* the thread of each worker: run_worker_loop
  pc,          \* "spawn", "loop", "send", "drain", "tail", "wait" or "done"
  grp,         \* the group it popped last
  received,    \* results counted by the current drain
  tailRead,    \* lines read by the tail drain
  \* the subprocess of each worker and its pipes
  proc,        \* "none", "idle", "running", "ending", "wedged", "exited", "dead"
  task,        \* the task waiting in its stdin pipe; 0 when there is none
  ptask,       \* the task it read last; 0 before the first
  ppos,        \* items of ptask it has answered
  writing,     \* it is writing a diagnostic line
  emitted,     \* diagnostic lines it has written
  lines        \* lines written to stdout and not read yet

coordVars == <<coord, next, cancelled, rx, inFlight, fails, interrupted,
               reports, recorded, skipWarned>>
threadVars == <<pc, grp, received, tailRead>>
procVars == <<proc, task, ptask, ppos, writing, emitted, lines>>
vars == <<coordVars, threadVars, procVars>>

-----------------------------------------------------------------------------
(* Messages on the result channel and lines on a worker's stdout. *)

ResultMessage(i, o, w) == [kind |-> "result", item |-> i, outcome |-> o, from |-> w]
DiagMessage(w) == [kind |-> "diagnostic", item |-> NoItem, outcome |-> "passed", from |-> w]
SkippedMessage(w) == [kind |-> "skipped", item |-> NoItem, outcome |-> "passed", from |-> w]
Messages == [kind : {"result", "diagnostic", "skipped"}, item : Items \cup {NoItem},
             outcome : Outcomes, from : Workers]

Line(kind, i, o) == [kind |-> kind, item |-> i, outcome |-> o]
LineKinds == {"result", "garbled", "diagnostic", "trace", "noise"}
Lines == [kind : LineKinds, item : Items \cup {NoItem}, outcome : Outcomes]

\* A line the drain counts towards `received`.
IsAnswer(line) == line.kind \in {"result", "garbled"}
\* A line that pushes the watchdog's deadline back.
ResetsWatchdog(line) == line.kind # "noise"

\* What `tx.send` does: the receiver is gone once the consumer loop ended.
Send(msgs) == rx' = IF coord = "recv" THEN rx \o msgs ELSE rx

\* Mutant: no skip(received).
SentinelsForAll(g, n, o, w) == [j \in 1..Size[g] |-> ResultMessage(<<g, j>>, o, w)]
\* Mutant: skip(received + 1).
SentinelsOneShort(g, n, o, w) ==
  [j \in 1..(Size[g] - n - 1) |-> ResultMessage(<<g, n + 1 + j>>, o, w)]
\* The sentinels for the items of group g after its first n, in item order.
Sentinels(g, n, o, w) == [j \in 1..(Size[g] - n) |-> ResultMessage(<<g, n + j>>, o, w)]

\* The warning that a lost worker skipped its process-lifetime teardowns.
SkippedTeardowns(w) == IF HasProcessFixtures THEN <<SkippedMessage(w)>> ELSE <<>>

Init ==
  /\ coord = "recv" /\ next = 1 /\ cancelled = FALSE /\ rx = <<>>
  /\ inFlight = {} /\ fails = 0 /\ interrupted = FALSE
  /\ reports = [i \in Items |-> <<>>]
  /\ recorded = [w \in Workers |-> 0] /\ skipWarned = {}
  /\ pc = [w \in Workers |-> "spawn"]
  /\ grp = [w \in Workers |-> 0]
  /\ received = [w \in Workers |-> 0]
  /\ tailRead = [w \in Workers |-> 0]
  /\ proc = [w \in Workers |-> "none"]
  /\ task = [w \in Workers |-> 0]
  /\ ptask = [w \in Workers |-> 0]
  /\ ppos = [w \in Workers |-> 0]
  /\ writing = [w \in Workers |-> FALSE]
  /\ emitted = [w \in Workers |-> 0]
  /\ lines = [w \in Workers |-> <<>>]

-----------------------------------------------------------------------------
(* The coordinator: the consumer loop of run_phase_parallel and its end. *)

GroupItems(g) == {g} \X (1..Size[g])

\* FailureAccumulator::record: the count after outcome o, and whether to stop.
Recorded(o) == IF IsHardFailure(o) THEN fails + 1 ELSE fails
\* Mutant: one failure too many.
StopAfterLate(o) == MaxFail > 0 /\ Recorded(o) > MaxFail
StopAfter(o) == MaxFail > 0 /\ Recorded(o) >= MaxFail

RecvDiagnostic ==
  /\ coord = "recv" /\ rx # <<>> /\ Head(rx).kind # "result"
  /\ IF Head(rx).kind = "diagnostic"
       THEN /\ recorded' = [recorded EXCEPT ![Head(rx).from] = @ + 1]
            /\ UNCHANGED skipWarned
       ELSE /\ skipWarned' = skipWarned \cup {Head(rx).from}
            /\ UNCHANGED recorded
  /\ rx' = Tail(rx)
  /\ UNCHANGED <<coord, next, cancelled, inFlight, fails, interrupted, reports,
                 threadVars, procVars>>

\* Mutant: the in-flight set is never pruned.
NeverRemoved(i) == inFlight
InFlightWithout(i) == inFlight \ {i}

\* handle_worker_result: a result that names no item of the phase is skipped.
RecvResult ==
  /\ coord = "recv" /\ rx # <<>> /\ Head(rx).kind = "result"
  /\ LET i == Head(rx).item
         o == Head(rx).outcome
         known == i \in Items
         stop == known /\ StopAfter(o)
     IN /\ inFlight' = InFlightWithout(i)
        /\ reports' = IF known THEN [reports EXCEPT ![i] = Append(@, o)] ELSE reports
        /\ fails' = IF known THEN Recorded(o) ELSE fails
        /\ interrupted' = stop
        /\ coord' = IF stop THEN "stopping" ELSE "recv"
        /\ rx' = IF stop THEN <<>> ELSE Tail(rx)
  /\ UNCHANGED <<next, cancelled, recorded, skipWarned, threadVars, procVars>>

\* Every thread has returned and with it the last sender of the channel.
RecvClosed ==
  /\ coord = "recv" /\ rx = <<>> /\ \A w \in Workers : pc[w] = "done"
  /\ coord' = "stopping"
  /\ UNCHANGED <<next, cancelled, rx, inFlight, fails, interrupted, reports,
                 recorded, skipWarned, threadVars, procVars>>

\* Mutant: the leftover drain ignores why the phase stopped.
AllQueued == {i \in Items : i[1] >= next}
\* drain_remaining_into_crashed: the items of the groups nobody popped, none
\* when --maxfail stopped the phase.
Leftover == IF interrupted THEN {} ELSE {i \in Items : i[1] >= next}

\* The leftover drain, then the store to `cancelled`.
StopPhase ==
  /\ coord = "stopping"
  /\ reports' = [i \in Items |-> IF i \in Leftover THEN Append(reports[i], "crashed")
                                                  ELSE reports[i]]
  /\ next' = IF interrupted THEN next ELSE NumGroups + 1
  /\ cancelled' = TRUE
  /\ coord' = "join"
  /\ UNCHANGED <<rx, inFlight, fails, interrupted, recorded, skipWarned,
                 threadVars, procVars>>

JoinThreads ==
  /\ coord = "join" /\ \A w \in Workers : pc[w] = "done"
  /\ coord' = "done"
  /\ UNCHANGED <<next, cancelled, rx, inFlight, fails, interrupted, reports,
                 recorded, skipWarned, threadVars, procVars>>

Coordinator == RecvDiagnostic \/ RecvResult \/ RecvClosed \/ StopPhase \/ JoinThreads

-----------------------------------------------------------------------------
(* The thread of worker w: spawn_worker, run_worker_loop. *)

Gone(w) == proc[w] \in {"exited", "dead"}

SpawnWorker(w) ==
  /\ pc[w] = "spawn"
  /\ pc' = [pc EXCEPT ![w] = "loop"]
  /\ proc' = [proc EXCEPT ![w] = "idle"]
  /\ UNCHANGED <<coordVars, grp, received, tailRead, task, ptask, ppos, writing, emitted, lines>>

SpawnFails(w) ==
  /\ pc[w] = "spawn" /\ "spawn" \in Faults
  /\ pc' = [pc EXCEPT ![w] = "done"]
  /\ UNCHANGED <<coordVars, grp, received, tailRead, procVars>>

\* Mutant: off by one at the end of the queue.
QueuedOneMore == next <= NumGroups + 1
\* Scheduler::pop has a group to return.
Queued == next <= NumGroups

PopGroup(w) ==
  /\ pc[w] = "loop" /\ ~cancelled /\ Queued
  /\ grp' = [grp EXCEPT ![w] = next]
  /\ received' = [received EXCEPT ![w] = 0]
  /\ next' = next + 1
  /\ pc' = [pc EXCEPT ![w] = "send"]
  /\ UNCHANGED <<coord, cancelled, rx, inFlight, fails, interrupted, reports,
                 recorded, skipWarned, tailRead, procVars>>

\* The loop ends with the subprocess alive: stdin is closed, the tail is read.
LeaveLoop(w) ==
  /\ pc[w] = "loop" /\ (cancelled \/ ~Queued)
  /\ pc' = [pc EXCEPT ![w] = "tail"]
  /\ UNCHANGED <<coordVars, grp, received, tailRead, procVars>>

\* The write blocks while the pipe is full, that is until the subprocess reads.
SendTask(w) ==
  /\ pc[w] = "send" /\ ~Gone(w) /\ (TaskFits \/ proc[w] = "idle")
  /\ task' = [task EXCEPT ![w] = grp[w]]
  /\ inFlight' = inFlight \cup GroupItems(grp[w])
  /\ pc' = [pc EXCEPT ![w] = "drain"]
  /\ UNCHANGED <<coord, next, cancelled, rx, fails, interrupted, reports, recorded,
                 skipWarned, grp, received, tailRead, proc, ptask, ppos, writing, emitted, lines>>

\* The write fails on a broken pipe; `subprocess_alive` stays true.
SendTaskFails(w) ==
  /\ pc[w] = "send" /\ Gone(w)
  /\ Send(Sentinels(grp[w], 0, "crashed", w))
  /\ pc' = [pc EXCEPT ![w] = "tail"]
  /\ UNCHANGED <<coord, next, cancelled, inFlight, fails, interrupted, reports,
                 recorded, skipWarned, grp, received, tailRead, procVars>>

\* drain_worker_results, an answer: counted, forwarded, Complete at the last one.
DrainAnswer(w) ==
  /\ pc[w] = "drain" /\ lines[w] # <<>> /\ IsAnswer(Head(lines[w]))
  /\ LET line == Head(lines[w])
     IN Send(<<IF line.kind = "result" THEN ResultMessage(line.item, line.outcome, w)
                                       ELSE ResultMessage(NoItem, "failed", w)>>)
  /\ lines' = [lines EXCEPT ![w] = Tail(@)]
  /\ received' = [received EXCEPT ![w] = @ + 1]
  /\ pc' = [pc EXCEPT ![w] = IF received[w] + 1 >= Size[grp[w]] THEN "loop" ELSE "drain"]
  /\ UNCHANGED <<coord, next, cancelled, inFlight, fails, interrupted, reports, recorded,
                 skipWarned, grp, tailRead, proc, task, ptask, ppos, writing, emitted>>

\* drain_worker_results, any other line: counts towards nothing.
DrainOther(w) ==
  /\ pc[w] = "drain" /\ lines[w] # <<>> /\ ~IsAnswer(Head(lines[w]))
  /\ Send(IF Head(lines[w]).kind = "diagnostic" THEN <<DiagMessage(w)>> ELSE <<>>)
  /\ lines' = [lines EXCEPT ![w] = Tail(@)]
  /\ UNCHANGED <<coord, next, cancelled, inFlight, fails, interrupted, reports, recorded,
                 skipWarned, threadVars, proc, task, ptask, ppos, writing, emitted>>

\* Mutant: the unresponsive subprocess is not killed.
NotKilled(w) == proc[w]
\* child.kill(): no effect on a process that has ended.
Killed(w) == IF Gone(w) THEN proc[w] ELSE "dead"

\* The watchdog of a drain, then handle_drain_outcome: kill, warn, sentinels.
\* A slow answer and a missing one look alike, so it may fire at any moment.
DrainTimedOut(w) ==
  /\ pc[w] = "drain"
  /\ proc' = [proc EXCEPT ![w] = Killed(w)]
  /\ Send(SkippedTeardowns(w) \o Sentinels(grp[w], received[w], "timedout", w))
  /\ pc' = [pc EXCEPT ![w] = "wait"]
  /\ UNCHANGED <<coord, next, cancelled, inFlight, fails, interrupted, reports, recorded,
                 skipWarned, grp, received, tailRead, task, ptask, ppos, writing, emitted, lines>>

\* The subprocess closed stdout and every line it wrote has been read.
DrainDisconnected(w) ==
  /\ pc[w] = "drain" /\ lines[w] = <<>> /\ Gone(w)
  /\ Send(SkippedTeardowns(w) \o Sentinels(grp[w], received[w], "crashed", w))
  /\ pc' = [pc EXCEPT ![w] = "wait"]
  /\ UNCHANGED <<coord, next, cancelled, inFlight, fails, interrupted, reports, recorded,
                 skipWarned, grp, received, tailRead, procVars>>

\* Mutant: the tail drain throws away what it reads.
TailDiscards(w) ==
  /\ pc[w] = "tail" /\ lines[w] # <<>>
  /\ lines' = [lines EXCEPT ![w] = Tail(@)]
  /\ tailRead' = [tailRead EXCEPT ![w] = @ + 1]
  /\ UNCHANGED <<coordVars, pc, grp, received, proc, task, ptask, ppos, writing, emitted>>

\* drain_until_eof: one line; the one past the cap ends the drain unread.
TailLine(w) ==
  /\ pc[w] = "tail" /\ lines[w] # <<>>
  /\ lines' = [lines EXCEPT ![w] = Tail(@)]
  /\ IF tailRead[w] + 1 > MaxTailLines
       THEN /\ pc' = [pc EXCEPT ![w] = "wait"]
            /\ UNCHANGED <<rx, tailRead>>
       ELSE /\ tailRead' = [tailRead EXCEPT ![w] = @ + 1]
            /\ Send(IF Head(lines[w]).kind = "diagnostic" THEN <<DiagMessage(w)>> ELSE <<>>)
            /\ UNCHANGED pc
  /\ UNCHANGED <<coord, next, cancelled, inFlight, fails, interrupted, reports, recorded,
                 skipWarned, grp, received, proc, task, ptask, ppos, writing, emitted>>

TailTimedOut(w) ==
  /\ pc[w] = "tail"
  /\ pc' = [pc EXCEPT ![w] = "wait"]
  /\ UNCHANGED <<coordVars, grp, received, tailRead, procVars>>

TailDisconnected(w) ==
  /\ pc[w] = "tail" /\ lines[w] = <<>> /\ Gone(w)
  /\ pc' = [pc EXCEPT ![w] = "wait"]
  /\ UNCHANGED <<coordVars, grp, received, tailRead, procVars>>

\* Mutant: the child is not waited for.
ReturnUnreaped(w) ==
  /\ pc[w] = "wait"
  /\ pc' = [pc EXCEPT ![w] = "done"]
  /\ UNCHANGED <<coordVars, grp, received, tailRead, procVars>>

\* child.wait(), which has no deadline; the thread returns and drops its sender.
ReapChild(w) ==
  /\ pc[w] = "wait" /\ Gone(w)
  /\ pc' = [pc EXCEPT ![w] = "done"]
  /\ UNCHANGED <<coordVars, grp, received, tailRead, procVars>>

\* What a thread does without waiting for its watchdog.
ThreadStep(w) ==
  \/ SpawnWorker(w) \/ SpawnFails(w) \/ PopGroup(w) \/ LeaveLoop(w)
  \/ SendTask(w) \/ SendTaskFails(w) \/ DrainAnswer(w) \/ DrainOther(w)
  \/ DrainDisconnected(w) \/ TailLine(w) \/ TailDisconnected(w) \/ ReapChild(w)

Watchdog(w) == DrainTimedOut(w) \/ TailTimedOut(w)

-----------------------------------------------------------------------------
(* The subprocess of worker w: main and run of worker.py. *)

StdinClosed(w) == pc[w] \in {"tail", "wait", "done"}
StdoutClosed(w) == pc[w] \in {"wait", "done"}
Room(w) == ~StdoutClosed(w) /\ Len(lines[w]) < PipeCap

Write(w, line) == lines' = [lines EXCEPT ![w] = Append(@, line)]

ReadTask(w) ==
  /\ proc[w] = "idle" /\ task[w] # 0
  /\ proc' = [proc EXCEPT ![w] = "running"]
  /\ ptask' = [ptask EXCEPT ![w] = task[w]]
  /\ ppos' = [ppos EXCEPT ![w] = 0]
  /\ task' = [task EXCEPT ![w] = 0]
  /\ UNCHANGED <<coordVars, threadVars, writing, emitted, lines>>

\* The lines the next answer of w can become on the wire.
Answers(w) ==
  LET i == <<ptask[w], ppos[w] + 1>>
  IN {Line("result", i, o) : o \in RunOutcomes}
     \cup (IF "garble" \in Faults THEN {Line("garbled", i, "failed")} ELSE {})
     \cup (IF "swallow" \in Faults THEN {Line("noise", NoItem, "passed")} ELSE {})

RunItem(w) ==
  /\ proc[w] = "running" /\ ppos[w] < Size[ptask[w]] /\ Room(w) /\ ~writing[w]
  /\ \E line \in Answers(w) : Write(w, line)
  /\ ppos' = [ppos EXCEPT ![w] = @ + 1]
  /\ UNCHANGED <<coordVars, threadVars, proc, task, ptask, writing, emitted>>

\* end_module and end_task after the last item; then the next stdin line.
EndTask(w) ==
  /\ proc[w] = "running" /\ ppos[w] = Size[ptask[w]] /\ ~writing[w]
  /\ proc' = [proc EXCEPT ![w] = "idle"]
  /\ UNCHANGED <<coordVars, threadVars, task, ptask, ppos, writing, emitted, lines>>

StdinEof(w) ==
  /\ proc[w] = "idle" /\ task[w] = 0 /\ StdinClosed(w)
  /\ proc' = [proc EXCEPT ![w] = "ending"]
  /\ UNCHANGED <<coordVars, threadVars, task, ptask, ppos, writing, emitted, lines>>

\* end_process has run.
Exit(w) ==
  /\ proc[w] = "ending" /\ ~writing[w]
  /\ proc' = [proc EXCEPT ![w] = "exited"]
  /\ UNCHANGED <<coordVars, threadVars, task, ptask, ppos, writing, emitted, lines>>

\* _emit of a diagnostic, in two steps: the write waits for room, and nothing
\* else happens in the subprocess meanwhile.
BeginDiagnostic(w) ==
  /\ proc[w] \in {"running", "ending"} /\ ~writing[w] /\ ptask[w] # 0 /\ emitted[w] < MaxDiags
  /\ writing' = [writing EXCEPT ![w] = TRUE]
  /\ UNCHANGED <<coordVars, threadVars, proc, task, ptask, ppos, emitted, lines>>

WriteDiagnostic(w) ==
  /\ writing[w] /\ proc[w] \in {"running", "ending"} /\ Room(w)
  /\ Write(w, Line("diagnostic", NoItem, "passed"))
  /\ emitted' = [emitted EXCEPT ![w] = @ + 1]
  /\ writing' = [writing EXCEPT ![w] = FALSE]
  /\ UNCHANGED <<coordVars, threadVars, proc, task, ptask, ppos>>

\* The coordinator dropped its end of stdout: BrokenPipeError ends the process.
BrokenPipe(w) ==
  /\ writing[w] /\ proc[w] \in {"running", "ending"} /\ StdoutClosed(w)
  /\ proc' = [proc EXCEPT ![w] = "dead"]
  /\ UNCHANGED <<coordVars, threadVars, task, ptask, ppos, writing, emitted, lines>>

\* A test, or a teardown, prints; so does one that never returns.
PrintLine(w) ==
  /\ proc[w] \in {"running", "ending", "wedged"} /\ ~writing[w] /\ Room(w)
  /\ \E kind \in Prints : Write(w, Line(kind, NoItem, "passed"))
  /\ UNCHANGED <<coordVars, threadVars, proc, task, ptask, ppos, writing, emitted>>

PrintBrokenPipe(w) ==
  /\ proc[w] \in {"running", "ending", "wedged"} /\ ~writing[w] /\ StdoutClosed(w)
  /\ Prints # {}
  /\ proc' = [proc EXCEPT ![w] = "dead"]
  /\ UNCHANGED <<coordVars, threadVars, task, ptask, ppos, writing, emitted, lines>>

\* What a subprocess does on its own as long as no test or teardown hangs.
ProcessStep(w) ==
  \/ ReadTask(w) \/ RunItem(w) \/ EndTask(w) \/ StdinEof(w) \/ Exit(w)
  \/ WriteDiagnostic(w) \/ BrokenPipe(w)

Crash(w) ==
  /\ "crash" \in Faults /\ proc[w] \in {"idle", "running", "ending"}
  /\ proc' = [proc EXCEPT ![w] = "dead"]
  /\ UNCHANGED <<coordVars, threadVars, task, ptask, ppos, writing, emitted, lines>>

TaskDies(w) ==
  /\ "die" \in Faults /\ proc[w] = "running" /\ ~writing[w] /\ ppos[w] < Size[ptask[w]]
  /\ proc' = [proc EXCEPT ![w] = "ending"]
  /\ UNCHANGED <<coordVars, threadVars, task, ptask, ppos, writing, emitted, lines>>

Wedge(w) ==
  /\ ~writing[w]
  /\ \/ "wedge" \in Faults /\ proc[w] = "running" /\ ppos[w] < Size[ptask[w]]
     \/ "stall" \in Faults /\ proc[w] = "running" /\ ppos[w] = Size[ptask[w]]
     \/ "stall" \in Faults /\ proc[w] = "ending"
  /\ proc' = [proc EXCEPT ![w] = "wedged"]
  /\ UNCHANGED <<coordVars, threadVars, task, ptask, ppos, writing, emitted, lines>>

Misbehave(w) == Crash(w) \/ TaskDies(w) \/ Wedge(w)

-----------------------------------------------------------------------------
Finished == coord = "done" /\ UNCHANGED vars

Next ==
  \/ Coordinator
  \/ \E w \in Workers :
       \/ ThreadStep(w) \/ Watchdog(w)
       \/ ProcessStep(w) \/ BeginDiagnostic(w) \/ PrintLine(w) \/ PrintBrokenPipe(w)
       \/ Misbehave(w)
  \/ Finished

Spec == Init /\ [][Next]_vars

\* The watchdog's clock: it only has to fire once no line that pushes the
\* deadline back is waiting, and keeps not waiting.
DrainQuiet(w) == \A n \in 1..Len(lines[w]) : ~ResetsWatchdog(lines[w][n])
QuietWatchdog(w) ==
  \/ DrainQuiet(w) /\ DrainTimedOut(w)
  \/ lines[w] = <<>> /\ TailTimedOut(w)

Fairness ==
  /\ WF_vars(Coordinator)
  /\ \A w \in Workers : WF_vars(ThreadStep(w))
  /\ \A w \in Workers : WF_vars(QuietWatchdog(w))
  /\ \A w \in Workers : WF_vars(ProcessStep(w))

FairSpec == Spec /\ Fairness

-----------------------------------------------------------------------------
(* Properties. *)

CoordTypes ==
  /\ coord \in {"recv", "stopping", "join", "done"}
  /\ next \in 1..(NumGroups + 1)
  /\ cancelled \in BOOLEAN
  /\ rx \in Seq(Messages)
  /\ inFlight \subseteq Items
  /\ fails \in Nat
  /\ interrupted \in BOOLEAN
  /\ reports \in [Items -> Seq(Outcomes)]
  /\ recorded \in [Workers -> Nat]
  /\ skipWarned \subseteq Workers

ThreadTypes ==
  /\ pc \in [Workers -> {"spawn", "loop", "send", "drain", "tail", "wait", "done"}]
  /\ grp \in [Workers -> 0..NumGroups]
  /\ received \in [Workers -> Nat]
  /\ tailRead \in [Workers -> 0..MaxTailLines]

ProcTypes ==
  /\ proc \in [Workers -> {"none", "idle", "running", "ending", "wedged", "exited", "dead"}]
  /\ task \in [Workers -> 0..NumGroups]
  /\ ptask \in [Workers -> 0..NumGroups]
  /\ ppos \in [Workers -> Nat]
  /\ writing \in [Workers -> BOOLEAN]
  /\ emitted \in [Workers -> Nat]
  /\ lines \in [Workers -> Seq(Lines)]

\* Every variable keeps its type: the states of run_phase_parallel,
\* run_worker_loop and worker.py, and what their channels carry.
TypeOK == CoordTypes /\ ThreadTypes /\ ProcTypes

\* No test is reported twice: a result that was read before its worker was
\* killed, crashed or cut off is not followed by a sentinel for the same item
\* (the `skip(received)` of handle_drain_outcome), a late result is not read
\* after the sentinel, and the leftover drain takes only groups nobody popped.
ReportedAtMostOnce == \A i \in Items : Len(reports[i]) <= 1

\* When the phase returns without having been stopped by --maxfail, every test
\* has exactly one outcome, whatever its worker did: crashed, wedged, failed to
\* start, or died between two groups.
EveryItemReported ==
  coord = "done" /\ ~interrupted => \A i \in Items : Len(reports[i]) = 1

\* --maxfail stops the phase exactly at the limit: the accumulator never counts
\* past it, and the phase is interrupted only when the limit is reached.
StopsAtMaxFail ==
  MaxFail > 0 => fails <= MaxFail /\ (interrupted <=> fails = MaxFail)

\* Once --maxfail broke the consumer loop nothing more is reported, although
\* the workers still run and send (drain_remaining_into_crashed returns early).
NothingAfterStop == [][interrupted => reports' = reports]_vars

\* A phase that ran to its end leaves nothing in flight.
NothingLeftInFlight == coord = "done" /\ ~interrupted => inFlight = {}

\* The phase never returns while a subprocess it started is still running.
NoSubprocessLeft == coord = "done" => \A w \in Workers : proc[w] = "none" \/ Gone(w)

\* No diagnostic is lost on its way: below the cap of the tail drain, what a
\* worker wrote has been recorded or is still unread in its pipe (the thread
\* stopped reading). That includes the teardown diagnostics written after the
\* last answer, which only the tail drain can read.
Unread(w) == Cardinality({n \in 1..Len(lines[w]) : lines[w][n].kind = "diagnostic"})
DiagnosticsRecorded ==
  coord = "done" /\ ~interrupted =>
    \A w \in Workers : tailRead[w] < MaxTailLines => recorded[w] + Unread(w) = emitted[w]

\* The phase always returns.
PhaseReturns == <>(coord = "done")

\* The contract of an execution phase, with the first report as the verdict.
Contract == INSTANCE PhaseContract WITH
  verdict <- [i \in Items |-> IF reports[i] = <<>> THEN "none" ELSE Head(reports[i])],
  stopped <- interrupted,
  ended <- (coord = "done")

\* The parallel phase implements the contract of an execution phase.
ImplementsContract == Contract!Spec

\* A worker that died after running a task, without its process-lifetime
\* teardowns, is named in a warning.  The code does not keep this: see the
\* README.
LostTeardownsWarned ==
  coord = "done" /\ ~interrupted /\ HasProcessFixtures =>
    \A w \in Workers : proc[w] = "dead" /\ ptask[w] # 0 => w \in skipWarned

\* A sentinel stands for a test whose result was never read: no item has both
\* a result of its own and a sentinel.  The code does not keep this under the
\* fault "swallow": see the README.
ShortfallIsAccurate ==
  \A i \in Items : \A m, n \in 1..Len(reports[i]) :
    reports[i][m] \in {"crashed", "timedout"} /\ reports[i][n] \in {"passed", "failed"} => FALSE
=============================================================================
