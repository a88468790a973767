--------------------------- MODULE WorkerSession ---------------------------
(***************************************************************************)
(* The fixture session of one worker process: `run` drives it through each *)
(* task the coordinator sends and ends the task's modules and the task;    *)
(* `main` ends the process when stdin closes or an interrupt escapes.      *)
(***************************************************************************)
EXTENDS FixtureSession

CONSTANT Tasks   \* the tasks the worker receives: sequences of [path, tests]

VARIABLES
  agenda,        \* what the current task has still to do
  later,         \* the tasks not yet read
  ended          \* end_process has run

workerVars == <<agenda, later, ended>>
vars == <<fixtureVars, workerVars>>

Event(op, path) == [op |-> op, path |-> path]

\* _end_task_session, which run's `finally` calls: every module, then the task.
TaskEnd(task) ==
  [n \in DOMAIN task |-> Event("end_module", task[n].path)] \o <<Event("end_task", NoPath)>>

TaskEvents(task) ==
  FlattenSeq([n \in DOMAIN task |-> [i \in 1..task[n].tests |-> Event("test", task[n].path)]])
    \o TaskEnd(task)

Init == FixtureInit /\ agenda = <<>> /\ later = Tasks /\ ended = FALSE

ReadTask ==
  /\ stage = "idle" /\ agenda = <<>> /\ later # <<>> /\ ~ ended
  /\ agenda' = TaskEvents(Head(later)) /\ later' = Tail(later)
  /\ UNCHANGED <<fixtureVars, ended>>

Due(op) == stage = "idle" /\ agenda # <<>> /\ Head(agenda).op = op

StartTest ==
  /\ Due("test")
  /\ \E r \in Requests : Begin(Head(agenda).path, r)
  /\ UNCHANGED workerVars

InTest == stage # "idle" /\ TestStep /\ UNCHANGED workerVars

\* The result is emitted.  An interrupt is not an Exception: it leaves the loop over
\* the tests, the `finally` ends the task, and main stops reading.
Emit ==
  /\ stage = "over"
  /\ stage' = "idle"
  /\ IF result = "interrupted"
       THEN /\ agenda' = SelectSeq(agenda, LAMBDA e : e.op # "test") /\ later' = <<>>
       ELSE agenda' = Tail(agenda) /\ UNCHANGED later
  /\ UNCHANGED <<sessionVars, module, ask, want, waiting, kept, moved, frames, held,
                 result, ended>>

FireEndModule ==
  /\ Due("end_module") /\ EndModule(Head(agenda).path)
  /\ agenda' = Tail(agenda) /\ UNCHANGED <<later, ended>>
FireEndTask ==
  /\ Due("end_task") /\ EndTask
  /\ agenda' = Tail(agenda) /\ UNCHANGED <<later, ended>>

\* main's `finally`: stdin is closed, or the interrupt is on its way out.
Exit ==
  /\ stage = "idle" /\ agenda = <<>> /\ later = <<>> /\ ~ ended
  /\ EndProcess
  /\ ended' = TRUE
  /\ UNCHANGED <<agenda, later>>

Finished == ended /\ UNCHANGED vars

Next ==
  \/ ReadTask \/ StartTest \/ InTest \/ (Interrupt /\ UNCHANGED workerVars) \/ Emit
  \/ FireEndModule \/ FireEndTask \/ Exit \/ Finished

Spec == Init /\ [][Next]_vars
-----------------------------------------------------------------------------

TypeOK ==
  /\ FixtureTypeOK
  /\ later \in Seq(Range(Tasks)) /\ ended \in BOOLEAN
  /\ \A n \in DOMAIN agenda : agenda[n].op \in {"test", "end_module", "end_task"}

\* Nothing that was set up outlives the worker: while a teardown is owed, the
\* boundary that runs it is still ahead, also on the way out of an interrupt.
BoundaryAhead ==
  \A id \in Owed :
     LET scope == values[id].home[2]
     IN \/ scope = Function /\ stage # "idle"
        \/ scope = Process /\ ~ ended
        \/ scope[1] = "module" /\ Contains(agenda, Event("end_module", scope[2]))
        \/ scope[1] \in {"package", "session"} /\ Contains(agenda, Event("end_task", NoPath))
=============================================================================
