------------------------------ MODULE Scheduler -----------------------------
(***************************************************************************)
(* The classes Job and Scheduler of python/recon/scheduler.py on the       *)
(* asyncio event loop.                                                     *)
(*                                                                         *)
(* Coroutines of one loop switch only where they await, so the steps of    *)
(* start() between two awaits are not interleaved with anything: the other *)
(* actions require Yielded, that start() is at an await (or not running).  *)
(* A run is a pair <<job, who>> of a job and whoever called Job.run() for  *)
(* it: "loop" is start() awaiting the first run of a job itself, "task" a  *)
(* task start() created for a later run, "hand" somebody else's task (the  *)
(* manual trigger of README.md:159 and the tests).                         *)
(*                                                                         *)
(* What a job does is left open: it takes any time, succeeds or raises.    *)
(*                                                                         *)
(* There are two clocks.  datetime.utcnow() is the wall clock, which is    *)
(* modelled: it advances, and an adjustment may set it back.  asyncio.sleep *)
(* goes by the loop's own clock, which nobody sets; its second is short    *)
(* beside a tick, and how far the wall clock moves meanwhile is left open. *)
(***************************************************************************)
EXTENDS Integers, SequencesExt, FiniteSets

CONSTANTS
    JobList,         \* _jobs: the jobs in the order they were added
    interval,        \* the interval of each job, in ticks
    Never,           \* last_run before the first success (None)
    MaxTriggers,     \* bound: how often somebody triggers a job by hand
    MaxTime          \* bound: the last instant of the wall clock

Jobs == ToSet(JobList)
Time == 0..MaxTime

ASSUME IntervalAssumption == interval \in [Jobs -> Nat \ {0}]
ASSUME JobListAssumption == JobList \in Seq(Jobs) /\ IsInjective(JobList)
ASSUME NeverAssumption == Never \notin Nat
ASSUME BoundAssumption == MaxTriggers \in Nat /\ MaxTime \in Nat

VARIABLES
    _running,        \* Scheduler._running
    running,         \* Job.running
    last_run,        \* Job.last_run
    error,           \* is Job.error set?
    created,         \* runs whose task exists but has not begun
    overtaken,       \* history: tasks of start() among them whose job was run by hand
                     \* with success since they were created
    executing,       \* runs awaiting the job's function
    pc,              \* where start() is
    pos,             \* the job its pass over _jobs is at
    tick,            \* the local variable now of the current pass
    now,             \* what datetime.utcnow() returns at this instant
    triggers         \* runs triggered by hand so far

job_vars  == <<running, last_run, error>>
outside   == <<now, triggers>>
loop_vars == <<_running, pc, pos, tick>>
tasks     == <<created, overtaken>>
vars      == <<job_vars, loop_vars, tasks, executing, outside>>

Runs    == Jobs \X {"loop", "task", "hand"}
Yielded == pc \in {"not started", "awaiting", "sleeping", "returned"}
Job     == JobList[pos]

-----------------------------------------------------------------------------
(* Job.run, from its call to the end of the function it awaits. *)

Begin_Unguarded(r) ==    \* Wrong on purpose: the running flag is not looked at.
    /\ running' = [running EXCEPT ![r[1]] = TRUE]
    /\ error' = [error EXCEPT ![r[1]] = FALSE]
    /\ executing' = executing \cup {r}
    /\ UNCHANGED last_run

\* The call finds the job idle: it is marked as running and its function begins.
Begin(r) ==
    /\ ~running[r[1]]
    /\ running' = [running EXCEPT ![r[1]] = TRUE]
    /\ error' = [error EXCEPT ![r[1]] = FALSE]
    /\ executing' = executing \cup {r}
    /\ UNCHANGED last_run

\* The function returns: the run counts.
Succeed(r) ==
    /\ r \in executing
    /\ running' = [running EXCEPT ![r[1]] = FALSE]
    /\ last_run' = [last_run EXCEPT ![r[1]] = now]
    /\ executing' = executing \ {r}
    /\ overtaken' = IF r[2] = "hand" THEN overtaken \cup (created \cap {<<r[1], "task">>})
                                     ELSE overtaken
    /\ UNCHANGED error

Fail_KeepsFlag(r) ==     \* Wrong on purpose: the flag is not cleared in a finally.
    /\ r \in executing
    /\ error' = [error EXCEPT ![r[1]] = TRUE]
    /\ executing' = executing \ {r}
    /\ UNCHANGED <<running, last_run, overtaken>>

\* The function raises: the error is kept, last_run is not touched.
Fail(r) ==
    /\ r \in executing
    /\ running' = [running EXCEPT ![r[1]] = FALSE]
    /\ error' = [error EXCEPT ![r[1]] = TRUE]
    /\ executing' = executing \ {r}
    /\ UNCHANGED <<last_run, overtaken>>

\* The run is cancelled: a CancelledError is no Exception, so that the finally clears
\* the flag and neither last_run nor error tells of it.
Cancel(r) ==
    /\ r \in executing
    /\ running' = [running EXCEPT ![r[1]] = FALSE]
    /\ executing' = executing \ {r}
    /\ UNCHANGED <<last_run, error, overtaken>>

-----------------------------------------------------------------------------
(* Scheduler.start. *)

Init ==
    /\ _running = FALSE
    /\ running = [j \in Jobs |-> FALSE]
    /\ last_run = [j \in Jobs |-> Never]
    /\ error = [j \in Jobs |-> FALSE]
    /\ created = {} /\ overtaken = {} /\ executing = {}
    /\ pc = "not started" /\ pos = 1
    /\ tick = 0 /\ now \in Time
    /\ triggers = 0

Start ==
    /\ pc = "not started"
    /\ _running' = TRUE
    /\ pc' = "checking"
    /\ UNCHANGED <<job_vars, tasks, executing, pos, tick, outside>>

\* Wrong on purpose: the index of the pass starts at zero.
NewPass_FromZero ==
    /\ pc = "checking" /\ _running
    /\ pc' = "passing" /\ pos' = 0 /\ tick' = now
    /\ UNCHANGED <<job_vars, tasks, executing, _running, outside>>

\* Wrong on purpose: while True.
NewPass_Always ==
    /\ pc = "checking"
    /\ pc' = "passing" /\ pos' = 1 /\ tick' = now
    /\ UNCHANGED <<job_vars, tasks, executing, _running, outside>>

\* while self._running: a new pass, or the end of start().
NewPass ==
    /\ pc = "checking" /\ _running
    /\ pc' = "passing" /\ pos' = 1 /\ tick' = now
    /\ UNCHANGED <<job_vars, tasks, executing, _running, outside>>

LeaveLoop ==
    /\ pc = "checking" /\ ~_running
    /\ pc' = "returned"
    /\ UNCHANGED <<job_vars, tasks, executing, _running, pos, tick, outside>>

AtJob == pc = "passing" /\ pos <= Len(JobList)

IsDue_FromStart(j) == last_run[j] # Never /\ tick >= interval[j]   \* Wrong on purpose.

IsDue(j) == last_run[j] # Never /\ tick - last_run[j] >= interval[j]

SkipJob ==
    /\ AtJob
    /\ running[Job] \/ (last_run[Job] # Never /\ ~IsDue(Job))
    /\ pos' = pos + 1
    /\ UNCHANGED <<job_vars, tasks, executing, _running, pc, tick, outside>>

\* A job that has never succeeded is run within the pass.
AwaitJob ==
    /\ AtJob
    /\ last_run[Job] = Never
    /\ Begin(<<Job, "loop">>)
    /\ pc' = "awaiting"
    /\ UNCHANGED <<tasks, _running, pos, tick, outside>>

CreateTask ==
    /\ AtJob
    /\ ~running[Job] /\ IsDue(Job)
    /\ created' = created \cup {<<Job, "task">>}
    /\ pos' = pos + 1
    /\ UNCHANGED <<job_vars, overtaken, executing, _running, pc, tick, outside>>

\* The pass goes on in the step in which the awaited run ends.
AwaitedRunEnds ==
    /\ pc = "awaiting"
    /\ Succeed(<<Job, "loop">>) \/ Fail(<<Job, "loop">>)
    /\ pc' = "passing" /\ pos' = pos + 1
    /\ UNCHANGED <<created, _running, tick, outside>>

\* asyncio.sleep(1).
Sleep ==
    /\ pc = "passing" /\ pos > Len(JobList)
    /\ pc' = "sleeping"
    /\ UNCHANGED <<job_vars, tasks, executing, _running, pos, tick, outside>>

\* The event loop is first in, first out: tasks created before the sleep began
\* before it ends.
Wake ==
    /\ pc = "sleeping"
    /\ \A r \in created : r[2] # "task"
    /\ pc' = "checking"
    /\ UNCHANGED <<job_vars, tasks, executing, _running, pos, tick, outside>>

-----------------------------------------------------------------------------
(* The other tasks of the event loop, stop() and the end of asyncio.run. *)

\* A task of its own begins; it returns at once when the job is running already.
TaskBegins(r) ==
    /\ Yielded /\ r \in created
    /\ created' = created \ {r} /\ overtaken' = overtaken \ {r}
    /\ Begin(r) \/ (running[r[1]] /\ UNCHANGED <<job_vars, executing>>)
    /\ UNCHANGED <<loop_vars, outside>>

TaskEnds(r) ==
    /\ Yielded /\ r[2] # "loop"
    /\ Succeed(r) \/ Fail(r)
    /\ UNCHANGED <<loop_vars, created, outside>>

TriggerByHand(j) ==
    /\ triggers < MaxTriggers
    /\ Yielded /\ pc # "returned"
    /\ <<j, "hand">> \notin created \cup executing
    /\ created' = created \cup {<<j, "hand">>}
    /\ triggers' = triggers + 1
    /\ UNCHANGED <<job_vars, loop_vars, overtaken, executing, now>>

stop ==
    /\ Yielded /\ pc # "returned" /\ _running
    /\ _running' = FALSE
    /\ UNCHANGED <<job_vars, tasks, executing, pc, pos, tick, outside>>

\* Ctrl-C, which is how run_scheduler ends: asyncio.run cancels start() at its await,
\* and the first run it may be waiting for with it.  _running is not touched.
Interrupt ==
    /\ \/ pc = "sleeping" /\ UNCHANGED <<job_vars, overtaken, executing>>
       \/ pc = "awaiting" /\ Cancel(<<Job, "loop">>)
    /\ pc' = "returned"
    /\ UNCHANGED <<created, _running, pos, tick, outside>>

\* When start() has ended, asyncio.run cancels the tasks that remain.  One that has
\* begun runs its finally.
CancelRemaining ==
    /\ pc = "returned"
    /\ created \cup executing # {}
    /\ running' = [j \in Jobs |-> FALSE]
    /\ created' = {} /\ overtaken' = {} /\ executing' = {}
    /\ UNCHANGED <<last_run, error, loop_vars, outside>>

\* The wall clock.
ClockAdvances ==
    /\ Yielded
    /\ \E t \in Time : t > now /\ now' = t
    /\ UNCHANGED <<job_vars, loop_vars, tasks, executing, triggers>>

ClockIsSetBack ==
    /\ Yielded
    /\ \E t \in Time : t < now /\ now' = t
    /\ UNCHANGED <<job_vars, loop_vars, tasks, executing, triggers>>

LoopSteps == \/ NewPass \/ LeaveLoop \/ SkipJob \/ AwaitJob \/ CreateTask
             \/ Sleep \/ Wake

Next ==
    \/ Start \/ LoopSteps \/ AwaitedRunEnds
    \/ \E r \in Runs : TaskBegins(r) \/ TaskEnds(r)
    \/ \E j \in Jobs : TriggerByHand(j)
    \/ stop \/ Interrupt \/ CancelRemaining
    \/ ClockAdvances \/ ClockIsSetBack

Spec == Init /\ [][Next]_vars

\* The event loop runs what is ready.
LoopFairness ==
    /\ WF_vars(LoopSteps)
    /\ \A r \in Runs : WF_vars(TaskBegins(r))
    /\ WF_vars(CancelRemaining)

\* Nothing bounds the time a job takes: jobs that end are an assumption.
JobsEnd == WF_vars(AwaitedRunEnds) /\ \A r \in Runs : WF_vars(TaskEnds(r))

LoopSpec == Spec /\ LoopFairness
FairSpec == LoopSpec /\ JobsEnd
-----------------------------------------------------------------------------
(* Properties. *)

\* Every variable has its type.
TypeOK ==
    /\ _running \in BOOLEAN
    /\ running \in [Jobs -> BOOLEAN] /\ error \in [Jobs -> BOOLEAN]
    /\ last_run \in [Jobs -> Time \cup {Never}]
    /\ created \subseteq Runs /\ executing \subseteq Runs
    /\ overtaken \subseteq created
    /\ triggers \in 0..MaxTriggers
    /\ pc \in {"not started", "checking", "passing", "awaiting", "sleeping", "returned"}
    /\ pos \in 1..(Len(JobList) + 1)
    /\ tick \in Time /\ now \in Time

\* A job never runs twice at a time, whoever starts it, and its running flag is up
\* exactly while it runs: every way a run ends, cancellation included, clears it.
SingleFlight ==
    \A j \in Jobs :
        LET mine == {r \in executing : r[1] = j}
        IN  Cardinality(mine) <= 1 /\ (running[j] <=> mine # {})

\* The decision that a job is due is taken on a clock reading from the start of the pass
\* and acted on by a task that begins later; what happens in between, other runs,
\* triggers by hand and adjustments of the clock included, makes it wrong in two ways
\* only.  A task that start() has created and that has not begun finds its job idle,
\* unless it is being run by hand; and due, unless a run by hand has succeeded since or
\* the clock reads less than it did when the pass began.
CreatedTasksAreDue ==
    \A r \in created \ overtaken : r[2] = "task" =>
        /\ running[r[1]] => <<r[1], "hand">> \in executing
        /\ last_run[r[1]] # Never
        /\ now >= tick => now - last_run[r[1]] >= interval[r[1]]

\* When jobs end, start() ends once stop() was called.
StopEndsStart == (~_running /\ pc # "not started") ~> pc = "returned"

\* A job that never succeeded, or whose interval is over by the wall clock.
ShouldRun(j) == last_run[j] = Never \/ now - last_run[j] >= interval[j]

\* When jobs end, a job that should run is run, whatever the other jobs do, unless
\* start() is told to stop or interrupted, or the clock set back, so that it should not.
EveryJobGetsItsTurn ==
    \A j \in Jobs :
        _running /\ pc # "returned" /\ ShouldRun(j)
        ~> \/ ~_running \/ pc = "returned" \/ ~ShouldRun(j)
           \/ \E r \in executing : r[1] = j

=============================================================================
