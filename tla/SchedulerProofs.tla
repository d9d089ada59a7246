-------------------------- MODULE SchedulerProofs ---------------------------
(***************************************************************************)
(* Proofs about Scheduler, for any number of jobs, any intervals and any   *)
(* number of triggers by hand.                                             *)
(*                                                                         *)
(* Every action does one of four things to the runs in flight: one begins, *)
(* one ends or is cancelled, all are cancelled, or none is touched         *)
(* (RunsEffect).  A run begins only where the flag of its job is down, and *)
(* the flag is up where a run of the job is in flight: so there is at most *)
(* one.  What start() decides on by its clock reading stays right of that  *)
(* reading until a run of the job ends with success; between a task's      *)
(* creation and its beginning that can be a run by hand only, since the    *)
(* loop creates no second task and awaits no job that has succeeded.       *)
(***************************************************************************)
EXTENDS Scheduler, FiniteSetTheorems, TLAPS

\* Two runs in flight are of different jobs.
OneEach == \A r, s \in executing : r[1] = s[1] => r = s

\* A flag is up exactly where a run of the job is in flight.
FlagsTell == \A j \in Jobs : running[j] <=> \E r \in executing : r[1] = j

\* start() awaits a run only at a job of the list.
AwaitsAtJob == pc = "awaiting" => pos <= Len(JobList)

\* The inductive invariant.
IInv == TypeOK /\ OneEach /\ FlagsTell /\ AwaitsAtJob

-----------------------------------------------------------------------------

\* The job a pass is at is one of the jobs.
LEMMA JobIsJob ==
    ASSUME pos \in 1..(Len(JobList) + 1), pos <= Len(JobList)
    PROVE  Job \in Jobs /\ Len(JobList) \in Nat /\ pos + 1 \in 1..(Len(JobList) + 1)
<1>1. JobList \in Seq(Jobs)
  BY JobListAssumption
<1>2. Len(JobList) \in Nat /\ DOMAIN JobList = 1..Len(JobList)
  BY <1>1
<1>3. pos \in DOMAIN JobList /\ pos + 1 \in 1..(Len(JobList) + 1)
  BY <1>2
<1> QED
  BY <1>1, <1>2, <1>3 DEF Job

\* A pass can begin.
LEMMA FirstPosition == 1 \in 1..(Len(JobList) + 1)
<1>1. JobList \in Seq(Jobs)
  BY JobListAssumption
<1>2. Len(JobList) \in Nat
  BY <1>1
<1> QED
  BY <1>2

\* A run is a pair.
LEMMA RunIsPair ==
    ASSUME NEW r \in Runs
    PROVE  r[1] \in Jobs /\ r = <<r[1], r[2]>> /\ r[2] \in {"loop", "task", "hand"}
  BY DEF Runs

\* The jobs and who runs them make the runs.
LEMMA PairIsRun ==
    ASSUME NEW j \in Jobs
    PROVE  <<j, "loop">> \in Runs /\ <<j, "task">> \in Runs /\ <<j, "hand">> \in Runs
  BY DEF Runs

\* The first instant is the start of the clock, and the last is a number.
LEMMA TimeIsNat == 0 \in Time /\ Time \subseteq Nat /\ MaxTime \in Nat
  BY BoundAssumption DEF Time

-----------------------------------------------------------------------------
(* What an action does to the runs in flight. *)

\* A run begins, ends, is cancelled with all others, or none is touched.
LEMMA RunsEffect ==
    ASSUME IInv, [Next]_vars
    PROVE  \/ \E r \in Runs : Begin(r)
           \/ \E r \in Runs : Succeed(r) \/ Fail(r) \/ Cancel(r)
           \/ CancelRemaining
           \/ UNCHANGED <<job_vars, executing>>
<1>1. CASE UNCHANGED vars
  BY <1>1 DEF vars
<1>2. CASE Start \/ NewPass \/ LeaveLoop \/ SkipJob \/ CreateTask \/ Sleep \/ Wake \/ stop
           \/ ClockAdvances \/ ClockIsSetBack \/ \E j \in Jobs : TriggerByHand(j)
  BY <1>2 DEF Start, NewPass, LeaveLoop, SkipJob, CreateTask, Sleep, Wake, stop, ClockAdvances,
              ClockIsSetBack, TriggerByHand
<1>3. CASE AwaitJob
  <2>1. Job \in Jobs
    BY <1>3, JobIsJob DEF AwaitJob, AtJob, IInv, TypeOK
  <2> QED
    BY <1>3, <2>1, PairIsRun DEF AwaitJob
<1>4. CASE AwaitedRunEnds
  <2>1. Job \in Jobs
    BY <1>4, JobIsJob DEF AwaitedRunEnds, IInv, AwaitsAtJob, TypeOK
  <2> QED
    BY <1>4, <2>1, PairIsRun DEF AwaitedRunEnds
<1>5. ASSUME NEW r \in Runs, TaskBegins(r) \/ TaskEnds(r)
      PROVE  \/ Begin(r) \/ Succeed(r) \/ Fail(r)
             \/ UNCHANGED <<job_vars, executing>>
  BY <1>5 DEF TaskBegins, TaskEnds
<1>6. CASE Interrupt
  <2>1. CASE UNCHANGED <<job_vars, executing>>
    BY <2>1
  <2>2. CASE pc = "awaiting" /\ Cancel(<<Job, "loop">>)
    <3>1. Job \in Jobs
      BY <2>2, JobIsJob DEF IInv, AwaitsAtJob, TypeOK
    <3> QED
      BY <2>2, <3>1, PairIsRun
  <2> QED
    BY <1>6, <2>1, <2>2 DEF Interrupt
<1> QED
  BY <1>1, <1>2, <1>3, <1>4, <1>5, <1>6 DEF Next, LoopSteps

\* When a run begins there was none of its job in flight.
LEMMA BeginKeeps ==
    ASSUME IInv, NEW r \in Runs, Begin(r)
    PROVE  OneEach' /\ FlagsTell'
<1>1. /\ r[1] \in Jobs /\ running \in [Jobs -> BOOLEAN]
      /\ \A s \in executing : s[1] # r[1]
      /\ executing' = executing \cup {r} /\ running' = [running EXCEPT ![r[1]] = TRUE]
  BY RunIsPair DEF IInv, TypeOK, FlagsTell, Begin
<1>2. OneEach'
  BY <1>1 DEF IInv, OneEach
<1>3. ASSUME NEW j \in Jobs
      PROVE  running'[j] <=> \E s \in executing' : s[1] = j
  <2>1. CASE j = r[1]
    BY <1>1, <2>1
  <2>2. CASE j # r[1]
    <3>1. running'[j] = running[j]
      BY <1>1, <2>2
    <3>2. (\E s \in executing' : s[1] = j) <=> \E s \in executing : s[1] = j
      BY <1>1, <2>2
    <3> QED
      BY <3>1, <3>2 DEF IInv, FlagsTell
  <2> QED
    BY <2>1, <2>2
<1> QED
  BY <1>2, <1>3 DEF FlagsTell

\* When a run ends there is none of its job in flight any more.
LEMMA EndKeeps ==
    ASSUME IInv, NEW r \in Runs, Succeed(r) \/ Fail(r) \/ Cancel(r)
    PROVE  OneEach' /\ FlagsTell'
<1>1. /\ r[1] \in Jobs /\ running \in [Jobs -> BOOLEAN] /\ r \in executing
      /\ executing' = executing \ {r} /\ running' = [running EXCEPT ![r[1]] = FALSE]
  BY RunIsPair DEF IInv, TypeOK, Succeed, Fail, Cancel
<1>2. \A s \in executing' : s[1] # r[1]
  BY <1>1 DEF IInv, OneEach
<1>3. OneEach'
  BY <1>1 DEF IInv, OneEach
<1>4. ASSUME NEW j \in Jobs
      PROVE  running'[j] <=> \E s \in executing' : s[1] = j
  <2>1. CASE j = r[1]
    BY <1>1, <1>2, <2>1
  <2>2. CASE j # r[1]
    <3>1. running'[j] = running[j]
      BY <1>1, <2>2
    <3>2. (\E s \in executing' : s[1] = j) <=> \E s \in executing : s[1] = j
      BY <1>1, <2>2
    <3> QED
      BY <3>1, <3>2 DEF IInv, FlagsTell
  <2> QED
    BY <2>1, <2>2
<1> QED
  BY <1>3, <1>4 DEF FlagsTell

\* The runs in flight and the flags stay in step.
LEMMA FlightKept ==
    ASSUME IInv, [Next]_vars
    PROVE  OneEach' /\ FlagsTell'
<1>1. CASE \E r \in Runs : Begin(r)
  BY <1>1, BeginKeeps
<1>2. CASE \E r \in Runs : Succeed(r) \/ Fail(r) \/ Cancel(r)
  BY <1>2, EndKeeps
<1>3. CASE CancelRemaining
  <2>1. executing' = {} /\ \A j \in Jobs : ~running'[j]
    BY <1>3 DEF CancelRemaining
  <2> QED
    BY <2>1 DEF OneEach, FlagsTell
<1>4. CASE UNCHANGED <<job_vars, executing>>
  BY <1>4 DEF job_vars, IInv, OneEach, FlagsTell
<1> QED
  BY <1>1, <1>2, <1>3, <1>4, RunsEffect

-----------------------------------------------------------------------------
(* The type invariant. *)

\* A step keeps the types of what it does to a run.
LEMMA RunsTyped ==
    ASSUME IInv, [Next]_vars
    PROVE  /\ running' \in [Jobs -> BOOLEAN] /\ error' \in [Jobs -> BOOLEAN]
           /\ last_run' \in [Jobs -> Time \cup {Never}]
           /\ executing' \subseteq Runs
<1>1. CASE \E r \in Runs : Begin(r)
  BY <1>1 DEF Begin, IInv, TypeOK
<1>2. ASSUME NEW r \in Runs, Succeed(r) \/ Fail(r) \/ Cancel(r)
      PROVE  /\ running' \in [Jobs -> BOOLEAN] /\ error' \in [Jobs -> BOOLEAN]
             /\ last_run' \in [Jobs -> Time \cup {Never}]
             /\ executing' \subseteq Runs
  <2>1. /\ running \in [Jobs -> BOOLEAN] /\ error \in [Jobs -> BOOLEAN]
        /\ last_run \in [Jobs -> Time \cup {Never}] /\ now \in Time \cup {Never}
        /\ executing \subseteq Runs
    BY DEF IInv, TypeOK
  <2>2. CASE Succeed(r)
    BY <2>1, <2>2 DEF Succeed
  <2>3. CASE Fail(r)
    BY <2>1, <2>3 DEF Fail
  <2>4. CASE Cancel(r)
    BY <2>1, <2>4 DEF Cancel
  <2> QED
    BY <1>2, <2>2, <2>3, <2>4
<1>3. CASE CancelRemaining
  BY <1>3 DEF CancelRemaining, IInv, TypeOK
<1>4. CASE UNCHANGED <<job_vars, executing>>
  BY <1>4 DEF job_vars, IInv, TypeOK
<1> QED
  BY <1>1, <1>2, <1>3, <1>4, RunsEffect

\* A run that ends with success marks tasks that exist only.
LEMMA MarksTasks ==
    ASSUME overtaken \subseteq created, NEW r, Succeed(r) \/ Fail(r) \/ Cancel(r)
    PROVE  overtaken' \subseteq created
  BY DEF Succeed, Fail, Cancel

\* A step keeps the types of the tasks.
LEMMA TasksTyped ==
    ASSUME IInv, [Next]_vars
    PROVE  created' \subseteq Runs /\ overtaken' \subseteq created'
<1>0. created \subseteq Runs /\ overtaken \subseteq created
  BY DEF IInv, TypeOK
<1>1. CASE UNCHANGED tasks
  BY <1>0, <1>1 DEF tasks
<1>2. CASE Start \/ NewPass \/ LeaveLoop \/ SkipJob \/ AwaitJob \/ Sleep \/ Wake \/ stop
           \/ ClockAdvances \/ ClockIsSetBack
  BY <1>1, <1>2 DEF Start, NewPass, LeaveLoop, SkipJob, AwaitJob, Sleep, Wake, stop,
                    ClockAdvances, ClockIsSetBack
<1>3. CASE CreateTask
  <2>1. Job \in Jobs
    BY <1>3, JobIsJob DEF CreateTask, AtJob, IInv, TypeOK
  <2> QED
    BY <1>0, <1>3, <2>1, PairIsRun DEF CreateTask
<1>4. CASE AwaitedRunEnds \/ \E r \in Runs : TaskEnds(r)
  BY <1>0, <1>4, MarksTasks DEF AwaitedRunEnds, TaskEnds
<1>5. CASE Interrupt
  <2>1. created' = created /\ (overtaken' = overtaken \/ Cancel(<<Job, "loop">>))
    BY <1>5 DEF Interrupt
  <2> QED
    BY <1>0, <2>1, MarksTasks
<1>6. ASSUME NEW r \in Runs, TaskBegins(r)
      PROVE  created' \subseteq Runs /\ overtaken' \subseteq created'
  BY <1>0, <1>6 DEF TaskBegins
<1>7. ASSUME NEW j \in Jobs, TriggerByHand(j)
      PROVE  created' \subseteq Runs /\ overtaken' \subseteq created'
  BY <1>0, <1>7, PairIsRun DEF TriggerByHand
<1>8. CASE CancelRemaining
  BY <1>8 DEF CancelRemaining
<1> QED
  BY <1>1, <1>2, <1>3, <1>4, <1>5, <1>6, <1>7, <1>8 DEF Next, LoopSteps, vars

\* A step keeps the types of where start() is, and of the clock.
LEMMA LoopTyped ==
    ASSUME IInv, [Next]_vars
    PROVE  /\ _running' \in BOOLEAN /\ triggers' \in 0..MaxTriggers
           /\ pc' \in {"not started", "checking", "passing", "awaiting", "sleeping", "returned"}
           /\ pos' \in 1..(Len(JobList) + 1)
           /\ tick' \in Time /\ now' \in Time
           /\ AwaitsAtJob'
<1> USE DEF IInv, TypeOK, AwaitsAtJob
<1>1. CASE UNCHANGED vars
  BY <1>1 DEF vars, loop_vars, outside
<1>2. CASE Start \/ LeaveLoop \/ Sleep \/ Wake \/ stop \/ Interrupt \/ CancelRemaining
  BY <1>2 DEF Start, LeaveLoop, Sleep, Wake, stop, Interrupt, CancelRemaining, loop_vars, outside
<1>3. CASE NewPass
  <2>1. 1 \in 1..(Len(JobList) + 1)
    BY FirstPosition
  <2> QED
    BY <1>3, <2>1 DEF NewPass, outside
<1>4. CASE SkipJob \/ CreateTask
  <2>1. pos + 1 \in 1..(Len(JobList) + 1)
    BY <1>4, JobIsJob DEF SkipJob, CreateTask, AtJob
  <2> QED
    BY <1>4, <2>1 DEF SkipJob, CreateTask, AtJob, outside
<1>5. CASE AwaitJob
  BY <1>5 DEF AwaitJob, AtJob, outside
<1>6. CASE AwaitedRunEnds
  <2>1. pos + 1 \in 1..(Len(JobList) + 1)
    BY <1>6, JobIsJob DEF AwaitedRunEnds
  <2> QED
    BY <1>6, <2>1 DEF AwaitedRunEnds, outside
<1>7. CASE \E r \in Runs : TaskBegins(r) \/ TaskEnds(r)
  BY <1>7 DEF TaskBegins, TaskEnds, loop_vars, outside
<1>8. ASSUME NEW j \in Jobs, TriggerByHand(j)
      PROVE  UNCHANGED <<loop_vars, now>> /\ triggers' \in 0..MaxTriggers
  <2>1. /\ triggers \in 0..MaxTriggers /\ MaxTriggers \in Nat
        /\ triggers < MaxTriggers /\ triggers' = triggers + 1
    BY <1>8, BoundAssumption DEF TriggerByHand
  <2>2. triggers' \in 0..MaxTriggers
    BY ONLY <2>1
  <2> QED
    BY <1>8, <2>2 DEF TriggerByHand
<1>9. CASE ClockAdvances \/ ClockIsSetBack
  BY <1>9 DEF ClockAdvances, ClockIsSetBack, loop_vars
<1> QED
  BY <1>1, <1>2, <1>3, <1>4, <1>5, <1>6, <1>7, <1>8, <1>9 DEF Next, LoopSteps, loop_vars

\* The initial states satisfy the invariant.
LEMMA IInvInit == Init => IInv
<1> SUFFICES ASSUME Init
             PROVE  IInv
  OBVIOUS
<1>1. 1 \in 1..(Len(JobList) + 1) /\ 0 \in Time /\ 0 \in 0..MaxTriggers
  BY FirstPosition, TimeIsNat, BoundAssumption
<1>2. TypeOK
  BY <1>1 DEF Init, TypeOK
<1> QED
  BY <1>2 DEF Init, IInv, OneEach, FlagsTell, AwaitsAtJob

\* Every step keeps the invariant.
LEMMA IInvStep == IInv /\ [Next]_vars => IInv'
<1> SUFFICES ASSUME IInv, [Next]_vars
             PROVE  IInv'
  OBVIOUS
<1>1. TypeOK' /\ AwaitsAtJob'
  BY RunsTyped, TasksTyped, LoopTyped DEF TypeOK
<1> QED
  BY <1>1, FlightKept DEF IInv

\* The types, for any jobs.
THEOREM TypeCorrect == Spec => []TypeOK
<1>1. IInv => TypeOK
  BY DEF IInv
<1> QED
  BY <1>1, IInvInit, IInvStep, PTL DEF Spec

-----------------------------------------------------------------------------
(* Runs of one job. *)

\* A set of runs of one job, of which there are not two, has at most one element.
LEMMA AtMostOne ==
    ASSUME NEW S, \A r, s \in S : r = s
    PROVE  Cardinality(S) <= 1
<1>1. CASE S = {}
  BY <1>1, FS_EmptySet
<1>2. CASE S # {}
  <2>1. PICK r \in S : S = {r}
    BY <1>2
  <2> QED
    BY <2>1, FS_Singleton
<1> QED
  BY <1>1, <1>2

\* No job runs twice at a time, whoever starts it and however its runs end.
THEOREM OneRunEach == Spec => []SingleFlight
<1>1. IInv => SingleFlight
  <2> SUFFICES ASSUME IInv, NEW j \in Jobs
               PROVE  /\ Cardinality({r \in executing : r[1] = j}) <= 1
                      /\ running[j] <=> {r \in executing : r[1] = j} # {}
    BY DEF SingleFlight
  <2>1. Cardinality({r \in executing : r[1] = j}) <= 1
    BY AtMostOne DEF IInv, OneEach
  <2>2. running[j] <=> {r \in executing : r[1] = j} # {}
    BY DEF IInv, FlagsTell
  <2> QED
    BY <2>1, <2>2
<1> QED
  BY <1>1, IInvInit, IInvStep, PTL DEF Spec

-----------------------------------------------------------------------------
(* Tasks that wait to begin. *)

\* What holds of a task r that no run by hand has overtaken, by the reading that the
\* pass began with.
Stands(r) ==
    /\ running[r[1]] => <<r[1], "hand">> \in executing
    /\ last_run[r[1]] # Never /\ tick - last_run[r[1]] >= interval[r[1]]

\* start() never makes a task of a first run, between two passes none of its tasks is
\* left to begin, and what they were created for stands.
DueInv ==
    /\ \A r \in created : r[2] # "loop"
    /\ pc \in {"not started", "checking"} => \A r \in created : r[2] # "task"
    /\ \A r \in created \ overtaken : r[2] = "task" => Stands(r)

\* Where a step begins no run of the job, ends none and leaves the reading, a task's
\* reason stands.
LEMMA UntouchedStands ==
    ASSUME NEW r, Stands(r), tick' = tick,
           running'[r[1]] = running[r[1]], last_run'[r[1]] = last_run[r[1]],
           <<r[1], "hand">> \in executing => <<r[1], "hand">> \in executing'
    PROVE  Stands(r)'
  BY DEF Stands

\* A run that begins is of another job, or one by hand.
LEMMA BeginStands ==
    ASSUME IInv, NEW r \in Runs, Stands(r), tick' = tick, NEW s \in Runs, Begin(s),
           s[1] = r[1] => s[2] = "hand"
    PROVE  Stands(r)'
<1>1. /\ running \in [Jobs -> BOOLEAN] /\ r[1] \in Jobs /\ s[1] \in Jobs /\ s = <<s[1], s[2]>>
      /\ running' = [running EXCEPT ![s[1]] = TRUE] /\ last_run' = last_run
      /\ executing' = executing \cup {s}
  BY RunIsPair DEF Begin, IInv, TypeOK
<1>2. CASE s[1] = r[1]
  <2>1. s = <<r[1], "hand">>
    BY <1>1, <1>2
  <2>2. <<r[1], "hand">> \in executing'
    BY <1>1, <2>1
  <2> QED
    BY <1>1, <2>2 DEF Stands
<1>3. CASE s[1] # r[1]
  <2>1. running'[r[1]] = running[r[1]]
    BY <1>1, <1>3
  <2> QED
    BY <1>1, <2>1, UntouchedStands
<1> QED
  BY <1>2, <1>3

\* A run that ends is of another job, or one by hand that has failed or marks the task.
LEMMA EndStands ==
    ASSUME IInv, NEW r \in created, r[2] = "task", Stands(r), tick' = tick,
           NEW s \in Runs, Succeed(s) \/ Fail(s) \/ Cancel(s), r \notin overtaken'
    PROVE  Stands(r)'
<1>1. /\ running \in [Jobs -> BOOLEAN] /\ last_run \in [Jobs -> Time \cup {Never}]
      /\ r \in Runs /\ r[1] \in Jobs /\ r = <<r[1], "task">>
      /\ s[1] \in Jobs /\ s = <<s[1], s[2]>> /\ s \in executing
  BY RunIsPair DEF Succeed, Fail, Cancel, IInv, TypeOK
<1>2. running' = [running EXCEPT ![s[1]] = FALSE] /\ executing' = executing \ {s}
  BY DEF Succeed, Fail, Cancel
<1>3. CASE s[1] = r[1]
  <2>1. running[r[1]]
    BY <1>1, <1>3 DEF IInv, FlagsTell
  <2>2. s = <<r[1], "hand">>
    BY <1>1, <1>3, <2>1 DEF Stands, IInv, OneEach
  <2>3. s[2] = "hand"
    BY <2>2
  <2>4. ~Succeed(s)
    BY <1>1, <1>3, <2>3 DEF Succeed
  <2>5. last_run' = last_run /\ ~running'[r[1]]
    BY <1>1, <1>2, <1>3, <2>4 DEF Fail, Cancel
  <2> QED
    BY <2>5 DEF Stands
<1>4. CASE s[1] # r[1]
  <2>1. running'[r[1]] = running[r[1]] /\ last_run'[r[1]] = last_run[r[1]]
    BY <1>1, <1>2, <1>4 DEF Succeed, Fail, Cancel
  <2>2. <<r[1], "hand">> # s
    BY <1>1, <1>4
  <2> QED
    BY <1>2, <2>1, <2>2, UntouchedStands
<1> QED
  BY <1>3, <1>4

\* The reason of a task that was there before a step stands after it, unless a run by
\* hand overtakes the task.
LEMMA CreatedStand ==
    ASSUME IInv, DueInv, [Next]_vars,
           NEW r \in created, r \in created', r[2] = "task", r \notin overtaken, r \notin overtaken'
    PROVE  Stands(r)'
<1>1. r \in Runs /\ Stands(r) /\ r[1] \in Jobs /\ r = <<r[1], "task">>
      /\ pc \notin {"not started", "checking"}
  BY RunIsPair DEF IInv, TypeOK, DueInv
<1>2. CASE AwaitJob
  <2>1. Job \in Jobs /\ tick' = tick /\ Begin(<<Job, "loop">>) /\ last_run[Job] = Never
    BY <1>2, JobIsJob DEF AwaitJob, AtJob, IInv, TypeOK
  <2>2. Job # r[1]
    BY <1>1, <2>1 DEF Stands
  <2> QED
    BY <1>1, <2>1, <2>2, PairIsRun, BeginStands
<1>3. CASE AwaitedRunEnds
  <2>1. Job \in Jobs /\ tick' = tick /\ (Succeed(<<Job, "loop">>) \/ Fail(<<Job, "loop">>))
    BY <1>3, JobIsJob DEF AwaitedRunEnds, IInv, AwaitsAtJob, TypeOK
  <2> QED
    BY <1>1, <2>1, PairIsRun, EndStands
<1>4. CASE Interrupt
  <2>1. CASE UNCHANGED <<job_vars, executing>>
    BY <1>1, <1>4, <2>1, UntouchedStands DEF Interrupt, job_vars
  <2>2. CASE pc = "awaiting" /\ Cancel(<<Job, "loop">>)
    <3>1. Job \in Jobs /\ tick' = tick
      BY <1>4, <2>2, JobIsJob DEF Interrupt, IInv, AwaitsAtJob, TypeOK
    <3> QED
      BY <1>1, <2>2, <3>1, PairIsRun, EndStands
  <2> QED
    BY <1>4, <2>1, <2>2 DEF Interrupt
<1>5. ASSUME NEW s \in Runs, TaskBegins(s)
      PROVE  Stands(r)'
  <2>1. s \in created /\ s # r /\ tick' = tick /\ (Begin(s) \/ UNCHANGED <<job_vars, executing>>)
    BY <1>5 DEF TaskBegins, loop_vars
  <2>2. s[1] = r[1] => s[2] = "hand"
    BY <1>1, <2>1, RunIsPair DEF DueInv
  <2>3. CASE Begin(s)
    BY <1>1, <2>1, <2>2, <2>3, BeginStands
  <2>4. CASE UNCHANGED <<job_vars, executing>>
    BY <1>1, <2>1, <2>4, UntouchedStands DEF job_vars
  <2> QED
    BY <2>1, <2>3, <2>4
<1>6. ASSUME NEW s \in Runs, TaskEnds(s)
      PROVE  Stands(r)'
  <2>1. tick' = tick /\ (Succeed(s) \/ Fail(s))
    BY <1>6 DEF TaskEnds, loop_vars
  <2> QED
    BY <1>1, <2>1, EndStands
<1>7. CASE CancelRemaining
  BY <1>7 DEF CancelRemaining
<1>8. CASE \/ UNCHANGED vars \/ SkipJob \/ CreateTask \/ Sleep \/ Wake \/ stop
           \/ ClockAdvances \/ ClockIsSetBack \/ \E j \in Jobs : TriggerByHand(j)
  <2>1. UNCHANGED <<job_vars, executing, tick>>
    BY <1>8 DEF vars, loop_vars, SkipJob, CreateTask, Sleep, Wake, stop, ClockAdvances,
                ClockIsSetBack, TriggerByHand
  <2> QED
    BY <1>1, <2>1, UntouchedStands DEF job_vars
<1>9. ~Start /\ ~NewPass /\ ~LeaveLoop
  BY <1>1 DEF Start, NewPass, LeaveLoop
<1> QED
  BY <1>2, <1>3, <1>4, <1>5, <1>6, <1>7, <1>8, <1>9 DEF Next, LoopSteps

\* A task is created when the pass finds its job due by its reading.
LEMMA CreatedStands ==
    ASSUME CreateTask, NEW r, r = <<Job, "task">>
    PROVE  Stands(r)'
<1>1. r[1] = Job
  OBVIOUS
<1>2. ~running[r[1]] /\ last_run[r[1]] # Never /\ tick - last_run[r[1]] >= interval[r[1]]
  BY <1>1 DEF CreateTask, IsDue
<1>3. running' = running /\ last_run' = last_run /\ tick' = tick
  BY DEF CreateTask, job_vars
<1> QED
  BY <1>2, <1>3 DEF Stands

\* Where the tasks of a step come from: they were there, start() creates one in a
\* pass, or somebody triggers a run by hand.
LEMMA WhereTasksComeFrom ==
    ASSUME [Next]_vars, NEW r \in created', r \notin created
    PROVE  (CreateTask /\ r = <<Job, "task">>) \/ \E j \in Jobs : r = <<j, "hand">>
<1>1. CASE created' \subseteq created
  BY <1>1
<1>2. CASE Start \/ NewPass \/ LeaveLoop \/ SkipJob \/ AwaitJob \/ Sleep \/ Wake \/ stop
           \/ ClockAdvances \/ ClockIsSetBack \/ UNCHANGED vars
  BY <1>1, <1>2 DEF Start, NewPass, LeaveLoop, SkipJob, AwaitJob, Sleep, Wake, stop,
                    ClockAdvances, ClockIsSetBack, vars, tasks
<1>3. CASE AwaitedRunEnds \/ Interrupt \/ CancelRemaining
           \/ \E s \in Runs : TaskBegins(s) \/ TaskEnds(s)
  BY <1>1, <1>3 DEF AwaitedRunEnds, Interrupt, CancelRemaining, TaskBegins, TaskEnds
<1>4. CASE CreateTask
  BY <1>4 DEF CreateTask
<1>5. CASE \E j \in Jobs : TriggerByHand(j)
  BY <1>5 DEF TriggerByHand
<1> QED
  BY <1>2, <1>3, <1>4, <1>5 DEF Next, LoopSteps

\* No pass begins while a task of the one before it waits to begin.
LEMMA PassesWait ==
    ASSUME DueInv, [Next]_vars, pc' \in {"not started", "checking"}
    PROVE  \A r \in created' : r[2] # "task"
<1> SUFFICES ASSUME NEW r \in created', r[2] = "task" PROVE FALSE
  OBVIOUS
<1>1. ~CreateTask
  BY DEF CreateTask, AtJob
<1>2. r \in created
  <2> SUFFICES ASSUME r \notin created PROVE FALSE
    OBVIOUS
  <2>1. PICK j \in Jobs : r = <<j, "hand">>
    BY <1>1, WhereTasksComeFrom
  <2> QED
    BY <2>1
<1>3. pc \notin {"not started", "checking"}
  BY <1>2 DEF DueInv
<1>4. Wake
  BY <1>3 DEF Next, LoopSteps, vars, loop_vars, Start, NewPass, LeaveLoop, SkipJob, AwaitJob,
              CreateTask, AwaitedRunEnds, Sleep, TaskBegins, TaskEnds, TriggerByHand, stop,
              Interrupt, CancelRemaining, ClockAdvances, ClockIsSetBack
<1> QED
  BY <1>2, <1>4 DEF Wake

\* A task once overtaken stays so until it begins.
LEMMA MarksStay ==
    ASSUME [Next]_vars, NEW r \in overtaken, r \in created'
    PROVE  r \in overtaken'
<1>1. CASE overtaken' = overtaken
  BY <1>1
<1>2. CASE \E s : Succeed(s) \/ Fail(s) \/ Cancel(s)
  BY <1>2 DEF Succeed, Fail, Cancel
<1>3. CASE CancelRemaining \/ \E s \in Runs : TaskBegins(s)
  BY <1>3 DEF CancelRemaining, TaskBegins
<1>4. CASE Start \/ LoopSteps \/ stop \/ ClockAdvances \/ ClockIsSetBack \/ UNCHANGED vars
           \/ \E j \in Jobs : TriggerByHand(j)
  BY <1>1, <1>4 DEF Start, LoopSteps, NewPass, LeaveLoop, SkipJob, AwaitJob, CreateTask, Sleep,
                    Wake, stop, ClockAdvances, ClockIsSetBack, TriggerByHand, vars, tasks
<1>5. CASE AwaitedRunEnds \/ Interrupt \/ \E s \in Runs : TaskEnds(s)
  BY <1>1, <1>2, <1>5 DEF AwaitedRunEnds, Interrupt, TaskEnds
<1> QED
  BY <1>3, <1>4, <1>5 DEF Next

\* Every step keeps the reasons of the tasks.
LEMMA DueStep == IInv /\ DueInv /\ [Next]_vars => DueInv'
<1> SUFFICES ASSUME IInv, DueInv, [Next]_vars
             PROVE  DueInv'
  OBVIOUS
<1>1. ASSUME NEW r \in created'
      PROVE  r[2] # "loop"
  <2>1. CASE r \in created
    BY <2>1 DEF DueInv
  <2>2. CASE r \notin created
    <3>1. (CreateTask /\ r = <<Job, "task">>) \/ \E j \in Jobs : r = <<j, "hand">>
      BY <2>2, WhereTasksComeFrom
    <3> QED
      BY <3>1
  <2> QED
    BY <2>1, <2>2
<1>2. ASSUME NEW r \in created', r \notin overtaken', r[2] = "task"
      PROVE  Stands(r)'
  <2>1. CASE r \in created
    <3>1. r \notin overtaken
      BY <1>2, MarksStay
    <3> QED
      BY <1>2, <2>1, <3>1, CreatedStand
  <2>2. CASE r \notin created
    <3>1. CreateTask /\ r = <<Job, "task">>
      BY <1>2, <2>2, WhereTasksComeFrom
    <3> QED
      BY <3>1, CreatedStands
  <2> QED
    BY <2>1, <2>2
<1> QED
  BY <1>1, <1>2, PassesWait DEF DueInv

\* A reading of the clock that is no earlier than that of the pass finds a task due that
\* was due then.
LEMMA LaterIsDue ==
    ASSUME IInv, NEW r \in Runs, Stands(r), now >= tick
    PROVE  now - last_run[r[1]] >= interval[r[1]]
<1>1. r[1] \in Jobs
  BY RunIsPair
<1>2. last_run[r[1]] \in Time
  BY <1>1 DEF Stands, IInv, TypeOK
<1>3. interval[r[1]] \in Int
  BY <1>1, IntervalAssumption
<1>4. tick \in Int /\ now \in Int /\ last_run[r[1]] \in Int
  <2>1. tick \in Time /\ now \in Time
    BY DEF IInv, TypeOK
  <2>2. \A t \in Time : t \in Int
    BY TimeIsNat
  <2> QED
    BY <1>2, <2>1, <2>2
<1>5. tick - last_run[r[1]] >= interval[r[1]]
  BY DEF Stands
<1> QED
  BY <1>3, <1>4, <1>5

\* Whatever else runs and is triggered, and however the clock is set, between the decision
\* of start() and the task: only a success by hand or a clock that reads less than the
\* decision's makes the task run a job that is not due.
THEOREM TasksAreDue == Spec => []CreatedTasksAreDue
<1>1. Init => DueInv
  <2>1. Init => created = {}
    BY DEF Init
  <2> QED
    BY <2>1 DEF DueInv
<1>2. IInv /\ DueInv => CreatedTasksAreDue
  <2> SUFFICES ASSUME IInv, DueInv, NEW r \in created \ overtaken, r[2] = "task"
               PROVE  /\ running[r[1]] => <<r[1], "hand">> \in executing
                      /\ last_run[r[1]] # Never
                      /\ now >= tick => now - last_run[r[1]] >= interval[r[1]]
    BY DEF CreatedTasksAreDue
  <2>1. Stands(r) /\ r \in Runs
    BY DEF DueInv, IInv, TypeOK
  <2> QED
    BY <2>1, LaterIsDue DEF Stands
<1> QED
  BY <1>1, <1>2, DueStep, IInvInit, IInvStep, PTL DEF Spec

=============================================================================
