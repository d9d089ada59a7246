# ReconcileX in TLA+

Specifications of ReconcileX, a post-trade reconciliation engine: it imports
internal trades and broker confirmations, matches them, follows the mismatches
through a workflow, tracks settlement, runs jobs on a schedule and pushes
exceptions to dashboard clients.  The modules model the parts of it that change
state.  TLC checks them on small instances, TLAPS proves some of the results for
all values of the constants.  Paths are those of the repository root, `src/`
included: `src/src/settlement.cpp` is the C++ file, `src/python/recon/` the
Python package.

How to run, in this directory:

    tlc -config TradeDatabase_shared.cfg MCTradeDatabase
    tlapm ExceptionWorkflowProofs.tla
    tlapm MatchingEngineProofs.tla
    tlapm FixHandlerProofs.tla
    tlapm SchedulerProofs.tla
    tlapm TradeDatabaseProofs.tla
    tlapm BroadcasterProofs.tla
    tlapm ReconciliationProofs.tla
    tlapm ConfigurationAndSettlementProofs.tla

PROJECT.json lists, for machines, the components, the runs, the lines of code
behind each definition (`map`), the divergences the runs exhibit (`findings`),
what is hard to test in the code (`hazards`) and the theorems.  It also lists for
each property a *mutant*: an operator in the module, marked "Wrong on purpose",
that differs from a definition as a plausible bug would and under which TLC finds
the property violated.  Mutants are used by no specification.

## 1. The system

ReconcileX is two programs that share vocabulary and a schema, not code: a C++
library with a command line, sequential and in memory, and a Python package,
which keeps its data in a SQLite file, has several processes at work on it, and
runs coroutines on an asyncio loop.

| Component | State | Operations | Interacts with |
|---|---|---|---|
| Matching engine, `src/src/matching_engine.cpp` | the counter `auto_resolved_`; during a call the results and the map of claimed ids | `match_single`, `fuzzy_match`, `batch_match` | its results become exceptions |
| Exception workflow, `src/src/exception_workflow.cpp` | the list of exceptions, `next_id_` | `create_exception`, six operations on one exception, aging report, mean time-to-resolution | the wall clock |
| Settlement tracker, `src/src/settlement.cpp` | one record per trade | `track_settlement`, `update_status`, `check_fails`, `get_summary` | the wall clock |
| Trade store, `src/src/trade_store.cpp` | two tables in SQLite, the open transaction | insert, query, count, begin, commit, rollback | opened on `:memory:` by the program and the tests, so that nobody else sees it; read by `cmd_match` |
| FIX handler, `src/src/fix_handler.cpp` | a session record that nobody changes | six message builders, `serialize`, `parse`, two checksum validators | counterparties, over a wire; the commands `fix-gen` and `fix-parse` |
| Reporting, `src/src/reporting.cpp` | none | three HTML reports | counts again what engine, workflow and tracker computed |
| C++ command line, `src/src/main.cpp` | none that outlives a call | one command per process | all of the above |
| Importer, `src/python/recon/importer.py` | the tables of the SQLite file | `import_csv`, `import_fix`, `import_json` | other processes, through the file |
| Database matching, `src/python/recon/matching_logic.py` | the table `exceptions` | `run_matching` | imports, other runs |
| Scheduler, `src/python/recon/scheduler.py` | `running`, `last_run`, `error` of each job; `_running` | `Job.run`, `start`, `stop` | its tasks on the event loop, manual triggers |
| Broadcaster, `src/python/recon/dashboard/websocket.py` | the set `_clients` | `handler`, `broadcast` | connections, other coroutines |
| Configuration, `src/python/recon/config.py` | the module's default dictionary, parts of which all configurations share | `load_config` | the environment; `match --db` writes into what it is given |
| Python command line, `src/python/recon/cli.py` | none | commands | all Python parts |
| Dashboard panels, templates | none | presentation | |

What is hard in it, and what must be right:

* **The scan and the transition table of the workflow.** Operations find their
  exception by a linear scan over ids; whether an id can be ambiguous, whether any
  sequence of calls reopens a closed exception or leaves a resolution on one
  that is not resolved, shows only after several calls.  Both reports subtract
  *unsigned* readings of a wall clock.
* **What an iteration of `batch_match` sees of the earlier ones.**  The map
  `matched_confirms` grows while the first loop goes over the trades, and decides
  which candidates a fuzzy match has and what the second loop reports.
* **Keys of different parts.**  The store tells trades apart by id and venue,
  confirmations by their own id and venue; the engine goes by the trade id alone.
* **One field with two uses.**  `updated_at_ns` is the time of the last change and
  of the closure; `last_updated_ns` is the time of the last write and what
  a deadline is compared with.
* **Processes that share a file.**  Imports and matching runs overlap, are killed
  between two statements or find the database locked; a run reads two tables with
  two statements; an import may be repeated since nobody knows whether it was
  done.
* **Coroutines that switch where they await.**  The scheduler decides on a clock
  reading from the start of a pass, possibly long ago; jobs start from three
  places; a client connects while `broadcast` iterates over the set it joins.
* **A checksum of one byte.**  What arrives may be damaged; `rfind` takes the last
  thing that looks like a checksum, `parse` drops what it cannot read and keeps the
  last of repeated fields, and the two validators add up different things.
* **Defaults that are written to.**  `load_config` copies the outer dictionary only;
  its callers hold configurations while others are loaded or overridden.
* **Nothing bounds the time a job or a send takes**: a first run that hangs keeps
  the pass, and so all jobs, waiting.

## 2. The modules

| Module | Models | Checked with |
|---|---|---|
| `ReconTypes` | the enumerations and `severity_from_match` of `types.h` | |
| `ExceptionLifecycle` | what the workflow promises about each exception (abstract) | refined by the next |
| `ExceptionWorkflow` | the class, one action per operation, and the clock | itself |
| `ExceptionWorkflowProofs` | theorems about it | tlapm |
| `MatchingEngine` | the engine, `batch_match` as one action per loop iteration | `MCMatchingEngine` |
| `MatchingEngineProofs` | theorems about it | tlapm |
| `TradeStore` | the C++ store: inserts, transactions, queries | with the next |
| `Reconciliation` | the C++ program: composes `TradeStore`, `MatchingEngine` and `ExceptionWorkflow` as `cmd_match` does | `MCReconciliation` |
| `ReconciliationProofs` | theorems about it | tlapm |
| `Reporting` | the numbers and rows of two reports, as operators | with `Reconciliation` |
| `SettlementTracker` | the tracker and the clock | itself |
| `Scheduler` | `Job` and `Scheduler` on the event loop | `MCScheduler` |
| `SchedulerProofs` | theorems about it | tlapm |
| `Broadcaster` | `ExceptionBroadcaster` on the event loop | `MCBroadcaster` |
| `BroadcasterProofs` | theorems about it | tlapm |
| `AtomicDatabase` | what the SQLite file promises to those who share it (abstract) | refined by the next |
| `TradeDatabase` | importer and database matching, as processes on one file: the composition of the two components, and the dry run of the command line | `MCTradeDatabase` |
| `TradeDatabaseProofs` | theorems about it | tlapm |
| `FixHandler` | the handler, and a message's way from a builder over a wire to `parse` and the validators | `MCFixHandler` |
| `FixHandlerProofs` | theorems about it | tlapm |
| `Configuration` | `load_config` called several times in a process, and `match --db` | `MCConfiguration` |
| `ConfigurationAndSettlementProofs` | theorems about it, and about `SettlementTracker` | tlapm |

### ExceptionWorkflow

`exceptions` is `exceptions_`, `next_id` is `next_id_`.  An operation takes one
exception by its id, any id, ones never given out included.  Where the code
returns `false` or `nullptr` the action is not enabled: nothing changes.  The five
operations that change the state share a shape in the code, and one operator
(`Transition`) here; the table `valid_transition` is the code's function, row by
row.  `notes` and `resolution`, which only `resolve` writes and always together,
are one text, which `resolve` does not look at and which may be empty.  `now` is
`system_clock`, which any process may set: it moves to any later instant, or
back, which `set_back` remembers.  Differences of time stamps are taken modulo
`ClockModulus` (2^64 in the code).

`ExceptionLifecycle` drops records, ids, clocks and assignees: exceptions are
raised under consecutive numbers, taken on, resolved or written off, and a closed
one stays as it is.  `Lifecycle` is the refinement mapping: `StageOf` forgets
which of three working states an exception is in.

### MatchingEngine

`match_single` and `fuzzy_match` are operators.  `batch_match` is a loop, one
action per iteration: `MatchById`, `MatchFuzzily` in the first, `SkipMatchedConfirm`,
`ReportMissingInternal` in the second.  Several calls are made on one engine,
for `auto_resolved_` outlives a call.  `ReportIsComplete` compares with a
description without loops: what a trade's result is depends on ids alone, not on
when the loop came by.  Quantities and prices are integers; a price tolerance
means the same there, except for the rounding of doubles at exactly the
tolerance, which is not modelled.  Differences of quantities close to 2^63 are
not modelled either.

### TradeStore and Reconciliation

A table is the sequence of its rows in the order of insertion, which a query
without ORDER BY returns them in.  `saved` is what ROLLBACK goes back to.  SQLite
refuses a BEGIN within a transaction, a COMMIT or ROLLBACK outside one; the class
ignores that, so such a call changes nothing.  `accepted` is the caller's
account of the answers of `add_internal` and `add_confirmation`.

`Reconciliation` has the variables of the three classes and takes their actions as
they are: `Fill` is any action of the store; `BeginMatch` reads it and makes the
call `Engine!Call`, which `MatchingEngine` lets take any two sequences of records
that could be compared (`ComparedRecords`); `Match` is `Engine!Step`; `RaiseException` is
`Workflow!create_exception`.  `main` (`src/src/main.cpp:123-125`) gives every
command a new store, so that `cmd_match` alone would find it empty; it is filled as
the integration test does it (`src/test/test_integration.cpp:15-58`), in any order
and with any transactions.  When the command is done, the two reports of
`Reporting` are made of the results and exceptions: the daily report as the integration
test makes it (`src/test/test_integration.cpp:183-195`), the aging report, which no test
and no program makes of a whole match, in the same way.

### Reporting

The reports count what others have computed, a second time and by other means: a
`switch` over states, a lookup of buckets by their labels.  `Cards` has the six
counters, `rows` the table below them; `match_rate` is kept as the two numbers it is
the quotient of.  `ReportsAddUp` relates cards, rows, the number of exceptions and
their severities across the three classes.

### SettlementTracker

`records` is `records_`, a function on the ids tracked.  `update_status` refuses
what the code refuses (`Refused` has its three tests); `track_settlement`
refuses nothing.  A step of either may look the same, so `had` remembers the
statuses a trade has had since it was last tracked, and the life cycle is stated
about those.  `touched_at` is the latest instant at which the record of a trade was
written; `last_updated_ns` should say when the last write was, and differs from it only
once the clock was set back (`set_back`).

### Scheduler

Coroutines of one loop run alone between two awaits.  `pc` says where `start()`
is; actions of anybody else require `Yielded`, that `start()` is at an await.
A *run* is a pair of a job and whoever called `Job.run`: the loop itself, which
awaits the first run of a job, a task it created, or a manual trigger.  A task
exists before it begins (`created`), and the state may change in between; `overtaken`
remembers the tasks whose job was meanwhile run by hand with success.
`Interrupt` is the Ctrl-C that ends `run_scheduler` (`src/python/recon/scheduler.py:123`):
it cancels `start()` where it awaits, and the run it may be awaiting; `stop` is there for
other callers.  `CancelRemaining` is what `asyncio.run` does after either: tasks that have
not begun vanish, runs in flight are cancelled and pass through their `finally`.

There are two clocks.  `datetime.utcnow()` is the wall clock, which advances and may be
set back, by any amount and at any await.  `asyncio.sleep` goes by the event loop's own
monotonic clock, so that a pass begins every second whatever the wall clock reads; how
far that moves in a second is left open.

### Broadcaster

`Connect`, `Drop`, `Leave` are the life of a connection, as `handler` sees it.
`Broadcast` starts an iteration over the set; the iterator remembers the size the
set had (`used`) and raises if it finds another one, also after the last element,
which is CPython's behaviour and the reason for `raised`.  Which elements
a disturbed iterator of unchanged size yields is left open.  Sends to one
connection are written in the order of the calls (`queue`), which is the
websockets library's doing and modelled as external.

### TradeDatabase

A process is an importer or a matcher and makes one call.  The first INSERT of a
process takes the write lock of the file (`writer`), its transaction is `pending`
until the commit; reads see what is committed.  A line of a file is one of four
things to the importer: a row, a row that INSERT OR IGNORE drops without a word
(a null in a text column), a row skipped with a warning (`KeyError`,
`ValueError`), or one that ends the import (`TypeError`, uncaught).  That goes for FIX
messages too: a price that reads as NaN is bound as NULL and dropped, a quantity beyond
64 bits raises `OverflowError`, which nothing catches.  Ids made up
by the importer (`CFM_` and the trade id, `FIX_` and the count) are functions of
what they are made of.  `Die` is a process killed anywhere, or the uncaught
`OperationalError` of a lock that does not come free in five seconds.
The creation of the tables is done before the model begins.  `report` is the list
a run collects; the numbers it prints are counts of that list.  The columns that
nothing reads are left out.

`AtomicDatabase` knows of no lines, locks or transactions: an import happens at one
moment (`Import`), adding the rows of the file whose keys are new, the first of
each key, and returning the number of lines tried, those dropped included; or it
fails and leaves nothing.  A matching run (`Run`) appends its whole report or
nothing.  It is *not* promised a single state of the two tables, as the code reads
them with two statements: what it has seen of each is what was there at some moment,
a prefix, as tables only grow.  The refinement mapping (`Outcomes`, `Counts`,
`Reports`) shows a call's result once it has returned.

### FixHandler

A raw message is a sequence of tokens, each a text before and one behind its first
`=`, ended by SOH; `open` says that the last one lacks its end.  Texts are members of
a set, with what the code looks at: the sum of their bytes, their length, and what
`std::stoi` reads in them (`035` and `35x` are both 35).  `Generate` is any of the six
builders, `Send` a call of `serialize` with some message, `Receive` a counterparty's
message with its own order of fields, repetitions and tokens that `parse` skips.
`Alter` changes one byte: a value, a tag, the `=`, the SOH between two tokens, or
turns a byte into an SOH; all it assumes of the new text is a different sum
modulo 256, which one changed byte always gives.  `Truncate` loses the end, between
two tokens or within one.  `Parse` is `fix-parse`.

### Configuration

A dictionary with all that is nested in it is a function from paths to values.
`shared` are the sections (nested dictionaries) of `_DEFAULT_CONFIG`, which
`dict(...)` does not copy; `configs` has what each configuration returned has to
itself: new sections, and what a file has put in the place of a section.
`load_config_raises` is a file that replaces the section `database` while the
environment names one: the call raises after the merge.

## 3. The runs

Runs that pass:

| Run | Instance | Shows |
|---|---|---|
| `ExceptionWorkflow_life` | 2 exceptions, 5 instants on both sides of each bucket's limit, modulus 16, a resolution with and one without a text | ids stay unambiguous; a resolution text on resolved exceptions only; the workflow implements the life cycle, in which closed stays closed; while the clock is not set back both reports make sense |
| `MatchingEngine_batch` | all batches of up to 2×2 records that differ in everything compared, and of up to 3×3 that differ in ids, after a first call | the report is the loop-free one; matched trades agree; a fuzzy match never takes what an earlier trade claimed; the counter counts this call |
| `Reconciliation_program` | up to 3 trades and 3 confirmations out of 4 records each, with transactions | the store holds what it said it accepted, through rollbacks; every row is answered by a result; the exceptions are the results that are not matches; the reports add up |
| `SettlementTracker_records` | 2 trades, 3 instants | settled and bought-in trades stay so, and none becomes pending again, until tracked anew; only writing its record takes an unsettled trade's flag, and while the clock is not set back a flag tells of one not written since |
| `Scheduler_loop` | 2 jobs with different intervals, 1 manual trigger, 4 instants of a clock that may be set back, Ctrl-C at any await | single flight; tasks created find their job idle and due, unless a run by hand or the clock came between; with jobs that end, every job gets its turn and `stop` ends `start` |
| `Broadcaster_clients` | 3 clients, 2 broadcasts | the set follows the connections; undisturbed broadcasts reach everybody; each client is sent events in order, unless a connection ahead of it ended or one was added meanwhile; broadcasts end |
| `TradeDatabase_shared` | 3 importers, 2 matchers, 5 files of two or three lines of all four kinds | calls are atomic, as `AtomicDatabase` says; imports can be repeated; mismatches on record stay true |
| `FixHandler_wire` | 7 messages of builders, 3 of callers, 259 of counterparties; one byte altered anywhere, or the end lost | intact messages arrive; what the checksum accepts is intact up to it; when the two validators agree |
| `Configuration_process` | 3 loads of 5 files, 2 calls with `--db`, 2 database paths | each configuration has the last word said for each path, its own or another's |

Runs that TLC must find violated, each a statement of the repository's that the
code does not keep:

| Run | What the counterexample shows |
|---|---|
| `SettlementTracker_deadline` | writing a record again, with the same status even, postpones the flag for a deadline already passed |
| `Broadcaster_reach` | a client connects while a send is awaited: the iteration raises, the clients after that one miss the event |
| `TradeDatabase_missing` | trade and confirmation are both committed between the two reads of a run: the trade is saved as missing internally |

### Why the bounds are enough

*Workflow*: exceptions only meet in the scan, in sums and in their order, for which
two suffice; the instants 0, 1, 2, 4, 8 with a day of one tick lie on both sides of
each of the limits 1, 3 and 7 days, the modulus 16 leaves room for differences that
wrap.  What remains of the bound is lifted by the theorems.
*Engine*: an iteration sees earlier ones through a set of ids; two trades with
two confirmations show every pair of comparisons, three with three a fuzzy match
between a claim and a trade that claims later.
What remains of the bound is lifted by the theorems here, too.
*Program*: the records have one id at two venues, two records for one key in each
table, two confirmations of one trade at two prices, one of a trade nobody has, so that
every kind of result comes up; filling is bounded by the number of keys.
*Tracker*: records are independent; two distinguish "this one" from "another".
*Scheduler*: two jobs are the ones the pass is at and has still to come to; four
instants let an interval of 1 and one of 2 pass and be missed.  Sleeps do not depend on
the wall clock, so passes go on when it stands at its last instant, and the liveness
properties are about infinite behaviours.
*Broadcaster*: three clients are one reached, one being sent to and one to come.
*Database*: a repeated import, a correction, a file of messages that fails half way,
lines that are skipped and lines that are dropped, in a file of messages too, and
generated ids in conflict with real ones are all among the five files; three
imports are two that meet and a repetition.  The processes are interchangeable,
which the run uses as symmetry; it has no liveness property.
*FIX*: a damage is to one place of one message, so one message suffices; the sums of
all texts are those of their bytes, and the texts that damage makes of others
include numbers with zeros in front, a sign, or letters behind.  Counterparties send
up to three fields out of six, which repeat, respell, are skipped or look like
a checksum.
*Configuration*: two loads show a default changed, three a change of a change; files
replace a section, a nested dictionary and a value, and add one of each.

Deadlock is not checked where the system stops by itself, which each `.cfg` says.

### Fairness

* `Scheduler!LoopFairness`: the event loop runs what is ready.  Nothing is assumed of the
  wall clock: `EveryJobGetsItsTurn` claims a turn for jobs whose interval is over by it,
  and only as long as nobody sets it back so far that it is not.
  `JobsEnd`, that jobs end, is an assumption about the jobs and not justified by
  the code: nothing limits their time.  `StopEndsStart` and `EveryJobGetsItsTurn`
  are claimed under it only.
* `Broadcaster!FairSpec`: an awaited send ends, since the websockets library pings
  its peers and closes connections that do not answer.  Clients need not come,
  go, or have their handlers end.
* The other specifications have safety properties only, and no fairness.

## 4. What is proved

`ExceptionWorkflowProofs` proves, for any number of exceptions, any assignees,
resolutions, instants, length of a day and modulus:

| Theorem | States |
|---|---|
| `TypeCorrect`, `IdsCorrect` | the type invariant; ids are positions |
| `ResolutionCorrect`, `ClosedStaysClosed` | a resolution text on resolved exceptions only; closed is final |
| `TimestampsCorrect`, `AgingIsMonotone` | while the clock is not set back, time stamps are ordered and open exceptions only grow older |
| `OnlyAssignMoves` | nothing but `assign` changes a closed exception's time-to-resolution |
| `AverageCorrect` | while the clock is not set back, no mean time-to-resolution exceeds the time since the first exception |
| `LifecycleImplemented` | `Spec => LifecycleSpec`, the refinement |

They rest on the named assumptions of `ExceptionWorkflow` about its constants,
which TLC evaluates in its runs: match results are match states, the bound on exceptions
is a number, a day is positive and instants are below the modulus.

The argument.  No property is about operations, which look an exception up by
id, until it is known that the scan finds the right one.  `IInv` is therefore
`TypeOK` with `IdsArePositions`; it is inductive (`IInvInit`, `IInvStep`).  From
it, `Found` says that the scan for an id stops at the position of that number, and
`OperationEffect` that each operation comes down to one of two rewrites of one
record: `Moves`, along the transition table, or an assignment.  `StepEffect` lifts
this to `Next`.  Everything after that is about the two rewrites and the creation,
one case each.  `ResolutionOnlyWhenResolved` is not inductive by itself, since
an operation on an ambiguous id could put the text elsewhere; with `IInv` it is.
`AgingIsMonotone` needs `TimestampsOrdered` in addition: only for ordered time
stamps is the unsigned difference the difference.  So does `AverageCorrect`, which
is about a sum over a set of exceptions: that the sum of a finite set exists
(`PartialSumsExist`), and is at most as many times a bound as there are members
(`SumBounded`), is by induction on the size of the set; the bound is the age of the
first exception, which no other exceeds (`TimestampsOrdered`).

`MatchingEngineProofs` proves, for batches of any length, any trades and any
tolerances:

| Theorem | States |
|---|---|
| `TypeCorrect` | the type invariant |
| `ReportComplete` | `ReportIsComplete`: the loops compute the loop-free description |
| `MatchedSound`, `FuzzyLeaves` | what a match means, and what a fuzzy match leaves alone |
| `CountCorrect` | `AutoResolvedCount`, over any number of calls |

They rest on the assumptions of `MatchingEngine`: the empty id is no trade's,
tolerances are natural numbers, and the arguments of a call are sequences of trades.

The argument.  `ReportIsComplete` speaks about the end of a call; its inductive form
`IInv` says how far the loops have got before each iteration.  `TradesDone`: the
results so far are those `ResultFor` gives, and `matched_confirms` is the set of
ids of the trades before `pos` that some confirmation carries (`Claimed`).
`ResultFor` says "ids tried before", the code "ids claimed before"; the two leave
the same candidates, since a confirmation's id is claimed as soon as it is tried
(`ClaimedIsTried`).  `ConfirmsDone`: behind the results for the trades there is one
for each unclaimed confirmation before `pos`, at the place that `PlaceOf` counts
out (`UnclaimedCounted`).  One lemma per action shows that the invariant is kept.
After that no property needs the loops again: `OriginOfResult` says which of three
kinds of result a trade got, and soundness follows by cases.  The count needs a
second induction on top of `IInv`, since nothing but the results so far determines it.

`FixHandlerProofs` proves, for any texts with any sums of bytes
and lengths, any requests, messages of any length and any damage of the model:

| Theorem | States |
|---|---|
| `TypeCorrect` | the type invariant |
| `IntactCorrect` | `IntactArrives`: undamaged messages are read as they were built |
| `AcceptedCorrect` | `AcceptedIsIntact`: what is accepted after damage is intact up to its checksum |
| `ValidatorsCorrect` | `ValidatorsAgree`: when the two validators agree |

They rest on the assumptions of `FixHandler`: the texts include those the handler writes
itself, `std::stoi` reads back what `std::to_string` and the padding to three digits have
written, the numbers that go into a message have texts, and a message has finitely
many fields.

The argument.  Everything comes down to two facts about the sum of the bytes.  The sum of
two parts is that of their sums (`SumConcat`), so that damage to one place in front of the
checksum changes what the checksum is compared with (`SumsDiffer`, `DamageBefore`), while
the checksum itself, if it can still be found, is what it was.  And the sum does not
depend on the order of different tokens (`SumPermuted`: take the last token out of both
sequences, and go on), so that the validator of parsed messages, which sorts the fields,
gets the sum of the bytes as received (`ValidatorsMeet`).  What `serialize` writes is
described without its loops (`Serialized`): the tags of the message in front of exactly
one checksum, at the end, none of them twice (`SerializedFaithful`), so `parse` drops
nothing (`Intact`).  A damage to the checksum field itself is a case of its own
(`DamageLast`), and so is a lost end, after which no complete checksum is left (`CutAfter`,
`CutWithin`).  The invariant `IInv` says what is on the wire: what was serialized
(`Undamaged`), or what is refused or has its content as it was (`Damaged`), and that
what is shown is what the wire holds (`Read`).  `AcceptedIsIntact` alone would not do, as
it says nothing until the message is read.

`TradeDatabaseProofs` proves, for any number of importers and matchers, any files with
any number of lines, and any place to die at:

| Theorem | States |
|---|---|
| `InvariantHolds` | the inductive invariant `IInv` |
| `TypeCorrect` | the type invariant |
| `AtomicImplemented` | `Spec => AtomicSpec`: the transactions implement `AtomicDatabase` |
| `ReimportIsIdle` | `ReimportChangesNothing` |
| `BreaksCorrect` | `BreaksStayReal`: a mismatch on record is one in the tables, and stays one |

They rest on the assumptions of `TradeDatabase`: importers and matchers are different
processes, files are sequences of lines, made-up ids are ids.

The argument.  `AtomicDatabase` says what an import adds in one formula (`Adds`): at
which place of the table each line with a new key ends up is counted, not looped
over.  `Partly` is the same for the lines before the current one, with what one more
line needs: that their keys are in the table, and where every added row came from.
`PartlyStep` shows that INSERT OR IGNORE of the next line extends it, and
`Finished` that at the last line it is what `Import` promises.  `IInv` says that
`Partly` relates the committed table to the pending one of whoever holds the write
lock.  This needs that nobody else writes meanwhile, which is the lock's doing
(`LockOK`), and that an import that has not met a row yet has nothing to add.  For
runs, `IInv` says that what was read is a beginning of its table, which `TablesGrow`
keeps true.  Each step then either ends no call and does not show (`NothingEnds`), or
ends one and is an `Import`, a `Run` or a `Fail` (`CallEnds`, `AtomicStep`).
`ReimportIsIdle` follows from a history-free fact in `IInv`: the keys of a file
imported stay in its table, so a second import has nothing to add
(`NothingToAdd`).

`BreaksCorrect` is about what a run computes from the rows it has read.  `BreaksFacts`
says what is in its list, for which the places of the rows kept are counted
(`RankTaken`), and `VerdictFacts` that each verdict is true of the rows it is about.  What
was read is a beginning of each table and tables only grow, so that two rows that
differ stay there to differ (`RealStays`); only that something is missing may cease to be
true.  `TypeCorrect` comes with it (`RecordsAlways`), as the
types of the saved exceptions are those of the verdicts.

`SchedulerProofs` proves, for any number of jobs, any intervals and any number of
triggers by hand, `TypeCorrect`, `OneRunEach` (`SingleFlight`) and `TasksAreDue`
(`CreatedTasksAreDue`).  They rest on the assumptions of `Scheduler`: intervals and
bounds are natural numbers, the list of jobs names none twice, "never" is no instant.

The argument.  Every action does one of four things to the runs in flight: one begins,
one ends, all are cancelled, or none is touched (`RunsEffect`).  `SingleFlight` is
kept by the flags, so `IInv` adds to it that a flag is up exactly where a run is in
flight (`FlagsTell`), and that the loop waits for a run only while its position is at
a job of the list (`AwaitsAtJob`), which makes the run that ends there one of a job.  `CreatedTasksAreDue`
is about a decision and what comes between it and the task.  By the reading that the pass
began with, the job was idle and due (`Stands`); that reading stays the same until the
next pass, by which time the task has begun (`DueInv`, `PassesWait`).  What remains are the
runs of the job that end in between: the loop awaits no job that has succeeded, and makes
no second task before the first has begun, so these are runs by hand, which `overtaken`
records (`EndStands`, `BeginStands`).  The present enters only at the end: where the clock
reads no less than the pass did, due by the pass is due now (`LaterIsDue`).

`BroadcasterProofs` proves, for any number of clients and of broadcasts:

| Theorem | States |
|---|---|
| `TypeCorrect` | the type invariant |
| `RegistryCorrect` | `RegistryFollowsConnections`, across every await |
| `ReturnedReached` | `ReturnedReachedAll` |
| `EventsOrdered` | `EventsInOrder` |

They rest on the assumptions of `Broadcaster`: clients are listed in the order in which
the set yields them, each once, and the number of events is a natural number.

The argument.  The registry follows the connections since a handler is in the set from
its first statement to its last, and only a failed send takes somebody else out.  That
an undisturbed broadcast reaches everybody needs the place of its iterator: whoever it
found and has not been sent the event is still to come, is being sent to, or has lost
the connection.  The order of events is a matter of two broadcasts at once.
The set that an undisturbed broadcast found only shrinks (`InStep`), and once it has
shrunk the broadcast raises at its next step; so whoever goes on walks over the whole set
it found, in the order of that set, and has not been passed (`NotPassed`).  A later
broadcast that gets ahead of it at some client must have got past a client where the
earlier one still waits, although sends to one client leave its queue in turn: so its
send raised, for a connection that had ended, which both had found.  That is what
`MayOvertake` grants, together with broadcasts whose iterator was disturbed without
noticing, which takes the end of a connection as well (`WillRaise`).

`ReconciliationProofs` proves, for any records and any bound on filling the store:

| Theorem | States |
|---|---|
| `StoreCorrect` | `StoreHoldsWhatItAccepted`, through commits and rollbacks |
| `EngineImplemented`, `WorkflowImplemented` | the program implements `MatchingEngine` and `ExceptionWorkflow`, so all that is proved of these holds of it |
| `TypeCorrect` | the type invariant of the composition |
| `RowsAnswered` | `EveryRowIsAnswered` |
| `ExceptionsCorrect` | `ExceptionsAreTheMismatches` |
| `MatchesSound` | soundness of matches, in the program |
| `ReportsCorrect` | `ReportsAddUp` |

They rest on the assumptions of `Reconciliation` and `TradeStore`: the records have
ids, prices and quantities that are numbers, and the tolerances and bounds are numbers.
That these imply what `MatchingEngine` and `ExceptionWorkflow` assume of their constants
is proved (`EngineAssumptions`, `WorkflowAssumptions`).

The argument goes by components.  The store is by itself: its invariant (`StoreInv`) says
that the keys of the rows are distinct and known, now and in what a ROLLBACK would go
back to.  Each step of the program is a step of the engine or leaves its variables
alone, and likewise for the workflow, which gives the two implementation theorems; from
then on the theorems of `MatchingEngineProofs` and `ExceptionWorkflowProofs` are used
as they stand, with the constants of this module for theirs.  What is left belongs to the
composition: that the batch is what the store answered and stays that during the match
(`Progress`), and how many of the results before the loop's position have become
exceptions (`Raised`).  `RowsAnswered` is then `ReportIsComplete` of the engine, read at
the moment the call is over.  The reports count results and exceptions by groups;
`ReportsCorrect` shows that the groups are disjoint and leave nothing out.

`ConfigurationAndSettlementProofs` proves about `Configuration`, for files nested to any depth and any number of calls,
`TypeCorrect` and `LastWordCorrect` (`LastWordCounts`).  They rest on
`TreeAssumption`: files and defaults are trees of dictionaries over the given keys,
the defaults have nothing but dictionaries at the top, and among them a path to the
database.

The argument.  A path is cut short by a dictionary that has a value at a prefix of it.
`MergeSays` states what `_deep_merge` does path by path: where the dictionary merged in
has a value or cuts the path short, its word counts, else what was said before.  No
recursion is needed, as a tree is a function on paths, and nesting is the prefix order
(`PrefixesNest`).  The inductive invariant has three parts.  `SharedSays`: of a path in
a section, the shared dictionary says what the last call with a word on it said, calls
that replaced the section left out.  `Made`: a configuration's own part is that of one
call, and whatever else was written for it is a database path into a section it
shares.  `SharedTyped`: sections stay dictionaries, without which a later merge would
replace what it should enter.  `LastWordCounts` follows by one distinction, whether the
configuration shares the section or not.

The same module proves about `SettlementTracker`, for any trades and any number of
instants, `TrackerTypeCorrect` (`STTypeOK`), `OnlyTracking` (`OnlyTrackingRevives`) and
`FlagsTold` (`FlaggedAreLeftAlone`).  The two components have nothing to do with each other;
the names that every specification has begin with `ST` in `SettlementTracker`, so that
one module can extend both.  They rest on `MaxTimeAssumption`, that the last instant is a
number.  The work is in the type invariant, since `records` and the histories are
functions whose domains grow with each trade tracked; `PutIs` and `PutTyped` say what
becomes of them.  With the types, `OnlyTrackingRevives` is inductive: a trade that has
been settled *is* settled, so that an update is refused.  The flags rest on what a time
stamp tells of the last write (`StampsTell`): it is never later than that, and the same as
long as the clock is not set back.  Every operation that writes a record keeps this, since
it writes the stamp too.

Theorems also state properties that no run lists, since the runs check a refinement
which contains them or a report that rests on them: `ClosedIsFinal`,
`TimestampsOrdered` and `OnlyAssignMovesResolutionTime` of `ExceptionWorkflow`, and
`EngineImplemented`, `WorkflowImplemented` and `MatchesSound` of `Reconciliation`.

Only model-checked is liveness, which is out of the prover's reach: `StopEndsStart` and
`EveryJobGetsItsTurn` of `Scheduler`, and the end of a broadcast.  Sums,
filters and loops that the modules define by recursion on data are proved about where the
recursion is a function or an operator of the library with an explicit definition; the
facts about them are stated for what those definitions say, and proved by
well-founded induction on the natural numbers.

## 5. What is not modelled

* **Trade store (C++)**: the filters of the two queries, which no program passes
  (tests do); the columns that nothing compares; a store on a file, which no
  program opens: there, `sqlite3_changes` after an insert that found the database
  busy is the count of an earlier statement (`src/src/trade_store.cpp:91-92`).
* **C++ command line**: the commands `exceptions`, `settlement` and the usage text,
  which print.  `main` gives every command new, empty objects.
* **Settlement tracker**: `get_record` and `get_summary`, which count and divide.
* **Python command line**: the printing commands; `resolve`, `assign`, `settlement` and
  `backfill` do nothing else (`src/python/recon/cli.py:194-200` for the first).
  `_run_matching_pure` is the dry run of `TradeDatabase`.
* **FIX handler**: values that hold an SOH themselves; several messages in one text,
  and bytes behind the checksum; `FixSession`, which has sequence numbers that
  nothing reads or changes; `compute_checksum`, `wrap_with_checksum` and
  `pad_checksum`, private and called by nobody.  `validate_checksum` looks at neither
  `BodyLength` nor the order of fields: two fields exchanged, or two bytes altered so
  that their sum stays, go unnoticed, as with any FIX checksum.
* **Reporting**: the settlement summary report, which puts the tracker's numbers into
  HTML; exports, `render_template`, the HTML itself.  The match rate is printed
  with one decimal, so that 100.0% may stand for less.
* **Configuration**: the search for the file and the reading of YAML; a file whose
  top level is no dictionary, on which the merge raises before anything changes.
* **Templates, dashboard panels**: presentation of what others computed.

Divergences between text and code that were met and have no run, as they show in a
single line or are a matter of wording:

* `src/src/exception_workflow.cpp:140`: the age of an exception is an unsigned
  difference; after the wall clock was set back it wraps around, and a new exception
  is reported as older than seven days (`ExceptionsOnlyAge` and `TimestampsOrdered`
  say what holds while it is not set back).
* `src/README.md:68` (matched: both sides agree on all fields) and `:52`: the engine
  does not compare venues, so one confirmation matches the trades that the store
  keeps apart under one id at two venues.
* `src/README.md:102` time-to-resolution, and `src/src/exception_workflow.cpp:97`:
  `assign` on a closed exception moves it (`OnlyAssignMovesResolutionTime` bounds
  the damage).
* `src/README.md:93-97` lists severities other than those of
  `src/include/recon/types.h:53`.
* `src/README.md:68` counts fuzzy matches among those resolved automatically; the
  code (`src/src/matching_engine.cpp:115`) does so for matches by id only.
* `src/src/matching_engine.cpp:55`: a trade whose symbol or side differs is a
  `PriceMismatch`.
* `src/python/recon/scheduler.py:71` logs "Scheduler stopped" at once, but `_running`
  is looked at between passes only: a pass under way begins further jobs.
* `src/python/recon/scheduler.py:65-66`: a job that is run by hand between the decision
  that it is due and the task created for it runs twice in a row, whatever its interval
  (`CreatedTasksAreDue` names the exception).
* `src/python/recon/dashboard/websocket.py:43-45`: of two broadcasts that wait at a
  client whose connection ends, the send of the later one may raise first; it then goes on
  ahead of the earlier, and the clients behind get the two events in the other order
  (`EventsInOrder` names the exception).
* `src/src/trade_store.cpp:219-221`: a BEGIN within a transaction is refused without a
  word, so that the ROLLBACK meant for it undoes the outer transaction
  (`StoreHoldsWhatItAccepted` is about the store, not about what its caller meant).
* `src/python/recon/importer.py:155-164`: a quantity beyond 64 bits in one FIX message ends
  the import of the whole file with an `OverflowError`; a price that reads as NaN drops its
  message, which is counted as imported.
* `src/src/exception_workflow.cpp:67-75`: an exception can be resolved with an empty
  resolution.
* `src/README.md:52` promises an alert for duplicates; `src/python/recon/importer.py:111`
  counts the rows that INSERT OR IGNORE dropped as imported.
* Confirmations are unique by confirmation id and venue, trades by trade id and
  venue (`src/python/recon/importer.py:34-47`).
* `src/python/recon/importer.py:83` stores Buy as 1 and Sell as 0, the C++ store the
  other way round.
* `src/config/schedule.yaml` gives jobs dependencies (line 11) and time limits (lines
  5, 12, 18, 24, 30), which nothing reads: a first run that hangs keeps the loop waiting.
* `src/README.md:62` has fuzzy matches compare time stamps as well; the code does not
  (`src/src/matching_engine.cpp:64-67`).
* `src/src/matching_engine.cpp:130`: a fuzzy match does not enter its confirmation into
  `matched_confirms`, so the last loop reports that confirmation as missing
  internally as well (`src/README.md:71`); `ReportIsComplete` describes it as it is.
* `src/src/settlement.cpp:32`, "can only move forward, or from Failed to BuyIn": a
  failed settlement may be instructed again, or settled (`Refused`).
* `src/src/fix_handler.cpp:32-33` says that the checksum starts behind `BeginString`;
  it is taken over the whole message, as FIX has it.  `8=4.4` is not FIX's
  `8=FIX.4.4`.
* `src/src/fix_handler.cpp:182-198`: an order cancel request has no `ClOrdID` and no
  `TransactTime`.
* `src/python/recon/config.py:43`, "Merges on top of built-in defaults.": the merge
  writes into the defaults, so the next call merges on top of what this one left, and
  configurations already handed out change (`LastWordCounts` says to what).
* `src/src/reporting.cpp:125` heads the exceptions it is given "Open Exceptions", closed
  ones included.
* `src/python/recon/cli.py:181`: `_list_exceptions_pure` takes filters and ignores them.

## 6. The plan

Done: all components of section 2 with their runs, and the proofs of section 4.

The safety properties that the runs check are proved, all of them.  To come, in this order:

1. What of the liveness properties is safety: that each send of a broadcast brings its end
   nearer by a measure that nothing increases.
2. The guards that liveness needs, stated without ENABLED: that after `stop` no pass of
   the scheduler begins, and that whoever holds the lock of the file can go on.
3. `AtomicDatabase` by itself: that what it promises suffices for `BreaksStayReal`.
