------------------------- MODULE ExceptionWorkflow --------------------------
(***************************************************************************)
(* The class ExceptionWorkflow of src/exception_workflow.cpp: the list of  *)
(* exceptions, the operations that move one through its life cycle, and    *)
(* the two reports computed from the time stamps.                          *)
(*                                                                         *)
(* Every operation runs to completion before the next (the class has no    *)
(* threads), so an operation is one action.  An operation whose guard is   *)
(* false returns false or nothing and changes nothing: it is a stuttering  *)
(* step.  Time stamps come from std::chrono::system_clock, which follows   *)
(* the wall clock: it advances between calls, and an adjustment may set it *)
(* back.  A time stamp is a 64-bit unsigned number of nanoseconds; here it *)
(* is a number of ticks out of Instants, and differences are taken modulo  *)
(* ClockModulus, the 2^64 of the code.                                     *)
(***************************************************************************)
EXTENDS Integers, Sequences, FiniteSets, Functions, ReconTypes

CONSTANTS
    MatchResults,    \* the match states create_exception is called with
    Assignees,       \* whom an exception may be assigned to
    Resolutions,     \* the notes and resolution texts passed to resolve, which may be empty
    NoText,          \* the empty string
    DayTicks,        \* the length of a day in ticks (one_day_ns)
    ClockModulus,    \* the number of values of a time stamp (2^64)
    MaxExceptions,   \* bound: exceptions created
    Instants         \* bound: the readings of the clock

ASSUME MatchResultsAssumption == MatchResults \subseteq MatchState
ASSUME ClockAssumption ==
    /\ DayTicks \in Nat \ {0}
    /\ ClockModulus \in Nat
    /\ Instants \subseteq 0..(ClockModulus - 1)
ASSUME MaxExceptionsAssumption == MaxExceptions \in Nat

VARIABLES
    exceptions,      \* exceptions_, in the order of creation
    next_id,         \* next_id_
    now,             \* what now_ns() returns at this instant
    set_back         \* history: has the clock been set back?

clock == <<now, set_back>>
vars  == <<exceptions, next_id, clock>>

-----------------------------------------------------------------------------
(* The records and what is read from them. *)

Exception ==
    [id            : 1..MaxExceptions,
     match_state   : MatchResults,
     severity      : ExceptionSeverity,
     state         : ExceptionState,
     assignee      : Assignees \cup {NoText},
     resolution    : Resolutions \cup {NoText},
     created_at_ns : Instants,
     updated_at_ns : Instants]

\* uint64_t subtraction: the difference of two time stamps wraps around.
UnsignedMinus(a, b) == (a - b) % ClockModulus

\* The positions that get_exception's scan would stop at.
Positions(id) == {i \in DOMAIN exceptions : exceptions[i].id = id}

\* get_exception: the position of the first exception with this id.
get_exception(id) ==
    CHOOSE i \in Positions(id) : \A j \in Positions(id) : i <= j

valid_transition ==
    [from \in ExceptionState |->
        CASE from = "Detected"      -> {"Acknowledged", "WrittenOff"}
          [] from = "Acknowledged"  -> {"Investigating", "Escalated", "WrittenOff"}
          [] from = "Investigating" -> {"Resolved", "Escalated", "WrittenOff"}
          [] from = "Escalated"     -> {"Investigating", "Resolved", "WrittenOff"}
          [] from \in {"Resolved", "WrittenOff"} -> {}]

IsClosed(ex) == ex.state \in {"Resolved", "WrittenOff"}

-----------------------------------------------------------------------------
(* The operations. *)

Init ==
    /\ exceptions = <<>>
    /\ next_id = 1
    /\ now \in Instants
    /\ set_back = FALSE

\* Wrong on purpose: ids counted from zero.
create_exception_FromZero(m) ==
    /\ Len(exceptions) < MaxExceptions
    /\ exceptions' = Append(exceptions,
           [id |-> next_id - 1, match_state |-> m,
            severity |-> severity_from_match[m], state |-> "Detected",
            assignee |-> NoText, resolution |-> NoText,
            created_at_ns |-> now, updated_at_ns |-> now])
    /\ next_id' = next_id + 1
    /\ UNCHANGED clock

create_exception(m) ==
    /\ Len(exceptions) < MaxExceptions
    /\ exceptions' = Append(exceptions,
           [id |-> next_id, match_state |-> m,
            severity |-> severity_from_match[m], state |-> "Detected",
            assignee |-> NoText, resolution |-> NoText,
            created_at_ns |-> now, updated_at_ns |-> now])
    /\ next_id' = next_id + 1
    /\ UNCHANGED clock

\* Wrong on purpose: the transition is not checked.
Transition_Unchecked(id, to, text) ==
    /\ Positions(id) # {}
    /\ exceptions' = [exceptions EXCEPT ![get_exception(id)] =
           [@ EXCEPT !.state = to, !.resolution = text, !.updated_at_ns = now]]
    /\ UNCHANGED <<next_id, clock>>

\* What acknowledge, investigate, resolve, escalate and write_off share: the
\* exception is found, the transition is valid, and its state, resolution and
\* time stamp are written.
Transition(id, to, text) ==
    /\ Positions(id) # {}
    /\ LET i  == get_exception(id)
           ex == exceptions[i]
       IN  /\ to \in valid_transition[ex.state]
           /\ exceptions' = [exceptions EXCEPT ![i] =
                  [ex EXCEPT !.state = to, !.resolution = text,
                             !.updated_at_ns = now]]
    /\ UNCHANGED <<next_id, clock>>

Untouched(id) == exceptions[get_exception(id)].resolution

\* Wrong on purpose: resolve writes the notes before it checks the transition.
resolve_NotesFirst(id, text) ==
    /\ Positions(id) # {}
    /\ LET i  == get_exception(id)
           ok == "Resolved" \in valid_transition[exceptions[i].state]
       IN  exceptions' = [exceptions EXCEPT
               ![i].resolution    = text,
               ![i].state         = IF ok THEN "Resolved" ELSE @,
               ![i].updated_at_ns = IF ok THEN now ELSE @]
    /\ UNCHANGED <<next_id, clock>>

acknowledge(id)   == Transition(id, "Acknowledged", Untouched(id))
investigate(id)   == Transition(id, "Investigating", Untouched(id))
resolve(id, text) == Transition(id, "Resolved", text)
escalate(id)      == Transition(id, "Escalated", Untouched(id))
write_off(id)     == Transition(id, "WrittenOff", Untouched(id))

\* assign does not look at the state, and it, too, writes the time stamp.
assign(id, who) ==
    /\ Positions(id) # {}
    /\ LET i == get_exception(id)
       IN  exceptions' = [exceptions EXCEPT ![i].assignee = who,
                                            ![i].updated_at_ns = now]
    /\ UNCHANGED <<next_id, clock>>

\* The wall clock between two calls.
ClockAdvances ==
    /\ \E t \in Instants : t > now /\ now' = t
    /\ UNCHANGED <<exceptions, next_id, set_back>>

ClockIsSetBack ==
    /\ \E t \in Instants : t < now /\ now' = t
    /\ set_back' = TRUE
    /\ UNCHANGED <<exceptions, next_id>>

\* Callers may ask for any id, one that was never given out included.
Operation(id) ==
    \/ acknowledge(id)
    \/ investigate(id)
    \/ \E text \in Resolutions : resolve(id, text)
    \/ escalate(id)
    \/ write_off(id)
    \/ \E who \in Assignees : assign(id, who)

Next ==
    \/ \E m \in MatchResults : create_exception(m)
    \/ \E id \in 0..(MaxExceptions + 1) : Operation(id)
    \/ ClockAdvances
    \/ ClockIsSetBack

Spec == Init /\ [][Next]_vars

-----------------------------------------------------------------------------
(* The reports. *)

\* Wrong on purpose: age counted from the last update, not from the creation.
Bucket_SinceUpdate(ex) ==
    LET age == UnsignedMinus(now, ex.updated_at_ns)
    IN  Cardinality({days \in {1, 3, 7} : age > days * DayTicks})

\* The age bucket of an exception: its place in the list 0-1d, 1-3d, 3-7d, 7d+.
Bucket(ex) ==
    LET age == UnsignedMinus(now, ex.created_at_ns)
    IN  Cardinality({days \in {1, 3, 7} : age > days * DayTicks})

get_aging_report ==
    [b \in 0..3 |-> Cardinality({i \in DOMAIN exceptions :
                        ~IsClosed(exceptions[i]) /\ Bucket(exceptions[i]) = b})]

\* Wrong on purpose: the operands of the unsigned subtraction swapped.
ResolutionTime_Swapped(ex) == UnsignedMinus(ex.created_at_ns, ex.updated_at_ns)

ResolutionTime(ex) == UnsignedMinus(ex.updated_at_ns, ex.created_at_ns)

\* get_average_resolution_time_hours, kept as the sum and the count it divides.
get_average_resolution_time ==
    LET closed == {i \in DOMAIN exceptions : IsClosed(exceptions[i])}
    IN  [total |-> SumFunction([i \in closed |-> ResolutionTime(exceptions[i])]),
         count |-> Cardinality(closed)]

\* The refinement mapping: the stage of the exception with number n.
StageOf(s) ==
    CASE s = "Detected"   -> "new"
      [] s \in {"Acknowledged", "Investigating", "Escalated"} -> "owned"
      [] s = "Resolved"   -> "resolved"
      [] s = "WrittenOff" -> "written off"

Lifecycle == INSTANCE ExceptionLifecycle WITH
    stage   <- [n \in 1..MaxExceptions |->
                    IF n <= Len(exceptions) THEN StageOf(exceptions[n].state)
                                            ELSE "absent"],
    outcome <- [n \in 1..MaxExceptions |->
                    IF n <= Len(exceptions) THEN exceptions[n].resolution
                                            ELSE NoText]

-----------------------------------------------------------------------------
(* Properties. *)

\* Every variable has its type; ids are those next_id gave out.
TypeOK ==
    /\ exceptions \in Seq(Exception)
    /\ Len(exceptions) <= MaxExceptions
    /\ next_id \in 1..(MaxExceptions + 1)
    /\ now \in Instants /\ set_back \in BOOLEAN

\* Exceptions are numbered by their place in the list and next_id_ is the number
\* of the next one, so that get_exception's linear scan, which returns the first
\* hit, can return no other exception than the one meant.
IdsArePositions ==
    /\ next_id = Len(exceptions) + 1
    /\ \A i \in DOMAIN exceptions : exceptions[i].id = i

\* A resolution is on record for resolved exceptions only: resolve, which has two
\* texts and a state to write, writes none of them where it is refused, and no later
\* operation takes an exception with a resolution to another state.  The converse
\* does not hold: resolve takes empty texts as well.
ResolutionOnlyWhenResolved ==
    \A i \in DOMAIN exceptions :
        exceptions[i].resolution # NoText => exceptions[i].state = "Resolved"

\* While the wall clock is not set back, creation precedes the last update and
\* both lie in the past; the unsigned subtractions of the reports rely on it.
TimestampsOrdered ==
    ~set_back => \A i \in DOMAIN exceptions :
        /\ exceptions[i].created_at_ns <= exceptions[i].updated_at_ns
        /\ exceptions[i].updated_at_ns <= now

\* While the wall clock is not set back, nobody waited longer for a resolution
\* than the workflow has existed: the mean time-to-resolution is at most the time
\* since the first exception.
AverageWithinHistory ==
    LET avg == get_average_resolution_time
    IN  ~set_back /\ avg.count > 0 =>
            avg.total <= avg.count * (now - exceptions[1].created_at_ns)

\* A closed exception is never reopened, resolved again or written off, whatever
\* sequence of operations follows: its state and resolution are final.
ClosedIsFinal ==
    [][\A i \in DOMAIN exceptions : IsClosed(exceptions[i]) =>
          /\ exceptions'[i].state = exceptions[i].state
          /\ exceptions'[i].resolution = exceptions[i].resolution]_vars

\* While the wall clock is not set back, an open exception moves to older buckets
\* of the aging report only; no operation on it, assignment included, makes it
\* look younger.
ExceptionsOnlyAge ==
    [][~set_back' => \A i \in DOMAIN exceptions : ~IsClosed(exceptions[i]) =>
          Bucket(exceptions[i]) <= Bucket(exceptions[i])']_vars

\* Once an exception is closed, its time-to-resolution is a fact of the past.  The
\* one operation that still changes it is assign, which writes the same time stamp.
OnlyAssignMovesResolutionTime ==
    [][\A i \in DOMAIN exceptions : IsClosed(exceptions[i]) =>
          \/ ResolutionTime(exceptions[i])' = ResolutionTime(exceptions[i])
          \/ \E who \in Assignees : assign(exceptions[i].id, who)]_vars

\* The workflow implements the life cycle it promises.
LifecycleSpec == Lifecycle!Spec

=============================================================================
