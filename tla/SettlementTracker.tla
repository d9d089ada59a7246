-------------------------- MODULE SettlementTracker -------------------------
(***************************************************************************)
(* The class SettlementTracker of src/settlement.cpp: one record per trade *)
(* id with its settlement status and the time of the last write, the two   *)
(* operations that write records and the query for unsettled trades.  Venue *)
(* and amount are payload and left out.  Time stamps are readings of the   *)
(* wall clock, as in ExceptionWorkflow, which may be set back.  What every *)
(* specification has, Init, Next, ..., has ST in front of its name here, so *)
(* that a module can extend this one and another.                          *)
(***************************************************************************)
EXTENDS Integers, ReconTypes

CONSTANTS
    TradeIds,
    MaxTime          \* bound: the last instant of the clock

ASSUME MaxTimeAssumption == MaxTime \in Nat

VARIABLES
    records,         \* records_: a function from the tracked trade ids
    now,             \* what now_ns() returns at this instant
    tracked_at,      \* history: when each trade was first tracked
    touched_at,      \* history: the latest instant at which its record was written
    had,             \* history: its statuses since it was last tracked
    set_back         \* history: has the clock been set back?

history == <<tracked_at, touched_at, had, set_back>>
STvars  == <<records, now, history>>

Time == 0..MaxTime
SettlementRecord == [status : SettlementStatus, last_updated_ns : Time]

-----------------------------------------------------------------------------
(* The operations. *)

STInit ==
    /\ records = [id \in {} |-> {}]
    /\ tracked_at = [id \in {} |-> {}] /\ touched_at = [id \in {} |-> {}]
    /\ had = [id \in {} |-> {}]
    /\ now \in Time /\ set_back = FALSE

Put(f, id, value) == [k \in DOMAIN f \cup {id} |-> IF k = id THEN value ELSE f[k]]

\* The history of a write: its instant, unless the record was written at a later one.
Touch(id) ==
    touched_at' = IF id \in DOMAIN touched_at /\ touched_at[id] > now
                  THEN touched_at ELSE Put(touched_at, id, now)

Write(id, s) ==
    /\ records' = Put(records, id, [status |-> s, last_updated_ns |-> now])
    /\ Touch(id)

\* track_settlement overwrites whatever record there is.
track_settlement(id, s) ==
    /\ Write(id, s)
    /\ tracked_at' = IF id \in DOMAIN records THEN tracked_at ELSE Put(tracked_at, id, now)
    /\ had' = Put(had, id, {s})
    /\ UNCHANGED <<now, set_back>>

\* Wrong on purpose: a bought-in trade may still be updated.
Refused_NotBuyIn(from, to) ==
    \/ from = "Settled"
    \/ to = "Pending" /\ from # "Pending"

\* What update_status refuses.
Refused(from, to) ==
    \/ from \in {"Settled", "BuyIn"}
    \/ to = "Pending" /\ from # "Pending"
    \/ to = "Failed" /\ from = "Settled"

\* Wrong on purpose: operator[] instead of find creates a record.
update_status_Upsert(id, s) ==
    /\ id \in DOMAIN records => ~Refused(records[id].status, s)
    /\ Write(id, s)
    /\ had' = Put(had, id, {s})
    /\ UNCHANGED <<now, tracked_at, set_back>>

\* Wrong on purpose: only the status is written.
update_status_Unstamped(id, s) ==
    /\ id \in DOMAIN records
    /\ ~Refused(records[id].status, s)
    /\ records' = [records EXCEPT ![id].status = s]
    /\ Touch(id)
    /\ had' = [had EXCEPT ![id] = @ \cup {s}]
    /\ UNCHANGED <<now, tracked_at, set_back>>

update_status(id, s) ==
    /\ id \in DOMAIN records
    /\ ~Refused(records[id].status, s)
    /\ Write(id, s)
    /\ had' = [had EXCEPT ![id] = @ \cup {s}]
    /\ UNCHANGED <<now, tracked_at, set_back>>

ClockAdvances ==
    /\ now < MaxTime
    /\ now' = now + 1
    /\ UNCHANGED <<records, history>>

ClockIsSetBack ==
    /\ \E t \in Time : t < now /\ now' = t
    /\ set_back' = TRUE
    /\ UNCHANGED <<records, tracked_at, touched_at, had>>

STNext ==
    \/ \E id \in TradeIds, s \in SettlementStatus :
           track_settlement(id, s) \/ update_status(id, s)
    \/ ClockAdvances
    \/ ClockIsSetBack

STSpec == STInit /\ [][STNext]_STvars

-----------------------------------------------------------------------------
(* The query. *)

Unsettled(id) == records[id].status \in {"Pending", "Instructed"}

\* The unsettled trades whose records were not written since the deadline.
check_fails(deadline_ns) ==
    {id \in DOMAIN records : Unsettled(id) /\ records[id].last_updated_ns < deadline_ns}

-----------------------------------------------------------------------------
(* Properties. *)

\* Every variable has its type.
STTypeOK ==
    /\ DOMAIN records \subseteq TradeIds
    /\ records \in [DOMAIN records -> SettlementRecord]
    /\ tracked_at \in [DOMAIN records -> Time] /\ touched_at \in [DOMAIN records -> Time]
    /\ had \in [DOMAIN records -> SUBSET SettlementStatus]
    /\ now \in Time /\ set_back \in BOOLEAN

\* Until a trade is tracked anew, a settlement or a buy-in is the last thing that
\* happens to it, and it is pending only as long as it has been nothing else,
\* whatever sequence of updates, by way of Failed for instance, is tried.
OnlyTrackingRevives ==
    \A id \in DOMAIN records :
        /\ had[id] \cap {"Settled", "BuyIn"} \subseteq {records[id].status}
        /\ records[id].status = "Pending" => had[id] = {"Pending"}

\* What a flag tells although every write, one that changes nothing included, moves the
\* time stamp it rests on.  An unsettled trade whose record nobody has written since a
\* deadline is flagged for it, however the clock was set meanwhile: only a write to the
\* trade itself postpones its flag.  And while the clock is not set back, a trade that
\* is flagged has really been left alone since the deadline.
FlaggedAreLeftAlone ==
    \A id \in DOMAIN records, d \in Time : Unsettled(id) =>
        /\ touched_at[id] < d => id \in check_fails(d)
        /\ ~set_back /\ id \in check_fails(d) => touched_at[id] < d

-----------------------------------------------------------------------------
(* What the documentation states and the code does not do. *)

\* README.md:114: unsettled trades are flagged after the T+N deadline, counted from
\* the trade date T, which is no later than the moment the trade was first tracked.
UnsettledIsFlagged ==
    \A id \in DOMAIN records : \A d \in Time :
        Unsettled(id) /\ tracked_at[id] < d /\ d <= now => id \in check_fails(d)

=============================================================================
