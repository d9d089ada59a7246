--------------------------- MODULE Reconciliation ---------------------------
(***************************************************************************)
(* The program the C++ classes make up: a store is filled, in transactions *)
(* or without, and cmd_match of src/main.cpp reads both tables, has a new  *)
(* MatchingEngine match them and raises an exception in a new              *)
(* ExceptionWorkflow for every result that is not a match.  The test       *)
(* src/test/test_integration.cpp does the same.  The module composes       *)
(* TradeStore, MatchingEngine and ExceptionWorkflow, whose actions it      *)
(* takes as they are.                                                      *)
(*                                                                         *)
(* Everything happens in one thread: the store does not change during a    *)
(* match.  The process ends after cmd_match.  Nothing here depends on the  *)
(* time stamps of the exceptions: the clock stands still.                  *)
(***************************************************************************)
EXTENDS Integers, TradeStore, FiniteSets

CONSTANTS
    NoId,                                          \* the empty string
    price_tolerance, qty_tolerance, auto_resolve,  \* MatchingConfig
    MaxExceptions                                  \* bound: results of a match

ASSUME ComparisonAssumption ==
    \A r \in TradeRecords \cup BrokerConfirmations :
        r.trade_id # NoId /\ r.side \in Side /\ r.quantity \in Nat /\ r.price \in Nat
ASSUME ToleranceAssumption ==
    qty_tolerance \in Nat /\ price_tolerance \in Nat /\ auto_resolve \in BOOLEAN
ASSUME RoomAssumption == MaxExceptions \in Nat

VARIABLES
    internals, confirms, matched_confirms, results,        \* MatchingEngine
    auto_resolved, resolved_before, pc, pos, calls,
    exceptions, next_id, now, set_back,                    \* ExceptionWorkflow
    phase,       \* what the program is doing: filling, matching, raising, done
    at           \* the result the loop of cmd_match is at

engine   == <<internals, confirms, matched_confirms, results,
              auto_resolved, resolved_before, pc, pos, calls>>
workflow == <<exceptions, next_id, now, set_back>>
vars     == <<store, engine, workflow, phase, at>>

Records == TradeRecords \cup BrokerConfirmations

\* What the engine compares of a record: neither venue nor confirmation id.
ComparedRecords ==
    [trade_id : {r.trade_id : r \in Records}, symbol : {r.symbol : r \in Records},
     side : Side, quantity : {r.quantity : r \in Records},
     price : {r.price : r \in Records}]

\* One call of the engine, made below.
Engine == INSTANCE MatchingEngine WITH
    TradeIds   <- {r.trade_id : r \in Records},
    Symbols    <- {r.symbol : r \in Records},
    Quantities <- {r.quantity : r \in Records},
    Prices     <- {r.price : r \in Records},
    MaxCalls   <- 1,
    Batches    <- <<Seq(ComparedRecords) \X Seq(ComparedRecords)>>

Workflow == INSTANCE ExceptionWorkflow WITH
    MatchResults <- MatchState \ {"Matched"},
    Assignees    <- {}, Resolutions <- {}, NoText <- NoId,
    DayTicks     <- 1, ClockModulus <- 1, Instants <- {0}

Reports == INSTANCE Reporting

-----------------------------------------------------------------------------

Init ==
    /\ InitStore
    /\ Engine!Init
    /\ Workflow!Init
    /\ phase = "filling"
    /\ at = 1

Fill ==
    /\ phase = "filling"
    /\ StoreStep
    /\ UNCHANGED <<engine, workflow, phase, at>>

Compared(table) ==
    [i \in DOMAIN table |->
        [trade_id |-> table[i].trade_id, symbol |-> table[i].symbol,
         side |-> table[i].side, quantity |-> table[i].quantity,
         price |-> table[i].price]]

\* cmd_match reads the two tables, within a transaction of its own connection if
\* one is open, and calls batch_match.
BeginMatch ==
    /\ phase = "filling"
    /\ Engine!Call(<<Compared(query_internal), Compared(query_confirmations)>>)
    /\ phase' = "matching"
    /\ UNCHANGED <<store, workflow, at>>

Match ==
    /\ phase = "matching"
    /\ Engine!Step
    /\ phase' = IF pc' = "returned" THEN "raising" ELSE "matching"
    /\ UNCHANGED <<store, workflow, at>>

AtResult == phase = "raising" /\ at <= Len(results)

\* Wrong on purpose: nothing is raised for a duplicate confirmation.
RaiseException_NotDuplicates ==
    /\ AtResult
    /\ results[at].state # "Matched"
    /\ IF results[at].state = "Duplicate" THEN UNCHANGED workflow
       ELSE Workflow!create_exception(results[at].state)
    /\ at' = at + 1
    /\ UNCHANGED <<store, engine, phase>>

\* Wrong on purpose: every result is raised, matches included.
RaiseException_All ==
    /\ AtResult
    /\ Workflow!create_exception(results[at].state)
    /\ at' = at + 1
    /\ UNCHANGED <<store, engine, phase>>

RaiseException ==
    /\ AtResult
    /\ results[at].state # "Matched"
    /\ Workflow!create_exception(results[at].state)
    /\ at' = at + 1
    /\ UNCHANGED <<store, engine, phase>>

SkipMatch ==
    /\ AtResult
    /\ results[at].state = "Matched"
    /\ at' = at + 1
    /\ UNCHANGED <<store, engine, workflow, phase>>

EndMatch ==
    /\ phase = "raising" /\ at > Len(results)
    /\ phase' = "done"
    /\ UNCHANGED <<store, engine, workflow, at>>

cmd_match == BeginMatch \/ Match \/ RaiseException \/ SkipMatch \/ EndMatch

Next == Fill \/ cmd_match

Spec == Init /\ [][Next]_vars

-----------------------------------------------------------------------------
(* Properties. *)

\* Every variable has its type.
TypeOK ==
    /\ StoreTypeOK
    /\ Engine!TypeOK
    /\ Workflow!TypeOK
    /\ phase \in {"filling", "matching", "raising", "done"}
    /\ at \in 1..(Len(results) + 1)

\* Nothing in the store goes unanswered: the result at the place of an internal
\* trade is about that trade, although the store tells trades of one id at two
\* venues apart and the engine does not; and a confirmation is either for the id
\* of some internal trade or reported as missing internally.  There is no third
\* kind of result.
EveryRowIsAnswered ==
    phase \in {"raising", "done"} =>
        /\ \A i \in DOMAIN internal_trades :
               /\ i <= Len(results)
               /\ results[i].internal_trade_id = internal_trades[i].trade_id
        /\ \A c \in Rows(confirmations) :
               \/ \E r \in Rows(internal_trades) : r.trade_id = c.trade_id
               \/ \E x \in Rows(results) :
                      x.state = "MissingInternal" /\ x.broker_trade_id = c.trade_id
        /\ Len(results) <= get_internal_count + get_confirmation_count
        /\ \A k \in DOMAIN results :
               k > get_internal_count => results[k].state = "MissingInternal"

\* The results that are not matches, and the place of each among them.
Mismatches == {k \in DOMAIN results : results[k].state # "Matched"}
PlaceOf(k) == Cardinality({j \in Mismatches : j <= k})

\* cmd_match reports its exceptions in the order of the results, one for each that
\* is not a match, with the severity of its state, all of them new; so that its
\* three numbers add up: results = matched + exceptions.
ExceptionsAreTheMismatches ==
    phase = "done" =>
        /\ Len(exceptions) = Cardinality(Mismatches)
        /\ \A k \in Mismatches :
               LET ex == exceptions[PlaceOf(k)]
               IN  /\ ex.id = PlaceOf(k)
                   /\ ex.state = "Detected"
                   /\ ex.match_state = results[k].state
                   /\ ex.severity = severity_from_match[results[k].state]

\* The two reports on one match add up.  The cards of the daily report account for
\* every row of it, and those that are about internal trades for every trade in the
\* store; and the rows that are not matches are the exceptions of the aging report,
\* each in the colour of the severity of its state, and none of which the bars leave
\* out; the match rate is 100% just when there is none.
ReportsAddUp ==
    LET daily == Reports!daily_reconciliation_report(
                     results, get_internal_count, get_confirmation_count)
        aging == Reports!exception_aging_report(exceptions, Workflow!get_aging_report)
        card(s, states) == IF s \in states THEN daily.cards[s] ELSE 0
        Cards(states) ==
            card("Matched", states) + card("QtyMismatch", states)
            + card("PriceMismatch", states) + card("MissingInternal", states)
            + card("MissingBroker", states) + card("Duplicate", states)
    IN  phase = "done" =>
            /\ Cards(MatchState) = Len(daily.rows)
            /\ Cards(MatchState \ {"MissingInternal"}) = daily.total_internal
            /\ daily.cards["MissingInternal"] <= daily.total_confirmations
            /\ Cards(MatchState \ {"Matched"}) = Len(aging.rows)
            /\ aging.bars[0] + aging.bars[1] + aging.bars[2] + aging.bars[3]
                   = Len(aging.rows)
            /\ \A x \in ExceptionSeverity :
                   Cards({s \in MatchState \ {"Matched"} : severity_from_match[s] = x})
                       = Cardinality({i \in DOMAIN aging.rows : aging.rows[i].sev_class = x})
            /\ daily.rows # <<>> =>
                   (daily.match_rate[1] = daily.match_rate[2] <=> aging.rows = <<>>)

=============================================================================
