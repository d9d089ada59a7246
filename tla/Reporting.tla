------------------------------ MODULE Reporting -----------------------------
(***************************************************************************)
(* What the reports of src/reporting.cpp show: the numbers on their cards  *)
(* and bars, and the rows of their tables.  The engine, the workflow and   *)
(* the tracker have computed what goes into them; the reports count it     *)
(* again, row by row.  HTML and number formats are left out.               *)
(***************************************************************************)
EXTENDS Integers, Sequences, FiniteSets, ReconTypes

Count(rows, s) == Cardinality({i \in DOMAIN rows : rows[i].state = s})

\* Wrong on purpose: the switch lacks a case.
Cards_NoDuplicates(matches) ==
    [s \in MatchState |-> IF s = "Duplicate" THEN 0 ELSE Count(matches, s)]

\* The six counters of the switch over the state.
Cards(matches) == [s \in MatchState |-> Count(matches, s)]

\* The match rate is kept as the two numbers it is the quotient of.
daily_reconciliation_report(matches, total_internal, total_confirmations) ==
    [total_internal      |-> total_internal,
     total_confirmations |-> total_confirmations,
     cards               |-> Cards(matches),
     match_rate          |-> IF matches = <<>> THEN <<0, 1>>
                             ELSE <<Cards(matches)["Matched"], Len(matches)>>,
     rows |-> [i \in DOMAIN matches |->
                  [internal_trade_id |-> matches[i].internal_trade_id,
                   broker_trade_id   |-> matches[i].broker_trade_id,
                   state             |-> matches[i].state,
                   status_class      |-> IF matches[i].state = "Matched"
                                         THEN "status-matched" ELSE "status-mismatch"]]]

\* One bar per bucket, 0 for one the aging report does not have; one row per
\* exception handed over, closed ones included.
exception_aging_report(exceptions, aging) ==
    [bars |-> [b \in 0..3 |-> IF b \in DOMAIN aging THEN aging[b] ELSE 0],
     rows |-> [i \in DOMAIN exceptions |->
                  [id |-> exceptions[i].id, state |-> exceptions[i].state,
                   sev_class |-> exceptions[i].severity,
                   assignee |-> exceptions[i].assignee]]]

=============================================================================
