--------------------------- MODULE MatchingEngine ---------------------------
(***************************************************************************)
(* The class MatchingEngine of src/matching_engine.cpp: match_single and   *)
(* fuzzy_match as operators, and batch_match as the loop it is, one action *)
(* per iteration, so that what an iteration sees of the earlier ones (the  *)
(* map matched_confirms) is explicit.  A batch_match call runs alone.      *)
(*                                                                         *)
(* A record carries what matching compares: the trade id, the symbol, the  *)
(* side, the quantity and the price, the last two in units of which the    *)
(* tolerances are multiples.  The text of a result and the differences it  *)
(* reports are left out.  A vector of candidates is the set of positions   *)
(* of its elements in confirms, scanned in increasing order.               *)
(***************************************************************************)
EXTENDS Integers, Sequences, FiniteSets, ReconTypes

CONSTANTS
    TradeIds, Symbols, Quantities, Prices,
    NoId,              \* the empty trade id of a result
    price_tolerance, qty_tolerance, auto_resolve,   \* MatchingConfig
    MaxCalls,          \* bound: calls of batch_match on one engine
    Batches            \* the arguments of each call: pairs <<internals, confirms>>

Trade == [trade_id : TradeIds, symbol : Symbols, side : Side,
          quantity : Quantities, price : Prices]

ASSUME NoIdAssumption == NoId \notin TradeIds
ASSUME DataAssumption == Quantities \subseteq Nat /\ Prices \subseteq Nat
ASSUME ConfigAssumption ==
    qty_tolerance \in Nat /\ price_tolerance \in Nat /\ auto_resolve \in BOOLEAN
ASSUME BatchesAssumption ==
    /\ MaxCalls \in Nat
    /\ DOMAIN Batches = 1..MaxCalls
    /\ \A n \in 1..MaxCalls : Batches[n] \subseteq Seq(Trade) \X Seq(Trade)

VARIABLES
    internals, confirms,    \* the arguments of the current call
    matched_confirms,       \* the trade ids in the map matched_confirms
    results,                \* the vector to be returned
    auto_resolved,          \* auto_resolved_, kept by the engine between calls
    resolved_before,        \* its value when the current call began
    pc,                     \* the loop the call is in
    pos,                    \* the element the loop is at
    calls                   \* calls begun

vars == <<internals, confirms, matched_confirms, results, auto_resolved,
          resolved_before, pc, pos, calls>>
call == <<internals, confirms, resolved_before, calls>>

-----------------------------------------------------------------------------
(* The comparison of one internal trade with one confirmation. *)

Result(m, internal_id, broker_id) ==
    [state |-> m, internal_trade_id |-> internal_id, broker_trade_id |-> broker_id]

Within(a, b, tolerance) == a - b \in -tolerance..tolerance

SameInstrument(t, c) == t.symbol = c.symbol /\ t.side = c.side
QtyAgrees(t, c)      == Within(t.quantity, c.quantity, qty_tolerance)
PriceAgrees(t, c)    == Within(t.price, c.price, price_tolerance)
Agrees(t, c)         == SameInstrument(t, c) /\ QtyAgrees(t, c) /\ PriceAgrees(t, c)

\* Wrong on purpose: the symbol and the side are not looked at.
match_single_BlindToSide(t, c) ==
    Result(CASE ~QtyAgrees(t, c)                      -> "QtyMismatch"
             [] QtyAgrees(t, c) /\ PriceAgrees(t, c)  -> "Matched"
             [] QtyAgrees(t, c) /\ ~PriceAgrees(t, c) -> "PriceMismatch",
           t.trade_id, c.trade_id)

match_single(t, c) ==
    Result(CASE ~QtyAgrees(t, c)                 -> "QtyMismatch"
             [] Agrees(t, c)                     -> "Matched"
             [] QtyAgrees(t, c) /\ ~Agrees(t, c) -> "PriceMismatch",
           t.trade_id, c.trade_id)

First(S) == CHOOSE i \in S : \A j \in S : i <= j

MissingBroker(t) == Result("MissingBroker", t.trade_id, NoId)

\* fuzzy_match: the first candidate that agrees in everything but the id.
fuzzy_match(t, candidates) ==
    LET hits == {i \in candidates : Agrees(t, confirms[i])}
    IN  IF hits = {} THEN MissingBroker(t) ELSE match_single(t, confirms[First(hits)])

\* confirm_map: the confirmations that carry this trade id.
confirm_map(id) == {i \in DOMAIN confirms : confirms[i].trade_id = id}

\* The candidates of a fuzzy match: what no trade has claimed by its id yet.
unmatched == {i \in DOMAIN confirms : confirms[i].trade_id \notin matched_confirms}

\* The result for a trade whose id some confirmation carries: compared with the
\* first of them, and a duplicate whenever there is a second.
IdResult(t) ==
    LET hits == confirm_map(t.trade_id)
        best == match_single(t, confirms[First(hits)])
    IN  IF Cardinality(hits) > 1 THEN [best EXCEPT !.state = "Duplicate"] ELSE best

MissingInternal(c) == Result("MissingInternal", NoId, c.trade_id)

-----------------------------------------------------------------------------
(* batch_match. *)

Init ==
    /\ internals = <<>> /\ confirms = <<>>
    /\ matched_confirms = {}
    /\ results = <<>>
    /\ auto_resolved = 0 /\ resolved_before = 0
    /\ pc = "returned" /\ pos = 1
    /\ calls = 0

MayCall == pc = "returned" /\ calls < MaxCalls

\* A call begins: the locals are fresh, the counter of the engine is not.
Call(batch) ==
    /\ MayCall
    /\ internals' = batch[1] /\ confirms' = batch[2]
    /\ matched_confirms' = {}
    /\ results' = <<>>
    /\ resolved_before' = auto_resolved
    /\ pc' = "internals" /\ pos' = 1
    /\ calls' = calls + 1
    /\ UNCHANGED auto_resolved

AtInternal == pc = "internals" /\ pos <= Len(internals)

\* Wrong on purpose: a trade matched by its id does not claim its confirmations.
MatchById_NoClaim ==
    /\ AtInternal
    /\ LET t == internals[pos]
           r == IdResult(t)
       IN  /\ confirm_map(t.trade_id) # {}
           /\ results' = Append(results, r)
           /\ auto_resolved' = auto_resolved +
                  (IF auto_resolve /\ r.state = "Matched" THEN 1 ELSE 0)
    /\ pos' = pos + 1
    /\ UNCHANGED <<call, matched_confirms, pc>>

\* Wrong on purpose: the duplicates that agree are counted, too.
MatchById_CountsAll ==
    /\ AtInternal
    /\ LET t == internals[pos]
       IN  /\ confirm_map(t.trade_id) # {}
           /\ results' = Append(results, IdResult(t))
           /\ matched_confirms' = matched_confirms \cup {t.trade_id}
           /\ auto_resolved' = auto_resolved +
                  (IF auto_resolve /\ Agrees(t, confirms[First(confirm_map(t.trade_id))])
                   THEN 1 ELSE 0)
    /\ pos' = pos + 1
    /\ UNCHANGED <<call, pc>>

\* The trade is compared with the confirmation that has its id, which is claimed.
MatchById ==
    /\ AtInternal
    /\ LET t == internals[pos]
           r == IdResult(t)
       IN  /\ confirm_map(t.trade_id) # {}
           /\ results' = Append(results, r)
           /\ matched_confirms' = matched_confirms \cup {t.trade_id}
           /\ auto_resolved' = auto_resolved +
                  (IF auto_resolve /\ r.state = "Matched" THEN 1 ELSE 0)
    /\ pos' = pos + 1
    /\ UNCHANGED <<call, pc>>

\* Wrong on purpose: a fuzzy match claims what it reports, found or not.
MatchFuzzily_ClaimsAnyway ==
    /\ AtInternal
    /\ LET t == internals[pos]
           r == fuzzy_match(t, unmatched)
       IN  /\ confirm_map(t.trade_id) = {}
           /\ results' = Append(results, r)
           /\ matched_confirms' = matched_confirms \cup {r.broker_trade_id}
    /\ pos' = pos + 1
    /\ UNCHANGED <<call, auto_resolved, pc>>

\* A fuzzy match claims nothing and resolves nothing.
MatchFuzzily ==
    /\ AtInternal
    /\ LET t == internals[pos]
       IN  /\ confirm_map(t.trade_id) = {}
           /\ results' = Append(results, fuzzy_match(t, unmatched))
    /\ pos' = pos + 1
    /\ UNCHANGED <<call, matched_confirms, auto_resolved, pc>>

\* The first loop is over, the second begins.
TurnToConfirms ==
    /\ pc = "internals" /\ pos > Len(internals)
    /\ pc' = "confirms" /\ pos' = 1
    /\ UNCHANGED <<call, matched_confirms, results, auto_resolved>>

AtConfirm == pc = "confirms" /\ pos <= Len(confirms)

\* A confirmation whose id a trade has claimed is passed over; any other one has no
\* trade on the internal side.
SkipMatchedConfirm ==
    /\ AtConfirm
    /\ confirms[pos].trade_id \in matched_confirms
    /\ pos' = pos + 1
    /\ UNCHANGED <<call, matched_confirms, results, auto_resolved, pc>>

\* Wrong on purpose: a trade id is reported as missing once, however many
\* confirmations carry it.
ReportMissingInternal_Once ==
    /\ AtConfirm
    /\ confirms[pos].trade_id \notin matched_confirms
    /\ results' = Append(results, MissingInternal(confirms[pos]))
    /\ matched_confirms' = matched_confirms \cup {confirms[pos].trade_id}
    /\ pos' = pos + 1
    /\ UNCHANGED <<call, auto_resolved, pc>>

ReportMissingInternal ==
    /\ AtConfirm
    /\ confirms[pos].trade_id \notin matched_confirms
    /\ results' = Append(results, MissingInternal(confirms[pos]))
    /\ pos' = pos + 1
    /\ UNCHANGED <<call, matched_confirms, auto_resolved, pc>>

Return ==
    /\ pc = "confirms" /\ pos > Len(confirms)
    /\ pc' = "returned"
    /\ UNCHANGED <<call, matched_confirms, results, auto_resolved, pos>>

Step == \/ MatchById \/ MatchFuzzily \/ TurnToConfirms
        \/ SkipMatchedConfirm \/ ReportMissingInternal \/ Return

Next == Step \/ (MayCall /\ \E batch \in Batches[calls + 1] : Call(batch))

Spec == Init /\ [][Next]_vars

-----------------------------------------------------------------------------
(* The report of a batch, said without loops. *)

\* The trade ids claimed, or tried in vain, by the trades before position k.
IdsBefore(k) == {internals[j].trade_id : j \in 1..(k - 1)}

\* The result for the trade at position k.
ResultFor(k) ==
    LET t == internals[k]
    IN  IF confirm_map(t.trade_id) # {}
        THEN IdResult(t)
        ELSE fuzzy_match(t, {i \in DOMAIN confirms :
                                confirms[i].trade_id \notin IdsBefore(k)})

\* The confirmations whose trade id no internal trade has, and the place of each
\* among the results, which is after those for the trades.
Unclaimed == {i \in DOMAIN confirms :
                 \A k \in DOMAIN internals : internals[k].trade_id # confirms[i].trade_id}
PlaceOf(i) == Len(internals) + Cardinality({j \in Unclaimed : j <= i})

-----------------------------------------------------------------------------
(* Properties. *)

\* Every variable has its type.
TypeOK ==
    /\ internals \in Seq(Trade) /\ confirms \in Seq(Trade)
    /\ matched_confirms \subseteq TradeIds
    /\ results \in Seq([state : MatchState, internal_trade_id : TradeIds \cup {NoId},
                        broker_trade_id : TradeIds \cup {NoId}])
    /\ auto_resolved \in Nat /\ resolved_before \in Nat
    /\ pc \in {"internals", "confirms", "returned"}
    /\ pos \in Nat \ {0}
    /\ calls \in 0..MaxCalls

\* What batch_match returns: one result per internal trade, in order, each what
\* the ids alone determine, then one MissingInternal per confirmation whose id no
\* internal trade has, in order.  Neither loop loses, repeats or reorders one, and
\* matched_confirms, filled as the first loop goes, is complete for the second.
ReportIsComplete ==
    pc = "returned" =>
        /\ Len(results) = Len(internals) + Cardinality(Unclaimed)
        /\ \A k \in DOMAIN internals : results[k] = ResultFor(k)
        /\ \A i \in Unclaimed : results[PlaceOf(i)] = MissingInternal(confirms[i])

\* A trade reported as Matched has a confirmation under the id reported that agrees
\* in symbol, side, quantity and price within the tolerances; and when that id is
\* its own, the broker confirmed it exactly once.
MatchedIsSound ==
    \A k \in DOMAIN results : results[k].state = "Matched" =>
        /\ k <= Len(internals)
        /\ \E i \in confirm_map(results[k].broker_trade_id) : Agrees(internals[k], confirms[i])
        /\ results[k].broker_trade_id = internals[k].trade_id =>
               Cardinality(confirm_map(internals[k].trade_id)) = 1

\* A fuzzy match never takes a confirmation that an earlier trade of the batch has
\* claimed by its id.
FuzzyLeavesClaimedAlone ==
    \A k \in DOMAIN results, j \in DOMAIN internals :
        /\ j < k /\ k <= Len(internals)
        /\ results[k].broker_trade_id # internals[k].trade_id
        => results[k].broker_trade_id # internals[j].trade_id

\* Over the calls made on one engine, auto_resolved_ has grown in this call by the
\* number of trades so far that were matched through their own id.
AutoResolvedCount ==
    auto_resolved - resolved_before =
        IF auto_resolve
        THEN Cardinality({k \in DOMAIN results :
                 /\ results[k].state = "Matched"
                 /\ results[k].broker_trade_id = results[k].internal_trade_id})
        ELSE 0

=============================================================================
