------------------------ MODULE MatchingEngineProofs ------------------------
(***************************************************************************)
(* Theorems about MatchingEngine, for batches of any length, any trades    *)
(* and any tolerances.                                                     *)
(*                                                                         *)
(* The invariant of the loops is IInv: how far the results and the map     *)
(* matched_confirms have got at every iteration, in terms of the loop-free *)
(* ResultFor.  It is inductive, and the properties of the report are       *)
(* consequences of it, without a further look at the loops.                *)
(***************************************************************************)
EXTENDS MatchingEngine, SequenceTheorems, FiniteSetTheorems, WellFoundedInduction,
        TLAPS

\* The type of a result.
ResultRecord == [state : MatchState, internal_trade_id : TradeIds \cup {NoId},
                 broker_trade_id : TradeIds \cup {NoId}]

\* The ids among those of the trades before position k that a confirmation carries.
Claimed(k) == {id \in IdsBefore(k) : confirm_map(id) # {}}

\* The unclaimed confirmations before position n.
UnclaimedBefore(n) == {i \in Unclaimed : i < n}

\* The first loop: its results so far, and the map it fills.
TradesDone ==
    /\ \A k \in 1..Len(internals) : k <= Len(results) => results[k] = ResultFor(k)
    /\ pc = "internals" => /\ pos <= Len(internals) + 1
                           /\ Len(results) = pos - 1
                           /\ matched_confirms = Claimed(pos)
    /\ pc # "internals" => /\ Len(results) >= Len(internals)
                           /\ matched_confirms = Claimed(Len(internals) + 1)

\* The second loop: one result per unclaimed confirmation so far, and no other.
ConfirmsDone ==
    /\ pc # "internals" =>
           /\ pos <= Len(confirms) + 1
           /\ Len(results) = Len(internals) + Cardinality(UnclaimedBefore(pos))
           /\ \A i \in UnclaimedBefore(pos) : results[PlaceOf(i)] = MissingInternal(confirms[i])
    /\ pc = "returned" => pos = Len(confirms) + 1
    /\ \A k \in 1..Len(results) : k > Len(internals) =>
           results[k].state = "MissingInternal"

\* The inductive invariant.
IInv == TypeOK /\ TradesDone /\ ConfirmsDone

-----------------------------------------------------------------------------
(* The operators. *)

\* A nonempty set of positions has a first one.
LEMMA FirstExists ==
    ASSUME NEW S, S \subseteq Nat, S # {}
    PROVE  First(S) \in S /\ \A j \in S : First(S) <= j
<1> DEFINE R == {ss \in Nat \X Nat : ss[1] < ss[2]}
<1>1. IsWellFoundedOn(R, Nat)
  BY NatLessThanWellFounded DEF OpToRel
<1> HIDE DEF R
<1>2. PICK x \in S : \A y \in S : ~ (<<y, x>> \in R)
  BY <1>1, WFMin
<1>3. \A y \in S : x \in Nat /\ y \in Nat /\ ~(y < x)
  BY <1>2 DEF R
<1>4. \A y \in S : x <= y
  BY <1>3
<1> QED BY <1>2, <1>4 DEF First

\* match_single reports Matched exactly for records that agree.
LEMMA MatchSingle ==
    ASSUME NEW t \in Trade, NEW c \in Trade
    PROVE  /\ match_single(t, c) \in ResultRecord
           /\ match_single(t, c).state # "MissingInternal"
           /\ match_single(t, c).state = "Matched" <=> Agrees(t, c)
           /\ match_single(t, c).internal_trade_id = t.trade_id
           /\ match_single(t, c).broker_trade_id = c.trade_id
<1>1. QtyAgrees(t, c) \/ ~QtyAgrees(t, c)
  OBVIOUS
<1>2. Agrees(t, c) => QtyAgrees(t, c)
  BY DEF Agrees
<1>3. CASE ~QtyAgrees(t, c)
  <2>1. match_single(t, c) = Result("QtyMismatch", t.trade_id, c.trade_id)
    BY <1>3, <1>2 DEF match_single
  <2> QED BY <2>1, <1>3, <1>2 DEF Result, ResultRecord, MatchState, Trade
<1>4. CASE Agrees(t, c)
  <2>1. match_single(t, c) = Result("Matched", t.trade_id, c.trade_id)
    BY <1>4, <1>2 DEF match_single
  <2> QED BY <2>1, <1>4 DEF Result, ResultRecord, MatchState, Trade
<1>5. CASE QtyAgrees(t, c) /\ ~Agrees(t, c)
  <2>1. match_single(t, c) = Result("PriceMismatch", t.trade_id, c.trade_id)
    BY <1>5 DEF match_single
  <2> QED BY <2>1, <1>5 DEF Result, ResultRecord, MatchState, Trade
<1> QED BY <1>3, <1>4, <1>5

\* The candidates of a fuzzy match and the confirmations of an id are positions.
LEMMA Confirmed ==
    ASSUME TypeOK
    PROVE  /\ DOMAIN confirms = 1..Len(confirms) /\ Len(confirms) \in Nat
           /\ DOMAIN internals = 1..Len(internals) /\ Len(internals) \in Nat
           /\ DOMAIN results = 1..Len(results) /\ Len(results) \in Nat
           /\ \A i \in DOMAIN confirms : confirms[i] \in Trade
           /\ \A k \in DOMAIN internals : internals[k] \in Trade
           /\ \A k \in DOMAIN results : results[k] \in ResultRecord
BY LenProperties, ElementOfSeq DEF TypeOK, ResultRecord

\* The result for a trade whose id is confirmed: Matched only if the trade agrees
\* with a confirmation of that id, and there is no other.
LEMMA IdResultFacts ==
    ASSUME TypeOK, NEW t \in Trade, confirm_map(t.trade_id) # {}
    PROVE  /\ IdResult(t) \in ResultRecord
           /\ IdResult(t).internal_trade_id = t.trade_id
           /\ IdResult(t).broker_trade_id = t.trade_id
           /\ IdResult(t).state # "MissingInternal"
           /\ IdResult(t).state = "Matched" =>
                 /\ \E i \in confirm_map(t.trade_id) : Agrees(t, confirms[i])
                 /\ Cardinality(confirm_map(t.trade_id)) = 1
<1> DEFINE hits == confirm_map(t.trade_id)
           best == match_single(t, confirms[First(hits)])
<1>1. hits \subseteq 1..Len(confirms) /\ hits \subseteq Nat
  BY Confirmed DEF confirm_map
<1>2. First(hits) \in hits
  BY <1>1, FirstExists
<1>3. confirms[First(hits)] \in Trade /\ confirms[First(hits)].trade_id = t.trade_id
  BY <1>2, Confirmed DEF confirm_map
<1>4. /\ best \in ResultRecord
      /\ best.state # "MissingInternal"
      /\ best.state = "Matched" <=> Agrees(t, confirms[First(hits)])
      /\ best.internal_trade_id = t.trade_id
      /\ best.broker_trade_id = t.trade_id
  BY <1>3, MatchSingle
<1>5. Cardinality(hits) \in Nat /\ Cardinality(hits) # 0
  <2>1. IsFiniteSet(1..Len(confirms)) /\ hits \in SUBSET (1..Len(confirms))
    BY <1>1, Confirmed, FS_Interval
  <2>2. IsFiniteSet(hits)
    BY <2>1, FS_Subset
  <2> QED BY <1>2, <2>2, FS_EmptySet, FS_CardinalityType
<1>6. IdResult(t) = IF Cardinality(hits) > 1 THEN [best EXCEPT !.state = "Duplicate"] ELSE best
  BY DEF IdResult
<1> HIDE DEF hits, best
<1>7. CASE Cardinality(hits) > 1
  <2>1. IdResult(t) = [best EXCEPT !.state = "Duplicate"]
    BY <1>6, <1>7
  <2> QED BY <2>1, <1>4 DEF ResultRecord, MatchState
<1>8. CASE ~(Cardinality(hits) > 1)
  <2>1. IdResult(t) = best /\ Cardinality(hits) = 1
    BY <1>5, <1>6, <1>8
  <2> QED BY <2>1, <1>2, <1>4 DEF hits
<1> QED BY <1>7, <1>8

\* A fuzzy match either finds a candidate that agrees, or none.
LEMMA FuzzyFacts ==
    ASSUME TypeOK, NEW t \in Trade, NEW S, S \subseteq DOMAIN confirms
    PROVE  /\ fuzzy_match(t, S) \in ResultRecord
           /\ fuzzy_match(t, S).internal_trade_id = t.trade_id
           /\ \/ fuzzy_match(t, S) = MissingBroker(t)
              \/ \E i \in S : /\ fuzzy_match(t, S).state = "Matched"
                              /\ fuzzy_match(t, S).broker_trade_id = confirms[i].trade_id
                              /\ Agrees(t, confirms[i])
<1> DEFINE hits == {i \in S : Agrees(t, confirms[i])}
<1>1. fuzzy_match(t, S) = IF hits = {} THEN MissingBroker(t)
                                       ELSE match_single(t, confirms[First(hits)])
  BY DEF fuzzy_match
<1>2. CASE hits = {}
  <2>1. fuzzy_match(t, S) = MissingBroker(t)
    BY <1>1, <1>2
  <2> QED BY <2>1 DEF MissingBroker, Result, ResultRecord, MatchState, Trade
<1>3. CASE hits # {}
  <2>1. hits \subseteq Nat
    BY Confirmed
  <2>2. First(hits) \in hits
    BY <2>1, <1>3, FirstExists
  <2>3. First(hits) \in S /\ Agrees(t, confirms[First(hits)])
    BY <2>2
  <2>4. confirms[First(hits)] \in Trade
    BY <2>3, Confirmed
  <2>5. fuzzy_match(t, S) = match_single(t, confirms[First(hits)])
    BY <1>1, <1>3
  <2> HIDE DEF hits
  <2> QED BY <2>3, <2>4, <2>5, MatchSingle
<1> QED BY <1>2, <1>3

-----------------------------------------------------------------------------
(* What depends on the arguments of the call alone. *)

\* Within a call the arguments stay, and with them what they determine.
LEMMA ArgumentsKept ==
    ASSUME internals' = internals, confirms' = confirms
    PROVE  /\ \A k : ResultFor(k)' = ResultFor(k)
           /\ \A k : Claimed(k)' = Claimed(k)
           /\ \A n : UnclaimedBefore(n)' = UnclaimedBefore(n)
           /\ \A i : PlaceOf(i)' = PlaceOf(i)
<1>1. \A id : confirm_map(id)' = confirm_map(id)
  BY DEF confirm_map
<1>2. \A k : IdsBefore(k)' = IdsBefore(k)
  BY DEF IdsBefore
<1>3. Unclaimed' = Unclaimed
  BY DEF Unclaimed
<1>4. \A t : IdResult(t)' = IdResult(t)
  BY <1>1 DEF IdResult
<1>5. \A t, S : fuzzy_match(t, S)' = fuzzy_match(t, S)
  BY DEF fuzzy_match
<1>6. \A k : ResultFor(k)' = ResultFor(k)
  BY <1>1, <1>2, <1>4, <1>5 DEF ResultFor
<1>7. \A k : Claimed(k)' = Claimed(k)
  BY <1>1, <1>2 DEF Claimed
<1>8. \A n : UnclaimedBefore(n)' = UnclaimedBefore(n)
  BY <1>3 DEF UnclaimedBefore
<1>9. \A i : PlaceOf(i)' = PlaceOf(i)
  BY <1>3 DEF PlaceOf
<1> QED BY <1>6, <1>7, <1>8, <1>9

\* The ids claimed grow by that of a trade if a confirmation carries it.
LEMMA ClaimedGrows ==
    ASSUME TypeOK, NEW k \in 1..Len(internals)
    PROVE  Claimed(k + 1) =
               IF confirm_map(internals[k].trade_id) = {} THEN Claimed(k)
               ELSE Claimed(k) \cup {internals[k].trade_id}
<1>1. IdsBefore(k + 1) = IdsBefore(k) \cup {internals[k].trade_id}
  <2>1. k \in Nat /\ 1..((k + 1) - 1) = (1..(k - 1)) \cup {k}
    BY Confirmed
  <2> QED BY <2>1 DEF IdsBefore
<1> QED BY <1>1 DEF Claimed

\* A confirmation is claimed if a trade tried its id.
LEMMA ClaimedIsTried ==
    ASSUME NEW k, NEW i \in DOMAIN confirms
    PROVE  confirms[i].trade_id \in Claimed(k) <=> confirms[i].trade_id \in IdsBefore(k)
BY DEF Claimed, confirm_map

\* In the first loop a trade whose id nobody confirms is matched as ResultFor says.
LEMMA FuzzyCandidates ==
    ASSUME matched_confirms = Claimed(pos)
    PROVE  unmatched = {i \in DOMAIN confirms : confirms[i].trade_id \notin IdsBefore(pos)}
BY ClaimedIsTried DEF unmatched

\* After the first loop a confirmation is claimed unless no trade has its id.
LEMMA ClaimedOrNot ==
    ASSUME TypeOK, NEW i \in DOMAIN confirms
    PROVE  confirms[i].trade_id \in Claimed(Len(internals) + 1) <=> i \notin Unclaimed
<1>1. 1..((Len(internals) + 1) - 1) = DOMAIN internals
  BY Confirmed
<1>2. IdsBefore(Len(internals) + 1) = {internals[k].trade_id : k \in DOMAIN internals}
  BY <1>1 DEF IdsBefore
<1> QED BY <1>2, ClaimedIsTried DEF Unclaimed

\* The unclaimed confirmations before n are counted one by one.
LEMMA UnclaimedCounted ==
    ASSUME TypeOK, NEW n \in 1..(Len(confirms) + 1)
    PROVE  /\ IsFiniteSet(UnclaimedBefore(n)) /\ Cardinality(UnclaimedBefore(n)) \in Nat
           /\ UnclaimedBefore(1) = {} /\ Cardinality(UnclaimedBefore(1)) = 0
           /\ n <= Len(confirms) =>
                 /\ PlaceOf(n) = Len(internals) + Cardinality(UnclaimedBefore(n + 1))
                 /\ n \notin Unclaimed => UnclaimedBefore(n + 1) = UnclaimedBefore(n)
                 /\ n \in Unclaimed =>
                       /\ UnclaimedBefore(n + 1) = UnclaimedBefore(n) \cup {n}
                       /\ Cardinality(UnclaimedBefore(n + 1)) = Cardinality(UnclaimedBefore(n)) + 1
           /\ \A i \in UnclaimedBefore(n) :
                 PlaceOf(i) \in (Len(internals) + 1)..(Len(internals) + Cardinality(UnclaimedBefore(n)))
<1>0. Len(confirms) \in Nat /\ Len(internals) \in Nat /\ n \in Int /\ 1 <= n
  BY Confirmed
<1>1. \A i \in Unclaimed : i \in 1..Len(confirms) /\ i \in Int
  BY <1>0, Confirmed DEF Unclaimed
<1>2. ASSUME NEW m \in Int
      PROVE  IsFiniteSet(UnclaimedBefore(m)) /\ Cardinality(UnclaimedBefore(m)) \in Nat
  <2>1. UnclaimedBefore(m) \in SUBSET (1..Len(confirms))
    BY <1>1 DEF UnclaimedBefore
  <2>2. IsFiniteSet(1..Len(confirms))
    BY <1>0, FS_Interval
  <2>3. IsFiniteSet(UnclaimedBefore(m))
    BY <2>1, <2>2, FS_Subset
  <2> QED BY <2>3, FS_CardinalityType
<1>3. ASSUME NEW i \in 1..Len(confirms)
      PROVE  PlaceOf(i) = Len(internals) + Cardinality(UnclaimedBefore(i + 1))
  <2>1. {j \in Unclaimed : j <= i} = UnclaimedBefore(i + 1)
    BY <1>0, <1>1 DEF UnclaimedBefore
  <2> QED BY <2>1 DEF PlaceOf
<1>4. n \notin Unclaimed => UnclaimedBefore(n + 1) = UnclaimedBefore(n)
  BY <1>0, <1>1 DEF UnclaimedBefore
<1>5. n \in Unclaimed => UnclaimedBefore(n + 1) = UnclaimedBefore(n) \cup {n}
  <2>1. \A j \in Unclaimed : j < n + 1 <=> j < n \/ j = n
    BY <1>0, <1>1
  <2> QED BY <2>1 DEF UnclaimedBefore
<1>6. n \notin UnclaimedBefore(n)
  BY <1>0 DEF UnclaimedBefore
<1>7. n \in Unclaimed =>
          Cardinality(UnclaimedBefore(n + 1)) = Cardinality(UnclaimedBefore(n)) + 1
  BY <1>0, <1>2, <1>5, <1>6, FS_AddElement
<1>8. UnclaimedBefore(1) = {}
  BY <1>1 DEF UnclaimedBefore
<1>9. ASSUME NEW i \in UnclaimedBefore(n)
      PROVE  PlaceOf(i) \in (Len(internals) + 1)..(Len(internals) + Cardinality(UnclaimedBefore(n)))
  <2>1. i \in 1..Len(confirms) /\ i \in Unclaimed /\ i < n
    BY <1>1 DEF UnclaimedBefore
  <2>2. UnclaimedBefore(i + 1) \in SUBSET UnclaimedBefore(n) /\ i \in UnclaimedBefore(i + 1)
    <3>1. i < i + 1 /\ \A j \in Unclaimed : j < i + 1 => j < n
      BY <1>0, <1>1, <2>1
    <3> QED BY <3>1, <2>1 DEF UnclaimedBefore
  <2>3. /\ Cardinality(UnclaimedBefore(i + 1)) <= Cardinality(UnclaimedBefore(n))
        /\ Cardinality(UnclaimedBefore(i + 1)) \in Nat
        /\ Cardinality(UnclaimedBefore(n)) \in Nat
    BY <1>0, <1>1, <1>2, <2>1, <2>2, FS_Subset
  <2>4. Cardinality(UnclaimedBefore(i + 1)) # 0
    BY <1>1, <1>2, <2>1, <2>2, FS_EmptySet
  <2>5. PlaceOf(i) = Len(internals) + Cardinality(UnclaimedBefore(i + 1))
    BY <1>3, <2>1
  <2> QED BY <1>0, <2>3, <2>4, <2>5
<1>10. Cardinality(UnclaimedBefore(1)) = 0
  BY <1>8, FS_EmptySet
<1>11. n <= Len(confirms) => n \in 1..Len(confirms)
  BY <1>0
<1> QED BY <1>0, <1>2, <1>3, <1>4, <1>5, <1>6, <1>7, <1>8, <1>9, <1>10, <1>11

-----------------------------------------------------------------------------
(* The invariant is inductive. *)

\* It holds of a new engine.
LEMMA IInvInit == Init => IInv
<1> SUFFICES ASSUME Init PROVE IInv
  OBVIOUS
<1>1. TypeOK
  BY EmptySeq, BatchesAssumption DEF Init, TypeOK
<1>2. Len(internals) = 0 /\ Len(confirms) = 0 /\ Len(results) = 0
  BY EmptySeq DEF Init
<1>3. TradesDone
  <2>1. confirm_map(NoId) = {} /\ Claimed(1) = {}
    BY DEF Claimed, IdsBefore, confirm_map, Init
  <2> QED BY <1>2, <2>1 DEF TradesDone, Init
<1>4. ConfirmsDone
  <2>1. 1 \in 1..(Len(confirms) + 1)
    BY <1>2
  <2>2. UnclaimedBefore(1) = {} /\ Cardinality(UnclaimedBefore(1)) = 0
    BY <1>1, <2>1, UnclaimedCounted
  <2> QED BY <1>2, <2>2 DEF ConfirmsDone, Init
<1> QED BY <1>1, <1>3, <1>4 DEF IInv

\* The result that the iteration at pos of the first loop appends.
LEMMA NextResult ==
    ASSUME IInv, AtInternal
    PROVE  /\ pos \in 1..Len(internals) /\ internals[pos] \in Trade
           /\ confirm_map(internals[pos].trade_id) # {} =>
                  ResultFor(pos) = IdResult(internals[pos])
           /\ confirm_map(internals[pos].trade_id) = {} =>
                  ResultFor(pos) = fuzzy_match(internals[pos], unmatched)
           /\ ResultFor(pos) \in ResultRecord
<1>1. pos \in 1..Len(internals) /\ internals[pos] \in Trade
  BY Confirmed DEF IInv, TypeOK, AtInternal
<1>2. matched_confirms = Claimed(pos)
  BY DEF IInv, TradesDone, AtInternal
<1>3. unmatched = {i \in DOMAIN confirms : confirms[i].trade_id \notin IdsBefore(pos)}
  BY <1>2, FuzzyCandidates
<1>4. confirm_map(internals[pos].trade_id) # {} =>
          ResultFor(pos) = IdResult(internals[pos])
  BY DEF ResultFor
<1>5. confirm_map(internals[pos].trade_id) = {} =>
          ResultFor(pos) = fuzzy_match(internals[pos], unmatched)
  BY <1>3 DEF ResultFor
<1>6. unmatched \subseteq DOMAIN confirms
  BY DEF unmatched
<1>7. ResultFor(pos) \in ResultRecord
  <2>1. CASE confirm_map(internals[pos].trade_id) # {}
    BY <2>1, <1>1, <1>4, IdResultFacts DEF IInv
  <2>2. CASE confirm_map(internals[pos].trade_id) = {}
    BY <2>2, <1>1, <1>5, <1>6, FuzzyFacts DEF IInv
  <2> QED BY <2>1, <2>2
<1> QED BY <1>1, <1>4, <1>5, <1>7

\* What the two kinds of iteration of the first loop have in common.
LEMMA IterationOfFirstLoop ==
    ASSUME IInv, MatchById \/ MatchFuzzily
    PROVE  /\ AtInternal
           /\ results' = Append(results, ResultFor(pos))
           /\ matched_confirms' = Claimed(pos + 1)
           /\ pos' = pos + 1 /\ pc' = pc
           /\ internals' = internals /\ confirms' = confirms
           /\ resolved_before' = resolved_before /\ calls' = calls
           /\ auto_resolved' = auto_resolved +
                  (IF auto_resolve /\ ResultFor(pos).state = "Matched"
                      /\ ResultFor(pos).broker_trade_id = ResultFor(pos).internal_trade_id
                   THEN 1 ELSE 0)
<1>1. AtInternal
  BY DEF MatchById, MatchFuzzily
<1>2. /\ pos \in 1..Len(internals) /\ internals[pos] \in Trade
      /\ confirm_map(internals[pos].trade_id) # {} =>
             ResultFor(pos) = IdResult(internals[pos])
      /\ confirm_map(internals[pos].trade_id) = {} =>
             ResultFor(pos) = fuzzy_match(internals[pos], unmatched)
  BY <1>1, NextResult
<1>3. matched_confirms = Claimed(pos) /\ TypeOK
  BY <1>1 DEF IInv, TradesDone, AtInternal
<1>4. Claimed(pos + 1) = IF confirm_map(internals[pos].trade_id) = {} THEN Claimed(pos)
                         ELSE Claimed(pos) \cup {internals[pos].trade_id}
  BY <1>2, <1>3, ClaimedGrows
<1>5. CASE MatchById
  <2>1. confirm_map(internals[pos].trade_id) # {}
    BY <1>5 DEF MatchById
  <2>2. ResultFor(pos) = IdResult(internals[pos])
    BY <1>2, <2>1
  <2>3. /\ ResultFor(pos).internal_trade_id = internals[pos].trade_id
        /\ ResultFor(pos).broker_trade_id = internals[pos].trade_id
    BY <1>2, <1>3, <2>1, <2>2, IdResultFacts
  <2> QED BY <1>1, <1>3, <1>4, <1>5, <2>1, <2>2, <2>3 DEF MatchById, call
<1>6. CASE MatchFuzzily
  <2>1. confirm_map(internals[pos].trade_id) = {}
    BY <1>6 DEF MatchFuzzily
  <2>2. ResultFor(pos) = fuzzy_match(internals[pos], unmatched)
    BY <1>2, <2>1
  <2>3. ~( /\ ResultFor(pos).state = "Matched"
           /\ ResultFor(pos).broker_trade_id = ResultFor(pos).internal_trade_id)
    <3>1. unmatched \subseteq DOMAIN confirms
      BY DEF unmatched
    <3>2. /\ ResultFor(pos).internal_trade_id = internals[pos].trade_id
          /\ \/ ResultFor(pos) = MissingBroker(internals[pos])
             \/ \E i \in unmatched :
                    ResultFor(pos).broker_trade_id = confirms[i].trade_id
      BY <1>2, <1>3, <2>2, <3>1, FuzzyFacts
    <3>3. CASE ResultFor(pos) = MissingBroker(internals[pos])
      BY <3>3 DEF MissingBroker, Result
    <3>4. \A i \in unmatched : confirms[i].trade_id # internals[pos].trade_id
      BY <2>1, <3>1 DEF confirm_map
    <3> QED BY <3>2, <3>3, <3>4
  <2>4. auto_resolved \in Nat
    BY <1>3 DEF TypeOK
  <2> QED BY <1>1, <1>3, <1>4, <1>6, <2>1, <2>2, <2>3, <2>4 DEF MatchFuzzily, call
<1> QED BY <1>5, <1>6

\* Both kinds of iteration of the first loop keep it.
LEMMA FirstLoopKeeps ==
    ASSUME IInv, MatchById \/ MatchFuzzily
    PROVE  IInv'
<1>1. /\ AtInternal
      /\ results' = Append(results, ResultFor(pos))
      /\ matched_confirms' = Claimed(pos + 1)
      /\ pos' = pos + 1 /\ pc' = pc
      /\ internals' = internals /\ confirms' = confirms
      /\ resolved_before' = resolved_before /\ calls' = calls
      /\ auto_resolved' = auto_resolved +
             (IF auto_resolve /\ ResultFor(pos).state = "Matched"
                 /\ ResultFor(pos).broker_trade_id = ResultFor(pos).internal_trade_id
              THEN 1 ELSE 0)
  BY IterationOfFirstLoop
<1>2. TypeOK /\ pos \in 1..Len(internals) /\ ResultFor(pos) \in ResultRecord
  BY <1>1, NextResult DEF IInv
<1>3. results \in Seq(ResultRecord) /\ Len(results) = pos - 1 /\ Len(internals) \in Nat
  BY <1>1, <1>2, Confirmed DEF IInv, TypeOK, TradesDone, AtInternal, ResultRecord
<1>4. /\ results' \in Seq(ResultRecord) /\ Len(results') = pos
      /\ results'[pos] = ResultFor(pos)
      /\ \A k \in 1..(pos - 1) : results'[k] = results[k]
  BY <1>1, <1>2, <1>3, AppendProperties
<1>5. TypeOK'
  <2>1. Claimed(pos + 1) \subseteq TradeIds
    <3>1. \A i \in DOMAIN confirms : confirms[i].trade_id \in TradeIds
      BY <1>2, Confirmed DEF Trade
    <3> QED BY <3>1 DEF Claimed, confirm_map
  <2> QED BY <1>1, <1>2, <1>4, <2>1 DEF TypeOK, ResultRecord
<1>6. TradesDone'
  <2>1. \A k : ResultFor(k)' = ResultFor(k) /\ Claimed(k)' = Claimed(k)
    BY <1>1, ArgumentsKept
  <2>2. ASSUME NEW k \in 1..Len(internals), k <= Len(results')
        PROVE  results'[k] = ResultFor(k)
    <3>1. k = pos \/ k \in 1..(pos - 1)
      BY <1>2, <1>3, <1>4, <2>2
    <3>2. k \in 1..(pos - 1) => results[k] = ResultFor(k)
      BY <1>3 DEF IInv, TradesDone
    <3> QED BY <1>4, <3>1, <3>2
  <2>3. pc = "internals"
    BY <1>1 DEF AtInternal
  <2> QED BY <1>1, <1>2, <1>3, <1>4, <2>1, <2>2, <2>3 DEF TradesDone
<1>7. ConfirmsDone'
  <2>1. pc' = "internals" /\ Len(results') <= Len(internals')
    BY <1>1, <1>2, <1>3, <1>4 DEF AtInternal
  <2>2. \A k \in 1..Len(results') : ~(k > Len(internals'))
    BY <1>1, <1>2, <1>3, <1>4
  <2> QED BY <2>1, <2>2 DEF ConfirmsDone
<1> QED BY <1>5, <1>6, <1>7 DEF IInv

\* So does the turn from the first loop to the second.
LEMMA TurnKeeps == ASSUME IInv, TurnToConfirms PROVE IInv'
<1>1. /\ pc = "internals" /\ pos > Len(internals)
      /\ pc' = "confirms" /\ pos' = 1
      /\ internals' = internals /\ confirms' = confirms /\ results' = results
      /\ matched_confirms' = matched_confirms /\ auto_resolved' = auto_resolved
      /\ resolved_before' = resolved_before /\ calls' = calls
  BY DEF TurnToConfirms, call
<1>2. TypeOK /\ pos = Len(internals) + 1 /\ Len(results) = Len(internals)
  BY <1>1, Confirmed DEF IInv, TradesDone, TypeOK
<1>3. TypeOK'
  BY <1>1, <1>2 DEF TypeOK
<1>4. Len(internals) \in Nat /\ Len(confirms) \in Nat /\ 1 \in 1..(Len(confirms) + 1)
  BY <1>2, Confirmed
<1>5. TradesDone'
  <2>1. \A k : ResultFor(k)' = ResultFor(k) /\ Claimed(k)' = Claimed(k)
    BY <1>1, ArgumentsKept
  <2> QED BY <1>1, <1>2, <1>4, <2>1 DEF IInv, TradesDone
<1>6. ConfirmsDone'
  <2>1. /\ \A n : UnclaimedBefore(n)' = UnclaimedBefore(n)
        /\ UnclaimedBefore(1) = {} /\ Cardinality(UnclaimedBefore(1)) = 0
    BY <1>1, <1>2, <1>4, ArgumentsKept, UnclaimedCounted
  <2>2. UnclaimedBefore(pos)' = {} /\ Cardinality(UnclaimedBefore(pos)') = 0
    <3>1. UnclaimedBefore(1)' = {} /\ Cardinality(UnclaimedBefore(1)') = 0
      BY <2>1
    <3>2. UnclaimedBefore(pos)' = UnclaimedBefore(1)'
      BY <1>1 DEF UnclaimedBefore
    <3> QED BY <3>1, <3>2
  <2>3. \A k \in 1..Len(results') : ~(k > Len(internals'))
    BY <1>1, <1>2, <1>4
  <2> QED BY <1>1, <1>2, <1>4, <2>1, <2>2, <2>3 DEF ConfirmsDone
<1> QED BY <1>3, <1>5, <1>6 DEF IInv

\* The confirmation that the iteration at pos of the second loop looks at.
LEMMA AtConfirmFacts ==
    ASSUME IInv, AtConfirm
    PROVE  /\ TypeOK /\ pos \in Nat /\ pos \in 1..Len(confirms) /\ confirms[pos] \in Trade
           /\ pos \in 1..(Len(confirms) + 1) /\ pos + 1 \in 1..(Len(confirms) + 1)
           /\ confirms[pos].trade_id \in matched_confirms <=> pos \notin Unclaimed
<1>1. TypeOK /\ pos \in Nat /\ pos \in 1..Len(confirms) /\ Len(confirms) \in Nat
  BY Confirmed DEF IInv, TypeOK, AtConfirm
<1>2. pos \in DOMAIN confirms /\ confirms[pos] \in Trade
  BY <1>1, Confirmed
<1>3. matched_confirms = Claimed(Len(internals) + 1)
  BY DEF IInv, TradesDone, AtConfirm
<1>4. pos \in 1..(Len(confirms) + 1) /\ pos + 1 \in 1..(Len(confirms) + 1)
  BY <1>1
<1> QED BY <1>1, <1>2, <1>3, <1>4, ClaimedOrNot

\* So does the iteration over a confirmation that a trade has claimed.
LEMMA SkipKeeps == ASSUME IInv, SkipMatchedConfirm PROVE IInv'
<1>1. /\ AtConfirm /\ pos' = pos + 1 /\ pc' = pc /\ pc = "confirms"
      /\ internals' = internals /\ confirms' = confirms /\ results' = results
      /\ matched_confirms' = matched_confirms /\ auto_resolved' = auto_resolved
      /\ resolved_before' = resolved_before /\ calls' = calls
      /\ confirms[pos].trade_id \in matched_confirms
  BY DEF SkipMatchedConfirm, call, AtConfirm
<1>2. /\ TypeOK /\ pos \in Nat /\ pos \in 1..Len(confirms) /\ pos \notin Unclaimed
      /\ pos \in 1..(Len(confirms) + 1) /\ Len(confirms) \in Nat
  BY <1>1, AtConfirmFacts, Confirmed
<1>3. TypeOK'
  BY <1>1, <1>2 DEF TypeOK
<1>4. TradesDone'
  <2>1. \A k : ResultFor(k)' = ResultFor(k) /\ Claimed(k)' = Claimed(k)
    BY <1>1, ArgumentsKept
  <2> QED BY <1>1, <2>1 DEF IInv, TradesDone
<1>5. ConfirmsDone'
  <2>1. UnclaimedBefore(pos + 1) = UnclaimedBefore(pos)
    BY <1>2, UnclaimedCounted
  <2>2. UnclaimedBefore(pos)' = UnclaimedBefore(pos)
    <3>1. UnclaimedBefore(pos)' = {i \in Unclaimed : i < pos + 1}
      BY <1>1 DEF UnclaimedBefore, Unclaimed
    <3> QED BY <2>1, <3>1 DEF UnclaimedBefore
  <2>3. \A i : PlaceOf(i)' = PlaceOf(i)
    BY <1>1, ArgumentsKept
  <2>4. /\ Len(results) = Len(internals) + Cardinality(UnclaimedBefore(pos))
        /\ \A i \in UnclaimedBefore(pos) : results[PlaceOf(i)] = MissingInternal(confirms[i])
        /\ \A k \in 1..Len(results) : k > Len(internals) =>
               results[k].state = "MissingInternal"
    BY <1>1 DEF IInv, ConfirmsDone
  <2>5. pos' <= Len(confirms') + 1
    BY <1>1, <1>2
  <2>6. \A i \in UnclaimedBefore(pos)' :
            results'[PlaceOf(i)'] = MissingInternal(confirms'[i])
    BY <1>1, <2>2, <2>3, <2>4
  <2> QED BY <1>1, <2>2, <2>4, <2>5, <2>6 DEF ConfirmsDone, MissingInternal
<1> QED BY <1>3, <1>4, <1>5 DEF IInv

\* So does the iteration that reports a confirmation as missing.
LEMMA ReportKeeps == ASSUME IInv, ReportMissingInternal PROVE IInv'
<1> DEFINE r == MissingInternal(confirms[pos])
<1>1. /\ AtConfirm /\ pos' = pos + 1 /\ pc' = pc /\ pc = "confirms"
      /\ internals' = internals /\ confirms' = confirms /\ results' = Append(results, r)
      /\ matched_confirms' = matched_confirms /\ auto_resolved' = auto_resolved
      /\ resolved_before' = resolved_before /\ calls' = calls
      /\ confirms[pos].trade_id \notin matched_confirms
  BY DEF ReportMissingInternal, call, AtConfirm
<1>2. /\ TypeOK /\ pos \in Nat /\ pos \in 1..Len(confirms) /\ pos \in Unclaimed
      /\ pos \in 1..(Len(confirms) + 1) /\ Len(confirms) \in Nat /\ Len(internals) \in Nat
      /\ confirms[pos] \in Trade
  BY <1>1, AtConfirmFacts, Confirmed
<1>3. r \in ResultRecord /\ r.state = "MissingInternal"
  BY <1>2 DEF MissingInternal, Result, ResultRecord, MatchState, Trade
<1>4. /\ UnclaimedBefore(pos + 1) = UnclaimedBefore(pos) \cup {pos}
      /\ Cardinality(UnclaimedBefore(pos)) \in Nat
      /\ Cardinality(UnclaimedBefore(pos + 1)) = Cardinality(UnclaimedBefore(pos)) + 1
      /\ PlaceOf(pos) = Len(internals) + Cardinality(UnclaimedBefore(pos)) + 1
      /\ \A i \in UnclaimedBefore(pos) :
             PlaceOf(i) \in (Len(internals) + 1)..(Len(internals) + Cardinality(UnclaimedBefore(pos)))
  BY <1>2, UnclaimedCounted
<1>5. /\ Len(results) = Len(internals) + Cardinality(UnclaimedBefore(pos))
      /\ \A i \in UnclaimedBefore(pos) : results[PlaceOf(i)] = MissingInternal(confirms[i])
      /\ \A k \in 1..Len(results) : k > Len(internals) =>
             results[k].state = "MissingInternal"
  BY <1>1 DEF IInv, ConfirmsDone
<1>6. results \in Seq(ResultRecord)
  BY <1>2 DEF TypeOK, ResultRecord
<1> HIDE DEF r
<1>7. /\ results' \in Seq(ResultRecord) /\ Len(results') = Len(results) + 1
      /\ Len(results) \in Nat
      /\ results'[Len(results) + 1] = r
      /\ \A k \in 1..Len(results) : results'[k] = results[k]
  BY <1>1, <1>3, <1>6, AppendProperties, LenProperties
<1>8. TypeOK'
  BY <1>1, <1>2, <1>7 DEF TypeOK, ResultRecord
<1>9. TradesDone'
  <2>1. \A k : ResultFor(k)' = ResultFor(k) /\ Claimed(k)' = Claimed(k)
    BY <1>1, ArgumentsKept
  <2>2. ASSUME NEW k \in 1..Len(internals)
        PROVE  results'[k] = ResultFor(k)
    <3>1. k \in 1..Len(results)
      BY <1>2, <1>4, <1>5, <1>7
    <3>2. k <= Len(results)
      BY <1>7, <3>1
    <3>3. results[k] = ResultFor(k)
      BY <3>2 DEF IInv, TradesDone
    <3> QED BY <1>7, <3>1, <3>3
  <2>3. Len(results') >= Len(internals') /\ pc' # "internals"
    BY <1>1, <1>2, <1>4, <1>5, <1>7
  <2>4. matched_confirms = Claimed(Len(internals) + 1)
    BY <1>1 DEF IInv, TradesDone
  <2> QED BY <1>1, <2>1, <2>2, <2>3, <2>4 DEF TradesDone
<1>10. ConfirmsDone'
  <2>1. UnclaimedBefore(pos)' = UnclaimedBefore(pos + 1)
    BY <1>1 DEF UnclaimedBefore, Unclaimed
  <2>2. \A i : PlaceOf(i)' = PlaceOf(i)
    BY <1>1, ArgumentsKept
  <2>3. ASSUME NEW i \in UnclaimedBefore(pos)'
        PROVE  results'[PlaceOf(i)'] = MissingInternal(confirms'[i])
    <3>1. CASE i = pos
      <4>1. PlaceOf(i) = Len(results) + 1
        BY <1>2, <1>4, <1>5, <3>1
      <4> QED BY <1>1, <1>7, <2>2, <3>1, <4>1 DEF r
    <3>2. CASE i # pos
      <4>1. i \in UnclaimedBefore(pos)
        BY <1>4, <2>1, <3>2
      <4>2. PlaceOf(i) \in 1..Len(results)
        BY <1>2, <1>4, <1>5, <4>1
      <4> QED BY <1>1, <1>5, <1>7, <2>2, <4>1, <4>2
    <3> QED BY <3>1, <3>2
  <2>4. ASSUME NEW k \in 1..Len(results'), k > Len(internals')
        PROVE  results'[k].state = "MissingInternal"
    <3>1. k = Len(results) + 1 \/ k \in 1..Len(results)
      BY <1>7
    <3> QED BY <1>1, <1>3, <1>5, <1>7, <2>4, <3>1
  <2>5. /\ pos' <= Len(confirms') + 1
        /\ Len(results') = Len(internals') + Cardinality(UnclaimedBefore(pos)')
    BY <1>1, <1>2, <1>4, <1>5, <1>7, <2>1
  <2> QED BY <1>1, <2>3, <2>4, <2>5 DEF ConfirmsDone, MissingInternal
<1> QED BY <1>8, <1>9, <1>10 DEF IInv

\* So does the return.
LEMMA ReturnKeeps == ASSUME IInv, Return PROVE IInv'
<1>1. /\ pc = "confirms" /\ pos > Len(confirms) /\ pc' = "returned" /\ pos' = pos
      /\ internals' = internals /\ confirms' = confirms /\ results' = results
      /\ matched_confirms' = matched_confirms /\ auto_resolved' = auto_resolved
      /\ resolved_before' = resolved_before /\ calls' = calls
  BY DEF Return, call
<1>2. TypeOK /\ Len(confirms) \in Nat /\ pos \in Nat
  BY Confirmed DEF IInv, TypeOK
<1>3. TypeOK'
  BY <1>1, <1>2 DEF TypeOK
<1>4. TradesDone'
  <2>1. \A k : ResultFor(k)' = ResultFor(k) /\ Claimed(k)' = Claimed(k)
    BY <1>1, ArgumentsKept
  <2> QED BY <1>1, <2>1 DEF IInv, TradesDone
<1>5. ConfirmsDone'
  <2>1. UnclaimedBefore(pos)' = UnclaimedBefore(pos)
    BY <1>1 DEF UnclaimedBefore, Unclaimed
  <2>2. \A i : PlaceOf(i)' = PlaceOf(i)
    BY <1>1, ArgumentsKept
  <2>3. /\ pos <= Len(confirms) + 1
        /\ Len(results) = Len(internals) + Cardinality(UnclaimedBefore(pos))
        /\ \A i \in UnclaimedBefore(pos) : results[PlaceOf(i)] = MissingInternal(confirms[i])
        /\ \A k \in 1..Len(results) : k > Len(internals) =>
               results[k].state = "MissingInternal"
    BY <1>1 DEF IInv, ConfirmsDone
  <2>4. \A i \in UnclaimedBefore(pos)' :
            results'[PlaceOf(i)'] = MissingInternal(confirms'[i])
    BY <1>1, <2>1, <2>2, <2>3
  <2>5. pos' = Len(confirms') + 1
    BY <1>1, <1>2, <2>3
  <2> QED BY <1>1, <2>1, <2>3, <2>4, <2>5 DEF ConfirmsDone, MissingInternal
<1> QED BY <1>3, <1>4, <1>5 DEF IInv

\* A call makes it true again, whatever the call before has left.
LEMMA CallKeeps ==
    ASSUME IInv, NEW batch \in Batches[calls + 1], Call(batch)
    PROVE  IInv'
<1>1. /\ internals' = batch[1] /\ confirms' = batch[2]
      /\ matched_confirms' = {} /\ results' = <<>>
      /\ resolved_before' = auto_resolved /\ auto_resolved' = auto_resolved
      /\ pc' = "internals" /\ pos' = 1
      /\ calls' = calls + 1 /\ calls < MaxCalls
  BY DEF Call, MayCall
<1>2. calls \in Nat /\ calls + 1 \in 1..MaxCalls
  BY <1>1, BatchesAssumption DEF IInv, TypeOK
<1>3. batch \in Seq(Trade) \X Seq(Trade)
  BY <1>2, BatchesAssumption
<1>4. internals' \in Seq(Trade) /\ confirms' \in Seq(Trade) /\ Len(internals') \in Nat
  BY <1>1, <1>3, LenProperties
<1>5. TypeOK'
  BY <1>1, <1>2, <1>4, EmptySeq DEF IInv, TypeOK
<1>6. Len(results') = 0
  BY <1>1, EmptySeq
<1>7. TradesDone'
  <2>1. Claimed(pos)' = {}
    BY <1>1 DEF Claimed, IdsBefore
  <2> QED BY <1>1, <1>4, <1>6, <2>1 DEF TradesDone
<1>8. ConfirmsDone'
  BY <1>1, <1>6 DEF ConfirmsDone
<1> QED BY <1>5, <1>7, <1>8 DEF IInv

\* It is about the variables of the engine only.
LEMMA StutterKeeps == ASSUME IInv, UNCHANGED vars PROVE IInv'
<1>1. /\ internals' = internals /\ confirms' = confirms /\ results' = results
      /\ matched_confirms' = matched_confirms /\ auto_resolved' = auto_resolved
      /\ resolved_before' = resolved_before /\ calls' = calls
      /\ pc' = pc /\ pos' = pos
  BY DEF vars
<1>2. TypeOK'
  BY <1>1 DEF IInv, TypeOK
<1>3. TradesDone'
  <2>1. \A k : ResultFor(k)' = ResultFor(k)
    BY <1>1, ArgumentsKept
  <2>2. Claimed(pos)' = Claimed(pos) /\ Claimed(Len(internals) + 1)' = Claimed(Len(internals) + 1)
    BY <1>1 DEF Claimed, IdsBefore, confirm_map
  <2> QED BY <1>1, <2>1, <2>2 DEF IInv, TradesDone
<1>4. ConfirmsDone'
  <2>1. UnclaimedBefore(pos)' = UnclaimedBefore(pos)
    BY <1>1 DEF UnclaimedBefore, Unclaimed
  <2>2. \A i : PlaceOf(i)' = PlaceOf(i)
    BY <1>1, ArgumentsKept
  <2> QED BY <1>1, <2>1, <2>2 DEF IInv, ConfirmsDone, MissingInternal
<1> QED BY <1>2, <1>3, <1>4 DEF IInv

\* One case per action.
LEMMA IInvStep == IInv /\ [Next]_vars => IInv'
<1> SUFFICES ASSUME IInv, [Next]_vars PROVE IInv'
  OBVIOUS
<1>1. CASE MatchById \/ MatchFuzzily
  BY <1>1, FirstLoopKeeps
<1>2. CASE TurnToConfirms
  BY <1>2, TurnKeeps
<1>3. CASE SkipMatchedConfirm
  BY <1>3, SkipKeeps
<1>4. CASE ReportMissingInternal
  BY <1>4, ReportKeeps
<1>5. CASE Return
  BY <1>5, ReturnKeeps
<1>6. CASE \E batch \in Batches[calls + 1] : Call(batch)
  BY <1>6, CallKeeps
<1>7. CASE UNCHANGED vars
  BY <1>7, StutterKeeps
<1> QED BY <1>1, <1>2, <1>3, <1>4, <1>5, <1>6, <1>7 DEF Next, Step

\* The loop invariant holds at every iteration.
LEMMA Inductive == Spec => []IInv
BY IInvInit, IInvStep, PTL DEF Spec

-----------------------------------------------------------------------------
(* The theorems. *)

\* batch_match keeps its variables in range: in particular the positions of its
\* loops, and the kinds of result it appends.
THEOREM TypeCorrect == Spec => []TypeOK
<1>1. IInv => TypeOK
  BY DEF IInv
<1> QED BY <1>1, Inductive, PTL

\* When batch_match returns, the report is the one its loop-free description gives,
\* for batches of any length: a result for each trade, then one for each
\* confirmation nobody has, none lost, none twice, none out of order.
THEOREM ReportComplete == Spec => []ReportIsComplete
<1>1. IInv => ReportIsComplete
  <2> SUFFICES ASSUME IInv, pc = "returned"
               PROVE  /\ Len(results) = Len(internals) + Cardinality(Unclaimed)
                      /\ \A k \in DOMAIN internals : results[k] = ResultFor(k)
                      /\ \A i \in Unclaimed : results[PlaceOf(i)] = MissingInternal(confirms[i])
    BY DEF ReportIsComplete
  <2>1. /\ TypeOK /\ DOMAIN confirms = 1..Len(confirms) /\ Len(confirms) \in Nat
        /\ DOMAIN internals = 1..Len(internals) /\ Len(internals) \in Nat
        /\ Len(results) \in Nat
    BY Confirmed DEF IInv
  <2>2. UnclaimedBefore(pos) = Unclaimed
    <3>1. pos = Len(confirms) + 1
      BY DEF IInv, ConfirmsDone
    <3>2. \A i \in Unclaimed : i < pos
      BY <2>1, <3>1 DEF Unclaimed
    <3> QED BY <3>2 DEF UnclaimedBefore
  <2>3. /\ Len(results) = Len(internals) + Cardinality(Unclaimed)
        /\ \A i \in Unclaimed : results[PlaceOf(i)] = MissingInternal(confirms[i])
    BY <2>2 DEF IInv, ConfirmsDone
  <2>4. ASSUME NEW k \in DOMAIN internals PROVE results[k] = ResultFor(k)
    <3>1. k \in 1..Len(internals) /\ k <= Len(results)
      BY <2>1 DEF IInv, TradesDone
    <3> QED BY <3>1 DEF IInv, TradesDone
  <2> QED BY <2>3, <2>4
<1> QED BY <1>1, Inductive, PTL

\* Where the results for the trades come from, in one place.
LEMMA OriginOfResult ==
    ASSUME IInv, NEW k \in 1..Len(internals), k <= Len(results)
    PROVE  /\ internals[k] \in Trade
           /\ results[k].internal_trade_id = internals[k].trade_id
           /\ results[k].state # "MissingInternal"
           /\ \/ /\ confirm_map(internals[k].trade_id) # {}
                 /\ results[k] = IdResult(internals[k])
              \/ /\ confirm_map(internals[k].trade_id) = {}
                 /\ results[k] = MissingBroker(internals[k])
              \/ /\ confirm_map(internals[k].trade_id) = {}
                 /\ \E i \in DOMAIN confirms :
                        /\ confirms[i].trade_id \notin IdsBefore(k)
                        /\ results[k].broker_trade_id = confirms[i].trade_id
                        /\ Agrees(internals[k], confirms[i])
<1> DEFINE t == internals[k]
           S == {i \in DOMAIN confirms : confirms[i].trade_id \notin IdsBefore(k)}
<1>1. TypeOK /\ t \in Trade
  BY Confirmed DEF IInv
<1>2. results[k] = ResultFor(k)
  BY DEF IInv, TradesDone
<1>3. CASE confirm_map(t.trade_id) # {}
  <2>1. results[k] = IdResult(t)
    BY <1>2, <1>3 DEF ResultFor
  <2>2. IdResult(t).internal_trade_id = t.trade_id /\ IdResult(t).state # "MissingInternal"
    BY <1>1, <1>3, IdResultFacts
  <2> QED BY <1>1, <1>3, <2>1, <2>2
<1>4. CASE confirm_map(t.trade_id) = {}
  <2>1. results[k] = fuzzy_match(t, S)
    BY <1>2, <1>4 DEF ResultFor
  <2>2. S \subseteq DOMAIN confirms
    OBVIOUS
  <2> HIDE DEF S
  <2>3. /\ fuzzy_match(t, S).internal_trade_id = t.trade_id
        /\ \/ fuzzy_match(t, S) = MissingBroker(t)
           \/ \E i \in S : /\ fuzzy_match(t, S).state = "Matched"
                           /\ fuzzy_match(t, S).broker_trade_id = confirms[i].trade_id
                           /\ Agrees(t, confirms[i])
    BY <1>1, <2>2, FuzzyFacts
  <2>4. MissingBroker(t).state = "MissingBroker"
    BY DEF MissingBroker, Result
  <2> QED BY <1>1, <1>4, <2>1, <2>3, <2>4 DEF S
<1> QED BY <1>3, <1>4

\* What a caller of batch_match may rely on: the report answers every trade and every
\* confirmation, and has nothing else in it.
LEMMA ReportAnswers ==
    ASSUME IInv, pc = "returned"
    PROVE  /\ Len(internals) <= Len(results)
           /\ Len(results) <= Len(internals) + Len(confirms)
           /\ \A k \in DOMAIN internals :
                  /\ results[k].internal_trade_id = internals[k].trade_id
                  /\ results[k].state # "MissingInternal"
           /\ \A i \in DOMAIN confirms :
                  \/ \E k \in DOMAIN internals :
                         internals[k].trade_id = confirms[i].trade_id
                  \/ \E k \in DOMAIN results :
                         results[k] = MissingInternal(confirms[i])
           /\ \A k \in DOMAIN results :
                  k > Len(internals) => results[k].state = "MissingInternal"
<1> DEFINE n == Len(confirms) + 1
<1>1. /\ TypeOK /\ DOMAIN confirms = 1..Len(confirms) /\ Len(confirms) \in Nat
      /\ DOMAIN internals = 1..Len(internals) /\ Len(internals) \in Nat
      /\ DOMAIN results = 1..Len(results) /\ Len(results) \in Nat
  BY Confirmed DEF IInv
<1>2. /\ pos = n
      /\ Len(results) >= Len(internals)
      /\ Len(results) = Len(internals) + Cardinality(UnclaimedBefore(n))
      /\ \A i \in UnclaimedBefore(n) : results[PlaceOf(i)] = MissingInternal(confirms[i])
      /\ \A k \in 1..Len(results) : k > Len(internals) =>
             results[k].state = "MissingInternal"
  BY DEF IInv, TradesDone, ConfirmsDone
<1>3. UnclaimedBefore(n) = Unclaimed /\ Unclaimed \in SUBSET (1..Len(confirms))
  BY <1>1 DEF UnclaimedBefore, Unclaimed
<1>4. /\ Cardinality(Unclaimed) \in Nat
      /\ \A i \in Unclaimed :
             PlaceOf(i) \in (Len(internals) + 1)..(Len(internals) + Cardinality(Unclaimed))
  <2>1. n \in 1..(Len(confirms) + 1)
    BY <1>1
  <2> QED BY <1>1, <1>3, <2>1, UnclaimedCounted
<1>5. Cardinality(Unclaimed) <= Len(confirms)
  <2>1. PICK m \in Nat : m = Len(confirms)
    BY <1>1
  <2>2. IsFiniteSet(1..m) /\ Cardinality(1..m) = m
    BY ONLY m \in Nat, FS_Interval
  <2> QED BY <1>3, <2>1, <2>2, FS_Subset
<1>6. \A i \in Unclaimed : PlaceOf(i) \in DOMAIN results
  BY <1>1, <1>2, <1>3, <1>4
<1>7. \A i \in DOMAIN confirms : i \in Unclaimed
          \/ \E k \in DOMAIN internals : internals[k].trade_id = confirms[i].trade_id
  BY DEF Unclaimed
<1>8. \A k \in DOMAIN internals : /\ results[k].internal_trade_id = internals[k].trade_id
                                  /\ results[k].state # "MissingInternal"
  BY <1>1, <1>2, OriginOfResult
<1> HIDE DEF n
<1>9. \A i \in DOMAIN confirms :
          \/ \E k \in DOMAIN internals : internals[k].trade_id = confirms[i].trade_id
          \/ \E k \in DOMAIN results : results[k] = MissingInternal(confirms[i])
  BY <1>2, <1>3, <1>6, <1>7
<1> QED BY <1>1, <1>2, <1>3, <1>4, <1>5, <1>8, <1>9

\* No trade is ever reported as Matched without a confirmation that agrees with it
\* and carries the id reported, or with two confirmations of its own id.
THEOREM MatchedSound == Spec => []MatchedIsSound
<1>1. IInv => MatchedIsSound
  <2> SUFFICES ASSUME IInv, NEW k \in DOMAIN results, results[k].state = "Matched"
               PROVE  /\ k <= Len(internals)
                      /\ \E i \in confirm_map(results[k].broker_trade_id) :
                             Agrees(internals[k], confirms[i])
                      /\ results[k].broker_trade_id = internals[k].trade_id =>
                             Cardinality(confirm_map(internals[k].trade_id)) = 1
    BY DEF MatchedIsSound
  <2>1. TypeOK /\ k \in 1..Len(results) /\ Len(results) \in Nat /\ Len(internals) \in Nat
    BY Confirmed DEF IInv
  <2>2. k <= Len(internals)
    BY <2>1 DEF IInv, ConfirmsDone
  <2>3. k \in 1..Len(internals) /\ k <= Len(results)
    BY <2>1, <2>2
  <2>4. internals[k] \in Trade
    BY <2>3, OriginOfResult
  <2>5. CASE /\ confirm_map(internals[k].trade_id) # {}
             /\ results[k] = IdResult(internals[k])
    BY <2>1, <2>2, <2>4, <2>5, IdResultFacts
  <2>6. CASE results[k] = MissingBroker(internals[k])
    BY <2>6 DEF MissingBroker, Result
  <2>7. CASE /\ confirm_map(internals[k].trade_id) = {}
             /\ \E i \in DOMAIN confirms :
                    /\ results[k].broker_trade_id = confirms[i].trade_id
                    /\ Agrees(internals[k], confirms[i])
    BY <2>2, <2>7 DEF confirm_map
  <2> QED BY <2>3, <2>5, <2>6, <2>7, OriginOfResult
<1> QED BY <1>1, Inductive, PTL

\* A fuzzy match leaves the confirmations of earlier trades of the batch alone.
THEOREM FuzzyLeaves == Spec => []FuzzyLeavesClaimedAlone
<1>1. IInv => FuzzyLeavesClaimedAlone
  <2> SUFFICES ASSUME IInv, NEW k \in DOMAIN results, NEW j \in DOMAIN internals,
                      j < k, k <= Len(internals),
                      results[k].broker_trade_id # internals[k].trade_id
               PROVE  results[k].broker_trade_id # internals[j].trade_id
    BY DEF FuzzyLeavesClaimedAlone
  <2>1. /\ TypeOK /\ k \in 1..Len(internals) /\ k <= Len(results)
        /\ j \in 1..(k - 1) /\ internals[j] \in Trade
    BY Confirmed DEF IInv
  <2>2. internals[k] \in Trade
    BY <2>1, OriginOfResult
  <2>3. internals[j].trade_id \in IdsBefore(k) /\ internals[j].trade_id # NoId
    BY <2>1, NoIdAssumption DEF IdsBefore, Trade
  <2>4. CASE /\ confirm_map(internals[k].trade_id) # {}
             /\ results[k] = IdResult(internals[k])
    BY <2>1, <2>2, <2>4, IdResultFacts
  <2>5. CASE results[k] = MissingBroker(internals[k])
    BY <2>3, <2>5 DEF MissingBroker, Result
  <2>6. CASE \E i \in DOMAIN confirms :
                 /\ confirms[i].trade_id \notin IdsBefore(k)
                 /\ results[k].broker_trade_id = confirms[i].trade_id
    BY <2>3, <2>6
  <2> QED BY <2>1, <2>4, <2>5, <2>6, OriginOfResult
<1> QED BY <1>1, Inductive, PTL

-----------------------------------------------------------------------------
(* The counter of the engine. *)

\* The results that AutoResolvedCount counts.
Resolved == {k \in 1..Len(results) :
                /\ results[k].state = "Matched"
                /\ results[k].broker_trade_id = results[k].internal_trade_id}

\* They can be counted.
LEMMA ResolvedFinite ==
    ASSUME TypeOK
    PROVE  /\ IsFiniteSet(Resolved) /\ Cardinality(Resolved) \in Nat
           /\ AutoResolvedCount <=>
                  auto_resolved - resolved_before = IF auto_resolve THEN Cardinality(Resolved) ELSE 0
<1>1. Resolved \in SUBSET (1..Len(results)) /\ Len(results) \in Nat
  BY Confirmed DEF Resolved
<1>2. IsFiniteSet(1..Len(results))
  BY <1>1, FS_Interval
<1>3. IsFiniteSet(Resolved)
  BY <1>1, <1>2, FS_Subset
<1>4. Cardinality(Resolved) \in Nat
  BY <1>3, FS_CardinalityType
<1> QED BY <1>3, <1>4, Confirmed DEF AutoResolvedCount, Resolved

\* An iteration that appends a result counts it if it is to be counted.
LEMMA AppendCounted ==
    ASSUME TypeOK, TypeOK', NEW r \in ResultRecord, results' = Append(results, r)
    PROVE  Cardinality(Resolved') = Cardinality(Resolved) +
               (IF r.state = "Matched" /\ r.broker_trade_id = r.internal_trade_id THEN 1 ELSE 0)
<1>1. results \in Seq(ResultRecord) /\ Len(results) \in Nat
  BY Confirmed DEF TypeOK, ResultRecord
<1>2. /\ Len(results') = Len(results) + 1
      /\ results'[Len(results) + 1] = r
      /\ \A k \in 1..Len(results) : results'[k] = results[k]
  BY <1>1, AppendProperties
<1>3. IsFiniteSet(Resolved) /\ Cardinality(Resolved) \in Nat
  BY ResolvedFinite
<1> DEFINE n == Len(results) + 1
<1>4. 1..Len(results') = (1..Len(results)) \cup {n} /\ n \notin 1..Len(results)
  BY <1>1, <1>2
<1>5. CASE r.state = "Matched" /\ r.broker_trade_id = r.internal_trade_id
  <2>1. Resolved' = Resolved \cup {n} /\ n \notin Resolved
    BY <1>2, <1>4, <1>5 DEF Resolved
  <2> QED BY <1>3, <1>5, <2>1, FS_AddElement
<1>6. CASE ~(r.state = "Matched" /\ r.broker_trade_id = r.internal_trade_id)
  <2>1. Resolved' = Resolved
    BY <1>2, <1>4, <1>6 DEF Resolved
  <2> QED BY <1>3, <1>6, <2>1
<1> QED BY <1>5, <1>6

\* The counter and the results move together, or not at all.
LEMMA CountStep == IInv /\ AutoResolvedCount /\ [Next]_vars => AutoResolvedCount'
<1> SUFFICES ASSUME IInv, AutoResolvedCount, [Next]_vars PROVE AutoResolvedCount'
  OBVIOUS
<1>1. IInv' /\ TypeOK /\ TypeOK'
  BY IInvStep DEF IInv
<1>2. /\ Cardinality(Resolved) \in Nat /\ auto_resolved \in Nat /\ resolved_before \in Nat
      /\ auto_resolved - resolved_before = IF auto_resolve THEN Cardinality(Resolved) ELSE 0
  BY <1>1, ResolvedFinite DEF TypeOK
<1>3. AutoResolvedCount' <=>
          auto_resolved' - resolved_before' = IF auto_resolve THEN Cardinality(Resolved') ELSE 0
  <2>1. DOMAIN results' = 1..Len(results')
    BY <1>1, LenProperties DEF TypeOK
  <2> QED BY <2>1 DEF AutoResolvedCount, Resolved
<1>4. CASE MatchById \/ MatchFuzzily
  <2>1. /\ AtInternal
        /\ results' = Append(results, ResultFor(pos))
        /\ resolved_before' = resolved_before
        /\ auto_resolved' = auto_resolved +
               (IF auto_resolve /\ ResultFor(pos).state = "Matched"
                   /\ ResultFor(pos).broker_trade_id = ResultFor(pos).internal_trade_id
                THEN 1 ELSE 0)
    BY <1>4, IterationOfFirstLoop
  <2>2. ResultFor(pos) \in ResultRecord
    BY <2>1, NextResult
  <2>3. Cardinality(Resolved') = Cardinality(Resolved) +
            (IF /\ ResultFor(pos).state = "Matched"
                /\ ResultFor(pos).broker_trade_id = ResultFor(pos).internal_trade_id
             THEN 1 ELSE 0)
    BY <1>1, <2>1, <2>2, AppendCounted
  <2> QED BY <1>2, <1>3, <2>1, <2>3
<1>5. CASE ReportMissingInternal
  <2>1. /\ results' = Append(results, MissingInternal(confirms[pos]))
        /\ auto_resolved' = auto_resolved /\ resolved_before' = resolved_before
        /\ AtConfirm
    BY <1>5 DEF ReportMissingInternal, call
  <2>2. /\ MissingInternal(confirms[pos]) \in ResultRecord
        /\ MissingInternal(confirms[pos]).state = "MissingInternal"
    <3>1. confirms[pos] \in Trade
      BY <2>1, AtConfirmFacts
    <3> QED BY <3>1 DEF MissingInternal, Result, ResultRecord, MatchState, Trade
  <2>3. Cardinality(Resolved') = Cardinality(Resolved)
    BY <1>1, <1>2, <2>1, <2>2, AppendCounted
  <2> QED BY <1>2, <1>3, <2>1, <2>3
<1>6. CASE TurnToConfirms \/ SkipMatchedConfirm \/ Return \/ UNCHANGED vars
  <2>1. /\ results' = results /\ auto_resolved' = auto_resolved
        /\ resolved_before' = resolved_before
    BY <1>6 DEF TurnToConfirms, SkipMatchedConfirm, Return, vars, call
  <2>2. Resolved' = Resolved
    BY <2>1 DEF Resolved
  <2> QED BY <1>2, <1>3, <2>1, <2>2
<1>7. CASE \E batch \in Batches[calls + 1] : Call(batch)
  <2>1. results' = <<>> /\ auto_resolved' = auto_resolved /\ resolved_before' = auto_resolved
    BY <1>7 DEF Call
  <2>2. Resolved' = {}
    BY <2>1, EmptySeq DEF Resolved
  <2> QED BY <1>2, <1>3, <2>1, <2>2, FS_EmptySet
<1> QED BY <1>4, <1>5, <1>6, <1>7 DEF Next, Step

\* After any number of calls on one engine, auto_resolved_ tells, as a difference,
\* how many trades of the present call were matched through their own id.
THEOREM CountCorrect == Spec => []AutoResolvedCount
<1>1. Init => AutoResolvedCount
  <2> SUFFICES ASSUME Init PROVE AutoResolvedCount
    OBVIOUS
  <2>1. TypeOK
    BY IInvInit DEF IInv
  <2>2. Resolved = {}
    BY EmptySeq DEF Init, Resolved
  <2> QED BY <2>1, <2>2, ResolvedFinite, FS_EmptySet DEF Init
<1> QED BY <1>1, CountStep, Inductive, PTL DEF Spec

=============================================================================
