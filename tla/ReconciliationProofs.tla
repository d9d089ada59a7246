------------------------ MODULE ReconciliationProofs ------------------------
(***************************************************************************)
(* Theorems about Reconciliation, for any records, any tolerances, any     *)
(* order of the calls that fill the store, and any number of results.      *)
(*                                                                         *)
(* The store is argued about by itself.  From what it holds follows that   *)
(* the program calls the engine as MatchingEngine means it to be called,   *)
(* and from what the engine returns that the program uses the workflow as  *)
(* ExceptionWorkflow means it; so the theorems about the two hold of them  *)
(* inside the program, and what remains is how far its own loop has got.   *)
(***************************************************************************)
EXTENDS Reconciliation, SequenceTheorems, FiniteSetTheorems, TLAPS

\* The two components, with their theorems, used as in Reconciliation.
EngineProofs == INSTANCE MatchingEngineProofs WITH
    TradeIds   <- {r.trade_id : r \in Records},
    Symbols    <- {r.symbol : r \in Records},
    Quantities <- {r.quantity : r \in Records},
    Prices     <- {r.price : r \in Records},
    MaxCalls   <- 1,
    Batches    <- <<Seq(ComparedRecords) \X Seq(ComparedRecords)>>

\* The workflow, which gets no assignees and no resolutions, and one instant of time.
WorkflowProofs == INSTANCE ExceptionWorkflowProofs WITH
    MatchResults <- MatchState \ {"Matched"},
    Assignees    <- {}, Resolutions <- {}, NoText <- NoId,
    DayTicks     <- 1, ClockModulus <- 1, Instants <- {0}

\* The store: what a rollback would restore has unique keys as well.
StoreInv ==
    /\ StoreTypeOK
    /\ StoreHoldsWhatItAccepted
    /\ InTransaction =>
           /\ \A i, j \in DOMAIN saved[1] : SameTrade(saved[1][i], saved[1][j]) => i = j
           /\ \A i, j \in DOMAIN saved[2] :
                  SameConfirmation(saved[2][i], saved[2][j]) => i = j

\* The match states that are raised, and those of a severity.
Mismatch      == MatchState \ {"Matched"}
OfSeverity(x) == {s \in Mismatch : severity_from_match[s] = x}

\* The results before place n that are in one of the states.
Before(n, states) == {k \in DOMAIN results : k < n /\ results[k].state \in states}

\* Where the program is, and what it has the engine work on.
Progress ==
    /\ phase \in {"filling", "matching", "raising", "done"}
    /\ at \in 1..(Len(results) + 1)
    /\ phase \in {"filling", "matching"} => at = 1 /\ exceptions = <<>>
    /\ phase # "filling" => /\ internals = Compared(internal_trades)
                            /\ confirms = Compared(confirmations)
    /\ phase \in {"raising", "done"} => pc = "returned"
    /\ phase = "done" => at = Len(results) + 1

\* The exceptions raised so far are those for the results before at.
Raised ==
    /\ Len(exceptions) = Cardinality(Before(at, Mismatch))
    /\ \A k \in Before(at, Mismatch) :
           /\ exceptions[PlaceOf(k)].match_state = results[k].state
           /\ exceptions[PlaceOf(k)].severity = severity_from_match[results[k].state]
    /\ \A n \in DOMAIN exceptions : exceptions[n].state = "Detected"
    /\ \A x \in ExceptionSeverity :
           Cardinality({n \in DOMAIN exceptions : exceptions[n].severity = x})
               = Cardinality(Before(at, OfSeverity(x)))

\* What the three classes guarantee inside the program.
Components == StoreInv /\ EngineProofs!IInv /\ WorkflowProofs!IInv

-----------------------------------------------------------------------------
(* The store. *)

\* The rows of a table that an insert has extended.
LEMMA AppendedRows ==
    ASSUME NEW S, NEW table \in Seq(S), NEW row \in S
    PROVE  /\ Append(table, row) \in Seq(S)
           /\ Rows(Append(table, row)) = Rows(table) \cup {row}
           /\ \A i \in DOMAIN Append(table, row) :
                  \/ i \in DOMAIN table /\ Append(table, row)[i] = table[i]
                  \/ i = Len(table) + 1 /\ Append(table, row)[i] = row
           /\ \A i \in DOMAIN table : table[i] \in Rows(table)
<1>1. Len(table) \in Nat /\ DOMAIN table = 1..Len(table)
  BY LenProperties
<1>2. /\ Append(table, row) \in Seq(S) /\ Len(Append(table, row)) = Len(table) + 1
      /\ Append(table, row)[Len(table) + 1] = row
      /\ \A i \in 1..Len(table) : Append(table, row)[i] = table[i]
  BY AppendProperties
<1>3. DOMAIN Append(table, row) = 1..(Len(table) + 1)
  BY <1>2, LenProperties
<1>4. 1..(Len(table) + 1) = DOMAIN table \cup {Len(table) + 1}
  BY <1>1
<1>5. Rows(Append(table, row)) = Rows(table) \cup {row}
  BY <1>1, <1>2, <1>3, <1>4 DEF Rows
<1> QED
  BY <1>1, <1>2, <1>3, <1>4, <1>5 DEF Rows

\* The store is empty in the beginning.
LEMMA StoreInit == InitStore => StoreInv
<1> SUFFICES ASSUME InitStore PROVE StoreInv
  OBVIOUS
<1>1. ~InTransaction /\ accepted = {} /\ internal_trades = <<>> /\ confirmations = <<>>
  BY DEF InitStore, InTransaction
<1>2. DOMAIN internal_trades = {} /\ DOMAIN confirmations = {}
  BY <1>1
<1>3. StoreTypeOK
  BY <1>1 DEF StoreTypeOK
<1> QED
  BY <1>1, <1>2, <1>3 DEF StoreInv, StoreHoldsWhatItAccepted, Rows

\* What the history says of an insert.
LEMMA NoteFacts ==
    ASSUME StoreInv, NEW row \in Records, Note(row), saved' = saved
    PROVE  /\ accepted' \subseteq [row : Records, durable : BOOLEAN]
           /\ {a.row : a \in accepted'} = {a.row : a \in accepted} \cup {row}
           /\ InTransaction =>
                  {a.row : a \in {b \in accepted' : b.durable}}
                      = {a.row : a \in {b \in accepted : b.durable}}
           /\ ~InTransaction => \A a \in accepted' : a.durable
<1>1. PICK new \in [row : Records, durable : BOOLEAN] :
          /\ accepted' = accepted \cup {new}
          /\ new.row = row /\ (new.durable <=> ~InTransaction)
  <2>1. [row |-> row, durable |-> ~InTransaction] \in [row : Records, durable : BOOLEAN]
    OBVIOUS
  <2> QED
    BY <2>1 DEF Note
<1>3. accepted' \subseteq [row : Records, durable : BOOLEAN]
  BY <1>1 DEF StoreInv, StoreTypeOK, Records
<1>4. ~InTransaction => \A a \in accepted : a.durable
  BY DEF StoreInv, StoreHoldsWhatItAccepted
<1>5. {a.row : a \in accepted'} = {a.row : a \in accepted} \cup {row}
  BY <1>1
<1>6. InTransaction => {b \in accepted' : b.durable} = {b \in accepted : b.durable}
  BY <1>1
<1> QED
  BY <1>1, <1>3, <1>4, <1>5, <1>6

\* Adding a trade keeps the invariant of the store.
LEMMA AddInternalKeeps ==
    ASSUME StoreInv, NEW r \in TradeRecords, add_internal(r)
    PROVE  StoreInv'
<1>1. /\ internal_trades' = Append(internal_trades, r)
      /\ confirmations' = confirmations /\ saved' = saved
      /\ Note(r) /\ \A s \in Rows(internal_trades) : ~SameTrade(s, r) /\ ~SameTrade(r, s)
  BY DEF add_internal, SameTrade
<1>2. internal_trades \in Seq(TradeRecords) /\ InTransaction' = InTransaction
  BY <1>1 DEF StoreInv, StoreTypeOK, InTransaction
<1>3. /\ internal_trades' \in Seq(TradeRecords)
      /\ Rows(internal_trades)' = Rows(internal_trades) \cup {r}
      /\ \A i \in DOMAIN internal_trades' :
             \/ i \in DOMAIN internal_trades /\ internal_trades'[i] = internal_trades[i]
             \/ i = Len(internal_trades) + 1 /\ internal_trades'[i] = r
      /\ \A i \in DOMAIN internal_trades : internal_trades[i] \in Rows(internal_trades)
  <2>1. Rows(internal_trades)' = Rows(Append(internal_trades, r))
    BY <1>1 DEF Rows
  <2> QED
    BY <1>1, <1>2, <2>1, AppendedRows
<1>4. Rows(confirmations)' = Rows(confirmations)
  BY <1>1 DEF Rows
<1>5. /\ accepted' \subseteq [row : Records, durable : BOOLEAN]
      /\ {a.row : a \in accepted'} = {a.row : a \in accepted} \cup {r}
      /\ InTransaction =>
             {a.row : a \in {b \in accepted' : b.durable}}
                 = {a.row : a \in {b \in accepted : b.durable}}
      /\ ~InTransaction => \A a \in accepted' : a.durable
  <2>1. r \in Records
    BY DEF Records
  <2> QED
    BY <1>1, <2>1, NoteFacts
<1>6. StoreTypeOK'
  BY <1>1, <1>2, <1>3, <1>5 DEF StoreInv, StoreTypeOK, Records
<1>7. ASSUME NEW i \in DOMAIN internal_trades', NEW j \in DOMAIN internal_trades',
             SameTrade(internal_trades'[i], internal_trades'[j])
      PROVE  i = j
  <2>1. \A k, l \in DOMAIN internal_trades :
            SameTrade(internal_trades[k], internal_trades[l]) => k = l
    BY DEF StoreInv, StoreHoldsWhatItAccepted
  <2> QED
    BY <1>1, <1>3, <1>7, <2>1
<1>8. /\ Rows(internal_trades)' \cup Rows(confirmations)' = {a.row : a \in accepted'}
      /\ \A i, j \in DOMAIN confirmations' :
             SameConfirmation(confirmations'[i], confirmations'[j]) => i = j
      /\ Rows(saved[1])' = Rows(saved[1]) /\ Rows(saved[2])' = Rows(saved[2])
  BY <1>1, <1>3, <1>4, <1>5 DEF StoreInv, StoreHoldsWhatItAccepted, Rows
<1>9. IF InTransaction'
      THEN (Rows(saved[1]) \cup Rows(saved[2]))'
               = {a.row : a \in {b \in accepted' : b.durable}}
      ELSE \A a \in accepted' : a.durable
  BY <1>2, <1>5, <1>8 DEF StoreInv, StoreHoldsWhatItAccepted
<1>10. StoreHoldsWhatItAccepted'
  BY <1>7, <1>8, <1>9 DEF StoreHoldsWhatItAccepted, SameTrade, SameConfirmation
<1> QED
  BY <1>1, <1>2, <1>6, <1>10 DEF StoreInv, SameTrade, SameConfirmation

\* So does adding a confirmation,
LEMMA AddConfirmationKeeps ==
    ASSUME StoreInv, NEW c \in BrokerConfirmations, add_confirmation(c)
    PROVE  StoreInv'
<1>1. /\ confirmations' = Append(confirmations, c)
      /\ internal_trades' = internal_trades /\ saved' = saved
      /\ Note(c)
      /\ \A d \in Rows(confirmations) : ~SameConfirmation(d, c) /\ ~SameConfirmation(c, d)
  BY DEF add_confirmation, SameConfirmation
<1>2. confirmations \in Seq(BrokerConfirmations) /\ InTransaction' = InTransaction
  BY <1>1 DEF StoreInv, StoreTypeOK, InTransaction
<1>3. /\ confirmations' \in Seq(BrokerConfirmations)
      /\ Rows(confirmations)' = Rows(confirmations) \cup {c}
      /\ \A i \in DOMAIN confirmations' :
             \/ i \in DOMAIN confirmations /\ confirmations'[i] = confirmations[i]
             \/ i = Len(confirmations) + 1 /\ confirmations'[i] = c
      /\ \A i \in DOMAIN confirmations : confirmations[i] \in Rows(confirmations)
  <2>1. Rows(confirmations)' = Rows(Append(confirmations, c))
    BY <1>1 DEF Rows
  <2> QED
    BY <1>1, <1>2, <2>1, AppendedRows
<1>4. Rows(internal_trades)' = Rows(internal_trades)
  BY <1>1 DEF Rows
<1>5. /\ accepted' \subseteq [row : Records, durable : BOOLEAN]
      /\ {a.row : a \in accepted'} = {a.row : a \in accepted} \cup {c}
      /\ InTransaction =>
             {a.row : a \in {b \in accepted' : b.durable}}
                 = {a.row : a \in {b \in accepted : b.durable}}
      /\ ~InTransaction => \A a \in accepted' : a.durable
  <2>1. c \in Records
    BY DEF Records
  <2> QED
    BY <1>1, <2>1, NoteFacts
<1>6. StoreTypeOK'
  BY <1>1, <1>2, <1>3, <1>5 DEF StoreInv, StoreTypeOK, Records
<1>7. ASSUME NEW i \in DOMAIN confirmations', NEW j \in DOMAIN confirmations',
             SameConfirmation(confirmations'[i], confirmations'[j])
      PROVE  i = j
  <2>1. \A k, l \in DOMAIN confirmations :
            SameConfirmation(confirmations[k], confirmations[l]) => k = l
    BY DEF StoreInv, StoreHoldsWhatItAccepted
  <2> QED
    BY <1>1, <1>3, <1>7, <2>1
<1>8. /\ Rows(internal_trades)' \cup Rows(confirmations)' = {a.row : a \in accepted'}
      /\ \A i, j \in DOMAIN internal_trades' :
             SameTrade(internal_trades'[i], internal_trades'[j]) => i = j
      /\ Rows(saved[1])' = Rows(saved[1]) /\ Rows(saved[2])' = Rows(saved[2])
  BY <1>1, <1>3, <1>4, <1>5 DEF StoreInv, StoreHoldsWhatItAccepted, Rows
<1>9. IF InTransaction'
      THEN (Rows(saved[1]) \cup Rows(saved[2]))'
               = {a.row : a \in {b \in accepted' : b.durable}}
      ELSE \A a \in accepted' : a.durable
  BY <1>2, <1>5, <1>8 DEF StoreInv, StoreHoldsWhatItAccepted
<1>10. StoreHoldsWhatItAccepted'
  BY <1>7, <1>8, <1>9 DEF StoreHoldsWhatItAccepted, SameTrade, SameConfirmation
<1> QED
  BY <1>1, <1>2, <1>6, <1>10 DEF StoreInv, SameTrade, SameConfirmation

\* opening a transaction,
LEMMA BeginTransactionKeeps == ASSUME StoreInv, begin_transaction PROVE StoreInv'
<1>1. /\ ~InTransaction /\ InTransaction'
      /\ saved' = <<internal_trades, confirmations>>
      /\ internal_trades' = internal_trades /\ confirmations' = confirmations
      /\ accepted' = accepted
  BY DEF begin_transaction, InTransaction
<1>2. saved'[1] = internal_trades /\ saved'[2] = confirmations
  BY <1>1
<1>3. StoreTypeOK'
  BY <1>1 DEF StoreInv, StoreTypeOK
<1>4. {b \in accepted : b.durable} = accepted
  BY <1>1 DEF StoreInv, StoreHoldsWhatItAccepted
<1>5. StoreHoldsWhatItAccepted'
  <2>1. /\ Rows(internal_trades)' = Rows(internal_trades)
        /\ Rows(confirmations)' = Rows(confirmations)
        /\ Rows(saved[1])' = Rows(internal_trades) /\ Rows(saved[2])' = Rows(confirmations)
    BY <1>1, <1>2 DEF Rows
  <2>2. Rows(internal_trades) \cup Rows(confirmations) = {a.row : a \in accepted}
    BY DEF StoreInv, StoreHoldsWhatItAccepted
  <2>3. (IF InTransaction
         THEN Rows(saved[1]) \cup Rows(saved[2]) = {a.row : a \in {b \in accepted : b.durable}}
         ELSE \A a \in accepted : a.durable)'
    BY <1>1, <1>4, <2>1, <2>2
  <2> QED
    BY <1>1, <2>1, <2>2, <2>3 DEF StoreInv, StoreHoldsWhatItAccepted, SameTrade,
                                  SameConfirmation
<1> QED
  BY <1>1, <1>2, <1>3, <1>5 DEF StoreInv, StoreHoldsWhatItAccepted, SameTrade,
                                SameConfirmation

\* committing it,
LEMMA CommitKeeps == ASSUME StoreInv, commit PROVE StoreInv'
<1>1. /\ ~InTransaction' /\ internal_trades' = internal_trades
      /\ confirmations' = confirmations
      /\ accepted' = {[a EXCEPT !.durable = TRUE] : a \in accepted}
  BY DEF commit, InTransaction
<1>2. accepted \subseteq [row : Records, durable : BOOLEAN]
  BY DEF StoreInv, StoreTypeOK, Records
<1>3. \A a \in accepted :
          /\ [a EXCEPT !.durable = TRUE] \in [row : Records, durable : BOOLEAN]
          /\ [a EXCEPT !.durable = TRUE].row = a.row
          /\ [a EXCEPT !.durable = TRUE].durable
  BY <1>2
<1>4. /\ accepted' \subseteq [row : Records, durable : BOOLEAN]
      /\ {a.row : a \in accepted'} = {a.row : a \in accepted}
      /\ \A a \in accepted' : a.durable
  <2> DEFINE settled(a) == [a EXCEPT !.durable = TRUE]
  <2>1. accepted' = {settled(a) : a \in accepted}
    BY <1>1
  <2>2. \A a \in accepted : /\ settled(a) \in [row : Records, durable : BOOLEAN]
                            /\ settled(a).row = a.row
                            /\ settled(a).durable
    BY <1>3
  <2> HIDE DEF settled
  <2> QED
    BY <2>1, <2>2
<1>5. StoreTypeOK'
  BY <1>1, <1>4 DEF StoreInv, StoreTypeOK, Records
<1>6. StoreHoldsWhatItAccepted'
  <2>1. /\ Rows(internal_trades)' = Rows(internal_trades)
        /\ Rows(confirmations)' = Rows(confirmations)
    BY <1>1 DEF Rows
  <2>2. Rows(internal_trades)' \cup Rows(confirmations)' = {a.row : a \in accepted'}
    BY <1>4, <2>1 DEF StoreInv, StoreHoldsWhatItAccepted
  <2> QED
    BY <1>1, <1>4, <2>2 DEF StoreInv, StoreHoldsWhatItAccepted, SameTrade, SameConfirmation
<1> QED
  BY <1>1, <1>5, <1>6 DEF StoreInv

\* rolling it back,
LEMMA RollbackKeeps == ASSUME StoreInv, rollback PROVE StoreInv'
<1>1. /\ InTransaction /\ ~InTransaction'
      /\ internal_trades' = saved[1] /\ confirmations' = saved[2]
      /\ accepted' = {a \in accepted : a.durable}
  BY DEF rollback, InTransaction
<1>2. saved[1] \in Seq(TradeRecords) /\ saved[2] \in Seq(BrokerConfirmations)
  BY <1>1 DEF StoreInv, StoreTypeOK
<1>3. StoreTypeOK'
  BY <1>1, <1>2 DEF StoreInv, StoreTypeOK
<1>4. Rows(internal_trades)' = Rows(saved[1]) /\ Rows(confirmations)' = Rows(saved[2])
  BY <1>1 DEF Rows
<1>5. Rows(internal_trades)' \cup Rows(confirmations)' = {a.row : a \in accepted'}
  BY <1>1, <1>4 DEF StoreInv, StoreHoldsWhatItAccepted
<1>6. StoreHoldsWhatItAccepted'
  BY <1>1, <1>5 DEF StoreInv, StoreHoldsWhatItAccepted, SameTrade, SameConfirmation
<1> QED
  BY <1>1, <1>3, <1>6 DEF StoreInv

\* and so any step of the store
LEMMA StoreStepKeeps == ASSUME StoreInv, StoreStep PROVE StoreInv'
BY AddInternalKeeps, AddConfirmationKeeps, BeginTransactionKeeps, CommitKeeps,
   RollbackKeeps DEF StoreStep

\* and any step that leaves it alone.
LEMMA StoreStutter == ASSUME StoreInv, UNCHANGED store PROVE StoreInv'
<1>1. /\ internal_trades' = internal_trades /\ confirmations' = confirmations
      /\ saved' = saved /\ accepted' = accepted
  BY DEF store
<1>2. InTransaction' = InTransaction
  BY <1>1 DEF InTransaction
<1>3. StoreTypeOK'
  BY <1>1, <1>2 DEF StoreInv, StoreTypeOK
<1>4. StoreHoldsWhatItAccepted'
  <2>1. /\ Rows(internal_trades)' = Rows(internal_trades)
        /\ Rows(confirmations)' = Rows(confirmations)
        /\ Rows(saved[1])' = Rows(saved[1]) /\ Rows(saved[2])' = Rows(saved[2])
    BY <1>1 DEF Rows
  <2> QED
    BY <1>1, <1>2, <2>1 DEF StoreInv, StoreHoldsWhatItAccepted, SameTrade,
                            SameConfirmation
<1> QED
  BY <1>1, <1>2, <1>3, <1>4 DEF StoreInv, SameTrade, SameConfirmation

\* The invariant of the store always holds.
LEMMA StoreInductive == Spec => []StoreInv
<1>1. Init => StoreInv
  BY StoreInit DEF Init
<1>2. StoreInv /\ [Next]_vars => StoreInv'
  <2>1. [Next]_vars => StoreStep \/ UNCHANGED store
    BY DEF Next, Fill, cmd_match, BeginMatch, Match, RaiseException, SkipMatch, EndMatch,
           vars
  <2> QED
    BY <2>1, StoreStepKeeps, StoreStutter
<1> QED
  BY <1>1, <1>2, PTL DEF Spec

\* Whatever records are added and however transactions are begun, committed and
\* rolled back, the two tables hold what add_* answered with true and no rollback
\* undid.
THEOREM StoreCorrect == Spec => []StoreHoldsWhatItAccepted
<1>1. StoreInv => StoreHoldsWhatItAccepted
  BY DEF StoreInv
<1> QED
  BY <1>1, StoreInductive, PTL

-----------------------------------------------------------------------------
(* The engine. *)

\* The records and the configuration are what the engine assumes them to be.
LEMMA EngineAssumptions ==
    /\ EngineProofs!NoIdAssumption /\ EngineProofs!DataAssumption
    /\ EngineProofs!ConfigAssumption /\ EngineProofs!BatchesAssumption
<1>1. EngineProofs!NoIdAssumption /\ EngineProofs!DataAssumption
  BY ComparisonAssumption DEF EngineProofs!NoIdAssumption, EngineProofs!DataAssumption,
                              Records
<1>2. EngineProofs!ConfigAssumption
  BY ToleranceAssumption DEF EngineProofs!ConfigAssumption
<1>3. EngineProofs!BatchesAssumption
  <2>1. EngineProofs!Trade = ComparedRecords
    BY DEF EngineProofs!Trade, EngineProofs!Side, ComparedRecords, Side
  <2> QED
    BY <2>1 DEF EngineProofs!BatchesAssumption
<1> QED
  BY <1>1, <1>2, <1>3

\* What is compared of a table of records are records the engine can compare.
LEMMA ComparedFacts ==
    ASSUME NEW table, \/ table \in Seq(TradeRecords)
                      \/ table \in Seq(BrokerConfirmations)
    PROVE  /\ Compared(table) \in Seq(ComparedRecords)
           /\ Len(Compared(table)) = Len(table)
           /\ DOMAIN Compared(table) = DOMAIN table
           /\ \A i \in DOMAIN table : Compared(table)[i].trade_id = table[i].trade_id
<1>1. table \in Seq(Records)
  BY SeqDef DEF Records
<1>2. Len(table) \in Nat /\ DOMAIN table = 1..Len(table)
  BY <1>1, LenProperties
<1>3. \A i \in DOMAIN table : table[i] \in Records
  BY <1>1, ElementOfSeq, <1>2
<1>4. \A r \in Records : r.side \in Side
  BY ComparisonAssumption DEF Records
<1> DEFINE c(r) == [trade_id |-> r.trade_id, symbol |-> r.symbol, side |-> r.side,
                    quantity |-> r.quantity, price |-> r.price]
<1>5. \A r \in Records : c(r) \in ComparedRecords /\ c(r).trade_id = r.trade_id
  BY <1>4 DEF ComparedRecords
<1>6. Compared(table) = [i \in DOMAIN table |-> c(table[i])]
  BY DEF Compared
<1> HIDE DEF c
<1>7. Compared(table) \in [1..Len(table) -> ComparedRecords]
  BY <1>2, <1>3, <1>5, <1>6
<1>8. Compared(table) \in Seq(ComparedRecords) /\ Len(Compared(table)) = Len(table)
  BY <1>2, <1>7, SeqDef, LenProperties
<1> QED
  BY <1>3, <1>5, <1>6, <1>8

\* A call and an iteration of the engine, by either name.
LEMMA SameCall ==
    ASSUME NEW batch
    PROVE  Engine!Call(batch) <=> EngineProofs!Call(batch)
BY DEF Engine!Call, Engine!MayCall, EngineProofs!Call, EngineProofs!MayCall

\* A step of the engine is the same with the constants of its proofs.
LEMMA SameStep == Engine!Step <=> EngineProofs!Step
<1>1. /\ Engine!AtInternal <=> EngineProofs!AtInternal
      /\ Engine!AtConfirm <=> EngineProofs!AtConfirm
      /\ Engine!unmatched = EngineProofs!unmatched
      /\ \A id : Engine!confirm_map(id) = EngineProofs!confirm_map(id)
      /\ \A S : Engine!First(S) = EngineProofs!First(S)
      /\ \A m, i, b : Engine!Result(m, i, b) = EngineProofs!Result(m, i, b)
  BY DEF Engine!AtInternal, EngineProofs!AtInternal, Engine!AtConfirm,
         EngineProofs!AtConfirm, Engine!unmatched, EngineProofs!unmatched,
         Engine!confirm_map, EngineProofs!confirm_map, Engine!First, EngineProofs!First,
         Engine!Result, EngineProofs!Result
<1>2. \A t, c : Engine!QtyAgrees(t, c) = EngineProofs!QtyAgrees(t, c)
  BY DEF Engine!QtyAgrees, EngineProofs!QtyAgrees, Engine!Within, EngineProofs!Within
<1>3. \A t, c : Engine!Agrees(t, c) = EngineProofs!Agrees(t, c)
  BY <1>2 DEF Engine!Agrees, EngineProofs!Agrees, Engine!SameInstrument,
              EngineProofs!SameInstrument, Engine!PriceAgrees, EngineProofs!PriceAgrees,
              Engine!Within, EngineProofs!Within
<1>4. \A t, c : Engine!match_single(t, c) = EngineProofs!match_single(t, c)
  BY <1>1, <1>2, <1>3 DEF Engine!match_single, EngineProofs!match_single
<1>5. /\ \A t : Engine!IdResult(t) = EngineProofs!IdResult(t)
      /\ \A t, S : Engine!fuzzy_match(t, S) = EngineProofs!fuzzy_match(t, S)
      /\ \A c : Engine!MissingInternal(c) = EngineProofs!MissingInternal(c)
  <2>1. ASSUME NEW t
        PROVE  Engine!IdResult(t) = EngineProofs!IdResult(t)
    <3>1. PICK hits : /\ hits = Engine!confirm_map(t.trade_id)
                      /\ hits = EngineProofs!confirm_map(t.trade_id)
      BY <1>1
    <3>2. PICK best : /\ best = Engine!match_single(t, confirms[Engine!First(hits)])
                      /\ best = EngineProofs!match_single(t, confirms[EngineProofs!First(hits)])
      BY <1>1, <1>4
    <3>3. Engine!Cardinality(hits) = EngineProofs!Cardinality(hits)
      BY DEF Engine!Cardinality, EngineProofs!Cardinality
    <3> QED
      BY <3>1, <3>2, <3>3 DEF Engine!IdResult, EngineProofs!IdResult
  <2>2. ASSUME NEW t, NEW S
        PROVE  Engine!fuzzy_match(t, S) = EngineProofs!fuzzy_match(t, S)
    <3>1. {i \in S : Engine!Agrees(t, confirms[i])}
              = {i \in S : EngineProofs!Agrees(t, confirms[i])}
      BY <1>3
    <3>2. Engine!MissingBroker(t) = EngineProofs!MissingBroker(t)
      BY <1>1 DEF Engine!MissingBroker, EngineProofs!MissingBroker
    <3> QED
      BY <1>1, <1>4, <3>1, <3>2 DEF Engine!fuzzy_match, EngineProofs!fuzzy_match
  <2>3. \A c : Engine!MissingInternal(c) = EngineProofs!MissingInternal(c)
    BY <1>1 DEF Engine!MissingInternal, EngineProofs!MissingInternal
  <2> QED
    BY <2>1, <2>2, <2>3
<1>6. Engine!MatchById <=> EngineProofs!MatchById
  BY <1>1, <1>5 DEF Engine!MatchById, EngineProofs!MatchById, Engine!call, EngineProofs!call
<1>7. Engine!MatchFuzzily <=> EngineProofs!MatchFuzzily
  BY <1>1, <1>5 DEF Engine!MatchFuzzily, EngineProofs!MatchFuzzily, Engine!call,
                    EngineProofs!call
<1>8. /\ Engine!TurnToConfirms <=> EngineProofs!TurnToConfirms
      /\ Engine!SkipMatchedConfirm <=> EngineProofs!SkipMatchedConfirm
      /\ Engine!Return <=> EngineProofs!Return
  BY <1>1 DEF Engine!TurnToConfirms, EngineProofs!TurnToConfirms,
              Engine!SkipMatchedConfirm, EngineProofs!SkipMatchedConfirm,
              Engine!Return, EngineProofs!Return, Engine!call, EngineProofs!call
<1>9. Engine!ReportMissingInternal <=> EngineProofs!ReportMissingInternal
  BY <1>1, <1>5 DEF Engine!ReportMissingInternal, EngineProofs!ReportMissingInternal,
                    Engine!call, EngineProofs!call
<1> QED
  BY <1>6, <1>7, <1>8, <1>9 DEF Engine!Step, EngineProofs!Step

\* The process calls the engine once, and its own loop counts upwards.
Counting == calls \in {0, 1} /\ at \in Nat \ {0}

\* It counts.
LEMMA CountingInductive == Spec => []Counting
<1>1. Init => Counting
  BY DEF Init, Engine!Init, Counting
<1>2. Counting /\ [Next]_vars => Counting'
  <2> SUFFICES ASSUME calls \in {0, 1}, at \in Nat \ {0}, [Next]_vars
               PROVE  calls' \in {0, 1} /\ at' \in Nat \ {0}
    BY DEF Counting
  <2>1. CASE BeginMatch
    BY <2>1 DEF BeginMatch, Engine!Call, Engine!MayCall
  <2>2. CASE Match
    BY <2>2 DEF Match, Engine!Step, Engine!MatchById, Engine!MatchFuzzily,
       Engine!TurnToConfirms, Engine!SkipMatchedConfirm, Engine!ReportMissingInternal,
       Engine!Return, Engine!call
  <2>3. CASE Fill \/ RaiseException \/ SkipMatch \/ EndMatch \/ UNCHANGED vars
    BY <2>3 DEF Fill, RaiseException, SkipMatch, EndMatch, vars, engine
  <2> QED
    BY <2>1, <2>2, <2>3 DEF Next, cmd_match
<1> QED
  BY <1>1, <1>2, PTL DEF Spec

\* The program makes one call on the engine, with sequences of records, and lets it
\* run: what MatchingEngine specifies is what happens.
THEOREM EngineImplemented == Spec => EngineProofs!Spec
<1>1. Init => EngineProofs!Init
  BY DEF Init, Engine!Init, EngineProofs!Init
<1>2. StoreInv /\ Counting /\ [Next]_vars => [EngineProofs!Next]_(EngineProofs!vars)
  <2> SUFFICES ASSUME StoreInv, Counting, [Next]_vars
               PROVE  EngineProofs!Next \/ UNCHANGED EngineProofs!vars
    OBVIOUS
  <2>1. CASE BeginMatch
    <3> DEFINE batch == <<Compared(query_internal), Compared(query_confirmations)>>
    <3>1. Engine!Call(batch)
      BY <2>1 DEF BeginMatch
    <3>2. batch \in Seq(ComparedRecords) \X Seq(ComparedRecords)
      BY ComparedFacts DEF StoreInv, StoreTypeOK, query_internal, query_confirmations
    <3> HIDE DEF batch
    <3>3. EngineProofs!Call(batch) /\ EngineProofs!MayCall
      BY <3>1, SameCall DEF EngineProofs!Call
    <3>4. calls + 1 = 1
      BY <3>3 DEF EngineProofs!MayCall, Counting
    <3> QED
      BY <3>2, <3>3, <3>4 DEF EngineProofs!Next
  <2>2. CASE Match
    BY <2>2, SameStep DEF Match, EngineProofs!Next
  <2>3. CASE Fill \/ RaiseException \/ SkipMatch \/ EndMatch \/ UNCHANGED vars
    BY <2>3 DEF Fill, RaiseException, SkipMatch, EndMatch, vars, engine, EngineProofs!vars
  <2> QED
    BY <2>1, <2>2, <2>3 DEF Next, cmd_match
<1> QED
  BY <1>1, <1>2, StoreInductive, CountingInductive, PTL DEF Spec, EngineProofs!Spec

\* The invariant of the engine holds in the program.
LEMMA EngineInductive == Spec => []EngineProofs!IInv
BY EngineImplemented, EngineProofs!Inductive, EngineAssumptions, PTL

-----------------------------------------------------------------------------
(* The workflow. *)

\* What the engine returns are results.
LEMMA ResultsTyped ==
    ASSUME EngineProofs!IInv
    PROVE  /\ Len(results) \in Nat /\ DOMAIN results = 1..Len(results)
           /\ \A k \in DOMAIN results : results[k].state \in MatchState
<1> DEFINE R == [state : EngineProofs!MatchState,
                 internal_trade_id : {r.trade_id : r \in Records} \cup {NoId},
                 broker_trade_id : {r.trade_id : r \in Records} \cup {NoId}]
<1>1. results \in Seq(R)
  BY DEF EngineProofs!IInv, EngineProofs!TypeOK
<1>2. EngineProofs!MatchState = MatchState
  BY DEF EngineProofs!MatchState, MatchState
<1>3. \A r \in R : r.state \in MatchState
  BY <1>2
<1> HIDE DEF R
<1>4. Len(results) \in Nat /\ DOMAIN results = 1..Len(results)
  BY <1>1, LenProperties
<1> QED
  BY <1>1, <1>3, <1>4, ElementOfSeq

\* What ExceptionWorkflow assumes of its constants is true of those it gets here.
LEMMA WorkflowAssumptions ==
    /\ WorkflowProofs!MatchResultsAssumption /\ WorkflowProofs!ClockAssumption
    /\ WorkflowProofs!MaxExceptionsAssumption
<1>1. WorkflowProofs!MatchState = MatchState
  BY DEF WorkflowProofs!MatchState, MatchState
<1> QED
  BY <1>1, RoomAssumption DEF WorkflowProofs!MatchResultsAssumption,
     WorkflowProofs!ClockAssumption, WorkflowProofs!MaxExceptionsAssumption

\* What create_exception does for a result, by either name.
LEMMA Creation ==
    ASSUME NEW m \in MatchState, Workflow!create_exception(m)
    PROVE  /\ WorkflowProofs!create_exception(m)
           /\ exceptions' = Append(exceptions,
                  [id |-> next_id, match_state |-> m,
                   severity |-> severity_from_match[m], state |-> "Detected",
                   assignee |-> NoId, resolution |-> NoId,
                   created_at_ns |-> now, updated_at_ns |-> now])
<1>1. Workflow!severity_from_match[m] = severity_from_match[m]
  BY DEF Workflow!severity_from_match, severity_from_match, Workflow!MatchState, MatchState
<1>2. WorkflowProofs!severity_from_match[m] = severity_from_match[m]
  BY DEF WorkflowProofs!severity_from_match, severity_from_match,
         WorkflowProofs!MatchState, MatchState
<1> QED
  BY <1>1, <1>2 DEF Workflow!create_exception, WorkflowProofs!create_exception,
     Workflow!clock, WorkflowProofs!clock

\* The program uses the workflow as ExceptionWorkflow specifies it.
THEOREM WorkflowImplemented == Spec => WorkflowProofs!Spec
<1>1. Init => WorkflowProofs!Init
  BY DEF Init, Workflow!Init, WorkflowProofs!Init
<1>2. EngineProofs!IInv /\ Counting /\ [Next]_vars
          => [WorkflowProofs!Next]_(WorkflowProofs!vars)
  <2> SUFFICES ASSUME EngineProofs!IInv, Counting, [Next]_vars
               PROVE  WorkflowProofs!Next \/ UNCHANGED WorkflowProofs!vars
    OBVIOUS
  <2>1. CASE RaiseException
    <3>1. /\ Workflow!create_exception(results[at].state)
          /\ at <= Len(results) /\ results[at].state # "Matched"
      BY <2>1 DEF RaiseException, AtResult
    <3>2. at \in DOMAIN results
      BY <3>1, ResultsTyped DEF Counting
    <3>3. PICK m \in MatchState \ {"Matched"} : m = results[at].state
      BY <3>1, <3>2, ResultsTyped
    <3>4. WorkflowProofs!create_exception(m)
      BY <3>1, <3>3, Creation
    <3> QED
      BY <3>3, <3>4 DEF WorkflowProofs!Next
  <2>2. CASE Fill \/ BeginMatch \/ Match \/ SkipMatch \/ EndMatch \/ UNCHANGED vars
    BY <2>2 DEF Fill, BeginMatch, Match, SkipMatch, EndMatch, vars, workflow,
       WorkflowProofs!vars, WorkflowProofs!clock
  <2> QED
    BY <2>1, <2>2 DEF Next, cmd_match
<1> QED
  BY <1>1, <1>2, EngineInductive, CountingInductive, PTL DEF Spec, WorkflowProofs!Spec

\* The invariant of the workflow holds in the program.
LEMMA WorkflowInductive == Spec => []WorkflowProofs!IInv
BY WorkflowImplemented, WorkflowProofs!Inductive, WorkflowAssumptions, PTL

-----------------------------------------------------------------------------
(* The loop of cmd_match. *)

\* The invariants of all three components hold.
LEMMA ComponentsInductive == Spec => []Components
<1>1. StoreInv /\ EngineProofs!IInv /\ WorkflowProofs!IInv => Components
  BY DEF Components
<1> QED
  BY <1>1, StoreInductive, EngineInductive, WorkflowInductive, PTL

\* Results before a place, counted one by one.
LEMMA BeforeCounted ==
    ASSUME EngineProofs!IInv, NEW states
    PROVE  /\ \A n \in Nat : /\ IsFiniteSet(Before(n, states))
                             /\ Cardinality(Before(n, states)) \in Nat
           /\ Before(1, states) = {} /\ Cardinality(Before(1, states)) = 0
           /\ \A n \in DOMAIN results :
                  /\ results[n].state \notin states => Before(n + 1, states) = Before(n, states)
                  /\ results[n].state \in states =>
                         /\ Before(n + 1, states) = Before(n, states) \cup {n}
                         /\ Cardinality(Before(n + 1, states))
                                = Cardinality(Before(n, states)) + 1
<1>1. Len(results) \in Nat /\ DOMAIN results = 1..Len(results)
  BY ResultsTyped
<1>2. ASSUME NEW n \in Nat
      PROVE  IsFiniteSet(Before(n, states)) /\ Cardinality(Before(n, states)) \in Nat
  <2>1. Before(n, states) \in SUBSET (1..Len(results))
    BY <1>1 DEF Before
  <2>2. IsFiniteSet(1..Len(results))
    BY <1>1, FS_Interval
  <2>3. IsFiniteSet(Before(n, states))
    BY <2>1, <2>2, FS_Subset
  <2> QED
    BY <2>3, FS_CardinalityType
<1>3. Before(1, states) = {}
  BY <1>1 DEF Before
<1>4. Cardinality(Before(1, states)) = 0
  BY <1>3, FS_EmptySet
<1>5. ASSUME NEW n \in DOMAIN results
      PROVE  /\ results[n].state \notin states => Before(n + 1, states) = Before(n, states)
             /\ results[n].state \in states =>
                    /\ Before(n + 1, states) = Before(n, states) \cup {n}
                    /\ Cardinality(Before(n + 1, states)) = Cardinality(Before(n, states)) + 1
  <2>1. n \in Nat /\ \A k \in DOMAIN results : k < n + 1 <=> k < n \/ k = n
    BY <1>1
  <2>2. results[n].state \notin states => Before(n + 1, states) = Before(n, states)
    BY <2>1 DEF Before
  <2>3. results[n].state \in states => Before(n + 1, states) = Before(n, states) \cup {n}
    BY <2>1 DEF Before
  <2>4. n \notin Before(n, states)
    BY <2>1 DEF Before
  <2>5. IsFiniteSet(Before(n, states))
    BY <1>2, <2>1
  <2> QED
    BY <2>2, <2>3, <2>4, <2>5, FS_AddElement
<1> QED
  BY <1>2, <1>3, <1>4, <1>5

\* The place of a mismatch among the mismatches is one of those counted.
LEMMA PlaceCounted ==
    ASSUME EngineProofs!IInv
    PROVE  /\ Mismatches = Before(Len(results) + 1, Mismatch)
           /\ \A k \in DOMAIN results : results[k].state # "Matched" =>
                  PlaceOf(k) = Cardinality(Before(k, Mismatch)) + 1
           /\ \A n \in Nat : \A k \in Before(n, Mismatch) :
                  PlaceOf(k) \in 1..Cardinality(Before(n, Mismatch))
<1>1. /\ Len(results) \in Nat /\ DOMAIN results = 1..Len(results)
      /\ \A k \in DOMAIN results : results[k].state \in MatchState
  BY ResultsTyped
<1>2. Mismatches = Before(Len(results) + 1, Mismatch)
  <2>1. \A k \in DOMAIN results : k < Len(results) + 1
    BY <1>1
  <2> QED
    BY <1>1, <2>1 DEF Mismatches, Before, Mismatch
<1>3. ASSUME NEW k \in DOMAIN results
      PROVE  PlaceOf(k) = Cardinality(Before(k + 1, Mismatch))
  <2>1. \A j \in DOMAIN results : j <= k <=> j < k + 1
    BY <1>1
  <2>2. {j \in Mismatches : j <= k} = Before(k + 1, Mismatch)
    BY <1>1, <2>1 DEF Mismatches, Before, Mismatch
  <2> QED
    BY <2>2 DEF PlaceOf
<1>4. ASSUME NEW k \in DOMAIN results, results[k].state # "Matched"
      PROVE  PlaceOf(k) = Cardinality(Before(k, Mismatch)) + 1
  <2>1. results[k].state \in Mismatch
    BY <1>1, <1>4 DEF Mismatch
  <2> QED
    BY <1>3, <2>1, BeforeCounted
<1>5. ASSUME NEW n \in Nat, NEW k \in Before(n, Mismatch)
      PROVE  PlaceOf(k) \in 1..Cardinality(Before(n, Mismatch))
  <2>1. k \in DOMAIN results /\ k < n /\ k \in Nat /\ results[k].state # "Matched"
    BY <1>1 DEF Before, Mismatch
  <2>2. Before(k + 1, Mismatch) \in SUBSET Before(n, Mismatch)
    <3>1. \A j \in DOMAIN results : j < k + 1 => j < n
      BY <1>1, <2>1
    <3> QED
      BY <3>1 DEF Before
  <2>3. /\ IsFiniteSet(Before(n, Mismatch)) /\ Cardinality(Before(n, Mismatch)) \in Nat
        /\ Cardinality(Before(k, Mismatch)) \in Nat
    BY <2>1, BeforeCounted
  <2>4. Cardinality(Before(k + 1, Mismatch)) <= Cardinality(Before(n, Mismatch))
    BY <2>2, <2>3, FS_Subset
  <2>5. PlaceOf(k) = Cardinality(Before(k, Mismatch)) + 1
    BY <1>4, <2>1
  <2>6. PlaceOf(k) = Cardinality(Before(k + 1, Mismatch))
    BY <1>3, <2>1
  <2> QED
    BY <2>3, <2>4, <2>5, <2>6
<1> QED
  BY <1>2, <1>4, <1>5

\* In the beginning nothing has been read or raised.
LEMMA LoopInit == Init => Progress /\ Raised
<1> SUFFICES ASSUME Init PROVE Progress /\ Raised
  OBVIOUS
<1>1. /\ phase = "filling" /\ at = 1 /\ results = <<>> /\ exceptions = <<>>
      /\ DOMAIN results = {} /\ DOMAIN exceptions = {} /\ Len(results) = 0
      /\ Len(exceptions) = 0
  BY DEF Init, Engine!Init, Workflow!Init
<1>2. \A states : Before(at, states) = {}
  BY <1>1 DEF Before
<1>3. Cardinality({}) = 0
  BY FS_EmptySet
<1>4. Raised
  BY <1>1, <1>2, <1>3 DEF Raised
<1> QED
  BY <1>1, <1>4 DEF Progress

\* Before the loop begins there is nothing to say about it.
LEMMA NothingRaised ==
    at = 1 /\ exceptions = <<>> /\ EngineProofs!IInv => Raised
<1> SUFFICES ASSUME at = 1, exceptions = <<>>, EngineProofs!IInv
             PROVE  Raised
  OBVIOUS
<1>1. DOMAIN exceptions = {} /\ Len(exceptions) = 0
  OBVIOUS
<1>2. \A states : Before(at, states) = {} /\ Cardinality(Before(at, states)) = 0
  BY BeforeCounted
<1>3. Cardinality({}) = 0
  BY FS_EmptySet
<1> QED
  BY <1>1, <1>2, <1>3 DEF Raised

\* The results have a length.
LEMMA ResultLength == EngineProofs!IInv => Len(results) \in Nat
BY ResultsTyped

\* The same of the next state.
LEMMA NothingRaisedYet == (at = 1 /\ exceptions = <<>> /\ EngineProofs!IInv => Raised)'
BY NothingRaised, PTL

\* Filling the store is before all of this.
LEMMA FillKeeps == ASSUME Progress, Raised, Fill PROVE Progress' /\ Raised'
<1>1. /\ phase = "filling" /\ phase' = phase /\ at' = at /\ exceptions' = exceptions
      /\ results' = results
  BY DEF Fill, engine, workflow
<1>2. Progress'
  BY <1>1 DEF Progress
<1>3. /\ \A n, states : Before(n, states)' = Before(n, states)
      /\ \A k : PlaceOf(k)' = PlaceOf(k)
  BY <1>1 DEF Before, PlaceOf, Mismatches
<1> QED
  BY <1>1, <1>2, <1>3 DEF Raised

\* Reading the store makes the batch what the store holds.
LEMMA BeginMatchKeeps ==
    ASSUME Progress, BeginMatch, EngineProofs!IInv' PROVE Progress' /\ Raised'
<1>1. /\ phase = "filling" /\ phase' = "matching" /\ at' = at
      /\ exceptions' = exceptions
      /\ internal_trades' = internal_trades /\ confirmations' = confirmations
      /\ internals' = Compared(internal_trades) /\ confirms' = Compared(confirmations)
      /\ results' = <<>>
  BY DEF BeginMatch, Engine!Call, store, workflow, query_internal, query_confirmations
<1>2. at = 1 /\ exceptions = <<>>
  BY <1>1 DEF Progress
<1>3. Progress'
  BY <1>1, <1>2 DEF Progress, Compared
<1> QED
  BY <1>1, <1>2, <1>3, NothingRaisedYet

\* A step of the engine leaves the batch alone and raises nothing.
LEMMA MatchKeeps ==
    ASSUME Progress, Match, EngineProofs!IInv' PROVE Progress' /\ Raised'
<1>1. /\ phase = "matching" /\ at' = at /\ exceptions' = exceptions
      /\ phase' = IF pc' = "returned" THEN "raising" ELSE "matching"
      /\ internal_trades' = internal_trades /\ confirmations' = confirmations
      /\ internals' = internals /\ confirms' = confirms
  BY DEF Match, store, workflow, Engine!Step, Engine!MatchById, Engine!MatchFuzzily,
         Engine!TurnToConfirms, Engine!SkipMatchedConfirm,
         Engine!ReportMissingInternal, Engine!Return, Engine!call
<1>2. at = 1 /\ exceptions = <<>>
  BY <1>1 DEF Progress
<1>3. Len(results') \in Nat
  <2>1. (EngineProofs!IInv => Len(results) \in Nat)'
    BY ResultLength, PTL
  <2> QED
    BY <2>1
<1>4. Progress'
  BY <1>1, <1>2, <1>3 DEF Progress, Compared
<1> QED
  BY <1>1, <1>2, <1>4, NothingRaisedYet

\* The loop passes over a match.
LEMMA SkipKeeps ==
    ASSUME Progress, Raised, SkipMatch, EngineProofs!IInv PROVE Progress' /\ Raised'
<1>1. /\ phase = "raising" /\ phase' = phase /\ at <= Len(results) /\ at' = at + 1
      /\ results[at].state = "Matched" /\ results' = results /\ pc' = pc
      /\ exceptions' = exceptions
      /\ internal_trades' = internal_trades /\ confirmations' = confirmations
      /\ internals' = internals /\ confirms' = confirms
  BY DEF SkipMatch, AtResult, store, engine, workflow
<1>2. Len(results) \in Nat /\ at \in DOMAIN results /\ at \in Nat
  BY <1>1, ResultsTyped DEF Progress
<1>3. Progress'
  BY <1>1, <1>2 DEF Progress, Compared
<1>4. \A k : PlaceOf(k)' = PlaceOf(k)
  BY <1>1 DEF PlaceOf, Mismatches
<1>5. ASSUME NEW states, "Matched" \notin states
      PROVE  Before(at, states)' = Before(at, states)
  <2>1. Before(at, states)' = Before(at + 1, states)
    BY <1>1 DEF Before
  <2> QED
    BY <1>1, <1>2, <1>5, <2>1, BeforeCounted
<1>6. /\ Before(at, Mismatch)' = Before(at, Mismatch)
      /\ \A x : Before(at, OfSeverity(x))' = Before(at, OfSeverity(x))
  BY <1>5 DEF Mismatch, OfSeverity
<1> QED
  BY <1>1, <1>3, <1>4, <1>6 DEF Raised

\* The loop raises an exception, numbered with its place, for a result that is no match.
LEMMA RaiseKeeps ==
    ASSUME Progress, Raised, RaiseException, EngineProofs!IInv, WorkflowProofs!IInv
    PROVE  Progress' /\ Raised'
<1> DEFINE m  == results[at].state
           ex == [id |-> next_id, match_state |-> m,
                  severity |-> severity_from_match[m], state |-> "Detected",
                  assignee |-> NoId, resolution |-> NoId,
                  created_at_ns |-> now, updated_at_ns |-> now]
<1>1. /\ phase = "raising" /\ phase' = phase /\ at <= Len(results) /\ at' = at + 1
      /\ m # "Matched" /\ results' = results /\ pc' = pc
      /\ internal_trades' = internal_trades /\ confirmations' = confirmations
      /\ internals' = internals /\ confirms' = confirms
      /\ Workflow!create_exception(m)
  BY DEF RaiseException, AtResult, store, engine
<1>2. Len(results) \in Nat /\ at \in DOMAIN results /\ at \in Nat /\ m \in Mismatch
  <2>1. Len(results) \in Nat /\ at \in DOMAIN results /\ at \in Nat
    BY <1>1, ResultsTyped DEF Progress
  <2> QED
    BY <1>1, <2>1, ResultsTyped DEF Mismatch
<1>3. Progress'
  BY <1>1, <1>2 DEF Progress, Compared
<1>4. exceptions' = Append(exceptions, ex)
  BY <1>1, <1>2, Creation DEF Mismatch
<1>5. PICK S : exceptions \in Seq(S)
  BY DEF WorkflowProofs!IInv, WorkflowProofs!TypeOK
<1> DEFINE n == Len(exceptions)
<1> HIDE DEF m, ex
<1>6. /\ n \in Nat /\ DOMAIN exceptions = 1..n
      /\ Len(exceptions') = n + 1 /\ DOMAIN exceptions' = 1..(n + 1)
      /\ exceptions'[n + 1] = ex
      /\ \A i \in 1..n : exceptions'[i] = exceptions[i]
  <2>1. exceptions \in Seq(S \cup {ex}) /\ ex \in S \cup {ex}
    BY <1>5, SeqDef
  <2> QED
    BY <1>4, <2>1, AppendProperties, LenProperties
<1>7. /\ ex.match_state = m /\ ex.severity = severity_from_match[m]
      /\ ex.state = "Detected"
  BY DEF ex
<1>8. \A k : PlaceOf(k)' = PlaceOf(k)
  BY <1>1 DEF PlaceOf, Mismatches
<1>9. ASSUME NEW states
      PROVE  /\ Before(at, states)' = Before(at + 1, states)
             /\ m \in states => /\ Before(at, states)' = Before(at, states) \cup {at}
                                /\ Cardinality(Before(at, states)')
                                       = Cardinality(Before(at, states)) + 1
             /\ m \notin states => Before(at, states)' = Before(at, states)
  <2>1. Before(at, states)' = Before(at + 1, states)
    BY <1>1 DEF Before
  <2> QED
    BY <1>2, <2>1, BeforeCounted DEF m
<1>10. (Len(exceptions) = Cardinality(Before(at, Mismatch)))'
  BY <1>2, <1>6, <1>9 DEF Raised
<1>11. ASSUME NEW k \in Before(at, Mismatch)'
       PROVE  /\ exceptions'[PlaceOf(k)].match_state = results[k].state
              /\ exceptions'[PlaceOf(k)].severity = severity_from_match[results[k].state]
  <2>1. CASE k = at
    <3>1. PlaceOf(k) = n + 1
      BY <1>1, <1>2, <2>1, PlaceCounted DEF Raised, m
    <3> QED
      BY <1>6, <1>7, <2>1, <3>1 DEF m
  <2>2. CASE k # at
    <3>1. k \in Before(at, Mismatch)
      BY <1>2, <1>9, <1>11, <2>2
    <3>2. PlaceOf(k) \in 1..n
      BY <1>2, <3>1, PlaceCounted DEF Raised
    <3> QED
      BY <1>6, <3>1, <3>2 DEF Raised
  <2> QED
    BY <2>1, <2>2
<1>12. \A i \in DOMAIN exceptions' : exceptions'[i].state = "Detected"
  <2>1. \A i \in 1..(n + 1) : i \in 1..n \/ i = n + 1
    BY <1>6
  <2> QED
    BY <1>6, <1>7, <2>1 DEF Raised
<1>13. ASSUME NEW x \in ExceptionSeverity
       PROVE  Cardinality({i \in DOMAIN exceptions' : exceptions'[i].severity = x})
                  = Cardinality(Before(at, OfSeverity(x))')
  <2> DEFINE A == {i \in DOMAIN exceptions : exceptions[i].severity = x}
             B == {i \in DOMAIN exceptions' : exceptions'[i].severity = x}
  <2>1. \A i : i \in 1..(n + 1) <=> i \in 1..n \/ i = n + 1
    BY <1>6
  <2>2. B = IF ex.severity = x THEN A \cup {n + 1} ELSE A
    BY <1>6, <2>1
  <2>3. IsFiniteSet(A) /\ n + 1 \notin A
    <3>1. A \in SUBSET (1..n) /\ IsFiniteSet(1..n) /\ n + 1 \notin 1..n
      BY <1>6, FS_Interval
    <3> QED
      BY <3>1, FS_Subset
  <2>4. Cardinality(A) = Cardinality(Before(at, OfSeverity(x)))
    BY DEF Raised
  <2>5. m \in OfSeverity(x) <=> ex.severity = x
    BY <1>2, <1>7 DEF OfSeverity
  <2> HIDE DEF A
  <2>6. CASE ex.severity = x
    <3>1. Cardinality(A \cup {n + 1}) = Cardinality(A) + 1
      BY <2>3, FS_AddElement
    <3> QED
      BY <1>9, <2>2, <2>4, <2>5, <2>6, <3>1
  <2>7. CASE ex.severity # x
    BY <1>9, <2>2, <2>4, <2>5, <2>7
  <2> QED
    BY <2>6, <2>7
<1> QED
  BY <1>1, <1>3, <1>8, <1>10, <1>11, <1>12, <1>13 DEF Raised

\* When the loop is over all results have been looked at.
LEMMA EndKeeps ==
    ASSUME Progress, Raised, EndMatch, EngineProofs!IInv PROVE Progress' /\ Raised'
<1>1. /\ phase = "raising" /\ phase' = "done" /\ at > Len(results) /\ at' = at
      /\ results' = results /\ pc' = pc /\ exceptions' = exceptions
      /\ internal_trades' = internal_trades /\ confirmations' = confirmations
      /\ internals' = internals /\ confirms' = confirms
  BY DEF EndMatch, store, engine, workflow
<1>2. Len(results) \in Nat
  BY ResultsTyped
<1>3. Progress'
  BY <1>1, <1>2 DEF Progress, Compared
<1>4. /\ \A n, states : Before(n, states)' = Before(n, states)
      /\ \A k : PlaceOf(k)' = PlaceOf(k)
  BY <1>1 DEF Before, PlaceOf, Mismatches
<1> QED
  BY <1>1, <1>3, <1>4 DEF Raised

\* A step that changes nothing changes none of it.
LEMMA LoopStutters ==
    ASSUME Progress, Raised, UNCHANGED vars PROVE Progress' /\ Raised'
<1>1. /\ phase' = phase /\ at' = at /\ results' = results /\ pc' = pc
      /\ exceptions' = exceptions
      /\ internal_trades' = internal_trades /\ confirmations' = confirmations
      /\ internals' = internals /\ confirms' = confirms
  BY DEF vars, store, engine, workflow
<1>2. Progress'
  BY <1>1 DEF Progress, Compared
<1>3. /\ \A n, states : Before(n, states)' = Before(n, states)
      /\ \A k : PlaceOf(k)' = PlaceOf(k)
  BY <1>1 DEF Before, PlaceOf, Mismatches
<1> QED
  BY <1>1, <1>2, <1>3 DEF Raised

\* Together with the components, this always holds.
LEMMA LoopInductive == Spec => [](Components /\ Progress /\ Raised)
<1>1. Components /\ Components' /\ Progress /\ Raised /\ [Next]_vars
          => Progress' /\ Raised'
  BY FillKeeps, BeginMatchKeeps, MatchKeeps, SkipKeeps, RaiseKeeps, EndKeeps,
     LoopStutters DEF Next, cmd_match, Components
<1> QED
  BY LoopInit, <1>1, ComponentsInductive, PTL DEF Spec

-----------------------------------------------------------------------------
(* The theorems about the program. *)

\* Every variable of the store, the engine, the workflow and the program keeps its
\* type; the loop of cmd_match stays within the results.
THEOREM TypeCorrect == Spec => []TypeOK
<1>1. Components /\ Progress => TypeOK
  <2> SUFFICES ASSUME Components, Progress PROVE TypeOK
    OBVIOUS
  <2>1. StoreTypeOK
    BY DEF Components, StoreInv
  <2>2. Engine!TypeOK
    <3>1. Engine!MatchState = EngineProofs!MatchState /\ Engine!Trade = EngineProofs!Trade
      BY DEF Engine!MatchState, EngineProofs!MatchState, Engine!Trade, EngineProofs!Trade,
             Engine!Side, EngineProofs!Side
    <3> QED
      BY <3>1 DEF Components, EngineProofs!IInv, Engine!TypeOK, EngineProofs!TypeOK
  <2>3. Workflow!TypeOK
    <3>1. Workflow!Exception = WorkflowProofs!Exception
      BY DEF Workflow!Exception, WorkflowProofs!Exception, Workflow!ExceptionSeverity,
             WorkflowProofs!ExceptionSeverity, Workflow!ExceptionState,
             WorkflowProofs!ExceptionState
    <3> QED
      BY <3>1 DEF Components, WorkflowProofs!IInv, Workflow!TypeOK, WorkflowProofs!TypeOK
  <2> QED
    BY <2>1, <2>2, <2>3 DEF TypeOK, Progress
<1> QED
  BY <1>1, LoopInductive, PTL

\* What the engine answers, in terms of the store.
LEMMA Answers ==
    ASSUME Components, Progress, phase \in {"raising", "done"}
    PROVE  /\ DOMAIN internal_trades = 1..get_internal_count /\ get_internal_count \in Nat
           /\ get_confirmation_count \in Nat
           /\ Len(results) \in Nat /\ DOMAIN results = 1..Len(results)
           /\ get_internal_count <= Len(results)
           /\ Len(results) <= get_internal_count + get_confirmation_count
           /\ \A k \in DOMAIN internal_trades :
                  /\ results[k].internal_trade_id = internal_trades[k].trade_id
                  /\ results[k].state # "MissingInternal"
           /\ \A i \in DOMAIN confirmations :
                  \/ \E k \in DOMAIN internal_trades :
                         internal_trades[k].trade_id = confirmations[i].trade_id
                  \/ \E k \in DOMAIN results :
                         /\ results[k].state = "MissingInternal"
                         /\ results[k].broker_trade_id = confirmations[i].trade_id
           /\ \A k \in DOMAIN results :
                  k > get_internal_count => results[k].state = "MissingInternal"
<1>1. /\ pc = "returned"
      /\ internals = Compared(internal_trades) /\ confirms = Compared(confirmations)
  BY DEF Progress
<1>2. /\ internal_trades \in Seq(TradeRecords) /\ confirmations \in Seq(BrokerConfirmations)
  BY DEF Components, StoreInv, StoreTypeOK
<1>3. /\ Len(internals) = get_internal_count /\ DOMAIN internals = DOMAIN internal_trades
      /\ Len(confirms) = get_confirmation_count /\ DOMAIN confirms = DOMAIN confirmations
      /\ \A k \in DOMAIN internals : internals[k].trade_id = internal_trades[k].trade_id
      /\ \A i \in DOMAIN confirms : confirms[i].trade_id = confirmations[i].trade_id
  BY <1>1, <1>2, ComparedFacts DEF get_internal_count, get_confirmation_count
<1>4. /\ DOMAIN internal_trades = 1..get_internal_count /\ get_internal_count \in Nat
      /\ get_confirmation_count \in Nat
  BY <1>2, LenProperties DEF get_internal_count, get_confirmation_count
<1>5. EngineProofs!IInv
  BY DEF Components
<1>6. /\ Len(internals) <= Len(results)
      /\ Len(results) <= Len(internals) + Len(confirms)
      /\ \A k \in DOMAIN internals : /\ results[k].internal_trade_id = internals[k].trade_id
                                     /\ results[k].state # "MissingInternal"
      /\ \A i \in DOMAIN confirms :
             \/ \E k \in DOMAIN internals : internals[k].trade_id = confirms[i].trade_id
             \/ \E k \in DOMAIN results :
                    results[k] = EngineProofs!MissingInternal(confirms[i])
      /\ \A k \in DOMAIN results :
             k > Len(internals) => results[k].state = "MissingInternal"
  BY <1>1, <1>5, EngineProofs!ReportAnswers, EngineAssumptions
<1>7. \A c : /\ EngineProofs!MissingInternal(c).state = "MissingInternal"
             /\ EngineProofs!MissingInternal(c).broker_trade_id = c.trade_id
  BY DEF EngineProofs!MissingInternal, EngineProofs!Result
<1>8. Len(results) \in Nat /\ DOMAIN results = 1..Len(results)
  BY <1>5, ResultsTyped
<1>9. ASSUME NEW i \in DOMAIN confirmations
      PROVE  \/ \E k \in DOMAIN internal_trades :
                    internal_trades[k].trade_id = confirmations[i].trade_id
             \/ \E k \in DOMAIN results :
                    /\ results[k].state = "MissingInternal"
                    /\ results[k].broker_trade_id = confirmations[i].trade_id
  <2>1. i \in DOMAIN confirms /\ confirms[i].trade_id = confirmations[i].trade_id
    BY <1>3
  <2>2. CASE \E k \in DOMAIN internals : internals[k].trade_id = confirms[i].trade_id
    BY <1>3, <2>1, <2>2
  <2>3. CASE \E k \in DOMAIN results :
                 results[k] = EngineProofs!MissingInternal(confirms[i])
    BY <1>7, <2>1, <2>3
  <2> QED
    BY <1>6, <2>1, <2>2, <2>3
<1>10. \A k \in DOMAIN internal_trades :
           /\ results[k].internal_trade_id = internal_trades[k].trade_id
           /\ results[k].state # "MissingInternal"
  BY <1>3, <1>6
<1> QED
  BY <1>3, <1>4, <1>6, <1>8, <1>9, <1>10

\* The result of the whole program accounts for every row of both tables, whatever
\* was added and rolled back before, and whatever keys the rows share.
THEOREM RowsAnswered == Spec => []EveryRowIsAnswered
<1>1. Components /\ Progress => EveryRowIsAnswered
  BY Answers DEF EveryRowIsAnswered, Rows
<1> QED
  BY <1>1, LoopInductive, PTL

\* When the command is done, its exceptions are the mismatches among the results, in
\* their order and one for one.
THEOREM ExceptionsCorrect == Spec => []ExceptionsAreTheMismatches
<1>1. Components /\ Progress /\ Raised => ExceptionsAreTheMismatches
  <2> SUFFICES ASSUME Components, Progress, Raised, phase = "done"
               PROVE  /\ Len(exceptions) = Cardinality(Mismatches)
                      /\ \A k \in Mismatches :
                             /\ exceptions[PlaceOf(k)].id = PlaceOf(k)
                             /\ exceptions[PlaceOf(k)].state = "Detected"
                             /\ exceptions[PlaceOf(k)].match_state = results[k].state
                             /\ exceptions[PlaceOf(k)].severity
                                    = severity_from_match[results[k].state]
    BY DEF ExceptionsAreTheMismatches
  <2>1. EngineProofs!IInv /\ at = Len(results) + 1 /\ Len(results) \in Nat
    BY ResultsTyped DEF Components, Progress
  <2>2. Mismatches = Before(at, Mismatch) /\ at \in Nat
    BY <2>1, PlaceCounted
  <2>3. \A k \in Mismatches : PlaceOf(k) \in 1..Len(exceptions)
    BY <2>1, <2>2, PlaceCounted DEF Raised
  <2>4. /\ DOMAIN exceptions = 1..Len(exceptions)
        /\ \A i \in DOMAIN exceptions : exceptions[i].id = i
    BY LenProperties DEF Components, WorkflowProofs!IInv, WorkflowProofs!TypeOK,
       WorkflowProofs!IdsArePositions
  <2> QED
    BY <2>2, <2>3, <2>4 DEF Raised
<1> QED
  BY <1>1, LoopInductive, PTL

\* What MatchingEngine proves of a match holds of the matches of the program: each has
\* a confirmation in the store's answer that agrees with the trade.
THEOREM MatchesSound == Spec => []EngineProofs!MatchedIsSound
BY EngineImplemented, EngineProofs!MatchedSound, EngineAssumptions, PTL

-----------------------------------------------------------------------------
(* The reports. *)

\* How many results are in one of the states.
InStates(states) == Before(Len(results) + 1, states)

\* Two disjoint groups of results are counted separately.
LEMMA CountedApart ==
    ASSUME EngineProofs!IInv, NEW A, NEW B, A \cap B = {}
    PROVE  Cardinality(InStates(A \cup B))
               = Cardinality(InStates(A)) + Cardinality(InStates(B))
<1>1. Len(results) + 1 \in Nat
  BY ResultsTyped
<1>2. /\ IsFiniteSet(InStates(A)) /\ Cardinality(InStates(A)) \in Nat
      /\ IsFiniteSet(InStates(B)) /\ Cardinality(InStates(B)) \in Nat
  BY <1>1, BeforeCounted DEF InStates
<1>3. InStates(A \cup B) = InStates(A) \cup InStates(B) /\ InStates(A) \cap InStates(B) = {}
  BY DEF InStates, Before
<1>4. Cardinality(InStates(A) \cup InStates(B))
          = Cardinality(InStates(A)) + Cardinality(InStates(B)) - Cardinality({})
  BY <1>2, <1>3, FS_Union
<1>5. Cardinality({}) = 0
  BY FS_EmptySet
<1>6. Cardinality(InStates(A) \cup InStates(B))
          = Cardinality(InStates(A)) + Cardinality(InStates(B))
  BY <1>2, <1>4, <1>5
<1>7. Cardinality(InStates(A \cup B)) = Cardinality(InStates(A) \cup InStates(B))
  BY <1>3
<1> QED
  BY <1>6, <1>7

\* A card counts the results in its state.
LEMMA CardCounts ==
    ASSUME EngineProofs!IInv, NEW s \in MatchState
    PROVE  Reports!Cards(results)[s] = Cardinality(InStates({s}))
<1>1. {i \in DOMAIN results : results[i].state = s} = InStates({s})
  <2>1. \A i \in DOMAIN results : i < Len(results) + 1
    BY ResultsTyped
  <2> QED
    BY <2>1 DEF InStates, Before
<1>2. Reports!MatchState = MatchState
  BY DEF Reports!MatchState, MatchState
<1>3. \A S : Reports!Cardinality(S) = Cardinality(S)
  BY DEF Reports!Cardinality, Cardinality
<1> QED
  BY <1>1, <1>2, <1>3 DEF Reports!Cards, Reports!Count

\* The sum over the cards of some states counts the results in these.
LEMMA CardsCount ==
    ASSUME EngineProofs!IInv, NEW states \in SUBSET MatchState
    PROVE  LET card(s) == IF s \in states THEN Reports!Cards(results)[s] ELSE 0
           IN  card("Matched") + card("QtyMismatch") + card("PriceMismatch")
               + card("MissingInternal") + card("MissingBroker") + card("Duplicate")
                   = Cardinality(InStates(states))
<1> DEFINE card(s) == IF s \in states THEN Reports!Cards(results)[s] ELSE 0
           c(S) == Cardinality(InStates(S \cap states))
<1>1. \A S : c(S) \in Nat
  <2>1. Len(results) + 1 \in Nat
    BY ResultsTyped
  <2> QED
    BY <2>1, BeforeCounted DEF InStates
<1>2. c({}) = 0
  <2>1. InStates({}) = {} /\ {} \cap states = {}
    BY DEF InStates, Before
  <2> QED
    BY <2>1, FS_EmptySet
<1>3. ASSUME NEW S, NEW s \in MatchState, s \notin S
      PROVE  c(S \cup {s}) = c(S) + card(s)
  <2>1. CASE s \in states
    <3>1. (S \cup {s}) \cap states = (S \cap states) \cup {s}
      BY <2>1
    <3>2. (S \cap states) \cap {s} = {}
      BY <1>3
    <3>3. Cardinality(InStates((S \cap states) \cup {s}))
              = Cardinality(InStates(S \cap states)) + Cardinality(InStates({s}))
      BY <3>2, CountedApart
    <3> QED
      BY <2>1, <3>1, <3>3, CardCounts
  <2>2. CASE s \notin states
    <3>1. (S \cup {s}) \cap states = S \cap states
      BY <2>2
    <3> QED
      BY <1>1, <2>2, <3>1
  <2> QED
    BY <2>1, <2>2
<1> DEFINE S1 == {} \cup {"Matched"}
           S2 == S1 \cup {"QtyMismatch"}
           S3 == S2 \cup {"PriceMismatch"}
           S4 == S3 \cup {"MissingInternal"}
           S5 == S4 \cup {"MissingBroker"}
           S6 == S5 \cup {"Duplicate"}
<1>4. S6 \cap states = states
  BY DEF MatchState
<1>5. /\ "QtyMismatch" \notin S1 /\ "PriceMismatch" \notin S2
      /\ "MissingInternal" \notin S3 /\ "MissingBroker" \notin S4
      /\ "Duplicate" \notin S5
  OBVIOUS
<1> HIDE DEF c, card
<1>6. /\ c(S1) = c({}) + card("Matched") /\ c(S2) = c(S1) + card("QtyMismatch")
      /\ c(S3) = c(S2) + card("PriceMismatch")
      /\ c(S4) = c(S3) + card("MissingInternal")
      /\ c(S5) = c(S4) + card("MissingBroker") /\ c(S6) = c(S5) + card("Duplicate")
  <2> HIDE DEF S2, S3, S4, S5, S6
  <2>1. c(S1) = c({}) + card("Matched")
    BY <1>3 DEF MatchState
  <2>2. c(S2) = c(S1) + card("QtyMismatch")
    BY <1>3, <1>5 DEF MatchState, S2
  <2>3. c(S3) = c(S2) + card("PriceMismatch")
    BY <1>3, <1>5 DEF MatchState, S3
  <2>4. c(S4) = c(S3) + card("MissingInternal")
    BY <1>3, <1>5 DEF MatchState, S4
  <2>5. c(S5) = c(S4) + card("MissingBroker")
    BY <1>3, <1>5 DEF MatchState, S5
  <2>6. c(S6) = c(S5) + card("Duplicate")
    BY <1>3, <1>5 DEF MatchState, S6
  <2> QED
    BY <2>1, <2>2, <2>3, <2>4, <2>5, <2>6
<1>7. c(S6) = Cardinality(InStates(states))
  BY <1>4 DEF c
<1> QED
  <2> HIDE DEF S1, S2, S3, S4, S5, S6
  <2>1. card("Matched") + card("QtyMismatch") + card("PriceMismatch")
            + card("MissingInternal") + card("MissingBroker") + card("Duplicate") = c(S6)
    <3>1. /\ \A s \in MatchState : card(s) \in Nat
      <4>1. Len(results) + 1 \in Nat
        BY ResultsTyped
      <4>2. ASSUME NEW s \in MatchState
            PROVE  Reports!Cards(results)[s] \in Nat
        <5>1. Cardinality(InStates({s})) \in Nat
          BY <4>1, BeforeCounted DEF InStates
        <5> QED
          BY <5>1, CardCounts
      <4> QED
        BY <4>2 DEF card
    <3> QED
      BY <1>1, <1>2, <1>6, <3>1 DEF MatchState
  <2> QED
    BY <1>7, <2>1 DEF card

\* A function on 1..n is a sequence of n elements.
LEMMA LengthOfRows ==
    ASSUME NEW n \in Nat, NEW f, DOMAIN f = 1..n, f = [i \in DOMAIN f |-> f[i]]
    PROVE  Len(f) = n /\ (f = <<>> <=> n = 0)
<1> DEFINE S == {f[i] : i \in 1..n}
<1>1. f \in [1..n -> S]
  OBVIOUS
<1>2. f \in Seq(S)
  BY <1>1, SeqDef
<1>3. Len(f) \in Nat /\ DOMAIN f = 1..Len(f)
  BY <1>2, LenProperties
<1>4. Len(f) = n
  BY <1>3
<1>5. f = <<>> <=> Len(f) = 0
  BY <1>2, EmptySeq
<1> QED
  BY <1>4, <1>5

\* The groups of results that the reports speak of.
LEMMA Groups ==
    ASSUME Components, Progress, Raised, phase = "done"
    PROVE  /\ Cardinality(InStates(MatchState)) = Len(results)
           /\ Cardinality(InStates(MatchState \ {"MissingInternal"})) = get_internal_count
           /\ Cardinality(InStates({"MissingInternal"})) <= get_confirmation_count
           /\ Cardinality(InStates(Mismatch)) = Len(exceptions)
           /\ \A x \in ExceptionSeverity :
                  Cardinality({n \in DOMAIN exceptions : exceptions[n].severity = x})
                      = Cardinality(InStates(OfSeverity(x)))
           /\ Cardinality(InStates({"Matched"})) + Len(exceptions) = Len(results)
<1>1. /\ get_internal_count \in Nat /\ get_confirmation_count \in Nat
      /\ DOMAIN internal_trades = 1..get_internal_count
      /\ Len(results) \in Nat /\ DOMAIN results = 1..Len(results)
      /\ get_internal_count <= Len(results)
      /\ Len(results) <= get_internal_count + get_confirmation_count
      /\ \A k \in DOMAIN internal_trades : results[k].state # "MissingInternal"
      /\ \A k \in DOMAIN results :
             k > get_internal_count => results[k].state = "MissingInternal"
  BY Answers
<1>2. /\ EngineProofs!IInv /\ at = Len(results) + 1
      /\ \A k \in DOMAIN results : results[k].state \in MatchState
  BY ResultsTyped DEF Components, Progress
<1>3. \A k \in DOMAIN results : k < Len(results) + 1
  BY <1>1
<1>4. InStates(MatchState) = 1..Len(results)
  BY <1>1, <1>2, <1>3 DEF InStates, Before
<1>5. InStates(MatchState \ {"MissingInternal"}) = 1..get_internal_count
  <2>1. \A k : k \in 1..get_internal_count <=>
                   k \in DOMAIN results /\ ~(k > get_internal_count)
    BY <1>1
  <2> QED
    BY <1>1, <1>2, <1>3, <2>1 DEF InStates, Before
<1>6. \A n \in Nat : Cardinality(1..n) = n
  BY FS_Interval
<1>7. /\ Cardinality(InStates(MatchState)) = Len(results)
      /\ Cardinality(InStates(MatchState \ {"MissingInternal"})) = get_internal_count
  BY <1>1, <1>4, <1>5, <1>6
<1>8. /\ Cardinality(InStates(Mismatch)) = Len(exceptions)
      /\ \A x \in ExceptionSeverity :
             Cardinality({n \in DOMAIN exceptions : exceptions[n].severity = x})
                 = Cardinality(InStates(OfSeverity(x)))
  BY <1>2 DEF Raised, InStates
<1>9. \A s \in MatchState : Cardinality(InStates({s})) \in Nat
  <2>1. Len(results) + 1 \in Nat
    BY <1>1
  <2> QED
    BY <1>2, <2>1, BeforeCounted DEF InStates
<1>10. ASSUME NEW s \in MatchState
       PROVE  Cardinality(InStates(MatchState))
                  = Cardinality(InStates(MatchState \ {s})) + Cardinality(InStates({s}))
  <2>1. (MatchState \ {s}) \cap {s} = {} /\ (MatchState \ {s}) \cup {s} = MatchState
    OBVIOUS
  <2> QED
    BY <1>2, <2>1, CountedApart
<1>11. Cardinality(InStates({"MissingInternal"})) <= get_confirmation_count
  <2>1. "MissingInternal" \in MatchState
    BY DEF MatchState
  <2>2. /\ Cardinality(InStates({"MissingInternal"})) \in Nat
        /\ Cardinality(InStates(MatchState))
               = Cardinality(InStates(MatchState \ {"MissingInternal"}))
                 + Cardinality(InStates({"MissingInternal"}))
    BY <1>9, <1>10, <2>1
  <2> QED
    BY <1>1, <1>7, <2>2
<1>12. Cardinality(InStates({"Matched"})) + Len(exceptions) = Len(results)
  <2>1. "Matched" \in MatchState
    BY DEF MatchState
  <2>2. Cardinality(InStates(MatchState \ {"Matched"})) = Len(exceptions)
    BY <1>8 DEF Mismatch
  <2>3. Len(exceptions) \in Nat
    BY LenProperties DEF Components, WorkflowProofs!IInv, WorkflowProofs!TypeOK
  <2>4. /\ Cardinality(InStates({"Matched"})) \in Nat
        /\ Cardinality(InStates(MatchState))
               = Cardinality(InStates(MatchState \ {"Matched"}))
                 + Cardinality(InStates({"Matched"}))
    BY <1>9, <1>10, <2>1
  <2> QED
    BY <1>7, <2>2, <2>3, <2>4
<1> QED
  BY <1>7, <1>8, <1>11, <1>12

\* The bars of the aging report add up to the exceptions, which are all open and, with
\* the clock standing still, all of the youngest bucket.
LEMMA BarsAddUp ==
    ASSUME Components, Raised
    PROVE  LET bars == Reports!exception_aging_report(exceptions,
                                                      Workflow!get_aging_report).bars
           IN  bars[0] + bars[1] + bars[2] + bars[3] = Len(exceptions)
<1>1. exceptions \in Seq(WorkflowProofs!Exception)
  BY DEF Components, WorkflowProofs!IInv, WorkflowProofs!TypeOK
<1>2. Len(exceptions) \in Nat /\ DOMAIN exceptions = 1..Len(exceptions)
  BY <1>1, LenProperties
<1>3. ASSUME NEW n \in DOMAIN exceptions
      PROVE  ~Workflow!IsClosed(exceptions[n]) /\ Workflow!Bucket(exceptions[n]) = 0
  <2>1. ~Workflow!IsClosed(exceptions[n])
    BY DEF Raised, Workflow!IsClosed
  <2>2. exceptions[n] \in WorkflowProofs!Exception
    BY <1>1, <1>2, ElementOfSeq
  <2>3. exceptions[n].created_at_ns = 0 /\ now = 0
    BY <2>2 DEF Components, WorkflowProofs!IInv, WorkflowProofs!TypeOK,
                WorkflowProofs!Exception
  <2>4. Workflow!UnsignedMinus(now, exceptions[n].created_at_ns) = 0
    BY <2>3 DEF Workflow!UnsignedMinus
  <2>5. {days \in {1, 3, 7} : 0 > days * 1} = {}
    OBVIOUS
  <2>6. Workflow!Cardinality({}) = 0
    <3>1. Workflow!Cardinality({}) = Cardinality({})
      BY DEF Workflow!Cardinality, Cardinality
    <3> QED
      BY <3>1, FS_EmptySet
  <2> QED
    BY <2>1, <2>4, <2>5, <2>6 DEF Workflow!Bucket
<1> DEFINE bars == Reports!exception_aging_report(exceptions,
                                                  Workflow!get_aging_report).bars
           open(b) == {i \in DOMAIN exceptions :
                          /\ ~Workflow!IsClosed(exceptions[i])
                          /\ Workflow!Bucket(exceptions[i]) = b}
<1>4. ASSUME NEW b \in 0..3
      PROVE  bars[b] = Cardinality(open(b))
  <2>1. Workflow!Cardinality(open(b)) = Cardinality(open(b))
    BY DEF Workflow!Cardinality, Cardinality
  <2>2. Workflow!get_aging_report[b] = Cardinality(open(b)) /\ b \in DOMAIN Workflow!get_aging_report
    BY <2>1 DEF Workflow!get_aging_report
  <2> QED
    BY <2>2 DEF Reports!exception_aging_report
<1>5. open(0) = 1..Len(exceptions) /\ open(1) = {} /\ open(2) = {} /\ open(3) = {}
  BY <1>2, <1>3
<1>6. Cardinality({}) = 0 /\ Cardinality(1..Len(exceptions)) = Len(exceptions)
  <2>1. \A n \in Nat : Cardinality(1..n) = n
    BY FS_Interval
  <2> QED
    BY <1>2, <2>1, FS_EmptySet
<1> HIDE DEF bars, open
<1>7. bars[0] = Len(exceptions) /\ bars[1] = 0 /\ bars[2] = 0 /\ bars[3] = 0
  <2>1. /\ bars[0] = Cardinality(open(0)) /\ bars[1] = Cardinality(open(1))
        /\ bars[2] = Cardinality(open(2)) /\ bars[3] = Cardinality(open(3))
    BY <1>4
  <2> QED
    BY <1>5, <1>6, <2>1
<1> QED
  BY <1>2, <1>7 DEF bars

\* The two reports on one match add up, card by card and bar by bar: among
\* themselves, with the store, and with the exceptions raised.
THEOREM ReportsCorrect == Spec => []ReportsAddUp
<1>1. ASSUME Components, Progress, Raised PROVE ReportsAddUp
  <2> DEFINE daily == Reports!daily_reconciliation_report(
                          results, get_internal_count, get_confirmation_count)
             aging == Reports!exception_aging_report(exceptions, Workflow!get_aging_report)
             card(s, states) == IF s \in states THEN daily.cards[s] ELSE 0
             Cards(states) ==
                 card("Matched", states) + card("QtyMismatch", states)
                 + card("PriceMismatch", states) + card("MissingInternal", states)
                 + card("MissingBroker", states) + card("Duplicate", states)
  <2>0. SUFFICES ASSUME phase = "done"
        PROVE  /\ Cards(MatchState) = Len(daily.rows)
               /\ Cards(MatchState \ {"MissingInternal"}) = daily.total_internal
               /\ daily.cards["MissingInternal"] <= daily.total_confirmations
               /\ Cards(MatchState \ {"Matched"}) = Len(aging.rows)
               /\ aging.bars[0] + aging.bars[1] + aging.bars[2] + aging.bars[3]
                      = Len(aging.rows)
               /\ \A x \in ExceptionSeverity :
                      Cards({s \in MatchState \ {"Matched"} : severity_from_match[s] = x})
                          = Cardinality({i \in DOMAIN aging.rows :
                                             aging.rows[i].sev_class = x})
               /\ daily.rows # <<>> =>
                      (daily.match_rate[1] = daily.match_rate[2] <=> aging.rows = <<>>)
    BY DEF ReportsAddUp
  <2>1. /\ daily.cards = Reports!Cards(results)
        /\ daily.total_internal = get_internal_count
        /\ daily.total_confirmations = get_confirmation_count
        /\ daily.match_rate = IF results = <<>> THEN <<0, 1>>
                              ELSE <<Reports!Cards(results)["Matched"], Len(results)>>
        /\ DOMAIN daily.rows = DOMAIN results
        /\ daily.rows = [i \in DOMAIN daily.rows |-> daily.rows[i]]
    BY DEF Reports!daily_reconciliation_report
  <2>2. /\ DOMAIN aging.rows = DOMAIN exceptions
        /\ aging.rows = [i \in DOMAIN aging.rows |-> aging.rows[i]]
        /\ \A i \in DOMAIN exceptions : aging.rows[i].sev_class = exceptions[i].severity
    BY DEF Reports!exception_aging_report
  <2>3. /\ EngineProofs!IInv
        /\ Len(results) \in Nat /\ DOMAIN results = 1..Len(results)
    BY <1>1, ResultsTyped DEF Components
  <2>4. Len(exceptions) \in Nat /\ DOMAIN exceptions = 1..Len(exceptions)
    BY <1>1, LenProperties DEF Components, WorkflowProofs!IInv, WorkflowProofs!TypeOK
  <2>5. Len(daily.rows) = Len(results) /\ (daily.rows = <<>> <=> Len(results) = 0)
    <3> HIDE DEF daily
    <3> QED
      BY <2>1, <2>3, LengthOfRows
  <2>6. Len(aging.rows) = Len(exceptions) /\ (aging.rows = <<>> <=> Len(exceptions) = 0)
    <3> HIDE DEF aging
    <3> QED
      BY <2>2, <2>4, LengthOfRows
  <2>7. ASSUME NEW states \in SUBSET MatchState
        PROVE  Cards(states) = Cardinality(InStates(states))
    BY <2>1, <2>3, CardsCount
  <2>8. aging.bars[0] + aging.bars[1] + aging.bars[2] + aging.bars[3] = Len(exceptions)
    BY <1>1, BarsAddUp
  <2>9. /\ Cardinality(InStates(MatchState)) = Len(results)
        /\ Cardinality(InStates(MatchState \ {"MissingInternal"})) = get_internal_count
        /\ Cardinality(InStates({"MissingInternal"})) <= get_confirmation_count
        /\ Cardinality(InStates(Mismatch)) = Len(exceptions)
        /\ \A x \in ExceptionSeverity :
               Cardinality({n \in DOMAIN exceptions : exceptions[n].severity = x})
                   = Cardinality(InStates(OfSeverity(x)))
        /\ Cardinality(InStates({"Matched"})) + Len(exceptions) = Len(results)
    BY <1>1, <2>0, Groups
  <2>10. \A s \in MatchState : daily.cards[s] = Cardinality(InStates({s}))
    BY <2>1, <2>3, CardCounts
  <2>11. results = <<>> => Len(results) = 0
    BY EmptySeq
  <2> HIDE DEF daily, aging, Cards
  <2>12. /\ Cards(MatchState) = Len(daily.rows)
         /\ Cards(MatchState \ {"MissingInternal"}) = daily.total_internal
         /\ Cards(MatchState \ {"Matched"}) = Len(aging.rows)
    BY <2>1, <2>5, <2>6, <2>7, <2>9 DEF Mismatch
  <2>13. daily.cards["MissingInternal"] <= daily.total_confirmations
    BY <2>1, <2>9, <2>10 DEF MatchState
  <2>14. ASSUME NEW x \in ExceptionSeverity
         PROVE  Cards({s \in MatchState \ {"Matched"} : severity_from_match[s] = x})
                    = Cardinality({i \in DOMAIN aging.rows : aging.rows[i].sev_class = x})
    <3>1. {i \in DOMAIN aging.rows : aging.rows[i].sev_class = x}
              = {n \in DOMAIN exceptions : exceptions[n].severity = x}
      BY <2>2
    <3>2. /\ OfSeverity(x) = {s \in MatchState \ {"Matched"} : severity_from_match[s] = x}
          /\ OfSeverity(x) \in SUBSET MatchState
      BY DEF OfSeverity, Mismatch
    <3> QED
      BY <2>7, <2>9, <3>1, <3>2
  <2>15. daily.rows # <<>> =>
             (daily.match_rate[1] = daily.match_rate[2] <=> aging.rows = <<>>)
    <3>1. Reports!Cards(results)["Matched"] = Cardinality(InStates({"Matched"}))
      BY <2>3, CardCounts DEF MatchState
    <3>2. Cardinality(InStates({"Matched"})) = Len(results) <=> Len(exceptions) = 0
      <4>1. Cardinality(InStates({"Matched"})) \in Nat
        <5>1. Len(results) + 1 \in Nat
          BY <2>3
        <5> QED
          BY <2>3, <5>1, BeforeCounted DEF InStates
      <4> QED
        BY <2>3, <2>4, <2>9, <4>1
    <3> QED
      BY <2>1, <2>5, <2>6, <2>11, <3>1, <3>2
  <2> QED
    BY <2>6, <2>8, <2>12, <2>13, <2>14, <2>15
<1> QED
  BY <1>1, LoopInductive, PTL

=============================================================================
