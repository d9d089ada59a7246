----------------------------- MODULE TradeStore -----------------------------
(***************************************************************************)
(* The class TradeStore of src/trade_store.cpp: two tables behind one      *)
(* SQLite connection, opened in memory as every program of the repository  *)
(* does, with transactions that the caller begins and ends.  Nothing else  *)
(* sees the database, so a statement is one action; the results of BEGIN,  *)
(* COMMIT and ROLLBACK are ignored by the class, and one that SQLite       *)
(* refuses is a call that changes nothing.                                 *)
(*                                                                         *)
(* A table is the sequence of its rows in the order of their rowids, which *)
(* is the order a query without ORDER BY returns them in.  A row carries   *)
(* its key and what matching compares.                                     *)
(***************************************************************************)
EXTENDS Sequences, ReconTypes

CONSTANTS
    TradeRecords,           \* the records add_internal is called with
    BrokerConfirmations     \* the records add_confirmation is called with

ASSUME RecordsAssumption ==
    /\ \A r \in TradeRecords :
           DOMAIN r = {"trade_id", "venue", "symbol", "side", "quantity", "price"}
    /\ \A c \in BrokerConfirmations :
           DOMAIN c = {"confirm_id", "trade_id", "venue", "symbol", "side", "quantity", "price"}

VARIABLES
    internal_trades, confirmations,    \* the tables
    saved,       \* while in a transaction: <<the tables when it began>>; else <<>>
    accepted     \* history: what add_* said was inserted, and whether for good

store == <<internal_trades, confirmations, saved, accepted>>

Rows(table) == {table[i] : i \in DOMAIN table}

InTransaction == saved # <<>>

-----------------------------------------------------------------------------
(* The primary keys, and INSERT OR IGNORE. *)

SameTrade(r, s)        == r.trade_id = s.trade_id /\ r.venue = s.venue
SameConfirmation(c, d) == c.confirm_id = d.confirm_id /\ c.venue = d.venue

\* The calling program's view of a row that add_* returned true for: it is there
\* for good unless a transaction is under way.
Note(row) == accepted' = accepted \cup {[row |-> row, durable |-> ~InTransaction]}

\* Where the key is taken, an add returns false and changes nothing.
add_internal(r) ==
    /\ \A s \in Rows(internal_trades) : ~SameTrade(r, s)
    /\ internal_trades' = Append(internal_trades, r)
    /\ Note(r)
    /\ UNCHANGED <<confirmations, saved>>

add_confirmation(c) ==
    /\ \A d \in Rows(confirmations) : ~SameConfirmation(c, d)
    /\ confirmations' = Append(confirmations, c)
    /\ Note(c)
    /\ UNCHANGED <<internal_trades, saved>>

-----------------------------------------------------------------------------
(* Transactions. *)

\* Wrong on purpose: a second BEGIN starts the transaction anew.
begin_transaction_Again ==
    /\ saved' = <<internal_trades, confirmations>>
    /\ UNCHANGED <<internal_trades, confirmations, accepted>>

\* SQLite refuses a BEGIN within a transaction.
begin_transaction ==
    /\ ~InTransaction
    /\ saved' = <<internal_trades, confirmations>>
    /\ UNCHANGED <<internal_trades, confirmations, accepted>>

commit ==
    /\ InTransaction
    /\ saved' = <<>>
    /\ accepted' = {[a EXCEPT !.durable = TRUE] : a \in accepted}
    /\ UNCHANGED <<internal_trades, confirmations>>

rollback ==
    /\ InTransaction
    /\ internal_trades' = saved[1] /\ confirmations' = saved[2]
    /\ saved' = <<>>
    /\ accepted' = {a \in accepted : a.durable}

-----------------------------------------------------------------------------
(* Queries: without filters, the tables as the connection sees them. *)

\* Wrong on purpose: the first row is stepped over.
query_internal_SkipsFirst == IF internal_trades = <<>> THEN <<>> ELSE Tail(internal_trades)

query_internal      == internal_trades
query_confirmations == confirmations

get_internal_count     == Len(internal_trades)
get_confirmation_count == Len(confirmations)

InitStore ==
    /\ internal_trades = <<>> /\ confirmations = <<>>
    /\ saved = <<>>
    /\ accepted = {}

StoreStep ==
    \/ \E r \in TradeRecords : add_internal(r)
    \/ \E c \in BrokerConfirmations : add_confirmation(c)
    \/ begin_transaction
    \/ commit
    \/ rollback

-----------------------------------------------------------------------------
(* Properties. *)

StoreTypeOK ==
    /\ internal_trades \in Seq(TradeRecords)
    /\ confirmations \in Seq(BrokerConfirmations)
    /\ InTransaction => saved \in Seq(TradeRecords) \X Seq(BrokerConfirmations)
    /\ accepted \subseteq [row : TradeRecords \cup BrokerConfirmations, durable : BOOLEAN]

\* The tables hold exactly the records that add_* answered with true and that no
\* rollback undid: the first of each key, once; and a rollback will leave exactly
\* those of them that were added outside a transaction or committed.
StoreHoldsWhatItAccepted ==
    /\ Rows(internal_trades) \cup Rows(confirmations) = {a.row : a \in accepted}
    /\ \A i, j \in DOMAIN internal_trades :
           SameTrade(internal_trades[i], internal_trades[j]) => i = j
    /\ \A i, j \in DOMAIN confirmations :
           SameConfirmation(confirmations[i], confirmations[j]) => i = j
    /\ IF InTransaction
       THEN Rows(saved[1]) \cup Rows(saved[2]) = {a.row : a \in {b \in accepted : b.durable}}
       ELSE \A a \in accepted : a.durable

=============================================================================
