-------------------------- MODULE MCReconciliation --------------------------
(* A small instance of Reconciliation for TLC. *)
EXTENDS Reconciliation

Trade(id, venue, quantity) ==
    [trade_id |-> id, venue |-> venue, symbol |-> "A", side |-> "Buy",
     quantity |-> quantity, price |-> 5]

Confirmation(cid, id, venue, quantity, price) ==
    [confirm_id |-> cid, trade_id |-> id, venue |-> venue, symbol |-> "A",
     side |-> "Buy", quantity |-> quantity, price |-> price]

\* One id at two venues, a second record for one of the keys, another trade.
MCTradeRecords ==
    {Trade("t1", "NYSE", 10), Trade("t1", "NYSE", 13), Trade("t1", "NASDAQ", 10),
     Trade("t2", "NYSE", 10)}

\* Two confirmations of one trade, at two prices, a second record for one of the keys,
\* one that confirms a trade nobody has and agrees with the others.
MCBrokerConfirmations ==
    {Confirmation("c1", "t1", "NYSE", 10, 5), Confirmation("c1", "t2", "NYSE", 13, 5),
     Confirmation("c2", "t1", "NYSE", 10, 9), Confirmation("c3", "t3", "NASDAQ", 10, 5)}

=============================================================================
