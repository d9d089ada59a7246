-------------------------- MODULE MCMatchingEngine --------------------------
(* Small instances of MatchingEngine for TLC. *)
EXTENDS MatchingEngine

UpTo(n, S) == UNION {[1..m -> S] : m \in 0..n}

Trades(ids, symbols, sides, quantities, prices) ==
    [trade_id : ids, symbol : symbols, side : sides,
     quantity : quantities, price : prices]

\* Two trades against two confirmations that differ in everything that is compared.
Broad == UpTo(2, Trades({"t1", "t2"}, {"A"}, {"Buy"}, {10, 12}, {5, 6}))
            \X UpTo(2, Trades({"t1", "t3"}, {"A", "B"}, {"Buy", "Sell"}, {10}, {5, 7}))

\* Three trades against three confirmations that differ in their ids only.
Long == UpTo(3, Trades({"t1", "t2", "t3"}, {"A"}, {"Buy"}, {10}, {5}))
            \X UpTo(3, Trades({"t1", "t2", "t4"}, {"A"}, {"Buy"}, {10}, {5}))

\* A first call, which leaves the counter of the engine at 0 or 1.
Few == UpTo(1, Trades({"t1"}, {"A"}, {"Buy"}, {10}, {5}))
          \X UpTo(1, Trades({"t1"}, {"A"}, {"Buy"}, {10}, {5}))

MCBatches == <<Few, Broad \cup Long>>

=============================================================================
