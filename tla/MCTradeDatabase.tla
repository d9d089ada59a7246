-------------------------- MODULE MCTradeDatabase ---------------------------
(* A small instance of TradeDatabase for TLC. *)
EXTENDS TradeDatabase, TLC

MCSymmetry == Permutations(Importers) \cup Permutations(Matchers)

MCLine(what, id, trade_id, venue, quantity, price) ==
    [is |-> what, id |-> id, trade_id |-> trade_id, venue |-> venue,
     quantity |-> quantity, price |-> price]

MCKind == [trades |-> "internal", corrections |-> "internal",
           confirms |-> "confirmation", broken |-> "fix", messages |-> "fix"]

\* Two trades, and a file that corrects one of them; confirmations with and without
\* an id; FIX messages that end in one the import cannot take (a quantity of more than
\* 64 bits), and others with one that is ignored (a price of NaN), the last of which
\* spells out the id the importer has made for the first.
MCContent == [
    trades      |-> <<MCLine("row", "", "t1", "v1", 10, 5), MCLine("row", "", "t2", "v1", 10, 5)>>,
    corrections |-> <<MCLine("skipped", "", "t2", "v1", 10, 5), MCLine("ignored", "", "t2", "v1", 12, 5),
                      MCLine("row", "", "t1", "v1", 12, 5)>>,
    confirms    |-> <<MCLine("row", "c1", "t1", "v1", 12, 5), MCLine("row", "", "t2", "v1", 10, 7)>>,
    broken      |-> <<MCLine("row", "t2", "t2", "v1", 10, 5), MCLine("fatal", "", "t1", "v1", 10, 5)>>,
    messages    |-> <<MCLine("row", "", "t1", "v1", 10, 5), MCLine("ignored", "", "t1", "v1", 10, 5),
                      MCLine("row", "FIX_0", "t1", "v1", 12, 5)>>]

MCFiles == DOMAIN MCKind

MCCfm == [id \in {"t1", "t2", "c1", "CFM_t1", "CFM_t2", "FIX_0", "FIX_1", "FIX_2", "FIX_3"} |->
             CASE id = "t1" -> "CFM_t1" [] id = "t2" -> "CFM_t2" [] OTHER -> id]
MCFix == [n \in 0..3 |-> <<"FIX_0", "FIX_1", "FIX_2", "FIX_3">>[n + 1]]

=============================================================================
