---------------------------- MODULE MCFixHandler ----------------------------
(* A small instance of FixHandler for TLC. *)
EXTENDS FixHandler

\* Texts that are numbers, as std::to_string writes them.
MCNumbers == 0..255 \cup {571}
MCToString == [n \in MCNumbers |-> ToString(n)]
MCPadded == [n \in 0..255 |-> IF n < 10 THEN "00" \o ToString(n)
                              ELSE IF n < 100 THEN "0" \o ToString(n) ELSE ToString(n)]

\* The others, with their bytes summed up, their lengths, and what stoi reads.  "035" and
\* "35x" are tags that stoi reads as 35, "-" stands for a token without a tag.
MCNames == {"4.4", "A", "D", "F", "AE", "ZZ", "S", "T", "R1", "exec_7", "150.500000",
            Epoch, "035", "35x", "-", "", "SU", "+07"}
MCNameWeight == [x \in MCNames |->
    CASE x = "4.4" -> 150  [] x = "A" -> 65    [] x = "D" -> 68   [] x = "F" -> 70
      [] x = "AE" -> 134   [] x = "ZZ" -> 180  [] x = "S" -> 83   [] x = "T" -> 84
      [] x = "R1" -> 131   [] x = "exec_7" -> 59 [] x = "150.500000" -> 233
      [] x = Epoch -> 11   [] x = "035" -> 152 [] x = "35x" -> 224 [] x = "-" -> 45
      [] x = "" -> 0       [] x = "SU" -> 168 [] x = "+07" -> 146]
MCNameNumber == [x \in MCNames |->
    CASE x \in {"035", "35x"} -> 35 [] x = "4.4" -> 4 [] x = "+07" -> 7
      [] x = "150.500000" -> 150
      [] x = Epoch -> 20260101 [] OTHER -> NaN]

MCTexts == MCNames \cup {MCToString[n] : n \in MCNumbers} \cup {MCPadded[n] : n \in 0..255}
MCDigits(n) == (n % 10) + ((n \div 10) % 10) + (n \div 100)
MCNumber == [x \in MCTexts |->
    IF x \in MCNames THEN MCNameNumber[x]
    ELSE CHOOSE n \in MCNumbers : x = MCToString[n] \/ (n <= 255 /\ x = MCPadded[n])]
MCLength == [x \in MCTexts |-> Len(x)]
MCWeight == [x \in MCTexts |->
    IF x \in MCNames THEN MCNameWeight[x] ELSE 48 * Len(x) + MCDigits(MCNumber[x])]

MCRequest(type) ==
    [type |-> type, sender |-> "S", target |-> "T", seq |-> 1, test_req_id |-> "",
     cl_ord_id |-> "7", order_id |-> "8", report_id |-> "R1", exec_id |-> "exec_7",
     exec_type |-> "2", symbol |-> "A", side |-> 1, qty |-> 100, price |-> "150.500000"]
MCRequests ==
    {MCRequest(type) : type \in {"Logon", "Heartbeat", "NewOrderSingle", "ExecutionReport",
                                 "OrderCancelRequest", "TradeCaptureReport"}}
    \cup {[MCRequest("Heartbeat") EXCEPT !.test_req_id = "R1"]}

\* One field, with a checksum of 7; a type nobody knows and an empty value; the fields
\* of the envelope already there.
MCMessages ==
    {(MsgType :> "SU"), (MsgType :> "ZZ") @@ (Symbol :> ""),
     (BeginString :> "A") @@ (BodyLength :> "7") @@ (CheckSum :> "007") @@ (MsgType :> "D")}

MCStrays == {"", "-", "7", "35", "10", "007", "+07", "035", "35x", "150.500000"}

\* Fields in any order, repeated, unreadable, or behind a first checksum.
MCFields ==
    {[tag |-> "35", value |-> "D"], [tag |-> "35", value |-> "7"], [tag |-> "035", value |-> "A"],
     [tag |-> "-", value |-> ""], [tag |-> "34", value |-> "1"], [tag |-> "10", value |-> "007"]}
MCReceived == UNION {[1..n -> MCFields] : n \in 0..3}

=============================================================================
