----------------------------- MODULE FixHandler -----------------------------
(***************************************************************************)
(* The class FixHandler of src/fix_handler.cpp, and the way of a message   *)
(* from its builders through a wire that may damage it to parse and the    *)
(* two validators of the checksum (cmd_fix_gen and cmd_fix_parse of        *)
(* src/main.cpp).                                                          *)
(*                                                                         *)
(* A raw message is a sequence of tokens, each ended by SOH; open says     *)
(* that the last one is not.  A token is what stands before and behind its *)
(* first '='.  Texts have what the code looks at: the sum of their bytes,  *)
(* their length, and what std::stoi reads in them, NaN where it throws.  A *)
(* token without '=' is one whose tag is NaN: parse skips both.  No text   *)
(* holds an SOH.  An int takes the sum of the bytes of any message here.   *)
(***************************************************************************)
EXTENDS Integers, SequencesExt, FiniteSetsExt

CONSTANTS
    Texts, weight, length, number, NaN,
    to_string,                \* the text of a number: std::to_string
    padded,                   \* the text of a checksum, three digits
    Requests,                 \* what the builders are asked to make
    Messages,                 \* other messages that serialize is called with
    Received,                 \* what a counterparty sends
    Strays                    \* the texts that damage makes of others

Token      == [tag : Texts, value : Texts]
Raw        == [tokens : Seq(Token), open : BOOLEAN]
IsMessage(m) ==
    IsFiniteSet(DOMAIN m) /\ DOMAIN m \subseteq Int /\ \A t \in DOMAIN m : m[t] \in Texts

\* What the builders are given; only a heartbeat looks at test_req_id, and so on.
Request ==
    [type : {"Logon", "Heartbeat", "NewOrderSingle", "ExecutionReport", "OrderCancelRequest",
             "TradeCaptureReport"},
     sender : Texts, target : Texts, test_req_id : Texts, cl_ord_id : Texts,
     order_id : Texts, report_id : Texts, exec_id : Texts, exec_type : Texts,
     symbol : Texts, price : Texts,
     seq : DOMAIN to_string, side : DOMAIN to_string, qty : DOMAIN to_string]

Epoch == "20260101-00:00:00.000"

ASSUME TextAssumption ==
    /\ {"4.4", "", "-", Epoch, "0", "8", "A", "D", "F", "AE"} \subseteq Texts
    /\ weight \in [Texts -> 0..255] /\ length \in [Texts -> Nat] /\ number["-"] = NaN
    /\ NaN \notin Int /\ number \in [Texts -> Int \cup {NaN}]
    /\ \A n \in DOMAIN to_string : to_string[n] \in Texts /\ number[to_string[n]] = n
    /\ padded \in [0..255 -> Texts] /\ \A n \in 0..255 : number[padded[n]] = n
ASSUME InputAssumption ==
    /\ \A m \in Messages : IsMessage(m)
    /\ Requests \subseteq Request
    /\ Received \subseteq Seq(Token) /\ Strays \subseteq Texts

VARIABLES
    sent,        \* the message that was serialized
    sender,      \* who sent what is on the wire
    wire,        \* the raw message
    damage,      \* history: what happened to it
    output       \* what was made of it: <<>>, or <<fields, type, valid>>

vars == <<sent, sender, wire, damage, output>>

BeginString == 8    BodyLength   == 9     MsgType      == 35   SenderCompID == 49
TargetCompID == 56  MsgSeqNum    == 34    SendingTime  == 52   CheckSum     == 10
ClOrdID == 11       OrigClOrdID  == 41    OrderID      == 37   ExecID       == 17
ExecType == 150     OrdStatus    == 39    Symbol       == 55   Side         == 54
OrderQty == 38      Price        == 44    TimeInForce  == 59   TransactTime == 60
TradeReportID == 571                      TestReqID    == 112

SOH == 1      EQ == 61      \* the bytes around a value

-----------------------------------------------------------------------------
(* serialize and parse. *)

Field(tag, value) == [tag |-> to_string[tag], value |-> value]

\* The sum of the bytes of tokens and their ends, modulo 256.
Sum(tokens) ==
    LET Bytes(t) == weight[t.tag] + EQ + weight[t.value] + SOH
        sum[n \in 0..Len(tokens)] ==
            IF n = 0 THEN 0 ELSE (sum[n - 1] + Bytes(tokens[n])) % 256
    IN  sum[Len(tokens)]

ByteCount(tokens) ==
    FoldLeft(LAMBDA n, t : n + length[t.tag] + length[t.value] + 2, 0, tokens)

\* The fields of a message, without those of some tags, in the order of std::map.
FieldsOf(m, without) ==
    LET tags     == DOMAIN m \ without
        Place(t) == Cardinality({u \in tags : u <= t})
    IN  [i \in 1..Cardinality(tags) |->
            LET t == CHOOSE t \in tags : Place(t) = i IN Field(t, m[t])]

\* Wrong on purpose: the checksum is taken over the body, without the two fields
\* in front of it.
serialize_SumOfBody(m) ==
    LET body == FieldsOf(m, {BeginString, BodyLength, CheckSum})
    IN  <<Field(BeginString, "4.4"), Field(BodyLength, to_string[ByteCount(body)])>>
            \o body \o <<Field(CheckSum, padded[Sum(body)])>>

serialize(m) ==
    LET body    == FieldsOf(m, {BeginString, BodyLength, CheckSum})
        content == <<Field(BeginString, "4.4"),
                     Field(BodyLength, to_string[ByteCount(body)])>> \o body
    IN  Append(content, Field(CheckSum, padded[Sum(content)]))

\* Wrong on purpose: a tag that stoi does not read is kept.
parse_All(raw) ==
    LET Of(tag) == {i \in DOMAIN raw.tokens : number[raw.tokens[i].tag] = tag}
    IN  [tag \in {number[raw.tokens[i].tag] : i \in DOMAIN raw.tokens} |->
            raw.tokens[Max(Of(tag))].value]

\* A field of each tag that stoi reads, the last one where there are several.
parse(raw) ==
    LET Of(tag) == {i \in DOMAIN raw.tokens : number[raw.tokens[i].tag] = tag}
    IN  [tag \in {number[raw.tokens[i].tag] : i \in DOMAIN raw.tokens} \ {NaN} |->
            raw.tokens[Max(Of(tag))].value]

-----------------------------------------------------------------------------
(* The two validators. *)

\* Where rfind finds SOH "10=": never at the start of the message.
ChecksumsIn(tokens) == {i \in 2..Len(tokens) : tokens[i].tag = to_string[CheckSum]}

\* Wrong on purpose: without a checksum there is nothing to find fault with.
validate_raw_Optional(raw) ==
    LET at == ChecksumsIn(raw.tokens)
    IN  at # {} =>
        /\ ~(raw.open /\ Max(at) = Len(raw.tokens))
        /\ number[raw.tokens[Max(at)].value] = Sum(SubSeq(raw.tokens, 1, Max(at) - 1))

validate_raw(raw) ==
    LET at == ChecksumsIn(raw.tokens)
    IN  /\ at # {}
        /\ ~(raw.open /\ Max(at) = Len(raw.tokens))
        /\ number[raw.tokens[Max(at)].value] = Sum(SubSeq(raw.tokens, 1, Max(at) - 1))

\* Wrong on purpose: BodyLength, which is not in the body, is left out.
validate_map_WithoutLength(m) ==
    /\ CheckSum \in DOMAIN m
    /\ number[m[CheckSum]] = Sum(FieldsOf(m, {BodyLength, CheckSum}))

validate_map(m) ==
    /\ CheckSum \in DOMAIN m
    /\ number[m[CheckSum]] = Sum(FieldsOf(m, {CheckSum}))

-----------------------------------------------------------------------------
(* The builders. *)

\* The std::map with these fields, pairs of a tag and a value, at most one of a tag.
FixMessage(fields) ==
    [tag \in {f[1] : f \in fields} |-> (CHOOSE f \in fields : f[1] = tag)[2]]

\* The builders, by the fields that each puts into its message before it is serialized.
Header(type, r) ==
    {<<MsgType, type>>, <<SenderCompID, r.sender>>, <<TargetCompID, r.target>>,
     <<MsgSeqNum, to_string[r.seq]>>, <<SendingTime, Epoch>>}

Instrument(r) ==
    {<<Symbol, r.symbol>>, <<Side, to_string[r.side]>>, <<OrderQty, to_string[r.qty]>>}

make_logon(r) == Header("A", r)

make_heartbeat(r) ==
    Header("0", r) \cup (IF r.test_req_id = "" THEN {} ELSE {<<TestReqID, r.test_req_id>>})

make_new_order_single(r) ==
    Header("D", r) \cup Instrument(r)
        \cup {<<ClOrdID, r.cl_ord_id>>, <<Price, r.price>>, <<TimeInForce, "0">>,
              <<TransactTime, Epoch>>}

\* exec_id stands for "exec_" followed by cl_ord_id.
make_execution_report(r) ==
    Header("8", r) \cup Instrument(r)
        \cup {<<OrderID, r.order_id>>, <<ClOrdID, r.cl_ord_id>>, <<ExecID, r.exec_id>>,
              <<ExecType, r.exec_type>>, <<OrdStatus, r.exec_type>>, <<Price, r.price>>,
              <<TransactTime, Epoch>>}

make_order_cancel_request(r) ==
    Header("F", r) \cup Instrument(r)
        \cup {<<OrigClOrdID, r.cl_ord_id>>, <<OrderID, r.order_id>>}

make_trade_capture_report(r) ==
    Header("AE", r) \cup Instrument(r)
        \cup {<<TradeReportID, r.report_id>>, <<Price, r.price>>, <<TransactTime, Epoch>>}

\* The builder a request is for.
fields(r) ==
    CASE r.type = "Logon"              -> make_logon(r)
      [] r.type = "Heartbeat"          -> make_heartbeat(r)
      [] r.type = "NewOrderSingle"     -> make_new_order_single(r)
      [] r.type = "ExecutionReport"    -> make_execution_report(r)
      [] r.type = "OrderCancelRequest" -> make_order_cancel_request(r)
      [] r.type = "TradeCaptureReport" -> make_trade_capture_report(r)

make(r) == FixMessage(fields(r))

MsgTypeNames ==
    [type \in {"A", "0", "1", "D", "8", "F", "AE"} |->
        CASE type = "A"  -> "Logon"           [] type = "0" -> "Heartbeat"
          [] type = "1"  -> "TestRequest"     [] type = "D" -> "NewOrderSingle"
          [] type = "8"  -> "ExecutionReport" [] type = "F" -> "OrderCancelRequest"
          [] type = "AE" -> "TradeCaptureReport"]

get_msg_type_name(m) ==
    IF MsgType \in DOMAIN m /\ m[MsgType] \in DOMAIN MsgTypeNames
    THEN MsgTypeNames[m[MsgType]] ELSE "Unknown"

\* std::to_string has a text for whatever is put into a message.
ASSUME NumberAssumption ==
    /\ {BeginString, BodyLength, CheckSum} \subseteq DOMAIN to_string
    /\ \A m \in Messages \cup {make(r) : r \in Requests} :
           DOMAIN m \cup {ByteCount(FieldsOf(m, {BeginString, BodyLength, CheckSum}))}
               \subseteq DOMAIN to_string

-----------------------------------------------------------------------------

NoMessage == [t \in {} |-> ""]

Init ==
    /\ sent = NoMessage /\ sender = "nobody"
    /\ wire = [tokens |-> <<>>, open |-> FALSE]
    /\ damage = "none"
    /\ output = <<>>

Transmit(m) ==
    /\ sender = "nobody"
    /\ sent' = m
    /\ wire' = [tokens |-> serialize(m), open |-> FALSE]
    /\ UNCHANGED <<damage, output>>

\* A builder makes and serializes a message.
Generate(r) == Transmit(make(r)) /\ sender' = r.type

Send(m) == Transmit(m) /\ sender' = "caller"

\* A counterparty has its own order of fields, may repeat some and write what
\* parse does not read.
Receive(tokens) ==
    /\ sender = "nobody" /\ sender' = "counterparty"
    /\ wire' = [tokens |-> Append(tokens, Field(CheckSum, padded[Sum(tokens)])), open |-> FALSE]
    /\ UNCHANGED <<sent, damage, output>>

OnTheWay == sender # "nobody" /\ damage = "none" /\ output = <<>>

Unreadable     == [tag |-> "-", value |-> ""]
Instead(is, x) == {s \in Strays : CASE is = "as long as"   -> length[s] = length[x]
                                    [] is = "shorter than" -> length[s] < length[x]
                                    [] is = "longer than"  -> length[s] > length[x]}

\* What a token becomes when one byte of it is altered, or becomes the SOH that splits it.
Altered(t) ==
    {<<[t EXCEPT !.value = v]>> : v \in Instead("as long as", t.value)}
    \cup {<<[t EXCEPT !.tag = g]>> : g \in Instead("as long as", t.tag)}
    \cup {<<[t EXCEPT !.value = v], Unreadable>> : v \in Instead("shorter than", t.value)}
    \cup {<<Unreadable, [t EXCEPT !.tag = g]>> : g \in Instead("shorter than", t.tag)}
    \cup {<<Unreadable>>}

\* What becomes of two tokens when the SOH between them is altered.
Joined(t) == {<<[t EXCEPT !.value = v]>> : v \in Instead("longer than", t.value)}

\* Two different bytes differ modulo 256, and so do the sums.
Replace(i, j, new) ==
    /\ Sum(new) # Sum(SubSeq(wire.tokens, i, j))
    /\ wire' = [wire EXCEPT !.tokens = SubSeq(@, 1, i - 1) \o new \o SubSeq(@, j + 1, Len(@))]

\* One byte is altered.
Alter ==
    /\ OnTheWay
    /\ \E i \in DOMAIN wire.tokens :
           \/ \E new \in Altered(wire.tokens[i]) : Replace(i, i, new)
           \/ /\ i < Len(wire.tokens)
              /\ \E new \in Joined(wire.tokens[i]) : Replace(i, i + 1, new)
    /\ damage' = "altered"
    /\ UNCHANGED <<sent, sender, output>>

\* The rest of the message is lost, from the end of a token on, or from within one.
Truncate ==
    /\ OnTheWay
    /\ \E n \in 0..(Len(wire.tokens) - 1) :
           \/ wire' = [tokens |-> SubSeq(wire.tokens, 1, n), open |-> FALSE]
           \/ \E v \in Instead("shorter than", wire.tokens[n + 1].value)
                          \cup {wire.tokens[n + 1].value} :
                  wire' = [tokens |-> Append(SubSeq(wire.tokens, 1, n),
                                             [wire.tokens[n + 1] EXCEPT !.value = v]),
                           open |-> TRUE]
    /\ damage' = "truncated"
    /\ UNCHANGED <<sent, sender, output>>

\* cmd_fix_parse.
Parse ==
    /\ sender # "nobody" /\ output = <<>>
    /\ output' = <<parse(wire), get_msg_type_name(parse(wire)), validate_raw(wire)>>
    /\ UNCHANGED <<sent, sender, wire, damage>>

Next ==
    \/ \E r \in Requests : Generate(r)
    \/ \E m \in Messages : Send(m)
    \/ \E tokens \in Received : Receive(tokens)
    \/ Alter \/ Truncate \/ Parse

Spec == Init /\ [][Next]_vars

-----------------------------------------------------------------------------
(* Properties. *)

\* Every variable has its type.
TypeOK ==
    /\ IsMessage(sent)
    /\ sender \in {"nobody", "caller", "counterparty"} \cup {r.type : r \in Requests}
    /\ wire \in Raw
    /\ damage \in {"none", "altered", "truncated"}
    /\ output # <<>> => IsMessage(output[1]) /\ output[3] \in BOOLEAN

FromHandler == sender \notin {"nobody", "counterparty"}

\* A message of the handler's own that arrives undamaged is read as it was sent, with the
\* session fields replaced by those serialize has made; both validators accept it;
\* and one from a builder is recognized as what it was built as.
IntactArrives ==
    FromHandler /\ damage = "none" /\ output # <<>> =>
        LET body == DOMAIN sent \ {BeginString, BodyLength, CheckSum}
            read == output[1]
        IN  /\ DOMAIN read = body \cup {BeginString, BodyLength, CheckSum}
            /\ \A t \in body : read[t] = sent[t]
            /\ output[3] /\ validate_map(read)
            /\ sender # "caller" => output[2] = sender

\* What a checksum is about.
Content(tokens) ==
    IF ChecksumsIn(tokens) = {} THEN tokens ELSE SubSeq(tokens, 1, Max(ChecksumsIn(tokens)) - 1)

\* What validate_checksum accepts after a byte was altered or the end was lost has
\* everything in front of its checksum as it was sent: the damage was to the checksum
\* alone, and left its number as it was.
AcceptedIsIntact ==
    FromHandler /\ damage # "none" /\ output # <<>> /\ output[3] =>
        Content(wire.tokens) = Front(serialize(sent))

\* The validator of raw messages and the one of parsed ones agree on every message,
\* damaged or not, that ends in its checksum field and in which parse drops and
\* respells nothing.
Faithful(tokens) ==
    /\ \A i \in DOMAIN tokens : /\ number[tokens[i].tag] # NaN
                                /\ tokens[i].tag = to_string[number[tokens[i].tag]]
    /\ \A i, j \in DOMAIN tokens : tokens[i].tag = tokens[j].tag => i = j

ValidatorsAgree ==
    output # <<>> /\ ~wire.open /\ Len(wire.tokens) > 1 /\ Faithful(wire.tokens)
        /\ Last(wire.tokens).tag = to_string[CheckSum] =>
            output[3] = validate_map(output[1])

=============================================================================
