----------------------------- MODULE Broadcaster ----------------------------
(***************************************************************************)
(* The class ExceptionBroadcaster of python/recon/dashboard/websocket.py:  *)
(* coroutines of one asyncio loop that share the set _clients.  handler    *)
(* adds its client when it begins and discards it when the connection has  *)
(* ended; broadcast iterates over the set and awaits a send to each        *)
(* client, so that clients come and go, and other broadcasts run, while    *)
(* the iteration is under way.                                             *)
(*                                                                         *)
(* The iterator of a Python set remembers the size the set had when it was *)
(* made and raises RuntimeError at its next step if the size differs, even *)
(* after the last element.  It does not notice an addition and a removal   *)
(* that leave the size as it was; which of the remaining clients it yields *)
(* then depends on the hash table and is left open, and after an addition  *)
(* for which the table grew it may yield clients a second time.  A send to *)
(* an open connection is written in the order of the calls; a send to a    *)
(* closed one raises at any time.                                          *)
(***************************************************************************)
EXTENDS Integers, SequencesExt, FiniteSets

CONSTANTS
    ClientOrder,     \* the clients, in the order of the set's hash table
    NoClient,        \* no send is under way
    NumEvents        \* bound: the events broadcast, one call each

Clients == ToSet(ClientOrder)
Events  == 1..NumEvents

ASSUME ClientAssumption ==
    ClientOrder \in Seq(Clients) /\ IsInjective(ClientOrder) /\ NoClient \notin Clients
ASSUME EventAssumption == NumEvents \in Nat

VARIABLES
    _clients,        \* the set the coroutines share
    link,            \* the connection of each client
    handling,        \* the clients whose handler has begun and not ended
    received,        \* the events each client has been sent, in order
    phase,           \* where the broadcast of each event is
    at,              \* the client its current send is to
    queue,           \* the broadcasts awaiting a send to each client, in order
    used,            \* the size of the set its iterator remembers
    seen,            \* the clients its iterator will not yield again
    disturbed,       \* was a client added since the iterator was made?
    dead,            \* the local variable dead
    addressed        \* history: _clients when the broadcast began

iteration == <<phase, at, queue, used, dead, addressed>>
vars == <<_clients, link, handling, received, disturbed, seen, iteration>>

-----------------------------------------------------------------------------

Init ==
    /\ _clients = {} /\ handling = {}
    /\ link = [w \in Clients |-> "none"]
    /\ received = [w \in Clients |-> <<>>]
    /\ phase = [e \in Events |-> "idle"]
    /\ at = [e \in Events |-> NoClient]
    /\ queue = [w \in Clients |-> <<>>]
    /\ used = [e \in Events |-> 0]
    /\ seen = [e \in Events |-> {}]
    /\ disturbed = [e \in Events |-> FALSE]
    /\ dead = [e \in Events |-> {}]
    /\ addressed = [e \in Events |-> {}]

\* A client connects and its handler begins.
Connect(w) ==
    /\ link[w] = "none"
    /\ link' = [link EXCEPT ![w] = "open"]
    /\ handling' = handling \cup {w}
    /\ _clients' = _clients \cup {w}
    /\ disturbed' = [e \in Events |-> disturbed[e] \/ phase[e] = "sending"]
    /\ \E table_grew \in BOOLEAN :
           seen' = [e \in Events |-> IF table_grew THEN {} ELSE seen[e]]
    /\ UNCHANGED <<received, iteration>>

\* The connection ends; the handler and the broadcasts have yet to find out.
Drop(w) ==
    /\ link[w] = "open"
    /\ link' = [link EXCEPT ![w] = "closed"]
    /\ UNCHANGED <<_clients, handling, received, disturbed, seen, iteration>>

Leave_Registered(w) ==   \* Wrong on purpose: the handler ends without discard.
    /\ link[w] = "closed" /\ w \in handling
    /\ handling' = handling \ {w}
    /\ UNCHANGED <<_clients, link, received, disturbed, seen, iteration>>

\* The handler's async for ends with the connection, and its finally discards.
Leave(w) ==
    /\ link[w] = "closed" /\ w \in handling
    /\ handling' = handling \ {w}
    /\ _clients' = _clients \ {w}
    /\ UNCHANGED <<link, received, disturbed, seen, iteration>>

-----------------------------------------------------------------------------
(* broadcast. *)

\* What the iterator may yield next, and whether it may end, when the size of the
\* set has not changed.
Earlier(v, w) == \E i, j \in DOMAIN ClientOrder :
                     i < j /\ ClientOrder[i] = v /\ ClientOrder[j] = w

Unseen(e) == _clients \ seen[e]

Yields(e) ==
    IF disturbed[e] THEN Unseen(e)
    ELSE {w \in Unseen(e) : \A v \in Unseen(e) : ~Earlier(v, w)}

MayEnd(e) == disturbed[e] \/ Unseen(e) = {}

SendTo(e, w, q) ==
    /\ phase' = [phase EXCEPT ![e] = "sending"]
    /\ at' = [at EXCEPT ![e] = w]
    /\ seen' = [seen EXCEPT ![e] = @ \cup {w}]
    /\ queue' = [q EXCEPT ![w] = Append(@, e)]

\* A broadcast begins: it returns at once when there is no client, and otherwise
\* makes its iterator and calls the first send.  Events are numbered as they come.
Broadcast(e) ==
    /\ phase[e] = "idle"
    /\ \A d \in Events : d < e => phase[d] # "idle"
    /\ addressed' = [addressed EXCEPT ![e] = _clients]
    /\ \/ /\ _clients = {}
          /\ phase' = [phase EXCEPT ![e] = "returned"]
          /\ UNCHANGED <<at, queue, used, seen>>
       \/ /\ used' = [used EXCEPT ![e] = Cardinality(_clients)]
          /\ \E w \in Yields(e) : SendTo(e, w, queue)
    /\ UNCHANGED <<_clients, link, handling, received, disturbed, dead>>

EndsAs(e, outcome, q) ==
    /\ phase' = [phase EXCEPT ![e] = outcome]
    /\ at' = [at EXCEPT ![e] = NoClient]
    /\ seen' = [seen EXCEPT ![e] = {}]
    /\ dead' = [dead EXCEPT ![e] = {}]
    /\ queue' = q

\* The awaited send is over, well or with an exception that marks the client as
\* dead, and the iterator takes its next step: to RuntimeError, to the next client,
\* or to the end, where the dead are removed from the set.
Proceed(e, newly_dead) ==
    LET all_dead == dead[e] \cup newly_dead
        rest     == [queue EXCEPT ![at[e]] = RemoveFirst(@, e)]
    IN  /\ \/ /\ Cardinality(_clients) # used[e]
              /\ EndsAs(e, "raised", rest)
              /\ UNCHANGED _clients
           \/ /\ Cardinality(_clients) = used[e]
              /\ \E w \in Yields(e) : SendTo(e, w, rest)
              /\ dead' = [dead EXCEPT ![e] = all_dead]
              /\ UNCHANGED _clients
           \/ /\ Cardinality(_clients) = used[e] /\ MayEnd(e)
              /\ EndsAs(e, "returned", rest)
              /\ _clients' = _clients \ all_dead
        /\ UNCHANGED <<link, handling, disturbed, used, addressed>>

FirstInLine(e) ==
    phase[e] = "sending" /\ link[at[e]] = "open" /\ e = Head(queue[at[e]])

\* Wrong on purpose: a send overtakes the sends called before it.
SendReturns_Overtaking(e) ==
    /\ phase[e] = "sending" /\ link[at[e]] = "open"
    /\ received' = [received EXCEPT ![at[e]] = Append(@, e)]
    /\ Proceed(e, {})

\* Wrong on purpose: a send is given up when another one waits behind it.
SendReturns_Lossy(e) ==
    /\ FirstInLine(e)
    /\ received' = IF Len(queue[at[e]]) > 1 THEN received
                   ELSE [received EXCEPT ![at[e]] = Append(@, e)]
    /\ Proceed(e, {})

SendReturns(e) ==
    /\ FirstInLine(e)
    /\ received' = [received EXCEPT ![at[e]] = Append(@, e)]
    /\ Proceed(e, {})

\* Wrong on purpose: the exception of a send is never noticed.
SendRaises_Lost(e) ==
    /\ phase[e] = "sending" /\ link[at[e]] = "closed"
    /\ UNCHANGED vars

\* Wrong on purpose: the loop variable is cleared before dead.add.
SendRaises_MarksNobody(e) ==
    /\ phase[e] = "sending" /\ link[at[e]] = "closed"
    /\ Proceed(e, {NoClient})
    /\ UNCHANGED received

SendRaises(e) ==
    /\ phase[e] = "sending" /\ link[at[e]] = "closed"
    /\ Proceed(e, {at[e]})
    /\ UNCHANGED received

SendEnds(e) == SendReturns(e) \/ SendRaises(e)

Next ==
    \/ \E w \in Clients : Connect(w) \/ Drop(w) \/ Leave(w)
    \/ \E e \in Events : Broadcast(e) \/ SendEnds(e)

Spec == Init /\ [][Next]_vars

\* A send ends: the websockets library pings its peers and closes the connections
\* that do not answer, whereupon the send raises.
FairSpec == Spec /\ \A e \in Events : WF_vars(SendEnds(e))

-----------------------------------------------------------------------------
(* Properties. *)

\* Every variable has its type.
TypeOK ==
    /\ _clients \subseteq Clients /\ handling \subseteq Clients
    /\ link \in [Clients -> {"none", "open", "closed"}]
    /\ received \in [Clients -> Seq(Events)] /\ queue \in [Clients -> Seq(Events)]
    /\ phase \in [Events -> {"idle", "sending", "returned", "raised"}]
    /\ at \in [Events -> Clients \cup {NoClient}]
    /\ used \in [Events -> 0..Len(ClientOrder)]
    /\ seen \in [Events -> SUBSET Clients] /\ dead \in [Events -> SUBSET Clients]
    /\ disturbed \in [Events -> BOOLEAN]
    /\ addressed \in [Events -> SUBSET Clients]

\* The set follows the connections: a client with an open connection is never
\* removed, neither by its handler nor as dead by a broadcast, and no client stays
\* once its handler has ended.
RegistryFollowsConnections ==
    /\ \A w \in handling : link[w] = "open" => w \in _clients
    /\ _clients \subseteq handling

\* A broadcast that returns, and during which nobody connected, has reached every
\* client it found whose connection is still open.
ReturnedReachedAll ==
    \A e \in Events : phase[e] = "returned" /\ ~disturbed[e] =>
        \A w \in addressed[e] : link[w] = "open" => e \in ToSet(received[w])

\* May e reach w before d, when d began first?  Only if e got past a client at which d
\* still waits: one ahead of w that both found and whose connection has ended, so that
\* the send of e raised first; or if somebody connected while one of the two was under
\* way, and the end of another connection hid that from its iterator.
MayOvertake(e, d, w) ==
    \E v \in Clients :
        /\ link[v] = "closed"
        /\ \/ disturbed[d] \/ disturbed[e]
           \/ v \in addressed[d] \cap addressed[e] /\ Earlier(v, w)

InTurn(e, d, w) == e < d \/ MayOvertake(e, d, w)

\* Broadcasts that overlap take turns at every client: what a client is sent comes in
\* the order in which the broadcasts began, and in no other unless a connection ahead of
\* it, that both of them found, has ended.  Other connections may end as they like.
EventsInOrder ==
    \A w \in Clients : \A i, j \in DOMAIN received[w] :
        i < j => InTurn(received[w][i], received[w][j], w)

\* Every broadcast comes to an end.
BroadcastsEnd ==
    \A e \in Events : phase[e] = "sending" ~> phase[e] \in {"returned", "raised"}

-----------------------------------------------------------------------------
(* What a comment states and the code does not do. *)

\* python/recon/dashboard/websocket.py:18 calls the class a broadcaster of live
\* updates: when a broadcast is over, the clients it found have been sent the event
\* unless their connection ended.
BroadcastReachedAll ==
    \A e \in Events : phase[e] \in {"returned", "raised"} =>
        \A w \in addressed[e] : link[w] = "open" => e \in ToSet(received[w])

=============================================================================
