------------------------- MODULE BroadcasterProofs --------------------------
(***************************************************************************)
(* Proofs about Broadcaster, for any number of clients and of events.      *)
(*                                                                         *)
(* The first part is about the registry: a client whose connection is open *)
(* is in _clients, and whom a broadcast takes for dead is closed.  From it *)
(* follows what a broadcast that returned has reached.  The second part is *)
(* about order.  While nobody connects, _clients only shrinks, and a       *)
(* broadcast that finds it smaller goes nowhere but to RuntimeError.  All  *)
(* others walk through the same clients in the same order, and get past    *)
(* one where an earlier broadcast still waits by an exception only.        *)
(***************************************************************************)
EXTENDS Broadcaster, FiniteSetTheorems, SequenceTheorems, TLAPS

\* A broadcast awaits a send; what a client has got; what is on its way to it.
Sending(e) == phase[e] = "sending"
Got(w)     == ToSet(received[w])
Waiting(w) == ToSet(queue[w])

\* The registry holds the open connections, and closed ones until they are handled.
Registered ==
    /\ \A w \in Clients : link[w] = "open" => w \in _clients
    /\ \A w \in handling : link[w] # "none"
    /\ _clients \subseteq handling

\* Who is taken for dead is closed, and who was found, or sent to, had connected.
DeadAreClosed ==
    /\ \A e \in Events : \A w \in dead[e] : link[w] = "closed"
    /\ \A e \in Events : \A w \in addressed[e] \cup seen[e] : link[w] # "none"

\* A broadcast under way waits in the queue of the client its send is to, once, and in
\* no other; what is not under way waits nowhere.
WaitsOnce ==
    /\ \A e \in Events : Sending(e) => at[e] \in Clients /\ e \in Waiting(at[e])
    /\ \A w \in Clients : \A d \in Waiting(w) : Sending(d) /\ at[d] = w
    /\ \A w \in Clients : \A i, j \in DOMAIN queue[w] : queue[w][i] = queue[w][j] => i = j

\* Before a broadcast begins nothing is known of it, and after it ended its iterator
\* is gone.  Broadcasts begin in their order.
Begun ==
    /\ \A e \in Events : ~Sending(e) => seen[e] = {}
    /\ \A e \in Events : phase[e] = "idle" => ~disturbed[e]
    /\ \A w \in Clients : \A d \in Got(w) : phase[d] # "idle"
    /\ \A d, e \in Events : d < e /\ phase[e] # "idle" => phase[d] # "idle"

\* A client behind which an iterator is has been sent the event, if it can be.
SeenGot ==
    \A e \in Events : Sending(e) =>
        \A w \in seen[e] \ {at[e]} : link[w] = "open" => e \in Got(w)

\* The inductive invariant.
IInv == TypeOK /\ Registered /\ DeadAreClosed /\ WaitsOnce /\ Begun /\ SeenGot

-----------------------------------------------------------------------------
(* Turns. *)

\* The pairs of events that may be sent to w in this order.
Turns(w) == {p \in Events \X Events : InTurn(p[1], p[2], w)}

\* A sequence in which later elements come after earlier ones, in the sense of R.
InOrder(q, R) == \A i, j \in DOMAIN q : i < j => <<q[i], q[j]>> \in R

\* No connection has ended, handled or not.
NoneClosed == \A w \in Clients : link[w] # "closed"

\* What a client was sent, and then what it will be sent next, is in order.
Sorted ==
    \A w \in Clients :
        /\ InOrder(received[w], Turns(w))
        /\ InOrder(queue[w], Turns(w))
        /\ \A d \in Got(w), e \in Waiting(w) : <<d, e>> \in Turns(w)

\* As long as no connection has ended, the set has grown beyond the size that the
\* iterator of a disturbed broadcast remembers.
WillRaise ==
    NoneClosed => \A e \in Events : Sending(e) =>
        /\ used[e] <= Cardinality(_clients)
        /\ disturbed[e] => used[e] < Cardinality(_clients)

\* Where e has yet to go, nobody was sent or waits for an event whose turn is later.
NotPassed(e) == \A w \in Unseen(e) : \A d \in Got(w) \cup Waiting(w) : <<d, e>> \in Turns(w)

\* An undisturbed broadcast remembers the size of the set it found, of which the set is
\* what is left.  It has seen the first clients, with the one its send is to; and while
\* the set is whole, so that it can go on, it has not been passed.
InStep ==
    \A e \in Events : Sending(e) /\ ~disturbed[e] =>
        /\ at[e] \in seen[e] /\ seen[e] \subseteq addressed[e] /\ _clients \subseteq addressed[e]
        /\ used[e] = Cardinality(addressed[e])
        /\ \A w \in seen[e], v \in _clients : Earlier(v, w) => v \in seen[e]
        /\ _clients = addressed[e] => NotPassed(e)

\* A broadcast has found nobody before it begins.
IdleUnknown == \A e \in Events : phase[e] = "idle" => addressed[e] = {}

\* What keeps events in order.
OrderInv == Sorted /\ WillRaise /\ InStep /\ IdleUnknown

-----------------------------------------------------------------------------
(* Sequences of events. *)

\* A queue with one more event.
LEMMA AppendFacts ==
    ASSUME NEW q \in Seq(Events), NEW e \in Events
    PROVE  /\ Append(q, e) \in Seq(Events)
           /\ ToSet(Append(q, e)) = ToSet(q) \cup {e}
           /\ DOMAIN Append(q, e) = DOMAIN q \cup {Len(q) + 1}
           /\ Len(q) \in Nat /\ DOMAIN q = 1..Len(q)
           /\ Append(q, e)[Len(q) + 1] = e
           /\ \A i \in DOMAIN q : Append(q, e)[i] = q[i]
<1>1. Len(q) \in Nat /\ DOMAIN q = 1..Len(q)
  BY LenProperties
<1>2. /\ Append(q, e) \in Seq(Events) /\ Len(Append(q, e)) = Len(q) + 1
      /\ Append(q, e)[Len(q) + 1] = e
      /\ \A i \in 1..Len(q) : Append(q, e)[i] = q[i]
  BY AppendProperties
<1>3. DOMAIN Append(q, e) = 1..(Len(q) + 1)
  BY <1>2, LenProperties
<1>4. 1..(Len(q) + 1) = (1..Len(q)) \cup {Len(q) + 1}
  BY <1>1
<1>5. ToSet(Append(q, e)) = ToSet(q) \cup {e}
  BY <1>1, <1>2, <1>3, <1>4 DEF ToSet
<1> QED
  BY <1>1, <1>2, <1>3, <1>4, <1>5

\* A queue that is in order stays so with a later event at its end, and holds none twice
\* when a new one comes.
LEMMA AppendKeeps ==
    ASSUME NEW q \in Seq(Events), NEW e \in Events
    PROVE  /\ /\ \A i, j \in DOMAIN q : q[i] = q[j] => i = j
              /\ e \notin ToSet(q)
              => \A i, j \in DOMAIN Append(q, e) :
                     Append(q, e)[i] = Append(q, e)[j] => i = j
           /\ \A R : InOrder(q, R) /\ (\A d \in ToSet(q) : <<d, e>> \in R)
                     => InOrder(Append(q, e), R)
<1>1. \A i \in DOMAIN q : q[i] \in ToSet(q) /\ i < Len(q) + 1 /\ ~(Len(q) + 1 < i)
  BY AppendFacts DEF ToSet
<1>2. \A i \in DOMAIN Append(q, e) :
          \/ i \in DOMAIN q /\ Append(q, e)[i] = q[i]
          \/ i = Len(q) + 1 /\ Append(q, e)[i] = e
  <2>1. /\ DOMAIN Append(q, e) = DOMAIN q \cup {Len(q) + 1}
        /\ Append(q, e)[Len(q) + 1] = e
        /\ \A i \in DOMAIN q : Append(q, e)[i] = q[i]
    BY AppendFacts
  <2> QED
    BY <2>1, Zenon
<1>3. ~(Len(q) + 1 < Len(q) + 1)
  BY AppendFacts
<1>4. /\ \A i, j \in DOMAIN q : q[i] = q[j] => i = j
      /\ e \notin ToSet(q)
      => \A i, j \in DOMAIN Append(q, e) : Append(q, e)[i] = Append(q, e)[j] => i = j
  BY <1>1, <1>2
<1>5. ASSUME NEW R, InOrder(q, R), \A d \in ToSet(q) : <<d, e>> \in R
      PROVE  InOrder(Append(q, e), R)
  BY <1>1, <1>2, <1>3, <1>5 DEF InOrder
<1> QED
  BY <1>4, <1>5

\* The least of a set of positions.
LEMMA LeastExists ==
    ASSUME NEW S, S \subseteq Nat, S # {}
    PROVE  Min(S) \in S /\ \A j \in S : Min(S) <= j
<1> DEFINE R == {ss \in Nat \X Nat : ss[1] < ss[2]}
<1>1. IsWellFoundedOn(R, Nat)
  BY NatLessThanWellFounded DEF OpToRel
<1> HIDE DEF R
<1>2. PICK x \in S : \A y \in S : ~ (<<y, x>> \in R)
  BY <1>1, WFMin
<1>3. \A y \in S : x \in Nat /\ y \in Nat /\ ~(y < x)
  BY <1>2 DEF R
<1>4. \A y \in S : x <= y
  BY <1>3
<1> QED BY <1>4 DEF Min

\* A queue without one of its events.
LEMMA RemoveFacts ==
    ASSUME NEW q \in Seq(Events), NEW e \in ToSet(q)
    PROVE  \E n \in DOMAIN q :
               LET r == RemoveFirst(q, e)
               IN  /\ q[n] = e
                   /\ r \in Seq(Events) /\ Len(q) \in Nat /\ DOMAIN q = 1..Len(q)
                   /\ DOMAIN r = 1..(Len(q) - 1)
                   /\ \A i \in 1..(Len(q) - 1) : r[i] = IF i < n THEN q[i] ELSE q[i + 1]
<1>1. Len(q) \in Nat /\ DOMAIN q = 1..Len(q) /\ \A i \in 1..Len(q) : q[i] \in Events
  BY LenProperties, ElementOfSeq
<1> DEFINE I == {i \in 1..Len(q) : q[i] = e}
           n == Min(I)
<1>2. I # {} /\ \E i \in 1..Len(q) : q[i] = e
  BY <1>1 DEF ToSet
<1>3. I \subseteq Nat
  BY <1>1
<1>4. n \in I
  BY <1>2, <1>3, LeastExists
<1>5. RemoveFirst(q, e) = RemoveAt(q, n)
  BY <1>2 DEF RemoveFirst, SelectInSeq
<1> HIDE DEF n
<1>6. n \in 1..Len(q) /\ q[n] = e
  BY <1>4
<1> DEFINE a == SubSeq(q, 1, n - 1)
           b == SubSeq(q, n + 1, Len(q))
<1>7. n \in Int /\ n - 1 \in Int /\ n + 1 \in Int /\ Len(q) \in Int
  BY <1>1, <1>6
<1>8. (\A i \in 1..(n - 1) : q[i] \in Events) /\ \A i \in (n + 1)..Len(q) : q[i] \in Events
  BY <1>1, <1>6
<1>9. /\ a \in Seq(Events) /\ Len(a) = n - 1
      /\ \A i \in 1..(n - 1) : a[i] = q[i]
  <2>1. /\ a \in Seq(Events) /\ Len(a) = IF 1 <= n - 1 THEN n - 1 - 1 + 1 ELSE 0
        /\ \A i \in 1..(n - 1 - 1 + 1) : a[i] = q[1 + i - 1]
    BY <1>7, <1>8, SubSeqProperties
  <2> QED
    BY <2>1, <1>6, <1>1
<1>10. /\ b \in Seq(Events) /\ Len(b) = Len(q) - n
       /\ \A i \in 1..(Len(q) - n) : b[i] = q[i + n]
  <2>1. /\ b \in Seq(Events) /\ Len(b) = IF n + 1 <= Len(q) THEN Len(q) - (n + 1) + 1 ELSE 0
        /\ \A i \in 1..(Len(q) - (n + 1) + 1) : b[i] = q[n + 1 + i - 1]
    BY <1>7, <1>8, SubSeqProperties
  <2>2. \A i \in 1..(Len(q) - n) :
            i \in 1..(Len(q) - (n + 1) + 1) /\ n + 1 + i - 1 = i + n
    BY <1>1, <1>6
  <2>3. Len(b) = Len(q) - n
    BY <2>1, <1>6, <1>1
  <2>4. \A i \in 1..(Len(q) - n) : b[i] = q[i + n]
    <3> SUFFICES ASSUME NEW i \in 1..(Len(q) - n) PROVE b[i] = q[i + n]
      OBVIOUS
    <3>1. b[i] = q[n + 1 + i - 1] /\ n + 1 + i - 1 = i + n
      BY <2>1, <2>2
    <3> QED
      BY ONLY <3>1
  <2> QED
    BY <2>1, <2>3, <2>4
<1> HIDE DEF a, b
<1>11. /\ a \o b \in Seq(Events) /\ Len(a \o b) = Len(q) - 1
       /\ \A i \in 1..(Len(q) - 1) : (a \o b)[i] = IF i <= n - 1 THEN a[i] ELSE b[i - (n - 1)]
  <2>1. Len(a) + Len(b) = Len(q) - 1
    BY <1>9, <1>10, <1>1, <1>6
  <2>2. /\ a \o b \in Seq(Events) /\ Len(a \o b) = Len(a) + Len(b)
        /\ \A i \in 1..(Len(a) + Len(b)) : (a \o b)[i] = IF i <= Len(a) THEN a[i] ELSE b[i - Len(a)]
    BY <1>9, <1>10, ConcatProperties
  <2> QED
    BY ONLY <2>1, <2>2, <1>9
<1>12. DOMAIN (a \o b) = 1..(Len(q) - 1)
  BY <1>11, LenProperties
<1>13. \A i \in 1..(Len(q) - 1) : (a \o b)[i] = IF i < n THEN q[i] ELSE q[i + 1]
  <2> SUFFICES ASSUME NEW i \in 1..(Len(q) - 1)
               PROVE  (a \o b)[i] = IF i < n THEN q[i] ELSE q[i + 1]
    OBVIOUS
  <2>1. CASE i < n
    <3>1. i <= n - 1 /\ i \in 1..(n - 1)
      BY <2>1, <1>1, <1>6
    <3> QED
      BY <3>1, <2>1, <1>9, <1>11
  <2>2. CASE ~(i < n)
    <3>1. ~(i <= n - 1) /\ i - (n - 1) \in 1..(Len(q) - n) /\ i - (n - 1) + n = i + 1
      BY <2>2, <1>1, <1>6
    <3>2. (a \o b)[i] = b[i - (n - 1)] /\ b[i - (n - 1)] = q[i - (n - 1) + n]
      BY <3>1, <1>10, <1>11
    <3> QED
      BY ONLY <3>1, <3>2, <2>2
  <2> QED
    BY <2>1, <2>2
<1>14. RemoveFirst(q, e) = a \o b
  BY <1>5 DEF RemoveAt, a, b
<1> QED
  BY <1>1, <1>6, <1>11, <1>12, <1>13, <1>14

\* It is the same queue otherwise.
LEMMA RemoveKeeps ==
    ASSUME NEW q \in Seq(Events), NEW e \in ToSet(q),
           \A i, j \in DOMAIN q : q[i] = q[j] => i = j
    PROVE  LET r == RemoveFirst(q, e)
           IN  /\ r \in Seq(Events)
               /\ ToSet(r) = ToSet(q) \ {e}
               /\ \A i, j \in DOMAIN r : r[i] = r[j] => i = j
               /\ \A R : InOrder(q, R) => InOrder(r, R)
<1> DEFINE r == RemoveFirst(q, e)
<1>1. PICK n \in DOMAIN q :
          /\ q[n] = e
          /\ r \in Seq(Events) /\ Len(q) \in Nat /\ DOMAIN q = 1..Len(q)
          /\ DOMAIN r = 1..(Len(q) - 1)
          /\ \A i \in 1..(Len(q) - 1) : r[i] = IF i < n THEN q[i] ELSE q[i + 1]
  BY RemoveFacts
<1> HIDE DEF r
<1> DEFINE from(i) == IF i < n THEN i ELSE i + 1
<1>2. \A i \in DOMAIN r : from(i) \in DOMAIN q /\ from(i) # n /\ r[i] = q[from(i)]
  BY <1>1
<1>3. \A i, j \in DOMAIN r : (from(i) = from(j) => i = j) /\ (i < j => from(i) < from(j))
  BY <1>1
<1>4. \A k \in DOMAIN q : k # n => \E i \in DOMAIN r : from(i) = k
  <2> SUFFICES ASSUME NEW k \in 1..Len(q), k # n
               PROVE  \E i \in 1..(Len(q) - 1) : from(i) = k
    BY <1>1
  <2>1. CASE k < n
    BY <2>1, <1>1
  <2>2. CASE k > n
    <3>1. k - 1 \in 1..(Len(q) - 1) /\ from(k - 1) = k
      BY <2>2, <1>1
    <3> QED
      BY <3>1
  <2> QED
    BY <2>1, <2>2, <1>1
<1> HIDE DEF from
<1>5. ToSet(r) \subseteq ToSet(q) \ {e}
  BY <1>1, <1>2 DEF ToSet
<1>6. ToSet(q) \ {e} \subseteq ToSet(r)
  <2> SUFFICES ASSUME NEW k \in DOMAIN q, q[k] # e
               PROVE  q[k] \in ToSet(r)
    BY DEF ToSet
  <2>1. PICK i \in DOMAIN r : from(i) = k
    BY <1>1, <1>4
  <2> QED
    BY <2>1, <1>2 DEF ToSet
<1>7. \A i, j \in DOMAIN r : r[i] = r[j] => i = j
  BY <1>2, <1>3
<1>8. \A R : InOrder(q, R) => InOrder(r, R)
  BY <1>2, <1>3 DEF InOrder
<1>9. r \in Seq(Events)
  BY <1>1
<1> QED
  BY <1>5, <1>6, <1>7, <1>8, <1>9 DEF r

-----------------------------------------------------------------------------
(* The set and the queues. *)

\* There are as many clients as the order of the table has places, at most.
LEMMA ClientsCounted ==
    ASSUME NEW S, S \subseteq Clients
    PROVE  /\ IsFiniteSet(S) /\ Cardinality(S) \in Nat
           /\ Cardinality(S) \in 0..Len(ClientOrder)
<1>1. Len(ClientOrder) \in Nat /\ ClientOrder \in [1..Len(ClientOrder) -> Clients]
  BY ClientAssumption, LenProperties
<1>2. \A w \in Clients : \E i \in 1..Len(ClientOrder) : ClientOrder[i] = w
  BY <1>1 DEF Clients, ToSet
<1>3. ClientOrder \in Surjection(1..Len(ClientOrder), Clients)
  BY <1>1, <1>2 DEF Surjection
<1>4. IsFiniteSet(1..Len(ClientOrder)) /\ Cardinality(1..Len(ClientOrder)) = Len(ClientOrder)
  BY <1>1, FS_Interval
<1>5. IsFiniteSet(Clients) /\ Cardinality(Clients) <= Len(ClientOrder)
  BY <1>3, <1>4, FS_Surjection
<1>6. IsFiniteSet(S) /\ Cardinality(S) <= Cardinality(Clients)
  BY <1>5, FS_Subset
<1>7. Cardinality(S) \in Nat /\ Cardinality(Clients) \in Nat
  BY <1>5, <1>6, FS_CardinalityType
<1> QED
  BY <1>1, <1>5, <1>6, <1>7

\* The order of the table puts one of two clients first.
LEMMA EarlierTotal ==
    ASSUME NEW v \in Clients, NEW w \in Clients, v # w
    PROVE  Earlier(v, w) \/ Earlier(w, v)
<1>1. PICK i \in DOMAIN ClientOrder, j \in DOMAIN ClientOrder :
          ClientOrder[i] = v /\ ClientOrder[j] = w
  BY DEF Clients, ToSet
<1>2. i \in Nat /\ j \in Nat /\ i # j
  BY <1>1, ClientAssumption, LenProperties
<1>3. i < j \/ j < i
  BY <1>2
<1> QED
  BY <1>1, <1>3 DEF Earlier

\* Clients are sent events and wait for events.
LEMMA AllAreEvents ==
    ASSUME TypeOK
    PROVE  \A v \in Clients : Got(v) \subseteq Events /\ Waiting(v) \subseteq Events
<1> SUFFICES ASSUME NEW v \in Clients
             PROVE  ToSet(received[v]) \subseteq Events /\ ToSet(queue[v]) \subseteq Events
  BY DEF Got, Waiting
<1>1. received[v] \in Seq(Events) /\ queue[v] \in Seq(Events)
  BY DEF TypeOK
<1>2. /\ \A i \in DOMAIN received[v] : received[v][i] \in Events
      /\ \A i \in DOMAIN queue[v] : queue[v][i] \in Events
  BY <1>1, LenProperties, ElementOfSeq
<1> QED
  BY <1>2 DEF ToSet

\* The queues when the send of e is over.
Rest(e) == [queue EXCEPT ![at[e]] = RemoveFirst(@, e)]

\* Ending the send of e takes e out of one queue and keeps the order of the others.
LEMMA RestFacts ==
    ASSUME TypeOK, WaitsOnce, NEW e \in Events, Sending(e)
    PROVE  /\ at[e] \in Clients
           /\ Rest(e) \in [Clients -> Seq(Events)]
           /\ \A w \in Clients :
                  /\ ToSet(Rest(e)[w]) = Waiting(w) \ {e}
                  /\ \A i, j \in DOMAIN Rest(e)[w] : Rest(e)[w][i] = Rest(e)[w][j] => i = j
                  /\ \A R : InOrder(queue[w], R) => InOrder(Rest(e)[w], R)
<1>1. at[e] \in Clients /\ e \in Waiting(at[e])
  BY DEF WaitsOnce
<1>2. queue \in [Clients -> Seq(Events)] /\ queue[at[e]] \in Seq(Events)
  BY <1>1 DEF TypeOK
<1>3. \A i, j \in DOMAIN queue[at[e]] : queue[at[e]][i] = queue[at[e]][j] => i = j
  BY <1>1 DEF WaitsOnce
<1> DEFINE r == RemoveFirst(queue[at[e]], e)
<1>4. /\ r \in Seq(Events)
      /\ ToSet(r) = ToSet(queue[at[e]]) \ {e}
      /\ \A i, j \in DOMAIN r : r[i] = r[j] => i = j
      /\ \A R : InOrder(queue[at[e]], R) => InOrder(r, R)
  BY <1>1, <1>2, <1>3, RemoveKeeps DEF Waiting
<1> HIDE DEF r
<1>5. /\ Rest(e) = [queue EXCEPT ![at[e]] = r]
      /\ Rest(e)[at[e]] = r /\ \A w \in Clients : w # at[e] => Rest(e)[w] = queue[w]
  BY <1>1, <1>2 DEF Rest, r
<1>6. Rest(e) \in [Clients -> Seq(Events)]
  BY <1>1, <1>2, <1>4, <1>5
<1>7. ASSUME NEW w \in Clients
      PROVE  /\ ToSet(Rest(e)[w]) = Waiting(w) \ {e}
             /\ \A i, j \in DOMAIN Rest(e)[w] : Rest(e)[w][i] = Rest(e)[w][j] => i = j
             /\ \A R : InOrder(queue[w], R) => InOrder(Rest(e)[w], R)
  <2>1. CASE w = at[e]
    BY <2>1, <1>4, <1>5 DEF Waiting
  <2>2. CASE w # at[e]
    <3>1. Rest(e)[w] = queue[w] /\ e \notin Waiting(w)
      BY <2>2, <1>5 DEF WaitsOnce
    <3> QED
      BY <3>1 DEF Waiting, WaitsOnce
  <2> QED
    BY <2>1, <2>2
<1> QED
  BY <1>1, <1>6, <1>7

\* A send is called: the broadcast is under way, at w, and last in its queue.
LEMMA SendToEffect ==
    ASSUME TypeOK, NEW e \in Events, NEW w \in Clients,
           NEW q \in [Clients -> Seq(Events)], SendTo(e, w, q)
    PROVE  /\ phase' \in [Events -> {"idle", "sending", "returned", "raised"}]
           /\ at' \in [Events -> Clients \cup {NoClient}]
           /\ seen' \in [Events -> SUBSET Clients]
           /\ queue' \in [Clients -> Seq(Events)]
           /\ phase'[e] = "sending" /\ at'[e] = w /\ seen'[e] = seen[e] \cup {w}
           /\ \A d \in Events : d # e =>
                  phase'[d] = phase[d] /\ at'[d] = at[d] /\ seen'[d] = seen[d]
           /\ queue'[w] = Append(q[w], e)
           /\ Waiting(w)' = ToSet(q[w]) \cup {e}
           /\ \A v \in Clients : v # w => queue'[v] = q[v] /\ Waiting(v)' = ToSet(q[v])
<1>1. /\ phase' = [phase EXCEPT ![e] = "sending"] /\ at' = [at EXCEPT ![e] = w]
      /\ seen' = [seen EXCEPT ![e] = seen[e] \cup {w}]
      /\ queue' = [q EXCEPT ![w] = Append(q[w], e)]
  BY DEF SendTo
<1>2. q[w] \in Seq(Events) /\ Append(q[w], e) \in Seq(Events)
      /\ ToSet(Append(q[w], e)) = ToSet(q[w]) \cup {e}
  BY AppendFacts
<1>3. queue' \in [Clients -> Seq(Events)] /\ queue'[w] = Append(q[w], e)
      /\ \A v \in Clients : v # w => queue'[v] = q[v]
  BY <1>1, <1>2
<1>4. /\ phase' \in [Events -> {"idle", "sending", "returned", "raised"}]
      /\ phase'[e] = "sending" /\ \A d \in Events : d # e => phase'[d] = phase[d]
  BY <1>1 DEF TypeOK
<1>5. /\ at' \in [Events -> Clients \cup {NoClient}]
      /\ at'[e] = w /\ \A d \in Events : d # e => at'[d] = at[d]
  BY <1>1 DEF TypeOK
<1>6. /\ seen' \in [Events -> SUBSET Clients]
      /\ seen'[e] = seen[e] \cup {w} /\ \A d \in Events : d # e => seen'[d] = seen[d]
  BY <1>1 DEF TypeOK
<1>7. Waiting(w)' = ToSet(q[w]) \cup {e}
      /\ \A v \in Clients : v # w => Waiting(v)' = ToSet(q[v])
  BY <1>2, <1>3 DEF Waiting
<1> QED
  BY <1>3, <1>4, <1>5, <1>6, <1>7

\* A broadcast is over: what its iteration needed is gone.
LEMMA EndsAsEffect ==
    ASSUME TypeOK, NEW e \in Events, NEW outcome \in {"returned", "raised"},
           NEW q \in [Clients -> Seq(Events)], EndsAs(e, outcome, q)
    PROVE  /\ phase' \in [Events -> {"idle", "sending", "returned", "raised"}]
           /\ at' \in [Events -> Clients \cup {NoClient}]
           /\ seen' \in [Events -> SUBSET Clients] /\ dead' \in [Events -> SUBSET Clients]
           /\ queue' = q /\ \A v \in Clients : Waiting(v)' = ToSet(q[v])
           /\ phase'[e] = outcome /\ seen'[e] = {} /\ dead'[e] = {}
           /\ \A d \in Events : d # e =>
                  /\ phase'[d] = phase[d] /\ at'[d] = at[d]
                  /\ seen'[d] = seen[d] /\ dead'[d] = dead[d]
<1>1. /\ phase' = [phase EXCEPT ![e] = outcome] /\ at' = [at EXCEPT ![e] = NoClient]
      /\ seen' = [seen EXCEPT ![e] = {}] /\ dead' = [dead EXCEPT ![e] = {}]
      /\ queue' = q
  BY DEF EndsAs
<1>2. /\ phase' \in [Events -> {"idle", "sending", "returned", "raised"}]
      /\ phase'[e] = outcome /\ \A d \in Events : d # e => phase'[d] = phase[d]
  BY <1>1 DEF TypeOK
<1>3. /\ at' \in [Events -> Clients \cup {NoClient}]
      /\ \A d \in Events : d # e => at'[d] = at[d]
  BY <1>1 DEF TypeOK
<1>4. /\ seen' \in [Events -> SUBSET Clients] /\ dead' \in [Events -> SUBSET Clients]
      /\ seen'[e] = {} /\ dead'[e] = {}
      /\ \A d \in Events : d # e => seen'[d] = seen[d] /\ dead'[d] = dead[d]
  BY <1>1 DEF TypeOK
<1>5. \A v \in Clients : Waiting(v)' = ToSet(q[v])
  BY <1>1 DEF Waiting
<1> QED
  BY <1>1, <1>2, <1>3, <1>4, <1>5

\* What the iterator yields is in the set, and it has not seen it.
LEMMA YieldsFacts ==
    ASSUME TypeOK, NEW e \in Events, NEW w \in Yields(e)
    PROVE  /\ w \in _clients /\ w \in Clients /\ w \notin seen[e]
           /\ ~disturbed[e] => \A v \in _clients : Earlier(v, w) => v \in seen[e]
BY DEF Yields, Unseen, TypeOK

\* The end of a send, seen from everywhere but the phase and the queues.
LEMMA SendEndsEffect ==
    ASSUME IInv, NEW e \in Events, SendEnds(e)
    PROVE  /\ Sending(e) /\ at[e] \in Clients
           /\ link' = link /\ handling' = handling /\ disturbed' = disturbed
           /\ used' = used /\ addressed' = addressed
           /\ received' \in [Clients -> Seq(Events)]
           /\ \A w \in Clients : w # at[e] => received'[w] = received[w]
           /\ \/ /\ link[at[e]] = "open" /\ e = Head(queue[at[e]])
                 /\ received'[at[e]] = Append(received[at[e]], e)
              \/ link[at[e]] = "closed" /\ received' = received
           /\ dead' \in [Events -> SUBSET Clients]
           /\ \A d \in Events : \A w \in dead'[d] : link[w] = "closed"
           /\ _clients' \subseteq _clients
           /\ \A w \in _clients : link[w] # "closed" => w \in _clients'
           /\ \/ /\ EndsAs(e, "raised", Rest(e)) /\ _clients' = _clients
                 /\ Cardinality(_clients) # used[e]
              \/ EndsAs(e, "returned", Rest(e)) /\ MayEnd(e)
              \/ /\ _clients' = _clients /\ Cardinality(_clients) = used[e]
                 /\ \E w \in Yields(e) : SendTo(e, w, Rest(e))
<1>1. TypeOK /\ WaitsOnce /\ DeadAreClosed
  BY DEF IInv
<1>2. Sending(e) /\ (link[at[e]] = "open" \/ link[at[e]] = "closed")
  BY DEF SendEnds, SendReturns, FirstInLine, SendRaises, Sending
<1>3. at[e] \in Clients
  BY <1>1, <1>2, RestFacts
<1>4. PICK new \in {{}, {at[e]}} :
          /\ Proceed(e, new)
          /\ \/ /\ link[at[e]] = "open" /\ e = Head(queue[at[e]]) /\ new = {}
                /\ received' = [received EXCEPT ![at[e]] = Append(received[at[e]], e)]
             \/ link[at[e]] = "closed" /\ received' = received /\ new = {at[e]}
  BY DEF SendEnds, SendReturns, FirstInLine, SendRaises
<1> DEFINE all == dead[e] \cup new
<1>5. /\ link' = link /\ handling' = handling /\ disturbed' = disturbed
      /\ used' = used /\ addressed' = addressed
      /\ \/ /\ Cardinality(_clients) # used[e]
            /\ EndsAs(e, "raised", Rest(e)) /\ _clients' = _clients
         \/ /\ Cardinality(_clients) = used[e]
            /\ \E w \in Yields(e) : SendTo(e, w, Rest(e))
            /\ dead' = [dead EXCEPT ![e] = all] /\ _clients' = _clients
         \/ /\ Cardinality(_clients) = used[e] /\ MayEnd(e)
            /\ EndsAs(e, "returned", Rest(e)) /\ _clients' = _clients \ all
  BY <1>4 DEF Proceed, Rest
<1>6. /\ received' \in [Clients -> Seq(Events)]
      /\ \A w \in Clients : w # at[e] => received'[w] = received[w]
      /\ \/ /\ link[at[e]] = "open" /\ e = Head(queue[at[e]])
            /\ received'[at[e]] = Append(received[at[e]], e)
         \/ link[at[e]] = "closed" /\ received' = received
  <2>1. received \in [Clients -> Seq(Events)]
    BY <1>1 DEF TypeOK
  <2>2. Append(received[at[e]], e) \in Seq(Events)
    BY <2>1, <1>3, AppendFacts
  <2> QED
    BY <2>1, <2>2, <1>3, <1>4
<1>7. all \subseteq Clients /\ \A w \in all : link[w] = "closed"
  BY <1>1, <1>3, <1>4 DEF DeadAreClosed, TypeOK
<1> HIDE DEF all
<1>8. _clients' \subseteq _clients /\ \A w \in _clients : link[w] # "closed" => w \in _clients'
  BY <1>5, <1>7
<1>9. /\ dead' \in [Events -> SUBSET Clients]
      /\ \A d \in Events : \A w \in dead'[d] : link[w] = "closed"
  <2>1. dead \in [Events -> SUBSET Clients]
    BY <1>1 DEF TypeOK
  <2>2. Rest(e) \in [Clients -> Seq(Events)]
    BY <1>1, <1>2, RestFacts
  <2>3. CASE \E outcome \in {"returned", "raised"} : EndsAs(e, outcome, Rest(e))
    BY <2>2, <2>3, <1>1, EndsAsEffect DEF DeadAreClosed
  <2>4. CASE dead' = [dead EXCEPT ![e] = all]
    BY <2>1, <2>4, <1>1, <1>7 DEF DeadAreClosed
  <2> QED
    BY <2>3, <2>4, <1>5
<1> QED
  BY <1>2, <1>3, <1>5, <1>6, <1>8, <1>9

-----------------------------------------------------------------------------
(* The invariant. *)

\* Nobody is connected in the beginning.
LEMMA IInvInit == Init => IInv
<1> SUFFICES ASSUME Init PROVE IInv
  OBVIOUS
<1>1. Len(ClientOrder) \in Nat
  BY ClientAssumption, LenProperties
<1>2. <<>> \in Seq(Events) /\ DOMAIN <<>> = {} /\ ToSet(<<>>) = {}
  BY EmptySeq DEF ToSet
<1>3. TypeOK
  BY <1>1, <1>2 DEF Init, TypeOK
<1>4. \A w \in Clients : Got(w) = {} /\ Waiting(w) = {} /\ DOMAIN queue[w] = {}
  BY <1>2 DEF Init, Got, Waiting
<1>5. \A e \in Events : phase[e] = "idle" /\ ~Sending(e) /\ seen[e] = {} /\ ~disturbed[e]
  BY DEF Init, Sending
<1> QED
  BY <1>3, <1>4, <1>5
     DEF Init, IInv, Registered, DeadAreClosed, WaitsOnce, Begun, SeenGot

\* Where broadcasts, queues and what clients got are the same, so is what is said of them.
LEMMA WaitsStay ==
    ASSUME WaitsOnce, phase' = phase, at' = at, queue' = queue
    PROVE  WaitsOnce'
BY DEF WaitsOnce, Waiting, Sending

\* A client connects, its connection ends, its handler ends.
LEMMA ClientKeeps ==
    ASSUME IInv, NEW w \in Clients, Connect(w) \/ Drop(w) \/ Leave(w)
    PROVE  IInv'
<1>1. /\ phase' = phase /\ at' = at /\ queue' = queue /\ used' = used /\ dead' = dead
      /\ addressed' = addressed /\ received' = received
  BY DEF Connect, Drop, Leave, iteration
<1>2. /\ seen' \in [Events -> SUBSET Clients] /\ disturbed' \in [Events -> BOOLEAN]
      /\ \A e \in Events : seen'[e] \subseteq seen[e]
      /\ \A e \in Events : disturbed'[e] => disturbed[e] \/ Sending(e)
      /\ \A v \in Clients : link'[v] = "closed" => link[v] # "none"
      /\ \A v \in Clients : link'[v] = "none" => link[v] = "none"
      /\ \A v \in Clients : link[v] = "closed" => link'[v] = "closed"
      /\ \A v \in Clients : link'[v] = "open" => link[v] = "open" \/ link[v] = "none"
  <2>1. /\ seen \in [Events -> SUBSET Clients] /\ disturbed \in [Events -> BOOLEAN]
        /\ link \in [Clients -> {"none", "open", "closed"}]
    BY DEF IInv, TypeOK
  <2>2. CASE Connect(w)
    <3>1. PICK table_grew \in BOOLEAN :
              seen' = [e \in Events |-> IF table_grew THEN {} ELSE seen[e]]
      BY <2>2 DEF Connect
    <3>2. disturbed' = [e \in Events |-> disturbed[e] \/ phase[e] = "sending"]
          /\ link' = [link EXCEPT ![w] = "open"] /\ link[w] = "none"
      BY <2>2 DEF Connect
    <3> QED
      BY <2>1, <3>1, <3>2 DEF Sending
  <2>3. CASE Drop(w)
    BY <2>1, <2>3 DEF Drop
  <2>4. CASE Leave(w)
    BY <2>1, <2>4 DEF Leave
  <2> QED
    BY <2>2, <2>3, <2>4
<1>3. TypeOK'
  <2>1. /\ link' \in [Clients -> {"none", "open", "closed"}]
        /\ _clients' \subseteq Clients /\ handling' \subseteq Clients
    BY DEF IInv, TypeOK, Connect, Drop, Leave
  <2> QED
    BY <1>1, <1>2, <2>1 DEF IInv, TypeOK
<1>4. Registered'
  BY DEF IInv, TypeOK, Registered, Connect, Drop, Leave
<1>5. DeadAreClosed'
  BY <1>1, <1>2 DEF IInv, TypeOK, DeadAreClosed
<1>6. WaitsOnce'
  BY <1>1, WaitsStay DEF IInv
<1>7. Begun'
  BY <1>1, <1>2 DEF IInv, Begun, Sending, Got
<1>8. SeenGot'
  <2> SUFFICES ASSUME NEW e \in Events, Sending(e), NEW v \in seen'[e] \ {at[e]},
                      link'[v] = "open"
               PROVE  e \in Got(v)
    BY <1>1 DEF SeenGot, Sending, Got
  <2>1. v \in seen[e] \ {at[e]} /\ v \in Clients
    BY <1>2 DEF IInv, TypeOK
  <2>2. link[v] = "open"
    BY <2>1, <1>2 DEF IInv, DeadAreClosed
  <2> QED
    BY <2>1, <2>2 DEF IInv, SeenGot
<1> QED
  BY <1>3, <1>4, <1>5, <1>6, <1>7, <1>8 DEF IInv

\* A send is called, for a broadcast that waits nowhere else.
LEMMA SendToWaits ==
    ASSUME TypeOK, WaitsOnce, NEW e \in Events, NEW w \in Clients,
           NEW q \in [Clients -> Seq(Events)],
           \A v \in Clients :
               /\ ToSet(q[v]) = Waiting(v) \ {e}
               /\ \A i, j \in DOMAIN q[v] : q[v][i] = q[v][j] => i = j,
           SendTo(e, w, q)
    PROVE  WaitsOnce'
<1>1. /\ phase'[e] = "sending" /\ at'[e] = w
      /\ \A d \in Events : d # e => phase'[d] = phase[d] /\ at'[d] = at[d]
      /\ queue'[w] = Append(q[w], e) /\ Waiting(w)' = ToSet(q[w]) \cup {e}
      /\ \A v \in Clients : v # w => queue'[v] = q[v] /\ Waiting(v)' = ToSet(q[v])
  BY SendToEffect
<1>2. \A v \in Clients : Waiting(v) \subseteq Events
  BY AllAreEvents
<1>3. \A d \in Events : Sending(d)' => at'[d] \in Clients /\ d \in ToSet(queue'[at'[d]])
  <2> SUFFICES ASSUME NEW d \in Events, phase'[d] = "sending"
               PROVE  at'[d] \in Clients /\ d \in ToSet(queue'[at'[d]])
    BY DEF Sending
  <2>1. CASE d = e
    BY <2>1, <1>1 DEF Waiting
  <2>2. CASE d # e
    <3>1. at'[d] = at[d] /\ at[d] \in Clients /\ d \in Waiting(at[d])
      BY <2>2, <1>1 DEF WaitsOnce, Sending
    <3>2. d \in ToSet(q[at[d]])
      BY <3>1, <2>2
    <3>3. \A v \in Clients : d \in ToSet(q[v]) => d \in ToSet(queue'[v])
      BY <1>1 DEF Waiting
    <3> QED
      BY <3>1, <3>2, <3>3
  <2> QED
    BY <2>1, <2>2
<1>4. \A v \in Clients : \A d \in Waiting(v)' : Sending(d)' /\ at'[d] = v
  <2> SUFFICES ASSUME NEW v \in Clients, NEW d \in Waiting(v)'
               PROVE  Sending(d)' /\ at'[d] = v
    OBVIOUS
  <2>1. CASE d = e
    <3>1. v = w
      BY <2>1, <1>1, Zenon
    <3> QED
      BY <3>1, <2>1, <1>1 DEF Sending
  <2>2. CASE d # e
    <3>1. d \in Waiting(v)
      BY <2>2, <1>1
    <3> QED
      BY <3>1, <2>2, <1>1, <1>2 DEF WaitsOnce, Sending
  <2> QED
    BY <2>1, <2>2
<1>5. \A v \in Clients : \A i, j \in DOMAIN queue'[v] : queue'[v][i] = queue'[v][j] => i = j
  <2>1. q[w] \in Seq(Events) /\ e \notin ToSet(q[w])
    OBVIOUS
  <2>2. \A i, j \in DOMAIN Append(q[w], e) : Append(q[w], e)[i] = Append(q[w], e)[j] => i = j
    BY <2>1, AppendKeeps
  <2>3. ASSUME NEW v \in Clients
        PROVE  \A i, j \in DOMAIN queue'[v] : queue'[v][i] = queue'[v][j] => i = j
    <3>1. CASE v = w
      <4>1. queue'[v] = Append(q[w], e)
        BY <3>1, <1>1
      <4> QED
        BY <4>1, <2>2
    <3>2. CASE v # w
      <4>1. queue'[v] = q[v]
        BY <3>2, <1>1
      <4> QED
        BY <4>1
    <3> QED
      BY <3>1, <3>2
  <2> QED
    BY <2>3
<1> QED
  BY <1>3, <1>4, <1>5 DEF WaitsOnce, Waiting

\* A broadcast is over and waits nowhere.
LEMMA EndsAsWaits ==
    ASSUME TypeOK, WaitsOnce, NEW e \in Events, NEW outcome \in {"returned", "raised"},
           NEW q \in [Clients -> Seq(Events)],
           \A v \in Clients :
               /\ ToSet(q[v]) = Waiting(v) \ {e}
               /\ \A i, j \in DOMAIN q[v] : q[v][i] = q[v][j] => i = j,
           EndsAs(e, outcome, q)
    PROVE  WaitsOnce'
<1>1. /\ phase'[e] = outcome /\ queue' = q
      /\ \A d \in Events : d # e => phase'[d] = phase[d] /\ at'[d] = at[d]
      /\ \A v \in Clients : Waiting(v)' = Waiting(v) \ {e}
  BY EndsAsEffect
<1>2. \A v \in Clients : Waiting(v) \subseteq Events
  BY AllAreEvents
<1>3. \A d \in Events : Sending(d)' => d # e /\ Sending(d)
  BY <1>1 DEF Sending
<1>4. \A d \in Events : Sending(d)' => at'[d] \in Clients /\ d \in ToSet(queue'[at'[d]])
  <2> SUFFICES ASSUME NEW d \in Events, Sending(d)'
               PROVE  at'[d] \in Clients /\ d \in ToSet(queue'[at'[d]])
    OBVIOUS
  <2>1. d # e /\ at'[d] = at[d] /\ at[d] \in Clients /\ d \in Waiting(at[d])
    BY <1>1, <1>3 DEF WaitsOnce
  <2>2. \A v \in Clients : ToSet(queue'[v]) = Waiting(v) \ {e}
    BY <1>1 DEF Waiting
  <2> QED
    BY <2>1, <2>2
<1>5. \A v \in Clients : \A d \in Waiting(v)' : Sending(d)' /\ at'[d] = v
  BY <1>1, <1>2 DEF WaitsOnce, Sending
<1> QED
  <2>1. \A v \in Clients : \A i, j \in DOMAIN queue'[v] : queue'[v][i] = queue'[v][j] => i = j
    BY <1>1
  <2> QED
    BY <1>4, <1>5, <2>1 DEF WaitsOnce, Waiting

\* A broadcast begins.
LEMMA BroadcastKeeps ==
    ASSUME IInv, NEW e \in Events, Broadcast(e)
    PROVE  IInv'
<1>1. /\ _clients' = _clients /\ link' = link /\ handling' = handling
      /\ received' = received /\ disturbed' = disturbed /\ dead' = dead
      /\ addressed' = [addressed EXCEPT ![e] = _clients]
      /\ phase[e] = "idle" /\ \A d \in Events : d < e => phase[d] # "idle"
  BY DEF Broadcast
<1>2. TypeOK /\ Registered /\ DeadAreClosed /\ WaitsOnce /\ Begun /\ SeenGot
  BY DEF IInv
<1>3. ~Sending(e) /\ seen[e] = {} /\ \A v \in Clients : e \notin Waiting(v)
  BY <1>1, <1>2 DEF Sending, Begun, WaitsOnce
<1>4. /\ addressed' \in [Events -> SUBSET Clients] /\ addressed'[e] = _clients
      /\ \A d \in Events : d # e => addressed'[d] = addressed[d]
  BY <1>1, <1>2 DEF TypeOK
<1>5. Registered'
  BY <1>1, <1>2 DEF Registered
<1>6. \A w \in _clients : link[w] # "none"
  BY <1>2 DEF Registered
<1>7. \A v \in Clients : Got(v)' = Got(v)
  BY <1>1 DEF Got
<1>8. CASE phase' = [phase EXCEPT ![e] = "returned"] /\ UNCHANGED <<at, queue, used, seen>>
  <2>1. /\ phase' \in [Events -> {"idle", "sending", "returned", "raised"}]
        /\ phase'[e] = "returned" /\ \A d \in Events : d # e => phase'[d] = phase[d]
    BY <1>2, <1>8 DEF TypeOK
  <2>2. TypeOK'
    BY <1>1, <1>2, <1>4, <1>8, <2>1 DEF TypeOK
  <2>3. DeadAreClosed'
    BY <1>1, <1>2, <1>4, <1>6, <1>8 DEF DeadAreClosed
  <2>4. \A d \in Events : Sending(d)' <=> Sending(d)
    BY <1>3, <2>1 DEF Sending
  <2>5. \A v \in Clients : Waiting(v)' = Waiting(v) /\ Waiting(v) \subseteq Events
    BY <1>2, <1>8, AllAreEvents DEF Waiting
  <2>6. WaitsOnce'
    BY <1>2, <1>8, <2>4, <2>5 DEF WaitsOnce
  <2>7. Begun'
    BY <1>1, <1>2, <1>7, <1>8, <2>1, <2>4 DEF Begun
  <2>8. SeenGot'
    BY <1>1, <1>2, <1>8, <2>4 DEF SeenGot, Got
  <2> QED
    BY <1>5, <2>2, <2>3, <2>6, <2>7, <2>8 DEF IInv
<1>9. CASE /\ used' = [used EXCEPT ![e] = Cardinality(_clients)]
           /\ \E w \in Yields(e) : SendTo(e, w, queue)
  <2>1. PICK w \in Yields(e) : SendTo(e, w, queue)
    BY <1>9
  <2>2. w \in _clients /\ w \in Clients /\ queue \in [Clients -> Seq(Events)]
    BY <1>2, YieldsFacts DEF TypeOK
  <2>3. /\ phase' \in [Events -> {"idle", "sending", "returned", "raised"}]
        /\ at' \in [Events -> Clients \cup {NoClient}]
        /\ seen' \in [Events -> SUBSET Clients]
        /\ queue' \in [Clients -> Seq(Events)]
        /\ phase'[e] = "sending" /\ at'[e] = w /\ seen'[e] = {w}
        /\ \A d \in Events : d # e =>
               phase'[d] = phase[d] /\ at'[d] = at[d] /\ seen'[d] = seen[d]
    BY <1>2, <1>3, <2>1, <2>2, SendToEffect
  <2>4. used' \in [Events -> 0..Len(ClientOrder)]
    <3>1. Cardinality(_clients) \in 0..Len(ClientOrder)
      BY <1>2, ClientsCounted DEF TypeOK
    <3> QED
      BY <3>1, <1>2, <1>9 DEF TypeOK
  <2>5. TypeOK'
    BY <1>1, <1>2, <1>4, <2>3, <2>4 DEF TypeOK
  <2>6. DeadAreClosed'
    <3> SUFFICES ASSUME NEW d \in Events
                 PROVE  /\ \A v \in dead[d] : link[v] = "closed"
                        /\ \A v \in addressed'[d] \cup seen'[d] : link[v] # "none"
      BY <1>1 DEF DeadAreClosed
    <3>1. CASE d = e
      BY <3>1, <1>2, <1>4, <1>6, <2>2, <2>3 DEF DeadAreClosed
    <3>2. CASE d # e
      BY <3>2, <1>2, <1>4, <2>3 DEF DeadAreClosed
    <3> QED
      BY <3>1, <3>2
  <2>7. WaitsOnce'
    <3>1. \A v \in Clients :
              /\ ToSet(queue[v]) = Waiting(v) \ {e}
              /\ \A i, j \in DOMAIN queue[v] : queue[v][i] = queue[v][j] => i = j
      BY <1>2, <1>3 DEF WaitsOnce, Waiting
    <3> QED
      BY <3>1, <1>2, <2>1, <2>2, SendToWaits
  <2>8. Begun'
    <3>1. \A d \in Events : ~Sending(d)' => seen'[d] = {}
      BY <1>2, <2>3 DEF Begun, Sending
    <3>2. \A d \in Events : phase'[d] = "idle" => phase[d] = "idle"
      BY <2>3
    <3>3. \A d, f \in Events : d < f /\ phase'[f] # "idle" => phase'[d] # "idle"
      BY <1>1, <1>2, <2>3 DEF Begun
    <3>4. \A d \in Events : phase'[d] = "idle" => ~disturbed'[d]
      BY <1>1, <1>2, <3>2 DEF Begun
    <3>5. \A v \in Clients : \A d \in Got(v)' : phase'[d] # "idle"
      BY <1>2, <1>7, <3>2, AllAreEvents DEF Begun
    <3> QED
      BY <3>1, <3>3, <3>4, <3>5 DEF Begun
  <2>9. SeenGot'
    <3> SUFFICES ASSUME NEW d \in Events, phase'[d] = "sending",
                        NEW v \in seen'[d] \ {at'[d]}, link[v] = "open"
                 PROVE  d \in Got(v)'
      BY <1>1 DEF SeenGot, Sending
    <3>1. d # e
      BY <2>3
    <3>2. v \in Clients /\ v \in seen[d] \ {at[d]} /\ Sending(d)
      BY <2>3, <3>1 DEF Sending
    <3> QED
      BY <3>2, <1>2, <1>7 DEF SeenGot
  <2> QED
    BY <1>5, <2>5, <2>6, <2>7, <2>8, <2>9 DEF IInv
<1> QED
  BY <1>8, <1>9 DEF Broadcast

\* A send is over, and with it perhaps the broadcast.
LEMMA SendKeeps ==
    ASSUME IInv, NEW e \in Events, SendEnds(e)
    PROVE  IInv'
<1>1. TypeOK /\ Registered /\ DeadAreClosed /\ WaitsOnce /\ Begun /\ SeenGot
  BY DEF IInv
<1>2. /\ Sending(e) /\ at[e] \in Clients
      /\ link' = link /\ handling' = handling /\ disturbed' = disturbed
      /\ used' = used /\ addressed' = addressed
      /\ received' \in [Clients -> Seq(Events)]
      /\ \A w \in Clients : w # at[e] => received'[w] = received[w]
      /\ \/ /\ link[at[e]] = "open"
            /\ received'[at[e]] = Append(received[at[e]], e)
         \/ link[at[e]] = "closed" /\ received' = received
      /\ dead' \in [Events -> SUBSET Clients]
      /\ \A d \in Events : \A w \in dead'[d] : link[w] = "closed"
      /\ _clients' \subseteq _clients
      /\ \A w \in _clients : link[w] # "closed" => w \in _clients'
  BY SendEndsEffect
<1>3. /\ Rest(e) \in [Clients -> Seq(Events)]
      /\ \A w \in Clients :
             /\ ToSet(Rest(e)[w]) = Waiting(w) \ {e}
             /\ \A i, j \in DOMAIN Rest(e)[w] : Rest(e)[w][i] = Rest(e)[w][j] => i = j
  BY <1>1, <1>2, RestFacts
<1>4. /\ \A w \in Clients : Got(w)' = Got(w) \/ Got(w)' = Got(w) \cup {e}
      /\ link[at[e]] = "open" => e \in ToSet(received'[at[e]])
  <2>1. \A w \in Clients : received[w] \in Seq(Events)
    BY <1>1 DEF TypeOK
  <2>2. ToSet(Append(received[at[e]], e)) = ToSet(received[at[e]]) \cup {e}
    BY <2>1, <1>2, AppendFacts
  <2>3. link[at[e]] = "open" => e \in ToSet(received'[at[e]])
    BY <2>2, <1>2
  <2>4. \A w \in Clients : ToSet(received'[w]) \in {ToSet(received[w]), ToSet(received[w]) \cup {e}}
    BY <2>2, <1>2
  <2> QED
    BY <2>3, <2>4 DEF Got
<1>5. Registered'
  BY <1>1, <1>2 DEF Registered
<1>6. ASSUME NEW new \in SUBSET Clients,
             /\ phase' \in [Events -> {"idle", "sending", "returned", "raised"}]
             /\ at' \in [Events -> Clients \cup {NoClient}]
             /\ seen' \in [Events -> SUBSET Clients]
             /\ queue' \in [Clients -> Seq(Events)],
             \A d \in Events : d # e =>
                 phase'[d] = phase[d] /\ at'[d] = at[d] /\ seen'[d] = seen[d],
             phase'[e] # "idle" /\ \A w \in new : link[w] # "none",
             \/ phase'[e] # "sending" /\ seen'[e] = {}
             \/ phase'[e] = "sending" /\ at'[e] \in new /\ seen'[e] = seen[e] \cup {at'[e]},
             WaitsOnce'
      PROVE  IInv'
  <2>1. TypeOK'
    <3>1. _clients' \subseteq Clients
      BY <1>1, <1>2 DEF TypeOK
    <3> QED
      BY <3>1, <1>1, <1>2, <1>6 DEF TypeOK
  <2>2. DeadAreClosed'
    <3> SUFFICES ASSUME NEW d \in Events
                 PROVE  /\ \A w \in dead'[d] : link[w] = "closed"
                        /\ \A w \in addressed[d] \cup seen'[d] : link[w] # "none"
      BY <1>2 DEF DeadAreClosed
    <3>1. \A w \in addressed[d] \cup seen[d] : link[w] # "none"
      BY <1>1 DEF DeadAreClosed
    <3>2. \A w \in seen'[d] : w \in seen[d] \/ w \in new
      BY <1>6
    <3> QED
      BY <3>1, <3>2, <1>2, <1>6
  <2>3. Begun'
    <3>1. \A d \in Events : phase[d] = "idle" <=> phase'[d] = "idle"
      BY <1>2, <1>6 DEF Sending
    <3>2. \A d \in Events : ~Sending(d)' => seen'[d] = {}
      <4> SUFFICES ASSUME NEW d \in Events, phase'[d] # "sending" PROVE seen'[d] = {}
        BY DEF Sending
      <4>1. CASE d = e
        BY <4>1, <1>6
      <4>2. CASE d # e
        <5>1. phase[d] # "sending" /\ seen'[d] = seen[d]
          BY <4>2, <1>6
        <5> QED
          BY <5>1, <1>1 DEF Begun, Sending
      <4> QED
        BY <4>1, <4>2
    <3>3. \A w \in Clients : \A d \in Got(w)' : phase'[d] # "idle"
      <4> SUFFICES ASSUME NEW w \in Clients, NEW d \in Got(w)'
                   PROVE  phase'[d] # "idle"
        OBVIOUS
      <4>1. CASE d = e
        BY <4>1, <1>6
      <4>2. CASE d # e
        <5>1. d \in Got(w)
          BY <4>2, <1>4
        <5>2. d \in Events
          BY <5>1, <1>1, AllAreEvents
        <5> QED
          BY <5>1, <5>2, <3>1, <1>1 DEF Begun
      <4> QED
        BY <4>1, <4>2
    <3>4. \A d \in Events : phase'[d] = "idle" => ~disturbed'[d]
      BY <3>1, <1>1, <1>2 DEF Begun
    <3>5. \A d, f \in Events : d < f /\ phase'[f] # "idle" => phase'[d] # "idle"
      BY <3>1, <1>1 DEF Begun
    <3> QED
      BY <3>2, <3>3, <3>4, <3>5 DEF Begun
  <2>4. SeenGot'
    <3> SUFFICES ASSUME NEW d \in Events, phase'[d] = "sending",
                        NEW w \in seen'[d] \ {at'[d]}, link[w] = "open"
                 PROVE  d \in ToSet(received'[w])
      BY <1>2 DEF SeenGot, Sending, Got
    <3>1. w \in Clients
      BY <1>6
    <3>2. \A v \in Clients : ToSet(received[v]) \subseteq ToSet(received'[v])
      BY <1>4 DEF Got
    <3>3. CASE d = e
      <4>1. w \in seen[e]
        BY <3>3, <1>6
      <4>2. CASE w = at[e]
        BY <4>2, <3>3, <1>4
      <4>3. CASE w # at[e]
        BY <4>1, <4>3, <3>1, <3>2, <3>3, <1>1, <1>2 DEF SeenGot, Got
      <4> QED
        BY <4>2, <4>3
    <3>4. CASE d # e
      <4>1. w \in seen[d] \ {at[d]} /\ phase[d] = "sending"
        BY <3>4, <1>6
      <4> QED
        BY <4>1, <3>1, <3>2, <1>1 DEF SeenGot, Got, Sending
    <3> QED
      BY <3>3, <3>4
  <2> QED
    BY <1>5, <1>6, <2>1, <2>2, <2>3, <2>4 DEF IInv
<1>7. CASE \E outcome \in {"returned", "raised"} : EndsAs(e, outcome, Rest(e))
  <2>1. PICK outcome \in {"returned", "raised"} : EndsAs(e, outcome, Rest(e))
    BY <1>7
  <2>2. WaitsOnce'
    BY <2>1, <1>1, <1>3, EndsAsWaits
  <2>3. /\ phase' \in [Events -> {"idle", "sending", "returned", "raised"}]
        /\ at' \in [Events -> Clients \cup {NoClient}]
        /\ seen' \in [Events -> SUBSET Clients]
        /\ queue' = Rest(e)
        /\ phase'[e] = outcome /\ seen'[e] = {}
        /\ \A d \in Events : d # e =>
               phase'[d] = phase[d] /\ at'[d] = at[d] /\ seen'[d] = seen[d]
    BY <2>1, <1>1, <1>3, EndsAsEffect
  <2>4. phase'[e] # "idle" /\ phase'[e] # "sending" /\ {} \in SUBSET Clients
    BY <2>3
  <2>5. queue' \in [Clients -> Seq(Events)]
    BY <2>3, <1>3
  <2> QED
    BY <2>2, <2>3, <2>4, <2>5, <1>6
<1>8. CASE \E w \in Yields(e) : SendTo(e, w, Rest(e))
  <2>1. PICK w \in Yields(e) : SendTo(e, w, Rest(e))
    BY <1>8
  <2>2. w \in _clients /\ w \in Clients
    BY <1>1, YieldsFacts
  <2>3. WaitsOnce'
    BY <2>1, <2>2, <1>1, <1>3, SendToWaits
  <2>4. /\ phase' \in [Events -> {"idle", "sending", "returned", "raised"}]
        /\ at' \in [Events -> Clients \cup {NoClient}]
        /\ seen' \in [Events -> SUBSET Clients]
        /\ queue' \in [Clients -> Seq(Events)]
        /\ phase'[e] = "sending" /\ at'[e] = w /\ seen'[e] = seen[e] \cup {w}
        /\ \A d \in Events : d # e =>
               phase'[d] = phase[d] /\ at'[d] = at[d] /\ seen'[d] = seen[d]
    BY <2>1, <2>2, <1>1, <1>3, SendToEffect
  <2>5. link[w] # "none"
    BY <2>2, <1>1 DEF Registered
  <2>6. {w} \in SUBSET Clients /\ (\A v \in {w} : link[v] # "none") /\ at'[e] \in {w}
    BY <2>2, <2>4, <2>5
  <2>7. phase'[e] # "idle" /\ phase'[e] = "sending" /\ seen'[e] = seen[e] \cup {at'[e]}
    BY <2>4
  <2> QED
    BY <2>3, <2>4, <2>6, <2>7, <1>6
<1> QED
  BY <1>7, <1>8, SendEndsEffect

\* Every step keeps the invariant.
LEMMA IInvStep == IInv /\ [Next]_vars => IInv'
<1> SUFFICES ASSUME IInv, [Next]_vars PROVE IInv'
  OBVIOUS
<1>1. ASSUME NEW w \in Clients, Connect(w) \/ Drop(w) \/ Leave(w) PROVE IInv'
  BY <1>1, ClientKeeps
<1>2. ASSUME NEW e \in Events, Broadcast(e) PROVE IInv'
  BY <1>2, BroadcastKeeps
<1>3. ASSUME NEW e \in Events, SendEnds(e) PROVE IInv'
  BY <1>3, SendKeeps
<1>4. CASE UNCHANGED vars
  BY <1>4 DEF vars, iteration, IInv, TypeOK, Registered, DeadAreClosed, WaitsOnce, Begun,
              SeenGot, Sending, Got, Waiting
<1> QED
  BY <1>1, <1>2, <1>3, <1>4 DEF Next

\* The invariant holds at all times.
LEMMA Inductive == Spec => []IInv
BY IInvInit, IInvStep, PTL DEF Spec

-----------------------------------------------------------------------------
(* The registry, and what a broadcast reaches. *)

\* Every variable of the broadcaster keeps its type, for any number of clients and of
\* events: in particular an iterator never remembers more clients than there are.
THEOREM TypeCorrect == Spec => []TypeOK
<1>1. IInv => TypeOK
  BY DEF IInv
<1> QED
  BY <1>1, Inductive, PTL

\* However handlers and broadcasts interleave, a client with an open connection is in
\* _clients, and nobody is who has no handler.
THEOREM RegistryCorrect == Spec => []RegistryFollowsConnections
<1>1. IInv => RegistryFollowsConnections
  BY DEF IInv, TypeOK, Registered, RegistryFollowsConnections
<1> QED
  BY <1>1, Inductive, PTL

\* What a broadcast that returned has reached stays true, and becomes true at its end.
LEMMA ReachedStep == IInv /\ ReturnedReachedAll /\ [Next]_vars => ReturnedReachedAll'
<1> SUFFICES ASSUME IInv, ReturnedReachedAll, [Next]_vars,
                    NEW d \in Events, phase'[d] = "returned", ~disturbed'[d],
                    NEW w \in addressed'[d], link'[w] = "open"
             PROVE  d \in ToSet(received'[w])
  BY DEF ReturnedReachedAll
<1>1. TypeOK /\ Registered /\ DeadAreClosed /\ WaitsOnce /\ Begun /\ SeenGot
  BY DEF IInv
<1>2. ASSUME phase[d] = "returned", ~disturbed[d], addressed'[d] = addressed[d],
             link[w] # "none" => link[w] = "open",
             \A v \in Clients : ToSet(received[v]) \subseteq ToSet(received'[v])
      PROVE  d \in ToSet(received'[w])
  <2>1. w \in addressed[d] /\ w \in Clients
    BY <1>2, <1>1 DEF TypeOK
  <2>2. link[w] = "open"
    BY <2>1, <1>1, <1>2 DEF DeadAreClosed
  <2> QED
    BY <2>1, <2>2, <1>2 DEF ReturnedReachedAll
<1>3. ASSUME NEW v \in Clients, Connect(v) \/ Drop(v) \/ Leave(v)
      PROVE  d \in ToSet(received'[w])
  <2>1. /\ phase' = phase /\ received' = received /\ addressed' = addressed
        /\ \/ disturbed' = disturbed
           \/ disturbed' = [e \in Events |-> disturbed[e] \/ phase[e] = "sending"]
        /\ \/ link' = link
           \/ link' = [link EXCEPT ![v] = "open"] /\ link[v] = "none"
           \/ link' = [link EXCEPT ![v] = "closed"]
    BY <1>3 DEF Connect, Drop, Leave, iteration
  <2>2. ~disturbed[d]
    BY <2>1
  <2>3. w \in Clients /\ link \in [Clients -> {"none", "open", "closed"}]
    BY <2>1, <1>1 DEF TypeOK
  <2>4. link[w] # "none" => link[w] = "open"
    BY <2>1, <2>3
  <2> QED
    BY <2>1, <2>2, <2>4, <1>2
<1>4. ASSUME NEW e \in Events, Broadcast(e)
      PROVE  d \in ToSet(received'[w])
  <2>1. /\ addressed' = [addressed EXCEPT ![e] = _clients] /\ phase[e] = "idle"
        /\ link' = link /\ received' = received /\ disturbed' = disturbed
    BY <1>4 DEF Broadcast
  <2>2. /\ addressed \in [Events -> SUBSET Clients]
        /\ phase \in [Events -> {"idle", "sending", "returned", "raised"}]
    BY <1>1 DEF TypeOK
  <2>3. CASE phase' = [phase EXCEPT ![e] = "returned"] /\ _clients = {}
    <3>1. d # e
      BY <2>1, <2>2, <2>3
    <3> QED
      BY <3>1, <2>1, <2>2, <2>3, <1>2
  <2>4. CASE \E v \in Yields(e) : SendTo(e, v, queue)
    <3>1. phase' = [phase EXCEPT ![e] = "sending"]
      BY <2>4 DEF SendTo
    <3>2. d # e
      BY <2>2, <3>1
    <3> QED
      BY <3>1, <3>2, <2>1, <2>2, <1>2
  <2> QED
    BY <2>3, <2>4, <1>4 DEF Broadcast
<1>5. ASSUME NEW e \in Events, SendEnds(e)
      PROVE  d \in ToSet(received'[w])
  <2>1. /\ Sending(e) /\ at[e] \in Clients
        /\ link' = link /\ disturbed' = disturbed /\ addressed' = addressed
        /\ received' \in [Clients -> Seq(Events)]
        /\ \A v \in Clients : v # at[e] => received'[v] = received[v]
        /\ \/ received'[at[e]] = Append(received[at[e]], e)
           \/ link[at[e]] = "closed" /\ received' = received
        /\ \/ EndsAs(e, "raised", Rest(e))
           \/ EndsAs(e, "returned", Rest(e)) /\ MayEnd(e)
           \/ \E v \in Yields(e) : SendTo(e, v, Rest(e))
    BY <1>5, SendEndsEffect
  <2>2. \A v \in Clients : ToSet(received[v]) \subseteq ToSet(received'[v])
    <3>1. received[at[e]] \in Seq(Events)
      BY <1>1, <2>1 DEF TypeOK
    <3>2. ToSet(Append(received[at[e]], e)) = ToSet(received[at[e]]) \cup {e}
      BY <3>1, AppendFacts
    <3> QED
      BY <3>2, <2>1
  <2>3. \/ phase' = [phase EXCEPT ![e] = "raised"]
        \/ phase' = [phase EXCEPT ![e] = "sending"]
        \/ phase' = [phase EXCEPT ![e] = "returned"] /\ MayEnd(e)
    BY <2>1 DEF EndsAs, SendTo
  <2>4. CASE d # e
    <3>1. phase[d] = "returned"
      BY <2>3, <2>4, <1>1 DEF TypeOK
    <3> QED
      BY <3>1, <2>1, <2>2, <1>2
  <2>5. CASE d = e
    <3>1. MayEnd(e) /\ ~disturbed[e]
      BY <2>1, <2>3, <2>5, <1>1 DEF TypeOK
    <3>2. _clients \subseteq seen[e]
      BY <3>1 DEF MayEnd, Unseen
    <3>3. w \in addressed[e] /\ w \in Clients /\ link[w] = "open" /\ w \in _clients
      BY <2>1, <2>5, <1>1 DEF TypeOK, Registered
    <3>4. CASE w = at[e]
      <4>1. received[w] \in Seq(Events) /\ received'[w] = Append(received[w], e)
        BY <3>3, <3>4, <2>1, <1>1 DEF TypeOK
      <4> QED
        BY <4>1, <2>5, AppendFacts
    <3>5. CASE w # at[e]
      BY <3>2, <3>3, <3>5, <2>1, <2>2, <2>5, <1>1 DEF SeenGot, Got
    <3> QED
      BY <3>4, <3>5
  <2> QED
    BY <2>4, <2>5
<1>6. CASE UNCHANGED vars
  BY <1>6 DEF vars, iteration, ReturnedReachedAll
<1> QED
  BY <1>3, <1>4, <1>5, <1>6 DEF Next

\* When broadcast returns, and nobody connected meanwhile, every client it found has been
\* sent the event unless its connection ended, whatever other broadcasts, ends of
\* connections and failed sends came in between.
THEOREM ReturnedReached == Spec => []ReturnedReachedAll
<1>1. Init => ReturnedReachedAll
  BY DEF Init, ReturnedReachedAll
<1> QED
  BY <1>1, ReachedStep, Inductive, PTL DEF Spec

-----------------------------------------------------------------------------
(* The order of events. *)

\* What the turns at a client are.
LEMMA TurnsAre ==
    ASSUME NEW w, NEW d \in Events, NEW e \in Events
    PROVE  <<d, e>> \in Turns(w) <=> InTurn(d, e, w)
<1>1. <<d, e>> \in Events \X Events
  OBVIOUS
<1> QED
  BY <1>1 DEF Turns

\* When the end of a connection may have hidden that somebody connected, anything goes.
LEMMA HiddenInTurn ==
    ASSUME ~NoneClosed, NEW w, NEW d \in Events, NEW e \in Events, disturbed[d] \/ disturbed[e]
    PROVE  <<d, e>> \in Turns(w)
  BY TurnsAre DEF NoneClosed, InTurn, MayOvertake

\* The order of the table is transitive.
LEMMA EarlierTransitive ==
    ASSUME NEW u, NEW v, NEW w, Earlier(u, v), Earlier(v, w)
    PROVE  Earlier(u, w)
<1>1. PICK i \in DOMAIN ClientOrder, j \in DOMAIN ClientOrder :
          i < j /\ ClientOrder[i] = u /\ ClientOrder[j] = v
  BY DEF Earlier
<1>2. PICK k \in DOMAIN ClientOrder, l \in DOMAIN ClientOrder :
          k < l /\ ClientOrder[k] = v /\ ClientOrder[l] = w
  BY DEF Earlier
<1>3. j = k
  BY <1>1, <1>2, ClientAssumption DEF IsInjective
<1>4. i \in Nat /\ j \in Nat /\ l \in Nat
  BY ClientAssumption, LenProperties
<1>5. i < l
  BY <1>1, <1>2, <1>3, <1>4
<1> QED
  BY <1>1, <1>2, <1>5 DEF Earlier

\* What a step does to connections, iterators and histories: what excuses an event that
\* overtakes another one is never taken back.
LEMMA ExcusesStay ==
    ASSUME IInv, IdleUnknown, [Next]_vars
    PROVE  /\ \A v \in Clients : link[v] = "closed" => link'[v] = "closed"
           /\ \A e \in Events : disturbed[e] => disturbed'[e]
           /\ \A e \in Events : addressed[e] \subseteq addressed'[e]
           /\ IdleUnknown'
<1>0. /\ link \in [Clients -> {"none", "open", "closed"}]
      /\ disturbed \in [Events -> BOOLEAN] /\ addressed \in [Events -> SUBSET Clients]
      /\ phase \in [Events -> {"idle", "sending", "returned", "raised"}]
  BY DEF IInv, TypeOK
<1>1. ASSUME NEW w \in Clients, Connect(w) \/ Drop(w) \/ Leave(w)
      PROVE  /\ \A v \in Clients : link[v] = "closed" => link'[v] = "closed"
             /\ \A e \in Events : disturbed[e] => disturbed'[e]
             /\ phase' = phase /\ addressed' = addressed
  <2>1. \/ link' = link
        \/ link' = [link EXCEPT ![w] = "open"] /\ link[w] = "none"
        \/ link' = [link EXCEPT ![w] = "closed"]
    BY <1>1 DEF Connect, Drop, Leave
  <2>2. \/ disturbed' = disturbed
        \/ disturbed' = [e \in Events |-> disturbed[e] \/ phase[e] = "sending"]
    BY <1>1 DEF Connect, Drop, Leave
  <2> QED
    BY <1>0, <1>1, <2>1, <2>2 DEF Connect, Drop, Leave, iteration
<1>2. ASSUME NEW e \in Events, Broadcast(e)
      PROVE  /\ link' = link /\ disturbed' = disturbed
             /\ \A d \in Events : addressed[d] \subseteq addressed'[d]
             /\ IdleUnknown'
  <2>1. /\ link' = link /\ disturbed' = disturbed /\ phase[e] = "idle"
        /\ addressed' = [addressed EXCEPT ![e] = _clients]
    BY <1>2 DEF Broadcast
  <2>2. addressed[e] = {}
    BY <2>1 DEF IdleUnknown
  <2>3. phase' = [phase EXCEPT ![e] = "returned"] \/ phase' = [phase EXCEPT ![e] = "sending"]
    BY <1>2 DEF Broadcast, SendTo
  <2> QED
    BY <1>0, <2>1, <2>2, <2>3 DEF IdleUnknown
<1>3. ASSUME NEW e \in Events, SendEnds(e)
      PROVE  /\ link' = link /\ disturbed' = disturbed /\ addressed' = addressed
             /\ IdleUnknown'
  <2>1. /\ link' = link /\ disturbed' = disturbed /\ addressed' = addressed /\ Sending(e)
        /\ \/ EndsAs(e, "raised", Rest(e))
           \/ EndsAs(e, "returned", Rest(e))
           \/ \E w \in Yields(e) : SendTo(e, w, Rest(e))
    BY <1>3, SendEndsEffect
  <2>2. \/ phase' = [phase EXCEPT ![e] = "raised"]
        \/ phase' = [phase EXCEPT ![e] = "returned"]
        \/ phase' = [phase EXCEPT ![e] = "sending"]
    BY <2>1 DEF EndsAs, SendTo
  <2> QED
    BY <1>0, <2>1, <2>2 DEF IdleUnknown
<1>4. CASE UNCHANGED vars
  BY <1>4 DEF vars, iteration, IdleUnknown
<1>5. ASSUME NEW w \in Clients, Connect(w) \/ Drop(w) \/ Leave(w)
      PROVE  IdleUnknown'
  BY <1>1, <1>5 DEF IdleUnknown
<1> QED
  BY <1>1, <1>2, <1>3, <1>4, <1>5 DEF Next

\* So turns once right stay right.
LEMMA TurnsGrow ==
    ASSUME IInv, IdleUnknown, [Next]_vars, NEW w \in Clients
    PROVE  Turns(w) \subseteq Turns(w)'
<1> SUFFICES ASSUME NEW d \in Events, NEW e \in Events, InTurn(d, e, w)
             PROVE  InTurn(d, e, w)'
  BY DEF Turns
<1>1. CASE d < e
  BY <1>1 DEF InTurn
<1>2. CASE MayOvertake(d, e, w)
  <2>1. PICK v \in Clients :
            /\ link[v] = "closed"
            /\ disturbed[e] \/ disturbed[d] \/ (v \in addressed[e] \cap addressed[d] /\ Earlier(v, w))
    BY <1>2 DEF MayOvertake
  <2>2. link'[v] = "closed"
    BY <2>1, ExcusesStay
  <2>3. (disturbed[e] => disturbed'[e]) /\ (disturbed[d] => disturbed'[d])
    BY ExcusesStay
  <2>4. addressed[e] \cap addressed[d] \subseteq addressed'[e] \cap addressed'[d]
    BY ExcusesStay
  <2>5. /\ link'[v] = "closed"
        /\ \/ disturbed'[e] \/ disturbed'[d]
           \/ v \in addressed'[e] \cap addressed'[d] /\ Earlier(v, w)
    BY <2>1, <2>2, <2>3, <2>4
  <2> QED
    BY <2>5 DEF InTurn, MayOvertake, Earlier
<1> QED
  BY <1>1, <1>2 DEF InTurn

\* A sequence in order stays in order.
LEMMA OrderGrows ==
    ASSUME NEW q, NEW R, NEW S, R \subseteq S, InOrder(q, R)
    PROVE  InOrder(q, S)
  BY DEF InOrder

\* A broadcast that begins is later than all that anybody was sent or waits for.
LEMMA LaterThanAll ==
    ASSUME IInv, NEW e \in Events, phase[e] = "idle"
    PROVE  \A v \in Clients : \A d \in Got(v) \cup Waiting(v) : <<d, e>> \in Turns(v)
<1> SUFFICES ASSUME NEW v \in Clients, NEW d \in Got(v) \cup Waiting(v)
             PROVE  <<d, e>> \in Turns(v)
  OBVIOUS
<1>1. d \in Events /\ d \in Int /\ e \in Int
  BY AllAreEvents, EventAssumption DEF IInv, Events
<1>2. phase[d] # "idle"
  BY DEF IInv, Begun, WaitsOnce, Sending
<1>3. ~(e < d) /\ e # d
  BY <1>1, <1>2 DEF IInv, Begun
<1>4. d < e
  BY <1>1, <1>3
<1> QED
  BY <1>1, <1>4, TurnsAre DEF InTurn

\* The turn of the first in line comes before that of all who wait behind it.
LEMMA HeadIsFirst ==
    ASSUME TypeOK, Sorted, NEW w \in Clients, Waiting(w) # {}
    PROVE  /\ Head(queue[w]) \in Waiting(w)
           /\ \A d \in Waiting(w) : d # Head(queue[w]) => <<Head(queue[w]), d>> \in Turns(w)
<1>1. queue[w] \in Seq(Events) /\ queue[w] # <<>>
  BY DEF TypeOK, Waiting, ToSet
<1>2. Len(queue[w]) \in Nat \ {0} /\ DOMAIN queue[w] = 1..Len(queue[w])
  BY <1>1, LenProperties, EmptySeq
<1>3. 1 \in DOMAIN queue[w] /\ Head(queue[w]) = queue[w][1]
  BY <1>1, <1>2
<1>4. \A i \in DOMAIN queue[w] : i # 1 => 1 < i
  BY <1>2
<1>5. \A i \in DOMAIN queue[w] : i # 1 => <<queue[w][1], queue[w][i]>> \in Turns(w)
  BY <1>3, <1>4 DEF Sorted, InOrder
<1> QED
  BY <1>3, <1>5 DEF Waiting, ToSet

\* What excuses e at a client excuses it at all clients behind.
LEMMA InTurnBehind ==
    ASSUME NEW e \in Events, NEW d \in Events, NEW v, NEW w,
           <<e, d>> \in Turns(v), Earlier(v, w)
    PROVE  <<e, d>> \in Turns(w)
<1>1. InTurn(e, d, v)
  BY TurnsAre
<1>2. CASE e < d
  BY <1>2, TurnsAre DEF InTurn
<1>3. CASE MayOvertake(e, d, v)
  <2>1. PICK u \in Clients :
            /\ link[u] = "closed"
            /\ disturbed[d] \/ disturbed[e] \/ (u \in addressed[d] \cap addressed[e] /\ Earlier(u, v))
    BY <1>3 DEF MayOvertake
  <2>2. Earlier(u, v) => Earlier(u, w)
    BY EarlierTransitive
  <2>3. MayOvertake(e, d, w)
    BY <2>1, <2>2 DEF MayOvertake
  <2> QED
    BY <2>3, TurnsAre DEF InTurn
<1> QED
  BY <1>1, <1>2, <1>3 DEF InTurn

\* When e may go on to w, and d has yet to get there, e does not go out of turn: the
\* client where d waits is ahead of w, and e got past it in its turn or by an exception.
LEMMA NobodyPasses ==
    ASSUME IInv, Sorted, InStep,
           NEW d \in Events, Sending(d), ~disturbed[d], _clients = addressed[d],
           NEW w \in Unseen(d), NEW e \in Events, d # e,
           disturbed[e] => ~NoneClosed,
           ~disturbed[e] => \A v \in _clients : Earlier(v, w) => v \in seen[e],
           Sending(e) => link[at[e]] = "closed" \/ e = Head(queue[at[e]])
    PROVE  <<e, d>> \in Turns(w)
<1>1. CASE disturbed[e]
  BY <1>1, HiddenInTurn
<1>2. CASE ~disturbed[e]
  <2>1. /\ at[d] \in seen[d] /\ seen[d] \subseteq _clients /\ _clients \subseteq Clients
        /\ w \in _clients /\ w \notin seen[d] /\ \A v \in seen[d] : ~Earlier(w, v)
        /\ d \in Waiting(at[d]) /\ at[d] \in Clients
    BY DEF IInv, TypeOK, InStep, Unseen, WaitsOnce
  <2>2. Earlier(at[d], w)
    BY <2>1, EarlierTotal
  <2>3. at[d] \in seen[e]
    BY <1>2, <2>1, <2>2
  <2>4. Sending(e)
    BY <2>3 DEF IInv, Begun
  <2>5. at[d] \in addressed[d] \cap addressed[e]
    BY <1>2, <2>1, <2>3, <2>4 DEF InStep
  <2>6. CASE link[at[d]] = "closed"
    <3>1. MayOvertake(e, d, w)
      BY <2>1, <2>2, <2>5, <2>6 DEF MayOvertake
    <3> QED
      BY <3>1, TurnsAre DEF InTurn
  <2>7. CASE link[at[d]] # "closed"
    <3>1. <<e, d>> \in Turns(at[d])
      <4>1. CASE at[d] = at[e]
        <5>1. e = Head(queue[at[d]]) /\ Waiting(at[d]) # {}
          BY <2>1, <2>4, <2>7, <4>1
        <5> QED
          BY <5>1, <2>1, HeadIsFirst DEF IInv
      <4>2. CASE at[d] # at[e]
        <5>1. link[at[d]] = "open"
          BY <2>1, <2>3, <2>7 DEF IInv, TypeOK, DeadAreClosed
        <5>2. e \in Got(at[d])
          BY <2>3, <2>4, <4>2, <5>1 DEF IInv, SeenGot
        <5> QED
          BY <2>1, <5>2 DEF Sorted
      <4> QED
        BY <4>1, <4>2
    <3> QED
      BY <2>2, <3>1, InTurnBehind
  <2> QED
    BY <2>6, <2>7
<1> QED
  BY <1>1, <1>2

-----------------------------------------------------------------------------
(* The steps of the clients. *)

\* Where nobody is sent anything and no send is called, the order stays as it is.
LEMMA SortedStays ==
    ASSUME IInv, OrderInv, [Next]_vars, received' = received, queue' = queue
    PROVE  Sorted'
<1> SUFFICES ASSUME NEW w \in Clients
             PROVE  /\ InOrder(received[w], Turns(w)') /\ InOrder(queue[w], Turns(w)')
                    /\ \A d \in Got(w), e \in Waiting(w) : <<d, e>> \in Turns(w)'
  BY DEF Sorted, Got, Waiting, InOrder
<1>1. Turns(w) \subseteq Turns(w)'
  BY TurnsGrow DEF OrderInv
<1>2. /\ InOrder(received[w], Turns(w)) /\ InOrder(queue[w], Turns(w))
      /\ \A d \in Got(w), e \in Waiting(w) : <<d, e>> \in Turns(w)
  BY DEF OrderInv, Sorted
<1> QED
  BY <1>1, <1>2, OrderGrows

\* Somebody connects: broadcasts under way are disturbed, and will raise.
LEMMA ConnectInOrder ==
    ASSUME IInv, OrderInv, [Next]_vars, NEW w \in Clients, Connect(w)
    PROVE  Sorted' /\ WillRaise' /\ InStep'
<1>1. /\ phase' = phase /\ at' = at /\ queue' = queue /\ used' = used /\ received' = received
      /\ disturbed' = [e \in Events |-> disturbed[e] \/ phase[e] = "sending"]
      /\ _clients' = _clients \cup {w} /\ link[w] = "none"
      /\ link' = [link EXCEPT ![w] = "open"]
  BY DEF Connect, iteration
<1>2. Sorted'
  BY <1>1, SortedStays
<1>3. \A e \in Events : Sending(e)' => Sending(e) /\ disturbed'[e]
  BY <1>1 DEF Sending
<1>4. w \notin _clients /\ _clients \subseteq Clients
  BY <1>1 DEF IInv, TypeOK, Registered
<1>5. IsFiniteSet(_clients) /\ Cardinality(_clients) \in Nat
  BY <1>4, ClientsCounted
<1>6. Cardinality(_clients') = Cardinality(_clients) + 1
  BY <1>1, <1>4, <1>5, FS_AddElement
<1>7. WillRaise'
  <2> SUFFICES ASSUME NoneClosed', NEW e \in Events, Sending(e)'
               PROVE  /\ used'[e] <= Cardinality(_clients)'
                      /\ disturbed'[e] => used'[e] < Cardinality(_clients)'
    BY DEF WillRaise
  <2>1. NoneClosed
    BY <1>1 DEF NoneClosed, IInv, TypeOK
  <2>2. used[e] <= Cardinality(_clients) /\ used[e] \in Int
    BY <2>1, <1>3, ClientAssumption, LenProperties DEF OrderInv, WillRaise, IInv, TypeOK
  <2>3. used[e] < Cardinality(_clients')
    BY <2>2, <1>5, <1>6
  <2> QED
    BY <2>2, <2>3, <1>1, <1>5, <1>6
<1>8. InStep'
  BY <1>3 DEF InStep
<1> QED
  BY <1>2, <1>7, <1>8

\* A connection ends, or its handler does.
LEMMA DepartureInOrder ==
    ASSUME IInv, OrderInv, [Next]_vars, NEW w \in Clients, Drop(w) \/ Leave(w)
    PROVE  Sorted' /\ WillRaise' /\ InStep'
<1>1. /\ phase' = phase /\ at' = at /\ queue' = queue /\ used' = used /\ received' = received
      /\ disturbed' = disturbed /\ seen' = seen /\ addressed' = addressed
      /\ _clients' \subseteq _clients
  BY DEF Drop, Leave, iteration
<1>2. Sorted'
  BY <1>1, SortedStays
<1>3. ~NoneClosed'
  BY DEF Drop, Leave, NoneClosed, IInv, TypeOK
<1>4. InStep'
  <2> SUFFICES ASSUME NEW e \in Events, Sending(e), ~disturbed[e]
               PROVE  /\ at[e] \in seen[e] /\ seen[e] \subseteq addressed[e]
                      /\ _clients' \subseteq addressed[e]
                      /\ used[e] = Cardinality(addressed[e])
                      /\ \A u \in seen[e], v \in _clients' : Earlier(v, u) => v \in seen[e]
                      /\ _clients' = addressed[e] => NotPassed(e)'
    BY <1>1 DEF InStep, Sending, Earlier
  <2>1. /\ at[e] \in seen[e] /\ seen[e] \subseteq addressed[e] /\ _clients \subseteq addressed[e]
        /\ used[e] = Cardinality(addressed[e])
        /\ \A u \in seen[e], v \in _clients : Earlier(v, u) => v \in seen[e]
        /\ _clients = addressed[e] => NotPassed(e)
    BY DEF OrderInv, InStep
  <2>2. ASSUME _clients' = addressed[e]
        PROVE  NotPassed(e)'
    <3>1. NotPassed(e) /\ _clients' = _clients
      BY <1>1, <2>1, <2>2
    <3> SUFFICES ASSUME NEW v \in Unseen(e), NEW d \in Got(v) \cup Waiting(v)
                 PROVE  <<d, e>> \in Turns(v)'
      BY <1>1, <3>1 DEF NotPassed, Unseen, Got, Waiting
    <3>2. v \in Clients /\ <<d, e>> \in Turns(v)
      BY <3>1 DEF NotPassed, Unseen, IInv, TypeOK
    <3>3. Turns(v) \subseteq Turns(v)'
      BY <3>2, TurnsGrow DEF OrderInv
    <3> QED
      BY <3>2, <3>3
  <2> QED
    BY <1>1, <2>1, <2>2
<1> QED
  BY <1>2, <1>3, <1>4 DEF WillRaise

-----------------------------------------------------------------------------
(* The steps of the broadcasts. *)

\* A broadcast calls its next send, the first included.  q is who waits without it.
LEMMA SendToInOrder ==
    ASSUME IInv, OrderInv, [Next]_vars,
           NEW e \in Events, NEW w \in Yields(e), NEW q \in [Clients -> Seq(Events)],
           SendTo(e, w, q),
           Sending(e) => link[at[e]] = "closed" \/ e = Head(queue[at[e]]),
           ~Sending(e) => phase[e] = "idle",
           disturbed[e] => ~NoneClosed /\ Sending(e),
           Sending(e) /\ ~disturbed[e] => _clients = addressed[e],
           ~disturbed[e] => _clients = addressed'[e],
           \A v \in Clients :
               /\ ToSet(q[v]) = Waiting(v) \ {e}
               /\ InOrder(q[v], Turns(v)) /\ InOrder(received'[v], Turns(v))
               /\ \A d \in Got(v)', f \in ToSet(q[v]) : <<d, f>> \in Turns(v)
               /\ Got(v)' \subseteq Got(v) \cup (IF Sending(e) /\ v = at[e] THEN {e} ELSE {}),
           _clients' = _clients, disturbed' = disturbed, link' = link,
           \A d \in Events : d # e => used'[d] = used[d] /\ addressed'[d] = addressed[d],
           used'[e] = Cardinality(_clients)
    PROVE  Sorted' /\ WillRaise' /\ InStep'
<1>0. TypeOK /\ WaitsOnce /\ Begun /\ Sorted /\ WillRaise /\ InStep
  BY DEF IInv, OrderInv
<1>1. /\ w \in _clients /\ w \in Clients /\ w \notin seen[e] /\ _clients \subseteq Clients
      /\ ~disturbed[e] => \A v \in _clients : Earlier(v, w) => v \in seen[e]
  BY <1>0, YieldsFacts DEF TypeOK
<1>2. /\ phase'[e] = "sending" /\ at'[e] = w /\ seen'[e] = seen[e] \cup {w}
      /\ \A d \in Events : d # e =>
             phase'[d] = phase[d] /\ at'[d] = at[d] /\ seen'[d] = seen[d]
      /\ queue'[w] = Append(q[w], e)
      /\ Waiting(w)' = (Waiting(w) \ {e}) \cup {e}
      /\ \A v \in Clients : v # w => queue'[v] = q[v] /\ Waiting(v)' = Waiting(v) \ {e}
  BY <1>0, <1>1, SendToEffect
<1>3. \A v \in Clients : Turns(v) \subseteq Turns(v)'
  BY TurnsGrow DEF OrderInv
<1>4. \A v \in Clients : Got(v) \subseteq Events /\ Waiting(v) \subseteq Events
  BY <1>0, AllAreEvents
<1>5. \A d \in Got(w)' \cup (Waiting(w) \ {e}) : <<d, e>> \in Turns(w)
  <2> SUFFICES ASSUME NEW d \in Got(w)' \cup (Waiting(w) \ {e})
               PROVE  <<d, e>> \in Turns(w)
    OBVIOUS
  <2>1. d \in Events
    BY <1>1, <1>4
  <2>2. CASE disturbed[e]
    BY <2>1, <2>2, HiddenInTurn
  <2>3. CASE ~disturbed[e] /\ Sending(e)
    <3>1. at[e] \in seen[e] /\ NotPassed(e)
      BY <1>0, <2>3 DEF InStep
    <3>2. w # at[e] /\ w \in Unseen(e)
      BY <1>1, <3>1 DEF Unseen
    <3>3. d \in Got(w) \cup Waiting(w)
      BY <1>1, <3>2
    <3> QED
      BY <3>1, <3>2, <3>3 DEF NotPassed
  <2>4. CASE ~Sending(e)
    <3>1. d \in Got(w) \cup Waiting(w)
      BY <1>1, <2>4
    <3> QED
      BY <1>1, <2>4, <3>1, LaterThanAll
  <2> QED
    BY <2>2, <2>3, <2>4
<1>6. Sorted'
  <2> SUFFICES ASSUME NEW v \in Clients
               PROVE  /\ InOrder(received'[v], Turns(v)') /\ InOrder(queue'[v], Turns(v)')
                      /\ \A d \in Got(v)', f \in Waiting(v)' : <<d, f>> \in Turns(v)'
    BY DEF Sorted, InOrder
  <2>1. InOrder(received'[v], Turns(v)')
    BY <1>3, OrderGrows
  <2>2. InOrder(queue'[v], Turns(v)) /\ \A d \in Got(v)', f \in Waiting(v)' : <<d, f>> \in Turns(v)
    <3>1. CASE v = w
      <4>1. q[w] \in Seq(Events) /\ InOrder(q[w], Turns(w)) /\ \A d \in ToSet(q[w]) : <<d, e>> \in Turns(w)
        BY <1>1, <1>5
      <4>2. InOrder(Append(q[w], e), Turns(w))
        BY <4>1, AppendKeeps
      <4>3. \A d \in Got(w)', f \in Waiting(w)' : <<d, f>> \in Turns(w)
        BY <1>1, <1>2, <1>5
      <4> QED
        BY <3>1, <4>2, <4>3, <1>2
    <3>2. CASE v # w
      BY <3>2, <1>2
    <3> QED
      BY <3>1, <3>2
  <2> QED
    BY <1>3, <2>1, <2>2, OrderGrows
<1>7. WillRaise'
  <2> SUFFICES ASSUME NoneClosed, NEW d \in Events, phase'[d] = "sending"
               PROVE  /\ used'[d] <= Cardinality(_clients)
                      /\ disturbed[d] => used'[d] < Cardinality(_clients)
    BY DEF WillRaise, Sending, NoneClosed
  <2>1. CASE d = e
    <3>1. Cardinality(_clients) \in Nat
      BY <1>1, ClientsCounted
    <3> QED
      BY <2>1, <3>1
  <2>2. CASE d # e
    BY <2>2, <1>0, <1>2 DEF WillRaise, Sending
  <2> QED
    BY <2>1, <2>2
<1>8. InStep'
  <2> SUFFICES ASSUME NEW d \in Events, phase'[d] = "sending", ~disturbed[d]
               PROVE  /\ at'[d] \in seen'[d] /\ seen'[d] \subseteq addressed'[d]
                      /\ _clients \subseteq addressed'[d]
                      /\ used'[d] = Cardinality(addressed'[d])
                      /\ \A u \in seen'[d], v \in _clients : Earlier(v, u) => v \in seen'[d]
                      /\ _clients = addressed'[d] =>
                             \A v \in _clients \ seen'[d] :
                                 \A f \in Got(v)' \cup Waiting(v)' : <<f, d>> \in Turns(v)
    <3>1. ASSUME NEW d \in Events,
                 \A v \in _clients \ seen'[d] :
                     \A f \in Got(v)' \cup Waiting(v)' : <<f, d>> \in Turns(v)
          PROVE  NotPassed(d)'
      BY <1>1, <1>3, <3>1 DEF NotPassed, Unseen
    <3> QED
      BY <3>1 DEF InStep, Sending, Earlier
  <2>1. CASE d = e
    <3>1. /\ seen[e] \subseteq addressed'[e]
          /\ \A u \in seen[e], v \in _clients : Earlier(v, u) => v \in seen[e]
      BY <2>1, <1>0 DEF InStep, Begun
    <3>2. /\ at'[e] \in seen'[e] /\ seen'[e] \subseteq addressed'[e]
          /\ _clients \subseteq addressed'[e] /\ used'[e] = Cardinality(addressed'[e])
      BY <3>1, <2>1, <1>1, <1>2
    <3>3. \A u \in seen'[e], v \in _clients : Earlier(v, u) => v \in seen'[e]
      BY <3>1, <2>1, <1>1, <1>2
    <3>4. ASSUME NEW v \in _clients \ seen'[e], NEW f \in Got(v)' \cup Waiting(v)'
          PROVE  <<f, e>> \in Turns(v)
      <4>1. v \in Clients /\ v \in _clients /\ v \notin seen[e] /\ v # w
        BY <3>4, <1>1, <1>2
      <4>2. ~(Sending(e) /\ v = at[e])
        BY <4>1, <2>1, <1>0 DEF InStep
      <4>3. f \in Got(v) \cup Waiting(v)
        BY <4>1, <4>2, <1>2
      <4>4. CASE Sending(e)
        <5>1. NotPassed(e) /\ v \in Unseen(e)
          BY <4>1, <4>4, <2>1, <1>0 DEF InStep, Unseen
        <5> QED
          BY <4>3, <5>1 DEF NotPassed
      <4>5. CASE ~Sending(e)
        BY <4>1, <4>3, <4>5, LaterThanAll
      <4> QED
        BY <4>4, <4>5
    <3> QED
      BY <2>1, <3>2, <3>3, <3>4
  <2>2. CASE d # e
    <3>1. /\ Sending(d) /\ at'[d] = at[d] /\ seen'[d] = seen[d]
          /\ used'[d] = used[d] /\ addressed'[d] = addressed[d]
      BY <2>2, <1>2 DEF Sending
    <3>2. /\ at[d] \in seen[d] /\ seen[d] \subseteq addressed[d] /\ _clients \subseteq addressed[d]
          /\ used[d] = Cardinality(addressed[d])
          /\ \A u \in seen[d], v \in _clients : Earlier(v, u) => v \in seen[d]
          /\ _clients = addressed[d] => NotPassed(d)
      BY <1>0, <3>1 DEF InStep
    <3>3. ASSUME _clients = addressed[d],
                 NEW v \in _clients \ seen[d], NEW f \in Got(v)' \cup Waiting(v)'
          PROVE  <<f, d>> \in Turns(v)
      <4>1. v \in Clients /\ v \in Unseen(d)
        BY <3>3, <1>1 DEF Unseen
      <4>2. CASE f \in Got(v) \cup Waiting(v)
        BY <3>2, <3>3, <4>1, <4>2 DEF NotPassed
      <4>3. CASE f \notin Got(v) \cup Waiting(v)
        <5>1. f = e /\ (v = w \/ (Sending(e) /\ v = at[e]))
          <6>1. CASE f \in Got(v)'
            BY <4>1, <4>3, <6>1
          <6>2. CASE f \in Waiting(v)' /\ v = w
            BY <4>3, <6>2, <1>2
          <6>3. CASE f \in Waiting(v)' /\ v # w
            BY <4>1, <4>3, <6>3, <1>2
          <6> QED
            BY <6>1, <6>2, <6>3
        <5>2. v = w
          BY <5>1, <4>3, <1>0 DEF WaitsOnce
        <5>3. <<e, d>> \in Turns(w)
          BY <5>2, <4>1, <3>1, <3>3, <2>2, <1>0, <1>1, NobodyPasses
        <5> QED
          BY <5>1, <5>2, <5>3
      <4> QED
        BY <4>2, <4>3
    <3> QED
      BY <3>1, <3>2, <3>3
  <2> QED
    BY <2>1, <2>2
<1> QED
  BY <1>6, <1>7, <1>8

\* A broadcast begins.
LEMMA BroadcastInOrder ==
    ASSUME IInv, OrderInv, [Next]_vars, NEW e \in Events, Broadcast(e)
    PROVE  Sorted' /\ WillRaise' /\ InStep'
<1>0. Sorted /\ WillRaise /\ InStep
  BY DEF OrderInv
<1>1. /\ _clients' = _clients /\ received' = received /\ disturbed' = disturbed /\ link' = link
      /\ phase[e] = "idle" /\ ~Sending(e) /\ ~disturbed[e]
      /\ addressed'[e] = _clients
      /\ \A d \in Events : d # e => addressed'[d] = addressed[d]
  BY DEF Broadcast, Sending, IInv, Begun, TypeOK
<1>2. \A v \in Clients : e \notin Waiting(v)
  BY <1>1 DEF IInv, WaitsOnce
<1>3. CASE phase' = [phase EXCEPT ![e] = "returned"] /\ UNCHANGED <<at, queue, used, seen>>
  <2>1. \A d \in Events : Sending(d)' <=> Sending(d)
    BY <1>1, <1>3 DEF Sending, IInv, TypeOK
  <2>2. Sorted'
    BY <1>1, <1>3, SortedStays
  <2>3. WillRaise'
    BY <1>0, <1>1, <1>3, <2>1 DEF WillRaise, NoneClosed
  <2>4. InStep'
    <3>1. ASSUME NEW d \in Events, NotPassed(d)
          PROVE  NotPassed(d)'
      <4> SUFFICES ASSUME NEW v \in Unseen(d), NEW f \in Got(v) \cup Waiting(v)
                   PROVE  <<f, d>> \in Turns(v)'
        BY <1>1, <1>3 DEF NotPassed, Unseen, Got, Waiting
      <4>1. v \in Clients /\ <<f, d>> \in Turns(v)
        BY <3>1 DEF NotPassed, Unseen, IInv, TypeOK
      <4>2. Turns(v) \subseteq Turns(v)'
        BY <4>1, TurnsGrow DEF OrderInv
      <4> QED
        BY <4>1, <4>2
    <3>2. \A d \in Events : Sending(d)' => d # e /\ Sending(d)
      BY <1>1, <2>1
    <3> QED
      BY <1>0, <1>1, <1>3, <3>1, <3>2 DEF InStep, Earlier
  <2> QED
    BY <2>2, <2>3, <2>4
<1>4. CASE /\ used' = [used EXCEPT ![e] = Cardinality(_clients)]
           /\ \E w \in Yields(e) : SendTo(e, w, queue)
  <2>1. PICK w \in Yields(e) : SendTo(e, w, queue)
    BY <1>4
  <2>2. queue \in [Clients -> Seq(Events)]
    BY DEF IInv, TypeOK
  <2>3. used'[e] = Cardinality(_clients) /\ \A d \in Events : d # e => used'[d] = used[d]
    BY <1>4 DEF IInv, TypeOK
  <2>4. ASSUME NEW v \in Clients
        PROVE  /\ ToSet(queue[v]) = Waiting(v) \ {e}
               /\ InOrder(queue[v], Turns(v)) /\ InOrder(received'[v], Turns(v))
               /\ \A d \in Got(v)', f \in ToSet(queue[v]) : <<d, f>> \in Turns(v)
               /\ Got(v)' = Got(v)
    BY <1>0, <1>1, <1>2 DEF Sorted, Got, Waiting
  <2> QED
    BY <2>1, <2>2, <2>3, <2>4, <1>1, SendToInOrder
<1> QED
  BY <1>3, <1>4 DEF Broadcast

\* What a client is sent comes in its turn, and before the turns of those behind it.
LEMMA GotInOrder ==
    ASSUME IInv, Sorted, NEW e \in Events, SendEnds(e), NEW v \in Clients
    PROVE  /\ ToSet(Rest(e)[v]) = Waiting(v) \ {e}
           /\ InOrder(Rest(e)[v], Turns(v)) /\ InOrder(received'[v], Turns(v))
           /\ \A d \in Got(v)', f \in ToSet(Rest(e)[v]) : <<d, f>> \in Turns(v)
           /\ Got(v)' \subseteq Got(v) \cup (IF v = at[e] THEN {e} ELSE {})
<1>1. TypeOK /\ WaitsOnce
  BY DEF IInv
<1>2. /\ Sending(e) /\ at[e] \in Clients
      /\ \A w \in Clients : w # at[e] => received'[w] = received[w]
      /\ \/ /\ e = Head(queue[at[e]])
            /\ received'[at[e]] = Append(received[at[e]], e)
         \/ received' = received
  BY SendEndsEffect
<1>3. /\ ToSet(Rest(e)[v]) = Waiting(v) \ {e}
      /\ InOrder(queue[v], Turns(v)) => InOrder(Rest(e)[v], Turns(v))
  BY <1>1, <1>2, RestFacts
<1>4. /\ InOrder(queue[v], Turns(v)) /\ InOrder(received[v], Turns(v))
      /\ \A d \in Got(v), f \in Waiting(v) : <<d, f>> \in Turns(v)
  BY DEF Sorted
<1>5. CASE received'[v] = received[v]
  BY <1>3, <1>4, <1>5 DEF Got
<1>6. CASE v = at[e] /\ e = Head(queue[v]) /\ received'[v] = Append(received[v], e)
  <2>1. e \in Waiting(v) /\ received[v] \in Seq(Events)
    BY <1>1, <1>2, <1>6 DEF WaitsOnce, TypeOK
  <2>2. ToSet(received'[v]) = ToSet(received[v]) \cup {e}
    <3>1. ToSet(Append(received[v], e)) = ToSet(received[v]) \cup {e}
      BY <2>1, AppendFacts
    <3> QED
      BY <1>6, <3>1
  <2>3. \A d \in ToSet(received[v]) : <<d, e>> \in Turns(v)
    BY <1>4, <2>1 DEF Got
  <2>4. InOrder(received'[v], Turns(v))
    BY <1>4, <1>6, <2>1, <2>3, AppendKeeps
  <2>5. \A f \in Waiting(v) \ {e} : <<e, f>> \in Turns(v)
    BY <1>1, <1>6, <2>1, HeadIsFirst
  <2>6. \A d \in ToSet(received[v]) \cup {e}, f \in Waiting(v) \ {e} : <<d, f>> \in Turns(v)
    BY <1>4, <2>5 DEF Got
  <2> QED
    BY <1>3, <1>4, <1>6, <2>2, <2>4, <2>6 DEF Got
<1> QED
  BY <1>2, <1>5, <1>6

\* A send is over, and the broadcast ends or goes on.
LEMMA SendInOrder ==
    ASSUME IInv, OrderInv, [Next]_vars, NEW e \in Events, SendEnds(e)
    PROVE  Sorted' /\ WillRaise' /\ InStep'
<1>1. TypeOK /\ WaitsOnce /\ Begun /\ Sorted /\ WillRaise /\ InStep
  BY DEF IInv, OrderInv
<1>2. /\ Sending(e) /\ at[e] \in Clients
      /\ link[at[e]] = "closed" \/ e = Head(queue[at[e]])
      /\ disturbed' = disturbed /\ used' = used /\ addressed' = addressed /\ link' = link
      /\ _clients' \subseteq _clients
      /\ \A w \in _clients : link[w] # "closed" => w \in _clients'
  BY SendEndsEffect
<1>3. Rest(e) \in [Clients -> Seq(Events)]
  BY <1>1, <1>2, RestFacts
<1>4. e \in Waiting(at[e]) /\ \A v \in Clients : v # at[e] => e \notin Waiting(v)
  BY <1>1, <1>2 DEF WaitsOnce
<1>5. ASSUME NEW v \in Clients
      PROVE  /\ ToSet(Rest(e)[v]) = Waiting(v) \ {e}
             /\ InOrder(Rest(e)[v], Turns(v)) /\ InOrder(received'[v], Turns(v))
             /\ \A d \in Got(v)', f \in ToSet(Rest(e)[v]) : <<d, f>> \in Turns(v)
             /\ Got(v)' \subseteq Got(v) \cup (IF v = at[e] THEN {e} ELSE {})
  BY <1>1, GotInOrder
<1>6. \A v \in Clients : Turns(v) \subseteq Turns(v)'
  BY TurnsGrow DEF OrderInv
<1>7. _clients \subseteq Clients
  BY <1>1 DEF TypeOK
<1>8. ASSUME NEW outcome \in {"returned", "raised"}, EndsAs(e, outcome, Rest(e))
      PROVE  Sorted' /\ WillRaise' /\ InStep'
  <2>1. /\ queue' = Rest(e) /\ \A v \in Clients : Waiting(v)' = Waiting(v) \ {e}
        /\ phase'[e] = outcome
        /\ \A d \in Events : d # e =>
               phase'[d] = phase[d] /\ at'[d] = at[d] /\ seen'[d] = seen[d]
    BY <1>1, <1>3, <1>5, <1>8, EndsAsEffect
  <2>2. Sorted'
    <3> SUFFICES ASSUME NEW v \in Clients
                 PROVE  /\ InOrder(received'[v], Turns(v)') /\ InOrder(queue'[v], Turns(v)')
                        /\ \A d \in Got(v)', f \in Waiting(v)' : <<d, f>> \in Turns(v)'
      BY DEF Sorted, InOrder
    <3>1. /\ InOrder(received'[v], Turns(v)) /\ InOrder(queue'[v], Turns(v))
          /\ \A d \in Got(v)', f \in Waiting(v)' : <<d, f>> \in Turns(v)
      BY <1>5, <2>1
    <3> QED
      BY <1>6, <3>1, OrderGrows
  <2>3. \A d \in Events : Sending(d)' => d # e /\ Sending(d)
    BY <2>1 DEF Sending
  <2>4. WillRaise'
    <3> SUFFICES ASSUME NoneClosed, NEW d \in Events, Sending(d)'
                 PROVE  /\ used[d] <= Cardinality(_clients')
                        /\ disturbed[d] => used[d] < Cardinality(_clients')
      BY <1>2 DEF WillRaise, NoneClosed
    <3>1. _clients' = _clients
      BY <1>2, <1>7 DEF NoneClosed
    <3> QED
      BY <1>1, <2>3, <3>1 DEF WillRaise
  <2>5. InStep'
    <3> SUFFICES ASSUME NEW d \in Events, Sending(d)', ~disturbed[d]
                 PROVE  /\ at'[d] \in seen'[d] /\ seen'[d] \subseteq addressed[d]
                        /\ _clients' \subseteq addressed[d]
                        /\ used[d] = Cardinality(addressed[d])
                        /\ \A u \in seen'[d], v \in _clients' : Earlier(v, u) => v \in seen'[d]
                        /\ _clients' = addressed[d] => NotPassed(d)'
      BY <1>2 DEF InStep, Earlier
    <3>1. Sending(d) /\ at'[d] = at[d] /\ seen'[d] = seen[d]
      BY <2>1, <2>3
    <3>2. /\ at[d] \in seen[d] /\ seen[d] \subseteq addressed[d] /\ _clients \subseteq addressed[d]
          /\ used[d] = Cardinality(addressed[d])
          /\ \A u \in seen[d], v \in _clients : Earlier(v, u) => v \in seen[d]
          /\ _clients = addressed[d] => NotPassed(d)
      BY <1>1, <3>1 DEF InStep
    <3>3. ASSUME _clients' = addressed[d]
          PROVE  NotPassed(d)'
      <4>1. _clients' = _clients /\ NotPassed(d)
        BY <1>2, <3>2, <3>3
      <4> SUFFICES ASSUME NEW v \in _clients \ seen[d], NEW f \in Got(v)' \cup Waiting(v)'
                   PROVE  <<f, d>> \in Turns(v)'
        BY <3>1, <4>1 DEF NotPassed, Unseen
      <4>2. v \in Clients /\ v \in Unseen(d)
        BY <1>7 DEF Unseen
      <4>3. f \in Got(v) \cup Waiting(v)
        BY <1>4, <1>5, <2>1, <4>2
      <4>4. <<f, d>> \in Turns(v)
        BY <4>1, <4>2, <4>3 DEF NotPassed
      <4> QED
        BY <1>6, <4>2, <4>4
    <3> QED
      BY <1>2, <3>1, <3>2, <3>3
  <2> QED
    BY <2>2, <2>4, <2>5
<1>9. ASSUME _clients' = _clients, Cardinality(_clients) = used[e],
             NEW w \in Yields(e), SendTo(e, w, Rest(e))
      PROVE  Sorted' /\ WillRaise' /\ InStep'
  <2>1. Cardinality(_clients) \in Nat
    BY <1>7, ClientsCounted
  <2>2. disturbed[e] => ~NoneClosed
    BY <1>1, <1>2, <1>9, <2>1 DEF WillRaise
  <2>3. ~disturbed[e] => _clients = addressed[e]
    <3> SUFFICES ASSUME ~disturbed[e] PROVE _clients = addressed[e]
      OBVIOUS
    <3>1. _clients \subseteq addressed[e] /\ Cardinality(addressed[e]) = Cardinality(_clients)
      BY <1>1, <1>2, <1>9 DEF InStep
    <3>2. IsFiniteSet(addressed[e])
      BY <1>1, ClientsCounted DEF TypeOK
    <3> QED
      BY <3>1, <3>2, FS_Subset
  <2>4. used'[e] = Cardinality(_clients) /\ addressed'[e] = addressed[e]
        /\ \A d \in Events : used'[d] = used[d] /\ addressed'[d] = addressed[d]
    BY <1>2, <1>9
  <2>5. \A v \in Clients : Got(v)' \subseteq Got(v) \cup (IF Sending(e) /\ v = at[e] THEN {e} ELSE {})
    BY <1>2, <1>5
  <2> QED
    BY <2>2, <2>3, <2>4, <2>5, <1>2, <1>3, <1>5, <1>9, SendToInOrder
<1> QED
  BY <1>8, <1>9, SendEndsEffect

\* Every step keeps the order.
LEMMA OrderStep == IInv /\ OrderInv /\ [Next]_vars => OrderInv'
<1> SUFFICES ASSUME IInv, OrderInv, [Next]_vars
             PROVE  Sorted' /\ WillRaise' /\ InStep'
  BY ExcusesStay DEF OrderInv
<1>1. ASSUME NEW w \in Clients, Connect(w) PROVE Sorted' /\ WillRaise' /\ InStep'
  BY <1>1, ConnectInOrder
<1>2. ASSUME NEW w \in Clients, Drop(w) \/ Leave(w) PROVE Sorted' /\ WillRaise' /\ InStep'
  BY <1>2, DepartureInOrder
<1>3. ASSUME NEW e \in Events, Broadcast(e) PROVE Sorted' /\ WillRaise' /\ InStep'
  BY <1>3, BroadcastInOrder
<1>4. ASSUME NEW e \in Events, SendEnds(e) PROVE Sorted' /\ WillRaise' /\ InStep'
  BY <1>4, SendInOrder
<1>5. CASE UNCHANGED vars
  BY <1>5 DEF vars, iteration, OrderInv, Sorted, WillRaise, InStep, NotPassed, Got, Waiting,
              Sending, Unseen, Earlier, NoneClosed, InOrder, Turns, InTurn, MayOvertake
<1> QED
  BY <1>1, <1>2, <1>3, <1>4, <1>5 DEF Next

\* Every client is sent the events in the order in which their broadcasts began, however
\* the broadcasts overlap and whoever connects and leaves, unless the end of a connection
\* ahead of it let the later broadcast past: all take the clients in the same order and
\* wait in line at each.
THEOREM EventsOrdered == Spec => []EventsInOrder
<1>1. Init => OrderInv
  <2> SUFFICES ASSUME Init PROVE Sorted /\ WillRaise /\ InStep /\ IdleUnknown
    BY DEF OrderInv
  <2>1. \A w \in Clients : DOMAIN received[w] = {} /\ DOMAIN queue[w] = {}
    BY DEF Init
  <2>2. \A e \in Events : ~Sending(e)
    BY DEF Init, Sending
  <2>3. IdleUnknown
    BY DEF Init, IdleUnknown
  <2> QED
    BY <2>1, <2>2, <2>3 DEF Sorted, InOrder, WillRaise, InStep, Got, ToSet
<1>2. IInv /\ OrderInv => EventsInOrder
  <2> SUFFICES ASSUME IInv, OrderInv, NEW w \in Clients,
                      NEW i \in DOMAIN received[w], NEW j \in DOMAIN received[w], i < j
               PROVE  InTurn(received[w][i], received[w][j], w)
    BY DEF EventsInOrder
  <2>1. <<received[w][i], received[w][j]>> \in Turns(w)
    BY DEF OrderInv, Sorted, InOrder
  <2>2. received[w][i] \in Got(w) /\ received[w][j] \in Got(w)
    BY DEF Got, ToSet
  <2>3. received[w][i] \in Events /\ received[w][j] \in Events
    BY <2>2, AllAreEvents DEF IInv
  <2> QED
    BY <2>1, <2>3, TurnsAre
<1> QED
  BY <1>1, <1>2, OrderStep, Inductive, PTL DEF Spec

=============================================================================
