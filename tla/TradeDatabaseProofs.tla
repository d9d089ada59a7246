------------------------ MODULE TradeDatabaseProofs -------------------------
(***************************************************************************)
(* Proofs about TradeDatabase, for any processes, files, lines and keys:   *)
(* every step of it is a step of AtomicDatabase or leaves that unchanged,  *)
(* importing a file again changes nothing, and a mismatch on record stays  *)
(* one.                                                                    *)
(*                                                                         *)
(* The first part is about one file: how the loop over its lines builds    *)
(* what Adds says without a loop.  The invariant says how far the loop has *)
(* got while its process holds the lock, and that what a matching run has  *)
(* read is still the beginning of its table.  The last part is about what  *)
(* a run computes from that: a list of exceptions true of the rows read.   *)
(***************************************************************************)
EXTENDS TradeDatabase, FiniteSetTheorems, SequenceTheorems, NaturalsInduction,
        WellFoundedInduction, TLAPS

\* The lines of f that are rows and come before line n.
Before(f, n) == {i \in RowLines(f) : i < n}

\* A loop over some lines of f has turned old into new: what it has added, that the
\* keys of all those lines are in, and where each added row comes from.
Partly(old, new, f, lines) ==
    /\ Atomic!Adds(old, new, f, lines)
    /\ \A i \in lines : Atomic!HasKey(new, RowAt(f, i))
    /\ \A k \in (Len(old) + 1)..Len(new) : \E i \in lines : new[k] = RowAt(f, i)

-----------------------------------------------------------------------------
(* Lines and rows. *)

\* A line is a Line.
LEMMA LineTyped ==
    ASSUME NEW f \in Files, NEW i \in DOMAIN content[f]
    PROVE  /\ content[f] \in Seq(Line)
           /\ i \in 1..Len(content[f])
           /\ content[f][i] \in Line
<1>1. content[f] \in Seq(Line)
  BY FileAssumption
<1> QED
  BY <1>1

\* The row made of a line of f, with a count that f can have reached, is a row.
LEMMA RowTyped ==
    ASSUME NEW f \in Files, NEW i \in DOMAIN content[f], NEW n \in 0..Len(content[f])
    PROVE  RowOf(f, content[f][i], n) \in Row
<1> DEFINE line == content[f][i]
<1>1. /\ line \in Line /\ CFM_ \in [Ids -> Ids] /\ FIX_[n] \in Ids
  BY LineTyped, FileAssumption
<1>2. kind[f] \in {"internal", "confirmation", "fix"}
  BY FileAssumption DEF Kinds
<1>3. /\ line.trade_id \in Ids /\ line.venue \in Venues /\ line.quantity \in Quantities
      /\ line.price \in Prices /\ (line.id # NoId => line.id \in Ids) /\ CFM_[line.trade_id] \in Ids
  BY <1>1 DEF Line
<1>4. RowOf(f, line, n).key \in Ids
  BY <1>1, <1>2, <1>3 DEF RowOf
<1>5. RowOf(f, line, n).trade_id \in Ids
  BY <1>1, <1>2, <1>3 DEF RowOf
<1> QED
  BY <1>3, <1>4, <1>5 DEF RowOf, Row

\* The count before a line is at most the number of the lines before it; a counted
\* line raises it by one, any other leaves it.
LEMMA CountedStep ==
    ASSUME NEW f \in Files, NEW n \in Nat \ {0}
    PROVE  /\ Counted(f, n) \in 0..(n - 1)
           /\ Counted(f, 1) = 0
           /\ content[f][n].is \in {"row", "ignored"} => Counted(f, n + 1) = Counted(f, n) + 1
           /\ content[f][n].is \notin {"row", "ignored"} => Counted(f, n + 1) = Counted(f, n)
<1> DEFINE S(m) == {j \in 1..(m - 1) : content[f][j].is \in {"row", "ignored"}}
<1>1. n \in Int /\ n - 1 \in Nat
  OBVIOUS
<1>2. IsFiniteSet(1..(n - 1)) /\ Cardinality(1..(n - 1)) = n - 1
  BY <1>1, FS_Interval
<1>3. S(n) \in SUBSET (1..(n - 1))
  OBVIOUS
<1>4. IsFiniteSet(S(n)) /\ Cardinality(S(n)) <= n - 1 /\ Cardinality(S(n)) \in Nat
  BY <1>2, <1>3, FS_Subset, FS_CardinalityType
<1>5. Cardinality(S(1)) = 0
  <2>1. S(1) = {}
    OBVIOUS
  <2> QED
    BY <2>1, FS_EmptySet
<1>6. ASSUME content[f][n].is \in {"row", "ignored"}
      PROVE  Cardinality(S(n + 1)) = Cardinality(S(n)) + 1
  <2>1. S(n + 1) = S(n) \cup {n} /\ n \notin S(n)
    BY <1>6, <1>1
  <2> QED
    BY <2>1, <1>4, FS_AddElement
<1>7. ASSUME content[f][n].is \notin {"row", "ignored"}
      PROVE  S(n + 1) = S(n)
  BY <1>7, <1>1
<1>8. /\ Counted(f, n) = Cardinality(S(n)) /\ Counted(f, 1) = Cardinality(S(1))
      /\ Counted(f, n + 1) = Cardinality(S(n + 1))
  BY DEF Counted
<1> HIDE DEF S
<1> QED
  BY <1>1, <1>4, <1>5, <1>6, <1>7, <1>8

\* What one line adds to the lines before it.
LEMMA BeforeStep ==
    ASSUME NEW f \in Files, NEW n \in DOMAIN content[f]
    PROVE  /\ content[f][n].is = "row" => Before(f, n + 1) = Before(f, n) \cup {n}
           /\ content[f][n].is # "row" => Before(f, n + 1) = Before(f, n)
           /\ n \notin Before(f, n)
<1>1. n \in Int /\ \A i \in RowLines(f) : i \in Int
  BY LineTyped, FileAssumption DEF RowLines
<1> QED
  BY <1>1 DEF Before, RowLines

\* The lines before a line are finitely many numbers.
LEMMA BeforeFinite ==
    ASSUME NEW f \in Files, NEW n
    PROVE  IsFiniteSet(Before(f, n)) /\ Before(f, n) \in SUBSET Int
<1>1. content[f] \in Seq(Line) /\ Len(content[f]) \in Nat
  BY FileAssumption
<1>2. IsFiniteSet(1..Len(content[f]))
  BY <1>1, FS_Interval
<1>3. Before(f, n) \in SUBSET (1..Len(content[f]))
  BY <1>1 DEF Before, RowLines
<1> QED
  BY <1>2, <1>3, FS_Subset

\* Beyond the last line, the rows before are all rows; where nothing was counted,
\* there are none.
LEMMA BeforeEnds ==
    ASSUME NEW f \in Files, NEW n \in 1..(Len(content[f]) + 1)
    PROVE  /\ n > Len(content[f]) => Before(f, n) = RowLines(f)
           /\ Counted(f, n) = 0 => Before(f, n) = {}
<1>1. content[f] \in Seq(Line) /\ Len(content[f]) \in Nat /\ n \in Nat
  BY FileAssumption
<1>2. ASSUME Counted(f, n) = 0
      PROVE  Before(f, n) = {}
  <2> DEFINE S == {j \in 1..(n - 1) : content[f][j].is \in {"row", "ignored"}}
  <2>1. n - 1 \in Int /\ S \in SUBSET (1..(n - 1))
    BY <1>1
  <2>2. IsFiniteSet(1..(n - 1))
    BY <2>1, FS_Interval
  <2>3. IsFiniteSet(S) /\ Cardinality(S) = 0
    BY <2>1, <2>2, <1>2, FS_Subset DEF Counted
  <2>4. S = {}
    BY <2>3, FS_EmptySet
  <2>5. Before(f, n) \subseteq S
    BY <1>1 DEF Before, RowLines
  <2> QED
    BY <2>4, <2>5
<1> QED
  BY <1>1, <1>2 DEF Before, RowLines

-----------------------------------------------------------------------------
(* Keys. *)

\* Having the same key is an equivalence.
LEMMA SameKeyEquivalence ==
    ASSUME NEW r, NEW s, NEW u
    PROVE  /\ SameKey(r, r)
           /\ SameKey(r, s) => SameKey(s, r)
           /\ SameKey(r, s) /\ SameKey(s, u) => SameKey(r, u)
  BY DEF SameKey

\* The abstract specification's Cardinality is Cardinality.
LEMMA SameCardinality ==
    ASSUME NEW S
    PROVE  Atomic!Cardinality(S) = Cardinality(S)
  BY DEF Atomic!Cardinality, Cardinality

\* What Adds says.
LEMMA AddsSays ==
    ASSUME NEW old, NEW new, NEW f, NEW lines
    PROVE  Atomic!Adds(old, new, f, lines) <=>
               (/\ Len(new) = Len(old) + Cardinality(Atomic!NewLines(old, f, lines))
                /\ \A k \in 1..Len(old) : new[k] = old[k]
                /\ \A i \in Atomic!NewLines(old, f, lines) :
                       new[Len(old) + Cardinality(
                                  {j \in Atomic!NewLines(old, f, lines) : j <= i})]
                           = RowAt(f, i))
<1> DEFINE fresh == Atomic!NewLines(old, f, lines)
<1>1. Atomic!Cardinality(fresh) = Cardinality(fresh)
  BY SameCardinality
<1>2. \A i : Atomic!Cardinality({j \in fresh : j <= i}) = Cardinality({j \in fresh : j <= i})
  BY SameCardinality
<1>3. Atomic!Adds(old, new, f, lines) <=>
          (/\ Len(new) = Len(old) + Atomic!Cardinality(fresh)
           /\ \A k \in 1..Len(old) : new[k] = old[k]
           /\ \A i \in fresh :
                  new[Len(old) + Atomic!Cardinality({j \in fresh : j <= i})] = RowAt(f, i))
  BY DEF Atomic!Adds
<1> HIDE DEF fresh
<1>4. ASSUME NEW i \in fresh
      PROVE  new[Len(old) + Atomic!Cardinality({j \in fresh : j <= i})]
                 = new[Len(old) + Cardinality({j \in fresh : j <= i})]
  BY <1>2
<1>5. (\A i \in fresh :
           new[Len(old) + Atomic!Cardinality({j \in fresh : j <= i})] = RowAt(f, i))
      <=> (\A i \in fresh :
               new[Len(old) + Cardinality({j \in fresh : j <= i})] = RowAt(f, i))
  BY <1>4
<1> QED
  BY <1>1, <1>3, <1>5 DEF fresh

\* A loop over no lines adds nothing.
LEMMA PartlyNothing ==
    ASSUME NEW old \in Seq(Row), NEW f
    PROVE  Partly(old, old, f, {})
<1>1. Atomic!NewLines(old, f, {}) = {}
  BY DEF Atomic!NewLines
<1>2. Len(old) \in Nat /\ Cardinality({}) = 0
  BY FS_EmptySet
<1>3. Atomic!Adds(old, old, f, {})
  <2>1. Len(old) = Len(old) + Cardinality(Atomic!NewLines(old, f, {}))
    <3>1. Cardinality(Atomic!NewLines(old, f, {})) = 0
      BY <1>1, <1>2, Zenon
    <3> QED
      BY <1>2, <3>1
  <2>2. \A i \in Atomic!NewLines(old, f, {}) :
            old[Len(old) + Cardinality({j \in Atomic!NewLines(old, f, {}) : j <= i})]
                = RowAt(f, i)
    BY <1>1
  <2> QED
    BY <2>1, <2>2, AddsSays
<1>4. (Len(old) + 1)..Len(old) = {}
  BY <1>2
<1> QED
  BY <1>3, <1>4 DEF Partly

\* A sequence that holds a key, and one row more, or none.
LEMMA InsertedIs ==
    ASSUME NEW table \in Seq(Row), NEW row \in Row
    PROVE  LET new == InsertOrIgnore(table, row)
           IN  /\ new \in Seq(Row)
               /\ Atomic!HasKey(table, row) => new = table
               /\ ~Atomic!HasKey(table, row) =>
                      /\ Len(new) = Len(table) + 1
                      /\ new[Len(table) + 1] = row
                      /\ \A k \in 1..Len(table) : new[k] = table[k]
               /\ Atomic!HasKey(new, row)
               /\ \A r : Atomic!HasKey(table, r) => Atomic!HasKey(new, r)
<1> DEFINE new == InsertOrIgnore(table, row)
<1>1. Len(table) \in Nat /\ DOMAIN table = 1..Len(table)
  OBVIOUS
<1>2. CASE Atomic!HasKey(table, row)
  <2>1. new = table
    BY <1>2 DEF InsertOrIgnore, Atomic!HasKey
  <2> QED
    BY <1>2, <2>1
<1>3. CASE ~Atomic!HasKey(table, row)
  <2>1. new = Append(table, row)
    BY <1>3 DEF InsertOrIgnore, Atomic!HasKey
  <2>2. /\ new \in Seq(Row) /\ Len(new) = Len(table) + 1 /\ DOMAIN new = 1..(Len(table) + 1)
        /\ new[Len(table) + 1] = row /\ \A k \in 1..Len(table) : new[k] = table[k]
    BY <2>1, <1>1
  <2>3. Atomic!HasKey(new, row)
    BY <2>2, <1>1, SameKeyEquivalence DEF Atomic!HasKey
  <2>4. \A r : Atomic!HasKey(table, r) => Atomic!HasKey(new, r)
    BY <2>2, <1>1 DEF Atomic!HasKey
  <2> QED
    BY <2>2, <2>3, <2>4, <1>3
<1> QED
  BY <1>2, <1>3

\* The line n is new to the table the loop began with, and to the lines before it,
\* just when the table the loop has got to does not have its key.
LEMMA FreshLine ==
    ASSUME NEW old \in Seq(Row), NEW new \in Seq(Row), NEW f \in Files,
           NEW n \in RowLines(f), Partly(old, new, f, Before(f, n))
    PROVE  n \in Atomic!NewLines(old, f, Before(f, n) \cup {n})
               <=> ~Atomic!HasKey(new, RowAt(f, n))
<1> DEFINE L == Before(f, n)
           row == RowAt(f, n)
<1>1. /\ Len(old) \in Nat /\ Len(new) \in Nat /\ Len(old) <= Len(new)
      /\ DOMAIN old = 1..Len(old) /\ DOMAIN new = 1..Len(new)
      /\ \A k \in 1..Len(old) : new[k] = old[k]
  <2>1. /\ Len(new) = Len(old) + Cardinality(Atomic!NewLines(old, f, L))
        /\ \A k \in 1..Len(old) : new[k] = old[k]
    BY AddsSays DEF Partly
  <2>2. IsFiniteSet(L) /\ Atomic!NewLines(old, f, L) \in SUBSET L
    BY BeforeFinite DEF Atomic!NewLines
  <2>3. Cardinality(Atomic!NewLines(old, f, L)) \in Nat
    BY <2>2, FS_Subset, FS_CardinalityType
  <2> QED
    BY <2>1, <2>3
<1>2. \A i \in L : i < n /\ i \in Int /\ n \in Int
  BY BeforeFinite, LineTyped DEF Before, RowLines
<1>3. ASSUME n \in Atomic!NewLines(old, f, L \cup {n}), Atomic!HasKey(new, row)
      PROVE  FALSE
  <2>1. PICK k \in 1..Len(new) : SameKey(new[k], row)
    BY <1>1, <1>3 DEF Atomic!HasKey
  <2>2. CASE k <= Len(old)
    <3>1. k \in DOMAIN old /\ SameKey(old[k], row)
      BY <2>1, <2>2, <1>1
    <3> QED
      BY <3>1, <1>3 DEF Atomic!HasKey, Atomic!NewLines
  <2>3. CASE k > Len(old)
    <3>1. k \in (Len(old) + 1)..Len(new)
      BY <2>1, <2>3, <1>1
    <3>2. PICK i \in L : new[k] = RowAt(f, i)
      BY <3>1 DEF Partly
    <3> QED
      BY <2>1, <3>2, <1>2, <1>3 DEF Atomic!NewLines
  <2> QED
    BY <2>1, <2>2, <2>3, <1>1
<1>4. ASSUME ~Atomic!HasKey(new, row)
      PROVE  n \in Atomic!NewLines(old, f, L \cup {n})
  <2>1. ~Atomic!HasKey(old, row)
    BY <1>1, <1>4 DEF Atomic!HasKey
  <2>2. ASSUME NEW j \in L, SameKey(RowAt(f, j), row)
        PROVE  FALSE
    <3>1. PICK k \in DOMAIN new : SameKey(new[k], RowAt(f, j))
      BY DEF Partly, Atomic!HasKey
    <3> QED
      BY <3>1, <2>2, <1>4, SameKeyEquivalence DEF Atomic!HasKey
  <2>3. ~(n < n)
    BY LineTyped DEF RowLines
  <2> QED
    BY <2>1, <2>2, <2>3 DEF Atomic!NewLines
<1> QED
  BY <1>3, <1>4

\* One more line that is a row.
LEMMA PartlyStep ==
    ASSUME NEW old \in Seq(Row), NEW new \in Seq(Row), NEW f \in Files,
           NEW n \in RowLines(f), RowAt(f, n) \in Row, Partly(old, new, f, Before(f, n))
    PROVE  Partly(old, InsertOrIgnore(new, RowAt(f, n)), f, Before(f, n + 1))
<1> DEFINE L == Before(f, n)
           row == RowAt(f, n)
           next == InsertOrIgnore(new, row)
           fresh == Atomic!NewLines(old, f, L)
           fresh2 == Atomic!NewLines(old, f, L \cup {n})
<1>1. /\ Before(f, n + 1) = L \cup {n} /\ n \notin L
      /\ n \in Int /\ L \in SUBSET Int /\ IsFiniteSet(L) /\ \A i \in L : i < n
  BY BeforeStep, BeforeFinite, LineTyped DEF RowLines, Before
<1>2. n \in fresh2 <=> ~Atomic!HasKey(new, row)
  BY FreshLine
<1>3. fresh \in SUBSET L /\ IsFiniteSet(fresh) /\ Cardinality(fresh) \in Nat
  <2>1. fresh \in SUBSET L
    BY DEF Atomic!NewLines
  <2> QED
    BY <1>1, <2>1, FS_Subset, FS_CardinalityType
<1>4. fresh2 = IF Atomic!HasKey(new, row) THEN fresh ELSE fresh \cup {n}
  <2>1. ASSUME NEW i \in L
        PROVE  i \in fresh2 <=> i \in fresh
    <3>1. ~(n < i)
      BY <1>1, <2>1
    <3> QED
      BY <3>1 DEF Atomic!NewLines
  <2>2. fresh2 \subseteq L \cup {n}
    BY DEF Atomic!NewLines
  <2>3. CASE Atomic!HasKey(new, row)
    <3>1. \A i : i \in fresh2 <=> i \in fresh
      BY <1>1, <1>2, <1>3, <2>1, <2>2, <2>3
    <3> HIDE DEF fresh, fresh2
    <3> QED
      BY <2>3, <3>1
  <2>4. CASE ~Atomic!HasKey(new, row)
    <3>1. \A i : i \in fresh2 <=> i \in fresh \cup {n}
      BY <1>1, <1>2, <1>3, <2>1, <2>2, <2>4
    <3> HIDE DEF fresh, fresh2
    <3> QED
      BY <2>4, <3>1
  <2> QED
    BY <2>3, <2>4
<1>5. /\ Len(new) = Len(old) + Cardinality(fresh)
      /\ \A k \in 1..Len(old) : new[k] = old[k]
      /\ \A i \in fresh : new[Len(old) + Cardinality({j \in fresh : j <= i})] = RowAt(f, i)
      /\ \A i \in L : Atomic!HasKey(new, RowAt(f, i))
      /\ \A k \in (Len(old) + 1)..Len(new) : \E i \in L : new[k] = RowAt(f, i)
  BY AddsSays DEF Partly
<1>6. /\ next \in Seq(Row)
      /\ Atomic!HasKey(new, row) => next = new
      /\ ~Atomic!HasKey(new, row) =>
             /\ Len(next) = Len(new) + 1
             /\ next[Len(new) + 1] = row
             /\ \A k \in 1..Len(new) : next[k] = new[k]
      /\ Atomic!HasKey(next, row)
      /\ \A r : Atomic!HasKey(new, r) => Atomic!HasKey(next, r)
  BY InsertedIs
<1>7. Len(old) \in Nat /\ Len(new) \in Nat
  OBVIOUS
<1>8. \A i \in L \cup {n} : Atomic!HasKey(next, RowAt(f, i))
  BY <1>5, <1>6
<1> HIDE DEF fresh, fresh2, next, row, L
<1>9. CASE Atomic!HasKey(new, row)
  <2>1. fresh2 = fresh /\ next = new
    BY <1>4, <1>6, <1>9
  <2>2. Atomic!Adds(old, next, f, L \cup {n})
    BY <2>1, <1>5, AddsSays DEF fresh, fresh2
  <2> QED
    BY <2>1, <2>2, <1>1, <1>5, <1>8 DEF Partly, next, row
<1>10. CASE ~Atomic!HasKey(new, row)
  <2>1. fresh2 = fresh \cup {n} /\ n \notin fresh
    BY <1>4, <1>10, <1>1, <1>3
  <2>2. Cardinality(fresh2) = Cardinality(fresh) + 1
    BY <2>1, <1>3, FS_AddElement
  <2>3. Len(next) = Len(old) + Cardinality(fresh2) /\ Len(next) = Len(new) + 1
    BY <2>2, <1>3, <1>5, <1>6, <1>7, <1>10
  <2>4. \A k \in 1..Len(old) : next[k] = old[k]
    BY <1>3, <1>5, <1>6, <1>7, <1>10
  <2>5. ASSUME NEW i \in fresh
        PROVE  next[Len(old) + Cardinality({j \in fresh2 : j <= i})] = RowAt(f, i)
    <3>1. {j \in fresh2 : j <= i} = {j \in fresh : j <= i}
      <4>1. i \in L /\ i < n /\ i \in Int /\ ~(n <= i)
        BY <1>1, <1>3
      <4> QED
        BY <2>1, <4>1
    <3> DEFINE c == Cardinality({j \in fresh : j <= i})
    <3>2. c \in 1..Cardinality(fresh)
      <4>1. {j \in fresh : j <= i} \in SUBSET fresh
        OBVIOUS
      <4>2. /\ IsFiniteSet({j \in fresh : j <= i}) /\ c \in Nat /\ c <= Cardinality(fresh)
        BY <4>1, <1>3, FS_Subset, FS_CardinalityType
      <4>3. i \in {j \in fresh : j <= i}
        BY <1>1, <1>3
      <4>4. c # 0
        BY <4>2, <4>3, FS_EmptySet
      <4> QED
        BY <4>2, <4>4, <1>3
    <3>3. Len(old) + c \in 1..Len(new)
      BY <3>2, <1>3, <1>5, <1>7
    <3>4. new[Len(old) + c] = RowAt(f, i)
      BY <1>5
    <3> HIDE DEF c
    <3>5. next[Len(old) + c] = new[Len(old) + c]
      BY <3>3, <1>6, <1>10
    <3> QED
      BY <3>1, <3>4, <3>5 DEF c
  <2>6. next[Len(old) + Cardinality({j \in fresh2 : j <= n})] = RowAt(f, n)
    <3>1. {j \in fresh2 : j <= n} = fresh2
      <4>1. n <= n
        BY <1>1
      <4>2. \A j \in fresh : j < n /\ j \in Int
        BY <1>1, <1>3
      <4>3. \A j \in fresh : j <= n
        BY <4>2, <1>1
      <4>4. \A j \in fresh2 : j <= n
        BY <2>1, <4>1, <4>3
      <4> QED
        BY <4>4
    <3>2. Len(old) + Cardinality(fresh2) = Len(new) + 1
      BY <2>3
    <3> QED
      BY <3>1, <3>2, <1>6, <1>10 DEF row
  <2>7. Atomic!Adds(old, next, f, L \cup {n})
    <3>1. \A i \in fresh2 : next[Len(old) + Cardinality({j \in fresh2 : j <= i})] = RowAt(f, i)
      BY <2>1, <2>5, <2>6
    <3> QED
      BY <2>3, <2>4, <3>1, AddsSays DEF fresh2
  <2>8. ASSUME NEW k \in (Len(old) + 1)..Len(next)
        PROVE  \E i \in L \cup {n} : next[k] = RowAt(f, i)
    <3>1. CASE k = Len(new) + 1
      BY <3>1, <1>6, <1>10 DEF row
    <3>2. CASE k # Len(new) + 1
      <4>1. k \in (Len(old) + 1)..Len(new) /\ k \in 1..Len(new)
        BY <3>2, <2>3, <1>7
      <4> QED
        BY <4>1, <1>5, <1>6, <1>10
    <3> QED
      BY <3>1, <3>2
  <2> QED
    BY <2>7, <2>8, <1>1, <1>8 DEF Partly, next, row
<1> QED
  BY <1>9, <1>10

-----------------------------------------------------------------------------
(* The invariant. *)

\* The types the proofs need, and which part of the code a process is in.
Types ==
    /\ tables \in [Tables -> Seq(Row)]
    /\ writer \in Processes \cup {Nobody}
    /\ pc \in [Processes -> {"idle", "importing", "reading", "saving", "returned", "failed"}]
    /\ \A p \in Importers : pc[p] \notin {"reading", "saving"}
    /\ \A p \in Matchers : pc[p] # "importing"
    /\ at \in [Processes -> Nat \ {0}]
    /\ file \in [Importers -> Files] /\ count \in [Importers -> Nat]
    /\ pending \in [Importers -> Seq(Row)]
    /\ dry_run \in [Matchers -> BOOLEAN] /\ internals \in [Matchers -> Seq(Row)]
    /\ report = [p \in Matchers |-> report[p]]

\* The lock is held by a process at work.
LockOK == \A p \in Processes : writer = p => pc[p] \in {"importing", "saving"}

\* How far an import has got.  With the lock, its transaction holds the rows of the
\* lines so far on top of the committed table; without, it has counted none.  The
\* keys of one that has returned are there for good.
ImportOK(p) ==
    /\ pc[p] = "idle" => at[p] = 1 /\ count[p] = 0
    /\ pc[p] = "importing" =>
           /\ at[p] <= Len(content[file[p]]) + 1
           /\ count[p] = Counted(file[p], at[p])
           /\ writer = p => Partly(tables[target(file[p])], pending[p],
                                   file[p], Before(file[p], at[p]))
           /\ writer # p => count[p] = 0
    /\ pc[p] = "returned" =>
           \A i \in RowLines(file[p]) :
               Atomic!HasKey(tables[target(file[p])], RowAt(file[p], i))

\* These are the first rows of a table.
Beginning(rows, table) == \E m \in 0..Len(table) : rows = SubSeq(table, 1, m)

\* A report made of what the two tables began with.
Reported(breaks) ==
    \E m \in 0..Len(tables["internal_trades"]), n \in 0..Len(tables["confirmations"]) :
        breaks = Breaks(SubSeq(tables["internal_trades"], 1, m),
                        SubSeq(tables["confirmations"], 1, n))

\* What a matching run has read is still the beginning of the table, and the report
\* it is to save is one of such beginnings.
MatchOK(p) ==
    /\ pc[p] = "reading" => Beginning(internals[p], tables["internal_trades"])
    /\ pc[p] = "saving" => ~dry_run[p] /\ report[p] # <<>> /\ Reported(report[p])

\* The inductive invariant.
IInv == /\ Types /\ LockOK
        /\ \A p \in Importers : ImportOK(p)
        /\ \A p \in Matchers : MatchOK(p)

\* new begins with old.
Grows(old, new) == Len(old) <= Len(new) /\ \A k \in 1..Len(old) : new[k] = old[k]

\* What process p does next.
StepOf(p) == \/ p \in Importers /\ ImportStep(p)
             \/ p \in Matchers /\ MatchStep(p)
             \/ Die(p)

\* The invariant holds at the start.
LEMMA IInvInit == Init => IInv
<1> SUFFICES ASSUME Init
             PROVE  IInv
  OBVIOUS
<1>1. Nobody \notin Processes
  BY ProcessAssumption DEF Processes
<1>2. Types
  BY DEF Init, Types, Tables, Processes
<1>3. LockOK
  BY <1>1 DEF Init, LockOK
<1>4. \A p \in Importers : ImportOK(p)
  BY DEF Init, ImportOK, Processes
<1>5. \A p \in Matchers : MatchOK(p)
  BY DEF Init, MatchOK, Processes
<1> QED
  BY <1>2, <1>3, <1>4, <1>5 DEF IInv

\* A step is the step of some process.
LEMMA NextIsStep == Next <=> \E p \in Processes : StepOf(p)
  BY DEF Next, StepOf, Processes

\* The loop only adds to the table it began with.
LEMMA PartlyGrows ==
    ASSUME NEW old \in Seq(Row), NEW new \in Seq(Row), NEW f \in Files, NEW n,
           Partly(old, new, f, Before(f, n))
    PROVE  Grows(old, new)
<1> DEFINE fresh == Atomic!NewLines(old, f, Before(f, n))
<1>1. fresh \in SUBSET Before(f, n) /\ IsFiniteSet(Before(f, n))
  BY BeforeFinite DEF Atomic!NewLines
<1>2. Cardinality(fresh) \in Nat
  BY <1>1, FS_Subset, FS_CardinalityType
<1>3. Len(new) = Len(old) + Cardinality(fresh) /\ \A k \in 1..Len(old) : new[k] = old[k]
  BY AddsSays DEF Partly
<1>4. Len(old) \in Nat /\ Len(new) \in Nat
  OBVIOUS
<1> QED
  BY <1>2, <1>3, <1>4 DEF Grows

\* What a longer table still has: the keys and the beginnings of the shorter one.
LEMMA GrowsKeeps ==
    ASSUME NEW old \in Seq(Row), NEW new \in Seq(Row), Grows(old, new)
    PROVE  /\ \A r : Atomic!HasKey(old, r) => Atomic!HasKey(new, r)
           /\ \A m \in 0..Len(old) : m \in 0..Len(new) /\ SubSeq(new, 1, m) = SubSeq(old, 1, m)
<1>1. /\ Len(old) \in Nat /\ Len(new) \in Nat /\ Len(old) <= Len(new)
      /\ DOMAIN old = 1..Len(old) /\ DOMAIN new = 1..Len(new)
      /\ \A k \in 1..Len(old) : new[k] = old[k]
  BY DEF Grows
<1>2. ASSUME NEW m \in 0..Len(old)
      PROVE  m \in 0..Len(new) /\ SubSeq(new, 1, m) = SubSeq(old, 1, m)
  <2>1. m \in 0..Len(new)
    BY <1>1
  <2>2. /\ SubSeq(old, 1, m) = [i \in 1..m |-> old[i]]
        /\ SubSeq(new, 1, m) = [i \in 1..m |-> new[i]]
    BY <1>1
  <2>3. \A i \in 1..m : new[i] = old[i]
    BY <1>1
  <2> QED
    BY <2>1, <2>2, <2>3
<1>3. \A r : Atomic!HasKey(old, r) => Atomic!HasKey(new, r)
  BY <1>1 DEF Atomic!HasKey
<1> QED
  BY <1>2, <1>3

\* What the INSERT of a line makes of the table as its process sees it.
LEMMA InsertedTyped ==
    ASSUME Types, NEW p \in Importers, ImportOK(p), pc[p] = "importing",
           at[p] <= Len(content[file[p]])
    PROVE  /\ Seen(p) \in Seq(Row)
           /\ CurrentLine(p).is = "row" => RowOf(file[p], CurrentLine(p), count[p]) \in Row
           /\ CurrentLine(p).is \in {"row", "ignored"} => Inserted(p) \in Seq(Row)
<1> DEFINE f == file[p]
           n == at[p]
<1>1. /\ f \in Files /\ n \in Nat \ {0} /\ n <= Len(content[f]) /\ Len(content[f]) \in Nat
      /\ content[f] \in Seq(Line) /\ target(f) \in Tables
  BY FileAssumption DEF Types, Processes, target, Tables
<1>2. n \in DOMAIN content[f] /\ count[p] \in 0..(n - 1)
  BY <1>1, CountedStep DEF ImportOK
<1>3. count[p] \in 0..Len(content[f])
  BY <1>1, <1>2
<1>4. RowOf(f, content[f][n], count[p]) \in Row
  BY <1>1, <1>2, <1>3, RowTyped
<1>5. Seen(p) \in Seq(Row)
  BY <1>1 DEF Seen, Types
<1>6. InsertOrIgnore(Seen(p), RowOf(f, content[f][n], count[p])) \in Seq(Row)
  BY <1>4, <1>5, InsertedIs
<1> QED
  BY <1>4, <1>5, <1>6 DEF Inserted, CurrentLine

-----------------------------------------------------------------------------
(* The steps of one process and everybody else. *)

\* Of the other processes a step changes nothing, and it leaves the tables alone while
\* another process holds the lock.
LEMMA OthersUntouched ==
    ASSUME Types, NEW p \in Processes, StepOf(p), NEW q \in Processes, q # p
    PROVE  /\ pc'[q] = pc[q] /\ at'[q] = at[q] /\ (writer' = q <=> writer = q)
           /\ file' = file /\ dry_run' = dry_run
           /\ q \in Importers => count'[q] = count[q] /\ pending'[q] = pending[q]
           /\ q \in Matchers => internals'[q] = internals[q] /\ report'[q] = report[q]
           /\ writer = q => tables' = tables
<1>1. Nobody \notin Processes /\ Importers \cap Matchers = {}
  BY ProcessAssumption DEF Processes
<1>2. CASE p \in Importers /\ StartImport(p)
  BY <1>1, <1>2 DEF StartImport, Types, Processes, import_vars, match_vars
<1>3. CASE p \in Importers /\ ImportLine(p)
  BY <1>1, <1>3 DEF ImportLine, HasLock, Types, Processes, import_vars, match_vars
<1>4. CASE p \in Importers /\ SkipLine(p)
  BY <1>1, <1>4 DEF SkipLine, Types, Processes, import_vars, match_vars
<1>5. CASE p \in Importers /\ RaiseAtLine(p)
  BY <1>1, <1>5 DEF RaiseAtLine, Ends, Types, Processes, import_vars, match_vars
<1>6. CASE p \in Importers /\ FinishImport(p)
  BY <1>1, <1>6 DEF FinishImport, Ends, Types, Processes, import_vars, match_vars
<1>7. CASE p \in Matchers /\ ReadInternals(p)
  BY <1>1, <1>7 DEF ReadInternals, Types, Processes, import_vars, match_vars
<1>8. CASE p \in Matchers /\ ReadConfirmations(p)
  BY <1>1, <1>8 DEF ReadConfirmations, Types, Processes, import_vars, match_vars
<1>9. CASE p \in Matchers /\ SaveException(p)
  BY <1>1, <1>9 DEF SaveException, HasLock, Types, Processes, import_vars, match_vars
<1>10. CASE p \in Matchers /\ CommitExceptions(p)
  BY <1>1, <1>10 DEF CommitExceptions, Ends, Types, Processes, import_vars, match_vars
<1>11. CASE Die(p)
  BY <1>1, <1>11 DEF Die, Ends, Types, Processes, import_vars, match_vars
<1> QED
  BY <1>2, <1>3, <1>4, <1>5, <1>6, <1>7, <1>8, <1>9, <1>10, <1>11
     DEF StepOf, ImportStep, MatchStep

\* Every step keeps the types.
LEMMA TypesStep ==
    ASSUME IInv, NEW p \in Processes, StepOf(p)
    PROVE  Types'
<1> USE DEF IInv
<1>1. Types /\ Importers \subseteq Processes /\ Matchers \subseteq Processes
      /\ Importers \cap Matchers = {} /\ p \in Importers \cup Matchers
  BY ProcessAssumption DEF Processes
<1>2. CASE p \in Importers /\ StartImport(p)
  BY <1>1, <1>2 DEF StartImport, Types, import_vars, match_vars
<1>3. CASE p \in Importers /\ ImportLine(p)
  <2>1. Inserted(p) \in Seq(Row)
    BY <1>1, <1>3, InsertedTyped DEF ImportLine, AtLine
  <2>2. /\ pending' = [pending EXCEPT ![p] = Inserted(p)]
        /\ count' = [count EXCEPT ![p] = @ + 1] /\ at' = [at EXCEPT ![p] = @ + 1]
        /\ writer' = p /\ UNCHANGED <<tables, pc, file, dry_run, internals, report>>
    BY <1>3 DEF ImportLine, HasLock, match_vars
  <2>3. pending' \in [Importers -> Seq(Row)]
    BY <2>1, <2>2, <1>1 DEF Types
  <2>4. count' \in [Importers -> Nat]
    <3>1. count[p] + 1 \in Nat /\ count \in [Importers -> Nat]
      BY <1>1, <1>3 DEF Types
    <3> QED
      BY <2>2, <3>1
  <2>5. at' \in [Processes -> Nat \ {0}]
    <3>1. at[p] + 1 \in Nat \ {0} /\ at \in [Processes -> Nat \ {0}]
      BY <1>1 DEF Types
    <3> QED
      BY <2>2, <3>1
  <2> QED
    BY <2>2, <2>3, <2>4, <2>5, <1>1 DEF Types
<1>4. CASE p \in Importers /\ SkipLine(p)
  BY <1>1, <1>4 DEF SkipLine, Types, import_vars, match_vars
<1>5. CASE p \in Importers /\ RaiseAtLine(p)
  BY <1>1, <1>5 DEF RaiseAtLine, Ends, Types, import_vars, match_vars
<1>6. CASE p \in Importers /\ FinishImport(p)
  <2>1. tables' \in [Tables -> Seq(Row)]
    BY <1>1, <1>6 DEF FinishImport, Types
  <2> QED
    BY <2>1, <1>1, <1>6 DEF FinishImport, Ends, Types, import_vars, match_vars
<1>7. CASE p \in Matchers /\ ReadInternals(p)
  BY <1>1, <1>7 DEF ReadInternals, Types, Tables, import_vars
<1>8. CASE p \in Matchers /\ ReadConfirmations(p)
  <2>1. /\ report' = [report EXCEPT ![p] = Breaks(internals[p], tables["confirmations"])]
        /\ \E how \in {"returned", "saving"} : pc' = [pc EXCEPT ![p] = how]
        /\ UNCHANGED <<tables, writer, at, file, count, pending, dry_run, internals>>
    BY <1>8 DEF ReadConfirmations, import_vars
  <2>2. report' = [q \in Matchers |-> report'[q]]
    BY <2>1, <1>1 DEF Types
  <2>3. PICK how \in {"returned", "saving"} : pc' = [pc EXCEPT ![p] = how]
    BY <2>1
  <2>4. /\ pc' \in [Processes -> {"idle", "importing", "reading", "saving", "returned", "failed"}]
        /\ \A q \in Importers : pc'[q] \notin {"reading", "saving"}
        /\ \A q \in Matchers : pc'[q] # "importing"
    BY <2>3, <1>1, <1>8 DEF Types
  <2> QED
    BY <2>1, <2>2, <2>4, <1>1 DEF Types
<1>9. CASE p \in Matchers /\ SaveException(p)
  BY <1>1, <1>9 DEF SaveException, HasLock, Types, import_vars, match_vars
<1>10. CASE p \in Matchers /\ CommitExceptions(p)
  BY <1>1, <1>10 DEF CommitExceptions, Ends, Types, import_vars, match_vars
<1>11. CASE Die(p)
  BY <1>1, <1>11 DEF Die, Ends, Types, import_vars, match_vars
<1> QED
  BY <1>2, <1>3, <1>4, <1>5, <1>6, <1>7, <1>8, <1>9, <1>10, <1>11
     DEF StepOf, ImportStep, MatchStep

\* The lock stays with processes at work.
LEMMA LockStep ==
    ASSUME IInv, NEW p \in Processes, StepOf(p)
    PROVE  LockOK'
<1> SUFFICES ASSUME NEW q \in Processes, writer' = q
             PROVE  pc'[q] \in {"importing", "saving"}
  BY DEF LockOK
<1>1. Types /\ LockOK /\ Nobody \notin Processes
  BY ProcessAssumption DEF IInv, Processes
<1>2. CASE q # p
  BY <1>1, <1>2, OthersUntouched DEF LockOK
<1>3. CASE q = p
  <2> USE DEF Types, LockOK
  <2>1. CASE p \in Importers /\ StartImport(p)
    BY <1>1, <1>3, <2>1 DEF StartImport
  <2>2. CASE p \in Importers /\ ImportLine(p)
    BY <1>1, <1>3, <2>2 DEF ImportLine, AtLine
  <2>3. CASE p \in Importers /\ SkipLine(p)
    BY <1>1, <1>3, <2>3 DEF SkipLine, AtLine
  <2>4. CASE p \in Importers /\ RaiseAtLine(p)
    BY <1>1, <1>3, <2>4 DEF RaiseAtLine, Ends
  <2>5. CASE p \in Importers /\ FinishImport(p)
    BY <1>1, <1>3, <2>5 DEF FinishImport, Ends
  <2>6. CASE p \in Matchers /\ ReadInternals(p)
    BY <1>1, <1>3, <2>6 DEF ReadInternals
  <2>7. CASE p \in Matchers /\ ReadConfirmations(p)
    BY <1>1, <1>3, <2>7 DEF ReadConfirmations
  <2>8. CASE p \in Matchers /\ SaveException(p)
    BY <1>1, <1>3, <2>8 DEF SaveException
  <2>9. CASE p \in Matchers /\ CommitExceptions(p)
    BY <1>1, <1>3, <2>9 DEF CommitExceptions, Ends
  <2>10. CASE Die(p)
    BY <1>1, <1>3, <2>10 DEF Die, Ends
  <2> QED
    BY <2>1, <2>2, <2>3, <2>4, <2>5, <2>6, <2>7, <2>8, <2>9, <2>10
       DEF StepOf, ImportStep, MatchStep
<1> QED
  BY <1>2, <1>3

\* The table of a finished import has grown by the loop over all its lines; without
\* the lock there was none to add.
LEMMA Finished ==
    ASSUME IInv, NEW p \in Importers, FinishImport(p)
    PROVE  LET f == file[p]
           IN  /\ target(f) \in Tables
               /\ tables'[target(f)] \in Seq(Row)
               /\ Partly(tables[target(f)], tables'[target(f)], f, RowLines(f))
               /\ Before(f, at[p]) = RowLines(f)
               /\ \A t \in Tables : t # target(f) => tables'[t] = tables[t]
               /\ count[p] = CountOf(f)
<1> DEFINE f == file[p]
           T == target(f)
<1>1. /\ Types /\ ImportOK(p) /\ f \in Files /\ T \in Tables /\ p \in Processes
      /\ pc[p] = "importing" /\ at[p] > Len(content[f])
      /\ tables[T] \in Seq(Row) /\ pending[p] \in Seq(Row) /\ tables \in [Tables -> Seq(Row)]
      /\ at[p] \in Nat \ {0}
  BY DEF IInv, Types, FinishImport, target, Tables, Processes
<1>2. /\ at[p] = Len(content[f]) + 1 /\ count[p] = Counted(f, at[p])
      /\ Len(content[f]) \in Nat
  BY <1>1, FileAssumption DEF ImportOK
<1>3. /\ Before(f, at[p]) = RowLines(f)
      /\ Counted(f, at[p]) = 0 => Before(f, at[p]) = {}
  <2>1. at[p] \in 1..(Len(content[f]) + 1) /\ at[p] > Len(content[f])
    BY <1>1, <1>2
  <2> QED
    BY <1>1, <2>1, BeforeEnds
<1>4. CASE writer = p
  <2>1. tables' = [tables EXCEPT ![T] = pending[p]]
    BY <1>4 DEF FinishImport
  <2>2. Partly(tables[T], pending[p], f, RowLines(f))
    BY <1>1, <1>3, <1>4 DEF ImportOK
  <2>3. tables'[T] = pending[p] /\ \A t \in Tables : t # T => tables'[t] = tables[t]
    BY <2>1, <1>1
  <2> QED
    BY <1>1, <1>2, <1>3, <2>2, <2>3 DEF CountOf
<1>5. CASE writer # p
  <2>1. tables' = tables /\ RowLines(f) = {}
    BY <1>1, <1>2, <1>3, <1>5 DEF FinishImport, ImportOK
  <2>2. Partly(tables[T], tables[T], f, {})
    BY <1>1, PartlyNothing
  <2> QED
    BY <1>1, <1>2, <1>3, <2>1, <2>2 DEF CountOf
<1> QED
  BY <1>4, <1>5

\* Committed tables only grow, and only imports change them.
LEMMA TablesGrow ==
    ASSUME IInv, NEW p \in Processes, StepOf(p), NEW t \in Tables
    PROVE  /\ tables[t] \in Seq(Row) /\ tables'[t] \in Seq(Row)
           /\ Grows(tables[t], tables'[t])
<1>1. Types /\ Types'
  BY TypesStep DEF IInv
<1>2. tables[t] \in Seq(Row) /\ tables'[t] \in Seq(Row) /\ Len(tables[t]) \in Nat
  BY <1>1 DEF Types
<1>3. CASE tables' = tables
  BY <1>2, <1>3 DEF Grows
<1>4. CASE p \in Importers /\ FinishImport(p)
  <2>1. CASE t = target(file[p])
    <3>1. Partly(tables[t], tables'[t], file[p], Before(file[p], at[p])) /\ file[p] \in Files
      BY <1>1, <1>4, <2>1, Finished DEF Types
    <3> QED
      BY <1>2, <3>1, PartlyGrows
  <2>2. CASE t # target(file[p])
    BY <1>2, <1>4, <2>2, Finished DEF Grows
  <2> QED
    BY <2>1, <2>2
<1> QED
  BY <1>2, <1>3, <1>4 DEF StepOf, ImportStep, MatchStep, StartImport, ImportLine, SkipLine,
        RaiseAtLine, ReadInternals, ReadConfirmations, SaveException, CommitExceptions, Die

\* What a step of another process leaves of an import.
LEMMA ImportOfOther ==
    ASSUME IInv, NEW p \in Processes, StepOf(p), NEW q \in Importers, q # p
    PROVE  ImportOK(q)'
<1> DEFINE f == file[q]
           T == target(f)
<1>1. /\ Types /\ ImportOK(q) /\ q \in Processes /\ T \in Tables
  BY DEF IInv, Processes, target, Tables
<1>2. /\ pc'[q] = pc[q] /\ at'[q] = at[q] /\ (writer' = q <=> writer = q) /\ file' = file
      /\ count'[q] = count[q] /\ pending'[q] = pending[q]
      /\ writer = q => tables' = tables
  BY <1>1, OthersUntouched
<1>3. \A r : Atomic!HasKey(tables[T], r) => Atomic!HasKey(tables'[T], r)
  BY <1>1, TablesGrow, GrowsKeeps
<1>4. pc[q] = "importing" /\ writer = q
          => Partly(tables'[T], pending[q], f, Before(f, at[q]))
  BY <1>1, <1>2 DEF ImportOK
<1>5. pc[q] = "returned" =>
          \A i \in RowLines(f) : Atomic!HasKey(tables'[T], RowAt(f, i))
  BY <1>1, <1>3 DEF ImportOK
<1> QED
  BY <1>1, <1>2, <1>4, <1>5 DEF ImportOK

\* The INSERT of a line takes the loop one line on.
LEMMA ImportLineOK ==
    ASSUME IInv, NEW p \in Importers, ImportLine(p)
    PROVE  ImportOK(p)'
<1> DEFINE f == file[p]
           n == at[p]
           T == target(f)
<1>1. /\ Types /\ ImportOK(p) /\ f \in Files /\ T \in Tables /\ p \in Processes
      /\ pc[p] = "importing" /\ n <= Len(content[f]) /\ n \in Nat \ {0}
      /\ content[f][n].is \in {"row", "ignored"} /\ writer \in {Nobody, p}
      /\ Len(content[f]) \in Nat /\ n \in DOMAIN content[f] /\ content[f] \in Seq(Line)
      /\ tables[T] \in Seq(Row) /\ pending[p] \in Seq(Row) /\ count[p] \in Nat
  BY FileAssumption
     DEF IInv, Types, ImportLine, AtLine, CurrentLine, HasLock, target, Tables, Processes
<1>2. /\ writer' = p /\ pending'[p] = Inserted(p) /\ count'[p] = count[p] + 1
      /\ at'[p] = n + 1 /\ UNCHANGED <<tables, pc, file>>
  BY <1>1 DEF ImportLine, HasLock, Types
<1>3. /\ count[p] = Counted(f, n) /\ Counted(f, n + 1) = Counted(f, n) + 1
  BY <1>1, CountedStep DEF ImportOK
<1>4. Seen(p) \in Seq(Row) /\ Partly(tables[T], Seen(p), f, Before(f, n))
  <2>1. CASE writer = p
    BY <1>1, <2>1 DEF ImportOK, Seen
  <2>2. CASE writer # p
    <3>1. n \in 1..(Len(content[f]) + 1) /\ Counted(f, n) = 0
      BY <1>1, <1>3, <2>2 DEF ImportOK
    <3>2. Before(f, n) = {}
      BY <1>1, <3>1, BeforeEnds
    <3> QED
      BY <1>1, <2>2, <3>2, PartlyNothing DEF Seen
  <2> QED
    BY <2>1, <2>2
<1>5. Partly(tables[T], Inserted(p), f, Before(f, n + 1))
  <2>1. CASE content[f][n].is = "row"
    <3>1. n \in RowLines(f)
      BY <1>1, <2>1 DEF RowLines
    <3>2. Inserted(p) = InsertOrIgnore(Seen(p), RowAt(f, n))
      BY <1>3, <2>1 DEF Inserted, CurrentLine, RowAt
    <3>3. RowAt(f, n) \in Row
      BY <1>1, <1>3, <2>1, InsertedTyped DEF RowAt, CurrentLine
    <3> QED
      BY <1>1, <1>4, <3>1, <3>2, <3>3, PartlyStep
  <2>2. CASE content[f][n].is = "ignored"
    BY <1>1, <1>4, <2>2, BeforeStep DEF Inserted, CurrentLine
  <2> QED
    BY <1>1, <2>1, <2>2
<1>6. n + 1 <= Len(content[f]) + 1
  BY <1>1
<1> QED
  BY <1>1, <1>2, <1>3, <1>5, <1>6 DEF ImportOK

\* A skipped line leaves the loop where it was.
LEMMA SkipLineOK ==
    ASSUME IInv, NEW p \in Importers, SkipLine(p)
    PROVE  ImportOK(p)'
<1> DEFINE f == file[p]
           n == at[p]
<1>1. /\ Types /\ ImportOK(p) /\ f \in Files /\ p \in Processes
      /\ pc[p] = "importing" /\ n <= Len(content[f]) /\ n \in Nat \ {0}
      /\ content[f][n].is = "skipped"
      /\ Len(content[f]) \in Nat /\ n \in DOMAIN content[f] /\ content[f] \in Seq(Line)
  BY FileAssumption DEF IInv, Types, SkipLine, AtLine, CurrentLine, Processes
<1>2. at'[p] = n + 1 /\ UNCHANGED <<tables, pc, writer, file, count, pending>>
  BY <1>1 DEF SkipLine, Types, import_vars
<1>3. Counted(f, n + 1) = Counted(f, n) /\ Before(f, n + 1) = Before(f, n)
  BY <1>1, CountedStep, BeforeStep
<1>4. n + 1 <= Len(content[f]) + 1
  BY <1>1
<1> QED
  BY <1>1, <1>2, <1>3, <1>4 DEF ImportOK

\* The steps of an import keep what is claimed about it.
LEMMA ImportOfOwn ==
    ASSUME IInv, NEW p \in Importers, StepOf(p)
    PROVE  ImportOK(p)'
<1>1. /\ Types /\ LockOK /\ ImportOK(p) /\ p \in Processes /\ p \notin Matchers
      /\ file[p] \in Files
  BY ProcessAssumption DEF IInv, Types, Processes
<1>2. CASE StartImport(p)
  <2>1. /\ at[p] = 1 /\ count[p] = 0 /\ writer # p /\ pc'[p] = "importing"
        /\ UNCHANGED <<tables, writer, at, file, count, pending>>
    BY <1>1, <1>2 DEF StartImport, ImportOK, LockOK, Types, import_vars
  <2>2. Counted(file[p], 1) = 0
    <3>1. 1 \in Nat \ {0}
      OBVIOUS
    <3> QED
      BY <1>1, <3>1, CountedStep
  <2>3. Len(content[file[p]]) \in Nat
    BY <1>1, FileAssumption
  <2> QED
    BY <2>1, <2>2, <2>3 DEF ImportOK
<1>3. CASE ImportLine(p)
  BY <1>3, ImportLineOK
<1>4. CASE SkipLine(p)
  BY <1>4, SkipLineOK
<1>5. CASE RaiseAtLine(p) \/ Die(p)
  <2>1. pc'[p] = "failed"
    BY <1>1, <1>5 DEF RaiseAtLine, Die, Ends, Types
  <2> QED
    BY <2>1 DEF ImportOK
<1>6. CASE FinishImport(p)
  <2>1. pc'[p] = "returned" /\ file' = file
    BY <1>1, <1>6 DEF FinishImport, Ends, Types, import_vars
  <2>2. \A i \in RowLines(file[p]) :
            Atomic!HasKey(tables'[target(file[p])], RowAt(file[p], i))
    BY <1>6, Finished DEF Partly
  <2> QED
    BY <2>1, <2>2 DEF ImportOK
<1> QED
  BY <1>1, <1>2, <1>3, <1>4, <1>5, <1>6 DEF StepOf, ImportStep

\* What a step of another process leaves of a matching run.
LEMMA MatchOfOther ==
    ASSUME IInv, NEW p \in Processes, StepOf(p), NEW q \in Matchers, q # p
    PROVE  MatchOK(q)'
<1> DEFINE I == tables["internal_trades"]
           C == tables["confirmations"]
           I2 == tables'["internal_trades"]
           C2 == tables'["confirmations"]
<1>1. Types /\ MatchOK(q) /\ q \in Processes
  BY DEF IInv, Processes
<1>2. /\ pc'[q] = pc[q] /\ dry_run' = dry_run
      /\ internals'[q] = internals[q] /\ report'[q] = report[q]
  BY <1>1, OthersUntouched
<1>3. "internal_trades" \in Tables /\ "confirmations" \in Tables
  BY DEF Tables
<1>4. \A m \in 0..Len(I) : m \in 0..Len(I2) /\ SubSeq(I2, 1, m) = SubSeq(I, 1, m)
  BY <1>3, TablesGrow, GrowsKeeps
<1>5. \A n \in 0..Len(C) : n \in 0..Len(C2) /\ SubSeq(C2, 1, n) = SubSeq(C, 1, n)
  BY <1>3, TablesGrow, GrowsKeeps
<1>6. pc[q] = "reading" => Beginning(internals[q], I2)
  BY <1>1, <1>4 DEF MatchOK, Beginning
<1>7. pc[q] = "saving" =>
          \E m \in 0..Len(I2), n \in 0..Len(C2) :
              report[q] = Breaks(SubSeq(I2, 1, m), SubSeq(C2, 1, n))
  <2> SUFFICES ASSUME pc[q] = "saving"
               PROVE  \E m \in 0..Len(I2), n \in 0..Len(C2) :
                          report[q] = Breaks(SubSeq(I2, 1, m), SubSeq(C2, 1, n))
    OBVIOUS
  <2>1. PICK m \in 0..Len(I), n \in 0..Len(C) :
            report[q] = Breaks(SubSeq(I, 1, m), SubSeq(C, 1, n))
    BY <1>1 DEF MatchOK, Reported
  <2>2. report[q] = Breaks(SubSeq(I2, 1, m), SubSeq(C2, 1, n))
    BY <2>1, <1>4, <1>5
  <2> QED
    BY <2>1, <2>2, <1>4, <1>5
<1> QED
  BY <1>1, <1>2, <1>6, <1>7 DEF MatchOK, Reported

\* The report of a run that reads its second table now, from the first as it read it.
LEMMA ReportedNow ==
    ASSUME IInv, NEW p \in Matchers, ReadConfirmations(p)
    PROVE  /\ report' = [report EXCEPT ![p] = Breaks(internals[p], tables["confirmations"])]
           /\ Reported(report'[p])
<1> DEFINE I == tables["internal_trades"]
           C == tables["confirmations"]
<1>1. /\ Types /\ MatchOK(p) /\ pc[p] = "reading" /\ C \in Seq(Row)
      /\ report' = [report EXCEPT ![p] = Breaks(internals[p], C)]
      /\ report'[p] = Breaks(internals[p], C)
  BY DEF IInv, ReadConfirmations, Types, Tables
<1>2. PICK m \in 0..Len(I) : internals[p] = SubSeq(I, 1, m)
  BY <1>1 DEF MatchOK, Beginning
<1>3. Len(C) \in 0..Len(C) /\ SubSeq(C, 1, Len(C)) = C
  BY <1>1
<1> QED
  BY <1>1, <1>2, <1>3 DEF Reported

\* The steps of a matching run keep what is claimed about it.
LEMMA MatchOfOwn ==
    ASSUME IInv, NEW p \in Matchers, StepOf(p)
    PROVE  MatchOK(p)'
<1>1. Types /\ MatchOK(p) /\ p \in Processes /\ p \notin Importers
  BY ProcessAssumption DEF IInv, Processes
<1>2. CASE ReadInternals(p)
  <2>1. /\ pc'[p] = "reading" /\ internals'[p] = tables["internal_trades"]
        /\ tables' = tables /\ tables["internal_trades"] \in Seq(Row)
    BY <1>1, <1>2 DEF ReadInternals, Types, Tables
  <2>2. /\ Len(tables["internal_trades"]) \in 0..Len(tables["internal_trades"])
        /\ internals'[p] = SubSeq(tables["internal_trades"], 1, Len(tables["internal_trades"]))
    BY <2>1
  <2>3. Beginning(internals'[p], tables'["internal_trades"])
    BY <2>1, <2>2 DEF Beginning
  <2> QED
    BY <2>1, <2>3 DEF MatchOK
<1>3. CASE ReadConfirmations(p)
  <2>1. /\ tables' = tables /\ dry_run' = dry_run
        /\ pc'[p] = IF dry_run[p] \/ report'[p] = <<>> THEN "returned" ELSE "saving"
    BY <1>1, <1>3 DEF ReadConfirmations, Types
  <2>2. Reported(report'[p])
    BY <1>3, ReportedNow
  <2>3. Reported(report[p])'
    BY <2>1, <2>2 DEF Reported
  <2> QED
    BY <2>1, <2>3 DEF MatchOK
<1>4. CASE SaveException(p)
  BY <1>1, <1>4 DEF SaveException, MatchOK, Reported, match_vars
<1>5. CASE CommitExceptions(p) \/ Die(p)
  <2>1. pc'[p] \in {"returned", "failed"}
    BY <1>1, <1>5 DEF CommitExceptions, Die, Ends, Types
  <2> QED
    BY <2>1 DEF MatchOK
<1> QED
  BY <1>1, <1>2, <1>3, <1>4, <1>5 DEF StepOf, MatchStep

\* The invariant is inductive.
LEMMA IInvStep == IInv /\ [Next]_vars => IInv'
<1> SUFFICES ASSUME IInv, [Next]_vars
             PROVE  IInv'
  OBVIOUS
<1>1. CASE UNCHANGED vars
  BY <1>1 DEF vars, import_vars, match_vars, IInv, Types, LockOK, ImportOK, MatchOK, Reported
<1>2. CASE \E p \in Processes : StepOf(p)
  <2>1. PICK p \in Processes : StepOf(p)
    BY <1>2
  <2>2. Types' /\ LockOK'
    BY <2>1, TypesStep, LockStep
  <2>3. ASSUME NEW q \in Importers
        PROVE  ImportOK(q)'
    BY <2>1, ImportOfOther, ImportOfOwn
  <2>4. ASSUME NEW q \in Matchers
        PROVE  MatchOK(q)'
    BY <2>1, MatchOfOther, MatchOfOwn
  <2> QED
    BY <2>2, <2>3, <2>4 DEF IInv
<1> QED
  BY <1>1, <1>2, NextIsStep

\* The invariant: an import that holds the lock has in its transaction exactly what its
\* lines so far add, and what a run has read is the beginning of its table.
THEOREM InvariantHolds == Spec => []IInv
  BY IInvInit, IInvStep, PTL DEF Spec

-----------------------------------------------------------------------------
(* The refinement. *)

\* A step in which no call ends does not show.
LEMMA NothingEnds ==
    ASSUME IInv, NEW p \in Processes, StepOf(p), pc[p] \notin {"returned", "failed"},
           pc'[p] \notin {"returned", "failed"}
    PROVE  Outcomes' = Outcomes /\ Counts' = Counts /\ Reports' = Reports
<1>1. Types /\ Types' /\ Importers \subseteq Processes /\ Matchers \subseteq Processes
  BY TypesStep DEF IInv, Processes
<1>2. \A q \in Processes : OutcomeOf(pc'[q]) = OutcomeOf(pc[q])
  BY <1>1, OthersUntouched DEF OutcomeOf
<1>3. \A q \in Importers : (IF pc'[q] = "returned" THEN count'[q] ELSE 0)
                             = (IF pc[q] = "returned" THEN count[q] ELSE 0)
  BY <1>1, OthersUntouched
<1>4. \A q \in Matchers : (IF pc'[q] = "returned" THEN report'[q] ELSE <<>>)
                            = (IF pc[q] = "returned" THEN report[q] ELSE <<>>)
  BY <1>1, OthersUntouched
<1> QED
  BY <1>2, <1>3, <1>4 DEF Outcomes, Counts, Reports

\* A step in which a call ends shows the end of that call, and what it returns.
LEMMA CallEnds ==
    ASSUME IInv, NEW p \in Processes, StepOf(p), pc[p] \notin {"returned", "failed"},
           pc'[p] \in {"returned", "failed"}
    PROVE  /\ Outcomes[p] = "open" /\ Outcomes' = [Outcomes EXCEPT ![p] = pc'[p]]
           /\ p \in Importers =>
                  /\ Reports' = Reports
                  /\ pc'[p] = "failed" => Counts' = Counts
                  /\ pc'[p] = "returned" => Counts' = [Counts EXCEPT ![p] = count'[p]]
           /\ p \in Matchers =>
                  /\ Counts' = Counts
                  /\ pc'[p] = "failed" => Reports' = Reports
                  /\ pc'[p] = "returned" => Reports' = [Reports EXCEPT ![p] = report'[p]]
<1>1. /\ Types /\ Types' /\ Importers \subseteq Processes /\ Matchers \subseteq Processes
      /\ Importers \cap Matchers = {}
  BY TypesStep, ProcessAssumption DEF IInv, Processes
<1>2. \A q \in Processes : OutcomeOf(pc'[q]) = IF q = p THEN pc'[p] ELSE OutcomeOf(pc[q])
  BY <1>1, OthersUntouched DEF OutcomeOf
<1>3. Outcomes[p] = "open"
  BY DEF Outcomes, OutcomeOf
<1>4. Outcomes' = [Outcomes EXCEPT ![p] = pc'[p]]
  BY <1>2 DEF Outcomes
<1>5. \A q \in Importers : q # p => pc'[q] = pc[q] /\ count'[q] = count[q]
  BY <1>1, OthersUntouched
<1>6. \A q \in Matchers : q # p => pc'[q] = pc[q] /\ report'[q] = report[q]
  BY <1>1, OthersUntouched
<1>7. ASSUME p \in Importers
      PROVE  /\ Reports' = Reports
             /\ pc'[p] = "failed" => Counts' = Counts
             /\ pc'[p] = "returned" => Counts' = [Counts EXCEPT ![p] = count'[p]]
  <2>1. p \notin Matchers
    BY <1>1, <1>7
  <2>2. Reports' = Reports
    BY <1>6, <2>1 DEF Reports
  <2>3. pc'[p] = "failed" => Counts' = Counts
    BY <1>5, <1>7 DEF Counts
  <2>4. pc'[p] = "returned" => Counts' = [Counts EXCEPT ![p] = count'[p]]
    BY <1>5, <1>7 DEF Counts
  <2> QED
    BY <2>2, <2>3, <2>4
<1>8. ASSUME p \in Matchers
      PROVE  /\ Counts' = Counts
             /\ pc'[p] = "failed" => Reports' = Reports
             /\ pc'[p] = "returned" => Reports' = [Reports EXCEPT ![p] = report'[p]]
  <2>1. p \notin Importers
    BY <1>1, <1>8
  <2>2. Counts' = Counts
    BY <1>5, <2>1 DEF Counts
  <2>3. pc'[p] = "failed" => Reports' = Reports
    BY <1>6, <1>8 DEF Reports
  <2>4. pc'[p] = "returned" => Reports' = [Reports EXCEPT ![p] = report'[p]]
    BY <1>6, <1>8 DEF Reports
  <2> QED
    BY <2>2, <2>3, <2>4
<1> QED
  BY <1>3, <1>4, <1>7, <1>8

\* The initial states map to initial states.
LEMMA AtomicInit == Init => Atomic!Init
<1> SUFFICES ASSUME Init
             PROVE  Atomic!Init
  OBVIOUS
<1>1. Outcomes = [p \in Importers \cup Matchers |-> "open"]
  BY DEF Init, Outcomes, OutcomeOf, Processes
<1>2. Counts = [p \in Importers |-> 0]
  BY DEF Init, Counts, Processes
<1>3. Reports = [p \in Matchers |-> <<>>]
  BY DEF Init, Reports, Processes
<1> QED
  BY <1>1, <1>2, <1>3
     DEF Init, Atomic!Init, Atomic!Tables, Tables, Outcomes, Counts, Reports, Processes

\* The commit of an import is an Import.
LEMMA FinishIsImport ==
    ASSUME IInv, NEW p \in Importers, FinishImport(p)
    PROVE  Atomic!Import(p)
<1> DEFINE f == file[p]
           T == target(f)
<1>1. /\ p \in Processes /\ StepOf(p) /\ pc[p] = "importing" /\ pc'[p] = "returned"
      /\ UNCHANGED <<exceptions, file, dry_run>> /\ count' = count
  BY DEF StepOf, ImportStep, FinishImport, Ends, IInv, Types, Processes,
         import_vars, match_vars
<1>2. /\ Outcomes[p] = "open" /\ Outcomes' = [Outcomes EXCEPT ![p] = "returned"]
      /\ Reports' = Reports /\ Counts' = [Counts EXCEPT ![p] = count'[p]]
  BY <1>1, CallEnds
<1>3. /\ Atomic!Adds(tables[T], tables'[T], f, RowLines(f))
      /\ \A t \in Tables \ {T} : tables'[t] = tables[t]
      /\ count'[p] = CountOf(f)
  BY <1>1, Finished DEF Partly
<1>4. Atomic!Ends(p, "returned")
  BY <1>2 DEF Atomic!Ends
<1> QED
  BY <1>1, <1>2, <1>3, <1>4 DEF Atomic!Import, Atomic!Tables, Tables

\* The end of a run, at the commit or, with nothing to save, at the second read, is a Run.
LEMMA EndIsRun ==
    ASSUME IInv, NEW p \in Matchers, ReadConfirmations(p) \/ CommitExceptions(p),
           pc'[p] = "returned"
    PROVE  Atomic!Run(p)
<1>1. /\ p \in Processes /\ StepOf(p) /\ pc[p] \in {"reading", "saving"}
      /\ UNCHANGED <<tables, file, dry_run>> /\ Types
  BY DEF StepOf, MatchStep, ReadConfirmations, CommitExceptions, IInv, Types, Processes,
         import_vars, match_vars
<1>2. /\ Outcomes[p] = "open" /\ Outcomes' = [Outcomes EXCEPT ![p] = "returned"]
      /\ Counts' = Counts /\ Reports' = [Reports EXCEPT ![p] = report'[p]]
  BY <1>1, CallEnds
<1>3. Reported(report'[p])
  <2>1. CASE ReadConfirmations(p)
    BY <2>1, ReportedNow
  <2>2. CASE CommitExceptions(p)
    <3>1. report'[p] = report[p] /\ pc[p] = "saving"
      BY <2>2 DEF CommitExceptions, match_vars
    <3> QED
      BY <3>1 DEF IInv, MatchOK
  <2> QED
    BY <2>1, <2>2
<1>4. exceptions' = IF dry_run[p] \/ report'[p] = <<>> THEN exceptions
                    ELSE exceptions \o report'[p]
  <2>1. CASE ReadConfirmations(p)
    BY <1>1, <2>1 DEF ReadConfirmations, Types
  <2>2. CASE CommitExceptions(p)
    BY <2>2 DEF CommitExceptions, match_vars, IInv, MatchOK
  <2> QED
    BY <2>1, <2>2
<1>5. Reports'[p] = report'[p]
  BY <1>2 DEF Reports
<1>6. PICK m \in 0..Len(tables["internal_trades"]), n \in 0..Len(tables["confirmations"]) :
          report'[p] = Breaks(SubSeq(tables["internal_trades"], 1, m),
                              SubSeq(tables["confirmations"], 1, n))
  BY <1>3 DEF Reported
<1>7. Atomic!Ends(p, "returned")
  BY <1>2 DEF Atomic!Ends
<1>8. Reports' = [Reports EXCEPT ![p] = Breaks(SubSeq(tables["internal_trades"], 1, m),
                                             SubSeq(tables["confirmations"], 1, n))]
  BY <1>2, <1>6
<1>9. \E k \in 0..Len(tables["internal_trades"]), l \in 0..Len(tables["confirmations"]) :
          Reports' = [Reports EXCEPT ![p] = Breaks(SubSeq(tables["internal_trades"], 1, k),
                                                 SubSeq(tables["confirmations"], 1, l))]
  BY <1>8
<1>10. exceptions' = IF dry_run[p] \/ Reports'[p] = <<>> THEN exceptions
                     ELSE exceptions \o Reports'[p]
  BY <1>4, <1>5
<1>11. UNCHANGED <<tables, file, dry_run, Counts>>
  BY <1>1, <1>2
<1> QED
  BY <1>7, <1>9, <1>10, <1>11 DEF Atomic!Run

\* A call that raises, or whose process dies, is a Fail.
LEMMA DeathIsFail ==
    ASSUME IInv, NEW p \in Processes, Die(p) \/ (p \in Importers /\ RaiseAtLine(p))
    PROVE  Atomic!Fail(p)
<1>1. /\ StepOf(p) /\ pc[p] \notin {"returned", "failed"} /\ pc'[p] = "failed"
      /\ UNCHANGED <<tables, exceptions, file, dry_run>>
      /\ p \in Importers \/ p \in Matchers
  BY DEF StepOf, ImportStep, Die, RaiseAtLine, AtLine, Ends, IInv, Types, Processes,
         import_vars, match_vars
<1>2. /\ Outcomes[p] = "open" /\ Outcomes' = [Outcomes EXCEPT ![p] = "failed"]
      /\ Counts' = Counts /\ Reports' = Reports
  BY <1>1, CallEnds
<1> QED
  BY <1>1, <1>2 DEF Atomic!Fail, Atomic!Ends

\* Every step is a step of AtomicDatabase or leaves that unchanged.
LEMMA AtomicStep == IInv /\ [Next]_vars => [Atomic!Next]_(Atomic!vars)
<1> SUFFICES ASSUME IInv, [Next]_vars
             PROVE  Atomic!Next \/ UNCHANGED Atomic!vars
  OBVIOUS
<1>1. CASE UNCHANGED vars
  BY <1>1 DEF vars, import_vars, match_vars, Outcomes, Counts, Reports, Atomic!vars
<1>2. ASSUME NEW p \in Processes, StepOf(p), pc[p] \notin {"returned", "failed"},
             pc'[p] \notin {"returned", "failed"},
             UNCHANGED <<tables, exceptions, file, dry_run>>
      PROVE  UNCHANGED Atomic!vars
  <2>1. Outcomes' = Outcomes /\ Counts' = Counts /\ Reports' = Reports
    BY <1>2, NothingEnds
  <2> QED
    BY <1>2, <2>1 DEF Atomic!vars
<1>3. ASSUME NEW p \in Importers, ImportStep(p)
      PROVE  Atomic!Next \/ UNCHANGED Atomic!vars
  <2>1. p \in Processes /\ StepOf(p) /\ Types
    BY <1>3 DEF Processes, StepOf, IInv
  <2>2. CASE StartImport(p)
    BY <2>1, <2>2, <1>2 DEF StartImport, Types, import_vars, match_vars
  <2>3. CASE ImportLine(p)
    BY <2>1, <2>3, <1>2 DEF ImportLine, AtLine, Types, match_vars
  <2>4. CASE SkipLine(p)
    BY <2>1, <2>4, <1>2 DEF SkipLine, AtLine, Types, import_vars, match_vars
  <2>5. CASE RaiseAtLine(p)
    BY <2>1, <2>5, DeathIsFail DEF Atomic!Next
  <2>6. CASE FinishImport(p)
    BY <2>6, FinishIsImport DEF Atomic!Next
  <2> QED
    BY <1>3, <2>2, <2>3, <2>4, <2>5, <2>6 DEF ImportStep
<1>4. ASSUME NEW p \in Matchers, MatchStep(p)
      PROVE  Atomic!Next \/ UNCHANGED Atomic!vars
  <2>1. p \in Processes /\ StepOf(p) /\ Types
    BY <1>4 DEF Processes, StepOf, IInv
  <2>2. CASE ReadInternals(p)
    BY <2>1, <2>2, <1>2 DEF ReadInternals, Types, import_vars
  <2>3. CASE ReadConfirmations(p)
    <3>1. /\ pc[p] = "reading" /\ pc'[p] \in {"returned", "saving"}
          /\ UNCHANGED <<tables, exceptions, file, dry_run>>
      BY <2>1, <2>3 DEF ReadConfirmations, Types, import_vars
    <3>2. CASE pc'[p] = "returned"
      BY <2>3, <3>2, EndIsRun DEF Atomic!Next
    <3>3. CASE pc'[p] = "saving"
      BY <2>1, <3>1, <3>3, <1>2
    <3> QED
      BY <3>1, <3>2, <3>3
  <2>4. CASE SaveException(p)
    BY <2>1, <2>4, <1>2 DEF SaveException, Types, import_vars, match_vars
  <2>5. CASE CommitExceptions(p)
    <3>1. pc'[p] = "returned"
      BY <2>1, <2>5 DEF CommitExceptions, Ends, Types
    <3> QED
      BY <2>5, <3>1, EndIsRun DEF Atomic!Next
  <2> QED
    BY <1>4, <2>2, <2>3, <2>4, <2>5 DEF MatchStep
<1>5. ASSUME NEW p \in Processes, Die(p)
      PROVE  Atomic!Next
  BY <1>5, DeathIsFail DEF Atomic!Next, Processes
<1> QED
  BY <1>1, <1>3, <1>4, <1>5 DEF Next

\* TradeDatabase implements AtomicDatabase: every call happens at one moment or not
\* at all, for any number of processes, files and lines.
THEOREM AtomicImplemented == Spec => AtomicSpec
<1>1. Init => Atomic!Init
  BY AtomicInit
<1>2. IInv /\ [Next]_vars => [Atomic!Next]_(Atomic!vars)
  BY AtomicStep
<1> QED
  BY <1>1, <1>2, InvariantHolds, PTL DEF Spec, AtomicSpec, Atomic!Spec

-----------------------------------------------------------------------------
(* Imports again. *)

\* A file whose keys are all in adds nothing.
LEMMA NothingToAdd ==
    ASSUME NEW old \in Seq(Row), NEW new \in Seq(Row), NEW f, NEW lines,
           Atomic!Adds(old, new, f, lines),
           \A i \in lines : Atomic!HasKey(old, RowAt(f, i))
    PROVE  new = old
<1>1. Atomic!NewLines(old, f, lines) = {}
  BY DEF Atomic!NewLines
<1>2. Cardinality(Atomic!NewLines(old, f, lines)) = 0
  BY <1>1, FS_EmptySet, Zenon
<1>3. Len(old) \in Nat /\ Len(new) \in Nat
  OBVIOUS
<1>4. Len(new) = Len(old) /\ \A k \in 1..Len(old) : new[k] = old[k]
  BY <1>2, <1>3, AddsSays
<1> QED
  BY <1>3, <1>4

\* Importing a file again changes nothing, whatever was imported or died meanwhile.
THEOREM ReimportIsIdle == Spec => ReimportChangesNothing
<1>1. IInv /\ [Next]_vars =>
          [\A p, q \in Importers :
              FinishImport(p) /\ pc[q] = "returned" /\ file[q] = file[p]
                  => UNCHANGED tables]_vars
  <2> SUFFICES ASSUME IInv, NEW p \in Importers, NEW q \in Importers,
                      FinishImport(p), pc[q] = "returned", file[q] = file[p]
               PROVE  tables' = tables
    OBVIOUS
  <2> DEFINE f == file[p]
             T == target(f)
  <2>1. /\ Types /\ Types' /\ T \in Tables
    BY TypesStep DEF IInv, StepOf, ImportStep, Processes, target, Tables
  <2>2. /\ Atomic!Adds(tables[T], tables'[T], f, RowLines(f))
        /\ \A t \in Tables : t # T => tables'[t] = tables[t]
        /\ tables[T] \in Seq(Row) /\ tables'[T] \in Seq(Row)
    BY <2>1, Finished DEF Partly, Types
  <2>3. \A i \in RowLines(f) : Atomic!HasKey(tables[T], RowAt(f, i))
    BY DEF IInv, ImportOK
  <2>4. tables'[T] = tables[T]
    BY <2>2, <2>3, NothingToAdd
  <2>5. tables \in [Tables -> Seq(Row)] /\ tables' \in [Tables -> Seq(Row)]
    BY <2>1 DEF Types
  <2> QED
    BY <2>2, <2>4, <2>5
<1> QED
  BY <1>1, InvariantHolds, PTL DEF Spec, ReimportChangesNothing

-----------------------------------------------------------------------------
(* What a matching run reports. *)

\* A set of numbers has a least one.
LEMMA LeastExists ==
    ASSUME NEW S, S \subseteq Nat, S # {}
    PROVE  \E i \in S : \A j \in S : i <= j
<1> DEFINE R == {ss \in Nat \X Nat : ss[1] < ss[2]}
<1>1. IsWellFoundedOn(R, Nat)
  BY NatLessThanWellFounded DEF OpToRel
<1> HIDE DEF R
<1>2. PICK x \in S : \A y \in S : ~ (<<y, x>> \in R)
  BY <1>1, WFMin
<1>3. \A y \in S : x \in Nat /\ y \in Nat /\ ~(y < x)
  BY <1>2 DEF R
<1>4. \A y \in S : x <= y
  BY <1>3
<1> QED
  BY <1>2, <1>4

\* Every rank is the rank of an element.
LEMMA RankTaken ==
    ASSUME NEW n \in Nat, NEW S, S \subseteq 1..n, NEW k \in 1..Cardinality(S)
    PROVE  \E i \in S : Cardinality({j \in S : j <= i}) = k
<1> DEFINE B(m) == {j \in S : j <= m}
           G == {m \in Nat : k <= Cardinality(B(m))}
<1>1. IsFiniteSet(S) /\ Cardinality(S) \in Nat
  <2>1. IsFiniteSet(1..n) /\ S \in SUBSET (1..n)
    BY FS_Interval
  <2> QED
    BY <2>1, FS_Subset, FS_CardinalityType
<1>2. \A m : IsFiniteSet(B(m)) /\ Cardinality(B(m)) \in Nat
  <2>1. \A m : B(m) \in SUBSET S
    OBVIOUS
  <2> QED
    BY <2>1, <1>1, FS_Subset, FS_CardinalityType
<1>3. k \in Nat /\ 1 <= k /\ k <= Cardinality(S)
  BY <1>1
<1>4. n \in G
  <2>1. B(n) = S
    <3>1. \A j \in S : j <= n
      OBVIOUS
    <3> QED
      BY <3>1
  <2> QED
    BY <2>1, <1>3
<1>5. PICK m \in G : \A g \in G : m <= g
  <2>1. G \subseteq Nat /\ G # {}
    BY <1>4
  <2> HIDE DEF G
  <2> QED
    BY <2>1, LeastExists
<1>6. m \in Nat /\ k <= Cardinality(B(m))
  BY <1>5
<1>7. m # 0
  <2>1. B(0) = {}
    <3>1. \A j \in S : ~(j <= 0)
      OBVIOUS
    <3> QED
      BY <3>1
  <2>2. Cardinality(B(0)) = 0
    BY <2>1, FS_EmptySet
  <2> QED
    BY <2>2, <1>3, <1>6
<1>8. m - 1 \in Nat /\ ~(m <= m - 1)
  BY <1>6, <1>7
<1>9. ~(k <= Cardinality(B(m - 1)))
  BY <1>5, <1>8
<1>10. \A j \in S : j \in Int /\ (j <= m <=> j <= m - 1 \/ j = m)
  BY <1>6
<1>11. m \in S
  <2>1. SUFFICES ASSUME m \notin S PROVE FALSE
    OBVIOUS
  <2>2. B(m) = B(m - 1)
    BY <2>1, <1>10
  <2> QED
    BY <2>2, <1>6, <1>9
<1>12. B(m) = B(m - 1) \cup {m} /\ m \notin B(m - 1)
  BY <1>8, <1>10, <1>11
<1>13. Cardinality(B(m)) = Cardinality(B(m - 1)) + 1
  <2>1. IsFiniteSet(B(m - 1))
    BY <1>2
  <2> HIDE DEF B
  <2> QED
    BY <2>1, <1>12, FS_AddElement
<1>14. Cardinality(B(m)) \in Nat /\ Cardinality(B(m - 1)) \in Nat
  BY <1>2
<1> HIDE DEF B, G
<1>15. Cardinality(B(m)) = k
  BY <1>3, <1>6, <1>9, <1>13, <1>14
<1> QED
  BY <1>11, <1>15 DEF B

\* What a run finds of a row, matches included.
Verdict == [type : {"matched", "qty_mismatch", "price_mismatch", "missing_broker",
                    "missing_internal"},
            trade_id : Ids]

\* These lists of rows have a trade and a confirmation that differ as a verdict says.
Real(verdict, trades, confirms) ==
    verdict.type \in {"qty_mismatch", "price_mismatch"} =>
        \E i \in DOMAIN trades, j \in DOMAIN confirms :
            /\ trades[i].trade_id = verdict.trade_id /\ confirms[j].trade_id = verdict.trade_id
            /\ verdict.type = "qty_mismatch"   =>
                   ~Within(trades[i].quantity, confirms[j].quantity, qty_tolerance)
            /\ verdict.type = "price_mismatch" =>
                   ~Within(trades[i].price, confirms[j].price, price_tolerance)

\* The type found for a trade is true of the confirmation it is compared with.
LEMMA TypeOfFacts ==
    ASSUME NEW t, NEW confirms \in Seq(Row)
    PROVE  /\ TypeOf(t, confirms) \in {"matched", "qty_mismatch", "price_mismatch", "missing_broker"}
           /\ TypeOf(t, confirms) \in {"qty_mismatch", "price_mismatch"} =>
                  \E j \in DOMAIN confirms :
                      /\ confirms[j].trade_id = t.trade_id
                      /\ TypeOf(t, confirms) = "qty_mismatch" =>
                             ~Within(t.quantity, confirms[j].quantity, qty_tolerance)
                      /\ TypeOf(t, confirms) = "price_mismatch" =>
                             ~Within(t.price, confirms[j].price, price_tolerance)
<1> DEFINE hits == {i \in DOMAIN confirms : confirms[i].trade_id = t.trade_id}
           first == CHOOSE i \in hits : \A j \in hits : i <= j
           Q == Within(t.quantity, confirms[first].quantity, qty_tolerance)
           P == Within(t.price, confirms[first].price, price_tolerance)
<1>1. TypeOf(t, confirms) =
        CASE hits = {}          -> "missing_broker"
          [] hits # {} /\ ~Q    -> "qty_mismatch"
          [] hits # {} /\ Q     -> IF P THEN "matched" ELSE "price_mismatch"
  BY DEF TypeOf
<1>2. hits # {} => first \in hits
  <2>1. hits \subseteq Nat
    OBVIOUS
  <2> QED
    BY <2>1, LeastExists
<1> HIDE DEF first, Q, P
<1>3. CASE hits = {}
  BY <1>1, <1>3
<1>4. CASE hits # {} /\ ~Q
  <2>1. TypeOf(t, confirms) = "qty_mismatch"
    BY <1>1, <1>4
  <2> QED
    BY <2>1, <1>2, <1>4 DEF Q
<1>5. CASE hits # {} /\ Q /\ P
  BY <1>1, <1>5
<1>6. CASE hits # {} /\ Q /\ ~P
  <2>1. TypeOf(t, confirms) = "price_mismatch"
    BY <1>1, <1>6
  <2> QED
    BY <2>1, <1>2, <1>6 DEF P
<1> QED
  BY <1>3, <1>4, <1>5, <1>6

\* The verdicts are typed and true.
LEMMA VerdictFacts ==
    ASSUME NEW trades \in Seq(Row), NEW confirms \in Seq(Row)
    PROVE  /\ Verdicts(trades, confirms) \in Seq(Verdict)
           /\ \A k \in DOMAIN Verdicts(trades, confirms) :
                  Real(Verdicts(trades, confirms)[k], trades, confirms)
<1> DEFINE first == [i \in DOMAIN trades |->
                        [type |-> TypeOf(trades[i], confirms), trade_id |-> trades[i].trade_id]]
           second == [i \in DOMAIN confirms |->
                        [type |-> IF Has(trades, confirms[i].trade_id) THEN "matched"
                                  ELSE "missing_internal",
                         trade_id |-> confirms[i].trade_id]]
<1>1. Verdicts(trades, confirms) = first \o second
  BY DEF Verdicts
<1>2. /\ Len(trades) \in Nat /\ DOMAIN trades = 1..Len(trades)
      /\ Len(confirms) \in Nat /\ DOMAIN confirms = 1..Len(confirms)
      /\ \A i \in DOMAIN trades : trades[i] \in Row
      /\ \A i \in DOMAIN confirms : confirms[i] \in Row
  OBVIOUS
<1>3. \A i \in DOMAIN trades : first[i] \in Verdict
  BY <1>2, TypeOfFacts DEF Verdict, Row
<1>4. \A i \in DOMAIN confirms : second[i] \in Verdict /\ Real(second[i], trades, confirms)
  BY <1>2 DEF Verdict, Row, Real
<1>5. ASSUME NEW i \in DOMAIN trades PROVE Real(first[i], trades, confirms)
  <2>1. first[i].type = TypeOf(trades[i], confirms) /\ first[i].trade_id = trades[i].trade_id
    OBVIOUS
  <2> HIDE DEF first
  <2> SUFFICES ASSUME first[i].type \in {"qty_mismatch", "price_mismatch"}
               PROVE  Real(first[i], trades, confirms)
    BY DEF Real
  <2>2. PICK j \in DOMAIN confirms :
          /\ confirms[j].trade_id = trades[i].trade_id
          /\ TypeOf(trades[i], confirms) = "qty_mismatch" =>
                 ~Within(trades[i].quantity, confirms[j].quantity, qty_tolerance)
          /\ TypeOf(trades[i], confirms) = "price_mismatch" =>
                 ~Within(trades[i].price, confirms[j].price, price_tolerance)
    BY <2>1, TypeOfFacts
  <2> QED
    BY <2>1, <2>2 DEF Real
<1>6. /\ first \in Seq(Verdict) /\ Len(first) = Len(trades)
      /\ second \in Seq(Verdict) /\ Len(second) = Len(confirms)
  <2>1. first \in [1..Len(trades) -> Verdict] /\ second \in [1..Len(confirms) -> Verdict]
    BY <1>2, <1>3, <1>4
  <2> HIDE DEF first, second
  <2>2. first \in Seq(Verdict) /\ second \in Seq(Verdict)
    <3>1. \A n \in Nat : \A s \in [1..n -> Verdict] : s \in Seq(Verdict)
      BY SeqDef
    <3> QED
      BY <2>1, <1>2, <3>1
  <2>3. DOMAIN first = 1..Len(trades) /\ DOMAIN second = 1..Len(confirms)
    BY <2>1
  <2> QED
    BY <2>2, <2>3, <1>2, LenProperties
<1> HIDE DEF first, second
<1>7. /\ first \o second \in Seq(Verdict)
      /\ Len(first \o second) = Len(trades) + Len(confirms)
      /\ \A k \in 1..(Len(trades) + Len(confirms)) :
            (first \o second)[k] = IF k <= Len(trades) THEN first[k] ELSE second[k - Len(trades)]
  <2>1. /\ first \o second \in Seq(Verdict)
        /\ Len(first \o second) = Len(first) + Len(second)
        /\ \A k \in 1..(Len(first) + Len(second)) :
              (first \o second)[k] = IF k <= Len(first) THEN first[k] ELSE second[k - Len(first)]
    BY <1>6, ConcatProperties, Zenon
  <2> QED
    BY <2>1, <1>6
<1>8. ASSUME NEW k \in DOMAIN (first \o second)
      PROVE  Real((first \o second)[k], trades, confirms)
  <2>1. k \in 1..(Len(trades) + Len(confirms))
    BY <1>7, LenProperties
  <2>2. CASE k <= Len(trades)
    <3>1. k \in 1..Len(trades)
      BY <2>1, <2>2
    <3> QED
      BY <2>1, <2>2, <3>1, <1>2, <1>5, <1>7
  <2>3. CASE ~(k <= Len(trades))
    <3>1. k - Len(trades) \in 1..Len(confirms)
      BY <2>1, <2>3, <1>2
    <3> QED
      BY <2>1, <2>3, <3>1, <1>2, <1>4, <1>7
  <2> QED
    BY <2>2, <2>3
<1> QED
  BY <1>1, <1>7, <1>8

\* A report lists exceptions, and those of different records are true of the records
\* that it was made of.
LEMMA BreaksFacts ==
    ASSUME NEW trades \in Seq(Row), NEW confirms \in Seq(Row)
    PROVE  /\ Breaks(trades, confirms) \in Seq(Break)
           /\ \A k \in DOMAIN Breaks(trades, confirms) :
                  Real(Breaks(trades, confirms)[k], trades, confirms)
<1> DEFINE verdicts == Verdicts(trades, confirms)
           bad == {i \in DOMAIN verdicts : verdicts[i].type # "matched"}
           nth(k) == CHOOSE i \in bad : Cardinality({j \in bad : j <= i}) = k
<1>1. Breaks(trades, confirms) = [k \in 1..Cardinality(bad) |-> verdicts[nth(k)]]
  BY DEF Breaks
<1>2. /\ verdicts \in Seq(Verdict) /\ Len(verdicts) \in Nat /\ DOMAIN verdicts = 1..Len(verdicts)
      /\ \A i \in DOMAIN verdicts : verdicts[i] \in Verdict /\ Real(verdicts[i], trades, confirms)
  BY VerdictFacts, LenProperties
<1> HIDE DEF verdicts
<1>3. bad \subseteq 1..Len(verdicts) /\ IsFiniteSet(bad) /\ Cardinality(bad) \in Nat
  <2>1. bad \in SUBSET (1..Len(verdicts))
    BY <1>2
  <2>2. IsFiniteSet(1..Len(verdicts))
    BY <1>2, FS_Interval
  <2> HIDE DEF bad
  <2> QED
    BY <2>1, <2>2, FS_Subset, FS_CardinalityType
<1>4. \A i \in bad : verdicts[i] \in Break
  BY <1>2 DEF Verdict, Break
<1>5. bad \subseteq DOMAIN verdicts
  OBVIOUS
<1> HIDE DEF bad
<1>6. \A k \in 1..Cardinality(bad) : nth(k) \in bad
  BY <1>2, <1>3, RankTaken
<1> HIDE DEF nth
<1>7. Breaks(trades, confirms) \in [1..Cardinality(bad) -> Break]
  BY <1>1, <1>4, <1>6
<1>8. Breaks(trades, confirms) \in Seq(Break)
  BY <1>3, <1>7, SeqDef
<1>9. \A k \in 1..Cardinality(bad) : Real(Breaks(trades, confirms)[k], trades, confirms)
  BY <1>1, <1>2, <1>5, <1>6
<1>10. DOMAIN Breaks(trades, confirms) = 1..Cardinality(bad)
  BY <1>1
<1> QED
  BY <1>8, <1>9, <1>10

-----------------------------------------------------------------------------
(* What is on record. *)

\* True of the two tables as they are, for each exception of a list.
Recorded(list) ==
    \A k \in DOMAIN list :
        Real(list[k], tables["internal_trades"], tables["confirmations"])

\* What is on record, and what the runs have still to write, is typed and true.
RecordsOK ==
    /\ exceptions \in Seq(Break) /\ Recorded(exceptions)
    /\ report \in [Matchers -> Seq(Break)]
    /\ \A p \in Matchers : Recorded(report[p])

\* What is true of some rows is true of more.
LEMMA RealStays ==
    ASSUME NEW trades \in Seq(Row), NEW trades2 \in Seq(Row), Grows(trades, trades2),
           NEW confirms \in Seq(Row), NEW confirms2 \in Seq(Row), Grows(confirms, confirms2),
           NEW e, Real(e, trades, confirms)
    PROVE  Real(e, trades2, confirms2)
<1>1. /\ DOMAIN trades \subseteq DOMAIN trades2 /\ \A i \in DOMAIN trades : trades2[i] = trades[i]
      /\ DOMAIN confirms \subseteq DOMAIN confirms2
      /\ \A i \in DOMAIN confirms : confirms2[i] = confirms[i]
  <2>1. \A s \in Seq(Row) : Len(s) \in Nat /\ DOMAIN s = 1..Len(s)
    BY LenProperties
  <2>2. \A old, new \in Seq(Row) : Grows(old, new) =>
            /\ DOMAIN old \subseteq DOMAIN new /\ \A i \in DOMAIN old : new[i] = old[i]
    BY <2>1 DEF Grows
  <2> QED
    BY <2>2
<1> QED
  BY <1>1 DEF Real

\* A run that reads its second table reports what is true.
LEMMA ReportIsReal ==
    ASSUME IInv, NEW p \in Matchers, ReadConfirmations(p)
    PROVE  LET new == Breaks(internals[p], tables["confirmations"])
           IN  new \in Seq(Break) /\ Recorded(new)
<1> DEFINE I == tables["internal_trades"]
           C == tables["confirmations"]
           new == Breaks(internals[p], C)
<1>1. /\ I \in Seq(Row) /\ C \in Seq(Row) /\ internals[p] \in Seq(Row)
      /\ Beginning(internals[p], I)
  BY DEF IInv, Types, MatchOK, ReadConfirmations, Tables
<1>2. new \in Seq(Break) /\ \A k \in DOMAIN new : Real(new[k], internals[p], C)
  BY <1>1, BreaksFacts
<1>3. Grows(internals[p], I)
  <2>1. PICK m \in 0..Len(I) : internals[p] = SubSeq(I, 1, m)
    BY <1>1 DEF Beginning
  <2>2. Len(internals[p]) = m /\ \A k \in 1..m : internals[p][k] = I[k]
    BY <1>1, <2>1
  <2> QED
    BY <2>2, <1>1 DEF Grows
<1>4. Grows(C, C)
  BY <1>1 DEF Grows
<1>5. \A k \in DOMAIN new : Real(new[k], I, C)
  BY <1>1, <1>2, <1>3, <1>4, RealStays
<1> QED
  BY <1>2, <1>5 DEF Recorded

\* Every step keeps the records true.
LEMMA RecordsStep ==
    ASSUME IInv, RecordsOK, NEW p \in Processes, StepOf(p)
    PROVE  RecordsOK'
<1> DEFINE I == tables["internal_trades"]
           C == tables["confirmations"]
<1>1. /\ I \in Seq(Row) /\ I' \in Seq(Row) /\ Grows(I, I')
      /\ C \in Seq(Row) /\ C' \in Seq(Row) /\ Grows(C, C')
  BY TablesGrow DEF Tables
<1>2. ASSUME NEW list, Recorded(list)
      PROVE  \A k \in DOMAIN list :
                 Real(list[k], tables'["internal_trades"], tables'["confirmations"])
  BY <1>1, <1>2, RealStays DEF Recorded
<1>3. CASE p \in Matchers /\ ReadConfirmations(p)
  <2> DEFINE new == Breaks(internals[p], tables["confirmations"])
  <2>1. /\ tables' = tables /\ exceptions' = exceptions
        /\ report' = [report EXCEPT ![p] = new]
    BY <1>3 DEF ReadConfirmations
  <2>2. new \in Seq(Break) /\ Recorded(new)
    BY <1>3, ReportIsReal
  <2> HIDE DEF new
  <2>3. report' \in [Matchers -> Seq(Break)]
    BY <2>1, <2>2 DEF RecordsOK
  <2>4. \A q \in Matchers : Recorded(report'[q])
    BY <2>1, <2>2, <1>3 DEF RecordsOK
  <2>5. Recorded(exceptions)' /\ \A q \in Matchers : Recorded(report[q])'
    BY <2>1, <2>4 DEF Recorded, RecordsOK
  <2> QED
    BY <2>1, <2>3, <2>5 DEF RecordsOK
<1>4. CASE p \in Matchers /\ CommitExceptions(p)
  <2>1. exceptions' = exceptions \o report[p] /\ report' = report
    BY <1>4 DEF CommitExceptions, match_vars
  <2>2. exceptions \in Seq(Break) /\ report[p] \in Seq(Break)
    BY <1>4 DEF RecordsOK
  <2>3. /\ exceptions' \in Seq(Break)
        /\ DOMAIN exceptions' = 1..(Len(exceptions) + Len(report[p]))
        /\ \A k \in 1..(Len(exceptions) + Len(report[p])) :
              exceptions'[k] = IF k <= Len(exceptions) THEN exceptions[k]
                               ELSE report[p][k - Len(exceptions)]
    BY <2>1, <2>2
  <2>4. \A k \in 1..(Len(exceptions) + Len(report[p])) :
            k <= Len(exceptions) \/ k - Len(exceptions) \in 1..Len(report[p])
    BY <2>2
  <2>5. \A k \in DOMAIN exceptions' :
            (\E i \in DOMAIN exceptions : exceptions'[k] = exceptions[i])
            \/ (\E i \in DOMAIN report[p] : exceptions'[k] = report[p][i])
    BY <2>2, <2>3, <2>4
  <2>6. Recorded(exceptions) /\ Recorded(report[p])
    BY <1>4 DEF RecordsOK
  <2>7. \A k \in DOMAIN exceptions' :
            Real(exceptions'[k], tables'["internal_trades"], tables'["confirmations"])
    BY <2>5, <2>6, <1>2
  <2>8. ASSUME NEW q \in Matchers PROVE Recorded(report[q])'
    BY <1>2, <2>1 DEF RecordsOK, Recorded
  <2> QED
    BY <2>1, <2>3, <2>7, <2>8 DEF RecordsOK, Recorded
<1>5. CASE UNCHANGED <<exceptions, report>>
  <2>1. Recorded(exceptions)'
    BY <1>2, <1>5 DEF RecordsOK, Recorded
  <2>2. ASSUME NEW q \in Matchers PROVE Recorded(report[q])'
    BY <1>2, <1>5 DEF RecordsOK, Recorded
  <2> QED
    BY <2>1, <2>2, <1>5 DEF RecordsOK
<1> QED
  BY <1>3, <1>4, <1>5 DEF StepOf, ImportStep, MatchStep, StartImport, ImportLine, SkipLine,
        RaiseAtLine, FinishImport, ReadInternals, SaveException, Die, match_vars

\* They always are.
LEMMA RecordsAlways == Spec => [](IInv /\ RecordsOK)
<1>1. Init => RecordsOK
  <2> SUFFICES ASSUME Init PROVE RecordsOK
    OBVIOUS
  <2>1. exceptions = <<>> /\ report = [p \in Matchers |-> <<>>]
    BY DEF Init
  <2> QED
    BY <2>1 DEF RecordsOK, Recorded
<1>2. IInv /\ RecordsOK /\ [Next]_vars => RecordsOK'
  <2> SUFFICES ASSUME IInv, RecordsOK, [Next]_vars PROVE RecordsOK'
    OBVIOUS
  <2>1. CASE UNCHANGED vars
    BY <2>1 DEF vars, match_vars, RecordsOK, Recorded
  <2>2. CASE Next
    BY <2>2, NextIsStep, RecordsStep
  <2> QED
    BY <2>1, <2>2
<1> QED
  BY <1>1, <1>2, InvariantHolds, PTL DEF Spec

\* Every variable has its type: in particular what a report lists are exceptions, of the
\* four types the code knows.
THEOREM TypeCorrect == Spec => []TypeOK
<1>1. IInv /\ RecordsOK => TypeOK
  BY DEF IInv, Types, RecordsOK, TypeOK
<1> QED
  BY <1>1, RecordsAlways, PTL

\* A mismatch on record stays true, whatever is imported afterwards, by whom, and however
\* many processes die.  The argument: what a run reports is true of the rows it read
\* (BreaksFacts), these are the beginnings of the tables (IInv), and tables only grow.
THEOREM BreaksCorrect == Spec => []BreaksStayReal
<1>1. RecordsOK => BreaksStayReal
  <2> SUFFICES ASSUME RecordsOK, NEW k \in DOMAIN exceptions,
                      exceptions[k].type \in {"qty_mismatch", "price_mismatch"}
               PROVE  \E t \in Rows("internal_trades"), c \in Rows("confirmations") :
                        /\ t.trade_id = exceptions[k].trade_id
                        /\ c.trade_id = exceptions[k].trade_id
                        /\ exceptions[k].type = "qty_mismatch"   =>
                               ~Within(t.quantity, c.quantity, qty_tolerance)
                        /\ exceptions[k].type = "price_mismatch" =>
                               ~Within(t.price, c.price, price_tolerance)
    BY DEF BreaksStayReal
  <2>1. Real(exceptions[k], tables["internal_trades"], tables["confirmations"])
    BY DEF RecordsOK, Recorded
  <2> QED
    BY <2>1 DEF Real, Rows
<1> QED
  BY <1>1, RecordsAlways, PTL

=============================================================================
