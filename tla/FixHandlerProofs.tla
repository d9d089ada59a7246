-------------------------- MODULE FixHandlerProofs --------------------------
(***************************************************************************)
(* Proofs about FixHandler, for any texts, requests, messages and damage.  *)
(*                                                                         *)
(* The sum of the bytes comes first: the sum of two parts is the sum of    *)
(* their sums, and it does not depend on the order of different tokens.    *)
(* From the first follows that damage in front of the checksum changes     *)
(* what it is compared with; from the second that the validator of parsed  *)
(* messages, which sorts the fields, sees the sum that the one of raw      *)
(* messages sees.  The fields a message lists are each of its tags once,   *)
(* so what serialize writes is read faithfully and has its one checksum at *)
(* the end.  The invariant says what is on the wire at each moment.        *)
(***************************************************************************)
EXTENDS FixHandler, SequenceTheorems, FiniteSetTheorems, NaturalsInduction,
        WellFoundedInduction, TLAPS

\* A set of numbers that has 0 and, with a number, the next one, has all.
LEMMA AllNumbers ==
    ASSUME NEW G, G \subseteq Nat, 0 \in G, \A n \in G : n + 1 \in G
    PROVE  \A n \in Nat : n \in G
<1> DEFINE R == {ss \in Nat \X Nat : ss[1] < ss[2]}
           Bad == Nat \ G
<1>1. IsWellFoundedOn(R, Nat)
  BY NatLessThanWellFounded DEF OpToRel
<1> HIDE DEF R
<1>2. SUFFICES ASSUME Bad # {} PROVE FALSE
  OBVIOUS
<1>3. PICK x \in Bad : \A y \in Bad : ~ (<<y, x>> \in R)
  BY <1>1, <1>2, WFMin
<1>4. x \in Nat /\ x # 0 /\ x - 1 \in Nat /\ x - 1 < x /\ (x - 1) + 1 = x
  BY <1>3
<1>5. x - 1 \notin Bad
  BY <1>3, <1>4 DEF R
<1>6. x \in G
  BY <1>4, <1>5
<1> QED
  BY <1>3, <1>6

-----------------------------------------------------------------------------
(* The sum of the bytes. *)

\* The sum of a token's bytes: its tag, "=", its value and SOH.
Bytes(t) == weight[t.tag] + EQ + weight[t.value] + SOH

\* The sums of the first n tokens, for each n.
Sums(tokens, g) ==
    g = [n \in 0..Len(tokens) |-> IF n = 0 THEN 0 ELSE (g[n - 1] + Bytes(tokens[n])) % 256]

\* The function that computes the sum.
SumsOf(tokens) == CHOOSE g : Sums(tokens, g)

\* The sum is what that function has for all tokens.
LEMMA SumIs ==
    ASSUME NEW tokens
    PROVE  Sum(tokens) = SumsOf(tokens)[Len(tokens)]
  BY DEF Sum, SumsOf, Sums, Bytes

\* A token's bytes have a sum.
LEMMA BytesAreNumbers ==
    ASSUME NEW t \in Token
    PROVE  Bytes(t) \in Nat
<1>1. weight[t.tag] \in 0..255 /\ weight[t.value] \in 0..255
  BY TextAssumption DEF Token
<1>2. \A x \in 0..255, y \in 0..255 : x + 61 + y + 1 \in Nat
  OBVIOUS
<1> QED
  BY <1>1, <1>2 DEF Bytes, EQ, SOH

\* Such sums exist.
LEMMA SumsExist ==
    ASSUME NEW tokens \in Seq(Token)
    PROVE  \E g : Sums(tokens, g)
<1> DEFINE Part(k, g) == g = [n \in 0..k |-> IF n = 0 THEN 0
                                             ELSE (g[n - 1] + Bytes(tokens[n])) % 256]
           G == {k \in Nat : \E g : Part(k, g)}
<1>1. 0 \in G
  <2> DEFINE g == [n \in 0..0 |-> 0]
  <2>1. \A n \in 0..0 : n = 0
    OBVIOUS
  <2>2. Part(0, g)
    BY <2>1
  <2> HIDE DEF Part, g
  <2> QED
    BY <2>2
<1>2. ASSUME NEW k \in G PROVE k + 1 \in G
  <2>1. k \in Nat
    OBVIOUS
  <2>2. PICK g : Part(k, g)
    OBVIOUS
  <2> DEFINE F(f) == [n \in 0..(k + 1) |-> IF n = 0 THEN 0
                                           ELSE (f[n - 1] + Bytes(tokens[n])) % 256]
             h == F(g)
  <2>3. \A n \in 0..(k + 1) : n # 0 => n - 1 \in 0..k
    BY <2>1
  <2>4. \A n \in 0..k : n \in 0..(k + 1) /\ h[n] = g[n]
    <3>1. \A n \in 0..k : n \in 0..(k + 1)
      BY <2>1
    <3>2. \A n \in 0..k : g[n] = IF n = 0 THEN 0 ELSE (g[n - 1] + Bytes(tokens[n])) % 256
      BY <2>2
    <3> QED
      BY <3>1, <3>2
  <2>5. \A n \in 0..(k + 1) :
            (IF n = 0 THEN 0 ELSE (g[n - 1] + Bytes(tokens[n])) % 256)
            = (IF n = 0 THEN 0 ELSE (h[n - 1] + Bytes(tokens[n])) % 256)
    <3> HIDE DEF h
    <3> QED
      BY <2>3, <2>4
  <2>6. F(g) = F(h)
    <3> HIDE DEF h
    <3> QED
      BY <2>5
  <2>7. Part(k + 1, h)
    <3>1. h = F(h)
      BY <2>6
    <3> HIDE DEF h
    <3> QED
      BY <3>1
  <2> HIDE DEF h, Part
  <2> QED
    BY <2>1, <2>7
<1>3. \A k \in Nat : k \in G
  <2>1. G \subseteq Nat
    OBVIOUS
  <2> HIDE DEF G
  <2> QED
    BY <1>1, <1>2, <2>1, AllNumbers
<1>4. Len(tokens) \in G
  <2>1. Len(tokens) \in Nat
    BY LenProperties
  <2> HIDE DEF G
  <2> QED
    BY <1>3, <2>1
<1> QED
  BY <1>4 DEF Sums

\* What they are.
LEMMA SumsFacts ==
    ASSUME NEW tokens \in Seq(Token)
    PROVE  /\ SumsOf(tokens)[0] = 0
           /\ \A n \in 1..Len(tokens) :
                  SumsOf(tokens)[n] = (SumsOf(tokens)[n - 1] + Bytes(tokens[n])) % 256
           /\ \A n \in 0..Len(tokens) : SumsOf(tokens)[n] \in 0..255
<1>1. Sums(tokens, SumsOf(tokens))
  BY SumsExist DEF SumsOf
<1>2. Len(tokens) \in Nat
  BY LenProperties
<1>3. \A n \in 0..Len(tokens) : SumsOf(tokens)[n] =
          IF n = 0 THEN 0 ELSE (SumsOf(tokens)[n - 1] + Bytes(tokens[n])) % 256
  BY <1>1 DEF Sums
<1>4. SumsOf(tokens)[0] = 0
  BY <1>2, <1>3
<1>5. \A n \in 1..Len(tokens) : n \in 0..Len(tokens) /\ n # 0 /\ n - 1 \in 0..Len(tokens)
  BY <1>2
<1>6. \A n \in 1..Len(tokens) :
          SumsOf(tokens)[n] = (SumsOf(tokens)[n - 1] + Bytes(tokens[n])) % 256
  BY <1>3, <1>5
<1> DEFINE G == {n \in Nat : n <= Len(tokens) => SumsOf(tokens)[n] \in 0..255}
<1>7. 0 \in G
  BY <1>4
<1>8. ASSUME NEW n \in G PROVE n + 1 \in G
  <2>1. SUFFICES ASSUME n + 1 <= Len(tokens) PROVE SumsOf(tokens)[n + 1] \in 0..255
    OBVIOUS
  <2>2. n + 1 \in 1..Len(tokens) /\ (n + 1) - 1 = n /\ n <= Len(tokens)
    BY <1>2, <2>1
  <2>3. SumsOf(tokens)[n + 1] = (SumsOf(tokens)[n] + Bytes(tokens[n + 1])) % 256
    BY <1>6, <2>2
  <2>4. SumsOf(tokens)[n] \in Int /\ Bytes(tokens[n + 1]) \in Int
    <3>1. SumsOf(tokens)[n] \in 0..255
      BY <2>2
    <3>2. tokens[n + 1] \in Token
      BY <2>2, ElementOfSeq
    <3>3. \A x \in 0..255 : x \in Int
      OBVIOUS
    <3>4. Bytes(tokens[n + 1]) \in Int
      BY <3>2, BytesAreNumbers
    <3> QED
      BY <3>1, <3>3, <3>4
  <2>5. \A x \in Int, y \in Int : (x + y) % 256 \in 0..255
    OBVIOUS
  <2>6. (SumsOf(tokens)[n] + Bytes(tokens[n + 1])) % 256 \in 0..255
    BY <2>4, <2>5, Zenon
  <2> QED
    BY <2>3, <2>6, Zenon
<1>9. \A n \in Nat : n \in G
  <2>1. G \subseteq Nat
    OBVIOUS
  <2> HIDE DEF G
  <2> QED
    BY <1>7, <1>8, <2>1, AllNumbers
<1>10. \A n \in 0..Len(tokens) : SumsOf(tokens)[n] \in 0..255
  BY <1>2, <1>9
<1> QED
  BY <1>4, <1>6, <1>10

\* A sum is a checksum.
LEMMA SumTyped ==
    ASSUME NEW tokens \in Seq(Token)
    PROVE  Sum(tokens) \in 0..255
<1>1. Len(tokens) \in 0..Len(tokens)
  BY LenProperties
<1> QED
  BY <1>1, SumIs, SumsFacts

\* No tokens, no bytes.
LEMMA SumEmpty == Sum(<<>>) = 0
<1>1. <<>> \in Seq(Token) /\ Len(<<>>) = 0
  BY EmptySeq
<1> QED
  BY <1>1, SumIs, SumsFacts

\* One token more.
LEMMA SumAppend ==
    ASSUME NEW tokens \in Seq(Token), NEW t \in Token
    PROVE  Sum(Append(tokens, t)) = (Sum(tokens) + Bytes(t)) % 256
<1> DEFINE more == Append(tokens, t)
<1>1. /\ more \in Seq(Token) /\ Len(more) = Len(tokens) + 1 /\ Len(tokens) \in Nat
      /\ \A n \in 1..Len(tokens) : more[n] = tokens[n]
      /\ more[Len(tokens) + 1] = t
  BY AppendProperties, LenProperties
<1> HIDE DEF more
<1> DEFINE G == {n \in Nat : n <= Len(tokens) => SumsOf(more)[n] = SumsOf(tokens)[n]}
<1>2. 0 \in G
  BY <1>1, SumsFacts
<1>3. ASSUME NEW n \in G PROVE n + 1 \in G
  <2>1. SUFFICES ASSUME n + 1 <= Len(tokens)
                 PROVE  SumsOf(more)[n + 1] = SumsOf(tokens)[n + 1]
    OBVIOUS
  <2>2. /\ n + 1 \in 1..Len(tokens) /\ n + 1 \in 1..Len(more) /\ (n + 1) - 1 = n
        /\ n <= Len(tokens)
    BY <1>1, <2>1
  <2>3. SumsOf(tokens)[n + 1] = (SumsOf(tokens)[n] + Bytes(tokens[n + 1])) % 256
    BY <2>2, SumsFacts
  <2>4. SumsOf(more)[n + 1] = (SumsOf(more)[n] + Bytes(more[n + 1])) % 256
    BY <1>1, <2>2, SumsFacts
  <2> QED
    BY <1>1, <2>2, <2>3, <2>4
<1>4. \A n \in Nat : n \in G
  <2>1. G \subseteq Nat
    OBVIOUS
  <2> HIDE DEF G
  <2> QED
    BY <1>2, <1>3, <2>1, AllNumbers
<1>5. SumsOf(more)[Len(tokens)] = SumsOf(tokens)[Len(tokens)]
  BY <1>1, <1>4
<1>6. Len(more) \in 1..Len(more) /\ Len(more) - 1 = Len(tokens)
  BY <1>1
<1>7. SumsOf(more)[Len(more)] = (SumsOf(more)[Len(tokens)] + Bytes(more[Len(more)])) % 256
  BY <1>1, <1>6, SumsFacts
<1> QED
  BY <1>1, <1>5, <1>7, SumIs DEF more

\* The last token apart.
LEMMA SumFront ==
    ASSUME NEW tokens \in Seq(Token), NEW n \in Nat, Len(tokens) = n + 1
    PROVE  /\ SubSeq(tokens, 1, n) \in Seq(Token)
           /\ Len(SubSeq(tokens, 1, n)) = n
           /\ \A i \in 1..n : SubSeq(tokens, 1, n)[i] = tokens[i]
           /\ tokens[n + 1] \in Token
           /\ tokens = Append(SubSeq(tokens, 1, n), tokens[n + 1])
           /\ Sum(tokens) = (Sum(SubSeq(tokens, 1, n)) + Bytes(tokens[n + 1])) % 256
<1> DEFINE front == SubSeq(tokens, 1, n)
<1>1. n + 1 \in 1..Len(tokens) /\ \A i \in 1..n : i \in 1..Len(tokens)
  OBVIOUS
<1>2. \A i \in 1..Len(tokens) : tokens[i] \in Token
  BY ElementOfSeq
<1>3. /\ front \in Seq(Token) /\ Len(front) = n
      /\ \A i \in 1..n : front[i] = tokens[i]
  <2>1. \A i \in 1..n : tokens[i] \in Token
    BY <1>1, <1>2
  <2>2. (1..n) \subseteq DOMAIN tokens
    BY <1>1, LenProperties
  <2> QED
    BY <2>1, <2>2, SubSeqProperties
<1> HIDE DEF front
<1>4. /\ Append(front, tokens[n + 1]) \in Seq(Token)
      /\ Len(Append(front, tokens[n + 1])) = n + 1
      /\ \A i \in 1..n : Append(front, tokens[n + 1])[i] = front[i]
      /\ Append(front, tokens[n + 1])[n + 1] = tokens[n + 1]
  BY <1>1, <1>2, <1>3, AppendProperties
<1>5. tokens = Append(front, tokens[n + 1])
  <2>1. \A i \in 1..(n + 1) : i \in 1..n \/ i = n + 1
    OBVIOUS
  <2>2. \A i \in 1..(n + 1) : tokens[i] = Append(front, tokens[n + 1])[i]
    BY <1>3, <1>4, <2>1
  <2> QED
    BY <1>4, <2>2, SeqEqual
<1>6. Sum(tokens) = (Sum(front) + Bytes(tokens[n + 1])) % 256
  <2>1. tokens[n + 1] \in Token
    BY <1>1, <1>2
  <2>2. Sum(Append(front, tokens[n + 1])) = (Sum(front) + Bytes(tokens[n + 1])) % 256
    BY <1>3, <2>1, SumAppend
  <2> QED
    BY <1>5, <2>2
<1> QED
  BY <1>1, <1>2, <1>3, <1>5, <1>6 DEF front

\* A sequence with one token more, without it.
LEMMA FrontOfAppend ==
    ASSUME NEW s \in Seq(Token), NEW x \in Token, NEW w, w = Append(s, x)
    PROVE  /\ w \in Seq(Token) /\ Len(w) = Len(s) + 1 /\ w[Len(w)] = x
           /\ SubSeq(w, 1, Len(s)) = s
<1>1. /\ w \in Seq(Token) /\ Len(w) = Len(s) + 1 /\ w[Len(w)] = x /\ Len(s) \in Nat
      /\ \A i \in 1..Len(s) : w[i] = s[i]
  BY AppendProperties, LenProperties
<1>2. /\ SubSeq(w, 1, Len(s)) \in Seq(Token) /\ Len(SubSeq(w, 1, Len(s))) = Len(s)
      /\ \A i \in 1..Len(s) : SubSeq(w, 1, Len(s))[i] = w[i]
  BY <1>1, SumFront
<1>3. SubSeq(w, 1, Len(s)) = s
  BY <1>1, <1>2, SeqEqual
<1> QED
  BY <1>1, <1>3

\* Remainders add up.
LEMMA Remainders ==
    ASSUME NEW a \in Int, NEW b \in Int, NEW c \in Int
    PROVE  (((a + b) % 256) + c) % 256 = (a + ((b + c) % 256)) % 256
  OBVIOUS

\* A sum is a number.
LEMMA SumsAreNumbers ==
    ASSUME NEW s \in Seq(Token)
    PROVE  Sum(s) \in Int
<1>1. \A y \in 0..255 : y \in Int
  OBVIOUS
<1> QED
  BY <1>1, SumTyped

\* A last token may be appended before or after.
LEMMA ConcatAppend ==
    ASSUME NEW s \in Seq(Token), NEW t \in Seq(Token), NEW x \in Token
    PROVE  s \o Append(t, x) = Append(s \o t, x) /\ s \o t \in Seq(Token)
<1>1. Append(t, x) = t \o <<x>> /\ <<x>> \in Seq(Token)
  BY AppendIsConcat
<1>2. s \o t \in Seq(Token)
  BY ConcatProperties
<1>3. (s \o t) \o <<x>> = s \o (t \o <<x>>)
  BY <1>1, ConcatAssociative
<1>4. Append(s \o t, x) = (s \o t) \o <<x>>
  BY <1>2, AppendIsConcat
<1> QED
  BY <1>1, <1>3, <1>4, <1>2

\* The sum of two parts: one token more in the second.
LEMMA ConcatStep ==
    ASSUME NEW s \in Seq(Token), NEW u \in Seq(Token), NEW n \in Nat, Len(u) = n + 1,
           Sum(s \o SubSeq(u, 1, n)) = (Sum(s) + Sum(SubSeq(u, 1, n))) % 256
    PROVE  Sum(s \o u) = (Sum(s) + Sum(u)) % 256
<1>1. PICK front, x : front = SubSeq(u, 1, n) /\ x = u[n + 1]
  OBVIOUS
<1>2. /\ front \in Seq(Token) /\ x \in Token
      /\ u = Append(front, x)
      /\ Sum(u) = (Sum(front) + Bytes(x)) % 256
  BY <1>1, SumFront
<1>3. s \o u = Append(s \o front, x) /\ s \o front \in Seq(Token)
  BY <1>2, ConcatAppend
<1>4. Sum(Append(s \o front, x)) = (Sum(s \o front) + Bytes(x)) % 256
  BY <1>2, <1>3, SumAppend
<1>5. Sum(s \o front) = (Sum(s) + Sum(front)) % 256
  BY <1>1
<1>6. Sum(s) \in Int /\ Sum(front) \in Int /\ Bytes(x) \in Int
  BY <1>2, BytesAreNumbers, SumsAreNumbers
<1> QED
  BY <1>2, <1>3, <1>4, <1>5, <1>6, Remainders

\* The sum of two parts.
LEMMA SumConcat ==
    ASSUME NEW s \in Seq(Token), NEW t \in Seq(Token)
    PROVE  Sum(s \o t) = (Sum(s) + Sum(t)) % 256
<1> DEFINE Holds(u) == Sum(s \o u) = (Sum(s) + Sum(u)) % 256
           G == {n \in Nat : \A u \in Seq(Token) : Len(u) = n => Holds(u)}
<1>1. 0 \in G
  <2>1. SUFFICES ASSUME NEW u \in Seq(Token), Len(u) = 0 PROVE Holds(u)
    OBVIOUS
  <2>2. u = <<>>
    BY <2>1, EmptySeq
  <2>3. s \o u = s
    BY <2>2, ConcatEmptySeq
  <2>4. Sum(u) = 0 /\ Sum(s) \in 0..255
    BY <2>2, SumEmpty, SumTyped
  <2>5. \A x \in 0..255 : x = (x + 0) % 256
    OBVIOUS
  <2> QED
    BY <2>3, <2>4, <2>5
<1>2. ASSUME NEW n \in G PROVE n + 1 \in G
  <2>1. SUFFICES ASSUME NEW u \in Seq(Token), Len(u) = n + 1 PROVE Holds(u)
    OBVIOUS
  <2>2. /\ n \in Nat /\ SubSeq(u, 1, n) \in Seq(Token)
        /\ Len(SubSeq(u, 1, n)) = n
    BY <2>1, SumFront
  <2>3. Holds(SubSeq(u, 1, n))
    BY <2>2
  <2> QED
    BY <2>1, <2>2, <2>3, ConcatStep
<1>3. \A n \in Nat : n \in G
  <2>1. G \subseteq Nat
    OBVIOUS
  <2> HIDE DEF G
  <2> QED
    BY <1>1, <1>2, <2>1, AllNumbers
<1>4. Len(t) \in Nat
  BY LenProperties
<1> QED
  BY <1>3, <1>4

\* The sum of one token.
LEMMA SumOne ==
    ASSUME NEW x \in Token
    PROVE  <<x>> \in Seq(Token) /\ Sum(<<x>>) = Bytes(x) % 256
<1>1. <<>> \in Seq(Token) /\ Append(<<>>, x) = <<x>>
  BY EmptySeq
<1>2. Append(<<>>, x) \in Seq(Token)
  BY <1>1, AppendProperties
<1>3. Sum(<<x>>) = (0 + Bytes(x)) % 256
  <2>1. Sum(Append(<<>>, x)) = (Sum(<<>>) + Bytes(x)) % 256
    BY <1>1, SumAppend
  <2> QED
    BY <1>1, <2>1, SumEmpty
<1>4. Bytes(x) \in Int /\ 0 + Bytes(x) = Bytes(x)
  BY BytesAreNumbers
<1> QED
  BY <1>1, <1>2, <1>3, <1>4

\* A sequence, cut in three.
LEMMA Cut ==
    ASSUME NEW s \in Seq(Token), NEW i \in 1..Len(s), NEW j \in i..Len(s)
    PROVE  /\ SubSeq(s, 1, i - 1) \in Seq(Token) /\ Len(SubSeq(s, 1, i - 1)) = i - 1
           /\ \A k \in 1..(i - 1) : SubSeq(s, 1, i - 1)[k] = s[k]
           /\ SubSeq(s, i, j) \in Seq(Token) /\ Len(SubSeq(s, i, j)) = j - i + 1
           /\ \A k \in 1..(j - i + 1) : SubSeq(s, i, j)[k] = s[i + k - 1]
           /\ SubSeq(s, j + 1, Len(s)) \in Seq(Token)
           /\ Len(SubSeq(s, j + 1, Len(s))) = Len(s) - j
           /\ \A k \in 1..(Len(s) - j) : SubSeq(s, j + 1, Len(s))[k] = s[j + k]
           /\ s = (SubSeq(s, 1, i - 1) \o SubSeq(s, i, j)) \o SubSeq(s, j + 1, Len(s))
<1>1. Len(s) \in Nat /\ \A k \in 1..Len(s) : s[k] \in Token
  BY LenProperties, ElementOfSeq
<1>2. /\ i \in Int /\ j \in Int /\ i - 1 \in Int /\ j + 1 \in Int
      /\ 1 <= i /\ i <= j /\ j <= Len(s)
  BY <1>1
<1>3. /\ SubSeq(s, 1, i - 1) \in Seq(Token)
      /\ Len(SubSeq(s, 1, i - 1)) = i - 1
      /\ \A k \in 1..(i - 1) : SubSeq(s, 1, i - 1)[k] = s[k]
  <2>1. \A k \in 1..(i - 1) : s[k] \in Token
    BY <1>1, <1>2
  <2>2. /\ SubSeq(s, 1, i - 1) \in Seq(Token)
        /\ Len(SubSeq(s, 1, i - 1)) = IF 1 <= i - 1 THEN (i - 1) - 1 + 1 ELSE 0
        /\ \A k \in 1..((i - 1) - 1 + 1) : SubSeq(s, 1, i - 1)[k] = s[1 + k - 1]
    BY <1>2, <2>1, SubSeqProperties
  <2> QED
    BY <1>2, <2>2
<1>4. /\ SubSeq(s, i, j) \in Seq(Token)
      /\ Len(SubSeq(s, i, j)) = j - i + 1
      /\ \A k \in 1..(j - i + 1) : SubSeq(s, i, j)[k] = s[i + k - 1]
  <2>1. \A k \in i..j : s[k] \in Token
    BY <1>1, <1>2
  <2> QED
    BY <1>2, <2>1, SubSeqProperties
<1>5. /\ SubSeq(s, j + 1, Len(s)) \in Seq(Token)
      /\ Len(SubSeq(s, j + 1, Len(s))) = Len(s) - j
      /\ \A k \in 1..(Len(s) - j) : SubSeq(s, j + 1, Len(s))[k] = s[j + k]
  <2>1. \A k \in (j + 1)..Len(s) : s[k] \in Token
    BY <1>1, <1>2
  <2>2. /\ SubSeq(s, j + 1, Len(s)) \in Seq(Token)
        /\ Len(SubSeq(s, j + 1, Len(s))) =
               IF j + 1 <= Len(s) THEN Len(s) - (j + 1) + 1 ELSE 0
        /\ \A k \in 1..(Len(s) - (j + 1) + 1) :
               SubSeq(s, j + 1, Len(s))[k] = s[(j + 1) + k - 1]
    BY <1>1, <1>2, <2>1, SubSeqProperties
  <2>3. Len(s) - (j + 1) + 1 = Len(s) - j /\ \A k \in 1..(Len(s) - j) : (j + 1) + k - 1 = j + k
    BY <1>1, <1>2
  <2>4. (IF j + 1 <= Len(s) THEN Len(s) - (j + 1) + 1 ELSE 0) = Len(s) - j
    BY <1>1, <1>2
  <2>5. \A k \in 1..(Len(s) - j) : SubSeq(s, j + 1, Len(s))[k] = s[(j + 1) + k - 1]
    BY <2>2, <2>3
  <2>6. \A k \in 1..(Len(s) - j) : SubSeq(s, j + 1, Len(s))[k] = s[j + k]
    BY <2>3, <2>5
  <2> QED
    BY <2>2, <2>4, <2>6
<1>6. SubSeq(s, 1, i - 1) \o SubSeq(s, i, j) = SubSeq(s, 1, j)
  <2>1. 1 \in 1..(Len(s) + 1) /\ i - 1 \in (1 - 1)..Len(s) /\ j \in (i - 1)..Len(s)
        /\ (i - 1) + 1 = i
    BY <1>1, <1>2
  <2> QED
    BY <2>1, ConcatAdjacentSubSeq
<1>7. SubSeq(s, 1, j) \o SubSeq(s, j + 1, Len(s)) = SubSeq(s, 1, Len(s))
  <2>1. 1 \in 1..(Len(s) + 1) /\ j \in (1 - 1)..Len(s) /\ Len(s) \in j..Len(s)
    BY <1>1, <1>2
  <2> QED
    BY <2>1, ConcatAdjacentSubSeq
<1>8. SubSeq(s, 1, Len(s)) = s
  BY SubSeqFull
<1> QED
  BY <1>3, <1>4, <1>5, <1>6, <1>7, <1>8

\* A sequence, cut at one token.
LEMMA CutOne ==
    ASSUME NEW s \in Seq(Token), NEW i \in 1..Len(s)
    PROVE  /\ SubSeq(s, 1, i - 1) \in Seq(Token) /\ Len(SubSeq(s, 1, i - 1)) = i - 1
           /\ \A k \in 1..(i - 1) : SubSeq(s, 1, i - 1)[k] = s[k]
           /\ SubSeq(s, i, i) = <<s[i]>>
           /\ SubSeq(s, i + 1, Len(s)) \in Seq(Token)
           /\ Len(SubSeq(s, i + 1, Len(s))) = Len(s) - i
           /\ \A k \in 1..(Len(s) - i) : SubSeq(s, i + 1, Len(s))[k] = s[i + k]
           /\ s = (SubSeq(s, 1, i - 1) \o <<s[i]>>) \o SubSeq(s, i + 1, Len(s))
<1>1. i \in i..Len(s) /\ i - i + 1 = 1 /\ i + 1 - 1 = i /\ 1 \in 1..1
  BY LenProperties
<1>2. /\ SubSeq(s, i, i) \in Seq(Token)
      /\ Len(SubSeq(s, i, i)) = i - i + 1
      /\ \A k \in 1..(i - i + 1) : SubSeq(s, i, i)[k] = s[i + k - 1]
  BY <1>1, Cut, Zenon
<1>3. /\ SubSeq(s, 1, i - 1) \in Seq(Token) /\ Len(SubSeq(s, 1, i - 1)) = i - 1
      /\ \A k \in 1..(i - 1) : SubSeq(s, 1, i - 1)[k] = s[k]
      /\ SubSeq(s, i + 1, Len(s)) \in Seq(Token)
      /\ Len(SubSeq(s, i + 1, Len(s))) = Len(s) - i
      /\ \A k \in 1..(Len(s) - i) : SubSeq(s, i + 1, Len(s))[k] = s[i + k]
      /\ s = (SubSeq(s, 1, i - 1) \o SubSeq(s, i, i)) \o SubSeq(s, i + 1, Len(s))
  BY <1>1, Cut, Zenon
<1>4. SubSeq(s, i, i) = <<s[i]>>
  <2>1. Len(SubSeq(s, i, i)) = 1 /\ SubSeq(s, i, i)[1] = s[i]
    BY <1>1, <1>2
  <2>2. <<s[i]>> \in Seq(Token) /\ Len(<<s[i]>>) = 1 /\ <<s[i]>>[1] = s[i]
    BY ElementOfSeq
  <2>3. \A k \in 1..1 : SubSeq(s, i, i)[k] = <<s[i]>>[k]
    BY <2>1, <2>2
  <2> QED
    BY <1>2, <2>1, <2>2, <2>3, SeqEqual
<1> QED
  BY <1>3, <1>4

\* A sequence and what is left of it without its token at j.
LEMMA TakenOut ==
    ASSUME NEW v \in Seq(Token), NEW n \in Nat, Len(v) = n + 1, NEW j \in 1..(n + 1)
    PROVE  \E rest \in Seq(Token) :
               /\ Len(rest) = n
               /\ \A k \in 1..(n + 1) : k # j => \E i \in 1..n : rest[i] = v[k]
               /\ Sum(v) = (Sum(rest) + Bytes(v[j])) % 256
<1>1. PICK pre, post : pre = SubSeq(v, 1, j - 1) /\ post = SubSeq(v, j + 1, Len(v))
  OBVIOUS
<1>2. PICK x : x = v[j]
  OBVIOUS
<1>3. /\ pre \in Seq(Token) /\ Len(pre) = j - 1
      /\ \A k \in 1..(j - 1) : pre[k] = v[k]
      /\ post \in Seq(Token) /\ Len(post) = Len(v) - j
      /\ \A k \in 1..(Len(v) - j) : post[k] = v[j + k]
      /\ v = (pre \o <<x>>) \o post
  BY <1>1, <1>2, CutOne
<1>4. PICK rest : rest = pre \o post
  OBVIOUS
<1>5. /\ rest \in Seq(Token) /\ Len(rest) = Len(pre) + Len(post)
      /\ \A i \in 1..(Len(pre) + Len(post)) :
             rest[i] = IF i <= Len(pre) THEN pre[i] ELSE post[i - Len(pre)]
  <2>1. /\ pre \o post \in Seq(Token) /\ Len(pre \o post) = Len(pre) + Len(post)
        /\ \A i \in 1..(Len(pre) + Len(post)) :
               (pre \o post)[i] = IF i <= Len(pre) THEN pre[i] ELSE post[i - Len(pre)]
    BY <1>3, ConcatProperties, Zenon
  <2> QED
    BY <1>4, <2>1, Zenon
<1>6. Len(rest) = n
  BY <1>3, <1>5
<1>7. \A k \in 1..(n + 1) : k # j => \E i \in 1..n : rest[i] = v[k]
  <2>1. TAKE k \in 1..(n + 1)
  <2>2. HAVE k # j
  <2>3. CASE k < j
    <3>1. k \in 1..(j - 1) /\ k \in 1..n
      BY <2>3
    <3>2. k \in 1..(Len(pre) + Len(post)) /\ k <= Len(pre)
      BY <1>3, <2>3
    <3>3. rest[k] = pre[k]
      BY <1>5, <3>2
    <3> QED
      BY <1>3, <3>1, <3>3
  <2>4. CASE k > j
    <3>1. /\ k - 1 \in 1..n /\ (k - 1) - (j - 1) = k - j /\ k - j \in 1..(n + 1 - j)
          /\ j + (k - j) = k
      BY <2>4
    <3>2. k - 1 \in 1..(Len(pre) + Len(post)) /\ ~(k - 1 <= Len(pre))
      BY <1>3, <2>4
    <3>3. rest[k - 1] = post[k - j]
      BY <1>3, <1>5, <3>1, <3>2
    <3>4. k - j \in 1..(Len(v) - j)
      BY <3>1
    <3>5. post[k - j] = v[k]
      BY <1>3, <3>1, <3>4
    <3> QED
      BY <3>1, <3>3, <3>5
  <2> QED
    BY <2>2, <2>3, <2>4
<1>8. x \in Token
  BY <1>2, ElementOfSeq
<1>9. PICK one : one = <<x>>
  OBVIOUS
<1>10. one \in Seq(Token) /\ Sum(one) = Bytes(x) % 256
  BY <1>8, <1>9, SumOne
<1>11. pre \o one \in Seq(Token)
  BY <1>3, <1>10, ConcatProperties
<1>12. Sum(pre \o post) = (Sum(pre) + Sum(post)) % 256
  BY <1>3, SumConcat
<1>13. Sum(pre \o one) = (Sum(pre) + Sum(one)) % 256
  BY <1>3, <1>10, SumConcat
<1>14. Sum((pre \o one) \o post) = (Sum(pre \o one) + Sum(post)) % 256
  BY <1>3, <1>11, SumConcat
<1>15. Sum(pre) \in Int /\ Sum(post) \in Int /\ Bytes(x) \in Int
  BY <1>3, <1>8, BytesAreNumbers, SumsAreNumbers
<1>16. Sum(v) = (Sum(rest) + Bytes(x)) % 256
  <2>1. \A a, b, c \in Int : (((a + (c % 256)) % 256) + b) % 256 = (((a + b) % 256) + c) % 256
    OBVIOUS
  <2>2. Sum(v) = Sum((pre \o one) \o post)
    BY <1>3, <1>9
  <2>3. Sum(v) = (Sum(pre \o one) + Sum(post)) % 256
    BY <1>14, <2>2
  <2>4. Sum(pre \o one) = (Sum(pre) + (Bytes(x) % 256)) % 256
    BY <1>10, <1>13
  <2>5. Sum(rest) = (Sum(pre) + Sum(post)) % 256
    BY <1>4, <1>12
  <2> QED
    BY <1>15, <2>1, <2>3, <2>4, <2>5
<1> QED
  BY <1>2, <1>5, <1>6, <1>7, <1>16

\* The tokens of u are different and among those of v, both of which have n.
Permuted(n, u, v) ==
    /\ Len(u) = n /\ Len(v) = n
    /\ \A i, j \in 1..n : u[i] = u[j] => i = j
    /\ \A i \in 1..n : \E j \in 1..n : v[j] = u[i]

\* The last token of u can be taken out of both, which changes both sums alike.
LEMMA PermutedStep ==
    ASSUME NEW n \in Nat, NEW u \in Seq(Token), NEW v \in Seq(Token), Permuted(n + 1, u, v)
    PROVE  \E s, t \in Seq(Token) : Permuted(n, s, t) /\ (Sum(s) = Sum(t) => Sum(u) = Sum(v))
<1>1. /\ Len(u) = n + 1 /\ Len(v) = n + 1
      /\ \A i, j \in 1..(n + 1) : u[i] = u[j] => i = j
      /\ \A i \in 1..(n + 1) : \E j \in 1..(n + 1) : v[j] = u[i]
  BY DEF Permuted
<1>2. PICK s : s = SubSeq(u, 1, n)
  OBVIOUS
<1>3. /\ s \in Seq(Token) /\ Len(s) = n
      /\ \A i \in 1..n : s[i] = u[i]
      /\ Sum(u) = (Sum(s) + Bytes(u[n + 1])) % 256
  BY <1>1, <1>2, SumFront
<1>4. n + 1 \in 1..(n + 1) /\ \A i \in 1..n : i \in 1..(n + 1) /\ i # n + 1
  OBVIOUS
<1>5. PICK j \in 1..(n + 1) : v[j] = u[n + 1]
  BY <1>1, <1>4
<1>6. PICK t \in Seq(Token) :
          /\ Len(t) = n
          /\ \A k \in 1..(n + 1) : k # j => \E i \in 1..n : t[i] = v[k]
          /\ Sum(v) = (Sum(t) + Bytes(v[j])) % 256
  <2>1. Len(v) = n + 1
    BY <1>1
  <2> QED
    BY <2>1, TakenOut, Zenon
<1>7. \A i, k \in 1..n : s[i] = s[k] => i = k
  BY <1>1, <1>3, <1>4
<1>8. \A i \in 1..n : \E k \in 1..n : t[k] = s[i]
  <2>1. TAKE i \in 1..n
  <2>2. PICK k \in 1..(n + 1) : v[k] = u[i]
    BY <1>1, <1>4
  <2>3. u[i] # u[n + 1]
    BY <1>1, <1>4
  <2>4. k # j
    BY <1>5, <2>2, <2>3
  <2>5. PICK l \in 1..n : t[l] = v[k]
    BY <1>6, <2>4
  <2> QED
    BY <1>3, <2>2, <2>5
<1>9. Permuted(n, s, t)
  BY <1>3, <1>6, <1>7, <1>8 DEF Permuted
<1>10. Sum(s) = Sum(t) => Sum(u) = Sum(v)
  BY <1>3, <1>5, <1>6
<1> QED
  BY <1>3, <1>6, <1>9, <1>10

\* The sum does not depend on the order: t has all the different tokens of s.
LEMMA SumPermuted ==
    ASSUME NEW s \in Seq(Token), NEW t \in Seq(Token), Len(s) = Len(t),
           \A i, j \in 1..Len(s) : s[i] = s[j] => i = j,
           \A i \in 1..Len(s) : \E j \in 1..Len(t) : t[j] = s[i]
    PROVE  Sum(s) = Sum(t)
<1> DEFINE G == {n \in Nat : \A u, v \in Seq(Token) : Permuted(n, u, v) => Sum(u) = Sum(v)}
<1>1. 0 \in G
  <2>1. \A u \in Seq(Token) : Len(u) = 0 => u = <<>>
    BY EmptySeq
  <2> QED
    BY <2>1 DEF Permuted
<1>2. ASSUME NEW n \in G PROVE n + 1 \in G
  <2>1. n \in Nat /\ \A u, v \in Seq(Token) : Permuted(n, u, v) => Sum(u) = Sum(v)
    OBVIOUS
  <2>2. \A u, v \in Seq(Token) : Permuted(n + 1, u, v) => Sum(u) = Sum(v)
    BY <2>1, PermutedStep
  <2> QED
    BY <2>1, <2>2
<1>3. \A n \in Nat : n \in G
  <2>1. G \subseteq Nat
    OBVIOUS
  <2> HIDE DEF G
  <2> QED
    BY <1>1, <1>2, <2>1, AllNumbers
<1>4. Len(s) \in Nat /\ Permuted(Len(s), s, t)
  BY LenProperties DEF Permuted
<1> QED
  BY <1>3, <1>4

\* A set of some of the numbers up to n has a last one.
LEMMA LastExists ==
    ASSUME NEW n \in Nat, NEW S, S \subseteq 1..n, S # {}
    PROVE  Max(S) \in S /\ \A i \in S : i <= Max(S)
<1> DEFINE HasLast(U) == \E i \in U : \A j \in U : j <= i
           G == {k \in Nat : \A U \in SUBSET (1..k) : U # {} => HasLast(U)}
<1>1. 0 \in G
  <2>1. \A U \in SUBSET (1..0) : U = {}
    OBVIOUS
  <2> QED
    BY <2>1
<1>2. ASSUME NEW k \in G PROVE k + 1 \in G
  <2>1. SUFFICES ASSUME NEW U \in SUBSET (1..(k + 1)), U # {} PROVE HasLast(U)
    OBVIOUS
  <2>2. k \in Nat /\ \A j \in U : j \in 1..(k + 1)
    OBVIOUS
  <2>3. CASE k + 1 \in U
    <3>1. \A j \in U : j <= k + 1
      BY <2>2
    <3> QED
      BY <2>3, <3>1
  <2>4. CASE k + 1 \notin U
    <3>1. \A j \in 1..(k + 1) : j # k + 1 => j \in 1..k
      BY <2>2
    <3>2. U \in SUBSET (1..k)
      BY <2>2, <2>4, <3>1
    <3> QED
      BY <2>1, <3>2
  <2> QED
    BY <2>3, <2>4
<1>3. \A k \in Nat : k \in G
  <2>1. G \subseteq Nat
    OBVIOUS
  <2> HIDE DEF G
  <2> QED
    BY <1>1, <1>2, <2>1, AllNumbers
<1>4. HasLast(S)
  BY <1>3
<1>5. PICK i \in S : \A j \in S : j <= i
  BY <1>4
<1>6. \A j \in S : j \in Int
  OBVIOUS
<1>7. \E x \in S : \A y \in S : x >= y
  BY <1>5, <1>6
<1>8. Max(S) \in S /\ \A y \in S : Max(S) >= y
  BY <1>7 DEF Max
<1> QED
  BY <1>6, <1>8

\* The image of the numbers up to n is finite.
LEMMA ImageFinite ==
    ASSUME NEW n \in Nat, NEW f, 1..n = DOMAIN f
    PROVE  IsFiniteSet({f[i] : i \in 1..n})
<1> DEFINE T == {f[i] : i \in 1..n}
           g == [i \in 1..n |-> f[i]]
<1>1. IsFiniteSet(1..n)
  BY FS_Interval
<1>2. g \in Surjection(1..n, T)
  BY DEF Surjection
<1> HIDE DEF g, T
<1>3. IsFiniteSet(T)
  BY <1>1, <1>2, FS_Surjection
<1> QED
  BY <1>3 DEF T

\* Of two sequences of numbers up to k and n, if each of the first k is one of the n, k <= n.
LEMMA FitsInto ==
    ASSUME NEW k \in Nat, NEW n \in Nat, NEW f \in [1..k -> 1..n],
           \A i, j \in 1..k : f[i] = f[j] => i = j
    PROVE  k <= n
<1>1. f \in Injection(1..k, 1..n)
  BY DEF Injection, IsInjective
<1>2. IsFiniteSet(1..n) /\ Cardinality(1..n) = n /\ Cardinality(1..k) = k
  BY FS_Interval
<1>3. Cardinality(1..k) <= Cardinality(1..n)
  BY <1>1, <1>2, FS_Injection
<1> QED
  BY <1>2, <1>3

\* Two sequences of different tokens that have the same ones have the same sum.
LEMMA SumSame ==
    ASSUME NEW s \in Seq(Token), NEW t \in Seq(Token),
           \A i, j \in 1..Len(s) : s[i] = s[j] => i = j,
           \A i, j \in 1..Len(t) : t[i] = t[j] => i = j,
           \A i \in 1..Len(s) : \E j \in 1..Len(t) : t[j] = s[i],
           \A i \in 1..Len(t) : \E j \in 1..Len(s) : s[j] = t[i]
    PROVE  Sum(s) = Sum(t)
<1>1. Len(s) \in Nat /\ Len(t) \in Nat
  BY LenProperties
<1>2. Len(s) <= Len(t)
  <2> DEFINE f == [i \in 1..Len(s) |-> CHOOSE j \in 1..Len(t) : t[j] = s[i]]
  <2>1. \A i \in 1..Len(s) : f[i] \in 1..Len(t) /\ t[f[i]] = s[i]
    OBVIOUS
  <2>2. f \in [1..Len(s) -> 1..Len(t)]
    BY <2>1
  <2> HIDE DEF f
  <2>3. \A i, j \in 1..Len(s) : f[i] = f[j] => i = j
    BY <2>1
  <2> QED
    BY <1>1, <2>2, <2>3, FitsInto
<1>3. Len(t) <= Len(s)
  <2> DEFINE f == [i \in 1..Len(t) |-> CHOOSE j \in 1..Len(s) : s[j] = t[i]]
  <2>1. \A i \in 1..Len(t) : f[i] \in 1..Len(s) /\ s[f[i]] = t[i]
    OBVIOUS
  <2>2. f \in [1..Len(t) -> 1..Len(s)]
    BY <2>1
  <2> HIDE DEF f
  <2>3. \A i, j \in 1..Len(t) : f[i] = f[j] => i = j
    BY <2>1
  <2> QED
    BY <1>1, <2>2, <2>3, FitsInto
<1>4. Len(s) = Len(t)
  BY <1>1, <1>2, <1>3
<1> QED
  BY <1>4, SumPermuted

-----------------------------------------------------------------------------
(* The fields of a message. *)

\* The sequence s has the fields of m whose tags are T[1] .. T[n], each of tags once.
Lists(s, m, tags, n, T) ==
    /\ n \in Nat /\ T \in [1..n -> tags]
    /\ \A i, j \in 1..n : T[i] = T[j] => i = j
    /\ \A t \in tags : \E i \in 1..n : T[i] = t
    /\ s = [i \in 1..n |-> Field(T[i], m[T[i]])]

\* FieldsOf lists each tag that is not left out once.
LEMMA FieldsFacts ==
    ASSUME NEW m, NEW without, IsFiniteSet(DOMAIN m), DOMAIN m \subseteq Int
    PROVE  \E n, T : Lists(FieldsOf(m, without), m, DOMAIN m \ without, n, T)
<1> DEFINE tags == DOMAIN m \ without
           n == Cardinality(tags)
           Below(t) == {u \in tags : u <= t}
           P == [t \in tags |-> Cardinality(Below(t))]
           T == [i \in 1..n |-> CHOOSE t \in tags : Cardinality(Below(t)) = i]
<1>1. IsFiniteSet(tags) /\ n \in Nat
  <2>1. tags \in SUBSET DOMAIN m
    OBVIOUS
  <2> QED
    BY <2>1, FS_Subset, FS_CardinalityType
<1>2. \A t \in tags : t \in Int
  OBVIOUS
<1>3. \A t \in tags : /\ IsFiniteSet(Below(t)) /\ Cardinality(Below(t)) \in Nat
                      /\ Cardinality(Below(t)) <= n /\ Cardinality(Below(t)) # 0
  <2>1. TAKE t \in tags
  <2>2. Below(t) \in SUBSET tags /\ t \in Below(t)
    BY <1>2
  <2> HIDE DEF Below, tags
  <2>3. IsFiniteSet(Below(t)) /\ Cardinality(Below(t)) <= n
    BY <1>1, <2>2, FS_Subset
  <2>4. Cardinality(Below(t)) # 0
    BY <2>2, <2>3, FS_EmptySet
  <2> QED
    BY <2>3, <2>4, FS_CardinalityType
<1>4. \A t, u \in tags : t < u => Cardinality(Below(t)) # Cardinality(Below(u))
  <2>1. TAKE t \in tags, u \in tags
  <2>2. HAVE t < u
  <2>3. \A v \in tags : v <= t => v <= u
    BY <1>2, <2>2
  <2>4. Below(t) \in SUBSET Below(u)
    BY <2>3
  <2>5. u \in Below(u) /\ u \notin Below(t)
    BY <1>2, <2>2
  <2>6. IsFiniteSet(Below(u))
    BY <1>3
  <2> HIDE DEF Below, tags
  <2> QED
    BY <2>4, <2>5, <2>6, FS_Subset
<1>5. P \in Injection(tags, 1..n)
  <2>1. \A t \in tags : Cardinality(Below(t)) \in 1..n
    BY <1>1, <1>3
  <2>2. \A t, u \in tags : t < u \/ u < t \/ t = u
    BY <1>2
  <2>3. \A t, u \in tags : Cardinality(Below(t)) = Cardinality(Below(u)) => t = u
    <3> HIDE DEF Below, tags
    <3> QED
      BY <1>4, <2>2
  <2> HIDE DEF Below, tags, n
  <2> QED
    BY <2>1, <2>3 DEF Injection, IsInjective
<1>6. P \in Surjection(tags, 1..n)
  <2>1. IsFiniteSet(1..n) /\ Cardinality(1..n) = n
    BY <1>1, FS_Interval
  <2>2. Cardinality(tags) = Cardinality(1..n)
    BY <2>1
  <2> HIDE DEF P, tags, n
  <2> QED
    BY <1>5, <2>1, <2>2, FS_Injection
<1>7. \A i \in 1..n : \E t \in tags : Cardinality(Below(t)) = i
  <2>1. \A i \in 1..n : \E t \in tags : P[t] = i
    <3> HIDE DEF P, tags, n
    <3> QED
      BY <1>6 DEF Surjection
  <2> QED
    BY <2>1
<1>8. \A i \in 1..n : T[i] \in tags /\ Cardinality(Below(T[i])) = i
  <2> HIDE DEF Below, tags, n
  <2> QED
    BY <1>7
<1>9. \A t \in tags : \E i \in 1..n : T[i] = t
  <2>1. TAKE t \in tags
  <2>2. Cardinality(Below(t)) \in 1..n
    BY <1>1, <1>3
  <2>3. \A u \in tags : Cardinality(Below(t)) = Cardinality(Below(u)) => t = u
    <3>1. \A u \in tags : t < u \/ u < t \/ t = u
      BY <1>2
    <3> HIDE DEF Below, tags
    <3> QED
      BY <1>4, <3>1
  <2> HIDE DEF Below, tags, n, T
  <2> QED
    BY <1>8, <2>2, <2>3
<1>10. FieldsOf(m, without) = [i \in 1..n |-> Field(T[i], m[T[i]])]
  BY DEF FieldsOf
<1>11. T \in [1..n -> tags] /\ \A i, j \in 1..n : T[i] = T[j] => i = j
  <2>1. T \in [1..n -> tags]
    BY <1>8
  <2> HIDE DEF Below, tags, n, T
  <2> QED
    BY <1>8, <2>1
<1> HIDE DEF T, n, Below, P
<1>12. Lists(FieldsOf(m, without), m, tags, n, T)
  BY <1>1, <1>9, <1>10, <1>11 DEF Lists
<1> QED
  BY <1>12

\* A function from the first n numbers is a sequence of length n.
LEMMA IsSequence ==
    ASSUME NEW S, NEW n \in Nat, NEW f \in [1..n -> S]
    PROVE  f \in Seq(S) /\ Len(f) = n
<1>1. f \in Seq(S)
  BY SeqDef
<1>2. DOMAIN f = 1..n /\ DOMAIN f = 1..Len(f) /\ Len(f) \in Nat
  BY <1>1, LenProperties
<1>3. \A k, l \in Nat : 1..k = 1..l => k = l
  <2>1. TAKE k \in Nat, l \in Nat
  <2>2. HAVE 1..k = 1..l
  <2>3. (k \in 1..k <=> k \in 1..l) /\ (l \in 1..k <=> l \in 1..l)
    BY <2>2
  <2> QED
    BY <2>2, <2>3
<1> QED
  BY <1>1, <1>2, <1>3

\* What texts and the numbers of tags are.
LEMMA NumberFacts ==
    /\ NaN \notin Int
    /\ \A x \in Texts : number[x] \in Int \cup {NaN}
    /\ \A n \in DOMAIN to_string : to_string[n] \in Texts /\ number[to_string[n]] = n
    /\ \A n \in 0..255 : padded[n] \in Texts /\ number[padded[n]] = n
    /\ {8, 9, 10} \subseteq DOMAIN to_string
    /\ \A k, n \in DOMAIN to_string : to_string[k] = to_string[n] => k = n
<1>1. NaN \notin Int /\ \A x \in Texts : number[x] \in Int \cup {NaN}
  BY TextAssumption
<1>2. \A n \in DOMAIN to_string : to_string[n] \in Texts /\ number[to_string[n]] = n
  BY TextAssumption
<1>3. \A n \in 0..255 : padded[n] \in Texts /\ number[padded[n]] = n
  BY TextAssumption
<1>4. {8, 9, 10} \subseteq DOMAIN to_string
  BY NumberAssumption DEF BeginString, BodyLength, CheckSum
<1> QED
  BY <1>1, <1>2, <1>3, <1>4

-----------------------------------------------------------------------------
(* parse. *)

\* What parse reads is a message.
LEMMA ParseTyped ==
    ASSUME NEW raw \in Raw
    PROVE  IsMessage(parse(raw))
<1> DEFINE tokens == raw.tokens
           N == {number[tokens[i].tag] : i \in DOMAIN tokens}
           Of(tag) == {i \in DOMAIN tokens : number[tokens[i].tag] = tag}
<1>1. /\ tokens \in Seq(Token) /\ Len(tokens) \in Nat /\ DOMAIN tokens = 1..Len(tokens)
      /\ \A i \in DOMAIN tokens : tokens[i] \in Token
  <2>1. tokens \in Seq(Token)
    BY DEF Raw
  <2> HIDE DEF tokens
  <2> QED
    BY <2>1, LenProperties, ElementOfSeq
<1>2. \A i \in DOMAIN tokens : /\ number[tokens[i].tag] \in Int \cup {NaN}
                               /\ tokens[i].value \in Texts
  BY <1>1, NumberFacts DEF Token
<1>3. IsFiniteSet(N)
  <2> DEFINE f == [i \in 1..Len(tokens) |-> number[tokens[i].tag]]
  <2>1. IsFiniteSet({f[i] : i \in 1..Len(tokens)})
    <3>1. 1..Len(tokens) = DOMAIN f
      OBVIOUS
    <3> HIDE DEF f
    <3> QED
      BY <1>1, <3>1, ImageFinite
  <2>2. N = {f[i] : i \in 1..Len(tokens)}
    BY <1>1
  <2> QED
    BY <2>1, <2>2
<1>4. DOMAIN parse(raw) = N \ {NaN}
  BY DEF parse
<1>5. IsFiniteSet(DOMAIN parse(raw)) /\ DOMAIN parse(raw) \subseteq Int
  <2>1. N \ {NaN} \in SUBSET N
    OBVIOUS
  <2>2. N \ {NaN} \subseteq Int
    BY <1>2
  <2> HIDE DEF N
  <2> QED
    BY <1>3, <1>4, <2>1, <2>2, FS_Subset
<1>6. ASSUME NEW t \in DOMAIN parse(raw) PROVE parse(raw)[t] \in Texts
  <2>1. parse(raw)[t] = tokens[Max(Of(t))].value
    BY DEF parse
  <2>2. Of(t) # {} /\ Of(t) \subseteq 1..Len(tokens)
    BY <1>1, <1>4
  <2> HIDE DEF tokens, Of
  <2>3. Max(Of(t)) \in Of(t)
    BY <1>1, <2>2, LastExists
  <2>4. Max(Of(t)) \in DOMAIN tokens
    BY <1>1, <2>2, <2>3
  <2> QED
    BY <1>2, <2>1, <2>4
<1> QED
  BY <1>5, <1>6 DEF IsMessage

\* The message m has the values of the tokens, under the numbers of their tags.
ReadAs(m, tokens) ==
    /\ DOMAIN m = {number[tokens[i].tag] : i \in 1..Len(tokens)}
    /\ \A i \in 1..Len(tokens) : m[number[tokens[i].tag]] = tokens[i].value
    /\ \A i, j \in 1..Len(tokens) : number[tokens[i].tag] = number[tokens[j].tag] => i = j

\* In a message that parse drops and respells nothing of, tags are told apart by their
\* numbers, and each field is read.
LEMMA ParseFaithful ==
    ASSUME NEW raw, NEW tokens \in Seq(Token), raw.tokens = tokens, Faithful(tokens)
    PROVE  ReadAs(parse(raw), tokens)
<1> DEFINE Of(tag) == {i \in DOMAIN tokens : number[tokens[i].tag] = tag}
<1>1. DOMAIN tokens = 1..Len(tokens) /\ Len(tokens) \in Nat
  BY LenProperties
<1>2. DOMAIN parse(raw) = {number[tokens[i].tag] : i \in 1..Len(tokens)}
  BY <1>1 DEF parse, Faithful
<1>3. \A i, j \in 1..Len(tokens) : number[tokens[i].tag] = number[tokens[j].tag] => i = j
  <2>1. \A i \in 1..Len(tokens) : tokens[i].tag = to_string[number[tokens[i].tag]]
    BY <1>1 DEF Faithful
  <2>2. \A i, j \in 1..Len(tokens) : tokens[i].tag = tokens[j].tag => i = j
    BY <1>1 DEF Faithful
  <2> QED
    BY <2>1, <2>2
<1>4. ASSUME NEW i \in 1..Len(tokens)
      PROVE  parse(raw)[number[tokens[i].tag]] = tokens[i].value
  <2>1. number[tokens[i].tag] \in DOMAIN parse(raw)
    BY <1>2
  <2>2. parse(raw)[number[tokens[i].tag]] = tokens[Max(Of(number[tokens[i].tag]))].value
    BY <2>1 DEF parse
  <2>3. Of(number[tokens[i].tag]) = {i}
    BY <1>1, <1>3
  <2>4. Max({i}) = i
    <3>1. Max({i}) \in {i}
      BY <1>1, LastExists
    <3> QED
      BY <3>1
  <2> HIDE DEF Of
  <2> QED
    BY <2>2, <2>3, <2>4
<1> QED
  BY <1>2, <1>3, <1>4 DEF ReadAs

-----------------------------------------------------------------------------
(* The validators. *)

\* Where the checksum is, and what it is about.
LEMMA ChecksumAt ==
    ASSUME NEW w \in Seq(Token), NEW k \in 2..Len(w), w[k].tag = to_string[CheckSum],
           \A l \in 2..Len(w) : w[l].tag = to_string[CheckSum] => l <= k
    PROVE  /\ ChecksumsIn(w) # {} /\ Max(ChecksumsIn(w)) = k
           /\ Content(w) = SubSeq(w, 1, k - 1)
<1>1. Len(w) \in Nat
  BY LenProperties
<1>2. k \in ChecksumsIn(w)
  BY DEF ChecksumsIn
<1>3. ChecksumsIn(w) \subseteq 1..Len(w)
  BY <1>1 DEF ChecksumsIn
<1>4. /\ Max(ChecksumsIn(w)) \in ChecksumsIn(w)
      /\ \A i \in ChecksumsIn(w) : i <= Max(ChecksumsIn(w))
  BY <1>1, <1>2, <1>3, LastExists
<1>5. Max(ChecksumsIn(w)) <= k
  BY <1>4 DEF ChecksumsIn
<1>6. Max(ChecksumsIn(w)) \in Int /\ k <= Max(ChecksumsIn(w)) /\ k \in Int
  BY <1>1, <1>2, <1>3, <1>4
<1>7. Max(ChecksumsIn(w)) = k
  BY <1>5, <1>6
<1> QED
  BY <1>2, <1>7 DEF Content

\* Without a checksum nothing is accepted.
LEMMA NoChecksum ==
    ASSUME NEW raw, \A l \in 2..Len(raw.tokens) : raw.tokens[l].tag # to_string[CheckSum]
    PROVE  ~validate_raw(raw)
  BY DEF validate_raw, ChecksumsIn

\* The two validators agree.
LEMMA ValidatorsMeet ==
    ASSUME NEW raw \in Raw, ~raw.open, Len(raw.tokens) > 1, Faithful(raw.tokens),
           raw.tokens[Len(raw.tokens)].tag = to_string[CheckSum]
    PROVE  validate_raw(raw) <=> validate_map(parse(raw))
<1> DEFINE tokens == raw.tokens
           n == Len(tokens)
           front == SubSeq(tokens, 1, n - 1)
           m == parse(raw)
           listed == FieldsOf(m, {CheckSum})
<1>1. tokens \in Seq(Token) /\ n \in Nat /\ n > 1 /\ raw.tokens = tokens
  <2>1. tokens \in Seq(Token)
    BY DEF Raw
  <2> QED
    BY <2>1, LenProperties
<1>2. ChecksumsIn(tokens) # {} /\ Max(ChecksumsIn(tokens)) = n
  <2>1. n \in 2..n /\ \A i \in 2..n : i <= n
    BY <1>1
  <2> QED
    BY <1>1, <2>1, ChecksumAt
<1>3. validate_raw(raw) <=> number[tokens[n].value] = Sum(front)
  BY <1>1, <1>2 DEF validate_raw
<1>4. /\ DOMAIN m = {number[tokens[i].tag] : i \in 1..n}
      /\ \A i \in 1..n : m[number[tokens[i].tag]] = tokens[i].value
      /\ \A i, j \in 1..n : number[tokens[i].tag] = number[tokens[j].tag] => i = j
  <2> HIDE DEF m, tokens
  <2> QED
    <3>1. ReadAs(m, tokens)
      BY <1>1, ParseFaithful DEF m, tokens
    <3> QED
      BY <3>1 DEF ReadAs, n
<1>5. number[tokens[n].tag] = CheckSum /\ n \in 1..n
  <2>1. number[tokens[n].tag] = CheckSum
    BY NumberFacts DEF CheckSum
  <2> QED
    BY <1>1, <2>1
<1>6. CheckSum \in DOMAIN m /\ m[CheckSum] = tokens[n].value
  BY <1>4, <1>5
<1>7. validate_map(m) <=> number[tokens[n].value] = Sum(listed)
  BY <1>6 DEF validate_map
<1>8. /\ front \in Seq(Token) /\ Len(front) = n - 1
      /\ \A i \in 1..(n - 1) : front[i] = tokens[i]
  <2>1. n - 1 \in Nat /\ n = (n - 1) + 1
    BY <1>1
  <2> HIDE DEF n, tokens
  <2> QED
    BY <1>1, <2>1, SumFront DEF n
<1>9. \A i \in 1..n : /\ tokens[i] \in Token
                      /\ Field(number[tokens[i].tag], m[number[tokens[i].tag]]) = tokens[i]
  <2>1. TAKE i \in 1..n
  <2>2. tokens[i] \in Token
    BY <1>1, ElementOfSeq
  <2>3. i \in DOMAIN tokens
    BY <1>1, LenProperties
  <2>4. tokens[i].tag = to_string[number[tokens[i].tag]]
    BY <2>3 DEF Faithful
  <2>5. m[number[tokens[i].tag]] = tokens[i].value
    BY <1>4
  <2> HIDE DEF m, n, tokens
  <2>6. Field(number[tokens[i].tag], m[number[tokens[i].tag]])
            = [tag |-> tokens[i].tag, value |-> tokens[i].value]
    BY <2>4, <2>5 DEF Field
  <2>7. tokens[i] = [tag |-> tokens[i].tag, value |-> tokens[i].value]
    BY <2>2 DEF Token
  <2> QED
    BY <2>2, <2>6, <2>7
<1>10. IsFiniteSet(DOMAIN m) /\ DOMAIN m \subseteq Int
  BY ParseTyped DEF IsMessage
<1> HIDE DEF m, listed, front, tokens, n
<1>11. PICK k, T : Lists(listed, m, DOMAIN m \ {CheckSum}, k, T)
  BY <1>10, FieldsFacts DEF listed
<1>12. /\ k \in Nat /\ T \in [1..k -> DOMAIN m \ {CheckSum}]
       /\ \A i, j \in 1..k : T[i] = T[j] => i = j
       /\ \A t \in DOMAIN m \ {CheckSum} : \E i \in 1..k : T[i] = t
       /\ listed = [i \in 1..k |-> Field(T[i], m[T[i]])]
  BY <1>11 DEF Lists
<1>13. \A i \in 1..(n - 1) : i \in 1..n /\ i # n
  BY <1>1
<1>14. \A i \in 1..n : i # n => i \in 1..(n - 1)
  BY <1>1
<1>15. \A i \in 1..k : \E j \in 1..(n - 1) : T[i] = number[tokens[j].tag] /\ listed[i] = tokens[j]
  <2>1. TAKE i \in 1..k
  <2>2. T[i] \in DOMAIN m /\ T[i] # CheckSum
    BY <1>12
  <2>3. PICK j \in 1..n : T[i] = number[tokens[j].tag]
    BY <1>4, <2>2
  <2>4. j # n
    BY <1>5, <2>2, <2>3
  <2>5. listed[i] = Field(T[i], m[T[i]])
    BY <1>12
  <2>6. listed[i] = tokens[j]
    BY <1>9, <2>3, <2>5
  <2> QED
    BY <1>14, <2>3, <2>4, <2>6
<1>16. \A j \in 1..(n - 1) : \E i \in 1..k : listed[i] = tokens[j]
  <2>1. TAKE j \in 1..(n - 1)
  <2>2. number[tokens[j].tag] \in DOMAIN m /\ number[tokens[j].tag] # CheckSum
    BY <1>4, <1>5, <1>13
  <2>3. PICK i \in 1..k : T[i] = number[tokens[j].tag]
    BY <1>12, <2>2
  <2>4. listed[i] = Field(T[i], m[T[i]])
    BY <1>12
  <2> QED
    BY <1>9, <1>13, <2>3, <2>4
<1>17. listed \in Seq(Token) /\ Len(listed) = k
  <2>1. \A i \in 1..k : listed[i] \in Token
    BY <1>9, <1>13, <1>15
  <2>2. DOMAIN listed = 1..k /\ listed = [i \in 1..k |-> listed[i]]
    BY <1>12
  <2>3. listed \in [1..k -> Token]
    BY <2>1, <2>2
  <2> QED
    BY <1>12, <2>3, IsSequence
<1>18. \A i, j \in 1..k : listed[i] = listed[j] => i = j
  <2>1. TAKE i \in 1..k, j \in 1..k
  <2>2. HAVE listed[i] = listed[j]
  <2>3. PICK a \in 1..(n - 1) : T[i] = number[tokens[a].tag] /\ listed[i] = tokens[a]
    BY <1>15
  <2>4. PICK b \in 1..(n - 1) : T[j] = number[tokens[b].tag] /\ listed[j] = tokens[b]
    BY <1>15
  <2>5. T[i] = T[j]
    BY <2>2, <2>3, <2>4
  <2> QED
    BY <1>12, <2>5
<1>19. \A i, j \in 1..(n - 1) : front[i] = front[j] => i = j
  BY <1>4, <1>8, <1>13
<1>20. Sum(listed) = Sum(front)
  <2>1. \A i \in 1..Len(listed) : \E j \in 1..Len(front) : front[j] = listed[i]
    <3>1. TAKE i \in 1..Len(listed)
    <3>2. PICK j \in 1..(n - 1) : listed[i] = tokens[j]
      BY <1>15, <1>17
    <3> QED
      BY <1>8, <3>2
  <2>2. \A i \in 1..Len(front) : \E j \in 1..Len(listed) : listed[j] = front[i]
    BY <1>8, <1>16, <1>17
  <2>3. \A i, j \in 1..Len(listed) : listed[i] = listed[j] => i = j
    BY <1>17, <1>18
  <2>4. \A i, j \in 1..Len(front) : front[i] = front[j] => i = j
    BY <1>8, <1>19
  <2> QED
    BY <1>8, <1>17, <2>1, <2>2, <2>3, <2>4, SumSame
<1> QED
  BY <1>3, <1>7, <1>20 DEF m

\* The handler's own messages: those of the builders, and those of callers of serialize.
Sendable == Messages \cup {make(r) : r \in Requests}

-----------------------------------------------------------------------------
(* The builders. *)

\* The fields a builder is given are pairs of a tag and a text.
LEMMA BuilderFields ==
    ASSUME NEW r \in Requests
    PROVE  /\ \A f \in fields(r) : f[1] \in 1..571 /\ f[2] \in Texts
           /\ \E type \in DOMAIN MsgTypeNames :
                  /\ MsgTypeNames[type] = r.type
                  /\ <<MsgType, type>> \in fields(r)
                  /\ \A f \in fields(r) : f[1] = MsgType => f[2] = type
<1>1. r \in Request
  BY InputAssumption
<1>2. /\ r.sender \in Texts /\ r.target \in Texts /\ r.test_req_id \in Texts
      /\ r.cl_ord_id \in Texts /\ r.order_id \in Texts /\ r.report_id \in Texts
      /\ r.exec_id \in Texts /\ r.exec_type \in Texts /\ r.symbol \in Texts
      /\ r.price \in Texts
      /\ r.seq \in DOMAIN to_string /\ r.side \in DOMAIN to_string /\ r.qty \in DOMAIN to_string
      /\ r.type \in {"Logon", "Heartbeat", "NewOrderSingle", "ExecutionReport",
                     "OrderCancelRequest", "TradeCaptureReport"}
  BY <1>1 DEF Request
<1>3. /\ to_string[r.seq] \in Texts /\ to_string[r.side] \in Texts /\ to_string[r.qty] \in Texts
      /\ "0" \in Texts /\ "8" \in Texts /\ "A" \in Texts /\ "D" \in Texts /\ "F" \in Texts
      /\ "AE" \in Texts /\ Epoch \in Texts
  BY <1>2, TextAssumption
<1>4. ASSUME NEW type \in {"A", "0", "D", "8", "F", "AE"}
      PROVE  /\ \A f \in Header(type, r) : /\ f[1] \in 1..571 /\ f[2] \in Texts
                                           /\ f[1] = MsgType => f[2] = type
             /\ <<MsgType, type>> \in Header(type, r)
  <2>1. type \in Texts
    BY <1>3
  <2> QED
    BY <1>2, <1>3, <2>1
       DEF Header, MsgType, SenderCompID, TargetCompID, MsgSeqNum, SendingTime
<1>5. \A f \in Instrument(r) : f[1] \in 1..571 /\ f[2] \in Texts /\ f[1] # MsgType
  BY <1>2, <1>3 DEF Instrument, Symbol, Side, OrderQty, MsgType
<1>6. DOMAIN MsgTypeNames = {"A", "0", "1", "D", "8", "F", "AE"}
  BY DEF MsgTypeNames
<1>7. CASE r.type = "Logon"
  <2>1. fields(r) = Header("A", r)
    BY <1>7 DEF fields, make_logon
  <2>2. MsgTypeNames["A"] = r.type
    BY <1>7 DEF MsgTypeNames
  <2> QED
    BY <1>4, <1>6, <2>1, <2>2
<1>8. CASE r.type = "Heartbeat"
  <2>1. \A f \in fields(r) : f \in Header("0", r) \/ f = <<TestReqID, r.test_req_id>>
    BY <1>8 DEF fields, make_heartbeat
  <2>2. Header("0", r) \subseteq fields(r)
    BY <1>8 DEF fields, make_heartbeat
  <2>3. MsgTypeNames["0"] = r.type
    BY <1>8 DEF MsgTypeNames
  <2>4. \A f : f = <<TestReqID, r.test_req_id>> =>
            f[1] \in 1..571 /\ f[2] \in Texts /\ f[1] # MsgType
    BY <1>2 DEF TestReqID, MsgType
  <2> QED
    BY <1>4, <1>6, <2>1, <2>2, <2>3, <2>4
<1>9. CASE r.type = "NewOrderSingle"
  <2> DEFINE own == {<<ClOrdID, r.cl_ord_id>>, <<Price, r.price>>, <<TimeInForce, "0">>,
                     <<TransactTime, Epoch>>}
  <2>1. fields(r) = Header("D", r) \cup Instrument(r) \cup own
    BY <1>9 DEF fields, make_new_order_single
  <2>2. MsgTypeNames["D"] = r.type
    BY <1>9 DEF MsgTypeNames
  <2>3. \A f \in own : f[1] \in 1..571 /\ f[2] \in Texts /\ f[1] # MsgType
    BY <1>2, <1>3 DEF ClOrdID, Price, TimeInForce, TransactTime, MsgType
  <2> HIDE DEF own
  <2> QED
    BY <1>4, <1>5, <1>6, <2>1, <2>2, <2>3
<1>10. CASE r.type = "ExecutionReport"
  <2> DEFINE own == {<<OrderID, r.order_id>>, <<ClOrdID, r.cl_ord_id>>, <<ExecID, r.exec_id>>,
                     <<ExecType, r.exec_type>>, <<OrdStatus, r.exec_type>>, <<Price, r.price>>,
                     <<TransactTime, Epoch>>}
  <2>1. fields(r) = Header("8", r) \cup Instrument(r) \cup own
    BY <1>10 DEF fields, make_execution_report
  <2>2. MsgTypeNames["8"] = r.type
    BY <1>10 DEF MsgTypeNames
  <2>3. \A f \in own : f[1] \in 1..571 /\ f[2] \in Texts /\ f[1] # MsgType
    BY <1>2, <1>3 DEF OrderID, ClOrdID, ExecID, ExecType, OrdStatus, Price, TransactTime, MsgType
  <2> HIDE DEF own
  <2> QED
    BY <1>4, <1>5, <1>6, <2>1, <2>2, <2>3
<1>11. CASE r.type = "OrderCancelRequest"
  <2> DEFINE own == {<<OrigClOrdID, r.cl_ord_id>>, <<OrderID, r.order_id>>}
  <2>1. fields(r) = Header("F", r) \cup Instrument(r) \cup own
    BY <1>11 DEF fields, make_order_cancel_request
  <2>2. MsgTypeNames["F"] = r.type
    BY <1>11 DEF MsgTypeNames
  <2>3. \A f \in own : f[1] \in 1..571 /\ f[2] \in Texts /\ f[1] # MsgType
    BY <1>2, <1>3 DEF OrigClOrdID, OrderID, MsgType
  <2> HIDE DEF own
  <2> QED
    BY <1>4, <1>5, <1>6, <2>1, <2>2, <2>3
<1>12. CASE r.type = "TradeCaptureReport"
  <2> DEFINE own == {<<TradeReportID, r.report_id>>, <<Price, r.price>>, <<TransactTime, Epoch>>}
  <2>1. fields(r) = Header("AE", r) \cup Instrument(r) \cup own
    BY <1>12 DEF fields, make_trade_capture_report
  <2>2. MsgTypeNames["AE"] = r.type
    BY <1>12 DEF MsgTypeNames
  <2>3. \A f \in own : f[1] \in 1..571 /\ f[2] \in Texts /\ f[1] # MsgType
    BY <1>2, <1>3 DEF TradeReportID, Price, TransactTime, MsgType
  <2> HIDE DEF own
  <2> QED
    BY <1>4, <1>5, <1>6, <2>1, <2>2, <2>3
<1> QED
  BY <1>2, <1>7, <1>8, <1>9, <1>10, <1>11, <1>12

\* A builder makes a message, of the type it is for.
LEMMA BuilderMakes ==
    ASSUME NEW r \in Requests
    PROVE  /\ IsMessage(make(r))
           /\ MsgType \in DOMAIN make(r)
           /\ make(r)[MsgType] \in DOMAIN MsgTypeNames
           /\ MsgTypeNames[make(r)[MsgType]] = r.type
<1> DEFINE F == fields(r)
<1>1. DOMAIN make(r) = {f[1] : f \in F}
  BY DEF make, FixMessage
<1>2. \A tag \in DOMAIN make(r) : \E f \in F : f[1] = tag /\ make(r)[tag] = f[2]
  BY DEF make, FixMessage
<1>3. PICK type \in DOMAIN MsgTypeNames :
          /\ MsgTypeNames[type] = r.type
          /\ <<MsgType, type>> \in F
          /\ \A f \in F : f[1] = MsgType => f[2] = type
  BY BuilderFields
<1>4. \A f \in F : f[1] \in 1..571 /\ f[2] \in Texts
  BY BuilderFields
<1>5. \E f \in F : f[1] = MsgType
  BY <1>3
<1> HIDE DEF F
<1>6. IsMessage(make(r))
  <2>1. DOMAIN make(r) \in SUBSET (1..571)
    BY <1>1, <1>4
  <2>2. IsFiniteSet(1..571)
    <3>1. PICK b \in Nat : b = 571
      OBVIOUS
    <3>2. IsFiniteSet(1..b)
      BY FS_Interval
    <3> QED
      BY <3>1, <3>2
  <2>3. IsFiniteSet(DOMAIN make(r))
    BY <2>1, <2>2, FS_Subset
  <2>4. DOMAIN make(r) \subseteq Int
    BY <2>1
  <2>5. \A t \in DOMAIN make(r) : make(r)[t] \in Texts
    BY <1>2, <1>4
  <2> QED
    BY <2>3, <2>4, <2>5 DEF IsMessage
<1>7. MsgType \in DOMAIN make(r)
  BY <1>1, <1>5
<1>8. make(r)[MsgType] = type
  BY <1>2, <1>3, <1>7
<1> QED
  BY <1>3, <1>6, <1>7, <1>8

\* Whatever the handler sends is a message whose tags std::to_string spells.
LEMMA SendableIs ==
    ASSUME NEW m \in Sendable
    PROVE  /\ IsMessage(m)
           /\ DOMAIN m \subseteq DOMAIN to_string
           /\ ByteCount(FieldsOf(m, {BeginString, BodyLength, CheckSum})) \in DOMAIN to_string
<1>1. IsMessage(m)
  BY InputAssumption, BuilderMakes DEF Sendable
<1>2. DOMAIN m \cup {ByteCount(FieldsOf(m, {BeginString, BodyLength, CheckSum}))}
          \subseteq DOMAIN to_string
  BY NumberAssumption DEF Sendable
<1> QED
  BY <1>1, <1>2

-----------------------------------------------------------------------------
(* serialize. *)

\* What serialize makes of m, whose tags but those of the session are T[1] .. T[n].
SerializedAs(s, m, n, T) ==
    /\ n \in Nat /\ T \in [1..n -> DOMAIN m \ {BeginString, BodyLength, CheckSum}]
    /\ \A i, j \in 1..n : T[i] = T[j] => i = j
    /\ \A t \in DOMAIN m \ {BeginString, BodyLength, CheckSum} : \E i \in 1..n : T[i] = t
    /\ s \in Seq(Token) /\ Len(s) = n + 3
    /\ s[1].tag = to_string[BeginString] /\ s[2].tag = to_string[BodyLength]
    /\ \A i \in 1..n : s[i + 2] = Field(T[i], m[T[i]])
    /\ s[n + 3] = Field(CheckSum, padded[Sum(SubSeq(s, 1, n + 2))])
    /\ Front(s) = SubSeq(s, 1, n + 2)

\* A field of texts is a token.
LEMMA FieldTyped ==
    ASSUME NEW tag \in DOMAIN to_string, NEW value \in Texts
    PROVE  Field(tag, value) \in Token
  BY NumberFacts DEF Field, Token

\* Serialize writes the session fields around those of the message.
LEMMA Serialized ==
    ASSUME NEW m \in Sendable
    PROVE  \E n, T : SerializedAs(serialize(m), m, n, T)
<1> DEFINE session == {BeginString, BodyLength, CheckSum}
           body == FieldsOf(m, session)
           head == <<Field(BeginString, "4.4"), Field(BodyLength, to_string[ByteCount(body)])>>
<1>1. IsFiniteSet(DOMAIN m) /\ DOMAIN m \subseteq Int /\ DOMAIN m \subseteq DOMAIN to_string
      /\ \A t \in DOMAIN m : m[t] \in Texts
  BY SendableIs DEF IsMessage
<1>2. ByteCount(body) \in DOMAIN to_string
  BY SendableIs
<1>3. PICK n, T : Lists(body, m, DOMAIN m \ session, n, T)
  <2> HIDE DEF session
  <2> QED
    BY <1>1, FieldsFacts
<1>4. PICK a, b : a = Field(BeginString, "4.4") /\ b = Field(BodyLength, to_string[ByteCount(body)])
  OBVIOUS
<1>5. PICK content : content = head \o body
  OBVIOUS
<1>6. PICK c : c = Field(CheckSum, padded[Sum(content)])
  OBVIOUS
<1>7. serialize(m) = Append(content, c)
  BY <1>5, <1>6 DEF serialize
<1> HIDE DEF session, body
<1>8. /\ n \in Nat /\ T \in [1..n -> DOMAIN m \ session]
      /\ \A i, j \in 1..n : T[i] = T[j] => i = j
      /\ \A t \in DOMAIN m \ session : \E i \in 1..n : T[i] = t
      /\ body = [i \in 1..n |-> Field(T[i], m[T[i]])]
  BY <1>3 DEF Lists
<1>9. a \in Token /\ b \in Token /\ a.tag = to_string[BeginString] /\ b.tag = to_string[BodyLength]
  <2>1. BeginString \in DOMAIN to_string /\ BodyLength \in DOMAIN to_string
    BY NumberFacts DEF BeginString, BodyLength
  <2>2. "4.4" \in Texts /\ to_string[ByteCount(body)] \in Texts
    BY <1>2, TextAssumption, NumberFacts
  <2>3. a \in Token /\ b \in Token
    BY <1>4, <2>1, <2>2, FieldTyped
  <2> QED
    BY <1>4, <2>3 DEF Field
<1>10. body \in Seq(Token) /\ Len(body) = n /\ \A i \in 1..n : body[i] = Field(T[i], m[T[i]])
  <2>1. \A i \in 1..n : T[i] \in DOMAIN m
    BY <1>8
  <2>2. \A i \in 1..n : Field(T[i], m[T[i]]) \in Token
    BY <1>1, <2>1, FieldTyped
  <2>3. body \in [1..n -> Token]
    BY <1>8, <2>2
  <2>4. body \in Seq(Token) /\ Len(body) = n
    BY <1>8, <2>3, IsSequence
  <2> QED
    BY <1>8, <2>4
<1>11. PICK two : two = <<a, b>>
  OBVIOUS
<1>12. two \in Seq(Token) /\ Len(two) = 2 /\ two[1] = a /\ two[2] = b
  BY <1>9, <1>11
<1>13. content = two \o body
  BY <1>4, <1>5, <1>11
<1>14. /\ content \in Seq(Token) /\ Len(content) = 2 + n
       /\ \A i \in 1..(2 + n) : content[i] = IF i <= 2 THEN two[i] ELSE body[i - 2]
  <2>1. /\ two \o body \in Seq(Token) /\ Len(two \o body) = Len(two) + Len(body)
        /\ \A i \in 1..(Len(two) + Len(body)) :
               (two \o body)[i] = IF i <= Len(two) THEN two[i] ELSE body[i - Len(two)]
    BY <1>10, <1>12, ConcatProperties, Zenon
  <2> QED
    BY <1>10, <1>12, <1>13, <2>1
<1>15. c \in Token
  <2>1. Sum(content) \in 0..255 /\ CheckSum \in DOMAIN to_string
    BY <1>14, SumTyped, NumberFacts DEF CheckSum
  <2>2. padded[Sum(content)] \in Texts
    BY <2>1, NumberFacts
  <2> QED
    BY <1>6, <2>1, <2>2, FieldTyped
<1>16. PICK s : s = serialize(m)
  OBVIOUS
<1>17. /\ s \in Seq(Token) /\ Len(s) = n + 3
       /\ \A i \in 1..(n + 2) : s[i] = content[i]
       /\ s[n + 3] = c
  <2>1. s = Append(content, c)
    BY <1>7, <1>16
  <2>2. /\ Append(content, c) \in Seq(Token) /\ Len(Append(content, c)) = Len(content) + 1
        /\ \A i \in 1..Len(content) : Append(content, c)[i] = content[i]
        /\ Append(content, c)[Len(content) + 1] = c
    BY <1>14, <1>15, AppendProperties
  <2>3. Len(content) + 1 = n + 3 /\ Len(content) = n + 2
    BY <1>8, <1>14
  <2> QED
    BY <2>1, <2>2, <2>3
<1>18. SubSeq(s, 1, n + 2) = content
  <2>1. s = Append(content, c) /\ Len(content) = n + 2
    BY <1>7, <1>8, <1>14, <1>16
  <2>2. SubSeq(s, 1, Len(content)) = content
    BY <1>14, <1>15, <2>1, FrontOfAppend
  <2> QED
    BY <2>1, <2>2
<1>19. s[1] = a /\ s[2] = b
  <2>1. 1 \in 1..(n + 2) /\ 2 \in 1..(n + 2) /\ 1 \in 1..(2 + n) /\ 2 \in 1..(2 + n)
    BY <1>8
  <2> QED
    BY <1>12, <1>14, <1>17, <2>1
<1>20. \A i \in 1..n : s[i + 2] = Field(T[i], m[T[i]])
  <2>1. TAKE i \in 1..n
  <2>2. i + 2 \in 1..(n + 2) /\ i + 2 \in 1..(2 + n) /\ ~(i + 2 <= 2) /\ (i + 2) - 2 = i
    BY <1>8
  <2>3. s[i + 2] = body[i]
    BY <1>14, <1>17, <2>2
  <2> QED
    BY <1>10, <2>3
<1>21. Front(s) = SubSeq(s, 1, n + 2)
  <2>1. Len(s) - 1 = n + 2
    BY <1>8, <1>17
  <2> QED
    BY <2>1 DEF Front
<1>22. s[n + 3] = Field(CheckSum, padded[Sum(SubSeq(s, 1, n + 2))])
  BY <1>6, <1>17, <1>18
<1>23. SerializedAs(s, m, n, T)
  BY <1>8, <1>9, <1>17, <1>19, <1>20, <1>21, <1>22 DEF SerializedAs, session
<1> QED
  BY <1>16, <1>23

\* The numbers of the tags that serialize writes.
LEMMA SerializedTags ==
    ASSUME NEW m \in Sendable, NEW s, NEW n, NEW T, SerializedAs(s, m, n, T)
    PROVE  /\ \A i \in 1..(n + 3) : /\ number[s[i].tag] \in Int
                                    /\ s[i].tag = to_string[number[s[i].tag]]
           /\ \A i, j \in 1..(n + 3) : number[s[i].tag] = number[s[j].tag] => i = j
           /\ number[s[1].tag] = BeginString /\ number[s[2].tag] = BodyLength
           /\ number[s[n + 3].tag] = CheckSum
           /\ \A i \in 1..n : number[s[i + 2].tag] = T[i] /\ s[i + 2].value = m[T[i]]
           /\ number[s[n + 3].value] = Sum(SubSeq(s, 1, n + 2))
           /\ \A i \in 1..(n + 3) : i = 1 \/ i = 2 \/ i = n + 3 \/ \E k \in 1..n : i = k + 2
<1>1. /\ n \in Nat /\ T \in [1..n -> DOMAIN m \ {BeginString, BodyLength, CheckSum}]
      /\ \A i, j \in 1..n : T[i] = T[j] => i = j
      /\ s \in Seq(Token) /\ Len(s) = n + 3
      /\ s[1].tag = to_string[BeginString] /\ s[2].tag = to_string[BodyLength]
      /\ \A i \in 1..n : s[i + 2] = Field(T[i], m[T[i]])
      /\ s[n + 3] = Field(CheckSum, padded[Sum(SubSeq(s, 1, n + 2))])
  BY DEF SerializedAs
<1>2. BeginString \in DOMAIN to_string /\ BodyLength \in DOMAIN to_string
      /\ CheckSum \in DOMAIN to_string
  BY NumberFacts DEF BeginString, BodyLength, CheckSum
<1>3. DOMAIN m \subseteq DOMAIN to_string /\ DOMAIN m \subseteq Int
  BY SendableIs DEF IsMessage
<1>4. BeginString # BodyLength /\ BeginString # CheckSum /\ BodyLength # CheckSum
      /\ BeginString \in Int /\ BodyLength \in Int /\ CheckSum \in Int
  BY DEF BeginString, BodyLength, CheckSum
<1>5. /\ s[1].tag = to_string[BeginString] /\ number[s[1].tag] = BeginString
      /\ s[2].tag = to_string[BodyLength] /\ number[s[2].tag] = BodyLength
      /\ s[n + 3].tag = to_string[CheckSum] /\ number[s[n + 3].tag] = CheckSum
  <2>1. s[n + 3].tag = to_string[CheckSum]
    BY <1>1 DEF Field
  <2> QED
    BY <1>1, <1>2, <2>1, NumberFacts
<1>6. \A i \in 1..n : /\ T[i] \in DOMAIN m /\ T[i] \in Int
                      /\ T[i] # BeginString /\ T[i] # BodyLength /\ T[i] # CheckSum
                      /\ s[i + 2].tag = to_string[T[i]] /\ number[s[i + 2].tag] = T[i]
                      /\ s[i + 2].value = m[T[i]]
  <2>1. TAKE i \in 1..n
  <2>2. /\ T[i] \in DOMAIN m /\ T[i] \in Int
        /\ T[i] # BeginString /\ T[i] # BodyLength /\ T[i] # CheckSum
    BY <1>1, <1>3
  <2>3. s[i + 2].tag = to_string[T[i]] /\ s[i + 2].value = m[T[i]]
    <3>1. s[i + 2] = Field(T[i], m[T[i]])
      BY <1>1
    <3> QED
      BY <3>1 DEF Field
  <2>4. number[to_string[T[i]]] = T[i]
    BY <1>3, <2>2, NumberFacts
  <2> QED
    BY <2>2, <2>3, <2>4
<1>7. \A i \in 1..(n + 3) : i = 1 \/ i = 2 \/ i = n + 3 \/ \E k \in 1..n : i = k + 2
  <2>1. TAKE i \in 1..(n + 3)
  <2>2. SUFFICES ASSUME i # 1, i # 2, i # n + 3 PROVE \E k \in 1..n : i = k + 2
    OBVIOUS
  <2>3. i - 2 \in 1..n /\ i = (i - 2) + 2
    BY <1>1, <2>2
  <2> QED
    BY <2>3
<1>8. \A i \in 1..(n + 3) : number[s[i].tag] \in Int /\ s[i].tag = to_string[number[s[i].tag]]
  <2>1. TAKE i \in 1..(n + 3)
  <2>2. CASE i \in {1, 2, n + 3}
    BY <1>4, <1>5, <2>2
  <2>3. CASE \E k \in 1..n : i = k + 2
    <3>1. PICK k \in 1..n : i = k + 2
      BY <2>3
    <3>2. number[s[k + 2].tag] \in Int /\ s[k + 2].tag = to_string[number[s[k + 2].tag]]
      BY <1>6
    <3> QED
      BY <3>1, <3>2
  <2> QED
    BY <1>7, <2>2, <2>3
<1>9. \A i, j \in 1..(n + 3) : number[s[i].tag] = number[s[j].tag] => i = j
  <2>1. TAKE i \in 1..(n + 3), j \in 1..(n + 3)
  <2>2. HAVE number[s[i].tag] = number[s[j].tag]
  <2>3. CASE i \in {1, 2, n + 3} /\ j \in {1, 2, n + 3}
    BY <1>4, <1>5, <2>2, <2>3
  <2>4. ASSUME NEW k \in 1..n, i = k + 2 PROVE i = j
    <3>1. number[s[i].tag] = T[k] /\ j \notin {1, 2, n + 3}
      BY <1>5, <1>6, <2>2, <2>4
    <3>2. PICK l \in 1..n : j = l + 2
      BY <1>7, <3>1
    <3>3. number[s[j].tag] = T[l]
      BY <1>6, <3>2
    <3>4. T[k] = T[l]
      BY <2>2, <3>1, <3>3
    <3>5. k = l
      BY <1>1, <3>4
    <3> QED
      BY <2>4, <3>2, <3>5
  <2>5. ASSUME NEW l \in 1..n, j = l + 2 PROVE i = j
    <3>1. number[s[j].tag] = T[l] /\ i \notin {1, 2, n + 3}
      BY <1>5, <1>6, <2>2, <2>5
    <3>2. PICK k \in 1..n : i = k + 2
      BY <1>7, <3>1
    <3> QED
      BY <2>4, <3>2
  <2> QED
    BY <1>7, <2>3, <2>4, <2>5
<1>10. number[s[n + 3].value] = Sum(SubSeq(s, 1, n + 2))
  <2>1. SubSeq(s, 1, n + 2) \in Seq(Token)
    BY <1>1, SumFront
  <2>2. Sum(SubSeq(s, 1, n + 2)) \in 0..255
    BY <2>1, SumTyped
  <2>3. s[n + 3].value = padded[Sum(SubSeq(s, 1, n + 2))]
    BY <1>1 DEF Field
  <2>4. number[padded[Sum(SubSeq(s, 1, n + 2))]] = Sum(SubSeq(s, 1, n + 2))
    BY <2>2, NumberFacts
  <2> QED
    BY <2>3, <2>4
<1> QED
  BY <1>5, <1>6, <1>7, <1>8, <1>9, <1>10

\* What serialize makes is read faithfully, and no tag but the last is that of a checksum.
LEMMA SerializedFaithful ==
    ASSUME NEW m \in Sendable, NEW s, NEW n, NEW T, SerializedAs(s, m, n, T)
    PROVE  /\ Faithful(s)
           /\ s[n + 3].tag = to_string[CheckSum]
           /\ \A i \in 1..(n + 2) : s[i].tag # to_string[CheckSum]
<1>1. /\ n \in Nat /\ s \in Seq(Token) /\ Len(s) = n + 3
  BY DEF SerializedAs
<1>2. DOMAIN s = 1..(n + 3)
  BY <1>1, LenProperties
<1>3. /\ \A i \in 1..(n + 3) : /\ number[s[i].tag] \in Int
                               /\ s[i].tag = to_string[number[s[i].tag]]
      /\ \A i, j \in 1..(n + 3) : number[s[i].tag] = number[s[j].tag] => i = j
      /\ number[s[n + 3].tag] = CheckSum
  BY SerializedTags
<1>4. n + 3 \in 1..(n + 3) /\ \A i \in 1..(n + 2) : i \in 1..(n + 3) /\ i # n + 3
  BY <1>1
<1>5. Faithful(s)
  <2>1. \A i \in DOMAIN s : /\ number[s[i].tag] # NaN
                            /\ s[i].tag = to_string[number[s[i].tag]]
    <3>1. NaN \notin Int
      BY NumberFacts
    <3> QED
      BY <1>2, <1>3, <3>1
  <2>2. \A i, j \in DOMAIN s : s[i].tag = s[j].tag => i = j
    BY <1>2, <1>3
  <2> QED
    BY <2>1, <2>2 DEF Faithful
<1>6. s[n + 3].tag = to_string[CheckSum]
  BY <1>3, <1>4
<1>7. \A i \in 1..(n + 2) : s[i].tag # to_string[CheckSum]
  BY <1>3, <1>4, <1>6
<1> QED
  BY <1>5, <1>6, <1>7

\* A message that arrives as it was serialized.
LEMMA Intact ==
    ASSUME NEW m \in Sendable, NEW raw \in Raw, raw.tokens = serialize(m), ~raw.open
    PROVE  /\ DOMAIN parse(raw) = (DOMAIN m \ {BeginString, BodyLength, CheckSum})
                                      \cup {BeginString, BodyLength, CheckSum}
           /\ \A t \in DOMAIN m \ {BeginString, BodyLength, CheckSum} : parse(raw)[t] = m[t]
           /\ validate_raw(raw) /\ validate_map(parse(raw))
<1>1. PICK s, n, T : s = serialize(m) /\ SerializedAs(s, m, n, T)
  BY Serialized
<1>2. raw.tokens = s /\ ~raw.open
  BY <1>1
<1>3. /\ n \in Nat /\ T \in [1..n -> DOMAIN m \ {BeginString, BodyLength, CheckSum}]
      /\ \A t \in DOMAIN m \ {BeginString, BodyLength, CheckSum} : \E i \in 1..n : T[i] = t
      /\ s \in Seq(Token) /\ Len(s) = n + 3
  BY <1>1 DEF SerializedAs
<1>4. /\ number[s[1].tag] = BeginString /\ number[s[2].tag] = BodyLength
      /\ number[s[n + 3].tag] = CheckSum
      /\ \A i \in 1..n : number[s[i + 2].tag] = T[i] /\ s[i + 2].value = m[T[i]]
      /\ number[s[n + 3].value] = Sum(SubSeq(s, 1, n + 2))
      /\ \A i \in 1..(n + 3) : i = 1 \/ i = 2 \/ i = n + 3 \/ \E k \in 1..n : i = k + 2
  BY <1>1, SerializedTags
<1>5. Faithful(s) /\ s[n + 3].tag = to_string[CheckSum]
  BY <1>1, SerializedFaithful
<1>6. /\ DOMAIN parse(raw) = {number[s[i].tag] : i \in 1..Len(s)}
      /\ \A i \in 1..Len(s) : parse(raw)[number[s[i].tag]] = s[i].value
  <2>1. raw.tokens = s /\ s \in Seq(Token) /\ Faithful(s)
    BY <1>2, <1>3, <1>5
  <2> QED
    <3>1. ReadAs(parse(raw), s)
      BY <2>1, ParseFaithful
    <3> QED
      BY <3>1 DEF ReadAs
<1>7. 1 \in 1..(n + 3) /\ 2 \in 1..(n + 3) /\ n + 3 \in 1..(n + 3)
      /\ \A i \in 1..n : i + 2 \in 1..(n + 3)
  BY <1>3
<1>8. DOMAIN parse(raw) = (DOMAIN m \ {BeginString, BodyLength, CheckSum})
                              \cup {BeginString, BodyLength, CheckSum}
  <2>1. ASSUME NEW t \in DOMAIN parse(raw)
        PROVE  t \in (DOMAIN m \ {BeginString, BodyLength, CheckSum})
                         \cup {BeginString, BodyLength, CheckSum}
    <3>1. PICK i \in 1..(n + 3) : t = number[s[i].tag]
      BY <1>3, <1>6
    <3>2. CASE i \in {1, 2, n + 3}
      BY <1>4, <3>1, <3>2
    <3>3. CASE \E k \in 1..n : i = k + 2
      <4>1. PICK k \in 1..n : i = k + 2
        BY <3>3
      <4>2. t = T[k]
        BY <1>4, <3>1, <4>1
      <4> QED
        BY <1>3, <4>2
    <3> QED
      BY <1>4, <3>2, <3>3
  <2>2. ASSUME NEW t \in DOMAIN m \ {BeginString, BodyLength, CheckSum}
        PROVE  t \in DOMAIN parse(raw)
    <3>1. PICK k \in 1..n : T[k] = t
      BY <1>3
    <3>2. t = number[s[k + 2].tag] /\ k + 2 \in 1..Len(s)
      BY <1>3, <1>4, <1>7, <3>1
    <3> QED
      BY <1>6, <3>2
  <2>3. {BeginString, BodyLength, CheckSum} \subseteq DOMAIN parse(raw)
    BY <1>3, <1>4, <1>6, <1>7
  <2> QED
    BY <2>1, <2>2, <2>3
<1>9. ASSUME NEW t \in DOMAIN m \ {BeginString, BodyLength, CheckSum}
      PROVE  parse(raw)[t] = m[t]
  <2>1. PICK k \in 1..n : T[k] = t
    BY <1>3
  <2>2. number[s[k + 2].tag] = t /\ s[k + 2].value = m[t]
    BY <1>4, <2>1
  <2>3. k + 2 \in 1..Len(s)
    BY <1>3, <1>7
  <2> QED
    BY <1>6, <2>2, <2>3
<1>10. validate_raw(raw)
  <2>1. /\ Len(s) \in 2..Len(s) /\ s[Len(s)].tag = to_string[CheckSum]
        /\ \A i \in 2..Len(s) : i <= Len(s)
    BY <1>3, <1>5
  <2>2. ChecksumsIn(s) # {} /\ Max(ChecksumsIn(s)) = Len(s)
    BY <1>3, <2>1, ChecksumAt
  <2>3. (n + 3) - 1 = n + 2
    BY <1>3
  <2>4. number[s[Len(s)].value] = Sum(SubSeq(s, 1, Len(s) - 1))
    BY <1>3, <1>4, <2>3
  <2> QED
    BY <1>2, <2>2, <2>4 DEF validate_raw
<1>11. validate_map(parse(raw))
  <2>1. Len(raw.tokens) > 1 /\ raw.tokens[Len(raw.tokens)].tag = to_string[CheckSum]
    BY <1>2, <1>3, <1>5
  <2> QED
    BY <1>2, <1>5, <1>10, <2>1, ValidatorsMeet
<1> QED
  BY <1>8, <1>9, <1>10, <1>11

\* What Replace puts on the wire for s.
Splice(s, i, j, new) == SubSeq(s, 1, i - 1) \o new \o SubSeq(s, j + 1, Len(s))

\* The tokens of w are those of s, with those of new instead of the ith to the jth.
IsSplice(w, s, i, j, new) ==
    /\ w \in Seq(Token) /\ Len(w) = (i - 1) + Len(new) + (Len(s) - j)
    /\ \A k \in 1..(i - 1) : w[k] = s[k]
    /\ \A k \in 1..Len(new) : w[(i - 1) + k] = new[k]
    /\ \A k \in 1..(Len(s) - j) : w[(i - 1) + Len(new) + k] = s[j + k]

\* The tokens of a sequence in which some were replaced.
LEMMA Spliced ==
    ASSUME NEW s \in Seq(Token), NEW i \in 1..Len(s), NEW j \in i..Len(s),
           NEW new \in Seq(Token)
    PROVE  IsSplice(Splice(s, i, j, new), s, i, j, new)
<1>0. PICK w : w = Splice(s, i, j, new)
  OBVIOUS
<1>1. PICK pre, post : pre = SubSeq(s, 1, i - 1) /\ post = SubSeq(s, j + 1, Len(s))
  OBVIOUS
<1>2. /\ pre \in Seq(Token) /\ Len(pre) = i - 1
      /\ \A k \in 1..(i - 1) : pre[k] = s[k]
      /\ post \in Seq(Token) /\ Len(post) = Len(s) - j
      /\ \A k \in 1..(Len(s) - j) : post[k] = s[j + k]
  BY <1>1, Cut
<1>3. Len(new) \in Nat /\ Len(s) \in Nat /\ i \in Nat /\ j \in Nat /\ 1 <= i /\ j <= Len(s)
  BY LenProperties
<1>4. PICK both : both = pre \o new
  OBVIOUS
<1>5. /\ both \in Seq(Token) /\ Len(both) = Len(pre) + Len(new)
      /\ \A k \in 1..(Len(pre) + Len(new)) :
             both[k] = IF k <= Len(pre) THEN pre[k] ELSE new[k - Len(pre)]
  <2>1. /\ pre \o new \in Seq(Token) /\ Len(pre \o new) = Len(pre) + Len(new)
        /\ \A k \in 1..(Len(pre) + Len(new)) :
               (pre \o new)[k] = IF k <= Len(pre) THEN pre[k] ELSE new[k - Len(pre)]
    BY <1>2, ConcatProperties, Zenon
  <2> QED
    BY <1>4, <2>1, Zenon
<1>6. w = both \o post
  BY <1>0, <1>1, <1>4 DEF Splice
<1>7. /\ w \in Seq(Token) /\ Len(w) = Len(both) + Len(post)
      /\ \A k \in 1..(Len(both) + Len(post)) :
             w[k] = IF k <= Len(both) THEN both[k] ELSE post[k - Len(both)]
  <2>1. /\ both \o post \in Seq(Token) /\ Len(both \o post) = Len(both) + Len(post)
        /\ \A k \in 1..(Len(both) + Len(post)) :
               (both \o post)[k] = IF k <= Len(both) THEN both[k] ELSE post[k - Len(both)]
    <3>1. both \in Seq(Token) /\ post \in Seq(Token)
      BY <1>2, <1>5
    <3> QED
      BY <3>1, ConcatProperties, Zenon
  <2> QED
    BY <1>6, <2>1, Zenon
<1>8. Len(both) = (i - 1) + Len(new) /\ Len(both) \in Nat
  BY <1>2, <1>3, <1>5
<1>9. ASSUME NEW k \in 1..(i - 1) PROVE w[k] = s[k]
  <2>1. /\ k \in 1..(Len(pre) + Len(new)) /\ k <= Len(pre)
        /\ k \in 1..(Len(both) + Len(post)) /\ k <= Len(both)
    BY <1>2, <1>3, <1>8
  <2>2. w[k] = both[k]
    BY <1>7, <2>1
  <2>3. both[k] = pre[k]
    BY <1>5, <2>1
  <2> QED
    BY <1>2, <2>2, <2>3
<1>10. ASSUME NEW k \in 1..Len(new) PROVE w[(i - 1) + k] = new[k]
  <2>1. /\ (i - 1) + k \in 1..(Len(pre) + Len(new)) /\ ~((i - 1) + k <= Len(pre))
        /\ (i - 1) + k \in 1..(Len(both) + Len(post)) /\ (i - 1) + k <= Len(both)
        /\ (i - 1) + k - Len(pre) = k
    BY <1>2, <1>3, <1>8
  <2>2. w[(i - 1) + k] = both[(i - 1) + k]
    BY <1>7, <2>1
  <2>3. both[(i - 1) + k] = new[(i - 1) + k - Len(pre)]
    <3>1. PICK l : l = (i - 1) + k
      OBVIOUS
    <3>2. both[l] = IF l <= Len(pre) THEN pre[l] ELSE new[l - Len(pre)]
      BY <1>5, <2>1, <3>1
    <3>3. ~(l <= Len(pre))
      BY <2>1, <3>1
    <3>4. both[l] = new[l - Len(pre)]
      BY <3>2, <3>3
    <3> QED
      BY <3>1, <3>4
  <2> QED
    BY <2>1, <2>2, <2>3
<1>11. ASSUME NEW k \in 1..(Len(s) - j) PROVE w[(i - 1) + Len(new) + k] = s[j + k]
  <2>1. /\ (i - 1) + Len(new) + k \in 1..(Len(both) + Len(post))
        /\ ~((i - 1) + Len(new) + k <= Len(both))
        /\ (i - 1) + Len(new) + k - Len(both) = k
    BY <1>2, <1>3, <1>8
  <2>2. w[(i - 1) + Len(new) + k] = post[(i - 1) + Len(new) + k - Len(both)]
    <3>1. PICK l : l = (i - 1) + Len(new) + k
      OBVIOUS
    <3>2. w[l] = IF l <= Len(both) THEN both[l] ELSE post[l - Len(both)]
      BY <1>7, <2>1, <3>1
    <3>3. ~(l <= Len(both))
      BY <2>1, <3>1
    <3>4. w[l] = post[l - Len(both)]
      BY <3>2, <3>3
    <3> QED
      BY <3>1, <3>4
  <2> QED
    BY <1>2, <2>1, <2>2
<1>12. Len(w) = (i - 1) + Len(new) + (Len(s) - j)
  BY <1>2, <1>7, <1>8
<1> QED
  BY <1>0, <1>7, <1>9, <1>10, <1>11, <1>12 DEF IsSplice



\* How sums are added.
Plus(p, c) == (p + c) % 256

\* Adding the same byte to different ones gives different ones.
LEMMA PlusDiffers ==
    ASSUME NEW p \in 0..255, NEW q \in 0..255, NEW c \in 0..255, p # q
    PROVE  Plus(p, c) # Plus(q, c)
<1>1. \A z \in 0..510 : z % 256 = IF z < 256 THEN z ELSE z - 256
  OBVIOUS
<1>2. p + c \in 0..510 /\ q + c \in 0..510
  OBVIOUS
<1>3. Plus(p, c) = IF p + c < 256 THEN p + c ELSE p + c - 256
  BY <1>1, <1>2 DEF Plus
<1>4. Plus(q, c) = IF q + c < 256 THEN q + c ELSE q + c - 256
  BY <1>1, <1>2 DEF Plus
<1>5. (IF p + c < 256 THEN p + c ELSE p + c - 256) # (IF q + c < 256 THEN q + c ELSE q + c - 256)
  OBVIOUS
<1> QED
  BY <1>3, <1>4, <1>5

\* A sum in which one part was replaced.
LEMMA SumsDiffer ==
    ASSUME NEW a \in 0..255, NEW b \in 0..255, NEW x \in 0..255, NEW y \in 0..255, x # y
    PROVE  Plus(Plus(a, x), b) # Plus(Plus(a, y), b)
<1>1. Plus(a, x) = Plus(x, a) /\ Plus(a, y) = Plus(y, a)
  BY DEF Plus
<1>2. Plus(x, a) # Plus(y, a)
  BY PlusDiffers
<1>3. Plus(a, x) \in 0..255 /\ Plus(a, y) \in 0..255
  BY DEF Plus
<1>4. PICK u, v : u = Plus(a, x) /\ v = Plus(a, y)
  OBVIOUS
<1>5. u \in 0..255 /\ v \in 0..255 /\ u # v
  BY <1>1, <1>2, <1>3, <1>4
<1>6. Plus(u, b) # Plus(v, b)
  BY <1>5, PlusDiffers
<1> QED
  BY <1>4, <1>6

-----------------------------------------------------------------------------
(* Damage. *)

\* What was damaged in front of the checksum alone is not accepted.
LEMMA DamageBefore ==
    ASSUME NEW m \in Sendable, NEW s, s = serialize(m),
           NEW i \in 1..Len(s), NEW j \in i..Len(s), j < Len(s),
           NEW new \in Seq(Token), 1 <= Len(new), Sum(new) # Sum(SubSeq(s, i, j)),
           NEW raw \in Raw, raw.tokens = Splice(s, i, j, new)
    PROVE  ~validate_raw(raw)
<1>1. PICK n, T : SerializedAs(s, m, n, T)
  BY Serialized
<1>2. n \in Nat /\ s \in Seq(Token) /\ Len(s) = n + 3 /\ i \in Nat /\ j \in Nat
  BY <1>1 DEF SerializedAs
<1>3. s[n + 3].tag = to_string[CheckSum]
  BY <1>1, SerializedFaithful
<1>4. number[s[n + 3].value] = Sum(SubSeq(s, 1, n + 2))
  BY <1>1, SerializedTags
<1>5. PICK a, mid, b : a = SubSeq(s, 1, i - 1) /\ mid = SubSeq(s, i, j) /\ b = SubSeq(s, j + 1, Len(s))
  OBVIOUS
<1>6. /\ a \in Seq(Token) /\ Len(a) = i - 1
      /\ mid \in Seq(Token)
      /\ b \in Seq(Token) /\ Len(b) = Len(s) - j
      /\ \A k \in 1..(Len(s) - j) : b[k] = s[j + k]
      /\ s = (a \o mid) \o b
  BY <1>2, <1>5, Cut
<1>7. PICK k : k = Len(s) - j - 1
  OBVIOUS
<1>8. k \in Nat /\ Len(b) = k + 1 /\ k + 1 \in 1..(Len(s) - j) /\ j + (k + 1) = n + 3
  BY <1>2, <1>6, <1>7
<1>9. PICK b0, x : b0 = SubSeq(b, 1, k) /\ x = b[k + 1]
  OBVIOUS
<1>10. /\ b0 \in Seq(Token) /\ Len(b0) = k /\ x \in Token
       /\ b = Append(b0, x)
  BY <1>6, <1>8, <1>9, SumFront
<1>11. x = s[n + 3]
  BY <1>6, <1>8, <1>9
<1>12. ASSUME NEW c \in Seq(Token)
       PROVE  c \o b = Append(c \o b0, x) /\ c \o b0 \in Seq(Token)
  BY <1>10, ConcatAppend
<1>13. PICK old, replaced : old = a \o mid /\ replaced = a \o new
  OBVIOUS
<1>14. old \in Seq(Token) /\ replaced \in Seq(Token)
  BY <1>6, <1>13, ConcatProperties
<1>15. PICK front0, front : front0 = old \o b0 /\ front = replaced \o b0
  OBVIOUS
<1>16. front0 \in Seq(Token) /\ front \in Seq(Token) /\ s = Append(front0, x)
  BY <1>6, <1>12, <1>13, <1>14, <1>15
<1>17. PICK w : w = raw.tokens
  OBVIOUS
<1>18. w = Append(front, x)
  <2>1. w = replaced \o b
    BY <1>5, <1>13, <1>17 DEF Splice
  <2> QED
    BY <1>12, <1>14, <1>15, <2>1
<1>19. /\ w \in Seq(Token) /\ Len(w) = Len(front) + 1 /\ w[Len(w)] = x
       /\ SubSeq(w, 1, Len(front)) = front /\ Len(front) \in Nat
  BY <1>10, <1>16, <1>18, FrontOfAppend, LenProperties
<1>20. SubSeq(s, 1, n + 2) = front0
  <2>1. Len(s) = Len(front0) + 1 /\ SubSeq(s, 1, Len(front0)) = front0 /\ Len(front0) \in Nat
    BY <1>10, <1>16, FrontOfAppend, LenProperties
  <2>2. Len(front0) = n + 2
    <3>1. \A l \in Nat : n + 3 = l + 1 => l = n + 2
      BY <1>2
    <3> QED
      BY <1>2, <2>1, <3>1
  <2> QED
    BY <2>1, <2>2
<1>21. Sum(front) # Sum(front0)
  <2>1. /\ Sum(old) = Plus(Sum(a), Sum(mid)) /\ Sum(replaced) = Plus(Sum(a), Sum(new))
        /\ Sum(front0) = Plus(Sum(old), Sum(b0)) /\ Sum(front) = Plus(Sum(replaced), Sum(b0))
    <3>1. ASSUME NEW u \in Seq(Token), NEW v \in Seq(Token), NEW uv, uv = u \o v
          PROVE  Sum(uv) = Plus(Sum(u), Sum(v))
      BY <3>1, SumConcat DEF Plus
    <3> QED
      BY <1>6, <1>10, <1>13, <1>14, <1>15, <3>1
  <2>2. Sum(a) \in 0..255 /\ Sum(mid) \in 0..255 /\ Sum(new) \in 0..255 /\ Sum(b0) \in 0..255
    BY <1>6, <1>10, SumTyped
  <2>3. Sum(new) # Sum(mid)
    BY <1>5
  <2>4. Plus(Plus(Sum(a), Sum(new)), Sum(b0)) # Plus(Plus(Sum(a), Sum(mid)), Sum(b0))
    BY <2>2, <2>3, SumsDiffer
  <2> QED
    BY <2>1, <2>4
<1>22. Len(front) >= 1
  <2>1. Len(a \o new) = Len(a) + Len(new)
    BY <1>6, ConcatProperties
  <2>2. Len(replaced \o b0) = Len(replaced) + Len(b0)
    BY <1>10, <1>14, ConcatProperties
  <2>3. Len(new) \in Nat /\ Len(a) \in Nat /\ Len(b0) \in Nat
    BY <1>6, <1>10, LenProperties
  <2>4. Len(replaced) >= 1 /\ Len(replaced) \in Nat
    BY <1>13, <2>1, <2>3
  <2> QED
    BY <1>15, <2>2, <2>3, <2>4
<1>23. /\ Len(w) \in 2..Len(w) /\ w[Len(w)].tag = to_string[CheckSum]
       /\ \A l \in 2..Len(w) : l <= Len(w)
  BY <1>3, <1>11, <1>19, <1>22
<1>24. ChecksumsIn(w) # {} /\ Max(ChecksumsIn(w)) = Len(w)
  BY <1>19, <1>23, ChecksumAt
<1>25. Len(w) - 1 = Len(front)
  BY <1>19
<1>26. number[w[Len(w)].value] # Sum(SubSeq(w, 1, Len(w) - 1))
  BY <1>4, <1>11, <1>19, <1>20, <1>21, <1>25
<1> QED
  BY <1>17, <1>24, <1>26 DEF validate_raw

\* A text that stoi reads nothing in is not the tag of a checksum.
LEMMA UnreadableIs ==
    Unreadable \in Token /\ Unreadable.tag # to_string[CheckSum]
<1>1. "-" \in Texts /\ "" \in Texts /\ number["-"] = NaN
  BY TextAssumption
<1>2. number[to_string[10]] = 10
  BY NumberFacts
<1>3. number["-"] # 10
  <2>1. NaN \notin Int
    BY NumberFacts
  <2>2. 10 \in Int
    OBVIOUS
  <2>3. NaN # 10
    BY <2>1, <2>2
  <2> QED
    BY <1>1, <2>3
<1>4. "-" # to_string[10]
  BY <1>2, <1>3
<1> QED
  BY <1>1, <1>4 DEF Unreadable, Token, CheckSum

\* What is made of a token by damage to one byte of it: a token or two; and if it was a
\* checksum, only the first may still be one.
LEMMA AlteredIs ==
    ASSUME NEW x \in Token, NEW new \in Altered(x)
    PROVE  /\ new \in Seq(Token) /\ 1 <= Len(new)
           /\ x.tag = to_string[CheckSum] =>
                  \A k \in 1..Len(new) : new[k].tag = to_string[CheckSum] => k = 1
<1>1. \A v \in Strays : v \in Texts
  BY InputAssumption
<1>2. \A v \in Strays : [x EXCEPT !.value = v] \in Token /\ [x EXCEPT !.tag = v] \in Token
  BY <1>1 DEF Token
<1>3. Unreadable \in Token /\ Unreadable.tag # to_string[CheckSum]
  BY UnreadableIs
<1>4. ASSUME NEW a \in Token, new = <<a>>
      PROVE  new \in Seq(Token) /\ Len(new) = 1
  BY <1>4
<1>5. ASSUME NEW a \in Token, NEW b \in Token, new = <<a, b>>
      PROVE  new \in Seq(Token) /\ Len(new) = 2 /\ new[2] = b
  BY <1>5
<1>6. CASE \E v \in Strays : new = <<[x EXCEPT !.value = v]>>
  <2>1. PICK v \in Strays : new = <<[x EXCEPT !.value = v]>>
    BY <1>6
  <2>2. new \in Seq(Token) /\ Len(new) = 1
    BY <1>2, <1>4, <2>1
  <2> QED
    BY <2>2
<1>7. CASE \E v \in Strays : new = <<[x EXCEPT !.tag = v]>>
  <2>1. PICK v \in Strays : new = <<[x EXCEPT !.tag = v]>>
    BY <1>7
  <2>2. new \in Seq(Token) /\ Len(new) = 1
    BY <1>2, <1>4, <2>1
  <2> QED
    BY <2>2
<1>8. CASE \E v \in Strays : new = <<[x EXCEPT !.value = v], Unreadable>>
  <2>1. PICK v \in Strays : new = <<[x EXCEPT !.value = v], Unreadable>>
    BY <1>8
  <2>2. new \in Seq(Token) /\ Len(new) = 2 /\ new[2] = Unreadable
    BY <1>2, <1>3, <1>5, <2>1
  <2> QED
    BY <1>3, <2>2
<1>9. CASE \E g \in Strays : length[g] < length[x.tag] /\ new = <<Unreadable, [x EXCEPT !.tag = g]>>
  <2>1. PICK g \in Strays : length[g] < length[x.tag] /\ new = <<Unreadable, [x EXCEPT !.tag = g]>>
    BY <1>9
  <2>2. /\ new \in Seq(Token) /\ Len(new) = 2 /\ new[2] = [x EXCEPT !.tag = g]
    BY <1>2, <1>3, <1>5, <2>1
  <2>3. new[2].tag = g
    BY <2>2 DEF Token
  <2>4. length[g] \in Nat
    BY <1>1, TextAssumption
  <2>5. g # x.tag
    BY <2>1, <2>4
  <2>6. \A k \in 1..2 : k = 1 \/ k = 2
    OBVIOUS
  <2>7. \A k \in 1..Len(new) : k = 1 \/ new[k].tag # x.tag
    BY <2>2, <2>3, <2>5, <2>6
  <2> QED
    BY <2>2, <2>7
<1>10. CASE new = <<Unreadable>>
  <2>1. new \in Seq(Token) /\ Len(new) = 1
    BY <1>3, <1>4, <1>10
  <2> QED
    BY <2>1
<1> QED
  BY <1>6, <1>7, <1>8, <1>9, <1>10 DEF Altered, Instead

\* What two tokens become that are joined.
LEMMA JoinedIs ==
    ASSUME NEW x \in Token, NEW new \in Joined(x)
    PROVE  new \in Seq(Token) /\ Len(new) = 1 /\ new[1].tag = x.tag
<1>1. PICK v \in Strays : new = <<[x EXCEPT !.value = v]>>
  BY DEF Joined, Instead
<1>2. [x EXCEPT !.value = v] \in Token /\ [x EXCEPT !.value = v].tag = x.tag
  BY InputAssumption DEF Token
<1>3. PICK a : a = [x EXCEPT !.value = v]
  OBVIOUS
<1>4. new = <<a>> /\ a \in Token /\ a.tag = x.tag
  BY <1>1, <1>2, <1>3
<1> QED
  BY <1>4

\* Damage to the last token: either nothing is accepted any more, or the content is what
\* it was.
LEMMA DamageLast ==
    ASSUME NEW m \in Sendable, NEW s, s = serialize(m), NEW i \in 1..Len(s),
           NEW new \in Seq(Token), 1 <= Len(new),
           NEW raw \in Raw, raw.tokens = Splice(s, i, Len(s), new),
           \A k \in 1..Len(new) : new[k].tag = to_string[CheckSum] => k = 1 /\ i = Len(s)
    PROVE  validate_raw(raw) => Content(raw.tokens) = Front(s)
<1>1. PICK n, T : SerializedAs(s, m, n, T)
  BY Serialized
<1>2. n \in Nat /\ s \in Seq(Token) /\ Len(s) = n + 3 /\ Front(s) = SubSeq(s, 1, n + 2)
  BY <1>1 DEF SerializedAs
<1>3. \A l \in 1..(n + 2) : s[l].tag # to_string[CheckSum]
  BY <1>1, SerializedFaithful
<1>4. PICK w : w = raw.tokens
  OBVIOUS
<1>5. i \in Nat /\ 1 <= i /\ i <= n + 3 /\ Len(s) \in i..Len(s) /\ Len(new) \in Nat
  BY <1>2, LenProperties
<1>6. /\ w \in Seq(Token) /\ Len(w) = (i - 1) + Len(new) + (Len(s) - Len(s))
      /\ \A k \in 1..(i - 1) : w[k] = s[k]
      /\ \A k \in 1..Len(new) : w[(i - 1) + k] = new[k]
  <2>1. PICK j \in i..Len(s) : j = Len(s)
    BY <1>5
  <2>2. w = Splice(s, i, j, new)
    BY <1>4, <2>1
  <2>3. IsSplice(w, s, i, j, new)
    BY <1>2, <2>2, Spliced
  <2> QED
    BY <2>1, <2>3 DEF IsSplice
<1>7. Len(w) = (i - 1) + Len(new) /\ Len(w) \in Nat
  BY <1>2, <1>5, <1>6, LenProperties
<1>8. ASSUME NEW l \in 2..Len(w), w[l].tag = to_string[CheckSum]
      PROVE  i = Len(s) /\ l = n + 3 /\ new[1].tag = to_string[CheckSum]
  <2>1. CASE l <= i - 1
    <3>1. l \in 1..(i - 1) /\ l \in 1..(n + 2)
      BY <1>2, <1>5, <1>7, <2>1
    <3> QED
      BY <1>3, <1>6, <1>8, <3>1
  <2>2. CASE ~(l <= i - 1)
    <3>1. PICK k : k = l - (i - 1)
      OBVIOUS
    <3>2. k \in 1..Len(new) /\ l = (i - 1) + k
      BY <1>5, <1>7, <2>2, <3>1
    <3>3. new[k].tag = to_string[CheckSum]
      BY <1>6, <1>8, <3>2
    <3>4. k = 1 /\ i = Len(s)
      BY <3>2, <3>3
    <3> QED
      BY <1>2, <3>2, <3>3, <3>4
  <2> QED
    BY <2>1, <2>2
<1>9. CASE i = Len(s) /\ new[1].tag = to_string[CheckSum]
  <2>1. n + 3 \in 2..Len(w) /\ (i - 1) + 1 = n + 3 /\ 1 \in 1..Len(new) /\ i - 1 = n + 2
    BY <1>2, <1>5, <1>7, <1>9
  <2>2. w[n + 3].tag = to_string[CheckSum]
    BY <1>6, <1>9, <2>1
  <2>3. \A l \in 2..Len(w) : w[l].tag = to_string[CheckSum] => l <= n + 3
    BY <1>2, <1>8
  <2>4. (n + 3) - 1 = n + 2
    BY <1>2
  <2>5. Content(w) = SubSeq(w, 1, (n + 3) - 1)
    BY <1>6, <2>1, <2>2, <2>3, ChecksumAt
  <2>6. n + 3 \in 1..Len(w) /\ n + 3 \in 1..Len(s)
    BY <1>2, <2>1
  <2>7. /\ SubSeq(w, 1, (n + 3) - 1) \in Seq(Token) /\ Len(SubSeq(w, 1, (n + 3) - 1)) = (n + 3) - 1
        /\ \A k \in 1..((n + 3) - 1) : SubSeq(w, 1, (n + 3) - 1)[k] = w[k]
    BY <1>6, <2>6, CutOne
  <2>8. /\ SubSeq(s, 1, (n + 3) - 1) \in Seq(Token) /\ Len(SubSeq(s, 1, (n + 3) - 1)) = (n + 3) - 1
        /\ \A k \in 1..((n + 3) - 1) : SubSeq(s, 1, (n + 3) - 1)[k] = s[k]
    BY <1>2, <2>6, CutOne
  <2>9. \A k \in 1..(n + 2) : w[k] = s[k]
    BY <1>6, <2>1
  <2>10. SubSeq(w, 1, n + 2) = SubSeq(s, 1, n + 2)
    BY <2>4, <2>7, <2>8, <2>9, SeqEqual
  <2> QED
    BY <1>2, <1>4, <2>4, <2>5, <2>10
<1>10. CASE ~(i = Len(s) /\ new[1].tag = to_string[CheckSum])
  <2>1. \A l \in 2..Len(w) : w[l].tag # to_string[CheckSum]
    BY <1>8, <1>10
  <2>2. ~validate_raw(raw)
    BY <1>4, <2>1, NoChecksum
  <2> QED
    BY <2>2
<1> QED
  BY <1>9, <1>10

\* What is left of a message whose end was lost within a token.
LEMMA CutWithin ==
    ASSUME NEW m \in Sendable, NEW s, s = serialize(m), NEW n \in 0..(Len(s) - 1),
           NEW v \in Texts, NEW raw, raw.open = TRUE,
           raw.tokens = Append(SubSeq(s, 1, n), [s[n + 1] EXCEPT !.value = v])
    PROVE  ~validate_raw(raw)
<1>1. PICK k, T : SerializedAs(s, m, k, T)
  BY Serialized
<1>2. k \in Nat /\ s \in Seq(Token) /\ Len(s) = k + 3
  BY <1>1 DEF SerializedAs
<1>3. \A l \in 1..(k + 2) : s[l].tag # to_string[CheckSum]
  BY <1>1, SerializedFaithful
<1>4. n \in Nat /\ n <= k + 2 /\ n + 1 \in 1..Len(s) /\ (n + 1) - 1 = n
  BY <1>2
<1>5. s[n + 1] \in Token
  BY <1>2, <1>4, ElementOfSeq
<1>6. PICK x : x = [s[n + 1] EXCEPT !.value = v]
  OBVIOUS
<1>7. x \in Token
  BY <1>5, <1>6 DEF Token
<1>8. PICK pre : pre = SubSeq(s, 1, n)
  OBVIOUS
<1>9. pre \in Seq(Token) /\ Len(pre) = n /\ \A l \in 1..n : pre[l] = s[l]
  <2>1. /\ SubSeq(s, 1, (n + 1) - 1) \in Seq(Token) /\ Len(SubSeq(s, 1, (n + 1) - 1)) = (n + 1) - 1
        /\ \A l \in 1..((n + 1) - 1) : SubSeq(s, 1, (n + 1) - 1)[l] = s[l]
    BY <1>2, <1>4, CutOne
  <2> QED
    BY <1>4, <1>8, <2>1
<1>10. PICK w : w = raw.tokens
  OBVIOUS
<1>11. w = Append(pre, x)
  BY <1>6, <1>8, <1>10
<1>12. /\ w \in Seq(Token) /\ Len(w) = n + 1
       /\ \A l \in 1..n : w[l] = pre[l]
  BY <1>7, <1>9, <1>11, AppendProperties
<1>13. ChecksumsIn(w) \subseteq {n + 1}
  <2>1. SUFFICES ASSUME NEW l \in 2..(n + 1), w[l].tag = to_string[CheckSum] PROVE l = n + 1
    BY <1>12 DEF ChecksumsIn
  <2>2. CASE l \in 1..n
    <3>1. w[l] = s[l] /\ l \in 1..(k + 2)
      BY <1>2, <1>4, <1>9, <1>12, <2>2
    <3> QED
      BY <1>3, <2>1, <3>1
  <2> QED
    BY <1>4, <2>2
<1>14. ChecksumsIn(w) # {} => Max(ChecksumsIn(w)) = Len(w)
  <2>1. SUFFICES ASSUME ChecksumsIn(w) # {} PROVE Max(ChecksumsIn(w)) = n + 1
    BY <1>12
  <2>2. PICK S : S = ChecksumsIn(w)
    OBVIOUS
  <2>3. S # {} /\ S \subseteq 1..(n + 1) /\ S \subseteq {n + 1} /\ n + 1 \in Nat
    BY <1>4, <1>13, <2>1, <2>2
  <2>4. Max(S) \in S
    BY <2>3, LastExists
  <2> QED
    BY <2>2, <2>3, <2>4
<1> QED
  BY <1>10, <1>14 DEF validate_raw

\* What is left of a message whose end was lost after a token.
LEMMA CutAfter ==
    ASSUME NEW m \in Sendable, NEW s, s = serialize(m), NEW n \in 0..(Len(s) - 1),
           NEW raw, raw.tokens = SubSeq(s, 1, n)
    PROVE  ~validate_raw(raw)
<1>1. PICK k, T : SerializedAs(s, m, k, T)
  BY Serialized
<1>2. k \in Nat /\ s \in Seq(Token) /\ Len(s) = k + 3
  BY <1>1 DEF SerializedAs
<1>3. \A l \in 1..(k + 2) : s[l].tag # to_string[CheckSum]
  BY <1>1, SerializedFaithful
<1>4. n \in Nat /\ n <= k + 2 /\ n + 1 \in 1..Len(s) /\ (n + 1) - 1 = n
  BY <1>2
<1>5. PICK w : w = raw.tokens
  OBVIOUS
<1>6. w \in Seq(Token) /\ Len(w) = n /\ \A l \in 1..n : w[l] = s[l]
  <2>1. /\ SubSeq(s, 1, (n + 1) - 1) \in Seq(Token) /\ Len(SubSeq(s, 1, (n + 1) - 1)) = (n + 1) - 1
        /\ \A l \in 1..((n + 1) - 1) : SubSeq(s, 1, (n + 1) - 1)[l] = s[l]
    BY <1>2, <1>4, CutOne
  <2> QED
    BY <1>4, <1>5, <2>1
<1>7. \A l \in 2..Len(w) : w[l].tag # to_string[CheckSum]
  <2>1. \A l \in 2..n : l \in 1..n /\ l \in 1..(k + 2)
    BY <1>2, <1>4
  <2> QED
    BY <1>3, <1>6, <2>1
<1> QED
  BY <1>5, <1>7, NoChecksum

-----------------------------------------------------------------------------
(* The invariant. *)

\* While nobody has sent anything, nothing has happened.
Quiet == sender = "nobody" => damage = "none" /\ output = <<>>

\* What the handler sends is one of its own messages, and from a builder it is what the
\* builder made.
Origin ==
    FromHandler =>
        /\ sent \in Sendable
        /\ sender # "caller" => \E r \in Requests : sent = make(r) /\ sender = r.type

\* What is on the wire: what was serialized; or, damaged, what is not accepted or has its
\* content as it was.
Undamaged == FromHandler /\ damage = "none" => wire.tokens = serialize(sent) /\ ~wire.open
Damaged ==
    FromHandler /\ damage # "none" /\ validate_raw(wire) =>
        Content(wire.tokens) = Front(serialize(sent))

\* What is shown is what the wire holds.
Read ==
    output # <<>> => output = <<parse(wire), get_msg_type_name(parse(wire)), validate_raw(wire)>>

\* The types of what is sent and of what is on the wire.
Typed ==
    /\ IsMessage(sent)
    /\ sender \in {"nobody", "caller", "counterparty"} \cup {r.type : r \in Requests}
    /\ wire \in Raw
    /\ damage \in {"none", "altered", "truncated"}

\* The inductive invariant.
IInv == Typed /\ Quiet /\ Origin /\ Undamaged /\ Damaged /\ Read

\* The types of requests name nobody.
LEMMA RequestTypes ==
    ASSUME NEW r \in Requests
    PROVE  r.type \notin {"nobody", "caller", "counterparty"}
<1>1. r \in Request
  BY InputAssumption
<1> QED
  BY <1>1 DEF Request

\* Before anything is sent.
LEMMA InvInit == Init => IInv
<1> SUFFICES ASSUME Init PROVE IInv
  OBVIOUS
<1>1. /\ sent = NoMessage /\ sender = "nobody" /\ wire = [tokens |-> <<>>, open |-> FALSE]
      /\ damage = "none" /\ output = <<>>
  BY DEF Init
<1>2. IsMessage(NoMessage)
  BY FS_EmptySet DEF NoMessage, IsMessage
<1>3. wire \in Raw
  <2>1. <<>> \in Seq(Token)
    BY EmptySeq
  <2> QED
    BY <1>1, <2>1 DEF Raw
<1>4. Typed
  BY <1>1, <1>2, <1>3 DEF Typed
<1> QED
  BY <1>1, <1>4 DEF IInv, Quiet, Origin, Undamaged, Damaged, Read, FromHandler

\* A message of the handler's goes out.
LEMMA TransmitStep ==
    ASSUME IInv, NEW m \in Sendable, Transmit(m),
           \/ sender' = "caller"
           \/ \E r \in Requests : m = make(r) /\ sender' = r.type
    PROVE  IInv'
<1>1. /\ sender = "nobody" /\ sent' = m /\ wire' = [tokens |-> serialize(m), open |-> FALSE]
      /\ damage' = damage /\ output' = output
  BY DEF Transmit
<1>2. damage' = "none" /\ output' = <<>>
  BY <1>1 DEF IInv, Quiet
<1>3. sender' # "nobody" /\ sender' \in {"caller"} \cup {r.type : r \in Requests}
  BY RequestTypes
<1>4. serialize(m) \in Seq(Token)
  BY Serialized DEF SerializedAs
<1>5. wire' \in Raw
  BY <1>1, <1>4 DEF Raw
<1>6. IsMessage(m)
  BY SendableIs
<1>7. Typed'
  BY <1>1, <1>2, <1>3, <1>5, <1>6 DEF Typed
<1>8. Origin'
  BY <1>1 DEF Origin
<1>9. Undamaged'
  BY <1>1 DEF Undamaged
<1>10. Quiet' /\ Damaged' /\ Read'
  BY <1>2, <1>3 DEF Quiet, Damaged, Read
<1> QED
  BY <1>7, <1>8, <1>9, <1>10 DEF IInv

\* A counterparty's message arrives.
LEMMA ReceiveStep ==
    ASSUME IInv, NEW tokens \in Received, Receive(tokens)
    PROVE  IInv'
<1>1. /\ sender = "nobody" /\ sender' = "counterparty" /\ sent' = sent
      /\ wire' = [tokens |-> Append(tokens, Field(CheckSum, padded[Sum(tokens)])), open |-> FALSE]
      /\ damage' = damage /\ output' = output
  BY DEF Receive
<1>2. damage' = "none" /\ output' = <<>>
  BY <1>1 DEF IInv, Quiet
<1>3. wire' \in Raw
  <2>1. tokens \in Seq(Token)
    BY InputAssumption
  <2>2. Sum(tokens) \in 0..255
    BY <2>1, SumTyped
  <2>3. padded[Sum(tokens)] \in Texts /\ CheckSum \in DOMAIN to_string
    BY <2>2, NumberFacts DEF CheckSum
  <2>4. Field(CheckSum, padded[Sum(tokens)]) \in Token
    BY <2>3, FieldTyped
  <2>5. Append(tokens, Field(CheckSum, padded[Sum(tokens)])) \in Seq(Token)
    BY <2>1, <2>4, AppendProperties
  <2> QED
    BY <1>1, <2>5 DEF Raw
<1>4. Typed'
  BY <1>1, <1>2, <1>3 DEF IInv, Typed
<1> QED
  BY <1>1, <1>2, <1>4 DEF IInv, Quiet, Origin, Undamaged, Damaged, Read, FromHandler

\* A byte is altered.
LEMMA ReplaceEffect ==
    ASSUME IInv, OnTheWay, NEW i \in 1..Len(wire.tokens), NEW j \in i..Len(wire.tokens),
           NEW new \in Seq(Token), 1 <= Len(new), Replace(i, j, new),
           FromHandler /\ j = Len(wire.tokens) =>
               \A k \in 1..Len(new) :
                   new[k].tag = to_string[CheckSum] => k = 1 /\ i = Len(wire.tokens)
    PROVE  /\ wire' \in Raw
           /\ FromHandler /\ validate_raw(wire') => Content(wire'.tokens) = Front(serialize(sent))
<1>1. wire \in Raw
  BY DEF IInv, Typed
<1>2. PICK s, raw : s = wire.tokens /\ raw = wire'
  OBVIOUS
<1>3. s \in Seq(Token) /\ i \in 1..Len(s) /\ j \in i..Len(s) /\ Len(s) \in Nat
  BY <1>1, <1>2, LenProperties DEF Raw
<1>4. /\ Sum(new) # Sum(SubSeq(s, i, j))
      /\ raw = [tokens |-> Splice(s, i, j, new), open |-> wire.open]
  <2>1. wire = [tokens |-> s, open |-> wire.open]
    BY <1>1, <1>2 DEF Raw
  <2>2. raw = [wire EXCEPT !.tokens = SubSeq(s, 1, i - 1) \o new \o SubSeq(s, j + 1, Len(s))]
    BY <1>2 DEF Replace
  <2>3. raw = [wire EXCEPT !.tokens = Splice(s, i, j, new)]
    BY <2>2 DEF Splice
  <2>4. Sum(new) # Sum(SubSeq(s, i, j))
    BY <1>2 DEF Replace
  <2> QED
    BY <2>1, <2>3, <2>4
<1>5. Splice(s, i, j, new) \in Seq(Token)
  BY <1>3, Spliced DEF IsSplice
<1>6. raw \in Raw /\ raw.tokens = Splice(s, i, j, new)
  BY <1>1, <1>4, <1>5 DEF Raw
<1>7. ASSUME FromHandler, validate_raw(raw)
      PROVE  Content(raw.tokens) = Front(serialize(sent))
  <2>1. sent \in Sendable /\ s = serialize(sent)
    BY <1>2, <1>7 DEF IInv, Origin, Undamaged, OnTheWay
  <2>2. CASE j < Len(s)
    BY <1>3, <1>4, <1>6, <1>7, <2>1, <2>2, DamageBefore
  <2>3. CASE j = Len(s)
    <3>1. \A k \in 1..Len(new) : new[k].tag = to_string[CheckSum] => k = 1 /\ i = Len(s)
      BY <1>2, <1>7, <2>3
    <3>2. raw.tokens = Splice(s, i, Len(s), new)
      BY <1>6, <2>3
    <3> QED
      BY <1>3, <1>6, <1>7, <2>1, <3>1, <3>2, DamageLast
  <2> QED
    BY <1>3, <2>2, <2>3
<1> QED
  BY <1>2, <1>6, <1>7

\* An alteration leaves a text of tokens that is refused or has the content that was sent.
LEMMA AlterEffect ==
    ASSUME IInv, Alter
    PROVE  /\ wire' \in Raw
           /\ FromHandler /\ validate_raw(wire') => Content(wire'.tokens) = Front(serialize(sent))
<1>1. OnTheWay
  BY DEF Alter
<1>2. PICK i \in DOMAIN wire.tokens :
          \/ \E new \in Altered(wire.tokens[i]) : Replace(i, i, new)
          \/ /\ i < Len(wire.tokens)
             /\ \E new \in Joined(wire.tokens[i]) : Replace(i, i + 1, new)
  BY DEF Alter
<1>3. PICK s : s = wire.tokens
  OBVIOUS
<1>4. s \in Seq(Token) /\ Len(s) \in Nat /\ i \in 1..Len(s) /\ s[i] \in Token
  <2>1. s \in Seq(Token)
    BY <1>3 DEF IInv, Typed, Raw
  <2>2. i \in 1..Len(s)
    BY <1>3, <2>1, LenProperties
  <2> QED
    BY <2>1, <2>2, LenProperties, ElementOfSeq
<1>5. ASSUME FromHandler, NEW k \in 1..Len(s)
      PROVE  s[k].tag = to_string[CheckSum] <=> k = Len(s)
  <2>1. sent \in Sendable /\ s = serialize(sent)
    BY <1>1, <1>3, <1>5 DEF IInv, Origin, Undamaged, OnTheWay
  <2>2. PICK n, T : SerializedAs(s, sent, n, T)
    BY <2>1, Serialized
  <2>3. Len(s) = n + 3 /\ n \in Nat
    BY <2>2 DEF SerializedAs
  <2>4. s[n + 3].tag = to_string[CheckSum] /\ \A l \in 1..(n + 2) : s[l].tag # to_string[CheckSum]
    BY <2>1, <2>2, SerializedFaithful
  <2>5. k = n + 3 \/ k \in 1..(n + 2)
    BY <2>3
  <2>6. \A l \in 1..(n + 2) : l # n + 3
    BY <2>3
  <2> QED
    BY <2>3, <2>4, <2>5, <2>6
<1>6. CASE \E new \in Altered(s[i]) : Replace(i, i, new)
  <2>1. PICK new \in Altered(s[i]) : Replace(i, i, new)
    BY <1>6
  <2>2. /\ new \in Seq(Token) /\ 1 <= Len(new)
        /\ s[i].tag = to_string[CheckSum] =>
               \A k \in 1..Len(new) : new[k].tag = to_string[CheckSum] => k = 1
    BY <1>4, AlteredIs
  <2>3. FromHandler /\ i = Len(s) =>
            \A k \in 1..Len(new) : new[k].tag = to_string[CheckSum] => k = 1 /\ i = Len(s)
    BY <1>4, <1>5, <2>2
  <2>4. i \in i..Len(s)
    BY <1>4
  <2> QED
    BY <1>1, <1>3, <1>4, <2>1, <2>2, <2>3, <2>4, ReplaceEffect
<1>7. CASE i < Len(s) /\ \E new \in Joined(s[i]) : Replace(i, i + 1, new)
  <2>1. PICK new \in Joined(s[i]) : Replace(i, i + 1, new)
    BY <1>7
  <2>2. PICK j : j = i + 1
    OBVIOUS
  <2>3. j \in i..Len(s) /\ i # Len(s)
    BY <1>4, <1>7, <2>2
  <2>4. new \in Seq(Token) /\ Len(new) = 1 /\ new[1].tag = s[i].tag
    BY <1>4, JoinedIs
  <2>5. FromHandler /\ j = Len(s) =>
            \A k \in 1..Len(new) : new[k].tag = to_string[CheckSum] => k = 1 /\ i = Len(s)
    <3>1. \A k \in 1..1 : k = 1
      OBVIOUS
    <3>2. FromHandler => s[i].tag # to_string[CheckSum]
      BY <1>4, <1>5, <2>3
    <3> QED
      BY <2>4, <3>1, <3>2
  <2>6. Replace(i, j, new) /\ 1 <= Len(new)
    BY <2>1, <2>2, <2>4
  <2> QED
    BY <1>1, <1>3, <1>4, <2>3, <2>4, <2>5, <2>6, ReplaceEffect
<1> QED
  BY <1>2, <1>3, <1>6, <1>7

\* The end is lost.
LEMMA TruncateEffect ==
    ASSUME IInv, Truncate
    PROVE  wire' \in Raw /\ (FromHandler => ~validate_raw(wire'))
<1>1. OnTheWay
  BY DEF Truncate
<1>2. PICK s, raw : s = wire.tokens /\ raw = wire'
  OBVIOUS
<1>3. s \in Seq(Token) /\ Len(s) \in Nat
  BY <1>2, LenProperties DEF IInv, Typed, Raw
<1>4. PICK n \in 0..(Len(s) - 1) :
          \/ raw = [tokens |-> SubSeq(s, 1, n), open |-> FALSE]
          \/ \E v \in Instead("shorter than", s[n + 1].value) \cup {s[n + 1].value} :
                 raw = [tokens |-> Append(SubSeq(s, 1, n), [s[n + 1] EXCEPT !.value = v]),
                        open |-> TRUE]
  BY <1>2 DEF Truncate
<1>5. FromHandler => sent \in Sendable /\ s = serialize(sent)
  BY <1>1, <1>2 DEF IInv, Origin, Undamaged, OnTheWay
<1>6. n + 1 \in 1..Len(s) /\ (n + 1) - 1 = n /\ s[n + 1] \in Token
  <2>1. n + 1 \in 1..Len(s) /\ (n + 1) - 1 = n
    BY <1>3
  <2> QED
    BY <1>3, <2>1, ElementOfSeq
<1>7. SubSeq(s, 1, n) \in Seq(Token)
  <2>1. SubSeq(s, 1, (n + 1) - 1) \in Seq(Token)
    BY <1>3, <1>6, CutOne
  <2> QED
    BY <1>6, <2>1
<1>8. CASE raw = [tokens |-> SubSeq(s, 1, n), open |-> FALSE]
  <2>1. raw \in Raw /\ raw.tokens = SubSeq(s, 1, n)
    BY <1>7, <1>8 DEF Raw
  <2>2. FromHandler => ~validate_raw(raw)
    BY <1>5, <2>1, CutAfter
  <2> QED
    BY <1>2, <2>1, <2>2
<1>9. CASE \E v \in Instead("shorter than", s[n + 1].value) \cup {s[n + 1].value} :
               raw = [tokens |-> Append(SubSeq(s, 1, n), [s[n + 1] EXCEPT !.value = v]),
                      open |-> TRUE]
  <2>1. PICK v \in Instead("shorter than", s[n + 1].value) \cup {s[n + 1].value} :
               raw = [tokens |-> Append(SubSeq(s, 1, n), [s[n + 1] EXCEPT !.value = v]),
                      open |-> TRUE]
    BY <1>9
  <2>2. v \in Texts
    <3>1. s[n + 1].value \in Texts
      BY <1>6 DEF Token
    <3> QED
      BY <3>1, InputAssumption DEF Instead
  <2>3. PICK x : x = [s[n + 1] EXCEPT !.value = v]
    OBVIOUS
  <2>4. x \in Token
    BY <1>6, <2>2, <2>3 DEF Token
  <2>5. Append(SubSeq(s, 1, n), x) \in Seq(Token)
    BY <1>7, <2>4, AppendProperties
  <2>6. /\ raw \in Raw /\ raw.open = TRUE
        /\ raw.tokens = Append(SubSeq(s, 1, n), [s[n + 1] EXCEPT !.value = v])
    BY <2>1, <2>3, <2>5 DEF Raw
  <2>7. FromHandler => ~validate_raw(raw)
    BY <1>5, <2>2, <2>6, CutWithin
  <2> QED
    BY <1>2, <2>6, <2>7
<1> QED
  BY <1>4, <1>8, <1>9

\* Every step keeps the invariant.
LEMMA InvStep == IInv /\ [Next]_vars => IInv'
<1> SUFFICES ASSUME IInv, [Next]_vars PROVE IInv'
  OBVIOUS
<1>1. CASE UNCHANGED vars
  BY <1>1 DEF vars, IInv, Typed, Quiet, Origin, Undamaged, Damaged, Read, FromHandler
<1>2. CASE \E r \in Requests : Generate(r)
  <2>1. PICK r \in Requests : Generate(r)
    BY <1>2
  <2>2. make(r) \in Sendable /\ Transmit(make(r)) /\ sender' = r.type
    BY <2>1 DEF Generate, Sendable
  <2> QED
    BY <2>2, TransmitStep
<1>3. CASE \E m \in Messages : Send(m)
  <2>1. PICK m \in Messages : Send(m)
    BY <1>3
  <2>2. m \in Sendable /\ Transmit(m) /\ sender' = "caller"
    BY <2>1 DEF Send, Sendable
  <2> QED
    BY <2>2, TransmitStep
<1>4. CASE \E tokens \in Received : Receive(tokens)
  BY <1>4, ReceiveStep
<1>5. CASE Alter
  <2>1. /\ OnTheWay /\ damage' = "altered"
        /\ sent' = sent /\ sender' = sender /\ output' = output
    BY <1>5 DEF Alter
  <2>2. /\ wire' \in Raw
        /\ FromHandler /\ validate_raw(wire') => Content(wire'.tokens) = Front(serialize(sent))
    BY <1>5, AlterEffect
  <2>3. output' = <<>> /\ sender' # "nobody"
    BY <2>1 DEF OnTheWay
  <2>4. Typed' /\ Origin'
    BY <2>1, <2>2 DEF IInv, Typed, Origin, FromHandler
  <2>5. Quiet' /\ Undamaged' /\ Read'
    BY <2>1, <2>3 DEF Quiet, Undamaged, Read
  <2>6. Damaged'
    BY <2>1, <2>2 DEF Damaged, FromHandler
  <2> QED
    BY <2>4, <2>5, <2>6 DEF IInv
<1>6. CASE Truncate
  <2>1. /\ OnTheWay /\ damage' = "truncated"
        /\ sent' = sent /\ sender' = sender /\ output' = output
    BY <1>6 DEF Truncate
  <2>2. wire' \in Raw /\ (FromHandler => ~validate_raw(wire'))
    BY <1>6, TruncateEffect
  <2>3. output' = <<>> /\ sender' # "nobody"
    BY <2>1 DEF OnTheWay
  <2>4. Typed' /\ Origin'
    BY <2>1, <2>2 DEF IInv, Typed, Origin, FromHandler
  <2>5. Quiet' /\ Undamaged' /\ Read'
    BY <2>1, <2>3 DEF Quiet, Undamaged, Read
  <2>6. Damaged'
    BY <2>1, <2>2 DEF Damaged, FromHandler
  <2> QED
    BY <2>4, <2>5, <2>6 DEF IInv
<1>7. CASE Parse
  <2>1. /\ sender # "nobody"
        /\ output' = <<parse(wire), get_msg_type_name(parse(wire)), validate_raw(wire)>>
        /\ sent' = sent /\ sender' = sender /\ wire' = wire /\ damage' = damage
    BY <1>7 DEF Parse
  <2>2. Read'
    BY <2>1 DEF Read
  <2> QED
    BY <2>1, <2>2 DEF IInv, Typed, Quiet, Origin, Undamaged, Damaged, FromHandler
<1> QED
  BY <1>1, <1>2, <1>3, <1>4, <1>5, <1>6, <1>7 DEF Next

\* It always holds.
LEMMA Inductive == Spec => []IInv
  BY InvInit, InvStep, PTL DEF Spec

-----------------------------------------------------------------------------
(* What is promised. *)

\* What was read.
LEMMA WhatIsRead ==
    ASSUME IInv, output # <<>>
    PROVE  /\ output[1] = parse(wire)
           /\ output[2] = get_msg_type_name(parse(wire))
           /\ output[3] = validate_raw(wire)
  BY DEF IInv, Read

\* The variables keep their types: whatever a handler is sent, it reads a message, and a
\* verdict.
THEOREM TypeCorrect == Spec => []TypeOK
<1>1. IInv => TypeOK
  <2> SUFFICES ASSUME IInv PROVE TypeOK
    OBVIOUS
  <2>1. ASSUME output # <<>> PROVE IsMessage(output[1]) /\ output[3] \in BOOLEAN
    <3>1. output[1] = parse(wire) /\ output[3] = validate_raw(wire)
      BY <2>1, WhatIsRead
    <3>2. IsMessage(parse(wire))
      BY ParseTyped DEF IInv, Typed
    <3>3. validate_raw(wire) \in BOOLEAN
      BY DEF validate_raw
    <3> QED
      BY <3>1, <3>2, <3>3
  <2> QED
    BY <2>1 DEF IInv, Typed, TypeOK
<1> QED
  BY <1>1, Inductive, PTL

\* A message that arrives as serialize wrote it is read with the fields it was built with,
\* under its own type, and both validators accept it.
THEOREM IntactCorrect == Spec => []IntactArrives
<1>1. IInv => IntactArrives
  <2> SUFFICES ASSUME IInv, FromHandler, damage = "none", output # <<>>
               PROVE  LET body == DOMAIN sent \ {BeginString, BodyLength, CheckSum}
                          read == output[1]
                      IN  /\ DOMAIN read = body \cup {BeginString, BodyLength, CheckSum}
                          /\ \A t \in body : read[t] = sent[t]
                          /\ output[3] /\ validate_map(read)
                          /\ sender # "caller" => output[2] = sender
    BY DEF IntactArrives
  <2>1. /\ output[1] = parse(wire) /\ output[3] = validate_raw(wire)
        /\ output[2] = get_msg_type_name(parse(wire))
    BY WhatIsRead
  <2>2. sent \in Sendable /\ wire \in Raw /\ wire.tokens = serialize(sent) /\ ~wire.open
    BY DEF IInv, Typed, Origin, Undamaged
  <2>3. /\ DOMAIN parse(wire) = (DOMAIN sent \ {BeginString, BodyLength, CheckSum})
                                    \cup {BeginString, BodyLength, CheckSum}
        /\ \A t \in DOMAIN sent \ {BeginString, BodyLength, CheckSum} : parse(wire)[t] = sent[t]
        /\ validate_raw(wire) /\ validate_map(parse(wire))
    BY <2>2, Intact
  <2>4. ASSUME sender # "caller" PROVE get_msg_type_name(parse(wire)) = sender
    <3>1. PICK r \in Requests : sent = make(r) /\ sender = r.type
      BY <2>4 DEF IInv, Origin
    <3>2. /\ MsgType \in DOMAIN sent /\ sent[MsgType] \in DOMAIN MsgTypeNames
          /\ MsgTypeNames[sent[MsgType]] = sender
      BY <3>1, BuilderMakes
    <3>3. MsgType \notin {BeginString, BodyLength, CheckSum}
      BY DEF MsgType, BeginString, BodyLength, CheckSum
    <3>4. MsgType \in DOMAIN parse(wire) /\ parse(wire)[MsgType] = sent[MsgType]
      BY <2>3, <3>2, <3>3
    <3> QED
      BY <3>2, <3>4 DEF get_msg_type_name
  <2> QED
    BY <2>1, <2>3, <2>4
<1> QED
  BY <1>1, Inductive, PTL

\* A message of the handler that was damaged on its way and is accepted nevertheless has
\* the content that was sent: the damage touched its checksum only.
THEOREM AcceptedCorrect == Spec => []AcceptedIsIntact
<1>1. IInv => AcceptedIsIntact
  <2> SUFFICES ASSUME IInv, FromHandler, damage # "none", output # <<>>, output[3]
               PROVE  Content(wire.tokens) = Front(serialize(sent))
    BY DEF AcceptedIsIntact
  <2>1. validate_raw(wire)
    BY WhatIsRead
  <2> QED
    BY <2>1 DEF IInv, Damaged
<1> QED
  BY <1>1, Inductive, PTL

\* The validator of parsed messages sorts the fields by their tags and the one of raw
\* messages takes them as they come: where no tag is repeated and the checksum is the last
\* field, both say the same.
THEOREM ValidatorsCorrect == Spec => []ValidatorsAgree
<1>1. IInv => ValidatorsAgree
  <2> SUFFICES ASSUME IInv, output # <<>>, ~wire.open, Len(wire.tokens) > 1,
                      Faithful(wire.tokens), Last(wire.tokens).tag = to_string[CheckSum]
               PROVE  output[3] = validate_map(output[1])
    BY DEF ValidatorsAgree
  <2>1. output[1] = parse(wire) /\ output[3] = validate_raw(wire)
    BY WhatIsRead
  <2>2. wire.tokens[Len(wire.tokens)].tag = to_string[CheckSum] /\ wire \in Raw
    BY DEF IInv, Typed, Last
  <2>3. validate_raw(wire) <=> validate_map(parse(wire))
    BY <2>2, ValidatorsMeet
  <2>4. validate_raw(wire) \in BOOLEAN /\ validate_map(parse(wire)) \in BOOLEAN
    BY DEF validate_raw, validate_map
  <2>5. validate_raw(wire) = validate_map(parse(wire))
    BY <2>3, <2>4
  <2> QED
    BY <2>1, <2>5
<1> QED
  BY <1>1, Inductive, PTL

=============================================================================
