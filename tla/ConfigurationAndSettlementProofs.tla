------------------ MODULE ConfigurationAndSettlementProofs ------------------
(***************************************************************************)
(* Theorems about Configuration.  A path is known by its strict prefixes:  *)
(* what a merge makes of a dictionary is stated path by path first         *)
(* (MergeSays), and the proof that the last word counts never looks at a   *)
(* merged dictionary but through that lemma.                               *)
(*                                                                         *)
(* At the end, theorems about SettlementTracker, a component that has      *)
(* nothing to do with it: its invariant is that of its types, and a flag   *)
(* is a fact about one record.                                             *)
(***************************************************************************)
EXTENDS Configuration, SettlementTracker, SequenceTheorems, WellFoundedInduction,
        NaturalsInduction, TLAPS

-----------------------------------------------------------------------------
(* Paths. *)

\* A strict prefix of a path is shorter, begins it and has its first key.
LEMMA PrefixFacts ==
    ASSUME NEW p \in KeyPaths, NEW q \in KeyPaths, IsStrictPrefix(q, p)
    PROVE  /\ Len(q) \in 1..(Len(p) - 1)
           /\ q = SubSeq(p, 1, Len(q))
           /\ q[1] = p[1]
<1>1. /\ p \in Seq(Keys) /\ q \in Seq(Keys)
      /\ p # <<>> /\ q # <<>>
      /\ Len(q) \in Nat /\ Len(p) \in Nat /\ Len(q) # 0
  BY EmptySeq DEF KeyPaths
<1>2. Len(q) <= Len(p) /\ SubSeq(q, 1, Len(q)) = SubSeq(p, 1, Len(q)) /\ q # p
  BY DEF IsStrictPrefix, IsPrefix
<1>3. SubSeq(q, 1, Len(q)) = q /\ SubSeq(p, 1, Len(p)) = p
  BY <1>1, SubSeqFull
<1>4. Len(q) # Len(p)
  BY <1>2, <1>3
<1>5. q[1] = SubSeq(p, 1, Len(q))[1]
  BY <1>2, <1>3
<1>6. SubSeq(p, 1, Len(q))[1] = p[1]
  BY <1>1, <1>2, SubSeqProperties
<1>7. 1 <= Len(q) /\ Len(q) <= Len(p) - 1
  BY <1>1, <1>2, <1>4
<1>8. Len(q) \in 1..(Len(p) - 1)
  BY <1>1, <1>7
<1> QED BY <1>2, <1>3, <1>5, <1>6, <1>8

\* The first n keys of a path are a strict prefix of it, if there are more.
LEMMA PrefixOf ==
    ASSUME NEW p \in KeyPaths, NEW n \in 1..(Len(p) - 1)
    PROVE  /\ SubSeq(p, 1, n) \in KeyPaths
           /\ IsStrictPrefix(SubSeq(p, 1, n), p)
           /\ Len(SubSeq(p, 1, n)) = n
<1> DEFINE s == SubSeq(p, 1, n)
<1>1. p \in Seq(Keys) /\ Len(p) \in Nat
  BY DEF KeyPaths
<1>2. s \in Seq(Keys) /\ Len(s) = n
  BY <1>1, SubSeqProperties
<1>3. s # <<>> /\ s # p
  BY <1>1, <1>2
<1>4. SubSeq(s, 1, Len(s)) = s
  BY <1>2, SubSeqFull
<1> QED BY <1>1, <1>2, <1>3, <1>4 DEF KeyPaths, IsStrictPrefix, IsPrefix

\* A strict prefix of a strict prefix is one.
LEMMA PrefixesNest ==
    ASSUME NEW p \in KeyPaths, NEW q \in KeyPaths, NEW r \in KeyPaths,
           IsStrictPrefix(r, q), IsStrictPrefix(q, p)
    PROVE  IsStrictPrefix(r, p)
<1>1. /\ p \in Seq(Keys) /\ q \in Seq(Keys) /\ r \in Seq(Keys)
      /\ Len(p) \in Nat /\ Len(q) \in Nat /\ Len(r) \in Nat
  BY DEF KeyPaths
<1>2. /\ Len(q) \in 1..(Len(p) - 1) /\ q = SubSeq(p, 1, Len(q))
      /\ Len(r) \in 1..(Len(q) - 1) /\ r = SubSeq(q, 1, Len(r))
  BY PrefixFacts
<1>3. Len(r) \in 1..(Len(p) - 1)
  BY <1>1, <1>2
<1>4. SubSeq(p, 1, Len(r)) \in Seq(Keys) /\ Len(SubSeq(p, 1, Len(r))) = Len(r)
  BY <1>1, <1>3, SubSeqProperties
<1>5. ASSUME NEW k \in 1..Len(r) PROVE r[k] = SubSeq(p, 1, Len(r))[k]
  <2>1. k \in 1..Len(q) /\ k \in 1..Len(p) /\ k \in Int
    BY <1>1, <1>2, <1>3
  <2>2. SubSeq(q, 1, Len(r))[k] = q[k]
    BY <1>1, <1>2, <2>1, SubSeqProperties
  <2>3. SubSeq(p, 1, Len(q))[k] = p[k]
    BY <1>1, <1>2, <2>1, SubSeqProperties
  <2>4. SubSeq(p, 1, Len(r))[k] = p[k]
    BY <1>1, <1>3, <2>1, SubSeqProperties
  <2> QED BY <1>2, <2>2, <2>3, <2>4
<1>6. r = SubSeq(p, 1, Len(r))
  BY <1>1, <1>4, <1>5, SeqEqual
<1> QED BY <1>3, <1>6, PrefixOf

\* The first key of a path is a path, and a prefix of all longer ones that begin with it.
LEMMA FirstKey ==
    ASSUME NEW p \in KeyPaths
    PROVE  /\ p[1] \in Keys /\ <<p[1]>> \in KeyPaths
           /\ p = <<p[1]>> \/ IsStrictPrefix(<<p[1]>>, p)
<1>1. p \in Seq(Keys) /\ p # <<>> /\ Len(p) \in Nat
  BY DEF KeyPaths
<1>2. Len(p) >= 1 /\ p[1] \in Keys
  BY <1>1, EmptySeq
<1>3. <<p[1]>> \in KeyPaths
  BY <1>2 DEF KeyPaths
<1>4. CASE Len(p) = 1
  BY <1>1, <1>2, <1>3, <1>4, SeqEqual DEF KeyPaths
<1>5. CASE Len(p) # 1
  <2>0. \A n \in Nat : n >= 1 /\ n # 1 => 1 \in 1..(n - 1)
    OBVIOUS
  <2>1. 1 \in 1..(Len(p) - 1)
    BY <1>1, <1>2, <1>5, <2>0
  <2>2. SubSeq(p, 1, 1) \in Seq(Keys) /\ Len(SubSeq(p, 1, 1)) = 1 /\ SubSeq(p, 1, 1)[1] = p[1]
    BY <1>1, <2>1, SubSeqProperties
  <2>3. SubSeq(p, 1, 1) = <<p[1]>>
    <3> DEFINE s == SubSeq(p, 1, 1)
               t == <<p[1]>>
    <3>1. s \in Seq(Keys) /\ t \in Seq(Keys) /\ Len(s) = 1 /\ Len(t) = 1 /\ s[1] = t[1]
      BY <2>2, <1>3 DEF KeyPaths
    <3>2. \A i \in 1..Len(s) : s[i] = t[i]
      BY <3>1
    <3> HIDE DEF s, t
    <3>3. s = t
      BY <3>1, <3>2, SeqEqual
    <3> QED BY <3>3 DEF s, t
  <2> QED BY <1>2, <1>3, <2>1, <2>3, PrefixOf
<1> QED BY <1>4, <1>5

\* A path of one key has no strict prefix.
LEMMA NothingBelowAKey ==
    ASSUME NEW k \in Keys
    PROVE  /\ <<k>> \in KeyPaths
           /\ \A q \in KeyPaths : ~IsStrictPrefix(q, <<k>>)
<1>1. <<k>> \in KeyPaths /\ Len(<<k>>) = 1
  BY DEF KeyPaths
<1>2. ASSUME NEW q \in KeyPaths, IsStrictPrefix(q, <<k>>) PROVE FALSE
  <2>1. Len(q) \in 1..(1 - 1)
    BY <1>1, <1>2, PrefixFacts
  <2> QED BY <2>1
<1> QED BY <1>1, <1>2

-----------------------------------------------------------------------------
(* Dictionaries. *)

\* All that a path can lead to, and the dictionaries that can arise.
Known ==
    {Dict} \cup Paths \cup UNION {{f[p] : p \in DOMAIN f} : f \in Files \cup {Default}}
Dictionaries == UNION {[D -> Known] : D \in SUBSET KeyPaths}
Trees        == {f \in Dictionaries : IsTree(f)}

\* Whether a dictionary has a word about a path.
Touches(tree, p) == p \in DOMAIN tree \/ CutShort(tree, p)

\* What a tree is, by its paths.
LEMMA TreeFacts ==
    ASSUME NEW f \in Trees
    PROVE  /\ DOMAIN f \subseteq KeyPaths
           /\ f = [p \in DOMAIN f |-> f[p]]
           /\ \A p \in DOMAIN f : f[p] \in Known
           /\ \A p \in DOMAIN f : \A q \in KeyPaths :
                  IsStrictPrefix(q, p) => q \in DOMAIN f /\ f[q] = Dict
           /\ \A p \in DOMAIN f : <<p[1]>> \in DOMAIN f
<1>1. PICK D \in SUBSET KeyPaths : f \in [D -> Known]
  BY DEF Trees, Dictionaries
<1>2. IsTree(f)
  BY DEF Trees
<1>3. ASSUME NEW p \in DOMAIN f, NEW q \in KeyPaths, IsStrictPrefix(q, p)
      PROVE  q \in DOMAIN f /\ f[q] = Dict
  <2>1. p \in KeyPaths
    BY <1>1
  <2>2. Len(q) \in 1..(Len(p) - 1) /\ q = SubSeq(p, 1, Len(q))
    BY <1>3, <2>1, PrefixFacts
  <2> QED BY <1>2, <2>2 DEF IsTree
<1>4. ASSUME NEW p \in DOMAIN f PROVE <<p[1]>> \in DOMAIN f
  <2>1. p \in KeyPaths
    BY <1>1
  <2> QED BY <1>3, <2>1, FirstKey
<1> QED BY <1>1, <1>3, <1>4

\* The other way round: what is a tree.
LEMMA IsATree ==
    ASSUME NEW f,
           f = [p \in DOMAIN f |-> f[p]],
           DOMAIN f \subseteq KeyPaths,
           \A p \in DOMAIN f : f[p] \in Known,
           \A p \in DOMAIN f : \A q \in KeyPaths :
               IsStrictPrefix(q, p) => q \in DOMAIN f /\ f[q] = Dict
    PROVE  f \in Trees
<1>1. f \in [DOMAIN f -> Known]
  OBVIOUS
<1>2. f \in Dictionaries
  BY <1>1 DEF Dictionaries
<1>3. ASSUME NEW p \in DOMAIN f, NEW n \in 1..(Len(p) - 1)
      PROVE  SubSeq(p, 1, n) \in DOMAIN f /\ f[SubSeq(p, 1, n)] = Dict
  <2>1. p \in KeyPaths
    OBVIOUS
  <2>2. SubSeq(p, 1, n) \in KeyPaths /\ IsStrictPrefix(SubSeq(p, 1, n), p)
    BY <2>1, PrefixOf
  <2> QED BY <2>2
<1> QED BY <1>2, <1>3 DEF Trees, IsTree

\* The defaults and the files are trees.
LEMMA GivenTrees ==
    /\ Default \in Trees
    /\ \A file \in Files : file \in Trees
<1> SUFFICES ASSUME NEW f \in Files \cup {Default} PROVE f \in Trees
  OBVIOUS
<1>1. f = [p \in DOMAIN f |-> f[p]] /\ DOMAIN f \in SUBSET KeyPaths /\ IsTree(f)
  BY TreeAssumption
<1>2. \A p \in DOMAIN f : f[p] \in Known
  BY DEF Known
<1>3. f \in [DOMAIN f -> Known]
  BY <1>1, <1>2
<1> QED BY <1>1, <1>3 DEF Trees, Dictionaries

\* Where a path is cut short there is nothing.
LEMMA NothingBeyond ==
    ASSUME NEW f \in Trees, NEW p \in KeyPaths, CutShort(f, p)
    PROVE  p \notin DOMAIN f
<1>1. PICK q \in DOMAIN f : IsStrictPrefix(q, p) /\ f[q] # Dict
  BY DEF CutShort
<1>2. q \in KeyPaths
  BY TreeFacts
<1> QED BY <1>1, <1>2, TreeFacts

\* A word about a path is about a path with that first key, and a dictionary that leaves
\* out the first key has none.
LEMMA TouchedFirst ==
    ASSUME NEW f \in Trees, NEW p \in KeyPaths, Touches(f, p)
    PROVE  <<p[1]>> \in DOMAIN f
<1>1. CASE p \in DOMAIN f
  BY <1>1, TreeFacts
<1>2. CASE CutShort(f, p)
  <2>1. PICK q \in DOMAIN f : IsStrictPrefix(q, p)
    BY <1>2 DEF CutShort
  <2>2. q \in KeyPaths /\ <<q[1]>> \in DOMAIN f
    BY TreeFacts
  <2>3. q[1] = p[1]
    BY <2>1, <2>2, PrefixFacts
  <2> QED BY <2>2, <2>3
<1> QED BY <1>1, <1>2 DEF Touches

\* _deep_merge makes a dictionary of two.
LEMMA MergeIsTree ==
    ASSUME NEW b \in Trees, NEW o \in Trees
    PROVE  _deep_merge(b, o) \in Trees
<1> DEFINE D == {p \in DOMAIN b : ~CutShort(o, p)} \cup DOMAIN o
           m == [p \in D |-> IF p \in DOMAIN o THEN o[p] ELSE b[p]]
<1>1. _deep_merge(b, o) = m
  BY DEF _deep_merge, CutShort
<1>2. DOMAIN b \subseteq KeyPaths /\ DOMAIN o \subseteq KeyPaths
  BY TreeFacts
<1>3. /\ m = [p \in DOMAIN m |-> m[p]] /\ DOMAIN m = D /\ D \subseteq KeyPaths
  BY <1>2
<1>4. \A p \in DOMAIN m : m[p] \in Known
  BY TreeFacts
<1>5. ASSUME NEW p \in D, NEW q \in KeyPaths, IsStrictPrefix(q, p)
      PROVE  q \in D /\ m[q] = Dict
  <2>1. p \in KeyPaths
    BY <1>3
  <2>2. CASE p \in DOMAIN o
    <3>1. q \in DOMAIN o /\ o[q] = Dict
      BY <1>5, <2>2, TreeFacts
    <3> QED BY <3>1
  <2>3. CASE p \notin DOMAIN o
    <3>1. p \in DOMAIN b /\ ~CutShort(o, p)
      BY <2>3
    <3>2. q \in DOMAIN b /\ b[q] = Dict
      BY <1>5, <3>1, TreeFacts
    <3>3. ~CutShort(o, q)
      <4>1. SUFFICES ASSUME NEW r \in DOMAIN o, IsStrictPrefix(r, q), o[r] # Dict
                     PROVE  FALSE
        BY DEF CutShort
      <4>2. IsStrictPrefix(r, p)
        BY <1>2, <1>5, <2>1, <4>1, PrefixesNest
      <4> QED BY <3>1, <4>1, <4>2 DEF CutShort
    <3>4. q \in D
      BY <3>2, <3>3
    <3>5. q \in DOMAIN o => o[q] = Dict
      BY <1>5, <3>1 DEF CutShort
    <3> QED BY <3>2, <3>4, <3>5
  <2> QED BY <2>2, <2>3
<1> HIDE DEF m, D
<1> QED BY <1>1, <1>3, <1>4, <1>5, IsATree

\* What the result says of a path: what the dictionary merged in says, where it has a
\* word about it, else what was there.
LEMMA MergeSays ==
    ASSUME NEW b \in Trees, NEW o \in Trees, NEW p \in KeyPaths
    PROVE  Says(_deep_merge(b, o), p) = IF Touches(o, p) THEN Says(o, p) ELSE Says(b, p)
<1>1. CutShort(o, p) => p \notin DOMAIN o
  BY NothingBeyond
<1>2. DOMAIN _deep_merge(b, o) = {r \in DOMAIN b : ~CutShort(o, r)} \cup DOMAIN o
  BY DEF _deep_merge, CutShort
<1>3. p \in DOMAIN _deep_merge(b, o) =>
          _deep_merge(b, o)[p] = IF p \in DOMAIN o THEN o[p] ELSE b[p]
  BY DEF _deep_merge
<1> QED BY <1>1, <1>2, <1>3 DEF Touches, Says

\* What a tree has in some sections is a tree.
LEMMA RestrictedIsTree ==
    ASSUME NEW f \in Trees, NEW S
    PROVE  Restricted(f, S) \in Trees
<1>1. DOMAIN Restricted(f, S) = {p \in DOMAIN f : p[1] \in S}
  BY DEF Restricted
<1>2. /\ Restricted(f, S) = [p \in DOMAIN Restricted(f, S) |-> Restricted(f, S)[p]]
      /\ \A p \in DOMAIN Restricted(f, S) : Restricted(f, S)[p] = f[p]
  BY DEF Restricted
<1>3. \A p \in DOMAIN Restricted(f, S) : Restricted(f, S)[p] \in Known
  BY <1>1, <1>2, TreeFacts
<1>4. ASSUME NEW p \in DOMAIN Restricted(f, S), NEW q \in KeyPaths, IsStrictPrefix(q, p)
      PROVE  q \in DOMAIN Restricted(f, S) /\ Restricted(f, S)[q] = Dict
  <2>1. p \in KeyPaths /\ p[1] \in S /\ q \in DOMAIN f /\ f[q] = Dict
    BY <1>1, <1>4, TreeFacts
  <2>2. q[1] = p[1]
    BY <1>4, <2>1, PrefixFacts
  <2> QED BY <1>1, <1>2, <2>1, <2>2
<1>5. DOMAIN Restricted(f, S) \subseteq KeyPaths
  BY <1>1, TreeFacts
<1> QED BY <1>2, <1>3, <1>4, <1>5, IsATree

\* A restriction says what the whole says, of the paths it keeps.
LEMMA RestrictedSays ==
    ASSUME NEW f \in Trees, NEW S, NEW p \in KeyPaths
    PROVE  /\ Says(Restricted(f, S), p) = IF p[1] \in S THEN Says(f, p) ELSE <<>>
           /\ Touches(Restricted(f, S), p) <=> p[1] \in S /\ Touches(f, p)
<1>1. /\ DOMAIN Restricted(f, S) = {r \in DOMAIN f : r[1] \in S}
      /\ \A r \in DOMAIN Restricted(f, S) : Restricted(f, S)[r] = f[r]
  BY DEF Restricted
<1>2. \A q \in DOMAIN f : IsStrictPrefix(q, p) => q[1] = p[1]
  BY TreeFacts, PrefixFacts
<1>3. CutShort(Restricted(f, S), p) <=> p[1] \in S /\ CutShort(f, p)
  BY <1>1, <1>2 DEF CutShort
<1> QED BY <1>1, <1>3 DEF Says, Touches

-----------------------------------------------------------------------------
(* What is written. *)

\* The first keys of a dictionary's paths.
Firsts(f) == {p[1] : p \in DOMAIN f}

\* The sections of the defaults are dictionaries, and one is that of the database.
LEMMA SectionFacts ==
    /\ \A s \in Sections : s \in Keys /\ <<s>> \in DOMAIN Default /\ Default[<<s>>] = Dict
    /\ Firsts(Default) = Sections
    /\ "database" \in Sections
<1>1. ASSUME NEW s \in Sections
      PROVE  s \in Keys /\ <<s>> \in DOMAIN Default /\ Default[<<s>>] = Dict
  <2>1. PICK p \in DOMAIN Default : s = p[1]
    BY DEF Sections
  <2>2. p \in KeyPaths /\ <<p[1]>> \in DOMAIN Default
    BY GivenTrees, TreeFacts
  <2>3. Len(<<s>>) = 1
    OBVIOUS
  <2> QED BY <2>1, <2>2, <2>3, FirstKey, TreeAssumption
<1>2. "database" \in Sections
  <2>1. Database \in DOMAIN Default /\ Database[1] = "database"
    BY TreeAssumption DEF Database
  <2> QED BY <2>1 DEF Sections
<1> QED BY <1>1, <1>2 DEF Sections, Firsts

\* A path of one key is in a dictionary exactly if the key begins a path of it.
LEMMA FirstsOf ==
    ASSUME NEW f \in Trees, NEW s
    PROVE  s \in Firsts(f) <=> <<s>> \in DOMAIN f
<1>1. s \in Firsts(f) => <<s>> \in DOMAIN f
  BY TreeFacts DEF Firsts
<1>2. <<s>> \in DOMAIN f => s \in Firsts(f)
  <2>1. <<s>>[1] = s
    OBVIOUS
  <2> QED BY <2>1 DEF Firsts
<1> QED BY <1>1, <1>2

\* What --db and the environment write is a tree, in one section, that replaces none.
LEMMA PathOfFacts ==
    ASSUME NEW db \in Paths
    PROVE  /\ PathOf(db) \in Trees
           /\ Firsts(PathOf(db)) = {"database"}
           /\ ReplacedBy(PathOf(db)) = {}
           /\ IntoShared(PathOf(db)) = PathOf(db)
<1> DEFINE f == PathOf(db)
           D == {<<"database">>, Database}
<1>1. /\ "database" \in Keys /\ "path" \in Keys
      /\ <<"database">> \in KeyPaths /\ Database \in KeyPaths
      /\ Len(Database) = 2 /\ Len(<<"database">>) = 1 /\ <<"database">> # Database
      /\ <<"database">>[1] = "database" /\ Database[1] = "database"
  BY TreeAssumption DEF KeyPaths, Database
<1>2. /\ DOMAIN f = D /\ f = [p \in DOMAIN f |-> f[p]]
      /\ f[<<"database">>] = Dict /\ f[Database] = db
  BY <1>1 DEF PathOf
<1>3. \A p \in DOMAIN f : f[p] \in Known
  BY <1>2 DEF Known
<1>4. ASSUME NEW p \in DOMAIN f, NEW q \in KeyPaths, IsStrictPrefix(q, p)
      PROVE  q \in DOMAIN f /\ f[q] = Dict
  <2>1. p = Database
    BY <1>1, <1>2, <1>4, NothingBelowAKey
  <2>2. Len(q) \in 1..(Len(Database) - 1) /\ q[1] = Database[1]
    BY <1>1, <1>4, <2>1, PrefixFacts
  <2>3. Len(q) = 1
    BY <1>1, <2>2
  <2>4. ~IsStrictPrefix(<<q[1]>>, q)
    <3>1. SUFFICES ASSUME IsStrictPrefix(<<q[1]>>, q) PROVE FALSE
      OBVIOUS
    <3>2. <<q[1]>> \in KeyPaths
      BY FirstKey
    <3>3. Len(<<q[1]>>) \in 1..(Len(q) - 1) /\ Len(<<q[1]>>) = 1
      BY <3>1, <3>2, PrefixFacts
    <3> QED BY <2>3, <3>3
  <2>5. q = <<q[1]>>
    BY <2>4, FirstKey
  <2>6. q = <<"database">>
    BY <2>2, <2>5, <1>1
  <2> QED BY <1>2, <2>6
<1>5. f \in Trees
  <2> HIDE DEF f
  <2> QED BY <1>1, <1>2, <1>3, <1>4, IsATree
<1>6. Firsts(f) = {"database"}
  BY <1>1, <1>2 DEF Firsts
<1>7. ReplacedBy(f) = {}
  <2>1. SUFFICES ASSUME NEW s \in ReplacedBy(f) PROVE FALSE
    OBVIOUS
  <2>2. <<s>> \in DOMAIN f /\ f[<<s>>] # Dict
    BY DEF ReplacedBy
  <2>3. <<s>> # Database
    <3>1. Len(<<s>>) = 1
      OBVIOUS
    <3> QED BY <3>1, <1>1
  <2> QED BY <1>2, <2>2, <2>3
<1>8. IntoShared(f) = f
  <2>1. \A p \in DOMAIN f : p[1] \in Sections \ ReplacedBy(f)
    BY <1>1, <1>2, <1>7, SectionFacts
  <2>2. {p \in DOMAIN f : p[1] \in Sections \ ReplacedBy(f)} = DOMAIN f
    BY <2>1
  <2>3. Restricted(f, Sections \ ReplacedBy(f)) = [p \in DOMAIN f |-> f[p]]
    BY <2>2 DEF Restricted
  <2> QED BY <1>2, <2>3 DEF IntoShared
<1> QED BY <1>5, <1>6, <1>7, <1>8

\* What a call writes is a tree.
LEMMA WrittenIsTree ==
    ASSUME NEW file \in Files, NEW env_db \in Paths \cup {NoPath}
    PROVE  Written(file, env_db) \in Trees
<1>1. file \in Trees
  BY GivenTrees
<1>2. env_db # NoPath => PathOf(env_db) \in Trees
  BY PathOfFacts
<1> QED BY <1>1, <1>2, MergeIsTree DEF Written

\* What a configuration keeps for itself is what does not enter the shared sections.
LEMMA OwnPartFacts ==
    ASSUME NEW f \in Trees
    PROVE  /\ OwnPart(f) \in Trees
           /\ \A p \in KeyPaths :
                  Says(OwnPart(f), p) =
                      IF p[1] \in Sections \ ReplacedBy(f) THEN <<>> ELSE Says(f, p)
           /\ \A s : s \in Firsts(OwnPart(f)) <=>
                        s \in Firsts(f) /\ s \notin Sections \ ReplacedBy(f)
<1> DEFINE S == Firsts(f) \ (Sections \ ReplacedBy(f))
<1>1. DOMAIN IntoShared(f) = {p \in DOMAIN f : p[1] \in Sections \ ReplacedBy(f)}
  BY DEF IntoShared, Restricted
<1>2. DOMAIN f \ DOMAIN IntoShared(f) = {p \in DOMAIN f : p[1] \in S}
  BY <1>1 DEF Firsts
<1>3. OwnPart(f) = Restricted(f, S)
  BY <1>2 DEF OwnPart, Restricted
<1>4. OwnPart(f) \in Trees
  BY <1>3, RestrictedIsTree
<1>5. ASSUME NEW p \in KeyPaths
      PROVE  Says(OwnPart(f), p) =
                 IF p[1] \in Sections \ ReplacedBy(f) THEN <<>> ELSE Says(f, p)
  <2>1. Says(OwnPart(f), p) = IF p[1] \in S THEN Says(f, p) ELSE <<>>
    BY <1>3, RestrictedSays
  <2>2. p[1] \notin Firsts(f) => Says(f, p) = <<>>
    BY DEF Says, Firsts
  <2> QED BY <2>1, <2>2
<1>6. \A s : s \in Firsts(OwnPart(f)) <=> s \in S
  <2>1. DOMAIN OwnPart(f) = {p \in DOMAIN f : p[1] \in S}
    BY <1>3 DEF Restricted
  <2> QED BY <2>1 DEF Firsts
<1> QED BY <1>4, <1>5, <1>6

-----------------------------------------------------------------------------
(* The shared sections. *)

\* The records of the history.
Inputs == [for : Nat, tree : Trees]

\* The calls that had a word about a path of a section, and wrote into the shared one.
Heard(p) ==
    {i \in DOMAIN inputs :
        Touches(inputs[i].tree, p) /\ p[1] \notin ReplacedBy(inputs[i].tree)}

\* The sections of the defaults stay the same ones, and dictionaries.
SharedTyped ==
    /\ shared \in Trees
    /\ Firsts(shared) = Sections
    /\ \A s \in Sections : shared[<<s>>] = Dict
    /\ inputs \in Seq(Inputs)

\* The shared sections say of a path what the last of these calls said, and what
\* the defaults say if there was none.
SharedSays ==
    \A p \in KeyPaths : p[1] \in Sections =>
        /\ Heard(p) = {} => Says(shared, p) = Says(Default, p)
        /\ \A i \in Heard(p) :
               (\A j \in Heard(p) : j <= i) => Says(shared, p) = Says(inputs[i].tree, p)

\* A call writes its tree into the shared sections, but for those it replaces.
Writes(tree, c) ==
    /\ shared' = _deep_merge(shared, IntoShared(tree))
    /\ inputs' = Append(inputs, [for |-> c, tree |-> tree])

\* The trees of the history are trees.
LEMMA InputFor ==
    ASSUME SharedTyped
    PROVE  \A i \in DOMAIN inputs : inputs[i].for \in Nat /\ inputs[i].tree \in Trees
<1> SUFFICES ASSUME NEW i \in DOMAIN inputs
             PROVE  inputs[i].for \in Nat /\ inputs[i].tree \in Trees
  OBVIOUS
<1>1. inputs[i] \in Inputs
  BY LenProperties DEF SharedTyped
<1> QED BY <1>1 DEF Inputs

\* One more entry in the history.
LEMMA NewInput ==
    ASSUME inputs \in Seq(Inputs), NEW tree \in Trees, NEW c \in Nat,
           inputs' = Append(inputs, [for |-> c, tree |-> tree])
    PROVE  /\ inputs' \in Seq(Inputs)
           /\ Len(inputs) \in Nat
           /\ DOMAIN inputs = 1..Len(inputs)
           /\ DOMAIN inputs' = DOMAIN inputs \cup {Len(inputs) + 1}
           /\ Len(inputs) + 1 \notin DOMAIN inputs
           /\ \A i \in DOMAIN inputs : inputs'[i] = inputs[i] /\ i <= Len(inputs)
           /\ inputs'[Len(inputs) + 1].for = c
           /\ inputs'[Len(inputs) + 1].tree = tree
<1>1. [for |-> c, tree |-> tree] \in Inputs
  BY DEF Inputs
<1>2. /\ inputs' \in Seq(Inputs) /\ Len(inputs') = Len(inputs) + 1
      /\ \A i \in 1..Len(inputs) : inputs'[i] = inputs[i]
      /\ inputs'[Len(inputs) + 1] = [for |-> c, tree |-> tree]
  BY <1>1, AppendProperties
<1>3. /\ Len(inputs) \in Nat
      /\ DOMAIN inputs = 1..Len(inputs)
      /\ DOMAIN inputs' = 1..Len(inputs')
  BY <1>2, LenProperties
<1>4. \A n \in Nat : 1..(n + 1) = (1..n) \cup {n + 1} /\ n + 1 \notin 1..n
  OBVIOUS
<1> QED BY <1>2, <1>3, <1>4

\* Writing keeps the types of the shared sections.
LEMMA WritesTyped ==
    ASSUME SharedTyped, NEW tree \in Trees, NEW c \in Nat, Writes(tree, c)
    PROVE  SharedTyped'
<1> DEFINE into == IntoShared(tree)
<1>1. into \in Trees
  BY RestrictedIsTree DEF IntoShared
<1>2. shared' \in Trees
  BY <1>1, MergeIsTree DEF Writes, SharedTyped
<1>3. inputs' \in Seq(Inputs)
  BY NewInput DEF Writes, SharedTyped
<1>4. /\ DOMAIN into = {p \in DOMAIN tree : p[1] \in Sections \ ReplacedBy(tree)}
      /\ \A p \in DOMAIN into : into[p] = tree[p]
  BY DEF IntoShared, Restricted
<1> HIDE DEF into
<1>5. /\ DOMAIN shared' = {p \in DOMAIN shared : ~CutShort(into, p)} \cup DOMAIN into
      /\ \A p \in DOMAIN shared' : shared'[p] = IF p \in DOMAIN into THEN into[p] ELSE shared[p]
  BY DEF Writes, _deep_merge, CutShort, into
<1>6. ASSUME NEW s \in Sections
      PROVE  <<s>> \in DOMAIN shared' /\ shared'[<<s>>] = Dict
  <2>1. <<s>> \in DOMAIN shared /\ shared[<<s>>] = Dict
    BY FirstsOf DEF SharedTyped
  <2>2. ~CutShort(into, <<s>>)
    BY <1>1, SectionFacts, NothingBelowAKey, TreeFacts DEF CutShort
  <2>3. <<s>> \in DOMAIN into => into[<<s>>] = Dict
    <3>1. <<s>>[1] = s
      OBVIOUS
    <3> QED BY <1>4, <3>1 DEF ReplacedBy
  <2> QED BY <1>5, <2>1, <2>2, <2>3
<1>7. Firsts(shared') \subseteq Sections
  <2>1. \A p \in DOMAIN shared' : p[1] \in Sections
    BY <1>4, <1>5 DEF SharedTyped, Firsts
  <2> QED BY <2>1 DEF Firsts
<1>8. Sections \subseteq Firsts(shared')
  BY <1>2, <1>6, FirstsOf
<1> QED BY <1>2, <1>3, <1>6, <1>7, <1>8 DEF SharedTyped

\* After a call has written, its word is the last one.
LEMMA WritesSays ==
    ASSUME SharedTyped, SharedSays, NEW tree \in Trees, NEW c \in Nat, Writes(tree, c)
    PROVE  SharedSays'
<1> DEFINE n == Len(inputs) + 1
           into == IntoShared(tree)
<1>1. /\ DOMAIN inputs' = DOMAIN inputs \cup {n}
      /\ n \notin DOMAIN inputs /\ n \in Nat
      /\ \A i \in DOMAIN inputs : inputs'[i] = inputs[i] /\ i <= n /\ i \in Nat
      /\ inputs'[n].tree = tree
  BY NewInput DEF Writes, SharedTyped
<1>2. into \in Trees /\ shared \in Trees /\ shared' = _deep_merge(shared, into)
  BY RestrictedIsTree DEF IntoShared, SharedTyped, Writes
<1> SUFFICES ASSUME NEW p \in KeyPaths, p[1] \in Sections
             PROVE  /\ Heard(p)' = {} => Says(shared', p) = Says(Default, p)
                    /\ \A i \in Heard(p)' : (\A j \in Heard(p)' : j <= i)
                           => Says(shared', p) = Says(inputs'[i].tree, p)
  BY DEF SharedSays
<1> DEFINE loud == Touches(tree, p) /\ p[1] \notin ReplacedBy(tree)
<1>3. /\ Touches(into, p) <=> loud
      /\ loud => Says(into, p) = Says(tree, p)
  BY RestrictedSays DEF IntoShared
<1>4. Says(shared', p) = IF loud THEN Says(tree, p) ELSE Says(shared, p)
  BY <1>2, <1>3, MergeSays
<1>5. Heard(p)' = {i \in DOMAIN inputs' :
                      Touches(inputs'[i].tree, p) /\ p[1] \notin ReplacedBy(inputs'[i].tree)}
  BY DEF Heard, Touches, CutShort, ReplacedBy
<1>6. Heard(p)' = Heard(p) \cup (IF loud THEN {n} ELSE {})
  BY <1>1, <1>5 DEF Heard
<1>7. Heard(p) \subseteq DOMAIN inputs
  BY DEF Heard
<1> HIDE DEF n, into, loud
<1>8. CASE loud
  <2>1. n \in Heard(p)' /\ Heard(p)' = Heard(p) \cup {n}
    BY <1>6, <1>8
  <2>2. ASSUME NEW i \in Heard(p)', \A j \in Heard(p)' : j <= i PROVE i = n
    <3>1. n <= i
      BY <2>1, <2>2
    <3> QED BY <1>1, <1>7, <2>1, <2>2, <3>1
  <2> QED BY <1>1, <1>4, <1>8, <2>1, <2>2
<1>9. CASE ~loud
  <2>1. Heard(p)' = Heard(p) /\ Says(shared', p) = Says(shared, p)
    BY <1>4, <1>6, <1>9
  <2>2. \A i \in Heard(p) : inputs'[i] = inputs[i]
    BY <1>1, <1>7
  <2> QED BY <2>1, <2>2 DEF SharedSays
<1> QED BY <1>8, <1>9

-----------------------------------------------------------------------------
(* The configurations. *)

\* The types of the configurations and the counters.
ConfigsTyped ==
    /\ configs \in Seq(Trees)
    /\ \A i \in DOMAIN inputs : inputs[i].for <= Len(configs)
    /\ loads \in 0..MaxLoads /\ matches \in 0..MaxMatches

\* A configuration has its own part from the call that made it; whatever else was written
\* for it is a path for a database that it shares.
MadeBy(c, i) ==
    /\ inputs[i].for = c /\ configs[c] = OwnPart(inputs[i].tree)
    /\ \A j \in DOMAIN inputs : inputs[j].for = c /\ j # i =>
           /\ "database" \notin Firsts(configs[c])
           /\ \E db \in Paths : inputs[j].tree = PathOf(db)
Made == \A c \in DOMAIN configs : \E i \in DOMAIN inputs : MadeBy(c, i)

\* The inductive invariant.
Inv == SharedTyped /\ SharedSays /\ ConfigsTyped /\ Made

\* MadeBy in the next state, with the next values of the variables.
LEMMA MadeByNext ==
    ASSUME NEW c, NEW i
    PROVE  MadeBy(c, i)' <=>
             /\ inputs'[i].for = c /\ configs'[c] = OwnPart(inputs'[i].tree)
             /\ \A j \in DOMAIN inputs' : inputs'[j].for = c /\ j # i =>
                    /\ "database" \notin Firsts(configs'[c])
                    /\ \E db \in Paths : inputs'[j].tree = PathOf(db)
  BY DEF MadeBy, Firsts, OwnPart, PathOf, IntoShared, Restricted, ReplacedBy

\* A configuration shares the sections of which it has nothing of its own.
LEMMA SharesFirsts ==
    ASSUME ConfigsTyped, NEW c \in DOMAIN configs, NEW s
    PROVE  Shares(c, s) <=> s \in Sections \ Firsts(configs[c])
<1>1. configs[c] \in Trees
  BY LenProperties DEF ConfigsTyped
<1> QED BY <1>1, FirstsOf DEF Shares

\* Before the first call the shared sections are the defaults.
LEMMA InitInv == Init => Inv
<1> SUFFICES ASSUME Init PROVE Inv
  OBVIOUS
<1>1. /\ shared = Default /\ configs = <<>> /\ inputs = <<>>
      /\ loads = 0 /\ matches = 0
      /\ DOMAIN inputs = {} /\ DOMAIN configs = {}
      /\ inputs \in Seq(Inputs) /\ configs \in Seq(Trees)
  BY DEF Init
<1>2. SharedTyped
  BY <1>1, GivenTrees, SectionFacts DEF SharedTyped
<1>3. SharedSays
  BY <1>1 DEF SharedSays, Heard
<1>4. ConfigsTyped
  BY <1>1, BoundAssumption DEF ConfigsTyped
<1>5. Made
  BY <1>1 DEF Made
<1> QED BY <1>2, <1>3, <1>4, <1>5 DEF Inv

\* load_config keeps the invariant.
LEMMA LoadKeeps ==
    ASSUME Inv, NEW file \in Files, NEW env_db \in Paths \cup {NoPath},
           load_config(file, env_db)
    PROVE  Inv'
<1> DEFINE tree == Written(file, env_db)
           c == Len(configs) + 1
           n == Len(inputs) + 1
<1>1. tree \in Trees /\ OwnPart(tree) \in Trees
  BY WrittenIsTree, OwnPartFacts
<1>2. /\ configs \in Seq(Trees) /\ Len(configs) \in Nat /\ DOMAIN configs = 1..Len(configs)
      /\ c \in Nat
  BY LenProperties DEF Inv, ConfigsTyped
<1>3. Writes(tree, c) /\ configs' = Append(configs, OwnPart(tree))
  BY DEF load_config, Writes
<1>4. SharedTyped' /\ SharedSays'
  BY <1>1, <1>2, <1>3, WritesTyped, WritesSays DEF Inv
<1>5. /\ configs' \in Seq(Trees) /\ Len(configs') = c
      /\ \A d \in 1..Len(configs) : configs'[d] = configs[d]
      /\ configs'[c] = OwnPart(tree)
  BY <1>1, <1>2, <1>3, AppendProperties
<1>6. /\ DOMAIN configs' = DOMAIN configs \cup {c} /\ c \notin DOMAIN configs
      /\ \A d \in DOMAIN configs : d <= Len(configs)
  <2>1. DOMAIN configs' = 1..(Len(configs) + 1)
    BY <1>5, LenProperties
  <2>2. \A k \in Nat : 1..(k + 1) = (1..k) \cup {k + 1} /\ k + 1 \notin 1..k
    OBVIOUS
  <2> QED BY <1>2, <2>1, <2>2
<1>7. /\ DOMAIN inputs' = DOMAIN inputs \cup {n} /\ n \notin DOMAIN inputs
      /\ \A i \in DOMAIN inputs : inputs'[i] = inputs[i]
      /\ inputs'[n].for = c /\ inputs'[n].tree = tree
  BY <1>1, <1>2, <1>3, NewInput DEF Inv, SharedTyped, Writes
<1>8. \A i \in DOMAIN inputs : inputs[i].for \in Nat /\ inputs[i].for <= Len(configs)
  BY InputFor DEF Inv, ConfigsTyped
<1> HIDE DEF tree, n
<1>9. ConfigsTyped'
  <2>1. \A i \in DOMAIN inputs' : inputs'[i].for <= Len(configs')
    BY <1>2, <1>5, <1>7, <1>8
  <2>2. loads' \in 0..MaxLoads /\ matches' \in 0..MaxMatches
    BY BoundAssumption DEF load_config, Inv, ConfigsTyped
  <2> QED BY <1>5, <2>1, <2>2 DEF ConfigsTyped
<1>10. Made'
  <2> SUFFICES ASSUME NEW d \in DOMAIN configs'
               PROVE  \E i \in DOMAIN inputs' : MadeBy(d, i)'
    BY DEF Made
  <2>1. CASE d = c
    <3>1. \A j \in DOMAIN inputs : inputs'[j].for # c
      BY <1>2, <1>7, <1>8
    <3>2. \A j \in DOMAIN inputs' : ~(inputs'[j].for = d /\ j # n)
      BY <1>7, <2>1, <3>1
    <3> QED BY <1>5, <1>7, <2>1, <3>2, MadeByNext
  <2>2. CASE d \in DOMAIN configs
    <3>1. PICK i \in DOMAIN inputs : MadeBy(d, i)
      BY <2>2 DEF Inv, Made
    <3>2. configs'[d] = configs[d] /\ d # c
      BY <1>2, <1>5, <1>6, <2>2
    <3>3. i \in DOMAIN inputs' /\ inputs'[i] = inputs[i]
      BY <1>7
    <3>4. ASSUME NEW j \in DOMAIN inputs', inputs'[j].for = d, j # i
          PROVE  /\ "database" \notin Firsts(configs'[d])
                 /\ \E db \in Paths : inputs'[j].tree = PathOf(db)
      <4>1. j \in DOMAIN inputs /\ inputs'[j] = inputs[j]
        BY <1>7, <3>2, <3>4
      <4> QED BY <3>1, <3>2, <3>4, <4>1 DEF MadeBy
    <3> QED BY <3>1, <3>2, <3>3, <3>4, MadeByNext DEF MadeBy
  <2> QED BY <1>6, <2>1, <2>2
<1> QED BY <1>4, <1>9, <1>10 DEF Inv

\* A call that raises leaves the configurations alone.
LEMMA RaisesKeeps ==
    ASSUME Inv, NEW file \in Files, NEW env_db \in Paths \cup {NoPath},
           load_config_raises(file, env_db)
    PROVE  Inv'
<1> DEFINE n == Len(inputs) + 1
<1>1. file \in Trees
  BY GivenTrees
<1>2. /\ configs \in Seq(Trees) /\ Len(configs) \in Nat /\ DOMAIN configs = 1..Len(configs)
      /\ configs' = configs
  BY LenProperties DEF Inv, ConfigsTyped, load_config_raises
<1>3. Writes(file, 0) /\ inputs' = Append(inputs, [for |-> 0, tree |-> file])
  BY DEF load_config_raises, Writes
<1>4. SharedTyped' /\ SharedSays'
  BY <1>1, <1>3, WritesTyped, WritesSays DEF Inv
<1>5. /\ DOMAIN inputs' = DOMAIN inputs \cup {n}
      /\ \A i \in DOMAIN inputs : inputs'[i] = inputs[i]
      /\ inputs'[n].for = 0
  BY <1>1, <1>3, NewInput DEF Inv, SharedTyped
<1> HIDE DEF n
<1>6. ConfigsTyped'
  <2>1. \A i \in DOMAIN inputs' : inputs'[i].for <= Len(configs')
    BY <1>2, <1>5 DEF Inv, ConfigsTyped
  <2>2. loads' \in 0..MaxLoads /\ matches' \in 0..MaxMatches
    BY BoundAssumption DEF load_config_raises, Inv, ConfigsTyped
  <2> QED BY <1>2, <2>1, <2>2 DEF ConfigsTyped
<1>7. Made'
  <2> SUFFICES ASSUME NEW d \in DOMAIN configs'
               PROVE  \E i \in DOMAIN inputs' : MadeBy(d, i)'
    BY DEF Made
  <2>0. d \in DOMAIN configs /\ configs'[d] = configs[d]
    BY <1>2
  <2>1. PICK i \in DOMAIN inputs : MadeBy(d, i)
    BY <2>0 DEF Inv, Made
  <2>2. d # 0 /\ i \in DOMAIN inputs' /\ inputs'[i] = inputs[i]
    BY <1>2, <1>5, <2>0
  <2>3. ASSUME NEW j \in DOMAIN inputs', inputs'[j].for = d, j # i
        PROVE  /\ "database" \notin Firsts(configs[d])
               /\ \E db \in Paths : inputs'[j].tree = PathOf(db)
    <3>1. j \in DOMAIN inputs /\ inputs'[j] = inputs[j]
      BY <1>5, <2>2, <2>3
    <3> QED BY <2>1, <2>3, <3>1 DEF MadeBy
  <2> QED BY <2>0, <2>1, <2>2, <2>3, MadeByNext DEF MadeBy
<1> QED BY <1>4, <1>6, <1>7 DEF Inv

\* --db writes for the configuration loaded last, into a section that one shares.
LEMMA MatchKeeps ==
    ASSUME Inv, NEW db \in Paths, match(db)
    PROVE  Inv'
<1> DEFINE n == Len(inputs) + 1
           c == Len(configs)
<1>1. PathOf(db) \in Trees /\ IntoShared(PathOf(db)) = PathOf(db)
  BY PathOfFacts
<1>2. /\ configs \in Seq(Trees) /\ c \in Nat /\ DOMAIN configs = 1..Len(configs)
      /\ configs' = configs /\ c > 0
  BY LenProperties DEF Inv, ConfigsTyped, match
<1>3. Writes(PathOf(db), c) /\ inputs' = Append(inputs, [for |-> c, tree |-> PathOf(db)])
  BY <1>1 DEF match, Writes
<1>4. SharedTyped' /\ SharedSays'
  BY <1>1, <1>2, <1>3, WritesTyped, WritesSays DEF Inv
<1>5. /\ DOMAIN inputs' = DOMAIN inputs \cup {n} /\ n \notin DOMAIN inputs
      /\ \A i \in DOMAIN inputs : inputs'[i] = inputs[i]
      /\ inputs'[n].for = c /\ inputs'[n].tree = PathOf(db)
  BY <1>1, <1>2, <1>3, NewInput DEF Inv, SharedTyped
<1>6. "database" \notin Firsts(configs[c])
  <2>1. c \in DOMAIN configs
    BY <1>2
  <2>2. Shares(c, "database")
    BY DEF match
  <2> HIDE DEF c
  <2> QED BY <2>1, <2>2, SharesFirsts DEF Inv
<1> HIDE DEF n
<1>7. ConfigsTyped'
  <2>1. \A i \in DOMAIN inputs' : inputs'[i].for <= Len(configs')
    BY <1>2, <1>5 DEF Inv, ConfigsTyped
  <2>2. loads' \in 0..MaxLoads /\ matches' \in 0..MaxMatches
    BY BoundAssumption DEF match, Inv, ConfigsTyped
  <2> QED BY <1>2, <2>1, <2>2 DEF ConfigsTyped
<1>8. Made'
  <2> SUFFICES ASSUME NEW d \in DOMAIN configs'
               PROVE  \E i \in DOMAIN inputs' : MadeBy(d, i)'
    BY DEF Made
  <2>0. d \in DOMAIN configs /\ configs'[d] = configs[d]
    BY <1>2
  <2>1. PICK i \in DOMAIN inputs : MadeBy(d, i)
    BY <2>0 DEF Inv, Made
  <2>2. i \in DOMAIN inputs' /\ inputs'[i] = inputs[i]
    BY <1>5
  <2>3. ASSUME NEW j \in DOMAIN inputs', inputs'[j].for = d, j # i
        PROVE  /\ "database" \notin Firsts(configs[d])
               /\ \E e \in Paths : inputs'[j].tree = PathOf(e)
    <3>1. CASE j \in DOMAIN inputs
      <4>1. inputs'[j] = inputs[j]
        BY <1>5, <3>1
      <4> QED BY <2>1, <2>3, <3>1, <4>1 DEF MadeBy
    <3>2. CASE j = n
      BY <1>5, <1>6, <2>3, <3>2
    <3> QED BY <1>5, <3>1, <3>2
  <2> QED BY <2>0, <2>1, <2>2, <2>3, MadeByNext DEF MadeBy
<1> QED BY <1>4, <1>7, <1>8 DEF Inv

\* Every step does.
LEMMA StepInv == Inv /\ [Next]_vars => Inv'
<1> SUFFICES ASSUME Inv, [Next]_vars PROVE Inv'
  OBVIOUS
<1>1. ASSUME NEW file \in Files, NEW env_db \in Paths \cup {NoPath}, load_config(file, env_db)
      PROVE  Inv'
  BY <1>1, LoadKeeps
<1>2. ASSUME NEW file \in Files, NEW env_db \in Paths \cup {NoPath},
             load_config_raises(file, env_db)
      PROVE  Inv'
  BY <1>2, RaisesKeeps
<1>3. ASSUME NEW db \in Paths, match(db) PROVE Inv'
  BY <1>3, MatchKeeps
<1>4. CASE UNCHANGED vars
  <2>1. UNCHANGED <<shared, configs, inputs, loads, matches>>
    BY <1>4 DEF vars
  <2>2. SharedTyped'
    BY <2>1 DEF Inv, SharedTyped, Firsts
  <2>3. SharedSays'
    <3>1. \A p \in KeyPaths : Heard(p)' = Heard(p)
      BY <2>1 DEF Heard, Touches, CutShort, ReplacedBy
    <3> SUFFICES ASSUME NEW p \in KeyPaths, p[1] \in Sections
                 PROVE  /\ Heard(p)' = {} => Says(shared', p) = Says(Default, p)
                        /\ \A i \in Heard(p)' : (\A j \in Heard(p)' : j <= i)
                               => Says(shared', p) = Says(inputs'[i].tree, p)
      BY DEF SharedSays
    <3> QED BY <2>1, <3>1 DEF Inv, SharedSays
  <2>4. ConfigsTyped'
    BY <2>1 DEF Inv, ConfigsTyped
  <2>5. Made'
    <3> SUFFICES ASSUME NEW d \in DOMAIN configs'
                 PROVE  \E i \in DOMAIN inputs' : MadeBy(d, i)'
      BY DEF Made
    <3> QED BY <2>1, MadeByNext DEF Inv, Made, MadeBy
  <2> QED BY <2>2, <2>3, <2>4, <2>5 DEF Inv
<1> QED BY <1>1, <1>2, <1>3, <1>4 DEF Next

\* It always holds.
LEMMA Invariant == Spec => []Inv
  BY InitInv, StepInv, PTL DEF Spec

-----------------------------------------------------------------------------
(* The theorems. *)

\* What a configuration says: of a path of a section it shares, what the shared section
\* says; else what its own part says.
LEMMA ViewSays ==
    ASSUME Inv, NEW c \in DOMAIN configs
    PROVE  /\ configs[c] \in Trees /\ View(c) \in Trees
           /\ \A p \in KeyPaths :
                  Says(View(c), p) = IF Shares(c, p[1]) THEN Says(shared, p)
                                     ELSE Says(configs[c], p)
<1> DEFINE own == configs[c]
           S == Sections \ Firsts(own)
<1>1. own \in Trees /\ shared \in Trees
  BY LenProperties DEF Inv, ConfigsTyped, SharedTyped
<1>2. View(c) = _deep_merge(Restricted(shared, S), own) /\ Restricted(shared, S) \in Trees
  BY <1>1, RestrictedIsTree DEF View, Firsts
<1>3. \A s : Shares(c, s) <=> s \in S
  BY SharesFirsts DEF Inv
<1>4. ASSUME NEW p \in KeyPaths
      PROVE  Says(View(c), p) = IF p[1] \in S THEN Says(shared, p) ELSE Says(own, p)
  <2>1. Says(View(c), p) = IF Touches(own, p) THEN Says(own, p)
                           ELSE IF p[1] \in S THEN Says(shared, p) ELSE <<>>
    BY <1>1, <1>2, MergeSays, RestrictedSays
  <2>2. Touches(own, p) => p[1] \in Firsts(own)
    BY <1>1, TouchedFirst, FirstsOf
  <2>3. ~Touches(own, p) => Says(own, p) = <<>>
    BY DEF Touches, Says
  <2> QED BY <2>1, <2>2, <2>3
<1> HIDE DEF S
<1>5. View(c) \in Trees
  BY <1>1, <1>2, MergeIsTree
<1> QED BY <1>1, <1>3, <1>4, <1>5

\* Dictionaries stay dictionaries: nothing a file, the environment or --db says puts
\* anything below what is no dictionary, takes a section from the defaults, or makes
\* something else of one.
THEOREM TypeCorrect == Spec => []TypeOK
<1>1. Inv => TypeOK
  <2> SUFFICES ASSUME Inv PROVE TypeOK
    OBVIOUS
  <2>1. IsTree(shared) /\ (\A s \in Sections : shared[<<s>>] = Dict)
    BY DEF Inv, SharedTyped, Trees
  <2>2. {p[1] : p \in DOMAIN shared} = Sections
    BY DEF Inv, SharedTyped, Firsts
  <2>3. \A c \in DOMAIN configs : IsTree(configs[c]) /\ IsTree(View(c))
    BY ViewSays DEF Trees
  <2>4. ASSUME NEW i \in DOMAIN inputs
        PROVE  inputs[i].for \in 0..Len(configs) /\ IsTree(inputs[i].tree)
    <3>1. inputs[i].for \in Nat /\ inputs[i].tree \in Trees
      BY InputFor DEF Inv
    <3>2. inputs[i].for <= Len(configs) /\ Len(configs) \in Nat
      BY LenProperties DEF Inv, ConfigsTyped
    <3> QED BY <3>1, <3>2 DEF Trees
  <2>5. loads \in 0..MaxLoads /\ matches \in 0..MaxMatches
    BY DEF Inv, ConfigsTyped
  <2> QED BY <2>1, <2>2, <2>3, <2>4, <2>5 DEF TypeOK
<1> QED BY <1>1, Invariant, PTL

\* Among finitely many calls there is a last one.
LEMMA LastExists ==
    ASSUME NEW n \in Nat, NEW S, S \subseteq 1..n, S # {}
    PROVE  Max(S) \in S /\ \A j \in S : j <= Max(S)
<1> DEFINE R == {ss \in Nat \X Nat : ss[1] < ss[2]}
           D == {n - i : i \in S}
<1>1. IsWellFoundedOn(R, Nat)
  BY NatLessThanWellFounded DEF OpToRel
<1>2. D \subseteq Nat /\ D # {}
  <2>1. \A i \in 1..n : n - i \in Nat
    OBVIOUS
  <2>2. \E i \in S : n - i \in D
    OBVIOUS
  <2> QED BY <2>1, <2>2
<1> HIDE DEF R, D
<1>3. PICK x \in D : \A y \in D : ~ (<<y, x>> \in R)
  BY <1>1, <1>2, WFMin
<1>4. \A y \in D : x \in Nat /\ y \in Nat /\ ~(y < x)
  BY <1>2, <1>3 DEF R
<1>5. PICK i \in S : x = n - i
  BY <1>3 DEF D
<1>6. ASSUME NEW j \in S PROVE i >= j
  <2>1. n - j \in D
    BY DEF D
  <2>2. ~(n - j < n - i) /\ i \in Nat /\ j \in Nat
    BY <1>4, <1>5, <2>1
  <2> QED BY <2>2
<1>7. Max(S) \in S /\ \A j \in S : Max(S) >= j
  BY <1>5, <1>6 DEF Max
<1>8. ASSUME NEW j \in S PROVE j <= Max(S)
  <2>1. \A k \in S : k \in Nat
    OBVIOUS
  <2>2. j \in Nat /\ Max(S) \in Nat /\ Max(S) >= j
    BY <1>7, <2>1
  <2> QED BY <2>2
<1> QED BY <1>7, <1>8

\* What the last call heard says, or the default.
LastWord(heard, p) == Says(IF heard = {} THEN Default ELSE inputs[Max(heard)].tree, p)

\* The last word counts, the sections of the defaults being shared by all calls.  The
\* argument: in a section that configuration c shares, what it says is what the shared
\* section says (ViewSays), the calls heard are all that wrote into that section, and the
\* last of them counts there (SharedSays).  In another place its own part says what the
\* call that made it said, and no other call for it had a word there (Made).
THEOREM LastWordCorrect == Spec => []LastWordCounts
<1>1. Inv => LastWordCounts
  <2> SUFFICES ASSUME Inv, NEW c \in DOMAIN configs,
                      NEW p \in DOMAIN Default \cup DOMAIN View(c)
                                    \cup UNION {DOMAIN inputs[i].tree : i \in DOMAIN inputs}
               PROVE  LET heard == {i \in DOMAIN inputs :
                                      /\ p \in DOMAIN inputs[i].tree \/ CutShort(inputs[i].tree, p)
                                      /\ \/ inputs[i].for = c
                                         \/ /\ Shares(c, p[1])
                                            /\ p[1] \notin ReplacedBy(inputs[i].tree)}
                      IN  Says(View(c), p)
                            = Says(IF heard = {} THEN Default ELSE inputs[Max(heard)].tree, p)
    BY DEF LastWordCounts
  <2> DEFINE heard == {i \in DOMAIN inputs :
                          /\ Touches(inputs[i].tree, p)
                          /\ \/ inputs[i].for = c
                             \/ Shares(c, p[1]) /\ p[1] \notin ReplacedBy(inputs[i].tree)}
  <2> SUFFICES Says(View(c), p) = LastWord(heard, p)
    BY DEF LastWord, Touches
  <2>1. p \in KeyPaths
    <3>1. \A f \in Trees : DOMAIN f \subseteq KeyPaths
      BY TreeFacts
    <3>2. View(c) \in Trees /\ Default \in Trees
      BY ViewSays, GivenTrees
    <3>3. \A i \in DOMAIN inputs : inputs[i].tree \in Trees
      BY InputFor DEF Inv
    <3>4. p \in DOMAIN Default \/ p \in DOMAIN View(c)
              \/ \E i \in DOMAIN inputs : p \in DOMAIN inputs[i].tree
      OBVIOUS
    <3> QED BY <3>1, <3>2, <3>3, <3>4
  <2>2. PICK m \in DOMAIN inputs : MadeBy(c, m)
    BY DEF Inv, Made
  <2>3. inputs[m].tree \in Trees /\ configs[c] \in Trees
    BY InputFor, ViewSays DEF Inv
  <2>4. Shares(c, p[1]) <=> p[1] \in Sections /\ p[1] \notin Firsts(configs[c])
    BY SharesFirsts DEF Inv
  <2>5. \A s : s \in Firsts(configs[c]) <=>
                   /\ s \in Firsts(inputs[m].tree)
                   /\ s \notin Sections \ ReplacedBy(inputs[m].tree)
    BY <2>2, <2>3, OwnPartFacts DEF MadeBy
  <2>6. ASSUME NEW s \in ReplacedBy(inputs[m].tree) PROVE s \in Firsts(configs[c])
    <3>1. <<s>> \in DOMAIN inputs[m].tree
      BY DEF ReplacedBy
    <3>2. s \in Firsts(inputs[m].tree)
      BY <2>3, <3>1, FirstsOf
    <3> QED BY <2>5, <3>2
  <2>7. CASE Shares(c, p[1])
    <3>1. ASSUME NEW i \in DOMAIN inputs, inputs[i].for = c
          PROVE  p[1] \notin ReplacedBy(inputs[i].tree)
      <4>1. CASE i = m
        BY <2>4, <2>6, <2>7, <4>1
      <4>2. CASE i # m
        BY <2>2, <3>1, <4>2, PathOfFacts DEF MadeBy
      <4> QED BY <4>1, <4>2
    <3>2. heard = Heard(p)
      BY <2>7, <3>1 DEF Heard
    <3>3. Says(View(c), p) = Says(shared, p)
      BY <2>1, <2>7, ViewSays
    <3>4. p[1] \in Sections
      BY <2>4, <2>7
    <3>5. CASE heard = {}
      BY <2>1, <3>2, <3>3, <3>4, <3>5 DEF Inv, SharedSays, LastWord
    <3>6. CASE heard # {}
      <4>1. Len(inputs) \in Nat /\ Heard(p) \subseteq 1..Len(inputs)
        BY LenProperties DEF Heard, Inv, SharedTyped
      <4>2. Max(Heard(p)) \in Heard(p) /\ \A j \in Heard(p) : j <= Max(Heard(p))
        BY <3>2, <3>6, <4>1, LastExists
      <4>3. Says(shared, p) = Says(inputs[Max(Heard(p))].tree, p)
        BY <2>1, <3>4, <4>2 DEF Inv, SharedSays
      <4> HIDE DEF heard
      <4> QED BY <3>2, <3>3, <3>6, <4>3 DEF LastWord
    <3> QED BY <3>5, <3>6
  <2>8. CASE ~Shares(c, p[1])
    <3>1. Says(View(c), p) = Says(configs[c], p)
      BY <2>1, <2>8, ViewSays
    <3>2. ASSUME NEW j \in DOMAIN inputs, inputs[j].for = c, j # m
          PROVE  ~Touches(inputs[j].tree, p)
      <4>1. PICK db \in Paths : inputs[j].tree = PathOf(db)
        BY <2>2, <3>2 DEF MadeBy
      <4>2. "database" \in Sections /\ "database" \notin Firsts(configs[c])
        BY <2>2, <3>2, SectionFacts DEF MadeBy
      <4>3. Touches(PathOf(db), p) => p[1] = "database"
        BY <2>1, PathOfFacts, TouchedFirst, FirstsOf
      <4> QED BY <2>4, <2>8, <4>1, <4>2, <4>3
    <3>3. heard = IF Touches(inputs[m].tree, p) THEN {m} ELSE {}
      BY <2>2, <2>8, <3>2 DEF MadeBy
    <3>4. \/ p[1] \notin Sections
          \/ p[1] \in Sections /\ p[1] \in ReplacedBy(inputs[m].tree)
      BY <2>4, <2>5, <2>8
    <3>5. Says(configs[c], p) = Says(inputs[m].tree, p)
      BY <2>1, <2>2, <2>3, <3>4, OwnPartFacts DEF MadeBy
    <3>6. CASE Touches(inputs[m].tree, p)
      <4>1. heard = {m} /\ Max({m}) = m
        <5>1. m \in Nat
          BY LenProperties DEF Inv, SharedTyped
        <5> QED BY <3>3, <3>6, <5>1 DEF Max
      <4> HIDE DEF heard
      <4> QED BY <3>1, <3>5, <4>1 DEF LastWord
    <3>7. CASE ~Touches(inputs[m].tree, p)
      <4>1. Says(inputs[m].tree, p) = <<>>
        BY <3>7 DEF Says, Touches
      <4>2. p[1] \notin ReplacedBy(inputs[m].tree)
        <5>1. SUFFICES ASSUME p[1] \in ReplacedBy(inputs[m].tree) PROVE FALSE
          OBVIOUS
        <5>2. <<p[1]>> \in DOMAIN inputs[m].tree /\ inputs[m].tree[<<p[1]>>] # Dict
          BY <5>1 DEF ReplacedBy
        <5>3. p = <<p[1]>> \/ IsStrictPrefix(<<p[1]>>, p)
          BY <2>1, FirstKey
        <5> QED BY <3>7, <5>2, <5>3 DEF Touches, CutShort
      <4>3. p \notin DOMAIN Default
        BY <3>4, <4>2 DEF Sections
      <4>4. heard = {} /\ Says(Default, p) = <<>>
        BY <3>3, <3>7, <4>3 DEF Says
      <4> HIDE DEF heard
      <4> QED BY <3>1, <3>5, <4>1, <4>4 DEF LastWord
    <3> QED BY <3>6, <3>7
  <2> QED BY <2>7, <2>8
<1> QED BY <1>1, Invariant, PTL

-----------------------------------------------------------------------------
(* SettlementTracker: types. *)

\* What Put makes of a function: its domain and its values.
LEMMA PutIs ==
    ASSUME NEW f, NEW id, NEW value
    PROVE  /\ DOMAIN Put(f, id, value) = DOMAIN f \cup {id}
           /\ Put(f, id, value)[id] = value
           /\ \A k \in DOMAIN f : k # id => Put(f, id, value)[k] = f[k]
  BY DEF Put

\* Put keeps the type of a function.
LEMMA PutTyped ==
    ASSUME NEW S, NEW f, f \in [DOMAIN f -> S], NEW id, NEW value \in S
    PROVE  Put(f, id, value) \in [DOMAIN f \cup {id} -> S]
  BY DEF Put

\* A record written now is a record.
LEMMA WrittenTyped ==
    ASSUME now \in Time, NEW s \in SettlementStatus
    PROVE  [status |-> s, last_updated_ns |-> now] \in SettlementRecord
  BY DEF SettlementRecord

\* What the history of a write becomes: the instant of the write, or a later one.
LEMMA TouchIs ==
    ASSUME STTypeOK, NEW id \in TradeIds, Touch(id)
    PROVE  /\ touched_at' \in [DOMAIN records \cup {id} -> Time]
           /\ \/ touched_at'[id] = now
              \/ id \in DOMAIN records /\ touched_at[id] > now /\ touched_at'[id] = touched_at[id]
           /\ \A k \in DOMAIN records : k # id => touched_at'[k] = touched_at[k]
<1>1. now \in Time /\ touched_at \in [DOMAIN records -> Time] /\ DOMAIN touched_at = DOMAIN records
  BY DEF STTypeOK
<1>2. CASE id \in DOMAIN touched_at /\ touched_at[id] > now
  <2>1. touched_at' = touched_at /\ DOMAIN records \cup {id} = DOMAIN records
    BY <1>1, <1>2 DEF Touch
  <2> QED
    BY <1>1, <1>2, <2>1
<1>3. CASE ~(id \in DOMAIN touched_at /\ touched_at[id] > now)
  <2>1. touched_at' = Put(touched_at, id, now)
    BY <1>3 DEF Touch
  <2>2. Put(touched_at, id, now) \in [DOMAIN touched_at \cup {id} -> Time]
    BY <1>1, PutTyped
  <2>3. touched_at'[id] = now /\ \A k \in DOMAIN touched_at : k # id => touched_at'[k] = touched_at[k]
    BY <2>1 DEF Put
  <2> QED
    BY <1>1, <2>1, <2>2, <2>3
<1> QED
  BY <1>2, <1>3

\* No record exists before a trade is tracked.
LEMMA TrackerTypeInit == STInit => STTypeOK
  BY DEF STInit, STTypeOK

\* Tracking keeps the types.
LEMMA TrackTyped ==
    ASSUME STTypeOK, NEW id \in TradeIds, NEW s \in SettlementStatus,
           track_settlement(id, s)
    PROVE  STTypeOK'
<1>1. /\ now \in Time /\ now' = now /\ set_back' = set_back /\ Touch(id)
      /\ records' = Put(records, id, [status |-> s, last_updated_ns |-> now])
      /\ had' = Put(had, id, {s})
      /\ tracked_at' = IF id \in DOMAIN records THEN tracked_at ELSE Put(tracked_at, id, now)
  BY DEF STTypeOK, track_settlement, Write
<1>2. /\ records \in [DOMAIN records -> SettlementRecord]
      /\ tracked_at \in [DOMAIN records -> Time]
      /\ had \in [DOMAIN records -> SUBSET SettlementStatus]
      /\ DOMAIN tracked_at = DOMAIN records /\ DOMAIN had = DOMAIN records
  BY DEF STTypeOK
<1>3. DOMAIN records' = DOMAIN records \cup {id}
  BY <1>1, PutIs
<1>4. records' \in [DOMAIN records' -> SettlementRecord]
  BY <1>1, <1>2, <1>3, PutTyped, WrittenTyped
<1>5. had' \in [DOMAIN records' -> SUBSET SettlementStatus]
  <2>1. {s} \in SUBSET SettlementStatus
    OBVIOUS
  <2> QED
    <3>1. Put(had, id, {s}) \in [DOMAIN had \cup {id} -> SUBSET SettlementStatus]
      BY <1>2, <2>1, PutTyped
    <3> QED
      BY <3>1, <1>1, <1>2, <1>3
<1>6. tracked_at' \in [DOMAIN records' -> Time]
  <2>1. CASE id \in DOMAIN records
    <3>1. DOMAIN records' = DOMAIN records
      BY <2>1, <1>3
    <3> QED
      BY <2>1, <3>1, <1>1, <1>2
  <2>2. CASE id \notin DOMAIN records
    <3>1. tracked_at' = Put(tracked_at, id, now)
      BY <2>2, <1>1
    <3>2. Put(tracked_at, id, now) \in [DOMAIN tracked_at \cup {id} -> Time]
      BY <1>1, <1>2, PutTyped
    <3> QED
      BY <3>1, <3>2, <1>2, <1>3
  <2> QED
    BY <2>1, <2>2
<1>7. touched_at' \in [DOMAIN records' -> Time]
  BY <1>1, <1>3, TouchIs
<1>8. now' \in Time /\ set_back' \in BOOLEAN /\ DOMAIN records' \subseteq TradeIds
  BY <1>1, <1>3 DEF STTypeOK
<1> QED
  BY <1>4, <1>5, <1>6, <1>7, <1>8 DEF STTypeOK

\* An accepted update keeps the types.
LEMMA UpdateTyped ==
    ASSUME STTypeOK, NEW id \in TradeIds, NEW s \in SettlementStatus,
           update_status(id, s)
    PROVE  STTypeOK'
<1>1. /\ id \in DOMAIN records /\ now \in Time /\ now' = now /\ tracked_at' = tracked_at
      /\ set_back' = set_back /\ Touch(id)
      /\ records' = Put(records, id, [status |-> s, last_updated_ns |-> now])
      /\ had' = [had EXCEPT ![id] = @ \cup {s}]
  BY DEF STTypeOK, update_status, Write
<1>2. DOMAIN records' = DOMAIN records
  BY <1>1 DEF Put
<1>3. records' \in [DOMAIN records' -> SettlementRecord]
  <2>1. records \in [DOMAIN records -> SettlementRecord]
    BY DEF STTypeOK
  <2>2. DOMAIN records' = DOMAIN records \cup {id}
    BY <1>1, PutIs
  <2> QED
    BY <1>1, <2>1, <2>2, PutTyped, WrittenTyped
<1>4. touched_at' \in [DOMAIN records' -> Time]
  <2>1. DOMAIN records \cup {id} = DOMAIN records'
    BY <1>1, <1>2
  <2> QED
    BY <1>1, <2>1, TouchIs
<1> QED
  BY <1>1, <1>2, <1>3, <1>4 DEF STTypeOK

\* Every step keeps the types.
LEMMA TrackerTypeStep ==
    ASSUME STTypeOK, [STNext]_STvars
    PROVE  STTypeOK'
<1>1. CASE UNCHANGED STvars
  BY <1>1 DEF STTypeOK, STvars, history
<1>2. CASE \E id \in TradeIds, s \in SettlementStatus : track_settlement(id, s)
  BY <1>2, TrackTyped
<1>3. CASE \E id \in TradeIds, s \in SettlementStatus : update_status(id, s)
  BY <1>3, UpdateTyped
<1>4. CASE ClockAdvances
  BY <1>4, MaxTimeAssumption DEF ClockAdvances, STTypeOK, history, Time
<1>5. CASE ClockIsSetBack
  BY <1>5 DEF ClockIsSetBack, STTypeOK, history
<1> QED
  BY <1>1, <1>2, <1>3, <1>4, <1>5 DEF STNext

\* The variables keep their types: there is a history for exactly the trades that
\* have a record.
THEOREM TrackerTypeCorrect == STSpec => []STTypeOK
<1>1. STTypeOK /\ [STNext]_STvars => STTypeOK'
  BY TrackerTypeStep
<1> QED
  BY <1>1, TrackerTypeInit, PTL DEF STSpec

-----------------------------------------------------------------------------
(* SettlementTracker: the life cycle. *)

\* What Next does to one record: it is written by tracking, written by an update
\* that is not refused, or left alone with its history.
LEMMA RecordEffect ==
    ASSUME STTypeOK, [STNext]_STvars, NEW k \in DOMAIN records'
    PROVE  \/ /\ k \in DOMAIN records
              /\ records'[k] = records[k] /\ had'[k] = had[k]
           \/ \E s \in SettlementStatus :
                 records'[k].status = s /\ had'[k] = {s}
           \/ \E s \in SettlementStatus :
                 /\ k \in DOMAIN records /\ ~Refused(records[k].status, s)
                 /\ records'[k].status = s /\ had'[k] = had[k] \cup {s}
<1>1. CASE UNCHANGED <<records, had>>
  BY <1>1
<1>2. CASE \E id \in TradeIds, s \in SettlementStatus : track_settlement(id, s)
  <2>1. PICK id \in TradeIds, s \in SettlementStatus : track_settlement(id, s)
    BY <1>2
  <2>2. /\ records' = Put(records, id, [status |-> s, last_updated_ns |-> now])
        /\ had' = Put(had, id, {s})
    BY <2>1 DEF track_settlement, Write
  <2>3. CASE k = id
    BY <2>2, <2>3 DEF Put
  <2>4. CASE k # id
    <3>1. k \in DOMAIN records /\ k \in DOMAIN had
      BY <2>2, <2>4 DEF STTypeOK, Put
    <3> QED
      BY <2>2, <2>4, <3>1 DEF Put
  <2> QED
    BY <2>3, <2>4
<1>3. CASE \E id \in TradeIds, s \in SettlementStatus : update_status(id, s)
  <2>1. PICK id \in TradeIds, s \in SettlementStatus : update_status(id, s)
    BY <1>3
  <2>2. /\ records' = Put(records, id, [status |-> s, last_updated_ns |-> now])
        /\ had' = [had EXCEPT ![id] = @ \cup {s}]
        /\ id \in DOMAIN records /\ ~Refused(records[id].status, s)
    BY <2>1 DEF update_status, Write
  <2>3. k \in DOMAIN records /\ DOMAIN had = DOMAIN records
    BY <2>2 DEF STTypeOK, Put
  <2>4. CASE k = id
    BY <2>2, <2>3, <2>4 DEF Put
  <2>5. CASE k # id
    BY <2>2, <2>3, <2>5 DEF Put
  <2> QED
    BY <2>4, <2>5
<1>4. CASE ClockAdvances \/ ClockIsSetBack
  BY <1>4 DEF ClockAdvances, ClockIsSetBack, history
<1> QED
  BY <1>1, <1>2, <1>3, <1>4 DEF STNext, STvars, history

\* The statuses a trade has had are no more than the three tests of update_status
\* allow, whatever way it took.
LEMMA LifeStep ==
    STTypeOK /\ OnlyTrackingRevives /\ [STNext]_STvars
        => OnlyTrackingRevives'
<1> SUFFICES ASSUME STTypeOK, OnlyTrackingRevives,
                    [STNext]_STvars, NEW k \in DOMAIN records'
             PROVE  /\ had'[k] \cap {"Settled", "BuyIn"} \subseteq {records'[k].status}
                    /\ records'[k].status = "Pending" => had'[k] = {"Pending"}
  BY DEF OnlyTrackingRevives
<1>1. CASE k \in DOMAIN records /\ records'[k] = records[k] /\ had'[k] = had[k]
  BY <1>1 DEF OnlyTrackingRevives
<1>2. CASE \E s \in SettlementStatus : records'[k].status = s /\ had'[k] = {s}
  BY <1>2
<1>3. CASE \E s \in SettlementStatus :
              /\ k \in DOMAIN records /\ ~Refused(records[k].status, s)
              /\ records'[k].status = s /\ had'[k] = had[k] \cup {s}
  <2>1. PICK s \in SettlementStatus :
              /\ k \in DOMAIN records /\ ~Refused(records[k].status, s)
              /\ records'[k].status = s /\ had'[k] = had[k] \cup {s}
    BY <1>3
  <2>2. had[k] \cap {"Settled", "BuyIn"} = {}
    BY <2>1 DEF OnlyTrackingRevives, Refused
  <2>3. s = "Pending" => had[k] = {"Pending"}
    BY <2>1 DEF OnlyTrackingRevives, Refused
  <2> QED
    BY <2>1, <2>2, <2>3
<1> QED
  BY <1>1, <1>2, <1>3, RecordEffect

\* Settled and bought-in trades stay so, and no trade becomes pending again, until
\* they are tracked anew: for any number of trades and updates.
THEOREM OnlyTracking == STSpec => []OnlyTrackingRevives
<1>1. STInit => OnlyTrackingRevives
  BY DEF STInit, OnlyTrackingRevives
<1> QED
  BY <1>1, LifeStep, TrackerTypeCorrect, PTL DEF STSpec

-----------------------------------------------------------------------------
(* SettlementTracker: the flags. *)

\* What the flags rest on: a time stamp is no later than the last write in time, and as
\* long as the clock is not set back it is the instant of that write, which is past.
StampsTell ==
    \A id \in DOMAIN records :
        /\ records[id].last_updated_ns <= touched_at[id]
        /\ ~set_back => /\ records[id].last_updated_ns = touched_at[id]
                        /\ touched_at[id] <= now

\* Instants are numbers.
LEMMA TimeIsNumber == Time \subseteq Int
  BY DEF Time

\* A write keeps it: it stamps its own record only.
LEMMA WriteStamps ==
    ASSUME STTypeOK, StampsTell, NEW id \in TradeIds, NEW s \in SettlementStatus,
           Write(id, s), UNCHANGED <<now, set_back>>
    PROVE  StampsTell'
<1> SUFFICES ASSUME NEW k \in DOMAIN records'
             PROVE  /\ records'[k].last_updated_ns <= touched_at'[k]
                    /\ ~set_back => /\ records'[k].last_updated_ns = touched_at'[k]
                                    /\ touched_at'[k] <= now
  BY DEF StampsTell
<1>1. /\ records' = Put(records, id, [status |-> s, last_updated_ns |-> now])
      /\ DOMAIN records' = DOMAIN records \cup {id} /\ now \in Int
  BY PutIs, TimeIsNumber DEF Write, STTypeOK
<1>2. /\ \/ touched_at'[id] = now
         \/ id \in DOMAIN records /\ touched_at[id] > now /\ touched_at'[id] = touched_at[id]
      /\ \A j \in DOMAIN records : j # id => touched_at'[j] = touched_at[j]
  BY TouchIs DEF Write
<1>3. CASE k = id
  <2>1. records'[k].last_updated_ns = now
    BY <1>1, <1>3 DEF Put
  <2>2. CASE touched_at'[id] = now
    BY <1>1, <1>3, <2>1, <2>2
  <2>3. CASE id \in DOMAIN records /\ touched_at[id] > now /\ touched_at'[id] = touched_at[id]
    <3>1. touched_at[id] \in Int
      BY <2>3, TimeIsNumber DEF STTypeOK
    <3>2. set_back
      BY <1>1, <2>3, <3>1 DEF StampsTell
    <3> QED
      BY <1>1, <1>3, <2>1, <2>3, <3>1, <3>2
  <2> QED
    BY <1>2, <2>2, <2>3
<1>4. CASE k # id
  <2>1. k \in DOMAIN records /\ records'[k] = records[k] /\ touched_at'[k] = touched_at[k]
    BY <1>1, <1>2, <1>4 DEF Put
  <2> QED
    BY <2>1 DEF StampsTell
<1> QED
  BY <1>3, <1>4

\* Every step keeps it: the clock moves away from the stamps, or is set back.
LEMMA StampsStep == STTypeOK /\ StampsTell /\ [STNext]_STvars => StampsTell'
<1> SUFFICES ASSUME STTypeOK, StampsTell, [STNext]_STvars
             PROVE  StampsTell'
  OBVIOUS
<1>1. CASE UNCHANGED STvars
  BY <1>1 DEF STvars, history, StampsTell
<1>2. ASSUME NEW id \in TradeIds, NEW s \in SettlementStatus,
             track_settlement(id, s) \/ update_status(id, s)
      PROVE  StampsTell'
  BY <1>2, WriteStamps DEF track_settlement, update_status
<1>3. CASE ClockAdvances
  <2>1. UNCHANGED <<records, touched_at, set_back>> /\ now' = now + 1 /\ now \in Int
    BY <1>3, TimeIsNumber DEF ClockAdvances, history, STTypeOK
  <2>2. ASSUME NEW id \in DOMAIN records, touched_at[id] <= now
        PROVE  touched_at[id] <= now'
    <3>1. touched_at[id] \in Int
      BY TimeIsNumber DEF STTypeOK
    <3> QED
      BY <2>1, <2>2, <3>1
  <2> QED
    BY <2>1, <2>2 DEF StampsTell
<1>4. CASE ClockIsSetBack
  BY <1>4 DEF ClockIsSetBack, StampsTell
<1> QED
  BY <1>1, <1>2, <1>3, <1>4 DEF STNext

\* Only a write to the trade itself postpones its flag, whatever the clock does and however
\* many trades there are; and a flag tells of a trade left alone since the deadline, as
\* long as the clock is not set back.
THEOREM FlagsTold == STSpec => []FlaggedAreLeftAlone
<1>1. STInit => StampsTell
  BY DEF STInit, StampsTell
<1>2. STTypeOK /\ StampsTell => FlaggedAreLeftAlone
  <2> SUFFICES ASSUME STTypeOK, StampsTell, NEW id \in DOMAIN records, NEW d \in Time,
                      Unsettled(id)
               PROVE  /\ touched_at[id] < d => id \in check_fails(d)
                      /\ ~set_back /\ id \in check_fails(d) => touched_at[id] < d
    BY DEF FlaggedAreLeftAlone
  <2>1. records[id].last_updated_ns \in Int /\ touched_at[id] \in Int /\ d \in Int
    BY TimeIsNumber DEF STTypeOK, SettlementRecord
  <2>2. id \in check_fails(d) <=> records[id].last_updated_ns < d
    BY DEF check_fails
  <2>3. records[id].last_updated_ns <= touched_at[id]
    BY DEF StampsTell
  <2>4. ~set_back => records[id].last_updated_ns = touched_at[id]
    BY DEF StampsTell
  <2> QED
    BY <2>1, <2>2, <2>3, <2>4
<1> QED
  BY <1>1, <1>2, StampsStep, TrackerTypeCorrect, PTL DEF STSpec

=============================================================================
