-------------------------- MODULE DeriveEventProofs --------------------------
(***************************************************************************)
(* The derive is right: what build_subject_expression accepts, and what     *)
(* the generated subject() returns, for every template, every set of        *)
(* fields and every value of them.                                          *)
(*                                                                         *)
(* The invariant follows the scanner: of the part of the template that is   *)
(* behind it, every opening brace begins a placeholder, and what the        *)
(* format string prints so far is what that part means.                     *)
(***************************************************************************)
EXTENDS DeriveEvent, FiniteSetTheorems, SequenceTheorems, WellFoundedInduction, TLAPS

\* Induction, as a least counterexample: a set of naturals with an element has a least
\* one.
LEMMA LeastNat ==
    ASSUME NEW T \in SUBSET Nat, T # {}
    PROVE  \E n \in T : \A m \in T : n <= m
<1>1. \A R, S : IsWellFoundedOn(R, S) => \A X : X \subseteq S /\ X # {} => \E x \in X : \A y \in X : ~(<<y, x>> \in R)
  BY WFMin, Zenon
<1>2. PICK n \in T : \A m \in T : ~(<<m, n>> \in OpToRel(<, Nat))
  <2>1. T \subseteq Nat
    OBVIOUS
  <2> QED
    BY <2>1, <1>1, NatLessThanWellFounded, Zenon
<1>3. \A m \in T : ~(m < n)
  BY <1>2 DEF OpToRel
<1> QED
  BY <1>3

FlattenedBy(g, s, k) ==
   g = [i \in 1 .. k |-> IF i = 1 THEN s[i] ELSE g[i - 1] \o s[i]]

\* The recursion has a solution for every length.
LEMMA FlatExists ==
    ASSUME NEW s, NEW n \in Nat
    PROVE  \E g : FlattenedBy(g, s, n)
<1> DEFINE Bad == {k \in Nat : ~ \E g : FlattenedBy(g, s, k)}
<1>1. SUFFICES ASSUME Bad # {} PROVE FALSE
  OBVIOUS
<1>2. PICK k \in Bad : \A m \in Bad : k <= m
  <2> HIDE DEF Bad
  <2>1. Bad \in SUBSET Nat
    BY DEF Bad
  <2> QED
    BY <2>1, <1>1, LeastNat
<1>3. k # 0
  <2>1. FlattenedBy([i \in 1..0 |-> s], s, 0)
    BY DEF FlattenedBy
  <2> QED
    BY <2>1
<1>4. PICK g : FlattenedBy(g, s, k - 1)
  BY <1>2, <1>3
<1> DEFINE h == [i \in 1 .. k |-> IF i < k THEN g[i] ELSE IF i = 1 THEN s[i] ELSE g[k - 1] \o s[i]]
<1>5. ASSUME NEW i \in 1 .. k
      PROVE  h[i] = (IF i = 1 THEN s[i] ELSE h[i - 1] \o s[i])
  <2>1. CASE i < k
    <3>1. i \in 1 .. k - 1
      BY <2>1
    <3>2. g[i] = (IF i = 1 THEN s[i] ELSE g[i - 1] \o s[i])
      BY <3>1, <1>4 DEF FlattenedBy
    <3> QED
      BY <3>1, <3>2
  <2>2. CASE i = k
    BY <2>2
  <2> QED
    BY <2>1, <2>2
<1>6. FlattenedBy(h, s, k)
  <2> HIDE DEF h
  <2>1. h = [i \in 1 .. k |-> h[i]]
    BY DEF h
  <2> QED
    BY <2>1, <1>5, Zenon DEF FlattenedBy
<1> QED
  BY <1>6, <1>2

\* What FlattenSeq returns is the last value of one.
LEMMA FlatStep ==
    ASSUME NEW s, NEW n \in Nat, Len(s) = n, n > 0
    PROVE  \E g : FlattenedBy(g, s, n) /\ FlattenSeq(s) = g[n]
<1> DEFINE flatten[i \in 1..Len(s)] == IF i = 1 THEN s[i] ELSE flatten[i-1] \o s[i]
<1>1. FlattenSeq(s) = flatten[Len(s)]
  <2>1. Len(s) # 0
    OBVIOUS
  <2> QED
    BY <2>1, Zenon DEF FlattenSeq
<1>2. FlattenedBy(flatten, s, n)
  <2>1. flatten = CHOOSE g : FlattenedBy(g, s, n)
    BY Zenon DEF FlattenedBy
  <2> HIDE DEF flatten
  <2> QED
    BY <2>1, FlatExists, Zenon
<1> QED
  BY <1>1, <1>2

Partials(h, s, n, S) ==
    /\ h \in [0 .. n -> Seq(S)]
    /\ h[0] = <<>>
    /\ \A i \in 1 .. n : h[i] = h[i - 1] \o s[i]

\* The elements of a sequence of sequences.
LEMMA Segments ==
    ASSUME NEW S, NEW s \in Seq(Seq(S))
    PROVE  /\ Len(s) \in Nat
           /\ \A i \in 1 .. Len(s) : s[i] \in Seq(S)
OBVIOUS

\* Whatever adds the parts up one by one ends with FlattenSeq.
LEMMA FlatIs ==
    ASSUME NEW S, NEW s \in Seq(Seq(S)), NEW h, Partials(h, s, Len(s), S)
    PROVE  FlattenSeq(s) = h[Len(s)]
<1>0. PICK n \in Nat : n = Len(s)
  BY Segments
<1>s. \A i \in 1 .. n : s[i] \in Seq(S)
  BY <1>0, Segments
<1>h. Partials(h, s, n, S)
  BY <1>0
<1>1. CASE n = 0
  <2>1. s = <<>>
    BY <1>0, <1>1, EmptySeq
  <2>2. FlattenSeq(s) = s
    BY <1>0, <1>1, Zenon DEF FlattenSeq
  <2> QED
    BY <1>0, <1>1, <1>h, <2>1, <2>2 DEF Partials
<1>2. CASE n > 0
  <2>1. PICK g : FlattenedBy(g, s, n) /\ FlattenSeq(s) = g[n]
    BY <1>0, <1>2, FlatStep
  <2> DEFINE Bad == {k \in 1 .. n : g[k] # h[k]}
  <2>2. SUFFICES ASSUME Bad # {} PROVE FALSE
    BY <1>0, <1>2, <2>1
  <2>3. PICK k \in Bad : \A m \in Bad : k <= m
    <3>1. Bad \in SUBSET Nat
      OBVIOUS
    <3> HIDE DEF Bad
    <3> QED
      BY <3>1, <2>2, LeastNat
  <2>k. k \in 1 .. n /\ g[k] # h[k] /\ \A m \in 1 .. k - 1 : g[m] = h[m]
    BY <2>3
  <2> HIDE DEF Bad
  <2>4. g[k] = IF k = 1 THEN s[k] ELSE g[k - 1] \o s[k]
    BY <2>1, <2>k, Zenon DEF FlattenedBy
  <2>5. h[k] = h[k - 1] \o s[k] /\ s[k] \in Seq(S) /\ h[0] = <<>>
    BY <1>h, <1>s, <2>k, Zenon DEF Partials
  <2>6. CASE k = 1
    <3>0. k - 1 = 0
      BY <2>6
    <3>1. h[1] = <<>> \o s[1] /\ s[1] \in Seq(S)
      BY <3>0, <2>5, <2>6, Zenon
    <3>2. h[1] = s[1]
      BY <3>1, ConcatEmptySeq
    <3> QED
      BY <3>2, <2>4, <2>6, <2>k
  <2>7. CASE k # 1
    <3>1. k - 1 \in 1 .. k - 1
      BY <2>k, <2>7
    <3> QED
      BY <3>1, <2>4, <2>5, <2>7, <2>k
  <2> QED
    BY <2>6, <2>7
<1> QED
  BY <1>1, <1>2

\* Something does.
LEMMA FlatHasPrefixes ==
    ASSUME NEW S, NEW s \in Seq(Seq(S))
    PROVE  \E h : Partials(h, s, Len(s), S)
<1>0. PICK n \in Nat : n = Len(s)
  BY Segments
<1>s. \A i \in 1 .. n : s[i] \in Seq(S)
  BY <1>0, Segments
<1>1. PICK g : FlattenedBy(g, s, n)
  BY FlatExists
<1>g. \A i \in 1 .. n : g[i] = IF i = 1 THEN s[i] ELSE g[i - 1] \o s[i]
  BY <1>1, Zenon DEF FlattenedBy
<1> DEFINE Bad == {k \in 1 .. n : g[k] \notin Seq(S)}
<1>2. Bad = {}
  <2>1. SUFFICES ASSUME Bad # {} PROVE FALSE
    OBVIOUS
  <2>2. PICK k \in Bad : \A m \in Bad : k <= m
    <3>1. Bad \in SUBSET Nat
      OBVIOUS
    <3> HIDE DEF Bad
    <3> QED
      BY <3>1, <2>1, LeastNat
  <2>k. k \in 1 .. n /\ g[k] \notin Seq(S) /\ \A m \in 1 .. k - 1 : g[m] \in Seq(S)
    BY <2>2
  <2> HIDE DEF Bad
  <2>3. g[k] = IF k = 1 THEN s[k] ELSE g[k - 1] \o s[k]
    BY <1>g, <2>k
  <2>4. s[k] \in Seq(S)
    BY <1>s, <2>k
  <2>5. CASE k # 1
    <3>1. k - 1 \in 1 .. k - 1
      BY <2>k, <2>5
    <3>2. g[k - 1] \in Seq(S)
      BY <3>1, <2>k
    <3>3. g[k - 1] \o s[k] \in Seq(S)
      BY <3>2, <2>4, ConcatProperties
    <3> QED
      BY <3>3, <2>3, <2>5, <2>k
  <2> QED
    BY <2>3, <2>4, <2>5, <2>k
<1>t. \A i \in 1 .. n : g[i] \in Seq(S)
  BY <1>2
<1> HIDE DEF Bad
<1> DEFINE h == [i \in 0 .. n |-> IF i = 0 THEN <<>> ELSE g[i]]
<1>3. h \in [0 .. n -> Seq(S)] /\ h[0] = <<>>
  BY <1>t
<1>4. ASSUME NEW i \in 1 .. n
      PROVE  h[i] = h[i - 1] \o s[i]
  <2>1. h[i] = IF i = 1 THEN s[i] ELSE g[i - 1] \o s[i]
    BY <1>g
  <2>2. s[i] \in Seq(S)
    BY <1>s
  <2>3. h[i - 1] = IF i = 1 THEN <<>> ELSE g[i - 1]
    OBVIOUS
  <2> HIDE DEF h
  <2>4. s[i] = <<>> \o s[i]
    BY <2>2, ConcatEmptySeq
  <2> QED
    BY <2>1, <2>3, <2>4
<1>5. Partials(h, s, n, S)
  <2> HIDE DEF h
  <2> QED
    BY <1>3, <1>4 DEF Partials
<1> QED
  BY <1>0, <1>5

\* The result is a sequence of what the parts are made of.
LEMMA FlatType ==
    ASSUME NEW S, NEW s \in Seq(Seq(S))
    PROVE  FlattenSeq(s) \in Seq(S)
<1>1. PICK h : Partials(h, s, Len(s), S)
  BY FlatHasPrefixes
<1>2. FlattenSeq(s) = h[Len(s)]
  BY <1>1, FlatIs
<1> QED
  BY <1>1, <1>2, Segments DEF Partials

\* Flattening distributes over concatenation.
LEMMA FlatConcat ==
    ASSUME NEW S, NEW s \in Seq(Seq(S)), NEW r \in Seq(Seq(S))
    PROVE  FlattenSeq(s \o r) = FlattenSeq(s) \o FlattenSeq(r)
<1>1. PICK g : Partials(g, s, Len(s), S)
  BY FlatHasPrefixes
<1>2. PICK f : Partials(f, r, Len(r), S)
  BY FlatHasPrefixes
<1>n. PICK n \in Nat : n = Len(s)
  BY Segments
<1>m. PICK m \in Nat : m = Len(r)
  BY Segments
<1>g. /\ g \in [0 .. n -> Seq(S)]
      /\ g[0] = <<>>
      /\ \A i \in 1 .. n : g[i] = g[i - 1] \o s[i]
  BY <1>1, <1>n DEF Partials
<1>f. /\ f \in [0 .. m -> Seq(S)]
      /\ f[0] = <<>>
      /\ \A i \in 1 .. m : f[i] = f[i - 1] \o r[i]
  BY <1>2, <1>m DEF Partials
<1>r. \A i \in 1 .. m : r[i] \in Seq(S)
  BY <1>m, Segments
<1>3. /\ s \o r \in Seq(Seq(S)) /\ Len(s \o r) = n + m
      /\ \A i \in 1 .. n : (s \o r)[i] = s[i]
      /\ \A i \in n + 1 .. n + m : (s \o r)[i] = r[i - n]
  BY <1>n, <1>m, ConcatProperties
<1>4. g[n] \in Seq(S) /\ \A i \in 0 .. m : f[i] \in Seq(S) /\ g[n] \o f[i] \in Seq(S)
  BY <1>g, <1>f, ConcatProperties
<1> DEFINE h == [i \in 0 .. n + m |-> IF i <= n THEN g[i] ELSE g[n] \o f[i - n]]
<1>5. h \in [0 .. n + m -> Seq(S)] /\ h[0] = <<>>
  BY <1>g, <1>4
<1>6. ASSUME NEW i \in 1 .. n + m
      PROVE  h[i] = h[i - 1] \o (s \o r)[i]
  <2>1. CASE i <= n
    <3>1. (s \o r)[i] = s[i]
      BY <2>1, <1>3
    <3>2. h[i] = g[i] /\ h[i - 1] = g[i - 1]
      BY <2>1
    <3>0. i \in 1 .. n
      BY <2>1
    <3>3. g[i] = g[i - 1] \o s[i]
      BY <3>0, <1>g
    <3> HIDE DEF h
    <3> QED
      BY <3>1, <3>2, <3>3
  <2>2. CASE i > n
    <3>1. (s \o r)[i] = r[i - n] /\ i - n \in 1 .. m
      BY <2>2, <1>3
    <3>2. f[i - n] = f[(i - n) - 1] \o r[i - n]
      BY <3>1, <1>f
    <3>3. h[i] = g[n] \o f[i - n]
      <4>1. i \in 0 .. n + m /\ ~(i <= n)
        BY <2>2
      <4> QED
        BY <4>1, Zenon
    <3>4. h[i - 1] = g[n] \o f[(i - n) - 1]
      <4>1. CASE i = n + 1
        <5>1. h[i - 1] = g[n] /\ (i - n) - 1 = 0
          BY <4>1
        <5>2. g[n] \o <<>> = g[n]
          BY <1>4, ConcatEmptySeq
        <5> HIDE DEF h
        <5> QED
          BY <5>1, <5>2, <1>f
      <4>2. CASE i > n + 1
        <5>1. i - 1 \in 0 .. n + m /\ ~(i - 1 <= n) /\ (i - 1) - n = (i - n) - 1
          BY <4>2
        <5>2. h[i - 1] = g[n] \o f[(i - 1) - n]
          BY <5>1
        <5> HIDE DEF h
        <5> QED
          BY <5>1, <5>2
      <4>3. i = n + 1 \/ i > n + 1
        BY <2>2
      <4> QED
        BY <4>1, <4>2, <4>3, Zenon
    <3>5. r[i - n] \in Seq(S) /\ f[(i - n) - 1] \in Seq(S)
      BY <3>1, <1>4, <1>r
    <3> HIDE DEF h
    <3>6. g[n] \o (f[(i - n) - 1] \o r[i - n]) = (g[n] \o f[(i - n) - 1]) \o r[i - n]
      <4>1. \A x, y, z \in Seq(S) : (x \o y) \o z = x \o (y \o z)
        BY ConcatAssociative
      <4> QED
        BY <4>1, <3>5, <1>4, Zenon
    <3> QED
      BY <3>1, <3>2, <3>3, <3>4, <3>6
  <2>3. i <= n \/ i > n
    OBVIOUS
  <2> QED
    BY <2>1, <2>2, <2>3, Zenon
<1>7. Partials(h, s \o r, Len(s \o r), S)
  <2> HIDE DEF h
  <2> QED
    BY <1>3, <1>5, <1>6 DEF Partials
<1>8. FlattenSeq(s \o r) = h[n + m]
  <2> HIDE DEF h
  <2> QED
    BY <1>3, <1>7, FlatIs
<1>9. h[n + m] = g[n] \o f[m]
  <2>1. CASE m = 0
    <3>1. h[n + m] = g[n]
      BY <2>1
    <3>2. g[n] \o <<>> = g[n]
      BY <1>4, ConcatEmptySeq
    <3> HIDE DEF h
    <3> QED
      BY <2>1, <3>1, <3>2, <1>f
  <2>2. CASE m > 0
    <3>1. n + m \in 0 .. n + m /\ ~(n + m <= n) /\ (n + m) - n = m
      BY <2>2
    <3>2. h[n + m] = g[n] \o f[(n + m) - n]
      BY <3>1
    <3> HIDE DEF h
    <3> QED
      BY <3>1, <3>2
  <2>3. m = 0 \/ m > 0
    OBVIOUS
  <2> QED
    BY <2>1, <2>2, <2>3, Zenon
<1> HIDE DEF h
<1>10. FlattenSeq(s) = g[n] /\ FlattenSeq(r) = f[m]
  BY <1>1, <1>2, <1>n, <1>m, FlatIs
<1> QED
  BY <1>8, <1>9, <1>10

\* Empty parts add nothing.
LEMMA FlatEmpties ==
    ASSUME NEW S, NEW n \in Nat, NEW s, s = [i \in 1 .. n |-> <<>>]
    PROVE  FlattenSeq(s) = <<>>
<1> DEFINE h == [i \in 0 .. n |-> <<>>]
<1>1. s \in Seq(Seq(S)) /\ Len(s) = n
  OBVIOUS
<1>2. h \in [0 .. n -> Seq(S)] /\ h[0] = <<>>
  OBVIOUS
<1>3. ASSUME NEW i \in 1 .. n
      PROVE  h[i] = h[i - 1] \o s[i]
  <2>1. s[i] = <<>>
    OBVIOUS
  <2> QED
    BY <2>1
<1>4. Partials(h, s, Len(s), S)
  <2> HIDE DEF h
  <2> QED
    BY <1>1, <1>2, <1>3 DEF Partials
<1>5. FlattenSeq(s) = h[Len(s)]
  <2> HIDE DEF h
  <2> QED
    BY <1>1, <1>4, FlatIs
<1>6. h[n] = <<>>
  OBVIOUS
<1> QED
  BY <1>1, <1>5, <1>6

\* One part is its own result.
LEMMA FlatOne ==
    ASSUME NEW S, NEW v \in Seq(S)
    PROVE  FlattenSeq(<<v>>) = v
<1> DEFINE h == [i \in 0 .. 1 |-> IF i = 0 THEN <<>> ELSE v]
<1>1. <<v>> \in Seq(Seq(S)) /\ Len(<<v>>) = 1
  OBVIOUS
<1>2. Partials(h, <<v>>, 1, S)
  <2>1. v = <<>> \o v
    BY ConcatEmptySeq
  <2>2. h[0] = <<>> /\ h[1] = v /\ h \in [0 .. 1 -> Seq(S)]
    OBVIOUS
  <2> HIDE DEF h
  <2> QED
    BY <2>1, <2>2 DEF Partials
<1>3. FlattenSeq(<<v>>) = h[1]
  <2> HIDE DEF h
  <2> QED
    BY <1>1, <1>2, FlatIs
<1> QED
  BY <1>3

\* No brace, blank, prefix or hole is a name.
LEMMA AtomsDiffer ==
    /\ Open # Close /\ Open # Self /\ Open # Blank /\ Close # Self /\ Close # Blank
    /\ Self # Blank
    /\ Hole \notin Atoms
    /\ {Open, Close, Blank, Self} \subseteq Atoms
    /\ Fields \subseteq Atoms
    /\ \A f \in Fields : f \notin {Open, Close, Blank, Self, Hole}
<1>1. /\ Open # Close /\ Open # Self /\ Open # Blank /\ Close # Self /\ Close # Blank
      /\ Self # Blank /\ Hole \notin {Open, Close, Blank, Self}
  <2>1. Open # Close
    BY DEF Open, Close
  <2>2. Open # Self
    BY DEF Open, Self
  <2>3. Open # Blank
    BY DEF Open, Blank
  <2>4. Close # Self
    BY DEF Close, Self
  <2>5. Close # Blank
    BY DEF Close, Blank
  <2>6. Self # Blank
    BY DEF Self, Blank
  <2>7. Hole \notin {Open, Close, Blank, Self}
    BY DEF Open, Close, Blank, Self, Hole
  <2> QED
    BY <2>1, <2>2, <2>3, <2>4, <2>5, <2>6, <2>7
<1>2. \A x \in Texts \union Names : x \in STRING /\ x \notin {Open, Close, Blank, Self, Hole}
  BY AtomsAssumption, Zenon
<1>3. Fields \subseteq Names
  BY FieldsAssumption
<1> QED
  BY <1>1, <1>2, <1>3, Zenon DEF Atoms

\* Where Find finds what is there.
LEMMA Found ==
    ASSUME NEW S, NEW t \in Seq(S), NEW atom
    PROVE  /\ Find(atom, t) \in 1 .. Len(t) + 1
           /\ Find(atom, t) <= Len(t) => t[Find(atom, t)] = atom
           /\ \A j \in 1 .. Find(atom, t) - 1 : t[j] # atom
           /\ Contains(t, atom) => Find(atom, t) <= Len(t)
<1> DEFINE places == {i \in 1 .. Len(t) : t[i] = atom} \union {Len(t) + 1}
           P(i) == /\ i <= Len(t) => t[i] = atom
                   /\ \A j \in 1 .. i - 1 : t[j] # atom
<1>0. Len(t) \in Nat
  OBVIOUS
<1>1. places # {} /\ places \in SUBSET Nat
  BY <1>0
<1>2. PICK n \in places : \A m \in places : n <= m
  <2> HIDE DEF places
  <2> QED
    BY <1>1, LeastNat
<1>3. n \in 1 .. Len(t) + 1 /\ P(n)
  BY <1>0, <1>2
<1>4. Find(atom, t) = CHOOSE i \in 1 .. Len(t) + 1 : P(i)
  BY DEF Find
<1>5. Find(atom, t) \in 1 .. Len(t) + 1 /\ P(Find(atom, t))
  <2> HIDE DEF P
  <2> QED
    BY <1>3, <1>4, Zenon
<1>6. ASSUME Contains(t, atom)
      PROVE  Find(atom, t) <= Len(t)
  <2>1. PICK i \in 1 .. Len(t) : t[i] = atom
    BY <1>6 DEF Contains
  <2>2. CASE Find(atom, t) = Len(t) + 1
    <3>1. i \in 1 .. Find(atom, t) - 1
      BY <1>0, <2>1, <2>2
    <3> QED
      BY <3>1, <2>1, <1>5
  <2> QED
    BY <2>2, <1>0, <1>5
<1> QED
  BY <1>5, <1>6

\* One placeholder names one field.
LEMMA OneFieldNamed ==
    ASSUME NEW t, NEW f \in FieldsNamedBy(t), NEW g \in FieldsNamedBy(t)
    PROVE  f = g
BY AtomsDiffer, Zenon DEF FieldsNamedBy

\* A placeholder that names a field names that one only.
LEMMA NamedAlone ==
    ASSUME NEW t, NEW f \in FieldsNamedBy(t)
    PROVE  FieldsNamedBy(t) = {f} /\ f \in Fields
BY OneFieldNamed DEF FieldsNamedBy

\* The sequence of a set of one element.
LEMMA SequenceOfOne ==
    ASSUME NEW f
    PROVE  SetToSeq({f}) = <<f>>
<1>1. Cardinality({f}) = 1
  BY FS_Singleton
<1>2. <<f>> \in [1 .. 1 -> {f}] /\ IsInjective(<<f>>)
  BY DEF IsInjective
<1>3. \A u \in [1 .. 1 -> {f}] : u = <<f>>
  OBVIOUS
<1>4. SetToSeq({f}) = CHOOSE u \in [1 .. 1 -> {f}] : IsInjective(u)
  BY <1>1, Zenon DEF SetToSeq
<1> QED
  BY <1>2, <1>3, <1>4, Zenon

\* What a placeholder's text consists of.
LEMMA NamedText ==
    ASSUME NEW t, NEW f \in FieldsNamedBy(t), NEW i \in DOMAIN t
    PROVE  t[i] \notin {Open, Close}
<1>1. t[i] = Blank \/ t[i] = Self \/ t[i] = f
  BY Zenon DEF FieldsNamedBy
<1> QED
  BY <1>1, AtomsDiffer DEF FieldsNamedBy

\* A placeholder is known by the place where it opens, and none begins inside another.
LEMMA PlaceholderUnique ==
    ASSUME NEW S, NEW t \in Seq(S), NEW p \in Placeholders(t), NEW q \in Placeholders(t)
    PROVE  /\ p[1] = q[1] => p = q
           /\ p[1] < q[1] => p[2] < q[1]
           /\ p[1] < p[2]
<1>1. /\ p \in (DOMAIN t) \X (DOMAIN t) \X Fields
      /\ q \in (DOMAIN t) \X (DOMAIN t) \X Fields
  BY DEF Placeholders
<1>2. Closes(t, p[1], p[2]) /\ Closes(t, q[1], q[2]) /\ t[q[1]] = Open
  BY DEF Placeholders
<1>3. DOMAIN t = 1 .. Len(t) /\ Len(t) \in Nat
  OBVIOUS
<1>4. p[1] = q[1] => p[2] = q[2]
  BY <1>1, <1>2, <1>3 DEF Closes
<1>5. p[1] = q[1] => p[3] = q[3]
  BY <1>4, OneFieldNamed, Zenon DEF Placeholders
<1>6. p[1] < q[1] => p[2] < q[1]
  <2>1. SUFFICES ASSUME p[1] < q[1], ~(p[2] < q[1]) PROVE FALSE
    BY <1>1, <1>3
  <2>2. q[1] # p[2]
    BY <1>2, AtomsDiffer DEF Closes
  <2>3. q[1] \in p[1] + 1 .. p[2] - 1
    BY <2>1, <2>2, <1>1, <1>3
  <2> QED
    BY <2>3, <1>2 DEF Closes
<1>7. p[1] < p[2]
  BY <1>1, <1>2, <1>3 DEF Closes
<1>8. p = <<p[1], p[2], p[3]>> /\ q = <<q[1], q[2], q[3]>>
  BY <1>1
<1> QED
  BY <1>4, <1>5, <1>6, <1>7, <1>8, Zenon

HolesUpTo(fmt, i) == Cardinality({j \in 1 .. i : fmt[j] = Hole})

\* What a place of text in a format string is printed as.
Piece(t, i) == IF Collapsed(t, i) THEN <<>> ELSE <<t[i]>>

Expanded(fmt, args, value) ==
    [i \in 1 .. Len(fmt) |->
        IF fmt[i] = Hole THEN value[args[HolesUpTo(fmt, i)]] ELSE Piece(fmt, i)]

FormatAtoms == Atoms \union {Hole}

Characters == STRING \union Atoms

Pieces(u) == [i \in 1 .. Len(u) |-> Piece(u, i)]

\* How long the row before a place is, there is one answer to.
LEMMA OneRun ==
    ASSUME NEW i \in Nat \ {0}, NEW S, 0 \notin S
    PROVE  /\ RunBefore(i, S) \in 0 .. i - 1
           /\ i - RunBefore(i, S) .. i - 1 \subseteq S
           /\ i - RunBefore(i, S) - 1 \notin S
           /\ \A n \in 0 .. i - 1 :
                 i - n .. i - 1 \subseteq S /\ i - n - 1 \notin S => RunBefore(i, S) = n
<1> DEFINE Row(n) == i - n .. i - 1 \subseteq S /\ i - n - 1 \notin S
<1>1. \E n \in 0 .. i - 1 : Row(n)
  <2> DEFINE T == {n \in Nat : n <= i - 1 /\ i - n - 1 \notin S}
  <2>1. i - 1 \in T
    BY i - (i - 1) - 1 = 0
  <2>2. PICK n \in T : \A m \in T : n <= m
    BY <2>1, LeastNat
  <2>3. n \in 0 .. i - 1 /\ i - n - 1 \notin S
    OBVIOUS
  <2>4. ASSUME NEW j \in i - n .. i - 1, j \notin S
        PROVE  FALSE
    <3>1. PICK m \in Nat : m < n /\ m <= i - 1 /\ i - m - 1 = j
      <4>1. i - j - 1 \in Nat /\ i - j - 1 < n /\ i - j - 1 <= i - 1 /\ i - (i - j - 1) - 1 = j
        BY <2>3
      <4> QED
        BY <4>1
    <3>2. m \in T
      BY <2>4, <3>1
    <3> HIDE DEF T
    <3>3. n <= m
      BY <2>2, <3>2
    <3> QED
      BY <2>3, <3>1, <3>3
  <2> QED
    BY <2>3, <2>4
<1>2. ASSUME NEW n \in 0 .. i - 1, NEW m \in 0 .. i - 1, Row(n), Row(m), n < m
      PROVE  FALSE
  <2>1. i - n - 1 \in i - m .. i - 1
    BY <1>2
  <2> QED
    BY <1>2, <2>1
<1>3. \A n, m \in 0 .. i - 1 : Row(n) /\ Row(m) => n = m
  <2> TAKE n, m \in 0 .. i - 1
  <2>1. n < m \/ m < n \/ n = m
    OBVIOUS
  <2> QED
    BY <1>2, <2>1
<1>4. RunBefore(i, S) = CHOOSE n \in 0 .. i - 1 : Row(n)
  BY DEF RunBefore
<1> HIDE DEF Row
<1>5. RunBefore(i, S) \in 0 .. i - 1 /\ Row(RunBefore(i, S))
  BY <1>1, <1>4, Zenon
<1>6. \A n \in 0 .. i - 1 : Row(n) => RunBefore(i, S) = n
  BY <1>3, <1>5
<1> QED
  BY <1>5, <1>6 DEF Row

\* Two sets that are alike behind place n, which is in neither row.
LEMMA RunsAlike ==
    ASSUME NEW S, NEW T, 0 \notin S, 0 \notin T,
           NEW n \in Nat, n \notin S, NEW k \in Nat,
           \A j \in 1 .. k : n + j \in S <=> j \in T,
           NEW i \in 1 .. k
    PROVE  RunBefore(n + i, S) = RunBefore(i, T)
<1> DEFINE m == RunBefore(i, T)
<1>1. m \in 0 .. i - 1 /\ i - m .. i - 1 \subseteq T /\ i - m - 1 \notin T
  BY OneRun
<1> HIDE DEF m
<1>2. m \in 0 .. (n + i) - 1
  BY <1>1
<1>3. ASSUME NEW j \in (n + i) - m .. (n + i) - 1
      PROVE  j \in S
  <2>1. j - n \in i - m .. i - 1 /\ j - n \in 1 .. k /\ n + (j - n) = j
    BY <1>1
  <2> QED
    BY <1>1, <2>1
<1>4. (n + i) - m - 1 \notin S
  <2>1. CASE i - m - 1 = 0
    <3>1. (n + i) - m - 1 = n
      BY <1>1, <2>1
    <3> QED
      BY <3>1
  <2>2. CASE i - m - 1 # 0
    <3>1. i - m - 1 \in 1 .. k /\ n + (i - m - 1) = (n + i) - m - 1
      BY <1>1, <2>2
    <3> QED
      BY <1>1, <3>1
  <2> QED
    BY <2>1, <2>2
<1>5. n + i \in Nat \ {0}
  OBVIOUS
<1>6. RunBefore(n + i, S) = m
  BY <1>2, <1>3, <1>4, <1>5, OneRun
<1> QED
  BY <1>6 DEF m

\* Text u that stands in s behind place n, where no row of braces goes on, is printed
\* in the same pieces.
LEMMA PiecesAlike ==
    ASSUME NEW S, NEW s \in Seq(S), NEW T, NEW u \in Seq(T),
           NEW n \in Nat, n \notin Braces(s), NEW k \in Nat,
           n + k <= Len(s), k <= Len(u), \A j \in 1 .. k : s[n + j] = u[j],
           NEW i \in 1 .. k
    PROVE  /\ n + i \in Braces(s) <=> i \in Braces(u)
           /\ Collapsed(s, n + i) <=> Collapsed(u, i)
           /\ Piece(s, n + i) = Piece(u, i)
<1>1. DOMAIN s = 1 .. Len(s) /\ DOMAIN u = 1 .. Len(u) /\ Len(s) \in Nat /\ Len(u) \in Nat
  OBVIOUS
<1>2. 0 \notin Braces(s) /\ 0 \notin Braces(u)
  BY <1>1 DEF Braces
<1>3. \A j \in 1 .. k : n + j \in Braces(s) <=> j \in Braces(u)
  BY <1>1 DEF Braces
<1>4. RunBefore(n + i, Braces(s)) = RunBefore(i, Braces(u))
  BY <1>2, <1>3, RunsAlike
<1>5. s[n + i] = u[i]
  OBVIOUS
<1> QED
  BY <1>3, <1>4, <1>5 DEF Collapsed, Piece

\* Counting holes from left to right.
LEMMA HolesCounted ==
    ASSUME NEW fmt, NEW i \in Nat
    PROVE  /\ HolesUpTo(fmt, i) \in Nat
           /\ HolesUpTo(fmt, 0) = 0
           /\ fmt[i + 1] = Hole => HolesUpTo(fmt, i + 1) = HolesUpTo(fmt, i) + 1
           /\ \A j \in 1 .. i : fmt[j] = Hole => HolesUpTo(fmt, j) \in 1 .. HolesUpTo(fmt, i)
<1> DEFINE H(k) == {j \in 1 .. k : fmt[j] = Hole}
<1>1. \A k \in Nat : IsFiniteSet(H(k))
  <2> TAKE k \in Nat
  <2>1. IsFiniteSet(1 .. k)
    BY FS_Interval
  <2> QED
    BY <2>1, FS_Subset
<1>2. HolesUpTo(fmt, i) \in Nat
  BY <1>1, FS_CardinalityType DEF HolesUpTo
<1>3. HolesUpTo(fmt, 0) = 0
  <2>1. H(0) = {}
    OBVIOUS
  <2> QED
    BY <2>1, FS_EmptySet DEF HolesUpTo
<1>4. ASSUME fmt[i + 1] = Hole
      PROVE  HolesUpTo(fmt, i + 1) = HolesUpTo(fmt, i) + 1
  <2>1. H(i + 1) = H(i) \union {i + 1} /\ i + 1 \notin H(i)
    BY <1>4
  <2>2. Cardinality(H(i) \union {i + 1}) = Cardinality(H(i)) + 1
    <3>1. IsFiniteSet(H(i))
      BY <1>1
    <3> HIDE DEF H
    <3> QED
      BY <2>1, <3>1, FS_AddElement
  <2> QED
    BY <2>1, <2>2 DEF HolesUpTo
<1>5. ASSUME NEW j \in 1 .. i, fmt[j] = Hole
      PROVE  HolesUpTo(fmt, j) \in 1 .. HolesUpTo(fmt, i)
  <2>1. H(j) \subseteq H(i) /\ j \in H(j)
    BY <1>5
  <2>2. IsFiniteSet(H(i)) /\ IsFiniteSet(H(j))
    BY <1>1
  <2> HIDE DEF H
  <2>3. Cardinality(H(j)) <= Cardinality(H(i)) /\ Cardinality(H(j)) \in Nat /\ Cardinality(H(i)) \in Nat
    BY <2>1, <2>2, FS_Subset, FS_CardinalityType
  <2>4. Cardinality(H(j)) # 0
    BY <2>1, <2>2, FS_EmptySet
  <2>5. HolesUpTo(fmt, j) = Cardinality(H(j)) /\ HolesUpTo(fmt, i) = Cardinality(H(i))
    BY DEF H, HolesUpTo
  <2> QED
    BY <2>3, <2>4, <2>5
<1> QED
  BY <1>2, <1>3, <1>4, <1>5

\* The count depends on where the holes are, and on nothing else.
LEMMA HolesAgree ==
    ASSUME NEW fmt, NEW more, NEW i \in Nat,
           \A j \in 1 .. i : fmt[j] = Hole <=> more[j] = Hole
    PROVE  HolesUpTo(fmt, i) = HolesUpTo(more, i)
<1>1. {j \in 1 .. i : fmt[j] = Hole} = {j \in 1 .. i : more[j] = Hole}
  OBVIOUS
<1> QED
  BY <1>1 DEF HolesUpTo

\* Text adds no hole.
LEMMA NoHolesAfter ==
    ASSUME NEW fmt, NEW n \in Nat, NEW i \in Nat, n <= i,
           \A j \in n + 1 .. i : fmt[j] # Hole
    PROVE  HolesUpTo(fmt, i) = HolesUpTo(fmt, n)
<1>1. {j \in 1 .. i : fmt[j] = Hole} = {j \in 1 .. n : fmt[j] = Hole}
  OBVIOUS
<1> QED
  BY <1>1 DEF HolesUpTo

\* Two sequences in a row, element by element.
Lists(a, n) == a = [i \in 1 .. n |-> a[i]]

LEMMA InARow ==
    ASSUME NEW n \in Nat, NEW k \in Nat,
           NEW a, Lists(a, n), NEW b, Lists(b, k), NEW c, Lists(c, n + k),
           \A i \in 1 .. n : c[i] = a[i],
           \A i \in 1 .. k : c[n + i] = b[i]
    PROVE  c = a \o b
<1> DEFINE S == {a[i] : i \in 1 .. n} \union {b[i] : i \in 1 .. k}
<1>1. a \in Seq(S) /\ Len(a) = n
  <2>1. \A i \in 1 .. n : a[i] \in S
    OBVIOUS
  <2>2. a = [i \in 1 .. n |-> a[i]]
    BY DEF Lists
  <2> HIDE DEF S
  <2> QED
    BY <2>1, <2>2
<1>2. b \in Seq(S) /\ Len(b) = k
  <2>1. \A i \in 1 .. k : b[i] \in S
    OBVIOUS
  <2> HIDE DEF S
  <2> QED
    BY <2>1 DEF Lists
<1> HIDE DEF S
<1>3. /\ a \o b \in Seq(S) /\ Len(a \o b) = n + k
      /\ \A i \in 1 .. n + k : (a \o b)[i] = IF i <= n THEN a[i] ELSE b[i - n]
  BY <1>1, <1>2, ConcatProperties
<1>4. \A i \in 1 .. n + k : c[i] = IF i <= n THEN a[i] ELSE b[i - n]
  <2> TAKE i \in 1 .. n + k
  <2>1. CASE i <= n
    <3>1. i \in 1 .. n
      BY <2>1
    <3> QED
      BY <3>1, <2>1
  <2>2. CASE ~(i <= n)
    <3>1. i - n \in 1 .. k /\ n + (i - n) = i
      BY <2>2
    <3>2. c[n + (i - n)] = b[i - n]
      BY <3>1
    <3> QED
      BY <3>1, <3>2, <2>2
  <2> QED
    BY <2>1, <2>2
<1>5. a \o b = [i \in 1 .. n + k |-> (a \o b)[i]]
  <2>1. \A q \in Seq(S) : q = [i \in 1 .. Len(q) |-> q[i]]
    OBVIOUS
  <2>2. a \o b = [i \in 1 .. Len(a \o b) |-> (a \o b)[i]]
    BY <2>1, <1>3, Zenon
  <2> QED
    BY <2>2, <1>3, Zenon
<1> QED
  BY <1>3, <1>4, <1>5 DEF Lists

\* What stands behind it changes nothing in a text.
LEMMA SamePieces ==
    ASSUME NEW S, NEW s \in Seq(S), NEW T, NEW u \in Seq(T),
           Len(u) <= Len(s), \A j \in 1 .. Len(u) : s[j] = u[j],
           NEW i \in 1 .. Len(u)
    PROVE  /\ i \in Braces(s) <=> i \in Braces(u)
           /\ Collapsed(s, i) <=> Collapsed(u, i)
           /\ Piece(s, i) = Piece(u, i)
<1>1. PICK k \in Nat : k = Len(u)
  BY LenProperties
<1>2. 0 \notin Braces(s) /\ 0 + i = i /\ 0 + k <= Len(s)
  BY <1>1 DEF Braces
<1>3. \A j \in 1 .. k : s[0 + j] = u[j]
  BY <1>1
<1>4. /\ 0 + i \in Braces(s) <=> i \in Braces(u)
      /\ Collapsed(s, 0 + i) <=> Collapsed(u, i)
      /\ Piece(s, 0 + i) = Piece(u, i)
  BY <1>1, <1>2, <1>3, PiecesAlike
<1> QED
  BY <1>2, <1>4

\* Text copied into the format string is printed without the rest of it, behind a hole
\* or at the beginning.
LEMMA TextExpands ==
    ASSUME NEW fmt \in Seq(FormatAtoms), Len(fmt) \notin Braces(fmt),
           NEW args, NEW value, NEW text \in Seq(Atoms)
    PROVE  /\ fmt \o text \in Seq(FormatAtoms)
           /\ HolesUpTo(fmt \o text, Len(fmt \o text)) = HolesUpTo(fmt, Len(fmt))
           /\ Expanded(fmt \o text, args, value) = Expanded(fmt, args, value) \o Pieces(text)
<1> DEFINE more == fmt \o text
<1>n. PICK n \in Nat : n = Len(fmt)
  BY LenProperties
<1>k. PICK k \in Nat : k = Len(text)
  BY LenProperties
<1>t. \A i \in 1 .. k : text[i] \in Atoms
  BY <1>k
<1>1. more \in Seq(FormatAtoms)
  <2>1. text \in Seq(FormatAtoms)
    BY SeqMonotonic DEF FormatAtoms
  <2> QED
    BY <2>1, ConcatProperties
<1>2. /\ Len(more) = n + k
      /\ \A i \in 1 .. n : more[i] = fmt[i]
      /\ \A i \in n + 1 .. n + k : more[i] = text[i - n] /\ i - n \in 1 .. k
  BY <1>n, <1>k
<1> HIDE DEF more
<1>3. \A i \in n + 1 .. n + k : more[i] # Hole
  BY <1>2, <1>t, AtomsDiffer
<1>4. HolesUpTo(more, n + k) = HolesUpTo(more, n)
  BY <1>3, NoHolesAfter
<1>5. ASSUME NEW i \in 0 .. n
      PROVE  HolesUpTo(more, i) = HolesUpTo(fmt, i)
  BY <1>2, HolesAgree
<1>6. HolesUpTo(more, Len(more)) = HolesUpTo(fmt, Len(fmt))
  BY <1>2, <1>4, <1>5, <1>n
<1>7. ASSUME NEW i \in 1 .. k
      PROVE  Piece(more, n + i) = Piece(text, i)
  <2>1. n \notin Braces(more)
    <3>1. CASE n = 0
      BY <3>1, <1>1 DEF Braces
    <3>2. CASE n # 0
      BY <3>2, <1>2, <1>n DEF Braces
    <3> QED
      BY <3>1, <3>2
  <2>2. \A j \in 1 .. k : more[n + j] = text[j]
    <3> TAKE j \in 1 .. k
    <3>1. n + j \in n + 1 .. n + k /\ (n + j) - n = j
      OBVIOUS
    <3> QED
      BY <3>1, <1>2
  <2>3. n + k <= Len(more) /\ k <= Len(text)
    BY <1>2, <1>k
  <2>4. Collapsed(more, n + i) <=> Collapsed(text, i)
    BY <1>1, <2>1, <2>2, <2>3, PiecesAlike, Zenon
  <2>5. more[n + i] = text[i]
    BY <2>2
  <2> QED
    BY <2>4, <2>5, Zenon DEF Piece
<1>8. Expanded(more, args, value) = Expanded(fmt, args, value) \o Pieces(text)
  <2> DEFINE left == Expanded(fmt, args, value)
             whole == Expanded(more, args, value)
             right == Pieces(text)
  <2>1. Lists(left, n)
    BY <1>n DEF Expanded, Lists
  <2>2. Lists(right, k)
    BY <1>k DEF Pieces, Lists
  <2>3. Lists(whole, n + k)
    BY <1>2 DEF Expanded, Lists
  <2>4. ASSUME NEW i \in 1 .. n
        PROVE  whole[i] = left[i]
    <3>1. Piece(more, i) = Piece(fmt, i)
      <4>1. Len(fmt) <= Len(more) /\ i \in 1 .. Len(fmt) /\ \A j \in 1 .. Len(fmt) : more[j] = fmt[j]
        BY <1>2, <1>n
      <4> QED
        BY <1>1, <4>1, SamePieces, Zenon
    <3> QED
      BY <3>1, <1>2, <1>5, <1>n DEF Expanded
  <2>5. ASSUME NEW i \in 1 .. k
        PROVE  whole[n + i] = right[i]
    <3>1. n + i \in n + 1 .. n + k /\ (n + i) - n = i
      OBVIOUS
    <3>2. more[n + i] = text[i] /\ more[n + i] # Hole /\ n + i \in 1 .. Len(more)
      BY <3>1, <1>2, <1>3
    <3>3. whole[n + i] = Piece(text, i)
      BY <3>2, <1>7 DEF Expanded
    <3> QED
      BY <3>3, <1>k DEF Pieces
  <2> HIDE DEF left, right, whole
  <2>6. whole = left \o right
    BY <2>1, <2>2, <2>3, <2>4, <2>5, InARow
  <2> QED
    BY <2>6 DEF left, right, whole
<1> QED
  BY <1>1, <1>6, <1>8 DEF more

\* One hole more, one argument more.
LEMMA HoleExpands ==
    ASSUME NEW fmt \in Seq(FormatAtoms), NEW args \in Seq(Fields), NEW value, NEW f \in Fields,
           HolesUpTo(fmt, Len(fmt)) = Len(args)
    PROVE  /\ fmt \o <<Hole>> \in Seq(FormatAtoms)
           /\ args \o <<f>> \in Seq(Fields) /\ Len(args \o <<f>>) = Len(args) + 1
           /\ HolesUpTo(fmt \o <<Hole>>, Len(fmt \o <<Hole>>)) = Len(args) + 1
           /\ Expanded(fmt \o <<Hole>>, args \o <<f>>, value) = Expanded(fmt, args, value) \o <<value[f]>>
<1> DEFINE more == fmt \o <<Hole>>
           all == args \o <<f>>
<1>n. PICK n \in Nat : n = Len(fmt)
  BY LenProperties
<1>k. PICK k \in Nat : k = Len(args)
  BY LenProperties
<1>1. /\ more \in Seq(FormatAtoms) /\ Len(more) = n + 1
      /\ \A i \in 1 .. n : more[i] = fmt[i]
      /\ more[n + 1] = Hole
  BY <1>n DEF FormatAtoms
<1>2. /\ all \in Seq(Fields) /\ Len(all) = k + 1
      /\ \A i \in 1 .. k : all[i] = args[i]
      /\ all[k + 1] = f
  BY <1>k
<1> HIDE DEF more, all
<1>3. ASSUME NEW i \in 0 .. n
      PROVE  HolesUpTo(more, i) = HolesUpTo(fmt, i)
  BY <1>1, HolesAgree
<1>4. HolesUpTo(more, n + 1) = k + 1
  <2>1. HolesUpTo(more, n + 1) = HolesUpTo(more, n) + 1
    BY <1>1, HolesCounted
  <2> QED
    BY <2>1, <1>3, <1>n, <1>k
<1> DEFINE left == Expanded(fmt, args, value)
           whole == Expanded(more, all, value)
           right == <<value[f]>>
<1>5. Lists(left, n)
  BY <1>n DEF Expanded, Lists
<1>6. Lists(right, 1)
  BY DEF Lists
<1>7. Lists(whole, n + 1)
  BY <1>1 DEF Expanded, Lists
<1>8. ASSUME NEW i \in 1 .. n
      PROVE  whole[i] = left[i]
  <2>1. more[i] = fmt[i] /\ HolesUpTo(more, i) = HolesUpTo(fmt, i) /\ i \in 1 .. Len(more) /\ i \in 1 .. Len(fmt)
    BY <1>1, <1>3, <1>n
  <2>2. CASE fmt[i] = Hole
    <3>1. HolesUpTo(fmt, i) \in 1 .. k
      BY <2>2, <1>n, <1>k, HolesCounted
    <3>2. all[HolesUpTo(fmt, i)] = args[HolesUpTo(fmt, i)]
      BY <3>1, <1>2
    <3> QED
      BY <2>1, <2>2, <3>2 DEF Expanded
  <2>3. CASE fmt[i] # Hole
    <3>1. Piece(more, i) = Piece(fmt, i)
      BY <1>1, <1>n, SamePieces
    <3> QED
      BY <2>1, <2>3, <3>1 DEF Expanded
  <2> QED
    BY <2>2, <2>3
<1>9. whole[n + 1] = right[1]
  <2>1. n + 1 \in 1 .. Len(more)
    BY <1>1
  <2>2. whole[n + 1] = value[all[HolesUpTo(more, n + 1)]]
    BY <2>1, <1>1 DEF Expanded
  <2> QED
    BY <2>2, <1>2, <1>4
<1> HIDE DEF left, right, whole
<1>10. \A i \in 1 .. 1 : whole[n + i] = right[i]
  BY <1>9
<1>11. whole = left \o right
  BY <1>5, <1>6, <1>7, <1>8, <1>10, InARow
<1> QED
  BY <1>1, <1>2, <1>4, <1>11, <1>k DEF left, right, whole, more, all

MeaningUpTo(t, value, n) == [i \in 1 .. n |-> MeaningAt(t, value, i)]

\* No placeholder is cut in two at n.
WholeUpTo(t, n) ==
    \A i \in 1 .. n : t[i] = Open => \E p \in Placeholders(t) : p[1] = i /\ p[2] <= n

\* text stands in t after place n.
StandsAfter(text, t, n) ==
    /\ n + Len(text) <= Len(t)
    /\ \A i \in 1 .. Len(text) : text[i] = t[n + i]

\* The places of a placeholder.
LEMMA PlaceholderParts ==
    ASSUME NEW t \in Seq(Atoms), NEW p \in Placeholders(t)
    PROVE  /\ p[1] \in 1 .. Len(t) /\ p[2] \in 1 .. Len(t) /\ p[3] \in Fields /\ Len(t) \in Nat
           /\ t[p[1]] = Open /\ t[p[2]] = Close /\ p[1] < p[2]
           /\ \A i \in p[1] + 1 .. p[2] : t[i] # Open
<1>1. /\ p \in (DOMAIN t) \X (DOMAIN t) \X Fields
      /\ t[p[1]] = Open /\ Closes(t, p[1], p[2])
  BY DEF Placeholders
<1>2. DOMAIN t = 1 .. Len(t) /\ Len(t) \in Nat
  OBVIOUS
<1>3. p[1] < p[2]
  BY <1>1 DEF Closes
<1>4. ASSUME NEW i \in p[1] + 1 .. p[2]
      PROVE  t[i] # Open
  <2>1. i = p[2] \/ i \in p[1] + 1 .. p[2] - 1
    BY <1>1, <1>2
  <2>2. CASE i = p[2]
    BY <2>2, <1>1, AtomsDiffer DEF Closes
  <2>3. CASE i \in p[1] + 1 .. p[2] - 1
    BY <2>3, <1>1 DEF Closes
  <2> QED
    BY <2>1, <2>2, <2>3, Zenon
<1> QED
  BY <1>1, <1>2, <1>3, <1>4 DEF Closes

\* Behind what is whole, text without an opening brace is in no placeholder.
LEMMA OutsidePlaceholders ==
    ASSUME NEW t \in Seq(Atoms), NEW n \in Nat, WholeUpTo(t, n),
           NEW text \in Seq(Atoms), StandsAfter(text, t, n),
           \A i \in 1 .. Len(text) : text[i] # Open,
           NEW i \in n + 1 .. n + Len(text), NEW p \in Placeholders(t)
    PROVE  ~(p[1] <= i /\ i <= p[2])
<1>1. SUFFICES ASSUME p[1] <= i, i <= p[2] PROVE FALSE
  OBVIOUS
<1>2. PICK k \in Nat : k = Len(text)
  BY LenProperties
<1>3. p[1] \in 1 .. Len(t) /\ p[2] \in 1 .. Len(t) /\ t[p[1]] = Open /\ Len(t) \in Nat
  BY PlaceholderParts
<1>4. CASE p[1] <= n
  <2>1. p[1] \in 1 .. n
    BY <1>3, <1>4
  <2>2. PICK q \in Placeholders(t) : q[1] = p[1] /\ q[2] <= n
    BY <2>1, <1>3 DEF WholeUpTo
  <2>3. q = p
    BY <2>2, PlaceholderUnique
  <2> QED
    BY <2>2, <2>3, <1>1, <1>2, <1>3
<1>5. CASE p[1] > n
  <2>1. p[1] - n \in 1 .. k /\ n + (p[1] - n) = p[1]
    BY <1>1, <1>2, <1>3, <1>5
  <2>2. text[p[1] - n] = t[p[1]]
    BY <2>1, <1>2 DEF StandsAfter
  <2> QED
    BY <2>1, <2>2, <1>2, <1>3
<1> QED
  BY <1>3, <1>4, <1>5

\* Meaning is built from left to right.
LEMMA MeaningGrows ==
    ASSUME NEW t, NEW value, NEW n \in Nat, NEW k \in Nat, NEW right, Lists(right, k),
           \A i \in 1 .. k : MeaningAt(t, value, n + i) = right[i]
    PROVE  MeaningUpTo(t, value, n + k) = MeaningUpTo(t, value, n) \o right
<1> DEFINE left == MeaningUpTo(t, value, n)
           whole == MeaningUpTo(t, value, n + k)
<1>1. Lists(left, n) /\ Lists(whole, n + k)
  BY DEF Lists, MeaningUpTo
<1>2. \A i \in 1 .. n : whole[i] = left[i]
  BY DEF MeaningUpTo
<1>3. \A i \in 1 .. k : whole[n + i] = right[i]
  BY DEF MeaningUpTo
<1> HIDE DEF left, whole
<1>4. whole = left \o right
  BY <1>1, <1>2, <1>3, InARow
<1> QED
  BY <1>4 DEF left, whole

\* Where text stands between placeholders.
LEMMA TextPlaces ==
    ASSUME NEW t \in Seq(Atoms), NEW n \in Nat, WholeUpTo(t, n),
           NEW text \in Seq(Atoms), StandsAfter(text, t, n),
           \A i \in 1 .. Len(text) : text[i] # Open,
           NEW k \in Nat, k = Len(text)
    PROVE  /\ \A i \in n + 1 .. n + k : \A p \in Placeholders(t) : ~(p[1] <= i /\ i <= p[2])
           /\ \A i \in n + 1 .. n + k : t[i] # Open
           /\ \A i \in n + 1 .. n + k : i \in DOMAIN t
           /\ \A i \in 1 .. k : text[i] = t[n + i] /\ n + i \in n + 1 .. n + k
<1>1. \A i \in n + 1 .. n + k : \A p \in Placeholders(t) : ~(p[1] <= i /\ i <= p[2])
  BY OutsidePlaceholders
<1>2. \A i \in n + 1 .. n + k : i \in DOMAIN t
  BY DEF StandsAfter
<1>3. \A i \in 1 .. k : text[i] = t[n + i] /\ n + i \in n + 1 .. n + k
  BY DEF StandsAfter
<1>4. \A i \in n + 1 .. n + k : t[i] # Open
  <2> TAKE i \in n + 1 .. n + k
  <2>1. i - n \in 1 .. k /\ n + (i - n) = i
    OBVIOUS
  <2> QED
    BY <2>1, <1>3
<1> QED
  BY <1>1, <1>2, <1>3, <1>4

\* The braces of such a text are the stray ones there.
LEMMA StraysOfText ==
    ASSUME NEW t \in Seq(Atoms), NEW n \in Nat, WholeUpTo(t, n), n \notin StrayBraces(t),
           NEW text \in Seq(Atoms), StandsAfter(text, t, n),
           \A i \in 1 .. Len(text) : text[i] # Open
    PROVE  \A i \in 1 .. Len(text) :
               /\ n + i \in StrayBraces(t) <=> i \in Braces(text)
               /\ Paired(t, n + i) <=> Collapsed(text, i)
<1>k. PICK k \in Nat : k = Len(text)
  BY LenProperties
<1>0. /\ \A i \in n + 1 .. n + k : \A p \in Placeholders(t) : ~(p[1] <= i /\ i <= p[2])
      /\ \A i \in n + 1 .. n + k : i \in DOMAIN t
      /\ \A i \in 1 .. k : text[i] = t[n + i] /\ n + i \in n + 1 .. n + k
  BY <1>k, TextPlaces
<1>1. ASSUME NEW i \in 1 .. k
      PROVE  n + i \in StrayBraces(t) <=> i \in Braces(text)
  <2>1. n + i \in DOMAIN t /\ text[i] = t[n + i] /\ i \in DOMAIN text
    BY <1>0, <1>k
  <2>2. ~\E p \in Placeholders(t) : p[2] = n + i
    <3> SUFFICES ASSUME NEW p \in Placeholders(t), p[2] = n + i PROVE FALSE
      OBVIOUS
    <3>1. p[1] <= n + i /\ n + i <= p[2]
      BY PlaceholderParts
    <3> QED
      BY <3>1, <1>0
  <2> QED
    BY <2>1, <2>2, Zenon DEF StrayBraces, Braces
<1>2. 0 \notin StrayBraces(t) /\ 0 \notin Braces(text)
  BY DEF StrayBraces, Braces
<1>3. ASSUME NEW i \in 1 .. k
      PROVE  RunBefore(n + i, StrayBraces(t)) = RunBefore(i, Braces(text))
  BY <1>1, <1>2, RunsAlike
<1>4. ASSUME NEW i \in 1 .. k
      PROVE  i \in Braces(text) <=> text[i] = Close
  BY <1>k DEF Braces
<1>5. ASSUME NEW i \in 1 .. k
      PROVE  Paired(t, n + i) <=> Collapsed(text, i)
  BY <1>1, <1>3, <1>4, Zenon DEF Paired, Collapsed
<1> QED
  BY <1>k, <1>1, <1>5

\* Text means itself, but for the braces of its pairs.
LEMMA TextMeans ==
    ASSUME NEW t \in Seq(Atoms), NEW n \in Nat, WholeUpTo(t, n), n \notin StrayBraces(t),
           NEW value, NEW text \in Seq(Atoms), StandsAfter(text, t, n),
           \A i \in 1 .. Len(text) : text[i] # Open
    PROVE  /\ WholeUpTo(t, n + Len(text))
           /\ MeaningUpTo(t, value, n + Len(text)) = MeaningUpTo(t, value, n) \o Pieces(text)
<1>k. PICK k \in Nat : k = Len(text)
  BY LenProperties
<1>0. /\ \A i \in n + 1 .. n + k : \A p \in Placeholders(t) : ~(p[1] <= i /\ i <= p[2])
      /\ \A i \in n + 1 .. n + k : t[i] # Open
      /\ \A i \in n + 1 .. n + k : i \in DOMAIN t
      /\ \A i \in 1 .. k : text[i] = t[n + i] /\ n + i \in n + 1 .. n + k
  BY <1>k, TextPlaces
<1>1. WholeUpTo(t, n + k)
  <2> SUFFICES ASSUME NEW i \in 1 .. n + k, t[i] = Open
               PROVE  \E p \in Placeholders(t) : p[1] = i /\ p[2] <= n + k
    BY DEF WholeUpTo
  <2>1. i \in 1 .. n
    <3>1. i \in 1 .. n \/ i \in n + 1 .. n + k
      OBVIOUS
    <3> QED
      BY <3>1, <1>0
  <2>2. PICK p \in Placeholders(t) : p[1] = i /\ p[2] <= n
    BY <2>1 DEF WholeUpTo
  <2>3. p[2] <= n + k
    BY <2>2, PlaceholderParts
  <2> QED
    BY <2>2, <2>3
<1>2. MeaningUpTo(t, value, n + k) = MeaningUpTo(t, value, n) \o Pieces(text)
  <2> DEFINE right == Pieces(text)
  <2>1. Lists(right, k)
    BY <1>k DEF Lists, Pieces
  <2>2. ASSUME NEW i \in 1 .. k
        PROVE  MeaningAt(t, value, n + i) = right[i]
    <3>1. n + i \in n + 1 .. n + k /\ text[i] = t[n + i]
      BY <1>0
    <3>2. \A p \in Placeholders(t) : p[1] # n + i /\ ~(p[1] < n + i /\ n + i <= p[2])
      <4> TAKE p \in Placeholders(t)
      <4>1. p[1] \in Nat /\ p[2] \in Nat /\ p[1] < p[2]
        BY PlaceholderParts
      <4>2. ~(p[1] <= n + i /\ n + i <= p[2])
        BY <3>1, <1>0
      <4> QED
        BY <4>1, <4>2
    <3>3. MeaningAt(t, value, n + i) = IF Paired(t, n + i) THEN <<>> ELSE <<t[n + i]>>
      BY <3>2, Zenon DEF MeaningAt
    <3>4. Paired(t, n + i) <=> Collapsed(text, i)
      BY <1>k, StraysOfText
    <3>5. MeaningAt(t, value, n + i) = Piece(text, i)
      BY <3>1, <3>3, <3>4, Zenon DEF Piece
    <3> QED
      BY <3>5, <1>k DEF Pieces
  <2> HIDE DEF right
  <2>3. MeaningUpTo(t, value, n + k) = MeaningUpTo(t, value, n) \o right
    BY <2>1, <2>2, MeaningGrows
  <2> QED
    BY <2>3 DEF right
<1> QED
  BY <1>k, <1>1, <1>2

\* A placeholder means the value of its field.
LEMMA PlaceholderMeans ==
    ASSUME NEW t \in Seq(Atoms), NEW n \in Nat, WholeUpTo(t, n), NEW value,
           NEW p \in Placeholders(t), p[1] = n + 1
    PROVE  /\ WholeUpTo(t, p[2])
           /\ MeaningUpTo(t, value, p[2]) =
                (MeaningUpTo(t, value, n) \o <<value[p[3]]>>) \o [i \in 1 .. (p[2] - n) - 1 |-> <<>>]
<1>p. /\ p[1] \in 1 .. Len(t) /\ p[2] \in 1 .. Len(t) /\ Len(t) \in Nat
      /\ p[1] < p[2]
      /\ \A i \in p[1] + 1 .. p[2] : t[i] # Open
  BY PlaceholderParts
<1>m. PICK m \in Nat : m = (p[2] - n) - 1
  BY <1>p
<1>e. p[2] = (n + 1) + m
  BY <1>m, <1>p
<1>1. WholeUpTo(t, p[2])
  <2> SUFFICES ASSUME NEW i \in 1 .. p[2], t[i] = Open
               PROVE  \E q \in Placeholders(t) : q[1] = i /\ q[2] <= p[2]
    BY DEF WholeUpTo
  <2>1. i \in 1 .. n \/ i = n + 1 \/ i \in p[1] + 1 .. p[2]
    BY <1>p
  <2>2. CASE i \in 1 .. n
    <3>1. PICK q \in Placeholders(t) : q[1] = i /\ q[2] <= n
      BY <2>2 DEF WholeUpTo
    <3>2. q[2] <= p[2]
      BY <3>1, <1>p, PlaceholderParts
    <3> QED
      BY <3>1, <3>2
  <2>3. CASE i = n + 1
    BY <2>3, <1>p
  <2> QED
    BY <2>1, <2>2, <2>3, <1>p
<1>2. MeaningUpTo(t, value, n + 1) = MeaningUpTo(t, value, n) \o <<value[p[3]]>>
  <2> DEFINE right == <<value[p[3]]>>
  <2>1. Lists(right, 1)
    BY DEF Lists
  <2>2. (CHOOSE q \in Placeholders(t) : q[1] = n + 1) = p
    <3>1. \A q \in Placeholders(t) : q[1] = n + 1 => q = p
      BY PlaceholderUnique
    <3> QED
      BY <3>1, Zenon
  <2>3. MeaningAt(t, value, n + 1) = value[p[3]]
    BY <2>2, Zenon DEF MeaningAt
  <2>4. \A i \in 1 .. 1 : MeaningAt(t, value, n + i) = right[i]
    BY <2>3
  <2> HIDE DEF right
  <2>5. MeaningUpTo(t, value, n + 1) = MeaningUpTo(t, value, n) \o right
    BY <2>1, <2>4, MeaningGrows
  <2> QED
    BY <2>5 DEF right
<1>3. MeaningUpTo(t, value, (n + 1) + m) =
          MeaningUpTo(t, value, n + 1) \o [i \in 1 .. m |-> <<>>]
  <2> DEFINE right == [i \in 1 .. m |-> <<>>]
  <2>1. Lists(right, m)
    BY DEF Lists
  <2>2. ASSUME NEW i \in 1 .. m
        PROVE  MeaningAt(t, value, (n + 1) + i) = right[i]
    <3> DEFINE j == (n + 1) + i
    <3>1. j \in p[1] + 1 .. p[2]
      BY <1>e, <1>p
    <3>2. ~\E q \in Placeholders(t) : q[1] = j
      BY <3>1, <1>p, PlaceholderParts
    <3>3. p[1] < j /\ j <= p[2]
      BY <3>1, <1>p
    <3>4. MeaningAt(t, value, j) = <<>>
      <4> HIDE DEF j
      <4> QED
        BY <3>2, <3>3, Zenon DEF MeaningAt
    <3> QED
      BY <3>4
  <2>3. PICK k \in Nat : k = n + 1
    OBVIOUS
  <2> HIDE DEF right
  <2>4. \A i \in 1 .. m : MeaningAt(t, value, k + i) = right[i]
    BY <2>2, <2>3
  <2>5. MeaningUpTo(t, value, k + m) = MeaningUpTo(t, value, k) \o right
    BY <2>1, <2>4, MeaningGrows
  <2> QED
    BY <2>3, <2>5 DEF right
<1> QED
  BY <1>1, <1>2, <1>3, <1>m, <1>e

\* A text, an opening brace in it and the first closing brace behind it.
LEMMA BracesOfText ==
    ASSUME NEW t \in Seq(Atoms), NEW at \in 1 .. Len(t), t[at] = Open,
           NEW end \in 1 .. Len(t), at < end, t[end] = Close,
           \A i \in at + 1 .. end - 1 : t[i] # Close
    PROVE  /\ \A f \in FieldsNamedBy(SubSeq(t, at + 1, end - 1)) :
                 <<at, end, f>> \in Placeholders(t)
           /\ \A p \in Placeholders(t) : p[1] = at =>
                 p[2] = end /\ p[3] \in FieldsNamedBy(SubSeq(t, at + 1, end - 1))
<1>n. PICK n \in Nat : n = Len(t)
  BY LenProperties
<1>0. at \in 1 .. n /\ end \in 1 .. n /\ DOMAIN t = 1 .. n
  BY <1>n
<1> DEFINE name == SubSeq(t, at + 1, end - 1)
<1>s. /\ Len(name) = (end - at) - 1
      /\ \A i \in 1 .. (end - at) - 1 : name[i] = t[at + i]
      /\ DOMAIN name = 1 .. (end - at) - 1
  BY <1>0, <1>n, SubSeqProperties
<1> HIDE DEF name
<1>1. ASSUME NEW f \in FieldsNamedBy(name)
      PROVE  <<at, end, f>> \in Placeholders(t)
  <2>1. \A i \in at + 1 .. end - 1 : t[i] \notin {Open, Close}
    <3> TAKE i \in at + 1 .. end - 1
    <3>1. i - at \in 1 .. (end - at) - 1 /\ at + (i - at) = i
      BY <1>0
    <3>2. t[i] = name[i - at] /\ i - at \in DOMAIN name
      BY <3>1, <1>s
    <3> QED
      BY <3>2, NamedText
  <2>2. Closes(t, at, end)
    BY <1>0, <2>1 DEF Closes
  <2>3. f \in Fields
    BY DEF FieldsNamedBy
  <2> QED
    BY <1>0, <2>2, <2>3 DEF Placeholders, name
<1>2. ASSUME NEW p \in Placeholders(t), p[1] = at
      PROVE  p[2] = end /\ p[3] \in FieldsNamedBy(name)
  <2>1. /\ p[2] \in 1 .. n /\ t[p[2]] = Close /\ p[1] < p[2]
        /\ Closes(t, p[1], p[2]) /\ p[3] \in FieldsNamedBy(SubSeq(t, p[1] + 1, p[2] - 1))
    BY <1>n, PlaceholderParts DEF Placeholders
  <2>2. ~(p[2] < end)
    <3>1. SUFFICES ASSUME p[2] < end PROVE FALSE
      OBVIOUS
    <3>2. p[2] \in at + 1 .. end - 1
      BY <3>1, <2>1, <1>0, <1>2
    <3> QED
      BY <3>2, <2>1
  <2>3. ~(p[2] > end)
    <3>1. SUFFICES ASSUME p[2] > end PROVE FALSE
      OBVIOUS
    <3>2. end \in at + 1 .. p[2] - 1
      BY <3>1, <2>1, <1>0
    <3> QED
      BY <3>2, <2>1, <1>2 DEF Closes
  <2>4. p[2] = end
    BY <2>1, <2>2, <2>3, <1>0
  <2> QED
    BY <2>1, <2>4, <1>2 DEF name
<1> QED
  BY <1>1, <1>2 DEF name

\* What is left to scan, and where in the text the scanner stands.
LEMMA RestStands ==
    ASSUME NEW t \in Seq(Atoms), NEW r \in Seq(Atoms), NEW n \in Nat, StandsAfter(r, t, n),
           NEW i \in 0 .. Len(r), NEW j \in i .. Len(r)
    PROVE  /\ SubSeq(r, i + 1, j) \in Seq(Atoms)
           /\ Len(SubSeq(r, i + 1, j)) = j - i
           /\ \A k \in 1 .. j - i : SubSeq(r, i + 1, j)[k] = r[i + k]
           /\ StandsAfter(SubSeq(r, i + 1, j), t, n + i)
<1>m. PICK m \in Nat : m = Len(r)
  BY LenProperties
<1>0. i \in 0 .. m /\ j \in i .. m /\ n + m <= Len(t) /\ Len(t) \in Nat
  BY <1>m DEF StandsAfter
<1> DEFINE s == SubSeq(r, i + 1, j)
<1>1. s \in Seq(Atoms) /\ Len(s) = j - i /\ \A k \in 1 .. j - i : s[k] = r[i + k]
  BY <1>0, <1>m, SubSeqProperties
<1>2. \A k \in 1 .. j - i : r[i + k] = t[(n + i) + k]
  <2> TAKE k \in 1 .. j - i
  <2>1. i + k \in 1 .. m /\ n + (i + k) = (n + i) + k
    BY <1>0
  <2>2. r[i + k] = t[n + (i + k)]
    BY <2>1, <1>m DEF StandsAfter
  <2> QED
    BY <2>1, <2>2
<1> HIDE DEF s
<1>3. StandsAfter(s, t, n + i)
  <2>1. (n + i) + Len(s) <= Len(t)
    BY <1>0, <1>1
  <2>2. \A k \in 1 .. Len(s) : s[k] = t[(n + i) + k]
    BY <1>1, <1>2
  <2> QED
    BY <2>1, <2>2 DEF StandsAfter
<1> QED
  BY <1>1, <1>3 DEF s

\* The rest and the whole text, cut at the same place.
LEMMA SameText ==
    ASSUME NEW t \in Seq(Atoms), NEW r \in Seq(Atoms), NEW n \in Nat, StandsAfter(r, t, n),
           NEW j \in 0 .. Len(r)
    PROVE  SubSeq(t, n + 1, n + j) = SubSeq(r, 1, j)
<1>m. PICK m \in Nat : m = Len(r)
  BY LenProperties
<1>0. j \in 0 .. m /\ n + m <= Len(t) /\ Len(t) \in Nat
  BY <1>m DEF StandsAfter
<1> DEFINE s == SubSeq(r, 1, j)
           u == SubSeq(t, n + 1, n + j)
<1>1. s \in Seq(Atoms) /\ Len(s) = j /\ \A k \in 1 .. j : s[k] = r[k]
  BY <1>0, <1>m, SubSeqProperties
<1>2. u \in Seq(Atoms) /\ Len(u) = j /\ \A k \in 1 .. j : u[k] = t[n + k]
  BY <1>0, SubSeqProperties
<1>3. \A k \in 1 .. j : r[k] = t[n + k]
  BY <1>0, <1>m DEF StandsAfter
<1> HIDE DEF s, u
<1>4. u = s
  BY <1>1, <1>2, <1>3, SeqEqual
<1> QED
  BY <1>4 DEF s, u

\* Expanding and meaning give sequences of characters.
LEMMA ExpandedType ==
    ASSUME NEW fmt \in Seq(FormatAtoms), NEW args \in Seq(Fields),
           HolesUpTo(fmt, Len(fmt)) = Len(args),
           NEW value \in [Fields -> Seq(STRING)]
    PROVE  Expanded(fmt, args, value) \in Seq(Seq(Characters))
<1>n. PICK n \in Nat : n = Len(fmt) /\ \A i \in 1 .. n : fmt[i] \in FormatAtoms
  BY LenProperties
<1>k. PICK k \in Nat : k = Len(args) /\ \A i \in 1 .. k : args[i] \in Fields
  BY LenProperties
<1>1. ASSUME NEW i \in 1 .. n
      PROVE  Expanded(fmt, args, value)[i] \in Seq(Characters)
  <2>1. CASE fmt[i] = Hole
    <3>1. HolesUpTo(fmt, i) \in 1 .. k
      BY <2>1, <1>n, <1>k, HolesCounted
    <3>2. value[args[HolesUpTo(fmt, i)]] \in Seq(STRING)
      BY <3>1, <1>k
    <3>3. Seq(STRING) \subseteq Seq(Characters)
      BY SeqMonotonic DEF Characters
    <3> QED
      BY <3>2, <3>3, <2>1, <1>n DEF Expanded
  <2>2. CASE fmt[i] # Hole
    <3>1. fmt[i] \in Characters
      BY <2>2, <1>n DEF Characters, FormatAtoms
    <3>2. <<fmt[i]>> \in Seq(Characters) /\ <<>> \in Seq(Characters)
      BY <3>1
    <3>3. Piece(fmt, i) \in Seq(Characters)
      BY <3>2 DEF Piece
    <3> QED
      BY <3>3, <2>2, <1>n DEF Expanded
  <2> QED
    BY <2>1, <2>2
<1>2. Expanded(fmt, args, value) = [i \in 1 .. n |-> Expanded(fmt, args, value)[i]]
  BY <1>n DEF Expanded
<1> DEFINE all == Expanded(fmt, args, value)
<1> DEFINE T == Seq(Characters)
<1>3. \A i \in 1 .. n : all[i] \in T
  BY <1>1
<1>4. all = [i \in 1 .. n |-> all[i]]
  BY <1>2
<1> HIDE DEF all, T
<1>5. all \in Seq(T)
  <2>1. all \in [1 .. n -> T]
    BY <1>3, <1>4, Zenon
  <2>2. \A q \in [1 .. n -> T] : q \in Seq(T)
    OBVIOUS
  <2> QED
    BY <2>1, <2>2
<1> QED
  BY <1>5 DEF all, T

LEMMA MeaningType ==
    ASSUME NEW t \in Seq(Atoms), NEW n \in Nat, n <= Len(t), NEW value \in [Fields -> Seq(STRING)]
    PROVE  MeaningUpTo(t, value, n) \in Seq(Seq(Characters))
<1>1. ASSUME NEW i \in 1 .. n
      PROVE  MeaningAt(t, value, i) \in Seq(Characters)
  <2>1. CASE \E p \in Placeholders(t) : p[1] = i
    <3> DEFINE q == CHOOSE p \in Placeholders(t) : p[1] = i
    <3>1. q \in Placeholders(t)
      BY <2>1, Zenon
    <3> HIDE DEF q
    <3>2. value[q[3]] \in Seq(STRING)
      BY <3>1, PlaceholderParts
    <3>3. Seq(STRING) \subseteq Seq(Characters)
      BY SeqMonotonic DEF Characters
    <3>4. MeaningAt(t, value, i) = value[q[3]]
      BY <2>1, Zenon DEF MeaningAt, q
    <3> QED
      BY <3>2, <3>3, <3>4
  <2>2. CASE ~\E p \in Placeholders(t) : p[1] = i
    <3>1. t[i] \in Characters
      BY DEF Characters
    <3>2. <<t[i]>> \in Seq(Characters) /\ <<>> \in Seq(Characters)
      BY <3>1
    <3>3. MeaningAt(t, value, i) = <<t[i]>> \/ MeaningAt(t, value, i) = <<>>
      BY <2>2, Zenon DEF MeaningAt
    <3> QED
      BY <3>2, <3>3
  <2> QED
    BY <2>1, <2>2
<1> QED
  BY <1>1 DEF MeaningUpTo

LEMMA PiecesType ==
    ASSUME NEW text \in Seq(Atoms)
    PROVE  Pieces(text) \in Seq(Seq(Characters))
<1>1. ASSUME NEW i \in 1 .. Len(text)
      PROVE  Piece(text, i) \in Seq(Characters)
  <2>1. text[i] \in Characters
    BY DEF Characters
  <2>2. <<text[i]>> \in Seq(Characters) /\ <<>> \in Seq(Characters)
    BY <2>1
  <2> QED
    BY <2>2 DEF Piece
<1> QED
  BY <1>1 DEF Pieces

\* Format string and text agree so far, whatever the fields' values.
Agree(fmt, args, t, n) ==
    \A value \in [Fields -> Seq(STRING)] :
        FlattenSeq(Expanded(fmt, args, value)) = FlattenSeq(MeaningUpTo(t, value, n))

\* The two still agree when text is copied into the format string ...
LEMMA TextAgrees ==
    ASSUME NEW fmt \in Seq(FormatAtoms), NEW args \in Seq(Fields),
           HolesUpTo(fmt, Len(fmt)) = Len(args),
           Len(fmt) \notin Braces(fmt),
           NEW t \in Seq(Atoms), NEW n \in Nat, WholeUpTo(t, n), n \notin StrayBraces(t),
           Agree(fmt, args, t, n),
           NEW text \in Seq(Atoms), StandsAfter(text, t, n),
           \A i \in 1 .. Len(text) : text[i] # Open
    PROVE  Agree(fmt \o text, args, t, n + Len(text))
<1> SUFFICES ASSUME NEW value \in [Fields -> Seq(STRING)]
             PROVE  FlattenSeq(Expanded(fmt \o text, args, value)) =
                    FlattenSeq(MeaningUpTo(t, value, n + Len(text)))
  BY DEF Agree
<1> DEFINE left == Expanded(fmt, args, value)
           meant == MeaningUpTo(t, value, n)
           right == Pieces(text)
<1>1. Expanded(fmt \o text, args, value) = left \o right
  <2>1. ASSUME NEW v
        PROVE  Expanded(fmt \o text, args, v) = Expanded(fmt, args, v) \o Pieces(text)
    BY TextExpands
  <2> QED
    BY <2>1
<1>2. MeaningUpTo(t, value, n + Len(text)) = meant \o right
  BY TextMeans
<1>3. left \in Seq(Seq(Characters))
  BY ExpandedType
<1>4. meant \in Seq(Seq(Characters))
  <2>1. n <= Len(t)
    BY DEF StandsAfter
  <2> QED
    BY <2>1, MeaningType
<1>5. right \in Seq(Seq(Characters))
  BY PiecesType
<1>6. FlattenSeq(left) = FlattenSeq(meant)
  BY DEF Agree
<1> HIDE DEF left, meant, right
<1>7. FlattenSeq(left \o right) = FlattenSeq(left) \o FlattenSeq(right)
  BY <1>3, <1>5, FlatConcat
<1>8. FlattenSeq(meant \o right) = FlattenSeq(meant) \o FlattenSeq(right)
  BY <1>4, <1>5, FlatConcat
<1> QED
  BY <1>1, <1>2, <1>6, <1>7, <1>8

\* A hole adds the value of its field to what is printed ...
LEMMA HoleFlat ==
    ASSUME NEW fmt \in Seq(FormatAtoms), NEW args \in Seq(Fields),
           HolesUpTo(fmt, Len(fmt)) = Len(args),
           NEW value \in [Fields -> Seq(STRING)], NEW f \in Fields
    PROVE  FlattenSeq(Expanded(fmt \o <<Hole>>, args \o <<f>>, value)) =
           FlattenSeq(Expanded(fmt, args, value)) \o value[f]
<1>1. Expanded(fmt \o <<Hole>>, args \o <<f>>, value) = Expanded(fmt, args, value) \o <<value[f]>>
  BY HoleExpands
<1>2. value[f] \in Seq(Characters)
  <2>1. Seq(STRING) \subseteq Seq(Characters)
    BY SeqMonotonic DEF Characters
  <2> QED
    BY <2>1
<1> DEFINE one == <<value[f]>>
<1>3. one \in Seq(Seq(Characters)) /\ FlattenSeq(one) = value[f]
  BY <1>2, FlatOne
<1>4. Expanded(fmt, args, value) \in Seq(Seq(Characters))
  BY ExpandedType
<1> HIDE DEF one
<1>5. FlattenSeq(Expanded(fmt, args, value) \o one) =
          FlattenSeq(Expanded(fmt, args, value)) \o FlattenSeq(one)
  BY <1>3, <1>4, FlatConcat
<1> QED
  BY <1>1, <1>3, <1>5 DEF one

\* ... a placeholder adds it to what is meant ...
LEMMA PlaceholderFlat ==
    ASSUME NEW t \in Seq(Atoms), NEW n \in Nat, WholeUpTo(t, n),
           NEW value \in [Fields -> Seq(STRING)],
           NEW p \in Placeholders(t), p[1] = n + 1
    PROVE  FlattenSeq(MeaningUpTo(t, value, p[2])) =
           FlattenSeq(MeaningUpTo(t, value, n)) \o value[p[3]]
<1> DEFINE meant == MeaningUpTo(t, value, n)
           one == <<value[p[3]]>>
           none == [i \in 1 .. (p[2] - n) - 1 |-> <<>>]
<1>p. /\ p[1] \in 1 .. Len(t) /\ p[2] \in 1 .. Len(t) /\ p[3] \in Fields /\ Len(t) \in Nat
      /\ p[1] < p[2]
  BY PlaceholderParts
<1>1. value[p[3]] \in Seq(Characters)
  <2>1. Seq(STRING) \subseteq Seq(Characters)
    BY SeqMonotonic DEF Characters
  <2>2. value[p[3]] \in Seq(STRING)
    BY <1>p
  <2> QED
    BY <2>1, <2>2
<1>2. MeaningUpTo(t, value, p[2]) = (meant \o one) \o none
  BY PlaceholderMeans
<1>3. meant \in Seq(Seq(Characters))
  <2>1. n <= Len(t)
    BY <1>p
  <2> QED
    BY <2>1, MeaningType
<1>4. one \in Seq(Seq(Characters)) /\ FlattenSeq(one) = value[p[3]]
  BY <1>1, FlatOne
<1>5. none \in Seq(Seq(Characters)) /\ FlattenSeq(none) = <<>>
  <2>1. PICK m \in Nat : m = (p[2] - n) - 1
    BY <1>p
  <2>2. [i \in 1 .. m |-> <<>>] \in Seq(Seq(Characters))
    OBVIOUS
  <2>3. FlattenSeq([i \in 1 .. m |-> <<>>]) = <<>>
    BY FlatEmpties
  <2> QED
    BY <2>1, <2>2, <2>3
<1> HIDE DEF meant, one, none
<1>6. FlattenSeq(meant \o one) = FlattenSeq(meant) \o FlattenSeq(one)
  BY <1>3, <1>4, FlatConcat
<1>7. meant \o one \in Seq(Seq(Characters))
  BY <1>3, <1>4, ConcatProperties
<1>8. FlattenSeq((meant \o one) \o none) = FlattenSeq(meant \o one) \o FlattenSeq(none)
  BY <1>5, <1>7, FlatConcat
<1>9. FlattenSeq(meant \o one) \in Seq(Characters)
  BY <1>7, FlatType
<1>10. FlattenSeq(meant \o one) \o <<>> = FlattenSeq(meant \o one)
  BY <1>9, ConcatEmptySeq
<1> QED
  BY <1>2, <1>4, <1>5, <1>6, <1>8, <1>10 DEF meant

\* ... so they also agree behind a placeholder.
LEMMA HoleAgrees ==
    ASSUME NEW fmt \in Seq(FormatAtoms), NEW args \in Seq(Fields),
           HolesUpTo(fmt, Len(fmt)) = Len(args),
           NEW t \in Seq(Atoms), NEW n \in Nat, WholeUpTo(t, n), Agree(fmt, args, t, n),
           NEW p \in Placeholders(t), p[1] = n + 1
    PROVE  Agree(fmt \o <<Hole>>, args \o <<p[3]>>, t, p[2])
<1> SUFFICES ASSUME NEW value \in [Fields -> Seq(STRING)]
             PROVE  FlattenSeq(Expanded(fmt \o <<Hole>>, args \o <<p[3]>>, value)) =
                    FlattenSeq(MeaningUpTo(t, value, p[2]))
  BY DEF Agree
<1>2. PICK f \in Fields : f = p[3]
  BY PlaceholderParts
<1>3. FlattenSeq(Expanded(fmt \o <<Hole>>, args \o <<f>>, value)) =
          FlattenSeq(Expanded(fmt, args, value)) \o value[f]
  BY HoleFlat
<1>4. FlattenSeq(MeaningUpTo(t, value, p[2])) =
          FlattenSeq(MeaningUpTo(t, value, n)) \o value[p[3]]
  BY PlaceholderFlat
<1>5. FlattenSeq(Expanded(fmt, args, value)) = FlattenSeq(MeaningUpTo(t, value, n))
  BY DEF Agree
<1> QED
  BY <1>2, <1>3, <1>4, <1>5

\* r is all that stands in t after place n.
Remains(r, t, n) == r \in Seq(Atoms) /\ Len(t) = n + Len(r) /\ StandsAfter(r, t, n)

\* From where the scanner stands to the next opening brace.
LEMMA UpToOpen ==
    ASSUME NEW t \in Seq(Atoms), NEW n \in Nat, NEW r, Remains(r, t, n),
           NEW o \in 1 .. Len(r), r[o] = Open, \A j \in 1 .. o - 1 : r[j] # Open
    PROVE  /\ SubSeq(r, 1, o - 1) \in Seq(Atoms)
           /\ Len(SubSeq(r, 1, o - 1)) = o - 1
           /\ StandsAfter(SubSeq(r, 1, o - 1), t, n)
           /\ \A i \in 1 .. Len(SubSeq(r, 1, o - 1)) : SubSeq(r, 1, o - 1)[i] # Open
           /\ Remains(SubSeq(r, o + 1, Len(r)), t, n + o)
           /\ n + o \in 1 .. Len(t) /\ t[n + o] = Open
<1>m. PICK m \in Nat : m = Len(r)
  BY LenProperties DEF Remains
<1>0. r \in Seq(Atoms) /\ Len(t) = n + m /\ StandsAfter(r, t, n) /\ o \in 1 .. m
  BY <1>m DEF Remains
<1> DEFINE text == SubSeq(r, 0 + 1, o - 1)
           inside == SubSeq(r, o + 1, m)
<1>1. o - 1 \in 0 .. m /\ 0 \in 0 .. m /\ o \in 0 .. m /\ m \in o .. m
  BY <1>0
<1>2. /\ text \in Seq(Atoms) /\ Len(text) = (o - 1) - 0
      /\ \A i \in 1 .. (o - 1) - 0 : text[i] = r[0 + i]
      /\ StandsAfter(text, t, n + 0)
  BY <1>0, <1>1, <1>m, RestStands
<1>3. /\ inside \in Seq(Atoms) /\ Len(inside) = m - o /\ StandsAfter(inside, t, n + o)
  BY <1>0, <1>1, <1>m, RestStands
<1> HIDE DEF text, inside
<1>4. Remains(inside, t, n + o)
  <2>1. n + m = (n + o) + (m - o)
    BY <1>0
  <2>2. Len(t) = (n + o) + Len(inside)
    BY <1>0, <1>3, <2>1, Zenon
  <2> QED
    BY <1>3, <2>2, Zenon DEF Remains
<1>5. n + o \in 1 .. Len(t) /\ t[n + o] = Open
  BY <1>0, <1>m DEF StandsAfter
<1>6. text = SubSeq(r, 1, o - 1) /\ inside = SubSeq(r, o + 1, Len(r))
  BY <1>m DEF text, inside
<1>7. Len(text) = o - 1 /\ StandsAfter(text, t, n) /\ \A i \in 1 .. Len(text) : text[i] # Open
  BY <1>0, <1>2
<1> QED
  BY <1>2, <1>4, <1>5, <1>6, <1>7

\* From an opening brace to the first closing one: the placeholder is there if the text
\* between them names a field, and only then.
LEMMA UpToClose ==
    ASSUME NEW t \in Seq(Atoms), NEW m \in 1 .. Len(t), t[m] = Open, NEW r, Remains(r, t, m),
           NEW c \in 1 .. Len(r), r[c] = Close, \A j \in 1 .. c - 1 : r[j] # Close
    PROVE  /\ \A f \in FieldsNamedBy(SubSeq(r, 1, c - 1)) : <<m, m + c, f>> \in Placeholders(t)
           /\ FieldsNamedBy(SubSeq(r, 1, c - 1)) = {} => \A p \in Placeholders(t) : p[1] # m
           /\ Remains(SubSeq(r, c + 1, Len(r)), t, m + c)
<1>k. PICK k \in Nat : k = Len(r)
  BY LenProperties DEF Remains
<1>0. r \in Seq(Atoms) /\ Len(t) = m + k /\ StandsAfter(r, t, m) /\ c \in 1 .. k /\ m \in Nat
  BY <1>k DEF Remains
<1> DEFINE name == SubSeq(r, 1, c - 1)
           next == SubSeq(r, c + 1, k)
           end == m + c
<1>1. c - 1 \in 0 .. k /\ 0 \in 0 .. k /\ c \in 0 .. k /\ k \in c .. k
  BY <1>0
<1>2. SubSeq(t, m + 1, m + (c - 1)) = name
  BY <1>0, <1>1, <1>k, SameText
<1>3. next \in Seq(Atoms) /\ Len(next) = k - c /\ StandsAfter(next, t, m + c)
  BY <1>0, <1>1, <1>k, RestStands
<1> HIDE DEF next
<1>4. Remains(next, t, m + c)
  <2>1. Len(t) = (m + c) + Len(next)
    BY <1>0, <1>3
  <2> QED
    BY <1>3, <2>1 DEF Remains
<1>5. \A i \in 1 .. k : r[i] = t[m + i]
  BY <1>0, <1>k DEF StandsAfter
<1>6. end \in 1 .. Len(t) /\ m < end /\ t[end] = Close
  BY <1>0, <1>5
<1>7. \A i \in m + 1 .. end - 1 : t[i] # Close
  <2> TAKE i \in m + 1 .. end - 1
  <2>1. i - m \in 1 .. c - 1 /\ i - m \in 1 .. k /\ m + (i - m) = i
    BY <1>0
  <2> QED
    BY <2>1, <1>5
<1>8. SubSeq(t, m + 1, end - 1) = name
  <2>1. m + (c - 1) = end - 1
    BY <1>0
  <2> QED
    BY <2>1, <1>2
<1> HIDE DEF end, name
<1>9. /\ \A f \in FieldsNamedBy(name) : <<m, end, f>> \in Placeholders(t)
      /\ \A p \in Placeholders(t) : p[1] = m => p[3] \in FieldsNamedBy(name)
  BY <1>6, <1>7, <1>8, BracesOfText
<1>10. name = SubSeq(r, 1, c - 1) /\ next = SubSeq(r, c + 1, Len(r)) /\ end = m + c
  BY <1>k DEF name, next, end
<1> QED
  BY <1>4, <1>9, <1>10, Zenon

\* An opening brace with no closing one behind it opens no placeholder.
LEMMA NeverClosed ==
    ASSUME NEW t \in Seq(Atoms), NEW m \in 1 .. Len(t), NEW r, Remains(r, t, m),
           ~Contains(r, Close), NEW p \in Placeholders(t)
    PROVE  p[1] # m
<1> SUFFICES ASSUME p[1] = m PROVE FALSE
  OBVIOUS
<1>1. PICK k \in Nat : k = Len(r)
  BY LenProperties DEF Remains
<1>2. Len(t) = m + k /\ \A i \in 1 .. k : r[i] = t[m + i] /\ m \in Nat
  BY <1>1 DEF Remains, StandsAfter
<1>3. p[2] \in 1 .. m + k /\ t[p[2]] = Close /\ m < p[2]
  BY <1>2, PlaceholderParts
<1>4. p[2] - m \in 1 .. k /\ m + (p[2] - m) = p[2]
  BY <1>2, <1>3
<1>5. r[p[2] - m] = Close
  BY <1>2, <1>3, <1>4
<1> QED
  BY <1>1, <1>4, <1>5 DEF Contains

-----------------------------------------------------------------------------
(* Pairs of braces, in the format string and in the template *)

\* Up to place n, stray braces come in pairs.
PairedUpTo(t, n) ==
    \A i \in StrayBraces(t) : i <= n /\ i + 1 \notin StrayBraces(t) => Paired(t, i)

\* A format string is escaped if its texts are ...
LEMMA TextEscaped ==
    ASSUME NEW fmt \in Seq(FormatAtoms), Len(fmt) \notin Braces(fmt), NEW text \in Seq(Atoms)
    PROVE  BracesEscaped(fmt \o text) <=> BracesEscaped(fmt) /\ BracesEscaped(text)
<1> DEFINE more == fmt \o text
<1>n. PICK n \in Nat : n = Len(fmt)
  BY LenProperties
<1>k. PICK k \in Nat : k = Len(text)
  BY LenProperties
<1>1. /\ more \in Seq(FormatAtoms) /\ Len(more) = n + k
      /\ \A i \in 1 .. n : more[i] = fmt[i]
      /\ \A i \in 1 .. k : more[n + i] = text[i]
  <2>1. text \in Seq(FormatAtoms)
    BY SeqMonotonic DEF FormatAtoms
  <2>2. more \in Seq(FormatAtoms)
    BY <2>1, ConcatProperties
  <2> QED
    BY <2>2, <1>n, <1>k
<1> HIDE DEF more
<1>2. ASSUME NEW i \in 1 .. n
      PROVE  (i \in Braces(more) <=> i \in Braces(fmt)) /\ (Collapsed(more, i) <=> Collapsed(fmt, i))
  BY <1>1, <1>n, SamePieces
<1>3. n \notin Braces(more) /\ n \notin Braces(fmt)
  BY <1>1, <1>2, <1>n DEF Braces
<1>4. ASSUME NEW i \in 1 .. k
      PROVE  /\ n + i \in Braces(more) <=> i \in Braces(text)
             /\ Collapsed(more, n + i) <=> Collapsed(text, i)
  <2>1. more \in Seq(FormatAtoms) /\ n + k <= Len(more) /\ k <= Len(text)
    BY <1>1, <1>k
  <2>2. \A j \in 1 .. k : more[n + j] = text[j]
    BY <1>1
  <2> QED
    BY <1>3, <2>1, <2>2, PiecesAlike, Zenon
<1>5. /\ Braces(more) \subseteq 1 .. n + k
      /\ Braces(fmt) \subseteq 1 .. n
      /\ Braces(text) \subseteq 1 .. k
  BY <1>1, <1>n, <1>k DEF Braces
<1>6. ASSUME BracesEscaped(more)
      PROVE  BracesEscaped(fmt) /\ BracesEscaped(text)
  <2>1. ASSUME NEW i \in Braces(fmt), i + 1 \notin Braces(fmt)
        PROVE  Collapsed(fmt, i)
    <3>1. i \in 1 .. n /\ i # n /\ i + 1 \in 1 .. n
      BY <1>3, <1>5
    <3>2. i \in Braces(more) /\ i + 1 \notin Braces(more)
      BY <2>1, <3>1, <1>2
    <3> QED
      BY <3>1, <3>2, <1>2, <1>6 DEF BracesEscaped
  <2>2. ASSUME NEW i \in Braces(text), i + 1 \notin Braces(text)
        PROVE  Collapsed(text, i)
    <3>1. i \in 1 .. k /\ n + i \in Braces(more) /\ (n + i) + 1 = n + (i + 1)
      BY <1>4, <1>5
    <3>2. n + (i + 1) \notin Braces(more)
      <4>1. CASE i + 1 \in 1 .. k
        BY <4>1, <2>2, <1>4
      <4>2. CASE i + 1 \notin 1 .. k
        <5>1. n + (i + 1) \notin 1 .. n + k
          BY <3>1, <4>2
        <5> QED
          BY <5>1, <1>5
      <4> QED
        BY <4>1, <4>2
    <3> QED
      BY <3>1, <3>2, <1>4, <1>6 DEF BracesEscaped
  <2> QED
    BY <2>1, <2>2 DEF BracesEscaped
<1>7. ASSUME BracesEscaped(fmt), BracesEscaped(text)
      PROVE  BracesEscaped(more)
  <2> SUFFICES ASSUME NEW i \in Braces(more), i + 1 \notin Braces(more)
               PROVE  Collapsed(more, i)
    BY DEF BracesEscaped
  <2>1. CASE i \in 1 .. n
    <3>1. i \in Braces(fmt) /\ i # n /\ i + 1 \in 1 .. n
      BY <2>1, <1>2, <1>3
    <3>2. i + 1 \notin Braces(fmt)
      BY <3>1, <1>2
    <3> QED
      BY <2>1, <3>1, <3>2, <1>2, <1>7 DEF BracesEscaped
  <2>2. CASE i \notin 1 .. n
    <3>1. PICK j \in 1 .. k : i = n + j /\ i + 1 = n + (j + 1)
      <4>1. i - n \in 1 .. k /\ i = n + (i - n) /\ i + 1 = n + ((i - n) + 1)
        BY <2>2, <1>5
      <4> QED
        BY <4>1
    <3>2. j \in Braces(text)
      BY <3>1, <1>4
    <3>3. j + 1 \notin Braces(text)
      BY <3>1, <1>4, <1>5
    <3>4. Collapsed(text, j)
      BY <3>2, <3>3, <1>7 DEF BracesEscaped
    <3> QED
      BY <3>1, <3>4, <1>4
  <2> QED
    BY <2>1, <2>2
<1> QED
  BY <1>6, <1>7 DEF more

\* ... and a hole ends a row.
LEMMA HoleEscaped ==
    ASSUME NEW fmt \in Seq(FormatAtoms)
    PROVE  /\ Len(fmt \o <<Hole>>) \notin Braces(fmt \o <<Hole>>)
           /\ BracesEscaped(fmt \o <<Hole>>) <=> BracesEscaped(fmt)
<1> DEFINE more == fmt \o <<Hole>>
<1>n. PICK n \in Nat : n = Len(fmt)
  BY LenProperties
<1>1. /\ more \in Seq(FormatAtoms) /\ Len(more) = n + 1
      /\ \A i \in 1 .. n : more[i] = fmt[i]
      /\ more[n + 1] = Hole
  BY <1>n DEF FormatAtoms
<1> HIDE DEF more
<1>2. ASSUME NEW i \in 1 .. n
      PROVE  (i \in Braces(more) <=> i \in Braces(fmt)) /\ (Collapsed(more, i) <=> Collapsed(fmt, i))
  BY <1>1, <1>n, SamePieces
<1>3. Braces(more) \subseteq 1 .. n
  <2>1. n + 1 \notin Braces(more)
    BY <1>1, AtomsDiffer DEF Braces
  <2> QED
    BY <2>1, <1>1 DEF Braces
<1>4. Braces(fmt) \subseteq 1 .. n
  BY <1>n DEF Braces
<1>5. Braces(more) = Braces(fmt)
  BY <1>2, <1>3, <1>4
<1>6. BracesEscaped(more) <=> BracesEscaped(fmt)
  BY <1>2, <1>3, <1>5 DEF BracesEscaped
<1>7. Len(more) \notin Braces(more)
  BY <1>1, <1>3
<1> QED
  BY <1>6, <1>7 DEF more

\* Stray braces are paired if those of the texts between placeholders are ...
LEMMA TextPaired ==
    ASSUME NEW t \in Seq(Atoms), NEW n \in Nat, WholeUpTo(t, n), n \notin StrayBraces(t),
           NEW text \in Seq(Atoms), StandsAfter(text, t, n),
           \A i \in 1 .. Len(text) : text[i] # Open,
           n + Len(text) + 1 \notin StrayBraces(t)
    PROVE  PairedUpTo(t, n + Len(text)) <=> PairedUpTo(t, n) /\ BracesEscaped(text)
<1>k. PICK k \in Nat : k = Len(text)
  BY LenProperties
<1>1. ASSUME NEW i \in 1 .. k
      PROVE  /\ n + i \in StrayBraces(t) <=> i \in Braces(text)
             /\ Paired(t, n + i) <=> Collapsed(text, i)
  BY <1>k, StraysOfText
<1>2. Braces(text) \subseteq 1 .. k /\ StrayBraces(t) \subseteq Nat
  BY <1>k DEF Braces, StrayBraces
<1>3. \A i \in 1 .. k : n + (i + 1) \in StrayBraces(t) <=> i + 1 \in Braces(text)
  <2> TAKE i \in 1 .. k
  <2>1. CASE i + 1 \in 1 .. k
    BY <2>1, <1>1
  <2>2. CASE i = k
    <3>1. n + (i + 1) = n + Len(text) + 1 /\ i + 1 \notin 1 .. k
      BY <2>2, <1>k
    <3> QED
      BY <3>1, <1>2
  <2> QED
    BY <2>1, <2>2
<1>4. ASSUME PairedUpTo(t, n + k)
      PROVE  PairedUpTo(t, n) /\ BracesEscaped(text)
  <2>1. PairedUpTo(t, n)
    BY <1>2, <1>4 DEF PairedUpTo
  <2>2. ASSUME NEW i \in Braces(text), i + 1 \notin Braces(text)
        PROVE  Collapsed(text, i)
    <3>1. i \in 1 .. k /\ n + i <= n + k /\ (n + i) + 1 = n + (i + 1)
      BY <1>2
    <3>2. n + i \in StrayBraces(t) /\ (n + i) + 1 \notin StrayBraces(t)
      BY <2>2, <3>1, <1>1, <1>3
    <3>3. Paired(t, n + i)
      BY <3>1, <3>2, <1>4 DEF PairedUpTo
    <3> QED
      BY <3>1, <3>3, <1>1
  <2> QED
    BY <2>1, <2>2 DEF BracesEscaped
<1>5. ASSUME PairedUpTo(t, n), BracesEscaped(text)
      PROVE  PairedUpTo(t, n + k)
  <2> SUFFICES ASSUME NEW i \in StrayBraces(t), i <= n + k, i + 1 \notin StrayBraces(t)
               PROVE  Paired(t, i)
    BY DEF PairedUpTo
  <2>1. CASE i <= n
    BY <2>1, <1>5 DEF PairedUpTo
  <2>2. CASE ~(i <= n)
    <3>1. PICK j \in 1 .. k : i = n + j /\ i + 1 = n + (j + 1)
      <4>1. i \in Nat
        BY <1>2
      <4>2. i - n \in 1 .. k /\ i = n + (i - n) /\ i + 1 = n + ((i - n) + 1)
        BY <2>2, <4>1
      <4> QED
        BY <4>2
    <3>2. j \in Braces(text) /\ j + 1 \notin Braces(text)
      BY <3>1, <1>1, <1>3
    <3>3. Collapsed(text, j)
      BY <3>2, <1>5 DEF BracesEscaped
    <3> QED
      BY <3>1, <3>3, <1>1
  <2> QED
    BY <2>1, <2>2
<1> QED
  BY <1>k, <1>4, <1>5

\* ... and there are none in a placeholder.
LEMMA PlaceholderPaired ==
    ASSUME NEW t \in Seq(Atoms), NEW n \in Nat, NEW p \in Placeholders(t), p[1] = n + 1
    PROVE  /\ n + 1 \notin StrayBraces(t) /\ p[2] \notin StrayBraces(t)
           /\ PairedUpTo(t, p[2]) <=> PairedUpTo(t, n)
<1>1. /\ p[1] \in 1 .. Len(t) /\ p[2] \in 1 .. Len(t) /\ Len(t) \in Nat
      /\ t[p[1]] = Open /\ p[1] < p[2]
  BY PlaceholderParts
<1>2. \A i \in p[1] + 1 .. p[2] - 1 : t[i] # Close
  BY DEF Placeholders, Closes
<1>3. ASSUME NEW i \in n + 1 .. p[2]
      PROVE  i \notin StrayBraces(t)
  <2>1. i = p[1] \/ i = p[2] \/ i \in p[1] + 1 .. p[2] - 1
    BY <1>1
  <2>2. CASE i = p[1]
    BY <2>2, <1>1, AtomsDiffer DEF StrayBraces
  <2>3. CASE i = p[2]
    BY <2>3, Zenon DEF StrayBraces
  <2>4. CASE i \in p[1] + 1 .. p[2] - 1
    BY <2>4, <1>2 DEF StrayBraces
  <2> QED
    BY <2>1, <2>2, <2>3, <2>4
<1>4. StrayBraces(t) \subseteq Nat
  BY DEF StrayBraces
<1>5. \A i \in StrayBraces(t) : i <= p[2] <=> i <= n
  <2> TAKE i \in StrayBraces(t)
  <2>1. i \notin n + 1 .. p[2] /\ i \in Nat
    BY <1>3, <1>4
  <2> QED
    BY <2>1, <1>1
<1>6. n + 1 \in n + 1 .. p[2] /\ p[2] \in n + 1 .. p[2]
  BY <1>1
<1> QED
  BY <1>3, <1>5, <1>6 DEF PairedUpTo

-----------------------------------------------------------------------------
\* How far the scanner has come.
Pos == Len(template) - Len(rest)

Scanned ==
    /\ Pos \in Nat
    /\ Remains(rest, template, Pos)
    /\ WholeUpTo(template, Pos)
    /\ format \in Seq(FormatAtoms)
    /\ arguments \in Seq(Fields)
    /\ HolesUpTo(format, Len(format)) = Len(arguments)
    /\ arguments = <<>> => Pos = 0 /\ format = <<>>
    /\ arguments # <<>> => Placeholders(template) # {}
    /\ Len(format) \notin Braces(format)
    /\ Pos \notin StrayBraces(template)
    /\ BracesEscaped(format) <=> PairedUpTo(template, Pos)
    /\ Agree(format, arguments, template, Pos)

Compiled ==
    /\ format \in Seq(FormatAtoms)
    /\ arguments = <<>> => format = template /\ Placeholders(template) = {}
    /\ arguments # <<>> => Placeholders(template) # {}
    /\ Agree(format, arguments, template, Len(template))

DeriveInv ==
    /\ template \in Templates
    /\ verdict \in Verdicts
    /\ verdict = "scanning" => Scanned
    /\ verdict = "compiled" => Compiled
    /\ DeriveAcceptsTemplates

\* The invariant holds before the first turn of the loop.
LEMMA DeriveInit ==
    ScanInit => DeriveInv
<1> SUFFICES ASSUME ScanInit PROVE DeriveInv
  OBVIOUS
<1>1. /\ template \in Templates /\ template \in Seq(Atoms) /\ rest = template
      /\ format = <<>> /\ arguments = <<>> /\ verdict = "scanning"
  BY TemplatesAssumption DEF ScanInit
<1>2. Pos = 0
  BY <1>1 DEF Pos
<1>3. Remains(rest, template, 0)
  BY <1>1 DEF Remains, StandsAfter
<1>4. WholeUpTo(template, 0)
  BY DEF WholeUpTo
<1>5. HolesUpTo(<<>>, Len(<<>>)) = Len(<<>>)
  BY HolesCounted
<1>6. Agree(<<>>, <<>>, template, 0)
  <2>1. ASSUME NEW value
        PROVE  Expanded(<<>>, <<>>, value) = MeaningUpTo(template, value, 0)
    <3>1. Expanded(<<>>, <<>>, value) = <<>> /\ MeaningUpTo(template, value, 0) = <<>>
      BY DEF Expanded, MeaningUpTo
    <3> QED
      BY <3>1
  <2> QED
    BY <2>1 DEF Agree
<1>7. /\ Len(<<>>) \notin Braces(<<>>) /\ 0 \notin StrayBraces(template)
      /\ BracesEscaped(<<>>) <=> PairedUpTo(template, 0)
  <2>1. Braces(<<>>) = {}
    BY DEF Braces
  <2>2. \A i \in StrayBraces(template) : i \in Nat /\ i # 0 /\ ~(i <= 0)
    BY <1>1 DEF StrayBraces
  <2> QED
    BY <2>1, <2>2 DEF BracesEscaped, PairedUpTo
<1>8. Scanned
  BY <1>1, <1>2, <1>3, <1>4, <1>5, <1>6, <1>7 DEF Scanned
<1> QED
  BY <1>1, <1>8 DEF DeriveInv, Verdicts, DeriveAcceptsTemplates

\* An unclosed brace: rejected, and the template is not well formed.
LEMMA UnclosedKeeps ==
    ASSUME DeriveInv, Unclosed
    PROVE  DeriveInv'
<1>t. template \in Seq(Atoms) /\ template \in Templates /\ Scanned
  BY TemplatesAssumption DEF DeriveInv, Unclosed
<1>1. /\ Contains(rest, Open)
      /\ ~Contains(SubSeq(rest, Find(Open, rest) + 1, Len(rest)), Close)
      /\ verdict' = "rejected" /\ template' = template
  BY DEF Unclosed, Reject
<1>2. PICK n \in Nat : n = Pos /\ Remains(rest, template, n)
  BY <1>t DEF Scanned
<1>3. PICK o \in 1 .. Len(rest) : o = Find(Open, rest) /\ rest[o] = Open /\ \A j \in 1 .. o - 1 : rest[j] # Open
  <2>1. rest \in Seq(Atoms) /\ Len(rest) \in Nat
    BY <1>2 DEF Remains
  <2> QED
    BY <1>1, <2>1, Found
<1>4. /\ Remains(SubSeq(rest, o + 1, Len(rest)), template, n + o)
      /\ n + o \in 1 .. Len(template) /\ template[n + o] = Open
  BY <1>t, <1>2, <1>3, UpToOpen
<1>5. \A p \in Placeholders(template) : p[1] # n + o
  BY <1>t, <1>1, <1>3, <1>4, NeverClosed
<1>6. ~WellFormed(template)
  BY <1>t, <1>4, <1>5 DEF WellFormed
<1> QED
  BY <1>t, <1>1, <1>6 DEF DeriveInv, Verdicts, DeriveAcceptsTemplates

\* One turn of the loop: the invariant moves past one placeholder, or the derive
\* rejects a brace that is none.
LEMMA InterpolateKeeps ==
    ASSUME DeriveInv, Interpolate
    PROVE  DeriveInv'
<1>t. /\ template \in Seq(Atoms) /\ template \in Templates /\ Scanned
      /\ template' = template /\ verdict = "scanning" /\ Contains(rest, Open)
  BY TemplatesAssumption DEF DeriveInv, Interpolate, Reject
<1>1. PICK n \in Nat : n = Pos /\ Remains(rest, template, n) /\ WholeUpTo(template, n)
  BY <1>t DEF Scanned
<1>2. PICK o \in 1 .. Len(rest) : o = Find(Open, rest) /\ rest[o] = Open /\ \A j \in 1 .. o - 1 : rest[j] # Open
  <2>1. rest \in Seq(Atoms) /\ Len(rest) \in Nat
    BY <1>1 DEF Remains
  <2> QED
    BY <1>t, <2>1, Found
<1> DEFINE text == SubSeq(rest, 1, o - 1)
           inside == SubSeq(rest, o + 1, Len(rest))
<1>3. /\ text \in Seq(Atoms) /\ Len(text) = o - 1 /\ StandsAfter(text, template, n)
      /\ \A i \in 1 .. Len(text) : text[i] # Open
      /\ Remains(inside, template, n + o)
      /\ n + o \in 1 .. Len(template) /\ template[n + o] = Open
  BY <1>t, <1>1, <1>2, UpToOpen
<1>4. PICK c \in 1 .. Len(inside) : c = Find(Close, inside) /\ inside[c] = Close /\ \A j \in 1 .. c - 1 : inside[j] # Close
  <2>1. Find(Close, inside) <= Len(inside)
    BY <1>2 DEF Interpolate
  <2> HIDE DEF inside
  <2>2. inside \in Seq(Atoms) /\ Len(inside) \in Nat
    BY <1>3 DEF Remains
  <2> QED
    BY <2>1, <2>2, Found
<1> DEFINE named == FieldsNamedBy(SubSeq(inside, 1, c - 1))
           next == SubSeq(inside, c + 1, Len(inside))
<1>5. IF named = {}
      THEN verdict' = "rejected"
      ELSE /\ format' = (format \o text) \o <<Hole>>
           /\ arguments' = arguments \o SetToSeq(named)
           /\ rest' = next
           /\ verdict' = verdict
  BY <1>2, <1>4 DEF Interpolate, WithArguments, Reject
<1> HIDE DEF text, inside
<1>6. /\ \A f \in named : <<n + o, n + o + c, f>> \in Placeholders(template)
      /\ named = {} => \A p \in Placeholders(template) : p[1] # n + o
      /\ Remains(next, template, n + o + c)
  BY <1>t, <1>3, <1>4, UpToClose
<1>7. CASE named = {}
  <2>1. ~WellFormed(template)
    BY <1>t, <1>3, <1>6, <1>7 DEF WellFormed
  <2>2. verdict' = "rejected"
    BY <1>5, <1>7
  <2> QED
    BY <1>t, <2>1, <2>2 DEF DeriveInv, Verdicts, DeriveAcceptsTemplates
<1>8. CASE named # {}
  <2>1. PICK f : f \in named
    BY <1>8
  <2>2. named = {f} /\ f \in Fields
    BY <2>1, NamedAlone
  <2> DEFINE p == <<n + o, n + o + c, f>>
  <2>3. p \in Placeholders(template)
    BY <1>6, <2>1
  <2>4. SetToSeq(named) = <<f>>
    BY <2>2, SequenceOfOne
  <2> HIDE DEF named, next
  <2>5. /\ format' = (format \o text) \o <<Hole>> /\ arguments' = arguments \o <<f>>
        /\ rest' = next /\ verdict' = "scanning"
    BY <1>t, <1>5, <1>8, <2>4
  <2>6. /\ format \in Seq(FormatAtoms) /\ arguments \in Seq(Fields)
        /\ HolesUpTo(format, Len(format)) = Len(arguments)
        /\ Agree(format, arguments, template, n)
        /\ Len(format) \notin Braces(format) /\ n \notin StrayBraces(template)
        /\ BracesEscaped(format) <=> PairedUpTo(template, n)
    BY <1>t, <1>1 DEF Scanned
  <2>7. /\ format \o text \in Seq(FormatAtoms)
        /\ HolesUpTo(format \o text, Len(format \o text)) = Len(arguments)
    BY <1>3, <2>6, TextExpands
  <2>8. Agree(format \o text, arguments, template, n + Len(text))
    BY <1>t, <1>1, <1>3, <2>6, TextAgrees
  <2>9. WholeUpTo(template, n + Len(text))
    BY <1>t, <1>1, <1>3, <2>6, TextMeans
  <2>10. PICK m \in Nat : m = n + Len(text) /\ m + 1 = n + o
    BY <1>3
  <2>11. p[1] = m + 1 /\ p[2] = n + o + c /\ p[3] = f
    BY <2>10
  <2> HIDE DEF p
  <2>12. PICK fmt \in Seq(FormatAtoms) : fmt = format \o text
    BY <2>7
  <2>13. Agree(fmt \o <<Hole>>, arguments \o <<p[3]>>, template, p[2])
    BY <1>t, <2>3, <2>6, <2>7, <2>8, <2>9, <2>10, <2>11, <2>12, HoleAgrees
  <2>14. WholeUpTo(template, p[2])
    BY <1>t, <2>3, <2>9, <2>10, <2>11, PlaceholderMeans
  <2>15. /\ fmt \o <<Hole>> \in Seq(FormatAtoms)
         /\ arguments \o <<f>> \in Seq(Fields) /\ Len(arguments \o <<f>>) = Len(arguments) + 1
         /\ HolesUpTo(fmt \o <<Hole>>, Len(fmt \o <<Hole>>)) = Len(arguments) + 1
    BY <2>2, <2>6, <2>7, <2>12, HoleExpands
  <2>16. Pos' = p[2] /\ p[2] \in Nat /\ Remains(rest', template', p[2])
    <3>1. Remains(next, template, p[2])
      BY <1>6, <2>11 DEF next
    <3>2. Len(template) = p[2] + Len(next) /\ Len(next) \in Nat
      BY <3>1 DEF Remains
    <3>3. p[2] \in Nat
      BY <2>3, <1>t, PlaceholderParts
    <3>4. Pos' = Len(template) - Len(next)
      BY <2>5, <1>t DEF Pos
    <3>5. Len(template) - Len(next) = p[2]
      BY <3>2, <3>3
    <3> QED
      BY <3>1, <3>3, <3>4, <3>5, <2>5, <1>t
  <2>17. arguments' # <<>>
    BY <2>5, <2>15, <2>6
  <2>18. /\ Len(format') \notin Braces(format') /\ p[2] \notin StrayBraces(template)
         /\ BracesEscaped(format') <=> PairedUpTo(template, p[2])
    <3>1. /\ n + Len(text) + 1 \notin StrayBraces(template) /\ p[2] \notin StrayBraces(template)
          /\ PairedUpTo(template, p[2]) <=> PairedUpTo(template, n + Len(text))
      <4>1. /\ m + 1 \notin StrayBraces(template) /\ p[2] \notin StrayBraces(template)
            /\ PairedUpTo(template, p[2]) <=> PairedUpTo(template, m)
        BY <1>t, <2>3, <2>10, <2>11, PlaceholderPaired
      <4> QED
        BY <4>1, <2>10
    <3>2. PairedUpTo(template, n + Len(text)) <=> PairedUpTo(template, n) /\ BracesEscaped(text)
      BY <1>t, <1>1, <1>3, <2>6, <3>1, TextPaired
    <3>3. BracesEscaped(fmt) <=> BracesEscaped(format) /\ BracesEscaped(text)
      BY <1>3, <2>6, <2>12, TextEscaped
    <3>4. /\ Len(fmt \o <<Hole>>) \notin Braces(fmt \o <<Hole>>)
          /\ BracesEscaped(fmt \o <<Hole>>) <=> BracesEscaped(fmt)
      BY HoleEscaped
    <3> QED
      BY <2>5, <2>6, <2>12, <3>1, <3>2, <3>3, <3>4
  <2>19. Scanned'
    <3>1. Agree(format', arguments', template', Pos')
      BY <1>t, <2>5, <2>11, <2>12, <2>13, <2>16
    <3> QED
      BY <1>t, <2>3, <2>5, <2>12, <2>14, <2>15, <2>16, <2>17, <2>18, <3>1 DEF Scanned
  <2> QED
    BY <1>t, <2>5, <2>19 DEF DeriveInv, Verdicts, DeriveAcceptsTemplates
<1> QED
  BY <1>7, <1>8

\* The end of the loop: nothing is left, so what was so for the scanned part is so for
\* the whole template.
LEMMA FinishKeeps ==
    ASSUME DeriveInv, Finish
    PROVE  DeriveInv'
<1>t. /\ template \in Seq(Atoms) /\ template \in Templates /\ Scanned
      /\ template' = template /\ verdict = "scanning" /\ ~Contains(rest, Open)
      /\ format' = format \o rest /\ arguments' = arguments
  BY TemplatesAssumption DEF DeriveInv, Finish
<1>1. PICK n \in Nat : /\ n = Pos /\ Remains(rest, template, n) /\ WholeUpTo(template, n)
                       /\ Agree(format, arguments, template, n)
  BY <1>t DEF Scanned
<1>2. /\ rest \in Seq(Atoms) /\ StandsAfter(rest, template, n) /\ Len(template) = n + Len(rest)
      /\ \A i \in 1 .. Len(rest) : rest[i] # Open
  BY <1>t, <1>1 DEF Remains, Contains
<1>3. /\ format \in Seq(FormatAtoms) /\ arguments \in Seq(Fields)
      /\ HolesUpTo(format, Len(format)) = Len(arguments)
      /\ arguments = <<>> => n = 0 /\ format = <<>>
      /\ arguments # <<>> => Placeholders(template) # {}
      /\ Len(format) \notin Braces(format) /\ n \notin StrayBraces(template)
      /\ BracesEscaped(format) <=> PairedUpTo(template, n)
  BY <1>t, <1>1 DEF Scanned
<1>4. WholeUpTo(template, n + Len(rest))
  BY <1>t, <1>1, <1>2, <1>3, TextMeans
<1>5. WellFormed(template)
  <2> SUFFICES ASSUME NEW i \in DOMAIN template, template[i] = Open
               PROVE  \E p \in Placeholders(template) : p[1] = i
    BY DEF WellFormed
  <2>1. i \in 1 .. n + Len(rest)
    BY <1>t, <1>2
  <2> QED
    BY <2>1, <1>4 DEF WholeUpTo
<1>6. arguments = <<>> => Placeholders(template) = {} /\ format' = template
  <2>1. SUFFICES ASSUME arguments = <<>> PROVE Placeholders(template) = {} /\ format' = template
    OBVIOUS
  <2>2. n = 0 /\ format = <<>>
    BY <2>1, <1>3
  <2>3. format' = rest /\ rest = template
    <3>1. format' = rest
      BY <2>2, <1>t, <1>2, ConcatEmptySeq
    <3>2. Len(rest) = Len(template) /\ \A i \in 1 .. Len(rest) : rest[i] = template[i]
      BY <1>t, <1>2, <2>2 DEF StandsAfter
    <3>3. rest = template
      BY <1>t, <1>2, <3>2, SeqEqual
    <3> QED
      BY <3>1, <3>3
  <2>4. ASSUME NEW p \in Placeholders(template)
        PROVE  FALSE
    <3>1. p[1] \in 1 .. Len(template) /\ template[p[1]] = Open
      BY <1>t, PlaceholderParts
    <3>2. p[1] \in 1 .. Len(rest) /\ n + p[1] = p[1]
      BY <3>1, <2>2, <1>2
    <3>3. rest[p[1]] = template[n + p[1]]
      BY <3>2, <1>2 DEF StandsAfter
    <3> QED
      BY <3>1, <3>2, <3>3, <1>2
  <2> QED
    BY <1>2, <2>3, <2>4
<1>7. format' \in Seq(FormatAtoms)
  BY <1>t, <1>2, <1>3, TextExpands
<1>8. Agree(format', arguments', template', Len(template'))
  <2>1. Agree(format \o rest, arguments, template, n + Len(rest))
    BY <1>t, <1>1, <1>2, <1>3, TextAgrees
  <2> QED
    BY <2>1, <1>2, <1>t
<1>9. BracesEscaped(format') <=> StraysArePaired(template)
  <2>1. /\ \A i \in StrayBraces(template) : i \in 1 .. n + Len(rest)
        /\ n + Len(rest) + 1 \notin StrayBraces(template)
    <3>1. DOMAIN template = 1 .. n + Len(rest) /\ n + Len(rest) \in Nat
      BY <1>t, <1>2
    <3> QED
      BY <3>1 DEF StrayBraces
  <2>2. PairedUpTo(template, n + Len(rest)) <=> PairedUpTo(template, n) /\ BracesEscaped(rest)
    BY <1>t, <1>1, <1>2, <1>3, <2>1, TextPaired
  <2>3. PairedUpTo(template, n + Len(rest)) <=> StraysArePaired(template)
    BY <2>1 DEF PairedUpTo, StraysArePaired
  <2>4. BracesEscaped(format') <=> BracesEscaped(format) /\ BracesEscaped(rest)
    BY <1>t, <1>2, <1>3, TextEscaped
  <2> QED
    BY <1>3, <2>2, <2>3, <2>4
<1>10. verdict' = IF arguments = <<>> \/ BracesEscaped(format') THEN "compiled" ELSE "rejected"
  BY <1>t DEF Finish, Expands
<1>11. Compiled'
  BY <1>t, <1>3, <1>6, <1>7, <1>8 DEF Compiled
<1>12. DeriveAcceptsTemplates'
  BY <1>t, <1>3, <1>5, <1>6, <1>9, <1>10 DEF DeriveAcceptsTemplates
<1> QED
  BY <1>t, <1>10, <1>11, <1>12 DEF DeriveInv, Verdicts

\* What a compiled template gives for every value of the fields.
Faithful ==
    verdict = "compiled" =>
        \A value \in [Fields -> Seq(STRING)] : Subject(value) = Meaning(template, value)

\* A compiled template gives the subjects it means.
LEMMA CompiledIsFaithful ==
    ASSUME DeriveInv
    PROVE  Faithful
<1> SUFFICES ASSUME verdict = "compiled", NEW value \in [Fields -> Seq(STRING)]
             PROVE  Subject(value) = Meaning(template, value)
  BY DEF Faithful
<1>1. template \in Seq(Atoms) /\ Compiled
  BY TemplatesAssumption DEF DeriveInv
<1>2. CASE arguments = <<>>
  <2>1. Meaning(template, value) = template
    BY <1>1, <1>2, Zenon DEF Meaning, Compiled
  <2>2. Subject(value) = format
    BY <1>2, Zenon DEF Subject
  <2> QED
    BY <1>1, <1>2, <2>1, <2>2 DEF Compiled
<1>3. CASE arguments # <<>>
  <2>1. Meaning(template, value) = FlattenSeq(MeaningUpTo(template, value, Len(template)))
    <3>1. DOMAIN template = 1 .. Len(template) /\ Placeholders(template) # {}
      BY <1>1, <1>3 DEF Compiled
    <3> QED
      BY <3>1, Zenon DEF Meaning, MeaningUpTo
  <2>2. FlattenSeq(Expanded(format, arguments, value)) = Meaning(template, value)
    BY <1>1, <2>1 DEF Compiled, Agree
  <2>3. DOMAIN format = 1 .. Len(format)
    BY <1>1 DEF Compiled
  <2>4. ASSUME NEW i \in 1 .. Len(format)
        PROVE  Expansion(value, i) =
                 IF format[i] = Hole THEN value[arguments[HolesUpTo(format, i)]] ELSE Piece(format, i)
    <3>1. format[i] = Hole => ~Collapsed(format, i)
      BY AtomsDiffer DEF Collapsed
    <3> QED
      BY <3>1, Zenon DEF Expansion, HolesUpTo, Piece
  <2>5. [i \in DOMAIN format |-> Expansion(value, i)] = Expanded(format, arguments, value)
    BY <2>3, <2>4, Zenon DEF Expanded
  <2>6. Subject(value) = FlattenSeq(Expanded(format, arguments, value))
    BY <1>3, <2>5, Zenon DEF Subject
  <2> QED
    BY <2>2, <2>6
<1> QED
  BY <1>2, <1>3

\* The derive accepts what has a meaning and rejects the rest, and what it accepts
\* gives every event the subject that the template means, for every template,
\* every set of fields and all their values: build_subject_expression.
THEOREM DeriveIsRight ==
    ScanSpec => [](DeriveAcceptsTemplates /\ Faithful)
<1>1. ScanInit => DeriveInv
  BY DeriveInit
<1>2. DeriveInv /\ [Scan]_scanVars => DeriveInv'
  <2> SUFFICES ASSUME DeriveInv, [Scan]_scanVars PROVE DeriveInv'
    OBVIOUS
  <2>1. CASE Scan
    BY <2>1, UnclosedKeeps, InterpolateKeeps, FinishKeeps DEF Scan
  <2>2. CASE UNCHANGED scanVars
    BY <2>2 DEF scanVars, DeriveInv, Scanned, Compiled, Pos, DeriveAcceptsTemplates
  <2> QED
    BY <2>1, <2>2
<1>3. DeriveInv => DeriveAcceptsTemplates /\ Faithful
  BY CompiledIsFaithful DEF DeriveInv
<1> QED
  BY <1>1, <1>2, <1>3, PTL DEF ScanSpec
=============================================================================
