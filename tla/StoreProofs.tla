---------------------------- MODULE StoreProofs ----------------------------
(***************************************************************************)
(* Proofs about Store, for any stores and any batches: what is stored was  *)
(* put, a batch that does not run blocks nobody, and two pages of one      *)
(* search have no item in common.  The last needs that a text determines   *)
(* the labels it is split into and the labels determine the text.          *)
(***************************************************************************)
EXTENDS Store, OrderLemmas, SequenceTheorems

-----------------------------------------------------------------------------
\* Texts.

Texts == Seq(Int)

\* The labels joined with dots are a text.  NamespaceText is the last value of
\* a recursive function: a shortest tuple of labels for which there is no such
\* function would have a shorter one before it.
LEMMA NamespaceIsText ==
    ASSUME NEW ns \in Seq(Texts)
    PROVE  NamespaceText(ns) \in Texts
<1> DEFINE Step(r, n) == IF n = 0 THEN <<>>
                         ELSE IF n = 1 THEN ns[1] ELSE r[n - 1] \o <<Dot>> \o ns[n]
           Defines(r, k) == r = [n \in 0..k |-> Step(r, n)]
           text == CHOOSE r : Defines(r, Len(ns))
<1>1. Len(ns) \in Nat /\ \A n \in 1..Len(ns) : ns[n] \in Texts
  OBVIOUS
<1>2. \A k \in Nat : \E r : Defines(r, k)
  <2> DEFINE Bad == {k \in Nat : ~\E r : Defines(r, k)}
  <2> SUFFICES ASSUME Bad # {} PROVE FALSE
    OBVIOUS
  <2>1. PICK k \in Bad : \A j \in Bad : k <= j
    BY LeastNumber
  <2>2. CASE k = 0
    <3> DEFINE r == [n \in 0..0 |-> <<>>]
    <3>1. r = [n \in 0..0 |-> Step(r, n)]
      OBVIOUS
    <3> QED BY <3>1, <2>2
  <2>3. CASE k # 0
    <3>1. k \in Nat /\ k - 1 \in Nat /\ ~(k <= k - 1)
      BY <2>3
    <3>2. PICK r : Defines(r, k - 1)
      BY <3>1, <2>1
    <3> DEFINE q == [n \in 0..k |-> Step(r, n)]
    <3>3. \A n \in 0..(k - 1) : q[n] = r[n]
      <4>1. \A n \in 0..(k - 1) : n \in 0..k
        BY <3>1
      <4> HIDE DEF Step
      <4> QED BY <3>2, <4>1
    <3>4. \A n \in 0..k : Step(q, n) = Step(r, n)
      <4> SUFFICES ASSUME NEW n \in 0..k PROVE Step(q, n) = Step(r, n)
        OBVIOUS
      <4>1. n # 0 => n - 1 \in 0..(k - 1)
        BY <3>1
      <4> HIDE DEF q
      <4> QED BY <4>1, <3>3
    <3>5. q = [n \in 0..k |-> Step(q, n)]
      BY <3>4
    <3> QED BY <3>5, <2>1
  <2> QED BY <2>2, <2>3
<1>3. Defines(text, Len(ns))
  BY <1>1, <1>2
<1>4. NamespaceText(ns) = text[Len(ns)]
  BY DEF NamespaceText
<1> HIDE DEF text
<1>5. \A n \in 0..Len(ns) : text[n] = Step(text, n)
  BY <1>3
<1>6. \A n \in 0..Len(ns) : text[n] \in Texts
  <2> DEFINE Bad == {n \in 0..Len(ns) : text[n] \notin Texts}
  <2> SUFFICES ASSUME Bad # {} PROVE FALSE
    OBVIOUS
  <2>1. PICK n \in Bad : \A m \in Bad : n <= m
    <3>1. Bad \subseteq Nat
      BY <1>1
    <3> HIDE DEF Bad
    <3> QED BY <3>1, LeastNumber
  <2>2. text[n] = Step(text, n) /\ n \in 0..Len(ns) /\ text[n] \notin Texts
    BY <1>5, <2>1
  <2>3. n # 0 /\ n # 1
    BY <1>1, <2>2 DEF Texts
  <2>4. n - 1 \in 0..Len(ns) /\ ns[n] \in Texts /\ n - 1 < n
    BY <1>1, <2>2, <2>3
  <2>6. text[n] = text[n - 1] \o <<Dot>> \o ns[n]
    BY <2>2, <2>3
  <2>5. text[n - 1] \in Texts
    BY <1>1, <2>1, <2>4
  <2> QED BY <2>2, <2>4, <2>5, <2>6 DEF Texts, Dot
<1> QED BY <1>1, <1>4, <1>6

\* Where a text is cut: before it, at its dots, behind it.
Cut(text) == <<0>> \o Dots(text) \o <<Len(text) + 1>>

LEMMA CutText ==
    ASSUME NEW text \in Texts
    PROVE  /\ Len(Cut(text)) \in Nat /\ Len(Cut(text)) >= 2
           /\ \A n \in 1..Len(Cut(text)) : Cut(text)[n] \in 0..(Len(text) + 1)
           /\ Cut(text)[1] = 0 /\ Cut(text)[Len(Cut(text))] = Len(text) + 1
           /\ \A m, n \in 1..Len(Cut(text)) : m < n => Cut(text)[m] < Cut(text)[n]
           /\ \A i \in 1..Len(text) :
                text[i] = Dot <=> \E n \in 1..Len(Cut(text)) : Cut(text)[n] = i
<1> DEFINE S == {i \in DOMAIN text : text[i] = Dot}
           R == {p \in S \X S : p[1] < p[2]}
           d == Dots(text)
           D == Len(d)
           L == Len(text)
           c == Cut(text)
<1>1. L \in Nat /\ DOMAIN text = 1..L
  BY DEF Texts
<1>2. IsFiniteSet(S)
  <2>1. IsFiniteSet(1..L)
    BY <1>1, FS_Interval
  <2> QED BY <1>1, <2>1, FS_Subset
<1>3. Orders(R, S)
  BY <1>1 DEF Orders
<1>4. Sorted(R, S, d)
  BY <1>2, <1>3, SortedInOrder DEF Dots
<1> HIDE DEF d
<1>5. /\ D \in Nat /\ d \in Seq(S)
      /\ \A n \in 1..D : d[n] \in S
      /\ \A m, n \in 1..D : m < n => d[m] < d[n]
      /\ \A i \in S : \E n \in 1..D : d[n] = i
  <2>1. /\ D \in Nat /\ d = [n \in 1..D |-> d[n]]
        /\ \A n \in 1..D : d[n] \in S
        /\ \A m, n \in 1..D : m < n => <<d[m], d[n]>> \in R
        /\ \A i \in S : \E n \in 1..D : d[n] = i
    <3> HIDE DEF R, S
    <3> QED BY <1>4 DEF Sorted, IsSequence
  <2> HIDE DEF D, S
  <2>2. d \in Seq(S)
    BY <2>1
  <2> QED BY <2>1, <2>2
<1>6. \A i \in S : i \in 1..L /\ text[i] = Dot
  BY <1>1
<1>7. \A i \in 1..L : text[i] = Dot => i \in S
  BY <1>1
<1> HIDE DEF S, R, D, L
<1>8. /\ Len(c) = D + 2
      /\ \A n \in 1..(D + 2) :
           c[n] = IF n = 1 THEN 0 ELSE IF n = D + 2 THEN L + 1 ELSE d[n - 1]
  <2>1. d \in Seq(Int) /\ L + 1 \in Int /\ Len(d) = D
    BY <1>1, <1>5, <1>6 DEF D
  <2>2. c = <<0>> \o d \o <<L + 1>>
    BY DEF Cut, d, L
  <2> HIDE DEF c
  <2> QED BY <2>1, <2>2, <1>5
<1> HIDE DEF c
<1>9. \A n \in 1..(D + 2) : n # 1 /\ n # D + 2 => n - 1 \in 1..D
  BY <1>5
<1>10. \A n \in 1..(D + 2) : c[n] \in 0..(L + 1)
  <2> SUFFICES ASSUME NEW n \in 1..(D + 2) PROVE c[n] \in 0..(L + 1)
    OBVIOUS
  <2>1. CASE n = 1 \/ n = D + 2
    BY <2>1, <1>1, <1>5, <1>8
  <2>2. CASE n # 1 /\ n # D + 2
    <3>1. c[n] = d[n - 1] /\ d[n - 1] \in 1..L
      BY <2>2, <1>5, <1>6, <1>8, <1>9
    <3> QED BY <1>1, <3>1
  <2> QED BY <2>1, <2>2
<1>11. ASSUME NEW m \in 1..(D + 2), NEW n \in 1..(D + 2), m < n
       PROVE  c[m] < c[n]
  <2>1. n # 1 /\ m # D + 2
    BY <1>5, <1>11
  <2>2. m # 1 => m - 1 \in 1..D /\ c[m] = d[m - 1] /\ c[m] \in 1..L
    BY <2>1, <1>5, <1>6, <1>8, <1>9
  <2>3. n # D + 2 => n - 1 \in 1..D /\ c[n] = d[n - 1] /\ c[n] \in 1..L
    BY <2>1, <1>5, <1>6, <1>8, <1>9
  <2>4. m = 1 => c[m] = 0
    BY <1>8
  <2>5. n = D + 2 => c[n] = L + 1
    BY <1>5, <1>8
  <2>6. m # 1 /\ n # D + 2 => d[m - 1] < d[n - 1]
    <3>1. m - 1 < n - 1
      BY <1>5, <1>11
    <3> QED BY <2>2, <2>3, <3>1, <1>5
  <2> QED BY <1>1, <2>2, <2>3, <2>4, <2>5, <2>6
<1>12. ASSUME NEW i \in 1..L
       PROVE  text[i] = Dot <=> \E n \in 1..(D + 2) : c[n] = i
  <2>1. ASSUME text[i] = Dot PROVE \E n \in 1..(D + 2) : c[n] = i
    <3>1. PICK n \in 1..D : d[n] = i
      BY <1>5, <1>7, <2>1
    <3>2. n + 1 \in 1..(D + 2) /\ n + 1 # 1 /\ n + 1 # D + 2 /\ (n + 1) - 1 = n
      BY <1>5
    <3>3. c[n + 1] = d[n]
      BY <1>8, <3>2
    <3> QED BY <3>1, <3>2, <3>3
  <2>2. ASSUME NEW n \in 1..(D + 2), c[n] = i PROVE text[i] = Dot
    <3>1. n # 1 /\ n # D + 2
      BY <1>1, <1>5, <1>8, <2>2
    <3>2. c[n] = d[n - 1] /\ n - 1 \in 1..D
      BY <1>8, <1>9, <3>1
    <3> QED BY <1>5, <1>6, <2>2, <3>2
  <2> QED BY <2>1, <2>2
<1>13. c[1] = 0 /\ c[D + 2] = L + 1 /\ D + 2 \in Nat /\ D + 2 >= 2
  <2>1. 1 \in 1..(D + 2) /\ D + 2 \in 1..(D + 2) /\ D + 2 # 1
    BY <1>5
  <2> QED BY <1>5, <1>8, <2>1
<1>14. D + 2 = Len(c)
  BY <1>8
<1> QED BY <1>10, <1>11, <1>12, <1>13, <1>14 DEF L, c


\* The labels between the cuts.
LEMMA LabelsOfText ==
    ASSUME NEW text \in Texts
    PROVE  /\ Len(DecodeText(text)) = Len(Cut(text)) - 1
           /\ \A n \in 1..(Len(Cut(text)) - 1) :
                /\ Len(DecodeText(text)[n]) = Cut(text)[n + 1] - Cut(text)[n] - 1
                /\ \A k \in 1..(Cut(text)[n + 1] - Cut(text)[n] - 1) :
                     DecodeText(text)[n][k] = text[Cut(text)[n] + k]
<1> DEFINE c == Cut(text)
           C == Len(c)
           L == Len(text)
           labels == DecodeText(text)
<1>1. /\ C \in Nat /\ C >= 2 /\ L \in Nat
      /\ \A n \in 1..C : c[n] \in 0..(L + 1)
      /\ \A m, n \in 1..C : m < n => c[m] < c[n]
  BY CutText DEF Texts
<1>2. labels = [n \in 1..(C - 1) |-> SubSeq(text, c[n] + 1, c[n + 1] - 1)]
  BY DEF DecodeText, Cut
<1> HIDE DEF c, C, L, labels
<1>3. Len(labels) = C - 1
  BY <1>1, <1>2
<1>4. ASSUME NEW n \in 1..(C - 1)
      PROVE  /\ Len(labels[n]) = c[n + 1] - c[n] - 1
             /\ \A k \in 1..(c[n + 1] - c[n] - 1) : labels[n][k] = text[c[n] + k]
  <2>1. n \in 1..C /\ n + 1 \in 1..C /\ n < n + 1
    BY <1>1
  <2> DEFINE a == c[n] + 1
             b == c[n + 1] - 1
  <2>2. a \in 1..(L + 1) /\ b \in 0..L /\ a <= b + 1
    BY <1>1, <2>1
  <2>3. b - a + 1 = c[n + 1] - c[n] - 1
    BY <1>1, <2>1
  <2>4. labels[n] = SubSeq(text, a, b)
    BY <1>2
  <2> HIDE DEF a, b
  <2>5. /\ Len(SubSeq(text, a, b)) = b - a + 1
        /\ \A k \in 1..(b - a + 1) : SubSeq(text, a, b)[k] = text[a + k - 1]
    <3>1. text \in Seq(Int) /\ Len(text) = L
      BY DEF Texts, L
    <3>2. a <= b + 1 /\ a \in Nat /\ b \in Nat /\ a >= 1 /\ b <= L
      BY <1>1, <2>2
    <3>3. CASE a <= b
      <4>1. a \in 1..L /\ b \in 1..L
        BY <1>1, <3>2, <3>3
      <4> QED BY <3>1, <3>2, <4>1, SubSeqProperties
    <3>4. CASE a = b + 1
      <4>1. SubSeq(text, a, b) = <<>>
        BY <3>1, <3>2, <3>4
      <4> QED BY <3>2, <3>4, <4>1
    <3> QED BY <3>2, <3>3, <3>4
  <2>6. \A k \in 1..(b - a + 1) : a + k - 1 = c[n] + k
    BY <1>1, <2>1, <2>2 DEF a
  <2> QED BY <2>3, <2>4, <2>5, <2>6
<1>5. C - 1 \in Nat
  BY <1>1
<1> QED BY <1>3, <1>4 DEF c, C, labels

\* Different texts are split into different labels.
LEMMA LabelsDetermineText ==
    ASSUME NEW p \in Texts, NEW q \in Texts, DecodeText(p) = DecodeText(q)
    PROVE  p = q
<1> DEFINE c == Cut(p)
           d == Cut(q)
           C == Len(c)
           labels == DecodeText(p)
<1>1. Len(c) = Len(d)
  <2>1. Len(labels) = Len(c) - 1 /\ Len(labels) = Len(d) - 1
    BY LabelsOfText
  <2>2. Len(c) \in Nat /\ Len(d) \in Nat
    BY CutText
  <2> QED BY <2>1, <2>2
<1>2. /\ C \in Nat /\ C >= 2 /\ Len(p) \in Nat /\ Len(q) \in Nat
      /\ \A n \in 1..C : c[n] \in Int /\ d[n] \in Int
      /\ c[1] = 0 /\ c[C] = Len(p) + 1 /\ d[1] = 0 /\ d[C] = Len(q) + 1
      /\ \A i \in 1..Len(p) : p[i] = Dot <=> \E n \in 1..C : c[n] = i
      /\ \A i \in 1..Len(q) : q[i] = Dot <=> \E n \in 1..C : d[n] = i
  <2>1. /\ C \in Nat /\ C >= 2 /\ Len(p) \in Nat
        /\ \A n \in 1..C : c[n] \in 0..(Len(p) + 1)
        /\ c[1] = 0 /\ c[C] = Len(p) + 1
        /\ \A i \in 1..Len(p) : p[i] = Dot <=> \E n \in 1..C : c[n] = i
    BY CutText DEF Texts
  <2>2. /\ Len(q) \in Nat
        /\ \A n \in 1..Len(d) : d[n] \in 0..(Len(q) + 1)
        /\ d[1] = 0 /\ d[Len(d)] = Len(q) + 1
        /\ \A i \in 1..Len(q) : q[i] = Dot <=> \E n \in 1..Len(d) : d[n] = i
    BY CutText DEF Texts
  <2> HIDE DEF c, d
  <2> QED BY <1>1, <2>1, <2>2
<1>3. \A n \in 1..(C - 1) :
        /\ Len(labels[n]) = c[n + 1] - c[n] - 1
        /\ \A k \in 1..(c[n + 1] - c[n] - 1) : labels[n][k] = p[c[n] + k]
        /\ Len(labels[n]) = d[n + 1] - d[n] - 1
        /\ \A k \in 1..(d[n + 1] - d[n] - 1) : labels[n][k] = q[d[n] + k]
  <2>1. \A n \in 1..(C - 1) :
          /\ Len(labels[n]) = c[n + 1] - c[n] - 1
          /\ \A k \in 1..(c[n + 1] - c[n] - 1) : labels[n][k] = p[c[n] + k]
    BY LabelsOfText
  <2>2. \A n \in 1..(Len(d) - 1) :
          /\ Len(labels[n]) = d[n + 1] - d[n] - 1
          /\ \A k \in 1..(d[n + 1] - d[n] - 1) : labels[n][k] = q[d[n] + k]
    BY LabelsOfText
  <2> HIDE DEF c, d, labels
  <2> QED BY <1>1, <2>1, <2>2
<1> HIDE DEF C, c, d, labels
<1>4. \A n \in 1..C : c[n] = d[n]
  <2> DEFINE Bad == {n \in 1..C : c[n] # d[n]}
  <2> SUFFICES ASSUME Bad # {} PROVE FALSE
    OBVIOUS
  <2>1. PICK n \in Bad : \A m \in Bad : n <= m
    <3>1. Bad \subseteq Nat
      BY <1>2
    <3> HIDE DEF Bad
    <3> QED BY <3>1, LeastNumber
  <2>2. n \in 1..C /\ c[n] # d[n] /\ n # 1
    BY <1>2, <2>1
  <2>3. n - 1 \in 1..C /\ n - 1 \in 1..(C - 1) /\ (n - 1) + 1 = n /\ ~(n <= n - 1)
    BY <1>2, <2>2
  <2>4. c[n - 1] = d[n - 1]
    BY <2>1, <2>3
  <2>5. c[n] - c[n - 1] - 1 = d[n] - d[n - 1] - 1
    BY <1>3, <2>3
  <2> QED BY <1>2, <2>2, <2>3, <2>4, <2>5
<1>5. Len(p) = Len(q)
  <2>1. C \in 1..C
    BY <1>2
  <2> QED BY <1>2, <1>4, <2>1
<1>6. ASSUME NEW i \in 1..Len(p) PROVE p[i] = q[i]
  <2> DEFINE T == {n \in 1..C : c[n] >= i}
  <2>1. PICK n \in T : \A m \in T : n <= m
    <3>1. C \in T /\ T \subseteq Nat
      BY <1>2
    <3> HIDE DEF T
    <3> QED BY <3>1, LeastNumber
  <2>2. n \in 1..C /\ c[n] >= i /\ n # 1
    BY <1>2, <2>1
  <2>3. n - 1 \in 1..C /\ n - 1 \in 1..(C - 1) /\ (n - 1) + 1 = n /\ c[n - 1] < i
    BY <1>2, <2>1, <2>2
  <2>4. CASE c[n] = i
    <3>1. p[i] = Dot
      BY <1>2, <2>2, <2>4
    <3>2. q[i] = Dot
      BY <1>2, <1>4, <1>5, <2>2, <2>4
    <3> QED BY <3>1, <3>2
  <2>5. CASE c[n] # i
    <3> DEFINE k == i - c[n - 1]
    <3>1. k \in 1..(c[n] - c[n - 1] - 1) /\ c[n - 1] + k = i
      <4>1. c[n] \in Int /\ c[n - 1] \in Int /\ c[n - 1] < i /\ c[n] > i /\ i \in Int
        BY <1>2, <2>2, <2>3, <2>5
      <4> QED BY <4>1
    <3>2. c[n] = d[n] /\ c[n - 1] = d[n - 1]
      BY <1>4, <2>2, <2>3
    <3> HIDE DEF k
    <3>3. labels[n - 1][k] = p[i]
      BY <1>3, <2>3, <3>1
    <3>4. labels[n - 1][k] = q[i]
      BY <1>3, <2>3, <3>1, <3>2
    <3> QED BY <3>3, <3>4
  <2> QED BY <2>4, <2>5
<1> QED BY <1>5, <1>6 DEF Texts


-----------------------------------------------------------------------------
\* The statements of a batch.

LEMMA MinOfNumbers ==
    ASSUME NEW S, S \subseteq Nat, S # {}
    PROVE  Min(S) \in S /\ \A y \in S : Min(S) <= y
<1>1. \E x \in S : \A y \in S : x <= y
  BY LeastNumber
<1> QED BY <1>1 DEF Min

\* The operations of one group; a search has a statement of its own, and only
\* values are inserted.
StatementsOf(batch) ==
    {st \in [kind : {"get", "search", "list", "delete", "insert"}, of : SUBSET DOMAIN batch] :
        /\ \A i \in st.of :
             /\ batch[i].type = IF st.kind \in {"delete", "insert"} THEN "put" ELSE st.kind
             /\ st.kind = "insert" => batch[i].value # NoValue
        /\ st.kind = "search" => \A i, j \in st.of : i = j}

Groups(I) == {G \in SUBSET I : G # {}}

LEMMA ByNamespaceGroups ==
    ASSUME NEW batch, Len(batch) \in Nat, DOMAIN batch = 1..Len(batch),
           NEW I, I \subseteq DOMAIN batch
    PROVE  ByNamespace(batch, I) \in Seq(Groups(I))
<1> DEFINE same(i) == {j \in OfType(batch, batch[i].type) : SameItem(batch[i], batch[j])}
           inserted(i) == Min(same(i))
           first(G) == Min({inserted(i) : i \in G})
           group(i) == {j \in I : batch[j].ns = batch[i].ns}
           groups == {group(i) : i \in I}
           R == {p \in groups \X groups : first(p[1]) < first(p[2])}
           q == ByNamespace(batch, I)
<1>1. IsFiniteSet(groups)
  <2> DEFINE f == [i \in I |-> group(i)]
  <2>1. IsFiniteSet(I)
    <3>1. 1 \in Int /\ Len(batch) \in Int
      OBVIOUS
    <3>2. IsFiniteSet(1..Len(batch))
      BY <3>1, FS_Interval
    <3> QED BY <3>2, FS_Subset
  <2>2. f \in Surjection(I, groups)
    BY DEF Surjection
  <2> QED BY <2>1, <2>2, FS_Surjection
<1>2. ASSUME NEW i \in I
      PROVE  inserted(i) \in Nat /\ batch[inserted(i)].ns = batch[i].ns
  <2>1. same(i) \subseteq Nat /\ i \in same(i)
    BY DEF OfType, SameItem
  <2>2. inserted(i) \in same(i)
    <3> HIDE DEF same
    <3> QED BY <2>1, MinOfNumbers
  <2> HIDE DEF inserted
  <2> QED BY <2>1, <2>2 DEF SameItem
<1> HIDE DEF inserted
<1>3. ASSUME NEW i \in I
      PROVE  first(group(i)) \in Nat /\ batch[first(group(i))].ns = batch[i].ns
  <2> DEFINE S == {inserted(j) : j \in group(i)}
  <2>1. S \subseteq Nat /\ inserted(i) \in S
    BY <1>2
  <2>2. Min(S) \in S
    <3> HIDE DEF S
    <3> QED BY <2>1, MinOfNumbers
  <2>3. PICK j \in group(i) : Min(S) = inserted(j)
    BY <2>2
  <2>4. first(group(i)) = inserted(j)
    BY <2>3
  <2> QED BY <1>2, <2>3, <2>4
<1> HIDE DEF first
<1>4. Orders(R, groups)
  <2>1. \A G \in groups : first(G) \in Nat
    BY <1>3
  <2>2. ASSUME NEW G \in groups, NEW H \in groups, first(G) = first(H) PROVE G = H
    <3>1. PICK i \in I : G = group(i)
      OBVIOUS
    <3>2. PICK j \in I : H = group(j)
      OBVIOUS
    <3>3. batch[i].ns = batch[j].ns
      BY <1>3, <2>2, <3>1, <3>2
    <3> QED BY <3>1, <3>2, <3>3
  <2>3. \A G, H \in groups : <<G, H>> \in R <=> first(G) < first(H)
    OBVIOUS
  <2> HIDE DEF R, groups
  <2> QED BY <2>1, <2>2, <2>3 DEF Orders
<1>5. Sorted(R, groups, q)
  <2>1. q = InOrder(groups, R)
    BY DEF ByNamespace, first, inserted
  <2> HIDE DEF q, R, groups
  <2> QED BY <1>1, <1>4, <2>1, SortedInOrder
<1>6. groups \subseteq Groups(I)
  BY DEF Groups
<1> HIDE DEF q, R, groups
<1>7. q \in Seq(Groups(I))
  BY <1>5, <1>6 DEF Sorted, IsSequence
<1> QED BY <1>7 DEF q

LEMMA OneByOneGroups ==
    ASSUME NEW I, IsFiniteSet(I), I \subseteq Nat
    PROVE  OneByOne(I) \in Seq({{i} : i \in I})
<1> DEFINE groups == {{i} : i \in I}
           R == {p \in groups \X groups : Min(p[1]) < Min(p[2])}
           q == OneByOne(I)
<1>1. IsFiniteSet(groups)
  <2> DEFINE f == [i \in I |-> {i}]
  <2>1. f \in Surjection(I, groups)
    BY DEF Surjection
  <2> QED BY <2>1, FS_Surjection
<1>2. \A i \in I : Min({i}) = i
  <2> SUFFICES ASSUME NEW i \in I PROVE Min({i}) = i
    OBVIOUS
  <2>1. {i} \subseteq Nat /\ {i} # {}
    OBVIOUS
  <2>2. Min({i}) \in {i}
    BY <2>1, MinOfNumbers
  <2> QED BY <2>2
<1>3. Orders(R, groups)
  <2>1. \A G \in groups : Min(G) \in Nat
    BY <1>2
  <2>2. \A G, H \in groups : Min(G) = Min(H) => G = H
    BY <1>2
  <2>3. \A G, H \in groups : <<G, H>> \in R <=> Min(G) < Min(H)
    OBVIOUS
  <2> HIDE DEF R, groups
  <2> QED BY <2>1, <2>2, <2>3 DEF Orders
<1>4. Sorted(R, groups, q)
  BY <1>1, <1>3, SortedInOrder DEF OneByOne
<1> HIDE DEF q, R, groups
<1>5. q \in Seq(groups)
  BY <1>4 DEF Sorted, IsSequence
<1> QED BY <1>5 DEF q, groups

\* The statements of groups of operations of one type.
LEMMA EachStatement ==
    ASSUME NEW batch, NEW kind \in {"get", "search", "list", "delete", "insert"},
           NEW groups, NEW T, groups \in Seq(T),
           \A G \in T : [kind |-> kind, of |-> G] \in StatementsOf(batch)
    PROVE  [n \in DOMAIN groups |-> [kind |-> kind, of |-> groups[n]]] \in Seq(StatementsOf(batch))
<1> DEFINE Good == StatementsOf(batch)
           q == [n \in DOMAIN groups |-> [kind |-> kind, of |-> groups[n]]]
<1>1. /\ Len(groups) \in Nat /\ DOMAIN groups = 1..Len(groups)
      /\ \A n \in 1..Len(groups) : groups[n] \in T
  OBVIOUS
<1>2. \A n \in 1..Len(groups) : q[n] \in Good
  BY <1>1
<1> HIDE DEF Good
<1> QED BY <1>1, <1>2

LEMMA StatementsOfBatch ==
    ASSUME NEW batch, Len(batch) \in Nat, DOMAIN batch = 1..Len(batch)
    PROVE  Statements(batch) \in Seq(StatementsOf(batch))
<1> DEFINE each(kind, groups) == [n \in DOMAIN groups |-> [kind |-> kind, of |-> groups[n]]]
           Good == StatementsOf(batch)
           deletes == {i \in LastPuts(batch) : batch[i].value = NoValue}
           inserts == LastPuts(batch) \ deletes
           gets == OfType(batch, "get")
           searches == OfType(batch, "search")
           lists == OfType(batch, "list")
<1>1. /\ gets \subseteq DOMAIN batch /\ \A i \in gets : batch[i].type = "get"
      /\ searches \subseteq DOMAIN batch /\ \A i \in searches : batch[i].type = "search"
      /\ lists \subseteq DOMAIN batch /\ \A i \in lists : batch[i].type = "list"
      /\ deletes \subseteq DOMAIN batch /\ \A i \in deletes : batch[i].type = "put"
      /\ inserts \subseteq DOMAIN batch
      /\ \A i \in inserts : batch[i].type = "put" /\ batch[i].value # NoValue
  BY DEF OfType, LastPuts
<1> HIDE DEF gets, searches, lists, deletes, inserts
<1>2. \A I \in SUBSET DOMAIN batch : IsFiniteSet(I) /\ I \subseteq Nat
  <2>1. 1 \in Int /\ Len(batch) \in Int
    OBVIOUS
  <2>2. IsFiniteSet(1..Len(batch))
    BY <2>1, FS_Interval
  <2> QED BY <2>2, FS_Subset
<1>3. each("get", ByNamespace(batch, gets)) \in Seq(Good)
  <2>1. ByNamespace(batch, gets) \in Seq(Groups(gets))
    BY <1>1, ByNamespaceGroups
  <2>2. \A G \in Groups(gets) : [kind |-> "get", of |-> G] \in Good
    BY <1>1 DEF Groups, StatementsOf
  <2> QED BY <2>1, <2>2, EachStatement
<1>4. each("search", OneByOne(searches)) \in Seq(Good)
  <2>1. OneByOne(searches) \in Seq({{i} : i \in searches})
    BY <1>1, <1>2, OneByOneGroups
  <2>2. \A G \in {{i} : i \in searches} : [kind |-> "search", of |-> G] \in Good
    BY <1>1 DEF StatementsOf
  <2> QED BY <2>1, <2>2, EachStatement
<1>5. each("list", OneByOne(lists)) \in Seq(Good)
  <2>1. OneByOne(lists) \in Seq({{i} : i \in lists})
    BY <1>1, <1>2, OneByOneGroups
  <2>2. \A G \in {{i} : i \in lists} : [kind |-> "list", of |-> G] \in Good
    BY <1>1 DEF StatementsOf
  <2> QED BY <2>1, <2>2, EachStatement
<1>6. each("delete", ByNamespace(batch, deletes)) \in Seq(Good)
  <2>1. ByNamespace(batch, deletes) \in Seq(Groups(deletes))
    BY <1>1, ByNamespaceGroups
  <2>2. \A G \in Groups(deletes) : [kind |-> "delete", of |-> G] \in Good
    BY <1>1 DEF Groups, StatementsOf
  <2> QED BY <2>1, <2>2, EachStatement
<1>7. (IF inserts = {} THEN <<>> ELSE <<[kind |-> "insert", of |-> inserts]>>) \in Seq(Good)
  <2>1. [kind |-> "insert", of |-> inserts] \in Good
    BY <1>1 DEF StatementsOf
  <2> HIDE DEF Good
  <2> QED BY <2>1
<1>8. Statements(batch) =
        each("get", ByNamespace(batch, gets)) \o each("search", OneByOne(searches))
        \o each("list", OneByOne(lists)) \o each("delete", ByNamespace(batch, deletes))
        \o (IF inserts = {} THEN <<>> ELSE <<[kind |-> "insert", of |-> inserts]>>)
  BY DEF Statements, gets, searches, lists, deletes, inserts
<1> HIDE DEF each, Good
<1>9. Statements(batch) \in Seq(Good)
  BY <1>3, <1>4, <1>5, <1>6, <1>7, <1>8
<1> QED BY <1>9 DEF Good


-----------------------------------------------------------------------------
\* The inductive invariant.

ItemRows == UNION {{Row(b[i]) : i \in OfType(b, "put")} : b \in Batches}

\* Rows that were put at some time.
IsTable(t, now) ==
    /\ DOMAIN t \subseteq ItemRows /\ IsFiniteSet(DOMAIN t)
    /\ \A r \in DOMAIN t : t[r].value # NoValue /\ t[r].updated \in 0..now

\* A transaction has changed only rows it has locked.
IsLog(l, now) ==
    /\ l = [set |-> l.set, del |-> l.del, locked |-> l.locked]
    /\ DOMAIN l.set \cup l.del \subseteq l.locked
    /\ l.locked \subseteq ItemRows
    /\ IsTable(l.set, now)

\* An answer to a search is a page of some order of what it finds.
IsPageOf(answer, table, op) ==
    \E order \in NewestFirst(table, Found(table, op)) :
        LET page == Page(order, op)
        IN answer = [n \in DOMAIN page |-> FoundItem(table, page[n])]

\* A batch that does not run has nothing to do, reads nothing and holds nothing;
\* all its searches read one snapshot.
StoreOK(s) ==
    /\ ops[s] \in Batches \cup {<<>>}
    /\ todo[s] \in Seq(StatementsOf(ops[s]))
    /\ IsLog(log[s], clock)
    /\ stage[s] # "running" => todo[s] = <<>> /\ snapshot[s] = <<>> /\ log[s] = NoLog
    /\ snapshot[s] # <<>> => IsTable(snapshot[s][1], clock)
    /\ DOMAIN results[s] = DOMAIN ops[s]
    /\ stage[s] = "running" =>
         \A i \in OfType(ops[s], "search") :
            \/ results[s][i] = <<>>
            \/ snapshot[s] # <<>> /\ IsPageOf(results[s][i], snapshot[s][1], ops[s][i])

IInv ==
    /\ clock \in 0..MaxTime
    /\ IsTable(rows, clock)
    /\ stage \in [Stores -> {"idle", "running", "returned"}]
    /\ DOMAIN ops = Stores /\ DOMAIN todo = Stores /\ DOMAIN snapshot = Stores
    /\ DOMAIN log = Stores /\ DOMAIN results = Stores
    /\ \A s \in Stores : StoreOK(s)

LEMMA BatchShape ==
    ASSUME NEW batch \in Batches \cup {<<>>}
    PROVE  Len(batch) \in Nat /\ DOMAIN batch = 1..Len(batch) /\ IsFiniteSet(DOMAIN batch)
<1>1. Len(batch) \in Nat /\ DOMAIN batch = 1..Len(batch)
  <2>1. CASE batch \in Batches
    <3> DEFINE T == ToSet(batch)
    <3>1. batch \in Seq(T)
      BY <2>1, BatchesAssumption
    <3> HIDE DEF T
    <3> QED BY <3>1
  <2>2. CASE batch = <<>>
    BY <2>2
  <2> QED BY <2>1, <2>2
<1>2. IsFiniteSet(1..Len(batch))
  BY <1>1, FS_Interval
<1> QED BY <1>1, <1>2

LEMMA TableLater ==
    ASSUME NEW t, NEW now \in Nat, NEW later \in Nat, now <= later, IsTable(t, now)
    PROVE  IsTable(t, later)
BY DEF IsTable

\* What a step does not touch stays as it is.
LEMMA StoreFrame ==
    ASSUME NEW s \in Stores, StoreOK(s), clock \in Nat, clock' \in Nat, clock <= clock',
           ops'[s] = ops[s], todo'[s] = todo[s], log'[s] = log[s], stage'[s] = stage[s],
           snapshot'[s] = snapshot[s], results'[s] = results[s]
    PROVE  StoreOK(s)'
<1>1. IsLog(log[s], clock) => IsLog(log[s], clock)'
  <2>1. IsTable(log[s].set, clock) => IsTable(log[s].set, clock')
    BY TableLater
  <2> QED BY <2>1 DEF IsLog
<1>2. snapshot[s] # <<>> => IsTable(snapshot[s][1], clock)'
  <2>1. snapshot[s] # <<>> => IsTable(snapshot[s][1], clock')
    BY TableLater DEF StoreOK
  <2> QED BY <2>1
<1> QED BY <1>1, <1>2 DEF StoreOK

-----------------------------------------------------------------------------
\* Every step keeps it.

LEMMA InitHolds == Init => IInv
<1> SUFFICES ASSUME Init PROVE IInv
  OBVIOUS
<1>1. clock = 0 /\ 0 \in 0..MaxTime
  BY MaxTimeAssumption DEF Init
<1>2. \A now : IsTable([r \in {} |-> r], now)
  BY FS_EmptySet DEF IsTable
<1>3. IsLog(NoLog, clock)
  BY <1>2 DEF IsLog, NoLog
<1>4. ASSUME NEW s \in Stores PROVE StoreOK(s)
  <2>1. /\ ops[s] = <<>> /\ todo[s] = <<>> /\ log[s] = NoLog /\ stage[s] = "idle"
        /\ snapshot[s] = <<>> /\ results[s] = <<>>
    BY DEF Init
  <2>2. <<>> \in Seq(StatementsOf(<<>>))
    OBVIOUS
  <2> QED BY <1>3, <2>1, <2>2 DEF StoreOK
<1>5. /\ stage \in [Stores -> {"idle", "running", "returned"}]
      /\ DOMAIN ops = Stores /\ DOMAIN todo = Stores /\ DOMAIN snapshot = Stores
      /\ DOMAIN log = Stores /\ DOMAIN results = Stores
  BY DEF Init
<1>6. IsTable(rows, clock)
  BY <1>2 DEF Init
<1> QED BY <1>1, <1>4, <1>5, <1>6 DEF IInv

LEMMA BeginHolds ==
    ASSUME IInv, NEW s \in Stores, NEW batch \in Batches, Begin(s, batch)
    PROVE  IInv'
<1>1. /\ clock' = clock /\ clock \in Nat /\ rows' = rows /\ snapshot' = snapshot /\ log' = log
      /\ stage[s] # "running"
      /\ stage' \in [Stores -> {"idle", "running", "returned"}]
      /\ DOMAIN ops' = Stores /\ DOMAIN todo' = Stores /\ DOMAIN results' = Stores
  BY MaxTimeAssumption DEF Begin, IInv
<1>2. /\ stage'[s] = "running" /\ ops'[s] = batch /\ todo'[s] = Statements(batch)
      /\ results'[s] = [i \in DOMAIN batch |-> <<>>]
      /\ \A t \in Stores \ {s} : /\ stage'[t] = stage[t] /\ ops'[t] = ops[t]
                                 /\ todo'[t] = todo[t] /\ results'[t] = results[t]
  BY DEF Begin, IInv
<1>3. StoreOK(s)'
  <2>1. StoreOK(s) /\ snapshot[s] = <<>>
    BY <1>1 DEF IInv, StoreOK
  <2>2. Statements(batch) \in Seq(StatementsOf(batch))
    BY BatchShape, StatementsOfBatch
  <2>3. \A i \in OfType(batch, "search") : results'[s][i] = <<>>
    BY <1>2 DEF OfType
  <2>4. IsLog(log[s], clock)'
    BY <1>1, <2>1 DEF StoreOK
  <2> QED BY <1>1, <1>2, <2>1, <2>2, <2>3, <2>4 DEF StoreOK
<1>4. ASSUME NEW t \in Stores \ {s} PROVE StoreOK(t)'
  BY <1>1, <1>2, StoreFrame DEF IInv
<1> QED BY <1>1, <1>3, <1>4 DEF IInv

\* The statement that is executed is one of the batch.
LEMMA StatementExecuted ==
    ASSUME IInv, NEW s \in Stores, NEW kind, Executes(s, kind)
    PROVE  /\ stage[s] = "running" /\ Head(todo[s]) \in StatementsOf(ops[s])
           /\ Head(todo[s]).kind = kind
           /\ todo'[s] \in Seq(StatementsOf(ops[s]))
           /\ \A t \in Stores \ {s} : todo'[t] = todo[t]
           /\ DOMAIN todo' = Stores
           /\ rows' = rows /\ clock' = clock /\ stage' = stage /\ ops' = ops
           /\ clock \in Nat
<1> DEFINE Good == StatementsOf(ops[s])
<1>1. todo[s] \in Seq(Good) /\ todo[s] # <<>> /\ Head(todo[s]).kind = kind
  BY DEF Executes, IInv, StoreOK
<1>2. stage[s] = "running"
  BY <1>1 DEF IInv, StoreOK
<1>3. todo' = [todo EXCEPT ![s] = Tail(@)] /\ DOMAIN todo = Stores
  BY DEF Executes, IInv
<1> HIDE DEF Good
<1>4. Head(todo[s]) \in Good /\ Tail(todo[s]) \in Seq(Good)
  BY <1>1
<1>5. clock \in Nat
  BY MaxTimeAssumption DEF IInv
<1> QED BY <1>1, <1>2, <1>3, <1>4, <1>5 DEF Executes, Good

\* A SELECT answers searches with pages of the snapshot and leaves the other
\* answers to searches alone.
LEMMA SelectsHolds ==
    ASSUME IInv, NEW s \in Stores, NEW kind, Selects(s, kind),
           DOMAIN results' = Stores, \A t \in Stores \ {s} : results'[t] = results[t],
           DOMAIN results'[s] = DOMAIN ops[s],
           \A i \in OfType(ops[s], "search") :
              \/ results'[s][i] = results[s][i]
              \/ IsPageOf(results'[s][i], ReadView(s), ops[s][i])
    PROVE  IInv'
<1>1. /\ stage[s] = "running" /\ todo'[s] \in Seq(StatementsOf(ops[s]))
      /\ \A t \in Stores \ {s} : todo'[t] = todo[t]
      /\ DOMAIN todo' = Stores
      /\ rows' = rows /\ clock' = clock /\ stage' = stage /\ ops' = ops /\ clock \in Nat
  BY StatementExecuted DEF Selects
<1>2. /\ log' = log /\ DOMAIN snapshot' = Stores
      /\ snapshot'[s] = IF snapshot[s] = <<>> THEN <<rows>> ELSE snapshot[s]
      /\ \A t \in Stores \ {s} : snapshot'[t] = snapshot[t]
  BY DEF Selects, IInv
<1>3. StoreOK(s) /\ IsTable(rows, clock)
  BY DEF IInv
<1>4. snapshot'[s] # <<>> /\ snapshot'[s][1] = ReadView(s) /\ IsTable(ReadView(s), clock)
  BY <1>2, <1>3 DEF ReadView, StoreOK
<1>5. StoreOK(s)'
  <2>1. \A i \in OfType(ops[s], "search") :
          results'[s][i] = <<>> \/ IsPageOf(results'[s][i], snapshot'[s][1], ops[s][i])
    BY <1>1, <1>3, <1>4 DEF StoreOK, ReadView
  <2>2. IsTable(snapshot[s][1], clock)'
    BY <1>1, <1>4
  <2>3. IsLog(log[s], clock)'
    BY <1>1, <1>2, <1>3 DEF StoreOK
  <2> QED BY <1>1, <1>2, <1>3, <1>4, <2>1, <2>2, <2>3 DEF StoreOK
<1>6. ASSUME NEW t \in Stores \ {s} PROVE StoreOK(t)'
  BY <1>1, <1>2, StoreFrame DEF IInv
<1>7. IsTable(rows, clock)'
  BY <1>1, <1>3
<1> QED BY <1>1, <1>2, <1>5, <1>6, <1>7 DEF IInv


LEMMA GetItemsHolds ==
    ASSUME IInv, NEW s \in Stores, GetItems(s)
    PROVE  IInv'
<1> DEFINE of == Head(todo[s]).of
           table == ReadView(s)
           answers == [i \in DOMAIN results[s] |->
                IF i \in of
                THEN LET r == Row(ops[s][i])
                     IN IF r \in DOMAIN table THEN <<FoundItem(table, r)>> ELSE <<>>
                ELSE results[s][i]]
<1>1. Selects(s, "get") /\ results' = [results EXCEPT ![s] = answers]
  BY DEF GetItems
<1>2. Head(todo[s]) \in StatementsOf(ops[s]) /\ Head(todo[s]).kind = "get"
  BY <1>1, StatementExecuted DEF Selects
<1>3. \A i \in of : ops[s][i].type = "get"
  BY <1>2 DEF StatementsOf
<1>4. DOMAIN results = Stores /\ DOMAIN results[s] = DOMAIN ops[s]
  BY DEF IInv, StoreOK
<1>5. DOMAIN answers = DOMAIN ops[s] /\ \A i \in OfType(ops[s], "search") : answers[i] = results[s][i]
  BY <1>3, <1>4 DEF OfType
<1> HIDE DEF answers
<1>6. /\ DOMAIN results' = Stores /\ \A t \in Stores \ {s} : results'[t] = results[t]
      /\ results'[s] = answers
  BY <1>1, <1>4
<1> QED BY <1>1, <1>5, <1>6, SelectsHolds

LEMMA AnswerOfOne ==
    ASSUME IInv, NEW s \in Stores, NEW i \in DOMAIN ops[s], NEW answer, Answer(s, i, answer)
    PROVE  /\ DOMAIN results' = Stores /\ \A t \in Stores \ {s} : results'[t] = results[t]
           /\ DOMAIN results'[s] = DOMAIN ops[s]
           /\ results'[s][i] = answer
           /\ \A j \in DOMAIN ops[s] \ {i} : results'[s][j] = results[s][j]
<1>1. DOMAIN results = Stores /\ DOMAIN results[s] = DOMAIN ops[s]
  BY DEF IInv, StoreOK
<1>2. results' = [results EXCEPT ![s] = [results[s] EXCEPT ![i] = answer]]
  BY DEF Answer
<1>3. results'[s] = [results[s] EXCEPT ![i] = answer]
  BY <1>1, <1>2
<1> QED BY <1>1, <1>2, <1>3

LEMMA SearchHolds ==
    ASSUME IInv, NEW s \in Stores, Search(s)
    PROVE  IInv'
<1> DEFINE table == ReadView(s)
<1>1. Selects(s, "search")
  BY DEF Search
<1>2. Head(todo[s]) \in StatementsOf(ops[s]) /\ Head(todo[s]).kind = "search"
  BY <1>1, StatementExecuted DEF Selects
<1>3. PICK i \in Head(todo[s]).of :
        \E order \in NewestFirst(table, Found(table, ops[s][i])) :
           LET page == Page(order, ops[s][i])
           IN Answer(s, i, [n \in DOMAIN page |-> FoundItem(table, page[n])])
  BY DEF Search
<1>4. PICK order \in NewestFirst(table, Found(table, ops[s][i])) :
        LET page == Page(order, ops[s][i])
        IN Answer(s, i, [n \in DOMAIN page |-> FoundItem(table, page[n])])
  BY <1>3
<1> DEFINE page == Page(order, ops[s][i])
           answer == [n \in DOMAIN page |-> FoundItem(table, page[n])]
<1>5. i \in DOMAIN ops[s]
  BY <1>2 DEF StatementsOf
<1>6. IsPageOf(answer, table, ops[s][i])
  BY DEF IsPageOf
<1>7. Answer(s, i, answer)
  BY <1>4
<1> HIDE DEF answer
<1>8. /\ DOMAIN results' = Stores /\ \A t \in Stores \ {s} : results'[t] = results[t]
      /\ DOMAIN results'[s] = DOMAIN ops[s]
      /\ results'[s][i] = answer
      /\ \A j \in DOMAIN ops[s] \ {i} : results'[s][j] = results[s][j]
  BY <1>5, <1>7, AnswerOfOne
<1>9. \A j \in OfType(ops[s], "search") :
        results'[s][j] = results[s][j] \/ IsPageOf(results'[s][j], ReadView(s), ops[s][j])
  BY <1>6, <1>8 DEF OfType
<1> QED BY <1>1, <1>8, <1>9, SelectsHolds

LEMMA ListNamespacesHolds ==
    ASSUME IInv, NEW s \in Stores, ListNamespaces(s)
    PROVE  IInv'
<1>1. Selects(s, "list")
  BY DEF ListNamespaces
<1>2. Head(todo[s]) \in StatementsOf(ops[s]) /\ Head(todo[s]).kind = "list"
  BY <1>1, StatementExecuted DEF Selects
<1>3. PICK i \in Head(todo[s]).of : \E answer : Answer(s, i, answer)
  BY DEF ListNamespaces
<1>4. i \in DOMAIN ops[s] /\ i \notin OfType(ops[s], "search")
  BY <1>2 DEF StatementsOf, OfType
<1>5. /\ DOMAIN results' = Stores /\ \A t \in Stores \ {s} : results'[t] = results[t]
      /\ DOMAIN results'[s] = DOMAIN ops[s]
      /\ \A j \in DOMAIN ops[s] \ {i} : results'[s][j] = results[s][j]
  BY <1>3, <1>4, AnswerOfOne
<1>6. \A j \in OfType(ops[s], "search") : results'[s][j] = results[s][j]
  BY <1>4, <1>5 DEF OfType
<1> QED BY <1>1, <1>5, <1>6, SelectsHolds

\* The rows a DELETE or the INSERT locks are rows of items.
LEMMA LocksOfStatement ==
    ASSUME IInv, NEW s \in Stores
    PROVE  Locks(s) \subseteq ItemRows /\ IsFiniteSet(Locks(s))
<1>1. StoreOK(s)
  BY DEF IInv
<1>2. CASE todo[s] = <<>> \/ Head(todo[s]).kind \notin {"delete", "insert"}
  BY <1>2, FS_EmptySet DEF Locks
<1>3. CASE ~(todo[s] = <<>> \/ Head(todo[s]).kind \notin {"delete", "insert"})
  <2> DEFINE of == Head(todo[s]).of
             Good == StatementsOf(ops[s])
  <2>1. Locks(s) = {Row(ops[s][i]) : i \in of}
    BY <1>3 DEF Locks
  <2>2. Head(todo[s]) \in Good
    <3>1. todo[s] \in Seq(Good) /\ todo[s] # <<>>
      BY <1>1, <1>3 DEF StoreOK
    <3> HIDE DEF Good
    <3> QED BY <3>1
  <2>3. of \subseteq DOMAIN ops[s] /\ \A i \in of : ops[s][i].type = "put"
    BY <1>3, <2>2 DEF StatementsOf
  <2>4. IsFiniteSet(of)
    BY <1>1, <2>3, BatchShape, FS_Subset DEF StoreOK
  <2>5. IsFiniteSet(Locks(s))
    <3> DEFINE f == [i \in of |-> Row(ops[s][i])]
    <3>1. f \in Surjection(of, Locks(s))
      BY <2>1 DEF Surjection
    <3> HIDE DEF of, f
    <3> QED BY <2>4, <3>1, FS_Surjection
  <2>6. ASSUME NEW i \in of PROVE Row(ops[s][i]) \in ItemRows
    <3>1. ops[s] \in Batches
      <4>1. ops[s] # <<>>
        BY <2>3
      <4> QED BY <4>1, <1>1 DEF StoreOK
    <3> QED BY <2>3, <3>1 DEF ItemRows, OfType
  <2> QED BY <2>1, <2>5, <2>6
<1> QED BY <1>2, <1>3

\* DELETE and INSERT change the log of their transaction.
LEMMA WritesHold ==
    ASSUME IInv, NEW s \in Stores, NEW kind, Executes(s, kind),
           UNCHANGED <<snapshot, results>>,
           DOMAIN log' = Stores, \A t \in Stores \ {s} : log'[t] = log[t],
           IsLog(log'[s], clock)
    PROVE  IInv'
<1>1. /\ stage[s] = "running" /\ todo'[s] \in Seq(StatementsOf(ops[s]))
      /\ \A t \in Stores \ {s} : todo'[t] = todo[t]
      /\ DOMAIN todo' = Stores
      /\ rows' = rows /\ clock' = clock /\ stage' = stage /\ ops' = ops /\ clock \in Nat
  BY StatementExecuted
<1>2. StoreOK(s)'
  <2>1. IsLog(log[s], clock)'
    BY <1>1
  <2>2. snapshot[s] # <<>> => IsTable(snapshot[s][1], clock)'
    BY <1>1 DEF IInv, StoreOK
  <2>3. StoreOK(s)
    BY DEF IInv
  <2> QED BY <1>1, <2>1, <2>2, <2>3 DEF StoreOK
<1>3. ASSUME NEW t \in Stores \ {s} PROVE StoreOK(t)'
  BY <1>1, StoreFrame DEF IInv
<1>4. IsTable(rows, clock)'
  BY <1>1 DEF IInv
<1> QED BY <1>1, <1>2, <1>3, <1>4 DEF IInv

LEMMA DeleteItemsHolds ==
    ASSUME IInv, NEW s \in Stores, DeleteItems(s)
    PROVE  IInv'
<1> DEFINE new == [log[s] EXCEPT !.locked = @ \cup Locks(s), !.del = @ \cup Locks(s)]
<1>1. /\ Executes(s, "delete") /\ UNCHANGED <<snapshot, results>>
      /\ log' = [log EXCEPT ![s].locked = @ \cup Locks(s), ![s].del = @ \cup Locks(s)]
  BY DEF DeleteItems
<1>2. DOMAIN log = Stores /\ IsLog(log[s], clock)
  BY DEF IInv, StoreOK
<1>3. log' = [log EXCEPT ![s] = new]
  BY <1>1, <1>2
<1>4. /\ new = [set |-> new.set, del |-> new.del, locked |-> new.locked]
      /\ new.set = log[s].set
      /\ new.del = log[s].del \cup Locks(s) /\ new.locked = log[s].locked \cup Locks(s)
  <2>1. DOMAIN log[s] = {"set", "del", "locked"}
    BY <1>2 DEF IsLog
  <2>2. DOMAIN new = {"set", "del", "locked"}
    BY <2>1
  <2>3. new.set = log[s].set
    BY <2>1
  <2>4. new.del = log[s].del \cup Locks(s)
    BY <2>1
  <2>5. new.locked = log[s].locked \cup Locks(s)
    BY <2>1
  <2>6. new = [set |-> new.set, del |-> new.del, locked |-> new.locked]
    <3>1. new = [f \in {"set", "del", "locked"} |-> new[f]]
      BY <2>2
    <3> HIDE DEF new
    <3> QED BY <3>1
  <2> QED BY <2>3, <2>4, <2>5, <2>6
<1> HIDE DEF new
<1>5. IsLog(new, clock)
  BY <1>2, <1>4, LocksOfStatement DEF IsLog
<1>6. DOMAIN log' = Stores /\ log'[s] = new /\ \A t \in Stores \ {s} : log'[t] = log[t]
  BY <1>2, <1>3
<1> QED BY <1>1, <1>5, <1>6, WritesHold

LEMMA InsertItemsHolds ==
    ASSUME IInv, NEW s \in Stores, InsertItems(s)
    PROVE  IInv'
<1> DEFINE of == Head(todo[s]).of
           op(r) == ops[s][CHOOSE i \in of : Row(ops[s][i]) = r]
           set == [r \in Locks(s) \cup DOMAIN log[s].set |->
                     IF r \in Locks(s) THEN [value |-> op(r).value, updated |-> clock]
                                       ELSE log[s].set[r]]
           new == [log[s] EXCEPT !.locked = @ \cup Locks(s), !.set = set]
<1>1. /\ Executes(s, "insert") /\ UNCHANGED <<snapshot, results>>
      /\ log' = [log EXCEPT ![s].locked = @ \cup Locks(s), ![s].set = set]
  BY DEF InsertItems
<1>2. /\ DOMAIN log = Stores /\ IsLog(log[s], clock)
      /\ Locks(s) \subseteq ItemRows /\ IsFiniteSet(Locks(s))
  BY LocksOfStatement DEF IInv, StoreOK
<1>3. Head(todo[s]) \in StatementsOf(ops[s]) /\ Head(todo[s]).kind = "insert" /\ clock \in Nat
  BY <1>1, StatementExecuted
<1>4. /\ \A i \in of : ops[s][i].value # NoValue
      /\ Locks(s) = {Row(ops[s][i]) : i \in of}
  BY <1>1, <1>3 DEF StatementsOf, Locks, Executes
<1>5. \A r \in Locks(s) : op(r).value # NoValue
  BY <1>4
<1> HIDE DEF op
<1>6. IsTable(set, clock)
  <2>1. DOMAIN set = Locks(s) \cup DOMAIN log[s].set
    OBVIOUS
  <2>2. IsTable(log[s].set, clock)
    BY <1>2 DEF IsLog
  <2>3. IsFiniteSet(DOMAIN set)
    <3>1. IsFiniteSet(DOMAIN log[s].set)
      BY <2>2 DEF IsTable
    <3> QED BY <1>2, <2>1, <3>1, FS_Union
  <2>4. ASSUME NEW r \in DOMAIN set PROVE set[r].value # NoValue /\ set[r].updated \in 0..clock
    BY <1>3, <1>5, <2>1, <2>2 DEF IsTable
  <2> HIDE DEF set
  <2> QED BY <1>2, <2>1, <2>2, <2>3, <2>4 DEF IsTable
<1>7. DOMAIN set = Locks(s) \cup DOMAIN log[s].set
  OBVIOUS
<1> HIDE DEF set
<1>8. log' = [log EXCEPT ![s] = new]
  BY <1>1, <1>2
<1>9. /\ new = [set |-> new.set, del |-> new.del, locked |-> new.locked]
      /\ new.set = set
      /\ new.del = log[s].del /\ new.locked = log[s].locked \cup Locks(s)
  <2>1. DOMAIN log[s] = {"set", "del", "locked"}
    BY <1>2 DEF IsLog
  <2>2. DOMAIN new = {"set", "del", "locked"}
    BY <2>1
  <2>3. new.set = set
    BY <2>1
  <2>4. new.del = log[s].del
    BY <2>1
  <2>5. new.locked = log[s].locked \cup Locks(s)
    BY <2>1
  <2>6. new = [set |-> new.set, del |-> new.del, locked |-> new.locked]
    <3>1. new = [f \in {"set", "del", "locked"} |-> new[f]]
      BY <2>2
    <3> HIDE DEF new
    <3> QED BY <3>1
  <2> QED BY <2>3, <2>4, <2>5, <2>6
<1> HIDE DEF new
<1>10. IsLog(new, clock)
  BY <1>2, <1>6, <1>7, <1>9 DEF IsLog
<1>11. DOMAIN log' = Stores /\ log'[s] = new /\ \A t \in Stores \ {s} : log'[t] = log[t]
  BY <1>2, <1>8
<1> QED BY <1>1, <1>10, <1>11, WritesHold

\* The table a transaction commits.
LEMMA CurrentIsTable ==
    ASSUME IInv, NEW s \in Stores
    PROVE  IsTable(Current(s), clock)
<1> DEFINE set == log[s].set
           t == Current(s)
<1>1. IsTable(set, clock) /\ IsTable(rows, clock)
  BY DEF IInv, StoreOK, IsLog
<1>2. /\ DOMAIN t = DOMAIN set \cup (DOMAIN rows \ log[s].del)
      /\ \A r \in DOMAIN t : t[r] = IF r \in DOMAIN set THEN set[r] ELSE rows[r]
  BY DEF Current
<1>3. IsFiniteSet(DOMAIN t)
  <2>1. IsFiniteSet(DOMAIN set) /\ IsFiniteSet(DOMAIN rows \ log[s].del)
    BY <1>1, FS_Subset DEF IsTable
  <2> HIDE DEF set, t
  <2>2. IsFiniteSet(DOMAIN set \cup (DOMAIN rows \ log[s].del))
    BY <2>1, FS_Union
  <2> QED BY <1>2, <2>2
<1> HIDE DEF t, set
<1>4. IsTable(t, clock)
  BY <1>1, <1>2, <1>3 DEF IsTable
<1> QED BY <1>4 DEF t

\* A batch ends: nothing is left of its transaction.
LEMMA EndsHold ==
    ASSUME IInv, NEW s \in Stores, NEW how \in {"idle", "returned"}, Ends(s, how),
           IsTable(rows', clock),
           DOMAIN ops' = Stores, DOMAIN results' = Stores,
           ops'[s] \in {ops[s], <<>>}, DOMAIN results'[s] = DOMAIN ops'[s],
           \A t \in Stores \ {s} : ops'[t] = ops[t] /\ results'[t] = results[t]
    PROVE  IInv'
<1>1. /\ clock' = clock /\ clock \in Nat
      /\ stage' \in [Stores -> {"idle", "running", "returned"}]
      /\ DOMAIN todo' = Stores /\ DOMAIN snapshot' = Stores /\ DOMAIN log' = Stores
      /\ stage'[s] = how /\ todo'[s] = <<>> /\ snapshot'[s] = <<>> /\ log'[s] = NoLog
      /\ \A t \in Stores \ {s} : /\ stage'[t] = stage[t] /\ todo'[t] = todo[t]
                                 /\ snapshot'[t] = snapshot[t] /\ log'[t] = log[t]
  BY MaxTimeAssumption DEF Ends, IInv
<1>2. StoreOK(s)'
  <2>1. IsLog(log[s], clock)'
    <3>1. IsTable([r \in {} |-> r], clock)
      BY FS_EmptySet DEF IsTable
    <3> QED BY <1>1, <3>1 DEF IsLog, NoLog
  <2>2. ops'[s] \in Batches \cup {<<>>}
    BY DEF IInv, StoreOK
  <2>3. <<>> \in Seq(StatementsOf(ops[s])')
    OBVIOUS
  <2> QED BY <1>1, <2>1, <2>2, <2>3 DEF StoreOK
<1>3. ASSUME NEW t \in Stores \ {s} PROVE StoreOK(t)'
  BY <1>1, StoreFrame DEF IInv
<1>4. IsTable(rows, clock)'
  BY <1>1
<1> QED BY <1>1, <1>2, <1>3, <1>4 DEF IInv

LEMMA CommitHolds ==
    ASSUME IInv, NEW s \in Stores, Commit(s)
    PROVE  IInv'
<1>1. rows' = Current(s) /\ Ends(s, "returned") /\ UNCHANGED <<ops, results>>
  BY DEF Commit
<1>2. IsTable(rows', clock)
  BY <1>1, CurrentIsTable
<1>3. DOMAIN ops = Stores /\ DOMAIN results = Stores /\ DOMAIN results[s] = DOMAIN ops[s]
  BY DEF IInv, StoreOK
<1> QED BY <1>1, <1>2, <1>3, EndsHold

LEMMA RaiseHolds ==
    ASSUME IInv, NEW s \in Stores, Raise(s)
    PROVE  IInv'
<1>1. /\ rows' = rows \/ rows' = Current(s)
      /\ Ends(s, "idle")
      /\ ops' = [ops EXCEPT ![s] = <<>>] /\ results' = [results EXCEPT ![s] = <<>>]
  BY DEF Raise
<1>2. IsTable(rows', clock)
  BY <1>1, CurrentIsTable DEF IInv
<1>3. /\ DOMAIN ops' = Stores /\ DOMAIN results' = Stores
      /\ ops'[s] = <<>> /\ results'[s] = <<>>
      /\ \A t \in Stores \ {s} : ops'[t] = ops[t] /\ results'[t] = results[t]
  BY <1>1 DEF IInv
<1> QED BY <1>1, <1>2, <1>3, EndsHold

LEMMA TickHolds ==
    ASSUME IInv, Tick
    PROVE  IInv'
<1>1. /\ clock \in Nat /\ clock' = clock + 1 /\ clock' \in 0..MaxTime /\ clock <= clock'
      /\ UNCHANGED <<rows, stage, ops, todo, snapshot, log, results>>
  BY MaxTimeAssumption DEF IInv, Tick
<1>2. ASSUME NEW s \in Stores PROVE StoreOK(s)'
  <2>1. StoreOK(s) /\ clock' \in Nat
    BY <1>1 DEF IInv
  <2> QED BY <1>1, <2>1, StoreFrame
<1>3. IsTable(rows, clock)'
  <2>1. IsTable(rows, clock') /\ clock' \in Nat
    BY <1>1, TableLater DEF IInv
  <2> QED BY <1>1, <2>1
<1> QED BY <1>1, <1>2, <1>3 DEF IInv

LEMMA NextHolds == IInv /\ [Next]_vars => IInv'
<1> SUFFICES ASSUME IInv, [Next]_vars PROVE IInv'
  OBVIOUS
<1>1. CASE UNCHANGED vars
  BY <1>1 DEF vars, IInv, StoreOK
<1>2. ASSUME NEW s \in Stores, NEW batch \in Batches, Begin(s, batch) PROVE IInv'
  BY <1>2, BeginHolds
<1>3. ASSUME NEW s \in Stores, Statement(s) PROVE IInv'
  BY <1>3, GetItemsHolds, SearchHolds, ListNamespacesHolds, DeleteItemsHolds, InsertItemsHolds
     DEF Statement
<1>4. ASSUME NEW s \in Stores, Commit(s) PROVE IInv'
  BY <1>4, CommitHolds
<1>5. ASSUME NEW s \in Stores, Raise(s) PROVE IInv'
  BY <1>5, RaiseHolds
<1>6. CASE Tick
  BY <1>6, TickHolds
<1> QED BY <1>1, <1>2, <1>3, <1>4, <1>5, <1>6 DEF Next

\* IInv is an invariant of the batches of any stores.
LEMMA Invariance == Spec => []IInv
  BY InitHolds, NextHolds, PTL DEF Spec

-----------------------------------------------------------------------------
\* What the runs check.

\* What is stored was put by some batch, a transaction has changed only rows it
\* has locked, and a batch that is not running has nothing left to execute.
THEOREM TypeCorrect == Spec => []TypeOK
<1>1. IInv => TypeOK
  <2> SUFFICES ASSUME IInv PROVE TypeOK
    OBVIOUS
  <2>1. /\ DOMAIN rows \subseteq ItemRows
        /\ \A r \in DOMAIN rows : rows[r].value # NoValue /\ rows[r].updated \in 0..clock
        /\ clock \in 0..MaxTime
        /\ stage \in [Stores -> {"idle", "running", "returned"}]
    BY DEF IInv, IsTable
  <2>2. ASSUME NEW s \in Stores
        PROVE  /\ DOMAIN log[s].set \cup log[s].del \subseteq log[s].locked
               /\ log[s].locked \subseteq ItemRows
               /\ stage[s] # "running" => todo[s] = <<>> /\ snapshot[s] = <<>>
    BY DEF IInv, StoreOK, IsLog
  <2> QED BY <2>1, <2>2 DEF TypeOK, ItemRows
<1> QED BY <1>1, Invariance, PTL

\* A batch that has raised or returned, wherever it was, holds no row that
\* another store could wait for (commit and rollback in batch).
THEOREM NobodyWaitsForTheIdle == Spec => []WaitsForRunningOnly
<1>1. IInv => WaitsForRunningOnly
  BY DEF IInv, StoreOK, NoLog, WaitsForRunningOnly, WaitsFor
<1> QED BY <1>1, Invariance, PTL

-----------------------------------------------------------------------------
\* The pages of a search.

Newer(table, S) == {p \in S \X S : table[p[1]].updated > table[p[2]].updated}

\* Rows of different seconds have one order from the newest to the oldest.
LEMMA NewestFirstSorted ==
    ASSUME NEW table, NEW S, IsFiniteSet(S), \A r \in S : table[r].updated \in Nat,
           \A q, r \in S : q # r => table[q].updated # table[r].updated
    PROVE  /\ Orders(Newer(table, S), S)
           /\ \A o \in NewestFirst(table, S) : Sorted(Newer(table, S), S, o)
<1> DEFINE R == Newer(table, S)
           N == Cardinality(S)
<1>1. \A q, r \in S : <<q, r>> \in R <=> table[q].updated > table[r].updated
  BY DEF Newer
<1>2. Orders(R, S)
  <2> HIDE DEF R
  <2> QED BY <1>1 DEF Orders
<1>3. ASSUME NEW o \in NewestFirst(table, S) PROVE Sorted(R, S, o)
  <2>1. /\ o \in [1..N -> S] /\ \A m, n \in 1..N : m # n => o[m] # o[n]
        /\ \A m, n \in 1..N : m < n => table[o[m]].updated >= table[o[n]].updated
    BY DEF NewestFirst, SetToSeqs
  <2>2. N \in Nat
    BY FS_CardinalityType
  <2>3. o \in Surjection(1..N, S)
    <3>1. IsFiniteSet(1..N) /\ Cardinality(1..N) = N
      BY <2>2, FS_Interval
    <3>2. o \in Injection(1..N, S)
      BY <2>1 DEF Injection, IsInjective
    <3> QED BY <3>1, <3>2, FS_Injection
  <2> HIDE DEF N, R
  <2>4. Len(o) = N /\ o \in Seq(S)
    BY <2>1, <2>2
  <2>5. ASSUME NEW m \in 1..N, NEW n \in 1..N, m < n PROVE <<o[m], o[n]>> \in R
    <3>1. o[m] \in S /\ o[n] \in S /\ o[m] # o[n]
      BY <2>1, <2>2, <2>5
    <3>2. table[o[m]].updated >= table[o[n]].updated
      BY <2>1, <2>5
    <3>3. table[o[m]].updated # table[o[n]].updated
      BY <3>1
    <3>4. table[o[m]].updated \in Nat /\ table[o[n]].updated \in Nat
      BY <3>1
    <3> QED BY <1>1, <3>1, <3>2, <3>3, <3>4
  <2>6. \A r \in S : \E n \in 1..N : o[n] = r
    BY <2>3 DEF Surjection
  <2>7. IsSequence(o)
    BY <2>1, <2>2, <2>4 DEF IsSequence
  <2> QED BY <2>1, <2>4, <2>5, <2>6, <2>7 DEF Sorted
<1> QED BY <1>2, <1>3

\* LIMIT and OFFSET cut a page out of the answer.
LEMMA PageIsCut ==
    ASSUME NEW S, NEW order \in Seq(S), NEW op, op.limit \in Nat, op.offset \in Nat,
           NEW n \in DOMAIN Page(order, op)
    PROVE  /\ op.offset + n \in 1..Len(order) /\ n \in Nat \ {0}
           /\ op.offset + n <= op.offset + op.limit
           /\ Page(order, op)[n] = order[op.offset + n]
<1> DEFINE first == op.offset + 1
           last == Min({op.offset + op.limit, Len(order)})
           L == Len(order)
<1>1. L \in Nat /\ \A i \in 1..L : order[i] \in S
  OBVIOUS
<1>2. last \in Nat /\ last <= L /\ last <= op.offset + op.limit
  <2>1. {op.offset + op.limit, L} \subseteq Nat
    BY <1>1
  <2> QED BY <2>1, MinOfNumbers
<1>3. Page(order, op) = SubSeq(order, first, last)
  BY DEF Page
<1>4. first \in Nat \ {0}
  OBVIOUS
<1> DEFINE page == SubSeq(order, first, last)
<1> HIDE DEF last, first, L
<1>5. /\ page \in Seq(S) /\ Len(page) = IF first <= last THEN last - first + 1 ELSE 0
      /\ \A i \in 1..(last - first + 1) : page[i] = order[first + i - 1]
  BY <1>1, <1>2, <1>4, SubSeqProperties
<1> HIDE DEF page
<1>6. n \in 1..Len(page)
  BY <1>3, <1>5 DEF page
<1>7. n \in 1..(last - first + 1)
  BY <1>2, <1>4, <1>5, <1>6
<1>8. page[n] = order[op.offset + n]
  BY <1>5, <1>7 DEF first
<1>9. op.offset + n \in 1..L /\ n \in Nat \ {0} /\ op.offset + n <= op.offset + op.limit
  BY <1>1, <1>2, <1>7 DEF first
<1>10. Page(order, op)[n] = order[op.offset + n]
  BY <1>3, <1>8 DEF page
<1> QED BY <1>9, <1>10 DEF L

\* A namespace and a key are the row of one item.
LEMMA ItemDeterminesRow ==
    ASSUME NEW table, NEW q \in ItemRows, NEW r \in ItemRows,
           SameItem(FoundItem(table, q), FoundItem(table, r))
    PROVE  q = r
<1>1. ASSUME NEW t \in ItemRows PROVE t = [prefix |-> t.prefix, key |-> t.key] /\ t.prefix \in Texts
  <2>1. PICK b \in Batches : \E i \in OfType(b, "put") : t = Row(b[i])
    BY DEF ItemRows
  <2>2. PICK i \in OfType(b, "put") : t = Row(b[i])
    BY <2>1
  <2>3. b[i].ns \in Seq(Texts)
    BY <2>2, BatchesAssumption DEF OfType, Texts
  <2> QED BY <2>2, <2>3, NamespaceIsText DEF Row
<1>2. DecodeText(q.prefix) = DecodeText(r.prefix) /\ q.key = r.key
  BY DEF SameItem, FoundItem
<1>3. q.prefix = r.prefix
  BY <1>1, <1>2, LabelsDetermineText
<1> QED BY <1>1, <1>2, <1>3

\* A page and the next one of the same search.
LEMMA PagesApart ==
    ASSUME NEW table, NEW now \in Nat, IsTable(table, now), NEW a, NEW b,
           a.limit \in Nat, a.offset \in Nat, b.limit \in Nat, b.offset = a.offset + a.limit,
           Found(table, b) = Found(table, a),
           \A q, r \in Found(table, a) : q # r => table[q].updated # table[r].updated,
           NEW x, IsPageOf(x, table, a), NEW y, IsPageOf(y, table, b),
           NEW m \in DOMAIN x, NEW n \in DOMAIN y
    PROVE  ~SameItem(x[m], y[n])
<1> DEFINE S == Found(table, a)
           R == Newer(table, S)
<1>1. S \subseteq DOMAIN table /\ S \subseteq ItemRows /\ IsFiniteSet(S)
  <2>1. S \subseteq DOMAIN table
    BY DEF Found
  <2> QED BY <2>1, FS_Subset DEF IsTable
<1>2. \A r \in S : table[r].updated \in Nat
  BY <1>1 DEF IsTable
<1>3. /\ Orders(R, S)
      /\ \A o \in NewestFirst(table, S) : Sorted(R, S, o)
  <2> HIDE DEF S
  <2> QED BY <1>1, <1>2, NewestFirstSorted DEF S
<1>4. PICK order \in NewestFirst(table, S) :
        x = [k \in DOMAIN Page(order, a) |-> FoundItem(table, Page(order, a)[k])]
  BY DEF IsPageOf
<1>5. PICK other \in NewestFirst(table, S) :
        y = [k \in DOMAIN Page(other, b) |-> FoundItem(table, Page(other, b)[k])]
  BY DEF IsPageOf
<1> HIDE DEF S, R
<1>6. other = order
  BY <1>1, <1>3, <1>4, <1>5, SortedUnique
<1>7. Sorted(R, S, order)
  BY <1>3, <1>4
<1>8. order \in Seq(S)
  <2>1. Len(order) \in Nat /\ order = [k \in 1..Len(order) |-> order[k]]
        /\ \A k \in 1..Len(order) : order[k] \in S
    BY <1>7 DEF Sorted, IsSequence
  <2> DEFINE L == Len(order)
  <2> HIDE DEF L
  <2>2. order \in [1..L -> S] /\ L \in Nat
    BY <2>1 DEF L
  <2> QED BY <2>2
<1> DEFINE i == a.offset + m
           j == b.offset + n
<1>9. m \in DOMAIN Page(order, a) /\ n \in DOMAIN Page(order, b)
  BY <1>4, <1>5, <1>6
<1>10. /\ b.offset \in Nat
       /\ i \in 1..Len(order) /\ j \in 1..Len(order) /\ m \in Nat \ {0} /\ n \in Nat \ {0}
       /\ i <= a.offset + a.limit
       /\ Page(order, a)[m] = order[i] /\ Page(order, b)[n] = order[j]
  BY <1>8, <1>9, PageIsCut
<1>11. i < j
  BY <1>10
<1>12. x[m] = FoundItem(table, order[i]) /\ y[n] = FoundItem(table, order[j])
  BY <1>4, <1>5, <1>6, <1>9, <1>10
<1> HIDE DEF i, j
<1>13. order[i] \in S /\ order[j] \in S /\ <<order[i], order[j]>> \in R
  BY <1>7, <1>10, <1>11 DEF Sorted
<1>14. order[i] # order[j]
  BY <1>3, <1>13 DEF Orders
<1> QED BY <1>1, <1>12, <1>13, <1>14, ItemDeterminesRow

\* Two pages of one search asked for in one batch have no item in common,
\* whatever other stores commit between the two statements (LIMIT and OFFSET in
\* _prepare_batch_search_queries; one transaction in batch).
THEOREM PagesHaveNothingInCommon == Spec => []PagesPartition
<1>1. IInv => PagesPartition
  <2> SUFFICES ASSUME IInv, NEW s \in Stores,
                      NEW i \in OfType(ops[s], "search"), NEW j \in OfType(ops[s], "search"),
                      ops[s][j] = [ops[s][i] EXCEPT !.offset = ops[s][i].offset + ops[s][i].limit],
                      snapshot[s] # <<>>,
                      \A q, r \in Found(snapshot[s][1], ops[s][i]) :
                         q # r => snapshot[s][1][q].updated # snapshot[s][1][r].updated,
                      NEW m \in DOMAIN results[s][i], NEW n \in DOMAIN results[s][j]
               PROVE  ~SameItem(results[s][i][m], results[s][j][n])
    BY DEF PagesPartition
  <2> DEFINE a == ops[s][i]
             b == ops[s][j]
             table == snapshot[s][1]
  <2>1. StoreOK(s) /\ stage[s] = "running" /\ clock \in Nat
    BY MaxTimeAssumption DEF IInv, StoreOK
  <2>2. ops[s] \in Batches
    <3>1. ops[s] # <<>>
      BY DEF OfType
    <3> QED BY <2>1, <3>1 DEF StoreOK
  <2>3. \A k \in OfType(ops[s], "search") :
          /\ ops[s][k].limit \in Nat /\ ops[s][k].offset \in Nat
          /\ DOMAIN ops[s][k] = {"type", "ns", "filters", "limit", "offset"}
    BY <2>2, BatchesAssumption DEF OfType
  <2>4. /\ b.offset = a.offset + a.limit /\ b.ns = a.ns /\ b.filters = a.filters
    BY <2>3
  <2>5. Found(table, b) = Found(table, a)
    BY <2>4 DEF Found
  <2>6. IsPageOf(results[s][i], table, a) /\ IsPageOf(results[s][j], table, b)
    BY <2>1 DEF StoreOK
  <2>7. IsTable(table, clock)
    BY <2>1 DEF StoreOK
  <2>8. a.limit \in Nat /\ a.offset \in Nat /\ b.limit \in Nat
    BY <2>3
  <2> HIDE DEF a, b, table
  <2> QED BY <2>1, <2>4, <2>5, <2>6, <2>7, <2>8, PagesApart DEF a, b, table
<1> QED BY <1>1, Invariance, PTL

=============================================================================
