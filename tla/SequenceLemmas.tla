--------------------------- MODULE SequenceLemmas ---------------------------
(***************************************************************************)
(* What the operations on arrays and queues used by the specifications     *)
(* preserve.                                                               *)
(***************************************************************************)
EXTENDS Integers, Sequences, SequencesExt, SequenceTheorems, WellFoundedInduction, TLAPS

\* A function on 1..n is a sequence.
LEMMA FcnIsSeq ==
  ASSUME NEW S, NEW n \in Nat, NEW f \in [1..n -> S]
  PROVE  f \in Seq(S) /\ Len(f) = n
<1>1. f \in Seq(S)
  BY SeqDef
<1> QED BY <1>1, LenProperties

\* The elements of a sequence with one more at the end.
LEMMA AppendParts ==
  ASSUME NEW S, NEW s \in Seq(S), NEW e \in S
  PROVE  /\ Append(s, e) \in Seq(S) /\ Len(s) \in Nat /\ Len(Append(s, e)) = Len(s) + 1
         /\ \A k \in 1..Len(s) : Append(s, e)[k] = s[k]
         /\ Append(s, e)[Len(s) + 1] = e
<1>1. Len(s) \in Nat
  BY LenProperties
<1> QED BY <1>1, AppendProperties

\* The elements behind the first.
LEMMA TailParts ==
  ASSUME NEW S, NEW s \in Seq(S), s # << >>
  PROVE  /\ Len(s) \in Nat \ {0} /\ Head(s) = s[1] /\ Head(s) \in S
         /\ Tail(s) \in Seq(S) /\ Len(Tail(s)) = Len(s) - 1
         /\ \A k \in 1..(Len(s) - 1) : Tail(s)[k] = s[k + 1]
<1>1. Len(s) \in Nat \ {0}
  BY LenProperties, EmptySeq
<1>2. Head(s) = s[1]
  OBVIOUS
<1>3. Head(s) \in S
  BY <1>1, <1>2, ElementOfSeq
<1>4. Tail(s) \in Seq(S) /\ Len(Tail(s)) = Len(s) - 1
  BY HeadTailProperties
<1>5. \A k \in 1..(Len(s) - 1) : Tail(s)[k] = s[k + 1]
  BY <1>1, HeadTailProperties
<1> QED BY <1>1, <1>2, <1>3, <1>4, <1>5

\* The two parts of a concatenation.
LEMMA ConcatParts ==
  ASSUME NEW S, NEW s \in Seq(S), NEW t \in Seq(S)
  PROVE  /\ s \o t \in Seq(S) /\ Len(s) \in Nat /\ Len(t) \in Nat
         /\ Len(s \o t) = Len(s) + Len(t)
         /\ \A k \in 1..Len(s) : (s \o t)[k] = s[k]
         /\ \A k \in 1..Len(t) : (s \o t)[Len(s) + k] = t[k]
<1>1. Len(s) \in Nat /\ Len(t) \in Nat
  BY LenProperties
<1> QED BY <1>1, ConcatProperties

\* Removing an element keeps the others: a row by commit, or an answered request.
LEMMA RemoveAtSeq ==
  ASSUME NEW S, NEW s \in Seq(S), NEW i \in 1..Len(s)
  PROVE  RemoveAt(s, i) \in Seq(S) /\ Len(RemoveAt(s, i)) = Len(s) - 1
<1> DEFINE a == SubSeq(s, 1, i - 1)
           b == SubSeq(s, i + 1, Len(s))
<1>0. Len(s) \in Nat /\ \A k \in 1..Len(s) : s[k] \in S
  BY LenProperties, ElementOfSeq
<1>1. a \in Seq(S) /\ Len(a) = i - 1
  BY <1>0, SubSeqProperties
<1>2. b \in Seq(S) /\ Len(b) = Len(s) - i
  BY <1>0, SubSeqProperties
<1>3. a \o b \in Seq(S) /\ Len(a \o b) = Len(a) + Len(b)
  <2> HIDE DEF a, b
  <2> QED BY <1>1, <1>2, ConcatProperties
<1>4. RemoveAt(s, i) = a \o b
  BY DEF RemoveAt
<1> HIDE DEF a, b
<1>5. Len(a \o b) = Len(s) - 1
  BY <1>0, <1>1, <1>2, <1>3
<1> QED BY <1>3, <1>4, <1>5

\* What is left was there before.
LEMMA RemoveAtElement ==
  ASSUME NEW S, NEW s \in Seq(S), NEW i \in 1..Len(s)
  PROVE  \A k \in DOMAIN RemoveAt(s, i) : \E j \in DOMAIN s : RemoveAt(s, i)[k] = s[j]
<1> DEFINE R == {s[j] : j \in DOMAIN s}
           t == RemoveAt(s, i)
<1>1. Len(s) \in Nat /\ DOMAIN s = 1..Len(s) /\ s \in [1..Len(s) -> R]
  BY LenProperties
<1>2. s \in Seq(R)
  <2> HIDE DEF R
  <2> QED BY <1>1, FcnIsSeq
<1>3. t \in Seq(R)
  <2> HIDE DEF R
  <2> QED BY <1>2, RemoveAtSeq
<1>4. \A k \in DOMAIN t : t[k] \in R
  <2> HIDE DEF R, t
  <2> QED BY <1>3, LenProperties, ElementOfSeq
<1> QED BY <1>4

\* Inserting an element keeps the others: the table view moving a cell.
LEMMA InsertAtSeq ==
  ASSUME NEW S, NEW s \in Seq(S), NEW i \in 1..(Len(s) + 1), NEW e \in S
  PROVE  InsertAt(s, i, e) \in Seq(S) /\ Len(InsertAt(s, i, e)) = Len(s) + 1
<1> DEFINE a == SubSeq(s, 1, i - 1)
           b == SubSeq(s, i, Len(s))
<1>0. Len(s) \in Nat /\ \A k \in 1..Len(s) : s[k] \in S
  BY LenProperties, ElementOfSeq
<1>1. a \in Seq(S) /\ Len(a) = i - 1
  BY <1>0, SubSeqProperties
<1>2. b \in Seq(S) /\ Len(b) = Len(s) - i + 1
  BY <1>0, SubSeqProperties
<1>3. a \o <<e>> \in Seq(S) /\ Len(a \o <<e>>) = Len(a) + 1
  <2> HIDE DEF a
  <2> QED BY <1>1, ConcatProperties
<1>4. (a \o <<e>>) \o b \in Seq(S) /\ Len((a \o <<e>>) \o b) = Len(a) + 1 + Len(b)
  <2> DEFINE c == a \o <<e>>
  <2>1. c \in Seq(S) /\ Len(c) = Len(a) + 1
    BY <1>3
  <2>2. c \o b \in Seq(S) /\ Len(c \o b) = Len(c) + Len(b)
    <3> HIDE DEF a, b, c
    <3> QED BY <2>1, <1>2, ConcatProperties
  <2> QED BY <2>1, <2>2
<1>5. InsertAt(s, i, e) = (a \o <<e>>) \o b
  BY DEF InsertAt
<1> HIDE DEF a, b
<1> QED BY <1>0, <1>1, <1>2, <1>4, <1>5

\* Array.swapAt keeps the set of elements and the length.
LEMMA SwapSeq ==
  ASSUME NEW S, NEW s \in Seq(S), NEW i \in 1..Len(s), NEW j \in 1..Len(s)
  PROVE  /\ [s EXCEPT ![i] = s[j], ![j] = s[i]] \in Seq(S)
         /\ Len([s EXCEPT ![i] = s[j], ![j] = s[i]]) = Len(s)
<1>1. s[i] \in S /\ s[j] \in S
  BY ElementOfSeq
<1>2. [s EXCEPT ![i] = s[j]] \in Seq(S) /\ Len([s EXCEPT ![i] = s[j]]) = Len(s)
  BY <1>1, ExceptSeq
<1> DEFINE r == [s EXCEPT ![i] = s[j]]
<1>3. [r EXCEPT ![j] = s[i]] \in Seq(S) /\ Len([r EXCEPT ![j] = s[i]]) = Len(r)
  <2> HIDE DEF r
  <2> QED BY <1>1, <1>2, ExceptSeq DEF r
<1> QED BY <1>2, <1>3

\* A nonempty set of numbers has a least one,
LEMMA FirstPosition ==
  ASSUME NEW W \in SUBSET Nat, W # {}
  PROVE  \E k \in W : \A j \in W : k <= j
<1> DEFINE R == OpToRel(<, Nat)
<1>1. IsWellFoundedOn(R, Nat)
  BY NatLessThanWellFounded
<1>2. \E x \in W : \A y \in W : ~ (<<y, x>> \in R)
  <2> HIDE DEF R
  <2> QED BY <1>1, WFMin
<1>3. \A y \in W, x \in W : y < x => <<y, x>> \in R
  BY DEF OpToRel
<1>4. \E x \in W : \A y \in W : ~ (y < x)
  <2> HIDE DEF R
  <2> QED BY <1>2, <1>3
<1> QED BY <1>4

\* and a nonempty set of positions a last one.
LEMMA LastPosition ==
  ASSUME NEW n \in Nat, NEW W \in SUBSET (1..n), W # {}
  PROVE  \E k \in W : \A j \in W : j <= k
<1> DEFINE T == {m \in Nat : \E k \in W : m = n - k}
           R == OpToRel(<, Nat)
<1>1. T \subseteq Nat /\ T # {}
  <2>1. PICK k \in W : TRUE
    OBVIOUS
  <2>2. n - k \in T
    BY <2>1
  <2> QED BY <2>2
<1>2. IsWellFoundedOn(R, Nat)
  BY NatLessThanWellFounded
<1>3. \E x \in T : \A y \in T : ~ (<<y, x>> \in R)
  <2> HIDE DEF T, R
  <2> QED BY <1>1, <1>2, WFMin
<1>4. PICK x \in T : \A y \in T : ~ (y < x)
  <2>1. \A y \in T, x \in T : y < x => <<y, x>> \in R
    BY <1>1 DEF OpToRel
  <2> HIDE DEF T, R
  <2> QED BY <1>3, <2>1
<1>5. PICK k \in W : x = n - k
  BY <1>4
<1>6. \A j \in W : j <= k
  <2> TAKE j \in W
  <2>1. ~ (n - j < n - k)
    BY <1>4, <1>5
  <2> QED BY <2>1
<1> QED BY <1>6

-----------------------------------------------------------------------------
(***************************************************************************)
(* A sequence seen through a function of its elements: how the queues of a *)
(* detailed specification are mapped to those of an abstract one.          *)
(***************************************************************************)
MapSeq(g, s) == [k \in DOMAIN s |-> g[s[k]]]

\* The image of a sequence is a sequence,
LEMMA MapSeqTyped ==
  ASSUME NEW S, NEW T, NEW g \in [S -> T], NEW s \in Seq(S)
  PROVE  MapSeq(g, s) \in Seq(T)
<1>1. Len(s) \in Nat /\ DOMAIN s = 1..Len(s) /\ \A k \in 1..Len(s) : s[k] \in S
  BY LenProperties, ElementOfSeq
<1>2. MapSeq(g, s) \in [1..Len(s) -> T]
  BY <1>1 DEF MapSeq
<1> QED BY <1>1, <1>2, FcnIsSeq

\* with the same length
LEMMA MapSeqLen ==
  ASSUME NEW S, NEW g, NEW s \in Seq(S)
  PROVE  Len(MapSeq(g, s)) = Len(s)
<1> DEFINE T == {g[x] : x \in S}
<1>1. Len(s) \in Nat /\ DOMAIN s = 1..Len(s) /\ \A k \in 1..Len(s) : s[k] \in S
  BY LenProperties, ElementOfSeq
<1>2. MapSeq(g, s) \in [1..Len(s) -> T]
  BY <1>1 DEF MapSeq
<1> HIDE DEF T
<1> QED BY <1>1, <1>2, FcnIsSeq

\* and the images of its elements.
LEMMA MapSeqAt ==
  ASSUME NEW S, NEW g, NEW s \in Seq(S)
  PROVE  \A k \in 1..Len(s) : MapSeq(g, s)[k] = g[s[k]]
BY LenProperties DEF MapSeq

\* Enqueueing maps to enqueueing.
LEMMA MapSeqAppend ==
  ASSUME NEW S, NEW T, NEW g \in [S -> T], NEW s \in Seq(S), NEW e \in S
  PROVE  MapSeq(g, Append(s, e)) = Append(MapSeq(g, s), g[e])
<1> DEFINE a == Append(s, e)
           m == MapSeq(g, s)
           l == MapSeq(g, a)
           r == Append(m, g[e])
<1>1. a \in Seq(S) /\ Len(a) = Len(s) + 1 /\ a[Len(s) + 1] = e
      /\ \A k \in 1..Len(s) : a[k] = s[k]
  BY AppendProperties
<1>2. m \in Seq(T) /\ Len(m) = Len(s) /\ \A k \in 1..Len(s) : m[k] = g[s[k]]
  BY MapSeqTyped, MapSeqLen, MapSeqAt
<1>3. l \in Seq(T) /\ Len(l) = Len(s) + 1 /\ \A k \in 1..(Len(s) + 1) : l[k] = g[a[k]]
  <2>0. a \in Seq(S)
    BY <1>1
  <2> HIDE DEF a
  <2>1. l \in Seq(T) /\ Len(l) = Len(a) /\ \A k \in 1..Len(a) : l[k] = g[a[k]]
    BY <2>0, MapSeqTyped, MapSeqLen, MapSeqAt
  <2> QED BY <1>1, <2>1
<1>4. r \in Seq(T) /\ Len(r) = Len(s) + 1 /\ r[Len(s) + 1] = g[e]
      /\ \A k \in 1..Len(s) : r[k] = m[k]
  <2> HIDE DEF m
  <2> QED BY <1>2, AppendProperties
<1>5. Len(s) \in Nat
  BY LenProperties
<1>6. \A k \in 1..(Len(s) + 1) : l[k] = r[k]
  <2> HIDE DEF a, m, l, r
  <2> TAKE k \in 1..(Len(s) + 1)
  <2>1. k \in 1..Len(s) \/ k = Len(s) + 1
    BY <1>5
  <2> QED BY <1>1, <1>2, <1>3, <1>4, <2>1
<1>7. l = r
  <2> HIDE DEF l, r
  <2> QED BY <1>3, <1>4, <1>6, SeqEqual
<1> QED BY <1>7

\* The image of a sequence takes its elements from the image of their set.
LEMMA MapSeqImage ==
  ASSUME NEW S, NEW g, NEW s \in Seq(S)
  PROVE  MapSeq(g, s) \in Seq({g[x] : x \in S})
<1> DEFINE T == {g[x] : x \in S}
<1>1. Len(s) \in Nat /\ DOMAIN s = 1..Len(s) /\ \A k \in 1..Len(s) : s[k] \in S
  BY LenProperties, ElementOfSeq
<1>2. MapSeq(g, s) \in [1..Len(s) -> T]
  BY <1>1 DEF MapSeq
<1>3. MapSeq(g, s) \in Seq(T)
  <2> HIDE DEF T
  <2> QED BY <1>1, <1>2, FcnIsSeq
<1> QED BY <1>3

\* Dequeueing maps to dequeueing.
LEMMA MapSeqHeadTail ==
  ASSUME NEW S, NEW g, NEW s \in Seq(S), s # << >>
  PROVE  /\ MapSeq(g, s) # << >> /\ Head(MapSeq(g, s)) = g[Head(s)]
         /\ MapSeq(g, Tail(s)) = Tail(MapSeq(g, s))
<1> DEFINE T == {g[x] : x \in S}
           a == Tail(s)
           m == MapSeq(g, s)
           l == MapSeq(g, a)
           r == Tail(m)
<1>1. a \in Seq(S) /\ Len(a) = Len(s) - 1 /\ Head(s) = s[1] /\ Len(s) \in Nat /\ Len(s) >= 1
      /\ \A k \in 1..Len(a) : a[k] = s[k + 1]
  <2>1. Len(s) \in Nat /\ Len(s) # 0
    BY LenProperties, EmptySeq
  <2> QED BY <2>1, HeadTailProperties
<1>2. m \in Seq(T) /\ Len(m) = Len(s) /\ \A k \in 1..Len(s) : m[k] = g[s[k]]
  <2>1. m \in Seq(T)
    BY MapSeqImage
  <2> QED BY <2>1, MapSeqLen, MapSeqAt
<1>3. m # << >>
  <2> HIDE DEF m
  <2> QED BY <1>1, <1>2, EmptySeq
<1>4. Head(m) = m[1] /\ r \in Seq(T) /\ Len(r) = Len(s) - 1
      /\ \A k \in 1..Len(r) : r[k] = m[k + 1]
  <2> HIDE DEF m, T
  <2> QED BY <1>2, <1>3, HeadTailProperties
<1>5. l \in Seq(T) /\ Len(l) = Len(s) - 1 /\ \A k \in 1..(Len(s) - 1) : l[k] = g[a[k]]
  <2>0. a \in Seq(S)
    BY <1>1
  <2> HIDE DEF a
  <2>1. l \in Seq(T)
    BY <2>0, MapSeqImage
  <2>2. Len(l) = Len(a) /\ \A k \in 1..Len(a) : l[k] = g[a[k]]
    BY <2>0, MapSeqLen, MapSeqAt
  <2> QED BY <1>1, <2>1, <2>2
<1>6. \A k \in 1..(Len(s) - 1) : l[k] = r[k]
  <2> HIDE DEF T, a, m, l, r
  <2> TAKE k \in 1..(Len(s) - 1)
  <2>1. k + 1 \in 1..Len(s)
    BY <1>1
  <2> QED BY <1>1, <1>2, <1>4, <1>5, <2>1
<1>7. l = r
  <2> HIDE DEF l, r
  <2> QED BY <1>4, <1>5, <1>6, SeqEqual
<1>8. Head(m) = g[Head(s)]
  <2> HIDE DEF m
  <2> QED BY <1>1, <1>2, <1>4
<1> QED BY <1>3, <1>7, <1>8

\* A longer sequence that begins like another one extends it.
LEMMA ExtensionIsPrefix ==
  ASSUME NEW S, NEW s \in Seq(S), NEW t \in Seq(S), Len(s) < Len(t),
         \A k \in 1..Len(s) : t[k] = s[k]
  PROVE  IsPrefix(s, t) /\ s # t
<1>1. Len(s) \in Nat /\ Len(t) \in Nat
  BY LenProperties
<1> DEFINE a == SubSeq(s, 1, Len(s))
           b == SubSeq(t, 1, Len(s))
<1>2. a \in Seq(S) /\ Len(a) = Len(s) /\ \A k \in 1..Len(s) : a[k] = s[k]
  BY <1>1, SubSeqProperties, ElementOfSeq
<1>3. b \in Seq(S) /\ Len(b) = Len(s) /\ \A k \in 1..Len(s) : b[k] = t[k]
  BY <1>1, SubSeqProperties, ElementOfSeq
<1>4. a = b
  <2> HIDE DEF a, b
  <2> QED BY <1>2, <1>3, SeqEqual
<1> QED BY <1>1, <1>4 DEF IsPrefix

=============================================================================
