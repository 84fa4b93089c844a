--------------------------- MODULE SequenceLemmas ---------------------------
(***************************************************************************)
(* Facts about sequences that the proofs rest on.  The last part is about  *)
(* FoldLeft, for a step op that may depend on a parameter p; a module that *)
(* folds takes these facts with                                            *)
(*    F == INSTANCE SequenceLemmas WITH op <- <its step>                   *)
(* and one that extends this module leaves op open.                        *)
(***************************************************************************)
EXTENDS SequencesExt, SequenceTheorems, WellFoundedInduction, TLAPS

CONSTANT op(_, _, _)

(* Induction, about sets in place of predicates: a set of numbers has a     *)
(* least one, and a set that has the empty sequence and is closed under    *)
(* Append has every sequence.                                              *)
LEMMA LeastNatural ==
    ASSUME NEW T, T \subseteq Nat, T # {}
    PROVE  \E n \in T : \A m \in T : n <= m
<1>1. IsWellFoundedOn({ss \in Nat \X Nat : ss[1] < ss[2]}, Nat)
  BY NatLessThanWellFounded DEF OpToRel
<1>2. PICK n \in T : \A m \in T :
         ~(<<m, n>> \in {ss \in Nat \X Nat : ss[1] < ss[2]})
  BY <1>1, WFMin
<1>3. \A m \in T : ~(m < n)
  BY <1>2
<1> QED
  BY <1>3

LEMMA SequenceInduction ==
    ASSUME NEW S, NEW Q, <<>> \in Q,
           \A s \in Seq(S), e \in S : s \in Q => Append(s, e) \in Q
    PROVE  \A s \in Seq(S) : s \in Q
<1> DEFINE Bad == {n \in Nat : \E s \in Seq(S) : Len(s) = n /\ s \notin Q}
<1> SUFFICES ASSUME Bad # {} PROVE FALSE
  BY LenProperties
<1>1. PICK n \in Bad : \A m \in Bad : n <= m
  <2>1. Bad \subseteq Nat
    OBVIOUS
  <2> HIDE DEF Bad
  <2> QED
    BY <2>1, LeastNatural
<1>2. PICK s \in Seq(S) : Len(s) = n /\ s \notin Q
  BY <1>1
<1>3. PICK f \in Seq(S), e \in S : s = Append(f, e)
  BY <1>2, SequenceEmptyOrAppend
<1>4. Len(f) = n - 1 /\ n - 1 \in Nat
  BY <1>2, <1>3, AppendProperties, LenProperties
<1>5. n - 1 \notin Bad
  BY <1>1, <1>4
<1>6. f \in Q
  BY <1>4, <1>5
<1> QED
  BY <1>2, <1>3, <1>6

(* Concatenation under a name of its own: the provers then reason from the *)
(* facts cited, instead of element by element.                             *)
Cat(x, y) == x \o y

LEMMA CatAssociative ==
    ASSUME NEW S
    PROVE  \A x, y, z \in Seq(S) : Cat(Cat(x, y), z) = Cat(x, Cat(y, z))
  BY ConcatAssociative DEF Cat

LEMMA CatClosed ==
    ASSUME NEW S
    PROVE  \A x, y \in Seq(S) : Cat(x, y) \in Seq(S)
  BY ConcatProperties DEF Cat

LEMMA AppendIsCat ==
    ASSUME NEW S
    PROVE  \A s \in Seq(S), e \in S :
              Append(s, e) = Cat(s, <<e>>) /\ <<e>> \in Seq(S)
  BY AppendIsConcat DEF Cat

LEMMA HeadTailCat ==
    ASSUME NEW S
    PROVE  \A s \in Seq(S) : s # <<>> =>
              /\ Head(s) \in S /\ Tail(s) \in Seq(S) /\ <<Head(s)>> \in Seq(S)
              /\ s = Cat(<<Head(s)>>, Tail(s))
  BY HeadTailProperties DEF Cat

(* x holds the first k elements of s.                                      *)
FirstOf(x, s, k) == x = SubSeq(s, 1, k) /\ Len(x) = k /\ \A j \in 1..k : x[j] = s[j]

LEMMA SubSeqPlaces ==
    ASSUME NEW S, NEW s \in Seq(S), NEW k \in 0..Len(s)
    PROVE  SubSeq(s, 1, k) \in Seq(S) /\ FirstOf(SubSeq(s, 1, k), s, k)
<1>1. Len(s) \in Nat /\ k \in Nat /\ k <= Len(s)
  BY LenProperties
<1>2. SubSeq(s, 1, k) \in Seq(S)
  <2>1. 1 \in Int /\ k \in Int /\ \A j \in 1..k : j \in 1..Len(s)
    BY <1>1
  <2>2. \A j \in 1..k : s[j] \in S
    BY <2>1, ElementOfSeq
  <2> QED
    BY <2>1, <2>2, SubSeqProperties
<1>3. Len(SubSeq(s, 1, k)) = k /\ \A j \in 1..k : SubSeq(s, 1, k)[j] = s[j]
  BY <1>1
<1> QED
  BY <1>2, <1>3 DEF FirstOf

(* A sequence is a prefix of its concatenation with another one.           *)
LEMMA PrefixOfConcat ==
    ASSUME NEW S, NEW s \in Seq(S), NEW t \in Seq(S)
    PROVE  IsPrefix(s, s \o t)
<1>1. /\ Len(s \o t) = Len(s) + Len(t)
      /\ \A i \in 1..Len(s) : (s \o t)[i] = s[i]
  BY ConcatProperties, LenProperties
<1>2. SubSeq(s \o t, 1, Len(s)) = SubSeq(s, 1, Len(s))
  BY <1>1, ConcatProperties, LenProperties
<1> QED
  BY <1>1, <1>2, LenProperties DEF IsPrefix

LEMMA PrefixTransitive ==
    ASSUME NEW S, NEW s \in Seq(S), NEW t \in Seq(S), NEW u \in Seq(S),
           IsPrefix(s, t), IsPrefix(t, u)
    PROVE  IsPrefix(s, u)
<1>1. /\ Len(s) \in Nat /\ Len(t) \in Nat /\ Len(u) \in Nat
      /\ Len(s) <= Len(t) /\ Len(t) <= Len(u)
      /\ SubSeq(s, 1, Len(s)) = SubSeq(t, 1, Len(s))
      /\ SubSeq(t, 1, Len(t)) = SubSeq(u, 1, Len(t))
  BY LenProperties DEF IsPrefix
<1>2. \A i \in 1..Len(t) : t[i] = u[i]
  <2>1. SubSeq(t, 1, Len(t)) = t /\ t = SubSeq(u, 1, Len(t))
    BY <1>1, SubSeqFull
  <2> QED
    BY <1>1, <2>1, SubSeqProperties
<1>3. SubSeq(t, 1, Len(s)) = SubSeq(u, 1, Len(s))
  BY <1>1, <1>2, SubSeqProperties
<1> QED
  BY <1>1, <1>3 DEF IsPrefix

(* It stays one when the longer sequence grows.                            *)
LEMMA PrefixOfAppend ==
    ASSUME NEW S, NEW s \in Seq(S), NEW t \in Seq(S), NEW e \in S,
           IsPrefix(s, t)
    PROVE  IsPrefix(s, Append(t, e))
<1>1. /\ Len(s) \in Nat /\ Len(t) \in Nat
      /\ Len(s) <= Len(t)
      /\ SubSeq(s, 1, Len(s)) = SubSeq(t, 1, Len(s))
  BY LenProperties DEF IsPrefix
<1>2. Len(Append(t, e)) = Len(t) + 1
  OBVIOUS
<1>3. SubSeq(Append(t, e), 1, Len(s)) = SubSeq(t, 1, Len(s))
  BY <1>1
<1> QED
  BY <1>1, <1>2, <1>3 DEF IsPrefix

(***************************************************************************)
(* FlattenSeq of the community modules.  f is the recursive function of    *)
(* its definition, for the first n sequences of s.                         *)
(***************************************************************************)
Flattens(f, s, n) ==
    f = [i \in 1..n |-> IF i = 1 THEN s[i] ELSE Cat(f[i-1], s[i])]

LEMMA FlattensExists ==
    ASSUME NEW s, NEW k \in Nat
    PROVE  \E f : Flattens(f, s, k)
<1> DEFINE Bad == {n \in Nat : ~ \E f : Flattens(f, s, n)}
<1> SUFFICES ASSUME Bad # {} PROVE FALSE
  OBVIOUS
<1>1. PICK n \in Bad : \A m \in Bad : n <= m
  BY LeastNatural
<1>2. CASE n = 0
  <2> DEFINE f == [i \in 1..0 |-> s]
  <2>1. Flattens(f, s, 0)
    BY DEF Flattens
  <2> QED
    BY <1>2, <2>1
<1>3. CASE n # 0
  <2>1. n - 1 \in Nat /\ n - 1 \notin Bad
    BY <1>1, <1>3
  <2>2. PICK g : Flattens(g, s, n - 1)
    BY <2>1
  <2> DEFINE f == [i \in 1..n |-> IF i = n THEN IF i = 1 THEN s[i] ELSE Cat(g[i-1], s[i])
                                  ELSE g[i]]
  <2>3. ASSUME NEW i \in 1..n
        PROVE  f[i] = IF i = 1 THEN s[i] ELSE Cat(f[i-1], s[i])
    <3>1. CASE i = n
      <4>1. i # 1 => f[i-1] = g[i-1]
        BY <3>1
      <4> QED
        BY <3>1, <4>1
    <3>2. CASE i # n
      <4>1. i \in 1..(n - 1) /\ f[i] = g[i]
        BY <3>2
      <4>2. i # 1 => i - 1 \in 1..n /\ f[i-1] = g[i-1]
        BY <3>2
      <4>3. g[i] = IF i = 1 THEN s[i] ELSE Cat(g[i-1], s[i])
        BY <2>2, <4>1 DEF Flattens
      <4> QED
        BY <4>1, <4>2, <4>3
    <3> QED
      BY <3>1, <3>2
  <2>4. Flattens(f, s, n)
    BY <2>3 DEF Flattens
  <2> QED
    BY <2>4
<1> QED
  BY <1>2, <1>3

LEMMA FlattensStep ==
    ASSUME NEW s, NEW k \in Nat, NEW f, Flattens(f, s, k), NEW i \in 1..k
    PROVE  f[i] = IF i = 1 THEN s[i] ELSE Cat(f[i-1], s[i])
  BY DEF Flattens

Alike(s, t, n) == \A i \in 1..n : s[i] = t[i]

LEMMA FlattensAgree ==
    ASSUME NEW s, NEW t, NEW k \in Nat, NEW l \in Nat, NEW f, NEW g,
           Flattens(f, s, k), Flattens(g, t, l), k <= l,
           Alike(s, t, k)
    PROVE  Alike(f, g, k)
<1> DEFINE Bad == {i \in 1..k : f[i] # g[i]}
<1> SUFFICES ASSUME Bad # {} PROVE FALSE
  BY DEF Alike
<1>1. PICK i \in Bad : \A m \in Bad : i <= m
  <2>1. Bad \subseteq Nat
    OBVIOUS
  <2> HIDE DEF Bad
  <2> QED
    BY <2>1, LeastNatural
<1>2. /\ f[i] = IF i = 1 THEN s[i] ELSE Cat(f[i-1], s[i])
      /\ g[i] = IF i = 1 THEN t[i] ELSE Cat(g[i-1], t[i])
  BY FlattensStep
<1>3. i # 1 => f[i-1] = g[i-1]
  <2>1. i # 1 => i - 1 \in 1..k /\ i - 1 \notin Bad
    BY <1>1
  <2> QED
    BY <2>1
<1> QED
  BY <1>2, <1>3 DEF Alike

LEMMA FlattenUnfolds ==
    ASSUME NEW S, NEW s \in Seq(S), s # <<>>
    PROVE  \E f : Flattens(f, s, Len(s)) /\ FlattenSeq(s) = f[Len(s)]
<1>1. Len(s) \in Nat /\ Len(s) # 0
  BY EmptySeq
<1> DEFINE it == CHOOSE f : Flattens(f, s, Len(s))
<1>2. Flattens(it, s, Len(s))
  BY <1>1, FlattensExists
<1>3. FlattenSeq(s) = it[Len(s)]
  BY <1>1 DEF FlattenSeq, Flattens, Cat
<1> QED
  BY <1>2, <1>3

LEMMA FlattenEmpty == FlattenSeq(<<>>) = <<>>
  BY DEF FlattenSeq

LEMMA FlattenOne ==
    ASSUME NEW c
    PROVE  FlattenSeq(<<c>>) = c
<1>1. PICK f : Flattens(f, <<c>>, 1) /\ FlattenSeq(<<c>>) = f[1]
  <2>1. <<c>> \in Seq({c}) /\ Len(<<c>>) = 1 /\ <<c>> # <<>>
    OBVIOUS
  <2> QED
    BY <2>1, FlattenUnfolds
<1>2. f[1] = <<c>>[1]
  BY <1>1, FlattensStep
<1> QED
  BY <1>1, <1>2

LEMMA FlattenLast ==
    ASSUME NEW S, NEW s \in Seq(S), NEW c \in S, s # <<>>
    PROVE  FlattenSeq(Append(s, c)) = Cat(FlattenSeq(s), c)
<1>1. PICK n \in Nat, m \in Nat : n = Len(s) /\ n # 0 /\ m = n + 1
  BY EmptySeq
<1>2. PICK f : Flattens(f, s, n) /\ FlattenSeq(s) = f[n]
  BY <1>1, FlattenUnfolds
<1>3. /\ Append(s, c) \in Seq(S) /\ Len(Append(s, c)) = m /\ Append(s, c) # <<>>
      /\ Append(s, c)[m] = c /\ \A i \in 1..n : s[i] = Append(s, c)[i]
  BY <1>1, AppendProperties
<1>4. PICK t \in Seq(S) : /\ t = Append(s, c) /\ Len(t) = m /\ t # <<>>
                          /\ t[m] = c /\ \A i \in 1..n : s[i] = t[i]
  BY <1>3
<1>5. PICK g : Flattens(g, t, m) /\ FlattenSeq(t) = g[m]
  BY <1>4, FlattenUnfolds
<1>6. g[m] = Cat(g[n], t[m])
  <2>1. m \in 1..m /\ m # 1 /\ m - 1 = n
    BY <1>1
  <2>2. g[m] = IF m = 1 THEN t[m] ELSE Cat(g[m-1], t[m])
    <3>1. Flattens(g, t, m)
      BY <1>5
    <3> QED
      BY <2>1, <3>1, FlattensStep
  <2> QED
    BY <2>1, <2>2
<1>7. f[n] = g[n]
  <2>1. n <= m /\ n \in 1..n
    BY <1>1
  <2>2. Flattens(f, s, n) /\ Flattens(g, t, m) /\ Alike(s, t, n)
    BY <1>2, <1>4, <1>5 DEF Alike
  <2>3. Alike(f, g, n)
    BY <2>1, <2>2, FlattensAgree
  <2> QED
    BY <2>1, <2>3 DEF Alike
<1> QED
  BY <1>2, <1>4, <1>5, <1>6, <1>7

LEMMA FlattenAppend ==
    ASSUME NEW S, NEW s \in Seq(Seq(S)), NEW c \in Seq(S)
    PROVE  FlattenSeq(Append(s, c)) = Cat(FlattenSeq(s), c)
<1>1. CASE s = <<>>
  <2>1. Append(s, c) = <<c>>
    BY <1>1
  <2>2. Cat(<<>>, c) = c
    BY ConcatEmptySeq DEF Cat
  <2> QED
    BY <1>1, <2>1, <2>2, FlattenEmpty, FlattenOne
<1>2. CASE s # <<>>
  BY <1>2, FlattenLast
<1> QED
  BY <1>1, <1>2

LEMMA FlattenType ==
    ASSUME NEW S
    PROVE  \A s \in Seq(Seq(S)) : FlattenSeq(s) \in Seq(S)
<1> DEFINE Q == {s \in Seq(Seq(S)) : FlattenSeq(s) \in Seq(S)}
<1>1. <<>> \in Q
  BY FlattenEmpty, EmptySeq
<1>2. ASSUME NEW s \in Seq(Seq(S)), NEW c \in Seq(S), s \in Q
      PROVE  Append(s, c) \in Q
  BY <1>2, FlattenAppend, AppendProperties, CatClosed
<1> HIDE DEF Q
<1>3. \A s \in Seq(Seq(S)) : s \in Q
  BY <1>1, <1>2, SequenceInduction
<1> QED
  BY <1>3 DEF Q

LEMMA FlattenConcat ==
    ASSUME NEW S, NEW s \in Seq(Seq(S))
    PROVE  \A t \in Seq(Seq(S)) :
              FlattenSeq(Cat(s, t)) = Cat(FlattenSeq(s), FlattenSeq(t))
<1> DEFINE Q == {t \in Seq(Seq(S)) :
                   FlattenSeq(Cat(s, t)) = Cat(FlattenSeq(s), FlattenSeq(t))}
<1>1. <<>> \in Q
  BY FlattenEmpty, FlattenType, EmptySeq, ConcatEmptySeq DEF Cat
<1>2. ASSUME NEW t \in Seq(Seq(S)), NEW c \in Seq(S), t \in Q
      PROVE  Append(t, c) \in Q
  <2>1. PICK u \in Seq(Seq(S)) : u = Cat(s, t)
    BY CatClosed
  <2>2. Cat(s, Append(t, c)) = Append(u, c)
    <3>1. PICK e \in Seq(Seq(S)) : e = <<c>>
      BY AppendIsCat
    <3>2. Append(t, c) = Cat(t, e) /\ Append(u, c) = Cat(u, e)
      BY <3>1, AppendIsCat
    <3>3. Cat(Cat(s, t), e) = Cat(s, Cat(t, e))
      BY CatAssociative
    <3> QED
      BY <2>1, <3>2, <3>3
  <2>3. PICK x \in Seq(S), y \in Seq(S) : x = FlattenSeq(s) /\ y = FlattenSeq(t)
    BY FlattenType
  <2>4. FlattenSeq(Append(u, c)) = Cat(FlattenSeq(u), c)
    BY FlattenAppend
  <2>5. FlattenSeq(Append(t, c)) = Cat(y, c)
    BY <2>3, FlattenAppend
  <2>6. FlattenSeq(u) = Cat(x, y)
    BY <1>2, <2>1, <2>3
  <2>7. Cat(Cat(x, y), c) = Cat(x, Cat(y, c))
    BY CatAssociative
  <2>8. Append(t, c) \in Seq(Seq(S))
    BY AppendProperties
  <2> QED
    BY <2>2, <2>3, <2>4, <2>5, <2>6, <2>7, <2>8
<1> HIDE DEF Q
<1>3. \A t \in Seq(Seq(S)) : t \in Q
  BY <1>1, <1>2, SequenceInduction
<1> QED
  BY <1>3 DEF Q

(* The first sequence comes first.                                         *)
LEMMA FlattenHeadTail ==
    ASSUME NEW S, NEW s \in Seq(Seq(S)), s # <<>>
    PROVE  FlattenSeq(s) = Cat(Head(s), FlattenSeq(Tail(s)))
<1>1. PICK h \in Seq(S), t \in Seq(Seq(S)) :
         /\ h = Head(s) /\ t = Tail(s) /\ <<h>> \in Seq(Seq(S))
         /\ s = Cat(<<h>>, t)
  BY HeadTailCat
<1>2. FlattenSeq(Cat(<<h>>, t)) = Cat(FlattenSeq(<<h>>), FlattenSeq(t))
  BY <1>1, FlattenConcat
<1> QED
  BY <1>1, <1>2, FlattenOne

(***************************************************************************)
(* A function g of sequences applied to the elements of a sequence, and    *)
(* the results put together.                                               *)
(***************************************************************************)
Images(g, s) == [k \in DOMAIN s |-> g[s[k]]]

FlatMap(g, s) == FlattenSeq(Images(g, s))

ImagesIn(g, S, T) ==
    \A s \in Seq(S) : Images(g, s) \in Seq(T) /\ Len(Images(g, s)) = Len(s)

LEMMA ImagesAllType ==
    ASSUME NEW S, NEW T, NEW g \in [S -> T]
    PROVE  ImagesIn(g, S, T)
<1> SUFFICES ASSUME NEW s \in Seq(S)
             PROVE  Images(g, s) \in Seq(T) /\ Len(Images(g, s)) = Len(s)
  BY DEF ImagesIn
<1>1. PICK n \in Nat : n = Len(s) /\ DOMAIN s = 1..n /\ \A k \in 1..n : s[k] \in S
  BY LenProperties, ElementOfSeq
<1>2. \A k \in 1..n : g[s[k]] \in T
  BY <1>1
<1>3. Images(g, s) = [k \in 1..n |-> g[s[k]]]
  BY <1>1 DEF Images
<1>4. Images(g, s) \in Seq(T)
  BY <1>2, <1>3, IsASeq
<1> QED
  BY <1>1, <1>3, <1>4, LenProperties

LEMMA ImagesType ==
    ASSUME NEW S, NEW T, NEW g \in [S -> T], NEW s \in Seq(S)
    PROVE  Images(g, s) \in Seq(T) /\ Len(Images(g, s)) = Len(s)
<1>1. ImagesIn(g, S, T)
  BY ImagesAllType
<1> QED
  BY <1>1 DEF ImagesIn

LEMMA ImagesAppend ==
    ASSUME NEW S, NEW T, NEW g \in [S -> T], NEW s \in Seq(S), NEW e \in S
    PROVE  Images(g, Append(s, e)) = Append(Images(g, s), g[e])
<1>1. PICK n \in Nat : n = Len(s) /\ DOMAIN s = 1..n
  BY LenProperties
<1>2. PICK t \in Seq(S) : /\ t = Append(s, e) /\ Len(t) = n + 1 /\ t[n + 1] = e
                          /\ \A k \in 1..n : t[k] = s[k]
  <2>1. /\ Append(s, e) \in Seq(S) /\ Len(Append(s, e)) = n + 1
        /\ Append(s, e)[n + 1] = e /\ \A k \in 1..n : Append(s, e)[k] = s[k]
    BY <1>1, AppendProperties
  <2> QED
    BY <2>1
<1>3. DOMAIN t = 1..(n + 1)
  BY <1>2, LenProperties
<1>4. PICK x \in Seq(T), y \in Seq(T) :
         /\ x = Images(g, s) /\ Len(x) = n /\ y = Images(g, t) /\ Len(y) = n + 1
  <2>1. \A r \in Seq(S) : Images(g, r) \in Seq(T) /\ Len(Images(g, r)) = Len(r)
    <3>1. ImagesIn(g, S, T)
      BY ImagesAllType
    <3> QED
      BY <3>1 DEF ImagesIn
  <2>2. Images(g, s) \in Seq(T) /\ Len(Images(g, s)) = n
    BY <1>1, <2>1
  <2>3. Images(g, t) \in Seq(T) /\ Len(Images(g, t)) = n + 1
    BY <1>2, <2>1
  <2> QED
    BY <2>2, <2>3
<1>5. PICK v \in T : v = g[e]
  OBVIOUS
<1>6. /\ Append(x, v) \in Seq(T) /\ Len(Append(x, v)) = n + 1
      /\ Append(x, v)[n + 1] = v /\ \A k \in 1..n : Append(x, v)[k] = x[k]
  BY <1>4, AppendProperties
<1>7. \A k \in 1..(n + 1) : y[k] = Append(x, v)[k]
  <2>1. \A k \in 1..n : y[k] = x[k]
    BY <1>1, <1>2, <1>3, <1>4 DEF Images
  <2>2. y[n + 1] = v
    BY <1>2, <1>3, <1>4, <1>5 DEF Images
  <2>3. \A k \in 1..(n + 1) : k \in 1..n \/ k = n + 1
    OBVIOUS
  <2> QED
    BY <1>6, <2>1, <2>2, <2>3
<1>8. y = Append(x, v)
  BY <1>4, <1>6, <1>7, SeqEqual
<1> QED
  BY <1>2, <1>4, <1>5, <1>8

LEMMA ImagesEmpty ==
    ASSUME NEW g
    PROVE  Images(g, <<>>) = <<>>
  BY DEF Images

LEMMA CatAppend ==
    ASSUME NEW S
    PROVE  \A s, t \in Seq(S), e \in S : Cat(s, Append(t, e)) = Append(Cat(s, t), e)
<1> SUFFICES ASSUME NEW s \in Seq(S), NEW t \in Seq(S), NEW e \in S
             PROVE  Cat(s, Append(t, e)) = Append(Cat(s, t), e)
  OBVIOUS
<1>1. PICK u \in Seq(S) : u = Cat(s, t)
  BY CatClosed
<1>2. PICK l \in Seq(S) : l = <<e>> /\ Append(t, e) = Cat(t, l) /\ Append(u, e) = Cat(u, l)
  BY AppendIsCat
<1>3. Cat(s, Cat(t, l)) = Cat(Cat(s, t), l)
  BY CatAssociative
<1> QED
  BY <1>1, <1>2, <1>3

ImagesSplit(g, S) ==
    \A s, t \in Seq(S) : Images(g, Cat(s, t)) = Cat(Images(g, s), Images(g, t))

LEMMA ImagesCat ==
    ASSUME NEW S, NEW T, NEW g \in [S -> T]
    PROVE  ImagesSplit(g, S)
<1> SUFFICES ASSUME NEW s \in Seq(S)
             PROVE  \A t \in Seq(S) : Images(g, Cat(s, t)) = Cat(Images(g, s), Images(g, t))
  BY DEF ImagesSplit
<1> DEFINE Q == {t \in Seq(S) : /\ Images(g, t) \in Seq(T)
                                /\ Images(g, Cat(s, t)) = Cat(Images(g, s), Images(g, t))}
<1>1. PICK x \in Seq(T) : x = Images(g, s)
  BY ImagesType
<1>2. <<>> \in Q
  <2>1. Cat(s, <<>>) = s /\ Cat(x, <<>>) = x /\ <<>> \in Seq(S) /\ <<>> \in Seq(T)
    BY EmptySeq, ConcatEmptySeq DEF Cat
  <2> QED
    BY <1>1, <2>1, ImagesEmpty
<1>3. ASSUME NEW t \in Seq(S), NEW e \in S, t \in Q
      PROVE  Append(t, e) \in Q
  <2>1. PICK y \in Seq(T), v \in T : y = Images(g, t) /\ v = g[e]
    BY <1>3
  <2>2. PICK u \in Seq(S) : u = Cat(s, t)
    BY CatClosed
  <2>3. Cat(s, Append(t, e)) = Append(u, e)
    <3>1. \A c \in S : Cat(s, Append(t, c)) = Append(Cat(s, t), c)
      BY CatAppend
    <3> QED
      BY <2>2, <3>1
  <2>4. Images(g, Append(u, e)) = Append(Images(g, u), v)
    BY <2>1, ImagesAppend
  <2>5. Images(g, Append(t, e)) = Append(y, v)
    BY <2>1, ImagesAppend
  <2>6. Images(g, u) = Cat(x, y)
    BY <1>1, <1>3, <2>1, <2>2
  <2>7. Cat(x, Append(y, v)) = Append(Cat(x, y), v)
    BY CatAppend
  <2>8. Append(t, e) \in Seq(S) /\ Append(y, v) \in Seq(T)
    BY AppendProperties
  <2> QED
    BY <1>1, <2>3, <2>4, <2>5, <2>6, <2>7, <2>8
<1> HIDE DEF Q
<1>4. \A t \in Seq(S) : t \in Q
  BY <1>2, <1>3, SequenceInduction
<1> QED
  BY <1>4 DEF Q

LEMMA FlatMapType ==
    ASSUME NEW S, NEW T, NEW g \in [S -> Seq(T)], NEW s \in Seq(S)
    PROVE  FlatMap(g, s) \in Seq(T)
<1>1. Images(g, s) \in Seq(Seq(T))
  BY ImagesType
<1> QED
  BY <1>1, FlattenType DEF FlatMap

LEMMA FlatMapEmpty ==
    ASSUME NEW g
    PROVE  FlatMap(g, <<>>) = <<>>
<1>1. Images(g, <<>>) = <<>>
  BY DEF Images
<1> QED
  BY <1>1, FlattenEmpty DEF FlatMap

LEMMA FlatMapAppend ==
    ASSUME NEW S, NEW T, NEW g \in [S -> Seq(T)], NEW s \in Seq(S), NEW e \in S
    PROVE  FlatMap(g, Append(s, e)) = Cat(FlatMap(g, s), g[e])
<1>1. PICK U : U = Seq(T)
  OBVIOUS
<1>2. PICK x \in Seq(U), v \in U : x = Images(g, s) /\ v = g[e]
  BY <1>1, ImagesType
<1>3. Images(g, Append(s, e)) = Append(x, v)
  BY <1>1, <1>2, ImagesAppend
<1>4. FlattenSeq(Append(x, v)) = Cat(FlattenSeq(x), v)
  BY <1>1, FlattenAppend
<1> QED
  BY <1>2, <1>3, <1>4 DEF FlatMap

LEMMA FlatMapOne ==
    ASSUME NEW S, NEW T, NEW g \in [S -> Seq(T)], NEW e \in S
    PROVE  FlatMap(g, <<e>>) = g[e]
<1>1. PICK z \in Seq(S) : z = <<>>
  BY EmptySeq
<1>5. Append(z, e) = <<e>>
  BY <1>1
<1>2. FlatMap(g, Append(z, e)) = Cat(FlatMap(g, z), g[e])
  BY FlatMapAppend
<1>3. FlatMap(g, z) = <<>>
  BY <1>1, FlatMapEmpty
<1>4. Cat(<<>>, g[e]) = g[e]
  BY ConcatEmptySeq DEF Cat
<1> QED
  BY <1>5, <1>2, <1>3, <1>4

LEMMA FlatMapCat ==
    ASSUME NEW S, NEW T, NEW g \in [S -> Seq(T)], NEW s \in Seq(S)
    PROVE  \A t \in Seq(S) : FlatMap(g, Cat(s, t)) = Cat(FlatMap(g, s), FlatMap(g, t))
<1> DEFINE Q == {t \in Seq(S) : FlatMap(g, Cat(s, t)) = Cat(FlatMap(g, s), FlatMap(g, t))}
<1>1. PICK x \in Seq(T) : x = FlatMap(g, s)
  BY FlatMapType
<1>2. <<>> \in Q
  <2>1. Cat(s, <<>>) = s /\ Cat(x, <<>>) = x /\ <<>> \in Seq(S)
    BY EmptySeq, ConcatEmptySeq DEF Cat
  <2> QED
    BY <1>1, <2>1, FlatMapEmpty
<1>3. ASSUME NEW t \in Seq(S), NEW e \in S, t \in Q
      PROVE  Append(t, e) \in Q
  <2>1. PICK y \in Seq(T), v \in Seq(T) : y = FlatMap(g, t) /\ v = g[e]
    BY FlatMapType
  <2>2. PICK u \in Seq(S) : u = Cat(s, t)
    BY CatClosed
  <2>3. Cat(s, Append(t, e)) = Append(u, e)
    <3>1. PICK l \in Seq(S) : l = <<e>> /\ Append(t, e) = Cat(t, l) /\ Append(u, e) = Cat(u, l)
      BY AppendIsCat
    <3>2. Cat(s, Cat(t, l)) = Cat(Cat(s, t), l)
      BY CatAssociative
    <3> QED
      BY <2>2, <3>1, <3>2
  <2>4. /\ FlatMap(g, Append(u, e)) = Cat(FlatMap(g, u), v)
        /\ FlatMap(g, Append(t, e)) = Cat(y, v)
    BY <2>1, FlatMapAppend
  <2>5. FlatMap(g, u) = Cat(x, y)
    BY <1>1, <1>3, <2>1, <2>2
  <2>6. Cat(Cat(x, y), v) = Cat(x, Cat(y, v))
    BY CatAssociative
  <2>7. Append(t, e) \in Seq(S)
    BY AppendProperties
  <2> QED
    BY <1>1, <2>3, <2>4, <2>5, <2>6, <2>7
<1> HIDE DEF Q
<1>4. \A t \in Seq(S) : t \in Q
  BY <1>2, <1>3, SequenceInduction
<1> QED
  BY <1>4 DEF Q

LEMMA ToSetAppend ==
    ASSUME NEW T, NEW s \in Seq(T), NEW e \in T
    PROVE  ToSet(Append(s, e)) = ToSet(s) \cup {e}
<1>1. PICK n \in Nat : n = Len(s) /\ DOMAIN s = 1..n
  BY LenProperties
<1>2. /\ DOMAIN Append(s, e) = 1..(n + 1) /\ Append(s, e)[n + 1] = e
      /\ \A i \in 1..n : Append(s, e)[i] = s[i]
  BY <1>1, AppendProperties, LenProperties
<1> QED
  BY <1>1, <1>2 DEF ToSet

(***************************************************************************)
(* FoldLeft of the community modules.  It is defined by a recursive        *)
(* function on the sets of indices; that this function exists is shown by  *)
(* induction.                                                              *)
(***************************************************************************)
Fold(p, b, s) == FoldLeft(LAMBDA a, e : op(p, a, e), b, s)

-----------------------------------------------------------------------------
(* The index that FoldLeft takes out first, the greatest.                  *)
LEMMA MaxOfSet ==
    ASSUME NEW k \in Nat, NEW T, T \subseteq 1..k, T # {}
    PROVE  /\ Max(T) \in T
           /\ \A m \in T : m <= Max(T)
<1> DEFINE Back == {k - m : m \in T}
<1>1. Back \subseteq Nat /\ Back # {}
  <2>1. \A m \in T : k - m \in Nat /\ k - m \in Back
    OBVIOUS
  <2> QED
    BY <2>1
<1>2. PICK x \in Back : \A y \in Back : x <= y
  BY <1>1, LeastNatural
<1>3. k - x \in T /\ \A m \in T : k - x >= m
  BY <1>2
<1> QED
  BY <1>3 DEF Max

LEMMA MaxOfInterval ==
    ASSUME NEW k \in Nat
    PROVE  /\ Max(1..(k + 1)) = k + 1
           /\ (1..(k + 1)) \ {k + 1} = 1..k
<1>1. Max(1..(k + 1)) \in 1..(k + 1) /\ k + 1 <= Max(1..(k + 1))
  <2>1. 1..(k + 1) # {} /\ k + 1 \in 1..(k + 1) /\ k + 1 \in Nat
    OBVIOUS
  <2> QED
    BY <2>1, MaxOfSet
<1> QED
  BY <1>1

-----------------------------------------------------------------------------
(* g is the recursive function of FoldLeft for the first k elements of s.  *)
Unfolds(g, p, b, s, k) ==
    g = [T \in SUBSET (1..k) |->
           IF T = {} THEN b ELSE op(p, g[T \ {Max(T)}], s[Max(T)])]

LEMMA UnfoldsValue ==
    ASSUME NEW p, NEW b, NEW s, NEW k \in Nat, NEW g, Unfolds(g, p, b, s, k)
    PROVE  /\ g[{}] = b
           /\ \A T \in SUBSET (1..k) : T # {} =>
                g[T] = op(p, g[T \ {Max(T)}], s[Max(T)])
<1>1. {} \in SUBSET (1..k)
  OBVIOUS
<1> QED
  BY <1>1 DEF Unfolds

LEMMA UnfoldsLast ==
    ASSUME NEW p, NEW b, NEW s, NEW k \in Nat, NEW g, Unfolds(g, p, b, s, k),
           NEW n \in Nat, n + 1 <= k
    PROVE  g[1..(n + 1)] = op(p, g[1..n], s[n + 1])
<1>1. Max(1..(n + 1)) = n + 1 /\ (1..(n + 1)) \ {n + 1} = 1..n
  BY MaxOfInterval
<1>2. 1..(n + 1) \in SUBSET (1..k) /\ 1..(n + 1) # {}
  <2>1. n + 1 \in 1..(n + 1)
    OBVIOUS
  <2> QED
    BY <2>1
<1>3. PICK T \in SUBSET (1..k) : T = 1..(n + 1)
  BY <1>2
<1>4. T # {}
  BY <1>2, <1>3
<1>5. g[T] = op(p, g[T \ {Max(T)}], s[Max(T)])
  BY <1>4, UnfoldsValue
<1> QED
  BY <1>1, <1>3, <1>5

LEMMA UnfoldsOnce ==
    ASSUME NEW p, NEW b, NEW s, NEW k \in Nat, NEW g, Unfolds(g, p, b, s, k)
    PROVE  \E h : Unfolds(h, p, b, s, k + 1)
<1> DEFINE h == [T \in SUBSET (1..(k + 1)) |->
                   IF k + 1 \in T THEN op(p, g[T \ {k + 1}], s[k + 1]) ELSE g[T]]
<1>1. ASSUME NEW T \in SUBSET (1..(k + 1))
      PROVE  h[T] = IF T = {} THEN b ELSE op(p, h[T \ {Max(T)}], s[Max(T)])
  <2>1. CASE k + 1 \in T
    <3>1. Max(T) = k + 1
      <4>1. k + 1 \in Nat /\ T \subseteq 1..(k + 1) /\ T # {}
        BY <2>1
      <4>2. Max(T) \in T /\ k + 1 <= Max(T)
        BY <2>1, <4>1, MaxOfSet
      <4>3. \A x \in 1..(k + 1) : k + 1 <= x => x = k + 1
        OBVIOUS
      <4> QED
        BY <4>1, <4>2, <4>3
    <3>2. T \ {k + 1} \in SUBSET (1..k) /\ T \ {k + 1} \in SUBSET (1..(k + 1))
      OBVIOUS
    <3>3. h[T \ {k + 1}] = g[T \ {k + 1}]
      BY <3>2
    <3>4. h[T] = op(p, g[T \ {k + 1}], s[k + 1])
      BY <2>1
    <3> QED
      BY <2>1, <3>1, <3>3, <3>4
  <2>2. CASE k + 1 \notin T
    <3>1. T \in SUBSET (1..k) /\ h[T] = g[T]
      BY <2>2
    <3>2. CASE T = {}
      BY <3>1, <3>2 DEF Unfolds
    <3>3. CASE T # {}
      <4>1. Max(T) \in T
        BY <3>1, <3>3, MaxOfSet
      <4>2. T \ {Max(T)} \in SUBSET (1..(k + 1)) /\ k + 1 \notin T \ {Max(T)}
        BY <2>2
      <4>3. h[T \ {Max(T)}] = g[T \ {Max(T)}]
        BY <4>2
      <4>4. g[T] = op(p, g[T \ {Max(T)}], s[Max(T)])
        BY <3>1, <3>3 DEF Unfolds
      <4> QED
        BY <3>1, <3>3, <4>3, <4>4
    <3> QED
      BY <3>2, <3>3
  <2> QED
    BY <2>1, <2>2
<1>2. Unfolds(h, p, b, s, k + 1)
  BY <1>1 DEF Unfolds
<1> QED
  BY <1>2

LEMMA UnfoldsExists ==
    ASSUME NEW p, NEW b, NEW s, NEW k \in Nat
    PROVE  \E g : Unfolds(g, p, b, s, k)
<1> DEFINE Bad == {n \in Nat : ~ \E g : Unfolds(g, p, b, s, n)}
<1> SUFFICES ASSUME Bad # {} PROVE FALSE
  OBVIOUS
<1>1. PICK n \in Bad : \A m \in Bad : n <= m
  BY LeastNatural
<1>2. CASE n = 0
  <2> DEFINE g == [T \in SUBSET (1..0) |-> b]
  <2>1. \A T \in SUBSET (1..0) : T = {}
    OBVIOUS
  <2>2. Unfolds(g, p, b, s, 0)
    BY <2>1 DEF Unfolds
  <2> QED
    BY <1>2, <2>2
<1>3. CASE n # 0
  <2>1. n - 1 \in Nat /\ n - 1 \notin Bad /\ (n - 1) + 1 = n
    BY <1>1, <1>3
  <2>2. PICK g : Unfolds(g, p, b, s, n - 1)
    BY <2>1
  <2>3. \E h : Unfolds(h, p, b, s, (n - 1) + 1)
    BY <2>1, <2>2, UnfoldsOnce
  <2> QED
    BY <2>1, <2>3
<1> QED
  BY <1>2, <1>3

LEMMA UnfoldsAlike ==
    ASSUME NEW p, NEW b, NEW s, NEW t, NEW k \in Nat, NEW l \in Nat,
           NEW g, NEW h, Unfolds(g, p, b, s, k), Unfolds(h, p, b, t, l),
           NEW n \in Nat, n + 1 <= k, n + 1 <= l, g[1..n] = h[1..n],
           s[n + 1] = t[n + 1]
    PROVE  g[1..(n + 1)] = h[1..(n + 1)]
<1>1. g[1..(n + 1)] = op(p, g[1..n], s[n + 1])
  BY UnfoldsLast
<1>2. h[1..(n + 1)] = op(p, h[1..n], t[n + 1])
  BY UnfoldsLast
<1> QED
  BY <1>1, <1>2

(* Two such functions agree on the indices they share.                     *)
LEMMA UnfoldsAgree ==
    ASSUME NEW p, NEW b, NEW s, NEW t, NEW k \in Nat, NEW l \in Nat,
           NEW g, NEW h, Unfolds(g, p, b, s, k), Unfolds(h, p, b, t, l),
           NEW n \in Nat, n <= k, n <= l, \A i \in 1..n : s[i] = t[i]
    PROVE  g[1..n] = h[1..n]
<1> DEFINE Bad == {m \in 0..n : g[1..m] # h[1..m]}
<1> SUFFICES ASSUME Bad # {} PROVE FALSE
  OBVIOUS
<1>1. PICK m \in Bad : \A j \in Bad : m <= j
  <2>1. Bad \subseteq Nat
    OBVIOUS
  <2> HIDE DEF Bad
  <2> QED
    BY <2>1, LeastNatural
<1>2. CASE m = 0
  <2>1. 1..m = {} /\ 1..m \in SUBSET (1..k) /\ 1..m \in SUBSET (1..l)
    BY <1>2
  <2> QED
    BY <2>1 DEF Unfolds
<1>3. CASE m # 0
  <2>1. m - 1 \in 0..n /\ m - 1 \notin Bad /\ (m - 1) + 1 = m /\ m - 1 \in Nat
    BY <1>1, <1>3
  <2>2. m \in 1..n /\ m <= k /\ m <= l /\ s[m] = t[m]
    BY <1>3
  <2>3. PICK j \in Nat : j = m - 1 /\ j + 1 = m
    BY <2>1
  <2>4. g[1..j] = h[1..j] /\ j + 1 <= k /\ j + 1 <= l /\ s[j + 1] = t[j + 1]
    BY <2>1, <2>2, <2>3
  <2> HIDE DEF Bad
  <2>5. g[1..(j + 1)] = h[1..(j + 1)]
    BY <2>4, UnfoldsAlike
  <2> QED
    BY <2>3, <2>5 DEF Bad
<1> QED
  BY <1>2, <1>3

(* The fold is the value of any such function on all the indices.          *)
LEMMA FoldUnfolds ==
    ASSUME NEW p, NEW b, NEW S, NEW s \in Seq(S)
    PROVE  \E g : Unfolds(g, p, b, s, Len(s)) /\ Fold(p, b, s) = g[1..Len(s)]
<1>1. DOMAIN s = 1..Len(s) /\ Len(s) \in Nat
  BY LenProperties
<1> DEFINE it == CHOOSE g : Unfolds(g, p, b, s, Len(s))
<1>2. Unfolds(it, p, b, s, Len(s))
  BY <1>1, UnfoldsExists
<1>3. Fold(p, b, s) = it[1..Len(s)]
  BY <1>1 DEF Fold, FoldLeft, MapThenFoldSet, Unfolds
<1> QED
  BY <1>2, <1>3

-----------------------------------------------------------------------------
(* What a fold computes.                                                   *)
THEOREM FoldEmpty ==
    ASSUME NEW p, NEW b
    PROVE  Fold(p, b, <<>>) = b
<1>1. PICK g : Unfolds(g, p, b, <<>>, Len(<<>>)) /\ Fold(p, b, <<>>) = g[1..Len(<<>>)]
  BY FoldUnfolds, EmptySeq
<1>2. Len(<<>>) = 0 /\ 1..0 = {} /\ {} \in SUBSET (1..0)
  OBVIOUS
<1> QED
  BY <1>1, <1>2 DEF Unfolds

THEOREM FoldAppend ==
    ASSUME NEW p, NEW b, NEW S, NEW s \in Seq(S), NEW e \in S
    PROVE  Fold(p, b, Append(s, e)) = op(p, Fold(p, b, s), e)
<1> DEFINE n == Len(s)
           t == Append(s, e)
<1>1. /\ n \in Nat /\ t \in Seq(S) /\ Len(t) = n + 1
      /\ t[n + 1] = e /\ \A i \in 1..n : s[i] = t[i]
  BY AppendProperties, LenProperties
<1>2. PICK g : Unfolds(g, p, b, s, n) /\ Fold(p, b, s) = g[1..n]
  BY FoldUnfolds
<1>3. PICK h : Unfolds(h, p, b, t, n + 1) /\ Fold(p, b, t) = h[1..(n + 1)]
  BY <1>1, FoldUnfolds
<1> HIDE DEF n, t
<1>4. g[1..n] = h[1..n]
  BY <1>1, <1>2, <1>3, UnfoldsAgree
<1>5. h[1..(n + 1)] = op(p, h[1..n], t[n + 1])
  BY <1>1, <1>3, UnfoldsLast
<1> QED
  BY <1>1, <1>2, <1>3, <1>4, <1>5 DEF t

(* What the step preserves, the fold preserves.                            *)
THEOREM FoldType ==
    ASSUME NEW p, NEW R, NEW b \in R, NEW S,
           \A a \in R, e \in S : op(p, a, e) \in R
    PROVE  \A s \in Seq(S) : Fold(p, b, s) \in R
<1> DEFINE Q == {s \in Seq(S) : Fold(p, b, s) \in R}
<1>1. <<>> \in Q
  BY FoldEmpty, EmptySeq
<1>2. ASSUME NEW s \in Seq(S), NEW e \in S, s \in Q
      PROVE  Append(s, e) \in Q
  BY <1>2, FoldAppend, AppendProperties
<1> HIDE DEF Q
<1>3. \A s \in Seq(S) : s \in Q
  BY <1>1, <1>2, SequenceInduction
<1> QED
  BY <1>3 DEF Q

(* A fold over a concatenation goes on from the fold over its first part.  *)
THEOREM FoldConcat ==
    ASSUME NEW p, NEW b, NEW S, NEW s \in Seq(S)
    PROVE  \A t \in Seq(S) : Fold(p, b, s \o t) = Fold(p, Fold(p, b, s), t)
<1> DEFINE Q == {t \in Seq(S) : Fold(p, b, s \o t) = Fold(p, Fold(p, b, s), t)}
<1>1. <<>> \in Q
  BY FoldEmpty, EmptySeq, ConcatEmptySeq
<1>2. ASSUME NEW t \in Seq(S), NEW e \in S, t \in Q
      PROVE  Append(t, e) \in Q
  <2>1. /\ s \o t \in Seq(S)
        /\ s \o Append(t, e) = Append(s \o t, e)
    BY ConcatProperties, AppendIsConcat, ConcatAssociative
  <2>2. Fold(p, b, Append(s \o t, e)) = op(p, Fold(p, b, s \o t), e)
    <3>1. PICK u \in Seq(S) : u = s \o t
      BY <2>1
    <3>2. Fold(p, b, Append(u, e)) = op(p, Fold(p, b, u), e)
      BY FoldAppend
    <3> QED
      BY <3>1, <3>2
  <2>3. Fold(p, Fold(p, b, s), Append(t, e)) = op(p, Fold(p, Fold(p, b, s), t), e)
    BY FoldAppend
  <2>4. Append(t, e) \in Seq(S)
    BY AppendProperties
  <2> QED
    BY <1>2, <2>1, <2>2, <2>3, <2>4
<1> HIDE DEF Q
<1>3. \A t \in Seq(S) : t \in Q
  BY <1>1, <1>2, SequenceInduction
<1> QED
  BY <1>3 DEF Q

(* Two folds over one sequence stay related when a step keeps them so.     *)
THEOREM FoldRelated ==
    ASSUME NEW p, NEW q, NEW S, NEW R, NEW b, NEW c, <<b, c>> \in R,
           \A r \in R, e \in S : <<op(p, r[1], e), op(q, r[2], e)>> \in R
    PROVE  \A s \in Seq(S) : <<Fold(p, b, s), Fold(q, c, s)>> \in R
<1> DEFINE Q == {s \in Seq(S) : <<Fold(p, b, s), Fold(q, c, s)>> \in R}
<1>1. <<>> \in Q
  BY FoldEmpty, EmptySeq
<1>2. ASSUME NEW s \in Seq(S), NEW e \in S, s \in Q
      PROVE  Append(s, e) \in Q
  <2>1. /\ Fold(p, b, Append(s, e)) = op(p, Fold(p, b, s), e)
        /\ Fold(q, c, Append(s, e)) = op(q, Fold(q, c, s), e)
    BY FoldAppend
  <2>2. PICK r \in R : r = <<Fold(p, b, s), Fold(q, c, s)>>
    BY <1>2
  <2>3. <<op(p, r[1], e), op(q, r[2], e)>> \in R
    OBVIOUS
  <2>4. Append(s, e) \in Seq(S)
    BY AppendProperties
  <2> QED
    BY <2>1, <2>2, <2>3, <2>4
<1> HIDE DEF Q
<1>3. \A s \in Seq(S) : s \in Q
  BY <1>1, <1>2, SequenceInduction
<1> QED
  BY <1>3 DEF Q
=============================================================================
