------------------------- MODULE ThreadQueueLemmas --------------------------
(***************************************************************************)
(* What the operators of ThreadQueues return, for every queue.              *)
(***************************************************************************)
EXTENDS ThreadQueues, Integers, SequencesExt, TLAPS, WellFoundedInduction, SequenceTheorems, FiniteSetTheorems

(* Induction without a predicate as a parameter: over the set of what has   *)
(* the property, from the least number that would not be in it.             *)
LEMMA LeastNumber == ASSUME NEW T \in SUBSET Nat, T # {} PROVE \E m \in T : \A k \in T : m <= k
<1>1. \E x \in T : \A y \in T : ~ (<<y, x>> \in OpToRel(<, Nat))
  BY WFMin, NatLessThanWellFounded
<1>2. \A x, y \in Nat : <<y, x>> \in OpToRel(<, Nat) <=> y < x
  BY DEF OpToRel
<1>3. PICK x \in T : \A y \in T : ~ (y < x)
  BY <1>1, <1>2
<1>4. \A k \in T : x <= k
  BY <1>3
<1> QED BY <1>4

LEMMA NumberInduction ==
  ASSUME NEW T, 0 \in T, \A n \in Nat : n \in T => n + 1 \in T
  PROVE  Nat \subseteq T
<1> SUFFICES ASSUME Nat \ T # {} PROVE FALSE
  OBVIOUS
<1>1. PICK m \in Nat \ T : \A k \in Nat \ T : m <= k
  BY LeastNumber
<1>2. m - 1 \in Nat
  BY <1>1
<1>3. m - 1 \in T
  BY <1>1, <1>2
<1> QED BY <1>1, <1>2, <1>3

LEMMA QueueInduction ==
  ASSUME NEW S, NEW T, <<>> \in T,
         \A q \in Seq(S), e \in S : q \in T => Append(q, e) \in T
  PROVE  Seq(S) \subseteq T
<1> DEFINE N == {n \in Nat : \A q \in Seq(S) : Len(q) = n => q \in T}
<1>1. 0 \in N
  BY EmptySeq
<1>2. ASSUME NEW n \in Nat, n \in N PROVE n + 1 \in N
  <2> SUFFICES ASSUME NEW q \in Seq(S), Len(q) = n + 1 PROVE q \in T
    OBVIOUS
  <2>1. q # <<>>
    BY EmptySeq
  <2>2. PICK r \in Seq(S), e \in S : q = Append(r, e)
    BY <2>1, SequenceEmptyOrAppend
  <2>3. Len(r) = n
    BY <2>2, AppendProperties, LenProperties
  <2> QED BY <1>2, <2>2, <2>3
<1>3. Nat \subseteq N
  <2> HIDE DEF N
  <2> QED BY <1>1, <1>2, NumberInduction
<1> QED BY <1>3, LenProperties

-----------------------------------------------------------------------------
LEMMA TimesType ==
  ASSUME NEW S, NEW q \in Seq(S), NEW t
  PROVE  Times(q, t) \in Nat /\ IsFiniteSet({i \in DOMAIN q : q[i] = t})
<1>1. DOMAIN q = 1 .. Len(q) /\ Len(q) \in Nat
  BY LenProperties
<1>2. IsFiniteSet(1 .. Len(q))
  BY <1>1, FS_Interval
<1>3. IsFiniteSet({i \in DOMAIN q : q[i] = t})
  BY <1>1, <1>2, FS_Subset
<1> QED BY <1>3, FS_CardinalityType DEF Times

LEMMA TimesEmpty == \A t : Times(<<>>, t) = 0
<1>1. \A t : {i \in DOMAIN <<>> : <<>>[i] = t} = {}
  OBVIOUS
<1> QED BY <1>1, FS_EmptySet DEF Times

LEMMA TimesAppend ==
  ASSUME NEW S, NEW q \in Seq(S), NEW e \in S, NEW t
  PROVE  /\ e = t => Times(Append(q, e), t) = Times(q, t) + 1
         /\ e # t => Times(Append(q, e), t) = Times(q, t)
<1> DEFINE A == {i \in DOMAIN q : q[i] = t}
           B == {i \in DOMAIN Append(q, e) : Append(q, e)[i] = t}
<1>1. /\ DOMAIN q = 1 .. Len(q) /\ Len(q) \in Nat /\ DOMAIN Append(q, e) = 1 .. (Len(q) + 1)
      /\ \A i \in 1 .. Len(q) : Append(q, e)[i] = q[i]
      /\ Append(q, e)[Len(q) + 1] = e
  BY LenProperties, AppendProperties
<1>2. /\ e = t => B = A \cup {Len(q) + 1}
      /\ e # t => B = A
  BY <1>1
<1>3. Len(q) + 1 \notin A
  BY <1>1
<1>4. IsFiniteSet(A) /\ Cardinality(A) \in Nat
  BY TimesType DEF Times
<1>5. Cardinality(A \cup {Len(q) + 1}) = Cardinality(A) + 1
  BY <1>3, <1>4, FS_AddElement
<1>6. Times(Append(q, e), t) = Cardinality(B) /\ Times(q, t) = Cardinality(A)
  BY DEF Times
<1> HIDE DEF A, B
<1> QED BY <1>2, <1>5, <1>6

LEMMA ConcatAppend ==
  ASSUME NEW S, NEW q \in Seq(S), NEW r \in Seq(S), NEW e \in S
  PROVE  q \o Append(r, e) = Append(q \o r, e)
<1>1. /\ Append(r, e) = r \o <<e>> /\ Append(q \o r, e) = (q \o r) \o <<e>>
      /\ <<e>> \in Seq(S)
  BY AppendIsConcat, ConcatProperties
<1> QED BY <1>1, ConcatAssociative

LEMMA TimesConcat ==
  ASSUME NEW S, NEW q \in Seq(S), NEW r \in Seq(S), NEW t
  PROVE  Times(q \o r, t) = Times(q, t) + Times(r, t)
<1> DEFINE T == {x \in Seq(S) : Times(q \o x, t) = Times(q, t) + Times(x, t)}
<1>1. <<>> \in T
  <2>1. q \o <<>> = q /\ <<>> \in Seq(S) /\ Times(<<>>, t) = 0
    BY TimesEmpty, ConcatEmptySeq, EmptySeq
  <2>2. Times(q, t) \in Nat
    BY TimesType
  <2> QED BY <2>1, <2>2
<1>2. ASSUME NEW x \in Seq(S), NEW e \in S, x \in T PROVE Append(x, e) \in T
  <2>1. q \o Append(x, e) = Append(q \o x, e)
    BY ConcatAppend
  <2>2. q \o x \in Seq(S)
    BY ConcatProperties
  <2>3. Append(x, e) \in Seq(S)
    BY AppendProperties
  <2>4. /\ e = t => Times(Append(q \o x, e), t) = Times(q \o x, t) + 1
        /\ e # t => Times(Append(q \o x, e), t) = Times(q \o x, t)
    BY <2>2, TimesAppend
  <2>5. /\ e = t => Times(Append(x, e), t) = Times(x, t) + 1
        /\ e # t => Times(Append(x, e), t) = Times(x, t)
    BY TimesAppend
  <2>6. Times(q, t) \in Nat /\ Times(x, t) \in Nat
    BY TimesType
  <2>7. Times(q \o x, t) = Times(q, t) + Times(x, t)
    BY <1>2
  <2>8. Times(q \o Append(x, e), t) = Times(q, t) + Times(Append(x, e), t)
    BY <2>1, <2>4, <2>5, <2>6, <2>7
  <2> QED BY <2>3, <2>8
<1>3. Seq(S) \subseteq T
  <2> HIDE DEF T
  <2> QED BY <1>1, <1>2, QueueInduction
<1> QED BY <1>3

LEMMA TimesOne == \A e, t : Times(<<e>>, t) = IF e = t THEN 1 ELSE 0
<1> SUFFICES ASSUME NEW e, NEW t PROVE Times(<<e>>, t) = IF e = t THEN 1 ELSE 0
  OBVIOUS
<1> DEFINE A == {i \in DOMAIN <<e>> : <<e>>[i] = t}
<1>1. /\ e = t => A = {1}
      /\ e # t => A = {}
  OBVIOUS
<1>2. Cardinality({1}) = 1 /\ Cardinality({}) = 0
  BY FS_Singleton, FS_EmptySet
<1>3. Times(<<e>>, t) = Cardinality(A)
  BY DEF Times
<1> HIDE DEF A
<1> QED BY <1>1, <1>2, <1>3

\* What the first thread of a queue leaves behind.
LEMMA TimesHeadTail ==
  ASSUME NEW S, NEW q \in Seq(S), q # <<>>, NEW t
  PROVE  /\ Head(q) \in S /\ Tail(q) \in Seq(S)
         /\ Head(q) = t => Times(q, t) = Times(Tail(q), t) + 1
         /\ Head(q) # t => Times(q, t) = Times(Tail(q), t)
<1>1. Head(q) \in S /\ Tail(q) \in Seq(S)
  BY HeadTailProperties
<1>2. q = <<Head(q)>> \o Tail(q) /\ <<Head(q)>> \in Seq(S)
  BY <1>1
<1>3. Times(<<Head(q)>>, t) = IF Head(q) = t THEN 1 ELSE 0
  BY TimesOne
<1>4. Times(q, t) = Times(<<Head(q)>>, t) + Times(Tail(q), t)
  BY <1>1, <1>2, TimesConcat
<1>5. Times(Tail(q), t) \in Nat
  BY <1>1, TimesType
<1> QED BY <1>1, <1>3, <1>4, <1>5

LEMMA TimesZero ==
  ASSUME NEW S, NEW q \in Seq(S), NEW t
  PROVE  Times(q, t) = 0 <=> \A i \in 1 .. Len(q) : q[i] # t
<1>1. DOMAIN q = 1 .. Len(q)
  BY LenProperties
<1>2. {i \in DOMAIN q : q[i] = t} = {} <=> \A i \in 1 .. Len(q) : q[i] # t
  BY <1>1
<1>3. Times(q, t) = 0 <=> {i \in DOMAIN q : q[i] = t} = {}
  BY TimesType, FS_EmptySet DEF Times
<1> QED BY <1>2, <1>3

-----------------------------------------------------------------------------
\* kept is the function that the definition of Kept chooses.
IsKept(kept, q, K) ==
  kept = [n \in 0 .. Len(q) |->
            IF n = 0 THEN <<>> ELSE IF q[n] \in K THEN Append(kept[n - 1], q[n]) ELSE kept[n - 1]]

LEMMA KeptExists == ASSUME NEW S, NEW K PROVE \A q \in Seq(S) : \E f : IsKept(f, q, K)
<1> DEFINE T == {q \in Seq(S) : \E f : IsKept(f, q, K)}
<1>1. <<>> \in T
  <2>1. Len(<<>>) = 0 /\ <<>> \in Seq(S)
    BY EmptySeq
  <2>2. IsKept([n \in 0 .. 0 |-> <<>>], <<>>, K)
    BY <2>1 DEF IsKept
  <2> QED BY <2>1, <2>2
<1>2. ASSUME NEW q \in Seq(S), NEW e \in S, q \in T PROVE Append(q, e) \in T
  <2>1. PICK f : IsKept(f, q, K)
    BY <1>2
  <2> DEFINE N == Len(q)
             r == Append(q, e)
             g == [n \in 0 .. N + 1 |->
                     IF n = N + 1 THEN (IF e \in K THEN Append(f[N], e) ELSE f[N]) ELSE f[n]]
  <2>2. /\ N \in Nat /\ Len(r) = N + 1 /\ r \in Seq(S) /\ r[N + 1] = e
        /\ \A n \in 1 .. N : r[n] = q[n]
    BY AppendProperties, LenProperties
  <2>3. \A n \in 0 .. N :
          f[n] = IF n = 0 THEN <<>> ELSE IF q[n] \in K THEN Append(f[n - 1], q[n]) ELSE f[n - 1]
    BY <2>1, <2>2 DEF IsKept
  <2> HIDE DEF N, r
  <2>4. \A n \in 0 .. N : g[n] = f[n] /\ n # N + 1
    BY <2>2
  <2>5. g[N + 1] = IF e \in K THEN Append(f[N], e) ELSE f[N]
    BY <2>2
  <2>6. g = [n \in 0 .. N + 1 |-> g[n]]
    OBVIOUS
  <2> HIDE DEF g
  <2>7. \A n \in 0 .. N + 1 :
          g[n] = IF n = 0 THEN <<>> ELSE IF r[n] \in K THEN Append(g[n - 1], r[n]) ELSE g[n - 1]
    <3> SUFFICES ASSUME NEW n \in 0 .. N + 1
                 PROVE  g[n] = IF n = 0 THEN <<>> ELSE IF r[n] \in K THEN Append(g[n - 1], r[n]) ELSE g[n - 1]
      OBVIOUS
    <3>1. CASE n = N + 1
      <4>1. n # 0 /\ n - 1 = N /\ N \in 0 .. N
        BY <2>2, <3>1
      <4> QED BY <2>2, <2>4, <2>5, <3>1, <4>1
    <3>2. CASE n = 0
      BY <2>2, <2>3, <2>4, <3>2
    <3>3. CASE n \in 1 .. N
      <4>1. n \in 0 .. N /\ n - 1 \in 0 .. N /\ n # 0
        BY <2>2, <3>3
      <4>2. g[n] = f[n] /\ g[n - 1] = f[n - 1] /\ r[n] = q[n]
        BY <2>2, <2>4, <3>3, <4>1
      <4> QED BY <2>3, <4>1, <4>2
    <3> QED BY <2>2, <3>1, <3>2, <3>3
  <2>8. IsKept(g, r, K)
    BY <2>2, <2>6, <2>7 DEF IsKept
  <2> QED BY <2>2, <2>8 DEF r
<1>3. Seq(S) \subseteq T
  <2> HIDE DEF T
  <2> QED BY <1>1, <1>2, QueueInduction
<1> QED BY <1>3

LEMMA KeptUnique ==
  ASSUME NEW S, NEW K, NEW q \in Seq(S), NEW f, NEW g, IsKept(f, q, K), IsKept(g, q, K)
  PROVE  f[Len(q)] = g[Len(q)]
<1> DEFINE T == {n \in Nat : n <= Len(q) => f[n] = g[n]}
<1>1. Len(q) \in Nat
  BY LenProperties
<1>2. 0 \in T
  BY <1>1 DEF IsKept
<1>3. ASSUME NEW n \in Nat, n \in T PROVE n + 1 \in T
  <2> SUFFICES ASSUME n + 1 <= Len(q) PROVE f[n + 1] = g[n + 1]
    BY <1>3
  <2>1. n + 1 \in 0 .. Len(q) /\ n + 1 # 0 /\ (n + 1) - 1 = n /\ f[n] = g[n]
    BY <1>1, <1>3
  <2>2. /\ f[n + 1] = IF q[n + 1] \in K THEN Append(f[n], q[n + 1]) ELSE f[n]
        /\ g[n + 1] = IF q[n + 1] \in K THEN Append(g[n], q[n + 1]) ELSE g[n]
    BY <2>1 DEF IsKept
  <2> QED BY <2>1, <2>2
<1>4. Nat \subseteq T
  <2> HIDE DEF T
  <2> QED BY <1>2, <1>3, NumberInduction
<1> QED BY <1>1, <1>4

LEMMA KeptIs ==
  ASSUME NEW S, NEW K, NEW q \in Seq(S), NEW f, IsKept(f, q, K)
  PROVE  Kept(q, K) = f[Len(q)]
<1> DEFINE g == CHOOSE h : IsKept(h, q, K)
<1>1. Kept(q, K) = g[Len(q)]
  BY DEF Kept, IsKept
<1>2. IsKept(g, q, K)
  OBVIOUS
<1> HIDE DEF g
<1> QED BY <1>1, <1>2, KeptUnique

\* The two equations Kept stands for.
LEMMA KeptEmpty == \A K : Kept(<<>>, K) = <<>>
<1> SUFFICES ASSUME NEW K PROVE Kept(<<>>, K) = <<>>
  OBVIOUS
<1>1. <<>> \in Seq({}) /\ Len(<<>>) = 0
  BY EmptySeq
<1>2. IsKept([n \in 0 .. 0 |-> <<>>], <<>>, K)
  BY <1>1 DEF IsKept
<1>3. Kept(<<>>, K) = [n \in 0 .. 0 |-> <<>>][0]
  BY <1>1, <1>2, KeptIs
<1> QED BY <1>3

LEMMA KeptAppend ==
  ASSUME NEW S, NEW K, NEW q \in Seq(S), NEW e \in S
  PROVE  Kept(Append(q, e), K) = IF e \in K THEN Append(Kept(q, K), e) ELSE Kept(q, K)
<1> DEFINE N == Len(q)
           r == Append(q, e)
<1>1. /\ N \in Nat /\ Len(r) = N + 1 /\ r \in Seq(S) /\ r[N + 1] = e
      /\ \A n \in 1 .. N : r[n] = q[n]
  BY AppendProperties, LenProperties
<1>2. PICK g : IsKept(g, r, K)
  BY <1>1, KeptExists
<1> DEFINE f == [n \in 0 .. N |-> g[n]]
<1>3. Kept(r, K) = g[N + 1]
  BY <1>1, <1>2, KeptIs
<1> HIDE DEF N, r
<1>4. \A n \in 0 .. N + 1 :
        g[n] = IF n = 0 THEN <<>> ELSE IF r[n] \in K THEN Append(g[n - 1], r[n]) ELSE g[n - 1]
  BY <1>1, <1>2 DEF IsKept
<1>5. f = [n \in 0 .. N |->
             IF n = 0 THEN <<>> ELSE IF q[n] \in K THEN Append(f[n - 1], q[n]) ELSE f[n - 1]]
  <2> SUFFICES ASSUME NEW n \in 0 .. N
               PROVE  f[n] = IF n = 0 THEN <<>> ELSE IF q[n] \in K THEN Append(f[n - 1], q[n]) ELSE f[n - 1]
    OBVIOUS
  <2>1. CASE n = 0
    BY <1>1, <1>4, <2>1
  <2>2. CASE n # 0
    <3>1. n - 1 \in 0 .. N /\ n \in 0 .. N + 1 /\ n \in 1 .. N
      BY <1>1, <2>2
    <3>2. f[n] = g[n] /\ f[n - 1] = g[n - 1] /\ r[n] = q[n]
      BY <1>1, <3>1
    <3> QED BY <1>4, <2>2, <3>1, <3>2
  <2> QED BY <2>1, <2>2
<1>6. IsKept(f, q, K)
  BY <1>5 DEF IsKept, N
<1>7. Kept(q, K) = g[N]
  <2>1. Kept(q, K) = f[N]
    BY <1>6, KeptIs DEF N
  <2> QED BY <1>1, <2>1
<1>8. g[N + 1] = IF e \in K THEN Append(g[N], e) ELSE g[N]
  <2>1. N + 1 \in 0 .. N + 1 /\ N + 1 # 0 /\ (N + 1) - 1 = N
    BY <1>1
  <2> QED BY <1>1, <1>4, <2>1
<1> QED BY <1>3, <1>7, <1>8 DEF r

LEMMA KeptType == ASSUME NEW S, NEW K PROVE \A q \in Seq(S) : Kept(q, K) \in Seq(S)
<1> DEFINE T == {q \in Seq(S) : Kept(q, K) \in Seq(S)}
<1>1. <<>> \in T
  BY KeptEmpty, EmptySeq
<1>2. ASSUME NEW q \in Seq(S), NEW e \in S, q \in T PROVE Append(q, e) \in T
  BY <1>2, KeptAppend, AppendProperties
<1>3. Seq(S) \subseteq T
  <2> HIDE DEF T
  <2> QED BY <1>1, <1>2, QueueInduction
<1> QED BY <1>3

\* Of the threads in K none is lost and none is doubled, and no other is kept.
LEMMA TimesKept ==
  ASSUME NEW S, NEW K, NEW t
  PROVE  \A q \in Seq(S) : /\ t \in K => Times(Kept(q, K), t) = Times(q, t)
                           /\ t \notin K => Times(Kept(q, K), t) = 0
<1> DEFINE T == {q \in Seq(S) : /\ t \in K => Times(Kept(q, K), t) = Times(q, t)
                                /\ t \notin K => Times(Kept(q, K), t) = 0}
<1>1. <<>> \in T
  BY KeptEmpty, EmptySeq, TimesEmpty
<1>2. ASSUME NEW q \in Seq(S), NEW e \in S, q \in T PROVE Append(q, e) \in T
  <2>1. Append(q, e) \in Seq(S) /\ Kept(q, K) \in Seq(S)
    BY KeptType, AppendProperties
  <2>2. Kept(Append(q, e), K) = IF e \in K THEN Append(Kept(q, K), e) ELSE Kept(q, K)
    BY KeptAppend
  <2>3. /\ e = t => Times(Append(q, e), t) = Times(q, t) + 1
        /\ e # t => Times(Append(q, e), t) = Times(q, t)
    BY TimesAppend
  <2>4. /\ e = t => Times(Append(Kept(q, K), e), t) = Times(Kept(q, K), t) + 1
        /\ e # t => Times(Append(Kept(q, K), e), t) = Times(Kept(q, K), t)
    BY <2>1, TimesAppend
  <2> QED BY <1>2, <2>1, <2>2, <2>3, <2>4
<1>3. Seq(S) \subseteq T
  <2> HIDE DEF T
  <2> QED BY <1>1, <1>2, QueueInduction
<1> QED BY <1>3

-----------------------------------------------------------------------------
\* The same facts as sums, in which 1 stands for one thread added or taken.
One(e, t) == IF e = t THEN 1 ELSE 0

LEMMA OneType == \A e, t : One(e, t) \in Nat /\ One(e, e) = 1 /\ (e # t => One(e, t) = 0)
BY DEF One

LEMMA Appended ==
  ASSUME NEW S, NEW q \in Seq(S), NEW e \in S
  PROVE  /\ Append(q, e) \in Seq(S)
         /\ \A t : Times(Append(q, e), t) = Times(q, t) + One(e, t)
<1>1. Append(q, e) \in Seq(S)
  BY AppendProperties
<1>2. ASSUME NEW t PROVE Times(Append(q, e), t) = Times(q, t) + One(e, t)
  <2>1. Times(q, t) \in Nat
    BY TimesType
  <2>2. /\ e = t => Times(Append(q, e), t) = Times(q, t) + 1
        /\ e # t => Times(Append(q, e), t) = Times(q, t)
    BY TimesAppend
  <2> QED BY <2>1, <2>2 DEF One
<1> QED BY <1>1, <1>2

LEMMA Headed ==
  ASSUME NEW S, NEW q \in Seq(S), q # <<>>
  PROVE  /\ Head(q) \in S /\ Tail(q) \in Seq(S)
         /\ \A t : Times(q, t) = Times(Tail(q), t) + One(Head(q), t)
<1>1. Head(q) \in S /\ Tail(q) \in Seq(S)
  BY TimesHeadTail
<1>2. ASSUME NEW t PROVE Times(q, t) = Times(Tail(q), t) + One(Head(q), t)
  <2>1. Times(Tail(q), t) \in Nat
    BY <1>1, TimesType
  <2>2. /\ Head(q) = t => Times(q, t) = Times(Tail(q), t) + 1
        /\ Head(q) # t => Times(q, t) = Times(Tail(q), t)
    BY TimesHeadTail
  <2> QED BY <2>1, <2>2 DEF One
<1> QED BY <1>1, <1>2

LEMMA Joined ==
  ASSUME NEW S, NEW q \in Seq(S), NEW r \in Seq(S)
  PROVE  /\ q \o r \in Seq(S)
         /\ \A t : Times(q \o r, t) = Times(q, t) + Times(r, t)
<1>1. q \o r \in Seq(S)
  BY ConcatProperties
<1> QED BY <1>1, TimesConcat

\* The first threads of a queue and those behind them.
LEMMA Parted ==
  ASSUME NEW S, NEW q \in Seq(S), NEW n \in 0 .. Len(q)
  PROVE  /\ SubSeq(q, 1, n) \in Seq(S) /\ SubSeq(q, n + 1, Len(q)) \in Seq(S)
         /\ \A t : Times(SubSeq(q, 1, n), t) + Times(SubSeq(q, n + 1, Len(q)), t) = Times(q, t)
<1>1. Len(q) \in Nat /\ n \in Nat /\ n <= Len(q)
  BY LenProperties
<1>2. SubSeq(q, 1, n) \in Seq(S) /\ SubSeq(q, n + 1, Len(q)) \in Seq(S)
  BY <1>1, SubSeqProperties
<1>3. SubSeq(q, 1, n) \o SubSeq(q, n + 1, Len(q)) = q
  <2>1. SubSeq(q, 1, Len(q)) = q
    BY SubSeqFull
  <2>2. 1 \in 1 .. Len(q) + 1 /\ n \in 1 - 1 .. Len(q) /\ Len(q) \in n .. Len(q)
    BY <1>1
  <2>3. SubSeq(q, 1, n) \o SubSeq(q, n + 1, Len(q)) = SubSeq(q, 1, Len(q))
    BY <2>2, ConcatAdjacentSubSeq
  <2> QED BY <2>1, <2>3
<1>4. ASSUME NEW t
      PROVE  Times(SubSeq(q, 1, n), t) + Times(SubSeq(q, n + 1, Len(q)), t) = Times(q, t)
  <2>1. Times(SubSeq(q, 1, n) \o SubSeq(q, n + 1, Len(q)), t)
          = Times(SubSeq(q, 1, n), t) + Times(SubSeq(q, n + 1, Len(q)), t)
    BY <1>2, TimesConcat
  <2> QED BY <1>3, <2>1
<1> QED BY <1>2, <1>4

LEMMA Split ==
  ASSUME NEW S, NEW q \in Seq(S), NEW K
  PROVE  /\ Kept(q, K) \in Seq(S)
         /\ \A t : Times(Kept(q, K), t) = IF t \in K THEN Times(q, t) ELSE 0
<1>1. Kept(q, K) \in Seq(S)
  BY KeptType
<1> QED BY <1>1, TimesKept

\* A queue a thread does not stand in, and a queue nobody stands in.
LEMMA Absent ==
  ASSUME NEW S, NEW q \in Seq(S), NEW t
  PROVE  /\ Times(q, t) \in Nat
         /\ t \in ToSet(q) <=> Times(q, t) # 0
         /\ Contains(q, t) <=> Times(q, t) # 0
<1>1. DOMAIN q = 1 .. Len(q) /\ Times(q, t) \in Nat
  BY LenProperties, TimesType
<1> QED BY <1>1, TimesZero DEF ToSet, Contains

LEMMA Nobody ==
  ASSUME NEW S, NEW q \in Seq(S), \A t \in S : Times(q, t) = 0
  PROVE  q = <<>>
<1> SUFFICES ASSUME q # <<>> PROVE FALSE
  OBVIOUS
<1>1. Head(q) \in S /\ Times(q, Head(q)) = Times(Tail(q), Head(q)) + 1 /\ Tail(q) \in Seq(S)
  BY TimesHeadTail
<1>2. Times(Tail(q), Head(q)) \in Nat /\ Times(q, Head(q)) = 0
  BY <1>1, TimesType
<1> QED BY <1>1, <1>2

-----------------------------------------------------------------------------
\* The queues of the fair scheduler: q in the order of virtual run times.
Sorted(q, vr) == \A i, j \in DOMAIN q : i < j => vr[q[i]] <= vr[q[j]]

LEMMA BeforeType ==
  ASSUME NEW S, NEW q \in Seq(S), NEW t, NEW vr
  PROVE  Before(q, t, vr) \in 0 .. Len(q)
<1> DEFINE A == {i \in DOMAIN q : vr[q[i]] < vr[t]}
<1>1. DOMAIN q = 1 .. Len(q) /\ Len(q) \in Nat
  BY LenProperties
<1>2. IsFiniteSet(1 .. Len(q)) /\ Cardinality(1 .. Len(q)) = Len(q)
  BY <1>1, FS_Interval
<1>3. A \in SUBSET (1 .. Len(q))
  BY <1>1
<1>4. Cardinality(A) \in Nat /\ Cardinality(A) <= Cardinality(1 .. Len(q))
  <2> HIDE DEF A
  <2> QED BY <1>2, <1>3, FS_Subset, FS_CardinalityType
<1>5. Before(q, t, vr) = Cardinality(A)
  BY DEF Before
<1> HIDE DEF A
<1> QED BY <1>1, <1>2, <1>4, <1>5

\* In a queue in order, those before the place of t are the first ones.
LEMMA BeforeIs ==
  ASSUME NEW S, NEW q \in Seq(S), NEW t \in S, NEW vr \in [S -> Int], Sorted(q, vr)
  PROVE  \A i \in 1 .. Len(q) : vr[q[i]] < vr[t] <=> i <= Before(q, t, vr)
<1> DEFINE N == Len(q)
           A == {i \in DOMAIN q : vr[q[i]] < vr[t]}
           T == {k \in 1 .. N + 1 : k \notin A}
<1>1. DOMAIN q = 1 .. N /\ N \in Nat /\ \A i \in 1 .. N : q[i] \in S
  BY LenProperties, ElementOfSeq
<1>2. N + 1 \in T
  BY <1>1
<1>3. T \in SUBSET Nat
  BY <1>1
<1>4. PICK m \in T : \A k \in T : m <= k
  <2> HIDE DEF T
  <2> QED BY <1>2, <1>3, LeastNumber
<1>5. m \in 1 .. N + 1 /\ m \notin A
  BY <1>4
<1>6. \A i \in 1 .. N : i < m => i \in A
  BY <1>1, <1>4
<1>7. \A i \in 1 .. N : i >= m => i \notin A
  <2> SUFFICES ASSUME NEW i \in 1 .. N, i > m PROVE i \notin A
    BY <1>1, <1>5
  <2>1. m \in 1 .. N /\ m < i
    BY <1>1, <1>5
  <2>2. vr[q[m]] <= vr[q[i]]
    BY <1>1, <2>1 DEF Sorted
  <2>3. vr[q[m]] \in Int /\ vr[q[i]] \in Int /\ vr[t] \in Int
    BY <1>1, <2>1
  <2>4. ~ (vr[q[m]] < vr[t])
    BY <1>1, <1>5, <2>1
  <2> QED BY <2>2, <2>3, <2>4
<1>8. A = 1 .. m - 1
  BY <1>1, <1>5, <1>6, <1>7
<1>9. Before(q, t, vr) = Cardinality(A)
  BY DEF Before
<1>10. Cardinality(1 .. m - 1) = m - 1
  BY <1>1, <1>5, FS_Interval
<1>11. \A i \in 1 .. N : vr[q[i]] < vr[t] <=> i \in A
  BY <1>1
<1> HIDE DEF A, T, N
<1>12. \A i \in 1 .. N : vr[q[i]] < vr[t] <=> i <= Before(q, t, vr)
  <2>1. Before(q, t, vr) = m - 1
    BY <1>8, <1>9, <1>10
  <2> QED BY <1>1, <1>5, <1>8, <1>11, <2>1
<1> QED BY <1>12 DEF N

LEMMA InsertedIs ==
  ASSUME NEW S, NEW q \in Seq(S), NEW t \in S, NEW vr
  PROVE  LET n == Before(q, t, vr)
             r == Inserted(q, t, vr)
         IN /\ r \in Seq(S) /\ Len(r) = Len(q) + 1
            /\ n \in 0 .. Len(q)
            /\ \A i \in 1 .. n : r[i] = q[i]
            /\ r[n + 1] = t
            /\ \A i \in n + 1 .. Len(q) : r[i + 1] = q[i]
            /\ \A u : Times(r, u) = Times(q, u) + One(t, u)
<1> DEFINE n == Before(q, t, vr)
           N == Len(q)
           a == SubSeq(q, 1, n)
           b == SubSeq(q, n + 1, N)
           c == <<t>>
           r == Inserted(q, t, vr)
<1>1. N \in Nat /\ n \in 0 .. N /\ \A i \in 1 .. N : q[i] \in S
  BY BeforeType, LenProperties, ElementOfSeq
<1>2. /\ a \in Seq(S) /\ b \in Seq(S)
      /\ \A u : Times(a, u) + Times(b, u) = Times(q, u)
  BY <1>1, Parted
<1>3. c \in Seq(S) /\ Len(c) = 1 /\ c[1] = t /\ \A u : Times(c, u) = One(t, u)
  BY TimesOne DEF One
<1>4. r = (a \o c) \o b
  BY DEF Inserted
<1> HIDE DEF c
<1>5. Len(a) = n /\ \A i \in 1 .. n : a[i] = q[i]
  <2>1. \A i \in 1 .. n : q[i] \in S
    BY <1>1
  <2>2. /\ Len(a) = IF 1 <= n THEN n - 1 + 1 ELSE 0
        /\ \A i \in 1 .. n - 1 + 1 : a[i] = q[1 + i - 1]
    <3> HIDE DEF n
    <3> QED BY <1>1, <2>1, SubSeqProperties
  <2> HIDE DEF n, a
  <2> QED BY <1>1, <2>2
<1>6. Len(b) = N - n /\ \A i \in 1 .. N - n : b[i] = q[n + i]
  <2>1. \A i \in n + 1 .. N : q[i] \in S
    BY <1>1
  <2>2. /\ Len(b) = IF n + 1 <= N THEN N - (n + 1) + 1 ELSE 0
        /\ \A i \in 1 .. N - (n + 1) + 1 : b[i] = q[n + 1 + i - 1]
    <3> HIDE DEF n, N
    <3> QED BY <1>1, <2>1, SubSeqProperties
  <2> HIDE DEF n, b, N
  <2> QED BY <1>1, <2>2
<1> HIDE DEF a, b, n, N, r
<1>7. /\ a \o c \in Seq(S) /\ Len(a \o c) = n + 1
      /\ \A i \in 1 .. n + 1 : (a \o c)[i] = IF i <= n THEN a[i] ELSE c[i - n]
      /\ \A u : Times(a \o c, u) = Times(a, u) + Times(c, u)
  <2>1. /\ a \o c \in Seq(S) /\ Len(a \o c) = Len(a) + Len(c)
        /\ \A i \in 1 .. Len(a) + Len(c) :
             (a \o c)[i] = IF i <= Len(a) THEN a[i] ELSE c[i - Len(a)]
    BY <1>2, <1>3, ConcatProperties
  <2>2. \A u : Times(a \o c, u) = Times(a, u) + Times(c, u)
    BY <1>2, <1>3, TimesConcat
  <2>3. Len(a) = n /\ Len(c) = 1
    BY <1>3, <1>5
  <2> QED BY <2>1, <2>2, <2>3
<1>8. /\ r \in Seq(S) /\ Len(r) = n + 1 + (N - n)
      /\ \A i \in 1 .. n + 1 + (N - n) : r[i] = IF i <= n + 1 THEN (a \o c)[i] ELSE b[i - (n + 1)]
      /\ \A u : Times(r, u) = Times(a \o c, u) + Times(b, u)
  <2>1. /\ r \in Seq(S) /\ Len(r) = Len(a \o c) + Len(b)
        /\ \A i \in 1 .. Len(a \o c) + Len(b) :
             r[i] = IF i <= Len(a \o c) THEN (a \o c)[i] ELSE b[i - Len(a \o c)]
    <3>1. a \o c \in Seq(S) /\ b \in Seq(S) /\ r = (a \o c) \o b
      BY <1>2, <1>4, <1>7
    <3> DEFINE d == a \o c
    <3> HIDE DEF d
    <3>2. /\ d \o b \in Seq(S) /\ Len(d \o b) = Len(d) + Len(b)
          /\ \A i \in 1 .. Len(d) + Len(b) :
               (d \o b)[i] = IF i <= Len(d) THEN d[i] ELSE b[i - Len(d)]
      BY <3>1, ConcatProperties DEF d
    <3> QED BY <3>1, <3>2 DEF d
  <2>2. \A u : Times(r, u) = Times(a \o c, u) + Times(b, u)
    <3> DEFINE d == a \o c
    <3>1. d \in Seq(S) /\ b \in Seq(S) /\ r = d \o b
      BY <1>2, <1>4, <1>7
    <3> HIDE DEF d
    <3>2. \A u : Times(d \o b, u) = Times(d, u) + Times(b, u)
      BY <3>1, TimesConcat
    <3> QED BY <3>1, <3>2 DEF d
  <2>3. Len(a \o c) = n + 1 /\ Len(b) = N - n
    BY <1>6, <1>7
  <2> QED BY <2>1, <2>2, <2>3
<1>9. Len(r) = N + 1
  BY <1>1, <1>8
<1>10. \A i \in 1 .. n : r[i] = q[i]
  <2> SUFFICES ASSUME NEW i \in 1 .. n PROVE r[i] = q[i]
    OBVIOUS
  <2>1. i \in 1 .. n + 1 /\ i <= n /\ i <= n + 1 /\ i \in 1 .. n + 1 + (N - n)
    BY <1>1
  <2> QED BY <1>5, <1>7, <1>8, <2>1
<1>11. r[n + 1] = t
  <2>1. /\ n + 1 \in 1 .. n + 1 /\ ~ (n + 1 <= n) /\ n + 1 <= n + 1
        /\ n + 1 \in 1 .. n + 1 + (N - n) /\ (n + 1) - n = 1
    BY <1>1
  <2>2. r[n + 1] = (a \o c)[n + 1]
    BY <1>8, <2>1
  <2>3. (a \o c)[n + 1] = c[(n + 1) - n]
    BY <1>7, <2>1
  <2> QED BY <1>3, <2>1, <2>2, <2>3
<1>12. \A i \in n + 1 .. N : r[i + 1] = q[i]
  <2> SUFFICES ASSUME NEW i \in n + 1 .. N PROVE r[i + 1] = q[i]
    OBVIOUS
  <2>1. /\ i + 1 \in 1 .. n + 1 + (N - n) /\ ~ (i + 1 <= n + 1)
        /\ (i + 1) - (n + 1) = i - n /\ i - n \in 1 .. N - n /\ n + (i - n) = i
    BY <1>1
  <2>2. r[i + 1] = b[(i + 1) - (n + 1)]
    BY <1>8, <2>1
  <2>3. b[i - n] = q[n + (i - n)]
    BY <1>6, <2>1
  <2> QED BY <2>1, <2>2, <2>3
<1>13. \A u : Times(r, u) = Times(q, u) + One(t, u)
  <2> SUFFICES ASSUME NEW u PROVE Times(r, u) = Times(q, u) + One(t, u)
    OBVIOUS
  <2>1. Times(a, u) \in Nat /\ Times(b, u) \in Nat /\ One(t, u) \in Nat
    BY <1>2, TimesType, OneType
  <2>2. /\ Times(r, u) = Times(a \o c, u) + Times(b, u) /\ Times(a \o c, u) = Times(a, u) + Times(c, u)
        /\ Times(c, u) = One(t, u) /\ Times(a, u) + Times(b, u) = Times(q, u)
    BY <1>2, <1>3, <1>7, <1>8
  <2> QED BY <2>1, <2>2
<1>14. r \in Seq(S)
  BY <1>8
<1> QED BY <1>1, <1>9, <1>10, <1>11, <1>12, <1>13, <1>14 DEF n, N, r

LEMMA InsertedTimes ==
  ASSUME NEW S, NEW q \in Seq(S), NEW t \in S, NEW vr
  PROVE  /\ Inserted(q, t, vr) \in Seq(S)
         /\ \A u : Times(Inserted(q, t, vr), u) = Times(q, u) + One(t, u)
BY InsertedIs

\* rbTreeInsert keeps the order.
LEMMA InsertedSorted ==
  ASSUME NEW S, NEW q \in Seq(S), NEW t \in S, NEW vr \in [S -> Int], Sorted(q, vr)
  PROVE  Sorted(Inserted(q, t, vr), vr)
<1> DEFINE n == Before(q, t, vr)
           N == Len(q)
           r == Inserted(q, t, vr)
<1>1. /\ r \in Seq(S) /\ Len(r) = N + 1
      /\ n \in 0 .. N
      /\ \A i \in 1 .. n : r[i] = q[i]
      /\ r[n + 1] = t
      /\ \A i \in n + 1 .. N : r[i + 1] = q[i]
  BY InsertedIs
<1>2. \A i \in 1 .. N : vr[q[i]] < vr[t] <=> i <= n
  BY BeforeIs
<1>3. N \in Nat /\ DOMAIN q = 1 .. N /\ DOMAIN r = 1 .. N + 1 /\ \A i \in 1 .. N : q[i] \in S
  BY <1>1, LenProperties, ElementOfSeq
<1> HIDE DEF n, N, r
<1>4. \A i \in 1 .. N : vr[q[i]] \in Int
  BY <1>3
<1>5. vr[t] \in Int
  OBVIOUS
<1>6. \A i, j \in 1 .. N : i < j => vr[q[i]] <= vr[q[j]]
  BY <1>3 DEF Sorted
<1>7. ASSUME NEW i \in 1 .. N + 1, NEW j \in 1 .. N + 1, i < j PROVE vr[r[i]] <= vr[r[j]]
  <2>1. \A k \in 1 .. N + 1 : \/ k \in 1 .. n /\ k \in 1 .. N /\ r[k] = q[k] /\ k < n + 1
                              \/ k = n + 1 /\ r[k] = t
                              \/ k > n + 1 /\ k - 1 \in 1 .. N /\ ~ (k - 1 <= n) /\ r[k] = q[k - 1]
    <3> SUFFICES ASSUME NEW k \in 1 .. N + 1
                 PROVE  \/ k \in 1 .. n /\ k \in 1 .. N /\ r[k] = q[k] /\ k < n + 1
                        \/ k = n + 1 /\ r[k] = t
                        \/ k > n + 1 /\ k - 1 \in 1 .. N /\ ~ (k - 1 <= n) /\ r[k] = q[k - 1]
      OBVIOUS
    <3>1. CASE k \in 1 .. n
      BY <1>1, <1>3, <3>1
    <3>2. CASE k = n + 1
      BY <1>1, <3>2
    <3>3. CASE k > n + 1
      <4>1. k - 1 \in n + 1 .. N /\ (k - 1) + 1 = k
        BY <1>1, <1>3, <3>3
      <4>2. r[(k - 1) + 1] = q[k - 1]
        BY <1>1, <4>1
      <4> QED BY <1>1, <1>3, <3>3, <4>1, <4>2
    <3> QED BY <1>1, <1>3, <3>1, <3>2, <3>3
  <2>2. CASE i \in 1 .. n
    <3>1. r[i] = q[i] /\ i \in 1 .. N /\ vr[q[i]] < vr[t] /\ vr[q[i]] \in Int
      BY <1>1, <1>2, <1>3, <1>4, <2>2
    <3>2. CASE j \in 1 .. n
      BY <1>1, <1>3, <1>6, <1>7, <2>2, <3>2
    <3>3. CASE j = n + 1
      BY <1>1, <1>5, <3>1, <3>3
    <3>4. CASE j > n + 1
      <4>1. j - 1 \in 1 .. N /\ r[j] = q[j - 1] /\ i < j - 1
        BY <1>1, <2>1, <2>2, <3>4
      <4> QED BY <1>6, <3>1, <4>1
    <3> QED BY <1>1, <3>2, <3>3, <3>4
  <2>3. CASE i = n + 1
    <3>1. j - 1 \in 1 .. N /\ r[j] = q[j - 1] /\ ~ (j - 1 <= n)
      BY <1>1, <1>7, <2>1, <2>3
    <3>2. ~ (vr[q[j - 1]] < vr[t]) /\ vr[q[j - 1]] \in Int
      BY <1>2, <1>4, <3>1
    <3> QED BY <1>1, <1>5, <2>3, <3>1, <3>2
  <2>4. CASE i > n + 1
    <3>1. i - 1 \in 1 .. N /\ r[i] = q[i - 1] /\ j - 1 \in 1 .. N /\ r[j] = q[j - 1] /\ i - 1 < j - 1
      BY <1>1, <1>7, <2>1, <2>4
    <3> QED BY <1>6, <3>1
  <2> QED BY <1>1, <2>2, <2>3, <2>4
<1>8. Sorted(r, vr)
  BY <1>3, <1>7 DEF Sorted
<1> QED BY <1>8 DEF r

\* The first thread of a queue in order has the least virtual run time, and the
\* others stay in order.
LEMMA SortedHead ==
  ASSUME NEW S, NEW q \in Seq(S), NEW vr \in [S -> Int], Sorted(q, vr), q # <<>>
  PROVE  /\ Sorted(Tail(q), vr)
         /\ \A t \in ToSet(q) : vr[Head(q)] <= vr[t]
<1> DEFINE N == Len(q)
<1>1. /\ N \in Nat /\ DOMAIN q = 1 .. N /\ N # 0 /\ \A i \in 1 .. N : q[i] \in S
  BY LenProperties, ElementOfSeq, EmptySeq
<1>2. /\ Tail(q) \in Seq(S) /\ DOMAIN Tail(q) = 1 .. N - 1
      /\ \A i \in 1 .. N - 1 : Tail(q)[i] = q[i + 1]
  BY HeadTailProperties, LenProperties
<1>3. \A i, j \in 1 .. N : i < j => vr[q[i]] <= vr[q[j]]
  BY <1>1 DEF Sorted
<1>4. Head(q) = q[1]
  OBVIOUS
<1>5. \A i \in 1 .. N : vr[q[i]] \in Int
  BY <1>1
<1> HIDE DEF N
<1>6. ASSUME NEW i \in 1 .. N PROVE vr[q[1]] <= vr[q[i]]
  <2>1. CASE i = 1
    BY <1>5, <2>1
  <2>2. CASE i # 1
    <3>1. 1 \in 1 .. N /\ 1 < i
      BY <1>1, <2>2
    <3> QED BY <1>3, <3>1
  <2> QED BY <2>1, <2>2
<1>7. ToSet(q) = {q[i] : i \in 1 .. N}
  BY <1>1 DEF ToSet
<1>8. ASSUME NEW i \in 1 .. N - 1, NEW j \in 1 .. N - 1, i < j PROVE vr[Tail(q)[i]] <= vr[Tail(q)[j]]
  <2>1. i + 1 \in 1 .. N /\ j + 1 \in 1 .. N /\ i + 1 < j + 1
    BY <1>1, <1>8
  <2> QED BY <1>2, <1>3, <2>1
<1> QED BY <1>2, <1>4, <1>6, <1>7, <1>8 DEF Sorted

\* Only the distances between the threads of a queue matter.
LEMMA SortedShift ==
  ASSUME NEW S, NEW q \in Seq(S), NEW vr \in [S -> Int], NEW wr \in [S -> Int], NEW d \in Int,
         Sorted(q, vr), \A t \in ToSet(q) : wr[t] = vr[t] - d
  PROVE  Sorted(q, wr)
<1> DEFINE N == Len(q)
<1>1. N \in Nat /\ DOMAIN q = 1 .. N /\ \A i \in 1 .. N : q[i] \in S
  BY LenProperties, ElementOfSeq
<1>2. \A i \in 1 .. N : q[i] \in ToSet(q)
  BY <1>1 DEF ToSet
<1> HIDE DEF N
<1>3. ASSUME NEW i \in 1 .. N, NEW j \in 1 .. N, i < j PROVE wr[q[i]] <= wr[q[j]]
  <2>1. vr[q[i]] <= vr[q[j]]
    BY <1>1, <1>3 DEF Sorted
  <2>2. vr[q[i]] \in Int /\ vr[q[j]] \in Int
    BY <1>1
  <2>3. wr[q[i]] = vr[q[i]] - d /\ wr[q[j]] = vr[q[j]] - d
    BY <1>2
  <2> QED BY <2>1, <2>2, <2>3
<1> QED BY <1>1, <1>3 DEF Sorted

-----------------------------------------------------------------------------
\* all is the function that the definition of InsertedAll chooses.
IsAll(all, p, q, vr) ==
  all = [n \in 0 .. Len(q) |-> IF n = 0 THEN p ELSE Inserted(all[n - 1], q[n], vr)]

LEMMA AllExists == ASSUME NEW S, NEW p, NEW vr PROVE \A q \in Seq(S) : \E f : IsAll(f, p, q, vr)
<1> DEFINE T == {q \in Seq(S) : \E f : IsAll(f, p, q, vr)}
<1>1. <<>> \in T
  <2>1. Len(<<>>) = 0 /\ <<>> \in Seq(S)
    BY EmptySeq
  <2>2. IsAll([n \in 0 .. 0 |-> p], p, <<>>, vr)
    BY <2>1 DEF IsAll
  <2> QED BY <2>1, <2>2
<1>2. ASSUME NEW q \in Seq(S), NEW e \in S, q \in T PROVE Append(q, e) \in T
  <2>1. PICK f : IsAll(f, p, q, vr)
    BY <1>2
  <2> DEFINE N == Len(q)
             r == Append(q, e)
             g == [n \in 0 .. N + 1 |->
                     IF n = N + 1 THEN Inserted(f[N], e, vr) ELSE f[n]]
  <2>2. /\ N \in Nat /\ Len(r) = N + 1 /\ r \in Seq(S) /\ r[N + 1] = e
        /\ \A n \in 1 .. N : r[n] = q[n]
    BY AppendProperties, LenProperties
  <2>3. \A n \in 0 .. N :
          f[n] = IF n = 0 THEN p ELSE Inserted(f[n - 1], q[n], vr)
    BY <2>1, <2>2 DEF IsAll
  <2> HIDE DEF N, r
  <2>4. \A n \in 0 .. N : g[n] = f[n] /\ n # N + 1
    BY <2>2
  <2>5. g[N + 1] = Inserted(f[N], e, vr)
    BY <2>2
  <2>6. g = [n \in 0 .. N + 1 |-> g[n]]
    OBVIOUS
  <2> HIDE DEF g
  <2>7. \A n \in 0 .. N + 1 :
          g[n] = IF n = 0 THEN p ELSE Inserted(g[n - 1], r[n], vr)
    <3> SUFFICES ASSUME NEW n \in 0 .. N + 1
                 PROVE  g[n] = IF n = 0 THEN p ELSE Inserted(g[n - 1], r[n], vr)
      OBVIOUS
    <3>1. CASE n = N + 1
      <4>1. n # 0 /\ n - 1 = N /\ N \in 0 .. N
        BY <2>2, <3>1
      <4> QED BY <2>2, <2>4, <2>5, <3>1, <4>1
    <3>2. CASE n = 0
      BY <2>2, <2>3, <2>4, <3>2
    <3>3. CASE n \in 1 .. N
      <4>1. n \in 0 .. N /\ n - 1 \in 0 .. N /\ n # 0
        BY <2>2, <3>3
      <4>2. g[n] = f[n] /\ g[n - 1] = f[n - 1] /\ r[n] = q[n]
        BY <2>2, <2>4, <3>3, <4>1
      <4> QED BY <2>3, <4>1, <4>2
    <3> QED BY <2>2, <3>1, <3>2, <3>3
  <2>8. IsAll(g, p, r, vr)
    BY <2>2, <2>6, <2>7 DEF IsAll
  <2> QED BY <2>2, <2>8 DEF r
<1>3. Seq(S) \subseteq T
  <2> HIDE DEF T
  <2> QED BY <1>1, <1>2, QueueInduction
<1> QED BY <1>3

LEMMA AllUnique ==
  ASSUME NEW S, NEW p, NEW vr, NEW q \in Seq(S), NEW f, NEW g, IsAll(f, p, q, vr), IsAll(g, p, q, vr)
  PROVE  f[Len(q)] = g[Len(q)]
<1> DEFINE T == {n \in Nat : n <= Len(q) => f[n] = g[n]}
<1>1. Len(q) \in Nat
  BY LenProperties
<1>2. 0 \in T
  BY <1>1 DEF IsAll
<1>3. ASSUME NEW n \in Nat, n \in T PROVE n + 1 \in T
  <2> SUFFICES ASSUME n + 1 <= Len(q) PROVE f[n + 1] = g[n + 1]
    BY <1>3
  <2>1. n + 1 \in 0 .. Len(q) /\ n + 1 # 0 /\ (n + 1) - 1 = n /\ f[n] = g[n]
    BY <1>1, <1>3
  <2>2. /\ f[n + 1] = Inserted(f[n], q[n + 1], vr)
        /\ g[n + 1] = Inserted(g[n], q[n + 1], vr)
    BY <2>1 DEF IsAll
  <2> QED BY <2>1, <2>2
<1>4. Nat \subseteq T
  <2> HIDE DEF T
  <2> QED BY <1>2, <1>3, NumberInduction
<1> QED BY <1>1, <1>4

LEMMA AllIs ==
  ASSUME NEW S, NEW p, NEW vr, NEW q \in Seq(S), NEW f, IsAll(f, p, q, vr)
  PROVE  InsertedAll(p, q, vr) = f[Len(q)]
<1> DEFINE g == CHOOSE h : IsAll(h, p, q, vr)
<1>1. InsertedAll(p, q, vr) = g[Len(q)]
  BY DEF InsertedAll, IsAll
<1>2. IsAll(g, p, q, vr)
  OBVIOUS
<1> HIDE DEF g
<1> QED BY <1>1, <1>2, AllUnique

\* The two equations InsertedAll stands for.
LEMMA AllEmpty == \A p, vr : InsertedAll(p, <<>>, vr) = p
<1> SUFFICES ASSUME NEW p, NEW vr PROVE InsertedAll(p, <<>>, vr) = p
  OBVIOUS
<1>1. <<>> \in Seq({}) /\ Len(<<>>) = 0
  BY EmptySeq
<1>2. IsAll([n \in 0 .. 0 |-> p], p, <<>>, vr)
  BY <1>1 DEF IsAll
<1>3. InsertedAll(p, <<>>, vr) = [n \in 0 .. 0 |-> p][0]
  BY <1>1, <1>2, AllIs
<1> QED BY <1>3

LEMMA AllAppend ==
  ASSUME NEW S, NEW p, NEW vr, NEW q \in Seq(S), NEW e \in S
  PROVE  InsertedAll(p, Append(q, e), vr) = Inserted(InsertedAll(p, q, vr), e, vr)
<1> DEFINE N == Len(q)
           r == Append(q, e)
<1>1. /\ N \in Nat /\ Len(r) = N + 1 /\ r \in Seq(S) /\ r[N + 1] = e
      /\ \A n \in 1 .. N : r[n] = q[n]
  BY AppendProperties, LenProperties
<1>2. PICK g : IsAll(g, p, r, vr)
  BY <1>1, AllExists
<1> DEFINE f == [n \in 0 .. N |-> g[n]]
<1> HIDE DEF N, r
<1>3. InsertedAll(p, r, vr) = g[N + 1]
  <2>1. InsertedAll(p, r, vr) = g[Len(r)]
    BY <1>1, <1>2, AllIs
  <2> QED BY <1>1, <2>1
<1>4. \A n \in 0 .. N + 1 :
        g[n] = IF n = 0 THEN p ELSE Inserted(g[n - 1], r[n], vr)
  BY <1>1, <1>2 DEF IsAll
<1>5. f = [n \in 0 .. N |->
             IF n = 0 THEN p ELSE Inserted(f[n - 1], q[n], vr)]
  <2> SUFFICES ASSUME NEW n \in 0 .. N
               PROVE  f[n] = IF n = 0 THEN p ELSE Inserted(f[n - 1], q[n], vr)
    OBVIOUS
  <2>1. CASE n = 0
    BY <1>1, <1>4, <2>1
  <2>2. CASE n # 0
    <3>1. n - 1 \in 0 .. N /\ n \in 0 .. N + 1 /\ n \in 1 .. N
      BY <1>1, <2>2
    <3>2. f[n] = g[n] /\ f[n - 1] = g[n - 1] /\ r[n] = q[n]
      BY <1>1, <3>1
    <3> QED BY <1>4, <2>2, <3>1, <3>2
  <2> QED BY <2>1, <2>2
<1>6. IsAll(f, p, q, vr)
  BY <1>5 DEF IsAll, N
<1>7. InsertedAll(p, q, vr) = g[N]
  <2>1. InsertedAll(p, q, vr) = f[N]
    BY <1>6, AllIs DEF N
  <2> QED BY <1>1, <2>1
<1>8. g[N + 1] = Inserted(g[N], e, vr)
  <2>1. N + 1 \in 0 .. N + 1 /\ N + 1 # 0 /\ (N + 1) - 1 = N
    BY <1>1
  <2> QED BY <1>1, <1>4, <2>1
<1> QED BY <1>3, <1>7, <1>8 DEF r

LEMMA AllInserted ==
  ASSUME NEW S, NEW p \in Seq(S), NEW vr
  PROVE  \A q \in Seq(S) : /\ InsertedAll(p, q, vr) \in Seq(S)
                           /\ \A u : Times(InsertedAll(p, q, vr), u) = Times(p, u) + Times(q, u)
<1> DEFINE T == {q \in Seq(S) : /\ InsertedAll(p, q, vr) \in Seq(S)
                                /\ \A u : Times(InsertedAll(p, q, vr), u) = Times(p, u) + Times(q, u)}
<1>1. <<>> \in T
  <2>1. \A u : Times(p, u) \in Nat /\ Times(<<>>, u) = 0
    BY TimesType, TimesEmpty
  <2> QED BY <2>1, AllEmpty, EmptySeq
<1>2. ASSUME NEW q \in Seq(S), NEW e \in S, q \in T PROVE Append(q, e) \in T
  <2> DEFINE r == InsertedAll(p, q, vr)
  <2>1. /\ r \in Seq(S)
        /\ \A u : Times(r, u) = Times(p, u) + Times(q, u)
    BY <1>2
  <2>2. InsertedAll(p, Append(q, e), vr) = Inserted(r, e, vr)
    BY AllAppend
  <2> HIDE DEF r
  <2>3. /\ Inserted(r, e, vr) \in Seq(S)
        /\ \A u : Times(Inserted(r, e, vr), u) = Times(r, u) + One(e, u)
    BY <2>1, InsertedIs
  <2>4. /\ Append(q, e) \in Seq(S)
        /\ \A u : Times(Append(q, e), u) = Times(q, u) + One(e, u)
    BY Appended
  <2>5. ASSUME NEW u PROVE Times(Inserted(r, e, vr), u) = Times(p, u) + Times(Append(q, e), u)
    <3>1. Times(p, u) \in Nat /\ Times(q, u) \in Nat /\ One(e, u) \in Nat
      BY TimesType, OneType
    <3> QED BY <2>1, <2>3, <2>4, <3>1
  <2> QED BY <2>2, <2>3, <2>4, <2>5
<1>3. Seq(S) \subseteq T
  <2> HIDE DEF T
  <2> QED BY <1>1, <1>2, QueueInduction
<1> QED BY <1>3

LEMMA AllSorted ==
  ASSUME NEW S, NEW p \in Seq(S), NEW vr \in [S -> Int], Sorted(p, vr)
  PROVE  \A q \in Seq(S) : Sorted(InsertedAll(p, q, vr), vr)
<1> DEFINE T == {q \in Seq(S) : Sorted(InsertedAll(p, q, vr), vr)}
<1>1. <<>> \in T
  BY AllEmpty, EmptySeq
<1>2. ASSUME NEW q \in Seq(S), NEW e \in S, q \in T PROVE Append(q, e) \in T
  <2>1. InsertedAll(p, q, vr) \in Seq(S) /\ Sorted(InsertedAll(p, q, vr), vr)
    BY <1>2, AllInserted
  <2>2. InsertedAll(p, Append(q, e), vr) = Inserted(InsertedAll(p, q, vr), e, vr)
    BY AllAppend
  <2> QED BY <2>1, <2>2, InsertedSorted, AppendProperties
<1>3. Seq(S) \subseteq T
  <2> HIDE DEF T
  <2> QED BY <1>1, <1>2, QueueInduction
<1> QED BY <1>3
=============================================================================
