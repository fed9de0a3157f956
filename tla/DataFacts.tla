----------------------------- MODULE DataFacts ------------------------------
(***************************************************************************)
(* Facts about data that the proof modules share.  Sequences used as       *)
(* queues: what joining at the tail and leaving at the head do to the set  *)
(* of members and to the absence of duplicates.  Induction, stated for     *)
(* sets (the theorems of the library, which take an operator, cannot be    *)
(* instantiated by the provers), and with it sums over finite sets.        *)
(***************************************************************************)
EXTENDS Sequences, Integers, Functions, FiniteSetTheorems, WellFoundedInduction, TLAPS

-----------------------------------------------------------------------------
(* Queues                                                                  *)

\* An empty queue has no members and no duplicates.
LEMMA EmptyQueue == Range(<<>>) = {} /\ IsInjective(<<>>)
  BY DEF Range, IsInjective

\* Joining adds exactly the new member.
LEMMA RangeAppend ==
    ASSUME NEW S, NEW q \in Seq(S), NEW e \in S
    PROVE  Range(Append(q, e)) = Range(q) \union {e}
<1>1. \A i \in 1 .. Len(q) : Append(q, e)[i] = q[i]
  OBVIOUS
<1>2. Append(q, e)[Len(q) + 1] = e /\ DOMAIN Append(q, e) = 1 .. Len(q) + 1
  OBVIOUS
<1>3. DOMAIN q = 1 .. Len(q) /\ Len(q) \in Nat
  OBVIOUS
<1>4. ASSUME NEW x \in Range(Append(q, e)) PROVE x \in Range(q) \union {e}
  <2>1. PICK i \in 1 .. Len(q) + 1 : x = Append(q, e)[i]
    BY <1>2 DEF Range
  <2>2. CASE i = Len(q) + 1
    BY <2>1, <2>2, <1>2
  <2>3. CASE i # Len(q) + 1
    <3>1. i \in 1 .. Len(q)
      BY <2>1, <2>3, <1>3
    <3>. QED  BY <3>1, <2>1, <1>1, <1>3 DEF Range
  <2>. QED  BY <2>2, <2>3
<1>5. ASSUME NEW x \in Range(q) PROVE x \in Range(Append(q, e))
  <2>1. PICK i \in 1 .. Len(q) : x = q[i]
    BY <1>3 DEF Range
  <2>2. i \in 1 .. Len(q) + 1 /\ x = Append(q, e)[i]
    BY <2>1, <1>1, <1>3
  <2>. QED  BY <2>2, <1>2 DEF Range
<1>6. e \in Range(Append(q, e))
  <2>1. Len(q) + 1 \in 1 .. Len(q) + 1
    BY <1>3
  <2>. QED  BY <2>1, <1>2 DEF Range
<1>. QED  BY <1>4, <1>5, <1>6

\* Joining a queue one is not in creates no duplicate.
LEMMA InjectiveAppend ==
    ASSUME NEW S, NEW q \in Seq(S), NEW e \in S, IsInjective(q), e \notin Range(q)
    PROVE  IsInjective(Append(q, e))
<1>1. \A i \in 1 .. Len(q) : Append(q, e)[i] = q[i] /\ q[i] # e
  BY DEF Range
<1>2. Append(q, e)[Len(q) + 1] = e /\ DOMAIN Append(q, e) = 1 .. Len(q) + 1
  OBVIOUS
<1>3. DOMAIN q = 1 .. Len(q) /\ Len(q) \in Nat
  OBVIOUS
<1>4. \A i \in 1 .. Len(q) + 1 : i = Len(q) + 1 \/ i \in 1 .. Len(q)
  BY <1>3
<1>5. \A i, j \in 1 .. Len(q) : q[i] = q[j] => i = j
  BY <1>3 DEF IsInjective
<1>6. \A i, j \in 1 .. Len(q) + 1 : Append(q, e)[i] = Append(q, e)[j] => i = j
  BY <1>1, <1>2, <1>4, <1>5
<1>. QED  BY <1>2, <1>6 DEF IsInjective

\* A non-empty queue consists of its head and its tail.
LEMMA RangeHeadTail ==
    ASSUME NEW S, NEW q \in Seq(S), q # <<>>
    PROVE  Head(q) \in S /\ Tail(q) \in Seq(S) /\ Range(q) = {Head(q)} \union Range(Tail(q))
<1>1. /\ Head(q) = q[1] /\ Len(q) \in Nat \ {0} /\ DOMAIN q = 1 .. Len(q)
      /\ Head(q) \in S /\ Tail(q) \in Seq(S)
      /\ Len(Tail(q)) = Len(q) - 1 /\ DOMAIN Tail(q) = 1 .. Len(q) - 1
  OBVIOUS
<1>2. \A i \in 1 .. Len(q) - 1 : Tail(q)[i] = q[i + 1]
  OBVIOUS
<1>3. ASSUME NEW x \in Range(q) PROVE x \in {Head(q)} \union Range(Tail(q))
  <2>1. PICK i \in 1 .. Len(q) : x = q[i]
    BY <1>1 DEF Range
  <2>2. CASE i = 1
    BY <2>1, <2>2, <1>1
  <2>3. CASE i # 1
    <3>1. i - 1 \in 1 .. Len(q) - 1 /\ (i - 1) + 1 = i
      BY <2>1, <2>3, <1>1
    <3>2. Tail(q)[i - 1] = x
      BY <3>1, <2>1, <1>2
    <3>. QED  BY <3>1, <3>2, <1>1 DEF Range
  <2>. QED  BY <2>2, <2>3
<1>4. ASSUME NEW x \in Range(Tail(q)) PROVE x \in Range(q)
  <2>1. PICK i \in 1 .. Len(q) - 1 : x = Tail(q)[i]
    BY <1>1 DEF Range
  <2>2. i + 1 \in 1 .. Len(q) /\ x = q[i + 1]
    BY <2>1, <1>1, <1>2
  <2>. QED  BY <2>2, <1>1 DEF Range
<1>5. Head(q) \in Range(q)
  <2>1. 1 \in 1 .. Len(q)
    BY <1>1
  <2>. QED  BY <2>1, <1>1 DEF Range
<1>. QED  BY <1>1, <1>3, <1>4, <1>5

\* Leaving at the head keeps a queue free of duplicates, and the member that
\* left is not in it any more.
LEMMA InjectiveTail ==
    ASSUME NEW S, NEW q \in Seq(S), q # <<>>, IsInjective(q)
    PROVE  IsInjective(Tail(q)) /\ Head(q) \notin Range(Tail(q))
<1>1. /\ Head(q) = q[1] /\ Len(q) \in Nat \ {0} /\ DOMAIN q = 1 .. Len(q)
      /\ DOMAIN Tail(q) = 1 .. Len(q) - 1
  OBVIOUS
<1>2. \A i \in 1 .. Len(q) - 1 : Tail(q)[i] = q[i + 1]
  OBVIOUS
<1>3. \A i, j \in 1 .. Len(q) : q[i] = q[j] => i = j
  BY <1>1 DEF IsInjective
<1>4. ASSUME NEW i \in 1 .. Len(q) - 1, NEW j \in 1 .. Len(q) - 1,
             Tail(q)[i] = Tail(q)[j]
      PROVE  i = j
  <2>1. i + 1 \in 1 .. Len(q) /\ j + 1 \in 1 .. Len(q) /\ q[i + 1] = q[j + 1]
    BY <1>1, <1>2, <1>4
  <2>2. i + 1 = j + 1
    BY <2>1, <1>3
  <2>. QED  BY <2>2
<1>5. ASSUME NEW i \in 1 .. Len(q) - 1, Tail(q)[i] = Head(q) PROVE FALSE
  <2>1. i + 1 \in 1 .. Len(q) /\ 1 \in 1 .. Len(q) /\ q[i + 1] = q[1]
    BY <1>1, <1>2, <1>5
  <2>2. i + 1 = 1
    BY <2>1, <1>3
  <2>. QED  BY <2>2
<1>6. IsInjective(Tail(q))
  BY <1>1, <1>4 DEF IsInjective
<1>. QED  BY <1>1, <1>5, <1>6 DEF Range

\* A first element in front of a queue: it is removed by Tail, and a queue is
\* its head in front of its tail.
LEMMA PushHead ==
    ASSUME NEW S, NEW q \in Seq(S), NEW h \in S
    PROVE  /\ <<h>> \o q \in Seq(S)
           /\ <<h>> \o q # <<>>
           /\ Tail(<<h>> \o q) = q
           /\ q # <<>> => q = <<Head(q)>> \o Tail(q)
<1>. QED  OBVIOUS

\* Nobody else is in a queue that gets a new first element.
LEMMA PushHeadRange ==
    ASSUME NEW S, NEW q \in Seq(S), NEW h \in S, NEW a, a # h, a \notin Range(q)
    PROVE  a \notin Range(<<h>> \o q)
<1>1. ASSUME NEW i \in 1 .. Len(<<h>> \o q) PROVE (<<h>> \o q)[i] # a
  <2>1. i = 1 => (<<h>> \o q)[i] = h
    OBVIOUS
  <2>2. i # 1 => (<<h>> \o q)[i] = q[i - 1] /\ i - 1 \in 1 .. Len(q)
    OBVIOUS
  <2>. QED  BY <2>1, <2>2 DEF Range
<1>2. <<h>> \o q \in Seq(S)
  OBVIOUS
<1>. QED  BY <1>1, <1>2 DEF Range

\* The members of two queues put end to end.
LEMMA RangeConcat ==
    ASSUME NEW S, NEW q \in Seq(S), NEW r \in Seq(S)
    PROVE  q \o r \in Seq(S) /\ Range(q \o r) = Range(q) \union Range(r)
<1>1. /\ DOMAIN q = 1 .. Len(q) /\ DOMAIN r = 1 .. Len(r)
      /\ Len(q) \in Nat /\ Len(r) \in Nat
      /\ DOMAIN (q \o r) = 1 .. Len(q) + Len(r) /\ q \o r \in Seq(S)
  OBVIOUS
<1>2. \A i \in 1 .. Len(q) + Len(r) :
        (q \o r)[i] = IF i \in 1 .. Len(q) THEN q[i] ELSE r[i - Len(q)]
  OBVIOUS
<1>3. ASSUME NEW x \in Range(q \o r) PROVE x \in Range(q) \union Range(r)
  <2>1. PICK i \in 1 .. Len(q) + Len(r) : x = (q \o r)[i]
    BY <1>1 DEF Range
  <2>2. i \in 1 .. Len(q) \/ i - Len(q) \in 1 .. Len(r)
    BY <1>1
  <2>. QED  BY <2>1, <2>2, <1>1, <1>2 DEF Range
<1>4. ASSUME NEW x \in Range(q) PROVE x \in Range(q \o r)
  <2>1. PICK i \in 1 .. Len(q) : x = q[i]
    BY <1>1 DEF Range
  <2>2. i \in 1 .. Len(q) + Len(r) /\ x = (q \o r)[i]
    BY <2>1, <1>1, <1>2
  <2>. QED  BY <2>2, <1>1 DEF Range
<1>5. ASSUME NEW x \in Range(r) PROVE x \in Range(q \o r)
  <2>1. PICK i \in 1 .. Len(r) : x = r[i]
    BY <1>1 DEF Range
  <2>2. /\ Len(q) + i \in 1 .. Len(q) + Len(r) /\ Len(q) + i \notin 1 .. Len(q)
        /\ (Len(q) + i) - Len(q) = i
    BY <2>1, <1>1
  <2>3. x = (q \o r)[Len(q) + i]
    BY <2>1, <2>2, <1>2
  <2>. QED  BY <2>2, <2>3, <1>1 DEF Range
<1>. QED  BY <1>1, <1>3, <1>4, <1>5

\* Two queues without duplicates and without a common member, end to end.
LEMMA InjectiveConcat ==
    ASSUME NEW S, NEW q \in Seq(S), NEW r \in Seq(S),
           IsInjective(q), IsInjective(r), Range(q) \intersect Range(r) = {}
    PROVE  IsInjective(q \o r)
<1>1. /\ DOMAIN q = 1 .. Len(q) /\ DOMAIN r = 1 .. Len(r)
      /\ Len(q) \in Nat /\ Len(r) \in Nat
      /\ DOMAIN (q \o r) = 1 .. Len(q) + Len(r)
  OBVIOUS
<1>2. \A i \in 1 .. Len(q) + Len(r) :
        (q \o r)[i] = IF i \in 1 .. Len(q) THEN q[i] ELSE r[i - Len(q)]
  OBVIOUS
<1>3. /\ \A i, j \in 1 .. Len(q) : q[i] = q[j] => i = j
      /\ \A i, j \in 1 .. Len(r) : r[i] = r[j] => i = j
  BY <1>1 DEF IsInjective
<1>4. \A i \in 1 .. Len(q), j \in 1 .. Len(r) : q[i] # r[j]
  BY <1>1 DEF Range
<1>5. ASSUME NEW i \in 1 .. Len(q) + Len(r), NEW j \in 1 .. Len(q) + Len(r),
             (q \o r)[i] = (q \o r)[j]
      PROVE  i = j
  <2>1. i \in 1 .. Len(q) \/ (i \notin 1 .. Len(q) /\ i - Len(q) \in 1 .. Len(r))
    BY <1>1
  <2>2. j \in 1 .. Len(q) \/ (j \notin 1 .. Len(q) /\ j - Len(q) \in 1 .. Len(r))
    BY <1>1
  <2>3. CASE i \in 1 .. Len(q) /\ j \in 1 .. Len(q)
    BY <2>3, <1>2, <1>3, <1>5
  <2>4. CASE i \notin 1 .. Len(q) /\ j \notin 1 .. Len(q)
    <3>1. r[i - Len(q)] = r[j - Len(q)]
      BY <2>4, <1>2, <1>5
    <3>2. i - Len(q) = j - Len(q)
      BY <2>1, <2>2, <2>4, <3>1, <1>3
    <3>. QED  BY <3>2, <1>1
  <2>5. CASE i \in 1 .. Len(q) /\ j \notin 1 .. Len(q)
    BY <2>2, <2>5, <1>2, <1>4, <1>5
  <2>6. CASE i \notin 1 .. Len(q) /\ j \in 1 .. Len(q)
    BY <2>1, <2>6, <1>2, <1>4, <1>5
  <2>. QED  BY <2>3, <2>4, <2>5, <2>6
<1>. QED  BY <1>1, <1>5 DEF IsInjective

-----------------------------------------------------------------------------
(* Induction                                                               *)

\* Among some subsets of a finite set there is a smallest one.
LEMMA MinimalSubset ==
    ASSUME NEW S, IsFiniteSet(S), NEW Bad, Bad \subseteq SUBSET S, Bad # {}
    PROVE  \E m \in Bad : \A T \in Bad : T \subseteq m => T = m
<1>1. Bad \subseteq FiniteSubsetsOf(S)
  BY FS_Subset DEF FiniteSubsetsOf
<1>2. PICK m \in Bad : \A T \in Bad : <<T, m>> \notin StrictSubsetOrdering(S)
  BY <1>1, FS_StrictSubsetOrderingWellFounded, WFMin, Zenon
<1>. QED  BY <1>2 DEF StrictSubsetOrdering

\* Induction up to a bound: what holds of 0 and of k + 1 with k, holds up to n.
LEMMA BoundedInduction ==
    ASSUME NEW n \in Nat, NEW Good, 0 \in Good,
           \A k \in 0 .. n - 1 : k \in Good => k + 1 \in Good
    PROVE  0 .. n \subseteq Good
<1>. SUFFICES ASSUME NEW b \in 0 .. n, b \notin Good PROVE FALSE
  OBVIOUS
<1> DEFINE I == 0 .. n
           Bad == {T \in SUBSET I : \E k \in I \ Good : T = 0 .. k}
<1>1. IsFiniteSet(I) /\ Bad \subseteq SUBSET I /\ Bad # {}
  <2>1. 0 .. b \in Bad
    OBVIOUS
  <2>2. IsFiniteSet(I)
    BY FS_Interval
  <2>. QED  BY <2>1, <2>2
<1>2. PICK m \in Bad : \A T \in Bad : T \subseteq m => T = m
  <2>. HIDE DEF I, Bad
  <2>. QED  BY <1>1, MinimalSubset
<1>3. PICK k \in (0 .. n) \ Good : m = 0 .. k
  OBVIOUS
<1>4. k - 1 \in 0 .. n - 1 /\ (k - 1) + 1 = k
  OBVIOUS
<1>5. k - 1 \notin Good
  BY <1>3, <1>4
<1>6. 0 .. k - 1 \in Bad
  BY <1>4, <1>5
<1>7. k \in m /\ k \notin 0 .. k - 1 /\ 0 .. k - 1 \subseteq m
  BY <1>3, <1>4
<1>. QED  BY <1>2, <1>6, <1>7

-----------------------------------------------------------------------------
(* Sums                                                                    *)

\* The recursion by which SumFunctionOnSet is defined, for a function sum.
SomeOf(s) == CHOOSE x \in s : TRUE
IsSum(sum, w, S) ==
    sum = [s \in SUBSET S |-> IF s = {} THEN 0 ELSE w[SomeOf(s)] + sum[s \ {SomeOf(s)}]]

\* The element that the recursion takes out of a set is in it.
LEMMA SomeOfIn == \A s : s # {} => SomeOf(s) \in s
  BY DEF SomeOf

\* Two functions that follow the recursion on all subsets of S agree on S.
LEMMA SumUnique ==
    ASSUME NEW S, IsFiniteSet(S), NEW w, NEW g, NEW h, IsSum(g, w, S), IsSum(h, w, S)
    PROVE  g[S] = h[S]
<1>1. \A s \in SUBSET S :
        /\ g[s] = IF s = {} THEN 0 ELSE w[SomeOf(s)] + g[s \ {SomeOf(s)}]
        /\ h[s] = IF s = {} THEN 0 ELSE w[SomeOf(s)] + h[s \ {SomeOf(s)}]
  <2>1. ASSUME NEW s \in SUBSET S
        PROVE  [t \in SUBSET S |-> IF t = {} THEN 0 ELSE w[SomeOf(t)] + g[t \ {SomeOf(t)}]][s]
                 = IF s = {} THEN 0 ELSE w[SomeOf(s)] + g[s \ {SomeOf(s)}]
    OBVIOUS
  <2>2. ASSUME NEW s \in SUBSET S
        PROVE  [t \in SUBSET S |-> IF t = {} THEN 0 ELSE w[SomeOf(t)] + h[t \ {SomeOf(t)}]][s]
                 = IF s = {} THEN 0 ELSE w[SomeOf(s)] + h[s \ {SomeOf(s)}]
    OBVIOUS
  <2>. QED  BY <2>1, <2>2 DEF IsSum
<1> DEFINE Bad == {s \in SUBSET S : g[s] # h[s]}
<1>. SUFFICES ASSUME Bad # {} PROVE FALSE
  OBVIOUS
<1>2. PICK m \in Bad : \A T \in Bad : T \subseteq m => T = m
  <2>1. Bad \subseteq SUBSET S
    OBVIOUS
  <2>. HIDE DEF Bad
  <2>. QED  BY <2>1, MinimalSubset
<1>3. m \in SUBSET S /\ m # {}
  BY <1>1
<1>4. m \ {SomeOf(m)} # m /\ m \ {SomeOf(m)} \in SUBSET S
  BY <1>3, SomeOfIn
<1>5. g[m \ {SomeOf(m)}] = h[m \ {SomeOf(m)}]
  BY <1>2, <1>4
<1>. QED  BY <1>1, <1>3, <1>5

\* There is such a function, so that the sum follows the recursion.
LEMMA SumStep ==
    ASSUME NEW S, IsFiniteSet(S), NEW w
    PROVE  SumFunctionOnSet(w, S) =
             IF S = {} THEN 0 ELSE w[SomeOf(S)] + SumFunctionOnSet(w, S \ {SomeOf(S)})
<1> DEFINE Sum(s) == SumFunctionOnSet(w, s)
           Rest(s) == IF s = {} THEN 0 ELSE w[SomeOf(s)] + Sum(s \ {SomeOf(s)})
           Bad == {s \in SUBSET S : Sum(s) # Rest(s)}
<1>. SUFFICES ASSUME Bad # {} PROVE FALSE
  OBVIOUS
<1>1. PICK m \in Bad : \A T \in Bad : T \subseteq m => T = m
  <2>1. Bad \subseteq SUBSET S
    OBVIOUS
  <2>. HIDE DEF Bad
  <2>. QED  BY <2>1, MinimalSubset
<1> DEFINE h == [s \in SUBSET m |-> IF s = m THEN Rest(m) ELSE Sum(s)]
<1>2. IsFiniteSet(m) /\ m \in SUBSET S
  BY FS_Subset
<1>3. \A s \in SUBSET m : s # m => Sum(s) = Rest(s)
  BY <1>1
<1>4. IsSum(h, w, m)
  <2>1. ASSUME NEW s \in SUBSET m
        PROVE  h[s] = IF s = {} THEN 0 ELSE w[SomeOf(s)] + h[s \ {SomeOf(s)}]
    <3>1. h[s] = Rest(s)
      BY <1>3
    <3>2. CASE s # {}
      <4>1. s \ {SomeOf(s)} \in SUBSET m /\ s \ {SomeOf(s)} # m
        BY <3>2, SomeOfIn
      <4>2. h[s \ {SomeOf(s)}] = Sum(s \ {SomeOf(s)})
        BY <4>1
      <4>. QED  BY <3>1, <3>2, <4>2
    <3>. QED  BY <3>1, <3>2
  <2>. QED  BY <2>1 DEF IsSum
<1>5. Sum(m) = (CHOOSE g : IsSum(g, w, m))[m]
  BY DEF SumFunctionOnSet, FoldFunctionOnSet, MapThenFoldSet, IsSum, SomeOf
<1>6. IsSum(CHOOSE g : IsSum(g, w, m), w, m)
  <2>. HIDE DEF h
  <2>. QED  BY <1>4
<1>7. Sum(m) = h[m]
  <2>. HIDE DEF h, Sum
  <2>. QED  BY <1>2, <1>4, <1>5, <1>6, SumUnique
<1>. QED  BY <1>7

\* A sum of integers is an integer.
LEMMA SumType ==
    ASSUME NEW S, IsFiniteSet(S), NEW w, \A x \in S : w[x] \in Int
    PROVE  SumFunctionOnSet(w, S) \in Int
<1> DEFINE Bad == {s \in SUBSET S : SumFunctionOnSet(w, s) \notin Int}
<1>. SUFFICES ASSUME Bad # {} PROVE FALSE
  OBVIOUS
<1>1. PICK m \in Bad : \A T \in Bad : T \subseteq m => T = m
  <2>1. Bad \subseteq SUBSET S
    OBVIOUS
  <2>. HIDE DEF Bad
  <2>. QED  BY <2>1, MinimalSubset
<1>2. /\ IsFiniteSet(m) /\ m \in SUBSET S
      /\ m # {} => SomeOf(m) \in m /\ m \ {SomeOf(m)} \in SUBSET S /\ m \ {SomeOf(m)} # m
  BY FS_Subset, SomeOfIn
<1>3. m # {} => SumFunctionOnSet(w, m \ {SomeOf(m)}) \in Int
  BY <1>1, <1>2
<1>4. SumFunctionOnSet(w, m) =
        IF m = {} THEN 0 ELSE w[SomeOf(m)] + SumFunctionOnSet(w, m \ {SomeOf(m)})
  BY <1>2, SumStep
<1>5. m # {} => w[SomeOf(m)] \in Int
  BY <1>2
<1>6. SumFunctionOnSet(w, m) \in Int
  <2>. HIDE DEF Bad
  <2>. QED  BY <1>3, <1>4, <1>5
<1>. QED  BY <1>6

\* Each element counts, and the order does not matter.
LEMMA SumRemove ==
    ASSUME NEW S, IsFiniteSet(S), NEW w, \A x \in S : w[x] \in Int, NEW e \in S
    PROVE  SumFunctionOnSet(w, S) = w[e] + SumFunctionOnSet(w, S \ {e})
<1> DEFINE Sum(s) == SumFunctionOnSet(w, s)
           Bad == {s \in SUBSET S : \E x \in s : Sum(s) # w[x] + Sum(s \ {x})}
<1>. SUFFICES ASSUME Bad # {} PROVE FALSE
  OBVIOUS
<1>1. PICK m \in Bad : \A T \in Bad : T \subseteq m => T = m
  <2>1. Bad \subseteq SUBSET S
    OBVIOUS
  <2>. HIDE DEF Bad
  <2>. QED  BY <2>1, MinimalSubset
<1>2. PICK x \in m : Sum(m) # w[x] + Sum(m \ {x})
  OBVIOUS
<1> DEFINE p == SomeOf(m)
<1>3. /\ m \in SUBSET S /\ p \in m
      /\ m \ {p} # m /\ m \ {p} \in SUBSET S
      /\ m \ {x} # m /\ m \ {x} \in SUBSET S
  BY SomeOfIn
<1>4. Sum(m) = w[p] + Sum(m \ {p})
  BY <1>3, SumStep, FS_Subset
<1>5. p # x /\ x \in m \ {p} /\ p \in m \ {x}
  BY <1>2, <1>3, <1>4
<1>6. m \ {p} \notin Bad /\ m \ {x} \notin Bad
  <2>. HIDE DEF Bad, p
  <2>. QED  BY <1>1, <1>3
<1>7. /\ Sum(m \ {p}) = w[x] + Sum((m \ {p}) \ {x})
      /\ Sum(m \ {x}) = w[p] + Sum((m \ {x}) \ {p})
  <2>. HIDE DEF Sum, p
  <2>. QED  BY <1>3, <1>5, <1>6
<1>8. (m \ {p}) \ {x} = (m \ {x}) \ {p}
  OBVIOUS
<1>9. Sum((m \ {p}) \ {x}) \in Int /\ w[x] \in Int /\ w[p] \in Int
  BY <1>3, FS_Subset, SumType
<1>10. Sum(m) = w[p] + (w[x] + Sum((m \ {p}) \ {x}))
  BY <1>4, <1>7
<1>11. w[x] + Sum(m \ {x}) = w[x] + (w[p] + Sum((m \ {p}) \ {x}))
  BY <1>7, <1>8
<1>12. \A a, b, c \in Int : a + (b + c) = b + (a + c)
  OBVIOUS
<1>. HIDE DEF Sum, p, Bad
<1>. QED  BY <1>2, <1>9, <1>10, <1>11, <1>12

\* A new element adds its weight.
LEMMA SumInsert ==
    ASSUME NEW S, IsFiniteSet(S), NEW w, NEW e, e \notin S,
           \A x \in S \union {e} : w[x] \in Int
    PROVE  SumFunctionOnSet(w, S \union {e}) = w[e] + SumFunctionOnSet(w, S)
<1>1. IsFiniteSet(S \union {e})
  BY FS_AddElement
<1>2. (S \union {e}) \ {e} = S
  OBVIOUS
<1>. QED  BY <1>1, <1>2, SumRemove

\* Weights in proportion have sums in proportion.
LEMMA SumScale ==
    ASSUME NEW S, IsFiniteSet(S), NEW w, NEW v, NEW k \in Int,
           \A x \in S : w[x] \in Int /\ v[x] = k * w[x]
    PROVE  SumFunctionOnSet(v, S) = k * SumFunctionOnSet(w, S)
<1> DEFINE Bad == {s \in SUBSET S : SumFunctionOnSet(v, s) # k * SumFunctionOnSet(w, s)}
<1>. SUFFICES ASSUME Bad # {} PROVE FALSE
  OBVIOUS
<1>1. PICK m \in Bad : \A T \in Bad : T \subseteq m => T = m
  <2>1. Bad \subseteq SUBSET S
    OBVIOUS
  <2>. HIDE DEF Bad
  <2>. QED  BY <2>1, MinimalSubset
<1> DEFINE p == SomeOf(m)
<1>2. IsFiniteSet(m) /\ m \in SUBSET S
  BY FS_Subset
<1>3. CASE m = {}
  <2>1. SumFunctionOnSet(v, m) = 0 /\ SumFunctionOnSet(w, m) = 0
    BY <1>2, <1>3, SumStep
  <2>. QED  BY <2>1
<1>4. CASE m # {}
  <2>1. p \in m /\ m \ {p} # m /\ m \ {p} \in SUBSET S /\ IsFiniteSet(m \ {p})
    BY <1>2, <1>4, SomeOfIn, FS_Subset
  <2>2. m \ {p} \notin Bad
    <3>. HIDE DEF Bad, p
    <3>. QED  BY <1>1, <2>1
  <2>3. /\ SumFunctionOnSet(v, m) = v[p] + SumFunctionOnSet(v, m \ {p})
        /\ SumFunctionOnSet(w, m) = w[p] + SumFunctionOnSet(w, m \ {p})
    BY <1>2, <1>4, SumStep
  <2>4. w[p] \in Int /\ SumFunctionOnSet(w, m \ {p}) \in Int
    BY <2>1, SumType
  <2>5. SumFunctionOnSet(v, m \ {p}) = k * SumFunctionOnSet(w, m \ {p})
    BY <2>1, <2>2
  <2>6. \A a, b \in Int : k * a + k * b = k * (a + b)
    OBVIOUS
  <2>7. SumFunctionOnSet(v, m) = k * SumFunctionOnSet(w, m)
    <3>1. v[p] = k * w[p]
      BY <2>1
    <3>. HIDE DEF p, Bad
    <3>. QED  BY <2>3, <2>4, <2>5, <2>6, <3>1
  <2>. QED  BY <2>7
<1>. QED  BY <1>3, <1>4

\* Sums of the same weights are the same.
LEMMA SumAgree ==
    ASSUME NEW S, IsFiniteSet(S), NEW w, NEW v,
           \A x \in S : w[x] \in Int /\ v[x] = w[x]
    PROVE  SumFunctionOnSet(v, S) = SumFunctionOnSet(w, S)
<1>1. \A x \in S : w[x] \in Int /\ v[x] = 1 * w[x]
  OBVIOUS
<1>2. SumFunctionOnSet(v, S) = 1 * SumFunctionOnSet(w, S)
  BY <1>1, SumScale
<1>. QED  BY <1>2, SumType

-----------------------------------------------------------------------------
(* Queues that some leave                                                  *)

\* f[n] is what is left of the first n of a queue when those in S leave.
IsFilter(f, q, S) ==
    f = [n \in 0 .. Len(q) |->
            IF n = 0 THEN <<>>
            ELSE IF q[n] \in S THEN f[n - 1] ELSE Append(f[n - 1], q[n])]

\* r keeps, in their order, those of the first n of q that are not in S: h says
\* where they stood.
Keeps(h, r, q, n, S) ==
    /\ h \in [1 .. Len(r) -> 1 .. n]
    /\ \A i, j \in 1 .. Len(r) : i < j => h[i] < h[j]
    /\ \A j \in 1 .. Len(r) : r[j] = q[h[j]] /\ j <= h[j] /\ q[h[j]] \notin S
    /\ \A i \in 1 .. n : q[i] \notin S => \E j \in 1 .. Len(r) : h[j] = i

\* There is such a function.
LEMMA FilterExists ==
    ASSUME NEW q, NEW S, Len(q) \in Nat
    PROVE  \E f : IsFilter(f, q, S)
<1> DEFINE N == Len(q)
           Rule(f, n) == IF n = 0 THEN <<>>
                         ELSE IF q[n] \in S THEN f[n - 1] ELSE Append(f[n - 1], q[n])
           Good == {m \in 0 .. N : \E f : f = [n \in 0 .. m |-> Rule(f, n)]}
<1>1. 0 \in Good
  <2> DEFINE f == [n \in 0 .. 0 |-> <<>>]
  <2>1. f = [n \in 0 .. 0 |-> Rule(f, n)]
    OBVIOUS
  <2>. HIDE DEF f, Rule
  <2>. QED  BY <2>1
<1>2. ASSUME NEW m \in 0 .. N - 1, m \in Good PROVE m + 1 \in Good
  <2>1. PICK f : f = [n \in 0 .. m |-> Rule(f, n)]
    BY <1>2
  <2> DEFINE g == [n \in 0 .. m + 1 |-> IF n = m + 1 THEN Rule(f, m + 1) ELSE f[n]]
  <2>2. \A n \in 0 .. m + 1 : g[n] = Rule(g, n)
    <3>1. \A n \in 0 .. m : f[n] = Rule(f, n) /\ g[n] = f[n]
      <4> DEFINE f2 == [n \in 0 .. m |-> Rule(f, n)]
      <4>1. \A n \in 0 .. m : f2[n] = Rule(f, n)
        <5>. HIDE DEF Rule
        <5>. QED  OBVIOUS
      <4>2. f = f2
        BY <2>1
      <4>3. \A n \in 0 .. m : n \in 0 .. m + 1 /\ n # m + 1
        OBVIOUS
      <4>4. \A n \in 0 .. m : g[n] = f[n]
        <5>. HIDE DEF Rule
        <5>. QED  BY <4>3
      <4>. HIDE DEF f2, g, Rule
      <4>. QED  BY <4>1, <4>2, <4>4
    <3>2. \A n \in 1 .. m + 1 : n - 1 \in 0 .. m
      OBVIOUS
    <3>3. \A n \in 0 .. m + 1 : Rule(g, n) = Rule(f, n)
      BY <3>1, <3>2
    <3>4. g[m + 1] = Rule(f, m + 1)
      OBVIOUS
    <3>5. \A n \in 0 .. m + 1 : n \in 0 .. m \/ n = m + 1
      OBVIOUS
    <3>. HIDE DEF g, Rule
    <3>. QED  BY <3>1, <3>3, <3>4, <3>5
  <2>3. g = [n \in 0 .. m + 1 |-> Rule(g, n)]
    BY <2>2
  <2>. HIDE DEF g, Rule
  <2>. QED  BY <2>3
<1>3. 0 .. N \subseteq Good
  <2>. HIDE DEF Good, N
  <2>. QED  BY <1>1, <1>2, BoundedInduction DEF N
<1>. QED  BY <1>3 DEF IsFilter

\* What the recursion leaves of a queue are those not in S, in their order.
LEMMA FilterKeeps ==
    ASSUME NEW T, NEW q \in Seq(T), NEW S, NEW f, IsFilter(f, q, S)
    PROVE  f[Len(q)] \in Seq(T) /\ \E h : Keeps(h, f[Len(q)], q, Len(q), S)
<1> DEFINE N == Len(q)
           Good == {n \in 0 .. N : /\ f[n] \in Seq(T) /\ Len(f[n]) <= n
                                   /\ \E h : Keeps(h, f[n], q, n, S)}
<1>1. /\ N \in Nat /\ \A n \in 1 .. N : q[n] \in T
      /\ f[0] = <<>>
      /\ \A n \in 0 .. N - 1 : f[n + 1] = IF q[n + 1] \in S THEN f[n] ELSE Append(f[n], q[n + 1])
  <2>1. N \in Nat /\ \A n \in 1 .. N : q[n] \in T
    OBVIOUS
  <2>2. \A n \in 0 .. N : f[n] = IF n = 0 THEN <<>>
                                 ELSE IF q[n] \in S THEN f[n - 1] ELSE Append(f[n - 1], q[n])
    <3> DEFINE g == [n \in 0 .. N |-> IF n = 0 THEN <<>>
                        ELSE IF q[n] \in S THEN f[n - 1] ELSE Append(f[n - 1], q[n])]
    <3>1. \A n \in 0 .. N : g[n] = IF n = 0 THEN <<>>
                                 ELSE IF q[n] \in S THEN f[n - 1] ELSE Append(f[n - 1], q[n])
      OBVIOUS
    <3>2. f = g
      BY DEF IsFilter
    <3>. QED  BY <3>1, <3>2
  <2>3. \A n \in 0 .. N - 1 : n + 1 \in 0 .. N /\ n + 1 # 0 /\ (n + 1) - 1 = n
    BY <2>1
  <2>. HIDE DEF N
  <2>. QED  BY <2>1, <2>2, <2>3
<1>2. 0 \in Good
  <2>1. <<>> \in Seq(T) /\ Len(<<>>) = 0
    OBVIOUS
  <2>2. Keeps(<<>>, <<>>, q, 0, S)
    BY DEF Keeps
  <2>3. f[0] \in Seq(T) /\ Len(f[0]) <= 0 /\ \E h : Keeps(h, f[0], q, 0, S)
    BY <1>1, <2>1, <2>2
  <2>4. 0 \in 0 .. N
    BY <1>1
  <2>. HIDE DEF N
  <2>. QED  BY <2>3, <2>4
<1>3. ASSUME NEW n \in 0 .. N - 1, n \in Good PROVE n + 1 \in Good
  <2> DEFINE r == f[n]
             e == q[n + 1]
  <2>1. PICK h : Keeps(h, r, q, n, S)
    BY <1>3
  <2>2. r \in Seq(T) /\ Len(r) \in Nat /\ Len(r) <= n /\ n \in Nat /\ n + 1 \in 0 .. N
        /\ e \in T
    BY <1>1, <1>3
  <2>3. CASE e \in S
    <3>1. f[n + 1] = r
      BY <1>1, <2>3
    <3>2. Keeps(h, r, q, n + 1, S)
      BY <2>1, <2>2, <2>3 DEF Keeps
    <3>. HIDE DEF r
    <3>. QED  BY <2>2, <3>1, <3>2
  <2>4. CASE e \notin S
    <3> DEFINE L == Len(r)
               r2 == Append(r, e)
               g == [j \in 1 .. L + 1 |-> IF j = L + 1 THEN n + 1 ELSE h[j]]
    <3>1. /\ f[n + 1] = r2 /\ r2 \in Seq(T) /\ Len(r2) = L + 1
          /\ \A j \in 1 .. L : r2[j] = r[j]
          /\ r2[L + 1] = e
      <4>1. f[n + 1] = r2
        BY <1>1, <2>4
      <4>. HIDE DEF r, e
      <4>. QED  BY <2>2, <4>1
    <3>2. /\ \A j \in 1 .. L : g[j] = h[j] /\ h[j] \in 1 .. n
          /\ g[L + 1] = n + 1
          /\ \A j \in 1 .. L + 1 : j = L + 1 \/ j \in 1 .. L
      <4>1. L \in Nat
        BY <2>2
      <4>2. \A j \in 1 .. L : j \in 1 .. L + 1 /\ j # L + 1 /\ h[j] \in 1 .. n
        <5>1. \A j \in 1 .. L : h[j] \in 1 .. n
          BY <2>1 DEF Keeps
        <5>. HIDE DEF L
        <5>. QED  BY <4>1, <5>1
      <4>3. L + 1 \in 1 .. L + 1 /\ \A j \in 1 .. L + 1 : j = L + 1 \/ j \in 1 .. L
        BY <4>1
      <4>. HIDE DEF L
      <4>. QED  BY <4>2, <4>3
    <3>3. g \in [1 .. L + 1 -> 1 .. n + 1]
      <4>1. \A j \in 1 .. L + 1 : g[j] \in 1 .. n + 1
        <5>. HIDE DEF g, L
        <5>. QED  BY <2>2, <3>2
      <4>. HIDE DEF L
      <4>. QED  BY <4>1
    <3>. HIDE DEF g, r, r2, e, L
    <3>9. L \in Nat /\ n \in Nat
      BY <2>2 DEF L
    <3>4. \A i, j \in 1 .. L + 1 : i < j => g[i] < g[j]
      <4>1. \A i, j \in 1 .. L : i < j => g[i] < g[j]
        BY <2>1, <3>2 DEF Keeps, L
      <4>2. \A i \in 1 .. L : g[i] \in 1 .. n /\ g[i] < g[L + 1] /\ ~(L + 1 < i)
        BY <3>2, <3>9
      <4>. QED  BY <3>2, <3>9, <4>1, <4>2
    <3>5. \A j \in 1 .. L + 1 : r2[j] = q[g[j]] /\ j <= g[j] /\ q[g[j]] \notin S
      <4>1. \A j \in 1 .. L : r2[j] = q[g[j]] /\ j <= g[j] /\ q[g[j]] \notin S
        BY <2>1, <3>1, <3>2 DEF Keeps, L
      <4>2. r2[L + 1] = q[g[L + 1]] /\ L + 1 <= g[L + 1] /\ q[g[L + 1]] \notin S
        BY <2>2, <2>4, <3>1, <3>2 DEF e, L
      <4>. QED  BY <3>2, <4>1, <4>2
    <3>6. \A i \in 1 .. n + 1 : q[i] \notin S => \E j \in 1 .. L + 1 : g[j] = i
      <4>1. \A i \in 1 .. n : q[i] \notin S => \E j \in 1 .. L : g[j] = i
        BY <2>1, <3>2 DEF Keeps, L
      <4>2. L \in Nat /\ 1 .. L \subseteq 1 .. L + 1 /\ L + 1 \in 1 .. L + 1
        BY <2>2 DEF L
      <4>. QED  BY <2>2, <3>2, <4>1, <4>2
    <3>7. Keeps(g, r2, q, n + 1, S)
      BY <3>1, <3>3, <3>4, <3>5, <3>6 DEF Keeps
    <3>8. Len(r2) <= n + 1
      BY <2>2, <3>1 DEF L
    <3>. QED  BY <2>2, <3>1, <3>7, <3>8
  <2>. QED  BY <2>3, <2>4
<1>4. N \in Good
  <2>1. 0 .. N \subseteq Good
    <3>. HIDE DEF Good, N
    <3>. QED  BY <1>1, <1>2, <1>3, BoundedInduction
  <2>. HIDE DEF Good
  <2>. QED  BY <1>1, <2>1
<1>. QED  BY <1>4

\* Those kept are the members not in S, each as often as before.
LEMMA KeepsRange ==
    ASSUME NEW T, NEW q \in Seq(T), NEW r \in Seq(T), NEW S, NEW h, Keeps(h, r, q, Len(q), S)
    PROVE  /\ Range(r) = Range(q) \ S
           /\ IsInjective(q) => IsInjective(r)
<1>1. /\ DOMAIN q = 1 .. Len(q) /\ DOMAIN r = 1 .. Len(r)
      /\ Len(q) \in Nat /\ Len(r) \in Nat
  OBVIOUS
<1>2. \A x \in Range(r) : x \in Range(q) \ S
  <2>1. \A j \in 1 .. Len(r) : h[j] \in 1 .. Len(q) /\ r[j] = q[h[j]] /\ q[h[j]] \notin S
    BY DEF Keeps
  <2>. QED  BY <1>1, <2>1 DEF Range
<1>3. \A x \in Range(q) \ S : x \in Range(r)
  <2>1. \A i \in 1 .. Len(q) : q[i] \notin S => \E j \in 1 .. Len(r) : r[j] = q[i]
    BY DEF Keeps
  <2>. QED  BY <1>1, <2>1 DEF Range
<1>4. ASSUME IsInjective(q) PROVE IsInjective(r)
  <2>. SUFFICES ASSUME NEW i \in 1 .. Len(r), NEW j \in 1 .. Len(r), r[i] = r[j] PROVE i = j
    BY <1>1 DEF IsInjective
  <2>1. h[i] \in 1 .. Len(q) /\ h[j] \in 1 .. Len(q) /\ q[h[i]] = q[h[j]]
    BY DEF Keeps
  <2>2. h[i] = h[j]
    BY <1>1, <1>4, <2>1 DEF IsInjective
  <2>3. ~(i < j) /\ ~(j < i)
    BY <2>1, <2>2 DEF Keeps
  <2>. QED  BY <1>1, <2>3
<1>. QED  BY <1>2, <1>3, <1>4

\* The members of a queue behind its first n.
Beyond(q, n) == {q[i] : i \in {j \in DOMAIN q : j > n}}

\* They are as many as there are places.
LEMMA BeyondCount ==
    ASSUME NEW T, NEW q \in Seq(T), IsInjective(q), NEW n \in Nat
    PROVE  /\ IsFiniteSet(Beyond(q, n))
           /\ Cardinality(Beyond(q, n)) = IF n < Len(q) THEN Len(q) - n ELSE 0
<1> DEFINE I == n + 1 .. Len(q)
           f == [i \in I |-> q[i]]
<1>1. DOMAIN q = 1 .. Len(q) /\ Len(q) \in Nat
  OBVIOUS
<1>2. I = {j \in DOMAIN q : j > n}
  BY <1>1
<1>3. IsFiniteSet(I) /\ Cardinality(I) = IF n < Len(q) THEN Len(q) - n ELSE 0
  <2>1. IsFiniteSet(I) /\ Cardinality(I) = IF n + 1 > Len(q) THEN 0 ELSE Len(q) - (n + 1) + 1
    <3>1. n + 1 \in Int /\ Len(q) \in Int
      OBVIOUS
    <3>. QED  BY <3>1, FS_Interval
  <2>. HIDE DEF I
  <2>. QED  BY <1>1, <2>1
<1>4. f \in Bijection(I, Beyond(q, n))
  <2>1. f \in [I -> Beyond(q, n)]
    BY <1>2 DEF Beyond
  <2>2. \A i, j \in I : f[i] = f[j] => i = j
    BY <1>2 DEF IsInjective
  <2>3. \A x \in Beyond(q, n) : \E i \in I : f[i] = x
    BY <1>2 DEF Beyond
  <2>. HIDE DEF f, I
  <2>. QED  BY <2>1, <2>2, <2>3 DEF Bijection, Injection, IsInjective, Surjection
<1>5. ExistsBijection(I, Beyond(q, n))
  BY <1>4 DEF ExistsBijection
<1>. HIDE DEF I
<1>. QED  BY <1>3, <1>5, FS_Bijection

\* When some leave, a place further back is reached by as many members fewer
\* at most, and by nobody new.
LEMMA LeaversBound ==
    ASSUME NEW T, NEW q \in Seq(T), NEW r \in Seq(T), NEW S, NEW h,
           Keeps(h, r, q, Len(q), S), IsInjective(q), NEW n \in Nat
    PROVE  /\ Beyond(r, n) \subseteq Beyond(q, n)
           /\ IsFiniteSet(Beyond(q, n) \ Beyond(r, n))
           /\ IsFiniteSet(S \intersect Range(q))
           /\ Cardinality(Beyond(q, n) \ Beyond(r, n)) <= Cardinality(S \intersect Range(q))
<1>1. /\ DOMAIN q = 1 .. Len(q) /\ DOMAIN r = 1 .. Len(r)
      /\ Len(q) \in Nat /\ Len(r) \in Nat
  OBVIOUS
<1>2. Range(r) = Range(q) \ S /\ IsInjective(r)
  BY KeepsRange
<1>3. Beyond(r, n) \subseteq Beyond(q, n)
  <2>. SUFFICES ASSUME NEW j \in 1 .. Len(r), j > n PROVE r[j] \in Beyond(q, n)
    BY <1>1 DEF Beyond
  <2>1. h[j] \in 1 .. Len(q) /\ r[j] = q[h[j]] /\ j <= h[j]
    BY DEF Keeps
  <2>2. h[j] > n
    BY <2>1
  <2>. QED  BY <1>1, <2>1, <2>2 DEF Beyond
<1>4. Range(q) = Beyond(q, 0) /\ Range(r) = Beyond(r, 0)
  BY <1>1 DEF Beyond, Range
<1>5. /\ IsFiniteSet(Range(q)) /\ Cardinality(Range(q)) = Len(q)
      /\ IsFiniteSet(Range(r)) /\ Cardinality(Range(r)) = Len(r)
  <2>1. /\ IsFiniteSet(Beyond(q, 0)) /\ Cardinality(Beyond(q, 0)) = IF 0 < Len(q) THEN Len(q) - 0 ELSE 0
        /\ IsFiniteSet(Beyond(r, 0)) /\ Cardinality(Beyond(r, 0)) = IF 0 < Len(r) THEN Len(r) - 0 ELSE 0
    BY <1>2, BeyondCount
  <2>. QED  BY <1>1, <1>4, <2>1
<1>6. /\ IsFiniteSet(S \intersect Range(q)) /\ Cardinality(S \intersect Range(q)) \in Nat
      /\ Cardinality(Range(r)) = Cardinality(Range(q)) - Cardinality(Range(q) \intersect S)
      /\ Range(q) \intersect S = S \intersect Range(q)
  BY <1>2, <1>5, FS_Difference, FS_Intersection, FS_CardinalityType
<1>7. /\ IsFiniteSet(Beyond(q, n)) /\ IsFiniteSet(Beyond(r, n))
      /\ Cardinality(Beyond(q, n)) = IF n < Len(q) THEN Len(q) - n ELSE 0
      /\ Cardinality(Beyond(r, n)) = IF n < Len(r) THEN Len(r) - n ELSE 0
  BY <1>2, BeyondCount
<1>8. /\ IsFiniteSet(Beyond(q, n) \ Beyond(r, n))
      /\ Cardinality(Beyond(q, n) \ Beyond(r, n))
            = Cardinality(Beyond(q, n)) - Cardinality(Beyond(q, n) \intersect Beyond(r, n))
  BY <1>7, FS_Difference
<1>9. Beyond(q, n) \intersect Beyond(r, n) = Beyond(r, n)
  BY <1>3
<1>10. Cardinality(Beyond(q, n) \ Beyond(r, n)) <= Cardinality(S \intersect Range(q))
  <2> DEFINE k == Cardinality(S \intersect Range(q))
  <2>1. k \in Nat /\ Len(r) = Len(q) - k
    BY <1>5, <1>6
  <2>2. Cardinality(Beyond(q, n) \ Beyond(r, n))
          = (IF n < Len(q) THEN Len(q) - n ELSE 0) - (IF n < Len(r) THEN Len(r) - n ELSE 0)
    BY <1>7, <1>8, <1>9
  <2>. HIDE DEF k
  <2>3. Cardinality(Beyond(q, n) \ Beyond(r, n)) <= k
    BY <1>1, <2>1, <2>2
  <2>. QED  BY <2>3 DEF k
<1>. QED  BY <1>3, <1>6, <1>8, <1>10

\* The places behind the end, and behind one place more.
LEMMA BeyondStep ==
    ASSUME NEW T, NEW q \in Seq(T), IsInjective(q), NEW n \in Nat
    PROVE  /\ n < Len(q) => /\ Beyond(q, n) = {q[n + 1]} \union Beyond(q, n + 1)
                            /\ q[n + 1] \notin Beyond(q, n + 1)
           /\ n >= Len(q) => Beyond(q, n) = {}
           /\ Range(q) = Beyond(q, 0)
<1>1. DOMAIN q = 1 .. Len(q) /\ Len(q) \in Nat
  OBVIOUS
<1>2. ASSUME n < Len(q) PROVE Beyond(q, n) = {q[n + 1]} \union Beyond(q, n + 1)
  <2>1. {j \in DOMAIN q : j > n} = {n + 1} \union {j \in DOMAIN q : j > n + 1}
    BY <1>1, <1>2
  <2>. QED  BY <2>1 DEF Beyond
<1>3. ASSUME n < Len(q), q[n + 1] \in Beyond(q, n + 1) PROVE FALSE
  <2>1. PICK j \in DOMAIN q : j > n + 1 /\ q[j] = q[n + 1]
    BY <1>3 DEF Beyond
  <2>2. n + 1 \in DOMAIN q
    BY <1>1, <1>3
  <2>3. j = n + 1
    BY <2>1, <2>2 DEF IsInjective
  <2>. QED  BY <1>1, <2>1, <2>3
<1>4. n >= Len(q) => Beyond(q, n) = {}
  BY <1>1 DEF Beyond
<1>5. Range(q) = Beyond(q, 0)
  BY <1>1 DEF Beyond, Range
<1>. QED  BY <1>2, <1>3, <1>4, <1>5

\* Whoever joins is behind all others.
LEMMA BeyondAppend ==
    ASSUME NEW T, NEW q \in Seq(T), NEW e \in T, NEW n \in Nat
    PROVE  /\ Beyond(q, n) \subseteq Beyond(Append(q, e), n)
           /\ Beyond(Append(q, e), n) \subseteq Beyond(q, n) \union {e}
<1>1. /\ DOMAIN q = 1 .. Len(q) /\ Len(q) \in Nat
      /\ DOMAIN Append(q, e) = 1 .. Len(q) + 1 /\ Append(q, e)[Len(q) + 1] = e
      /\ \A i \in 1 .. Len(q) : Append(q, e)[i] = q[i]
  OBVIOUS
<1>2. ASSUME NEW i \in DOMAIN q, i > n PROVE q[i] \in Beyond(Append(q, e), n)
  <2>1. i \in DOMAIN Append(q, e) /\ q[i] = Append(q, e)[i]
    BY <1>1
  <2>. QED  BY <1>2, <2>1 DEF Beyond
<1>3. ASSUME NEW i \in DOMAIN Append(q, e), i > n
      PROVE  Append(q, e)[i] \in Beyond(q, n) \union {e}
  <2>1. i = Len(q) + 1 \/ (i \in DOMAIN q /\ Append(q, e)[i] = q[i])
    BY <1>1
  <2>. QED  BY <1>1, <1>3, <2>1 DEF Beyond
<1>. QED  BY <1>2, <1>3 DEF Beyond

-----------------------------------------------------------------------------
(* Integers                                                                *)

\* A product is monotonic in its first factor when the second is not negative.
LEMMA Monotonic ==
    ASSUME NEW m \in Int, NEW n \in Int, NEW k \in Nat, m <= n
    PROVE  m * k <= n * k
<1>1. n - m \in Nat
  OBVIOUS
<1>2. (n - m) * k \in Nat
  BY <1>1
<1>3. (n - m) * k = n * k - m * k
  OBVIOUS
<1>4. m * k \in Int /\ n * k \in Int
  OBVIOUS
<1>. QED  BY <1>2, <1>3, <1>4

\* A product with a positive factor orders as its first factors do.
LEMMA Cancel ==
    ASSUME NEW m \in Int, NEW n \in Int, NEW k \in Nat \ {0}
    PROVE  m * k < n * k <=> m < n
<1>1. m >= n => ~(m * k < n * k)
  <2>1. m >= n => n * k <= m * k
    BY Monotonic
  <2>. QED  BY <2>1
<1>2. m < n => m * k < n * k
  <2>1. SUFFICES ASSUME m < n PROVE m * k < n * k
    OBVIOUS
  <2>2. (m + 1) * k <= n * k
    BY <2>1, Monotonic
  <2>3. (m + 1) * k = m * k + k
    OBVIOUS
  <2>. QED  BY <2>2, <2>3
<1>. QED  BY <1>1, <1>2

\* A factor divides its product exactly.
LEMMA ExactDivision ==
    ASSUME NEW n \in Int, NEW k \in Nat \ {0}
    PROVE  (n * k) \div k = n
<1> DEFINE d == (n * k) \div k
           r == (n * k) % k
<1>1. d \in Int /\ r \in 0 .. k - 1 /\ n * k = k * d + r /\ n * k \in Int
  OBVIOUS
<1>. HIDE DEF d, r
<1>2. d * k <= n * k /\ n * k < (d + 1) * k
  <2>1. (d + 1) * k = k * d + k /\ d * k = k * d /\ k * d \in Int
    BY <1>1
  <2>. QED  BY <1>1, <2>1
<1>3. n < d + 1
  BY <1>1, <1>2, Cancel
<1>4. ~(n < d)
  BY <1>1, <1>2, Cancel
<1>. QED  BY <1>1, <1>3, <1>4 DEF d
=============================================================================
