------------------------------ MODULE QueueLemmas ------------------------------
(* What the operations of QueueOps do to a queue that holds no id twice.       *)
EXTENDS QueueOps, FiniteSetTheorems, SequenceTheorems, WellFoundedInduction, TLAPS

\* What VecDeque::retain leaves of a queue without repetition: the ids to
\* keep, each once.
LEMMA RetainedKeeps ==
    ASSUME NEW S, NEW q \in Seq(S), IsInjective(q), NEW keep, NEW r \in Retained(q, keep)
    PROVE  r \in Seq(S) /\ IsInjective(r) /\ Range(r) = Range(q) \cap keep
<1> DEFINE kept == {i \in DOMAIN q : q[i] \in keep}
           n    == Cardinality(kept)
<1>1. /\ Len(q) \in Nat /\ DOMAIN q = 1..Len(q)
      /\ \A i \in 1..Len(q) : q[i] \in S
    BY LenProperties, ElementOfSeq
<1>2. IsFiniteSet(1..Len(q))
    BY <1>1, FS_Interval
<1>3. n \in Nat
    <2>1. kept \subseteq 1..Len(q)
        BY <1>1
    <2>2. IsFiniteSet(kept)
        BY <2>1, <1>2, FS_Subset
    <2> QED BY <2>2, FS_CardinalityType
<1>4. PICK f \in Bijection(1..n, kept) : r = [i \in 1..n |-> q[f[i]]]
    BY DEF Retained
<1>5. /\ f \in [1..n -> kept]
      /\ \A i, j \in 1..n : f[i] = f[j] => i = j
      /\ \A k \in kept : \E i \in 1..n : f[i] = k
    BY <1>4 DEF Bijection, Injection, Surjection, IsInjective
<1>6. r \in [1..n -> S]
    BY <1>1, <1>4, <1>5
<1>7. r \in Seq(S)
    <2>1. \A k \in Nat : [1..k -> S] \subseteq Seq(S)
        BY SeqDef
    <2>2. [1..n -> S] \subseteq Seq(S)
        BY <1>3, <2>1
    <2> QED BY <1>6, <2>2
<1>8. IsInjective(r)
    <2> SUFFICES ASSUME NEW i \in 1..n, NEW j \in 1..n, r[i] = r[j] PROVE i = j
        BY <1>6 DEF IsInjective
    <2>1. q[f[i]] = q[f[j]] /\ f[i] \in DOMAIN q /\ f[j] \in DOMAIN q
        BY <1>4, <1>5
    <2>2. f[i] = f[j]
        BY <2>1 DEF IsInjective
    <2> QED BY <2>2, <1>5
<1>9. Range(r) = Range(q) \cap keep
    <2>1. ASSUME NEW x \in Range(r) PROVE x \in Range(q) \cap keep
        <3>1. PICK i \in 1..n : x = q[f[i]]
            BY <2>1, <1>4 DEF Range
        <3> QED BY <3>1, <1>5 DEF Range
    <2>2. ASSUME NEW x \in Range(q) \cap keep PROVE x \in Range(r)
        <3>1. PICK k \in DOMAIN q : x = q[k]
            BY <2>2 DEF Range
        <3>2. k \in kept
            BY <3>1, <2>2
        <3>3. PICK i \in 1..n : f[i] = k
            BY <3>2, <1>5
        <3>4. x = r[i] /\ i \in DOMAIN r
            BY <3>1, <3>3, <1>4
        <3> QED BY <3>4 DEF Range
    <2> QED BY <2>1, <2>2
<1> QED BY <1>7, <1>8, <1>9

\* The ids that load_state appends: all of them, each once.
LEMMA OrderingsAreComplete ==
    ASSUME NEW S, IsFiniteSet(S), NEW s \in Orderings(S)
    PROVE  s \in Seq(S) /\ IsInjective(s) /\ Range(s) = S
<1>1. Cardinality(S) \in Nat
    BY FS_CardinalityType
<1>2. /\ s \in [1..Cardinality(S) -> S]
      /\ IsInjective(s)
      /\ \A x \in S : \E i \in 1..Cardinality(S) : s[i] = x
    BY DEF Orderings, Bijection, Injection, Surjection
<1>3. s \in Seq(S)
    BY <1>1, <1>2, SeqDef
<1>4. Range(s) = S
    BY <1>2 DEF Range
<1> QED BY <1>2, <1>3, <1>4

\* Two queues without repetition and without a common id.
LEMMA ConcatInjective ==
    ASSUME NEW S, NEW s \in Seq(S), NEW t \in Seq(S),
           IsInjective(s), IsInjective(t), Range(s) \cap Range(t) = {}
    PROVE  IsInjective(s \o t)
<1>1. /\ Len(s) \in Nat /\ Len(t) \in Nat
      /\ DOMAIN s = 1..Len(s) /\ DOMAIN t = 1..Len(t)
      /\ DOMAIN (s \o t) = 1..(Len(s) + Len(t))
    BY LenProperties, ConcatProperties
<1>2. \A i \in 1..Len(s) : (s \o t)[i] = s[i] /\ s[i] \in Range(s)
    BY <1>1 DEF Range
<1>3. \A i \in (Len(s)+1)..(Len(s) + Len(t)) :
          (s \o t)[i] = t[i - Len(s)] /\ i - Len(s) \in 1..Len(t) /\ t[i - Len(s)] \in Range(t)
    BY <1>1 DEF Range
<1> SUFFICES ASSUME NEW i \in DOMAIN (s \o t), NEW j \in DOMAIN (s \o t),
                    (s \o t)[i] = (s \o t)[j]
             PROVE  i = j
    BY DEF IsInjective
<1>4. CASE i \in 1..Len(s) /\ j \in 1..Len(s)
    BY <1>4, <1>1, <1>2 DEF IsInjective
<1>5. CASE i \notin 1..Len(s) /\ j \notin 1..Len(s)
    <2>1. i \in (Len(s)+1)..(Len(s) + Len(t)) /\ j \in (Len(s)+1)..(Len(s) + Len(t))
        BY <1>5, <1>1
    <2>2. t[i - Len(s)] = t[j - Len(s)]
        BY <2>1, <1>3
    <2>3. i - Len(s) = j - Len(s)
        BY <2>1, <2>2, <1>1, <1>3 DEF IsInjective
    <2> QED BY <2>1, <2>3, <1>1
<1>6. CASE i \in 1..Len(s) /\ j \notin 1..Len(s)
    BY <1>6, <1>1, <1>2, <1>3
<1>7. CASE i \notin 1..Len(s) /\ j \in 1..Len(s)
    BY <1>7, <1>1, <1>2, <1>3
<1> QED BY <1>4, <1>5, <1>6, <1>7

\* push_back of a new id.
LEMMA AppendFresh ==
    ASSUME NEW S, NEW q \in Seq(S), NEW x \in S, IsInjective(q), x \notin Range(q)
    PROVE  /\ Append(q, x) \in Seq(S) /\ IsInjective(Append(q, x))
           /\ Range(Append(q, x)) = Range(q) \cup {x}
<1>1. Append(q, x) = q \o <<x>> /\ <<x>> \in Seq(S) /\ Append(q, x) \in Seq(S)
    BY AppendIsConcat, AppendProperties
<1>2. IsInjective(<<x>>) /\ Range(<<x>>) = {x}
    BY DEF IsInjective, Range
<1>3. Range(q) \cap Range(<<x>>) = {}
    BY <1>2
<1>4. IsInjective(q \o <<x>>)
    BY <1>1, <1>2, <1>3, ConcatInjective
<1>5. Range(q \o <<x>>) = Range(q) \cup {x}
    <2> DEFINE y == <<x>>
    <2>1. y \in Seq(S) /\ Range(y) = {x}
        BY <1>1, <1>2
    <2> HIDE DEF y
    <2>2. Range(q \o y) = Range(q) \cup Range(y)
        BY <2>1, RangeConcatenation
    <2> QED BY <2>1, <2>2 DEF y
<1> QED BY <1>1, <1>4, <1>5

\* pop_front takes one id out and leaves the others.
LEMMA TailDrops ==
    ASSUME NEW S, NEW q \in Seq(S), q # <<>>, IsInjective(q)
    PROVE  /\ Head(q) \in S /\ Head(q) \in Range(q)
           /\ Tail(q) \in Seq(S) /\ IsInjective(Tail(q))
           /\ Range(Tail(q)) = Range(q) \ {Head(q)}
<1>1. /\ Len(q) \in Nat \ {0} /\ DOMAIN q = 1..Len(q) /\ Head(q) = q[1]
      /\ Head(q) \in S /\ Tail(q) \in Seq(S)
      /\ Len(Tail(q)) = Len(q) - 1 /\ DOMAIN Tail(q) = 1..(Len(q) - 1)
      /\ \A i \in 1..(Len(q) - 1) : Tail(q)[i] = q[i+1]
    BY LenProperties, HeadTailProperties, EmptySeq
<1>2. Head(q) \in Range(q)
    BY <1>1 DEF Range
<1>3. IsInjective(Tail(q))
    <2> SUFFICES ASSUME NEW i \in 1..(Len(q)-1), NEW j \in 1..(Len(q)-1),
                        Tail(q)[i] = Tail(q)[j]
                 PROVE  i = j
        BY <1>1 DEF IsInjective
    <2>1. q[i+1] = q[j+1] /\ i+1 \in DOMAIN q /\ j+1 \in DOMAIN q
        BY <1>1
    <2>2. i+1 = j+1
        BY <2>1 DEF IsInjective
    <2> QED BY <2>2
<1>4. Range(Tail(q)) = Range(q) \ {Head(q)}
    <2>1. ASSUME NEW x \in Range(Tail(q)) PROVE x \in Range(q) \ {Head(q)}
        <3>1. PICK i \in 1..(Len(q)-1) : x = q[i+1]
            BY <2>1, <1>1 DEF Range
        <3>2. i+1 \in DOMAIN q /\ 1 \in DOMAIN q /\ i+1 # 1
            BY <1>1
        <3>3. x # q[1]
            BY <3>1, <3>2 DEF IsInjective
        <3> QED BY <3>1, <3>2, <3>3, <1>1 DEF Range
    <2>2. ASSUME NEW x \in Range(q) \ {Head(q)} PROVE x \in Range(Tail(q))
        <3>1. PICK i \in 1..Len(q) : x = q[i]
            BY <2>2, <1>1 DEF Range
        <3>2. i # 1
            BY <3>1, <2>2, <1>1
        <3>3. i-1 \in 1..(Len(q)-1) /\ Tail(q)[i-1] = x
            BY <3>1, <3>2, <1>1
        <3> QED BY <3>3, <1>1 DEF Range
    <2> QED BY <2>1, <2>2
<1> QED BY <1>1, <1>2, <1>3, <1>4

\* Taking the first entry leaves the last one, unless it is the only one.
LEMMA TailKeepsLast ==
    ASSUME NEW S, NEW q \in Seq(S), q # <<>>
    PROVE  /\ Tail(q) = <<>> => Head(q) = q[Len(q)]
           /\ Tail(q) # <<>> => Tail(q)[Len(Tail(q))] = q[Len(q)]
<1> DEFINE n == Len(q)
           r == Tail(q)
<1>1. /\ n \in Nat /\ n >= 1 /\ r \in Seq(S) /\ Len(r) = n - 1
      /\ Head(q) = q[1] /\ \A i \in 1..Len(r) : r[i] = q[i + 1]
    BY HeadTailProperties
<1>2. r = <<>> <=> Len(r) = 0
    BY <1>1, EmptySeq
<1> HIDE DEF n, r
<1>3. CASE n = 1
    BY <1>1, <1>2, <1>3 DEF n, r
<1>4. CASE n # 1
    <2>1. n - 1 \in 1..(n - 1) /\ (n - 1) + 1 = n
        BY <1>1, <1>4
    <2>2. r[n - 1] = q[n] /\ r # <<>>
        BY <1>1, <1>2, <1>4, <2>1
    <2> QED BY <1>1, <2>2 DEF n, r
<1> QED BY <1>3, <1>4

\* What lies before and what lies after a position of a sequence without doubles.
LEMMA CutAt ==
    ASSUME NEW S, NEW q \in Seq(S), IsInjective(q), NEW i \in 1..Len(q)
    PROVE  LET a == SubSeq(q, 1, i - 1) b == SubSeq(q, i + 1, Len(q))
           IN  /\ a \in Seq(S) /\ b \in Seq(S) /\ IsInjective(a) /\ IsInjective(b)
               /\ Range(a) \cap Range(b) = {}
               /\ Range(a) \cup Range(b) = Range(q) \ {q[i]}
<1> DEFINE n == Len(q)
           a == SubSeq(q, 1, i - 1)
           b == SubSeq(q, i + 1, n)
<1>1. /\ n \in Nat /\ i \in Nat /\ 1 <= i /\ i <= n /\ DOMAIN q = 1..n
      /\ \A j \in 1..n : q[j] \in S
    OBVIOUS
<1>2. /\ a \in Seq(S) /\ Len(a) = i - 1 /\ DOMAIN a = 1..(i - 1)
      /\ \A j \in 1..(i - 1) : a[j] = q[j]
    <2>1. a = [j \in 1..(i - 1) |-> q[j]]
        BY <1>1
    <2>2. i - 1 \in Nat /\ \A j \in 1..(i - 1) : q[j] \in S
        BY <1>1
    <2> QED BY <2>1, <2>2
<1>3. /\ b \in Seq(S) /\ Len(b) = n - i /\ DOMAIN b = 1..(n - i)
      /\ \A j \in 1..(n - i) : b[j] = q[i + j]
    <2>1. b = [j \in 1..(n - i) |-> q[i + j]]
        BY <1>1
    <2>2. n - i \in Nat /\ \A j \in 1..(n - i) : q[i + j] \in S
        BY <1>1
    <2> QED BY <2>1, <2>2
<1> HIDE DEF a, b, n
<1>4. IsInjective(a)
    BY <1>1, <1>2 DEF IsInjective
<1>5. IsInjective(b)
    <2>1. ASSUME NEW j \in 1..(n - i), NEW k \in 1..(n - i), b[j] = b[k]
          PROVE  j = k
        <3>1. i + j \in 1..n /\ i + k \in 1..n /\ q[i + j] = q[i + k]
            BY <1>1, <1>3, <2>1
        <3>2. i + j = i + k
            BY <1>1, <3>1 DEF IsInjective
        <3> QED BY <1>1, <3>2
    <2> QED BY <1>3, <2>1 DEF IsInjective
<1>6. Range(a) = {q[j] : j \in 1..(i - 1)}
    BY <1>2 DEF Range
<1>7. Range(b) = {q[j] : j \in (i + 1)..n}
    <2>1. ASSUME NEW j \in 1..(n - i)
          PROVE  b[j] \in {q[k] : k \in (i + 1)..n}
        <3>1. i + j \in (i + 1)..n /\ b[j] = q[i + j]
            BY <1>1, <1>3
        <3> QED BY <3>1
    <2>2. ASSUME NEW k \in (i + 1)..n
          PROVE  q[k] \in Range(b)
        <3>1. k - i \in 1..(n - i) /\ i + (k - i) = k
            BY <1>1
        <3>2. b[k - i] = q[k] /\ k - i \in DOMAIN b
            BY <1>3, <3>1
        <3> QED BY <3>2 DEF Range
    <2> QED BY <1>3, <2>1, <2>2 DEF Range
<1>8. Range(a) \cap Range(b) = {}
    BY <1>1, <1>6, <1>7 DEF IsInjective
<1>9. Range(a) \cup Range(b) = Range(q) \ {q[i]}
    <2>1. \A j \in 1..n : j \in 1..(i - 1) \/ j = i \/ j \in (i + 1)..n
        BY <1>1
    <2>2. (1..(i - 1)) \subseteq 1..n /\ ((i + 1)..n) \subseteq 1..n
          /\ i \notin 1..(i - 1) /\ i \notin (i + 1)..n
        BY <1>1
    <2>3. \A j \in 1..n : j # i => q[j] # q[i]
        BY <1>1 DEF IsInjective
    <2>4. Range(q) = {q[j] : j \in 1..n}
        BY <1>1 DEF Range
    <2>5. ASSUME NEW x \in Range(q) \ {q[i]} PROVE x \in Range(a) \cup Range(b)
        <3>1. PICK j \in 1..n : x = q[j]
            BY <2>4, <2>5
        <3> QED BY <1>6, <1>7, <2>1, <2>5, <3>1
    <2>6. ASSUME NEW x \in Range(a) \cup Range(b) PROVE x \in Range(q) \ {q[i]}
        <3>1. PICK j \in 1..n : x = q[j] /\ j # i
            BY <1>6, <1>7, <2>2, <2>6
        <3> QED BY <2>3, <2>4, <3>1
    <2> QED BY <2>5, <2>6
<1> QED BY <1>2, <1>3, <1>4, <1>5, <1>8, <1>9 DEF a, b, n

\* A set of numbers has a least one.
LEMMA NatHasLeast ==
    ASSUME NEW S, S \subseteq Nat, S # {}
    PROVE  \E x \in S : \A y \in S : x <= y
<1>1. PICK x \in S : \A y \in S : ~(<<y, x>> \in OpToRel(<, Nat))
    <2> DEFINE R == OpToRel(<, Nat)
    <2>1. IsWellFoundedOn(R, Nat)
        BY NatLessThanWellFounded
    <2> HIDE DEF R
    <2>2. \E x \in S : \A y \in S : ~(<<y, x>> \in R)
        BY <2>1, WFMin
    <2> QED BY <2>2 DEF R
<1>2. \A y \in S : ~(y < x)
    BY <1>1 DEF OpToRel
<1> QED BY <1>2

\* When every id is to keep, retain changes nothing.
LEMMA RetainedWhole ==
    ASSUME NEW S, NEW q \in Seq(S), NEW keep, Range(q) \subseteq keep, NEW r \in Retained(q, keep)
    PROVE  r = q
<1> DEFINE kept == {i \in DOMAIN q : q[i] \in keep}
           n    == Cardinality(kept)
           m    == Len(q)
<1>1. m \in Nat /\ DOMAIN q = 1..m BY LenProperties
<1>2. kept = 1..m BY <1>1 DEF Range
<1>3. n = m
    <2>1. 1 \in Int /\ m \in Int BY <1>1
    <2>2. Cardinality(1..m) = IF 1 > m THEN 0 ELSE m - 1 + 1 BY <2>1, FS_Interval
    <2>3. Cardinality(1..m) = m
        <3> HIDE DEF m
        <3> QED BY <1>1, <2>2
    <2> QED BY <1>2, <2>3
<1>4. PICK f \in Bijection(1..n, kept) :
         /\ r = [i \in 1..n |-> q[f[i]]]
         /\ \A i, j \in 1..n : i < j => f[i] < f[j]
    BY DEF Retained
<1>5. /\ f \in [1..m -> 1..m]
      /\ \A k \in 1..m : \E i \in 1..m : f[i] = k
      /\ \A i, j \in 1..m : i < j => f[i] < f[j]
      /\ r = [i \in 1..m |-> q[f[i]]]
    BY <1>2, <1>3, <1>4 DEF Bijection, Injection, Surjection
<1> HIDE DEF n, kept, m
<1>6. \A i \in 1..m : f[i] = i
    <2> DEFINE moved == {i \in 1..m : f[i] # i}
    <2> SUFFICES ASSUME moved # {} PROVE FALSE OBVIOUS
    <2>1. moved \subseteq Nat BY <1>1
    <2>2. PICK i \in moved : \A j \in moved : i <= j BY <2>1, NatHasLeast
    <2>3. i \in 1..m /\ f[i] \in 1..m /\ f[i] # i BY <1>5, <2>2
    <2>4. \A j \in 1..m : j < i => f[j] = j
        BY <1>1, <2>2, <2>3
    <2>5. f[i] > i
        <3> SUFFICES ASSUME f[i] < i PROVE FALSE BY <1>1, <2>3
        <3>1. f[f[i]] = f[i] BY <2>3, <2>4
        <3>2. f[f[i]] < f[i] BY <1>5, <2>3
        <3> QED BY <1>1, <2>3, <3>1, <3>2
    <2>6. PICK k \in 1..m : f[k] = i BY <1>5, <2>3
    <2>7. f[k] \in 1..m BY <1>5
    <2>8. CASE k < i BY <1>1, <2>3, <2>4, <2>6, <2>8
    <2>9. CASE k = i BY <2>3, <2>6, <2>9
    <2>10. CASE k > i
        <3>1. f[i] < f[k] BY <1>5, <2>3, <2>10
        <3> QED BY <1>1, <2>3, <2>5, <2>6, <3>1
    <2> QED BY <1>1, <2>3, <2>8, <2>9, <2>10
<1>7. r = [i \in 1..m |-> q[i]] BY <1>5, <1>6
<1>8. q = [i \in 1..m |-> q[i]] BY <1>1, SeqDef
<1> QED BY <1>7, <1>8
=============================================================================
