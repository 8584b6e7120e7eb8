---------------------------- MODULE LfQueueProofs ----------------------------
(***************************************************************************)
(* lfqueue with one pusher p and one popper c, for any number of pushes    *)
(* and any initial capacity: no entry is shared, ~lfqueue frees every      *)
(* entry once, and the linked queue implements LagQueue.                   *)
(*                                                                         *)
(* The invariant, ListsApart, names two lists that the variables only      *)
(* imply: L, the entries of the queue, and F, the entries of free_.  Shape *)
(* says that these and the entry that each thread has taken off a list are *)
(* all the entries there are, each in one place; that head_, tail_ and     *)
(* free_ are the ends of the lists, save while a push has exchanged head_  *)
(* and not linked its entry yet, and while a pop keeps the last entry and  *)
(* tail_ is null; and what a thread still knows of what it has read.  With *)
(* one popper nobody else moves tail_ on, and with one pusher nobody else  *)
(* takes from free_: a compare_exchange that finds the pointer it expects  *)
(* finds the list behind it as it was read.  (With two poppers the entry   *)
(* may have been away in between.)                                         *)
(*                                                                         *)
(* ChainFrom, which the properties are stated with, follows `next`; that   *)
(* it finds L and F is shown by induction on their length, taken from the  *)
(* well-foundedness of < on the natural numbers.                           *)
(*                                                                         *)
(* For the refinement DataPart adds which entries of L hold items, and the *)
(* mapping of LfQueue is told from L: the items of L, without the entry    *)
(* that pop has taken the item of already, or has decided to.              *)
(***************************************************************************)
EXTENDS LfQueue, FiniteSetTheorems, SequenceTheorems, WellFoundedInduction, TLAPS

-----------------------------------------------------------------------------
(* What ChainFrom finds.                                                   *)

\* Induction on the natural numbers, for a set instead of a predicate.
LEMMA NatSets ==
  ASSUME NEW T \in SUBSET Nat, 0 \in T, \A n \in T : n + 1 \in T
  PROVE  T = Nat
  <1> SUFFICES ASSUME Nat \ T # {} PROVE FALSE
    OBVIOUS
  <1>1. PICK x \in Nat \ T : \A y \in Nat \ T : ~(<<y, x>> \in OpToRel(<, Nat))
    BY NatLessThanWellFounded, WFMin
  <1>2. \A y \in Nat \ T : ~(y < x)
    BY <1>1 DEF OpToRel
  <1>3. x # 0 /\ x - 1 \in Nat /\ x - 1 < x
    OBVIOUS
  <1>4. x - 1 \in T
    BY <1>2, <1>3
  <1> QED BY <1>3, <1>4

\* The ends of a list, null when it is empty.
First(s) == IF s = <<>> THEN Null ELSE s[1]

LastOf(s) == IF s = <<>> THEN Null ELSE s[Len(s)]

\* s is a list of distinct entries among the first n, through nx.
IsList(s, nx, n) ==
  /\ s \in Seq(1..n)
  /\ \A i \in 1..Len(s) : nx[s[i]] = IF i < Len(s) THEN s[i + 1] ELSE Null
  /\ \A i, j \in 1..Len(s) : s[i] = s[j] => i = j

\* The function inside ChainFrom: what it is at n from what it is at n - 1, and
\* that f is that function up to m.
Walk(n, x, f) == IF n = 0 \/ x = Null THEN <<>> ELSE <<x>> \o f[n - 1][next[x]]

IsWalk(f, m) == f = [n \in 0..m |-> [x \in Pointers |-> Walk(n, x, f)]]

\* The value of the function at a place.
LEMMA WalkValue ==
  ASSUME NEW m \in Nat, NEW f, IsWalk(f, m), NEW n \in 0..m, NEW x \in Pointers
  PROVE  f[n][x] = Walk(n, x, f)
  <1> DEFINE g == [k \in 0..m |-> [y \in Pointers |-> Walk(k, y, f)]]
  <1>1. f = g
    BY DEF IsWalk
  <1>2. g[n][x] = Walk(n, x, f)
    OBVIOUS
  <1> HIDE DEF g
  <1> QED BY <1>1, <1>2

\* There is such a function up to any m, each made from the one before.
LEMMA WalkExists ==
  ASSUME next \in [Entries -> Pointers]
  PROVE  \A m \in Nat : \E f : IsWalk(f, m)
  <1> DEFINE T == {m \in Nat : \E f : IsWalk(f, m)}
  <1>1. 0 \in T
    <2> DEFINE f == [n \in 0..0 |-> [x \in Pointers |-> <<>>]]
    <2>1. IsWalk(f, 0)
      BY DEF IsWalk, Walk
    <2> QED BY <2>1
  <1>2. ASSUME NEW m \in T PROVE m + 1 \in T
    <2>1. PICK f : IsWalk(f, m)
      BY <1>2
    <2> DEFINE g == [n \in 0..(m + 1) |-> [x \in Pointers |-> Walk(n, x, f)]]
    <2>2. ASSUME NEW n \in 0..m, NEW x \in Pointers PROVE g[n][x] = f[n][x]
      <3>1. f[n][x] = Walk(n, x, f)
        BY <2>1, WalkValue
      <3> QED BY <3>1
    <2>3. ASSUME NEW n \in 0..(m + 1), NEW x \in Pointers PROVE Walk(n, x, f) = Walk(n, x, g)
      <3>1. CASE n = 0 \/ x = Null
        BY <3>1 DEF Walk
      <3>2. CASE ~(n = 0 \/ x = Null)
        <4>1. n - 1 \in 0..m /\ next[x] \in Pointers
          BY <3>2 DEF Pointers
        <4> HIDE DEF g
        <4> QED BY <2>2, <3>2, <4>1 DEF Walk
      <3> QED BY <3>1, <3>2
    <2>4. IsWalk(g, m + 1)
      BY <2>3 DEF IsWalk
    <2> QED BY <2>4
  <1>3. T = Nat
    <2> HIDE DEF T
    <2>1. T \in SUBSET Nat
      BY DEF T
    <2> QED BY <1>1, <1>2, <2>1, NatSets
  <1> QED BY <1>3

\* ChainFrom is its value at HeapSize.
LEMMA ChainIsWalk ==
  ASSUME next \in [Entries -> Pointers], HeapSize \in Nat
  PROVE  \E f : IsWalk(f, HeapSize) /\ \A e : ChainFrom(e) = f[HeapSize][e]
  <1> DEFINE f == CHOOSE h : IsWalk(h, HeapSize)
  <1>1. IsWalk(f, HeapSize)
    BY WalkExists
  <1>2. ASSUME NEW e PROVE ChainFrom(e) = f[HeapSize][e]
    BY DEF ChainFrom, IsWalk, Walk
  <1> QED BY <1>1, <1>2

\* The elements of a sequence with one more in front.
LEMMA ConsIs ==
  ASSUME NEW S, NEW e \in S, NEW s \in Seq(S)
  PROVE  /\ <<e>> \o s \in Seq(S) /\ Len(<<e>> \o s) = Len(s) + 1
         /\ DOMAIN (<<e>> \o s) = 1..(Len(s) + 1) /\ (<<e>> \o s)[1] = e
         /\ \A i \in 1..(Len(s) + 1) : i # 1 =>
              i - 1 \in 1..Len(s) /\ (<<e>> \o s)[i] = s[i - 1]
  OBVIOUS

\* Following next from the first entry of a list finds that list, by induction
\* on the length of what is left of it.
LEMMA ChainIs ==
  ASSUME next \in [Entries -> Pointers], HeapSize \in Nat,
         NEW n \in 0..HeapSize, NEW s, IsList(s, next, n), Len(s) <= HeapSize
  PROVE  ChainFrom(First(s)) = s
  <1>1. PICK f : IsWalk(f, HeapSize) /\ \A e : ChainFrom(e) = f[HeapSize][e]
    BY ChainIsWalk
  <1> DEFINE Suffix(k) == [i \in 1..k |-> s[Len(s) - k + i]]
             Walked(k) == \A m \in 0..HeapSize :
                            m >= k => f[m][First(Suffix(k))] = Suffix(k)
             T == {k \in Nat : k <= Len(s) => Walked(k)}
  <1>2. s \in Seq(Entries) /\ Len(s) \in Nat
    BY DEF IsList, Entries
  <1>3. ASSUME NEW k \in Nat, k <= Len(s)
        PROVE  /\ Suffix(k) \in Seq(Entries) /\ Len(Suffix(k)) = k
               /\ \A i \in 1..k : Suffix(k)[i] = s[Len(s) - k + i]
               /\ First(Suffix(k)) = IF k = 0 THEN Null ELSE s[Len(s) - k + 1]
    <2>1. Suffix(k) \in Seq(Entries) /\ Len(Suffix(k)) = k
      BY <1>2, <1>3
    <2>2. Suffix(k) = <<>> <=> k = 0
      BY <2>1
    <2>3. \A i \in 1..k : Suffix(k)[i] = s[Len(s) - k + i]
      OBVIOUS
    <2> HIDE DEF Suffix
    <2>4. k # 0 => Suffix(k)[1] = s[Len(s) - k + 1]
      BY <2>3
    <2> QED BY <2>1, <2>2, <2>3, <2>4 DEF First
  <1> HIDE DEF Suffix
  <1>4. 0 \in T
    <2>1. Suffix(0) = <<>> /\ First(Suffix(0)) = Null
      BY <1>2, <1>3
    <2>2. ASSUME NEW m \in 0..HeapSize PROVE f[m][Null] = <<>>
      <3>1. f[m][Null] = Walk(m, Null, f)
        BY <1>1, WalkValue DEF Pointers
      <3> QED BY <3>1 DEF Walk
    <2> QED BY <2>1, <2>2
  <1>5. ASSUME NEW k \in T PROVE k + 1 \in T
    <2>1. k \in Nat /\ (k <= Len(s) => Walked(k))
      OBVIOUS
    <2>2. ASSUME k + 1 <= Len(s), NEW m \in 0..HeapSize, m >= k + 1
          PROVE  f[m][First(Suffix(k + 1))] = Suffix(k + 1)
      <3> DEFINE x == s[Len(s) - k]
      <3>1. x \in Entries /\ x # Null /\ x \in Pointers
        BY <1>2, <2>1, <2>2 DEF Entries, Null, Pointers
      <3>2. First(Suffix(k + 1)) = x
        BY <1>2, <1>3, <2>1, <2>2
      <3>3. next[x] = First(Suffix(k))
        <4>1. next[x] = IF Len(s) - k < Len(s) THEN s[Len(s) - k + 1] ELSE Null
          BY <1>2, <2>1, <2>2 DEF IsList
        <4>2. First(Suffix(k)) = IF k = 0 THEN Null ELSE s[Len(s) - k + 1]
          BY <1>2, <1>3, <2>1, <2>2
        <4> QED BY <1>2, <2>1, <4>1, <4>2
      <3>4. f[m][x] = Walk(m, x, f) /\ m # 0
        BY <1>1, <2>1, <2>2, <3>1, WalkValue
      <3>5. f[m][x] = <<x>> \o f[m - 1][next[x]]
        BY <3>1, <3>4 DEF Walk
      <3>6. f[m - 1][First(Suffix(k))] = Suffix(k)
        BY <1>2, <2>1, <2>2
      <3>7. <<x>> \o Suffix(k) = Suffix(k + 1)
        <4> HIDE DEF x
        <4>1. /\ Suffix(k) \in Seq(Entries) /\ Len(Suffix(k)) = k
              /\ Suffix(k + 1) \in Seq(Entries) /\ Len(Suffix(k + 1)) = k + 1
          BY <1>2, <1>3, <2>1, <2>2
        <4> DEFINE t == <<x>> \o Suffix(k)
        <4>2. /\ t \in Seq(Entries) /\ Len(t) = k + 1 /\ t[1] = x
              /\ \A i \in 1..(k + 1) : i # 1 =>
                   i - 1 \in 1..k /\ t[i] = Suffix(k)[i - 1]
          <5> DEFINE u == Suffix(k)
          <5>1. u \in Seq(Entries) /\ Len(u) = k
            BY <4>1
          <5> HIDE DEF u
          <5>2. /\ <<x>> \o u \in Seq(Entries) /\ Len(<<x>> \o u) = Len(u) + 1
                /\ (<<x>> \o u)[1] = x
                /\ \A i \in 1..(Len(u) + 1) : i # 1 =>
                     i - 1 \in 1..Len(u) /\ (<<x>> \o u)[i] = u[i - 1]
            BY <3>1, <5>1, ConsIs, SMTT(20)
          <5> QED BY <5>1, <5>2 DEF u
        <4> HIDE DEF t
        <4>3. ASSUME NEW i \in 1..(k + 1) PROVE t[i] = Suffix(k + 1)[i]
          <5>1. Suffix(k + 1)[i] = s[Len(s) - (k + 1) + i]
            BY <1>3, <2>1, <2>2
          <5>2. CASE i = 1
            BY <1>2, <2>1, <4>2, <5>1, <5>2 DEF x
          <5>3. CASE i # 1
            <6>1. Suffix(k)[i - 1] = s[Len(s) - k + (i - 1)]
              <7>1. i - 1 \in 1..k /\ k <= Len(s)
                BY <1>2, <2>1, <2>2, <5>3
              <7>2. \A j \in 1..k : Suffix(k)[j] = s[Len(s) - k + j]
                BY <1>3, <2>1, <7>1
              <7> QED BY <7>1, <7>2
            <6>2. Len(s) - k + (i - 1) = Len(s) - (k + 1) + i
              BY <1>2, <2>1
            <6> QED BY <4>2, <5>1, <5>3, <6>1, <6>2
          <5> QED BY <5>2, <5>3
        <4>4. t = Suffix(k + 1)
          BY <4>1, <4>2, <4>3
        <4> QED BY <4>4 DEF t
      <3> QED BY <3>2, <3>3, <3>5, <3>6, <3>7
    <2> QED BY <2>1, <2>2
  <1>6. T = Nat
    <2> HIDE DEF T
    <2>1. T \in SUBSET Nat
      BY DEF T
    <2> QED BY <1>4, <1>5, <2>1, NatSets
  <1>7. Suffix(Len(s)) = s
    BY <1>2 DEF Suffix
  <1>8. Walked(Len(s))
    BY <1>2, <1>6
  <1>9. f[HeapSize][First(s)] = s
    BY <1>2, <1>7, <1>8
  <1> QED BY <1>1, <1>9

-----------------------------------------------------------------------------
(* Lists.                                                                  *)

\* A list without its first entry, as pop leaves it.
LEMMA ListTail ==
  ASSUME NEW nx, NEW n \in Nat, NEW s, IsList(s, nx, n), s # <<>>
  PROVE  /\ IsList(Tail(s), nx, n)
         /\ First(Tail(s)) = nx[s[1]]
         /\ ToSet(Tail(s)) = ToSet(s) \ {s[1]} /\ s[1] \in ToSet(s)
         /\ Tail(s) # <<>> => LastOf(Tail(s)) = LastOf(s)
         /\ Tail(s) = <<>> <=> nx[s[1]] = Null
  <1> DEFINE t == Tail(s)
  <1>1. s \in Seq(1..n) /\ Len(s) \in Nat \ {0} /\ DOMAIN s = 1..Len(s)
    BY DEF IsList
  <1>2. /\ t \in Seq(1..n) /\ Len(t) = Len(s) - 1 /\ DOMAIN t = 1..(Len(s) - 1)
        /\ \A i \in 1..(Len(s) - 1) : t[i] = s[i + 1]
    BY <1>1
  <1> HIDE DEF t
  <1>3. IsList(t, nx, n)
    <2>1. ASSUME NEW i \in 1..Len(t)
          PROVE  nx[t[i]] = IF i < Len(t) THEN t[i + 1] ELSE Null
      <3>1. i + 1 \in 1..Len(s) /\ t[i] = s[i + 1]
        BY <1>1, <1>2
      <3>2. nx[s[i + 1]] = IF i + 1 < Len(s) THEN s[(i + 1) + 1] ELSE Null
        BY <3>1 DEF IsList
      <3>3. /\ i + 1 < Len(s) <=> i < Len(t)
            /\ i < Len(t) => i + 1 \in 1..(Len(s) - 1)
        BY <1>1, <1>2, SMTT(20)
      <3>4. i < Len(t) => t[i + 1] = s[(i + 1) + 1]
        BY <1>2, <3>3
      <3> QED BY <3>1, <3>2, <3>3, <3>4
    <2>2. ASSUME NEW i \in 1..Len(t), NEW j \in 1..Len(t), t[i] = t[j] PROVE i = j
      <3>1. /\ i + 1 \in 1..Len(s) /\ t[i] = s[i + 1]
            /\ j + 1 \in 1..Len(s) /\ t[j] = s[j + 1]
        BY <1>1, <1>2, SMTT(20)
      <3>2. i + 1 = j + 1
        BY <2>2, <3>1 DEF IsList
      <3> QED BY <3>2
    <2> QED BY <1>2, <2>1, <2>2 DEF IsList
  <1>4. t = <<>> <=> Len(s) = 1
    <2>1. t = <<>> <=> Len(t) = 0
      BY <1>2, EmptySeq
    <2> QED BY <1>1, <1>2, <2>1
  <1>5. nx[s[1]] = IF 1 < Len(s) THEN s[2] ELSE Null
    BY <1>1 DEF IsList
  <1>6. First(t) = nx[s[1]]
    BY <1>1, <1>2, <1>4, <1>5 DEF First
  <1>7. ToSet(t) = ToSet(s) \ {s[1]} /\ s[1] \in ToSet(s)
    <2>1. ASSUME NEW e \in ToSet(t) PROVE e \in ToSet(s) \ {s[1]}
      <3>1. PICK i \in 1..(Len(s) - 1) : e = s[i + 1]
        BY <1>1, <1>2 DEF ToSet
      <3>2. i + 1 \in 1..Len(s) /\ 1 \in 1..Len(s) /\ i + 1 # 1
        BY <1>1
      <3>3. s[i + 1] # s[1]
        BY <3>2 DEF IsList
      <3> QED BY <1>1, <3>1, <3>2, <3>3 DEF ToSet
    <2>2. ASSUME NEW e \in ToSet(s) \ {s[1]} PROVE e \in ToSet(t)
      <3>1. PICK i \in 1..Len(s) : e = s[i]
        BY <1>1 DEF ToSet
      <3>2. i # 1
        BY <3>1
      <3>3. i - 1 \in 1..(Len(s) - 1) /\ (i - 1) + 1 = i
        BY <1>1, <3>2
      <3> QED BY <1>2, <3>1, <3>3 DEF ToSet
    <2>3. s[1] \in ToSet(s)
      BY <1>1 DEF ToSet
    <2> QED BY <2>1, <2>2, <2>3
  <1>8. t # <<>> => LastOf(t) = LastOf(s)
    BY <1>1, <1>2, <1>4 DEF LastOf
  <1>9. t = <<>> <=> nx[s[1]] = Null
    BY <1>1, <1>4, <1>5 DEF Null
  <1> QED BY <1>3, <1>6, <1>7, <1>8, <1>9 DEF t

\* A list with one more entry in front, as del_entry makes of free_.
LEMMA ListCons ==
  ASSUME NEW nx, NEW n \in Nat, NEW s, IsList(s, nx, n),
         NEW e \in 1..n, e \notin ToSet(s), nx[e] = First(s)
  PROVE  /\ IsList(<<e>> \o s, nx, n)
         /\ First(<<e>> \o s) = e
         /\ ToSet(<<e>> \o s) = ToSet(s) \cup {e}
  <1> DEFINE t == <<e>> \o s
  <1>1. s \in Seq(1..n) /\ Len(s) \in Nat /\ DOMAIN s = 1..Len(s)
    BY DEF IsList
  <1>2. /\ t \in Seq(1..n) /\ Len(t) = Len(s) + 1 /\ DOMAIN t = 1..(Len(s) + 1)
        /\ t[1] = e
    BY <1>1, ConsIs
  <1> HIDE DEF t
  <1>3. \A i \in 1..Len(s) : s[i] # e
    BY <1>1 DEF ToSet
  <1>4. \A i \in 1..Len(t) : i # 1 => i - 1 \in 1..Len(s) /\ t[i] = s[i - 1]
    BY <1>1, <1>2, ConsIs DEF t
  <1>5. ASSUME NEW i \in 1..Len(t)
        PROVE  nx[t[i]] = IF i < Len(t) THEN t[i + 1] ELSE Null
    <2>1. i < Len(t) => i + 1 \in 1..Len(t) /\ t[i + 1] = s[i]
      BY <1>1, <1>2, <1>4, SMTT(20)
    <2>2. CASE i = 1
      BY <1>1, <1>2, <2>1, <2>2 DEF First
    <2>3. CASE i # 1
      <3>1. nx[s[i - 1]] = IF i - 1 < Len(s) THEN s[(i - 1) + 1] ELSE Null
        BY <1>4, <2>3 DEF IsList
      <3> QED BY <1>1, <1>2, <1>4, <2>1, <2>3, <3>1, SMTT(20)
    <2> QED BY <2>2, <2>3
  <1>6. ASSUME NEW i \in 1..Len(t), NEW j \in 1..Len(t), t[i] = t[j] PROVE i = j
    <2>1. CASE i = 1 \/ j = 1
      BY <1>2, <1>3, <1>4, <1>6, <2>1
    <2>2. CASE i # 1 /\ j # 1
      <3>1. s[i - 1] = s[j - 1] /\ i - 1 \in 1..Len(s) /\ j - 1 \in 1..Len(s)
        BY <1>4, <1>6, <2>2
      <3>2. i - 1 = j - 1
        BY <3>1 DEF IsList
      <3> QED BY <1>1, <1>2, <3>2
    <2> QED BY <2>1, <2>2
  <1>7. IsList(t, nx, n)
    BY <1>2, <1>5, <1>6 DEF IsList
  <1>8. First(t) = e
    BY <1>1, <1>2 DEF First
  <1>9. ToSet(t) = ToSet(s) \cup {e}
    <2>1. ASSUME NEW x \in ToSet(t) PROVE x \in ToSet(s) \cup {e}
      <3>1. PICK i \in 1..Len(t) : x = t[i]
        BY <1>2 DEF ToSet
      <3> QED BY <1>1, <1>2, <1>4, <3>1 DEF ToSet
    <2>2. ASSUME NEW i \in 1..Len(s) PROVE s[i] \in ToSet(t)
      <3>1. i + 1 \in 1..Len(t) /\ i + 1 # 1 /\ (i + 1) - 1 = i
        BY <1>1, <1>2
      <3> QED BY <1>2, <1>4, <3>1 DEF ToSet
    <2>3. e \in ToSet(t)
      BY <1>1, <1>2 DEF ToSet
    <2> QED BY <1>1, <2>1, <2>2, <2>3 DEF ToSet
  <1> QED BY <1>7, <1>8, <1>9 DEF t

\* A list with one more entry behind, as push makes of the queue.
LEMMA ListAppend ==
  ASSUME NEW nx \in [Entries -> Pointers], HeapSize \in Nat, NEW n \in 0..HeapSize,
         NEW s, IsList(s, nx, n), s # <<>>,
         NEW e \in 1..n, e \notin ToSet(s), nx[e] = Null,
         NEW ny, ny = [nx EXCEPT ![LastOf(s)] = e]
  PROVE  /\ IsList(Append(s, e), ny, n)
         /\ First(Append(s, e)) = First(s)
         /\ LastOf(Append(s, e)) = e
         /\ ToSet(Append(s, e)) = ToSet(s) \cup {e}
  <1> DEFINE t == Append(s, e)
  <1>1. s \in Seq(1..n) /\ Len(s) \in Nat \ {0} /\ DOMAIN s = 1..Len(s)
    BY DEF IsList
  <1>2. /\ t \in Seq(1..n) /\ Len(t) = Len(s) + 1 /\ DOMAIN t = 1..(Len(s) + 1)
        /\ t[Len(s) + 1] = e /\ \A i \in 1..Len(s) : t[i] = s[i]
    BY <1>1
  <1> HIDE DEF t
  <1>3. \A i \in 1..Len(s) : s[i] # e /\ s[i] \in Entries
    BY <1>1 DEF ToSet, Entries
  <1>4. LastOf(s) = s[Len(s)] /\ e \in Entries
    BY <1>1 DEF LastOf, Entries
  <1>5. ASSUME NEW i \in 1..Len(t)
        PROVE  ny[t[i]] = IF i < Len(t) THEN t[i + 1] ELSE Null
    <2>1. CASE i = Len(s) + 1
      BY <1>1, <1>2, <1>3, <1>4, <2>1
    <2>2. CASE i = Len(s)
      BY <1>1, <1>2, <1>3, <1>4, <2>2
    <2>3. CASE i < Len(s)
      <3>1. s[i] # s[Len(s)] /\ nx[s[i]] = s[i + 1]
        BY <1>1, <2>3 DEF IsList
      <3>2. i \in 1..Len(s) /\ i + 1 \in 1..Len(s) /\ i < Len(t)
        BY <1>1, <1>2, <2>3
      <3>3. t[i] = s[i] /\ t[i + 1] = s[i + 1] /\ s[i] \in Entries
        BY <1>2, <1>3, <3>2
      <3>4. ny[s[i]] = nx[s[i]]
        BY <1>4, <3>1, <3>3
      <3> QED BY <3>1, <3>2, <3>3, <3>4
    <2>4. i = Len(s) + 1 \/ i = Len(s) \/ i < Len(s)
      <3>1. Len(s) \in Nat /\ i \in 1..(Len(s) + 1)
        BY <1>1, <1>2
      <3> QED BY <3>1
    <2> QED BY <2>1, <2>2, <2>3, <2>4
  <1>6. ASSUME NEW i \in 1..Len(t), NEW j \in 1..Len(t), t[i] = t[j] PROVE i = j
    <2>1. \A k \in 1..Len(t) : k # Len(t) => k \in 1..Len(s) /\ t[k] # t[Len(t)]
      BY <1>1, <1>2, <1>3, SMTT(20)
    <2>3. CASE i = Len(t) \/ j = Len(t)
      BY <1>6, <2>1, <2>3
    <2>2. CASE i # Len(t) /\ j # Len(t)
      <3>1. i \in 1..Len(s) /\ j \in 1..Len(s)
        BY <2>1, <2>2
      <3> QED BY <1>2, <1>6, <3>1 DEF IsList
    <2> QED BY <2>2, <2>3
  <1>7. IsList(t, ny, n)
    BY <1>2, <1>5, <1>6 DEF IsList
  <1>8. First(t) = First(s) /\ LastOf(t) = e
    BY <1>1, <1>2 DEF First, LastOf
  <1>9. ToSet(t) = ToSet(s) \cup {e}
    <2>1. ASSUME NEW x \in ToSet(t) PROVE x \in ToSet(s) \cup {e}
      <3>1. PICK i \in 1..Len(t) : x = t[i]
        BY <1>2 DEF ToSet
      <3>2. i \in 1..Len(s) \/ i = Len(s) + 1
        BY <1>1, <1>2
      <3> QED BY <1>1, <1>2, <3>1, <3>2 DEF ToSet
    <2>2. ASSUME NEW i \in 1..Len(s) PROVE s[i] \in ToSet(t)
      <3>1. i \in 1..(Len(s) + 1)
        BY <1>1
      <3> QED BY <1>2, <3>1 DEF ToSet
    <2>3. e \in ToSet(t)
      <3>1. Len(s) + 1 \in 1..(Len(s) + 1)
        BY <1>1
      <3> QED BY <1>2, <3>1 DEF ToSet
    <2>4. \A x \in ToSet(s) : x \in ToSet(t)
      <3>1. \A x \in ToSet(s) : \E i \in 1..Len(s) : x = s[i]
        BY <1>1 DEF ToSet
      <3> QED BY <2>2, <3>1
    <2> QED BY <2>1, <2>3, <2>4
  <1> QED BY <1>7, <1>8, <1>9 DEF t

\* Writing next of an entry that is not in a list leaves it a list.
LEMMA ListElsewhere ==
  ASSUME NEW nx \in [Entries -> Pointers], NEW n \in Nat, NEW s, IsList(s, nx, n),
         NEW e \in Entries, e \notin ToSet(s), NEW v
  PROVE  IsList(s, [nx EXCEPT ![e] = v], n)
  <1>1. s \in Seq(1..n) /\ DOMAIN s = 1..Len(s)
    BY DEF IsList
  <1>2. \A i \in 1..Len(s) : s[i] # e
    BY <1>1 DEF ToSet
  <1> QED BY <1>1, <1>2 DEF IsList

\* The entries of a list are allocated.
LEMMA ListSet ==
  ASSUME NEW nx, NEW n \in Nat, NEW s, IsList(s, nx, n)
  PROVE  ToSet(s) \subseteq 1..n
  <1>1. s \in Seq(1..n) /\ DOMAIN s = 1..Len(s)
    BY DEF IsList
  <1> QED BY <1>1, ElementOfSeq DEF ToSet

\* The empty list has no ends.
LEMMA ListNone ==
  ASSUME NEW s, s = <<>>
  PROVE  First(s) = Null /\ LastOf(s) = Null /\ ToSet(s) = {}
  BY DEF First, LastOf, ToSet

\* Any other has both, and nothing comes after the last one.
LEMMA ListEnds ==
  ASSUME NEW nx, NEW n \in Nat, NEW s, IsList(s, nx, n), s # <<>>
  PROVE  /\ First(s) \in ToSet(s) /\ First(s) # Null
         /\ LastOf(s) \in ToSet(s) /\ LastOf(s) # Null /\ nx[LastOf(s)] = Null
  <1>1. s \in Seq(1..n) /\ DOMAIN s = 1..Len(s) /\ Len(s) \in Nat
    BY DEF IsList
  <1>2. Len(s) # 0
    BY <1>1, EmptySeq
  <1>3. 1 \in 1..Len(s) /\ Len(s) \in 1..Len(s)
    BY <1>1, <1>2
  <1>4. First(s) = s[1] /\ LastOf(s) = s[Len(s)]
    BY DEF First, LastOf
  <1>5. nx[s[Len(s)]] = Null
    BY <1>1, <1>3 DEF IsList
  <1>6. s[1] \in 1..n /\ s[Len(s)] \in 1..n
    BY <1>1, <1>3, ElementOfSeq
  <1> QED BY <1>1, <1>3, <1>4, <1>5, <1>6, SMTT(20) DEF ToSet, Null

\* A list is still one when more entries are allocated.
LEMMA ListGrow ==
  ASSUME NEW nx, NEW n \in Nat, NEW s, IsList(s, nx, n)
  PROVE  IsList(s, nx, n + 1)
  <1>1. s \in Seq(1..n) /\ 1..n \subseteq 1..(n + 1)
    BY DEF IsList
  <1>2. s \in Seq(1..(n + 1))
    BY <1>1, SeqMonotonic
  <1> QED BY <1>2 DEF IsList

\* The first entry pushed is a list.
LEMMA ListOne ==
  ASSUME NEW nx, NEW n \in Nat, NEW e \in 1..n, nx[e] = Null
  PROVE  /\ IsList(<<e>>, nx, n)
         /\ First(<<e>>) = e /\ LastOf(<<e>>) = e /\ ToSet(<<e>>) = {e}
  <1>1. /\ <<e>> \in Seq(1..n) /\ Len(<<e>>) = 1 /\ DOMAIN <<e>> = 1..1
        /\ <<e>>[1] = e /\ <<e>> # <<>>
    OBVIOUS
  <1>2. \A i \in 1..1 : i = 1
    OBVIOUS
  <1>3. IsList(<<e>>, nx, n)
    BY <1>1, <1>2 DEF IsList
  <1>4. ToSet(<<e>>) = {e}
    BY <1>1, <1>2 DEF ToSet
  <1> QED BY <1>1, <1>3, <1>4 DEF First, LastOf

\* A list is no longer than there are entries, as these are all different.
LEMMA ListLength ==
  ASSUME NEW nx, NEW n \in Nat, NEW s, IsList(s, nx, n)
  PROVE  Len(s) <= n
  <1>1. s \in Seq(1..n) /\ Len(s) \in Nat
    BY DEF IsList
  <1>2. s \in [1..Len(s) -> 1..n]
    BY <1>1, LenProperties
  <1>3. s \in Injection(1..Len(s), 1..n)
    <2>1. \A i, j \in 1..Len(s) : s[i] = s[j] => i = j
      BY DEF IsList
    <2> QED BY <1>2, <2>1 DEF Injection, IsInjective
  <1>4. Cardinality(1..Len(s)) = Len(s) /\ IsFiniteSet(1..n) /\ Cardinality(1..n) = n
    <2>1. \A k \in Nat : IsFiniteSet(1..k) /\ Cardinality(1..k) = IF 1 > k THEN 0 ELSE k - 1 + 1
      BY FS_Interval
    <2> QED BY <1>1, <2>1
  <1>5. Cardinality(1..Len(s)) <= Cardinality(1..n)
    BY <1>3, <1>4, FS_Injection
  <1> QED BY <1>4, <1>5

-----------------------------------------------------------------------------
(* The invariant, for one pusher p and one popper c.                       *)

\* The threads the theorems are about.
Alone(p, c) == Pushers = {p} /\ Poppers = {c} /\ p # c

\* The entry a thread has taken off the lists.
Owned(t) == IF \/ pc[t] \in {"new_clear", "put", "exchange", "link",
                             "del_load", "del_store", "del_cas"}
               \/ pc[t] = "take" /\ nxt[t] # Null
            THEN {ent[t]} ELSE {}

\* The popper found the entry to be the last one and keeps it on the list,
\* with tail_ null until it puts it back.
Holds(c) == pc[c] \in {"take", "put_back"} /\ nxt[c] = Null

\* Every entry is in one place: a list, or in the hands of one thread.
PlacePart(p, c, L, F) ==
  /\ IsList(L, next, allocated)
  /\ IsList(F, next, allocated)
  /\ ToSet(L) \cap ToSet(F) = {}
  /\ Owned(p) \cap (ToSet(L) \cup ToSet(F)) = {}
  /\ Owned(c) \cap (ToSet(L) \cup ToSet(F)) = {}
  /\ Owned(p) \cap Owned(c) = {}
  /\ 1..allocated = ToSet(L) \cup ToSet(F) \cup Owned(p) \cup Owned(c)

\* What head_, tail_ and free_ point to.
EndsPart(p, c, L, F) ==
  /\ free = First(F)
  /\ tail = IF Holds(c) THEN Null ELSE First(L)
  /\ IF pc[p] = "link" THEN head = ent[p] /\ nxt[p] = LastOf(L)
                       ELSE head = LastOf(L)

\* What the popper has read is still so.
PopperPart(c, L) ==
  /\ pc[c] = "put_back" => nxt[c] = Null
  /\ pc[c] \in {"pop_next", "pop_cas"} \/ Holds(c) => ent[c] = First(L)
  /\ pc[c] = "pop_cas" /\ nxt[c] # Null => nxt[c] = next[ent[c]]
  /\ pc[c] = "del_cas" => nxt[c] = next[ent[c]]

\* The entry whose next the pusher reads is still on free_, as nobody else takes
\* from it, and an entry on its way into the queue has nothing behind it.
PusherPart(p, F) ==
  /\ pc[p] \in {"new_next", "new_cas"} => ent[p] \in ToSet(F)
  /\ pc[p] = "new_cas" => nxt[p] = next[ent[p]]
  /\ pc[p] \in {"put", "exchange", "link"} => next[ent[p]] = Null
  /\ pc[p] # "start" => pushed[p] < PushesEach

\* Entries not allocated are untouched, and no more are than pushes began.
HeapPart(p) ==
  /\ \A e \in Entries : e > allocated => next[e] = Null
  /\ allocated <= InitialCapacity + pushed[p]
                    + (IF pc[p] \in {"put", "exchange", "link"} THEN 1 ELSE 0)

Shape(p, c, L, F) ==
  /\ PlacePart(p, c, L, F)
  /\ EndsPart(p, c, L, F)
  /\ PopperPart(c, L)
  /\ PusherPart(p, F)
  /\ HeapPart(p)

\* The heap is as large as one pusher can need.
LEMMA HeapFacts ==
  ASSUME NEW p, NEW c, Alone(p, c)
  PROVE  /\ HeapSize = InitialCapacity + PushesEach /\ HeapSize \in Nat
         /\ InitialCapacity \in Nat /\ PushesEach \in Nat
         /\ Threads = {p, c}
  <1>1. Cardinality(Pushers) = 1
    BY FS_Singleton DEF Alone
  <1>2. PushesEach \in Nat /\ InitialCapacity \in Nat
    BY BoundsAssumption
  <1> QED BY <1>1, <1>2 DEF HeapSize, Threads, Alone

\* The constructor starts with the types it promises.
LEMMA InitTypeOK ==
  ASSUME NEW p, NEW c, Alone(p, c), Init PROVE TypeOK
  <1>0. /\ HeapSize = InitialCapacity + PushesEach /\ HeapSize \in Nat
        /\ InitialCapacity \in Nat /\ PushesEach \in Nat
    BY HeapFacts
  <1> USE <1>0 DEF Init
  <1>1. next \in [Entries -> Pointers]
    BY DEF Entries, Pointers, Null
  <1>2. {head, tail, free} \subseteq Pointers
    BY DEF Entries, Pointers, Null
  <1>3. data \in [Entries -> Items \cup {NoItem}]
    OBVIOUS
  <1>4. allocated \in InitialCapacity..HeapSize
    OBVIOUS
  <1>5. /\ pc \in [Threads -> PushLabels \cup PopLabels] /\ ent \in [Threads -> Pointers]
        /\ nxt \in [Threads -> Pointers]
    <2>1. Null \in Pointers
      BY DEF Pointers
    <2>2. "start" \in PushLabels /\ "start" \in PopLabels
      BY DEF PushLabels, PopLabels
    <2> QED BY <2>1, <2>2
  <1>6. pushed \in [Pushers -> 0..PushesEach]
    BY <1>0
  <1>7. \A t \in Threads : /\ pc[t] = "start"
                           /\ pc[t] \in PushLabels /\ pc[t] \in PopLabels
    BY DEF PushLabels, PopLabels
  <1>8. order \in Seq(Items) /\ got \in Seq(Items)
    BY EmptySeq
  <1> QED BY <1>1, <1>2, <1>3, <1>4, <1>5, <1>6, <1>7, <1>8 DEF TypeOK, Threads

\* The constructor chains its entries on free_, and the queue is empty.
LEMMA InitShape ==
  ASSUME NEW p, NEW c, Alone(p, c), Init
  PROVE  \E F : Shape(p, c, <<>>, F)
  <1> DEFINE N == InitialCapacity
             F == [i \in 1..N |-> N + 1 - i]
  <1>1. N \in Nat /\ Threads = {p, c} /\ HeapSize \in Nat /\ N <= HeapSize
        /\ PushesEach \in Nat /\ HeapSize = InitialCapacity + PushesEach
    BY HeapFacts
  <1>2. F \in Seq(1..N) /\ Len(F) = N /\ DOMAIN F = 1..N
    BY <1>1
  <1>3. \A i \in 1..N : F[i] = N + 1 - i
    OBVIOUS
  <1> HIDE DEF F
  <1>4. IsList(F, next, N)
    <2>1. ASSUME NEW i \in 1..N
          PROVE  next[F[i]] = IF i < N THEN F[i + 1] ELSE Null
      <3>1. F[i] \in Entries /\ F[i] <= N /\ F[i] - 1 = N - i
        BY <1>1, <1>3 DEF Entries
      <3>2. next[F[i]] = N - i
        BY <3>1 DEF Init
      <3>3. i < N => F[i + 1] = N + 1 - (i + 1)
        BY <1>1, <1>3
      <3> QED BY <1>1, <3>2, <3>3 DEF Null
    <2>2. ASSUME NEW i \in 1..N, NEW j \in 1..N, F[i] = F[j] PROVE i = j
      BY <1>1, <1>3, <2>2
    <2> QED BY <1>2, <2>1, <2>2 DEF IsList
  <1>5. ToSet(F) = 1..N
    <2>1. ASSUME NEW e \in 1..N PROVE \E i \in 1..N : e = F[i]
      <3>1. N + 1 - e \in 1..N /\ F[N + 1 - e] = e
        BY <1>1, <1>3
      <3> QED BY <3>1
    <2>2. ASSUME NEW i \in 1..N PROVE F[i] \in 1..N
      BY <1>1, <1>3
    <2> QED BY <1>2, <2>1, <2>2 DEF ToSet
  <1>6. First(F) = N
    <2>1. CASE N = 0
      BY <1>2, <2>1, EmptySeq DEF First, Null
    <2>2. CASE N # 0
      <3>1. F # <<>> /\ 1 \in 1..N
        BY <1>1, <1>2, <2>2, EmptySeq
      <3> QED BY <1>1, <1>3, <3>1 DEF First
    <2> QED BY <2>1, <2>2
  <1>7. IsList(<<>>, next, N) /\ ToSet(<<>>) = {} /\ First(<<>>) = Null /\ LastOf(<<>>) = Null
    <2>1. <<>> \in Seq(1..N) /\ Len(<<>>) = 0 /\ DOMAIN <<>> = {} /\ 1..0 = {}
      BY EmptySeq
    <2> QED BY <2>1 DEF IsList, ToSet, First, LastOf
  <1> HIDE DEF N
  <1>8. /\ allocated = N /\ free = N /\ head = Null /\ tail = Null
        /\ pc[p] = "start" /\ pc[c] = "start" /\ pushed[p] = 0
    BY <1>1 DEF Init, Alone, N
  <1>9. Owned(p) = {} /\ Owned(c) = {} /\ ~Holds(c)
    BY <1>8 DEF Owned, Holds
  <1>10. PlacePart(p, c, <<>>, F)
    BY <1>4, <1>5, <1>7, <1>8, <1>9 DEF PlacePart
  <1>11. EndsPart(p, c, <<>>, F) /\ PopperPart(c, <<>>) /\ PusherPart(p, F)
    BY <1>6, <1>7, <1>8, <1>9 DEF EndsPart, PopperPart, PusherPart
  <1>12. HeapPart(p)
    <2>1. ASSUME NEW e \in Entries, e > allocated PROVE next[e] = Null
      BY <1>1, <1>8, <2>1 DEF Init, Entries, N
    <2> QED BY <1>1, <1>8, <2>1 DEF HeapPart, N
  <1> QED BY <1>10, <1>11, <1>12 DEF Shape

-----------------------------------------------------------------------------
(* Types.                                                                  *)

Context(p, c, L, F) == Alone(p, c) /\ TypeOK /\ Shape(p, c, L, F)

\* What the types say of the two threads.
LEMMA TypeFacts ==
  ASSUME NEW p, NEW c, NEW L, NEW F, Context(p, c, L, F)
  PROVE  /\ Pushers = {p} /\ Poppers = {c} /\ p # c /\ Threads = {p, c}
         /\ InitialCapacity \in Nat /\ PushesEach \in Nat /\ HeapSize \in Nat
         /\ HeapSize = InitialCapacity + PushesEach
         /\ allocated \in InitialCapacity..HeapSize /\ allocated \in Nat
         /\ pc \in [Threads -> PushLabels \cup PopLabels]
         /\ ent \in [Threads -> Pointers] /\ nxt \in [Threads -> Pointers]
         /\ pc[p] \in PushLabels /\ pc[c] \in PopLabels
         /\ \A t \in {p, c} : pc[t] # "start" =>
              ent[t] \in 1..allocated /\ ent[t] \in Entries /\ ent[t] # Null
         /\ next \in [Entries -> Pointers]
         /\ pushed \in [Pushers -> 0..PushesEach]
         /\ head \in Pointers /\ tail \in Pointers /\ free \in Pointers
         /\ 1..allocated \subseteq Entries
  <1>1. /\ Pushers = {p} /\ Poppers = {c} /\ p # c /\ Threads = {p, c}
        /\ InitialCapacity \in Nat /\ PushesEach \in Nat /\ HeapSize \in Nat
        /\ HeapSize = InitialCapacity + PushesEach
    BY HeapFacts DEF Context, Alone
  <1>2. /\ allocated \in InitialCapacity..HeapSize
        /\ \A t \in {p, c} : pc[t] # "start" => ent[t] \in 1..allocated
    BY <1>1 DEF Context, TypeOK
  <1>3. allocated \in Nat /\ 1..allocated \subseteq Entries
    BY <1>1, <1>2 DEF Entries
  <1> QED BY <1>1, <1>2, <1>3 DEF Context, TypeOK, Null

\* A pusher that looks at free_ has an entry then, old or new.
LEMMA HaveFreeFacts ==
  ASSUME NEW p, NEW c, NEW L, NEW F, Context(p, c, L, F), HaveFree(p, free),
         pushed[p] < PushesEach, pc[p] \in {"start", "new_cas"}
  PROVE  /\ allocated' \in InitialCapacity..HeapSize /\ allocated <= allocated'
         /\ ent' \in [Threads -> Pointers] /\ ent'[p] \in 1..allocated'
         /\ ent'[c] = ent[c]
         /\ pc' \in [Threads -> PushLabels \cup PopLabels]
         /\ pc'[p] \in PushLabels /\ pc'[c] = pc[c]
  <1>1. allocated <= InitialCapacity + pushed[p] /\ pushed[p] \in Nat
    BY TypeFacts DEF Context, Shape, HeapPart
  <1>2. CASE free = Null
    <2>1. allocated' = allocated + 1 /\ ent' = [ent EXCEPT ![p] = allocated + 1]
          /\ pc' = [pc EXCEPT ![p] = "put"]
      BY <1>2 DEF HaveFree, Goto
    <2>2. allocated + 1 \in Pointers /\ allocated + 1 <= HeapSize
      BY <1>1, TypeFacts DEF Pointers, Entries
    <2> QED BY <2>1, <2>2, TypeFacts DEF PushLabels
  <1>3. CASE free # Null
    <2>1. allocated' = allocated /\ ent' = [ent EXCEPT ![p] = free]
          /\ pc' = [pc EXCEPT ![p] = "new_next"]
      BY <1>3 DEF HaveFree, Goto
    <2>2. free \in 1..allocated
      BY <1>3, TypeFacts, ListSet, ListNone, ListEnds
         DEF Context, Shape, PlacePart, EndsPart
    <2> QED BY <2>1, <2>2, TypeFacts DEF PushLabels
  <1> QED BY <1>2, <1>3

\* Every step keeps the types.
LEMMA TypeStep ==
  ASSUME NEW p, NEW c, NEW L, NEW F, Context(p, c, L, F), [Next]_vars
  PROVE  TypeOK'
  <1>0. TypeOK
    BY DEF Context
  <1>a. /\ Pushers = {p} /\ Poppers = {c} /\ p # c /\ Threads = {p, c}
        /\ allocated \in InitialCapacity..HeapSize
        /\ ent \in [Threads -> Pointers] /\ nxt \in [Threads -> Pointers]
        /\ pc[p] \in PushLabels /\ pc[c] \in PopLabels
        /\ next \in [Entries -> Pointers]
        /\ \A t \in {p, c} : pc[t] # "start" =>
             ent[t] \in 1..allocated /\ ent[t] \in Entries
    BY TypeFacts
  <1>b. /\ pc[p] # "start" => pushed[p] < PushesEach
        /\ PushesEach \in Nat /\ pushed \in [Pushers -> 0..PushesEach]
        /\ pushed[p] \in Nat
    BY TypeFacts DEF Context, Shape, PusherPart
  <1>c. pc[p] # "start" => ItemOf(p) \in Items
    <2>1. pc[p] # "start" => pushed[p] + 1 \in 1..PushesEach
      BY <1>b
    <2> QED BY <1>a, <2>1 DEF ItemOf, Items
  <1>1. CASE NewLoad(p)
    <2>1. /\ HaveFree(p, free) /\ pc[p] = "start" /\ pushed[p] < PushesEach
          /\ UNCHANGED <<head, tail, free, next, data, nxt, pushed, order, got>>
      BY <1>1 DEF NewLoad
    <2>2. /\ allocated' \in InitialCapacity..HeapSize /\ allocated <= allocated'
          /\ ent' \in [Threads -> Pointers] /\ ent'[p] \in 1..allocated'
          /\ ent'[c] = ent[c]
          /\ pc' \in [Threads -> PushLabels \cup PopLabels]
          /\ pc'[p] \in PushLabels /\ pc'[c] = pc[c]
      BY <2>1, HaveFreeFacts
    <2>3. \A t \in Threads : pc'[t] # "start" => ent'[t] \in 1..allocated'
      BY <1>a, <2>2
    <2> QED BY <1>0, <1>a, <2>1, <2>2, <2>3 DEF TypeOK
  <1>2. CASE NewNext(p)
    BY <1>0, <1>2, <1>a DEF TypeOK, NewNext, Goto, PushLabels, shared
  <1>3. CASE NewCas(p)
    <2>1. CASE free = ent[p]
      BY <1>0, <1>3, <1>a, <2>1 DEF TypeOK, NewCas, Goto, PushLabels
    <2>2. CASE free # ent[p]
      <3>1. /\ HaveFree(p, free) /\ pc[p] = "new_cas"
            /\ UNCHANGED <<head, tail, free, next, data, nxt, pushed, order, got>>
        BY <1>3, <2>2 DEF NewCas
      <3>2. /\ allocated' \in InitialCapacity..HeapSize /\ allocated <= allocated'
            /\ ent' \in [Threads -> Pointers] /\ ent'[p] \in 1..allocated'
            /\ ent'[c] = ent[c]
            /\ pc' \in [Threads -> PushLabels \cup PopLabels]
            /\ pc'[p] \in PushLabels /\ pc'[c] = pc[c]
        BY <1>b, <3>1, HaveFreeFacts
      <3>3. \A t \in Threads : pc'[t] # "start" => ent'[t] \in 1..allocated'
        BY <1>a, <3>2
      <3> QED BY <1>0, <1>a, <3>1, <3>2, <3>3 DEF TypeOK
    <2> QED BY <2>1, <2>2
  <1>4. CASE NewClear(p)
    BY <1>0, <1>4, <1>a DEF TypeOK, NewClear, Goto, PushLabels, Pointers
  <1>5. CASE PutData(p)
    BY <1>0, <1>5, <1>a, <1>b, <1>c DEF TypeOK, PutData, Goto, PushLabels
  <1>6. CASE Exchange(p)
    BY <1>0, <1>6, <1>a, <1>b, <1>c DEF TypeOK, Exchange, Goto, PushLabels
  <1>7. CASE Link(p)
    <2>1. pushed' \in [Pushers -> 0..PushesEach]
      BY <1>7, <1>b, <1>a DEF Link
    <2>2. tail' \in Pointers /\ next' \in [Entries -> Pointers]
      BY <1>0, <1>7, <1>a DEF TypeOK, Link
    <2> QED BY <1>0, <1>7, <1>a, <2>1, <2>2 DEF TypeOK, Link, Goto, PushLabels
  <1>8. CASE LoadTail(c)
    <2>1. tail \in 1..allocated
      BY <1>8, TypeFacts, ListSet, ListNone, ListEnds
         DEF LoadTail, Context, Shape, PlacePart, EndsPart
    <2> QED BY <1>0, <1>8, <1>a, <2>1 DEF TypeOK, LoadTail, Goto, PopLabels, shared
  <1>9. CASE ReadNext(c)
    BY <1>0, <1>9, <1>a DEF TypeOK, ReadNext, Goto, PopLabels, shared
  <1>10. CASE PopCas(c)
    BY <1>0, <1>10, <1>a DEF TypeOK, PopCas, Goto, PopLabels
  <1>11. CASE Take(c)
    <2>1. /\ data' \in [Entries -> Items \cup {NoItem}]
          /\ data[ent[c]] = NoItem \/ data[ent[c]] \in Items
      BY <1>0, <1>11, <1>a DEF TypeOK, Take
    <2>2. got' \in Seq(Items)
      BY <1>0, <1>11, <2>1 DEF TypeOK, Take
    <2> QED BY <1>0, <1>11, <1>a, <2>1, <2>2 DEF TypeOK, Take, Goto, PopLabels
  <1>12. CASE PutBack(c)
    BY <1>0, <1>12, <1>a DEF TypeOK, PutBack, Goto, PopLabels
  <1>13. CASE DelLoad(c)
    BY <1>0, <1>13, <1>a DEF TypeOK, DelLoad, Goto, PopLabels, shared
  <1>14. CASE DelStore(c)
    BY <1>0, <1>14, <1>a DEF TypeOK, DelStore, Goto, PopLabels
  <1>15. CASE DelCas(c)
    BY <1>0, <1>15, <1>a DEF TypeOK, DelCas, Goto, PopLabels
  <1>16. CASE UNCHANGED vars
    BY <1>0, <1>16 DEF TypeOK, vars, shared
  <1> QED BY <1>1, <1>2, <1>3, <1>4, <1>5, <1>6, <1>7, <1>8, <1>9, <1>10, <1>11,
             <1>12, <1>13, <1>14, <1>15, <1>16, <1>a DEF Next, PushStep, PopStep

-----------------------------------------------------------------------------
(* Steps of the pusher.                                                    *)

\* A thread that does not move keeps the entry it owns.
LEMMA OtherThread ==
  ASSUME NEW t, pc'[t] = pc[t], ent'[t] = ent[t], nxt'[t] = nxt[t]
  PROVE  Owned(t)' = Owned(t) /\ (Holds(t)' <=> Holds(t))
  BY DEF Owned, Holds

\* What every step relies on: the parts of Shape, and what the lists are.
LEMMA ShapeFacts ==
  ASSUME NEW p, NEW c, NEW L, NEW F, Context(p, c, L, F)
  PROVE  /\ PlacePart(p, c, L, F) /\ EndsPart(p, c, L, F)
         /\ PopperPart(c, L) /\ PusherPart(p, F) /\ HeapPart(p)
         /\ ToSet(L) \subseteq 1..allocated /\ ToSet(F) \subseteq 1..allocated
         /\ L = <<>> => First(L) = Null /\ LastOf(L) = Null /\ ToSet(L) = {}
         /\ L # <<>> => /\ First(L) \in ToSet(L) /\ LastOf(L) \in ToSet(L)
                        /\ First(L) # Null /\ LastOf(L) # Null
                        /\ next[LastOf(L)] = Null
         /\ F = <<>> => First(F) = Null
         /\ F # <<>> => First(F) \in ToSet(F) /\ First(F) # Null
  <1>1. PlacePart(p, c, L, F) /\ EndsPart(p, c, L, F)
         /\ PopperPart(c, L) /\ PusherPart(p, F) /\ HeapPart(p)
    BY DEF Context, Shape
  <1>2. IsList(L, next, allocated) /\ IsList(F, next, allocated) /\ allocated \in Nat
    BY <1>1, TypeFacts DEF PlacePart
  <1>3. ToSet(L) \subseteq 1..allocated /\ ToSet(F) \subseteq 1..allocated
    BY <1>2, ListSet
  <1>4. L = <<>> => First(L) = Null /\ LastOf(L) = Null /\ ToSet(L) = {}
    BY ListNone
  <1>5. L # <<>> => /\ First(L) \in ToSet(L) /\ LastOf(L) \in ToSet(L)
                    /\ First(L) # Null /\ LastOf(L) # Null
                    /\ next[LastOf(L)] = Null
    BY <1>2, ListEnds
  <1>6. F = <<>> => First(F) = Null
    BY ListNone
  <1>7. F # <<>> => First(F) \in ToSet(F) /\ First(F) # Null
    BY <1>2, ListEnds
  <1> QED BY <1>1, <1>3, <1>4, <1>5, <1>6, <1>7

\* A pusher that looks at free_ and finds it empty allocates an entry, which is
\* on no list; otherwise the lists are as they were.
LEMMA HaveFreeKeeps ==
  ASSUME NEW p, NEW c, NEW L, NEW F, Context(p, c, L, F), HaveFree(p, free),
         pushed[p] < PushesEach, pc[p] \in {"start", "new_cas"},
         UNCHANGED <<head, tail, free, next, nxt, pushed>>
  PROVE  Shape(p, c, L, F)'
  <1>0. /\ pc \in [Threads -> PushLabels \cup PopLabels] /\ Threads = {p, c}
        /\ ent \in [Threads -> Pointers] /\ p # c /\ allocated \in Nat
        /\ InitialCapacity \in Nat /\ PushesEach \in Nat
        /\ HeapSize = InitialCapacity + PushesEach
    BY TypeFacts
  <1>s. /\ PlacePart(p, c, L, F) /\ EndsPart(p, c, L, F)
        /\ PopperPart(c, L) /\ PusherPart(p, F) /\ HeapPart(p)
    BY ShapeFacts
  <1>a. pushed[p] \in Nat /\ allocated <= InitialCapacity + pushed[p]
    BY <1>s, TypeFacts DEF HeapPart
  <1>b. pc'[c] = pc[c] /\ ent'[c] = ent[c] /\ nxt'[c] = nxt[c]
    BY <1>0 DEF HaveFree, Goto
  <1>c. Owned(c)' = Owned(c) /\ (Holds(c)' <=> Holds(c))
    BY <1>b, OtherThread
  <1>d. Owned(p) = {}
    BY DEF Owned
  <1>1. CASE free = Null
    <2>1. /\ allocated' = allocated + 1 /\ ent'[p] = allocated + 1 /\ pc'[p] = "put"
      BY <1>0, <1>1 DEF HaveFree, Goto
    <2>2. Owned(p)' = {allocated + 1}
      BY <2>1 DEF Owned
    <2>3. IsList(L, next, allocated + 1) /\ IsList(F, next, allocated + 1)
      BY <1>0, <1>s, ListGrow DEF PlacePart
    <2>4. ToSet(L) \cup ToSet(F) \cup Owned(c) = 1..allocated
      BY <1>s, <1>d DEF PlacePart
    <2>5. PlacePart(p, c, L, F)'
      <3>1. 1..(allocated + 1) = 1..allocated \cup {allocated + 1} /\ allocated + 1 \notin 1..allocated
        BY <1>0
      <3> QED BY <1>s, <1>c, <2>1, <2>2, <2>3, <2>4, <3>1 DEF PlacePart
    <2>6. EndsPart(p, c, L, F)'
      BY <1>s, <1>c, <2>1 DEF EndsPart
    <2>7. PopperPart(c, L)'
      BY <1>s, <1>b, <1>c DEF PopperPart
    <2>8. allocated + 1 \in Entries /\ next[allocated + 1] = Null
      BY <1>0, <1>a, <1>s DEF HeapPart, Entries
    <2>9. PusherPart(p, F)'
      BY <2>1, <2>8 DEF PusherPart
    <2>10. HeapPart(p)'
      BY <1>0, <1>a, <1>s, <2>1 DEF HeapPart, Entries
    <2> QED BY <2>5, <2>6, <2>7, <2>9, <2>10 DEF Shape
  <1>2. CASE free # Null
    <2>1. allocated' = allocated /\ ent'[p] = free /\ pc'[p] = "new_next"
      BY <1>0, <1>2 DEF HaveFree, Goto
    <2>2. Owned(p)' = {}
      BY <2>1 DEF Owned
    <2>3. PlacePart(p, c, L, F)'
      BY <1>s, <1>c, <1>d, <2>1, <2>2 DEF PlacePart
    <2>4. EndsPart(p, c, L, F)' /\ PopperPart(c, L)'
      BY <1>s, <1>b, <1>c, <2>1 DEF EndsPart, PopperPart
    <2>5. free \in ToSet(F)
      BY <1>2, <1>s, ShapeFacts DEF EndsPart
    <2>6. PusherPart(p, F)'
      BY <2>1, <2>5 DEF PusherPart
    <2>7. HeapPart(p)'
      BY <1>a, <1>s, <2>1 DEF HeapPart
    <2> QED BY <2>3, <2>4, <2>6, <2>7 DEF Shape
  <1> QED BY <1>1, <1>2

\* Reading next of the first free entry changes no list.
LEMMA NewNextKeeps ==
  ASSUME NEW p, NEW c, NEW L, NEW F, Context(p, c, L, F), NewNext(p)
  PROVE  Shape(p, c, L, F)'
  <1>1. /\ pc'[c] = pc[c] /\ ent' = ent /\ nxt'[c] = nxt[c]
        /\ pc[p] = "new_next" /\ pc'[p] = "new_cas" /\ nxt'[p] = next[ent[p]]
        /\ UNCHANGED <<shared, pushed>>
    BY TypeFacts DEF NewNext, Goto
  <1>2. Owned(c)' = Owned(c) /\ (Holds(c)' <=> Holds(c)) /\ Owned(p)' = {} /\ Owned(p) = {}
    BY <1>1, OtherThread DEF Owned
  <1> QED BY <1>1, <1>2, ShapeFacts
          DEF Shape, PlacePart, EndsPart, PopperPart, PusherPart, HeapPart, shared

\* A compare_exchange that succeeds takes the first entry off free_.
LEMMA NewCasKeeps ==
  ASSUME NEW p, NEW c, NEW L, NEW F, Context(p, c, L, F), NewCas(p)
  PROVE  \E F2 : Shape(p, c, L, F2)'
  <1>1. CASE free # ent[p]
    <2>1. HaveFree(p, free) /\ pc[p] = "new_cas" /\ pushed[p] < PushesEach
      BY <1>1, ShapeFacts DEF NewCas, PusherPart
    <2>2. Shape(p, c, L, F)'
      BY <1>1, <2>1, HaveFreeKeeps DEF NewCas
    <2> QED BY <2>2
  <1>2. CASE free = ent[p]
    <2>1. /\ pc'[c] = pc[c] /\ ent' = ent /\ nxt' = nxt /\ free' = nxt[p]
          /\ pc[p] = "new_cas" /\ pc'[p] = "new_clear"
          /\ UNCHANGED <<head, tail, next, allocated, pushed>>
      BY <1>2, TypeFacts DEF NewCas, Goto
    <2>2. /\ Owned(c)' = Owned(c) /\ (Holds(c)' <=> Holds(c))
          /\ Owned(p)' = {ent[p]} /\ Owned(p) = {}
      BY <2>1, OtherThread DEF Owned
    <2>3. /\ PlacePart(p, c, L, F) /\ EndsPart(p, c, L, F)
          /\ PopperPart(c, L) /\ PusherPart(p, F) /\ HeapPart(p)
      BY ShapeFacts
    <2>4. ent[p] = First(F) /\ ent[p] # Null /\ F # <<>> /\ nxt[p] = next[ent[p]]
      <3>1. ent[p] = First(F)
        BY <1>2, <2>3 DEF EndsPart
      <3>2. ent[p] # Null
        BY <2>1, TypeFacts
      <3>3. F = <<>> => First(F) = Null
        BY ListNone
      <3>4. nxt[p] = next[ent[p]]
        BY <2>1, <2>3 DEF PusherPart
      <3> QED BY <3>1, <3>2, <3>3, <3>4
    <2>5. ent[p] = F[1]
      BY <2>4 DEF First
    <2>6. /\ IsList(Tail(F), next, allocated) /\ First(Tail(F)) = next[F[1]]
          /\ ToSet(Tail(F)) = ToSet(F) \ {F[1]} /\ F[1] \in ToSet(F)
      BY <2>3, <2>4, TypeFacts, ListTail DEF PlacePart
    <2>7. PlacePart(p, c, L, Tail(F))'
      BY <2>1, <2>2, <2>3, <2>5, <2>6 DEF PlacePart
    <2>8. EndsPart(p, c, L, Tail(F))' /\ PopperPart(c, L)'
      BY <2>1, <2>2, <2>3, <2>4, <2>5, <2>6 DEF EndsPart, PopperPart
    <2>9. PusherPart(p, Tail(F))' /\ HeapPart(p)'
      BY <2>1, <2>3 DEF PusherPart, HeapPart
    <2>10. Shape(p, c, L, Tail(F))'
      BY <2>7, <2>8, <2>9 DEF Shape
    <2> QED BY <2>10
  <1> QED BY <1>1, <1>2

\* Clearing next of the entry taken touches no list.
LEMMA NewClearKeeps ==
  ASSUME NEW p, NEW c, NEW L, NEW F, Context(p, c, L, F), NewClear(p)
  PROVE  Shape(p, c, L, F)'
  <1>1. /\ pc'[c] = pc[c] /\ ent' = ent /\ nxt' = nxt
        /\ pc[p] = "new_clear" /\ pc'[p] = "put"
        /\ next' = [next EXCEPT ![ent[p]] = Null]
        /\ UNCHANGED <<head, tail, free, allocated, pushed>>
    BY TypeFacts DEF NewClear, Goto
  <1>2. /\ Owned(c)' = Owned(c) /\ (Holds(c)' <=> Holds(c))
        /\ Owned(p)' = {ent[p]} /\ Owned(p) = {ent[p]}
    BY <1>1, OtherThread DEF Owned
  <1>3. /\ PlacePart(p, c, L, F) /\ EndsPart(p, c, L, F)
        /\ PopperPart(c, L) /\ PusherPart(p, F) /\ HeapPart(p)
    BY ShapeFacts
  <1>4. /\ ent[p] \in Entries /\ ent[p] \in 1..allocated /\ allocated \in Nat
        /\ next \in [Entries -> Pointers]
    BY <1>1, TypeFacts
  <1>5. ent[p] \notin ToSet(L) /\ ent[p] \notin ToSet(F) /\ ent[p] \notin Owned(c)
    BY <1>2, <1>3 DEF PlacePart
  <1>6. PlacePart(p, c, L, F)'
    <2>1. IsList(L, next', allocated) /\ IsList(F, next', allocated)
      BY <1>1, <1>3, <1>4, <1>5, ListElsewhere DEF PlacePart
    <2> QED BY <1>1, <1>2, <1>3, <2>1 DEF PlacePart
  <1>7. EndsPart(p, c, L, F)'
    BY <1>1, <1>2, <1>3 DEF EndsPart
  <1>8. PopperPart(c, L)'
    <2>1. pc[c] = "pop_cas" => ent[c] \in ToSet(L)
      BY <1>3, TypeFacts, ShapeFacts DEF PopperPart
    <2>2. pc[c] = "del_cas" => ent[c] \in Owned(c)
      BY DEF Owned
    <2>3. pc[c] \in {"pop_cas", "del_cas"} => next'[ent[c]] = next[ent[c]]
      BY <1>1, <1>4, <1>5, <2>1, <2>2, TypeFacts
    <2> QED BY <1>1, <1>2, <1>3, <2>3 DEF PopperPart
  <1>9. PusherPart(p, F)'
    BY <1>1, <1>3, <1>4 DEF PusherPart
  <1>10. HeapPart(p)'
    BY <1>1, <1>3, <1>4, TypeFacts DEF HeapPart, Entries
  <1> QED BY <1>6, <1>7, <1>8, <1>9, <1>10 DEF Shape

\* Neither does put_data.
LEMMA PutDataKeeps ==
  ASSUME NEW p, NEW c, NEW L, NEW F, Context(p, c, L, F), PutData(p)
  PROVE  Shape(p, c, L, F)'
  <1>1. /\ pc'[c] = pc[c] /\ ent' = ent /\ nxt' = nxt
        /\ pc[p] = "put" /\ pc'[p] = "exchange"
        /\ UNCHANGED <<head, tail, free, next, allocated, pushed>>
    BY TypeFacts DEF PutData, Goto
  <1>2. /\ Owned(c)' = Owned(c) /\ (Holds(c)' <=> Holds(c))
        /\ Owned(p)' = {ent[p]} /\ Owned(p) = {ent[p]}
    BY <1>1, OtherThread DEF Owned
  <1> QED BY <1>1, <1>2, ShapeFacts
          DEF Shape, PlacePart, EndsPart, PopperPart, PusherPart, HeapPart

\* From the exchange of head_ on, the pusher alone knows the last entry of L.
LEMMA ExchangeKeeps ==
  ASSUME NEW p, NEW c, NEW L, NEW F, Context(p, c, L, F), Exchange(p)
  PROVE  Shape(p, c, L, F)'
  <1>1. /\ pc'[c] = pc[c] /\ ent' = ent /\ nxt'[c] = nxt[c] /\ nxt'[p] = head
        /\ pc[p] = "exchange" /\ pc'[p] = "link" /\ head' = ent[p]
        /\ UNCHANGED <<tail, free, next, allocated, pushed>>
    BY TypeFacts DEF Exchange, Goto
  <1>2. /\ Owned(c)' = Owned(c) /\ (Holds(c)' <=> Holds(c))
        /\ Owned(p)' = {ent[p]} /\ Owned(p) = {ent[p]}
    BY <1>1, OtherThread DEF Owned
  <1> QED BY <1>1, <1>2, ShapeFacts
          DEF Shape, PlacePart, EndsPart, PopperPart, PusherPart, HeapPart

\* Linking, by tail_ or by next of the last entry, appends the entry to L.
LEMMA LinkKeeps ==
  ASSUME NEW p, NEW c, NEW L, NEW F, Context(p, c, L, F), Link(p)
  PROVE  \E e : e = ent[p] /\ Shape(p, c, Append(L, e), F)'
  <1>0. PICK e : e = ent[p]
    OBVIOUS
  <1>1. /\ pc'[c] = pc[c] /\ ent' = ent /\ nxt' = nxt
        /\ pc[p] = "link" /\ pc'[p] = "start" /\ pushed'[p] = pushed[p] + 1
        /\ UNCHANGED <<head, free, allocated>>
    BY TypeFacts DEF Link, Goto
  <1>2. /\ Owned(c)' = Owned(c) /\ (Holds(c)' <=> Holds(c))
        /\ Owned(p)' = {} /\ Owned(p) = {e}
    BY <1>0, <1>1, OtherThread DEF Owned
  <1>3. /\ PlacePart(p, c, L, F) /\ EndsPart(p, c, L, F)
        /\ PopperPart(c, L) /\ PusherPart(p, F) /\ HeapPart(p)
    BY ShapeFacts
  <1>4. /\ e \in 1..allocated /\ e # Null /\ allocated \in Nat /\ HeapSize \in Nat
        /\ allocated \in 0..HeapSize /\ 1..allocated \subseteq Entries
        /\ next \in [Entries -> Pointers] /\ pushed[p] \in Nat
        /\ InitialCapacity \in Nat
    BY <1>0, <1>1, TypeFacts
  <1>5. /\ e \notin ToSet(L) /\ e \notin ToSet(F) /\ e \notin Owned(c)
        /\ next[e] = Null /\ nxt[p] = LastOf(L) /\ head = e
        /\ 1..allocated = ToSet(L) \cup ToSet(F) \cup Owned(c) \cup {e}
        /\ ToSet(L) \cap ToSet(F) = {} /\ Owned(c) \cap (ToSet(L) \cup ToSet(F)) = {}
        /\ IsList(L, next, allocated) /\ IsList(F, next, allocated)
    BY <1>0, <1>1, <1>2, <1>3 DEF PlacePart, PusherPart, EndsPart
  <1>6. CASE L = <<>>
    <2>1. nxt[p] = Null /\ tail' = e /\ next' = next
      BY <1>0, <1>5, <1>6, ShapeFacts DEF Link
    <2>2. /\ IsList(<<e>>, next, allocated) /\ First(<<e>>) = e
          /\ LastOf(<<e>>) = e /\ ToSet(<<e>>) = {e}
      BY <1>4, <1>5, ListOne
    <2>3. ~Holds(c) /\ pc[c] \notin {"pop_next", "pop_cas"} /\ ToSet(L) = {}
      BY <1>3, <1>6, TypeFacts, ShapeFacts DEF PopperPart, Holds
    <2>4. PlacePart(p, c, <<e>>, F)'
      BY <1>1, <1>2, <1>5, <2>1, <2>2, <2>3 DEF PlacePart
    <2>5. EndsPart(p, c, <<e>>, F)'
      BY <1>1, <1>2, <1>3, <1>5, <2>1, <2>2, <2>3 DEF EndsPart
    <2>6. PopperPart(c, <<e>>)'
      BY <1>1, <1>2, <1>3, <2>1, <2>3 DEF PopperPart
    <2>7. PusherPart(p, F)' /\ HeapPart(p)'
      BY <1>1, <1>3, <1>4, <2>1 DEF PusherPart, HeapPart
    <2>8. Shape(p, c, <<e>>, F)'
      BY <2>4, <2>5, <2>6, <2>7 DEF Shape
    <2>9. Append(L, e) = <<e>>
      BY <1>6
    <2> QED BY <1>0, <2>8, <2>9
  <1>7. CASE L # <<>>
    <2>1. /\ LastOf(L) # Null /\ LastOf(L) \in ToSet(L) /\ next[LastOf(L)] = Null
          /\ First(L) # Null /\ First(L) \in ToSet(L)
      BY <1>7, ShapeFacts
    <2>2. next' = [next EXCEPT ![LastOf(L)] = e] /\ tail' = tail
      BY <1>0, <1>5, <2>1 DEF Link
    <2> DEFINE L2 == Append(L, e)
    <2>3. /\ IsList(L2, next', allocated) /\ First(L2) = First(L)
          /\ LastOf(L2) = e /\ ToSet(L2) = ToSet(L) \cup {e}
      <3>1. /\ next \in [Entries -> Pointers] /\ allocated \in 0..HeapSize
            /\ IsList(L, next, allocated) /\ L # <<>> /\ HeapSize \in Nat
            /\ e \in 1..allocated /\ e \notin ToSet(L) /\ next[e] = Null
        BY <1>4, <1>5, <1>7
      <3>2. PICK ny : ny = [next EXCEPT ![LastOf(L)] = e]
        OBVIOUS
      <3>3. IsList(Append(L, e), ny, allocated)
        BY <3>1, <3>2, ListAppend, Zenon
      <3>4. First(Append(L, e)) = First(L)
        BY <3>1, <3>2, ListAppend, SMT
      <3>5. LastOf(Append(L, e)) = e
        BY <3>1, <3>2, ListAppend, SMT
      <3>6. ToSet(Append(L, e)) = ToSet(L) \cup {e}
        BY <3>1, <3>2, ListAppend, SMT
      <3> QED BY <2>2, <3>2, <3>3, <3>4, <3>5, <3>6
    <2> HIDE DEF L2
    <2>4. IsList(F, next', allocated) /\ LastOf(L) \in 1..allocated
      <3>1. LastOf(L) \in Entries /\ LastOf(L) \notin ToSet(F) /\ LastOf(L) \in 1..allocated
        BY <1>4, <1>5, <2>1
      <3> QED BY <1>4, <1>5, <2>2, <3>1, ListElsewhere
    <2>5. PlacePart(p, c, L2, F)'
      BY <1>1, <1>2, <1>5, <2>3, <2>4 DEF PlacePart
    <2>6. EndsPart(p, c, L2, F)'
      BY <1>1, <1>2, <1>3, <1>5, <2>2, <2>3 DEF EndsPart
    <2>7. PopperPart(c, L2)'
      <3>1. ASSUME pc[c] = "pop_cas", nxt[c] # Null PROVE next'[ent[c]] = next[ent[c]]
        <4>1. next[ent[c]] # Null /\ ent[c] \in Entries
          BY <1>3, <3>1, TypeFacts DEF PopperPart
        <4> QED BY <1>4, <2>1, <2>2, <4>1
      <3>2. ASSUME pc[c] = "del_cas" PROVE next'[ent[c]] = next[ent[c]]
        <4>1. ent[c] \in Owned(c) /\ ent[c] \in Entries
          BY <3>2, TypeFacts DEF Owned
        <4> QED BY <1>4, <1>5, <2>1, <2>2, <4>1
      <3> QED BY <1>1, <1>2, <1>3, <2>3, <3>1, <3>2 DEF PopperPart
    <2>8. PusherPart(p, F)'
      BY <1>1 DEF PusherPart
    <2>9. HeapPart(p)'
      BY <1>1, <1>3, <1>4, <2>2, <2>4 DEF HeapPart, Entries
    <2>10. Shape(p, c, L2, F)'
      BY <2>5, <2>6, <2>7, <2>8, <2>9 DEF Shape
    <2> QED BY <1>0, <2>10 DEF L2
  <1> QED BY <1>6, <1>7

\* So every step of the pusher keeps the lists apart.
LEMMA PusherKeeps ==
  ASSUME NEW p, NEW c, NEW L, NEW F, Context(p, c, L, F), PushStep(p)
  PROVE  \E L2, F2 : Shape(p, c, L2, F2)'
  <1>1. CASE NewLoad(p)
    <2>1. Shape(p, c, L, F)'
      BY <1>1, HaveFreeKeeps DEF NewLoad
    <2> QED BY <2>1
  <1>2. CASE NewCas(p)
    <2>1. PICK F2 : Shape(p, c, L, F2)'
      BY <1>2, NewCasKeeps
    <2> QED BY <2>1
  <1>3. CASE Link(p)
    <2>1. PICK e : Shape(p, c, Append(L, e), F)'
      BY <1>3, LinkKeeps
    <2> QED BY <2>1
  <1>4. CASE NewNext(p) \/ NewClear(p) \/ PutData(p) \/ Exchange(p)
    <2>1. Shape(p, c, L, F)'
      BY <1>4, NewNextKeeps, NewClearKeeps, PutDataKeeps, ExchangeKeeps
    <2> QED BY <2>1
  <1> QED BY <1>1, <1>2, <1>3, <1>4 DEF PushStep

-----------------------------------------------------------------------------
(* Steps of the popper.                                                    *)

\* The popper's entry is the first one of L.
LEMMA LoadTailKeeps ==
  ASSUME NEW p, NEW c, NEW L, NEW F, Context(p, c, L, F), LoadTail(c)
  PROVE  Shape(p, c, L, F)'
  <1>1. /\ pc'[p] = pc[p] /\ ent'[p] = ent[p] /\ nxt' = nxt
        /\ pc[c] = "start" /\ pc'[c] = "pop_next" /\ ent'[c] = tail
        /\ UNCHANGED <<shared, pushed>>
    BY TypeFacts DEF LoadTail, Goto
  <1>2. /\ Owned(p)' = Owned(p) /\ Owned(c)' = {} /\ Owned(c) = {}
        /\ ~Holds(c) /\ ~Holds(c)'
    BY <1>1, OtherThread DEF Owned, Holds
  <1> QED BY <1>1, <1>2, ShapeFacts
          DEF Shape, PlacePart, EndsPart, PopperPart, PusherPart, HeapPart, shared

\* What it reads is what comes after, or null.
LEMMA ReadNextKeeps ==
  ASSUME NEW p, NEW c, NEW L, NEW F, Context(p, c, L, F), ReadNext(c)
  PROVE  Shape(p, c, L, F)'
  <1>1. /\ pc'[p] = pc[p] /\ ent' = ent /\ nxt'[p] = nxt[p]
        /\ pc[c] = "pop_next" /\ pc'[c] = "pop_cas" /\ nxt'[c] = next[ent[c]]
        /\ UNCHANGED <<shared, pushed>>
    BY TypeFacts DEF ReadNext, Goto
  <1>2. /\ Owned(p)' = Owned(p) /\ Owned(c)' = {} /\ Owned(c) = {}
        /\ ~Holds(c) /\ ~Holds(c)'
    BY <1>1, OtherThread DEF Owned, Holds
  <1> QED BY <1>1, <1>2, ShapeFacts
          DEF Shape, PlacePart, EndsPart, PopperPart, PusherPart, HeapPart, shared

\* The compare_exchange of tail_ always succeeds: with nobody else popping,
\* tail_ is still the entry that was read.
LEMMA PopCasKeeps ==
  ASSUME NEW p, NEW c, NEW L, NEW F, Context(p, c, L, F), PopCas(c)
  PROVE  \/ nxt[c] = Null /\ Shape(p, c, L, F)'
         \/ nxt[c] # Null /\ Shape(p, c, Tail(L), F)'
  <1>1. /\ PlacePart(p, c, L, F) /\ EndsPart(p, c, L, F)
        /\ PopperPart(c, L) /\ PusherPart(p, F) /\ HeapPart(p)
    BY ShapeFacts
  <1>2. pc[c] = "pop_cas" /\ ent[c] = First(L) /\ ~Holds(c) /\ tail = First(L)
    BY <1>1 DEF PopCas, Holds, PopperPart, EndsPart
  <1>3. /\ pc'[p] = pc[p] /\ ent' = ent /\ nxt' = nxt
        /\ pc'[c] = "take" /\ tail' = nxt[c]
        /\ UNCHANGED <<head, free, next, allocated, pushed>>
    BY <1>2, TypeFacts DEF PopCas, Goto
  <1>4. Owned(p)' = Owned(p) /\ Owned(c) = {}
    BY <1>2, <1>3, OtherThread DEF Owned
  <1>5. L # <<>> /\ ent[c] = L[1]
    <2>1. L # <<>>
      BY <1>2, TypeFacts, ShapeFacts
    <2> QED BY <1>2, <2>1 DEF First
  <1>6. CASE nxt[c] = Null
    <2>1. Owned(c)' = {} /\ Holds(c)'
      BY <1>3, <1>6 DEF Owned, Holds
    <2>2. Shape(p, c, L, F)'
      BY <1>1, <1>2, <1>3, <1>4, <1>6, <2>1
         DEF Shape, PlacePart, EndsPart, PopperPart, PusherPart, HeapPart
    <2> QED BY <1>6, <2>2
  <1>7. CASE nxt[c] # Null
    <2>1. Owned(c)' = {ent[c]} /\ ~Holds(c)' /\ nxt[c] = next[ent[c]]
      BY <1>1, <1>2, <1>3, <1>7 DEF Owned, Holds, PopperPart
    <2> DEFINE L2 == Tail(L)
    <2>2. /\ IsList(L2, next, allocated) /\ First(L2) = next[ent[c]]
          /\ ToSet(L2) = ToSet(L) \ {ent[c]} /\ ent[c] \in ToSet(L)
          /\ L2 # <<>> => LastOf(L2) = LastOf(L)
      BY <1>1, <1>5, TypeFacts, ListTail DEF PlacePart
    <2> HIDE DEF L2
    <2>3. LastOf(L2) = LastOf(L)
      <3>1. First(L2) # Null
        BY <1>7, <2>1, <2>2
      <3> QED BY <2>2, <3>1 DEF First
    <2>4. PlacePart(p, c, L2, F)'
      BY <1>1, <1>3, <1>4, <2>1, <2>2 DEF PlacePart
    <2>5. EndsPart(p, c, L2, F)'
      BY <1>1, <1>3, <2>1, <2>2, <2>3 DEF EndsPart
    <2>6. PopperPart(c, L2)' /\ PusherPart(p, F)' /\ HeapPart(p)'
      BY <1>1, <1>3, <2>1 DEF PopperPart, PusherPart, HeapPart
    <2>7. Shape(p, c, L2, F)'
      BY <2>4, <2>5, <2>6 DEF Shape
    <2> QED BY <1>7, <2>7 DEF L2
  <1> QED BY <1>6, <1>7

\* take_data moves no entry.
LEMMA TakeKeeps ==
  ASSUME NEW p, NEW c, NEW L, NEW F, Context(p, c, L, F), Take(c)
  PROVE  Shape(p, c, L, F)'
  <1>1. /\ pc'[p] = pc[p] /\ ent' = ent /\ nxt' = nxt /\ pc[c] = "take"
        /\ pc'[c] = IF nxt[c] = Null THEN "put_back" ELSE "del_load"
        /\ UNCHANGED <<head, tail, free, next, allocated, pushed>>
    BY TypeFacts DEF Take, Goto
  <1>2. /\ Owned(p)' = Owned(p) /\ Owned(c)' = Owned(c)
        /\ (Holds(c)' <=> Holds(c))
    BY <1>1, OtherThread DEF Owned, Holds
  <1> QED BY <1>1, <1>2, ShapeFacts
          DEF Shape, PlacePart, EndsPart, PopperPart, PusherPart, HeapPart, Holds

\* The last entry comes back to tail_: nobody has stored tail_ meanwhile, as a
\* push stores it only when head_ was null.
LEMMA PutBackKeeps ==
  ASSUME NEW p, NEW c, NEW L, NEW F, Context(p, c, L, F), PutBack(c)
  PROVE  Shape(p, c, L, F)'
  <1>1. /\ pc'[p] = pc[p] /\ ent' = ent /\ nxt' = nxt
        /\ pc[c] = "put_back" /\ pc'[c] = "start" /\ tail' = ent[c]
        /\ UNCHANGED <<head, free, next, allocated, pushed>>
    BY TypeFacts DEF PutBack, Goto
  <1>2. Owned(p)' = Owned(p) /\ Owned(c)' = {} /\ Owned(c) = {} /\ ~Holds(c)'
    BY <1>1, OtherThread DEF Owned, Holds
  <1>3. Holds(c) /\ ent[c] = First(L)
    BY <1>1, ShapeFacts DEF Holds, PopperPart
  <1> QED BY <1>1, <1>2, <1>3, ShapeFacts
          DEF Shape, PlacePart, EndsPart, PopperPart, PusherPart, HeapPart

\* del_entry reads free_ for the entry it owns ...
LEMMA DelLoadKeeps ==
  ASSUME NEW p, NEW c, NEW L, NEW F, Context(p, c, L, F), DelLoad(c)
  PROVE  Shape(p, c, L, F)'
  <1>1. /\ pc'[p] = pc[p] /\ ent' = ent /\ nxt'[p] = nxt[p]
        /\ pc[c] = "del_load" /\ pc'[c] = "del_store"
        /\ UNCHANGED <<shared, pushed>>
    BY TypeFacts DEF DelLoad, Goto
  <1>2. /\ Owned(p)' = Owned(p) /\ Owned(c)' = Owned(c)
        /\ ~Holds(c) /\ ~Holds(c)'
    BY <1>1, OtherThread DEF Owned, Holds
  <1> QED BY <1>1, <1>2, ShapeFacts
          DEF Shape, PlacePart, EndsPart, PopperPart, PusherPart, HeapPart, shared

\* ... stores it in next of that entry, which is on no list ...
LEMMA DelStoreKeeps ==
  ASSUME NEW p, NEW c, NEW L, NEW F, Context(p, c, L, F), DelStore(c)
  PROVE  Shape(p, c, L, F)'
  <1>1. /\ pc'[p] = pc[p] /\ ent' = ent /\ nxt' = nxt
        /\ pc[c] = "del_store" /\ pc'[c] = "del_cas"
        /\ next' = [next EXCEPT ![ent[c]] = nxt[c]]
        /\ UNCHANGED <<head, tail, free, allocated, pushed>>
    BY TypeFacts DEF DelStore, Goto
  <1>2. /\ Owned(p)' = Owned(p) /\ Owned(c)' = {ent[c]} /\ Owned(c) = {ent[c]}
        /\ ~Holds(c) /\ ~Holds(c)'
    BY <1>1, OtherThread DEF Owned, Holds
  <1>3. /\ PlacePart(p, c, L, F) /\ EndsPart(p, c, L, F)
        /\ PopperPart(c, L) /\ PusherPart(p, F) /\ HeapPart(p)
    BY ShapeFacts
  <1>4. /\ ent[c] \in Entries /\ ent[c] \in 1..allocated /\ allocated \in Nat
        /\ next \in [Entries -> Pointers]
    BY <1>1, TypeFacts
  <1>5. ent[c] \notin ToSet(L) /\ ent[c] \notin ToSet(F) /\ ent[c] \notin Owned(p)
    BY <1>2, <1>3 DEF PlacePart
  <1>6. PlacePart(p, c, L, F)'
    <2>1. IsList(L, next', allocated) /\ IsList(F, next', allocated)
      BY <1>1, <1>3, <1>4, <1>5, ListElsewhere DEF PlacePart
    <2> QED BY <1>1, <1>2, <1>3, <2>1 DEF PlacePart
  <1>7. EndsPart(p, c, L, F)'
    BY <1>1, <1>2, <1>3 DEF EndsPart
  <1>8. PopperPart(c, L)'
    BY <1>1, <1>2, <1>4 DEF PopperPart
  <1>9. PusherPart(p, F)'
    <2>1. pc[p] = "new_cas" => ent[p] \in ToSet(F)
      BY <1>3 DEF PusherPart
    <2>2. pc[p] \in {"put", "exchange", "link"} => ent[p] \in Owned(p)
      BY DEF Owned
    <2>3. pc[p] \in {"new_cas", "put", "exchange", "link"} => next'[ent[p]] = next[ent[p]]
      BY <1>1, <1>4, <1>5, <2>1, <2>2, TypeFacts
    <2> QED BY <1>1, <1>3, <2>3 DEF PusherPart
  <1>10. HeapPart(p)'
    <2>1. \A e \in Entries : e > allocated => e # ent[c]
      BY <1>4 DEF Entries
    <2>2. \A e \in Entries : e > allocated => next'[e] = Null
      BY <1>1, <1>3, <1>4, <2>1 DEF HeapPart
    <2> QED BY <1>1, <1>3, <2>2 DEF HeapPart
  <1> QED BY <1>6, <1>7, <1>8, <1>9, <1>10 DEF Shape

\* ... and, if free_ is still the same, puts the entry in front of F.
LEMMA DelCasKeeps ==
  ASSUME NEW p, NEW c, NEW L, NEW F, Context(p, c, L, F), DelCas(c)
  PROVE  \E F2 : Shape(p, c, L, F2)'
  <1>0. PICK e : e = ent[c]
    OBVIOUS
  <1>1. /\ pc'[p] = pc[p] /\ ent' = ent /\ nxt'[p] = nxt[p] /\ pc[c] = "del_cas"
        /\ UNCHANGED <<head, tail, next, allocated, pushed>>
    BY TypeFacts DEF DelCas, Goto
  <1>2. /\ PlacePart(p, c, L, F) /\ EndsPart(p, c, L, F)
        /\ PopperPart(c, L) /\ PusherPart(p, F) /\ HeapPart(p)
    BY ShapeFacts
  <1>3. Owned(p)' = Owned(p) /\ Owned(c) = {e} /\ ~Holds(c)
    BY <1>0, <1>1, OtherThread DEF Owned, Holds
  <1>4. CASE free # nxt[c]
    <2>1. pc'[c] = "del_store" /\ free' = free
      BY <1>4, TypeFacts DEF DelCas, Goto
    <2>2. Owned(c)' = {e} /\ ~Holds(c)'
      BY <1>0, <1>1, <2>1 DEF Owned, Holds
    <2>3. Shape(p, c, L, F)'
      BY <1>1, <1>2, <1>3, <2>1, <2>2
         DEF Shape, PlacePart, EndsPart, PopperPart, PusherPart, HeapPart
    <2> QED BY <2>3
  <1>5. CASE free = nxt[c]
    <2>1. pc'[c] = "start" /\ free' = e
      BY <1>0, <1>5, TypeFacts DEF DelCas, Goto
    <2>2. Owned(c)' = {} /\ ~Holds(c)'
      BY <2>1 DEF Owned, Holds
    <2> DEFINE F2 == <<e>> \o F
    <2>3. /\ allocated \in Nat /\ IsList(F, next, allocated) /\ e \in 1..allocated
          /\ e \notin ToSet(F) /\ next[e] = First(F)
      BY <1>0, <1>1, <1>2, <1>3, <1>5, TypeFacts
         DEF PlacePart, EndsPart, PopperPart
    <2>4. /\ IsList(F2, next, allocated) /\ First(F2) = e
          /\ ToSet(F2) = ToSet(F) \cup {e}
      BY <2>3, ListCons
    <2> HIDE DEF F2
    <2>5. PlacePart(p, c, L, F2)'
      BY <1>1, <1>2, <1>3, <2>2, <2>4 DEF PlacePart
    <2>6. EndsPart(p, c, L, F2)'
      BY <1>1, <1>2, <1>3, <2>1, <2>2, <2>4 DEF EndsPart
    <2>7. PopperPart(c, L)' /\ PusherPart(p, F2)' /\ HeapPart(p)'
      BY <1>1, <1>2, <2>1, <2>2, <2>4 DEF PopperPart, PusherPart, HeapPart
    <2>8. Shape(p, c, L, F2)'
      BY <2>5, <2>6, <2>7 DEF Shape
    <2> QED BY <2>8
  <1> QED BY <1>4, <1>5

\* So every step of the popper keeps the lists apart.
LEMMA PopperKeeps ==
  ASSUME NEW p, NEW c, NEW L, NEW F, Context(p, c, L, F), PopStep(c)
  PROVE  \E L2, F2 : Shape(p, c, L2, F2)'
  <1>1. CASE PopCas(c)
    <2>1. Shape(p, c, L, F)' \/ Shape(p, c, Tail(L), F)'
      BY <1>1, PopCasKeeps
    <2> QED BY <2>1
  <1>2. CASE DelCas(c)
    <2>1. PICK F2 : Shape(p, c, L, F2)'
      BY <1>2, DelCasKeeps
    <2> QED BY <2>1
  <1>3. CASE \/ LoadTail(c) \/ ReadNext(c) \/ Take(c) \/ PutBack(c)
             \/ DelLoad(c) \/ DelStore(c)
    <2>1. Shape(p, c, L, F)'
      BY <1>3, LoadTailKeeps, ReadNextKeeps, TakeKeeps, PutBackKeeps,
         DelLoadKeeps, DelStoreKeeps
    <2> QED BY <2>1
  <1> QED BY <1>1, <1>2, <1>3 DEF PopStep

-----------------------------------------------------------------------------
(* The theorems.                                                           *)

\* The inductive invariant.
ListsApart(p, c) == TypeOK /\ \E L, F : Shape(p, c, L, F)

\* Every step keeps it.
LEMMA Step ==
  ASSUME NEW p, NEW c, Alone(p, c), ListsApart(p, c), [Next]_vars
  PROVE  ListsApart(p, c)'
  <1>1. PICK L, F : Context(p, c, L, F)
    BY DEF ListsApart, Context
  <1>2. TypeOK'
    BY <1>1, TypeStep
  <1>3. (\E L2, F2 : Shape(p, c, L2, F2))'
    <2>1. CASE PushStep(p)
      BY <1>1, <2>1, PusherKeeps
    <2>2. CASE PopStep(c)
      BY <1>1, <2>2, PopperKeeps
    <2>3. CASE UNCHANGED vars
      <3>1. Shape(p, c, L, F)'
        BY <1>1, <2>3
           DEF Context, Shape, PlacePart, EndsPart, PopperPart, PusherPart,
               HeapPart, Owned, Holds, vars, shared
      <3> QED BY <3>1
    <2> QED BY <2>1, <2>2, <2>3 DEF Next, Alone
  <1> QED BY <1>2, <1>3 DEF ListsApart

\* push and pop of lfqueue.hpp by one thread each: the entries of the queue, the
\* entries of free_ and the entry each thread works on are distinct and make up
\* the whole heap, at every step of the atomics.
THEOREM ListsStayApart ==
  ASSUME NEW p, NEW c, Alone(p, c)
  PROVE  Spec => []ListsApart(p, c)
  <1>1. Init => ListsApart(p, c)
    BY InitTypeOK, InitShape DEF ListsApart
  <1>2. ListsApart(p, c) /\ [Next]_vars => ListsApart(p, c)'
    BY Step
  <1> QED BY <1>1, <1>2, PTL DEF Spec, SafeSpec

\* What ~lfqueue reaches from tail_ and free_ are L, unless the popper holds its
\* last entry, and F.
LEMMA ListsAre ==
  ASSUME NEW p, NEW c, NEW L, NEW F, Context(p, c, L, F)
  PROVE  /\ ChainFrom(free) = F
         /\ ChainFrom(tail) = IF Holds(c) THEN <<>> ELSE L
  <1>1. /\ IsList(L, next, allocated) /\ IsList(F, next, allocated)
        /\ free = First(F) /\ tail = IF Holds(c) THEN Null ELSE First(L)
    BY ShapeFacts DEF PlacePart, EndsPart
  <1>2. /\ next \in [Entries -> Pointers] /\ HeapSize \in Nat
        /\ allocated \in 0..HeapSize /\ allocated \in Nat
    BY TypeFacts
  <1>3. Len(L) <= HeapSize /\ Len(F) <= HeapSize
    <2>1. Len(L) \in Nat /\ Len(F) \in Nat
      BY <1>1 DEF IsList
    <2> QED BY <1>1, <1>2, <2>1, ListLength
  <1>4. ChainFrom(First(F)) = F /\ ChainFrom(First(L)) = L
    BY <1>1, <1>2, <1>3, ChainIs
  <1>5. IsList(<<>>, next, allocated) /\ Len(<<>>) <= HeapSize /\ First(<<>>) = Null
    BY <1>2, EmptySeq DEF IsList, First
  <1>6. ChainFrom(Null) = <<>>
    BY <1>2, <1>5, ChainIs
  <1> QED BY <1>1, <1>4, <1>6

\* An entry that push or pop works on without synchronisation is reached from
\* neither tail_ nor free_ and is not the other thread's: put_data and take_data
\* are alone with the item.
THEOREM PrivateEntriesAreNotShared ==
  ASSUME NEW p, NEW c, Alone(p, c)
  PROVE  Spec => []NoSharedEntry
  <1>1. ASSUME ListsApart(p, c) PROVE NoSharedEntry
    <2>1. PICK L, F : Context(p, c, L, F)
      BY <1>1 DEF ListsApart, Context
    <2>2. Chained(free) = ToSet(F) /\ Chained(tail) = IF Holds(c) THEN {} ELSE ToSet(L)
      BY <2>1, ListsAre, ListNone DEF Chained
    <2>3. PlacePart(p, c, L, F) /\ PopperPart(c, L)
      BY <2>1, ShapeFacts
    <2>4. Threads = {p, c} /\ p # c /\ pc[p] \in PushLabels /\ pc[c] \in PopLabels
      BY <2>1, TypeFacts
    <2>5. Private(p) = Owned(p)
      BY <2>4 DEF Private, Owned, PushLabels
    <2>6. ~Holds(c) => Private(c) = Owned(c)
      BY <2>3, <2>4 DEF Private, Owned, Holds, PopLabels, PopperPart
    <2>7. Holds(c) => Private(c) = {First(L)} /\ First(L) \in ToSet(L)
      <3>1. Holds(c) => ent[c] = First(L) /\ pc[c] # "start"
        BY <2>3 DEF Holds, PopperPart
      <3>2. Holds(c) => First(L) # Null
        BY <2>1, <3>1, TypeFacts
      <3>3. First(L) # Null => First(L) \in ToSet(L)
        BY <2>1, ShapeFacts
      <3> QED BY <3>1, <3>2, <3>3 DEF Private, Holds
    <2>8. Private(p) \cap (Chained(tail) \cup Chained(free)) = {}
      BY <2>2, <2>3, <2>5 DEF PlacePart
    <2>9. Private(c) \cap (Chained(tail) \cup Chained(free)) = {}
      BY <2>2, <2>3, <2>6, <2>7 DEF PlacePart
    <2>10. Private(p) \cap Private(c) = {}
      BY <2>3, <2>5, <2>6, <2>7 DEF PlacePart
    <2> QED BY <2>4, <2>8, <2>9, <2>10 DEF NoSharedEntry
  <1> QED BY <1>1, ListsStayApart, PTL

\* Two lists that share no entry and have them all.
LEMMA ListsTogether ==
  ASSUME NEW nx, NEW n \in Nat, NEW s, IsList(s, nx, n), NEW t, IsList(t, nx, n),
         ToSet(s) \cap ToSet(t) = {}, ToSet(s) \cup ToSet(t) = 1..n
  PROVE  Len(s \o t) = n /\ ToSet(s \o t) = 1..n
  <1> DEFINE u == s \o t
  <1>1. /\ s \in Seq(1..n) /\ Len(s) \in Nat /\ DOMAIN s = 1..Len(s)
        /\ t \in Seq(1..n) /\ Len(t) \in Nat /\ DOMAIN t = 1..Len(t)
    BY DEF IsList
  <1>2. /\ u \in Seq(1..n) /\ Len(u) = Len(s) + Len(t)
        /\ \A i \in 1..(Len(s) + Len(t)) :
             u[i] = IF i <= Len(s) THEN s[i] ELSE t[i - Len(s)]
    BY <1>1, ConcatProperties
  <1> HIDE DEF u
  <1>a. ASSUME NEW k \in 1..Len(u)
        PROVE  \/ k \in 1..Len(s) /\ u[k] = s[k]
               \/ k - Len(s) \in 1..Len(t) /\ u[k] = t[k - Len(s)]
    <2>1. Len(s) \in Nat /\ Len(t) \in Nat /\ k \in 1..(Len(s) + Len(t))
      BY <1>1, <1>2
    <2>2. u[k] = IF k <= Len(s) THEN s[k] ELSE t[k - Len(s)]
      BY <1>2, <2>1
    <2>3. k <= Len(s) => k \in 1..Len(s)
      BY <2>1
    <2>4. ~(k <= Len(s)) => k - Len(s) \in 1..Len(t)
      BY <2>1
    <2> QED BY <2>2, <2>3, <2>4
  <1>3. /\ \A i \in 1..Len(s) : u[i] = s[i] /\ i \in 1..Len(u)
        /\ \A i \in 1..Len(t) : u[Len(s) + i] = t[i] /\ Len(s) + i \in 1..Len(u)
    <2>1. Len(s) \in Nat /\ Len(t) \in Nat /\ Len(u) = Len(s) + Len(t)
      BY <1>1, <1>2
    <2>2. ASSUME NEW i \in 1..Len(s) PROVE u[i] = s[i] /\ i \in 1..Len(u)
      <3>1. i \in 1..(Len(s) + Len(t)) /\ i <= Len(s)
        BY <2>1
      <3> QED BY <1>2, <3>1
    <2>3. ASSUME NEW i \in 1..Len(t)
          PROVE  u[Len(s) + i] = t[i] /\ Len(s) + i \in 1..Len(u)
      <3>1. /\ Len(s) + i \in 1..(Len(s) + Len(t)) /\ ~(Len(s) + i <= Len(s))
            /\ (Len(s) + i) - Len(s) = i
        BY <2>1
      <3>2. u[Len(s) + i] = t[(Len(s) + i) - Len(s)]
        BY <1>2, <3>1
      <3> QED BY <2>1, <3>1, <3>2
    <2> QED BY <2>2, <2>3
  <1>4. /\ \A i \in 1..Len(s) : s[i] \in ToSet(s)
        /\ \A i \in 1..Len(t) : t[i] \in ToSet(t)
    BY <1>1 DEF ToSet
  <1>5. /\ \A i, j \in 1..Len(s) : s[i] = s[j] => i = j
        /\ \A i, j \in 1..Len(t) : t[i] = t[j] => i = j
    BY DEF IsList
  <1>6. ASSUME NEW i \in 1..Len(u), NEW j \in 1..Len(u), u[i] = u[j] PROVE i = j
    <2>1. \A k \in 1..Len(u) : \/ k \in 1..Len(s) /\ u[k] = s[k]
                               \/ k - Len(s) \in 1..Len(t) /\ u[k] = t[k - Len(s)]
      BY <1>a
    <2>2. CASE i \in 1..Len(s) /\ j \in 1..Len(s)
      BY <1>3, <1>5, <1>6, <2>2
    <2>3. CASE i - Len(s) \in 1..Len(t) /\ j - Len(s) \in 1..Len(t)
      <3>1. Len(s) \in Nat /\ i \notin 1..Len(s) /\ j \notin 1..Len(s)
        BY <1>1, <2>3
      <3>2. t[i - Len(s)] = t[j - Len(s)]
        BY <1>6, <2>1, <3>1
      <3>3. i - Len(s) = j - Len(s)
        BY <1>5, <2>3, <3>2
      <3> QED BY <3>1, <3>3
    <2> QED BY <1>4, <1>6, <2>1, <2>2, <2>3
  <1>7. u \in Injection(1..Len(u), 1..n)
    <2>1. u \in [1..Len(u) -> 1..n]
      BY <1>2, LenProperties
    <2> QED BY <1>6, <2>1 DEF Injection, IsInjective
  <1>8. ToSet(u) = 1..n
    <2>1. ToSet(u) \subseteq 1..n
      <3>1. DOMAIN u = 1..Len(u)
        BY <1>2, LenProperties
      <3> QED BY <1>2, <3>1, ElementOfSeq DEF ToSet
    <2>2. ASSUME NEW e \in ToSet(s) PROVE \E i \in 1..Len(u) : u[i] = e
      <3>1. PICK i \in 1..Len(s) : s[i] = e
        BY <1>1 DEF ToSet
      <3> QED BY <1>3, <3>1
    <2>3. ASSUME NEW e \in ToSet(t) PROVE \E i \in 1..Len(u) : u[i] = e
      <3>1. PICK i \in 1..Len(t) : t[i] = e
        BY <1>1 DEF ToSet
      <3> QED BY <1>3, <3>1
    <2>4. \A e \in 1..n : \E i \in 1..Len(u) : u[i] = e
      BY <2>2, <2>3
    <2>5. DOMAIN u = 1..Len(u)
      BY <1>2, LenProperties
    <2> QED BY <2>1, <2>4, <2>5 DEF ToSet
  <1>9. Len(u) = n
    <2>1. u \in Surjection(1..Len(u), 1..n)
      <3>1. u \in [1..Len(u) -> 1..n]
        BY <1>2, LenProperties
      <3>2. \A e \in 1..n : \E i \in 1..Len(u) : u[i] = e
        BY <1>8, <3>1 DEF ToSet
      <3> QED BY <3>1, <3>2 DEF Surjection
    <2>2. Len(u) \in Nat
      BY <1>1, <1>2
    <2>3. \A k \in Nat : IsFiniteSet(1..k) /\ Cardinality(1..k) = k
      <3>1. \A k \in Nat : IsFiniteSet(1..k) /\ Cardinality(1..k) = IF 1 > k THEN 0 ELSE k - 1 + 1
        BY FS_Interval
      <3> QED BY <3>1
    <2>4. Cardinality(1..Len(u)) = Cardinality(1..n)
      BY <1>7, <2>1, <2>3, FS_Injection
    <2> QED BY <2>2, <2>3, <2>4
  <1> QED BY <1>8, <1>9 DEF u

\* ~lfqueue, when no push and no pop is in progress, deletes every entry that was
\* allocated, and none twice.
THEOREM DestructorFreesAll ==
  ASSUME NEW p, NEW c, Alone(p, c)
  PROVE  Spec => []DestructorFreesEachOnce
  <1>1. ASSUME ListsApart(p, c), \A t \in Threads : pc[t] = "start"
        PROVE  /\ Len(ChainFrom(tail) \o ChainFrom(free)) = allocated
               /\ ToSet(ChainFrom(tail) \o ChainFrom(free)) = 1..allocated
    <2>1. PICK L, F : Context(p, c, L, F)
      BY <1>1 DEF ListsApart, Context
    <2>2. pc[p] = "start" /\ pc[c] = "start"
      BY <1>1, <2>1, TypeFacts
    <2>3. Owned(p) = {} /\ Owned(c) = {} /\ ~Holds(c)
      BY <2>2 DEF Owned, Holds
    <2>4. ChainFrom(free) = F /\ ChainFrom(tail) = L
      BY <2>1, <2>3, ListsAre
    <2>5. /\ IsList(L, next, allocated) /\ IsList(F, next, allocated)
          /\ ToSet(L) \cap ToSet(F) = {} /\ ToSet(L) \cup ToSet(F) = 1..allocated
      BY <2>1, <2>3, ShapeFacts DEF PlacePart
    <2>6. allocated \in Nat
      BY <2>1, TypeFacts
    <2> QED BY <2>4, <2>5, <2>6, ListsTogether
  <1>2. ListsApart(p, c) => DestructorFreesEachOnce
    BY <1>1 DEF DestructorFreesEachOnce
  <1> QED BY <1>2, ListsStayApart, PTL

-----------------------------------------------------------------------------
(* The items in a list of entries.                                         *)

\* What data of an entry may be, and what it is along a list.
Cells == Items \cup {NoItem}

Contents(d, s) == [k \in DOMAIN s |-> d[s[k]]]

\* The contents of a list, place by place.
LEMMA ContentsIs ==
  ASSUME NEW d \in [Entries -> Cells]
  PROVE  \A s \in Seq(Entries) :
           /\ Contents(d, s) \in Seq(Cells) /\ Len(Contents(d, s)) = Len(s)
           /\ \A i \in 1..Len(s) : Contents(d, s)[i] = d[s[i]]
  <1> TAKE s \in Seq(Entries)
  <1>1. /\ DOMAIN s = 1..Len(s) /\ Len(s) \in Nat
        /\ \A i \in 1..Len(s) : s[i] \in Entries
    BY ElementOfSeq
  <1>2. Contents(d, s) = [k \in 1..Len(s) |-> d[s[k]]]
    BY <1>1 DEF Contents
  <1>3. \A i \in 1..Len(s) : d[s[i]] \in Cells
    BY <1>1
  <1> QED BY <1>1, <1>2, <1>3

\* The contents change only with the data of an entry of the list.
LEMMA ContentsSame ==
  ASSUME NEW s, NEW d, NEW e, \A x \in ToSet(s) : d[x] = e[x]
  PROVE  Contents(d, s) = Contents(e, s)
  <1>1. \A k \in DOMAIN s : s[k] \in ToSet(s)
    BY DEF ToSet
  <1> QED BY <1>1 DEF Contents

\* The contents of a list with one more entry behind.
LEMMA ContentsAppend ==
  ASSUME NEW s \in Seq(Entries), NEW d \in [Entries -> Cells],
         NEW y \in Entries
  PROVE  Contents(d, Append(s, y)) = Append(Contents(d, s), d[y])
  <1>a. \A v \in Seq(Entries) :
          /\ Contents(d, v) \in Seq(Cells) /\ Len(Contents(d, v)) = Len(v)
          /\ \A i \in 1..Len(v) : Contents(d, v)[i] = d[v[i]]
    BY ContentsIs
  <1> DEFINE t == Append(s, y)
             l == Contents(d, t)
             u == Contents(d, s)
             r == Append(u, d[y])
  <1>1. /\ t \in Seq(Entries) /\ Len(t) = Len(s) + 1 /\ Len(s) \in Nat
        /\ t[Len(s) + 1] = y /\ \A i \in 1..Len(s) : t[i] = s[i]
    OBVIOUS
  <1> HIDE DEF t
  <1>2. /\ l \in Seq(Cells) /\ Len(l) = Len(t)
        /\ \A i \in 1..Len(t) : l[i] = d[t[i]]
    BY <1>a, <1>1
  <1>3. /\ u \in Seq(Cells) /\ Len(u) = Len(s)
        /\ \A i \in 1..Len(s) : u[i] = d[s[i]]
    BY <1>a
  <1> HIDE DEF l, u
  <1>4. /\ r \in Seq(Cells) /\ Len(r) = Len(s) + 1 /\ r[Len(s) + 1] = d[y]
        /\ \A i \in 1..Len(s) : r[i] = u[i]
    BY <1>3
  <1> HIDE DEF r
  <1>5. ASSUME NEW i \in 1..Len(l) PROVE l[i] = r[i]
    <2>1. i \in 1..Len(s) \/ i = Len(s) + 1
      BY <1>1, <1>2
    <2> QED BY <1>1, <1>2, <1>3, <1>4, <2>1
  <1>6. l = r
    BY <1>1, <1>2, <1>4, <1>5, SeqEqual
  <1> QED BY <1>6 DEF l, r, u, t

\* The contents of a list without its first entry.
LEMMA ContentsTail ==
  ASSUME NEW s \in Seq(Entries), NEW d \in [Entries -> Cells], s # <<>>
  PROVE  /\ Contents(d, s) # <<>> /\ Head(Contents(d, s)) = d[s[1]]
         /\ Tail(Contents(d, s)) = Contents(d, Tail(s))
  <1>a. \A v \in Seq(Entries) :
          /\ Contents(d, v) \in Seq(Cells) /\ Len(Contents(d, v)) = Len(v)
          /\ \A i \in 1..Len(v) : Contents(d, v)[i] = d[v[i]]
    BY ContentsIs
  <1> DEFINE t == Tail(s)
             l == Contents(d, t)
             u == Contents(d, s)
             r == Tail(u)
  <1>1. /\ Len(s) \in Nat \ {0} /\ t \in Seq(Entries) /\ Len(t) = Len(s) - 1
        /\ \A i \in 1..Len(t) : t[i] = s[i + 1]
    BY EmptySeq, HeadTailProperties
  <1> HIDE DEF t
  <1>2. /\ l \in Seq(Cells) /\ Len(l) = Len(t)
        /\ \A i \in 1..Len(t) : l[i] = d[t[i]]
    BY <1>a, <1>1
  <1>3. /\ u \in Seq(Cells) /\ Len(u) = Len(s)
        /\ \A i \in 1..Len(s) : u[i] = d[s[i]]
    BY <1>a
  <1> HIDE DEF l, u
  <1>4. u # <<>> /\ Head(u) = d[s[1]]
    BY <1>1, <1>3, EmptySeq
  <1>5. /\ r \in Seq(Cells) /\ Len(r) = Len(u) - 1
        /\ \A i \in 1..Len(r) : r[i] = u[i + 1]
    BY <1>3, <1>4, HeadTailProperties
  <1> HIDE DEF r
  <1>6. ASSUME NEW i \in 1..Len(l) PROVE l[i] = r[i]
    <2>1. i \in 1..Len(t) /\ i \in 1..Len(r) /\ i + 1 \in 1..Len(s)
      BY <1>1, <1>2, <1>3, <1>5
    <2>2. l[i] = d[t[i]] /\ t[i] = s[i + 1]
      BY <1>1, <1>2, <2>1
    <2>3. r[i] = u[i + 1]
      BY <1>5, <2>1
    <2>4. u[i + 1] = d[s[i + 1]]
      BY <1>3, <2>1
    <2> QED BY <2>2, <2>3, <2>4
  <1>7. l = r
    BY <1>1, <1>2, <1>3, <1>5, <1>6, SeqEqual
  <1> QED BY <1>4, <1>7 DEF l, r, u, t

\* The contents of the empty list.
LEMMA ContentsNone ==
  ASSUME NEW d PROVE Contents(d, <<>>) = <<>>
  BY DEF Contents

-----------------------------------------------------------------------------
(* The refinement of LagQueue.                                             *)

\* Which entries hold an item: all behind the first one, and the first one
\* when it has just become it.
DataPart(p, c, L) ==
  /\ \A e \in ToSet(L) \ {First(L)} : data[e] \in Items
  /\ pc[c] = "take" /\ nxt[c] # Null =>
       L # <<>> /\ next[ent[c]] = First(L) /\ data[First(L)] \in Items
  /\ pc[c] = "put_back" => data[ent[c]] = NoItem
  /\ pc[p] \in {"exchange", "link"} => data[ent[p]] = ItemOf(p)

Whole(p, c, L, F) == Context(p, c, L, F) /\ DataPart(p, c, L)

\* The refinement mapping, told from the list instead of the pointers.
LagOf(c, L) == IF Decided(c) THEN nxt[c] = Null
                             ELSE L # <<>> /\ data[First(L)] = NoItem

EntriesOf(c, L) == IF LagOf(c, L) \/ pc[c] = "pop_cas" THEN Tail(L) ELSE L

QOf(c, L) == Contents(data, EntriesOf(c, L))

Q == [k \in DOMAIN QueuedEntries |-> data[QueuedEntries[k]]]

\* What the invariant says of the queue's list and its data.
LEMMA WholeFacts ==
  ASSUME NEW p, NEW c, NEW L, NEW F, Whole(p, c, L, F)
  PROVE  /\ data \in [Entries -> Cells] /\ L \in Seq(Entries)
         /\ IsList(L, next, allocated) /\ Len(L) <= HeapSize
         /\ ToSet(L) \subseteq Entries /\ NoItem \notin Items
         /\ L # <<>> =>
              /\ First(L) \in ToSet(L) /\ First(L) # Null /\ First(L) = L[1]
              /\ IsList(Tail(L), next, allocated) /\ Tail(L) \in Seq(Entries)
              /\ Len(Tail(L)) <= HeapSize
              /\ First(Tail(L)) = next[First(L)]
              /\ ToSet(Tail(L)) = ToSet(L) \ {First(L)}
              /\ Tail(L) = <<>> <=> next[First(L)] = Null
              /\ Tail(L) = <<>> <=> Len(L) = 1
         /\ (Decided(c) /\ ~(pc[c] = "take" /\ nxt[c] # Null)) \/ pc[c] = "pop_next" =>
              L # <<>> /\ ent[c] = First(L)
         /\ LagOf(c, L) \/ pc[c] = "pop_cas" => L # <<>>
  <1>1. Context(p, c, L, F) /\ TypeOK
    BY DEF Whole, Context
  <1>2. data \in [Entries -> Cells]
    BY <1>1 DEF TypeOK, Cells
  <1>3. /\ IsList(L, next, allocated) /\ allocated \in Nat /\ HeapSize \in Nat
        /\ 1..allocated \subseteq Entries /\ allocated <= HeapSize
    BY <1>1, TypeFacts, ShapeFacts DEF PlacePart
  <1>a. ASSUME NEW s, IsList(s, next, allocated)
        PROVE  s \in Seq(Entries) /\ Len(s) \in Nat /\ Len(s) <= HeapSize
    <2>1. s \in Seq(1..allocated) /\ Len(s) \in Nat
      BY <1>a DEF IsList
    <2>2. Len(s) <= allocated
      BY <1>3, <1>a, ListLength
    <2> QED BY <1>3, <2>1, <2>2, SeqMonotonic
  <1>4. ToSet(L) \subseteq Entries
    <2>1. ToSet(L) \subseteq 1..allocated
      BY <1>3, ListSet
    <2> QED BY <1>3, <2>1
  <1>5. NoItem \notin Items
    BY DEF NoItem, Items
  <1>6. ASSUME L # <<>>
        PROVE  /\ First(L) \in ToSet(L) /\ First(L) # Null /\ First(L) = L[1]
               /\ IsList(Tail(L), next, allocated) /\ Tail(L) \in Seq(Entries)
               /\ Len(Tail(L)) <= HeapSize
               /\ First(Tail(L)) = next[First(L)]
               /\ ToSet(Tail(L)) = ToSet(L) \ {First(L)}
               /\ Tail(L) = <<>> <=> next[First(L)] = Null
               /\ Tail(L) = <<>> <=> Len(L) = 1
    <2>1. First(L) \in ToSet(L) /\ First(L) # Null
      BY <1>3, <1>6, ListEnds
    <2>2. First(L) = L[1]
      BY <1>6 DEF First
    <2>3. /\ IsList(Tail(L), next, allocated) /\ First(Tail(L)) = next[L[1]]
          /\ ToSet(Tail(L)) = ToSet(L) \ {L[1]}
          /\ Tail(L) = <<>> <=> next[L[1]] = Null
      BY <1>3, <1>6, ListTail
    <2>4. Tail(L) \in Seq(Entries) /\ Len(Tail(L)) <= HeapSize
      BY <1>a, <2>3
    <2>5. Tail(L) = <<>> <=> Len(L) = 1
      <3>1. L \in Seq(Entries) /\ Len(L) \in Nat
        BY <1>3, <1>a
      <3>2. Len(Tail(L)) = Len(L) - 1
        BY <1>6, <3>1, HeadTailProperties
      <3>3. Tail(L) = <<>> <=> Len(Tail(L)) = 0
        BY <2>4, EmptySeq
      <3> QED BY <3>1, <3>2, <3>3
    <2> QED BY <2>1, <2>2, <2>3, <2>4, <2>5
  <1>7. ASSUME (Decided(c) /\ ~(pc[c] = "take" /\ nxt[c] # Null)) \/ pc[c] = "pop_next"
        PROVE  L # <<>> /\ ent[c] = First(L)
    <2>1. pc[c] # "start" /\ ent[c] = First(L)
      BY <1>1, <1>7, ShapeFacts DEF PopperPart, Holds, Decided
    <2>2. First(L) # Null
      BY <1>1, <2>1, TypeFacts
    <2>3. L # <<>>
      BY <1>1, <2>2, ShapeFacts
    <2> QED BY <2>1, <2>3
  <1>8. ASSUME LagOf(c, L) \/ pc[c] = "pop_cas" PROVE L # <<>>
    BY <1>7, <1>8 DEF LagOf, Decided
  <1>9. L \in Seq(Entries) /\ Len(L) <= HeapSize
    BY <1>3, <1>a
  <1> QED BY <1>2, <1>3, <1>4, <1>5, <1>6, <1>7, <1>8, <1>9

\* The mapping of LfQueue, which follows pointers, is the one told from L.
LEMMA Mapped ==
  ASSUME NEW p, NEW c, NEW L, NEW F, Whole(p, c, L, F)
  PROVE  Q = QOf(c, L) /\ (Dummy <=> LagOf(c, L))
  <1>1. /\ Context(p, c, L, F) /\ DataPart(p, c, L) /\ Poppers = {c}
        /\ next \in [Entries -> Pointers] /\ HeapSize \in Nat
        /\ allocated \in 0..HeapSize
    BY TypeFacts DEF Whole
  <1>2. (\E x \in Poppers : Decided(x)) <=> Decided(c)
    BY <1>1
  <1>3. CASE Decided(c)
    <2>1. DecidedEntry = ent[c]
      BY <1>1, <1>3 DEF DecidedEntry
    <2>2. Dummy <=> LagOf(c, L)
      BY <1>1, <1>3 DEF Dummy, LagOf
    <2>3. QueuedEntries = ChainFrom(next[ent[c]])
      BY <1>2, <1>3, <2>1 DEF QueuedEntries
    <2>4. CASE pc[c] = "take" /\ nxt[c] # Null
      <3>1. next[ent[c]] = First(L)
        BY <1>1, <2>4 DEF DataPart
      <3>2. ChainFrom(First(L)) = L
        BY <1>1, WholeFacts, ChainIs
      <3>3. EntriesOf(c, L) = L
        BY <1>3, <2>4 DEF EntriesOf, LagOf
      <3> QED BY <2>2, <2>3, <3>1, <3>2, <3>3 DEF Q, QOf, Contents
    <2>5. CASE ~(pc[c] = "take" /\ nxt[c] # Null)
      <3>1. L # <<>> /\ ent[c] = First(L)
        BY <1>3, <2>5, WholeFacts
      <3>2. /\ IsList(Tail(L), next, allocated) /\ Len(Tail(L)) <= HeapSize
            /\ First(Tail(L)) = next[First(L)]
        BY <3>1, WholeFacts
      <3>3. ChainFrom(First(Tail(L))) = Tail(L)
        BY <1>1, <3>2, ChainIs
      <3>4. pc[c] = "put_back" => nxt[c] = Null
        BY <1>1, ShapeFacts DEF PopperPart
      <3>5. EntriesOf(c, L) = Tail(L)
        BY <1>3, <2>5, <3>4 DEF EntriesOf, LagOf, Decided
      <3> QED BY <2>2, <2>3, <3>1, <3>2, <3>3, <3>5 DEF Q, QOf, Contents
    <2> QED BY <2>4, <2>5
  <1>4. CASE ~Decided(c)
    <2>1. ~Holds(c) /\ pc[c] # "pop_cas"
      BY <1>4 DEF Decided, Holds
    <2>2. ChainFrom(tail) = L /\ tail = First(L)
      BY <1>1, <2>1, ListsAre, ShapeFacts DEF EndsPart
    <2>3. tail # Null <=> L # <<>>
      BY <1>1, <2>2, ShapeFacts
    <2>4. Dummy <=> LagOf(c, L)
      BY <1>2, <1>4, <2>2, <2>3 DEF Dummy, LagOf
    <2>5. QueuedEntries = EntriesOf(c, L)
      BY <1>2, <1>4, <2>1, <2>2, <2>4 DEF QueuedEntries, EntriesOf
    <2> QED BY <2>4, <2>5 DEF Q, QOf, Contents
  <1> QED BY <1>3, <1>4

\* A step that moves the popper over none of its decisions, and writes no
\* item of the list, is not seen from outside.
LEMMA Unseen ==
  ASSUME NEW p, NEW c, NEW L, NEW F, Whole(p, c, L, F),
         \A e \in ToSet(L) : data'[e] = data[e],
         Decided(c)' <=> Decided(c), pc[c] = "pop_cas" <=> pc'[c] = "pop_cas",
         Decided(c) => nxt'[c] = nxt[c]
  PROVE  QOf(c, L)' = QOf(c, L) /\ (LagOf(c, L)' <=> LagOf(c, L))
  <1>1. L # <<>> => First(L) \in ToSet(L) /\ ToSet(Tail(L)) = ToSet(L) \ {First(L)}
    BY WholeFacts
  <1>2. LagOf(c, L)' <=> LagOf(c, L)
    BY <1>1 DEF LagOf
  <1>3. EntriesOf(c, L)' = EntriesOf(c, L)
    BY <1>2 DEF EntriesOf
  <1>4. \A e \in ToSet(EntriesOf(c, L)) : data'[e] = data[e]
    BY <1>1, WholeFacts DEF EntriesOf
  <1>5. Contents(data', EntriesOf(c, L)) = Contents(data, EntriesOf(c, L))
    BY <1>4, ContentsSame
  <1> QED BY <1>2, <1>3, <1>5 DEF QOf

\* The steps of new_entry.
Quiet(p) == NewLoad(p) \/ NewNext(p) \/ NewCas(p) \/ NewClear(p)

\* new_entry is not seen from outside.
LEMMA NewUnseen ==
  ASSUME NEW p, NEW c, NEW L, NEW F, Whole(p, c, L, F), Quiet(p)
  PROVE  /\ QOf(c, L)' = QOf(c, L) /\ (LagOf(c, L)' <=> LagOf(c, L))
         /\ DataPart(p, c, L)'
  <1>1. Context(p, c, L, F) /\ DataPart(p, c, L)
    BY DEF Whole
  <1>2. /\ pc'[c] = pc[c] /\ ent'[c] = ent[c] /\ nxt'[c] = nxt[c]
        /\ data' = data /\ pc'[p] \notin {"exchange", "link"}
        /\ \/ next' = next
           \/ pc[p] = "new_clear" /\ next' = [next EXCEPT ![ent[p]] = Null]
    <2>0. /\ pc \in [Threads -> PushLabels \cup PopLabels] /\ Threads = {p, c} /\ p # c
          /\ ent \in [Threads -> Pointers] /\ nxt \in [Threads -> Pointers]
      BY <1>1, TypeFacts
    <2>1. HaveFree(p, free) => /\ pc'[c] = pc[c] /\ ent'[c] = ent[c]
                               /\ pc'[p] \notin {"exchange", "link"}
      BY <2>0 DEF HaveFree, Goto
    <2>2. CASE NewLoad(p)
      BY <2>1, <2>2 DEF NewLoad
    <2>3. CASE NewNext(p)
      BY <2>0, <2>3 DEF NewNext, Goto, shared
    <2>4. CASE NewCas(p)
      BY <2>0, <2>1, <2>4 DEF NewCas, Goto
    <2>5. CASE NewClear(p)
      BY <2>0, <2>5 DEF NewClear, Goto
    <2> QED BY <2>2, <2>3, <2>4, <2>5 DEF Quiet
  <1>3. QOf(c, L)' = QOf(c, L) /\ (LagOf(c, L)' <=> LagOf(c, L))
    BY <1>2, Unseen DEF Decided
  <1>4. ASSUME pc[c] = "take", nxt[c] # Null PROVE next'[ent[c]] = next[ent[c]]
    <2>1. pc[p] = "new_clear" => ent[p] # ent[c]
      BY <1>1, <1>4, ShapeFacts DEF PlacePart, Owned
    <2> QED BY <1>1, <1>2, <1>4, <2>1, TypeFacts
  <1>5. DataPart(p, c, L)'
    BY <1>1, <1>2, <1>4 DEF DataPart
  <1> QED BY <1>3, <1>5

\* put_data writes to an entry that is not in the queue yet.
LEMMA PutDataUnseen ==
  ASSUME NEW p, NEW c, NEW L, NEW F, Whole(p, c, L, F), PutData(p)
  PROVE  /\ QOf(c, L)' = QOf(c, L) /\ (LagOf(c, L)' <=> LagOf(c, L))
         /\ DataPart(p, c, L)'
  <1>1. Context(p, c, L, F) /\ DataPart(p, c, L)
    BY DEF Whole
  <1>2. /\ pc'[c] = pc[c] /\ ent' = ent /\ nxt' = nxt /\ next' = next
        /\ pc[p] = "put" /\ data' = [data EXCEPT ![ent[p]] = ItemOf(p)]
        /\ ItemOf(p)' = ItemOf(p)
    BY <1>1, TypeFacts DEF PutData, Goto, ItemOf
  <1>3. ent[p] \notin ToSet(L) /\ (pc[c] = "put_back" => ent[p] # ent[c])
    <2>1. ent[p] \notin ToSet(L)
      BY <1>1, <1>2, ShapeFacts DEF PlacePart, Owned
    <2>2. pc[c] = "put_back" => L # <<>> /\ ent[c] = First(L)
      BY WholeFacts DEF Decided
    <2> QED BY <2>1, <2>2, WholeFacts
  <1>4. ent[p] \in Entries /\ data \in [Entries -> Cells] /\ ToSet(L) \subseteq Entries
        /\ (pc[c] = "put_back" => ent[c] \in Entries)
    BY <1>1, <1>2, TypeFacts, WholeFacts
  <1>5. \A e \in ToSet(L) : data'[e] = data[e]
    BY <1>2, <1>3, <1>4
  <1>6. QOf(c, L)' = QOf(c, L) /\ (LagOf(c, L)' <=> LagOf(c, L))
    BY <1>2, <1>5, Unseen DEF Decided
  <1>7. DataPart(p, c, L)'
    <2>1. L # <<>> => First(L) \in ToSet(L)
      BY WholeFacts
    <2>2. data'[ent[p]] = ItemOf(p)
      BY <1>2, <1>4
    <2>3. pc[c] = "put_back" => data'[ent[c]] = data[ent[c]]
      BY <1>2, <1>3, <1>4
    <2> QED BY <1>1, <1>2, <1>5, <2>1, <2>2, <2>3 DEF DataPart
  <1> QED BY <1>6, <1>7

\* Nor is the exchange of head_ seen: nobody can reach the entry yet.
LEMMA ExchangeUnseen ==
  ASSUME NEW p, NEW c, NEW L, NEW F, Whole(p, c, L, F), Exchange(p)
  PROVE  /\ QOf(c, L)' = QOf(c, L) /\ (LagOf(c, L)' <=> LagOf(c, L))
         /\ DataPart(p, c, L)'
  <1>1. Context(p, c, L, F) /\ DataPart(p, c, L)
    BY DEF Whole
  <1>2. /\ pc'[c] = pc[c] /\ ent' = ent /\ nxt'[c] = nxt[c] /\ next' = next
        /\ data' = data /\ pc[p] = "exchange" /\ ItemOf(p)' = ItemOf(p)
    BY <1>1, TypeFacts DEF Exchange, Goto, ItemOf
  <1>3. QOf(c, L)' = QOf(c, L) /\ (LagOf(c, L)' <=> LagOf(c, L))
    BY <1>2, Unseen DEF Decided
  <1>4. DataPart(p, c, L)'
    BY <1>1, <1>2 DEF DataPart
  <1> QED BY <1>3, <1>4

\* Linking the entry is the push.
LEMMA LinkPushes ==
  ASSUME NEW p, NEW c, NEW L, NEW F, Whole(p, c, L, F), Link(p),
         NEW e, e = ent[p]
  PROVE  /\ ItemOf(p) \in Items
         /\ QOf(c, Append(L, e))' = Append(QOf(c, L), ItemOf(p))
         /\ LagOf(c, Append(L, e))' <=> LagOf(c, L)
         /\ DataPart(p, c, Append(L, e))'
  <1>1. Context(p, c, L, F) /\ DataPart(p, c, L)
    BY DEF Whole
  <1>2. /\ pc'[c] = pc[c] /\ ent' = ent /\ nxt' = nxt /\ data' = data
        /\ pc[p] = "link" /\ pc'[p] = "start"
    BY <1>1, TypeFacts DEF Link, Goto
  <1>3. /\ e \in Entries /\ e \notin ToSet(L) /\ data[e] = ItemOf(p)
        /\ nxt[p] = LastOf(L) /\ next \in [Entries -> Pointers]
    BY <1>1, <1>2, TypeFacts, ShapeFacts DEF PlacePart, Owned, EndsPart, DataPart
  <1>4. ItemOf(p) \in Items
    <2>1. /\ pushed[p] < PushesEach /\ PushesEach \in Nat
          /\ pushed \in [Pushers -> 0..PushesEach] /\ Pushers = {p}
      BY <1>1, <1>2, TypeFacts, ShapeFacts DEF PusherPart
    <2>2. pushed[p] + 1 \in 1..PushesEach
      BY <2>1
    <2> QED BY <2>1, <2>2 DEF ItemOf, Items
  <1> DEFINE M == Append(L, e)
  <1>5. L \in Seq(Entries) /\ data \in [Entries -> Cells] /\ NoItem \notin Items
    BY WholeFacts
  <1>6. /\ M \in Seq(Entries) /\ M # <<>>
        /\ L = <<>> => M[1] = e
        /\ L # <<>> => M[1] = L[1]
        /\ ToSet(M) = ToSet(L) \cup {e}
    <2>1. /\ Len(L) \in Nat /\ DOMAIN L = 1..Len(L)
          /\ M \in Seq(Entries) /\ Len(M) = Len(L) + 1 /\ DOMAIN M = 1..(Len(L) + 1)
          /\ M[Len(L) + 1] = e /\ \A i \in 1..Len(L) : M[i] = L[i]
      BY <1>3, <1>5
    <2>2. L = <<>> <=> Len(L) = 0
      BY <1>5, EmptySeq
    <2> HIDE DEF M
    <2>3. M # <<>>
      BY <2>1, EmptySeq
    <2>4. ToSet(M) = ToSet(L) \cup {e}
      <3>1. ASSUME NEW x \in ToSet(M) PROVE x \in ToSet(L) \cup {e}
        <4>1. PICK i \in 1..(Len(L) + 1) : x = M[i]
          BY <2>1 DEF ToSet
        <4>2. i \in 1..Len(L) \/ i = Len(L) + 1
          BY <2>1
        <4> QED BY <2>1, <4>1, <4>2 DEF ToSet
      <3>2. ASSUME NEW i \in 1..Len(L) PROVE L[i] \in ToSet(M)
        <4>1. i \in 1..(Len(L) + 1)
          BY <2>1
        <4> QED BY <2>1, <4>1 DEF ToSet
      <3>3. e \in ToSet(M)
        BY <2>1 DEF ToSet
      <3> QED BY <2>1, <3>1, <3>2, <3>3 DEF ToSet
    <2> QED BY <2>1, <2>2, <2>3, <2>4
  <1>7. First(M) = IF L = <<>> THEN e ELSE First(L)
    BY <1>6 DEF First
  <1>8. Contents(data, M) = Append(Contents(data, L), ItemOf(p))
    BY <1>3, <1>5, ContentsAppend
  <1>9. L # <<>> => Contents(data, Tail(M)) = Append(Contents(data, Tail(L)), ItemOf(p))
    <2>1. ASSUME L # <<>> PROVE Tail(M) = Append(Tail(L), e) /\ Tail(L) \in Seq(Entries)
      <3>1. Tail(L) \in Seq(Entries)
        BY <2>1, WholeFacts
      <3>2. Tail(M) = Append(Tail(L), e)
        BY <1>3, <1>5, <2>1
      <3> QED BY <3>1, <3>2
    <2>2. L # <<>> =>
            Contents(data, Append(Tail(L), e)) = Append(Contents(data, Tail(L)), data[e])
      BY <1>3, <1>5, <2>1, ContentsAppend
    <2> QED BY <1>3, <2>1, <2>2
  <1> HIDE DEF M
  <1>10. LagOf(c, M)' <=> LagOf(c, L)
    BY <1>2, <1>3, <1>4, <1>5, <1>6, <1>7 DEF LagOf, Decided
  <1>11. QOf(c, M)' = Append(QOf(c, L), ItemOf(p))
    <2>1. LagOf(c, L) \/ pc[c] = "pop_cas" => L # <<>>
      BY WholeFacts
    <2> QED BY <1>2, <1>8, <1>9, <1>10, <2>1 DEF QOf, EntriesOf
  <1>12. DataPart(p, c, M)'
    <2>1. ASSUME pc[c] = "take", nxt[c] # Null
          PROVE  /\ M # <<>> /\ next'[ent[c]] = First(M) /\ data[First(M)] \in Items
      <3>1. L # <<>> /\ next[ent[c]] = First(L) /\ data[First(L)] \in Items
        BY <1>1, <2>1 DEF DataPart
      <3>2. LastOf(L) # Null /\ LastOf(L) \in ToSet(L)
        BY <1>1, <3>1, ShapeFacts
      <3>3. ent[c] \notin ToSet(L)
        BY <1>1, <2>1, ShapeFacts DEF PlacePart, Owned
      <3>4. next'[ent[c]] = next[ent[c]]
        BY <1>1, <1>3, <2>1, <3>2, <3>3, TypeFacts DEF Link
      <3> QED BY <1>6, <1>7, <3>1, <3>4
    <2>2. \A x \in ToSet(M) \ {First(M)} : data[x] \in Items
      <3>1. L = <<>> => ToSet(L) = {}
        BY ListNone
      <3> QED BY <1>1, <1>3, <1>4, <1>6, <1>7, <3>1 DEF DataPart
    <2> QED BY <1>1, <1>2, <2>1, <2>2 DEF DataPart
  <1> QED BY <1>4, <1>10, <1>11, <1>12 DEF M

\* The popper's steps that decide nothing.
LEMMA PopperUnseen ==
  ASSUME NEW p, NEW c, NEW L, NEW F, Whole(p, c, L, F),
         LoadTail(c) \/ DelLoad(c) \/ DelStore(c) \/ DelCas(c)
  PROVE  /\ QOf(c, L)' = QOf(c, L) /\ (LagOf(c, L)' <=> LagOf(c, L))
         /\ DataPart(p, c, L)'
  <1>1. Context(p, c, L, F) /\ DataPart(p, c, L)
    BY DEF Whole
  <1>2. /\ pc'[p] = pc[p] /\ ent'[p] = ent[p] /\ data' = data /\ pushed' = pushed
        /\ pc[c] \notin {"pop_cas", "take", "put_back"}
        /\ pc'[c] \notin {"pop_cas", "take", "put_back"}
    <2>0. /\ pc \in [Threads -> PushLabels \cup PopLabels] /\ Threads = {p, c} /\ p # c
          /\ ent \in [Threads -> Pointers]
      BY <1>1, TypeFacts
    <2>1. CASE LoadTail(c)
      BY <2>0, <2>1 DEF LoadTail, Goto, shared
    <2>2. CASE DelLoad(c)
      BY <2>0, <2>2 DEF DelLoad, Goto, shared
    <2>3. CASE DelStore(c)
      BY <2>0, <2>3 DEF DelStore, Goto
    <2>4. CASE DelCas(c)
      BY <2>0, <2>4 DEF DelCas, Goto
    <2> QED BY <2>1, <2>2, <2>3, <2>4
  <1>3. QOf(c, L)' = QOf(c, L) /\ (LagOf(c, L)' <=> LagOf(c, L))
    BY <1>2, Unseen DEF Decided
  <1>4. DataPart(p, c, L)'
    BY <1>1, <1>2 DEF DataPart, ItemOf
  <1> QED BY <1>3, <1>4

\* Reading `next` is the pop: of the first item, of the dummy, or of nothing.
LEMMA ReadNextPops ==
  ASSUME NEW p, NEW c, NEW L, NEW F, Whole(p, c, L, F), ReadNext(c)
  PROVE  /\ \/ /\ QOf(c, L)' = QOf(c, L)
               /\ \/ LagOf(c, L)' <=> LagOf(c, L)
                  \/ LagOf(c, L) /\ QOf(c, L) # <<>> /\ ~LagOf(c, L)'
            \/ /\ ~LagOf(c, L) /\ QOf(c, L) # <<>>
               /\ Head(QOf(c, L)) \in Items
               /\ QOf(c, L)' = Tail(QOf(c, L))
               /\ LagOf(c, L)' <=> Len(QOf(c, L)) = 1
         /\ DataPart(p, c, L)'
  <1>1. Context(p, c, L, F) /\ DataPart(p, c, L)
    BY DEF Whole
  <1>2. /\ pc'[p] = pc[p] /\ ent' = ent /\ UNCHANGED <<data, next, pushed>>
        /\ pc[c] = "pop_next" /\ pc'[c] = "pop_cas" /\ nxt'[c] = next[ent[c]]
    BY <1>1, TypeFacts DEF ReadNext, Goto, shared
  <1>3. /\ L # <<>> /\ ent[c] = First(L) /\ First(L) = L[1] /\ First(L) \in ToSet(L)
        /\ Tail(L) = <<>> <=> next[First(L)] = Null
        /\ Tail(L) = <<>> <=> Len(L) = 1
        /\ Tail(L) \in Seq(Entries) /\ L \in Seq(Entries)
        /\ data \in [Entries -> Cells] /\ ToSet(L) \subseteq Entries
    BY <1>2, WholeFacts
  <1>4. /\ QOf(c, L)' = Contents(data, Tail(L))
        /\ LagOf(c, L)' <=> Tail(L) = <<>>
    BY <1>2, <1>3 DEF QOf, EntriesOf, LagOf, Decided
  <1>5. DataPart(p, c, L)'
    BY <1>1, <1>2 DEF DataPart, ItemOf
  <1>6. LagOf(c, L) <=> data[First(L)] = NoItem
    BY <1>2, <1>3 DEF LagOf, Decided
  <1>7. CASE LagOf(c, L)
    <2>1. QOf(c, L) = Contents(data, Tail(L))
      BY <1>7 DEF QOf, EntriesOf
    <2>2. Tail(L) # <<>> => Contents(data, Tail(L)) # <<>>
      BY <1>3, ContentsTail
    <2> QED BY <1>4, <1>5, <1>7, <2>1, <2>2
  <1>8. CASE ~LagOf(c, L)
    <2>1. QOf(c, L) = Contents(data, L)
      BY <1>2, <1>8 DEF QOf, EntriesOf
    <2>2. /\ QOf(c, L) # <<>> /\ Head(QOf(c, L)) = data[First(L)]
          /\ Tail(QOf(c, L)) = Contents(data, Tail(L))
      BY <1>3, <2>1, ContentsTail
    <2>3. Len(QOf(c, L)) = Len(L)
      BY <1>3, <2>1, ContentsIs
    <2>4. data[First(L)] \in Items
      BY <1>3, <1>6, <1>8 DEF Cells
    <2> QED BY <1>3, <1>4, <1>5, <1>8, <2>2, <2>3, <2>4
  <1> QED BY <1>7, <1>8

\* The compare_exchange of tail_ carries out what was decided.
LEMMA PopCasUnseen ==
  ASSUME NEW p, NEW c, NEW L, NEW F, Whole(p, c, L, F), PopCas(c),
         NEW M, M = IF nxt[c] = Null THEN L ELSE Tail(L)
  PROVE  /\ QOf(c, M)' = QOf(c, L) /\ (LagOf(c, M)' <=> LagOf(c, L))
         /\ DataPart(p, c, M)'
  <1>1. Context(p, c, L, F) /\ DataPart(p, c, L)
    BY DEF Whole
  <1>2. pc[c] = "pop_cas" /\ tail = ent[c]
    BY <1>1, ShapeFacts DEF PopCas, PopperPart, EndsPart, Holds
  <1>3. /\ pc'[p] = pc[p] /\ ent' = ent /\ nxt' = nxt
        /\ pc'[c] = "take" /\ UNCHANGED <<data, next, pushed>>
    BY <1>1, <1>2, TypeFacts DEF PopCas, Goto
  <1>4. /\ L # <<>> /\ ent[c] = First(L) /\ First(L) \in ToSet(L)
        /\ ToSet(Tail(L)) = ToSet(L) \ {First(L)}
        /\ First(Tail(L)) = next[First(L)]
        /\ Tail(L) = <<>> <=> next[First(L)] = Null
        /\ IsList(Tail(L), next, allocated) /\ allocated \in Nat
    BY <1>1, <1>2, WholeFacts, TypeFacts DEF Decided
  <1>5. (LagOf(c, L) <=> nxt[c] = Null) /\ (LagOf(c, M)' <=> nxt[c] = Null)
    BY <1>2, <1>3 DEF LagOf, Decided
  <1>6. EntriesOf(c, L) = Tail(L) /\ EntriesOf(c, M)' = Tail(L)
    BY <1>2, <1>3, <1>5 DEF EntriesOf
  <1>7. QOf(c, M)' = QOf(c, L)
    BY <1>3, <1>6 DEF QOf
  <1>8. DataPart(p, c, M)'
    <2>1. ASSUME nxt[c] # Null
          PROVE  /\ M # <<>> /\ next[ent[c]] = First(M) /\ First(M) \in ToSet(M)
      <3>1. nxt[c] = next[ent[c]]
        BY <1>1, <1>2, <2>1, ShapeFacts DEF PopperPart
      <3>2. Tail(L) # <<>>
        BY <1>4, <2>1, <3>1
      <3>3. First(Tail(L)) \in ToSet(Tail(L))
        BY <1>4, <3>2, ListEnds
      <3> QED BY <1>4, <2>1, <3>2, <3>3
    <2>2. \A x \in ToSet(M) \ {First(M)} : data[x] \in Items
      BY <1>1, <1>4 DEF DataPart
    <2>3. nxt[c] # Null => data[First(M)] \in Items
      BY <1>1, <1>4, <2>1 DEF DataPart
    <2> QED BY <1>1, <1>3, <2>1, <2>2, <2>3 DEF DataPart, ItemOf
  <1> QED BY <1>5, <1>7, <1>8

\* take_data takes the item that the queue does not count any more.
LEMMA TakeUnseen ==
  ASSUME NEW p, NEW c, NEW L, NEW F, Whole(p, c, L, F), Take(c)
  PROVE  /\ QOf(c, L)' = QOf(c, L) /\ (LagOf(c, L)' <=> LagOf(c, L))
         /\ DataPart(p, c, L)'
  <1>1. Context(p, c, L, F) /\ DataPart(p, c, L)
    BY DEF Whole
  <1>2. /\ pc'[p] = pc[p] /\ ent' = ent /\ nxt' = nxt /\ pc[c] = "take"
        /\ pc'[c] = IF nxt[c] = Null THEN "put_back" ELSE "del_load"
        /\ data' = [data EXCEPT ![ent[c]] = NoItem]
        /\ UNCHANGED <<next, pushed>>
    BY <1>1, TypeFacts DEF Take, Goto
  <1>3. /\ ent[c] \in Entries /\ data \in [Entries -> Cells]
        /\ ToSet(L) \subseteq Entries
    BY <1>1, <1>2, TypeFacts, WholeFacts
  <1>4. ent[p] # ent[c] \/ pc[p] \notin {"exchange", "link"}
    <2>1. ASSUME pc[p] \in {"exchange", "link"} PROVE ent[p] # ent[c]
      <3>1. ent[p] \in Owned(p)
        BY <2>1 DEF Owned
      <3>2. ent[c] \in Owned(c) \/ ent[c] \in ToSet(L)
        <4>1. CASE nxt[c] # Null
          BY <1>2, <4>1 DEF Owned
        <4>2. CASE nxt[c] = Null
          BY <1>2, <4>2, WholeFacts DEF Decided
        <4> QED BY <4>1, <4>2
      <3> QED BY <1>1, <3>1, <3>2, ShapeFacts DEF PlacePart
    <2> QED BY <2>1
  <1>5. pc[p] \in {"exchange", "link"} => data'[ent[p]] = data[ent[p]]
    BY <1>1, <1>2, <1>3, <1>4, TypeFacts
  <1>6. CASE nxt[c] = Null
    <2>1. /\ L # <<>> /\ ent[c] = First(L)
          /\ ToSet(Tail(L)) = ToSet(L) \ {First(L)}
      BY <1>2, <1>6, WholeFacts DEF Decided
    <2>2. \A e \in ToSet(Tail(L)) : data'[e] = data[e]
      BY <1>2, <1>3, <2>1
    <2>3. LagOf(c, L) /\ LagOf(c, L)'
      BY <1>2, <1>6 DEF LagOf, Decided
    <2>4. QOf(c, L)' = QOf(c, L)
      <3>1. Contents(data', Tail(L)) = Contents(data, Tail(L))
        BY <2>2, ContentsSame
      <3> QED BY <2>3, <3>1 DEF QOf, EntriesOf
    <2>5. data'[ent[c]] = NoItem
      BY <1>2, <1>3
    <2>6. DataPart(p, c, L)'
      BY <1>1, <1>2, <1>5, <1>6, <2>1, <2>2, <2>5 DEF DataPart, ItemOf
    <2> QED BY <2>3, <2>4, <2>6
  <1>7. CASE nxt[c] # Null
    <2>1. ent[c] \notin ToSet(L)
      BY <1>1, <1>2, <1>7, ShapeFacts DEF PlacePart, Owned
    <2>2. \A e \in ToSet(L) : data'[e] = data[e]
      BY <1>2, <1>3, <2>1
    <2>3. L # <<>> /\ data[First(L)] \in Items /\ First(L) \in ToSet(L)
      BY <1>1, <1>2, <1>7, WholeFacts DEF DataPart
    <2>4. ~LagOf(c, L) /\ ~LagOf(c, L)'
      BY <1>2, <1>7, <2>2, <2>3, WholeFacts DEF LagOf, Decided
    <2>5. QOf(c, L)' = QOf(c, L)
      <3>1. Contents(data', L) = Contents(data, L)
        BY <2>2, ContentsSame
      <3> QED BY <1>2, <1>7, <2>4, <3>1 DEF QOf, EntriesOf
    <2>6. DataPart(p, c, L)'
      BY <1>1, <1>2, <1>5, <1>7, <2>2 DEF DataPart, ItemOf
    <2> QED BY <2>4, <2>5, <2>6
  <1> QED BY <1>6, <1>7

\* The last entry, put back empty, is the one that the next pop misses.
LEMMA PutBackUnseen ==
  ASSUME NEW p, NEW c, NEW L, NEW F, Whole(p, c, L, F), PutBack(c)
  PROVE  /\ QOf(c, L)' = QOf(c, L) /\ (LagOf(c, L)' <=> LagOf(c, L))
         /\ DataPart(p, c, L)'
  <1>1. Context(p, c, L, F) /\ DataPart(p, c, L)
    BY DEF Whole
  <1>2. /\ pc'[p] = pc[p] /\ ent' = ent /\ nxt' = nxt
        /\ pc[c] = "put_back" /\ pc'[c] = "start"
        /\ UNCHANGED <<data, next, pushed>>
    BY <1>1, TypeFacts DEF PutBack, Goto
  <1>3. nxt[c] = Null /\ data[ent[c]] = NoItem /\ L # <<>> /\ ent[c] = First(L)
    BY <1>1, <1>2, ShapeFacts, WholeFacts DEF PopperPart, DataPart, Decided
  <1>4. LagOf(c, L) /\ LagOf(c, L)'
    BY <1>2, <1>3 DEF LagOf, Decided
  <1>5. QOf(c, L)' = QOf(c, L)
    BY <1>2, <1>4 DEF QOf, EntriesOf
  <1>6. DataPart(p, c, L)'
    BY <1>1, <1>2 DEF DataPart, ItemOf
  <1> QED BY <1>4, <1>5, <1>6

\* The two mappings agree after a step too.
LEMMA MappedNext ==
  ASSUME NEW p, NEW c, NEW L, NEW F
  PROVE  Whole(p, c, L, F)' => Q' = QOf(c, L)' /\ (Dummy' <=> LagOf(c, L)')
  <1>1. Whole(p, c, L, F) => Q = QOf(c, L) /\ (Dummy <=> LagOf(c, L))
    BY Mapped
  <1>2. (Whole(p, c, L, F) => Q = QOf(c, L) /\ (Dummy <=> LagOf(c, L)))'
    BY <1>1, PTL
  <1> QED BY <1>2

\* What one step does to a list and to what is seen from outside.
Moves(p, c, L, M, F2) ==
  /\ Shape(p, c, M, F2)' /\ DataPart(p, c, M)'
  /\ \/ /\ QOf(c, M)' = QOf(c, L) /\ (LagOf(c, M)' <=> LagOf(c, L))
     \/ /\ ItemOf(p) \in Items /\ QOf(c, M)' = Append(QOf(c, L), ItemOf(p))
        /\ LagOf(c, M)' <=> LagOf(c, L)
     \/ /\ ~LagOf(c, L) /\ QOf(c, L) # <<>> /\ Head(QOf(c, L)) \in Items
        /\ QOf(c, M)' = Tail(QOf(c, L))
        /\ LagOf(c, M)' <=> Len(QOf(c, L)) = 1
     \/ /\ LagOf(c, L) /\ QOf(c, L) # <<>>
        /\ QOf(c, M)' = QOf(c, L) /\ ~LagOf(c, M)'

\* Every step is one of LagQueue's, or is not seen, told from L.
LEMMA EveryStepMoves ==
  ASSUME NEW p, NEW c, NEW L, NEW F, Whole(p, c, L, F), [Next]_vars
  PROVE  \E M, F2 : Moves(p, c, L, M, F2)
  <1>0. Context(p, c, L, F) /\ DataPart(p, c, L) /\ Pushers = {p} /\ Poppers = {c}
    BY TypeFacts DEF Whole
  <1>1. CASE NewLoad(p) \/ NewNext(p) \/ NewClear(p)
    <2>1. Shape(p, c, L, F)'
      BY <1>0, <1>1, HaveFreeKeeps, NewNextKeeps, NewClearKeeps DEF NewLoad
    <2>2. Moves(p, c, L, L, F)
      BY <1>1, <2>1, NewUnseen DEF Moves, Quiet
    <2> QED BY <2>2
  <1>2. CASE NewCas(p)
    <2>1. PICK F2 : Shape(p, c, L, F2)'
      BY <1>0, <1>2, NewCasKeeps
    <2>2. Moves(p, c, L, L, F2)
      BY <1>2, <2>1, NewUnseen DEF Moves, Quiet
    <2> QED BY <2>2
  <1>3. CASE PutData(p) \/ Exchange(p)
    <2>1. Shape(p, c, L, F)'
      BY <1>0, <1>3, PutDataKeeps, ExchangeKeeps
    <2>2. Moves(p, c, L, L, F)
      BY <1>3, <2>1, PutDataUnseen, ExchangeUnseen DEF Moves
    <2> QED BY <2>2
  <1>4. CASE Link(p)
    <2>1. PICK e : e = ent[p] /\ Shape(p, c, Append(L, e), F)'
      BY <1>0, <1>4, LinkKeeps
    <2>2. Moves(p, c, L, Append(L, e), F)
      BY <1>4, <2>1, LinkPushes DEF Moves
    <2> QED BY <2>2
  <1>5. CASE LoadTail(c) \/ DelLoad(c) \/ DelStore(c)
    <2>1. Shape(p, c, L, F)'
      BY <1>0, <1>5, LoadTailKeeps, DelLoadKeeps, DelStoreKeeps
    <2>2. Moves(p, c, L, L, F)
      BY <1>5, <2>1, PopperUnseen DEF Moves
    <2> QED BY <2>2
  <1>6. CASE DelCas(c)
    <2>1. PICK F2 : Shape(p, c, L, F2)'
      BY <1>0, <1>6, DelCasKeeps
    <2>2. Moves(p, c, L, L, F2)
      BY <1>6, <2>1, PopperUnseen DEF Moves
    <2> QED BY <2>2
  <1>7. CASE ReadNext(c)
    <2>1. Shape(p, c, L, F)'
      BY <1>0, <1>7, ReadNextKeeps
    <2>2. Moves(p, c, L, L, F)
      BY <1>7, <2>1, ReadNextPops DEF Moves
    <2> QED BY <2>2
  <1>8. CASE PopCas(c)
    <2>1. PICK M : M = IF nxt[c] = Null THEN L ELSE Tail(L)
      OBVIOUS
    <2>2. Shape(p, c, M, F)'
      BY <1>0, <1>8, <2>1, PopCasKeeps
    <2>3. Moves(p, c, L, M, F)
      BY <1>8, <2>1, <2>2, PopCasUnseen DEF Moves
    <2> QED BY <2>3
  <1>9. CASE Take(c) \/ PutBack(c)
    <2>1. Shape(p, c, L, F)'
      BY <1>0, <1>9, TakeKeeps, PutBackKeeps
    <2>2. Moves(p, c, L, L, F)
      BY <1>9, <2>1, TakeUnseen, PutBackUnseen DEF Moves
    <2> QED BY <2>2
  <1>10. CASE UNCHANGED vars
    <2>1. Shape(p, c, L, F)'
      BY <1>0, <1>10
         DEF Context, Shape, PlacePart, EndsPart, PopperPart, PusherPart,
             HeapPart, Owned, Holds, vars, shared
    <2>2. DataPart(p, c, L)'
      BY <1>0, <1>10 DEF DataPart, ItemOf, vars, shared
    <2>3. QOf(c, L)' = QOf(c, L) /\ (LagOf(c, L)' <=> LagOf(c, L))
      BY <1>10, Unseen DEF Decided, vars, shared
    <2>4. Moves(p, c, L, L, F)
      BY <2>1, <2>2, <2>3 DEF Moves
    <2> QED BY <2>4
  <1> QED BY <1>0, <1>1, <1>2, <1>3, <1>4, <1>5, <1>6, <1>7, <1>8, <1>9, <1>10
          DEF Next, PushStep, PopStep

\* The invariant of the refinement.
ItemsInPlace(p, c) == \E L, F : Whole(p, c, L, F)

\* Every step keeps it and is a step of LagQueue or none.
LEMMA OutsideStep ==
  ASSUME NEW p, NEW c, ItemsInPlace(p, c), [Next]_vars
  PROVE  ItemsInPlace(p, c)' /\ [Outside!Next]_<<Q, Dummy>>
  <1>1. PICK L, F : Whole(p, c, L, F)
    BY DEF ItemsInPlace
  <1>2. PICK M, F2 : Moves(p, c, L, M, F2)
    BY <1>1, EveryStepMoves
  <1>3. TypeOK' /\ Alone(p, c)
    BY <1>1, TypeStep DEF Whole, Context
  <1>4. Whole(p, c, M, F2)'
    BY <1>2, <1>3 DEF Moves, Whole, Context, Alone
  <1>5. Q = QOf(c, L) /\ (Dummy <=> LagOf(c, L))
    BY <1>1, Mapped
  <1>6. Q' = QOf(c, M)' /\ (Dummy' <=> LagOf(c, M)')
    BY <1>4, MappedNext
  <1>7. Dummy \in BOOLEAN /\ Dummy' \in BOOLEAN
    BY DEF Dummy
  <1>8. \/ Q' = Q /\ Dummy' = Dummy
        \/ \E i \in Items : Q' = Append(Q, i) /\ Dummy' = Dummy
        \/ /\ ~Dummy /\ Q # <<>> /\ Head(Q) \in Items
           /\ Q' = Tail(Q) /\ Dummy' = (Len(Q) = 1)
        \/ Dummy /\ Q # <<>> /\ Q' = Q /\ Dummy' = FALSE
    BY <1>2, <1>5, <1>6, <1>7 DEF Moves
  <1>9. [Outside!Next]_<<Q, Dummy>>
    <2>1. CASE Q' = Q /\ Dummy' = Dummy
      BY <2>1
    <2>2. CASE \E i \in Items : Q' = Append(Q, i) /\ Dummy' = Dummy
      BY <2>2 DEF Outside!Next, Outside!Push, Q
    <2>3. CASE /\ ~Dummy /\ Q # <<>> /\ Head(Q) \in Items
               /\ Q' = Tail(Q) /\ Dummy' = (Len(Q) = 1)
      BY <2>3 DEF Outside!Next, Outside!PopItem, Q
    <2>4. CASE Dummy /\ Q # <<>> /\ Q' = Q /\ Dummy' = FALSE
      BY <2>4 DEF Outside!Next, Outside!PopMiss, Q
    <2> QED BY <1>8, <2>1, <2>2, <2>3, <2>4
  <1> QED BY <1>4, <1>9 DEF ItemsInPlace

\* The queue starts empty.
LEMMA OutsideInit ==
  ASSUME NEW p, NEW c, Alone(p, c), Init
  PROVE  ItemsInPlace(p, c) /\ Outside!Init
  <1>1. PICK F : Shape(p, c, <<>>, F)
    BY InitShape
  <1>2. pc[p] = "start" /\ pc[c] = "start"
    <2>1. p \in Threads /\ c \in Threads
      BY HeapFacts
    <2> QED BY <2>1 DEF Init
  <1>3. DataPart(p, c, <<>>)
    BY <1>2, ListNone DEF DataPart
  <1>4. Whole(p, c, <<>>, F)
    BY <1>1, <1>3, InitTypeOK DEF Whole, Context
  <1>5. Q = QOf(c, <<>>) /\ (Dummy <=> LagOf(c, <<>>))
    BY <1>4, Mapped
  <1>6. ~LagOf(c, <<>>) /\ QOf(c, <<>>) = <<>>
    BY <1>2, ContentsNone DEF LagOf, QOf, EntriesOf, Decided
  <1>7. Dummy \in BOOLEAN
    BY DEF Dummy
  <1>8. Outside!Init
    BY <1>5, <1>6, <1>7 DEF Outside!Init, Q
  <1> QED BY <1>4, <1>8 DEF ItemsInPlace

\* push and pop of lfqueue.hpp by one thread each are, step by step, those of the
\* FIFO queue LagQueue: items come out in the order in which they were linked,
\* each once, and pop misses at most once after the queue was drained.
THEOREM QueueImplementsLagQueue ==
  ASSUME NEW p, NEW c, Alone(p, c)
  PROVE  Spec => ImplementsLagQueue
  <1>1. Init => ItemsInPlace(p, c) /\ Outside!Init
    BY OutsideInit
  <1>2. ItemsInPlace(p, c) /\ [Next]_vars
          => /\ ItemsInPlace(p, c)'
             /\ [Outside!Next]_<<[k \in DOMAIN QueuedEntries |-> data[QueuedEntries[k]]],
                                 Dummy>>
    BY OutsideStep DEF Q
  <1> QED BY <1>1, <1>2, PTL
          DEF Spec, SafeSpec, ImplementsLagQueue, Outside!Spec
=============================================================================
