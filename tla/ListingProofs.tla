---------------------------- MODULE ListingProofs ----------------------------
(***************************************************************************)
(* A page is what its query says, and a client that follows the markers    *)
(* misses nothing and gets nothing twice, for any keys and any query.      *)
(***************************************************************************)
EXTENDS Listing, FiniteSetTheorems, SequenceTheorems, WellFoundedInduction, TLAPS

----------------------------------------------------------------------------
(***************************************************************************)
(* Numbers.                                                                *)
(***************************************************************************)
\* Of some numbers one is the least.
LEMMA LeastNumber ==
    ASSUME NEW T, T \subseteq Nat, T # {}
    PROVE  \E n \in T : \A m \in T : n <= m
<1>1. PICK n \in T : \A m \in T : <<m, n>> \notin OpToRel(<, Nat)
  BY NatLessThanWellFounded, WFMin
<1>2. \A m \in T : ~(m < n)
  BY <1>1 DEF OpToRel
<1>. QED
  BY <1>2

\* What holds of 0 and passes from each number to the next holds up to N.
LEMMA Reaches ==
    ASSUME NEW N \in Nat, NEW S, 0 \in S,
           \A n \in S : n \in 0..N /\ n < N => n + 1 \in S
    PROVE  \A n \in 0..N : n \in S
<1> DEFINE T == {n \in 0..N : n \notin S}
<1>1. SUFFICES ASSUME T # {} PROVE FALSE
  OBVIOUS
<1>2. PICK n \in T : \A m \in T : n <= m
  <2>1. T \subseteq Nat
    OBVIOUS
  <2> HIDE DEF T
  <2>. QED
    BY <1>1, <2>1, LeastNumber
<1>3. n \in 0..N /\ n \notin S /\ n # 0
  OBVIOUS
<1>4. n - 1 \in 0..N /\ n - 1 < N /\ (n - 1) + 1 = n
  BY <1>3
<1>5. n - 1 \in S
  BY <1>2, <1>4
<1>. QED
  BY <1>3, <1>4, <1>5


----------------------------------------------------------------------------
(***************************************************************************)
(* Strings and their order.                                                *)
(***************************************************************************)
Strings == Seq(Nat)

\* s and t are the same up to their i-th bytes, and there s ends or has less.
BeforeAt(s, t, i) ==
    /\ i \in 1..Len(t) /\ i <= Len(s) + 1
    /\ i <= Len(s) => s[i] < t[i]
    /\ \A j \in 1..(i - 1) : s[j] = t[j]

\* A prefix has the first bytes.
LEMMA PrefixBytes ==
    ASSUME NEW s \in Strings, NEW t \in Strings
    PROVE  IsPrefix(s, t) <=> Len(s) <= Len(t) /\ \A i \in 1..Len(s) : s[i] = t[i]
<1>1. Len(s) \in Nat /\ Len(t) \in Nat
  BY DEF Strings
<1>2. SubSeq(s, 1, Len(s)) = s
  BY DEF Strings
<1>3. ASSUME Len(s) <= Len(t)
      PROVE  /\ Len(SubSeq(t, 1, Len(s))) = Len(s)
             /\ SubSeq(t, 1, Len(s)) \in Strings
             /\ \A i \in 1..Len(s) : SubSeq(t, 1, Len(s))[i] = t[i]
  BY <1>1, <1>3 DEF Strings
<1>4. ASSUME Len(s) <= Len(t), \A i \in 1..Len(s) : s[i] = t[i]
      PROVE  s = SubSeq(t, 1, Len(s))
  BY <1>1, <1>3, <1>4, SeqEqual DEF Strings
<1>. QED
  BY <1>2, <1>3, <1>4 DEF IsPrefix

\* Both cases of the order in one.
LEMMA BeforeSomewhere ==
    ASSUME NEW s \in Strings, NEW t \in Strings
    PROVE  Before(s, t) <=> \E i \in Nat : BeforeAt(s, t, i)
<1>1. /\ Len(s) \in Nat /\ DOMAIN s = 1..Len(s)
      /\ Len(t) \in Nat /\ DOMAIN t = 1..Len(t)
  BY DEF Strings
<1>2. ASSUME IsStrictPrefix(s, t)
      PROVE  BeforeAt(s, t, Len(s) + 1)
  <2>1. Len(s) <= Len(t) /\ \A i \in 1..Len(s) : s[i] = t[i]
    BY <1>2, PrefixBytes DEF IsStrictPrefix
  <2>2. Len(s) # Len(t)
    BY <1>1, <1>2, <2>1, SeqEqual DEF IsStrictPrefix, Strings
  <2>3. Len(s) \in Nat /\ Len(t) \in Nat
    BY <1>1
  <2>4. Len(s) < Len(t) /\ Len(s) + 1 <= Len(s) + 1
    BY <2>1, <2>2, <2>3
  <2>5. Len(s) + 1 \in 1..Len(t) /\ (Len(s) + 1) - 1 = Len(s)
    BY <2>3, <2>4
  <2>6. ~(Len(s) + 1 <= Len(s))
    BY <2>3
  <2>. QED
    BY <2>1, <2>4, <2>5, <2>6 DEF BeforeAt
<1>3. ASSUME NEW i \in DOMAIN s \cap DOMAIN t,
             s[i] < t[i], \A j \in 1..(i - 1) : s[j] = t[j]
      PROVE  BeforeAt(s, t, i) /\ i \in Nat
  BY <1>1, <1>3 DEF BeforeAt
<1>4. ASSUME NEW i \in Nat, BeforeAt(s, t, i)
      PROVE  Before(s, t)
  <2>1. CASE i <= Len(s)
    <3>1. i \in DOMAIN s \cap DOMAIN t
      BY <1>1, <1>4, <2>1 DEF BeforeAt
    <3>. QED
      BY <1>4, <2>1, <3>1 DEF BeforeAt, Before
  <2>2. CASE ~(i <= Len(s))
    <3>1. i = Len(s) + 1
      BY <1>1, <1>4, <2>2 DEF BeforeAt
    <3>2. Len(s) < Len(t) /\ \A j \in 1..Len(s) : s[j] = t[j]
      BY <1>1, <1>4, <3>1 DEF BeforeAt
    <3>3. IsPrefix(s, t) /\ s # t
      BY <1>1, <3>2, PrefixBytes
    <3>. QED
      BY <3>3 DEF IsStrictPrefix, Before
  <2>. QED
    BY <2>1, <2>2
<1>5. ASSUME Before(s, t)
      PROVE  \E i \in Nat : BeforeAt(s, t, i)
  <2>1. CASE IsStrictPrefix(s, t)
    BY <1>1, <1>2, <2>1
  <2>2. CASE ~IsStrictPrefix(s, t)
    BY <1>3, <1>5, <2>2 DEF Before
  <2>. QED
    BY <2>1, <2>2
<1>. QED
  BY <1>4, <1>5

\* No string is before itself, ...
LEMMA BeforeIrreflexive ==
    ASSUME NEW s \in Strings
    PROVE  ~Before(s, s)
<1>1. SUFFICES ASSUME NEW i \in Nat, BeforeAt(s, s, i)
               PROVE  FALSE
  BY BeforeSomewhere
<1>2. Len(s) \in Nat /\ \A j \in 1..Len(s) : s[j] \in Nat
  BY DEF Strings
<1>. QED
  BY <1>1, <1>2 DEF BeforeAt

\* ... a string before another one is before all after that, ...
LEMMA BeforeTransitive ==
    ASSUME NEW s \in Strings, NEW t \in Strings, NEW u \in Strings,
           Before(s, t), Before(t, u)
    PROVE  Before(s, u)
<1>1. PICK i \in Nat : BeforeAt(s, t, i)
  BY BeforeSomewhere
<1>2. PICK j \in Nat : BeforeAt(t, u, j)
  BY BeforeSomewhere
<1>3. /\ Len(s) \in Nat /\ \A x \in 1..Len(s) : s[x] \in Nat
      /\ Len(t) \in Nat /\ \A x \in 1..Len(t) : t[x] \in Nat
      /\ Len(u) \in Nat /\ \A x \in 1..Len(u) : u[x] \in Nat
  BY DEF Strings
<1>4. CASE i < j
  <2>1. t[i] = u[i] /\ i \in 1..Len(u)
    BY <1>1, <1>2, <1>3, <1>4 DEF BeforeAt
  <2>2. \A x \in 1..(i - 1) : s[x] = u[x]
    BY <1>1, <1>2, <1>3, <1>4 DEF BeforeAt
  <2>3. BeforeAt(s, u, i)
    BY <1>1, <2>1, <2>2 DEF BeforeAt
  <2>. QED
    BY <2>3, BeforeSomewhere
<1>5. CASE i = j
  <2>1. i <= Len(s) => s[i] < u[i]
    BY <1>1, <1>2, <1>3, <1>5 DEF BeforeAt
  <2>2. \A x \in 1..(i - 1) : s[x] = u[x]
    BY <1>1, <1>2, <1>5 DEF BeforeAt
  <2>3. BeforeAt(s, u, i)
    BY <1>1, <1>2, <1>5, <2>1, <2>2 DEF BeforeAt
  <2>. QED
    BY <2>3, BeforeSomewhere
<1>6. CASE j < i
  <2>1. j \in 1..Len(u) /\ j <= Len(s) /\ s[j] = t[j]
    BY <1>1, <1>2, <1>3, <1>6 DEF BeforeAt
  <2>2. j <= Len(t) /\ t[j] < u[j]
    BY <1>1, <1>2, <1>3, <1>6 DEF BeforeAt
  <2>3. \A x \in 1..(j - 1) : s[x] = u[x]
    BY <1>1, <1>2, <1>3, <1>6 DEF BeforeAt
  <2>4. BeforeAt(s, u, j)
    BY <1>3, <2>1, <2>2, <2>3 DEF BeforeAt
  <2>. QED
    BY <2>4, BeforeSomewhere
<1>. QED
  BY <1>4, <1>5, <1>6

\* ... and of two strings one is before the other.
LEMMA BeforeTotal ==
    ASSUME NEW s \in Strings, NEW t \in Strings, s # t
    PROVE  Before(s, t) \/ Before(t, s)
<1>1. /\ Len(s) \in Nat /\ \A x \in 1..Len(s) : s[x] \in Nat
      /\ Len(t) \in Nat /\ \A x \in 1..Len(t) : t[x] \in Nat
  BY DEF Strings
<1> DEFINE T == {i \in Nat \ {0} : i > Len(s) \/ i > Len(t) \/ s[i] # t[i]}
<1>2. T \subseteq Nat /\ Len(s) + 1 \in T
  BY <1>1
<1>3. PICK i \in T : \A m \in T : i <= m
  <2> HIDE DEF T
  <2>. QED
    BY <1>2, LeastNumber
<1>4. i \in Nat /\ i >= 1
  OBVIOUS
<1>5. \A j \in 1..(i - 1) : j <= Len(s) /\ j <= Len(t) /\ s[j] = t[j]
  BY <1>1, <1>3, <1>4
<1>6. i <= Len(s) + 1 /\ i <= Len(t) + 1
  <2>1. Len(t) + 1 \in T
    BY <1>1
  <2>. QED
    BY <1>2, <1>3, <2>1
<1>7. CASE i <= Len(s) /\ i <= Len(t)
  <2>1. s[i] < t[i] \/ t[i] < s[i]
    BY <1>1, <1>4, <1>7
  <2>2. BeforeAt(s, t, i) \/ BeforeAt(t, s, i)
    BY <1>1, <1>4, <1>5, <1>6, <1>7, <2>1 DEF BeforeAt
  <2>. QED
    BY <1>4, <2>2, BeforeSomewhere
<1>8. CASE i <= Len(s) /\ ~(i <= Len(t))
  <2>1. BeforeAt(t, s, i)
    BY <1>1, <1>4, <1>5, <1>6, <1>8 DEF BeforeAt
  <2>. QED
    BY <1>4, <2>1, BeforeSomewhere
<1>9. CASE ~(i <= Len(s)) /\ i <= Len(t)
  <2>1. BeforeAt(s, t, i)
    BY <1>1, <1>4, <1>5, <1>6, <1>9 DEF BeforeAt
  <2>. QED
    BY <1>4, <2>1, BeforeSomewhere
<1>10. CASE ~(i <= Len(s)) /\ ~(i <= Len(t))
  <2>1. Len(s) = i - 1 /\ Len(t) = i - 1
    BY <1>1, <1>4, <1>6, <1>10
  <2>2. s = t
    BY <1>1, <1>5, <2>1, SeqEqual DEF Strings
  <2>. QED
    BY <2>2
<1>. QED
  BY <1>7, <1>8, <1>9, <1>10

\* A string between two with the same prefix has it, too.
LEMMA Between ==
    ASSUME NEW c \in Strings, NEW s \in Strings, NEW t \in Strings, NEW u \in Strings,
           IsPrefix(c, s), IsPrefix(c, u),
           s = t \/ Before(s, t), t = u \/ Before(t, u)
    PROVE  IsPrefix(c, t)
<1>1. CASE s = t \/ t = u
  BY <1>1
<1>2. CASE Before(s, t) /\ Before(t, u)
  <2>1. PICK i \in Nat : BeforeAt(s, t, i)
    BY <1>2, BeforeSomewhere
  <2>2. PICK j \in Nat : BeforeAt(t, u, j)
    BY <1>2, BeforeSomewhere
  <2>3. /\ Len(c) \in Nat
        /\ Len(s) \in Nat /\ \A x \in 1..Len(s) : s[x] \in Nat
        /\ Len(t) \in Nat /\ \A x \in 1..Len(t) : t[x] \in Nat
        /\ Len(u) \in Nat /\ \A x \in 1..Len(u) : u[x] \in Nat
    BY DEF Strings
  <2>4. /\ Len(c) <= Len(s) /\ \A x \in 1..Len(c) : c[x] = s[x]
        /\ Len(c) <= Len(u) /\ \A x \in 1..Len(c) : c[x] = u[x]
    BY PrefixBytes
  <2>5. CASE i > Len(c)
    <3>1. Len(c) <= Len(t)
      BY <2>1, <2>3, <2>5 DEF BeforeAt
    <3>2. \A x \in 1..Len(c) : c[x] = t[x]
      BY <2>1, <2>3, <2>4, <2>5 DEF BeforeAt
    <3>. QED
      BY <3>1, <3>2, PrefixBytes
  <2>6. CASE j > Len(c)
    <3>1. Len(c) <= Len(t)
      BY <2>2, <2>3, <2>6 DEF BeforeAt
    <3>2. \A x \in 1..Len(c) : c[x] = t[x]
      BY <2>2, <2>3, <2>4, <2>6 DEF BeforeAt
    <3>. QED
      BY <3>1, <3>2, PrefixBytes
  <2>7. CASE i <= Len(c) /\ j <= Len(c)
    <3>1. i \in 1..Len(c) /\ j \in 1..Len(c)
      BY <2>1, <2>2, <2>3, <2>7 DEF BeforeAt
    <3>2. s[i] = u[i] /\ s[j] = u[j]
      BY <2>4, <3>1
    <3>3. i <= Len(s) /\ i <= Len(t) /\ s[i] < t[i]
      BY <2>1, <2>3, <2>4, <3>1 DEF BeforeAt
    <3>4. CASE i < j
      <4>1. t[i] = u[i]
        BY <2>2, <2>3, <3>1, <3>4 DEF BeforeAt
      <4>. QED
        BY <2>3, <2>4, <3>1, <3>2, <3>3, <4>1
    <3>5. CASE i = j
      <4>1. t[i] < u[i]
        BY <2>2, <3>3, <3>5 DEF BeforeAt
      <4>. QED
        BY <2>3, <2>4, <3>1, <3>2, <3>3, <4>1
    <3>6. CASE j < i
      <4>1. s[j] = t[j] /\ j <= Len(t)
        BY <2>1, <2>3, <3>1, <3>3, <3>6 DEF BeforeAt
      <4>2. t[j] < u[j]
        BY <2>2, <4>1 DEF BeforeAt
      <4>. QED
        BY <2>3, <2>4, <3>1, <3>2, <4>1, <4>2
    <3>. QED
      BY <3>1, <3>4, <3>5, <3>6
  <2>. QED
    BY <2>1, <2>2, <2>3, <2>5, <2>6, <2>7
<1>. QED
  BY <1>1, <1>2

\* The order of two strings that begin differently is that of their beginnings.
LEMMA Beginnings ==
    ASSUME NEW c \in Strings, NEW d \in Strings, NEW s \in Strings, NEW t \in Strings,
           IsPrefix(c, s), IsPrefix(d, t), Before(c, d), ~IsPrefix(c, d)
    PROVE  Before(s, t)
<1>1. PICK i \in Nat : BeforeAt(c, d, i)
  BY BeforeSomewhere
<1>2. Len(c) \in Nat /\ Len(d) \in Nat /\ Len(s) \in Nat /\ Len(t) \in Nat
  BY DEF Strings
<1>3. /\ Len(c) <= Len(s) /\ \A x \in 1..Len(c) : c[x] = s[x]
      /\ Len(d) <= Len(t) /\ \A x \in 1..Len(d) : d[x] = t[x]
  BY PrefixBytes
<1>4. i <= Len(c)
  <2>1. SUFFICES ASSUME i = Len(c) + 1 PROVE FALSE
    BY <1>1, <1>2 DEF BeforeAt
  <2>2. Len(c) <= Len(d) /\ \A x \in 1..Len(c) : c[x] = d[x]
    BY <1>1, <1>2, <2>1 DEF BeforeAt
  <2>. QED
    BY <2>2, PrefixBytes
<1>5. i \in 1..Len(c) /\ i \in 1..Len(d) /\ i \in 1..Len(t) /\ c[i] < d[i]
  BY <1>1, <1>2, <1>3, <1>4 DEF BeforeAt
<1>6. s[i] < t[i]
  BY <1>3, <1>5
<1>7. \A x \in 1..(i - 1) : s[x] = t[x]
  BY <1>1, <1>2, <1>3, <1>5 DEF BeforeAt
<1>8. BeforeAt(s, t, i)
  BY <1>2, <1>3, <1>5, <1>6, <1>7 DEF BeforeAt
<1>. QED
  BY <1>8, BeforeSomewhere

\* A string is its own prefix.
LEMMA PrefixOfItself ==
    ASSUME NEW s \in Strings
    PROVE  IsPrefix(s, s)
<1>1. Len(s) \in Nat
  BY DEF Strings
<1>. QED
  BY <1>1, PrefixBytes

\* A prefix of a prefix is one, and of two prefixes the shorter is one of the
\* longer.
LEMMA PrefixOfPrefix ==
    ASSUME NEW c \in Strings, NEW d \in Strings, NEW s \in Strings, IsPrefix(d, s)
    PROVE  /\ IsPrefix(c, d) => IsPrefix(c, s)
           /\ IsPrefix(c, s) /\ Len(c) <= Len(d) => IsPrefix(c, d)
           /\ IsPrefix(s, d) => s = d
<1>1. Len(c) \in Nat /\ Len(d) \in Nat /\ Len(s) \in Nat
  BY DEF Strings
<1>2. Len(d) <= Len(s) /\ \A x \in 1..Len(d) : d[x] = s[x]
  BY PrefixBytes
<1>3. IsPrefix(c, d) => IsPrefix(c, s)
  BY <1>1, <1>2, PrefixBytes
<1>4. IsPrefix(c, s) /\ Len(c) <= Len(d) => IsPrefix(c, d)
  BY <1>1, <1>2, PrefixBytes
<1>5. IsPrefix(s, d) => s = d
  <2>1. SUFFICES ASSUME IsPrefix(s, d) PROVE s = d
    OBVIOUS
  <2>2. Len(s) = Len(d)
    BY <1>1, <1>2, <2>1, PrefixBytes
  <2>. QED
    BY <1>2, <2>2, SeqEqual DEF Strings
<1>. QED
  BY <1>3, <1>4, <1>5

----------------------------------------------------------------------------
(***************************************************************************)
(* The keys in order.                                                      *)
(***************************************************************************)
\* The keys and the other strings of a query are strings.
LEMMA KeysAreStrings ==
    /\ KeyNames \subseteq Strings /\ <<>> \in Strings
    /\ IsFiniteSet(KeyNames) /\ Cardinality(KeyNames) \in Nat
<1>1. KeyNames \subseteq Strings /\ <<>> \in Strings
  BY StringsAssumption DEF Strings
<1>. QED
  BY <1>1, StringsAssumption, FS_CardinalityType

\* As many keys are before one key as there are places before it ...
KeysBefore(k) == {j \in KeyNames : Before(j, k)}

\* ... and a key later in the order has more of them.
LEMMA MoreBefore ==
    ASSUME NEW k \in KeyNames
    PROVE  /\ IsFiniteSet(KeysBefore(k)) /\ Cardinality(KeysBefore(k)) \in Nat
           /\ Cardinality(KeysBefore(k)) < Cardinality(KeyNames)
           /\ \A j \in KeyNames : Before(j, k) =>
                 Cardinality(KeysBefore(j)) < Cardinality(KeysBefore(k))
<1>1. IsFiniteSet(KeysBefore(k)) /\ Cardinality(KeysBefore(k)) \in Nat
  BY KeysAreStrings, FS_Subset, FS_CardinalityType DEF KeysBefore
<1>2. Cardinality(KeysBefore(k)) < Cardinality(KeyNames)
  <2>1. KeysBefore(k) \subseteq KeyNames /\ k \notin KeysBefore(k)
    BY KeysAreStrings, BeforeIrreflexive DEF KeysBefore
  <2>2. KeysBefore(k) # KeyNames
    BY <2>1
  <2>. QED
    BY <1>1, <2>1, <2>2, KeysAreStrings, FS_Subset
<1>3. ASSUME NEW j \in KeyNames, Before(j, k)
      PROVE  Cardinality(KeysBefore(j)) < Cardinality(KeysBefore(k))
  <2>1. KeysBefore(j) \subseteq KeysBefore(k)
    BY <1>3, KeysAreStrings, BeforeTransitive DEF KeysBefore
  <2>2. j \in KeysBefore(k) /\ j \notin KeysBefore(j)
    BY <1>3, KeysAreStrings, BeforeIrreflexive DEF KeysBefore
  <2>3. IsFiniteSet(KeysBefore(j)) /\ Cardinality(KeysBefore(j)) \in Nat
    BY KeysAreStrings, FS_Subset, FS_CardinalityType DEF KeysBefore
  <2>. QED
    BY <1>1, <2>1, <2>2, <2>3, FS_Subset
<1>. QED
  BY <1>1, <1>2, <1>3

\* So there is an order.
LEMMA OrderExists ==
    \E s \in [1..Cardinality(KeyNames) -> KeyNames] : Ascending(s)
<1> DEFINE N == Cardinality(KeyNames)
           place == [k \in KeyNames |-> Cardinality(KeysBefore(k)) + 1]
<1>1. N \in Nat
  BY KeysAreStrings
<1>2. place \in [KeyNames -> 1..N]
  <2>1. ASSUME NEW k \in KeyNames PROVE Cardinality(KeysBefore(k)) + 1 \in 1..N
    BY <1>1, MoreBefore
  <2>. QED
    BY <2>1
<1>3. ASSUME NEW j \in KeyNames, NEW k \in KeyNames, Before(j, k)
      PROVE  place[j] < place[k]
  BY <1>3, MoreBefore
<1>4. ASSUME NEW j \in KeyNames, NEW k \in KeyNames, j # k
      PROVE  place[j] # place[k]
  <2>1. Before(j, k) \/ Before(k, j)
    BY <1>4, KeysAreStrings, BeforeTotal
  <2>2. place[j] \in Int /\ place[k] \in Int
    BY <1>1, <1>2
  <2> HIDE DEF place
  <2>. QED
    BY <1>3, <2>1, <2>2
<1>5. place \in Injection(KeyNames, 1..N)
  <2> HIDE DEF place
  <2>. QED
    BY <1>2, <1>4 DEF Injection, IsInjective
<1>6. IsFiniteSet(1..N) /\ Cardinality(1..N) = N
  BY <1>1, FS_Interval
<1>7. place \in Surjection(KeyNames, 1..N)
  <2> HIDE DEF place
  <2>. QED
    BY <1>5, <1>6, FS_Injection
<1>8. \A i \in 1..N : \E k \in KeyNames : place[k] = i
  <2> HIDE DEF place
  <2>. QED
    BY <1>7 DEF Surjection
<1> DEFINE s == [i \in 1..N |-> CHOOSE k \in KeyNames : place[k] = i]
<1>9. \A i \in 1..N : s[i] \in KeyNames /\ place[s[i]] = i
  <2> HIDE DEF place
  <2>. QED
    BY <1>8
<1>10. s \in [1..N -> KeyNames] /\ DOMAIN s = 1..N
  BY <1>9
<1>11. Ascending(s)
  <2> HIDE DEF place, s
  <2>1. SUFFICES ASSUME NEW i \in 1..N, NEW j \in 1..N, i < j
                 PROVE  Before(s[i], s[j])
    BY <1>10 DEF Ascending
  <2>2. s[i] # s[j]
    BY <1>9, <2>1
  <2>3. ~Before(s[j], s[i])
    <3>1. SUFFICES ASSUME Before(s[j], s[i]) PROVE FALSE
      OBVIOUS
    <3>2. place[s[j]] < place[s[i]]
      BY <1>3, <1>9, <3>1
    <3>3. j < i
      BY <1>9, <3>2
    <3>. QED
      BY <1>1, <2>1, <3>3
  <2>. QED
    BY <1>9, <2>2, <2>3, KeysAreStrings, BeforeTotal
<1> HIDE DEF s
<1>. QED
  BY <1>10, <1>11

\* InOrder is one, and has every key.
LEMMA InOrderIs ==
    /\ InOrder \in [1..Cardinality(KeyNames) -> KeyNames]
    /\ \A i, j \in 1..Cardinality(KeyNames) : i < j => Before(InOrder[i], InOrder[j])
    /\ \A k \in KeyNames : \E i \in 1..Cardinality(KeyNames) : InOrder[i] = k
<1> DEFINE N == Cardinality(KeyNames)
<1>1. N \in Nat
  BY KeysAreStrings
<1>2. InOrder \in [1..N -> KeyNames] /\ Ascending(InOrder)
  BY OrderExists DEF InOrder
<1>3. \A i, j \in 1..N : i < j => Before(InOrder[i], InOrder[j])
  BY <1>2 DEF Ascending
<1>4. InOrder \in Injection(1..N, KeyNames)
  <2>1. ASSUME NEW i \in 1..N, NEW j \in 1..N, InOrder[i] = InOrder[j]
        PROVE  i = j
    <3>1. InOrder[i] \in Strings /\ ~Before(InOrder[i], InOrder[i])
      BY <1>2, KeysAreStrings, BeforeIrreflexive
    <3>2. ~(i < j) /\ ~(j < i)
      BY <1>3, <2>1, <3>1
    <3>. QED
      BY <1>1, <3>2
  <2>. QED
    BY <1>2, <2>1 DEF Injection, IsInjective
<1>5. IsFiniteSet(1..N) /\ Cardinality(1..N) = N
  BY <1>1, FS_Interval
<1>6. InOrder \in Surjection(1..N, KeyNames)
  BY <1>4, <1>5, KeysAreStrings, FS_Injection
<1>. QED
  BY <1>2, <1>3, <1>6 DEF Surjection

----------------------------------------------------------------------------
(***************************************************************************)
(* What a key is shown as.                                                 *)
(***************************************************************************)
Options == [prefix: Strings, delimiter: Strings, marker: Strings, maxKeys: 0..PageLimit]

\* c can be a common prefix.
IsFolder(c, o) ==
    /\ o.delimiter # <<>>
    /\ Len(c) >= Len(o.prefix) + Len(o.delimiter)
    /\ IsSuffix(o.delimiter, c)

\* The beginnings of a string are its prefixes, ...
LEMMA BeginningIs ==
    ASSUME NEW k \in Strings, NEW n \in 0..Len(k)
    PROVE  /\ SubSeq(k, 1, n) \in Strings /\ Len(SubSeq(k, 1, n)) = n
           /\ \A i \in 1..n : SubSeq(k, 1, n)[i] = k[i]
           /\ IsPrefix(SubSeq(k, 1, n), k)
<1>1. Len(k) \in Nat /\ n \in Nat /\ n <= Len(k) /\ \A i \in 1..n : k[i] \in Nat
  BY DEF Strings
<1>2. /\ SubSeq(k, 1, n) \in Strings /\ Len(SubSeq(k, 1, n)) = n
      /\ \A i \in 1..n : SubSeq(k, 1, n)[i] = k[i]
  BY <1>1, SubSeqProperties DEF Strings
<1>. QED
  BY <1>1, <1>2, PrefixBytes

\* ... and all of them.
LEMMA PrefixIs ==
    ASSUME NEW c \in Strings, NEW k \in Strings, IsPrefix(c, k)
    PROVE  Len(c) \in 0..Len(k) /\ c = SubSeq(k, 1, Len(c))
<1>1. Len(c) \in Nat /\ Len(k) \in Nat /\ Len(c) <= Len(k)
  BY PrefixBytes DEF Strings
<1>2. SubSeq(c, 1, Len(c)) = c
  BY DEF Strings
<1>. QED
  BY <1>1, <1>2 DEF IsPrefix

\* The folders of a key are its prefixes that can be one.
LEMMA FolderIs ==
    ASSUME NEW k \in Strings, NEW o, NEW c
    PROVE  c \in Folders(k, o) <=> c \in Strings /\ IsPrefix(c, k) /\ IsFolder(c, o)
<1>1. ASSUME c \in Folders(k, o)
      PROVE  c \in Strings /\ IsPrefix(c, k) /\ IsFolder(c, o)
  <2>1. PICK n \in 0..Len(k) : c = SubSeq(k, 1, n)
    BY <1>1 DEF Folders
  <2>. QED
    BY <1>1, <2>1, BeginningIs DEF Folders, IsFolder
<1>2. ASSUME c \in Strings, IsPrefix(c, k), IsFolder(c, o)
      PROVE  c \in Folders(k, o)
  BY <1>2, PrefixIs DEF Folders, IsFolder
<1>. QED
  BY <1>1, <1>2

\* A folded key is shown as the shortest of them.
LEMMA ShownIs ==
    ASSUME NEW k \in Strings, NEW o, Folded(k, o)
    PROVE  /\ Shown(k, o) \in Strings /\ IsPrefix(Shown(k, o), k) /\ IsFolder(Shown(k, o), o)
           /\ \A d \in Folders(k, o) : Len(Shown(k, o)) <= Len(d)
<1> DEFINE lengths == {Len(d) : d \in Folders(k, o)}
<1>1. lengths \subseteq Nat /\ lengths # {}
  <2>1. \A d \in Folders(k, o) : Len(d) \in Nat
    BY FolderIs DEF Strings
  <2>. QED
    BY <2>1 DEF Folded
<1>2. PICK n \in lengths : \A m \in lengths : n <= m
  <2> HIDE DEF lengths
  <2>. QED
    BY <1>1, LeastNumber
<1>3. \E c \in Folders(k, o) : \A d \in Folders(k, o) : Len(c) <= Len(d)
  BY <1>2
<1>4. /\ Shown(k, o) \in Folders(k, o)
      /\ \A d \in Folders(k, o) : Len(Shown(k, o)) <= Len(d)
  BY <1>3 DEF Shown
<1>. QED
  BY <1>4, FolderIs

\* All that begins like it is shown as it.
LEMMA SameFolder ==
    ASSUME NEW k \in Strings, NEW j \in Strings, NEW o,
           Folded(k, o), IsPrefix(Shown(k, o), j)
    PROVE  Folded(j, o) /\ Shown(j, o) = Shown(k, o)
<1> DEFINE c == Shown(k, o)
           d == Shown(j, o)
<1>1. /\ c \in Strings /\ IsPrefix(c, k) /\ IsFolder(c, o)
      /\ \A e \in Folders(k, o) : Len(c) <= Len(e)
  BY ShownIs
<1>2. c \in Folders(j, o) /\ Folded(j, o)
  BY <1>1, FolderIs DEF Folded
<1>3. /\ d \in Strings /\ IsPrefix(d, j) /\ IsFolder(d, o)
      /\ Len(d) <= Len(c)
  BY <1>2, ShownIs
<1> HIDE DEF c, d
<1>4. IsPrefix(d, c)
  BY <1>1, <1>3, PrefixOfPrefix DEF c
<1>5. IsPrefix(d, k)
  BY <1>1, <1>3, <1>4, PrefixOfPrefix
<1>6. Len(c) <= Len(d)
  BY <1>1, <1>3, <1>5, FolderIs
<1>7. Len(c) = Len(d)
  BY <1>1, <1>3, <1>6 DEF Strings
<1>8. c = d
  BY <1>1, <1>3, <1>4, <1>7, PrefixIs
<1>. QED
  BY <1>2, <1>8 DEF c, d

\* A suffix has the last bytes.
LEMMA SuffixBytes ==
    ASSUME NEW d \in Strings, NEW c \in Strings
    PROVE  IsSuffix(d, c) <=>
              Len(d) <= Len(c) /\ \A i \in 1..Len(d) : d[i] = c[Len(c) - Len(d) + i]
<1>1. /\ Len(c) \in Nat /\ \A x \in 1..Len(c) : c[x] \in Nat
      /\ Len(d) \in Nat /\ \A x \in 1..Len(d) : d[x] \in Nat
  BY DEF Strings
<1>2. /\ Reverse(c) \in Strings /\ Len(Reverse(c)) = Len(c)
      /\ \A i \in 1..Len(c) : Reverse(c)[i] = c[Len(c) - i + 1]
  <2>1. ASSUME NEW i \in 1..Len(c) PROVE c[Len(c) - i + 1] \in Nat
    BY <1>1
  <2>. QED
    BY <1>1, <2>1 DEF Reverse, Strings
<1>3. /\ Reverse(d) \in Strings /\ Len(Reverse(d)) = Len(d)
      /\ \A i \in 1..Len(d) : Reverse(d)[i] = d[Len(d) - i + 1]
  <2>1. ASSUME NEW i \in 1..Len(d) PROVE d[Len(d) - i + 1] \in Nat
    BY <1>1
  <2>. QED
    BY <1>1, <2>1 DEF Reverse, Strings
<1>4. IsSuffix(d, c) <=>
         Len(d) <= Len(c) /\ \A i \in 1..Len(d) : Reverse(d)[i] = Reverse(c)[i]
  BY <1>2, <1>3, PrefixBytes DEF IsSuffix
<1>5. ASSUME Len(d) <= Len(c)
      PROVE  (\A i \in 1..Len(d) : Reverse(d)[i] = Reverse(c)[i])
                <=> \A i \in 1..Len(d) : d[i] = c[Len(c) - Len(d) + i]
  <2>1. ASSUME \A i \in 1..Len(d) : Reverse(d)[i] = Reverse(c)[i], NEW i \in 1..Len(d)
        PROVE  d[i] = c[Len(c) - Len(d) + i]
    <3>1. Len(d) - i + 1 \in 1..Len(d) /\ Len(d) - i + 1 \in 1..Len(c)
      BY <1>1, <1>5
    <3>2. Reverse(d)[Len(d) - i + 1] = Reverse(c)[Len(d) - i + 1]
      BY <2>1, <3>1
    <3>3. /\ Len(d) - (Len(d) - i + 1) + 1 = i
          /\ Len(c) - (Len(d) - i + 1) + 1 = Len(c) - Len(d) + i
      BY <1>1
    <3>. QED
      BY <1>2, <1>3, <3>1, <3>2, <3>3
  <2>2. ASSUME \A i \in 1..Len(d) : d[i] = c[Len(c) - Len(d) + i], NEW i \in 1..Len(d)
        PROVE  Reverse(d)[i] = Reverse(c)[i]
    <3>1. Len(d) - i + 1 \in 1..Len(d) /\ i \in 1..Len(c)
      BY <1>1, <1>5
    <3>2. d[Len(d) - i + 1] = c[Len(c) - Len(d) + (Len(d) - i + 1)]
      BY <2>2, <3>1
    <3>3. Len(c) - Len(d) + (Len(d) - i + 1) = Len(c) - i + 1
      BY <1>1
    <3>. QED
      BY <1>2, <1>3, <3>1, <3>2, <3>3
  <2>. QED
    BY <2>1, <2>2
<1>. QED
  BY <1>4, <1>5

\* Where CommonPrefix finds the delimiter, a folder ends.
LEMMA DelimiterEndsFolder ==
    ASSUME NEW k \in Strings, NEW o \in Options, o.delimiter # <<>>,
           NEW i \in Len(o.prefix)..(Len(k) - Len(o.delimiter))
    PROVE  SubSeq(k, i + 1, i + Len(o.delimiter)) = o.delimiter
              <=> SubSeq(k, 1, i + Len(o.delimiter)) \in Folders(k, o)
<1> DEFINE d == o.delimiter
           n == i + Len(d)
           c == SubSeq(k, 1, n)
           part == SubSeq(k, i + 1, n)
<1>1. d \in Strings /\ o.prefix \in Strings
  BY DEF Options
<1>2. Len(d) \in Nat /\ Len(o.prefix) \in Nat /\ Len(k) \in Nat
  BY <1>1 DEF Strings
<1>3. i \in Nat /\ n \in 0..Len(k) /\ n \in Nat
  BY <1>2
<1>4. c \in Strings /\ Len(c) = n /\ \A x \in 1..n : c[x] = k[x]
  BY <1>3, BeginningIs
<1>5. part \in Strings /\ Len(part) = Len(d) /\ \A x \in 1..Len(d) : part[x] = k[i + x]
  <2>1. \A x \in (i + 1)..n : k[x] \in Nat
    BY <1>2, <1>3 DEF Strings
  <2>2. /\ part \in Seq(Nat)
        /\ Len(part) = IF i + 1 <= n THEN n - (i + 1) + 1 ELSE 0
        /\ \A x \in 1..(n - (i + 1) + 1) : part[x] = k[(i + 1) + x - 1]
    <3>1. i + 1 \in Int /\ n \in Int
      BY <1>3
    <3> HIDE DEF n
    <3>. QED
      BY <2>1, <3>1, SubSeqProperties
  <2>3. n - (i + 1) + 1 = Len(d) /\ (i + 1 <= n <=> Len(d) > 0)
    BY <1>2, <1>3
  <2>4. Len(part) = Len(d)
    BY <1>2, <2>2, <2>3
  <2>5. ASSUME NEW x \in 1..Len(d) PROVE part[x] = k[i + x]
    <3>1. (i + 1) + x - 1 = i + x
      BY <1>2, <1>3
    <3> HIDE DEF part, n
    <3>. QED
      BY <2>2, <2>3, <3>1
  <2>. QED
    BY <2>2, <2>4, <2>5 DEF Strings
<1> HIDE DEF part, c
<1>6. part = d <=> \A x \in 1..Len(d) : d[x] = k[i + x]
  <2>1. ASSUME \A x \in 1..Len(d) : d[x] = k[i + x]
        PROVE  part = d
    <3>1. part \in Seq(Nat) /\ d \in Seq(Nat) /\ Len(part) = Len(d)
      BY <1>1, <1>5 DEF Strings
    <3>2. \A x \in 1..Len(part) : part[x] = d[x]
      BY <1>5, <2>1
    <3>. QED
      BY <3>1, <3>2, SeqEqual, Zenon
  <2>2. ASSUME part = d
        PROVE  \A x \in 1..Len(d) : d[x] = k[i + x]
    BY <1>5, <2>2, Zenon
  <2>. QED
    BY <2>1, <2>2
<1>7. IsSuffix(d, c) <=> \A x \in 1..Len(d) : d[x] = c[i + x]
  <2>1. Len(d) <= Len(c) /\ Len(c) - Len(d) = i
    BY <1>2, <1>3, <1>4
  <2>. QED
    BY <1>1, <1>4, <2>1, SuffixBytes
<1>8. \A x \in 1..Len(d) : c[i + x] = k[i + x]
  BY <1>2, <1>3, <1>4
<1>9. IsFolder(c, o) <=> IsSuffix(d, c)
  <2>1. Len(c) >= Len(o.prefix) + Len(d)
    BY <1>2, <1>4
  <2>. QED
    BY <2>1 DEF IsFolder
<1>10. IsPrefix(c, k)
  BY <1>3, BeginningIs DEF c
<1>11. c \in Folders(k, o) <=> IsFolder(c, o)
  BY <1>4, <1>10, FolderIs
<1>. QED
  BY <1>6, <1>7, <1>8, <1>9, <1>11 DEF c, part

\* CommonPrefix is the folder a key is shown as, if there is one.
LEMMA CommonPrefixIs ==
    ASSUME NEW k \in Strings, NEW o \in Options
    PROVE  CommonPrefix(k, o) = IF Folded(k, o) THEN Shown(k, o) ELSE None
<1> DEFINE width == Len(o.delimiter)
           at == {i \in Len(o.prefix)..(Len(k) - width) :
                     SubSeq(k, i + 1, i + width) = o.delimiter}
<1>1. CommonPrefix(k, o) =
         IF o.delimiter = <<>> \/ at = {} THEN None ELSE SubSeq(k, 1, Min(at) + width)
  BY DEF CommonPrefix
<1>2. CASE o.delimiter = <<>>
  <2>1. ~Folded(k, o)
    BY <1>2 DEF Folded, Folders
  <2>. QED
    BY <1>1, <1>2, <2>1
<1>3. CASE o.delimiter # <<>>
  <2>1. Len(k) \in Nat /\ width \in Nat /\ Len(o.prefix) \in Nat
    BY DEF Options, Strings
  <2>2. ASSUME NEW i \in at
        PROVE  i \in Nat /\ i + width \in 0..Len(k) /\ SubSeq(k, 1, i + width) \in Folders(k, o)
    BY <1>3, <2>1, DelimiterEndsFolder
  <2>3. ASSUME NEW d \in Folders(k, o)
        PROVE  Len(d) - width \in at
    <3>1. d \in Strings /\ IsPrefix(d, k) /\ Len(d) >= Len(o.prefix) + width
      BY FolderIs DEF IsFolder
    <3>2. d = SubSeq(k, 1, Len(d))
      BY <3>1, PrefixIs
    <3>3. Len(d) - width \in Len(o.prefix)..(Len(k) - width) /\ (Len(d) - width) + width = Len(d)
      <4>1. Len(d) \in 0..Len(k)
        BY <3>1, PrefixIs
      <4>2. Len(d) >= Len(o.prefix) + width
        BY <3>1
      <4> HIDE DEF width
      <4>. QED
        BY <2>1, <4>1, <4>2
    <3>. QED
      BY <1>3, <3>2, <3>3, DelimiterEndsFolder
  <2> HIDE DEF at
  <2>4. CASE at = {}
    <3>1. ~Folded(k, o)
      BY <2>3, <2>4 DEF Folded
    <3>. QED
      BY <1>1, <2>4, <3>1
  <2>5. CASE at # {}
    <3>1. Min(at) \in at /\ \A i \in at : Min(at) <= i
      <4>1. at \subseteq Nat
        BY <2>2
      <4>2. \E i \in at : \A j \in at : i <= j
        BY <2>5, <4>1, LeastNumber
      <4>. QED
        BY <4>2 DEF Min
    <3> DEFINE c == SubSeq(k, 1, Min(at) + width)
    <3>2. c \in Folders(k, o) /\ Folded(k, o) /\ Len(c) = Min(at) + width
      BY <2>2, <3>1, BeginningIs DEF Folded
    <3>3. c \in Strings /\ IsPrefix(c, k) /\ IsFolder(c, o)
      BY <3>2, FolderIs
    <3> DEFINE d == Shown(k, o)
    <3>4. d \in Strings /\ IsPrefix(d, k) /\ d \in Folders(k, o) /\ Len(d) <= Len(c)
      BY <3>2, ShownIs, FolderIs
    <3> HIDE DEF c, d
    <3>5. Len(c) = Len(d)
      <4>1. Min(at) <= Len(d) - width
        BY <2>3, <3>1, <3>4
      <4>2. Min(at) \in Nat /\ Len(d) \in Nat
        BY <2>2, <3>1, <3>4 DEF Strings
      <4>. QED
        BY <2>1, <3>2, <3>4, <4>1, <4>2
    <3>6. c = d
      BY <3>3, <3>4, <3>5, PrefixIs
    <3>. QED
      BY <1>1, <1>3, <2>5, <3>2, <3>6 DEF c, d
  <2>. QED
    BY <2>4, <2>5
<1>. QED
  BY <1>2, <1>3

----------------------------------------------------------------------------
(***************************************************************************)
(* The loop of ListObjects.                                                *)
(***************************************************************************)
\* What the n-th round makes of the result so far.
Round(keys, o, result, n) ==
    IF InOrder[n] \in keys /\ IsPrefix(o.prefix, InOrder[n])
    THEN Visit(o, result, InOrder[n]) ELSE result

\* f is the result after each round up to n.
Loops(keys, o, f, n) ==
    f = [k \in 0..n |-> IF k = 0 THEN NoPage ELSE Round(keys, o, f[k - 1], k)]

\* There is such a function up to the last round, ...
LEMMA LoopsOn ==
    ASSUME NEW keys, NEW o, NEW n \in Nat, NEW f, Loops(keys, o, f, n)
    PROVE  \E g : Loops(keys, o, g, n + 1)
<1> DEFINE g == [k \in 0..(n + 1) |-> IF k <= n THEN f[k] ELSE Round(keys, o, f[n], n + 1)]
<1>1. \A k \in 0..n : f[k] = IF k = 0 THEN NoPage ELSE Round(keys, o, f[k - 1], k)
  BY DEF Loops
<1>2. ASSUME NEW k \in 0..(n + 1)
      PROVE  g[k] = IF k = 0 THEN NoPage ELSE Round(keys, o, g[k - 1], k)
  <2>1. CASE k = 0
    BY <1>1, <2>1
  <2>2. CASE k \in 1..n
    <3>1. k \in 0..n /\ k - 1 \in 0..n /\ k # 0 /\ k - 1 <= n /\ k - 1 \in 0..(n + 1)
      BY <2>2
    <3>2. g[k] = f[k] /\ g[k - 1] = f[k - 1]
      BY <3>1
    <3>. QED
      BY <1>1, <3>1, <3>2
  <2>3. CASE k = n + 1
    <3>1. k - 1 = n /\ k # 0 /\ ~(k <= n) /\ n <= n /\ n \in 0..(n + 1)
      BY <2>3
    <3>2. g[k] = Round(keys, o, f[n], n + 1) /\ g[k - 1] = f[n]
      BY <2>3, <3>1
    <3>. QED
      BY <2>3, <3>1, <3>2
  <2>. QED
    BY <2>1, <2>2, <2>3
<1>3. Loops(keys, o, g, n + 1)
  BY <1>2 DEF Loops
<1>. QED
  BY <1>3

\* ... so PageUpTo is one, and goes from round to round.
LEMMA PageRound ==
    ASSUME NEW keys, NEW o
    PROVE  /\ PageUpTo(keys, o)[0] = NoPage
           /\ \A n \in 1..Cardinality(KeyNames) :
                 PageUpTo(keys, o)[n] = Round(keys, o, PageUpTo(keys, o)[n - 1], n)
<1> DEFINE N == Cardinality(KeyNames)
           S == {n \in Nat : \E f : Loops(keys, o, f, n)}
<1>1. N \in Nat
  BY KeysAreStrings
<1>2. 0 \in S
  <2>1. Loops(keys, o, [k \in 0..0 |-> NoPage], 0)
    BY DEF Loops
  <2>. QED
    BY <2>1
<1>3. \A n \in S : n + 1 \in S
  BY LoopsOn
<1>4. PICK f : Loops(keys, o, f, N)
  <2>1. N \in 0..N
    BY <1>1
  <2> HIDE DEF S, N
  <2>2. N \in S
    BY <1>1, <1>2, <1>3, <2>1, Reaches
  <2>. QED
    BY <2>2 DEF S
<1>5. Loops(keys, o, PageUpTo(keys, o), N)
  BY <1>4 DEF Loops, Round, PageUpTo
<1> HIDE DEF N
<1>6. ASSUME NEW k \in 0..N
      PROVE  PageUpTo(keys, o)[k]
                 = IF k = 0 THEN NoPage ELSE Round(keys, o, PageUpTo(keys, o)[k - 1], k)
  BY <1>5, <1>6 DEF Loops
<1>7. PageUpTo(keys, o)[0] = NoPage
  BY <1>1, <1>6
<1>8. ASSUME NEW n \in 1..N
      PROVE  PageUpTo(keys, o)[n] = Round(keys, o, PageUpTo(keys, o)[n - 1], n)
  <2>1. n \in 0..N /\ n # 0
    BY <1>1, <1>8
  <2>. QED
    BY <1>6, <2>1
<1>. QED
  BY <1>7, <1>8 DEF N

\* The keys of a page that the first n rounds have met, ...
Met(keys, o, n) == {InOrder[i] : i \in 1..n} \cap keys \cap Meant(o)

\* ... those of them that are shown themselves or bring a common prefix, ...
Heads(S, o) == {k \in S : \A j \in S : Before(j, k) => Shown(j, o) # Shown(k, o)}

\* ... and whether the page shows a key.
IsOn(k, o, p) ==
    Shown(k, o) \in IF Folded(k, o) THEN Range(p.prefixes) ELSE Range(p.objects)

Pages == [objects: Seq(KeyNames), prefixes: Seq(Strings), truncated: BOOLEAN,
          last: KeyNames \cup {<<>>}]

\* The number of its entries.
Count(p) == Len(p.objects) + Len(p.prefixes)

\* T is the first heads of S, ...
FirstHeads(o, S, T) ==
    /\ T \subseteq Heads(S, o)
    /\ \A k \in T : \A j \in Heads(S, o) : Before(j, k) => j \in T

\* ... just these are on the page, ...
Entries(p, o, T) ==
    /\ Range(p.objects) = {k \in T : ~Folded(k, o)}
    /\ Range(p.prefixes) = {Shown(k, o) : k \in {j \in T : Folded(j, o)}}

\* ... they are all, or as many as there is room for, ...
Fits(p, o, S, T) ==
    /\ IsFiniteSet(T) /\ Cardinality(T) = Count(p)
    /\ Cardinality(T) <= Room(o)
    /\ ~p.truncated => T = Heads(S, o)
    /\ p.truncated => T # Heads(S, o) /\ Cardinality(T) = Room(o)

\* ... the marker is the last of them, ...
MarksLast(p, T) ==
    /\ T # {} => p.last \in T
    /\ \A k \in T : k = p.last \/ Before(k, p.last)

\* ... and every key of S is shown or after the marker.
NoneLost(p, o, S) ==
    \A k \in S : IsOn(k, o, p) \/ (p.truncated /\ Before(p.last, k))

Shows(p, o, S, T) ==
    /\ FirstHeads(o, S, T) /\ Entries(p, o, T) /\ Fits(p, o, S, T)
    /\ MarksLast(p, T) /\ NoneLost(p, o, S)

PageOf(p, o, S) ==
    /\ p \in Pages
    /\ Ascending(p.objects) /\ Ascending(p.prefixes)
    /\ \E T : Shows(p, o, S, T)

\* There is always room for an entry.
LEMMA RoomIs ==
    ASSUME NEW o \in Options
    PROVE  Room(o) \in Nat \ {0}
  BY StringsAssumption DEF Options, Room

\* Before the first round the page is empty.
LEMMA PageOfNone ==
    ASSUME NEW o \in Options
    PROVE  PageOf(NoPage, o, {})
<1>1. NoPage \in Pages
  BY DEF NoPage, Pages, Strings
<1>2. Ascending(NoPage.objects) /\ Ascending(NoPage.prefixes)
  BY DEF NoPage, Ascending
<1>3. Range(NoPage.objects) = {} /\ Range(NoPage.prefixes) = {}
  BY DEF NoPage, Range
<1>4. Shows(NoPage, o, {}, {})
  BY <1>3, RoomIs, FS_EmptySet
     DEF NoPage, Count, Shows, Heads, FirstHeads, Entries, Fits, MarksLast, NoneLost
<1>. QED
  BY <1>1, <1>2, <1>4 DEF PageOf

\* One key later than all others makes at most one head more, itself.
LEMMA HeadsGrow ==
    ASSUME NEW S \in SUBSET KeyNames, NEW o, NEW k \in KeyNames,
           \A j \in S : Before(j, k)
    PROVE  /\ (\E j \in S : Shown(j, o) = Shown(k, o))
                 => Heads(S \cup {k}, o) = Heads(S, o)
           /\ (\A j \in S : Shown(j, o) # Shown(k, o))
                 => Heads(S \cup {k}, o) = Heads(S, o) \cup {k}
<1>1. k \notin S /\ ~Before(k, k)
  BY KeysAreStrings, BeforeIrreflexive
<1>2. ASSUME NEW j \in S PROVE ~Before(k, j)
  <2>1. j \in Strings /\ k \in Strings /\ ~Before(j, j)
    BY KeysAreStrings, BeforeIrreflexive
  <2>. QED
    BY <2>1, BeforeTransitive
<1>. QED
  BY <1>1, <1>2 DEF Heads

\* A key that is shown as another one before it is not shown itself.
LEMMA SharedIsFolder ==
    ASSUME NEW j \in Strings, NEW k \in Strings, NEW o,
           j # k, Shown(j, o) = Shown(k, o)
    PROVE  Folded(j, o) /\ Folded(k, o)
<1>1. CASE Folded(j, o)
  <2>1. SUFFICES ASSUME ~Folded(k, o) PROVE FALSE
    BY <1>1
  <2>2. Shown(j, o) = k
    BY <2>1 DEF Shown
  <2>3. IsPrefix(Shown(j, o), k)
    BY <2>2, PrefixOfItself
  <2>. QED
    BY <1>1, <2>1, <2>3, SameFolder
<1>2. CASE Folded(k, o)
  <2>1. SUFFICES ASSUME ~Folded(j, o) PROVE FALSE
    BY <1>2
  <2>2. Shown(k, o) = j
    BY <2>1 DEF Shown
  <2>3. IsPrefix(Shown(k, o), j)
    BY <2>2, PrefixOfItself
  <2>. QED
    BY <1>2, <2>1, <2>3, SameFolder
<1>3. CASE ~Folded(j, o) /\ ~Folded(k, o)
  BY <1>3 DEF Shown
<1>. QED
  BY <1>1, <1>2, <1>3

\* Folders come in the order of their keys.
LEMMA FoldersInOrder ==
    ASSUME NEW j \in Strings, NEW k \in Strings, NEW o,
           Folded(j, o), Folded(k, o), Before(j, k), Shown(j, o) # Shown(k, o)
    PROVE  Before(Shown(j, o), Shown(k, o)) /\ ~IsPrefix(Shown(j, o), Shown(k, o))
<1> DEFINE c == Shown(j, o)
           d == Shown(k, o)
<1>1. /\ c \in Strings /\ IsPrefix(c, j)
      /\ d \in Strings /\ IsPrefix(d, k)
  BY ShownIs
<1>2. ~IsPrefix(c, k) /\ ~IsPrefix(d, j)
  BY SameFolder
<1> HIDE DEF c, d
<1>3. ~IsPrefix(c, d) /\ ~IsPrefix(d, c)
  BY <1>1, <1>2, PrefixOfPrefix
<1>4. ~Before(d, c)
  <2>1. SUFFICES ASSUME Before(d, c) PROVE FALSE
    OBVIOUS
  <2>2. Before(k, j)
    BY <1>1, <1>3, <2>1, Beginnings
  <2>. QED
    BY <2>2, BeforeTransitive, BeforeIrreflexive
<1>. QED
  BY <1>1, <1>3, <1>4, BeforeTotal DEF c, d

\* One more in one list is one more in two.
LEMMA OneMore ==
    \A a, b \in Nat : /\ a + b \in Nat
                      /\ (a + 1) + b = (a + b) + 1 /\ a + (b + 1) = (a + b) + 1
  OBVIOUS

\* A list with one more entry.
LEMMA AppendIs ==
    ASSUME NEW X, NEW s \in Seq(X), NEW x \in X
    PROVE  /\ Append(s, x) \in Seq(X) /\ Len(Append(s, x)) = Len(s) + 1
           /\ Range(Append(s, x)) = Range(s) \cup {x}
           /\ Ascending(s) /\ (\A y \in Range(s) : Before(y, x)) => Ascending(Append(s, x))
<1> DEFINE t == Append(s, x)
<1>1. Len(s) \in Nat /\ DOMAIN s = 1..Len(s)
  OBVIOUS
<1>2. t \in Seq(X) /\ Len(t) = Len(s) + 1 /\ DOMAIN t = 1..(Len(s) + 1)
  OBVIOUS
<1>3. /\ \A i \in 1..Len(s) : t[i] = s[i]
      /\ t[Len(s) + 1] = x
  OBVIOUS
<1>4. Range(t) = Range(s) \cup {x}
  <2> HIDE DEF t
  <2>1. \A i \in 1..(Len(s) + 1) : i \in 1..Len(s) \/ i = Len(s) + 1
    BY <1>1
  <2>2. \A i \in 1..Len(s) : i \in 1..(Len(s) + 1)
    BY <1>1
  <2>3. Len(s) + 1 \in 1..(Len(s) + 1)
    BY <1>1
  <2>. QED
    BY <1>1, <1>2, <1>3, <2>1, <2>2, <2>3, Zenon DEF Range
<1>5. ASSUME Ascending(s), \A y \in Range(s) : Before(y, x)
      PROVE  Ascending(t)
  <2> HIDE DEF t
  <2>1. SUFFICES ASSUME NEW i \in 1..(Len(s) + 1), NEW j \in 1..(Len(s) + 1), i < j
                 PROVE  Before(t[i], t[j])
    BY <1>2 DEF Ascending
  <2>2. i \in 1..Len(s) /\ s[i] \in Range(s)
    BY <1>1, <2>1 DEF Range
  <2>3. CASE j \in 1..Len(s)
    BY <1>1, <1>3, <1>5, <2>1, <2>2, <2>3 DEF Ascending
  <2>4. CASE j = Len(s) + 1
    BY <1>3, <1>5, <2>2, <2>4
  <2>. QED
    BY <1>1, <2>1, <2>3, <2>4
<1>. QED
  BY <1>2, <1>4, <1>5

\* A full page stays as it is.
LEMMA FullPage ==
    ASSUME NEW o \in Options, NEW S \in SUBSET KeyNames, NEW k \in KeyNames,
           \A j \in S : Before(j, k), NEW p, PageOf(p, o, S), p.truncated
    PROVE  PageOf(p, o, S \cup {k})
<1>1. PICK T : Shows(p, o, S, T)
  BY DEF PageOf
<1>2. T # {} /\ p.last \in S
  BY <1>1, RoomIs, FS_EmptySet DEF Shows, FirstHeads, Fits, MarksLast, Heads
<1>3. k \notin S /\ ~Before(k, k)
  BY KeysAreStrings, BeforeIrreflexive
<1>4. \A j \in S : ~Before(k, j)
  <2>1. \A j \in S : j \in Strings /\ k \in Strings /\ ~Before(j, j)
    BY KeysAreStrings, BeforeIrreflexive
  <2>. QED
    BY <2>1, BeforeTransitive
<1>5. /\ Heads(S, o) \subseteq S
      /\ \/ Heads(S \cup {k}, o) = Heads(S, o)
         \/ Heads(S \cup {k}, o) = Heads(S, o) \cup {k}
  <2>1. Heads(S, o) \subseteq S
    BY DEF Heads
  <2>. QED
    BY <2>1, HeadsGrow
<1>6. Shows(p, o, S \cup {k}, T)
  <2>1. T \subseteq Heads(S \cup {k}, o) /\ T # Heads(S \cup {k}, o)
    <3>1. T \subseteq Heads(S, o) /\ T # Heads(S, o)
      BY <1>1 DEF Shows, FirstHeads, Fits
    <3>. QED
      BY <1>3, <1>5, <3>1
  <2>2. ASSUME NEW t \in T, NEW j \in Heads(S \cup {k}, o), Before(j, t)
        PROVE  j \in T
    <3>1. t \in S /\ j # k
      BY <1>1, <1>4, <1>5, <2>2 DEF Shows, FirstHeads
    <3>2. j \in Heads(S, o)
      BY <1>5, <3>1
    <3>. QED
      BY <1>1, <2>2, <3>2 DEF Shows, FirstHeads
  <2>3. NoneLost(p, o, S \cup {k})
    BY <1>1, <1>2 DEF Shows, NoneLost
  <2>4. FirstHeads(o, S \cup {k}, T)
    BY <2>1, <2>2 DEF FirstHeads
  <2>5. Fits(p, o, S \cup {k}, T)
    BY <1>1, <2>1 DEF Shows, Fits
  <2>. QED
    BY <1>1, <2>3, <2>4, <2>5 DEF Shows
<1>. QED
  BY <1>6 DEF PageOf

\* A key that is shown already changes nothing.
LEMMA ShownAlready ==
    ASSUME NEW o \in Options, NEW S \in SUBSET KeyNames, NEW k \in KeyNames,
           \A j \in S : Before(j, k), NEW p, PageOf(p, o, S), ~p.truncated,
           Folded(k, o), Shown(k, o) \in Range(p.prefixes)
    PROVE  PageOf(p, o, S \cup {k})
<1>1. PICK T : Shows(p, o, S, T)
  BY DEF PageOf
<1>2. \E j \in S : Shown(j, o) = Shown(k, o)
  <2>1. T \subseteq S /\ Range(p.prefixes) = {Shown(j, o) : j \in {i \in T : Folded(i, o)}}
    BY <1>1 DEF Shows, FirstHeads, Entries, Heads
  <2>. QED
    BY <2>1
<1>3. Heads(S \cup {k}, o) = Heads(S, o)
  BY <1>2, HeadsGrow
<1>4. IsOn(k, o, p)
  BY DEF IsOn
<1>5. NoneLost(p, o, S \cup {k})
  <2>1. NoneLost(p, o, S)
    BY <1>1 DEF Shows
  <2>. QED
    BY <1>4, <2>1 DEF NoneLost
<1>6. FirstHeads(o, S \cup {k}, T) /\ Fits(p, o, S \cup {k}, T)
  BY <1>1, <1>3 DEF Shows, FirstHeads, Fits
<1>7. Shows(p, o, S \cup {k}, T)
  BY <1>1, <1>5, <1>6 DEF Shows
<1>. QED
  BY <1>7 DEF PageOf

\* One that is not is a head of its own.
LEMMA NewHead ==
    ASSUME NEW o \in Options, NEW S \in SUBSET KeyNames, NEW k \in KeyNames,
           \A j \in S : Before(j, k), NEW p, NEW T, Shows(p, o, S, T), ~p.truncated,
           ~(Folded(k, o) /\ Shown(k, o) \in Range(p.prefixes))
    PROVE  /\ T = Heads(S, o) /\ Heads(S \cup {k}, o) = T \cup {k}
           /\ k \notin S /\ T \subseteq S
<1>1. k \notin S
  BY KeysAreStrings, BeforeIrreflexive
<1>2. ASSUME NEW j \in S, Shown(j, o) = Shown(k, o)
      PROVE  FALSE
  <2>1. Folded(j, o) /\ Folded(k, o)
    BY <1>1, <1>2, KeysAreStrings, SharedIsFolder
  <2>2. Shown(j, o) \in Range(p.prefixes)
    BY <2>1 DEF Shows, NoneLost, IsOn
  <2>. QED
    BY <1>2, <2>1, <2>2
<1>3. T = Heads(S, o)
  BY DEF Shows, Fits
<1>4. Heads(S \cup {k}, o) = T \cup {k}
  BY <1>2, <1>3, HeadsGrow
<1>. QED
  BY <1>1, <1>3, <1>4 DEF Heads

\* If there is no room for it, the page is full.
LEMMA NoRoom ==
    ASSUME NEW o \in Options, NEW S \in SUBSET KeyNames, NEW k \in KeyNames,
           \A j \in S : Before(j, k), NEW p, PageOf(p, o, S), ~p.truncated,
           ~(Folded(k, o) /\ Shown(k, o) \in Range(p.prefixes)),
           Count(p) = Room(o)
    PROVE  PageOf([p EXCEPT !.truncated = TRUE], o, S \cup {k})
<1> DEFINE q == [p EXCEPT !.truncated = TRUE]
<1>1. PICK T : Shows(p, o, S, T)
  BY DEF PageOf
<1>2. /\ T = Heads(S, o) /\ Heads(S \cup {k}, o) = T \cup {k}
      /\ k \notin S /\ T \subseteq S
  BY <1>1, NewHead
<1>3. /\ q \in Pages /\ q.truncated
      /\ q.objects = p.objects /\ q.prefixes = p.prefixes /\ q.last = p.last
  BY DEF PageOf, Pages
<1>4. Cardinality(T) = Room(o) /\ T # {} /\ p.last \in T
  BY <1>1, RoomIs, FS_EmptySet DEF Shows, Fits, MarksLast
<1> HIDE DEF q
<1>5. \A t \in T : \A j \in T \cup {k} : Before(j, t) => j \in T
  <2>1. \A j \in S : j \in Strings /\ k \in Strings /\ ~Before(j, j)
    BY KeysAreStrings, BeforeIrreflexive
  <2>2. \A j \in S : ~Before(k, j)
    BY <2>1, BeforeTransitive
  <2>. QED
    BY <1>2, <2>2
<1>6. NoneLost(q, o, S \cup {k})
  BY <1>1, <1>2, <1>3, <1>4 DEF Shows, NoneLost, IsOn
<1>7. FirstHeads(o, S \cup {k}, T)
  BY <1>2, <1>5 DEF FirstHeads
<1>8. Fits(q, o, S \cup {k}, T)
  <2>1. Fits(p, o, S, T) /\ Count(q) = Count(p)
    BY <1>1, <1>3 DEF Shows, Count
  <2>2. T # Heads(S \cup {k}, o)
    BY <1>2
  <2>. QED
    BY <1>3, <1>4, <2>1, <2>2 DEF Fits
<1>9. Entries(q, o, T) /\ MarksLast(q, T)
  BY <1>1, <1>3 DEF Shows, Entries, MarksLast
<1>10. Shows(q, o, S \cup {k}, T)
  BY <1>6, <1>7, <1>8, <1>9 DEF Shows
<1>. QED
  BY <1>3, <1>10 DEF PageOf, q

\* If there is, it is an object ...
LEMMA NewObject ==
    ASSUME NEW o \in Options, NEW S \in SUBSET KeyNames, NEW k \in KeyNames,
           \A j \in S : Before(j, k), NEW p, PageOf(p, o, S), ~p.truncated,
           ~Folded(k, o), Count(p) # Room(o)
    PROVE  PageOf([p EXCEPT !.objects = Append(p.objects, k), !.last = k], o, S \cup {k})
<1> DEFINE q == [p EXCEPT !.objects = Append(p.objects, k), !.last = k]
<1>1. PICK T : Shows(p, o, S, T)
  BY DEF PageOf
<1>2. /\ T = Heads(S, o) /\ Heads(S \cup {k}, o) = T \cup {k}
      /\ k \notin S /\ T \subseteq S
  BY <1>1, NewHead
<1>3. /\ p.objects \in Seq(KeyNames) /\ Ascending(p.objects)
      /\ p.prefixes \in Seq(Strings) /\ Ascending(p.prefixes)
  BY DEF PageOf, Pages
<1>4. /\ q \in Pages /\ q.truncated = p.truncated
      /\ q.objects = Append(p.objects, k) /\ q.prefixes = p.prefixes /\ q.last = k
  <2>1. Append(p.objects, k) \in Seq(KeyNames)
    BY <1>3, AppendIs
  <2>. QED
    BY <2>1 DEF PageOf, Pages
<1> HIDE DEF q
<1>5. /\ Range(p.objects) = {j \in T : ~Folded(j, o)}
      /\ Range(p.prefixes) = {Shown(j, o) : j \in {i \in T : Folded(i, o)}}
      /\ IsFiniteSet(T) /\ Cardinality(T) = Count(p)
      /\ Cardinality(T) <= Room(o)
  BY <1>1 DEF Shows, Entries, Fits
<1>6. /\ Range(q.objects) = Range(p.objects) \cup {k}
      /\ Len(q.objects) = Len(p.objects) + 1
      /\ Ascending(q.objects)
  <2>1. \A y \in Range(p.objects) : Before(y, k)
    BY <1>2, <1>5
  <2>. QED
    BY <1>3, <1>4, <2>1, AppendIs
<1>7. /\ Range(q.objects) = {j \in T \cup {k} : ~Folded(j, o)}
      /\ Range(q.prefixes) = {Shown(j, o) : j \in {i \in T \cup {k} : Folded(i, o)}}
  BY <1>4, <1>5, <1>6
<1>8. Fits(q, o, S \cup {k}, T \cup {k})
  <2>1. IsFiniteSet(T \cup {k}) /\ Cardinality(T \cup {k}) = Cardinality(T) + 1
    <3>1. IsFiniteSet(T) /\ k \notin T
      BY <1>2, <1>5
    <3>. QED
      BY <3>1, FS_AddElement
  <2>2. Count(q) = Count(p) + 1 /\ Count(p) \in Nat
    <3>1. Len(q.objects) = Len(p.objects) + 1 /\ Len(q.prefixes) = Len(p.prefixes)
      BY <1>4, <1>6
    <3>2. Len(p.objects) \in Nat /\ Len(p.prefixes) \in Nat
      BY <1>3
    <3>3. Len(p.objects) + Len(p.prefixes) \in Nat
      BY <3>2, OneMore, Zenon
    <3>4. (Len(p.objects) + 1) + Len(p.prefixes) = (Len(p.objects) + Len(p.prefixes)) + 1
      BY <3>2, OneMore, Zenon
    <3>5. Count(q) = (Len(p.objects) + 1) + Len(p.prefixes)
      BY <3>1, Zenon DEF Count
    <3>. QED
      BY <3>3, <3>4, <3>5, Zenon DEF Count
  <2>3. Cardinality(T) = Count(p) /\ Count(p) <= Room(o)
    BY <1>5
  <2>4. Cardinality(T \cup {k}) = Count(q)
    BY <2>1, <2>2, <2>3
  <2>5. Count(q) <= Room(o)
    BY <2>2, <2>3, RoomIs
  <2>. QED
    BY <1>2, <1>4, <2>1, <2>4, <2>5 DEF Fits
<1>9. \A x \in S \cup {k} : IsOn(x, o, q)
  <2>1. \A x \in S : IsOn(x, o, p)
    BY <1>1 DEF Shows, NoneLost
  <2>. QED
    BY <1>4, <1>6, <2>1 DEF IsOn, Shown
<1>10. FirstHeads(o, S \cup {k}, T \cup {k}) /\ MarksLast(q, T \cup {k})
  BY <1>2, <1>4 DEF FirstHeads, MarksLast
<1>11. Shows(q, o, S \cup {k}, T \cup {k})
  <2>1. Entries(q, o, T \cup {k})
    BY <1>7 DEF Entries
  <2>2. NoneLost(q, o, S \cup {k})
    BY <1>9 DEF NoneLost
  <2>. QED
    BY <1>8, <1>10, <2>1, <2>2 DEF Shows
<1>. QED
  BY <1>3, <1>4, <1>6, <1>11 DEF PageOf, q

\* ... or brings a common prefix.
LEMMA NewPrefix ==
    ASSUME NEW o \in Options, NEW S \in SUBSET KeyNames, NEW k \in KeyNames,
           \A j \in S : Before(j, k), NEW p, PageOf(p, o, S), ~p.truncated,
           Folded(k, o), Shown(k, o) \notin Range(p.prefixes),
           Count(p) # Room(o)
    PROVE  PageOf([p EXCEPT !.prefixes = Append(p.prefixes, Shown(k, o)), !.last = k],
                  o, S \cup {k})
<1> DEFINE q == [p EXCEPT !.prefixes = Append(p.prefixes, Shown(k, o)), !.last = k]
<1>1. PICK T : Shows(p, o, S, T)
  BY DEF PageOf
<1>2. /\ T = Heads(S, o) /\ Heads(S \cup {k}, o) = T \cup {k}
      /\ k \notin S /\ T \subseteq S
  BY <1>1, NewHead
<1>3. /\ p.objects \in Seq(KeyNames) /\ Ascending(p.objects)
      /\ p.prefixes \in Seq(Strings) /\ Ascending(p.prefixes)
      /\ Shown(k, o) \in Strings
  BY KeysAreStrings, ShownIs DEF PageOf, Pages
<1>4. /\ q \in Pages /\ q.truncated = p.truncated
      /\ q.prefixes = Append(p.prefixes, Shown(k, o)) /\ q.objects = p.objects /\ q.last = k
  <2>1. Append(p.prefixes, Shown(k, o)) \in Seq(Strings)
    BY <1>3, AppendIs
  <2>. QED
    BY <2>1 DEF PageOf, Pages
<1> HIDE DEF q
<1>5. /\ Range(p.objects) = {j \in T : ~Folded(j, o)}
      /\ Range(p.prefixes) = {Shown(j, o) : j \in {i \in T : Folded(i, o)}}
      /\ IsFiniteSet(T) /\ Cardinality(T) = Count(p)
      /\ Cardinality(T) <= Room(o)
  BY <1>1 DEF Shows, Entries, Fits
<1>6. /\ Range(q.prefixes) = Range(p.prefixes) \cup {Shown(k, o)}
      /\ Len(q.prefixes) = Len(p.prefixes) + 1
      /\ Ascending(q.prefixes)
  <2>1. ASSUME NEW y \in Range(p.prefixes) PROVE Before(y, Shown(k, o))
    <3>1. PICK j \in T : Folded(j, o) /\ y = Shown(j, o)
      BY <1>5
    <3>2. Before(j, k) /\ j \in Strings /\ k \in Strings
      BY <1>2, KeysAreStrings
    <3>. QED
      BY <3>1, <3>2, FoldersInOrder
  <2>. QED
    BY <1>3, <1>4, <2>1, AppendIs
<1>7. /\ Range(q.objects) = {j \in T \cup {k} : ~Folded(j, o)}
      /\ Range(q.prefixes) = {Shown(j, o) : j \in {i \in T \cup {k} : Folded(i, o)}}
  BY <1>4, <1>5, <1>6
<1>8. Fits(q, o, S \cup {k}, T \cup {k})
  <2>1. IsFiniteSet(T \cup {k}) /\ Cardinality(T \cup {k}) = Cardinality(T) + 1
    <3>1. IsFiniteSet(T) /\ k \notin T
      BY <1>2, <1>5
    <3>. QED
      BY <3>1, FS_AddElement
  <2>2. Count(q) = Count(p) + 1 /\ Count(p) \in Nat
    <3>1. Len(q.objects) = Len(p.objects) /\ Len(q.prefixes) = Len(p.prefixes) + 1
      BY <1>4, <1>6
    <3>2. Len(p.objects) \in Nat /\ Len(p.prefixes) \in Nat
      BY <1>3
    <3>3. Len(p.objects) + Len(p.prefixes) \in Nat
      BY <3>2, OneMore, Zenon
    <3>4. Len(p.objects) + (Len(p.prefixes) + 1) = (Len(p.objects) + Len(p.prefixes)) + 1
      BY <3>2, OneMore, Zenon
    <3>5. Count(q) = Len(p.objects) + (Len(p.prefixes) + 1)
      BY <3>1, Zenon DEF Count
    <3>. QED
      BY <3>3, <3>4, <3>5, Zenon DEF Count
  <2>3. Cardinality(T) = Count(p) /\ Count(p) <= Room(o)
    BY <1>5
  <2>4. Cardinality(T \cup {k}) = Count(q)
    BY <2>1, <2>2, <2>3
  <2>5. Count(q) <= Room(o)
    BY <2>2, <2>3, RoomIs
  <2>. QED
    BY <1>2, <1>4, <2>1, <2>4, <2>5 DEF Fits
<1>9. \A x \in S \cup {k} : IsOn(x, o, q)
  <2>1. \A x \in S : IsOn(x, o, p)
    BY <1>1 DEF Shows, NoneLost
  <2>. QED
    BY <1>4, <1>6, <2>1 DEF IsOn
<1>10. FirstHeads(o, S \cup {k}, T \cup {k}) /\ MarksLast(q, T \cup {k})
  BY <1>2, <1>4 DEF FirstHeads, MarksLast
<1>11. Shows(q, o, S \cup {k}, T \cup {k})
  <2>1. Entries(q, o, T \cup {k})
    BY <1>7 DEF Entries
  <2>2. NoneLost(q, o, S \cup {k})
    BY <1>9 DEF NoneLost
  <2>. QED
    BY <1>8, <1>10, <2>1, <2>2 DEF Shows
<1>. QED
  BY <1>3, <1>4, <1>6, <1>11 DEF PageOf, q

\* So a visit makes a page of one key more, if that is after the marker.
LEMMA VisitPage ==
    ASSUME NEW o \in Options, NEW S \in SUBSET KeyNames, NEW k \in KeyNames,
           \A j \in S : Before(j, k), NEW p, PageOf(p, o, S)
    PROVE  PageOf(Visit(o, p, k), o,
                  IF o.marker = <<>> \/ Before(o.marker, k) THEN S \cup {k} ELSE S)
<1> DEFINE after == o.marker = <<>> \/ Before(o.marker, k)
           known == Folded(k, o) /\ Shown(k, o) \in Range(p.prefixes)
<1>1. k \in Strings /\ None \notin Range(p.prefixes)
  BY KeysAreStrings, StringsAssumption DEF PageOf, Pages, Range, Strings
<1>2. CommonPrefix(k, o) = IF Folded(k, o) THEN Shown(k, o) ELSE None
  BY <1>1, CommonPrefixIs
<1>3. Folded(k, o) => Shown(k, o) # None
  BY <1>1, ShownIs, StringsAssumption DEF Strings
<1>4. CASE ~after
  <2>1. Visit(o, p, k) = p
    BY <1>4 DEF Visit
  <2>. QED
    BY <1>4, <2>1
<1>5. CASE after /\ p.truncated
  <2>1. Visit(o, p, k) = p
    BY <1>5 DEF Visit
  <2>. QED
    BY <1>5, <2>1, FullPage
<1>6. CASE after /\ ~p.truncated /\ known
  <2>1. Visit(o, p, k) = p
    BY <1>2, <1>6 DEF Visit
  <2>. QED
    BY <1>6, <2>1, ShownAlready
<1>7. CASE after /\ ~p.truncated /\ ~known
  <2>1. Visit(o, p, k) =
           IF Count(p) = Room(o) THEN [p EXCEPT !.truncated = TRUE]
           ELSE IF Folded(k, o)
           THEN [p EXCEPT !.prefixes = Append(p.prefixes, Shown(k, o)), !.last = k]
           ELSE [p EXCEPT !.objects = Append(p.objects, k), !.last = k]
    BY <1>1, <1>2, <1>3, <1>7 DEF Visit, Count
  <2>2. CASE Count(p) = Room(o)
    <3>1. Visit(o, p, k) = [p EXCEPT !.truncated = TRUE]
      BY <2>1, <2>2
    <3>2. PageOf([p EXCEPT !.truncated = TRUE], o, S \cup {k})
      BY <1>7, <2>2, NoRoom
    <3>. QED
      BY <1>7, <3>1, <3>2
  <2>3. CASE Count(p) # Room(o) /\ Folded(k, o)
    <3>1. Visit(o, p, k) = [p EXCEPT !.prefixes = Append(p.prefixes, Shown(k, o)), !.last = k]
      BY <2>1, <2>3
    <3>2. PageOf([p EXCEPT !.prefixes = Append(p.prefixes, Shown(k, o)), !.last = k],
                 o, S \cup {k})
      BY <1>7, <2>3, NewPrefix
    <3>. QED
      BY <1>7, <3>1, <3>2
  <2>4. CASE Count(p) # Room(o) /\ ~Folded(k, o)
    <3>1. Visit(o, p, k) = [p EXCEPT !.objects = Append(p.objects, k), !.last = k]
      BY <2>1, <2>4
    <3>2. PageOf([p EXCEPT !.objects = Append(p.objects, k), !.last = k], o, S \cup {k})
      BY <1>7, <2>4, NewObject
    <3>. QED
      BY <1>7, <3>1, <3>2
  <2>. QED
    BY <2>2, <2>3, <2>4
<1>. QED
  BY <1>4, <1>5, <1>6, <1>7

\* The keys met so far are those before the next one.
LEMMA MetNext ==
    ASSUME NEW keys, NEW o, NEW n \in 0..(Cardinality(KeyNames) - 1)
    PROVE  LET k == InOrder[n + 1]
           IN /\ Met(keys, o, n) \in SUBSET KeyNames /\ k \in KeyNames
              /\ \A j \in Met(keys, o, n) : Before(j, k)
              /\ Met(keys, o, n + 1) =
                    IF k \in keys \cap Meant(o) THEN Met(keys, o, n) \cup {k} ELSE Met(keys, o, n)
<1> DEFINE N == Cardinality(KeyNames)
           k == InOrder[n + 1]
<1>1. N \in Nat /\ n \in Nat /\ n + 1 \in 1..N /\ n + 1 \in Nat
  BY KeysAreStrings
<1>2. \A i \in 1..n : i \in 1..N /\ i < n + 1
  BY <1>1
<1>3. \A i \in 1..N : InOrder[i] \in KeyNames
  BY InOrderIs
<1>4. k \in KeyNames
  BY <1>1, <1>3
<1>5. \A j \in Met(keys, o, n) : j \in KeyNames /\ Before(j, k)
  BY <1>1, <1>2, <1>3, InOrderIs DEF Met
<1>6. 1..(n + 1) = 1..n \cup {n + 1}
  BY <1>1
<1>7. {InOrder[i] : i \in 1..(n + 1)} = {InOrder[i] : i \in 1..n} \cup {k}
  BY <1>6
<1>. QED
  BY <1>4, <1>5, <1>7 DEF Met

\* The answer is a page of all keys of the query.
LEMMA ListObjectsPage ==
    ASSUME NEW keys, NEW o \in Options
    PROVE  PageOf(ListObjects(keys, o), o, keys \cap Meant(o))
<1> DEFINE N == Cardinality(KeyNames)
           pageAt == PageUpTo(keys, o)
           S == {n \in 0..N : PageOf(pageAt[n], o, Met(keys, o, n))}
<1>1. N \in Nat /\ N \in 0..N /\ 0 \in 0..N
  BY KeysAreStrings
<1>2. 0 \in S
  <2>1. Met(keys, o, 0) = {} /\ pageAt[0] = NoPage
    BY PageRound DEF Met
  <2>. QED
    BY <1>1, <2>1, PageOfNone
<1>3. ASSUME NEW n \in S, n \in 0..N, n < N
      PROVE  n + 1 \in S
  <2> DEFINE k == InOrder[n + 1]
  <2>1. n \in 0..(N - 1) /\ n + 1 \in 1..N /\ n + 1 \in 0..N /\ (n + 1) - 1 = n
    BY <1>1, <1>3
  <2>2. PageOf(pageAt[n], o, Met(keys, o, n))
    BY <1>3
  <2>3. pageAt[n + 1] = Round(keys, o, pageAt[n], n + 1)
    BY <2>1, PageRound
  <2>4. /\ Met(keys, o, n) \in SUBSET KeyNames /\ k \in KeyNames
        /\ \A j \in Met(keys, o, n) : Before(j, k)
        /\ Met(keys, o, n + 1) =
              IF k \in keys \cap Meant(o) THEN Met(keys, o, n) \cup {k} ELSE Met(keys, o, n)
    BY <2>1, MetNext
  <2> HIDE DEF pageAt, k
  <2>5. PageOf(pageAt[n + 1], o, Met(keys, o, n + 1))
    <3>1. CASE k \in keys /\ IsPrefix(o.prefix, k)
      <4>1. pageAt[n + 1] = Visit(o, pageAt[n], k)
        BY <2>3, <3>1 DEF Round, k
      <4>2. k \in keys \cap Meant(o) <=> o.marker = <<>> \/ Before(o.marker, k)
        BY <2>4, <3>1 DEF Meant
      <4>3. PageOf(Visit(o, pageAt[n], k), o,
                   IF o.marker = <<>> \/ Before(o.marker, k)
                   THEN Met(keys, o, n) \cup {k} ELSE Met(keys, o, n))
        BY <2>2, <2>4, VisitPage
      <4>4. Met(keys, o, n + 1) = IF o.marker = <<>> \/ Before(o.marker, k)
                                  THEN Met(keys, o, n) \cup {k} ELSE Met(keys, o, n)
        BY <2>4, <4>2
      <4>. QED
        BY <4>1, <4>3, <4>4
    <3>2. CASE ~(k \in keys /\ IsPrefix(o.prefix, k))
      <4>1. pageAt[n + 1] = pageAt[n]
        BY <2>3, <3>2 DEF Round, k
      <4>2. k \notin keys \cap Meant(o)
        BY <3>2 DEF Meant
      <4>. QED
        BY <2>2, <2>4, <4>1, <4>2
    <3>. QED
      BY <3>1, <3>2
  <2>. QED
    BY <2>1, <2>5
<1>4. N \in S
  <2> HIDE DEF S, N
  <2>. QED
    BY <1>1, <1>2, <1>3, Reaches
<1>5. Met(keys, o, N) = keys \cap Meant(o)
  <2>1. {InOrder[i] : i \in 1..N} = KeyNames
    BY InOrderIs
  <2>. QED
    BY <2>1 DEF Met, Meant
<1>. QED
  BY <1>4, <1>5 DEF ListObjects

\* What is on it are the heads with few enough before them.
LEMMA FirstOnes ==
    ASSUME NEW o \in Options, NEW S \in SUBSET KeyNames, NEW p, p.truncated \in BOOLEAN,
           NEW T, FirstHeads(o, S, T), Fits(p, o, S, T)
    PROVE  /\ T = {k \in Heads(S, o) :
                      Cardinality({j \in Heads(S, o) : Before(j, k)}) < Room(o)}
           /\ p.truncated <=> T # Heads(S, o)
<1> DEFINE H == Heads(S, o)
           below(k) == {j \in H : Before(j, k)}
<1>1. H \subseteq KeyNames /\ IsFiniteSet(H)
  <2>1. H \subseteq KeyNames
    BY DEF Heads
  <2>. QED
    BY <2>1, KeysAreStrings, FS_Subset
<1>2. /\ T \subseteq H
      /\ \A k \in T : \A j \in H : Before(j, k) => j \in T
  BY DEF FirstHeads
<1>3. IsFiniteSet(T) /\ Cardinality(T) \in Nat /\ Cardinality(T) <= Room(o) /\ Room(o) \in Nat
  BY RoomIs, FS_CardinalityType DEF Fits
<1>4. T = H \/ Cardinality(T) = Room(o)
  BY DEF Fits
<1>5. ASSUME NEW k \in H
      PROVE  IsFiniteSet(below(k)) /\ Cardinality(below(k)) \in Nat
  <2>1. below(k) \subseteq H
    OBVIOUS
  <2> HIDE DEF H, below
  <2>. QED
    BY <1>1, <2>1, FS_Subset, FS_CardinalityType
<1>6. ASSUME NEW k \in T
      PROVE  Cardinality(below(k)) < Room(o)
  <2>1. below(k) \subseteq T /\ k \notin below(k) /\ k \in H
    BY <1>1, <1>2, <1>6, KeysAreStrings, BeforeIrreflexive
  <2> HIDE DEF H, below
  <2>2. Cardinality(below(k)) <= Cardinality(T) /\ Cardinality(below(k)) # Cardinality(T)
    BY <1>3, <1>6, <2>1, FS_Subset
  <2>. QED
    BY <1>3, <1>5, <2>1, <2>2
<1>7. ASSUME NEW k \in H, k \notin T
      PROVE  ~(Cardinality(below(k)) < Room(o))
  <2>1. ASSUME NEW j \in T PROVE j \in below(k)
    <3>1. j # k /\ ~Before(k, j) /\ j \in H
      BY <1>2, <1>7, <2>1
    <3>2. j \in Strings /\ k \in Strings
      BY <1>1, <3>1, <1>7, KeysAreStrings
    <3>. QED
      BY <3>1, <3>2, BeforeTotal
  <2>2. T \subseteq below(k)
    BY <2>1
  <2>3. Cardinality(T) = Room(o)
    BY <1>4, <1>7
  <2> HIDE DEF H, below
  <2>4. Cardinality(T) <= Cardinality(below(k))
    BY <1>5, <1>7, <2>2, FS_Subset
  <2>. QED
    BY <1>3, <1>5, <1>7, <2>3, <2>4
<1>8. T = {k \in H : Cardinality(below(k)) < Room(o)}
  <2> HIDE DEF H, below
  <2>. QED
    BY <1>2, <1>6, <1>7
<1>9. p.truncated <=> T # H
  BY DEF Fits
<1>. QED
  BY <1>8, <1>9

\* So a page is exact.
LEMMA PageIsExact ==
    ASSUME NEW o \in Options, NEW all, NEW p, PageOf(p, o, all \cap Meant(o))
    PROVE  IsExact(p, all, o, Room(o))
<1> DEFINE keys == all \cap Meant(o)
           heads == {k \in keys : \A j \in keys : Before(j, k) => Shown(j, o) # Shown(k, o)}
           first == {k \in heads : Cardinality({j \in heads : Before(j, k)}) < Room(o)}
<1>1. PICK T : Shows(p, o, keys, T)
  BY DEF PageOf
<1>2. p.truncated \in BOOLEAN /\ Ascending(p.objects) /\ Ascending(p.prefixes)
  BY DEF PageOf, Pages
<1>3. heads = Heads(keys, o) /\ keys \in SUBSET KeyNames
  BY DEF Heads, Meant
<1> HIDE DEF keys
<1>4. T = first /\ (p.truncated <=> first # heads)
  <2> HIDE DEF heads
  <2>1. /\ T = {k \in Heads(keys, o) :
                   Cardinality({j \in Heads(keys, o) : Before(j, k)}) < Room(o)}
        /\ p.truncated <=> T # Heads(keys, o)
    <3>1. FirstHeads(o, keys, T) /\ Fits(p, o, keys, T)
      BY <1>1 DEF Shows
    <3>2. p.truncated \in BOOLEAN /\ keys \in SUBSET KeyNames
      BY <1>2, <1>3
    <3>. QED
      BY <3>1, <3>2, FirstOnes
  <2>. QED
    BY <1>3, <2>1
<1> HIDE DEF heads, first
<1>5. /\ Range(p.objects) = {k \in first : ~Folded(k, o)}
      /\ Range(p.prefixes) = {Shown(k, o) : k \in {j \in first : Folded(j, o)}}
  BY <1>1, <1>4 DEF Shows, Entries
<1>6. p.truncated => \A k \in keys :
         \/ Shown(k, o) \in IF Folded(k, o) THEN Range(p.prefixes) ELSE Range(p.objects)
         \/ Before(p.last, k)
  BY <1>1 DEF Shows, NoneLost, IsOn
<1>. QED
  BY <1>2, <1>4, <1>5, <1>6 DEF IsExact, keys, heads, first

----------------------------------------------------------------------------
(***************************************************************************)
(* The pager.                                                              *)
(***************************************************************************)
\* What is left alone during a walk is sure to be found by it.
LeftAlone == phase = "walk" => lasting \subseteq sure

\* The client has seen k.
IsListed(k, o) == Shown(k, o) \in IF Folded(k, o) THEN folders ELSE listed

\* What the client has not seen is still ahead.
NothingLost ==
    LET o == listOptions(query, <<>>)
    IN \A k \in lasting \cap Meant(o) :
          IsListed(k, o) \/ (phase # "done" /\ k \in Meant(listOptions(query, token)))

NotAfter(k, t) == k = t \/ Before(k, t)

\* What it has seen is behind the marker; the empty key is no marker, and
\* comes only as a page of its own.
AllBehind ==
    LET o == listOptions(query, token)
    IN phase # "done" =>
          /\ token # <<>> =>
                /\ \A k \in listed : NotAfter(k, token)
                /\ \A c \in folders : \E k \in KeyNames :
                      Folded(k, o) /\ c = Shown(k, o) /\ NotAfter(k, token)
          /\ token = <<>> =>
                listed \subseteq {<<>>} /\ folders = {} /\ (listed # {} => Room(o) = 1)

ListInv == ListTypeOK /\ PagesAreExact /\ LeftAlone /\ NothingLost /\ AllBehind

\* The options of a request.
LEMMA OptionsOf ==
    ASSUME NEW q \in Queries, NEW t \in KeyNames \cup {<<>>}
    PROVE  LET o == listOptions(q, t)
           IN /\ o \in Options
              /\ o.prefix = q.prefix /\ o.delimiter = q.delimiter
              /\ o.marker = IF t = <<>> THEN q.start ELSE t
              /\ Room(o) = IF q.maxKeys \in 1..PageLimit THEN q.maxKeys ELSE PageLimit
<1> DEFINE o == listOptions(q, t)
<1>1. /\ q.prefix \in Strings /\ q.delimiter \in Strings /\ q.start \in Strings
      /\ t \in Strings
  BY KeysAreStrings, StringsAssumption DEF Queries, Strings
<1>2. PageLimit \in Nat \ {0}
  BY StringsAssumption
<1>3. parsedMaxKeys(q.maxKeys) \in 0..PageLimit
  BY <1>2 DEF parsedMaxKeys
<1>4. /\ o.prefix = q.prefix /\ o.delimiter = q.delimiter
      /\ o.marker = IF t = <<>> THEN q.start ELSE t
      /\ o.maxKeys = parsedMaxKeys(q.maxKeys)
  BY DEF listOptions
<1>5. o \in Options
  BY <1>1, <1>3 DEF listOptions, Options
<1>6. Room(o) = IF q.maxKeys \in 1..PageLimit THEN q.maxKeys ELSE PageLimit
  BY <1>2, <1>4 DEF Room, parsedMaxKeys
<1>. QED
  BY <1>4, <1>5, <1>6

\* A later request shows keys as the first one does, and has the same room.
LEMMA SameView ==
    ASSUME NEW q, NEW t, NEW u
    PROVE  /\ \A k : Folded(k, listOptions(q, t)) <=> Folded(k, listOptions(q, u))
           /\ \A k : Shown(k, listOptions(q, t)) = Shown(k, listOptions(q, u))
           /\ Room(listOptions(q, t)) = Room(listOptions(q, u))
<1> DEFINE o == listOptions(q, t)
           e == listOptions(q, u)
<1>1. o.prefix = e.prefix /\ o.delimiter = e.delimiter /\ o.maxKeys = e.maxKeys
  BY DEF listOptions
<1> HIDE DEF o, e
<1>2. \A k : Folders(k, o) = Folders(k, e)
  BY <1>1 DEF Folders
<1>3. ASSUME NEW k
      PROVE  (Folded(k, o) <=> Folded(k, e)) /\ Shown(k, o) = Shown(k, e)
  <2>1. Folders(k, o) = Folders(k, e)
    BY <1>2
  <2>2. Folded(k, o) <=> Folded(k, e)
    BY <2>1 DEF Folded
  <2>. QED
    BY <2>1, <2>2 DEF Shown
<1>4. Room(o) = Room(e)
  BY <1>1 DEF Room
<1>. QED
  BY <1>3, <1>4 DEF o, e

\* The empty key is before all others, and never in a folder.
LEMMA EmptyKey ==
    ASSUME NEW s \in Strings
    PROVE  /\ ~Before(s, <<>>)
           /\ s # <<>> => Before(<<>>, s)
           /\ \A o \in Options : ~Folded(<<>>, o)
<1>1. <<>> \in Strings /\ Len(<<>>) = 0
  BY DEF Strings
<1>2. ~Before(s, <<>>)
  <2>1. SUFFICES ASSUME NEW i \in Nat, BeforeAt(s, <<>>, i) PROVE FALSE
    BY <1>1, BeforeSomewhere
  <2>. QED
    BY <1>1, <2>1 DEF BeforeAt
<1>3. s # <<>> => Before(<<>>, s)
  BY <1>1, <1>2, BeforeTotal
<1>4. ASSUME NEW o \in Options, Folded(<<>>, o)
      PROVE  FALSE
  <2> DEFINE c == Shown(<<>>, o)
  <2>1. c \in Strings /\ IsPrefix(c, <<>>) /\ IsFolder(c, o)
    BY <1>1, <1>4, ShownIs
  <2> HIDE DEF c
  <2> DEFINE n == Len(c)
             a == Len(o.prefix)
             b == Len(o.delimiter)
  <2>2. n <= 0
    BY <1>1, <2>1, PrefixBytes
  <2>3. n \in Nat /\ a \in Nat /\ n >= a + b
    BY <2>1 DEF IsFolder, Options, Strings
  <2>4. b \in Nat /\ b # 0
    <3>1. o.delimiter \in Seq(Nat) /\ o.delimiter # <<>>
      BY <2>1 DEF IsFolder, Options, Strings
    <3>. QED
      BY <3>1, EmptySeq
  <2> HIDE DEF n, a, b
  <2>. QED
    BY <2>2, <2>3, <2>4
<1>. QED
  BY <1>2, <1>3, <1>4

\* An answer is a page of keys that include the sure ones.
LEMMA AnswerPage ==
    ASSUME ListTypeOK, Answer
    PROVE  LET o == listOptions(query, token)
           IN /\ o \in Options
              /\ \E keys : /\ sure \subseteq keys
                           /\ made' = [keys |-> keys, options |-> o]
                           /\ PageOf(page', o, keys \cap Meant(o))
<1> DEFINE o == listOptions(query, token)
<1>1. o \in Options
  BY OptionsOf DEF ListTypeOK
<1>2. PICK keys \in SUBSET found :
         /\ sure \subseteq keys
         /\ made' = [keys |-> keys, options |-> o]
         /\ page' = ListObjects(keys, made'.options)
  BY DEF Answer
<1>3. page' = ListObjects(keys, o)
  BY <1>2
<1> HIDE DEF o
<1>4. PageOf(page', o, keys \cap Meant(o))
  BY <1>1, <1>3, ListObjectsPage
<1>. QED
  BY <1>1, <1>2, <1>4 DEF o

\* A page of all keys of the query is what PagesAreExact says.
LEMMA AnswerExact ==
    ASSUME ListTypeOK, Answer
    PROVE  PagesAreExact'
<1> DEFINE o == listOptions(query, token)
<1>1. o \in Options
  BY AnswerPage
<1>2. PICK all : made' = [keys |-> all, options |-> o] /\ PageOf(page', o, all \cap Meant(o))
  BY AnswerPage
<1>3. /\ made'.options = o /\ made'.keys = all /\ query' = query
      /\ Room(o) = IF query.maxKeys \in 1..PageLimit THEN query.maxKeys ELSE PageLimit
  BY <1>2, OptionsOf DEF ListTypeOK, Answer
<1> HIDE DEF o
<1>4. IsExact(page', all, o, Room(o))
  BY <1>1, <1>2, PageIsExact
<1>. QED
  BY <1>3, <1>4 DEF PagesAreExact

\* A key that was left alone is seen on this page, or later.
LEMMA AnswerLoses ==
    ASSUME ListInv, Answer
    PROVE  NothingLost'
<1> DEFINE first == listOptions(query, <<>>)
           o == listOptions(query, token)
           next == listOptions(query, token')
<1>1. PICK keys : sure \subseteq keys /\ PageOf(page', o, keys \cap Meant(o))
  BY AnswerPage DEF ListInv
<1>2. PICK T : Shows(page', o, keys \cap Meant(o), T)
  BY <1>1 DEF PageOf
<1>3. /\ query' = query /\ lasting' = lasting /\ phase = "walk"
      /\ token' = NextMarker(page')
      /\ phase' = IF page'.truncated THEN "ask" ELSE "done"
      /\ listed' = listed \cup Range(page'.objects)
      /\ folders' = folders \cup Range(page'.prefixes)
  BY DEF Answer
<1>4. lasting \subseteq keys
  BY <1>1, <1>3 DEF ListInv, LeftAlone
<1>5. /\ \A k : Folded(k, o) <=> Folded(k, first)
      /\ \A k : Shown(k, o) = Shown(k, first)
  BY SameView
<1>6. ASSUME NEW k \in lasting, k \in Meant(first)
      PROVE  IsListed(k, first)' \/ (phase' # "done" /\ k \in Meant(next))
  <2>1. IsListed(k, first) \/ k \in Meant(o)
    BY <1>6 DEF ListInv, NothingLost
  <2>2. CASE IsListed(k, first)
    <3>1. Shown(k, first) \in IF Folded(k, first) THEN folders' ELSE listed'
      BY <1>3, <2>2 DEF IsListed
    <3>. QED
      BY <1>3, <3>1 DEF IsListed
  <2>3. CASE k \in Meant(o)
    <3>1. IsOn(k, o, page') \/ (page'.truncated /\ Before(page'.last, k))
      BY <1>2, <1>4, <1>6, <2>3 DEF Shows, NoneLost
    <3>2. CASE IsOn(k, o, page')
      <4>1. Shown(k, first) \in IF Folded(k, first) THEN Range(page'.prefixes)
                                                    ELSE Range(page'.objects)
        BY <1>5, <3>2 DEF IsOn
      <4>2. Shown(k, first) \in IF Folded(k, first) THEN folders' ELSE listed'
        BY <1>3, <4>1
      <4>. QED
        BY <1>3, <4>2 DEF IsListed
    <3>3. CASE page'.truncated /\ Before(page'.last, k)
      <4>1. phase' # "done" /\ token' = page'.last
        BY <1>3, <3>3 DEF NextMarker
      <4>2. /\ next.prefix = first.prefix
            /\ next.marker = IF token' = <<>> THEN first.marker ELSE token'
        BY DEF listOptions
      <4>3. /\ k \in KeyNames /\ IsPrefix(first.prefix, k)
            /\ first.marker = <<>> \/ Before(first.marker, k)
        BY <1>6 DEF Meant
      <4> HIDE DEF next, first
      <4>4. k \in Meant(next)
        BY <3>3, <4>1, <4>2, <4>3 DEF Meant
      <4>. QED
        BY <4>1, <4>4
    <3>. QED
      BY <3>1, <3>2, <3>3
  <2>. QED
    BY <2>1, <2>2, <2>3
<1>. QED
  BY <1>3, <1>6 DEF NothingLost

\* All that is seen is behind the marker.
LEMMA AnswerBehind ==
    ASSUME ListInv, Answer
    PROVE  AllBehind'
<1> DEFINE o == listOptions(query, token)
           next == listOptions(query, token')
<1>1. o \in Options /\ \E keys : PageOf(page', o, keys \cap Meant(o))
  BY AnswerPage DEF ListInv
<1>2. PICK keys : PageOf(page', o, keys \cap Meant(o))
  BY <1>1
<1>3. PICK T : Shows(page', o, keys \cap Meant(o), T)
  BY <1>2 DEF PageOf
<1>4. /\ query' = query /\ phase = "walk"
      /\ token' = NextMarker(page')
      /\ phase' = IF page'.truncated THEN "ask" ELSE "done"
      /\ listed' = listed \cup Range(page'.objects)
      /\ folders' = folders \cup Range(page'.prefixes)
  BY DEF Answer
<1>5. /\ \A k : Folded(k, o) <=> Folded(k, next)
      /\ \A k : Shown(k, o) = Shown(k, next)
      /\ Room(o) = Room(next)
  BY SameView
<1>6. /\ token # <<>> =>
            /\ \A k \in listed : NotAfter(k, token)
            /\ \A c \in folders : \E k \in KeyNames :
                  Folded(k, o) /\ c = Shown(k, o) /\ NotAfter(k, token)
      /\ token = <<>> =>
            listed \subseteq {<<>>} /\ folders = {} /\ (listed # {} => Room(o) = 1)
  BY <1>4 DEF ListInv, AllBehind
<1>7. /\ query \in Queries /\ token \in KeyNames \cup {<<>>} /\ listed \subseteq KeyNames
      /\ o.marker = IF token = <<>> THEN query.start ELSE token
  BY OptionsOf DEF ListInv, ListTypeOK
<1> HIDE DEF o, next
<1>8. SUFFICES ASSUME page'.truncated
               PROVE  /\ token' # <<>> =>
                            /\ \A k \in listed' : NotAfter(k, token')
                            /\ \A c \in folders' : \E k \in KeyNames :
                                  Folded(k, next) /\ c = Shown(k, next) /\ NotAfter(k, token')
                      /\ token' = <<>> =>
                            /\ listed' \subseteq {<<>>} /\ folders' = {}
                            /\ listed' # {} => Room(next) = 1
  BY <1>4 DEF AllBehind, NotAfter, next
<1>9. /\ T \subseteq KeyNames \cap Meant(o) /\ T # {} /\ Cardinality(T) = Room(o)
      /\ page'.last \in T /\ \A k \in T : NotAfter(k, page'.last)
      /\ Range(page'.objects) = {k \in T : ~Folded(k, o)}
      /\ Range(page'.prefixes) = {Shown(k, o) : k \in {j \in T : Folded(j, o)}}
  BY <1>1, <1>3, <1>8, RoomIs, FS_EmptySet
     DEF Shows, FirstHeads, Heads, Fits, MarksLast, Entries, NotAfter, Meant
<1>10. /\ token' = page'.last /\ token' \in KeyNames /\ token' \in Strings
       /\ o.marker = <<>> \/ Before(o.marker, token')
  BY <1>4, <1>8, <1>9, KeysAreStrings DEF NextMarker, Meant
<1>11. CASE token' # <<>>
  <2>1. ASSUME NEW k \in KeyNames, token # <<>>, NotAfter(k, token)
        PROVE  NotAfter(k, token')
    <3>1. Before(token, token') /\ token \in Strings /\ k \in Strings
      BY <1>7, <1>10, <2>1, KeysAreStrings
    <3>. QED
      BY <1>10, <2>1, <3>1, BeforeTransitive DEF NotAfter
  <2>2. NotAfter(<<>>, token')
    BY <1>10, <1>11, EmptyKey DEF NotAfter
  <2>3. ASSUME NEW k \in listed' PROVE NotAfter(k, token')
    <3>1. CASE k \in Range(page'.objects)
      BY <1>9, <1>10, <3>1
    <3>2. CASE k \in listed /\ token # <<>>
      BY <1>6, <1>7, <2>1, <3>2
    <3>3. CASE k \in listed /\ token = <<>>
      BY <1>6, <2>2, <3>3
    <3>. QED
      BY <1>4, <2>3, <3>1, <3>2, <3>3
  <2>4. ASSUME NEW c \in folders'
        PROVE  \E k \in KeyNames : Folded(k, next) /\ c = Shown(k, next) /\ NotAfter(k, token')
    <3>1. CASE c \in Range(page'.prefixes)
      <4>1. PICK k \in T : Folded(k, o) /\ c = Shown(k, o)
        BY <1>9, <3>1
      <4>. QED
        BY <1>5, <1>9, <1>10, <4>1
    <3>2. CASE c \in folders
      <4>1. token # <<>>
        BY <1>6, <3>2
      <4>2. PICK k \in KeyNames : Folded(k, o) /\ c = Shown(k, o) /\ NotAfter(k, token)
        BY <1>6, <3>2, <4>1
      <4>. QED
        BY <1>5, <2>1, <4>1, <4>2
    <3>. QED
      BY <1>4, <2>4, <3>1, <3>2
  <2>. QED
    BY <1>11, <2>3, <2>4
<1>12. CASE token' = <<>>
  <2>1. o.marker = <<>>
    <3>1. o.marker \in Strings
      BY <1>1 DEF Options
    <3>. QED
      BY <1>10, <1>12, <3>1, EmptyKey
  <2>2. token = <<>>
    BY <1>7, <2>1
  <2>3. T = {<<>>}
    <3>1. \A k \in T : k = <<>>
      BY <1>9, <1>10, <1>12, KeysAreStrings, EmptyKey DEF NotAfter
    <3>. QED
      BY <1>9, <3>1
  <2>4. Range(page'.objects) \subseteq {<<>>} /\ Range(page'.prefixes) = {}
    <3>1. ~Folded(<<>>, o)
      BY <1>1, <1>10, EmptyKey
    <3>. QED
      BY <1>9, <2>3, <3>1
  <2>5. Room(next) = 1
    BY <1>5, <1>9, <2>3, FS_Singleton
  <2>. QED
    BY <1>4, <1>6, <1>12, <2>2, <2>4, <2>5
<1>. QED
  BY <1>11, <1>12

\* A page shows no key again, but for the empty one, and no common prefix but
\* that which the page before ended in.
LEMMA AnswerRepeats ==
    ASSUME ListInv, Answer
    PROVE  /\ \A k \in Range(page'.objects) \cap listed :
                 k = <<>> /\ Range(page'.objects) \cup Range(page'.prefixes) = {k}
           /\ \A c \in Range(page'.prefixes) \cap folders :
                 c = Head(page'.prefixes) /\ IsPrefix(c, token)
<1> DEFINE o == listOptions(query, token)
<1>1. o \in Options /\ \E keys : PageOf(page', o, keys \cap Meant(o))
  BY AnswerPage DEF ListInv
<1>2. PICK keys : PageOf(page', o, keys \cap Meant(o))
  BY <1>1
<1>3. PICK T : Shows(page', o, keys \cap Meant(o), T)
  BY <1>2 DEF PageOf
<1>4. /\ page'.prefixes \in Seq(Strings) /\ Ascending(page'.prefixes)
  BY <1>2 DEF PageOf, Pages
<1>5. phase = "walk"
  BY DEF Answer
<1>6. /\ token # <<>> =>
            /\ \A k \in listed : NotAfter(k, token)
            /\ \A c \in folders : \E k \in KeyNames :
                  Folded(k, o) /\ c = Shown(k, o) /\ NotAfter(k, token)
      /\ token = <<>> =>
            listed \subseteq {<<>>} /\ folders = {} /\ (listed # {} => Room(o) = 1)
  BY <1>5 DEF ListInv, AllBehind
<1>7. /\ token \in KeyNames \cup {<<>>} /\ token \in Strings
      /\ token # <<>> => o.marker = token
  BY KeysAreStrings, OptionsOf DEF ListInv, ListTypeOK
<1> HIDE DEF o
<1>8. /\ T \subseteq KeyNames \cap Meant(o)
      /\ IsFiniteSet(T) /\ Cardinality(T) <= Room(o)
      /\ Range(page'.objects) = {k \in T : ~Folded(k, o)}
      /\ Range(page'.prefixes) = {Shown(k, o) : k \in {j \in T : Folded(j, o)}}
  BY <1>3 DEF Shows, FirstHeads, Heads, Fits, Entries, Meant
<1>9. ASSUME token # <<>>, NEW k \in T
      PROVE  k \in Strings /\ Before(token, k)
  BY <1>7, <1>8, <1>9, KeysAreStrings DEF Meant
<1>10. ASSUME NEW k \in Range(page'.objects) \cap listed
       PROVE  k = <<>> /\ Range(page'.objects) \cup Range(page'.prefixes) = {k}
  <2>1. k \in T /\ ~Folded(k, o)
    BY <1>8, <1>10
  <2>2. token = <<>>
    <3>1. SUFFICES ASSUME token # <<>> PROVE FALSE
      OBVIOUS
    <3>2. NotAfter(k, token) /\ Before(token, k) /\ k \in Strings
      BY <1>6, <1>9, <1>10, <2>1, <3>1
    <3>. QED
      BY <1>7, <3>2, BeforeIrreflexive, BeforeTransitive DEF NotAfter
  <2>3. k = <<>> /\ Room(o) = 1
    BY <1>6, <1>10, <2>2
  <2>4. T = {k}
    <3>1. {k} \subseteq T /\ Cardinality({k}) = 1 /\ IsFiniteSet({k})
      BY <2>1, FS_Singleton
    <3>2. Cardinality(T) \in Nat /\ Cardinality({k}) <= Cardinality(T)
      BY <1>8, <3>1, FS_CardinalityType, FS_Subset
    <3>3. Cardinality(T) = Cardinality({k})
      BY <1>8, <2>3, <3>1, <3>2
    <3>. QED
      BY <1>8, <3>1, <3>3, FS_Subset
  <2>. QED
    BY <1>8, <2>1, <2>3, <2>4
<1>11. ASSUME NEW c \in Range(page'.prefixes) \cap folders
       PROVE  c = Head(page'.prefixes) /\ IsPrefix(c, token)
  <2>1. token # <<>>
    BY <1>6, <1>11
  <2>2. PICK j \in KeyNames : Folded(j, o) /\ c = Shown(j, o) /\ NotAfter(j, token)
    BY <1>6, <1>11, <2>1
  <2>3. PICK k \in T : Folded(k, o) /\ c = Shown(k, o)
    BY <1>8, <1>11
  <2>4. /\ j \in Strings /\ k \in Strings /\ Before(token, k)
        /\ c \in Strings /\ IsPrefix(c, j) /\ IsPrefix(c, k)
    BY <1>9, <2>1, <2>2, <2>3, KeysAreStrings, ShownIs
  <2>5. IsPrefix(c, token)
    BY <1>7, <2>2, <2>4, Between DEF NotAfter
  <2>6. c = Head(page'.prefixes)
    <3> DEFINE s == page'.prefixes
               d == s[1]
    <3>1. PICK i \in DOMAIN s : c = s[i]
      BY <1>11 DEF Range
    <3>2. Len(s) \in Nat /\ DOMAIN s = 1..Len(s)
      BY <1>4
    <3>3. 1 \in DOMAIN s /\ i \in Nat /\ i >= 1
      BY <3>1, <3>2
    <3>4. Head(s) = d
      BY <1>4, <3>2, <3>3
    <3>5. SUFFICES ASSUME i # 1 PROVE FALSE
      BY <3>1, <3>4
    <3>6. 1 < i
      BY <3>3, <3>5
    <3>7. Before(d, c)
      BY <1>4, <3>1, <3>3, <3>6 DEF Ascending
    <3>8. d \in Range(s)
      BY <3>3 DEF Range
    <3>9. PICK h \in T : Folded(h, o) /\ d = Shown(h, o)
      BY <1>8, <3>8
    <3> HIDE DEF d, s
    <3>10. /\ h \in Strings /\ Before(token, h)
           /\ d \in Strings /\ IsPrefix(d, h)
      BY <1>9, <2>1, <3>9, ShownIs
    <3>11. d # c
      BY <2>4, <3>7, BeforeIrreflexive
    <3>12. Before(h, k)
      <4>1. h # k
        BY <2>3, <3>9, <3>11
      <4>2. ~Before(k, h)
        <5>1. SUFFICES ASSUME Before(k, h) PROVE FALSE
          OBVIOUS
        <5>2. Before(c, d)
          BY <2>3, <2>4, <3>9, <3>10, <3>11, <5>1, FoldersInOrder
        <5>. QED
          BY <2>4, <3>7, <3>10, <5>2, BeforeIrreflexive, BeforeTransitive
      <4>. QED
        BY <2>4, <3>10, <4>1, <4>2, BeforeTotal
    <3>13. ~IsPrefix(d, c)
      BY <2>3, <2>4, <3>9, <3>10, <3>11, <3>12, FoldersInOrder
    <3>14. Before(h, token)
      BY <1>7, <2>4, <2>5, <3>7, <3>10, <3>13, Beginnings
    <3>. QED
      BY <1>7, <3>10, <3>14, BeforeIrreflexive, BeforeTransitive
  <2>. QED
    BY <2>5, <2>6
<1>. QED
  BY <1>10, <1>11

\* The marker is a key or empty, and only keys are listed.
LEMMA AnswerTypes ==
    ASSUME ListTypeOK, Answer
    PROVE  ListTypeOK'
<1> DEFINE o == listOptions(query, token)
<1>1. PICK keys : PageOf(page', o, keys \cap Meant(o))
  BY AnswerPage
<1>2. page' \in Pages
  BY <1>1 DEF PageOf
<1>3. /\ page'.last \in KeyNames \cup {<<>>}
      /\ Range(page'.objects) \subseteq KeyNames
  BY <1>2 DEF Pages, Range
<1>4. token' \in KeyNames \cup {<<>>}
  BY <1>3 DEF Answer, NextMarker
<1>5. listed' \subseteq KeyNames
  BY <1>3 DEF Answer, ListTypeOK
<1>. QED
  BY <1>4, <1>5 DEF Answer, ListTypeOK

----------------------------------------------------------------------------
(***************************************************************************)
(* The theorems.                                                           *)
(***************************************************************************)
\* Nothing is asked for at first.
LEMMA InitList ==
    ASSUME Init
    PROVE  ListInv
<1>1. ListTypeOK
  BY DEF Init, ListTypeOK
<1>2. PagesAreExact /\ LeftAlone
  BY DEF Init, PagesAreExact, LeftAlone
<1>3. NothingLost
  BY DEF Init, NothingLost
<1>4. AllBehind
  BY DEF Init, AllBehind
<1>. QED
  BY <1>1, <1>2, <1>3, <1>4 DEF ListInv

\* The others only take keys out of those left alone.
LEMMA OthersKeep ==
    ASSUME ListInv, NEW k \in Volatile, Put(k) \/ Delete(k)
    PROVE  ListInv'
<1>1. k \in KeyNames
  BY StringsAssumption
<1>2. /\ lasting' \subseteq lasting /\ sure' = sure \ {k}
      /\ phase = "walk" => lasting' = lasting \ {k}
      /\ UNCHANGED <<query, token, phase, found, page, made, listed, folders>>
  BY DEF Put, Delete
<1>3. ListTypeOK'
  BY <1>1 DEF ListInv, ListTypeOK, Put, Delete
<1>4. PagesAreExact'
  BY <1>2 DEF ListInv, PagesAreExact
<1>5. LeftAlone'
  BY <1>2 DEF ListInv, LeftAlone
<1>6. NothingLost'
  BY <1>2 DEF ListInv, NothingLost, IsListed
<1>7. AllBehind'
  BY <1>2 DEF ListInv, AllBehind
<1>. QED
  BY <1>3, <1>4, <1>5, <1>6, <1>7 DEF ListInv

\* A walk begins with all keys there are.
LEMMA AskKeeps ==
    ASSUME ListInv, Ask
    PROVE  ListInv'
<1>1. ListTypeOK'
  BY DEF ListInv, ListTypeOK, Ask
<1>2. PagesAreExact'
  BY DEF Ask, PagesAreExact
<1>3. LeftAlone'
  BY DEF ListInv, ListTypeOK, LeftAlone, Ask
<1>4. NothingLost'
  BY DEF ListInv, NothingLost, IsListed, Ask
<1>5. AllBehind'
  BY DEF ListInv, AllBehind, Ask
<1>. QED
  BY <1>1, <1>2, <1>3, <1>4, <1>5 DEF ListInv

\* So does an answer.
LEMMA AnswerKeeps ==
    ASSUME ListInv, Answer
    PROVE  ListInv'
<1>1. ListTypeOK' /\ PagesAreExact'
  BY AnswerTypes, AnswerExact DEF ListInv
<1>2. LeftAlone'
  BY DEF LeftAlone, Answer
<1>. QED
  BY <1>1, <1>2, AnswerLoses, AnswerBehind DEF ListInv

\* ListInv holds at first and is kept by every step.
LEMMA NextList ==
    ASSUME ListInv, [Next]_listVars
    PROVE  ListInv'
<1>1. CASE Ask
  BY <1>1, AskKeeps
<1>2. CASE Answer
  BY <1>2, AnswerKeeps
<1>3. CASE \E k \in Volatile : Put(k) \/ Delete(k)
  BY <1>3, OthersKeep
<1>4. CASE UNCHANGED listVars
  BY <1>4 DEF listVars, ListInv, ListTypeOK, PagesAreExact, LeftAlone, NothingLost, IsListed,
              AllBehind
<1>. QED
  BY <1>1, <1>2, <1>3, <1>4 DEF Next

\* What a client has seen, what it has still to see, and the last page are
\* related as ListInv says, whoever writes and deletes in between.
THEOREM ListInvariant == Spec => []ListInv
<1>1. Init => ListInv
  BY InitList
<1>2. ListInv /\ [Next]_listVars => ListInv'
  BY NextList
<1>. QED
  BY <1>1, <1>2, PTL DEF Spec

\* The markers are keys, and no more is listed than keys.
THEOREM ListTypeOKCorrect == Spec => []ListTypeOK
<1>1. ListInv => ListTypeOK
  BY DEF ListInv
<1>. QED
  BY <1>1, ListInvariant, PTL

\* What the loop of ListObjects makes is the page that a definition without a
\* loop gives, for any keys, prefix, delimiter, marker and number.
THEOREM PagesAreExactCorrect == Spec => []PagesAreExact
<1>1. ListInv => PagesAreExact
  BY DEF ListInv
<1>. QED
  BY <1>1, ListInvariant, PTL

\* A client that follows the markers to the end has seen every key that was
\* there and left alone, or a common prefix of it.
THEOREM NothingIsMissedCorrect == Spec => []NothingIsMissed
<1>1. ListInv => NothingIsMissed
  BY DEF ListInv, NothingLost, IsListed, NothingIsMissed
<1>. QED
  BY <1>1, ListInvariant, PTL

\* It has seen no key twice but the empty one, and a common prefix only where
\* a page ended in it.
THEOREM NothingIsRepeatedCorrect == Spec => NothingIsRepeated
<1>1. ASSUME ListInv, [Next]_listVars, phase = "walk", phase' # "walk"
      PROVE  /\ \A k \in Range(page'.objects) \cap listed :
                   k = <<>> /\ Range(page'.objects) \cup Range(page'.prefixes) = {k}
             /\ \A c \in Range(page'.prefixes) \cap folders :
                   c = Head(page'.prefixes) /\ IsPrefix(c, token)
  <2>1. Answer
    BY <1>1 DEF Next, Ask, Put, Delete, listVars
  <2>. QED
    BY <1>1, <2>1, AnswerRepeats
<1>2. ListInv /\ [Next]_listVars =>
         [phase = "walk" /\ phase' # "walk" =>
             /\ \A k \in Range(page'.objects) \cap listed :
                   k = <<>> /\ Range(page'.objects) \cup Range(page'.prefixes) = {k}
             /\ \A c \in Range(page'.prefixes) \cap folders :
                   c = Head(page'.prefixes) /\ IsPrefix(c, token)]_listVars
  BY <1>1
<1>. QED
  BY <1>2, ListInvariant, PTL DEF Spec, NothingIsRepeated

=============================================================================
