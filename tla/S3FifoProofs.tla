----------------------------- MODULE S3FifoProofs -----------------------------
(***************************************************************************)
(* Theorems about S3Fifo, for any keys, hashes, charges, budgets and table *)
(* sizes: index, queues, entries and ghosts agree, eviction reaches the    *)
(* budget unless pins stand in its way, and it never takes a pinned entry. *)
(***************************************************************************)
EXTENDS S3Fifo, TLAPS, FiniteSetTheorems, FunctionTheorems, SequenceTheorems

-----------------------------------------------------------------------------
(* Numbers and iteration *)

\* A set with zero and with the successor of each of its numbers has them all.
LEMMA NatSetInduction ==
    ASSUME NEW S, 0 \in S, \A n \in Nat : n \in S => n + 1 \in S
    PROVE  Nat \subseteq S
<1> SUFFICES ASSUME NEW n \in Nat, n \notin S PROVE FALSE
  OBVIOUS
<1> DEFINE T == {i \in 0..n : i \in S}
           f == [i \in T |-> i + 1]
<1>1. IsFiniteSet(T)
  BY FS_Interval, FS_Subset, T \in SUBSET (0..n), 0 \in Int, n \in Int
<1>2. 0 \in T
  OBVIOUS
<1>3. IsFiniteSet(T \ {0}) /\ Cardinality(T \ {0}) = Cardinality(T) - 1
  BY <1>1, <1>2, FS_RemoveElement
<1>4. \A i \in T : i + 1 \in T \ {0}
  <2> TAKE i \in T
  <2>1. i \in Nat /\ i \in S /\ i # n /\ i <= n
    OBVIOUS
  <2>2. i + 1 \in S /\ i + 1 \in 0..n /\ i + 1 # 0
    BY <2>1
  <2> QED BY <2>2
<1>5. f \in Injection(T, T \ {0})
  <2>1. f \in [T -> T \ {0}]
    BY <1>4
  <2>2. \A i, j \in T : f[i] = f[j] => i = j
    OBVIOUS
  <2> HIDE DEF f, T
  <2> QED BY <2>1, <2>2 DEF Injection, IsInjective
<1>6. Cardinality(T) <= Cardinality(T \ {0})
  BY <1>3, <1>5, FS_Injection
<1>7. Cardinality(T) \in Nat
  BY <1>1, FS_CardinalityType
<1> QED BY <1>3, <1>6, <1>7

\* A set of numbers that is not empty has a least one.
LEMMA LeastOf ==
    ASSUME NEW S \in SUBSET Nat, S # {}
    PROVE  \E n \in S : \A m \in S : n <= m
<1> SUFFICES ASSUME \A n \in S : \E m \in S : m < n PROVE FALSE
  OBVIOUS
<1> DEFINE T == {n \in Nat : \A m \in S : n < m}
<1>1. 0 \in T
  OBVIOUS
<1>2. ASSUME NEW n \in Nat, n \in T PROVE n + 1 \in T
  <2> SUFFICES ASSUME NEW m \in S PROVE n + 1 < m
    OBVIOUS
  <2>1. PICK l \in S : l < m
    OBVIOUS
  <2>2. n < l /\ l \in Nat /\ m \in Nat
    BY <1>2
  <2> QED BY <2>1, <2>2
<1>3. Nat \subseteq T
  <2> HIDE DEF T
  <2> QED BY <1>1, <1>2, NatSetInduction
<1>4. PICK n \in S : n \in Nat
  OBVIOUS
<1> QED BY <1>3, <1>4

\* f goes through N steps of g in A.
Run(A, N, base, g, f) ==
    /\ f \in [0..N -> A] /\ f[0] = base
    /\ \A n \in 1..N : f[n] = g[f[n-1]][n]

\* A step that is a function of a set A and of the number of the step can be
\* iterated: the recursive functions of the model exist.
LEMMA Iterates ==
    ASSUME NEW A, NEW N \in Nat, NEW base \in A, NEW g \in [A -> [Nat -> A]]
    PROVE  \E f : Run(A, N, base, g, f)
<1> DEFINE Runs(n, f) == f[0] = base /\ \A i \in 1..n : f[i] = g[f[i-1]][i]
           T == {n \in Nat : \E f \in [0..n -> A] : Runs(n, f)}
<1>1. 0 \in T
  <2>1. [i \in 0..0 |-> base] \in [0..0 -> A] /\ Runs(0, [i \in 0..0 |-> base])
    OBVIOUS
  <2> QED BY <2>1
<1>2. \A n \in Nat : n \in T => n + 1 \in T
  <2> SUFFICES ASSUME NEW n \in Nat, NEW f \in [0..n -> A], Runs(n, f)
               PROVE  n + 1 \in T
    OBVIOUS
  <2>1. PICK x \in A : x = g[f[n]][n + 1]
    OBVIOUS
  <2>2. PICK h : h = [i \in 0..n+1 |-> IF i = n + 1 THEN x ELSE f[i]]
    OBVIOUS
  <2>3. h \in [0..n+1 -> A]
    BY <2>2
  <2>4. h[0] = base
    BY <2>2
  <2>5. ASSUME NEW i \in 1..n+1 PROVE h[i] = g[h[i-1]][i]
    <3>1. CASE i = n + 1
      <4>1. h[i] = x /\ h[i-1] = f[n]
        BY <2>2, <3>1
      <4> QED BY <2>1, <3>1, <4>1
    <3>2. CASE i # n + 1
      <4>1. i \in 1..n /\ h[i] = f[i] /\ h[i-1] = f[i-1]
        BY <2>2, <3>2
      <4> QED BY <4>1
    <3> QED BY <3>1, <3>2
  <2>6. Runs(n + 1, h)
    BY <2>4, <2>5
  <2> HIDE DEF Runs
  <2> QED BY <2>3, <2>6
<1>3. N \in T
  <2> HIDE DEF T
  <2> QED BY <1>1, <1>2, NatSetInduction
<1>4. PICK f \in [0..N -> A] : Runs(N, f)
  BY <1>3
<1>5. Run(A, N, base, g, f)
  BY <1>4 DEF Run
<1> QED BY <1>5

-----------------------------------------------------------------------------
(* Slots *)

\* The slot d after a, around a table of c, and how far i is after a.
Wrap(c, a, d) == IF a + d < c THEN a + d ELSE a + d - c
Dist(c, a, i) == IF a <= i THEN i - a ELSE (i - a) + c

Home(t, k) == Hash[k] % t.cap

\* The remainder is the one number below c that differs by a multiple of it.
LEMMA Remainder ==
    ASSUME NEW c \in Nat \ {0}, NEW q \in Nat, NEW r \in 0..c-1
    PROVE  (c * q + r) % c = r
OBVIOUS

\* Probing d slots on from a hash is going d slots on from its home.
LEMMA ModSlot ==
    ASSUME NEW c \in Nat \ {0}, NEW h \in Nat, NEW d \in 0..c-1
    PROVE  h % c \in 0..c-1 /\ (h + d) % c = Wrap(c, h % c, d)
<1>1. PICK q \in Nat, r \in 0..c-1 : q = h \div c /\ r = h % c /\ h = c * q + r
  OBVIOUS
<1>2. CASE r + d < c
  <2>1. r + d \in 0..c-1 /\ h + d = c * q + (r + d)
    BY <1>1, <1>2
  <2>2. (c * q + (r + d)) % c = r + d
    BY <2>1, Remainder
  <2> QED BY <1>1, <1>2, <2>1, <2>2 DEF Wrap
<1>3. CASE ~(r + d < c)
  <2>1. PICK e \in 0..c-1 : e = (r + d) - c
    BY <1>3
  <2>2. c * (q + 1) = c * q + c
    OBVIOUS
  <2>3. h + d = c * (q + 1) + e
    BY <1>1, <2>1, <2>2
  <2>4. (c * (q + 1) + e) % c = e
    BY Remainder
  <2> QED BY <1>1, <1>3, <2>1, <2>3, <2>4 DEF Wrap
<1> QED BY <1>2, <1>3

\* Going on and measuring how far undo each other.
LEMMA WrapDist ==
    ASSUME NEW c \in Nat \ {0}, NEW a \in 0..c-1
    PROVE  /\ \A d \in 0..c-1 : Wrap(c, a, d) \in 0..c-1 /\ Dist(c, a, Wrap(c, a, d)) = d
           /\ \A i \in 0..c-1 : Dist(c, a, i) \in 0..c-1 /\ Wrap(c, a, Dist(c, a, i)) = i
BY DEF Wrap, Dist

-----------------------------------------------------------------------------
(* The index table *)

TablesOf(c) == [cap : {c}, slots : [0..c-1 -> Key \cup {NoKey}]]
Tables      == UNION {TablesOf(c) : c \in Nat}

KeysIn(t) == {t.slots[i] : i \in Held(t)}

\* Every key is in one slot, and no hole is between its home and that slot.
Probed(t) ==
    \A i \in Held(t), j \in 0..t.cap-1 :
        Dist(t.cap, Home(t, t.slots[i]), j) < Dist(t.cap, Home(t, t.slots[i]), i)
          => j \in Held(t)
Single(t) == \A i, j \in Held(t) : t.slots[i] = t.slots[j] => i = j

TableOK(t) == t \in Tables /\ Single(t) /\ Probed(t)

\* There is a hole.
Airy(t) == \E i \in 0..t.cap-1 : t.slots[i] = NoKey

\* What a table is made of.
LEMMA TableIs ==
    ASSUME NEW t \in Tables
    PROVE  /\ t.cap \in Nat /\ t.slots \in [0..t.cap-1 -> Key \cup {NoKey}]
           /\ Held(t) \subseteq 0..t.cap-1 /\ KeysIn(t) \subseteq Key
           /\ \A i \in 0..t.cap-1 : i \in Held(t) <=> t.slots[i] # NoKey
           /\ t \in TablesOf(t.cap)
BY DEF Tables, TablesOf, Held, KeysIn

\* A key's home is a slot.
LEMMA HomeIs ==
    ASSUME NEW t \in Tables, NEW k \in Key, t.cap # 0
    PROVE  /\ Home(t, k) \in 0..t.cap-1
           /\ \A d \in 0..t.cap-1 : Slot(t, Hash[k], d) = Wrap(t.cap, Home(t, k), d)
<1>1. PICK c \in Nat \ {0}, h \in Nat : c = t.cap /\ h = Hash[k]
  BY TableIs, Sizes
<1>2. 0 \in 0..c-1
  OBVIOUS
<1>3. h % c \in 0..c-1
  BY <1>2, ModSlot
<1>4. \A d \in 0..c-1 : (h + d) % c = Wrap(c, h % c, d)
  BY ModSlot
<1> QED BY <1>1, <1>3, <1>4 DEF Home, Slot

\* find finds what is in the table.
LEMMA FindIs ==
    ASSUME NEW t, TableOK(t), NEW k \in Key
    PROVE  Find(t, k) <=> k \in KeysIn(t)
<1>0. t \in Tables /\ t.cap \in Nat /\ k # NoKey
  BY TableIs, Sizes DEF TableOK
<1>1. ASSUME Find(t, k) PROVE k \in KeysIn(t)
  <2>1. PICK d \in 0..t.cap-1 : t.slots[Slot(t, Hash[k], d)] = k
    BY <1>1 DEF Find
  <2>2. t.cap \in Nat \ {0}
    BY <1>0, <2>1
  <2>3. Slot(t, Hash[k], d) \in 0..t.cap-1
    BY <1>0, <2>2, HomeIs, WrapDist
  <2> QED BY <1>0, <2>1, <2>3, TableIs DEF KeysIn
<1>2. ASSUME k \in KeysIn(t) PROVE Find(t, k)
  <2>1. PICK i \in Held(t) : t.slots[i] = k
    BY <1>2 DEF KeysIn
  <2>2. i \in 0..t.cap-1 /\ t.cap \in Nat \ {0}
    BY <1>0, TableIs
  <2>3. PICK a \in 0..t.cap-1 : a = Home(t, k)
    BY <1>0, <2>2, HomeIs
  <2>4. PICK d \in 0..t.cap-1 : d = Dist(t.cap, a, i)
    BY <2>2, <2>3, WrapDist
  <2>5. Slot(t, Hash[k], d) = i
    BY <1>0, <2>2, <2>3, <2>4, HomeIs, WrapDist
  <2>6. ASSUME NEW e \in 0..d-1 PROVE t.slots[Slot(t, Hash[k], e)] # NoKey
    <3>0. e \in 0..t.cap-1
      BY <2>2, <2>4
    <3>1. PICK j \in 0..t.cap-1 : j = Wrap(t.cap, a, e) /\ Dist(t.cap, a, j) = e
      BY <2>2, <2>3, <3>0, WrapDist
    <3>2. j \in Held(t)
      BY <2>1, <2>3, <2>4, <3>1 DEF TableOK, Probed
    <3>3. Slot(t, Hash[k], e) = j
      BY <1>0, <2>2, <2>3, <2>4, <3>1, HomeIs
    <3> QED BY <1>0, <3>2, <3>3, TableIs
  <2> QED BY <2>1, <2>5, <2>6 DEF Find
<1> QED BY <1>1, <1>2

\* The slots that are held are as many as the keys.
LEMMA HeldCount ==
    ASSUME NEW t \in Tables, Single(t)
    PROVE  /\ IsFiniteSet(Held(t)) /\ IsFiniteSet(KeysIn(t))
           /\ Cardinality(KeysIn(t)) = Cardinality(Held(t))
           /\ Cardinality(Held(t)) \in Nat
<1>1. t.cap \in Nat /\ Held(t) \subseteq 0..t.cap-1
  BY TableIs
<1>2. IsFiniteSet(Held(t))
  <2>1. IsFiniteSet(0..t.cap-1)
    BY <1>1, FS_Interval, 0 \in Int, t.cap - 1 \in Int
  <2> QED BY <1>1, <2>1, FS_Subset
<1> DEFINE f == [i \in Held(t) |-> t.slots[i]]
<1>3. f \in Bijection(Held(t), KeysIn(t))
  <2>1. f \in [Held(t) -> KeysIn(t)]
    BY DEF KeysIn
  <2>2. \A i, j \in Held(t) : f[i] = f[j] => i = j
    BY DEF Single
  <2>3. \A k \in KeysIn(t) : \E i \in Held(t) : f[i] = k
    BY DEF KeysIn
  <2> HIDE DEF f
  <2> QED BY <2>1, <2>2, <2>3 DEF Bijection, Injection, Surjection, IsInjective
<1>4. Cardinality(KeysIn(t)) = Cardinality(Held(t)) /\ IsFiniteSet(KeysIn(t))
  BY <1>2, <1>3, FS_Bijection DEF ExistsBijection
<1> QED BY <1>2, <1>4, FS_CardinalityType

\* A table with fewer keys than slots has a hole, and the other way round.
LEMMA AiryIs ==
    ASSUME NEW t \in Tables, Single(t)
    PROVE  Airy(t) <=> Cardinality(Held(t)) < t.cap
<1>0. t.cap \in Nat /\ Held(t) \subseteq 0..t.cap-1
  BY TableIs
<1>1. IsFiniteSet(0..t.cap-1) /\ Cardinality(0..t.cap-1) = t.cap
  BY <1>0, FS_Interval
<1>2. Cardinality(Held(t)) <= t.cap
         /\ (Cardinality(Held(t)) = t.cap <=> Held(t) = 0..t.cap-1)
  BY <1>0, <1>1, FS_Subset
<1>3. Airy(t) <=> Held(t) # 0..t.cap-1
  BY <1>0, TableIs DEF Airy
<1> QED BY <1>0, <1>2, <1>3, HeldCount

-----------------------------------------------------------------------------
(* Insertion into the index *)

\* The first slot with x that a search for k meets, if there is one.
At(t, k, x) == Slot(t, Hash[k], Distance(t, Hash[k], x))

\* A search from a home meets every slot, so it meets a first one with x.
LEMMA FirstProbe ==
    ASSUME NEW t \in Tables, NEW k \in Key, NEW x,
           \E i \in 0..t.cap-1 : t.slots[i] = x
    PROVE  /\ At(t, k, x) \in 0..t.cap-1 /\ t.slots[At(t, k, x)] = x
           /\ \A j \in 0..t.cap-1 :
                Dist(t.cap, Home(t, k), j) < Dist(t.cap, Home(t, k), At(t, k, x))
                  => t.slots[j] # x
<1>1. PICK i \in 0..t.cap-1 : t.slots[i] = x
  OBVIOUS
<1>2. PICK c \in Nat \ {0} : c = t.cap
  BY <1>1, TableIs
<1>3. PICK a \in 0..c-1 : a = Home(t, k)
  BY <1>2, HomeIs
<1>4. \A d \in 0..c-1 : Slot(t, Hash[k], d) = Wrap(c, a, d)
  BY <1>2, <1>3, HomeIs
<1> DEFINE D == {d \in 0..c-1 : t.slots[Slot(t, Hash[k], d)] = x}
<1>5. Dist(c, a, i) \in D
  <2>0. i \in 0..c-1
    BY <1>1, <1>2
  <2>1. PICK e \in 0..c-1 : e = Dist(c, a, i) /\ Wrap(c, a, e) = i
    BY <2>0, WrapDist
  <2>2. Slot(t, Hash[k], e) = i
    BY <1>4, <2>1
  <2> QED BY <1>1, <2>1, <2>2
<1>6. PICK d \in D : \A e \in D : d <= e
  <2>1. D \subseteq Nat
    OBVIOUS
  <2> HIDE DEF D
  <2> QED BY <1>5, <2>1, LeastOf
<1>7. \A e \in 0..d-1 : t.slots[Slot(t, Hash[k], e)] # x
  BY <1>6
<1>8. PICK f \in 0..c-1 : /\ f = Distance(t, Hash[k], x)
                          /\ t.slots[Slot(t, Hash[k], f)] = x
                          /\ \A e \in 0..f-1 : t.slots[Slot(t, Hash[k], e)] # x
  BY <1>2, <1>6, <1>7 DEF Distance
<1>9. PICK at \in 0..c-1 : at = At(t, k, x) /\ at = Wrap(c, a, f) /\ Dist(c, a, at) = f
  BY <1>4, <1>8, WrapDist DEF At
<1>10. t.slots[at] = x
  BY <1>8, <1>9 DEF At
<1>11. ASSUME NEW j \in 0..c-1, Dist(c, a, j) < f PROVE t.slots[j] # x
  <2>1. PICK e \in 0..c-1 : e = Dist(c, a, j) /\ Wrap(c, a, e) = j
    BY WrapDist
  <2>2. e \in 0..f-1 /\ Slot(t, Hash[k], e) = j
    BY <1>4, <1>11, <2>1
  <2> QED BY <1>8, <2>2
<1> QED BY <1>2, <1>3, <1>9, <1>10, <1>11

\* place puts an absent key where its search ends.
LEMMA PlaceIs ==
    ASSUME NEW t, TableOK(t), Airy(t), NEW k \in Key, k \notin KeysIn(t)
    PROVE  /\ TableOK(Place(t, k)) /\ Place(t, k).cap = t.cap
           /\ KeysIn(Place(t, k)) = KeysIn(t) \cup {k}
<1>1. t \in Tables /\ t.cap \in Nat /\ k # NoKey
  BY TableIs, Sizes DEF TableOK
<1>2. PICK at \in 0..t.cap-1 :
         /\ at = At(t, k, NoKey) /\ t.slots[at] = NoKey
         /\ \A j \in 0..t.cap-1 :
              Dist(t.cap, Home(t, k), j) < Dist(t.cap, Home(t, k), at)
                => t.slots[j] # NoKey
  BY <1>1, FirstProbe DEF Airy
<1>3. PICK u : u = Place(t, k)
  OBVIOUS
<1>4. u = [cap |-> t.cap, slots |-> [t.slots EXCEPT ![at] = k]]
  BY <1>1, <1>2, <1>3, TableIs DEF Place, At, TablesOf
<1>5. u \in TablesOf(t.cap) /\ u \in Tables /\ u.cap = t.cap
  BY <1>1, <1>4, TableIs DEF TablesOf, Tables
<1>6. /\ u.slots[at] = k
      /\ \A i \in 0..t.cap-1 : i # at => u.slots[i] = t.slots[i]
  BY <1>1, <1>2, <1>4, TableIs
<1>7. Held(u) = Held(t) \cup {at} /\ at \notin Held(t)
  BY <1>1, <1>2, <1>5, <1>6 DEF Held
<1>8. KeysIn(u) = KeysIn(t) \cup {k}
  <2>1. \A i \in Held(t) : i \in Held(u) /\ u.slots[i] = t.slots[i]
    BY <1>1, <1>6, <1>7, TableIs
  <2>2. at \in Held(u)
    BY <1>7
  <2> QED BY <1>6, <1>7, <2>1, <2>2 DEF KeysIn
<1>9. Single(u)
  <2> SUFFICES ASSUME NEW i \in Held(u), NEW j \in Held(u), u.slots[i] = u.slots[j]
               PROVE  i = j
    BY DEF Single
  <2>1. \A m \in Held(t) : u.slots[m] = t.slots[m] /\ u.slots[m] # k
    BY <1>1, <1>6, <1>7, TableIs DEF KeysIn
  <2> QED BY <1>6, <1>7, <2>1 DEF TableOK, Single
<1>10. Probed(u)
  <2> SUFFICES ASSUME NEW i \in Held(u), NEW j \in 0..t.cap-1,
                      Dist(t.cap, Home(u, u.slots[i]), j) < Dist(t.cap, Home(u, u.slots[i]), i)
               PROVE  j \in Held(u)
    BY <1>5 DEF Probed
  <2>1. \A m : Home(u, m) = Home(t, m)
    BY <1>5 DEF Home
  <2>2. CASE i = at
    BY <1>1, <1>2, <1>6, <1>7, <2>1, <2>2, TableIs
  <2>3. CASE i # at
    <3>1. i \in Held(t) /\ u.slots[i] = t.slots[i]
      BY <1>1, <1>6, <1>7, <2>3, TableIs
    <3> QED BY <1>7, <2>1, <3>1 DEF TableOK, Probed
  <2> QED BY <2>2, <2>3
<1> QED BY <1>3, <1>5, <1>8, <1>9, <1>10 DEF TableOK

\* A table with more slots than keys has a hole.
LEMMA AiryFor ==
    ASSUME NEW u \in Tables, Single(u), NEW S, IsFiniteSet(S), KeysIn(u) \subseteq S,
           Cardinality(S) < u.cap
    PROVE  Airy(u)
<1>1. Cardinality(KeysIn(u)) <= Cardinality(S)
  BY FS_Subset
<1>2. Cardinality(KeysIn(u)) \in Nat /\ Cardinality(S) \in Nat /\ u.cap \in Nat
  BY HeldCount, FS_CardinalityType, TableIs
<1> QED BY <1>1, <1>2, HeldCount, AiryIs

\* An empty table.
LEMMA EmptyTable ==
    ASSUME NEW c \in Nat
    PROVE  /\ TableOK(Table(c)) /\ Table(c).cap = c /\ KeysIn(Table(c)) = {}
           /\ Held(Table(c)) = {} /\ Table(c) \in TablesOf(c)
<1>1. Table(c) \in TablesOf(c) /\ Table(c) \in Tables /\ Table(c).cap = c
  BY DEF Table, TablesOf, Tables
<1>2. Held(Table(c)) = {}
  BY DEF Table, Held
<1> QED BY <1>1, <1>2 DEF TableOK, Single, Probed, KeysIn

\* place keeps the size of the table, wherever it puts the key.
LEMMA PlaceType ==
    ASSUME NEW c \in Nat, NEW u \in TablesOf(c), NEW x \in Key \cup {NoKey}
    PROVE  Refill(u, x) \in TablesOf(c)
BY DEF Refill, Place, TablesOf

\* How many slots a grown table has.
LargerCap(t) == IF t.cap = 0 THEN InitCap ELSE 2 * t.cap

\* grow moves every key to a table with twice the slots.
LEMMA GrowIs ==
    ASSUME NEW t, TableOK(t)
    PROVE  /\ TableOK(Grow(t)) /\ Grow(t).cap = LargerCap(t)
           /\ KeysIn(Grow(t)) = KeysIn(t)
<1>1. t \in Tables /\ t.cap \in Nat /\ Single(t)
  BY TableIs DEF TableOK
<1>2. PICK N \in Nat : N = t.cap
  BY <1>1
<1>3. PICK c \in Nat : c = LargerCap(t) /\ c > N
  BY <1>2, Sizes DEF LargerCap
<1>4. Larger(t) = Table(c) /\ Larger(t) \in TablesOf(c)
  BY <1>3, EmptyTable DEF Larger, LargerCap
<1> DEFINE X(n) == IF n \in 1..N THEN t.slots[n-1] ELSE NoKey
           g == [u \in TablesOf(c) |-> [n \in Nat |-> Refill(u, X(n))]]
           F(m) == [i \in 0..N |-> IF i = 0 THEN Larger(t)
                                   ELSE Refill(m[i-1], t.slots[i-1])]
           moved == CHOOSE m : m = F(m)
<1>5. \A n \in Nat : X(n) \in Key \cup {NoKey}
  BY <1>1, <1>2, TableIs
<1>6. g \in [TablesOf(c) -> [Nat -> TablesOf(c)]]
  <2> HIDE DEF X
  <2>1. \A u \in TablesOf(c), n \in Nat : Refill(u, X(n)) \in TablesOf(c)
    BY <1>5, PlaceType
  <2> QED BY <2>1
<1>7. PICK f \in [0..N -> TablesOf(c)] :
         f[0] = Larger(t) /\ \A n \in 1..N : f[n] = g[f[n-1]][n]
  <2> HIDE DEF g, X, F, moved
  <2>1. PICK f : Run(TablesOf(c), N, Larger(t), g, f)
    BY <1>4, <1>6, Iterates
  <2> QED BY <2>1 DEF Run
<1>8. f = F(f)
  <2>1. ASSUME NEW i \in 0..N
        PROVE  f[i] = IF i = 0 THEN Larger(t) ELSE Refill(f[i-1], t.slots[i-1])
    <3>1. CASE i = 0
      BY <1>7, <3>1
    <3>2. CASE i # 0
      <4>1. i \in 1..N /\ i \in Nat /\ i - 1 \in 0..N
        BY <3>2
      <4>2. f[i-1] \in TablesOf(c)
        BY <4>1
      <4>3. g[f[i-1]][i] = Refill(f[i-1], X(i))
        BY <4>1, <4>2
      <4>4. X(i) = t.slots[i-1]
        BY <4>1
      <4> QED BY <1>7, <3>2, <4>1, <4>3, <4>4
    <3> QED BY <3>1, <3>2
  <2> QED BY <2>1
<1>9. moved = F(moved)
  <2> HIDE DEF F
  <2> QED BY <1>8
<1>10. Grow(t) = moved[N]
  BY <1>2, Zenon DEF Grow
<1> HIDE DEF moved
<1> DEFINE Before(n) == {t.slots[i] : i \in {j \in Held(t) : j < n}}
           S == {n \in Nat : n <= N => /\ moved[n] \in TablesOf(c) /\ TableOK(moved[n])
                                       /\ KeysIn(moved[n]) = Before(n)}
<1>11. 0 \in S
  <2>1. moved[0] = Table(c)
    BY <1>4, <1>9
  <2>2. Before(0) = {}
    BY <1>1, TableIs
  <2> QED BY <2>1, <2>2, EmptyTable
<1>12. ASSUME NEW n \in Nat, n \in S, n + 1 <= N
       PROVE  /\ moved[n+1] \in TablesOf(c) /\ TableOK(moved[n+1])
              /\ KeysIn(moved[n+1]) = Before(n+1)
  <2>1. PICK u : /\ u = moved[n] /\ u \in TablesOf(c) /\ TableOK(u)
                 /\ KeysIn(u) = Before(n)
    BY <1>12
  <2>2. PICK x \in Key \cup {NoKey} : x = t.slots[n]
    BY <1>1, <1>2, <1>12, TableIs
  <2>3. moved[n+1] = Refill(u, x)
    <3>1. n + 1 \in 0..N /\ n + 1 # 0 /\ (n + 1) - 1 = n
      BY <1>12
    <3> QED BY <1>9, <2>1, <2>2, <3>1
  <2>4. n \in 0..t.cap-1 /\ (n \in Held(t) <=> x # NoKey)
    BY <1>1, <1>2, <1>12, <2>2, TableIs
  <2>5. CASE x = NoKey
    <3>1. {j \in Held(t) : j < n + 1} = {j \in Held(t) : j < n}
      BY <1>1, <2>4, <2>5, TableIs
    <3>2. moved[n+1] = u
      BY <2>3, <2>5 DEF Refill
    <3> QED BY <2>1, <3>1, <3>2
  <2>6. CASE x # NoKey
    <3>1. {j \in Held(t) : j < n + 1} = {j \in Held(t) : j < n} \cup {n}
      BY <1>1, <2>4, <2>6, TableIs
    <3>2. Before(n+1) = Before(n) \cup {x}
      BY <2>2, <3>1
    <3>3. x \notin KeysIn(u)
      <4>1. n \in Held(t)
        BY <2>4, <2>6
      <4>2. \A i \in Held(t) : i < n => t.slots[i] # x
        BY <1>1, <2>2, <4>1, TableIs DEF Single
      <4> QED BY <2>1, <4>2
    <3>4. Before(n) \subseteq KeysIn(t)
      BY DEF KeysIn
    <3>5. u \in Tables /\ u.cap = c /\ Single(u)
      BY <2>1 DEF TablesOf, TableOK
    <3>6. Airy(u)
      <4>1. IsFiniteSet(KeysIn(t)) /\ Cardinality(KeysIn(t)) = Cardinality(Held(t))
        BY <1>1, HeldCount
      <4>2. Cardinality(Held(t)) <= N
        <5>0. IsFiniteSet(0..N-1) /\ Cardinality(0..N-1) = N
          <6>1. IsFiniteSet(0..N-1)
                  /\ Cardinality(0..N-1) = IF 0 > N-1 THEN 0 ELSE (N-1)-0+1
            BY FS_Interval, 0 \in Int, N - 1 \in Int
          <6> QED BY <6>1
        <5>1. Held(t) \in SUBSET (0..N-1) /\ IsFiniteSet(0..N-1)
                 /\ Cardinality(0..N-1) <= N
          BY <1>1, <1>2, <5>0, TableIs
        <5>2. Cardinality(Held(t)) \in Nat /\ Cardinality(0..N-1) \in Nat
          BY <1>1, <5>1, HeldCount, FS_CardinalityType
        <5> QED BY <5>1, <5>2, FS_Subset
      <4>3. Cardinality(KeysIn(t)) < u.cap
        BY <1>1, <1>3, <3>5, <4>1, <4>2, HeldCount
      <4> QED BY <2>1, <3>4, <3>5, <4>1, <4>3, AiryFor
    <3>7. TableOK(Place(u, x)) /\ KeysIn(Place(u, x)) = KeysIn(u) \cup {x}
      BY <2>1, <2>6, <3>3, <3>6, PlaceIs
    <3>8. moved[n+1] = Place(u, x) /\ moved[n+1] \in TablesOf(c)
      BY <2>1, <2>3, <2>6, PlaceType DEF Refill
    <3> QED BY <2>1, <3>2, <3>7, <3>8
  <2> QED BY <2>5, <2>6
<1>13. N \in S
  <2>1. ASSUME NEW n \in Nat, n \in S PROVE n + 1 \in S
    <3>1. n + 1 <= N => /\ moved[n+1] \in TablesOf(c) /\ TableOK(moved[n+1])
                        /\ KeysIn(moved[n+1]) = Before(n+1)
      BY <1>12, <2>1
    <3> HIDE DEF Before
    <3> QED BY <3>1
  <2> HIDE DEF S
  <2> QED BY <1>11, <2>1, NatSetInduction
<1>14. Before(N) = KeysIn(t)
  <2>1. {j \in Held(t) : j < N} = Held(t)
    BY <1>1, <1>2, TableIs
  <2> QED BY <2>1 DEF KeysIn
<1>15. moved[N] \in TablesOf(c) /\ TableOK(moved[N]) /\ KeysIn(moved[N]) = Before(N)
  BY <1>13
<1>16. moved[N].cap = c
  BY <1>15 DEF TablesOf
<1> HIDE DEF Before
<1> QED BY <1>3, <1>10, <1>14, <1>15, <1>16

\* A table that is in use has a hole.
Room(t) == t.cap # 0 => Airy(t)

\* insert adds an absent key and leaves a hole.
LEMMA InsertIs ==
    ASSUME NEW t, TableOK(t), Room(t), NEW k \in Key, k \notin KeysIn(t)
    PROVE  /\ TableOK(IndexInsert(t, k)) /\ Airy(IndexInsert(t, k))
           /\ KeysIn(IndexInsert(t, k)) = KeysIn(t) \cup {k}
<1>1. PICK u : u = IF Full(t) THEN Grow(t) ELSE t
  OBVIOUS
<1>2. PICK n \in Nat : /\ n = Cardinality(Held(t)) /\ n = Cardinality(KeysIn(t))
                       /\ IsFiniteSet(KeysIn(t))
  BY HeldCount DEF TableOK
<1>3. t \in Tables /\ t.cap \in Nat /\ Single(t)
  BY TableIs DEF TableOK
<1>4. /\ TableOK(u) /\ KeysIn(u) = KeysIn(t) /\ u \in Tables /\ Single(u)
      /\ u.cap = IF Full(t) THEN LargerCap(t) ELSE t.cap
  BY <1>1, GrowIs DEF TableOK
<1>5. n + 1 < u.cap
  <2>1. CASE ~Full(t)
    <3>1. ~((n + 1) * 10 > t.cap * 7)
      BY <1>2, <2>1 DEF Full
    <3>2. n + 1 < t.cap
      BY <1>3, <3>1
    <3> QED BY <1>4, <2>1, <3>2
  <2>2. CASE Full(t) /\ t.cap = 0
    <3>1. Held(t) = {}
      BY <1>3, <2>2, TableIs
    <3>2. n = 0
      BY <1>2, <3>1, FS_EmptySet
    <3> QED BY <1>4, <2>2, <3>2, Sizes DEF LargerCap
  <2>3. CASE Full(t) /\ t.cap # 0
    <3>1. n < t.cap
      BY <1>2, <1>3, <2>3, AiryIs DEF Room
    <3> QED BY <1>2, <1>3, <1>4, <2>3, <3>1 DEF LargerCap
  <2> QED BY <2>1, <2>2, <2>3
<1>6. u.cap \in Nat /\ n < u.cap
  BY <1>2, <1>4, <1>5, TableIs
<1>7. Airy(u)
  BY <1>2, <1>4, <1>6, AiryFor
<1>8. PICK v : /\ v = Place(u, k) /\ TableOK(v) /\ v.cap = u.cap
               /\ KeysIn(v) = KeysIn(t) \cup {k}
  BY <1>4, <1>7, PlaceIs
<1>9. IsFiniteSet(KeysIn(t) \cup {k}) /\ Cardinality(KeysIn(t) \cup {k}) = n + 1
  BY <1>2, FS_AddElement
<1>10. Airy(v)
  BY <1>5, <1>8, <1>9, AiryFor DEF TableOK
<1> QED BY <1>1, <1>8, <1>10 DEF IndexInsert

-----------------------------------------------------------------------------
(* Deletion from the index *)

\* Slots are numbered from the one after a hole e, so that no search wraps.
From(c, e, i) == IF e < i THEN (i - e) - 1 ELSE ((i - e) - 1) + c

\* The slots have different numbers, and e the last.
LEMMA FromIs ==
    ASSUME NEW c \in Nat \ {0}, NEW e \in 0..c-1
    PROVE  /\ \A i \in 0..c-1 : From(c, e, i) \in 0..c-1
           /\ \A i, j \in 0..c-1 : From(c, e, i) = From(c, e, j) => i = j
           /\ \A i \in 0..c-1 : From(c, e, i) = c - 1 <=> i = e
BY DEF From

\* A search that does not meet e goes up.
LEMMA PathIs ==
    ASSUME NEW c \in Nat \ {0}, NEW e \in 0..c-1, NEW a \in 0..c-1, NEW i \in 0..c-1,
           ~(Dist(c, a, e) < Dist(c, a, i)), i # e
    PROVE  /\ From(c, e, a) <= From(c, e, i)
           /\ \A j \in 0..c-1 : Dist(c, a, j) < Dist(c, a, i)
                                  <=> /\ From(c, e, a) <= From(c, e, j)
                                      /\ From(c, e, j) < From(c, e, i)
BY DEF From, Dist

\* A path that goes up and has no hole is one a search takes.
LEMMA PathUp ==
    ASSUME NEW c \in Nat \ {0}, NEW e \in 0..c-1, NEW a \in 0..c-1, NEW i \in 0..c-1,
           From(c, e, a) <= From(c, e, i), NEW j \in 0..c-1,
           Dist(c, a, j) < Dist(c, a, i)
    PROVE  From(c, e, a) <= From(c, e, j) /\ From(c, e, j) < From(c, e, i)
BY DEF From, Dist

\* The cyclic test of erase.
LEMMA BetweenIs ==
    ASSUME NEW c \in Nat \ {0}, NEW e \in 0..c-1, NEW a \in 0..c-1, NEW h \in 0..c-1,
           NEW j \in 0..c-1, From(c, e, h) < From(c, e, j)
    PROVE  Between(a, h, j) <=> /\ From(c, e, h) < From(c, e, a)
                                /\ From(c, e, a) <= From(c, e, j)
BY DEF From, Between

\* Going on by d adds d.
LEMMA FromWrap ==
    ASSUME NEW c \in Nat \ {0}, NEW e \in 0..c-1, NEW i \in 0..c-1, NEW d \in 0..c-1,
           From(c, e, i) + d < c
    PROVE  From(c, e, Wrap(c, i, d)) = From(c, e, i) + d
BY DEF From, Wrap

Shifts(c) == [slots : [0..c-1 -> Key \cup {NoKey}], hole : 0..c-1, end : BOOLEAN]

\* The key in slot i reaches it from its home over slots that are held.
Reached(t, e, p, i) ==
    LET n(j) == From(t.cap, e, j)
        a    == Home(t, p.slots[i])
    IN  n(a) <= n(i) /\ \A j \in 0..t.cap-1 : n(a) <= n(j) /\ n(j) < n(i) => j \in Held(t)

\* The search for the key in slot i passes the hole.
Crossed(t, e, p, i) ==
    LET n(j) == From(t.cap, e, j)
    IN  n(Home(t, p.slots[i])) <= n(p.hole) /\ n(p.hole) < n(i)

\* After d slots behind at: the hole has moved from at to where it is, the other
\* slots hold the other keys, and those that were looked at are found again.
Shifted(t, k, e, at, d, p) ==
    LET n(j)  == From(t.cap, e, j)
        Rest  == Held(t) \ {p.hole}
    IN  /\ p \in Shifts(t.cap) /\ p.hole \in Held(t)
        /\ n(at) <= n(p.hole) /\ n(p.hole) <= n(at) + d
        /\ \A i \in 0..t.cap-1 : p.slots[i] # NoKey <=> i \in Held(t)
        /\ {p.slots[i] : i \in Rest} = KeysIn(t) \ {k}
        /\ \A i, j \in Rest : p.slots[i] = p.slots[j] => i = j
        /\ \A i \in Rest : Reached(t, e, p, i)
        /\ \A i \in Rest : n(i) <= n(at) + d \/ p.end => ~Crossed(t, e, p, i)
        /\ ~p.end => /\ n(at) + d < t.cap - 1
                     /\ \A j \in 0..t.cap-1 : n(at) <= n(j) /\ n(j) <= n(at) + d
                                                => j \in Held(t)

\* Before the first slot is looked at.
LEMMA ShiftStarts ==
    ASSUME NEW t, TableOK(t), NEW e \in 0..t.cap-1, t.slots[e] = NoKey,
           NEW k \in Key, NEW at \in 0..t.cap-1, t.slots[at] = k
    PROVE  Shifted(t, k, e, at, 0, [slots |-> t.slots, hole |-> at, end |-> FALSE])
<1>0. t \in Tables /\ t.cap \in Nat \ {0} /\ k # NoKey
  BY TableIs, Sizes DEF TableOK
<1>1. PICK p : p = [slots |-> t.slots, hole |-> at, end |-> FALSE]
  OBVIOUS
<1>2. p.slots = t.slots /\ p.hole = at /\ p.end = FALSE
  BY <1>1
<1>3. p \in Shifts(t.cap)
  BY <1>0, <1>1, TableIs DEF Shifts
<1>4. at \in Held(t) /\ at # e /\ e \notin Held(t)
  BY <1>0, TableIs
<1>5. From(t.cap, e, at) \in 0..t.cap-1 /\ From(t.cap, e, at) # t.cap - 1
  BY <1>0, <1>4, FromIs
<1>6. ASSUME NEW i \in Held(t) PROVE Reached(t, e, p, i)
  <2>1. i \in 0..t.cap-1 /\ i # e /\ p.slots[i] \in Key
    BY <1>0, <1>2, <1>4, TableIs
  <2>2. PICK a \in 0..t.cap-1 : a = Home(t, p.slots[i])
    BY <1>0, <2>1, HomeIs
  <2>3. \A j \in 0..t.cap-1 : Dist(t.cap, a, j) < Dist(t.cap, a, i) => j \in Held(t)
    BY <1>2, <2>2 DEF TableOK, Probed
  <2>4. ~(Dist(t.cap, a, e) < Dist(t.cap, a, i))
    BY <1>4, <2>3
  <2> QED BY <1>0, <2>1, <2>2, <2>3, <2>4, PathIs DEF Reached
<1>7. {p.slots[i] : i \in Held(t) \ {at}} = KeysIn(t) \ {k}
  BY <1>2, <1>4 DEF KeysIn, TableOK, Single
<1>8. \A i, j \in Held(t) : p.slots[i] = p.slots[j] => i = j
  BY <1>2 DEF TableOK, Single
<1>9. \A i \in 0..t.cap-1 : p.slots[i] # NoKey <=> i \in Held(t)
  BY <1>0, <1>2, TableIs
<1>10. ASSUME NEW i \in Held(t), From(t.cap, e, i) <= From(t.cap, e, at) + 0
       PROVE  ~Crossed(t, e, p, i)
  <2>1. From(t.cap, e, i) \in Nat /\ From(t.cap, e, at) \in Nat
    BY <1>0, <1>5, FromIs, TableIs
  <2> QED BY <1>2, <1>10, <2>1 DEF Crossed
<1>11. ASSUME NEW j \in 0..t.cap-1, From(t.cap, e, at) <= From(t.cap, e, j),
              From(t.cap, e, j) <= From(t.cap, e, at) + 0
       PROVE  j \in Held(t)
  <2>1. From(t.cap, e, j) = From(t.cap, e, at)
    BY <1>0, <1>5, <1>11, FromIs
  <2> QED BY <1>0, <1>4, <2>1, FromIs
<1>12. From(t.cap, e, at) + 0 < t.cap - 1
  BY <1>0, <1>5
<1>13. /\ From(t.cap, e, at) <= From(t.cap, e, p.hole)
       /\ From(t.cap, e, p.hole) <= From(t.cap, e, at) + 0
  BY <1>2, <1>5
<1>14. \A i \in Held(t) \ {p.hole} :
          From(t.cap, e, i) <= From(t.cap, e, at) + 0 \/ p.end => ~Crossed(t, e, p, i)
  BY <1>2, <1>10
<1>15. Shifted(t, k, e, at, 0, p)
  BY <1>2, <1>3, <1>4, <1>6, <1>7, <1>8, <1>9, <1>11, <1>12, <1>13, <1>14 DEF Shifted
<1> QED BY <1>1, <1>15

\* What a step of the shift knows of the slot it looks at.
LEMMA ShiftAt ==
    ASSUME NEW t, TableOK(t), NEW e \in 0..t.cap-1, t.slots[e] = NoKey,
           NEW k \in Key, NEW at \in 0..t.cap-1, NEW d \in Nat, d + 1 <= t.cap - 1,
           NEW p, Shifted(t, k, e, at, d, p), ~p.end
    PROVE  /\ Wrap(t.cap, at, d + 1) \in 0..t.cap-1
           /\ From(t.cap, e, Wrap(t.cap, at, d + 1)) = From(t.cap, e, at) + d + 1
           /\ From(t.cap, e, p.hole) < From(t.cap, e, Wrap(t.cap, at, d + 1))
           /\ \A i \in 0..t.cap-1 : From(t.cap, e, i) \in 0..t.cap-1
           /\ p.hole \in 0..t.cap-1
<1>1. t \in Tables /\ t.cap \in Nat \ {0}
  BY TableIs DEF TableOK
<1>2. From(t.cap, e, at) + d < t.cap - 1 /\ p.hole \in 0..t.cap-1
        /\ From(t.cap, e, p.hole) <= From(t.cap, e, at) + d
  BY DEF Shifted, Shifts
<1>3. \A i \in 0..t.cap-1 : From(t.cap, e, i) \in 0..t.cap-1
  BY <1>1, FromIs
<1>4. From(t.cap, e, at) + (d + 1) < t.cap /\ d + 1 \in 0..t.cap-1
  BY <1>1, <1>2, <1>3
<1>5. Wrap(t.cap, at, d + 1) \in 0..t.cap-1
  BY <1>1, <1>4, WrapDist
<1>6. From(t.cap, e, Wrap(t.cap, at, d + 1)) = From(t.cap, e, at) + (d + 1)
  BY <1>1, <1>4, FromWrap
<1> QED BY <1>1, <1>2, <1>3, <1>5, <1>6

\* What holds of the keys whose slot, and of the hole, that do not change.
LEMMA SameReach ==
    ASSUME NEW t, NEW e, NEW p, NEW q, NEW i, q.slots[i] = p.slots[i]
    PROVE  /\ Reached(t, e, q, i) <=> Reached(t, e, p, i)
           /\ q.hole = p.hole => (Crossed(t, e, q, i) <=> Crossed(t, e, p, i))
BY DEF Reached, Crossed

\* The shift ends at a hole: nothing behind it was searched for across it.
LEMMA ShiftEnds ==
    ASSUME NEW t, TableOK(t), NEW e \in 0..t.cap-1, t.slots[e] = NoKey,
           NEW k \in Key, NEW at \in 0..t.cap-1, NEW d \in Nat, d + 1 <= t.cap - 1,
           NEW p, Shifted(t, k, e, at, d, p), ~p.end,
           p.slots[Wrap(t.cap, at, d + 1)] = NoKey
    PROVE  Shifted(t, k, e, at, d + 1, [p EXCEPT !.end = TRUE])
<1>1. PICK j \in 0..t.cap-1 :
         /\ j = Wrap(t.cap, at, d + 1) /\ p.slots[j] = NoKey
         /\ From(t.cap, e, j) = From(t.cap, e, at) + d + 1
         /\ From(t.cap, e, p.hole) < From(t.cap, e, j)
  BY ShiftAt
<1>2. PICK q : q = [p EXCEPT !.end = TRUE]
  OBVIOUS
<1>3. p \in Shifts(t.cap) /\ t.cap \in Nat \ {0}
  BY TableIs DEF Shifted, TableOK
<1>4. q \in Shifts(t.cap) /\ q.slots = p.slots /\ q.hole = p.hole /\ q.end
  BY <1>2, <1>3 DEF Shifts
<1>5. \A i \in 0..t.cap-1 : From(t.cap, e, i) \in 0..t.cap-1
  BY <1>3, FromIs
<1>6. j \notin Held(t)
  BY <1>1 DEF Shifted
<1>7. ASSUME NEW i \in Held(t) \ {p.hole} PROVE ~Crossed(t, e, q, i)
  <2>1. Reached(t, e, p, i) /\ i \in 0..t.cap-1 /\ i # j
          /\ (From(t.cap, e, i) <= From(t.cap, e, at) + d => ~Crossed(t, e, p, i))
    BY <1>6, TableIs DEF Shifted, TableOK
  <2>2. From(t.cap, e, i) # From(t.cap, e, j)
    BY <1>3, <2>1, FromIs
  <2>3. CASE From(t.cap, e, i) <= From(t.cap, e, at) + d
    BY <1>4, <2>1, <2>3, SameReach
  <2>4. CASE ~(From(t.cap, e, i) <= From(t.cap, e, at) + d)
    <3>1. From(t.cap, e, j) < From(t.cap, e, i)
      BY <1>1, <1>5, <2>1, <2>2, <2>4
    <3>2. ~(From(t.cap, e, Home(t, p.slots[i])) <= From(t.cap, e, j))
      BY <1>6, <2>1, <3>1 DEF Reached
    <3>3. p.slots[i] \in Key
      BY <1>3, <2>1, TableIs DEF Shifts, Shifted, TableOK
    <3>4. Home(t, p.slots[i]) \in 0..t.cap-1
      BY <1>3, <3>3, HomeIs DEF TableOK
    <3>5. p.hole \in 0..t.cap-1
      BY <1>3 DEF Shifts
    <3>6. ~(From(t.cap, e, Home(t, p.slots[i])) <= From(t.cap, e, p.hole))
      BY <1>1, <1>5, <3>2, <3>4, <3>5
    <3> QED BY <1>4, <3>6 DEF Crossed
  <2> QED BY <2>3, <2>4
<1>8. \A i \in Held(t) \ {p.hole} : Reached(t, e, q, i)
  BY <1>4, SameReach DEF Shifted
<1>9. From(t.cap, e, q.hole) <= From(t.cap, e, at) + (d + 1)
  BY <1>1, <1>3, <1>4, <1>5 DEF Shifts
<1>10. Shifted(t, k, e, at, d + 1, q)
  BY <1>4, <1>7, <1>8, <1>9 DEF Shifted
<1> QED BY <1>2, <1>10

\* A key whose home is behind the hole stays.
LEMMA ShiftStays ==
    ASSUME NEW t, TableOK(t), NEW e \in 0..t.cap-1, t.slots[e] = NoKey,
           NEW k \in Key, NEW at \in 0..t.cap-1, NEW d \in Nat, d + 1 <= t.cap - 1,
           NEW p, Shifted(t, k, e, at, d, p), ~p.end,
           NEW j, j = Wrap(t.cap, at, d + 1), p.slots[j] # NoKey,
           Between(Home(t, p.slots[j]), p.hole, j)
    PROVE  Shifted(t, k, e, at, d + 1, p)
<1>1. /\ j \in 0..t.cap-1 /\ From(t.cap, e, j) = From(t.cap, e, at) + d + 1
      /\ From(t.cap, e, p.hole) < From(t.cap, e, j)
      /\ \A i \in 0..t.cap-1 : From(t.cap, e, i) \in 0..t.cap-1
      /\ p.hole \in 0..t.cap-1
  BY ShiftAt
<1>2. t \in Tables /\ t.cap \in Nat \ {0} /\ e \notin Held(t) /\ j \in Held(t)
  <2>1. t \in Tables /\ t.cap \in Nat \ {0}
    BY TableIs DEF TableOK
  <2>2. e \notin Held(t)
    BY <2>1, TableIs
  <2>3. j \in Held(t)
    BY <1>1 DEF Shifted
  <2> QED BY <2>1, <2>2, <2>3
<1>0. \A i \in 0..t.cap-1 : i # j => From(t.cap, e, i) # From(t.cap, e, j)
  <2>1. PICK c \in Nat \ {0} : c = t.cap
    BY <1>2
  <2>2. \A i, l \in 0..c-1 : From(c, e, i) = From(c, e, l) => i = l
    BY <2>1, FromIs
  <2> QED BY <1>1, <2>1, <2>2
<1>3. From(t.cap, e, j) # t.cap - 1
  BY <1>1, <1>2, FromIs
<1>4. p.slots[j] \in Key
  BY <1>1 DEF Shifted, Shifts
<1>5. PICK a \in 0..t.cap-1 : a = Home(t, p.slots[j])
  BY <1>2, <1>4, HomeIs
<1>6. From(t.cap, e, p.hole) < From(t.cap, e, a)
  BY <1>1, <1>2, <1>5, BetweenIs
<1>7. ~Crossed(t, e, p, j)
  BY <1>1, <1>5, <1>6 DEF Crossed
<1>8. ASSUME NEW i \in Held(t) \ {p.hole}, From(t.cap, e, i) <= From(t.cap, e, at) + (d + 1)
      PROVE  ~Crossed(t, e, p, i)
  <2>0. i \in 0..t.cap-1
    BY <1>2, TableIs
  <2>1. CASE i = j
    BY <1>7, <2>1
  <2>2. CASE i # j
    <3>1. From(t.cap, e, i) # From(t.cap, e, j)
      BY <1>0, <2>0, <2>2
    <3>2. From(t.cap, e, i) <= From(t.cap, e, at) + d
      BY <1>1, <1>8, <2>0, <3>1
    <3> QED BY <3>2 DEF Shifted
  <2> QED BY <2>1, <2>2
<1>9. ASSUME NEW i \in 0..t.cap-1, From(t.cap, e, at) <= From(t.cap, e, i),
             From(t.cap, e, i) <= From(t.cap, e, at) + (d + 1)
      PROVE  i \in Held(t)
  <2>1. CASE i = j
    BY <1>2, <2>1
  <2>2. CASE i # j
    <3>1. From(t.cap, e, i) # From(t.cap, e, j)
      BY <1>0, <2>2
    <3>2. From(t.cap, e, i) <= From(t.cap, e, at) + d
      BY <1>1, <1>9, <3>1
    <3> QED BY <1>9, <3>2 DEF Shifted
  <2> QED BY <2>1, <2>2
<1>10. /\ From(t.cap, e, at) + (d + 1) < t.cap - 1
       /\ From(t.cap, e, p.hole) <= From(t.cap, e, at) + (d + 1)
  BY <1>1, <1>2, <1>3
<1> QED BY <1>8, <1>9, <1>10 DEF Shifted

\* A key whose home is before the hole moves there and leaves one.
LEMMA ShiftMoves ==
    ASSUME NEW t, TableOK(t), NEW e \in 0..t.cap-1, t.slots[e] = NoKey,
           NEW k \in Key, NEW at \in 0..t.cap-1, NEW d \in Nat, d + 1 <= t.cap - 1,
           NEW p, Shifted(t, k, e, at, d, p), ~p.end,
           NEW j, j = Wrap(t.cap, at, d + 1), p.slots[j] # NoKey,
           ~Between(Home(t, p.slots[j]), p.hole, j)
    PROVE  Shifted(t, k, e, at, d + 1, [p EXCEPT !.slots[p.hole] = p.slots[j], !.hole = j])
<1>1. /\ j \in 0..t.cap-1 /\ From(t.cap, e, j) = From(t.cap, e, at) + d + 1
      /\ From(t.cap, e, p.hole) < From(t.cap, e, j)
      /\ \A i \in 0..t.cap-1 : From(t.cap, e, i) \in 0..t.cap-1
      /\ p.hole \in 0..t.cap-1
  BY ShiftAt
<1>2. t \in Tables /\ t.cap \in Nat \ {0} /\ e \notin Held(t) /\ j \in Held(t)
  <2>1. t \in Tables /\ t.cap \in Nat \ {0}
    BY TableIs DEF TableOK
  <2>2. e \notin Held(t)
    BY <2>1, TableIs
  <2>3. j \in Held(t)
    BY <1>1 DEF Shifted
  <2> QED BY <2>1, <2>2, <2>3
<1>0. \A i \in 0..t.cap-1 : i # j => From(t.cap, e, i) # From(t.cap, e, j)
  <2>1. PICK c \in Nat \ {0} : c = t.cap
    BY <1>2
  <2>2. \A i, l \in 0..c-1 : From(c, e, i) = From(c, e, l) => i = l
    BY <2>1, FromIs
  <2> QED BY <1>1, <2>1, <2>2
<1>3. PICK h \in 0..t.cap-1 : h = p.hole /\ h # j /\ h \in Held(t)
  BY <1>1 DEF Shifted
<1>4. PICK x \in Key : x = p.slots[j]
  BY <1>1 DEF Shifted, Shifts
<1>5. PICK a \in 0..t.cap-1 : a = Home(t, x)
  BY <1>2, <1>4, HomeIs
<1>6. PICK q : q = [p EXCEPT !.slots[p.hole] = p.slots[j], !.hole = j]
  OBVIOUS
<1>7. /\ q \in Shifts(t.cap) /\ q.hole = j /\ ~q.end /\ q.slots[h] = x
      /\ \A i \in 0..t.cap-1 : i # h => q.slots[i] = p.slots[i]
  <2>1. p \in Shifts(t.cap)
    BY DEF Shifted
  <2>2. q = [slots |-> [p.slots EXCEPT ![h] = x], hole |-> j, end |-> p.end]
    BY <1>3, <1>4, <1>6, <2>1 DEF Shifts
  <2> QED BY <1>1, <2>1, <2>2 DEF Shifts
<1>8. /\ Reached(t, e, p, j)
      /\ From(t.cap, e, a) <= From(t.cap, e, j)
      /\ \A i \in 0..t.cap-1 : From(t.cap, e, a) <= From(t.cap, e, i)
                                 /\ From(t.cap, e, i) < From(t.cap, e, j) => i \in Held(t)
  <2>1. Reached(t, e, p, j)
    BY <1>2, <1>3 DEF Shifted
  <2> QED BY <1>4, <1>5, <2>1 DEF Reached
<1>9. From(t.cap, e, a) <= From(t.cap, e, h)
  <2>0. PICK c \in Nat \ {0} : c = t.cap
    BY <1>2
  <2>1. Between(a, h, j) <=> /\ From(c, e, h) < From(c, e, a)
                             /\ From(c, e, a) <= From(c, e, j)
    <3>1. /\ e \in 0..c-1 /\ a \in 0..c-1 /\ h \in 0..c-1 /\ j \in 0..c-1
          /\ From(c, e, h) < From(c, e, j)
      BY <1>1, <1>3, <1>5, <2>0
    <3> QED BY <3>1, BetweenIs
  <2> QED BY <1>1, <1>3, <1>4, <1>5, <1>8, <2>0, <2>1
<1>10. Reached(t, e, q, h) /\ ~Crossed(t, e, q, h)
  <2>1. Home(t, q.slots[h]) = a
    BY <1>5, <1>7
  <2>2. ASSUME NEW i \in 0..t.cap-1, From(t.cap, e, a) <= From(t.cap, e, i),
               From(t.cap, e, i) < From(t.cap, e, h)
        PROVE  i \in Held(t)
    BY <1>1, <1>3, <1>8, <2>2
  <2> QED BY <1>1, <1>3, <1>7, <1>9, <2>1, <2>2 DEF Reached, Crossed
<1>11. \A i \in 0..t.cap-1 : q.slots[i] # NoKey <=> i \in Held(t)
  <2>1. \A i \in 0..t.cap-1 : p.slots[i] # NoKey <=> i \in Held(t)
    BY DEF Shifted
  <2>2. x # NoKey
    BY <1>4, Sizes
  <2> QED BY <1>3, <1>7, <2>1, <2>2
<1>12. Held(t) \subseteq 0..t.cap-1
  BY <1>2, TableIs
<1> DEFINE Old == Held(t) \ {h}
           New == Held(t) \ {j}
<1>13. /\ \A i \in New : i # h => i \in Old /\ q.slots[i] = p.slots[i]
       /\ \A i \in Old : i # j => i \in New /\ q.slots[i] = p.slots[i]
       /\ h \in New /\ j \in Old /\ q.slots[h] = p.slots[j]
  BY <1>2, <1>3, <1>4, <1>7, <1>12
<1>14. {p.slots[i] : i \in Old} = KeysIn(t) \ {k}
         /\ \A i, m \in Old : p.slots[i] = p.slots[m] => i = m
  BY <1>3 DEF Shifted
<1>15. {q.slots[i] : i \in New} = {p.slots[i] : i \in Old}
  <2> HIDE DEF New, Old
  <2> QED BY <1>13
<1>16. ASSUME NEW i \in New, NEW m \in New, q.slots[i] = q.slots[m] PROVE i = m
  <2> HIDE DEF New, Old
  <2>1. CASE i # h /\ m # h
    BY <1>13, <1>14, <1>16, <2>1
  <2>2. CASE i = h /\ m # h
    <3>1. m \in Old /\ p.slots[m] = p.slots[j] /\ m # j
      BY <1>13, <1>16, <2>2 DEF New
    <3> QED BY <1>13, <1>14, <3>1
  <2>3. CASE i # h /\ m = h
    <3>1. i \in Old /\ p.slots[i] = p.slots[j] /\ i # j
      BY <1>13, <1>16, <2>3 DEF New
    <3> QED BY <1>13, <1>14, <3>1
  <2> QED BY <2>1, <2>2, <2>3
<1>17. ASSUME NEW i \in New
       PROVE  /\ Reached(t, e, q, i)
              /\ From(t.cap, e, i) <= From(t.cap, e, at) + (d + 1) => ~Crossed(t, e, q, i)
  <2>1. CASE i = h
    BY <1>10, <2>1
  <2>2. CASE i # h
    <3>1. Reached(t, e, p, i)
      BY <1>3, <1>13, <2>2 DEF Shifted
    <3>2. Reached(t, e, q, i)
      BY <1>13, <2>2, <3>1, SameReach
    <3>3. i \in 0..t.cap-1 /\ i # j
      BY <1>12
    <3>4. ASSUME From(t.cap, e, i) <= From(t.cap, e, at) + (d + 1)
          PROVE  ~(From(t.cap, e, j) < From(t.cap, e, i))
      BY <1>0, <1>1, <3>3, <3>4
    <3> QED BY <1>7, <3>2, <3>4 DEF Crossed
  <2> QED BY <2>1, <2>2
<1>18. ASSUME NEW i \in 0..t.cap-1, From(t.cap, e, at) <= From(t.cap, e, i),
              From(t.cap, e, i) <= From(t.cap, e, at) + (d + 1)
       PROVE  i \in Held(t)
  <2>1. CASE i = j
    BY <1>2, <2>1
  <2>2. CASE i # j
    <3>1. From(t.cap, e, i) <= From(t.cap, e, at) + d
      BY <1>0, <1>1, <1>18, <2>2
    <3> QED BY <1>18, <3>1 DEF Shifted
  <2> QED BY <2>1, <2>2
<1>19. /\ From(t.cap, e, at) + (d + 1) < t.cap - 1
       /\ From(t.cap, e, q.hole) <= From(t.cap, e, at) + (d + 1)
       /\ From(t.cap, e, at) <= From(t.cap, e, q.hole)
  <2>1. From(t.cap, e, j) # t.cap - 1
    BY <1>1, <1>2, FromIs
  <2> QED BY <1>1, <1>2, <1>7, <2>1
<1>20. Shifted(t, k, e, at, d + 1, q)
  <2>1. New = Held(t) \ {q.hole}
    BY <1>7
  <2> HIDE DEF New, Old
  <2> QED BY <1>2, <1>7, <1>11, <1>14, <1>15, <1>16, <1>17, <1>18, <1>19, <2>1 DEF Shifted
<1> QED BY <1>6, <1>20

\* A step of the shift.
LEMMA ShiftSteps ==
    ASSUME NEW t, TableOK(t), NEW e \in 0..t.cap-1, t.slots[e] = NoKey,
           NEW k \in Key, NEW at \in 0..t.cap-1, NEW d \in Nat, d + 1 <= t.cap - 1,
           NEW p, Shifted(t, k, e, at, d, p)
    PROVE  Shifted(t, k, e, at, d + 1, ShiftBack(t.cap, p, (at + (d + 1)) % t.cap))
<1>1. PICK c \in Nat \ {0} : c = t.cap
  BY TableIs DEF TableOK
<1>2. PICK j : j = Wrap(t.cap, at, d + 1)
  OBVIOUS
<1>3. (at + (d + 1)) % t.cap = j
  <2>1. at \in Nat /\ at \in 0..c-1 /\ d + 1 \in 0..c-1
    BY <1>1
  <2>2. at % c = at
    BY <2>1
  <2>3. (at + (d + 1)) % c = Wrap(c, at % c, d + 1)
    BY <2>1, ModSlot
  <2> QED BY <1>1, <1>2, <2>2, <2>3
<1>4. p \in Shifts(t.cap)
  BY DEF Shifted
<1>5. CASE p.end
  <2>1. [p EXCEPT !.end = TRUE] = p
    BY <1>4, <1>5 DEF Shifts
  <2>2. ShiftBack(t.cap, p, j) = p
    BY <1>5, <2>1 DEF ShiftBack
  <2>3. From(c, e, p.hole) <= From(c, e, at) + d => From(c, e, p.hole) <= From(c, e, at) + (d + 1)
    <3>1. e \in 0..c-1 /\ at \in 0..c-1 /\ p.hole \in 0..c-1
      BY <1>1, <1>4 DEF Shifts
    <3>2. From(c, e, p.hole) \in 0..c-1 /\ From(c, e, at) \in 0..c-1
      BY <3>1, FromIs
    <3> QED BY <3>2
  <2>4. Shifted(t, k, e, at, d + 1, p)
    BY <1>1, <1>5, <2>3 DEF Shifted
  <2> QED BY <1>3, <2>2, <2>4
<1>6. CASE ~p.end /\ p.slots[j] = NoKey
  <2>1. ShiftBack(t.cap, p, j) = [p EXCEPT !.end = TRUE]
    BY <1>6 DEF ShiftBack
  <2> QED BY <1>2, <1>3, <1>6, <2>1, ShiftEnds
<1>7. CASE ~p.end /\ p.slots[j] # NoKey /\ Between(Home(t, p.slots[j]), p.hole, j)
  <2>1. ShiftBack(t.cap, p, j) = p
    BY <1>7 DEF ShiftBack, Home
  <2> QED BY <1>2, <1>3, <1>7, <2>1, ShiftStays
<1>8. CASE ~p.end /\ p.slots[j] # NoKey /\ ~Between(Home(t, p.slots[j]), p.hole, j)
  <2>1. ShiftBack(t.cap, p, j) = [p EXCEPT !.slots[p.hole] = p.slots[j], !.hole = j]
    BY <1>8 DEF ShiftBack, Home
  <2>2. Shifted(t, k, e, at, d + 1, [p EXCEPT !.slots[p.hole] = p.slots[j], !.hole = j])
    BY <1>2, <1>8, ShiftMoves
  <2> QED BY <1>3, <2>1, <2>2
<1> QED BY <1>5, <1>6, <1>7, <1>8

\* The shift keeps its type.
LEMMA ShiftType ==
    ASSUME NEW c \in Nat \ {0}, NEW p \in Shifts(c), NEW j \in 0..c-1
    PROVE  ShiftBack(c, p, j) \in Shifts(c)
<1>1. [p EXCEPT !.end = TRUE] \in Shifts(c)
  BY DEF Shifts
<1>2. [p EXCEPT !.slots[p.hole] = p.slots[j], !.hole = j] \in Shifts(c)
  BY DEF Shifts
<1> QED BY <1>1, <1>2 DEF ShiftBack

\* When every slot has been looked at the hole can be left.
LEMMA ShiftDone ==
    ASSUME NEW t, TableOK(t), NEW e \in 0..t.cap-1, t.slots[e] = NoKey,
           NEW k \in Key, NEW at \in 0..t.cap-1,
           NEW p, Shifted(t, k, e, at, t.cap - 1, p),
           NEW u, u = [t EXCEPT !.slots = [p.slots EXCEPT ![p.hole] = NoKey]]
    PROVE  TableOK(u) /\ Airy(u) /\ KeysIn(u) = KeysIn(t) \ {k}
<1>1. t \in Tables /\ t.cap \in Nat \ {0}
  BY TableIs DEF TableOK
<1>2. p \in Shifts(t.cap) /\ p.hole \in 0..t.cap-1
  BY DEF Shifted, Shifts
<1>3. u = [cap |-> t.cap, slots |-> [p.slots EXCEPT ![p.hole] = NoKey]]
  BY <1>1, TableIs DEF TablesOf
<1>4. u \in Tables /\ u.cap = t.cap /\ u.slots[p.hole] = NoKey
        /\ \A i \in 0..t.cap-1 : i # p.hole => u.slots[i] = p.slots[i]
  <2>1. PICK s : s = [p.slots EXCEPT ![p.hole] = NoKey]
    OBVIOUS
  <2>2. s \in [0..t.cap-1 -> Key \cup {NoKey}] /\ s[p.hole] = NoKey
          /\ \A i \in 0..t.cap-1 : i # p.hole => s[i] = p.slots[i]
    BY <1>2, <2>1 DEF Shifts
  <2>3. u \in TablesOf(t.cap) /\ u.cap = t.cap /\ u.slots = s
    BY <1>3, <2>1, <2>2 DEF TablesOf
  <2> QED BY <1>1, <2>2, <2>3 DEF Tables
<1>5. \A i \in 0..t.cap-1 : p.slots[i] # NoKey <=> i \in Held(t)
  BY DEF Shifted
<1>6. Held(u) = Held(t) \ {p.hole}
  BY <1>1, <1>2, <1>4, <1>5, TableIs DEF Held
<1>7. \A i \in Held(u) : i \in 0..t.cap-1 /\ i # p.hole /\ u.slots[i] = p.slots[i]
  BY <1>1, <1>4, <1>6, TableIs
<1>8. KeysIn(u) = KeysIn(t) \ {k}
  <2>1. {p.slots[i] : i \in Held(u)} = KeysIn(t) \ {k}
    BY <1>6 DEF Shifted
  <2> QED BY <1>7, <2>1 DEF KeysIn
<1>9. Single(u)
  BY <1>6, <1>7 DEF Single, Shifted
<1>10. p.end
  <2>1. From(t.cap, e, at) \in Nat
    <3>1. PICK c \in Nat \ {0} : c = t.cap
      BY <1>1
    <3>2. From(c, e, at) \in 0..c-1
      BY <3>1, FromIs
    <3> QED BY <3>1, <3>2
  <2> QED BY <1>1, <2>1 DEF Shifted
<1>11. Probed(u)
  <2> SUFFICES ASSUME NEW i \in Held(u), NEW j \in 0..t.cap-1,
                      Dist(t.cap, Home(u, u.slots[i]), j) < Dist(t.cap, Home(u, u.slots[i]), i)
               PROVE  j \in Held(u)
    BY <1>4 DEF Probed
  <2>1. i \in Held(t) \ {p.hole} /\ Reached(t, e, p, i) /\ ~Crossed(t, e, p, i)
    BY <1>6, <1>10 DEF Shifted
  <2>2. p.slots[i] \in Key
    BY <1>2, <1>5, <1>7, <2>1 DEF Shifts
  <2>3. PICK a \in 0..t.cap-1 : a = Home(t, p.slots[i])
    BY <1>1, <2>2, HomeIs
  <2>4. Home(u, u.slots[i]) = a
    BY <1>4, <1>7, <2>3 DEF Home
  <2>5. From(t.cap, e, a) <= From(t.cap, e, i)
    BY <2>1, <2>3 DEF Reached
  <2>6. From(t.cap, e, a) <= From(t.cap, e, j) /\ From(t.cap, e, j) < From(t.cap, e, i)
    BY <1>1, <1>7, <2>4, <2>5, PathUp
  <2>7. j \in Held(t)
    BY <2>1, <2>3, <2>6 DEF Reached
  <2>8. j # p.hole
    BY <2>1, <2>3, <2>6 DEF Crossed
  <2> QED BY <1>6, <2>7, <2>8
<1>12. Airy(u)
  BY <1>2, <1>4 DEF Airy
<1> QED BY <1>4, <1>8, <1>9, <1>11, <1>12 DEF TableOK

\* erase takes a key out of the index: all others are found as before.
LEMMA EraseIs ==
    ASSUME NEW t, TableOK(t), Room(t), NEW k \in Key, k \in KeysIn(t)
    PROVE  /\ TableOK(IndexErase(t, k)) /\ Room(IndexErase(t, k))
           /\ KeysIn(IndexErase(t, k)) = KeysIn(t) \ {k}
<1>1. t \in Tables /\ Find(t, k)
  BY FindIs DEF TableOK
<1>2. PICK i \in 0..t.cap-1 : t.slots[i] = k
  BY <1>1, TableIs DEF KeysIn
<1>3. PICK c \in Nat \ {0} : c = t.cap
  BY <1>1, <1>2, TableIs
<1>4. PICK e \in 0..t.cap-1 : t.slots[e] = NoKey
  BY <1>3 DEF Room, Airy
<1>5. PICK at \in 0..t.cap-1 : at = At(t, k, k) /\ t.slots[at] = k
  BY <1>1, <1>2, FirstProbe
<1> DEFINE b == [slots |-> t.slots, hole |-> at, end |-> FALSE]
           g == [p \in Shifts(c) |-> [n \in Nat |-> ShiftBack(c, p, (at + n) % c)]]
           F(m) == [d \in 0..c-1 |-> IF d = 0 THEN b
                                     ELSE ShiftBack(c, m[d-1], (at + d) % c)]
           shift == CHOOSE m : m = F(m)
<1>6. b \in Shifts(c)
  BY <1>1, <1>3, <1>5, TableIs DEF Shifts
<1>7. g \in [Shifts(c) -> [Nat -> Shifts(c)]]
  <2>1. ASSUME NEW p \in Shifts(c), NEW n \in Nat
        PROVE  ShiftBack(c, p, (at + n) % c) \in Shifts(c)
    <3>1. (at + n) % c \in 0..c-1
      BY <1>3
    <3> QED BY <3>1, ShiftType
  <2> QED BY <2>1
<1>8. PICK f \in [0..c-1 -> Shifts(c)] :
         f[0] = b /\ \A n \in 1..c-1 : f[n] = g[f[n-1]][n]
  <2> HIDE DEF g, b, F, shift
  <2>1. PICK N \in Nat : N = c - 1
    OBVIOUS
  <2>2. PICK f : Run(Shifts(c), N, b, g, f)
    BY <1>6, <1>7, Iterates
  <2> QED BY <2>1, <2>2 DEF Run
<1>9. f = F(f)
  <2>1. ASSUME NEW d \in 0..c-1
        PROVE  f[d] = IF d = 0 THEN b ELSE ShiftBack(c, f[d-1], (at + d) % c)
    <3> HIDE DEF b
    <3>1. CASE d = 0
      BY <1>8, <3>1
    <3>2. CASE d # 0
      <4>1. d \in 1..c-1 /\ d \in Nat /\ f[d-1] \in Shifts(c)
        BY <3>2
      <4>2. g[f[d-1]][d] = ShiftBack(c, f[d-1], (at + d) % c)
        BY <4>1
      <4> QED BY <1>8, <3>2, <4>1, <4>2
    <3> QED BY <3>1, <3>2
  <2> QED BY <2>1
<1>10. shift = F(shift)
  <2> HIDE DEF F
  <2> QED BY <1>9
<1>11. IndexErase(t, k) = [t EXCEPT !.slots = [shift[c-1].slots EXCEPT ![shift[c-1].hole] = NoKey]]
  BY <1>1, <1>3, <1>5, Zenon DEF IndexErase, At
<1> HIDE DEF shift
<1> DEFINE S == {n \in Nat : n <= c - 1 => Shifted(t, k, e, at, n, shift[n])}
<1>12. 0 \in S
  <2>1. shift[0] = b
    <3> HIDE DEF b
    <3> QED BY <1>10
  <2>2. Shifted(t, k, e, at, 0, b)
    BY <1>4, <1>5, ShiftStarts
  <2> HIDE DEF b
  <2> QED BY <2>1, <2>2
<1>13. ASSUME NEW n \in Nat, n \in S, n + 1 <= c - 1
       PROVE  Shifted(t, k, e, at, n + 1, shift[n+1])
  <2>1. Shifted(t, k, e, at, n, shift[n])
    BY <1>13
  <2>2. shift[n+1] = ShiftBack(c, shift[n], (at + (n + 1)) % c)
    <3>1. n + 1 \in 0..c-1 /\ n + 1 # 0 /\ (n + 1) - 1 = n
      BY <1>13
    <3> HIDE DEF b
    <3> QED BY <1>10, <3>1
  <2>3. n + 1 <= t.cap - 1
    BY <1>3, <1>13
  <2>4. Shifted(t, k, e, at, n + 1, ShiftBack(t.cap, shift[n], (at + (n + 1)) % t.cap))
    BY <1>4, <2>1, <2>3, ShiftSteps
  <2> QED BY <1>3, <2>2, <2>4
<1>14. \A n \in Nat : n \in S => n + 1 \in S
  BY <1>13
<1>15. c - 1 \in S
  <2> HIDE DEF S
  <2> QED BY <1>12, <1>14, NatSetInduction, c - 1 \in Nat
<1>16. Shifted(t, k, e, at, t.cap - 1, shift[c-1])
  BY <1>3, <1>15
<1>17. PICK u, p : u = IndexErase(t, k) /\ p = shift[c-1]
  OBVIOUS
<1>18. u = [t EXCEPT !.slots = [p.slots EXCEPT ![p.hole] = NoKey]]
         /\ Shifted(t, k, e, at, t.cap - 1, p)
  BY <1>11, <1>16, <1>17
<1>19. TableOK(u) /\ Airy(u) /\ KeysIn(u) = KeysIn(t) \ {k}
  BY <1>4, <1>18, ShiftDone
<1> QED BY <1>17, <1>19 DEF Room

-----------------------------------------------------------------------------
(* Queues *)

\* A queue without its tail.
LEMMA FrontIs ==
    ASSUME NEW S, NEW q \in Seq(S), q # <<>>
    PROVE  /\ Front(q) \in Seq(S) /\ Len(Front(q)) = Len(q) - 1 /\ Len(q) \in Nat \ {0}
           /\ \A i \in 1..Len(q)-1 : Front(q)[i] = q[i]
           /\ Last(q) \in S /\ Last(q) = q[Len(q)] /\ Last(q) \in Range(q)
<1>1. Len(q) \in Nat \ {0} /\ DOMAIN q = 1..Len(q)
  BY EmptySeq
<1>2. Front(q) = SubSeq(q, 1, Len(q) - 1)
  BY DEF Front
<1>3. Last(q) = q[Len(q)] /\ Len(q) \in DOMAIN q
  BY <1>1 DEF Last
<1>4. Last(q) \in S /\ Last(q) \in Range(q)
  BY <1>1, <1>3 DEF Range
<1> QED BY <1>1, <1>2, <1>3, <1>4

\* popTail takes away the last of a queue of different keys.
LEMMA PopSeq ==
    ASSUME NEW S, NEW q \in Seq(S), q # <<>>, IsInjective(q)
    PROVE  IsInjective(Front(q)) /\ Range(Front(q)) = Range(q) \ {Last(q)}
<1>1. PICK n \in Nat \ {0} : n = Len(q)
  BY FrontIs
<1>2. /\ DOMAIN q = 1..n /\ DOMAIN Front(q) = 1..n-1
      /\ \A i \in 1..n-1 : Front(q)[i] = q[i]
      /\ Last(q) = q[n]
  BY <1>1, FrontIs
<1>3. IsInjective(Front(q))
  BY <1>2 DEF IsInjective
<1>4. \A i \in 1..n : i \in 1..n-1 \/ i = n
  OBVIOUS
<1>5. \A i \in 1..n-1 : i \in 1..n /\ i # n
  OBVIOUS
<1>6. \A i \in 1..n-1 : q[i] # Last(q)
  BY <1>2, <1>5 DEF IsInjective
<1>7. \A x \in Range(Front(q)) : x \in Range(q) \ {Last(q)}
  BY <1>2, <1>5, <1>6 DEF Range
<1>8. \A x \in Range(q) \ {Last(q)} : x \in Range(Front(q))
  BY <1>2, <1>4 DEF Range
<1> QED BY <1>3, <1>7, <1>8

\* pushHead puts a key before a queue it is not in.
LEMMA PushSeq ==
    ASSUME NEW S, NEW q \in Seq(S), NEW k \in S
    PROVE  /\ <<k>> \o q \in Seq(S) /\ Len(<<k>> \o q) = Len(q) + 1
           /\ (<<k>> \o q)[1] = k /\ \A i \in 1..Len(q) : (<<k>> \o q)[i+1] = q[i]
           /\ Range(<<k>> \o q) = Range(q) \cup {k}
           /\ IsInjective(q) /\ k \notin Range(q) => IsInjective(<<k>> \o q)
<1>0. PICK n \in Nat : n = Len(q)
  OBVIOUS
<1>1. PICK p : p = <<k>> \o q
  OBVIOUS
<1>2. p \in Seq(S) /\ Len(p) = n + 1 /\ DOMAIN p = 1..n+1 /\ DOMAIN q = 1..n
  BY <1>0, <1>1
<1>3. p[1] = k /\ \A i \in 1..n : p[i+1] = q[i]
  BY <1>0, <1>1
<1>4. \A i \in 1..n+1 : i = 1 \/ (i - 1 \in 1..n /\ p[i] = q[i-1])
  BY <1>3
<1>5. Range(p) = Range(q) \cup {k}
  <2>1. \A x \in Range(p) : x \in Range(q) \cup {k}
    <3> TAKE x \in Range(p)
    <3>1. PICK i \in 1..n+1 : x = p[i]
      BY <1>2 DEF Range
    <3>2. CASE i = 1
      BY <1>3, <3>1, <3>2
    <3>3. CASE i # 1
      <4>1. i - 1 \in 1..n /\ x = q[i-1]
        BY <1>4, <3>1, <3>3
      <4> QED BY <1>2, <4>1 DEF Range
    <3> QED BY <3>2, <3>3
  <2>2. \A x \in Range(q) : x \in Range(p)
    <3> TAKE x \in Range(q)
    <3>1. PICK i \in 1..n : x = q[i]
      BY <1>2 DEF Range
    <3>2. i + 1 \in 1..n+1 /\ p[i+1] = x
      BY <1>3, <3>1
    <3> QED BY <1>2, <3>2 DEF Range
  <2>3. k \in Range(p)
    BY <1>2, <1>3, 1 \in 1..n+1 DEF Range
  <2> QED BY <2>1, <2>2, <2>3
<1>6. ASSUME IsInjective(q), k \notin Range(q) PROVE IsInjective(p)
  <2>1. \A i \in 1..n : q[i] # k
    BY <1>2, <1>6 DEF Range
  <2>2. ASSUME NEW i \in 1..n+1, NEW j \in 1..n+1, p[i] = p[j] PROVE i = j
    <3>1. CASE i = 1 \/ j = 1
      BY <1>3, <1>4, <2>1, <2>2, <3>1
    <3>2. CASE i # 1 /\ j # 1
      <4>1. i - 1 \in 1..n /\ j - 1 \in 1..n /\ q[i-1] = q[j-1]
        BY <1>4, <2>2, <3>2
      <4>2. i - 1 = j - 1
        BY <1>2, <1>6, <4>1 DEF IsInjective
      <4> QED BY <4>2
    <3> QED BY <3>1, <3>2
  <2> QED BY <1>2, <2>2 DEF IsInjective
<1> QED BY <1>0, <1>1, <1>2, <1>3, <1>5, <1>6

\* remove takes a key out of a queue of different keys.
LEMMA WithoutSeq ==
    ASSUME NEW S, NEW q \in Seq(S), IsInjective(q), NEW k \in Range(q)
    PROVE  /\ Without(q, k) \in Seq(S) /\ IsInjective(Without(q, k))
           /\ Range(Without(q, k)) = Range(q) \ {k}
<1>1. PICK n \in Nat : n = Len(q) /\ DOMAIN q = 1..n
  OBVIOUS
<1>2. PICK m \in 1..n : m = (CHOOSE i \in DOMAIN q : q[i] = k) /\ q[m] = k
  BY <1>1 DEF Range
<1>3. PICK a, b : a = SubSeq(q, 1, m - 1) /\ b = SubSeq(q, m + 1, n)
  OBVIOUS
<1>4. /\ a \in Seq(S) /\ Len(a) = m - 1 /\ \A i \in 1..m-1 : a[i] = q[i]
      /\ b \in Seq(S) /\ Len(b) = n - m /\ \A i \in 1..n-m : b[i] = q[m+i]
  <2>1. \A i \in 1..n : q[i] \in S
    BY <1>1
  <2>2. /\ a \in Seq(S) /\ Len(a) = (IF 1 <= m - 1 THEN (m-1)-1+1 ELSE 0)
        /\ \A i \in 1..(m-1)-1+1 : a[i] = q[1+i-1]
    <3>1. \A i \in 1..(m-1) : q[i] \in S
      BY <2>1
    <3> QED BY <1>3, <3>1, SubSeqProperties, 1 \in Int, m - 1 \in Int
  <2>3. /\ b \in Seq(S) /\ Len(b) = (IF m + 1 <= n THEN n-(m+1)+1 ELSE 0)
        /\ \A i \in 1..n-(m+1)+1 : b[i] = q[(m+1)+i-1]
    <3>1. \A i \in (m+1)..n : q[i] \in S
      BY <2>1
    <3> QED BY <1>3, <3>1, SubSeqProperties, m + 1 \in Int, n \in Int
  <2> QED BY <2>2, <2>3
<1>5. PICK p : p = a \o b
  OBVIOUS
<1>6. Without(q, k) = p
  BY <1>1, <1>2, <1>3, <1>5 DEF Without, RemoveAt
<1>7. p \in Seq(S) /\ Len(p) = n - 1 /\ DOMAIN p = 1..n-1
  <2>1. p \in Seq(S) /\ Len(p) = Len(a) + Len(b)
    BY <1>4, <1>5, ConcatProperties
  <2>2. Len(p) = n - 1
    BY <1>4, <2>1
  <2> QED BY <2>1, <2>2
<1>8. \A i \in 1..n-1 : p[i] = IF i < m THEN q[i] ELSE q[i+1]
  <2> TAKE i \in 1..n-1
  <2>1. CASE i < m
    BY <1>4, <1>5, <2>1
  <2>2. CASE ~(i < m)
    <3>1. i - (m - 1) \in 1..n-m /\ p[i] = b[i - (m - 1)]
      BY <1>4, <1>5, <2>2
    <3>2. m + (i - (m - 1)) = i + 1
      OBVIOUS
    <3> QED BY <1>4, <2>2, <3>1, <3>2
  <2> QED BY <2>1, <2>2
<1>9. \A i \in 1..n-1 : \E j \in 1..n : j # m /\ p[i] = q[j]
  BY <1>8
<1>10. ASSUME NEW j \in 1..n, j # m PROVE \E i \in 1..n-1 : p[i] = q[j]
  <2>1. CASE j < m
    <3>1. j \in 1..n-1 /\ p[j] = q[j]
      BY <1>8, <2>1
    <3> QED BY <3>1
  <2>2. CASE ~(j < m)
    <3>1. j - 1 \in 1..n-1 /\ p[j-1] = q[j]
      BY <1>8, <1>10, <2>2
    <3> QED BY <3>1
  <2> QED BY <2>1, <2>2
<1>11. \A j \in 1..n : j # m => q[j] # k
  BY <1>1, <1>2 DEF IsInjective
<1>12. Range(p) = Range(q) \ {k}
  <2>1. \A x \in Range(p) : x \in Range(q) \ {k}
    <3> TAKE x \in Range(p)
    <3>1. PICK i \in 1..n-1 : x = p[i]
      BY <1>7 DEF Range
    <3>2. PICK j \in 1..n : j # m /\ x = q[j]
      BY <1>9, <3>1
    <3> QED BY <1>1, <1>11, <3>2 DEF Range
  <2>2. ASSUME NEW x \in Range(q), x # k PROVE x \in Range(p)
    <3>1. PICK j \in 1..n : x = q[j] /\ j # m
      BY <1>1, <1>2, <2>2 DEF Range
    <3> QED BY <1>7, <1>10, <3>1 DEF Range
  <2> QED BY <2>1, <2>2
<1>13. ASSUME NEW i \in 1..n-1, NEW j \in 1..n-1, p[i] = p[j] PROVE i = j
  <2>1. PICK x \in 1..n : x = (IF i < m THEN i ELSE i + 1) /\ p[i] = q[x]
    BY <1>8
  <2>2. PICK y \in 1..n : y = (IF j < m THEN j ELSE j + 1) /\ p[j] = q[y]
    BY <1>8
  <2>3. x = y
    BY <1>1, <1>13, <2>1, <2>2 DEF IsInjective
  <2> QED BY <2>1, <2>2, <2>3
<1>14. IsInjective(p)
  BY <1>7, <1>13 DEF IsInjective
<1> QED BY <1>6, <1>7, <1>12, <1>14

-----------------------------------------------------------------------------
(* What holds of a shard between two operations, and inside one of them *)

Shards == [index : Tables, small : Seq(Key), main : Seq(Key),
           entry : [Key -> Entry \cup {None}], ghost : Seq(Nat), ghostSet : SUBSET Nat]

\* The keys a queue should hold, those of K being out of every queue.
In(s, q, K) == {j \in Key \ K : s.entry[j].queue = q}

Linked(s, K) ==
    /\ IsInjective(s.small) /\ Range(s.small) = In(s, "small", K)
    /\ IsInjective(s.main) /\ Range(s.main) = In(s, "main", K)

Indexed(s) == TableOK(s.index) /\ Room(s.index) /\ KeysIn(s.index) = Resident(s)

Remembers(s) == IsInjective(s.ghost) /\ s.ghostSet = Range(s.ghost)

GoodBut(s, K) == s \in Shards /\ Linked(s, K) /\ Indexed(s) /\ Remembers(s)

Good(s) == GoodBut(s, {})

\* Two entries that differ in no more than the queue they are in.
Same(d, e) == d.pending = e.pending /\ d.freq = e.freq /\ d.charge = e.charge

\* The entries of the other keys are as they were.
Others(s, t, k) == \A j \in Key : j # k => t.entry[j] = s.entry[j]

\* The fields of a shard.
LEMMA ShardIs ==
    ASSUME NEW s \in Shards
    PROVE  /\ s.index \in Tables /\ s.small \in Seq(Key) /\ s.main \in Seq(Key)
           /\ s.entry \in [Key -> Entry \cup {None}]
           /\ s.ghost \in Seq(Nat) /\ s.ghostSet \subseteq Nat
BY DEF Shards

\* A resident key is one with an entry, and its flag names a queue.
LEMMA ResidentIs ==
    ASSUME NEW s \in Shards, NEW k \in Key
    PROVE  /\ k \in Resident(s) <=> s.entry[k] \in Entry
           /\ k \in Resident(s) <=> s.entry[k].queue \in {"small", "main"}
           /\ k \notin Resident(s) => s.entry[k] = None /\ s.entry[k].queue = "none"
<1>1. s.entry[k] \in Entry \cup {None}
  BY DEF Shards
<1>2. None.queue = "none" /\ None \notin Entry
  BY DEF None, Entry
<1>3. s.entry[k] \in Entry => s.entry[k].queue \in {"small", "main"}
  BY DEF Entry
<1> QED BY <1>1, <1>2, <1>3 DEF Resident

\* The fields of an entry.
LEMMA EntryIs ==
    ASSUME NEW e \in Entry
    PROVE  /\ e.pending \in 0..Word-1 /\ e.freq \in 0..MaxFreq /\ e.charge \in Charges
           /\ e.charge \in Nat \ {0} /\ e.queue \in {"small", "main"}
BY Sizes DEF Entry

\* The flag of an entry tells where it is linked.
LEMMA LinkedIs ==
    ASSUME NEW s, Good(s)
    PROVE  /\ Range(s.small) \cap Range(s.main) = {}
           /\ Range(s.small) \cup Range(s.main) = Resident(s)
           /\ Range(s.small) \subseteq Resident(s) /\ Range(s.main) \subseteq Resident(s)
           /\ Resident(s) \subseteq Key
<1>1. s \in Shards /\ Range(s.small) = In(s, "small", {}) /\ Range(s.main) = In(s, "main", {})
  BY DEF Good, GoodBut, Linked
<1>2. \A k \in Key : k \in Resident(s) <=> s.entry[k].queue \in {"small", "main"}
  BY <1>1, ResidentIs
<1>3. Resident(s) \subseteq Key
  BY DEF Resident
<1> QED BY <1>1, <1>2, <1>3 DEF In

\* A shard with a new value of one entry.
Touch(s, k, e) == [s EXCEPT !.entry = [s.entry EXCEPT ![k] = e]]

\* A new value of an entry that stays in its queue, or is in none.
LEMMA TouchIs ==
    ASSUME NEW s, NEW K, GoodBut(s, K), NEW k \in Resident(s), NEW e \in Entry,
           e.queue = s.entry[k].queue \/ k \in K,
           NEW t, t = Touch(s, k, e)
    PROVE  /\ GoodBut(t, K) /\ Resident(t) = Resident(s)
           /\ t.small = s.small /\ t.main = s.main /\ t.ghostSet = s.ghostSet
           /\ t.entry[k] = e /\ Others(s, t, k)
<1>1. s \in Shards /\ k \in Key
  BY DEF GoodBut, Resident
<1>2. /\ t.index = s.index /\ t.small = s.small /\ t.main = s.main /\ t.ghost = s.ghost
      /\ t.ghostSet = s.ghostSet /\ t.entry = [s.entry EXCEPT ![k] = e] /\ t \in Shards
  BY <1>1 DEF Shards, Touch
<1>3. t.entry[k] = e /\ \A j \in Key : j # k => t.entry[j] = s.entry[j]
  BY <1>1, <1>2, ShardIs
<1>4. Resident(t) = Resident(s)
  <2>1. e # None
    BY DEF Entry, None
  <2>2. \A j \in Key : t.entry[j] # None <=> s.entry[j] # None
    BY <1>3, <2>1 DEF Resident
  <2> QED BY <2>2 DEF Resident
<1>5. \A j \in Key \ K : t.entry[j].queue = s.entry[j].queue
  BY <1>3
<1>6. In(t, "small", K) = In(s, "small", K) /\ In(t, "main", K) = In(s, "main", K)
  BY <1>5 DEF In
<1>7. Linked(t, K)
  BY <1>2, <1>6 DEF Linked, GoodBut
<1>8. Indexed(t) /\ Remembers(t)
  BY <1>2, <1>4 DEF Indexed, Remembers, GoodBut
<1> QED BY <1>2, <1>3, <1>4, <1>7, <1>8 DEF GoodBut, Others

\* The tail of small leaves its queue.
LEMMA PopSmallIs ==
    ASSUME NEW s, Good(s), s.small # <<>>,
           NEW k, k = Last(s.small), NEW t, t = [s EXCEPT !.small = Front(@)]
    PROVE  /\ GoodBut(t, {k}) /\ k \in Resident(s) /\ k \in Range(s.small)
           /\ Resident(t) = Resident(s) /\ t.entry = s.entry
           /\ t.small = Front(s.small) /\ t.main = s.main
<1>1. s \in Shards /\ Linked(s, {}) /\ Indexed(s) /\ Remembers(s)
  BY DEF Good, GoodBut
<1>2. /\ Front(s.small) \in Seq(Key) /\ k \in Range(s.small) /\ k \in Key
      /\ IsInjective(Front(s.small)) /\ Range(Front(s.small)) = Range(s.small) \ {k}
  BY <1>1, FrontIs, PopSeq, ShardIs DEF Linked
<1>3. /\ t.index = s.index /\ t.small = Front(s.small) /\ t.main = s.main
      /\ t.ghost = s.ghost /\ t.ghostSet = s.ghostSet /\ t.entry = s.entry /\ t \in Shards
  BY <1>1, <1>2 DEF Shards
<1>4. Resident(t) = Resident(s)
  BY <1>3 DEF Resident
<1>5. k \in Resident(s) /\ s.entry[k].queue = "small"
  BY <1>1, <1>2, LinkedIs DEF Linked, In
<1>6. /\ In(t, "small", {k}) = In(s, "small", {}) \ {k}
      /\ In(t, "main", {k}) = In(s, "main", {})
  BY <1>3, <1>5 DEF In
<1>7. Linked(t, {k})
  BY <1>1, <1>2, <1>3, <1>6 DEF Linked
<1>8. Indexed(t) /\ Remembers(t)
  BY <1>1, <1>3, <1>4 DEF Indexed, Remembers
<1> QED BY <1>2, <1>3, <1>4, <1>5, <1>7, <1>8 DEF GoodBut

\* The tail of main leaves its queue.
LEMMA PopMainIs ==
    ASSUME NEW s, Good(s), s.main # <<>>,
           NEW k, k = Last(s.main), NEW t, t = [s EXCEPT !.main = Front(@)]
    PROVE  /\ GoodBut(t, {k}) /\ k \in Resident(s) /\ k \in Range(s.main)
           /\ Resident(t) = Resident(s) /\ t.entry = s.entry
           /\ t.main = Front(s.main) /\ t.small = s.small
<1>1. s \in Shards /\ Linked(s, {}) /\ Indexed(s) /\ Remembers(s)
  BY DEF Good, GoodBut
<1>2. /\ Front(s.main) \in Seq(Key) /\ k \in Range(s.main) /\ k \in Key
      /\ IsInjective(Front(s.main)) /\ Range(Front(s.main)) = Range(s.main) \ {k}
  BY <1>1, FrontIs, PopSeq, ShardIs DEF Linked
<1>3. /\ t.index = s.index /\ t.main = Front(s.main) /\ t.small = s.small
      /\ t.ghost = s.ghost /\ t.ghostSet = s.ghostSet /\ t.entry = s.entry /\ t \in Shards
  BY <1>1, <1>2 DEF Shards
<1>4. Resident(t) = Resident(s)
  BY <1>3 DEF Resident
<1>5. k \in Resident(s) /\ s.entry[k].queue = "main"
  BY <1>1, <1>2, LinkedIs DEF Linked, In
<1>6. /\ In(t, "main", {k}) = In(s, "main", {}) \ {k}
      /\ In(t, "small", {k}) = In(s, "small", {})
  BY <1>3, <1>5 DEF In
<1>7. Linked(t, {k})
  BY <1>1, <1>2, <1>3, <1>6 DEF Linked
<1>8. Indexed(t) /\ Remembers(t)
  BY <1>1, <1>3, <1>4 DEF Indexed, Remembers
<1> QED BY <1>2, <1>3, <1>4, <1>5, <1>7, <1>8 DEF GoodBut

\* An entry leaves the queue its flag names.
LEMMA UnlinkIs ==
    ASSUME NEW s, Good(s), NEW k \in Resident(s), NEW t, t = Unlink(s, k)
    PROVE  GoodBut(t, {k}) /\ Resident(t) = Resident(s) /\ t.entry = s.entry
<1>1. s \in Shards /\ Linked(s, {}) /\ Indexed(s) /\ Remembers(s) /\ k \in Key
  BY DEF Good, GoodBut, Resident
<1>2. s.entry[k].queue \in {"small", "main"}
  BY <1>1, ResidentIs
<1>3. CASE s.entry[k].queue = "small"
  <2>1. k \in Range(s.small)
    BY <1>1, <1>3 DEF Linked, In
  <2>2. /\ Without(s.small, k) \in Seq(Key) /\ IsInjective(Without(s.small, k))
        /\ Range(Without(s.small, k)) = Range(s.small) \ {k}
    BY <1>1, <2>1, WithoutSeq, ShardIs DEF Linked
  <2>3. t = [s EXCEPT !.small = Without(s.small, k)]
    BY <1>1, <1>3 DEF Unlink
  <2>4. /\ t.index = s.index /\ t.small = Without(s.small, k) /\ t.main = s.main
        /\ t.ghost = s.ghost /\ t.ghostSet = s.ghostSet /\ t.entry = s.entry /\ t \in Shards
    BY <1>1, <2>2, <2>3 DEF Shards
  <2>5. /\ In(t, "small", {k}) = In(s, "small", {}) \ {k}
        /\ In(t, "main", {k}) = In(s, "main", {})
    BY <1>3, <2>4 DEF In
  <2>6. Linked(t, {k}) /\ Resident(t) = Resident(s)
    BY <1>1, <2>2, <2>4, <2>5 DEF Linked, Resident
  <2> QED BY <1>1, <2>4, <2>6 DEF GoodBut, Indexed, Remembers
<1>4. CASE s.entry[k].queue = "main"
  <2>1. k \in Range(s.main)
    BY <1>1, <1>4 DEF Linked, In
  <2>2. /\ Without(s.main, k) \in Seq(Key) /\ IsInjective(Without(s.main, k))
        /\ Range(Without(s.main, k)) = Range(s.main) \ {k}
    BY <1>1, <2>1, WithoutSeq, ShardIs DEF Linked
  <2>3. t = [s EXCEPT !.main = Without(s.main, k)]
    BY <1>1, <1>4 DEF Unlink
  <2>4. /\ t.index = s.index /\ t.main = Without(s.main, k) /\ t.small = s.small
        /\ t.ghost = s.ghost /\ t.ghostSet = s.ghostSet /\ t.entry = s.entry /\ t \in Shards
    BY <1>1, <2>2, <2>3 DEF Shards
  <2>5. /\ In(t, "main", {k}) = In(s, "main", {}) \ {k}
        /\ In(t, "small", {k}) = In(s, "small", {})
    BY <1>4, <2>4 DEF In
  <2>6. Linked(t, {k}) /\ Resident(t) = Resident(s)
    BY <1>1, <2>2, <2>4, <2>5 DEF Linked, Resident
  <2> QED BY <1>1, <2>4, <2>6 DEF GoodBut, Indexed, Remembers
<1> QED BY <1>2, <1>3, <1>4

\* An entry that is in no queue leaves the index and is destroyed.
LEMMA FreeIs ==
    ASSUME NEW s, NEW k \in Resident(s), NEW K, K = {k}, GoodBut(s, K), NEW t, t = Free(s, k)
    PROVE  /\ Good(t) /\ Resident(t) = Resident(s) \ {k}
           /\ t.small = s.small /\ t.main = s.main
           /\ Others(s, t, k)
<1>1. s \in Shards /\ Linked(s, {k}) /\ Indexed(s) /\ Remembers(s) /\ k \in Key
  BY DEF GoodBut, Resident
<1>2. PICK x : x = IndexErase(s.index, k)
  OBVIOUS
<1>3. TableOK(x) /\ Room(x) /\ KeysIn(x) = Resident(s) \ {k}
  BY <1>1, <1>2, EraseIs DEF Indexed
<1>4. t = [s EXCEPT !.index = x, !.entry = [s.entry EXCEPT ![k] = None]]
  BY <1>1, <1>2 DEF Free, Shards
<1>5. /\ t.index = x /\ t.small = s.small /\ t.main = s.main /\ t.ghost = s.ghost
      /\ t.ghostSet = s.ghostSet /\ t.entry = [s.entry EXCEPT ![k] = None] /\ t \in Shards
  BY <1>1, <1>3, <1>4 DEF Shards, TableOK
<1>6. t.entry[k] = None /\ \A j \in Key : j # k => t.entry[j] = s.entry[j]
  BY <1>1, <1>5, ShardIs
<1>7. Resident(t) = Resident(s) \ {k}
  BY <1>6 DEF Resident
<1>8. None.queue = "none"
  BY DEF None
<1>9. /\ In(t, "small", {}) = In(s, "small", {k}) /\ In(t, "main", {}) = In(s, "main", {k})
  BY <1>6, <1>8 DEF In
<1>10. Linked(t, {})
  BY <1>1, <1>5, <1>9 DEF Linked
<1>11. Indexed(t) /\ Remembers(t)
  BY <1>1, <1>3, <1>5, <1>7 DEF Indexed, Remembers
<1> QED BY <1>5, <1>6, <1>7, <1>10, <1>11 DEF Good, GoodBut, Others

\* An entry that is in no queue goes to the head of one.
LEMMA PushIs ==
    ASSUME NEW s, NEW k \in Resident(s), NEW K, K = {k}, GoodBut(s, K),
           NEW q \in {"small", "main"},
           NEW t, t = PushHead(s, q, k)
    PROVE  /\ Good(t) /\ Resident(t) = Resident(s)
           /\ t.small = (IF q = "small" THEN <<k>> \o s.small ELSE s.small)
           /\ t.main = (IF q = "main" THEN <<k>> \o s.main ELSE s.main)
           /\ Same(t.entry[k], s.entry[k])
           /\ Others(s, t, k)
<1>1. s \in Shards /\ Linked(s, {k}) /\ Indexed(s) /\ Remembers(s) /\ k \in Key
  BY DEF GoodBut, Resident
<1>2. PICK e : e = [s.entry[k] EXCEPT !.queue = q]
  OBVIOUS
<1>3. e \in Entry /\ e.queue = q /\ Same(e, s.entry[k])
  BY <1>1, <1>2, ResidentIs DEF Entry, Same
<1>4. PICK a, b : /\ a = (IF q = "small" THEN <<k>> \o s.small ELSE s.small)
                  /\ b = (IF q = "main" THEN <<k>> \o s.main ELSE s.main)
  OBVIOUS
<1>5. t = [s EXCEPT !.small = a, !.main = b, !.entry = [s.entry EXCEPT ![k] = e]]
  BY <1>1, <1>2, <1>4 DEF PushHead, Shards
<1>6. k \notin Range(s.small) /\ k \notin Range(s.main)
  BY <1>1 DEF Linked, In
<1>7. /\ a \in Seq(Key) /\ IsInjective(a) /\ b \in Seq(Key) /\ IsInjective(b)
      /\ Range(a) = (IF q = "small" THEN Range(s.small) \cup {k} ELSE Range(s.small))
      /\ Range(b) = (IF q = "main" THEN Range(s.main) \cup {k} ELSE Range(s.main))
  <2>1. s.small \in Seq(Key) /\ s.main \in Seq(Key)
    BY <1>1, ShardIs
  <2>2. IsInjective(s.small) /\ IsInjective(s.main)
    BY <1>1 DEF Linked
  <2>3. CASE q = "small"
    <3>1. a = <<k>> \o s.small /\ b = s.main
      BY <1>4, <2>3
    <3>2. a \in Seq(Key) /\ IsInjective(a) /\ Range(a) = Range(s.small) \cup {k}
      BY <1>1, <1>6, <2>1, <2>2, <3>1, PushSeq
    <3> QED BY <2>1, <2>2, <2>3, <3>1, <3>2
  <2>4. CASE q = "main"
    <3>1. b = <<k>> \o s.main /\ a = s.small
      BY <1>4, <2>4
    <3>2. b \in Seq(Key) /\ IsInjective(b) /\ Range(b) = Range(s.main) \cup {k}
      BY <1>1, <1>6, <2>1, <2>2, <3>1, PushSeq
    <3> QED BY <2>1, <2>2, <2>4, <3>1, <3>2
  <2> QED BY <2>3, <2>4
<1>8. /\ t.index = s.index /\ t.small = a /\ t.main = b /\ t.ghost = s.ghost
      /\ t.ghostSet = s.ghostSet /\ t.entry = [s.entry EXCEPT ![k] = e] /\ t \in Shards
  <2>1. a \in Seq(Key) /\ b \in Seq(Key)
    BY <1>7
  <2>2. [s.entry EXCEPT ![k] = e] \in [Key -> Entry \cup {None}]
    BY <1>1, <1>3, ShardIs
  <2> QED BY <1>1, <1>5, <2>1, <2>2 DEF Shards
<1>9. t.entry[k] = e /\ \A j \in Key : j # k => t.entry[j] = s.entry[j]
  BY <1>1, <1>8, ShardIs
<1>10. Resident(t) = Resident(s)
  <2>1. e # None
    BY <1>3 DEF Entry, None
  <2> QED BY <1>9, <2>1 DEF Resident
<1>11. /\ In(t, "small", {}) = (IF q = "small" THEN In(s, "small", {k}) \cup {k} ELSE In(s, "small", {k}))
       /\ In(t, "main", {}) = (IF q = "main" THEN In(s, "main", {k}) \cup {k} ELSE In(s, "main", {k}))
  <2>1. \A j \in Key \ {k} : t.entry[j].queue = s.entry[j].queue
    BY <1>9
  <2>2. t.entry[k].queue = q
    BY <1>3, <1>9
  <2>3. CASE q = "small"
    BY <1>1, <2>1, <2>2, <2>3 DEF In
  <2>4. CASE q = "main"
    BY <1>1, <2>1, <2>2, <2>4 DEF In
  <2> QED BY <2>3, <2>4
<1>12. Linked(t, {})
  <2>1. Range(a) = In(t, "small", {}) /\ Range(b) = In(t, "main", {})
    BY <1>1, <1>7, <1>11 DEF Linked
  <2> QED BY <1>7, <1>8, <2>1 DEF Linked
<1>13. Indexed(t) /\ Remembers(t)
  BY <1>1, <1>8, <1>10 DEF Indexed, Remembers
<1> QED BY <1>3, <1>4, <1>8, <1>9, <1>10, <1>12, <1>13 DEF Good, GoodBut, Others

\* ghostAdd changes no more than the ghosts, which stay a queue and its set.
LEMMA GhostAddIs ==
    ASSUME NEW s, NEW K, GoodBut(s, K), NEW h \in Nat, NEW t, t = GhostAdd(s, h)
    PROVE  /\ GoodBut(t, K) /\ Resident(t) = Resident(s)
           /\ t.small = s.small /\ t.main = s.main /\ t.entry = s.entry
<1>1. s \in Shards /\ Linked(s, K) /\ Indexed(s) /\ Remembers(s)
  BY DEF GoodBut
<1>2. CASE h \in s.ghostSet
  <2>1. t = s
    BY <1>2 DEF GhostAdd
  <2> QED BY <2>1
<1>3. CASE h \notin s.ghostSet
  <2>1. PICK n \in Nat : n = Len(s.ghost) /\ s.ghost \in Seq(Nat) /\ DOMAIN s.ghost = 1..n
    BY <1>1, ShardIs
  <2>2. PICK cap \in Nat \ {0} :
             cap = IF Len(s.main) > GhostFloor THEN Len(s.main) ELSE GhostFloor
    BY <1>1, Sizes, ShardIs
  <2>3. PICK g : g = Append(s.ghost, h)
    OBVIOUS
  <2>4. /\ g \in Seq(Nat) /\ Len(g) = n + 1 /\ g[n+1] = h /\ DOMAIN g = 1..n+1
        /\ \A i \in 1..n : g[i] = s.ghost[i]
    BY <2>1, <2>3
  <2>5. PICK out \in 0..n : out = IF Len(g) > cap THEN Len(g) - cap ELSE 0
    BY <2>2, <2>4
  <2>6. PICK u : u = SubSeq(g, out + 1, n + 1)
    OBVIOUS
  <2>7. t = [s EXCEPT !.ghost = u, !.ghostSet = (s.ghostSet \cup {h}) \ {g[i] : i \in 1..out}]
    <3>1. t = [s EXCEPT !.ghost = SubSeq(g, out + 1, Len(g)),
                        !.ghostSet = (@ \cup {h}) \ {g[i] : i \in 1..out}]
      BY <1>3, <2>2, <2>3, <2>5, Zenon DEF GhostAdd
    <3>2. SubSeq(g, out + 1, Len(g)) = u
      BY <2>4, <2>6
    <3> QED BY <3>1, <3>2, Zenon
  <2>8. /\ u \in Seq(Nat) /\ Len(u) = (n + 1) - out /\ DOMAIN u = 1..(n+1)-out
        /\ \A i \in 1..(n+1)-out : u[i] = g[out+i]
    <3>1. \A i \in (out+1)..(n+1) : g[i] \in Nat
      BY <2>4
    <3>2. /\ u \in Seq(Nat) /\ Len(u) = (IF out + 1 <= n + 1 THEN (n+1)-(out+1)+1 ELSE 0)
          /\ \A i \in 1..(n+1)-(out+1)+1 : u[i] = g[(out+1)+i-1]
      BY <2>6, <3>1, SubSeqProperties, out + 1 \in Int, n + 1 \in Int
    <3>3. Len(u) = (n + 1) - out
      BY <3>2
    <3>4. \A i \in 1..(n+1)-out : (out+1)+i-1 = out+i /\ i \in 1..(n+1)-(out+1)+1
      OBVIOUS
    <3> QED BY <3>2, <3>3, <3>4
  <2>9. \A i, j \in 1..n+1 : g[i] = g[j] => i = j
    <3>1. \A i \in 1..n : g[i] # h
      BY <1>1, <1>3, <2>1, <2>4 DEF Remembers, Range
    <3>2. \A i, j \in 1..n : g[i] = g[j] => i = j
      BY <1>1, <2>1, <2>4 DEF Remembers, IsInjective
    <3>3. \A i \in 1..n+1 : i \in 1..n \/ i = n + 1
      OBVIOUS
    <3> QED BY <2>4, <3>1, <3>2, <3>3
  <2>10. IsInjective(u)
    <3>1. ASSUME NEW i \in 1..(n+1)-out, NEW j \in 1..(n+1)-out, u[i] = u[j] PROVE i = j
      <4>1. out + i \in 1..n+1 /\ out + j \in 1..n+1 /\ g[out+i] = g[out+j]
        BY <2>8, <3>1
      <4>2. out + i = out + j
        BY <2>9, <4>1
      <4> QED BY <4>2
    <3> QED BY <2>8, <3>1 DEF IsInjective
  <2>11. Range(u) = (s.ghostSet \cup {h}) \ {g[i] : i \in 1..out}
    <3>1. s.ghostSet \cup {h} = {g[i] : i \in 1..n+1}
      <4>1. s.ghostSet = {g[i] : i \in 1..n}
        BY <1>1, <2>1, <2>4 DEF Remembers, Range
      <4>2. \A i \in 1..n+1 : i \in 1..n \/ i = n + 1
        OBVIOUS
      <4>3. \A i \in 1..n : i \in 1..n+1
        OBVIOUS
      <4>4. n + 1 \in 1..n+1
        OBVIOUS
      <4>5. \A x : x \in {g[i] : i \in 1..n+1} <=> x \in {g[i] : i \in 1..n} \/ x = h
        BY <2>4, <4>2, <4>3, <4>4
      <4> QED BY <4>1, <4>5
    <3>2. ASSUME NEW x \in Range(u)
          PROVE  x \in {g[i] : i \in 1..n+1} /\ x \notin {g[i] : i \in 1..out}
      <4>1. PICK i \in 1..(n+1)-out : x = u[i]
        BY <2>8 DEF Range
      <4>2. out + i \in 1..n+1 /\ x = g[out+i]
        BY <2>8, <4>1
      <4>3. \A j \in 1..out : j \in 1..n+1 /\ j # out + i
        OBVIOUS
      <4> QED BY <2>9, <4>2, <4>3
    <3>3. ASSUME NEW i \in 1..n+1, g[i] \notin {g[j] : j \in 1..out}
          PROVE  g[i] \in Range(u)
      <4>1. i \notin 1..out
        BY <3>3
      <4>2. i - out \in 1..(n+1)-out /\ out + (i - out) = i
        BY <4>1
      <4>3. u[i - out] = g[i]
        BY <2>8, <4>2
      <4> QED BY <2>8, <4>2, <4>3 DEF Range
    <3> QED BY <3>1, <3>2, <3>3
  <2>12. /\ t.index = s.index /\ t.small = s.small /\ t.main = s.main /\ t.entry = s.entry
         /\ t.ghost = u /\ t.ghostSet = Range(u) /\ t \in Shards
    <3>1. Range(u) \in SUBSET Nat
      BY <2>8 DEF Range
    <3>2. t = [s EXCEPT !.ghost = u, !.ghostSet = Range(u)]
      BY <2>7, <2>11
    <3> QED BY <1>1, <2>8, <3>1, <3>2 DEF Shards
  <2>13. Resident(t) = Resident(s) /\ Linked(t, K)
    BY <1>1, <2>12 DEF Resident, Linked, In
  <2>14. Indexed(t) /\ Remembers(t)
    BY <1>1, <2>10, <2>12, <2>13 DEF Indexed, Remembers
  <2> QED BY <2>12, <2>13, <2>14 DEF GoodBut
<1> QED BY <1>2, <1>3

\* insert links a new entry, in the index and in a queue.
LEMMA ShardInsertIs ==
    ASSUME NEW s, Good(s), NEW k \in Key, k \notin Resident(s), NEW e \in Entry,
           NEW t, t = Insert(s, k, e)
    PROVE  /\ Good(t) /\ Resident(t) = Resident(s) \cup {k}
           /\ t.entry[k].pending = e.pending
           /\ Others(s, t, k)
<1>1. s \in Shards /\ Linked(s, {}) /\ Indexed(s) /\ Remembers(s)
  BY DEF Good, GoodBut
<1>2. PICK x : x = IndexInsert(s.index, k)
  OBVIOUS
<1>3. TableOK(x) /\ Room(x) /\ KeysIn(x) = Resident(s) \cup {k}
  BY <1>1, <1>2, InsertIs DEF Indexed, Room
<1>4. PICK u : u = [s EXCEPT !.entry = [s.entry EXCEPT ![k] = e], !.index = x]
  OBVIOUS
<1>5. PICK q \in {"small", "main"} : t = PushHead(u, q, k)
  <2>1. u = [s EXCEPT !.entry[k] = e, !.index = IndexInsert(@, k)]
    BY <1>1, <1>2, <1>4 DEF Shards
  <2> HIDE DEF PushHead
  <2> QED BY <2>1, Zenon DEF Insert
<1>6. /\ u.index = x /\ u.small = s.small /\ u.main = s.main /\ u.ghost = s.ghost
      /\ u.ghostSet = s.ghostSet /\ u.entry = [s.entry EXCEPT ![k] = e] /\ u \in Shards
  BY <1>1, <1>3, <1>4 DEF Shards, TableOK
<1>7. u.entry[k] = e /\ \A j \in Key : j # k => u.entry[j] = s.entry[j]
  BY <1>1, <1>6, ShardIs
<1>8. Resident(u) = Resident(s) \cup {k}
  <2>1. e # None
    BY DEF Entry, None
  <2> QED BY <1>7, <2>1 DEF Resident
<1>9. In(u, "small", {k}) = In(s, "small", {}) /\ In(u, "main", {k}) = In(s, "main", {})
  <2>1. s.entry[k].queue = "none"
    BY <1>1, ResidentIs
  <2> QED BY <1>7, <2>1 DEF In
<1>10. GoodBut(u, {k})
  BY <1>1, <1>3, <1>6, <1>8, <1>9 DEF GoodBut, Linked, Indexed, Remembers
<1>11. /\ Good(t) /\ Resident(t) = Resident(u) /\ Same(t.entry[k], u.entry[k])
       /\ Others(u, t, k)
  <2>1. k \in Resident(u)
    BY <1>8
  <2> QED BY <1>5, <1>10, <2>1, PushIs
<1> QED BY <1>7, <1>8, <1>11 DEF Same, Others

-----------------------------------------------------------------------------
(* One pass of eviction *)

\* The entry moved to the head of main, with the frequency f, or was let go,
\* which only an entry without a pin and without hits is.
Moved(s, t, k, f) ==
    /\ Resident(t) = Resident(s) /\ t.entry[k].freq = f
    /\ t.entry[k].pending = s.entry[k].pending /\ t.entry[k].charge = s.entry[k].charge
Gone(s, t, k) == Resident(t) = Resident(s) \ {k} /\ s.entry[k].pending = 0

\* The tail of small moves to main without its hits, or goes.
LEMMA EvictSmallIs ==
    ASSUME NEW s, Good(s), s.small # <<>>, NEW k, k = Last(s.small),
           NEW t, t = EvictSmall(s)
    PROVE  /\ Good(t) /\ k \in Resident(s) /\ Others(s, t, k) /\ t.small = Front(s.small)
           /\ \/ Moved(s, t, k, 0) /\ t.main = <<k>> \o s.main
              \/ Gone(s, t, k) /\ t.main = s.main
<1>1. PICK p : p = [s EXCEPT !.small = Front(@)]
  OBVIOUS
<1>2. /\ GoodBut(p, {k}) /\ k \in Resident(s) /\ k \in Key
      /\ Resident(p) = Resident(s) /\ p.entry = s.entry
      /\ p.small = Front(s.small) /\ p.main = s.main
  <2>1. Resident(s) \subseteq Key
    BY DEF Resident
  <2> QED BY <1>1, <2>1, PopSmallIs
<1>3. p \in Shards /\ s \in Shards /\ p.entry[k] \in Entry
  BY <1>2, ResidentIs DEF Good, GoodBut
<1>4. /\ p.entry[k].pending \in Nat /\ p.entry[k].freq \in Nat
  BY <1>3, EntryIs
<1>5. CASE p.entry[k].pending > 0 \/ p.entry[k].freq > 1
  <2>1. PICK e : e = [p.entry[k] EXCEPT !.freq = 0]
    OBVIOUS
  <2>2. /\ e \in Entry /\ e.queue = p.entry[k].queue /\ e.freq = 0
        /\ e.pending = s.entry[k].pending /\ e.charge = s.entry[k].charge
    <3>1. 0 \in 0..MaxFreq
      BY Sizes
    <3> QED BY <1>2, <1>3, <2>1, <3>1 DEF Entry
  <2>3. PICK u : u = Touch(p, k, e)
    OBVIOUS
  <2>4. t = PushHead(u, "main", k)
    <3>1. u = [p EXCEPT !.entry[k].freq = 0]
      BY <1>3, <2>1, <2>3 DEF Shards, Touch
    <3> QED BY <1>1, <1>2, <1>5, <3>1, Zenon DEF EvictSmall
  <2>5. /\ GoodBut(u, {k}) /\ Resident(u) = Resident(p) /\ u.small = p.small
        /\ u.main = p.main /\ u.entry[k] = e /\ Others(p, u, k)
    <3>1. k \in Resident(p) /\ k \in {k}
      BY <1>2
    <3> QED BY <1>2, <2>2, <2>3, <3>1, TouchIs
  <2>6. /\ Good(t) /\ Resident(t) = Resident(u) /\ t.small = u.small
        /\ t.main = <<k>> \o u.main /\ Same(t.entry[k], u.entry[k]) /\ Others(u, t, k)
    <3>1. k \in Resident(u) /\ "main" \in {"small", "main"} /\ "main" # "small"
      BY <1>2, <2>5
    <3> QED BY <2>4, <2>5, <3>1, PushIs
  <2>7. Others(s, t, k)
    BY <1>2, <2>5, <2>6 DEF Others
  <2>8. Moved(s, t, k, 0)
    BY <1>2, <2>2, <2>5, <2>6 DEF Moved, Same
  <2> QED BY <1>2, <2>5, <2>6, <2>7, <2>8
<1>6. CASE ~(p.entry[k].pending > 0 \/ p.entry[k].freq > 1)
  <2>1. PICK u : u = GhostAdd(p, Hash[k])
    OBVIOUS
  <2>2. t = Free(u, k)
    BY <1>1, <1>2, <1>6, <2>1, Zenon DEF EvictSmall
  <2>3. Hash[k] \in Nat
    BY <1>2, Sizes
  <2>4. /\ GoodBut(u, {k}) /\ Resident(u) = Resident(p)
        /\ u.small = p.small /\ u.main = p.main /\ u.entry = p.entry
    BY <1>2, <2>1, <2>3, GhostAddIs
  <2>5. /\ Good(t) /\ Resident(t) = Resident(u) \ {k}
        /\ t.small = u.small /\ t.main = u.main /\ Others(u, t, k)
    <3>1. k \in Resident(u)
      BY <1>2, <2>4
    <3> QED BY <2>2, <2>4, <3>1, FreeIs
  <2>6. Others(s, t, k)
    BY <1>2, <2>4, <2>5 DEF Others
  <2>7. Gone(s, t, k)
    BY <1>2, <1>4, <1>6, <2>4, <2>5 DEF Gone
  <2> QED BY <1>2, <2>4, <2>5, <2>6, <2>7
<1> QED BY <1>5, <1>6

\* The tail of main goes round with one hit less, or goes.
LEMMA EvictMainIs ==
    ASSUME NEW s, Good(s), s.main # <<>>, NEW k, k = Last(s.main),
           NEW t, t = EvictMain(s)
    PROVE  /\ Good(t) /\ k \in Resident(s) /\ Others(s, t, k) /\ t.small = s.small
           /\ \/ /\ Moved(s, t, k, IF s.entry[k].freq > 0 THEN s.entry[k].freq - 1 ELSE 0)
                 /\ s.entry[k].pending > 0 \/ s.entry[k].freq > 0
                 /\ t.main = <<k>> \o Front(s.main)
              \/ Gone(s, t, k) /\ t.main = Front(s.main)
<1>1. PICK p : p = [s EXCEPT !.main = Front(@)]
  OBVIOUS
<1>2. /\ GoodBut(p, {k}) /\ k \in Resident(s) /\ k \in Key
      /\ Resident(p) = Resident(s) /\ p.entry = s.entry
      /\ p.main = Front(s.main) /\ p.small = s.small
  BY <1>1, PopMainIs DEF Resident
<1>3. p \in Shards /\ s \in Shards /\ p.entry[k] \in Entry
  BY <1>2, ResidentIs DEF Good, GoodBut
<1>4. /\ p.entry[k].pending \in Nat /\ p.entry[k].freq \in 0..MaxFreq
  BY <1>3, EntryIs
<1>5. PICK f \in 0..MaxFreq : f = IF p.entry[k].freq > 0 THEN p.entry[k].freq - 1 ELSE p.entry[k].freq
  BY <1>4, Sizes
<1>6. f = IF s.entry[k].freq > 0 THEN s.entry[k].freq - 1 ELSE 0
  BY <1>2, <1>4, <1>5
<1>7. CASE p.entry[k].pending > 0 \/ p.entry[k].freq > 0
  <2>1. PICK e : e = [p.entry[k] EXCEPT !.freq = f]
    OBVIOUS
  <2>2. /\ e \in Entry /\ e.queue = p.entry[k].queue /\ e.freq = f
        /\ e.pending = s.entry[k].pending /\ e.charge = s.entry[k].charge
    BY <1>2, <1>3, <2>1 DEF Entry
  <2>3. PICK u : u = Touch(p, k, e)
    OBVIOUS
  <2>4. t = PushHead(u, "main", k)
    <3>1. u = [p EXCEPT !.entry[k].freq = IF @ > 0 THEN @ - 1 ELSE @]
      BY <1>3, <1>5, <2>1, <2>3 DEF Shards, Touch
    <3> QED BY <1>1, <1>2, <1>7, <3>1, Zenon DEF EvictMain
  <2>5. /\ GoodBut(u, {k}) /\ Resident(u) = Resident(p) /\ u.small = p.small
        /\ u.main = p.main /\ u.entry[k] = e /\ Others(p, u, k)
    <3>1. k \in Resident(p) /\ k \in {k}
      BY <1>2
    <3> QED BY <1>2, <2>2, <2>3, <3>1, TouchIs
  <2>6. /\ Good(t) /\ Resident(t) = Resident(u) /\ t.small = u.small
        /\ t.main = <<k>> \o u.main /\ Same(t.entry[k], u.entry[k]) /\ Others(u, t, k)
    <3>1. k \in Resident(u) /\ "main" \in {"small", "main"} /\ "main" # "small"
      BY <1>2, <2>5
    <3> QED BY <2>4, <2>5, <3>1, PushIs
  <2>7. Others(s, t, k)
    BY <1>2, <2>5, <2>6 DEF Others
  <2>8. Moved(s, t, k, f)
    BY <1>2, <2>2, <2>5, <2>6 DEF Moved, Same
  <2>9. s.entry[k].pending > 0 \/ s.entry[k].freq > 0
    BY <1>2, <1>7
  <2> QED BY <1>2, <1>6, <2>5, <2>6, <2>7, <2>8, <2>9
<1>8. CASE ~(p.entry[k].pending > 0 \/ p.entry[k].freq > 0)
  <2>1. t = Free(p, k)
    BY <1>1, <1>2, <1>8, Zenon DEF EvictMain
  <2>2. /\ Good(t) /\ Resident(t) = Resident(p) \ {k}
        /\ t.small = p.small /\ t.main = p.main /\ Others(p, t, k)
    <3>1. k \in Resident(p)
      BY <1>2
    <3> QED BY <1>2, <2>1, <3>1, FreeIs
  <2>3. Others(s, t, k) /\ Gone(s, t, k)
    BY <1>2, <1>4, <1>8, <2>2 DEF Others, Gone
  <2> QED BY <1>2, <2>2, <2>3
<1> QED BY <1>7, <1>8

-----------------------------------------------------------------------------
(* Bytes *)

\* What a set of keys is charged can be counted.
LEMMA BytesIs ==
    ASSUME NEW s \in Shards, NEW K \in SUBSET Key
    PROVE  IsFiniteSet(Charged(s, K)) /\ Bytes(s, K) \in Nat
<1> DEFINE C(k) == {k} \X (1..s.entry[k].charge)
<1>1. \A k \in K : IsFiniteSet(C(k))
  <2> TAKE k \in K
  <2>1. s.entry[k].charge \in Nat
    <3>1. s.entry[k] \in Entry \cup {None}
      BY ShardIs
    <3>2. None.charge = 0
      BY DEF None
    <3> QED BY <3>1, <3>2, EntryIs
  <2>2. IsFiniteSet(1..s.entry[k].charge)
    BY <2>1, FS_Interval, 1 \in Int, s.entry[k].charge \in Int
  <2>3. IsFiniteSet({k})
    BY FS_Singleton
  <2> QED BY <2>2, <2>3, FS_Product
<1>2. IsFiniteSet(K)
  BY Sizes, FS_Subset
<1>3. IsFiniteSet({C(k) : k \in K})
  <2> DEFINE f == [k \in K |-> C(k)]
  <2>1. f \in Surjection(K, {C(k) : k \in K})
    <3> HIDE DEF C
    <3> QED BY DEF Surjection
  <2> HIDE DEF f, C
  <2> QED BY <1>2, <2>1, FS_Surjection
<1>4. IsFiniteSet(UNION {C(k) : k \in K})
  <2> HIDE DEF C
  <2>1. \A T \in {C(k) : k \in K} : IsFiniteSet(T)
    BY <1>1
  <2> QED BY <1>3, <2>1, FS_UNION
<1>5. Charged(s, K) = UNION {C(k) : k \in K}
  BY DEF Charged
<1> QED BY <1>4, <1>5, FS_CardinalityType DEF Bytes

\* Fewer keys are charged no more.
LEMMA BytesUp ==
    ASSUME NEW s \in Shards, NEW t \in Shards, NEW L \in SUBSET Key, NEW K \in SUBSET L,
           \A k \in K : t.entry[k].charge = s.entry[k].charge
    PROVE  Bytes(t, K) <= Bytes(s, L)
<1>1. Charged(t, K) \subseteq Charged(s, L)
  BY DEF Charged
<1>2. IsFiniteSet(Charged(s, L))
  BY BytesIs
<1> QED BY <1>1, <1>2, FS_Subset DEF Bytes

\* Two sets of different keys are charged their sum.
LEMMA BytesSum ==
    ASSUME NEW s \in Shards, NEW K \in SUBSET Key, NEW L \in SUBSET Key, K \cap L = {}
    PROVE  Bytes(s, K \cup L) = Bytes(s, K) + Bytes(s, L)
<1>1. Charged(s, K \cup L) = Charged(s, K) \cup Charged(s, L)
  BY DEF Charged
<1>2. Charged(s, K) \cap Charged(s, L) = {}
  BY DEF Charged
<1>3. /\ IsFiniteSet(Charged(s, K)) /\ IsFiniteSet(Charged(s, L))
      /\ Bytes(s, K) \in Nat /\ Bytes(s, L) \in Nat
  BY BytesIs
<1>4. Cardinality({}) = 0
  BY FS_EmptySet
<1>5. Cardinality(Charged(s, K) \cup Charged(s, L))
        = Cardinality(Charged(s, K)) + Cardinality(Charged(s, L)) - Cardinality({})
  BY <1>2, <1>3, FS_Union
<1>6. Cardinality(Charged(s, K)) \in Nat /\ Cardinality(Charged(s, L)) \in Nat
  BY <1>3 DEF Bytes
<1>7. Cardinality(Charged(s, K \cup L))
        = Cardinality(Charged(s, K)) + Cardinality(Charged(s, L))
  <2>1. PICK a \in Nat : a = Cardinality(Charged(s, K))
    BY <1>6
  <2>2. PICK b \in Nat : b = Cardinality(Charged(s, L))
    BY <1>6
  <2>3. Cardinality(Charged(s, K) \cup Charged(s, L)) = a + b - 0
    BY <1>4, <1>5, <2>1, <2>2, Zenon
  <2>4. Cardinality(Charged(s, K \cup L)) = a + b
    <3>1. a + b - 0 = a + b
      OBVIOUS
    <3> QED BY <1>1, <2>3, <3>1, Zenon
  <2> QED BY <2>1, <2>2, <2>4
<1> QED BY <1>7 DEF Bytes

\* The entries nothing holds in the cache.
Loose(s) == Resident(s) \ Pinned(s)

\* The queues hold the resident entries, and what they are charged is the total.
LEMMA TotalIs ==
    ASSUME NEW s, Good(s)
    PROVE  /\ s \in Shards /\ TotalBytes(s) = Bytes(s, Resident(s))
           /\ SmallBytes(s) \in Nat /\ MainBytes(s) \in Nat /\ TotalBytes(s) \in Nat
           /\ TotalBytes(s) = Bytes(s, Loose(s)) + Bytes(s, Pinned(s))
           /\ Bytes(s, Loose(s)) \in Nat /\ Bytes(s, Pinned(s)) \in Nat
<1>1. s \in Shards
  BY DEF Good, GoodBut
<1>2. /\ Range(s.small) \cap Range(s.main) = {} /\ Range(s.small) \in SUBSET Key
      /\ Range(s.main) \in SUBSET Key /\ Range(s.small) \cup Range(s.main) = Resident(s)
  BY LinkedIs
<1>3. Bytes(s, Resident(s)) = Bytes(s, Range(s.small)) + Bytes(s, Range(s.main))
  BY <1>1, <1>2, BytesSum
<1>4. SmallBytes(s) \in Nat /\ MainBytes(s) \in Nat
  BY <1>1, <1>2, BytesIs DEF SmallBytes, MainBytes
<1>5. /\ Loose(s) \in SUBSET Key /\ Pinned(s) \in SUBSET Key
      /\ Loose(s) \cap Pinned(s) = {} /\ Loose(s) \cup Pinned(s) = Resident(s)
  BY DEF Loose, Pinned, Resident
<1>6. Bytes(s, Resident(s)) = Bytes(s, Loose(s)) + Bytes(s, Pinned(s))
  BY <1>1, <1>5, BytesSum
<1>7. Bytes(s, Loose(s)) \in Nat /\ Bytes(s, Pinned(s)) \in Nat
  BY <1>1, <1>5, BytesIs
<1> QED BY <1>1, <1>3, <1>4, <1>6, <1>7 DEF TotalBytes, SmallBytes, MainBytes

\* The share of small is a part of the budget.
LEMMA SmallBudgetIs ==
    ASSUME NEW b \in Nat
    PROVE  SmallBudget(b) \in Nat /\ SmallBudget(b) <= b
<1>1. PICK x \in Nat : x = b * SmallPercent /\ x <= 100 * b
  <2>1. PICK y \in Nat : SmallPercent + y = 100 /\ SmallPercent \in Nat
    <3>1. 100 - SmallPercent \in Nat /\ SmallPercent + (100 - SmallPercent) = 100
          /\ SmallPercent \in Nat
      BY Sizes
    <3> QED BY <3>1
  <2>2. b * SmallPercent + b * y = 100 * b /\ b * y \in Nat /\ b * SmallPercent \in Nat
    BY <2>1
  <2> QED BY <2>2
<1>2. x \div 100 \in Nat /\ x \div 100 <= b
  BY <1>1
<1> QED BY <1>1, <1>2 DEF SmallBudget

\* Small is over its share only while it holds something.
LEMMA SmallOver ==
    ASSUME NEW s, Good(s), NEW b \in Nat, SmallBytes(s) > SmallBudget(b)
    PROVE  s.small # <<>>
<1> SUFFICES ASSUME s.small = <<>> PROVE FALSE
  OBVIOUS
<1>1. Range(s.small) = {}
  BY DEF Range
<1>2. Charged(s, {}) = {}
  BY DEF Charged
<1>3. SmallBytes(s) = 0
  BY <1>1, <1>2, FS_EmptySet DEF SmallBytes, Bytes
<1> QED BY <1>3, SmallBudgetIs

\* A shard over its budget with small inside its share has something in main.
LEMMA MainHolds ==
    ASSUME NEW s, Good(s), NEW b \in Nat, TotalBytes(s) > b,
           ~(SmallBytes(s) > SmallBudget(b))
    PROVE  s.main # <<>>
<1> SUFFICES ASSUME s.main = <<>> PROVE FALSE
  OBVIOUS
<1>1. Range(s.main) = {}
  BY DEF Range
<1>2. Charged(s, {}) = {}
  BY DEF Charged
<1>3. MainBytes(s) = 0
  BY <1>1, <1>2, FS_EmptySet DEF MainBytes, Bytes
<1> QED BY <1>3, SmallBudgetIs, TotalIs DEF TotalBytes

-----------------------------------------------------------------------------
(* The guard of an eviction *)

\* Passes until an entry without a pin at place i of n in main, hit f times, has
\* gone, when small is inside its share, and while its m entries come first.
Near(n, i, f)   == (n - i) + 1 + f * n
Far(m, n, i, f) == m + (n - i) + 1 + f * (n + m)

\* A pass of main that leaves the entry there brings its turn nearer.
LEMMA NearFalls ==
    ASSUME NEW n \in Nat, NEW i \in 1..n, NEW f \in Nat
    PROVE  /\ Near(n, i, f) \in Nat \ {0}
           /\ Near(n, i + 1, f) < Near(n, i, f) /\ Near(n - 1, i, f) < Near(n, i, f)
           /\ f > 0 => Near(n, 1, f - 1) < Near(n, n, f)
<1>1. PICK x \in Nat : x = f * n
  BY f * n \in Nat
<1>2. f * (n - 1) = x - f /\ (f - 1) * n = x - n
  BY <1>1
<1> QED BY <1>1, <1>2 DEF Near

\* So does a pass of small, whether or not it is inside its share then.
LEMMA FarFalls ==
    ASSUME NEW m \in Nat \ {0}, NEW n \in Nat, NEW i \in 1..n, NEW f \in Nat
    PROVE  /\ Far(m, n, i, f) \in Nat \ {0}
           /\ Far(m - 1, n + 1, i + 1, f) < Far(m, n, i, f)
           /\ Far(m - 1, n, i, f) < Far(m, n, i, f)
           /\ Near(n + 1, i + 1, f) < Far(m, n, i, f)
           /\ Near(n, i, f) < Far(m, n, i, f)
<1>1. PICK x \in Nat : x = f * n
  BY f * n \in Nat
<1>2. PICK y \in Nat : y = f * m /\ f <= y
  <2>1. m - 1 \in Nat
    OBVIOUS
  <2>2. f * (m - 1) \in Nat /\ f * m = f * (m - 1) + f
    BY <2>1
  <2> QED BY <2>2
<1>3. /\ f * (n + m) = x + y /\ f * ((n + 1) + (m - 1)) = x + y /\ f * (n + 1) = x + f
      /\ f * (n + (m - 1)) = x + y - f
  BY <1>1, <1>2
<1> QED BY <1>1, <1>2, <1>3 DEF Near, Far

\* An entry that has just come from small goes within two rounds.
LEMMA FarNew ==
    ASSUME NEW m \in Nat \ {0}, NEW n \in Nat
    PROVE  Far(m - 1, n + 1, 1, 0) < n + 2 * m /\ Near(n + 1, 1, 0) < n + 2 * m
<1>1. 0 * ((n + 1) + (m - 1)) = 0 /\ 0 * (n + 1) = 0
  OBVIOUS
<1> QED BY <1>1 DEF Near, Far

\* The guard leaves every entry the passes it may need.
LEMMA FarFirst ==
    ASSUME NEW m \in Nat, NEW n \in Nat, NEW i \in 1..n, NEW f \in 0..MaxFreq
    PROVE  /\ Far(m, n, i, f) <= (MaxFreq + 1) * (n + m) + 1
           /\ Near(n, i, f) <= (MaxFreq + 1) * (n + m) + 1
<1>1. PICK g \in Nat : f + g = MaxFreq /\ f \in Nat
  <2>1. MaxFreq - f \in Nat /\ f + (MaxFreq - f) = MaxFreq /\ f \in Nat
    BY Sizes
  <2> QED BY <2>1
<1>2. PICK x \in Nat : x = f * n
  BY <1>1, f * n \in Nat
<1>3. PICK y \in Nat : y = f * m
  BY <1>1, f * m \in Nat
<1>4. PICK z \in Nat : z = g * (n + m)
  BY <1>1, g * (n + m) \in Nat
<1>5. (MaxFreq + 1) * (n + m) = x + y + z + m + n
  <2>1. (f + g + 1) * (n + m) = f * n + f * m + g * (n + m) + m + n
    BY <1>1
  <2>2. MaxFreq + 1 = f + g + 1
    BY <1>1
  <2> QED BY <1>2, <1>3, <1>4, <2>1, <2>2
<1>6. f * (n + m) = x + y
  BY <1>1, <1>2, <1>3
<1> QED BY <1>2, <1>5, <1>6 DEF Near, Far

\* The guard has room for two rounds.
LEMMA RoundsFirst ==
    ASSUME NEW m \in Nat, NEW n \in Nat
    PROVE  n + 2 * m <= (MaxFreq + 1) * (n + m) + 1
<1>1. PICK c \in Nat : c = MaxFreq - 1 /\ MaxFreq = c + 1
  BY Sizes
<1>2. c * (n + m) \in Nat /\ (c + 1 + 1) * (n + m) = c * (n + m) + 2 * m + 2 * n
  OBVIOUS
<1> QED BY <1>1, <1>2

Over(s, b) == SmallBytes(s) > SmallBudget(b)

\* The passes at hand are enough for the entries of main that nothing holds.
Within(s, b, i, R) ==
    LET m == Len(s.small)
        n == Len(s.main)
        e == s.entry[s.main[i]]
    IN  e.pending = 0 => /\ Over(s, b) => Far(m, n, i, e.freq) <= R
                         /\ ~Over(s, b) => Near(n, i, e.freq) <= R

Due(s, b, R) ==
    /\ Over(s, b) => Len(s.main) + 2 * Len(s.small) <= R
    /\ \A i \in 1..Len(s.main) : Within(s, b, i, R)

\* The lengths of the queues, and the entries that are in main.
LEMMA QueuesAre ==
    ASSUME NEW s, Good(s)
    PROVE  /\ s.small \in Seq(Key) /\ s.main \in Seq(Key)
           /\ Len(s.small) \in Nat /\ Len(s.main) \in Nat
           /\ \A i \in 1..Len(s.main) :
                /\ s.main[i] \in Key /\ s.main[i] \in Range(s.main)
                /\ s.entry[s.main[i]].freq \in 0..MaxFreq
                /\ s.entry[s.main[i]].pending \in Nat
<1>1. s \in Shards /\ s.small \in Seq(Key) /\ s.main \in Seq(Key)
  BY ShardIs DEF Good, GoodBut
<1>2. ASSUME NEW i \in 1..Len(s.main)
      PROVE  /\ s.main[i] \in Key /\ s.main[i] \in Range(s.main)
             /\ s.entry[s.main[i]].freq \in 0..MaxFreq
             /\ s.entry[s.main[i]].pending \in Nat
  <2>1. i \in DOMAIN s.main /\ s.main[i] \in Key
    BY <1>1
  <2>2. s.main[i] \in Range(s.main)
    BY <2>1 DEF Range
  <2>3. s.main[i] \in Resident(s)
    BY <2>2, LinkedIs
  <2>4. s.entry[s.main[i]] \in Entry
    BY <1>1, <2>1, <2>3, ResidentIs
  <2> QED BY <2>1, <2>2, <2>4, EntryIs
<1> QED BY <1>1, <1>2

\* At first the guard is enough.
LEMMA DueFirst ==
    ASSUME NEW s, Good(s), NEW b
    PROVE  Guard(s) \in Nat /\ Due(s, b, Guard(s))
<1>1. PICK m \in Nat : m = Len(s.small)
  BY QueuesAre
<1>2. PICK n \in Nat : n = Len(s.main)
  BY QueuesAre
<1>3. PICK G \in Nat : G = Guard(s) /\ G = (MaxFreq + 1) * (n + m) + 1
  <2>1. MaxFreq + 1 \in Nat
    BY Sizes
  <2>2. (MaxFreq + 1) * (n + m) \in Nat /\ m + n = n + m
    BY <2>1
  <2>3. Count(s) = n + m
    BY <1>1, <1>2, <2>2 DEF Count
  <2>4. Guard(s) = (MaxFreq + 1) * (n + m) + 1
    BY <2>3 DEF Guard
  <2> QED BY <2>2, <2>4
<1>4. n + 2 * m <= G
  BY <1>3, RoundsFirst
<1>5. ASSUME NEW i \in 1..n PROVE Within(s, b, i, G)
  <2>1. PICK f \in 0..MaxFreq : f = s.entry[s.main[i]].freq
    BY <1>2, QueuesAre
  <2>2. Far(m, n, i, f) <= G /\ Near(n, i, f) <= G
    BY <1>3, FarFirst
  <2> QED BY <1>1, <1>2, <2>1, <2>2 DEF Within
<1> QED BY <1>1, <1>2, <1>3, <1>4, <1>5 DEF Due

\* A pass takes the tail of small while it is over its share, else that of main.
LEMMA EvictOneIs ==
    ASSUME NEW s, Good(s), NEW b \in Nat, TotalBytes(s) > b
    PROVE  /\ Over(s, b) => s.small # <<>> /\ EvictOne(s, b) = EvictSmall(s)
           /\ ~Over(s, b) => s.main # <<>> /\ EvictOne(s, b) = EvictMain(s)
<1>1. Over(s, b) => s.small # <<>>
  BY SmallOver DEF Over
<1>2. ~Over(s, b) => s.main # <<>>
  BY MainHolds DEF Over
<1> QED BY <1>1, <1>2, Zenon DEF EvictOne, Over

\* A pass of small brings every entry of main nearer to its turn.
LEMMA SmallPassDue ==
    ASSUME NEW s, Good(s), NEW b \in Nat, TotalBytes(s) > b, Over(s, b),
           NEW R \in Nat, Due(s, b, R + 1), NEW t, t = EvictSmall(s)
    PROVE  Due(t, b, R)
<1>1. s.small # <<>>
  BY EvictOneIs
<1>2. PICK k : k = Last(s.small)
  OBVIOUS
<1>3. /\ Good(t) /\ k \in Resident(s) /\ Others(s, t, k) /\ t.small = Front(s.small)
      /\ \/ Moved(s, t, k, 0) /\ t.main = <<k>> \o s.main
         \/ Gone(s, t, k) /\ t.main = s.main
  BY <1>1, <1>2, EvictSmallIs
<1>4. PICK m \in Nat \ {0} : m = Len(s.small) /\ Len(t.small) = m - 1
  <2>1. s.small \in Seq(Key)
    BY QueuesAre
  <2>2. Len(s.small) \in Nat \ {0} /\ Len(Front(s.small)) = Len(s.small) - 1
    BY <1>1, <2>1, FrontIs
  <2> QED BY <1>3, <2>2
<1>5. PICK n \in Nat : n = Len(s.main)
  BY QueuesAre
<1>6. k \in Key /\ k \in Range(s.small)
  BY <1>1, <1>2, QueuesAre, FrontIs
<1>7. \A i \in 1..n : s.main[i] \in Key /\ s.main[i] # k
                      /\ t.entry[s.main[i]] = s.entry[s.main[i]]
  <2>1. \A i \in 1..n : s.main[i] \in Key /\ s.main[i] # k
    BY <1>5, <1>6, QueuesAre, LinkedIs
  <2> QED BY <1>3, <2>1 DEF Others
<1>8. n + 2 * m <= R + 1
  BY <1>4, <1>5 DEF Due
<1>9. ASSUME NEW i \in 1..n, s.entry[s.main[i]].pending = 0
      PROVE  Far(m, n, i, s.entry[s.main[i]].freq) <= R + 1
  BY <1>4, <1>5, <1>9 DEF Due, Within
<1>10. CASE Moved(s, t, k, 0) /\ t.main = <<k>> \o s.main
  <2>1. /\ Len(t.main) = n + 1 /\ t.main[1] = k
        /\ \A i \in 1..n : t.main[i+1] = s.main[i]
    BY <1>5, <1>6, <1>10, QueuesAre, PushSeq
  <2>2. ASSUME NEW j \in 1..n+1 PROVE Within(t, b, j, R)
    <3>1. CASE j = 1
      <4>1. t.entry[t.main[j]].freq = 0
        BY <1>10, <2>1, <3>1 DEF Moved
      <4>2. Far(m - 1, n + 1, 1, 0) < n + 2 * m /\ Near(n + 1, 1, 0) < n + 2 * m
        BY FarNew
      <4>3. Far(m - 1, n + 1, 1, 0) \in Int /\ Near(n + 1, 1, 0) \in Int
        BY DEF Far, Near
      <4>4. Far(m - 1, n + 1, 1, 0) <= R /\ Near(n + 1, 1, 0) <= R
        BY <1>8, <4>2, <4>3
      <4> QED BY <1>4, <2>1, <3>1, <4>1, <4>4 DEF Within
    <3>2. CASE j # 1
      <4>1. PICK i \in 1..n : j = i + 1
        <5>1. j - 1 \in 1..n /\ j = (j - 1) + 1
          BY <3>2
        <5> QED BY <5>1
      <4>2. t.entry[t.main[j]] = s.entry[s.main[i]]
        BY <1>7, <2>1, <4>1
      <4>3. PICK f \in Nat : f = s.entry[s.main[i]].freq
        BY <1>5, QueuesAre
      <4>4. ASSUME s.entry[s.main[i]].pending = 0
            PROVE  Far(m - 1, n + 1, i + 1, f) <= R /\ Near(n + 1, i + 1, f) <= R
        <5>1. Far(m, n, i, f) <= R + 1
          BY <1>9, <4>3, <4>4
        <5>2. /\ Far(m, n, i, f) \in Nat
              /\ Far(m - 1, n + 1, i + 1, f) < Far(m, n, i, f)
              /\ Near(n + 1, i + 1, f) < Far(m, n, i, f)
          BY FarFalls
        <5>3. Far(m - 1, n + 1, i + 1, f) \in Int /\ Near(n + 1, i + 1, f) \in Int
          BY DEF Far, Near
        <5> QED BY <5>1, <5>2, <5>3
      <4> QED BY <1>4, <2>1, <4>1, <4>2, <4>3, <4>4 DEF Within
    <3> QED BY <3>1, <3>2
  <2>3. Len(t.main) + 2 * Len(t.small) <= R
    BY <1>4, <1>8, <2>1
  <2> QED BY <2>1, <2>2, <2>3 DEF Due
<1>11. CASE Gone(s, t, k) /\ t.main = s.main
  <2>1. ASSUME NEW i \in 1..n PROVE Within(t, b, i, R)
    <3>1. PICK f \in Nat : f = s.entry[s.main[i]].freq
      BY <1>5, QueuesAre
    <3>2. ASSUME s.entry[s.main[i]].pending = 0
          PROVE  Far(m - 1, n, i, f) <= R /\ Near(n, i, f) <= R
      <4>1. Far(m, n, i, f) <= R + 1
        BY <1>9, <3>1, <3>2
      <4>2. /\ Far(m, n, i, f) \in Nat
            /\ Far(m - 1, n, i, f) < Far(m, n, i, f) /\ Near(n, i, f) < Far(m, n, i, f)
        BY FarFalls
      <4>3. Far(m - 1, n, i, f) \in Int /\ Near(n, i, f) \in Int
        BY DEF Far, Near
      <4> QED BY <4>1, <4>2, <4>3
    <3> QED BY <1>4, <1>5, <1>7, <1>11, <3>1, <3>2 DEF Within
  <2>2. Len(t.main) + 2 * Len(t.small) <= R
    <3>1. Len(t.main) = n /\ Len(t.small) = m - 1
      BY <1>4, <1>5, <1>11
    <3>2. n + 2 * (m - 1) <= R
      BY <1>8
    <3> QED BY <3>1, <3>2
  <2> QED BY <1>5, <1>11, <2>1, <2>2 DEF Due
<1> QED BY <1>3, <1>10, <1>11

\* A pass of main leaves small alone and brings the others nearer.
LEMMA MainPassDue ==
    ASSUME NEW s, Good(s), NEW b \in Nat, TotalBytes(s) > b, ~Over(s, b),
           NEW R \in Nat, Due(s, b, R + 1), NEW t, t = EvictMain(s)
    PROVE  Due(t, b, R)
<1>1. s.main # <<>>
  BY EvictOneIs
<1>2. PICK k : k = Last(s.main)
  OBVIOUS
<1> DEFINE Round == /\ Moved(s, t, k, IF s.entry[k].freq > 0 THEN s.entry[k].freq - 1 ELSE 0)
                    /\ s.entry[k].pending > 0 \/ s.entry[k].freq > 0
                    /\ t.main = <<k>> \o Front(s.main)
<1>3. /\ Good(t) /\ k \in Resident(s) /\ Others(s, t, k) /\ t.small = s.small
      /\ Round \/ (Gone(s, t, k) /\ t.main = Front(s.main))
  BY <1>1, <1>2, EvictMainIs
<1>4. PICK n \in Nat \ {0} : n = Len(s.main)
  <2>1. s.main \in Seq(Key)
    BY QueuesAre
  <2> QED BY <1>1, <2>1, FrontIs
<1>5. /\ k \in Key /\ k \in Range(s.main) /\ k = s.main[n] /\ Front(s.main) \in Seq(Key)
      /\ Len(Front(s.main)) = n - 1 /\ \A i \in 1..n-1 : Front(s.main)[i] = s.main[i]
  BY <1>1, <1>2, <1>4, QueuesAre, FrontIs
<1>6. \A i \in 1..n-1 : s.main[i] \in Key /\ s.main[i] # k
                        /\ t.entry[s.main[i]] = s.entry[s.main[i]]
  <2>1. \A i \in 1..n-1 : i \in 1..n /\ i # n
    OBVIOUS
  <2>2. DOMAIN s.main = 1..n /\ n \in 1..n
    BY <1>4, QueuesAre
  <2>3. IsInjective(s.main)
    BY DEF Good, GoodBut, Linked
  <2>4. \A i \in 1..n-1 : s.main[i] \in Key /\ s.main[i] # k
    BY <1>4, <1>5, <2>1, <2>2, <2>3, QueuesAre DEF IsInjective
  <2> QED BY <1>3, <2>4 DEF Others
<1>7. ~Over(t, b)
  <2>1. s \in Shards /\ t \in Shards /\ Range(s.small) \in SUBSET Key
    BY <1>3, LinkedIs DEF Good, GoodBut
  <2>2. k \notin Range(s.small)
    BY <1>5, LinkedIs
  <2>3. \A j \in Range(s.small) : t.entry[j].charge = s.entry[j].charge
    BY <1>3, <2>1, <2>2 DEF Others
  <2>4. Bytes(t, Range(s.small)) <= Bytes(s, Range(s.small))
    BY <2>1, <2>3, BytesUp
  <2>5. SmallBytes(t) \in Nat /\ SmallBytes(s) \in Nat /\ SmallBudget(b) \in Nat
    BY <1>3, TotalIs, SmallBudgetIs
  <2>6. SmallBytes(t) <= SmallBytes(s)
    BY <1>3, <2>4 DEF SmallBytes
  <2> QED BY <2>5, <2>6 DEF Over
<1>8. ASSUME NEW i \in 1..n, s.entry[s.main[i]].pending = 0
      PROVE  Near(n, i, s.entry[s.main[i]].freq) <= R + 1
  BY <1>4, <1>8 DEF Due, Within
<1>9. ASSUME NEW i \in 1..n-1, s.entry[s.main[i]].pending = 0, NEW f \in Nat,
             f = s.entry[s.main[i]].freq
      PROVE  Near(n, i + 1, f) <= R /\ Near(n - 1, i, f) <= R
  <2>1. i \in 1..n
    OBVIOUS
  <2>2. Near(n, i, f) <= R + 1
    BY <1>8, <1>9, <2>1
  <2>3. /\ Near(n, i, f) \in Nat /\ Near(n, i + 1, f) < Near(n, i, f)
        /\ Near(n - 1, i, f) < Near(n, i, f)
    BY <2>1, NearFalls
  <2>4. Near(n, i + 1, f) \in Int /\ Near(n - 1, i, f) \in Int
    BY DEF Near
  <2> QED BY <2>2, <2>3, <2>4
<1>10. CASE Round
  <2>1. /\ Len(t.main) = n /\ t.main[1] = k
        /\ \A i \in 1..n-1 : t.main[i+1] = s.main[i]
    <3>1. /\ Len(<<k>> \o Front(s.main)) = Len(Front(s.main)) + 1
          /\ (<<k>> \o Front(s.main))[1] = k
          /\ \A i \in 1..Len(Front(s.main)) : (<<k>> \o Front(s.main))[i+1] = Front(s.main)[i]
      BY <1>5, PushSeq
    <3> QED BY <1>5, <1>10, <3>1
  <2>2. ASSUME NEW j \in 1..n PROVE Within(t, b, j, R)
    <3>1. CASE j = 1
      <4>1. PICK f \in Nat : f = s.entry[k].freq
        BY <1>4, <1>5, QueuesAre
      <4>2. ASSUME s.entry[k].pending = 0 PROVE f > 0 /\ Near(n, 1, f - 1) <= R
        <5>1. f > 0
          BY <1>10, <4>1, <4>2
        <5>2. n \in 1..n
          OBVIOUS
        <5>3. Near(n, n, f) <= R + 1
          BY <1>5, <1>8, <4>1, <4>2, <5>2
        <5>4. Near(n, n, f) \in Nat /\ Near(n, 1, f - 1) < Near(n, n, f)
          BY <5>1, <5>2, NearFalls
        <5>5. Near(n, 1, f - 1) \in Int
          BY DEF Near
        <5> QED BY <5>1, <5>3, <5>4, <5>5
      <4>3. /\ t.entry[k].pending = s.entry[k].pending
            /\ f > 0 => t.entry[k].freq = f - 1
        BY <1>10, <4>1 DEF Moved
      <4> QED BY <1>7, <2>1, <3>1, <4>2, <4>3 DEF Within
    <3>2. CASE j # 1
      <4>1. PICK i \in 1..n-1 : j = i + 1
        <5>1. j - 1 \in 1..n-1 /\ j = (j - 1) + 1
          BY <3>2
        <5> QED BY <5>1
      <4>2. t.entry[t.main[j]] = s.entry[s.main[i]]
        BY <1>6, <2>1, <4>1
      <4>3. PICK f \in Nat : f = s.entry[s.main[i]].freq
        BY <1>4, QueuesAre
      <4>4. s.entry[s.main[i]].pending = 0 => Near(n, i + 1, f) <= R
        BY <1>9, <4>3
      <4> QED BY <1>7, <2>1, <4>1, <4>2, <4>3, <4>4 DEF Within
    <3> QED BY <3>1, <3>2
  <2> QED BY <1>7, <2>1, <2>2 DEF Due
<1>11. CASE Gone(s, t, k) /\ t.main = Front(s.main)
  <2>1. ASSUME NEW i \in 1..n-1 PROVE Within(t, b, i, R)
    <3>1. PICK f \in Nat : f = s.entry[s.main[i]].freq
      BY <1>4, QueuesAre
    <3>2. s.entry[s.main[i]].pending = 0 => Near(n - 1, i, f) <= R
      BY <1>9, <3>1
    <3>3. t.entry[t.main[i]] = s.entry[s.main[i]] /\ Len(t.main) = n - 1
      BY <1>5, <1>6, <1>11
    <3> QED BY <1>7, <3>1, <3>2, <3>3 DEF Within
  <2> QED BY <1>5, <1>7, <1>11, <2>1 DEF Due
<1> QED BY <1>3, <1>10, <1>11

\* An entry that moved kept its pins, and one that went had none.
LEMMA PinsKept ==
    ASSUME NEW s, NEW t, NEW k, NEW f, Others(s, t, k),
           Moved(s, t, k, f) \/ Gone(s, t, k)
    PROVE  Pinned(s) \subseteq Pinned(t)
<1> SUFFICES ASSUME NEW j \in Pinned(s) PROVE j \in Pinned(t)
  OBVIOUS
<1>1. j \in Key /\ j \in Resident(s) /\ s.entry[j].pending > 0
  BY DEF Pinned, Resident
<1>2. CASE j = k
  BY <1>1, <1>2 DEF Moved, Gone, Pinned
<1>3. CASE j # k
  BY <1>1, <1>3 DEF Moved, Gone, Pinned, Others
<1> QED BY <1>2, <1>3

\* One turn of the loop keeps the shard good and its pinned entries in it, and
\* uses up one of the passes that are enough.
LEMMA PassIs ==
    ASSUME NEW s, Good(s), NEW b \in Nat, NEW t, t = Pass(s, b)
    PROVE  /\ Good(t) /\ Pinned(s) \subseteq Pinned(t)
           /\ ~(TotalBytes(s) > b) => t = s
           /\ \A R \in Nat : TotalBytes(s) > b /\ Due(s, b, R + 1) => Due(t, b, R)
<1>1. CASE ~(TotalBytes(s) > b)
  <2>1. t = s
    BY <1>1 DEF Pass
  <2> QED BY <1>1, <2>1
<1>2. CASE TotalBytes(s) > b /\ Over(s, b)
  <2>1. s.small # <<>> /\ t = EvictSmall(s)
    BY <1>2, EvictOneIs DEF Pass
  <2>2. PICK k : k = Last(s.small)
    OBVIOUS
  <2>3. Good(t) /\ Others(s, t, k) /\ (Moved(s, t, k, 0) \/ Gone(s, t, k))
    BY <2>1, <2>2, EvictSmallIs
  <2>4. Pinned(s) \subseteq Pinned(t)
    BY <2>3, PinsKept
  <2>5. \A R \in Nat : Due(s, b, R + 1) => Due(t, b, R)
    BY <1>2, <2>1, SmallPassDue
  <2> QED BY <1>2, <2>3, <2>4, <2>5
<1>3. CASE TotalBytes(s) > b /\ ~Over(s, b)
  <2>1. s.main # <<>> /\ t = EvictMain(s)
    BY <1>3, EvictOneIs DEF Pass
  <2>2. PICK k : k = Last(s.main)
    OBVIOUS
  <2>3. PICK f : Good(t) /\ Others(s, t, k) /\ (Moved(s, t, k, f) \/ Gone(s, t, k))
    BY <2>1, <2>2, EvictMainIs
  <2>4. Pinned(s) \subseteq Pinned(t)
    BY <2>3, PinsKept
  <2>5. \A R \in Nat : Due(s, b, R + 1) => Due(t, b, R)
    BY <1>3, <2>1, MainPassDue
  <2> QED BY <1>3, <2>3, <2>4, <2>5
<1> QED BY <1>1, <1>2, <1>3

\* A shard that is over its budget when no pass is left holds no more without a
\* pin than small does, which is inside its share.
LEMMA DueDone ==
    ASSUME NEW s, Good(s), NEW b \in Nat, TotalBytes(s) > b => Due(s, b, 0)
    PROVE  Bytes(s, Loose(s)) <= b
<1>1. CASE ~(TotalBytes(s) > b)
  BY <1>1, TotalIs
<1>2. CASE TotalBytes(s) > b
  <2>1. ~Over(s, b)
    <3> SUFFICES ASSUME Over(s, b) PROVE FALSE
      OBVIOUS
    <3>1. s.small # <<>> /\ s.small \in Seq(Key)
      BY <1>2, EvictOneIs, QueuesAre
    <3>2. Len(s.small) \in Nat \ {0}
      BY <3>1, FrontIs
    <3>3. PICK m \in Nat \ {0} : m = Len(s.small)
      BY <3>2
    <3>4. PICK n \in Nat : n = Len(s.main)
      BY QueuesAre
    <3>5. n + 2 * m <= 0
      BY <1>2, <3>3, <3>4 DEF Due
    <3> QED BY <3>5
  <2>2. ASSUME NEW i \in 1..Len(s.main) PROVE s.entry[s.main[i]].pending # 0
    <3> SUFFICES ASSUME s.entry[s.main[i]].pending = 0 PROVE FALSE
      OBVIOUS
    <3>1. PICK n \in Nat : n = Len(s.main)
      BY QueuesAre
    <3>2. PICK f \in Nat : f = s.entry[s.main[i]].freq
      BY QueuesAre
    <3>3. Near(n, i, f) <= 0
      BY <1>2, <2>1, <3>1, <3>2 DEF Due, Within
    <3>4. Near(n, i, f) \in Nat \ {0}
      BY <3>1, NearFalls
    <3> QED BY <3>3, <3>4
  <2>3. Loose(s) \subseteq Range(s.small)
    <3> SUFFICES ASSUME NEW j \in Loose(s), j \in Range(s.main) PROVE FALSE
      BY LinkedIs DEF Loose
    <3>1. PICK i \in 1..Len(s.main) : j = s.main[i]
      BY QueuesAre DEF Range
    <3>2. s.entry[j].pending > 0
      BY <2>2, <3>1, QueuesAre
    <3>3. j \in Resident(s) /\ j \notin Pinned(s)
      BY DEF Loose
    <3> QED BY <3>2, <3>3 DEF Pinned
  <2>4. s \in Shards /\ Range(s.small) \in SUBSET Key
    BY LinkedIs DEF Good, GoodBut
  <2>5. Bytes(s, Loose(s)) <= SmallBytes(s)
    BY <2>3, <2>4, BytesUp DEF SmallBytes
  <2>6. /\ SmallBytes(s) \in Nat /\ Bytes(s, Loose(s)) \in Nat
        /\ SmallBudget(b) \in Nat /\ SmallBudget(b) <= b
    BY TotalIs, SmallBudgetIs
  <2> QED BY <2>1, <2>5, <2>6 DEF Over
<1> QED BY <1>1, <1>2

\* evict keeps the shard good and what is pinned in it, and what is left without
\* a pin fits into the budget.
LEMMA EvictIs ==
    ASSUME NEW s, Good(s), NEW b \in Nat, NEW t, t = Evict(s, b)
    PROVE  Good(t) /\ Pinned(s) \subseteq Pinned(t) /\ Bytes(t, Loose(t)) <= b
<1>1. CASE ~(TotalBytes(s) > b)
  <2>1. t = s
    BY <1>1, Zenon DEF Evict
  <2> QED BY <1>1, <2>1, DueDone
<1>2. CASE TotalBytes(s) > b
  <2>1. PICK N \in Nat : N = Guard(s) /\ Due(s, b, N)
    BY DueFirst
  <2> DEFINE A == {x \in Shards : Good(x)}
             g == [x \in A |-> [n \in Nat |-> Pass(x, b)]]
             F(m) == [n \in 0..N |-> IF n = 0 THEN s ELSE Pass(m[n-1], b)]
             after == CHOOSE m : m = F(m)
  <2>2. s \in A
    BY DEF Good, GoodBut
  <2>3. \A x \in A : Pass(x, b) \in A
    BY PassIs DEF Good, GoodBut
  <2>4. g \in [A -> [Nat -> A]]
    <3> HIDE DEF A
    <3> QED BY <2>3
  <2>5. PICK f \in [0..N -> A] : f[0] = s /\ \A n \in 1..N : f[n] = g[f[n-1]][n]
    <3> HIDE DEF A, g, F, after
    <3>1. PICK f : Run(A, N, s, g, f)
      BY <2>2, <2>4, Iterates
    <3> QED BY <3>1 DEF Run
  <2>6. f = F(f)
    <3> HIDE DEF A
    <3>1. ASSUME NEW n \in 0..N
          PROVE  f[n] = IF n = 0 THEN s ELSE Pass(f[n-1], b)
      <4>1. CASE n = 0
        BY <2>5, <4>1
      <4>2. CASE n # 0
        <5>1. n \in 1..N /\ n \in Nat /\ n - 1 \in 0..N
          BY <4>2
        <5>2. f[n-1] \in A
          BY <5>1
        <5> QED BY <2>5, <4>2, <5>1, <5>2
      <4> QED BY <4>1, <4>2
    <3> QED BY <3>1
  <2>7. after = F(after)
    <3> HIDE DEF F
    <3> QED BY <2>6
  <2>8. t = after[N]
    BY <1>2, <2>1, Zenon DEF Evict
  <2> HIDE DEF after
  <2> DEFINE S == {n \in Nat : n <= N =>
                     /\ Good(after[n]) /\ Pinned(s) \subseteq Pinned(after[n])
                     /\ TotalBytes(after[n]) > b => Due(after[n], b, N - n)}
  <2>9. 0 \in S
    <3>1. after[0] = s
      BY <2>7
    <3>2. N - 0 = N
      OBVIOUS
    <3> QED BY <2>1, <3>1, <3>2
  <2>10. ASSUME NEW n \in Nat, n \in S, n + 1 <= N
         PROVE  /\ Good(after[n+1]) /\ Pinned(s) \subseteq Pinned(after[n+1])
                /\ TotalBytes(after[n+1]) > b => Due(after[n+1], b, N - (n+1))
    <3>1. PICK x : x = after[n]
      OBVIOUS
    <3>2. PICK y : y = after[n+1]
      OBVIOUS
    <3>3. /\ Good(x) /\ Pinned(s) \subseteq Pinned(x)
          /\ TotalBytes(x) > b => Due(x, b, N - n)
      BY <2>10, <3>1
    <3>4. y = Pass(x, b)
      <4>1. n + 1 \in 0..N /\ n + 1 # 0 /\ (n + 1) - 1 = n
        BY <2>10
      <4> QED BY <2>7, <3>1, <3>2, <4>1
    <3>5. PICK R \in Nat : R = N - (n + 1) /\ R + 1 = N - n
      <4>1. N - (n + 1) \in Nat /\ (N - (n + 1)) + 1 = N - n
        BY <2>10
      <4> QED BY <4>1
    <3>6. /\ Good(y) /\ Pinned(x) \subseteq Pinned(y)
          /\ ~(TotalBytes(x) > b) => y = x
          /\ TotalBytes(x) > b /\ Due(x, b, R + 1) => Due(y, b, R)
      BY <3>3, <3>4, PassIs
    <3>7. TotalBytes(x) > b => Due(x, b, R + 1)
      BY <3>3, <3>5, Zenon
    <3>8. TotalBytes(y) > b => Due(y, b, R)
      BY <3>6, <3>7, Zenon
    <3>9. TotalBytes(y) > b => Due(y, b, N - (n+1))
      BY <3>5, <3>8, Zenon
    <3> QED BY <3>2, <3>3, <3>6, <3>9, Zenon
  <2>11. \A n \in Nat : n \in S => n + 1 \in S
    <3> SUFFICES ASSUME NEW n \in Nat, n \in S PROVE n + 1 \in S
      OBVIOUS
    <3>1. n + 1 \in Nat
      OBVIOUS
    <3>2. n + 1 <= N => /\ Good(after[n+1]) /\ Pinned(s) \subseteq Pinned(after[n+1])
                        /\ TotalBytes(after[n+1]) > b => Due(after[n+1], b, N - (n+1))
      BY <2>10
    <3> QED BY <3>1, <3>2
  <2>12. Nat \subseteq S
    <3> HIDE DEF S
    <3> QED BY <2>9, <2>11, NatSetInduction
  <2>13. /\ Good(after[N]) /\ Pinned(s) \subseteq Pinned(after[N])
         /\ TotalBytes(after[N]) > b => Due(after[N], b, N - N)
    BY <2>12
  <2>14. N - N = 0
    OBVIOUS
  <2> QED BY <2>8, <2>13, <2>14, DueDone
<1> QED BY <1>1, <1>2

-----------------------------------------------------------------------------
(* The invariant *)

\* The counters and the fills have their types, and a fill its key.
Counters ==
    /\ budget \in Budgets /\ queued \in [Key -> 0..MaxQueued]
    /\ refused \in 0..MaxRefused /\ trims \in 0..Writers
    /\ fill \in [Readers -> [pc : {"idle", "door", "insert"}, key : Key \cup {NoKey}]]
    /\ \A r \in Readers : fill[r].pc # "idle" => fill[r].key \in Key

\* What no pin holds fits into the budget, unless somebody is about to trim.
Fits == trims = 0 => Bytes(shard, Loose(shard)) <= budget

IInv == Good(shard) /\ Counters /\ Fits

\* What a step does to a pinned entry.
Kept == \A k \in Pinned(shard) :
          k \in Resident(shard') \/ Erase(k) \/ shard.entry[k].pending = Word - 1

\* A lookup finds the resident entries.
LEMMA FindsResident ==
    ASSUME NEW s, Good(s), NEW k \in Key
    PROVE  Find(s.index, k) <=> k \in Resident(s)
BY FindIs DEF Good, GoodBut, Indexed

\* A step that leaves pins and charges, or takes entries away, leaves the rest
\* inside the budget.
LEMMA LooseFits ==
    ASSUME NEW s, Good(s), NEW t, Good(t), Resident(t) \subseteq Resident(s),
           \A j \in Resident(t) :
             /\ t.entry[j].charge = s.entry[j].charge
             /\ t.entry[j].pending = 0 => s.entry[j].pending = 0
    PROVE  Bytes(t, Loose(t)) <= Bytes(s, Loose(s))
<1>1. s \in Shards /\ t \in Shards
  BY DEF Good, GoodBut
<1>2. Loose(s) \in SUBSET Key
  BY DEF Loose, Resident
<1>3. ASSUME NEW j \in Loose(t) PROVE j \in Loose(s)
  <2>1. j \in Key /\ j \in Resident(t) /\ j \in Resident(s) /\ j \notin Pinned(t)
    BY DEF Loose, Resident
  <2>2. t.entry[j].pending \in Nat /\ s.entry[j].pending \in Nat
    BY <1>1, <2>1, ResidentIs, EntryIs
  <2>3. s.entry[j].pending = 0
    BY <2>1, <2>2 DEF Pinned
  <2> QED BY <2>1, <2>3 DEF Loose, Pinned
<1>4. \A j \in Loose(t) : t.entry[j].charge = s.entry[j].charge
  BY DEF Loose
<1> QED BY <1>1, <1>2, <1>3, <1>4, BytesUp

\* An entry with new pins or hits, and the charge it had.
LEMMA TouchGood ==
    ASSUME NEW s, Good(s), NEW k \in Resident(s), NEW e \in Entry,
           e.queue = s.entry[k].queue, e.charge = s.entry[k].charge,
           NEW t, t = Touch(s, k, e)
    PROVE  /\ Good(t) /\ Resident(t) = Resident(s) /\ t.entry[k] = e /\ Others(s, t, k)
           /\ TotalBytes(t) <= TotalBytes(s)
           /\ (e.pending = 0 => s.entry[k].pending = 0)
                => Bytes(t, Loose(t)) <= Bytes(s, Loose(s))
<1>1. Good(t) /\ Resident(t) = Resident(s) /\ t.entry[k] = e /\ Others(s, t, k)
  BY TouchIs DEF Good
<1>2. \A j \in Resident(t) : t.entry[j].charge = s.entry[j].charge
  BY <1>1 DEF Others, Resident
<1>3. s \in Shards /\ t \in Shards /\ Resident(s) \in SUBSET Key
  BY <1>1 DEF Good, GoodBut, Resident
<1>4. TotalBytes(t) <= TotalBytes(s)
  <2>1. Bytes(t, Resident(t)) <= Bytes(s, Resident(s))
    BY <1>1, <1>2, <1>3, BytesUp
  <2> QED BY <1>1, <2>1, TotalIs
<1>5. ASSUME e.pending = 0 => s.entry[k].pending = 0
      PROVE  Bytes(t, Loose(t)) <= Bytes(s, Loose(s))
  <2>1. \A j \in Resident(t) : t.entry[j].pending = 0 => s.entry[j].pending = 0
    BY <1>1, <1>5 DEF Others, Resident
  <2> QED BY <1>1, <1>2, <2>1, LooseFits
<1> QED BY <1>1, <1>4, <1>5

\* An entry that is unlinked and freed leaves the others as they were.
LEMMA DropGood ==
    ASSUME NEW s, Good(s), NEW k \in Resident(s), NEW t, t = Free(Unlink(s, k), k)
    PROVE  /\ Good(t) /\ Resident(t) = Resident(s) \ {k} /\ Others(s, t, k)
           /\ Bytes(t, Loose(t)) <= Bytes(s, Loose(s))
<1>1. PICK u : u = Unlink(s, k)
  OBVIOUS
<1>2. GoodBut(u, {k}) /\ Resident(u) = Resident(s) /\ u.entry = s.entry
  BY <1>1, UnlinkIs
<1>3. Good(t) /\ Resident(t) = Resident(u) \ {k} /\ Others(u, t, k)
  <2>1. k \in Resident(u) /\ t = Free(u, k)
    BY <1>1, <1>2
  <2> QED BY <1>2, <2>1, FreeIs
<1>4. Others(s, t, k)
  BY <1>2, <1>3 DEF Others
<1>5. \A j \in Resident(t) : t.entry[j] = s.entry[j]
  BY <1>2, <1>3, <1>4 DEF Others, Resident
<1>6. Bytes(t, Loose(t)) <= Bytes(s, Loose(s))
  BY <1>2, <1>3, <1>5, LooseFits
<1> QED BY <1>2, <1>3, <1>4, <1>6

\* A write that is queued is counted.
LEMMA QueuedBound ==
    ASSUME Counters, NEW k \in Key, Queued < MaxQueued
    PROVE  queued[k] + 1 \in 0..MaxQueued
<1> DEFINE C(j) == {j} \X (1..queued[j])
<1>1. \A j \in Key : queued[j] \in Nat
  BY DEF Counters
<1>2. \A j \in Key : IsFiniteSet(C(j))
  <2> TAKE j \in Key
  <2>1. IsFiniteSet(1..queued[j])
    BY <1>1, FS_Interval, 1 \in Int, queued[j] \in Int
  <2>2. IsFiniteSet({j})
    BY FS_Singleton
  <2> QED BY <2>1, <2>2, FS_Product
<1>3. IsFiniteSet({C(j) : j \in Key})
  <2> DEFINE f == [j \in Key |-> C(j)]
  <2>1. f \in Surjection(Key, {C(j) : j \in Key})
    <3> HIDE DEF C
    <3> QED BY DEF Surjection
  <2> HIDE DEF f, C
  <2> QED BY <2>1, FS_Surjection, Sizes
<1>4. IsFiniteSet(UNION {C(j) : j \in Key})
  <2> HIDE DEF C
  <2>1. \A T \in {C(j) : j \in Key} : IsFiniteSet(T)
    BY <1>2
  <2> QED BY <1>3, <2>1, FS_UNION
<1>5. Queued = Cardinality(UNION {C(j) : j \in Key})
  BY DEF Queued
<1>6. Cardinality(C(k)) = queued[k]
  <2>1. IsFiniteSet(1..queued[k]) /\ Cardinality(1..queued[k]) = queued[k]
    <3>1. queued[k] \in Nat
      BY <1>1
    <3>2. /\ IsFiniteSet(1..queued[k])
          /\ Cardinality(1..queued[k]) = IF 1 > queued[k] THEN 0 ELSE queued[k] - 1 + 1
      BY <3>1, FS_Interval, 1 \in Int, queued[k] \in Int
    <3> QED BY <3>1, <3>2
  <2>2. IsFiniteSet({k}) /\ Cardinality({k}) = 1
    BY FS_Singleton
  <2>3. Cardinality(C(k)) = 1 * queued[k]
    BY <2>1, <2>2, FS_Product
  <2> QED BY <1>1, <2>3
<1>7. queued[k] <= Queued
  <2>1. C(k) \in SUBSET (UNION {C(j) : j \in Key})
    OBVIOUS
  <2> HIDE DEF C
  <2> QED BY <1>4, <1>5, <1>6, <2>1, FS_Subset
<1>8. Queued \in Nat
  BY <1>4, <1>5, FS_CardinalityType
<1>9. queued[k] \in Nat /\ MaxQueued \in Nat
  BY <1>1, Sizes
<1> HIDE DEF C
<1> QED BY <1>7, <1>8, <1>9

\* A hit raises a frequency and no more.
LEMMA GetStep ==
    ASSUME IInv, NEW k \in Key, Get(k)
    PROVE  IInv' /\ Kept
<1>1. PICK s : s = shard /\ Good(s) /\ s \in Shards /\ k \in Resident(s)
  BY FindsResident DEF IInv, Get, Good, GoodBut
<1>2. s.entry[k] \in Entry /\ s.entry[k].freq \in 0..MaxFreq
  BY <1>1, ResidentIs, EntryIs
<1>3. PICK f \in 0..MaxFreq :
           f = IF s.entry[k].freq < MaxFreq THEN s.entry[k].freq + 1 ELSE s.entry[k].freq
  BY <1>2, Sizes
<1>4. PICK e : e = [s.entry[k] EXCEPT !.freq = f]
  OBVIOUS
<1>5. /\ e \in Entry /\ e.queue = s.entry[k].queue /\ e.charge = s.entry[k].charge
      /\ e.pending = s.entry[k].pending
  BY <1>2, <1>4 DEF Entry
<1>6. shard' = Touch(s, k, e)
  BY <1>1, <1>3, <1>4 DEF Get, Touch, Shards
<1>7. /\ Good(shard') /\ Resident(shard') = Resident(s)
      /\ Bytes(shard', Loose(shard')) <= Bytes(s, Loose(s))
  BY <1>1, <1>5, <1>6, TouchGood
<1>8. UNCHANGED <<budget, queued, refused, trims, fill>>
  BY DEF Get
<1>9. Counters'
  BY <1>8 DEF IInv, Counters
<1>10. Fits'
  <2>1. Bytes(shard', Loose(shard')) \in Nat /\ Bytes(s, Loose(s)) \in Nat /\ budget \in Nat
    BY <1>1, <1>7, TotalIs, Sizes DEF IInv, Counters
  <2>2. trims = 0 => Bytes(s, Loose(s)) <= budget
    BY <1>1 DEF IInv, Fits
  <2>3. trims = 0 => Bytes(shard', Loose(shard')) <= budget
    BY <1>7, <2>1, <2>2
  <2> QED BY <1>8, <2>3 DEF Fits
<1>11. Kept
  BY <1>1, <1>7 DEF Kept, Pinned
<1> QED BY <1>7, <1>9, <1>10, <1>11 DEF IInv

\* What a shard is after an eviction is inside the budget it was given.
LEMMA EvictFits ==
    ASSUME NEW s, Good(s), budget' \in Budgets, shard' = Evict(s, budget')
    PROVE  Good(shard') /\ Fits' /\ Pinned(s) \subseteq Resident(shard')
<1>1. budget' \in Nat
  BY Sizes
<1>2. /\ Good(shard') /\ Pinned(s) \subseteq Pinned(shard')
      /\ Bytes(shard', Loose(shard')) <= budget'
  BY <1>1, EvictIs
<1>3. Fits'
  BY <1>2 DEF Fits
<1> QED BY <1>2, <1>3 DEF Pinned

\* A write replaces the entry and carries its pins over.
LEMMA PutEntryStep ==
    ASSUME IInv, NEW k \in Key, NEW c \in Charges, PutEntry(k, c)
    PROVE  IInv' /\ Kept
<1> DEFINE old   == Find(shard.index, k)
           carry == IF old THEN shard.entry[k].pending ELSE 0
           dropped == IF old THEN Free(Unlink(shard, k), k) ELSE shard
           new   == [pending |-> (carry + 1) % Word, freq |-> 0, charge |-> c,
                     queue |-> "small"]
<1>1. Good(shard) /\ Counters /\ shard \in Shards
  BY DEF IInv, Good, GoodBut
<1>2. old <=> k \in Resident(shard)
  BY <1>1, FindsResident
<1>3. PICK s : s = dropped
  OBVIOUS
<1>4. Good(s) /\ k \notin Resident(s) /\ Resident(s) = Resident(shard) \ {k}
      /\ Others(shard, s, k)
  <2>1. CASE old
    <3>1. s = Free(Unlink(shard, k), k)
      BY <1>3, <2>1
    <3> QED BY <1>1, <1>2, <2>1, <3>1, DropGood
  <2>2. CASE ~old
    <3>1. s = shard
      BY <1>3, <2>2
    <3> QED BY <1>1, <1>2, <2>2, <3>1 DEF Others
  <2> QED BY <2>1, <2>2
<1>5. PICK p \in 0..Word-1 : p = carry
  <2>1. CASE old
    BY <1>1, <1>2, <2>1, ResidentIs, EntryIs
  <2>2. CASE ~old
    BY <2>2, Sizes
  <2> QED BY <2>1, <2>2
<1>6. PICK x \in 0..Word-1 : x = (p + 1) % Word /\ (p # Word - 1 => x > 0)
  <2>1. Word \in Nat /\ Word > 1
    BY Sizes
  <2>2. (p + 1) % Word \in 0..Word-1
    BY <2>1
  <2>3. p # Word - 1 => (p + 1) % Word = p + 1
    <3>1. ASSUME p # Word - 1 PROVE (p + 1) % Word = p + 1
      <4>1. p + 1 \in 0..Word-1
        BY <2>1, <3>1
      <4>2. (Word * 0 + (p + 1)) % Word = p + 1
        BY <2>1, <4>1, Remainder, 0 \in Nat, Word \in Nat \ {0}
      <4>3. Word * 0 + (p + 1) = p + 1
        BY <2>1
      <4> QED BY <4>2, <4>3
    <3> QED BY <3>1
  <2> QED BY <2>2, <2>3
<1>7. PICK e : e = new
  OBVIOUS
<1>8. e \in Entry /\ e.pending = x
  <2>1. 0 \in 0..MaxFreq
    BY Sizes
  <2>2. e = [pending |-> x, freq |-> 0, charge |-> c, queue |-> "small"]
    BY <1>5, <1>6, <1>7
  <2> QED BY <2>1, <2>2 DEF Entry
<1>9. PICK t : t = Insert(s, k, e)
  OBVIOUS
<1>10. Good(t) /\ Resident(t) = Resident(s) \cup {k} /\ t.entry[k].pending = x
       /\ Others(s, t, k)
  BY <1>4, <1>8, <1>9, ShardInsertIs
<1>11. /\ Queued < MaxQueued /\ queued' = [queued EXCEPT ![k] = @ + 1]
       /\ shard' = Evict(t, budget) /\ UNCHANGED <<budget, refused, trims, fill>>
  BY <1>3, <1>7, <1>9, Zenon DEF PutEntry
<1>12. Good(shard') /\ Fits' /\ Pinned(t) \subseteq Resident(shard')
  <2>1. budget' \in Budgets /\ shard' = Evict(t, budget')
    BY <1>1, <1>11 DEF Counters
  <2> QED BY <1>10, <2>1, EvictFits
<1>13. Counters'
  <2>1. queued[k] + 1 \in 0..MaxQueued
    BY <1>1, <1>11, QueuedBound
  <2> QED BY <1>1, <1>11, <2>1 DEF Counters
<1>14. Kept
  <2> SUFFICES ASSUME NEW j \in Pinned(shard), shard.entry[j].pending # Word - 1
               PROVE  j \in Resident(shard')
    BY DEF Kept
  <2>1. j \in Key /\ j \in Resident(shard) /\ shard.entry[j].pending > 0
    BY DEF Pinned, Resident
  <2>2. CASE j = k
    <3>1. p # Word - 1
      BY <1>2, <1>5, <2>1, <2>2
    <3>2. x > 0
      BY <1>6, <3>1
    <3>3. k \in Pinned(t)
      BY <1>10, <3>2 DEF Pinned
    <3> QED BY <1>12, <2>2, <3>3
  <2>3. CASE j # k
    <3>1. t.entry[j] = shard.entry[j] /\ j \in Resident(t)
      BY <1>4, <1>10, <2>1, <2>3 DEF Others
    <3>2. j \in Pinned(t)
      BY <2>1, <3>1 DEF Pinned
    <3> QED BY <1>12, <3>2
  <2> QED BY <2>2, <2>3
<1> QED BY <1>12, <1>13, <1>14 DEF IInv

\* One pin less: what that lets go is inside the budget, or about to be trimmed.
LEMMA MarkPersistedStep ==
    ASSUME IInv, NEW k \in Key, MarkPersisted(k)
    PROVE  IInv' /\ Kept
<1>1. PICK s : s = shard /\ Good(s) /\ s \in Shards
  BY DEF IInv, Good, GoodBut
<1>2. Find(shard.index, k) <=> k \in Resident(s)
  BY <1>1, FindsResident
<1>3. /\ queued[k] > 0 /\ trims < Writers /\ queued' = [queued EXCEPT ![k] = @ - 1]
      /\ UNCHANGED <<budget, refused, fill>>
  BY DEF MarkPersisted
<1>4. trims' \in 0..Writers /\ (trims' = trims \/ trims' = trims + 1)
  BY <1>3, Sizes DEF MarkPersisted, IInv, Counters
<1>5. Counters'
  <2>1. queued[k] - 1 \in 0..MaxQueued
    BY <1>3, Sizes DEF IInv, Counters
  <2> QED BY <1>3, <1>4, <2>1 DEF IInv, Counters
<1>6. trims \in Nat /\ budget \in Nat
  BY Sizes DEF IInv, Counters
<1>7. CASE k \notin Resident(s)
  <2>1. shard' = s /\ trims' = trims
    BY <1>1, <1>2, <1>7 DEF MarkPersisted
  <2>2. Fits'
    BY <1>1, <1>3, <2>1 DEF IInv, Fits
  <2>3. Kept
    BY <1>1, <2>1 DEF Kept, Pinned
  <2> QED BY <1>1, <1>5, <2>1, <2>2, <2>3 DEF IInv
<1>8. CASE k \in Resident(s)
  <2>1. s.entry[k] \in Entry
    BY <1>1, <1>8, ResidentIs DEF Resident
  <2>2. PICK p \in 0..Word-1 : p = s.entry[k].pending
    BY <2>1, EntryIs
  <2>3. PICK x \in 0..Word-1 : x = (p - 1) % Word /\ (x = 0 => p = 1)
    <3>1. Word \in Nat /\ Word > 1
      BY Sizes
    <3>2. (p - 1) % Word = IF p = 0 THEN Word - 1 ELSE p - 1
      BY <3>1
    <3> QED BY <3>1, <3>2
  <2>4. PICK e : e = [s.entry[k] EXCEPT !.pending = x]
    OBVIOUS
  <2>5. /\ e \in Entry /\ e.queue = s.entry[k].queue /\ e.charge = s.entry[k].charge
        /\ e.pending = x
    BY <2>1, <2>4 DEF Entry
  <2>6. shard' = Touch(s, k, e)
    BY <1>1, <1>2, <1>8, <2>2, <2>3, <2>4 DEF MarkPersisted, Touch, Shards
  <2>7. /\ Good(shard') /\ Resident(shard') = Resident(s)
        /\ TotalBytes(shard') <= TotalBytes(s)
        /\ (e.pending = 0 => s.entry[k].pending = 0)
                => Bytes(shard', Loose(shard')) <= Bytes(s, Loose(s))
    BY <1>1, <1>8, <2>5, <2>6, TouchGood
  <2>8. /\ Bytes(shard', Loose(shard')) \in Nat /\ Bytes(s, Loose(s)) \in Nat
        /\ Bytes(shard', Loose(shard')) <= TotalBytes(shard')
        /\ TotalBytes(shard') \in Nat /\ TotalBytes(s) \in Nat
    <3>1. /\ TotalBytes(shard') = Bytes(shard', Loose(shard')) + Bytes(shard', Pinned(shard'))
          /\ Bytes(shard', Loose(shard')) \in Nat /\ Bytes(shard', Pinned(shard')) \in Nat
          /\ TotalBytes(shard') \in Nat
      BY <2>7, TotalIs
    <3>2. TotalBytes(s) \in Nat /\ Bytes(s, Loose(s)) \in Nat
      BY <1>1, TotalIs
    <3> QED BY <3>1, <3>2
  <2>9. Fits'
    <3> SUFFICES ASSUME trims' = 0 PROVE Bytes(shard', Loose(shard')) <= budget
      BY <1>3 DEF Fits
    <3>1. trims = 0
      BY <1>4, <1>6
    <3>2. CASE p = 1
      <4>1. ~(TotalBytes(s) > budget)
        BY <1>1, <1>2, <1>6, <1>8, <2>2, <3>2 DEF MarkPersisted
      <4> QED BY <1>6, <2>7, <2>8, <4>1
    <3>3. CASE p # 1
      <4>1. Bytes(shard', Loose(shard')) <= Bytes(s, Loose(s))
        BY <2>3, <2>5, <2>7, <3>3
      <4>2. Bytes(s, Loose(s)) <= budget
        BY <1>1, <3>1 DEF IInv, Fits
      <4> QED BY <1>6, <2>8, <4>1, <4>2
    <3> QED BY <3>2, <3>3
  <2>10. Kept
    BY <1>1, <2>7 DEF Kept, Pinned
  <2> QED BY <1>5, <2>7, <2>9, <2>10 DEF IInv
<1> QED BY <1>7, <1>8

\* A trim that was owed.
LEMMA TrimStep ==
    ASSUME IInv, Trim
    PROVE  IInv' /\ Kept
<1>1. Good(shard) /\ Counters
  BY DEF IInv
<1>2. /\ trims > 0 /\ trims' = trims - 1 /\ shard' = Evict(shard, budget)
      /\ UNCHANGED <<budget, queued, refused, fill>>
  BY DEF Trim
<1>3. Good(shard') /\ Fits' /\ Pinned(shard) \subseteq Resident(shard')
  <2>1. budget' \in Budgets /\ shard' = Evict(shard, budget')
    BY <1>1, <1>2 DEF Counters
  <2> QED BY <1>1, <2>1, EvictFits
<1>4. Counters'
  <2>1. trims - 1 \in 0..Writers
    BY <1>1, <1>2, Sizes DEF Counters
  <2> QED BY <1>1, <1>2, <2>1 DEF Counters
<1>5. Kept
  BY <1>3 DEF Kept
<1> QED BY <1>3, <1>4, <1>5 DEF IInv

\* A refused write takes its entry with it, whatever pins it.
LEMMA EraseStep ==
    ASSUME IInv, NEW k \in Key, Erase(k)
    PROVE  IInv' /\ Kept
<1>1. PICK s : s = shard /\ Good(s)
  BY DEF IInv
<1>2. Find(shard.index, k) <=> k \in Resident(s)
  BY <1>1, FindsResident
<1>3. /\ queued[k] > 0 /\ refused < MaxRefused /\ refused' = refused + 1
      /\ queued' = [queued EXCEPT ![k] = @ - 1] /\ UNCHANGED <<budget, trims, fill>>
  BY DEF Erase
<1>4. Counters'
  <2>1. queued[k] - 1 \in 0..MaxQueued /\ refused + 1 \in 0..MaxRefused
    BY <1>3, Sizes DEF IInv, Counters
  <2> QED BY <1>3, <2>1 DEF IInv, Counters
<1>5. /\ Good(shard') /\ Bytes(shard', Loose(shard')) <= Bytes(s, Loose(s))
      /\ \A j \in Resident(s) : j # k => j \in Resident(shard')
  <2>1. CASE k \in Resident(s)
    <3>1. shard' = Free(Unlink(s, k), k)
      BY <1>1, <1>2, <2>1 DEF Erase
    <3> QED BY <1>1, <2>1, <3>1, DropGood
  <2>2. CASE k \notin Resident(s)
    <3>1. shard' = s
      BY <1>1, <1>2, <2>2 DEF Erase
    <3>2. Bytes(s, Loose(s)) \in Nat
      BY <1>1, TotalIs
    <3> QED BY <1>1, <3>1, <3>2
  <2> QED BY <2>1, <2>2
<1>6. Fits'
  <2>1. Bytes(shard', Loose(shard')) \in Nat /\ Bytes(s, Loose(s)) \in Nat /\ budget \in Nat
    BY <1>1, <1>5, TotalIs, Sizes DEF IInv, Counters
  <2>2. trims = 0 => Bytes(s, Loose(s)) <= budget
    BY <1>1 DEF IInv, Fits
  <2>3. trims = 0 => Bytes(shard', Loose(shard')) <= budget
    BY <1>5, <2>1, <2>2
  <2> QED BY <1>3, <2>3 DEF Fits
<1>7. Kept
  <2> SUFFICES ASSUME NEW j \in Pinned(shard) PROVE j \in Resident(shard') \/ Erase(j)
    BY DEF Kept
  <2>1. CASE j = k
    BY <2>1
  <2>2. CASE j # k
    BY <1>1, <1>5, <2>2 DEF Pinned
  <2> QED BY <2>1, <2>2
<1> QED BY <1>4, <1>5, <1>6, <1>7 DEF IInv

\* A fill looks for its key and changes no more than itself.
LEMMA FillCheckStep ==
    ASSUME IInv, NEW r \in Readers, NEW k \in Key, FillCheck(r, k)
    PROVE  IInv' /\ Kept
<1>1. PICK p \in {"door", "insert"} : fill' = [fill EXCEPT ![r] = [pc |-> p, key |-> k]]
  BY DEF FillCheck
<1>2. UNCHANGED <<shard, budget, queued, refused, trims>>
  BY DEF FillCheck
<1>3. Counters'
  <2>1. [pc |-> p, key |-> k] \in [pc : {"idle", "door", "insert"}, key : Key \cup {NoKey}]
    OBVIOUS
  <2>2. fill' \in [Readers -> [pc : {"idle", "door", "insert"}, key : Key \cup {NoKey}]]
    BY <1>1, <2>1 DEF IInv, Counters
  <2>3. \A q \in Readers : fill'[q].pc # "idle" => fill'[q].key \in Key
    BY <1>1 DEF IInv, Counters
  <2> QED BY <1>2, <2>2, <2>3 DEF IInv, Counters
<1>4. Good(shard') /\ Fits'
  BY <1>2 DEF IInv, Fits
<1>5. Kept
  BY <1>2 DEF Kept, Pinned
<1> QED BY <1>3, <1>4, <1>5 DEF IInv

\* A fill that has ended.
LEMMA FillEnds ==
    ASSUME Counters, NEW r \in Readers,
           fill' = [fill EXCEPT ![r] = [pc |-> "idle", key |-> NoKey]],
           UNCHANGED <<budget, queued, refused, trims>>
    PROVE  Counters'
<1>1. [pc |-> "idle", key |-> NoKey] \in [pc : {"idle", "door", "insert"}, key : Key \cup {NoKey}]
  OBVIOUS
<1>2. fill' \in [Readers -> [pc : {"idle", "door", "insert"}, key : Key \cup {NoKey}]]
  BY <1>1 DEF Counters
<1>3. \A q \in Readers : fill'[q].pc # "idle" => fill'[q].key \in Key
  BY DEF Counters
<1> QED BY <1>2, <1>3 DEF Counters

\* The doorkeeper lets the fill in, or remembers its key.
LEMMA FillDoorStep ==
    ASSUME IInv, NEW r \in Readers, FillDoor(r)
    PROVE  IInv' /\ Kept
<1>1. UNCHANGED <<budget, queued, refused, trims>> /\ fill[r].pc = "door"
  BY DEF FillDoor
<1>2. fill[r].key \in Key /\ fill \in [Readers -> [pc : {"idle", "door", "insert"}, key : Key \cup {NoKey}]]
  BY <1>1 DEF IInv, Counters
<1>3. CASE Hash[fill[r].key] \in shard.ghostSet
  <2>1. fill' = [fill EXCEPT ![r].pc = "insert"] /\ shard' = shard
    BY <1>3 DEF FillDoor
  <2>2. fill' \in [Readers -> [pc : {"idle", "door", "insert"}, key : Key \cup {NoKey}]]
    BY <1>2, <2>1
  <2>3. \A q \in Readers : fill'[q].pc # "idle" => fill'[q].key \in Key
    BY <1>2, <2>1 DEF IInv, Counters
  <2>4. Counters'
    BY <1>1, <2>2, <2>3 DEF IInv, Counters
  <2>5. Good(shard') /\ Fits'
    BY <1>1, <2>1 DEF IInv, Fits
  <2>6. Kept
    BY <2>1 DEF Kept, Pinned
  <2> QED BY <2>4, <2>5, <2>6 DEF IInv
<1>4. CASE Hash[fill[r].key] \notin shard.ghostSet
  <2>1. /\ fill' = [fill EXCEPT ![r] = [pc |-> "idle", key |-> NoKey]]
        /\ shard' = GhostAdd(shard, Hash[fill[r].key])
    BY <1>4 DEF FillDoor
  <2>2. Counters'
    BY <1>1, <2>1, FillEnds DEF IInv
  <2>3. Hash[fill[r].key] \in Nat
    BY <1>2, Sizes
  <2>4. Good(shard') /\ Resident(shard') = Resident(shard) /\ shard'.entry = shard.entry
    BY <2>1, <2>3, GhostAddIs DEF IInv, Good
  <2>5. Bytes(shard', Loose(shard')) = Bytes(shard, Loose(shard))
    <3>1. Loose(shard') = Loose(shard)
      BY <2>4 DEF Loose, Pinned
    <3> QED BY <2>4, <3>1 DEF Bytes, Charged
  <2>6. Fits'
    BY <1>1, <2>5 DEF IInv, Fits
  <2>7. Kept
    BY <2>4 DEF Kept, Pinned
  <2> QED BY <2>2, <2>4, <2>6, <2>7 DEF IInv
<1> QED BY <1>3, <1>4

\* A fill that still finds its key absent inserts it.
LEMMA FillInsertStep ==
    ASSUME IInv, NEW r \in Readers, NEW c \in Charges, FillInsert(r, c)
    PROVE  IInv' /\ Kept
<1> DEFINE new == [pending |-> 0, freq |-> 0, charge |-> c, queue |-> "small"]
<1>1. /\ UNCHANGED <<budget, queued, refused, trims>> /\ fill[r].pc = "insert"
      /\ fill' = [fill EXCEPT ![r] = [pc |-> "idle", key |-> NoKey]]
  BY DEF FillInsert
<1>2. PICK k \in Key : k = fill[r].key
  BY <1>1 DEF IInv, Counters
<1>3. Good(shard) /\ Counters
  BY DEF IInv
<1>4. Counters'
  BY <1>1, <1>3, FillEnds
<1>5. Find(shard.index, k) <=> k \in Resident(shard)
  BY <1>3, FindsResident
<1>6. CASE k \in Resident(shard)
  <2>1. shard' = shard
    BY <1>2, <1>5, <1>6 DEF FillInsert
  <2>2. Fits' /\ Kept
    BY <1>1, <2>1 DEF IInv, Fits, Kept, Pinned
  <2> QED BY <1>3, <1>4, <2>1, <2>2 DEF IInv
<1>7. CASE k \notin Resident(shard)
  <2>1. PICK e : e = new
    OBVIOUS
  <2>2. e \in Entry
    <3>1. 0 \in 0..MaxFreq /\ 0 \in 0..Word-1
      BY Sizes
    <3> QED BY <2>1, <3>1 DEF Entry
  <2>3. PICK t : t = Insert(shard, k, e)
    OBVIOUS
  <2>4. Good(t) /\ Resident(t) = Resident(shard) \cup {k} /\ Others(shard, t, k)
    BY <1>3, <1>7, <2>2, <2>3, ShardInsertIs
  <2>5. shard' = Evict(t, budget)
    BY <1>2, <1>5, <1>7, <2>1, <2>3, Zenon DEF FillInsert
  <2>6. Good(shard') /\ Fits' /\ Pinned(t) \subseteq Resident(shard')
    <3>1. budget' \in Budgets /\ shard' = Evict(t, budget')
      BY <1>1, <1>3, <2>5 DEF Counters
    <3> QED BY <2>4, <3>1, EvictFits
  <2>7. Pinned(shard) \subseteq Pinned(t)
    BY <1>7, <2>4 DEF Pinned, Others, Resident
  <2>8. Kept
    BY <2>6, <2>7 DEF Kept
  <2> QED BY <1>4, <2>6, <2>8 DEF IInv
<1> QED BY <1>6, <1>7

\* The governor takes budget away, and the shard follows at once.
LEMMA SetBudgetStep ==
    ASSUME IInv, NEW b \in Budgets, SetBudget(b)
    PROVE  IInv' /\ Kept
<1>1. /\ budget' = b /\ shard' = Evict(shard, b) /\ UNCHANGED <<queued, refused, trims, fill>>
  BY DEF SetBudget
<1>2. Good(shard') /\ Fits' /\ Pinned(shard) \subseteq Resident(shard')
  BY <1>1, EvictFits DEF IInv
<1>3. Counters'
  BY <1>1 DEF IInv, Counters
<1>4. Kept
  BY <1>2 DEF Kept
<1> QED BY <1>2, <1>3, <1>4 DEF IInv

\* An empty shard is good, and charged nothing.
LEMMA InitIInv == Init => IInv
<1> SUFFICES ASSUME Init PROVE IInv
  OBVIOUS
<1>1. PICK s : s = shard
  OBVIOUS
<1>2. /\ s.index = Table(0) /\ s.small = <<>> /\ s.main = <<>> /\ s.ghost = <<>>
      /\ s.ghostSet = {} /\ s.entry = [k \in Key |-> None]
      /\ s = [index |-> Table(0), small |-> <<>>, main |-> <<>>,
              entry |-> [k \in Key |-> None], ghost |-> <<>>, ghostSet |-> {}]
  BY <1>1 DEF Init
<1>3. TableOK(Table(0)) /\ Table(0).cap = 0 /\ KeysIn(Table(0)) = {} /\ Table(0) \in Tables
  BY EmptyTable, 0 \in Nat DEF TableOK
<1>4. s \in Shards
  BY <1>2, <1>3 DEF Shards
<1>5. Resident(s) = {}
  BY <1>2 DEF Resident
<1>6. Indexed(s)
  BY <1>2, <1>3, <1>5 DEF Indexed, Room
<1>7. Range(<<>>) = {} /\ IsInjective(<<>>)
  BY DEF Range, IsInjective
<1>8. \A k \in Key : s.entry[k].queue = "none"
  BY <1>2 DEF None
<1>9. Linked(s, {}) /\ Remembers(s)
  BY <1>2, <1>7, <1>8 DEF Linked, In, Remembers
<1>10. Good(s)
  BY <1>4, <1>6, <1>9 DEF Good, GoodBut
<1>11. Counters
  BY Sizes DEF Init, Counters
<1>12. Fits
  <2>1. Loose(s) = {} /\ Charged(s, {}) = {}
    BY <1>5 DEF Loose, Charged
  <2>2. Bytes(s, Loose(s)) = 0
    BY <2>1, FS_EmptySet DEF Bytes
  <2>3. budget \in Nat
    BY Sizes DEF Init
  <2> QED BY <1>1, <2>2, <2>3 DEF Fits
<1> QED BY <1>1, <1>10, <1>11, <1>12 DEF IInv

\* Every step keeps the invariant, and the pinned entries.
LEMMA NextStep ==
    ASSUME IInv, [Next]_vars
    PROVE  IInv' /\ (Kept \/ UNCHANGED vars)
<1>1. CASE UNCHANGED vars
  BY <1>1 DEF vars, IInv, Counters, Fits
<1>2. CASE Next
  <2>1. CASE \E k \in Key : Get(k) \/ MarkPersisted(k) \/ Erase(k)
    BY <2>1, GetStep, MarkPersistedStep, EraseStep
  <2>2. CASE \E k \in Key, c \in Charges : PutEntry(k, c)
    BY <2>2, PutEntryStep
  <2>3. CASE Trim
    BY <2>3, TrimStep
  <2>4. CASE \E r \in Readers, k \in Key : FillCheck(r, k)
    BY <2>4, FillCheckStep
  <2>5. CASE \E r \in Readers : FillDoor(r) \/ \E c \in Charges : FillInsert(r, c)
    BY <2>5, FillDoorStep, FillInsertStep
  <2>6. CASE \E b \in Budgets : SetBudget(b)
    BY <2>6, SetBudgetStep
  <2> QED BY <1>2, <2>1, <2>2, <2>3, <2>4, <2>5, <2>6 DEF Next
<1> QED BY <1>1, <1>2

\* Index, queues, entries and ghosts agree, and what no pin holds fits, always.
THEOREM InvariantHolds == Spec => []IInv
<1>1. IInv /\ [Next]_vars => IInv'
  BY NextStep
<1> QED BY <1>1, InitIInv, PTL DEF Spec

\* A key is once in a queue of different keys, or not at all.
LEMMA OnceIn ==
    ASSUME NEW q \in Seq(Key), IsInjective(q), NEW k
    PROVE  Cardinality({i \in DOMAIN q : q[i] = k}) = IF k \in Range(q) THEN 1 ELSE 0
<1>1. CASE k \in Range(q)
  <2>1. PICK i \in DOMAIN q : q[i] = k
    BY <1>1 DEF Range
  <2>2. {j \in DOMAIN q : q[j] = k} = {i}
    BY <2>1 DEF IsInjective
  <2> QED BY <1>1, <2>2, FS_Singleton
<1>2. CASE k \notin Range(q)
  <2>1. {j \in DOMAIN q : q[j] = k} = {}
    BY <1>2 DEF Range
  <2> QED BY <1>2, <2>1, FS_EmptySet
<1> QED BY <1>1, <1>2

\* One slot names a key of the table, and none another.
LEMMA OnceHeld ==
    ASSUME NEW t, TableOK(t), NEW k
    PROVE  Cardinality({i \in Held(t) : t.slots[i] = k}) = IF k \in KeysIn(t) THEN 1 ELSE 0
<1>1. CASE k \in KeysIn(t)
  <2>1. PICK i \in Held(t) : t.slots[i] = k
    BY <1>1 DEF KeysIn
  <2>2. {j \in Held(t) : t.slots[j] = k} = {i}
    BY <2>1 DEF TableOK, Single
  <2> QED BY <1>1, <2>2, FS_Singleton
<1>2. CASE k \notin KeysIn(t)
  <2>1. {j \in Held(t) : t.slots[j] = k} = {}
    BY <1>2 DEF KeysIn
  <2> QED BY <1>2, <2>1, FS_EmptySet
<1> QED BY <1>1, <1>2

\* The invariant has the types in it.
LEMMA IInvTypes ==
    ASSUME IInv
    PROVE  TypeOK
<1>1. shard \in Shards
  BY DEF IInv, Good, GoodBut
<1>2. shard.index \in Tables
  BY <1>1, ShardIs
<1>3. shard.index.slots \in [0..shard.index.cap-1 -> Key \cup {NoKey}]
  BY <1>2, TableIs
<1> QED BY <1>1, <1>3, ShardIs DEF TypeOK, IInv, Counters

\* A lookup finds exactly the entries that are linked, each once and in the
\* queue its flag names, every search meets a hole, and no ghost is remembered
\* for ever, for any keys, hashes and table size (FlatIndex, Shard).
THEOREM ShardIsConsistent == Spec => []ShardConsistent
<1>1. ASSUME IInv PROVE ShardConsistent
  <2>1. PICK s : s = shard /\ Good(s) /\ s \in Shards
    BY <1>1 DEF IInv, Good, GoodBut
  <2>2. /\ s.small \in Seq(Key) /\ IsInjective(s.small) /\ Range(s.small) = In(s, "small", {})
        /\ s.main \in Seq(Key) /\ IsInjective(s.main) /\ Range(s.main) = In(s, "main", {})
    BY <2>1, ShardIs DEF Good, GoodBut, Linked
  <2>3. TableOK(s.index) /\ KeysIn(s.index) = Resident(s) /\ Room(s.index)
    BY <2>1 DEF Good, GoodBut, Indexed
  <2>4. ASSUME NEW k \in Key
        PROVE  /\ Cardinality({i \in DOMAIN s.small : s.small[i] = k})
                    = IF s.entry[k].queue = "small" THEN 1 ELSE 0
               /\ Cardinality({i \in DOMAIN s.main : s.main[i] = k})
                    = IF s.entry[k].queue = "main" THEN 1 ELSE 0
               /\ Cardinality({i \in Held(s.index) : s.index.slots[i] = k})
                    = IF k \in Resident(s) THEN 1 ELSE 0
               /\ Find(s.index, k) <=> k \in Resident(s)
    <3>1. /\ k \in Range(s.small) <=> s.entry[k].queue = "small"
          /\ k \in Range(s.main) <=> s.entry[k].queue = "main"
      BY <2>2 DEF In
    <3>2. Cardinality({i \in DOMAIN s.small : s.small[i] = k})
            = IF k \in Range(s.small) THEN 1 ELSE 0
      BY <2>2, OnceIn
    <3>3. Cardinality({i \in DOMAIN s.main : s.main[i] = k})
            = IF k \in Range(s.main) THEN 1 ELSE 0
      BY <2>2, OnceIn
    <3>4. Cardinality({i \in Held(s.index) : s.index.slots[i] = k})
            = IF k \in KeysIn(s.index) THEN 1 ELSE 0
      BY <2>3, OnceHeld
    <3>5. Find(s.index, k) <=> k \in Resident(s)
      BY <2>1, FindsResident
    <3> QED BY <2>3, <3>1, <3>2, <3>3, <3>4, <3>5
  <2>5. s.index.cap > 0 => Cardinality(Held(s.index)) < s.index.cap
    <3>1. s.index \in Tables /\ Single(s.index) /\ s.index.cap \in Nat
      BY <2>3, TableIs DEF TableOK
    <3> QED BY <2>3, <3>1, AiryIs DEF Room
  <2>6. IsInjective(s.ghost) /\ s.ghostSet = Range(s.ghost)
    BY <2>1 DEF Good, GoodBut, Remembers
  <2> QED BY <1>1, <2>1, <2>4, <2>5, <2>6, IInvTypes DEF ShardConsistent
<1> QED BY <1>1, InvariantHolds, PTL

\* Eviction gives up only when pins stand in its way: the passes its guard
\* allows are enough to wear every frequency down (Shard::evict).
THEOREM BudgetExceededByPinsOnly == Spec => []OverBudgetByPins
<1>1. ASSUME IInv PROVE OverBudgetByPins
  <2>1. /\ TotalBytes(shard) = Bytes(shard, Loose(shard)) + Bytes(shard, Pinned(shard))
        /\ Bytes(shard, Loose(shard)) \in Nat /\ Bytes(shard, Pinned(shard)) \in Nat
    BY <1>1, TotalIs DEF IInv
  <2>2. budget \in Nat
    BY <1>1, Sizes DEF IInv, Counters
  <2>3. trims = 0 => Bytes(shard, Loose(shard)) <= budget
    BY <1>1 DEF IInv, Fits
  <2> QED BY <2>1, <2>2, <2>3 DEF OverBudgetByPins
<1> QED BY <1>1, InvariantHolds, PTL

\* No eviction, replacement or fill takes a pinned entry out of the cache.
THEOREM PinnedEntriesStay == Spec => PinnedStay
<1>1. ASSUME IInv, [Next]_vars
      PROVE  [\A k \in Pinned(shard) :
                k \in Resident(shard') \/ Erase(k) \/ shard.entry[k].pending = Word - 1]_vars
  BY <1>1, NextStep DEF Kept
<1> QED BY <1>1, InvariantHolds, PTL DEF Spec, PinnedStay
=============================================================================
