---------------------------- MODULE DocCacheProofs ----------------------------
(***************************************************************************)
(* Theorems about DocCache, for any IO threads, readers, keys, limits,     *)
(* budgets and index sizes: an entry is pinned as often as writes to it    *)
(* are outstanding and, once they are applied, only as often as sorting    *)
(* dropped one, the seqno index never names a superseded document, and     *)
(* reads go forward.                                                       *)
(***************************************************************************)
EXTENDS DocCache, TLAPS, FiniteSetTheorems, FunctionTheorems, SequenceTheorems

-----------------------------------------------------------------------------
(* The inductive invariant *)

\* Document n is one of key k.
IsDoc(n, k) == n \in DOMAIN docs /\ docs[n] # Absent /\ docs[n].key = k

\* Whatever names a document names one of its key; every key has one.
Named ==
    /\ \A k \in Key : \E n \in DOMAIN docs : IsDoc(n, k)
    /\ \A k \in Key : index[k] # Absent => IsDoc(index[k].seqno, k)
    /\ \A i \in DOMAIN marks : marks[i].seqno # 0 => IsDoc(marks[i].seqno, marks[i].key)
    /\ \A r \in Readers :
         /\ reads[r].hint # 0 => IsDoc(reads[r].hint, reads[r].key)
         /\ reads[r].pc \in {"note", "fill", "answer"} =>
              IsDoc(reads[r].seqno, reads[r].key)

\* There is nothing to mark before a batch is written.
MarksAfter == wpc \in {"idle", "write"} => marks = <<>>

DShape == TypeOK /\ Named /\ MarksAfter

\* A mark that names k's last document is still to come.
Coming(k) ==
    \E i \in DOMAIN marks : marks[i].key = k /\ marks[i].seqno = LastSeqno(k)

\* The index is behind only where a mark will raise it; a mark that is not the
\* last of its key is followed by that one; a key missing from the index was
\* evicted.
IndexInv ==
    /\ seqEvicted \/ Indexed = Key
    /\ \A k \in Key : index[k] # Absent => index[k].seqno = LastSeqno(k) \/ Coming(k)
    /\ \A i \in DOMAIN marks : marks[i].seqno # 0 =>
         \E j \in DOMAIN marks :
            /\ j >= i /\ marks[j].key = marks[i].key
            /\ marks[j].seqno = LastSeqno(marks[i].key)

Count(k) == Cardinality(Unmarked(k))

\* The pins of a key none of whose writes was refused: one for each write that
\* is not marked, and one for each duplicate that sorting dropped.
PinsOf(k) ==
    /\ IsFiniteSet(Unmarked(k))
    /\ Carry(k) = Count(k) + deduped[k] /\ Carry(k) <= issued

Pinned(c) == Resident(c) \ Unpinned(c)

PinInv ==
    /\ \A k \in Key \ refused : PinsOf(k)
    /\ PendingItemsExact

\* Entry::pending does not wrap: there are fewer writes than it can count.
NoWrap == MaxWrites < Word

-----------------------------------------------------------------------------
(* Sets of numbers *)

\* The place of i among the elements of a set.
Rank(S, i) == Cardinality({j \in S : j <= i})

\* Ranks number the elements of a finite set of numbers from one on.
LEMMA Ranks ==
    ASSUME NEW S \in SUBSET Nat, IsFiniteSet(S)
    PROVE  /\ Cardinality(S) \in Nat
           /\ \A i \in S : Rank(S, i) \in 1 .. Cardinality(S)
           /\ \A i, j \in S : Rank(S, i) = Rank(S, j) => i = j
           /\ \A m \in 1 .. Cardinality(S) : \E i \in S : Rank(S, i) = m
<1> DEFINE N == Cardinality(S)
           upto(i) == {j \in S : j <= i}
<1>1. N \in Nat
  BY FS_CardinalityType
<1>2. ASSUME NEW i \in S PROVE IsFiniteSet(upto(i)) /\ upto(i) \in SUBSET S
  <2>1. upto(i) \in SUBSET S
    OBVIOUS
  <2> QED BY <2>1, FS_Subset
<1>3. ASSUME NEW i \in S PROVE Rank(S, i) \in 1 .. N
  <2>1. i \in upto(i)
    OBVIOUS
  <2>2. Cardinality(upto(i)) \in Nat /\ Cardinality(upto(i)) <= N
    BY <1>2, FS_Subset, FS_CardinalityType
  <2>3. Cardinality(upto(i)) # 0
    BY <1>2, <2>1, FS_EmptySet
  <2>4. Rank(S, i) = Cardinality(upto(i))
    BY DEF Rank
  <2> HIDE DEF upto, N
  <2> QED BY <1>1, <2>2, <2>3, <2>4
<1>4. ASSUME NEW i \in S, NEW j \in S, i < j, Rank(S, i) = Rank(S, j)
      PROVE  FALSE
  <2>1. upto(i) \in SUBSET upto(j) /\ j \in upto(j) /\ j \notin upto(i)
    <3>1. \A x \in S : x \in Int
      OBVIOUS
    <3>2. \A x \in S : x <= i => x <= j
      BY <1>4, <3>1
    <3>3. j <= j /\ ~(j <= i)
      BY <1>4, <3>1
    <3> QED BY <3>2, <3>3
  <2>2. Cardinality(upto(j)) = Cardinality(upto(i))
    BY <1>4 DEF Rank
  <2>3. upto(j) = upto(i)
    BY <1>2, <2>1, <2>2, FS_Subset
  <2> QED BY <2>1, <2>3
<1>5. ASSUME NEW i \in S, NEW j \in S, Rank(S, i) = Rank(S, j)
      PROVE  i = j
  <2>1. i \in Int /\ j \in Int
    OBVIOUS
  <2>2. i < j \/ j < i \/ i = j
    BY <2>1
  <2> QED BY <1>4, <1>5, <2>2
<1> DEFINE f == [i \in S |-> Rank(S, i)]
<1>6. f \in Injection(S, 1 .. N)
  <2>1. f \in [S -> 1 .. N]
    BY <1>3
  <2>2. \A a, b \in S : f[a] = f[b] => a = b
    BY <1>5
  <2> QED BY <2>1, <2>2 DEF Injection, IsInjective
<1>7. IsFiniteSet(1 .. N) /\ Cardinality(1 .. N) = N
  <2>1. PICK m \in Nat : m = N
    BY <1>1
  <2>2. 1 \in Int /\ m \in Int
    OBVIOUS
  <2>3. IsFiniteSet(1 .. m) /\ Cardinality(1 .. m) = IF 1 > m THEN 0 ELSE m - 1 + 1
    BY <2>2, FS_Interval
  <2>4. Cardinality(1 .. m) = m
    BY <2>3
  <2> QED BY <2>1, <2>3, <2>4
<1>8. f \in Surjection(S, 1 .. N)
  <2>0. PICK T : T = 1 .. N
    OBVIOUS
  <2>1. f \in Injection(S, T)
    BY <1>6, <2>0
  <2>2. IsFiniteSet(T) /\ Cardinality(S) = Cardinality(T)
    BY <1>7, <2>0
  <2> HIDE DEF f, N
  <2>3. f \in Surjection(S, T)
    BY <2>1, <2>2, FS_Injection
  <2> QED BY <2>0, <2>3
<1>9. \A m \in 1 .. N : \E i \in S : Rank(S, i) = m
  BY <1>8 DEF Surjection
<1> QED BY <1>1, <1>3, <1>5, <1>9

\* A finite set of numbers has a largest one.
LEMMA Largest ==
    ASSUME NEW S \in SUBSET Nat, IsFiniteSet(S), S # {}
    PROVE  \E n \in S : \A m \in S : m <= n
<1>1. Cardinality(S) \in 1 .. Cardinality(S)
  BY FS_CardinalityType, FS_EmptySet
<1>2. PICK n \in S : Rank(S, n) = Cardinality(S)
  BY <1>1, Ranks
<1>3. {j \in S : j <= n} \in SUBSET S
  OBVIOUS
<1>4. {j \in S : j <= n} = S
  BY <1>2, <1>3, FS_Subset DEF Rank
<1> QED BY <1>4

\* The same of positions in a sequence.
LEMMA LastPosition ==
    ASSUME NEW n \in Nat, NEW S \in SUBSET (1..n), S # {}
    PROVE  \E i \in S : \A j \in S : j <= i
<1>1. 1 \in Int /\ n \in Int
  OBVIOUS
<1>2. IsFiniteSet(1..n)
  BY <1>1, FS_Interval
<1>3. IsFiniteSet(S)
  BY <1>2, FS_Subset
<1>4. S \in SUBSET Nat
  OBVIOUS
<1> QED BY <1>3, <1>4, Largest

-----------------------------------------------------------------------------
(* Operators of the model *)

\* Counters are machine words.
LEMMA WordType == ASSUME NEW a \in Int PROVE a % Word \in 0..Word-1
  BY Numbers

\* A number that fits is itself.
LEMMA WordFits == ASSUME NEW a \in Nat, a < Word PROVE a % Word = a
<1>1. PICK w \in Nat \ {0} : w = Word
  BY Numbers
<1>2. a \div w \in Int /\ a = w * (a \div w) + (a % w) /\ a % w \in 0..w-1
  OBVIOUS
<1>3. PICK d \in Int : d = a \div w
  BY <1>2
<1>4. PICK r \in 0..w-1 : r = a % w
  BY <1>2
<1>5. a = w * d + r
  BY <1>2, <1>3, <1>4
<1>6. d = 0
  <2>1. CASE d >= 1
    <3>1. w * d >= w
      BY <2>1
    <3>2. PICK x \in Int : x = w * d
      OBVIOUS
    <3> QED BY <1>1, <1>5, <3>1, <3>2
  <2>2. CASE d <= -1
    <3>1. w * d <= -w
      BY <2>2
    <3>2. PICK x \in Int : x = w * d
      OBVIOUS
    <3> QED BY <1>1, <1>5, <3>1, <3>2
  <2> QED BY <2>1, <2>2
<1>7. w * d = 0
  BY <1>6
<1> QED BY <1>1, <1>4, <1>5, <1>7

\* The keys of a batch.
LEMMA BatchKeys ==
    ASSUME NEW b \in Seq(Write)
    PROVE  KeysOf(b) \in SUBSET Nat /\ KeysOf(b) \subseteq Key /\ IsFiniteSet(KeysOf(b))
<1>0. \A i \in DOMAIN b : b[i] \in Write
  BY LenProperties, ElementOfSeq
<1>1. KeysOf(b) \in SUBSET Key
  BY <1>0 DEF KeysOf, Write
<1>2. IsFiniteSet(KeysOf(b))
  BY <1>1, Sets, FS_Subset
<1> QED BY <1>1, <1>2, Sets

\* The newest write to a key of the batch.
LEMMA NewestOf ==
    ASSUME NEW b \in Seq(Write), NEW k \in KeysOf(b)
    PROVE  /\ Newest(b, k) \in DOMAIN b /\ b[Newest(b, k)].key = k
           /\ \A j \in DOMAIN b : b[j].key = k => j <= Newest(b, k)
<1> DEFINE S == {i \in DOMAIN b : b[i].key = k}
<1>1. PICK n \in Nat : n = Len(b) /\ DOMAIN b = 1..n
  BY LenProperties
<1>2. S \in SUBSET (1..n) /\ S # {}
  BY <1>1 DEF KeysOf
<1>3. \E i \in S : \A j \in S : j <= i
  <2> HIDE DEF S
  <2> QED BY <1>2, LastPosition
<1>4. \E i \in DOMAIN b : b[i].key = k /\ \A j \in DOMAIN b : b[j].key = k => j <= i
  BY <1>3
<1> QED BY <1>4 DEF Newest

\* The n-th key.
LEMMA NthOf ==
    ASSUME NEW S \in SUBSET Nat, IsFiniteSet(S), NEW n \in 1..Cardinality(S)
    PROVE  Nth(S, n) \in S /\ Rank(S, Nth(S, n)) = n
<1>1. \E k \in S : Cardinality({j \in S : j <= k}) = n
  BY Ranks DEF Rank
<1> QED BY <1>1 DEF Nth, Rank

\* What WriteDocs keeps of batch b: each operation is a write of its own of the
\* batch, and the last one of a key is its newest write.
Keeps(s, b) ==
    /\ s \in Seq(Write)
    /\ \E f \in [DOMAIN s -> DOMAIN b] :
         /\ \A m, n \in DOMAIN s : f[m] = f[n] => m = n
         /\ \A n \in DOMAIN s : s[n] = b[f[n]]
    /\ \A k \in KeysOf(b) : \E n \in DOMAIN s :
         /\ s[n] = b[Newest(b, k)]
         /\ \A m \in DOMAIN s : s[m].key = k => m <= n

\* Survivors, sorted or not.
LEMMA SurvivorsKeep ==
    ASSUME NEW b \in Seq(Write), NEW doSort \in BOOLEAN
    PROVE  Keeps(Survivors(b, doSort), b)
<1>1. CASE ~doSort
  <2>1. Survivors(b, doSort) = b
    BY <1>1 DEF Survivors
  <2>2. \E f \in [DOMAIN b -> DOMAIN b] :
          /\ \A m, n \in DOMAIN b : f[m] = f[n] => m = n
          /\ \A n \in DOMAIN b : b[n] = b[f[n]]
    <3> WITNESS [n \in DOMAIN b |-> n] \in [DOMAIN b -> DOMAIN b]
    <3> QED OBVIOUS
  <2>3. ASSUME NEW k \in KeysOf(b)
        PROVE  \E n \in DOMAIN b : /\ b[n] = b[Newest(b, k)]
                                   /\ \A m \in DOMAIN b : b[m].key = k => m <= n
    BY NewestOf
  <2> QED BY <2>1, <2>2, <2>3 DEF Keeps
<1>2. CASE doSort
  <2>1. PICK K \in SUBSET Nat : K = KeysOf(b)
    BY BatchKeys
  <2>2. IsFiniteSet(K)
    BY <2>1, BatchKeys
  <2>3. PICK N \in Nat : N = Cardinality(K)
    BY <2>2, FS_CardinalityType
  <2>4. \A n \in 1..N : Nth(K, n) \in K /\ Rank(K, Nth(K, n)) = n
    BY <2>2, <2>3, NthOf
  <2>5. \A k \in K : /\ Newest(b, k) \in DOMAIN b /\ b[Newest(b, k)].key = k
                     /\ b[Newest(b, k)] \in Write
    BY <2>1, NewestOf, ElementOfSeq
  <2>6. PICK s : s = Survivors(b, doSort)
    OBVIOUS
  <2>7. s = [n \in 1..N |-> b[Newest(b, Nth(K, n))]]
    BY <1>2, <2>1, <2>3, <2>6 DEF Survivors
  <2>8. DOMAIN s = 1..N /\ \A n \in 1..N : s[n] = b[Newest(b, Nth(K, n))] /\ s[n] \in Write
    BY <2>4, <2>5, <2>7
  <2>9. s \in Seq(Write)
    BY <2>3, <2>7, <2>8
  <2>10. \E f \in [DOMAIN s -> DOMAIN b] :
          /\ \A m, n \in DOMAIN s : f[m] = f[n] => m = n
          /\ \A n \in DOMAIN s : s[n] = b[f[n]]
    <3> DEFINE f == [n \in 1..N |-> Newest(b, Nth(K, n))]
    <3>1. f \in [DOMAIN s -> DOMAIN b] /\ \A n \in DOMAIN s : s[n] = b[f[n]]
      BY <2>4, <2>5, <2>8
    <3>2. ASSUME NEW m \in 1..N, NEW n \in 1..N, f[m] = f[n] PROVE m = n
      <4>1. Nth(K, m) = Nth(K, n)
        BY <2>4, <2>5, <3>2
      <4> QED BY <2>4, <4>1
    <3> QED BY <2>8, <3>1, <3>2
  <2>11. ASSUME NEW k \in K
         PROVE  \E n \in DOMAIN s : /\ s[n] = b[Newest(b, k)]
                                    /\ \A m \in DOMAIN s : s[m].key = k => m <= n
    <3>1. PICK n \in 1..N : n = Rank(K, k)
      BY <2>2, <2>3, Ranks
    <3>4. \A i, j \in K : Rank(K, i) = Rank(K, j) => i = j
      BY <2>2, Ranks
    <3>2. Nth(K, n) = k
      BY <2>4, <3>1, <3>4
    <3>3. ASSUME NEW m \in 1..N, s[m].key = k PROVE m = n
      <4>1. Nth(K, m) = k
        BY <2>4, <2>5, <2>8, <3>3
      <4> QED BY <2>4, <3>1, <4>1
    <3> QED BY <2>8, <3>2, <3>3
  <2> QED BY <2>1, <2>6, <2>9, <2>10, <2>11 DEF Keeps
<1> QED BY <1>1, <1>2

\* The seqno of the last document of a key that has one.
LEMMA LastDoc ==
    ASSUME docs \in Seq(Write \cup {Absent}), NEW k, \E n \in DOMAIN docs : IsDoc(n, k)
    PROVE  /\ IsDoc(LastSeqno(k), k) /\ LastSeqno(k) \in Nat \ {0}
           /\ \A n \in DOMAIN docs : IsDoc(n, k) => n <= LastSeqno(k)
<1> DEFINE W == {n \in DOMAIN docs : docs[n] # Absent /\ docs[n].key = k}
<1>1. PICK l \in Nat : l = Len(docs) /\ DOMAIN docs = 1..l
  BY LenProperties
<1>2. W \in SUBSET (1..l) /\ W # {}
  BY <1>1 DEF IsDoc
<1>3. LastSeqno(k) = CHOOSE n \in W : \A m \in W : m <= n
  BY <1>2 DEF LastSeqno
<1>4. LastSeqno(k) \in W /\ \A m \in W : m <= LastSeqno(k)
  <2> HIDE DEF W
  <2>1. \E n \in W : \A m \in W : m <= n
    BY <1>2, LastPosition
  <2> QED BY <1>3, <2>1
<1>5. \A n : n \in W <=> IsDoc(n, k)
  BY DEF IsDoc
<1>6. LastSeqno(k) \in 1..l
  BY <1>2, <1>4
<1> HIDE DEF W
<1>7. IsDoc(LastSeqno(k), k)
  BY <1>4, <1>5
<1>8. \A n \in DOMAIN docs : IsDoc(n, k) => n <= LastSeqno(k)
  BY <1>4, <1>5
<1> QED BY <1>6, <1>7, <1>8

\* It is the only one with nothing after it.
LEMMA LastDocIs ==
    ASSUME docs \in Seq(Write \cup {Absent}), NEW k, NEW n, IsDoc(n, k),
           \A m \in DOMAIN docs : IsDoc(m, k) => m <= n
    PROVE  LastSeqno(k) = n
<1>1. n \in DOMAIN docs /\ n \in Nat
  BY LenProperties DEF IsDoc
<1>2. IsDoc(LastSeqno(k), k) /\ LastSeqno(k) \in Nat /\ n <= LastSeqno(k)
  BY <1>1, LastDoc
<1>3. LastSeqno(k) <= n
  BY <1>2 DEF IsDoc
<1> QED BY <1>1, <1>2, <1>3

\* Eviction from c drops unpinned entries and nothing else.
LEMMA EvictDrops ==
    ASSUME NEW c \in [Key -> Entry \cup {Absent}], NEW b \in Nat, NEW d \in Evict(c, b)
    PROVE  /\ d \in [Key -> Entry \cup {Absent}]
           /\ \A k \in Key : \/ d[k] = c[k]
                             \/ d[k] = Absent /\ c[k] # Absent /\ c[k].pending = 0
           /\ Pinned(d) = Pinned(c)
<1>1. PICK V \in SUBSET Unpinned(c) : d = [k \in Key |-> IF k \in V THEN Absent ELSE c[k]]
  BY DEF Evict
<1>2. \A k \in V : k \in Key /\ c[k] # Absent /\ c[k].pending = 0
  BY DEF Unpinned, Resident
<1>3. /\ d \in [Key -> Entry \cup {Absent}]
      /\ \A k \in Key : \/ d[k] = c[k]
                        \/ d[k] = Absent /\ c[k] # Absent /\ c[k].pending = 0
  BY <1>1, <1>2
<1>4. Pinned(d) = Pinned(c)
  BY <1>3 DEF Pinned, Unpinned, Resident
<1> QED BY <1>3, <1>4

-----------------------------------------------------------------------------
(* Types and names *)

IOTypes ==
    /\ inHand \in [IOThreads -> Write \cup {Absent}]
    /\ staged \in [IOThreads -> Seq(Write)]
    /\ acked \in [Key -> Id] /\ refused \subseteq Key
WriteTypes ==
    /\ queue \in Seq(Write) /\ batch \in Seq(Write)
    /\ wpc \in {"idle", "write", "mark", "trim"}
    /\ marks \in Seq(Mark)
DiskTypes ==
    /\ docs \in Seq(Write \cup {Absent})
    /\ lost \subseteq Id /\ deduped \in [Key -> Nat]
CacheTypes ==
    /\ cache \in [Key -> Entry \cup {Absent}]
    /\ pendingItems \in Int
    /\ budget \in Budgets
IndexTypes ==
    /\ index \in [Key -> SeqEntry \cup {Absent}]
    /\ seqEvicted \in BOOLEAN
ReadTypes ==
    /\ reads \in [Readers -> Read]
    /\ issued \in Id /\ gets \in 0..MaxReads

\* TypeOK in its parts.
LEMMA TypeParts ==
    TypeOK <=> /\ IOTypes /\ WriteTypes /\ DiskTypes /\ CacheTypes /\ IndexTypes
               /\ ReadTypes
BY DEF TypeOK, IOTypes, WriteTypes, DiskTypes, CacheTypes, IndexTypes, ReadTypes

\* What is left alone keeps its type.
LEMMA SameTypes ==
    /\ IOTypes /\ UNCHANGED ioVars => IOTypes'
    /\ WriteTypes /\ UNCHANGED writeVars => WriteTypes'
    /\ DiskTypes /\ UNCHANGED diskVars => DiskTypes'
    /\ CacheTypes /\ UNCHANGED <<cacheVars, budget>> => CacheTypes'
    /\ IndexTypes /\ UNCHANGED indexVars => IndexTypes'
    /\ ReadTypes /\ UNCHANGED <<reads, issued, gets>> => ReadTypes'
<1>1. IOTypes /\ UNCHANGED ioVars => IOTypes'
  BY DEF IOTypes, ioVars
<1>2. WriteTypes /\ UNCHANGED writeVars => WriteTypes'
  BY DEF WriteTypes, writeVars
<1>3. DiskTypes /\ UNCHANGED diskVars => DiskTypes'
  BY DEF DiskTypes, diskVars
<1>4. CacheTypes /\ UNCHANGED <<cacheVars, budget>> => CacheTypes'
  BY DEF CacheTypes, cacheVars
<1>5. IndexTypes /\ UNCHANGED indexVars => IndexTypes'
  BY Zenon DEF IndexTypes, indexVars
<1>6. ReadTypes /\ UNCHANGED <<reads, issued, gets>> => ReadTypes'
  BY DEF ReadTypes
<1> QED BY <1>1, <1>2, <1>3, <1>4, <1>5, <1>6

OnDisk == \A k \in Key : \E n \in DOMAIN docs : IsDoc(n, k)

IndexNames == \A k \in Key : index[k] # Absent => IsDoc(index[k].seqno, k)

MarkNames ==
    \A i \in DOMAIN marks : marks[i].seqno # 0 => IsDoc(marks[i].seqno, marks[i].key)

ReadNames(r) ==
    /\ reads[r].hint # 0 => IsDoc(reads[r].hint, reads[r].key)
    /\ reads[r].pc \in {"note", "fill", "answer"} =>
         IsDoc(reads[r].seqno, reads[r].key)

\* Named in its parts.
LEMMA NameParts ==
    Named <=> /\ OnDisk /\ IndexNames /\ MarkNames
              /\ \A r \in Readers : ReadNames(r)
BY DEF Named, OnDisk, IndexNames, MarkNames, ReadNames

\* The shape after a step, part by part.
LEMMA ShapeLater ==
    ASSUME IOTypes', WriteTypes', DiskTypes', CacheTypes', IndexTypes', ReadTypes',
           OnDisk', IndexNames', MarkNames', \A r \in Readers : ReadNames(r)', MarksAfter'
    PROVE  DShape'
<1>1. TypeOK'
  BY DEF TypeOK, IOTypes, WriteTypes, DiskTypes, CacheTypes, IndexTypes, ReadTypes
<1>2. Named'
  BY DEF Named, OnDisk, IndexNames, MarkNames, ReadNames
<1> QED BY <1>1, <1>2 DEF DShape

\* Documents stay.
Grows == \A n, k : IsDoc(n, k) => IsDoc(n, k)'

\* So names that are left alone stay good.
LEMMA SameNames ==
    /\ OnDisk /\ Grows => OnDisk'
    /\ IndexNames /\ Grows /\ UNCHANGED index => IndexNames'
    /\ MarkNames /\ Grows /\ UNCHANGED marks => MarkNames'
    /\ \A r \in Readers : ReadNames(r) /\ Grows /\ UNCHANGED reads => ReadNames(r)'
<1>1. OnDisk /\ Grows => OnDisk'
  <2> SUFFICES ASSUME OnDisk, Grows, NEW k \in Key PROVE \E n \in DOMAIN docs' : IsDoc(n, k)'
    BY DEF OnDisk
  <2>1. PICK n \in DOMAIN docs : IsDoc(n, k)
    BY DEF OnDisk
  <2>2. IsDoc(n, k)'
    BY <2>1 DEF Grows
  <2> QED BY <2>2 DEF IsDoc
<1>2. IndexNames /\ Grows /\ UNCHANGED index => IndexNames'
  BY DEF IndexNames, Grows
<1>3. MarkNames /\ Grows /\ UNCHANGED marks => MarkNames'
  BY DEF MarkNames, Grows
<1>4. \A r \in Readers : ReadNames(r) /\ Grows /\ UNCHANGED reads => ReadNames(r)'
  BY DEF ReadNames, Grows
<1> QED BY <1>1, <1>2, <1>3, <1>4

\* Without a write nothing changes on disk.
LEMMA SameDocs ==
    ASSUME UNCHANGED docs
    PROVE  /\ Grows /\ \A n, k : IsDoc(n, k)' <=> IsDoc(n, k)
           /\ \A k : LastSeqno(k)' = LastSeqno(k)
<1>1. \A n, k : IsDoc(n, k)' <=> IsDoc(n, k)
  BY DEF IsDoc
<1>2. \A k : LastSeqno(k)' = LastSeqno(k)
  BY DEF LastSeqno
<1> QED BY <1>1, <1>2 DEF Grows

\* The documents a restart finds: one of each key.
LEMMA InitDocs ==
    ASSUME Init
    PROVE  docs \in Seq(Write \cup {Absent}) /\ OnDisk /\ \A n \in DOMAIN docs : docs[n].id = 0
<1>1. PICK N \in Nat : N = Cardinality(Key)
  BY Sets, FS_CardinalityType
<1>2. PICK ks : ks = SetToSeq(Key)
  OBVIOUS
<1>3. \E f \in [1..N -> Key] : \A a, b \in 1..N : f[a] = f[b] => a = b
  <2>1. ExistsBijection(1..N, Key)
    BY <1>1, Sets, FS_CardinalityType
  <2> QED BY <2>1 DEF ExistsBijection, Bijection, Injection, IsInjective
<1>4. ks \in [1..N -> Key] /\ \A a, b \in 1..N : ks[a] = ks[b] => a = b
  <2>1. \A f : IsInjective(f) <=> \A a, b \in DOMAIN f : f[a] = f[b] => a = b
    BY DEF IsInjective
  <2>2. SetToSeq(Key) = CHOOSE f \in [1..N -> Key] : IsInjective(f)
    BY <1>1 DEF SetToSeq
  <2>3. \E f \in [1..N -> Key] : IsInjective(f)
    BY <1>3, <2>1
  <2>4. ks \in [1..N -> Key] /\ IsInjective(ks)
    BY <1>2, <2>2, <2>3
  <2> QED BY <2>1, <2>4
<1>5. ks \in Injection(1..N, Key)
  BY <1>4 DEF Injection, IsInjective
<1>6. ks \in Surjection(1..N, Key)
  <2>1. 1 \in Int /\ N \in Int
    OBVIOUS
  <2>2. Cardinality(1..N) = IF 1 > N THEN 0 ELSE N - 1 + 1
    BY <2>1, FS_Interval
  <2>3. Cardinality(1..N) = Cardinality(Key)
    BY <1>1, <2>2
  <2> QED BY <1>5, <2>3, Sets, FS_Injection
<1>7. docs = [n \in 1..N |-> [id |-> 0, key |-> ks[n], del |-> FALSE]]
  BY <1>2, <1>4 DEF Init
<1>8. \A n \in 1..N : docs[n] \in Write /\ docs[n].key = ks[n] /\ docs[n].id = 0
  <2>1. 0 \in Id
    BY Numbers DEF Id
  <2> QED BY <1>4, <1>7, <2>1 DEF Write
<1>9. docs \in Seq(Write \cup {Absent}) /\ DOMAIN docs = 1..N
  BY <1>7, <1>8
<1>10. ASSUME NEW k \in Key PROVE \E n \in DOMAIN docs : IsDoc(n, k)
  <2>1. PICK n \in 1..N : ks[n] = k
    BY <1>6 DEF Surjection
  <2> QED BY <1>8, <1>9, <2>1, NoneAbsent DEF IsDoc
<1> QED BY <1>8, <1>9, <1>10 DEF OnDisk

\* Initially the shape holds, and the index is current.
LEMMA InitShape == Init => DShape /\ IndexInv
<1> SUFFICES ASSUME Init PROVE DShape /\ IndexInv
  OBVIOUS
<1>1. docs \in Seq(Write \cup {Absent}) /\ OnDisk
  BY InitDocs
<1>2. \A k \in Key : IsDoc(LastSeqno(k), k) /\ LastSeqno(k) \in Nat
  BY <1>1, LastDoc DEF OnDisk
<1>3. 0 \in Id /\ 0 \in 0..MaxReads
  BY Numbers DEF Id
<1>4. IOTypes
  BY <1>3 DEF Init, IOTypes
<1>5. WriteTypes /\ marks = <<>>
  BY DEF Init, WriteTypes
<1>6. DiskTypes
  BY <1>1 DEF Init, DiskTypes
<1>7. CacheTypes
  BY DEF Init, CacheTypes
<1>8. /\ index \in [Key -> {Absent} \cup [seqno : DOMAIN docs, del : {FALSE}]]
      /\ \A k \in Key : index[k] # Absent => index[k].seqno = LastSeqno(k)
  BY DEF Init, Indexed
<1>9. IndexTypes
  <2>1. DOMAIN docs \subseteq Nat
    BY <1>1, LenProperties
  <2>2. index \in [Key -> SeqEntry \cup {Absent}]
    BY <1>8, <2>1 DEF SeqEntry
  <2>3. seqEvicted \in BOOLEAN
    BY Zenon DEF Init
  <2> QED BY <2>2, <2>3 DEF IndexTypes
<1>10. ReadTypes /\ \A r \in Readers : reads[r].hint = 0 /\ reads[r].pc = "idle"
  <2>1. PICK k0 : k0 = CHOOSE k \in Key : TRUE
    OBVIOUS
  <2>2. reads = [r \in Readers |-> [pc |-> "idle", key |-> k0, floor |-> 0,
                                    hint |-> 0, seqno |-> 0]]
    BY <2>1 DEF Init
  <2>3. k0 \in Key
    BY <2>1, Sets
  <2>4. reads \in [Readers -> Read]
    BY <1>3, <2>2, <2>3 DEF Read
  <2> QED BY <1>3, <2>2, <2>4 DEF Init, ReadTypes
<1>11. Named
  <2>1. IndexNames
    BY <1>2, <1>8 DEF IndexNames
  <2>2. MarkNames
    BY <1>5 DEF MarkNames
  <2>3. \A r \in Readers : ReadNames(r)
    BY <1>10 DEF ReadNames
  <2> QED BY <1>1, <2>1, <2>2, <2>3, NameParts
<1>12. IndexInv
  <2>1. seqEvicted \/ Indexed = Key
    BY Zenon DEF Init
  <2>2. DOMAIN marks = {}
    BY <1>5
  <2> QED BY <1>8, <2>1, <2>2 DEF IndexInv
<1> QED BY <1>4, <1>5, <1>6, <1>7, <1>9, <1>10, <1>11, <1>12, TypeParts DEF DShape, MarksAfter

-----------------------------------------------------------------------------
(* The seqno index *)

\* What noting seqno n for key k does: other entries stay or are evicted, an
\* entry of k is raised, and a key without one gets one if it may.
Noted(k, n, admit) ==
    /\ IndexTypes'
    /\ \A j \in Key \ {k} : index'[j] = index[j] \/ index'[j] = Absent
    /\ index[k] # Absent =>
         /\ index'[k] # Absent
         /\ index'[k].seqno = IF n > index[k].seqno THEN n ELSE index[k].seqno
    /\ index[k] = Absent => \/ index'[k] = Absent
                            \/ MayIndex(admit) /\ index'[k].seqno = n
    /\ (seqEvicted \/ Indexed = Key) => (seqEvicted' \/ Indexed' = Key)

\* noteSeqno does that.
LEMMA NoteEffect ==
    ASSUME IndexTypes, NEW k \in Key, NEW n \in Nat, NEW del \in BOOLEAN,
           NEW admit \in BOOLEAN, NoteSeqno(k, n, del, admit)
    PROVE  Noted(k, n, admit)
<1>1. [seqno |-> n, del |-> del] \in SeqEntry /\ [seqno |-> n, del |-> del] # Absent
  BY NoneAbsent DEF SeqEntry
<1>2. PICK e \in SeqEntry : e = [seqno |-> n, del |-> del] /\ e # Absent /\ e.seqno = n
  BY <1>1
<1>3. CASE index[k] # Absent
  <2>1. index[k] \in SeqEntry /\ index[k].seqno \in Nat
    BY <1>3 DEF IndexTypes, SeqEntry
  <2>2. \/ n > index[k].seqno /\ index' = [index EXCEPT ![k] = e]
        \/ n = index[k].seqno /\ index' = [index EXCEPT ![k] = e]
        \/ n <= index[k].seqno /\ index' = index
    BY <1>2, <1>3, <2>1 DEF NoteSeqno
  <2>3. seqEvicted' = seqEvicted
    BY <1>3 DEF NoteSeqno
  <2>4. index' \in [Key -> SeqEntry \cup {Absent}]
    BY <2>2 DEF IndexTypes
  <2>5. \A j \in Key \ {k} : index'[j] = index[j]
    BY <2>2 DEF IndexTypes
  <2>6. /\ index'[k] # Absent
        /\ index'[k].seqno = IF n > index[k].seqno THEN n ELSE index[k].seqno
    BY <1>2, <1>3, <2>1, <2>2 DEF IndexTypes
  <2>7. Indexed' = Indexed
    BY <1>3, <2>5, <2>6 DEF Indexed
  <2>8. seqEvicted' \in BOOLEAN
    BY <2>3, Zenon DEF IndexTypes
  <2>9. (seqEvicted \/ Indexed = Key) => (seqEvicted' \/ Indexed' = Key)
    BY <2>3, <2>7, Zenon
  <2>10. IndexTypes'
    BY <2>4, <2>8 DEF IndexTypes
  <2> QED BY <1>3, <2>5, <2>6, <2>9, <2>10 DEF Noted
<1>4. CASE index[k] = Absent /\ UNCHANGED indexVars
  <2>1. index' = index /\ seqEvicted' = seqEvicted
    BY <1>4 DEF indexVars
  <2>2. IndexTypes'
    BY <1>4, SameTypes
  <2>3. Indexed' = Indexed
    BY <2>1 DEF Indexed
  <2>4. (seqEvicted \/ Indexed = Key) => (seqEvicted' \/ Indexed' = Key)
    BY <2>1, <2>3, Zenon
  <2> QED BY <1>4, <2>1, <2>2, <2>4 DEF Noted
<1>5. CASE /\ index[k] = Absent /\ MayIndex(admit)
           /\ index' = [index EXCEPT ![k] = e] /\ UNCHANGED seqEvicted
  <2>1. index' \in [Key -> SeqEntry \cup {Absent}] /\ index'[k] = e
        /\ \A j \in Key \ {k} : index'[j] = index[j]
    BY <1>5 DEF IndexTypes
  <2>2. seqEvicted' \in BOOLEAN
    BY <1>5, Zenon DEF IndexTypes
  <2>3. Indexed = Key => Indexed' = Key
    BY <1>2, <2>1 DEF Indexed
  <2>4. (seqEvicted \/ Indexed = Key) => (seqEvicted' \/ Indexed' = Key)
    BY <1>5, <2>3, Zenon
  <2>5. IndexTypes'
    BY <2>1, <2>2 DEF IndexTypes
  <2> QED BY <1>2, <1>5, <2>1, <2>4, <2>5 DEF Noted
<1>6. CASE /\ index[k] = Absent /\ MayIndex(admit) /\ seqEvicted' = TRUE
           /\ \E v \in Indexed : index' = [index EXCEPT ![v] = Absent, ![k] = e]
  <2>1. PICK v \in Indexed : index' = [index EXCEPT ![v] = Absent, ![k] = e]
    BY <1>6
  <2>2. v \in Key
    BY DEF Indexed
  <2>3. index' \in [Key -> SeqEntry \cup {Absent}] /\ index'[k] = e
        /\ \A j \in Key \ {k} : index'[j] = index[j] \/ index'[j] = Absent
    BY <2>1, <2>2 DEF IndexTypes
  <2>4. IndexTypes' /\ (seqEvicted' \/ Indexed' = Key)
    BY <1>6, <2>3 DEF IndexTypes
  <2> QED BY <1>2, <1>6, <2>3, <2>4 DEF Noted
<1> QED BY <1>2, <1>3, <1>4, <1>5, <1>6 DEF NoteSeqno

\* The names and the currency of the index after a note of one of k's
\* documents, when marks and documents stay: a fill.
LEMMA NoteFillKeeps ==
    ASSUME DShape, IndexInv, NEW k \in Key, NEW n, IsDoc(n, k),
           NoteSeqno(k, n, FALSE, FALSE), UNCHANGED <<docs, marks>>
    PROVE  IndexTypes' /\ IndexNames' /\ IndexInv'
<1>1. docs \in Seq(Write \cup {Absent}) /\ IndexTypes /\ OnDisk /\ IndexNames
  BY TypeParts, NameParts DEF DShape, DiskTypes
<1>2. n \in Nat /\ n <= LastSeqno(k) /\ LastSeqno(k) \in Nat
  BY <1>1, LastDoc, LenProperties DEF IsDoc, OnDisk
<1>3. /\ IndexTypes'
      /\ \A j \in Key \ {k} : index'[j] = index[j] \/ index'[j] = Absent
      /\ index[k] # Absent =>
           /\ index'[k] # Absent
           /\ index'[k].seqno = IF n > index[k].seqno THEN n ELSE index[k].seqno
      /\ index[k] = Absent => \/ index'[k] = Absent
                              \/ MayIndex(FALSE) /\ index'[k].seqno = n
      /\ (seqEvicted \/ Indexed = Key) => (seqEvicted' \/ Indexed' = Key)
  BY <1>1, <1>2, NoteEffect DEF Noted
<1>4. (\A m, j : IsDoc(m, j)' <=> IsDoc(m, j)) /\ \A j : LastSeqno(j)' = LastSeqno(j)
  BY SameDocs
<1>5. ASSUME NEW j \in Key PROVE Coming(j)' <=> Coming(j)
  BY <1>4 DEF Coming
<1>6. index[k] = Absent => index'[k] = Absent
  BY <1>3, Zenon DEF MayIndex, IndexInv, Indexed
<1>7. ASSUME NEW j \in Key, index'[j] # Absent
      PROVE  IsDoc(index'[j].seqno, j)
  BY <1>1, <1>3, <1>6, <1>7 DEF IndexNames
<1>8. ASSUME NEW j \in Key, index'[j] # Absent
      PROVE  index'[j].seqno = LastSeqno(j) \/ Coming(j)
  <2>1. CASE j # k
    BY <1>3, <1>8, <2>1 DEF IndexInv
  <2>2. CASE j = k
    <3>1. index[k] # Absent /\ index[k].seqno \in Nat
      BY <1>1, <1>6, <1>8, <2>2 DEF IndexTypes, SeqEntry
    <3>2. index[k].seqno = LastSeqno(k) \/ Coming(k)
      BY <3>1 DEF IndexInv
    <3> QED BY <1>2, <1>3, <2>2, <3>1, <3>2
  <2> QED BY <2>1, <2>2
<1>9. IndexNames'
  BY <1>4, <1>7 DEF IndexNames
<1>10. IndexInv'
  <2>1. seqEvicted' \/ Indexed' = Key
    BY <1>3, Zenon DEF IndexInv
  <2>2. \A j \in Key : index'[j] # Absent => index'[j].seqno = LastSeqno(j)' \/ Coming(j)'
    BY <1>4, <1>5, <1>8
  <2>3. \A i \in DOMAIN marks : marks[i].seqno # 0 =>
         \E j \in DOMAIN marks :
            /\ j >= i /\ marks[j].key = marks[i].key
            /\ marks[j].seqno = LastSeqno(marks[i].key)
    BY DEF IndexInv
  <2> QED BY <1>4, <2>1, <2>2, <2>3 DEF IndexInv
<1> QED BY <1>3, <1>9, <1>10

\* Nothing of the index, the marks or the disk moves.
LEMMA SameIndex ==
    ASSUME IndexInv, UNCHANGED <<indexVars, marks, docs>>
    PROVE  IndexInv'
<1>1. \A j : LastSeqno(j)' = LastSeqno(j)
  BY SameDocs
<1>2. index' = index /\ seqEvicted' = seqEvicted /\ marks' = marks
  BY DEF indexVars
<1>3. Indexed' = Indexed
  BY <1>2 DEF Indexed
<1>4. \A j : Coming(j)' <=> Coming(j)
  BY <1>1, <1>2 DEF Coming
<1>5. seqEvicted' \/ Indexed' = Key
  BY <1>2, <1>3, Zenon DEF IndexInv
<1> QED BY <1>1, <1>2, <1>4, <1>5 DEF IndexInv

-----------------------------------------------------------------------------
(* WriteDocs and MarkPersisted *)

\* The dropped duplicates after a batch of which ops is left.
Drops(ops) == [k \in Key |-> deduped[k] + Cardinality(WritesTo(k, batch))
                                - Cardinality(WritesTo(k, ops))]

\* What WriteDocs does with the operations ops: documents after the ones there
\* are, or none, and a mark for each.
Written(ops, ok) ==
    /\ Keeps(ops, batch)
    /\ docs' \in Seq(Write \cup {Absent})
    /\ \A n \in DOMAIN docs : n \in DOMAIN docs' /\ docs'[n] = docs[n]
    /\ ok => \A i \in DOMAIN ops : /\ Len(docs) + i \in DOMAIN docs'
                                   /\ docs'[Len(docs) + i] = ops[i]
    /\ \A n, k : IsDoc(n, k)' <=>
         \/ IsDoc(n, k)
         \/ ok /\ \E i \in DOMAIN ops : n = Len(docs) + i /\ ops[i].key = k
    /\ marks' \in Seq(Mark) /\ DOMAIN marks' = DOMAIN ops
    /\ \A i \in DOMAIN ops : /\ marks'[i].key = ops[i].key
                             /\ marks'[i].seqno = IF ok THEN Len(docs) + i ELSE 0
    /\ lost' = IF ok THEN lost ELSE lost \cup {batch[i].id : i \in DOMAIN batch}
    /\ deduped' = Drops(ops)
    /\ wpc = "write" /\ wpc' = "mark"

\* What a batch writes.
LEMMA WriteEffect ==
    ASSUME DShape, NEW doSort \in BOOLEAN, NEW ok \in BOOLEAN, WriteDocs(doSort, ok)
    PROVE  \E ops : Written(ops, ok)
<1>1. /\ batch \in Seq(Write) /\ docs \in Seq(Write \cup {Absent})
  BY TypeParts DEF DShape, WriteTypes, DiskTypes
<1>2. PICK ops : ops = Survivors(batch, doSort)
  OBVIOUS
<1>3. Keeps(ops, batch)
  BY <1>1, <1>2, SurvivorsKeep
<1>4. deduped' = Drops(ops)
  BY <1>2 DEF WriteDocs, Drops
<1>5. ops \in Seq(Write)
  BY <1>3 DEF Keeps
<1>6. PICK n \in Nat : n = Len(ops) /\ DOMAIN ops = 1..n
  BY <1>5, LenProperties
<1>7. PICK l \in Nat : l = Len(docs) /\ DOMAIN docs = 1..l
  BY <1>1, LenProperties
<1>8. \A i \in 1..n : ops[i] \in Write /\ ops[i] # Absent /\ ops[i].key \in Key
  <2>1. \A i \in 1..n : ops[i] \in Write
    BY <1>5, <1>6, ElementOfSeq
  <2> QED BY <2>1, NoneAbsent DEF Write
<1>9. PICK q : q = [i \in DOMAIN ops |-> IF ok THEN ops[i] ELSE Absent]
  OBVIOUS
<1>10. q \in Seq(Write \cup {Absent}) /\ Len(q) = n /\ DOMAIN q = 1..n
       /\ \A i \in 1..n : q[i] = IF ok THEN ops[i] ELSE Absent
  <2>1. q \in [1..n -> Write \cup {Absent}]
    BY <1>6, <1>8, <1>9
  <2>2. q \in Seq(Write \cup {Absent})
    BY <2>1
  <2> QED BY <1>6, <1>9, <2>1, <2>2, LenProperties
<1>11. docs' = docs \o q /\ marks' = MarksOf(ops, ok)
  BY <1>2, <1>9 DEF WriteDocs
<1>12. /\ docs' \in Seq(Write \cup {Absent}) /\ Len(docs') = l + n
       /\ \A i \in 1..(l + n) : docs'[i] = IF i <= l THEN docs[i] ELSE q[i - l]
  <2>1. PICK S : S = Write \cup {Absent}
    OBVIOUS
  <2>2. docs \in Seq(S) /\ q \in Seq(S)
    BY <1>1, <1>10, <2>1
  <2>3. /\ docs \o q \in Seq(S) /\ Len(docs \o q) = Len(docs) + Len(q)
        /\ \A i \in 1 .. Len(docs) + Len(q) :
             (docs \o q)[i] = IF i <= Len(docs) THEN docs[i] ELSE q[i - Len(docs)]
    BY <2>2, ConcatProperties
  <2> QED BY <1>7, <1>10, <1>11, <2>1, <2>3
<1>13. DOMAIN docs' = 1..(l + n)
  BY <1>12, LenProperties
<1>14. ASSUME NEW m \in DOMAIN docs PROVE m \in DOMAIN docs' /\ docs'[m] = docs[m]
  BY <1>7, <1>12, <1>13
<1>15. ASSUME NEW i \in 1..n
       PROVE  l + i \in DOMAIN docs' /\ docs'[l + i] = q[i]
  <2>1. l + i \in 1..(l + n) /\ ~(l + i <= l) /\ (l + i) - l = i
    OBVIOUS
  <2> QED BY <1>12, <1>13, <2>1
<1>16. ASSUME NEW m, NEW k
       PROVE  IsDoc(m, k)' <=>
                \/ IsDoc(m, k)
                \/ ok /\ \E i \in 1..n : m = l + i /\ ops[i].key = k
  <2>1. ASSUME IsDoc(m, k)
        PROVE  IsDoc(m, k)'
    BY <1>14, <2>1 DEF IsDoc
  <2>2. ASSUME ok, NEW i \in 1..n, m = l + i, ops[i].key = k PROVE IsDoc(m, k)'
    BY <1>8, <1>10, <1>15, <2>2 DEF IsDoc
  <2>3. ASSUME IsDoc(m, k)', m \in 1..l PROVE IsDoc(m, k)
    BY <1>7, <1>14, <2>3 DEF IsDoc
  <2>4. ASSUME IsDoc(m, k)', m \notin 1..l
        PROVE  ok /\ \E i \in 1..n : m = l + i /\ ops[i].key = k
    <3>1. m \in 1..(l + n) /\ m \notin 1..l
      BY <1>13, <2>4 DEF IsDoc
    <3>2. PICK i \in 1..n : m = l + i
      <4>1. m - l \in 1..n /\ m = l + (m - l)
        BY <3>1
      <4> QED BY <4>1
    <3>3. docs'[m] = q[i] /\ docs'[m] # Absent /\ docs'[m].key = k
      BY <1>15, <2>4, <3>2 DEF IsDoc
    <3> QED BY <1>10, <3>2, <3>3
  <2> QED BY <2>1, <2>2, <2>3, <2>4
<1>17. /\ marks' = [i \in 1..n |-> [key |-> ops[i].key, seqno |-> IF ok THEN l + i ELSE 0]]
  BY <1>6, <1>7, <1>11 DEF MarksOf
<1>18. /\ marks' \in [1..n -> Mark] /\ DOMAIN marks' = 1..n
       /\ \A i \in 1..n : /\ marks'[i].key = ops[i].key
                          /\ marks'[i].seqno = IF ok THEN l + i ELSE 0
  BY <1>8, <1>17 DEF Mark
<1>19. marks' \in Seq(Mark)
  BY <1>18
<1>20. /\ lost' = IF ok THEN lost ELSE lost \cup {batch[i].id : i \in DOMAIN batch}
       /\ wpc = "write" /\ wpc' = "mark"
  BY DEF WriteDocs
<1>21. Written(ops, ok)
  BY <1>3, <1>4, <1>6, <1>7, <1>10, <1>12, <1>14, <1>15, <1>16, <1>18, <1>19, <1>20 DEF Written
<1> QED BY <1>21

\* A one-to-one relabelling counts no more things, and as many
\* if it misses none.
LEMMA Relabel ==
    ASSUME NEW S, NEW T, IsFiniteSet(S), NEW f \in [T -> S],
           \A x, y \in T : f[x] = f[y] => x = y
    PROVE  /\ IsFiniteSet(T) /\ Cardinality(T) <= Cardinality(S)
           /\ (\A x \in S : \E y \in T : f[y] = x) => Cardinality(T) = Cardinality(S)
<1>1. f \in Injection(T, S)
  BY DEF Injection, IsInjective
<1>2. (\A x \in S : \E y \in T : f[y] = x) => f \in Surjection(T, S)
  BY DEF Surjection
<1> QED BY <1>1, <1>2, FS_Injection

\* One that misses none counts as many.
LEMMA Renamed ==
    ASSUME NEW S, NEW T, IsFiniteSet(S), NEW f \in [S -> T],
           \A x, y \in S : f[x] = f[y] => x = y, \A z \in T : \E x \in S : f[x] = z
    PROVE  IsFiniteSet(T) /\ Cardinality(T) = Cardinality(S)
<1>1. f \in Bijection(S, T)
  BY DEF Bijection, Injection, IsInjective, Surjection
<1> QED BY <1>1, FS_Bijection DEF ExistsBijection

\* A batch of which some writes are left has no more of them to a key.
LEMMA WritesFewer ==
    ASSUME NEW b \in Seq(Write), NEW s, Keeps(s, b), NEW k
    PROVE  /\ IsFiniteSet(WritesTo(k, b)) /\ IsFiniteSet(WritesTo(k, s))
           /\ Cardinality(WritesTo(k, b)) \in Nat /\ Cardinality(WritesTo(k, s)) \in Nat
           /\ Cardinality(WritesTo(k, s)) <= Cardinality(WritesTo(k, b))
<1>1. PICK f \in [DOMAIN s -> DOMAIN b] :
           /\ \A m, n \in DOMAIN s : f[m] = f[n] => m = n
           /\ \A n \in DOMAIN s : s[n] = b[f[n]]
  BY DEF Keeps
<1>2. PICK n \in Nat : DOMAIN b = 1..n
  BY LenProperties
<1>3. PICK S, T : S = WritesTo(k, b) /\ T = WritesTo(k, s)
  OBVIOUS
<1>4. S \in SUBSET (1..n)
  BY <1>2, <1>3 DEF WritesTo
<1>5. IsFiniteSet(S)
  <2>1. 0 \in Int /\ 1 \in Int /\ n \in Int
    OBVIOUS
  <2>2. IsFiniteSet(1..n)
    BY <2>1, FS_Interval
  <2> QED BY <1>4, <2>2, FS_Subset
<1>6. PICK g : g = [i \in T |-> f[i]]
  OBVIOUS
<1>7. g \in [T -> S] /\ \A i, j \in T : g[i] = g[j] => i = j
  BY <1>1, <1>3, <1>6 DEF WritesTo
<1>8. IsFiniteSet(T) /\ Cardinality(T) <= Cardinality(S)
  BY <1>5, <1>7, Relabel
<1> QED BY <1>3, <1>5, <1>8, FS_CardinalityType

LastUnique ==
    \A k, n : (/\ docs \in Seq(Write \cup {Absent}) /\ IsDoc(n, k)
               /\ \A m \in DOMAIN docs : IsDoc(m, k) => m <= n)
              => LastSeqno(k) = n

\* The last document is the one with nothing after it.
LEMMA LastIsUnique == LastUnique
BY LastDocIs DEF LastUnique

\* So it is after a step.
LEMMA LastStaysUnique == LastUnique'
BY LastIsUnique, PTL

\* The last document of a key after a write.
LEMMA WriteLast ==
    ASSUME DShape, NEW ok \in BOOLEAN, NEW ops, Written(ops, ok), NEW k \in Key
    PROVE  /\ ok /\ k \in KeysOf(batch) =>
                \E n \in DOMAIN ops :
                   /\ ops[n] = batch[Newest(batch, k)] /\ ops[n].key = k
                   /\ \A m \in DOMAIN ops : ops[m].key = k => m <= n
                   /\ LastSeqno(k)' = Len(docs) + n
           /\ ~ok \/ k \notin KeysOf(batch) => LastSeqno(k)' = LastSeqno(k)
<1>1. /\ batch \in Seq(Write) /\ docs \in Seq(Write \cup {Absent}) /\ OnDisk
  BY TypeParts, NameParts DEF DShape, WriteTypes, DiskTypes
<1>2. IsDoc(LastSeqno(k), k) /\ LastSeqno(k) \in Nat
      /\ \A m \in DOMAIN docs : IsDoc(m, k) => m <= LastSeqno(k)
  BY <1>1, LastDoc DEF OnDisk
<1>3. PICK l \in Nat : l = Len(docs) /\ DOMAIN docs = 1..l
  BY <1>1, LenProperties
<1>4. docs' \in Seq(Write \cup {Absent})
      /\ \A n : IsDoc(n, k)' <=>
           \/ IsDoc(n, k)
           \/ ok /\ \E i \in DOMAIN ops : n = l + i /\ ops[i].key = k
  BY <1>3 DEF Written
<1>5. ops \in Seq(Write) /\ DOMAIN ops \subseteq Nat \ {0}
  BY LenProperties DEF Written, Keeps
<1>6. ASSUME NEW n, IsDoc(n, k)', \A m \in DOMAIN docs' : IsDoc(m, k)' => m <= n
      PROVE  LastSeqno(k)' = n
  BY <1>4, <1>6, LastStaysUnique DEF LastUnique
<1>7. ASSUME ok, k \in KeysOf(batch)
      PROVE  \E n \in DOMAIN ops :
                   /\ ops[n] = batch[Newest(batch, k)] /\ ops[n].key = k
                   /\ \A m \in DOMAIN ops : ops[m].key = k => m <= n
                   /\ LastSeqno(k)' = Len(docs) + n
  <2>1. PICK n \in DOMAIN ops : /\ ops[n] = batch[Newest(batch, k)]
                                /\ \A m \in DOMAIN ops : ops[m].key = k => m <= n
    BY <1>7 DEF Written, Keeps
  <2>2. ops[n].key = k
    BY <1>1, <1>7, <2>1, NewestOf
  <2>3. IsDoc(l + n, k)'
    BY <1>4, <1>7, <2>2
  <2>4. ASSUME NEW m \in DOMAIN docs', IsDoc(m, k)' PROVE m <= l + n
    <3>1. CASE IsDoc(m, k)
      BY <1>3, <1>5, <3>1 DEF IsDoc
    <3>2. CASE \E i \in DOMAIN ops : m = l + i /\ ops[i].key = k
      BY <1>5, <2>1, <3>2
    <3> QED BY <1>4, <2>4, <3>1, <3>2
  <2>5. LastSeqno(k)' = l + n
    BY <1>6, <2>3, <2>4
  <2> QED BY <1>3, <2>1, <2>2, <2>5
<1>8. ASSUME ~ok \/ k \notin KeysOf(batch) PROVE LastSeqno(k)' = LastSeqno(k)
  <2>1. \A n : IsDoc(n, k)' <=> IsDoc(n, k)
    <3>1. ASSUME ok, NEW i \in DOMAIN ops, ops[i].key = k PROVE FALSE
      <4>1. PICK f \in [DOMAIN ops -> DOMAIN batch] : \A n \in DOMAIN ops : ops[n] = batch[f[n]]
        BY DEF Written, Keeps
      <4>2. f[i] \in DOMAIN batch /\ batch[f[i]].key = k
        BY <3>1, <4>1
      <4> QED BY <1>8, <3>1, <4>2 DEF KeysOf
    <3> QED BY <1>4, <3>1
  <2>2. PICK n : n = LastSeqno(k)
    OBVIOUS
  <2>3. IsDoc(n, k)'
    BY <1>2, <2>1, <2>2
  <2>4. ASSUME NEW m \in DOMAIN docs', IsDoc(m, k)' PROVE m <= n
    <3>1. IsDoc(m, k)
      BY <2>1, <2>4
    <3> QED BY <1>2, <2>2, <3>1 DEF IsDoc
  <2> QED BY <1>6, <2>2, <2>3, <2>4
<1> QED BY <1>7, <1>8

\* WriteDocs keeps shape and index.
LEMMA WriteShape ==
    ASSUME DShape, IndexInv, NEW doSort \in BOOLEAN, NEW ok \in BOOLEAN,
           WriteDocs(doSort, ok)
    PROVE  DShape' /\ IndexInv'
<1>1. PICK ops : Written(ops, ok)
  BY WriteEffect
<1>2. /\ IOTypes /\ WriteTypes /\ DiskTypes /\ CacheTypes /\ IndexTypes /\ ReadTypes
      /\ OnDisk /\ IndexNames /\ MarkNames /\ \A r \in Readers : ReadNames(r)
  BY TypeParts, NameParts DEF DShape
<1>3. UNCHANGED <<ioVars, queue, batch, cacheVars, budget, indexVars, reads, issued, gets>>
  BY DEF WriteDocs
<1>4. IOTypes' /\ CacheTypes' /\ IndexTypes' /\ ReadTypes'
  BY <1>2, <1>3, SameTypes
<1>5. WriteTypes'
  BY <1>1, <1>2, <1>3 DEF WriteTypes, Written
<1>6. DiskTypes'
  <2>1. \A i \in DOMAIN batch : batch[i] \in Write
    BY <1>2, LenProperties, ElementOfSeq DEF WriteTypes
  <2>2. {batch[i].id : i \in DOMAIN batch} \subseteq Id
    BY <2>1 DEF Write
  <2>3. lost' \subseteq Id
    BY <1>1, <1>2, <2>2 DEF Written, DiskTypes
  <2>4. deduped' \in [Key -> Nat]
    <3>1. deduped' = Drops(ops) /\ Keeps(ops, batch) /\ batch \in Seq(Write)
      BY <1>1, <1>2 DEF Written, WriteTypes
    <3>2. ASSUME NEW k \in Key
          PROVE  deduped[k] + Cardinality(WritesTo(k, batch)) - Cardinality(WritesTo(k, ops)) \in Nat
      <4>1. deduped[k] \in Nat
        BY <1>2 DEF DiskTypes
      <4> QED BY <3>1, <4>1, WritesFewer
    <3> QED BY <3>1, <3>2 DEF Drops
  <2> QED BY <1>1, <2>3, <2>4 DEF DiskTypes, Written
<1>7. Grows
  BY <1>1 DEF Grows, Written
<1>8. OnDisk' /\ IndexNames' /\ \A r \in Readers : ReadNames(r)'
  <2>1. index' = index /\ reads' = reads
    BY <1>3 DEF indexVars
  <2> QED BY <1>2, <1>7, <2>1, SameNames
<1>9. PICK l \in Nat : l = Len(docs)
  BY <1>2, LenProperties DEF DiskTypes
<1>10. /\ DOMAIN marks' = DOMAIN ops /\ DOMAIN ops \subseteq Nat \ {0}
       /\ \A i \in DOMAIN ops : /\ marks'[i].key = ops[i].key
                                /\ marks'[i].seqno = IF ok THEN l + i ELSE 0
  BY <1>1, <1>9, LenProperties DEF Written, Keeps
<1>11. MarkNames'
  <2>1. ASSUME NEW i \in DOMAIN ops, ok PROVE IsDoc(l + i, ops[i].key)'
    BY <1>1, <1>9, <2>1 DEF Written
  <2> QED BY <1>10, <2>1 DEF MarkNames
<1>12. MarksAfter'
  BY <1>1 DEF MarksAfter, Written
<1>13. DShape'
  BY <1>4, <1>5, <1>6, <1>8, <1>11, <1>12, ShapeLater
<1>14. ASSUME NEW i \in DOMAIN ops PROVE ops[i].key \in KeysOf(batch) /\ ops[i].key \in Key
  <2>1. PICK f \in [DOMAIN ops -> DOMAIN batch] : \A n \in DOMAIN ops : ops[n] = batch[f[n]]
    BY <1>1 DEF Written, Keeps
  <2>2. ops[i].key \in KeysOf(batch)
    BY <2>1 DEF KeysOf
  <2> QED BY <1>2, <2>2, BatchKeys DEF WriteTypes
<1>15. ASSUME NEW k \in Key, ok, k \in KeysOf(batch)
       PROVE  \E n \in DOMAIN marks' : /\ marks'[n].key = k /\ marks'[n].seqno = LastSeqno(k)'
                                       /\ \A m \in DOMAIN ops : ops[m].key = k => m <= n
  <2>1. PICK n \in DOMAIN ops :
           /\ ops[n].key = k
           /\ \A m \in DOMAIN ops : ops[m].key = k => m <= n
           /\ LastSeqno(k)' = l + n
    BY <1>1, <1>9, <1>15, WriteLast
  <2> QED BY <1>10, <1>15, <2>1
<1>16. ASSUME NEW k \in Key, index[k] # Absent
       PROVE  index[k].seqno = LastSeqno(k)' \/ Coming(k)'
  <2>1. CASE ok /\ k \in KeysOf(batch)
    BY <1>15, <2>1 DEF Coming
  <2>2. CASE ~ok \/ k \notin KeysOf(batch)
    <3>1. LastSeqno(k)' = LastSeqno(k)
      BY <1>1, <2>2, WriteLast
    <3>2. marks = <<>>
      BY <1>1 DEF DShape, MarksAfter, Written
    <3>3. ~Coming(k)
      BY <3>2 DEF Coming
    <3> QED BY <1>16, <3>1, <3>3 DEF IndexInv
  <2> QED BY <2>1, <2>2
<1>17. IndexInv'
  <2>1. index' = index /\ seqEvicted' = seqEvicted /\ Indexed' = Indexed
    BY <1>3 DEF indexVars, Indexed
  <2>2. seqEvicted' \/ Indexed' = Key
    BY <2>1, Zenon DEF IndexInv
  <2>3. ASSUME NEW i \in DOMAIN marks', marks'[i].seqno # 0
        PROVE  \E j \in DOMAIN marks' : /\ j >= i /\ marks'[j].key = marks'[i].key
                                        /\ marks'[j].seqno = LastSeqno(marks[i].key)'
    <3>1. i \in DOMAIN ops /\ ok /\ marks'[i].key = ops[i].key
      BY <1>10, <2>3
    <3>2. PICK k \in Key : k = ops[i].key /\ k \in KeysOf(batch)
      BY <1>14, <3>1
    <3>3. PICK n \in DOMAIN marks' : /\ marks'[n].key = k /\ marks'[n].seqno = LastSeqno(k)'
                                     /\ \A m \in DOMAIN ops : ops[m].key = k => m <= n
      BY <1>15, <3>1, <3>2
    <3>4. i <= n /\ i \in Nat /\ n \in Nat
      BY <1>10, <3>1, <3>2, <3>3
    <3> QED BY <3>1, <3>2, <3>3, <3>4
  <2> QED BY <1>16, <2>1, <2>2, <2>3 DEF IndexInv
<1> QED BY <1>13, <1>17

\* MarkPersisted keeps shape and index.
LEMMA MarkShape ==
    ASSUME DShape, IndexInv, MarkPersisted
    PROVE  DShape' /\ IndexInv'
<1>1. /\ IOTypes /\ WriteTypes /\ DiskTypes /\ CacheTypes /\ IndexTypes /\ ReadTypes
      /\ OnDisk /\ IndexNames /\ MarkNames /\ \A r \in Readers : ReadNames(r)
  BY TypeParts, NameParts DEF DShape
<1>2. marks \in Seq(Mark) /\ marks # <<>> /\ marks' = Tail(marks)
  BY <1>1 DEF MarkPersisted, WriteTypes
<1>3. PICK l \in Nat : l = Len(marks) /\ l > 0 /\ DOMAIN marks = 1..l
  BY <1>2, EmptySeq, LenProperties
<1>4. /\ marks' \in Seq(Mark) /\ DOMAIN marks' = 1..(l - 1)
      /\ \A i \in 1..(l - 1) : marks'[i] = marks[i + 1]
  <2>1. /\ Tail(marks) \in Seq(Mark) /\ Len(Tail(marks)) = l - 1
        /\ \A i \in 1..Len(Tail(marks)) : Tail(marks)[i] = marks[i + 1]
    BY <1>2, <1>3, HeadTailProperties
  <2> QED BY <1>2, <2>1, LenProperties
<1>5. PICK k \in Key, n \in Nat : k = Head(marks).key /\ n = Head(marks).seqno
                                  /\ marks[1].key = k /\ marks[1].seqno = n
  <2>1. Head(marks) \in Mark /\ Head(marks) = marks[1]
    BY <1>2, HeadTailProperties
  <2> QED BY <2>1 DEF Mark
<1>6. UNCHANGED <<ioVars, queue, batch, diskVars, budget, reads, issued, gets>>
  BY DEF MarkPersisted
<1>7. IOTypes' /\ DiskTypes' /\ ReadTypes' /\ docs' = docs
  BY <1>1, <1>6, SameTypes DEF diskVars
<1>8. /\ cache' = IF cache[k] = Absent THEN cache
           ELSE [cache EXCEPT ![k].seqno = IF n = 0 THEN @ ELSE n,
                              ![k].pending = Unpin(@)]
      /\ pendingItems' = IF Carry(k) = 1 THEN pendingItems - 1 ELSE pendingItems
      /\ wpc' \in {"trim", "mark"}
      /\ IF n = 0 THEN UNCHANGED indexVars
         ELSE NoteSeqno(k, n, cache[k] # Absent /\ cache[k].del, TRUE)
  BY <1>5 DEF MarkPersisted
<1>9. WriteTypes'
  BY <1>1, <1>4, <1>6, <1>8 DEF WriteTypes
<1>10. CacheTypes'
  <2>1. cache' \in [Key -> Entry \cup {Absent}]
    <3>1. CASE cache[k] = Absent
      BY <1>1, <1>8, <3>1 DEF CacheTypes
    <3>2. CASE cache[k] # Absent
      <4>1. cache[k] \in Entry
        BY <1>1, <3>2 DEF CacheTypes
      <4>2. Unpin(cache[k].pending) \in 0..Word-1
        <5>1. cache[k].pending - 1 \in Int
          BY <4>1, Numbers DEF Entry
        <5> QED BY <5>1, WordType DEF Unpin
      <4>3. PICK e \in Entry : cache' = [cache EXCEPT ![k] = e]
        <5>1. [cache[k] EXCEPT !.seqno = IF n = 0 THEN @ ELSE n, !.pending = Unpin(@)] \in Entry
          BY <4>1, <4>2 DEF Entry
        <5> QED BY <1>8, <3>2, <5>1
      <4> QED BY <1>1, <4>3 DEF CacheTypes
    <3> QED BY <3>1, <3>2
  <2> QED BY <1>1, <1>6, <1>8, <2>1 DEF CacheTypes
<1>11. (\A m, j : IsDoc(m, j)' <=> IsDoc(m, j)) /\ (\A j : LastSeqno(j)' = LastSeqno(j)) /\ Grows
  BY <1>7, SameDocs
<1>12. OnDisk' /\ \A r \in Readers : ReadNames(r)'
  BY <1>1, <1>6, <1>11, SameNames
<1>13. MarkNames'
  <2>1. ASSUME NEW i \in DOMAIN marks', marks'[i].seqno # 0
        PROVE  IsDoc(marks'[i].seqno, marks'[i].key)
    <3>1. i \in 1..(l - 1) /\ i + 1 \in DOMAIN marks /\ marks'[i] = marks[i + 1]
      BY <1>3, <1>4
    <3> QED BY <1>1, <2>1, <3>1 DEF MarkNames
  <2> QED BY <1>11, <2>1 DEF MarkNames
<1>14. ASSUME n # 0 PROVE IsDoc(n, k)
  BY <1>1, <1>3, <1>5, <1>14 DEF MarkNames
<1>15. /\ IndexTypes'
       /\ \A j \in Key \ {k} : index'[j] = index[j] \/ index'[j] = Absent
       /\ n = 0 => index' = index
       /\ n # 0 /\ index[k] # Absent =>
            /\ index'[k] # Absent
            /\ index'[k].seqno = IF n > index[k].seqno THEN n ELSE index[k].seqno
       /\ n # 0 /\ index[k] = Absent => (index'[k] = Absent \/ index'[k].seqno = n)
       /\ seqEvicted' \/ Indexed' = Key
  <2>0. seqEvicted \/ Indexed = Key
    BY Zenon DEF IndexInv
  <2>1. CASE n = 0
    <3>1. index' = index /\ seqEvicted' = seqEvicted /\ Indexed' = Indexed
      BY <1>8, <2>1 DEF indexVars, Indexed
    <3>2. seqEvicted' \/ Indexed' = Key
      BY <2>0, <3>1, Zenon
    <3>3. IndexTypes'
      BY <1>1, <1>8, <2>1, SameTypes
    <3> QED BY <2>1, <3>1, <3>2, <3>3
  <2>2. CASE n # 0
    <3> DEFINE del == cache[k] # Absent /\ cache[k].del
    <3>1. NoteSeqno(k, n, del, TRUE)
      BY <1>8, <2>2, Zenon
    <3>2. del \in BOOLEAN
      OBVIOUS
    <3> HIDE DEF del
    <3>3. Noted(k, n, TRUE)
      BY <1>1, <3>1, <3>2, NoteEffect, Zenon
    <3> QED BY <2>0, <2>2, <3>3 DEF Noted
  <2> QED BY <2>1, <2>2
<1>16. ASSUME NEW j \in Key, index'[j] # Absent PROVE IsDoc(index'[j].seqno, j)
  BY <1>1, <1>14, <1>15, <1>16 DEF IndexNames
<1>17. IndexNames'
  BY <1>11, <1>16 DEF IndexNames
<1>18. MarksAfter'
  BY <1>8 DEF MarksAfter
<1>19. DShape'
  BY <1>7, <1>9, <1>10, <1>12, <1>13, <1>15, <1>17, <1>18, ShapeLater
<1>20. ASSUME NEW j \in Key, NEW i \in DOMAIN marks, i > 1, marks[i].key = j,
              marks[i].seqno = LastSeqno(j)
       PROVE  Coming(j)'
  <2>1. i - 1 \in DOMAIN marks' /\ marks'[i - 1] = marks[i]
    <3>1. i - 1 \in 1..(l - 1) /\ (i - 1) + 1 = i
      BY <1>3, <1>20
    <3> QED BY <1>4, <3>1
  <2> QED BY <1>11, <1>20, <2>1 DEF Coming
<1>21. ASSUME NEW j \in Key, index'[j] # Absent
       PROVE  index'[j].seqno = LastSeqno(j) \/ Coming(j)'
  <2>0. LastSeqno(j) \in Nat \ {0} /\ \A m \in DOMAIN docs : IsDoc(m, j) => m <= LastSeqno(j)
    BY <1>1, LastDoc DEF OnDisk, DiskTypes
  <2>1. CASE j # k
    <3>1. index'[j] = index[j]
      BY <1>15, <1>21, <2>1
    <3>2. CASE index[j].seqno = LastSeqno(j)
      BY <3>1, <3>2
    <3>3. CASE Coming(j)
      <4>1. PICK i \in DOMAIN marks : marks[i].key = j /\ marks[i].seqno = LastSeqno(j)
        BY <3>3 DEF Coming
      <4>2. i > 1
        BY <1>3, <1>5, <2>1, <4>1
      <4> QED BY <1>20, <4>1, <4>2
    <3> QED BY <1>21, <3>1, <3>2, <3>3 DEF IndexInv
  <2>2. CASE j = k /\ n = 0
    <3>1. index'[k] = index[k]
      BY <1>15, <2>2
    <3>2. CASE Coming(k)
      <4>1. PICK i \in DOMAIN marks : marks[i].key = k /\ marks[i].seqno = LastSeqno(k)
        BY <3>2 DEF Coming
      <4>2. i > 1
        BY <1>3, <1>5, <2>0, <2>2, <4>1
      <4> QED BY <1>20, <2>2, <4>1, <4>2
    <3> QED BY <1>21, <2>2, <3>1, <3>2 DEF IndexInv
  <2>3. CASE j = k /\ n # 0
    <3>1. PICK i \in DOMAIN marks : marks[i].key = k /\ marks[i].seqno = LastSeqno(k)
      BY <1>3, <1>5, <2>3 DEF IndexInv
    <3>2. CASE i > 1
      BY <1>20, <2>3, <3>1, <3>2
    <3>3. CASE i = 1
      <4>1. n = LastSeqno(k)
        BY <1>5, <3>1, <3>3
      <4>2. CASE index[k] = Absent
        BY <1>15, <1>21, <2>3, <4>1, <4>2
      <4>3. CASE index[k] # Absent
        <5>1. index[k].seqno \in Nat /\ index[k].seqno <= n
          BY <1>1, <2>0, <2>3, <4>1, <4>3 DEF IndexNames, IsDoc, IndexTypes, SeqEntry
        <5> QED BY <1>15, <2>3, <4>1, <4>3, <5>1
      <4> QED BY <4>2, <4>3
    <3> QED BY <1>3, <3>2, <3>3
  <2> QED BY <2>1, <2>2, <2>3
<1>22. ASSUME NEW i \in DOMAIN marks', marks'[i].seqno # 0
       PROVE  \E j \in DOMAIN marks' : /\ j >= i /\ marks'[j].key = marks'[i].key
                                       /\ marks'[j].seqno = LastSeqno(marks'[i].key)
  <2>1. i \in 1..(l - 1) /\ i + 1 \in DOMAIN marks /\ marks'[i] = marks[i + 1]
    BY <1>3, <1>4
  <2>2. PICK j \in DOMAIN marks : /\ j >= i + 1 /\ marks[j].key = marks[i + 1].key
                                  /\ marks[j].seqno = LastSeqno(marks[i + 1].key)
    BY <1>22, <2>1 DEF IndexInv
  <2>3. j - 1 \in 1..(l - 1) /\ (j - 1) + 1 = j /\ j - 1 >= i
    BY <1>3, <2>1, <2>2
  <2>4. j - 1 \in DOMAIN marks' /\ marks'[j - 1] = marks[j]
    BY <1>4, <2>3
  <2> QED BY <2>1, <2>2, <2>3, <2>4
<1>23. IndexInv'
  BY <1>11, <1>15, <1>21, <1>22 DEF IndexInv
<1> QED BY <1>19, <1>23

-----------------------------------------------------------------------------
(* The other steps *)

\* A step that moves no document, no mark and no index entry.
LEMMA StillShape ==
    ASSUME DShape, IndexInv, UNCHANGED <<diskVars, indexVars, marks>>,
           IOTypes', WriteTypes', CacheTypes', ReadTypes',
           \A r \in Readers : ReadNames(r)', MarksAfter'
    PROVE  DShape' /\ IndexInv'
<1>1. DiskTypes /\ IndexTypes /\ OnDisk /\ IndexNames /\ MarkNames
  BY TypeParts, NameParts DEF DShape
<1>2. docs' = docs /\ index' = index /\ marks' = marks
  BY DEF diskVars, indexVars
<1>3. Grows
  BY <1>2, SameDocs
<1>4. OnDisk' /\ IndexNames' /\ MarkNames'
  BY <1>1, <1>2, <1>3, SameNames
<1>5. DiskTypes' /\ IndexTypes'
  BY <1>1, SameTypes
<1>6. IndexInv'
  BY <1>2, SameIndex
<1> QED BY <1>4, <1>5, <1>6, ShapeLater

\* Nor anything of the readers.
LEMMA StillReads ==
    ASSUME DShape, IndexInv, UNCHANGED <<diskVars, indexVars, marks, reads>>,
           IOTypes', WriteTypes', CacheTypes', ReadTypes', MarksAfter'
    PROVE  DShape' /\ IndexInv'
<1>1. \A r \in Readers : ReadNames(r)
  BY NameParts DEF DShape
<1>2. Grows
  BY SameDocs DEF diskVars
<1>3. \A r \in Readers : ReadNames(r)'
  BY <1>1, <1>2, SameNames
<1> QED BY <1>3, StillShape

\* The parts of the shape.
LEMMA ShapeIs ==
    ASSUME DShape
    PROVE  /\ IOTypes /\ WriteTypes /\ DiskTypes /\ CacheTypes /\ IndexTypes /\ ReadTypes
           /\ OnDisk /\ IndexNames /\ MarkNames /\ \A r \in Readers : ReadNames(r)
           /\ MarksAfter /\ budget \in Nat
<1>1. budget \in Nat
  BY Sets DEF DShape, TypeOK
<1> QED BY <1>1, TypeParts, NameParts DEF DShape

\* The pins a Put gives an entry.
LEMMA PinsType ==
    ASSUME CacheTypes, NEW k \in Key
    PROVE  Carry(k) \in 0..Word-1 /\ Pins(k) \in 0..Word-1
<1>1. Carry(k) \in 0..Word-1
  BY Numbers DEF Carry, CacheTypes, Entry
<1>2. Carry(k) + 1 \in Int
  BY <1>1, Numbers
<1> QED BY <1>1, <1>2, WordType DEF Pins

\* putEntry: the entry of the write, pinned once more.
PutDone(w) ==
    LET c == [cache EXCEPT ![w.key] = [id |-> w.id, del |-> w.del, seqno |-> 0,
                                       pending |-> Pins(w.key)]]
    IN  /\ c \in [Key -> Entry \cup {Absent}] /\ cache' \in Evict(c, budget)
        /\ c[w.key] # Absent /\ c[w.key].id = w.id /\ c[w.key].pending = Pins(w.key)
        /\ \A k \in Key \ {w.key} : c[k] = cache[k]

\* Put does that.
LEMMA PutEffect ==
    ASSUME CacheTypes, NEW w \in Write, Put(w)
    PROVE  PutDone(w)
<1>1. w.key \in Key /\ w.id \in Id /\ w.del \in BOOLEAN
  BY DEF Write
<1>2. Pins(w.key) \in 0..Word-1
  BY <1>1, PinsType
<1>3. PICK e : e = [id |-> w.id, del |-> w.del, seqno |-> 0, pending |-> Pins(w.key)]
  OBVIOUS
<1>4. e \in Entry /\ e # Absent /\ e.id = w.id /\ e.pending = Pins(w.key)
  BY <1>1, <1>2, <1>3, NoneAbsent DEF Entry
<1>5. PICK c : c = [cache EXCEPT ![w.key] = e]
  OBVIOUS
<1>6. /\ c \in [Key -> Entry \cup {Absent}] /\ c[w.key] = e
      /\ \A k \in Key \ {w.key} : c[k] = cache[k]
  BY <1>1, <1>4, <1>5 DEF CacheTypes
<1>7. cache' \in Evict(c, budget)
  BY <1>3, <1>5 DEF Put
<1> QED BY <1>3, <1>4, <1>5, <1>6, <1>7 DEF PutDone

\* A write is put.
LEMMA PutShape ==
    ASSUME DShape, IndexInv, NEW t \in IOThreads, NEW w \in Write, WriteThrough(t, w)
    PROVE  DShape' /\ IndexInv'
<1>1. /\ IOTypes /\ WriteTypes /\ CacheTypes /\ ReadTypes /\ MarksAfter /\ budget \in Nat
  BY ShapeIs
<1>2. /\ inHand' = [inHand EXCEPT ![t] = w] /\ Put(w) /\ issued < MaxWrites
      /\ issued' = issued + 1
      /\ UNCHANGED <<staged, acked, refused, writeVars, diskVars, budget, indexVars, reads, gets>>
  BY DEF WriteThrough
<1>3. IOTypes'
  BY <1>1, <1>2 DEF IOTypes
<1>4. WriteTypes' /\ marks' = marks /\ MarksAfter'
  BY <1>1, <1>2, SameTypes DEF writeVars, MarksAfter
<1>5. ReadTypes'
  BY <1>1, <1>2, Numbers DEF ReadTypes, Id
<1>6. cache' \in [Key -> Entry \cup {Absent}]
  BY <1>1, <1>2, PutEffect, EvictDrops DEF PutDone
<1>7. pendingItems' \in Int
  BY <1>1, <1>2 DEF Put, CacheTypes
<1>8. CacheTypes'
  BY <1>1, <1>2, <1>6, <1>7 DEF CacheTypes
<1> QED BY <1>2, <1>3, <1>4, <1>5, <1>8, StillReads

\* SET and DELETE put a write.
LEMMA HandleIsPut ==
    ASSUME DShape, NEW t \in IOThreads, NEW k \in Key, HandleSet(t, k) \/ HandleDelete(t, k)
    PROVE  \E w \in Write : w.key = k /\ w.id = issued + 1 /\ WriteThrough(t, w)
<1>1. issued \in Nat /\ issued < MaxWrites
  BY Numbers DEF HandleSet, HandleDelete, WriteThrough, DShape, TypeOK, Id
<1>2. issued + 1 \in Id
  BY <1>1, Numbers DEF Id
<1>3. \A d \in BOOLEAN : [id |-> issued + 1, key |-> k, del |-> d] \in Write
  BY <1>2 DEF Write
<1> QED BY <1>3 DEF HandleSet, HandleDelete

\* The other steps of an IO thread.
LEMMA IOShape ==
    ASSUME DShape, IndexInv, NEW t \in IOThreads, IOStep(t)
    PROVE  DShape' /\ IndexInv'
<1>1. /\ IOTypes /\ WriteTypes /\ CacheTypes /\ ReadTypes /\ MarksAfter /\ budget \in Nat
  BY ShapeIs
<1>2. CASE StageWrite(t)
  <2>1. inHand[t] \in Write
    BY <1>1, <1>2 DEF StageWrite, IOTypes
  <2>2. inHand[t].key \in Key /\ inHand[t].id \in Id
    BY <2>1 DEF Write
  <2>3. UNCHANGED <<refused, writeVars, diskVars, cacheVars, budget, indexVars, reads, issued, gets>>
    BY <1>2 DEF StageWrite
  <2>4. acked' \in [Key -> Id]
    <3>1. acked' = [acked EXCEPT ![inHand[t].key] =
                      IF @ < inHand[t].id THEN inHand[t].id ELSE @]
      BY <1>2 DEF StageWrite
    <3> QED BY <1>1, <2>2, <3>1 DEF IOTypes
  <2>5. staged' \in [IOThreads -> Seq(Write)]
    <3>1. staged' = [staged EXCEPT ![t] = Append(staged[t], inHand[t])]
      BY <1>2 DEF StageWrite
    <3>2. Append(staged[t], inHand[t]) \in Seq(Write)
      BY <1>1, <2>1, AppendProperties DEF IOTypes
    <3> QED BY <1>1, <3>1, <3>2 DEF IOTypes
  <2>6. inHand' \in [IOThreads -> Write \cup {Absent}]
    BY <1>1, <1>2 DEF StageWrite, IOTypes
  <2>7. IOTypes'
    BY <1>1, <2>3, <2>4, <2>5, <2>6 DEF IOTypes
  <2>8. WriteTypes' /\ CacheTypes' /\ ReadTypes' /\ marks' = marks /\ MarksAfter'
    BY <1>1, <2>3, SameTypes DEF writeVars, MarksAfter
  <2> QED BY <2>3, <2>7, <2>8, StillReads
<1>3. CASE inHand[t] # Absent /\ Refuse(t)
  <2>1. inHand[t].key \in Key
    BY <1>1, <1>3 DEF IOTypes, Write
  <2>2. UNCHANGED <<staged, acked, writeVars, diskVars, budget, indexVars, reads, issued, gets>>
        /\ refused' = refused \cup {inHand[t].key}
        /\ inHand' = [inHand EXCEPT ![t] = Absent] /\ Erase(inHand[t].key)
    BY <1>3 DEF Refuse
  <2>3. IOTypes'
    BY <1>1, <2>1, <2>2 DEF IOTypes
  <2>4. CacheTypes'
    BY <1>1, <2>1, <2>2 DEF Erase, CacheTypes
  <2>5. WriteTypes' /\ ReadTypes' /\ marks' = marks /\ MarksAfter'
    BY <1>1, <2>2, SameTypes DEF writeVars, MarksAfter
  <2> QED BY <2>2, <2>3, <2>4, <2>5, StillReads
<1>4. CASE FlushStaged(t)
  <2>1. UNCHANGED <<inHand, acked, refused, batch, wpc, marks, diskVars, cacheVars,
                    budget, indexVars, reads, issued, gets>>
        /\ queue' = queue \o staged[t] /\ staged' = [staged EXCEPT ![t] = <<>>]
    BY <1>4 DEF FlushStaged, Flushed
  <2>2. queue' \in Seq(Write)
    BY <1>1, <2>1, ConcatProperties DEF IOTypes, WriteTypes
  <2>3. <<>> \in Seq(Write)
    OBVIOUS
  <2>4. IOTypes'
    BY <1>1, <2>1, <2>3 DEF IOTypes
  <2>5. WriteTypes' /\ MarksAfter'
    BY <1>1, <2>1, <2>2 DEF WriteTypes, MarksAfter
  <2>6. CacheTypes' /\ ReadTypes'
    BY <1>1, <2>1, SameTypes
  <2> QED BY <2>1, <2>4, <2>5, <2>6, StillReads
<1> QED BY <1>2, <1>3, <1>4 DEF IOStep, RefuseSet, RefuseDelete

\* The other steps of the writer, and the budget.
LEMMA WriterShape ==
    ASSUME DShape, IndexInv, Sweep \/ Trim \/ Complete \/ \E b \in Budgets : SetBudget(b)
    PROVE  DShape' /\ IndexInv'
<1>1. /\ IOTypes /\ WriteTypes /\ CacheTypes /\ ReadTypes /\ MarksAfter /\ budget \in Nat
  BY ShapeIs
<1>2. CASE Sweep
  <2>1. UNCHANGED <<ioVars, marks, diskVars, cacheVars, budget, indexVars, reads, issued, gets>>
        /\ batch' = queue /\ queue' = <<>> /\ wpc' = "write" /\ wpc = "idle"
    BY <1>2 DEF Sweep
  <2>2. WriteTypes' /\ MarksAfter'
    BY <1>1, <2>1 DEF WriteTypes, MarksAfter
  <2>3. IOTypes' /\ CacheTypes' /\ ReadTypes'
    BY <1>1, <2>1, SameTypes
  <2> QED BY <2>1, <2>2, <2>3, StillReads
<1>3. CASE Trim
  <2>1. UNCHANGED <<ioVars, queue, batch, marks, diskVars, pendingItems, budget, indexVars,
                    reads, issued, gets>>
        /\ cache' \in Evict(cache, budget) /\ wpc' = "mark"
    BY <1>3 DEF Trim
  <2>2. WriteTypes' /\ MarksAfter'
    BY <1>1, <2>1 DEF WriteTypes, MarksAfter
  <2>3. cache' \in [Key -> Entry \cup {Absent}]
    BY <1>1, <2>1, EvictDrops DEF CacheTypes
  <2>4. CacheTypes'
    BY <1>1, <2>1, <2>3 DEF CacheTypes
  <2>5. IOTypes' /\ ReadTypes'
    BY <1>1, <2>1, SameTypes
  <2> QED BY <2>1, <2>2, <2>4, <2>5, StillReads
<1>4. CASE Complete
  <2>1. UNCHANGED <<ioVars, queue, marks, diskVars, cacheVars, budget, indexVars, reads, issued, gets>>
        /\ batch' = <<>> /\ wpc' = "idle" /\ marks = <<>>
    BY <1>4 DEF Complete
  <2>2. WriteTypes' /\ MarksAfter'
    BY <1>1, <2>1 DEF WriteTypes, MarksAfter
  <2>3. IOTypes' /\ CacheTypes' /\ ReadTypes'
    BY <1>1, <2>1, SameTypes
  <2> QED BY <2>1, <2>2, <2>3, StillReads
<1>5. ASSUME NEW b \in Budgets, SetBudget(b) PROVE DShape' /\ IndexInv'
  <2>1. UNCHANGED <<ioVars, writeVars, diskVars, pendingItems, indexVars, reads, issued, gets>>
        /\ cache' \in Evict(cache, b) /\ budget' = b
    BY <1>5 DEF SetBudget
  <2>2. b \in Nat
    BY Sets
  <2>3. cache' \in [Key -> Entry \cup {Absent}]
    BY <1>1, <2>1, <2>2, EvictDrops DEF CacheTypes
  <2>4. CacheTypes'
    BY <1>1, <2>1, <2>3 DEF CacheTypes
  <2>5. IOTypes' /\ WriteTypes' /\ ReadTypes' /\ marks' = marks /\ MarksAfter'
    BY <1>1, <2>1, SameTypes DEF writeVars, MarksAfter
  <2> QED BY <2>1, <2>4, <2>5, StillReads
<1> QED BY <1>2, <1>3, <1>4, <1>5

-----------------------------------------------------------------------------
(* GETs *)

\* One reader's GET changes to rd, which names documents of its key.
NextRead(r, rd) ==
    /\ rd \in Read /\ reads' = [reads EXCEPT ![r] = rd]
    /\ rd.hint # 0 => IsDoc(rd.hint, rd.key)
    /\ rd.pc \in {"note", "fill", "answer"} => IsDoc(rd.seqno, rd.key)

\* Then the readers' types and names hold.
LEMMA ReaderMoves ==
    ASSUME DShape, NEW r \in Readers, NEW rd, NextRead(r, rd), UNCHANGED docs
    PROVE  reads' \in [Readers -> Read] /\ \A q \in Readers : ReadNames(q)'
<1>1. reads \in [Readers -> Read] /\ \A q \in Readers : ReadNames(q)
  BY ShapeIs DEF ReadTypes
<1>2. reads' \in [Readers -> Read] /\ reads'[r] = rd /\ \A q \in Readers \ {r} : reads'[q] = reads[q]
  BY <1>1 DEF NextRead
<1>3. \A n, k : IsDoc(n, k)' <=> IsDoc(n, k)
  BY SameDocs
<1>4. ASSUME NEW q \in Readers
      PROVE  /\ reads'[q].hint # 0 => IsDoc(reads'[q].hint, reads'[q].key)
             /\ reads'[q].pc \in {"note", "fill", "answer"} =>
                  IsDoc(reads'[q].seqno, reads'[q].key)
  <2>1. CASE q = r
    BY <1>2, <2>1 DEF NextRead
  <2>2. CASE q # r
    BY <1>1, <1>2, <2>2 DEF ReadNames
  <2> QED BY <2>1, <2>2
<1> QED BY <1>2, <1>3, <1>4 DEF ReadNames

\* A reader's fields.
LEMMA ReadFields ==
    ASSUME DShape, NEW r \in Readers
    PROVE  /\ reads[r] \in Read /\ reads[r].key \in Key /\ reads[r].hint \in Nat
           /\ reads[r].floor \in Nat /\ reads[r].seqno \in Nat
           /\ reads[r].hint # 0 => IsDoc(reads[r].hint, reads[r].key)
           /\ reads[r].pc \in {"note", "fill", "answer"} => IsDoc(reads[r].seqno, reads[r].key)
BY ShapeIs DEF ReadTypes, Read, ReadNames

\* What a GET makes of its reader.
LEMMA GetMoves ==
    ASSUME DShape, NEW r \in Readers,
           \/ \E k \in Key : HandleGet(r, k)
           \/ ReadStep(r)
    PROVE  \E rd : NextRead(r, rd)
<1>0. reads \in [Readers -> Read] /\ \A k \in Key : LastSeqno(k) \in Nat
  BY ShapeIs, LastDoc DEF ReadTypes, OnDisk, DiskTypes
<1>1. ASSUME NEW k \in Key, HandleGet(r, k) PROVE \E rd : NextRead(r, rd)
  <2>1. PICK rd : rd = [pc |-> "hint", key |-> k, floor |-> LastSeqno(k), hint |-> 0, seqno |-> 0]
    OBVIOUS
  <2>2. rd \in Read /\ rd.hint = 0 /\ rd.pc = "hint"
    BY <1>0, <2>1 DEF Read
  <2>3. reads' = [reads EXCEPT ![r] = rd]
    BY <1>1, <2>1 DEF HandleGet
  <2> QED BY <2>2, <2>3 DEF NextRead
<1>2. PICK old \in Read : old = reads[r] /\ old.key \in Key /\ old.hint \in Nat /\ old.seqno \in Nat
                          /\ (old.hint # 0 => IsDoc(old.hint, old.key))
                          /\ (old.pc \in {"note", "fill", "answer"} => IsDoc(old.seqno, old.key))
  BY ReadFields
<1>3. CASE SeqnoHint(r)
  <2>1. PICK e : e = index[old.key]
    OBVIOUS
  <2>2. PICK h : h = IF e = Absent \/ e.del THEN 0 ELSE e.seqno
    OBVIOUS
  <2>3. h \in Nat /\ (h # 0 => IsDoc(h, old.key))
    BY <1>2, <2>1, <2>2, ShapeIs DEF IndexTypes, IndexNames, SeqEntry
  <2>4. PICK rd : rd = [old EXCEPT !.pc = "get", !.hint = h]
    OBVIOUS
  <2>5. rd \in Read /\ rd.pc = "get" /\ rd.hint = h /\ rd.key = old.key
    BY <2>3, <2>4 DEF Read
  <2>6. reads' = [reads EXCEPT ![r] = rd]
    BY <1>0, <1>2, <1>3, <2>1, <2>2, <2>4 DEF SeqnoHint
  <2> QED BY <2>3, <2>5, <2>6 DEF NextRead
<1>4. CASE GetDocs(r)
  <2>1. PICK n \in {LastSeqno(old.key)} \cup ({old.hint} \ {0}) :
           reads' = [reads EXCEPT ![r].seqno = n,
                       ![r].pc = IF docs[n].del THEN "answer" ELSE "note"]
    BY <1>2, <1>4 DEF GetDocs
  <2>2. IsDoc(n, old.key) /\ n \in Nat
    BY <1>2, <2>1, LastDoc, ShapeIs DEF OnDisk, DiskTypes
  <2>3. PICK p : p = IF docs[n].del THEN "answer" ELSE "note"
    OBVIOUS
  <2>4. p \in {"answer", "note"}
    BY <2>3
  <2>5. PICK rd : rd = [old EXCEPT !.seqno = n, !.pc = p]
    OBVIOUS
  <2>6. rd \in Read /\ rd.pc = p /\ rd.hint = old.hint /\ rd.key = old.key /\ rd.seqno = n
    BY <2>2, <2>4, <2>5 DEF Read
  <2>7. reads' = [reads EXCEPT ![r] = rd]
    BY <1>0, <1>2, <2>1, <2>3, <2>5
  <2> QED BY <1>2, <2>2, <2>6, <2>7 DEF NextRead
<1>5. ASSUME NEW p \in {"fill", "answer", "idle"}, reads' = [reads EXCEPT ![r].pc = p],
             old.pc \in {"note", "fill", "answer"}
      PROVE  \E rd : NextRead(r, rd)
  <2>1. PICK rd : rd = [old EXCEPT !.pc = p]
    OBVIOUS
  <2>2. rd \in Read /\ rd.hint = old.hint /\ rd.key = old.key /\ rd.seqno = old.seqno
    BY <1>5, <2>1 DEF Read
  <2>3. reads' = [reads EXCEPT ![r] = rd]
    BY <1>0, <1>2, <1>5, <2>1
  <2> QED BY <1>2, <1>5, <2>2, <2>3 DEF NextRead
<1>6. CASE NoteFill(r)
  BY <1>2, <1>5, <1>6 DEF NoteFill
<1>7. CASE PutIfAbsent(r)
  BY <1>2, <1>5, <1>7 DEF PutIfAbsent
<1>8. CASE SendGetResponse(r)
  BY <1>2, <1>5, <1>8 DEF SendGetResponse
<1> QED BY <1>1, <1>3, <1>4, <1>6, <1>7, <1>8 DEF ReadStep

\* The entry a fill inserts.
FillDone(k, n) ==
    LET c == [cache EXCEPT ![k] = [id |-> docs[n].id, del |-> FALSE, seqno |-> n, pending |-> 0]]
    IN  /\ c \in [Key -> Entry \cup {Absent}] /\ cache' \in Evict(c, budget)
        /\ c[k] # Absent /\ c[k].id = docs[n].id /\ c[k].pending = 0
        /\ \A j \in Key \ {k} : c[j] = cache[j]

\* A fill inserts a document of the reader's key if there is no entry, or does
\* nothing.
LEMMA FillEffect ==
    ASSUME DShape, NEW r \in Readers, PutIfAbsent(r)
    PROVE  \/ cache' = cache
           \/ cache[reads[r].key] = Absent /\ FillDone(reads[r].key, reads[r].seqno)
<1>1. PICK k \in Key, n \in Nat : k = reads[r].key /\ n = reads[r].seqno /\ IsDoc(n, k)
  BY ReadFields DEF PutIfAbsent
<1>2. PICK e : e = [id |-> docs[n].id, del |-> FALSE, seqno |-> n, pending |-> 0]
  OBVIOUS
<1>3. docs[n] \in Write
  <2>1. docs \in Seq(Write \cup {Absent})
    BY ShapeIs DEF DiskTypes
  <2>2. docs[n] \in Write \cup {Absent} /\ docs[n] # Absent
    BY <1>1, <2>1, LenProperties, ElementOfSeq DEF IsDoc
  <2> QED BY <2>2
<1>4. e \in Entry /\ e # Absent /\ e.id = docs[n].id /\ e.pending = 0
  <2>1. docs[n].id \in Id
    BY <1>3 DEF Write
  <2>2. FALSE \in BOOLEAN /\ 0 \in 0..Word-1
    BY Numbers
  <2>3. e \in Entry
    BY <1>2, <2>1, <2>2 DEF Entry
  <2> QED BY <1>2, <2>3, NoneAbsent
<1>5. PICK c : c = [cache EXCEPT ![k] = e]
  OBVIOUS
<1>6. /\ c \in [Key -> Entry \cup {Absent}] /\ c[k] = e
      /\ \A j \in Key \ {k} : c[j] = cache[j]
  BY <1>4, <1>5, ShapeIs DEF CacheTypes
<1>7. \/ cache' = cache
      \/ cache[k] = Absent /\ cache' \in Evict(c, budget)
  BY <1>1, <1>2, <1>5 DEF PutIfAbsent, MayFill
<1> QED BY <1>1, <1>2, <1>4, <1>5, <1>6, <1>7 DEF FillDone

\* The steps of a GET.
LEMMA ReaderShape ==
    ASSUME DShape, IndexInv, NEW r \in Readers,
           (\E k \in Key : HandleGet(r, k)) \/ ReadStep(r)
    PROVE  DShape' /\ IndexInv'
<1>1. /\ IOTypes /\ WriteTypes /\ DiskTypes /\ CacheTypes /\ IndexTypes /\ ReadTypes
      /\ OnDisk /\ IndexNames /\ MarkNames /\ MarksAfter /\ budget \in Nat
  BY ShapeIs
<1>2. PICK rd : NextRead(r, rd)
  BY GetMoves
<1>3. UNCHANGED <<ioVars, writeVars, diskVars, pendingItems, budget, issued>>
      /\ gets' \in 0..MaxReads
  <2>1. gets \in 0..MaxReads
    BY <1>1 DEF ReadTypes
  <2>2. ASSUME NEW k \in Key, HandleGet(r, k)
        PROVE  UNCHANGED <<ioVars, writeVars, diskVars, cacheVars, budget, issued>>
               /\ gets' = gets + 1 /\ gets < MaxReads
    BY <2>2 DEF HandleGet
  <2>3. CASE SeqnoHint(r)
    BY <2>1, <2>3 DEF SeqnoHint, cacheVars
  <2>4. CASE GetDocs(r)
    BY <2>1, <2>4 DEF GetDocs, cacheVars
  <2>5. CASE NoteFill(r)
    BY <2>1, <2>5 DEF NoteFill, cacheVars
  <2>6. CASE PutIfAbsent(r)
    BY <2>1, <2>6 DEF PutIfAbsent
  <2>7. CASE SendGetResponse(r)
    BY <2>1, <2>7 DEF SendGetResponse, cacheVars
  <2>8. ASSUME NEW k \in Key, HandleGet(r, k) PROVE gets' \in 0..MaxReads
    BY <2>1, <2>2, <2>8, Numbers
  <2>9. ASSUME NEW k \in Key, HandleGet(r, k)
        PROVE  UNCHANGED <<ioVars, writeVars, diskVars, pendingItems, budget, issued>>
    BY <2>2, <2>9 DEF cacheVars
  <2> QED BY <2>3, <2>4, <2>5, <2>6, <2>7, <2>8, <2>9 DEF ReadStep
<1>4. IOTypes' /\ WriteTypes' /\ DiskTypes' /\ marks' = marks /\ docs' = docs /\ MarksAfter'
  BY <1>1, <1>3, SameTypes DEF writeVars, diskVars, MarksAfter
<1>5. reads' \in [Readers -> Read] /\ \A q \in Readers : ReadNames(q)'
  BY <1>2, <1>4, ReaderMoves
<1>6. ReadTypes'
  BY <1>1, <1>3, <1>5 DEF ReadTypes
<1>7. CASE NoteFill(r)
  <2>1. PICK k \in Key, n \in Nat : k = reads[r].key /\ n = reads[r].seqno /\ IsDoc(n, k)
    BY <1>7, ReadFields DEF NoteFill
  <2>2. NoteSeqno(k, n, FALSE, FALSE)
    BY <1>7, <2>1 DEF NoteFill
  <2>3. IndexTypes' /\ IndexNames' /\ IndexInv'
    BY <1>4, <2>1, <2>2, NoteFillKeeps
  <2>4. CacheTypes'
    BY <1>1, <1>7, SameTypes DEF NoteFill
  <2>5. OnDisk' /\ MarkNames'
    BY <1>1, <1>4, SameDocs, SameNames
  <2> QED BY <1>4, <1>5, <1>6, <2>3, <2>4, <2>5, ShapeLater
<1>8. CASE PutIfAbsent(r)
  <2>1. cache' \in [Key -> Entry \cup {Absent}]
    <3>1. CASE cache' = cache
      BY <1>1, <3>1 DEF CacheTypes
    <3>2. CASE FillDone(reads[r].key, reads[r].seqno)
      BY <1>1, <3>2, EvictDrops DEF FillDone
    <3> QED BY <1>8, <3>1, <3>2, FillEffect
  <2>2. CacheTypes'
    BY <1>1, <1>3, <2>1 DEF CacheTypes
  <2>3. UNCHANGED indexVars
    BY <1>8 DEF PutIfAbsent
  <2> QED BY <1>3, <1>4, <1>5, <1>6, <2>2, <2>3, StillShape
<1>9. CASE ~NoteFill(r) /\ ~PutIfAbsent(r)
  <2>1. UNCHANGED <<cacheVars, indexVars>>
    BY <1>9 DEF HandleGet, ReadStep, SeqnoHint, GetDocs, SendGetResponse
  <2>2. CacheTypes'
    BY <1>1, <1>3, <2>1, SameTypes
  <2> QED BY <1>3, <1>4, <1>5, <1>6, <2>1, <2>2, StillShape
<1> QED BY <1>7, <1>8, <1>9

\* Every step keeps shape and index.
LEMMA NextShape == DShape /\ IndexInv /\ [Next]_vars => DShape' /\ IndexInv'
<1> SUFFICES ASSUME DShape, IndexInv, [Next]_vars PROVE DShape' /\ IndexInv'
  OBVIOUS
<1>1. ASSUME NEW t \in IOThreads, NEW k \in Key, HandleSet(t, k) \/ HandleDelete(t, k)
      PROVE  DShape' /\ IndexInv'
  BY <1>1, HandleIsPut, PutShape
<1>2. ASSUME NEW t \in IOThreads, IOStep(t) PROVE DShape' /\ IndexInv'
  BY <1>2, IOShape
<1>3. CASE WriterStep
  BY <1>3, WriterShape, MarkShape, WriteShape DEF WriterStep
<1>4. ASSUME NEW k \in Key, ServeCachedGets(k) PROVE DShape' /\ IndexInv'
  <2>1. UNCHANGED <<ioVars, writeVars, diskVars, cacheVars, budget, indexVars, reads, issued>>
        /\ gets' = gets + 1 /\ gets < MaxReads
    BY <1>4 DEF ServeCachedGets
  <2>2. ReadTypes'
    BY <2>1, Numbers, ShapeIs DEF ReadTypes
  <2>3. IOTypes' /\ WriteTypes' /\ CacheTypes' /\ marks' = marks /\ MarksAfter'
    BY <2>1, ShapeIs, SameTypes DEF writeVars, MarksAfter
  <2> QED BY <2>1, <2>2, <2>3, StillReads
<1>5. ASSUME NEW r \in Readers, (\E k \in Key : HandleGet(r, k)) \/ ReadStep(r)
      PROVE  DShape' /\ IndexInv'
  BY <1>5, ReaderShape
<1>6. ASSUME NEW b \in Budgets, SetBudget(b) PROVE DShape' /\ IndexInv'
  BY <1>6, WriterShape
<1>7. CASE UNCHANGED vars
  <2>1. UNCHANGED <<ioVars, writeVars, diskVars, cacheVars, budget, indexVars, reads, issued, gets>>
    BY <1>7 DEF vars
  <2>2. IOTypes' /\ WriteTypes' /\ CacheTypes' /\ ReadTypes' /\ marks' = marks /\ MarksAfter'
    BY <2>1, ShapeIs, SameTypes DEF writeVars, MarksAfter
  <2> QED BY <2>1, <2>2, StillReads
<1> QED BY <1>1, <1>2, <1>3, <1>4, <1>5, <1>6, <1>7 DEF Next, Quiet

\* Types, names and the currency of the index, at all times.
THEOREM IndexInvariant == Spec => [](DShape /\ IndexInv)
BY InitShape, NextShape, PTL DEF Spec

-----------------------------------------------------------------------------
(* The places a write can be in *)

AtHand(t)     == <<"hand", t>>
AtStage(t, i) == <<"staged", t, i>>
AtQueue(i)    == <<"queue", i>>
AtBatch(i)    == <<"batch", i>>
AtMark(i)     == <<"mark", i>>
Kind(x)  == x[1]
Where(x) == x[2]
Slot(x)  == x[3]

\* A place says of what kind it is and where.
LEMMA Places ==
    /\ \A t : Kind(AtHand(t)) = "hand" /\ Where(AtHand(t)) = t
    /\ \A t, i : Kind(AtStage(t, i)) = "staged" /\ Where(AtStage(t, i)) = t
                 /\ Slot(AtStage(t, i)) = i
    /\ \A i : Kind(AtQueue(i)) = "queue" /\ Where(AtQueue(i)) = i
    /\ \A i : Kind(AtBatch(i)) = "batch" /\ Where(AtBatch(i)) = i
    /\ \A i : Kind(AtMark(i)) = "mark" /\ Where(AtMark(i)) = i
<1>1. \A t : Kind(AtHand(t)) = "hand" /\ Where(AtHand(t)) = t
  BY DEF Kind, Where, AtHand
<1>2. \A t, i : Kind(AtStage(t, i)) = "staged" /\ Where(AtStage(t, i)) = t
                /\ Slot(AtStage(t, i)) = i
  BY DEF Kind, Where, Slot, AtStage
<1>3. \A i : Kind(AtQueue(i)) = "queue" /\ Where(AtQueue(i)) = i
  BY DEF Kind, Where, AtQueue
<1>4. \A i : Kind(AtBatch(i)) = "batch" /\ Where(AtBatch(i)) = i
  BY DEF Kind, Where, AtBatch
<1>5. \A i : Kind(AtMark(i)) = "mark" /\ Where(AtMark(i)) = i
  BY DEF Kind, Where, AtMark
<1> QED BY <1>1, <1>2, <1>3, <1>4, <1>5

\* A write to k is in place x and not yet marked.
InHandOf(x, k)  == \E t \in IOThreads : x = AtHand(t) /\ inHand[t] # Absent /\ inHand[t].key = k
InStageOf(x, k) == \E t \in IOThreads : \E i \in WritesTo(k, staged[t]) : x = AtStage(t, i)
InQueueOf(x, k) == \E i \in WritesTo(k, queue) : x = AtQueue(i)
InBatchOf(x, k) == wpc = "write" /\ \E i \in WritesTo(k, batch) : x = AtBatch(i)
InMarkOf(x, k)  == \E i \in WritesTo(k, marks) : x = AtMark(i)

\* Those are the places Unmarked collects.
Collected ==
    \A k, x : x \in Unmarked(k) <=>
        InHandOf(x, k) \/ InStageOf(x, k) \/ InQueueOf(x, k) \/ InBatchOf(x, k) \/ InMarkOf(x, k)

\* Membership in Unmarked, place by place.
LEMMA UnmarkedIs == Collected
<1> SUFFICES ASSUME NEW k, NEW x
             PROVE  x \in Unmarked(k) <=>
                      InHandOf(x, k) \/ InStageOf(x, k) \/ InQueueOf(x, k) \/ InBatchOf(x, k)
                      \/ InMarkOf(x, k)
  BY DEF Collected
<1>1. x \in HandPlaces(k) <=> InHandOf(x, k)
  BY DEF HandPlaces, InHandOf, AtHand
<1>2. x \in StagePlaces(k) <=> InStageOf(x, k)
  BY DEF StagePlaces, InStageOf, AtStage
<1>3. x \in QueuePlaces(k) <=> InQueueOf(x, k)
  BY DEF QueuePlaces, InQueueOf, AtQueue
<1>4. x \in BatchPlaces(k) <=> InBatchOf(x, k)
  BY DEF BatchPlaces, InBatchOf, AtBatch
<1>5. x \in MarkPlaces(k) <=> InMarkOf(x, k)
  BY DEF MarkPlaces, InMarkOf, AtMark
<1> QED BY <1>1, <1>2, <1>3, <1>4, <1>5 DEF Unmarked

\* And after a step.
LEMMA UnmarkedThen == Collected'
BY UnmarkedIs, PTL

\* The seqno index never falls behind: once a key's writes have been marked its
\* entry names the document magma holds (noteSeqno, SeqnoHint), whatever slow
\* fills arrive late and whatever is evicted from the index in between.
THEOREM HintIsCurrent == Spec => []HintCurrent
<1>1. DShape /\ IndexInv => HintCurrent
  <2> SUFFICES ASSUME DShape, IndexInv, NEW k \in Key, Settled(k), index[k] # Absent
               PROVE  index[k].seqno = LastSeqno(k)
    BY DEF HintCurrent
  <2>1. ~Coming(k)
    <3> SUFFICES ASSUME NEW i \in DOMAIN marks, marks[i].key = k PROVE FALSE
      BY DEF Coming
    <3>1. InMarkOf(AtMark(i), k)
      BY DEF WritesTo, InMarkOf
    <3> QED BY <3>1, UnmarkedIs DEF Settled, Collected
  <2> QED BY <2>1 DEF IndexInv
<1> QED BY <1>1, IndexInvariant, PTL

-----------------------------------------------------------------------------
(* How many writes are not marked *)

\* The writes to k in a sequence that grows at its end.
LEMMA WritesGrow ==
    ASSUME NEW k, NEW s \in Seq(Write), NEW w \in Write
    PROVE  \A i : i \in WritesTo(k, Append(s, w)) <=>
                    i \in WritesTo(k, s) \/ (i = Len(s) + 1 /\ w.key = k)
<1>1. PICK n \in Nat : n = Len(s) /\ DOMAIN s = 1..n
  BY LenProperties
<1>2. PICK a : a = Append(s, w)
  OBVIOUS
<1>3. DOMAIN a = 1..(n+1) /\ a[n+1] = w /\ \A i \in 1..n : a[i] = s[i]
  BY <1>1, <1>2, AppendProperties
<1> QED BY <1>1, <1>2, <1>3 DEF WritesTo

\* By another sequence.
LEMMA WritesJoin ==
    ASSUME NEW k, NEW q \in Seq(Write), NEW s \in Seq(Write)
    PROVE  /\ Len(q) \in Nat
           /\ \A i : i \in WritesTo(k, q \o s) <=>
                \/ i \in WritesTo(k, q)
                \/ \E j \in WritesTo(k, s) : i = Len(q) + j
           /\ \A i \in WritesTo(k, q) : i \in Nat /\ i <= Len(q)
           /\ \A j \in WritesTo(k, s) : j \in Nat /\ j > 0
<1>1. PICK n \in Nat : n = Len(q) /\ DOMAIN q = 1..n
  BY LenProperties
<1>2. PICK m \in Nat : m = Len(s) /\ DOMAIN s = 1..m
  BY LenProperties
<1>3. PICK a : a = q \o s
  OBVIOUS
<1>4. DOMAIN a = 1..(n+m) /\ \A i \in 1..(n+m) : a[i] = IF i <= n THEN q[i] ELSE s[i - n]
  <2>1. a \in Seq(Write) /\ Len(a) = n + m
        /\ \A i \in 1..(Len(q) + Len(s)) : a[i] = IF i <= Len(q) THEN q[i] ELSE s[i - Len(q)]
    BY <1>1, <1>2, <1>3, ConcatProperties
  <2>2. DOMAIN a = 1..Len(a)
    BY <2>1, LenProperties
  <2> QED BY <1>1, <1>2, <2>1, <2>2
<1>5. ASSUME NEW i, i \in WritesTo(k, a)
      PROVE  i \in WritesTo(k, q) \/ \E j \in WritesTo(k, s) : i = n + j
  <2>1. i \in 1..(n+m) /\ a[i].key = k
    BY <1>4, <1>5 DEF WritesTo
  <2>2. CASE i <= n
    BY <1>1, <1>4, <2>1, <2>2 DEF WritesTo
  <2>3. CASE i > n
    <3>1. i - n \in 1..m /\ i = n + (i - n) /\ s[i - n].key = k
      BY <1>4, <2>1, <2>3
    <3>2. i - n \in WritesTo(k, s)
      BY <1>2, <3>1 DEF WritesTo
    <3> QED BY <3>1, <3>2
  <2> QED BY <2>1, <2>2, <2>3
<1>6. ASSUME NEW i \in WritesTo(k, q) PROVE i \in WritesTo(k, a)
  BY <1>1, <1>4 DEF WritesTo
<1>7. ASSUME NEW j \in WritesTo(k, s) PROVE n + j \in WritesTo(k, a)
  <2>1. j \in 1..m /\ s[j].key = k
    BY <1>2 DEF WritesTo
  <2>2. n + j \in 1..(n+m) /\ ~(n + j <= n) /\ (n + j) - n = j
    BY <2>1
  <2>3. a[n + j] = s[j]
    BY <1>4, <2>2
  <2> QED BY <1>4, <2>1, <2>2, <2>3 DEF WritesTo
<1>8. /\ \A i \in WritesTo(k, q) : i \in Nat /\ i <= n
      /\ \A j \in WritesTo(k, s) : j \in Nat /\ j > 0
  BY <1>1, <1>2 DEF WritesTo
<1> QED BY <1>1, <1>3, <1>5, <1>6, <1>7, <1>8

\* T is S with its elements h[j] moved, each to a place g[j] of its own.
Relocates(R, J, g, h, S, T) ==
    /\ S = R \cup {h[j] : j \in J} /\ T = R \cup {g[j] : j \in J}
    /\ \A i, j \in J : g[i] = g[j] => i = j
    /\ \A i, j \in J : h[i] = h[j] => i = j
    /\ \A j \in J : g[j] \notin R /\ h[j] \notin R

\* That leaves as many.
LEMMA Moved ==
    ASSUME NEW R, NEW J, NEW g, NEW h, NEW S, NEW T, Relocates(R, J, g, h, S, T), IsFiniteSet(S)
    PROVE  IsFiniteSet(T) /\ Cardinality(T) = Cardinality(S)
<1>0. /\ \A i, j \in J : g[i] = g[j] => i = j
      /\ \A i, j \in J : h[i] = h[j] => i = j
      /\ \A j \in J : g[j] \notin R /\ h[j] \notin R
  BY DEF Relocates
<1>1. S = R \cup {h[j] : j \in J}
  BY DEF Relocates
<1>2. T = R \cup {g[j] : j \in J}
  BY DEF Relocates
<1>3. PICK f : f = [y \in T |-> IF y \in R THEN y ELSE h[CHOOSE j \in J : g[j] = y]]
  OBVIOUS
<1>4. \A y \in R : y \in T /\ y \in S /\ f[y] = y
  BY <1>1, <1>2, <1>3
<1>5. ASSUME NEW j \in J PROVE g[j] \in T /\ h[j] \in S /\ f[g[j]] = h[j]
  <2>1. g[j] \in T /\ h[j] \in S /\ g[j] \notin R
    BY <1>0, <1>1, <1>2
  <2>2. (CHOOSE i \in J : g[i] = g[j]) = j
    BY <1>0
  <2> QED BY <1>3, <2>1, <2>2
<1>6. \A y \in T : y \in R \/ \E j \in J : y = g[j]
  BY <1>2
<1>7. f \in [T -> S]
  <2>1. \A y \in T : f[y] \in S
    BY <1>4, <1>5, <1>6
  <2>2. f = [y \in T |-> f[y]]
    BY <1>3
  <2> QED BY <2>1, <2>2
<1>8. ASSUME NEW x \in T, NEW y \in T, f[x] = f[y] PROVE x = y
  <2>1. CASE x \in R /\ y \in R
    BY <1>4, <1>8, <2>1
  <2>2. ASSUME NEW i \in J, x = g[i], y \in R PROVE FALSE
    BY <1>0, <1>4, <1>5, <1>8, <2>2
  <2>3. ASSUME NEW i \in J, y = g[i], x \in R PROVE FALSE
    BY <1>0, <1>4, <1>5, <1>8, <2>3
  <2>4. ASSUME NEW i \in J, NEW j \in J, x = g[i], y = g[j] PROVE x = y
    BY <1>0, <1>5, <1>8, <2>4
  <2> QED BY <1>6, <2>1, <2>2, <2>3, <2>4
<1>9. \A x \in S : \E y \in T : f[y] = x
  BY <1>1, <1>4, <1>5
<1> QED BY <1>7, <1>8, <1>9, Relabel

\* A step that moves no write.
LEMMA SamePlaces ==
    ASSUME UNCHANGED <<inHand, staged, queue, marks>>,
           wpc' = "write" <=> wpc = "write", wpc = "write" => batch' = batch
    PROVE  \A k : Unmarked(k)' = Unmarked(k)
<1> SUFFICES ASSUME NEW k, NEW x PROVE x \in Unmarked(k)' <=> x \in Unmarked(k)
  OBVIOUS
<1>1. InHandOf(x, k)' <=> InHandOf(x, k)
  BY DEF InHandOf
<1>2. InStageOf(x, k)' <=> InStageOf(x, k)
  BY DEF InStageOf
<1>3. InQueueOf(x, k)' <=> InQueueOf(x, k)
  BY DEF InQueueOf
<1>4. InBatchOf(x, k)' <=> InBatchOf(x, k)
  BY DEF InBatchOf
<1>5. InMarkOf(x, k)' <=> InMarkOf(x, k)
  BY DEF InMarkOf
<1> QED BY <1>1, <1>2, <1>3, <1>4, <1>5, UnmarkedIs, UnmarkedThen DEF Collected

\* The number of writes to k that are not marked stays.
SameCount(k) == IsFiniteSet(Unmarked(k))' /\ Count(k)' = Count(k)

\* A staged write is no longer in hand.
LEMMA StageCount ==
    ASSUME DShape, NEW t \in IOThreads, StageWrite(t), NEW k \in Key, IsFiniteSet(Unmarked(k))
    PROVE  SameCount(k)
<1>1. inHand \in [IOThreads -> Write \cup {Absent}] /\ staged \in [IOThreads -> Seq(Write)]
  BY ShapeIs DEF IOTypes
<1>2. PICK w \in Write : w = inHand[t]
  BY <1>1 DEF StageWrite
<1>3. PICK s \in Seq(Write) : s = staged[t]
  BY <1>1
<1>4. PICK S : S = Unmarked(k)
  OBVIOUS
<1>5. PICK T : T = Unmarked(k)'
  OBVIOUS
<1>6. /\ staged' = [staged EXCEPT ![t] = Append(s, w)]
      /\ inHand' = [inHand EXCEPT ![t] = Absent] /\ inHand[t] # Absent
      /\ UNCHANGED <<queue, batch, wpc, marks>>
  BY <1>2, <1>3 DEF StageWrite, writeVars
<1>7. /\ staged'[t] = Append(s, w) /\ inHand'[t] = Absent
      /\ \A u \in IOThreads \ {t} : staged'[u] = staged[u] /\ inHand'[u] = inHand[u]
  BY <1>1, <1>6
<1>8. \A x : /\ InQueueOf(x, k)' <=> InQueueOf(x, k)
             /\ InBatchOf(x, k)' <=> InBatchOf(x, k)
             /\ InMarkOf(x, k)' <=> InMarkOf(x, k)
  BY <1>6 DEF InQueueOf, InBatchOf, InMarkOf
<1> DEFINE a == AtHand(t)
           b == AtStage(t, Len(s) + 1)
<1>9. ASSUME NEW x
      PROVE  /\ InHandOf(x, k)' <=> InHandOf(x, k) /\ x # a
             /\ w.key = k => InHandOf(a, k)
             /\ w.key # k => ~InHandOf(a, k)
  BY <1>2, <1>6, <1>7, Places DEF InHandOf
<1>10. \A i : i \in WritesTo(k, Append(s, w)) <=>
                i \in WritesTo(k, s) \/ (i = Len(s) + 1 /\ w.key = k)
  BY WritesGrow
<1>11. Len(s) + 1 \notin WritesTo(k, s)
  BY LenProperties DEF WritesTo
<1>12. ASSUME NEW x
       PROVE  /\ InStageOf(x, k)' <=> InStageOf(x, k) \/ (x = b /\ w.key = k)
              /\ ~InStageOf(b, k)
  <2>1. InStageOf(x, k)' <=> \E u \in IOThreads : \E i \in WritesTo(k, staged'[u]) : x = AtStage(u, i)
    BY DEF InStageOf
  <2>2. (\E i \in WritesTo(k, staged'[t]) : x = AtStage(t, i))
          <=> (\E i \in WritesTo(k, staged[t]) : x = AtStage(t, i)) \/ (x = b /\ w.key = k)
    BY <1>3, <1>7, <1>10
  <2>3. \A u \in IOThreads \ {t} : WritesTo(k, staged'[u]) = WritesTo(k, staged[u])
    BY <1>7
  <2>4. InStageOf(x, k)' <=> InStageOf(x, k) \/ (x = b /\ w.key = k)
    BY <2>1, <2>2, <2>3 DEF InStageOf
  <2>5. ~InStageOf(b, k)
    BY <1>3, <1>11, Places DEF InStageOf
  <2> QED BY <2>4, <2>5
<1>13. \A x : /\ ~InStageOf(a, k) /\ ~InQueueOf(a, k) /\ ~InBatchOf(a, k) /\ ~InMarkOf(a, k)
              /\ ~InHandOf(b, k) /\ ~InQueueOf(b, k) /\ ~InBatchOf(b, k) /\ ~InMarkOf(b, k)
  BY Places DEF InHandOf, InStageOf, InQueueOf, InBatchOf, InMarkOf
<1>14. CASE w.key # k
  <2>1. S = T
    BY <1>4, <1>5, <1>8, <1>9, <1>12, <1>13, <1>14, UnmarkedIs, UnmarkedThen DEF Collected
  <2> QED BY <1>4, <1>5, <2>1 DEF SameCount, Count
<1>15. CASE w.key = k
  <2> HIDE DEF a, b
  <2>1. a \in S /\ b \notin S /\ b # a /\ \A x : x \in T <=> (x \in S /\ x # a) \/ x = b
    BY <1>4, <1>5, <1>8, <1>9, <1>12, <1>13, <1>15, UnmarkedIs, UnmarkedThen DEF Collected
  <2>2. T = (S \ {a}) \cup {b}
    BY <2>1
  <2>3. IsFiniteSet(S)
    BY <1>4
  <2>4. IsFiniteSet(S \ {a}) /\ Cardinality(S \ {a}) = Cardinality(S) - 1 /\ Cardinality(S) \in Nat
    BY <2>1, <2>3, FS_RemoveElement, FS_CardinalityType
  <2>5. b \notin S \ {a}
    BY <2>1
  <2>6. IsFiniteSet(T) /\ Cardinality(T) = Cardinality(S \ {a}) + 1
    BY <2>2, <2>4, <2>5, FS_AddElement
  <2>7. Cardinality(T) = Cardinality(S)
    BY <2>4, <2>6
  <2> QED BY <1>4, <1>5, <2>6, <2>7 DEF SameCount, Count
<1> QED BY <1>14, <1>15

\* A flushed chain is behind what was queued.
LEMMA FlushCount ==
    ASSUME DShape, NEW t \in IOThreads, FlushStaged(t), NEW k \in Key, IsFiniteSet(Unmarked(k))
    PROVE  SameCount(k)
<1>1. staged \in [IOThreads -> Seq(Write)] /\ queue \in Seq(Write)
  BY ShapeIs DEF IOTypes, WriteTypes
<1>2. PICK s \in Seq(Write) : s = staged[t]
  BY <1>1
<1>3. PICK n \in Nat : n = Len(queue)
  BY <1>1, LenProperties
<1>4. PICK J : J = WritesTo(k, s)
  OBVIOUS
<1>5. /\ queue' = queue \o s /\ staged' = [staged EXCEPT ![t] = <<>>]
      /\ UNCHANGED <<inHand, batch, wpc, marks>>
  BY <1>2 DEF FlushStaged, Flushed
<1>6. /\ \A i : i \in WritesTo(k, queue') <=>
           i \in WritesTo(k, queue) \/ \E j \in J : i = n + j
      /\ \A i \in WritesTo(k, queue) : i \in Nat /\ i <= n
      /\ \A j \in J : j \in Nat /\ j > 0
  <2>1. PICK q \in Seq(Write) : q = queue
    BY <1>1
  <2>2. /\ \A i : i \in WritesTo(k, q \o s) <=>
             i \in WritesTo(k, q) \/ \E j \in WritesTo(k, s) : i = Len(q) + j
        /\ \A i \in WritesTo(k, q) : i \in Nat /\ i <= Len(q)
        /\ \A j \in WritesTo(k, s) : j \in Nat /\ j > 0
    BY WritesJoin
  <2>3. queue' = q \o s /\ n = Len(q)
    BY <1>3, <1>5, <2>1
  <2>4. PICK p : p = q \o s
    OBVIOUS
  <2> QED BY <1>4, <2>1, <2>2, <2>3, <2>4
<1>7. WritesTo(k, <<>>) = {}
  BY DEF WritesTo
<1>8. /\ WritesTo(k, staged'[t]) = {}
      /\ \A u \in IOThreads \ {t} : staged'[u] = staged[u]
  BY <1>1, <1>5, <1>7
<1>9. PICK g : g = [j \in J |-> AtQueue(n + j)]
  OBVIOUS
<1>10. PICK h : h = [j \in J |-> AtStage(t, j)]
  OBVIOUS
<1>11. PICK R : R = {x \in Unmarked(k) : \A j \in J : x # AtStage(t, j)}
  OBVIOUS
<1>12. ASSUME NEW x
       PROVE  InStageOf(x, k) <=> InStageOf(x, k)' \/ \E j \in J : x = AtStage(t, j)
  BY <1>2, <1>4, <1>8 DEF InStageOf
<1>13. ASSUME NEW x, InStageOf(x, k)' PROVE \A j \in J : x # AtStage(t, j)
  BY <1>8, <1>13, Places DEF InStageOf
<1>14. ASSUME NEW x
       PROVE  InQueueOf(x, k)' <=> InQueueOf(x, k) \/ \E j \in J : x = AtQueue(n + j)
  BY <1>6 DEF InQueueOf
<1>15. ASSUME NEW x
       PROVE  /\ InHandOf(x, k)' <=> InHandOf(x, k)
              /\ InBatchOf(x, k)' <=> InBatchOf(x, k)
              /\ InMarkOf(x, k)' <=> InMarkOf(x, k)
  BY <1>5 DEF InHandOf, InBatchOf, InMarkOf
<1>16. ASSUME NEW j \in J
       PROVE  LET x == AtStage(t, j) IN
              ~InHandOf(x, k) /\ ~InQueueOf(x, k) /\ ~InBatchOf(x, k) /\ ~InMarkOf(x, k)
  BY Places DEF InHandOf, InQueueOf, InBatchOf, InMarkOf
<1>17. ASSUME NEW j \in J
       PROVE  LET x == AtQueue(n + j) IN
              ~InHandOf(x, k) /\ ~InStageOf(x, k) /\ ~InQueueOf(x, k) /\ ~InBatchOf(x, k) /\ ~InMarkOf(x, k)
  <2>1. n + j \notin WritesTo(k, queue)
    BY <1>6
  <2> QED BY <2>1, Places DEF InHandOf, InStageOf, InQueueOf, InBatchOf, InMarkOf
<1>18. Unmarked(k) = R \cup {h[j] : j \in J}
  <2>1. \A j \in J : AtStage(t, j) \in Unmarked(k)
    BY <1>12, UnmarkedIs DEF Collected
  <2> QED BY <1>10, <1>11, <2>1
<1>19. Unmarked(k)' = R \cup {g[j] : j \in J}
  <2>1. ASSUME NEW x PROVE x \in R <=> \/ InHandOf(x, k) \/ InStageOf(x, k)' \/ InQueueOf(x, k)
                                       \/ InBatchOf(x, k) \/ InMarkOf(x, k)
    BY <1>11, <1>12, <1>13, <1>16, UnmarkedIs DEF Collected
  <2>2. ASSUME NEW x PROVE x \in Unmarked(k)' <=> x \in R \/ \E j \in J : x = AtQueue(n + j)
    BY <1>14, <1>15, <2>1, UnmarkedThen DEF Collected
  <2> QED BY <1>9, <2>2
<1>20. /\ \A i, j \in J : g[i] = g[j] => i = j
       /\ \A i, j \in J : h[i] = h[j] => i = j
  <2>1. \A i, j \in J : AtQueue(n + i) = AtQueue(n + j) => n + i = n + j
    BY Places
  <2>2. \A i, j \in J : n + i = n + j => i = j
    BY <1>6
  <2>3. \A i, j \in J : AtStage(t, i) = AtStage(t, j) => i = j
    BY Places
  <2> QED BY <1>9, <1>10, <2>1, <2>2, <2>3
<1>21. \A j \in J : g[j] \notin R /\ h[j] \notin R
  BY <1>9, <1>10, <1>11, <1>17, UnmarkedIs DEF Collected
<1>22. PICK S, T : S = Unmarked(k) /\ T = Unmarked(k)'
  OBVIOUS
<1>23. S = R \cup {h[j] : j \in J} /\ T = R \cup {g[j] : j \in J} /\ IsFiniteSet(S)
  BY <1>18, <1>19, <1>22
<1>24. Relocates(R, J, g, h, S, T)
  BY <1>20, <1>21, <1>23 DEF Relocates
<1>25. IsFiniteSet(T) /\ Cardinality(T) = Cardinality(S)
  BY <1>23, <1>24, Moved
<1> QED BY <1>22, <1>25 DEF SameCount, Count

\* A sweep takes the queue over.
LEMMA SweepCount ==
    ASSUME DShape, Sweep, NEW k \in Key, IsFiniteSet(Unmarked(k))
    PROVE  SameCount(k)
<1>1. PICK J : J = WritesTo(k, queue)
  OBVIOUS
<1>2. /\ wpc = "idle" /\ wpc' = "write" /\ batch' = queue /\ queue' = <<>>
      /\ UNCHANGED <<inHand, staged, marks>>
  BY DEF Sweep, ioVars
<1>3. WritesTo(k, queue') = {}
  BY <1>2 DEF WritesTo
<1>4. PICK g : g = [j \in J |-> AtBatch(j)]
  OBVIOUS
<1>5. PICK h : h = [j \in J |-> AtQueue(j)]
  OBVIOUS
<1>6. PICK R : R = {x \in Unmarked(k) : \A j \in J : x # AtQueue(j)}
  OBVIOUS
<1>7. ASSUME NEW x
      PROVE  /\ InHandOf(x, k)' <=> InHandOf(x, k)
             /\ InStageOf(x, k)' <=> InStageOf(x, k)
             /\ ~InQueueOf(x, k)' /\ (InQueueOf(x, k) <=> \E j \in J : x = AtQueue(j))
             /\ ~InBatchOf(x, k) /\ (InBatchOf(x, k)' <=> \E j \in J : x = AtBatch(j))
             /\ InMarkOf(x, k)' <=> InMarkOf(x, k)
  BY <1>1, <1>2, <1>3 DEF InHandOf, InStageOf, InQueueOf, InBatchOf, InMarkOf
<1>8. ASSUME NEW j \in J
      PROVE  LET x == AtQueue(j)
                 y == AtBatch(j)
             IN  /\ ~InHandOf(x, k) /\ ~InStageOf(x, k) /\ ~InMarkOf(x, k)
                 /\ ~InHandOf(y, k) /\ ~InStageOf(y, k) /\ ~InQueueOf(y, k) /\ ~InMarkOf(y, k)
  BY Places DEF InHandOf, InStageOf, InQueueOf, InMarkOf
<1>9. ASSUME NEW x PROVE x \in R <=> InHandOf(x, k) \/ InStageOf(x, k) \/ InMarkOf(x, k)
  BY <1>6, <1>7, <1>8, UnmarkedIs DEF Collected
<1>10. Unmarked(k) = R \cup {h[j] : j \in J}
  <2>1. \A j \in J : AtQueue(j) \in Unmarked(k)
    BY <1>7, UnmarkedIs DEF Collected
  <2> QED BY <1>5, <1>6, <2>1
<1>11. Unmarked(k)' = R \cup {g[j] : j \in J}
  <2>1. ASSUME NEW x PROVE x \in Unmarked(k)' <=> x \in R \/ \E j \in J : x = AtBatch(j)
    BY <1>7, <1>9, UnmarkedThen DEF Collected
  <2> QED BY <1>4, <2>1
<1>12. /\ \A i, j \in J : g[i] = g[j] => i = j
       /\ \A i, j \in J : h[i] = h[j] => i = j
  BY <1>4, <1>5, Places
<1>13. \A j \in J : g[j] \notin R /\ h[j] \notin R
  BY <1>4, <1>5, <1>6, <1>8, <1>9
<1>14. PICK S, T : S = Unmarked(k) /\ T = Unmarked(k)'
  OBVIOUS
<1>15. S = R \cup {h[j] : j \in J} /\ T = R \cup {g[j] : j \in J} /\ IsFiniteSet(S)
  BY <1>10, <1>11, <1>14
<1>16. Relocates(R, J, g, h, S, T)
  BY <1>12, <1>13, <1>15 DEF Relocates
<1>17. IsFiniteSet(T) /\ Cardinality(T) = Cardinality(S)
  BY <1>15, <1>16, Moved
<1> QED BY <1>14, <1>17 DEF SameCount, Count

\* A written batch leaves a mark for each write to the key that it kept.
LEMMA WriteCount ==
    ASSUME DShape, NEW ok \in BOOLEAN, NEW ops, Written(ops, ok),
           UNCHANGED <<inHand, staged, queue, batch>>, NEW k \in Key, IsFiniteSet(Unmarked(k))
    PROVE  /\ IsFiniteSet(Unmarked(k))'
           /\ Count(k)' + Cardinality(WritesTo(k, batch)) = Count(k) + Cardinality(WritesTo(k, ops))
<1>1. /\ wpc = "write" /\ wpc' = "mark" /\ DOMAIN marks' = DOMAIN ops
      /\ \A i \in DOMAIN ops : marks'[i].key = ops[i].key
  BY DEF Written
<1>2. marks = <<>>
  BY <1>1, ShapeIs DEF MarksAfter
<1>3. PICK B, J : B = WritesTo(k, batch) /\ J = WritesTo(k, ops)
  OBVIOUS
<1>4. WritesTo(k, marks') = J /\ WritesTo(k, marks) = {}
  BY <1>1, <1>2, <1>3 DEF WritesTo
<1>5. IsFiniteSet(B) /\ IsFiniteSet(J) /\ Cardinality(B) \in Nat /\ Cardinality(J) \in Nat
  <2>1. batch \in Seq(Write) /\ Keeps(ops, batch)
    BY ShapeIs DEF WriteTypes, Written
  <2> QED BY <1>3, <2>1, WritesFewer
<1>6. PICK R : R = {x \in Unmarked(k) : ~InBatchOf(x, k)}
  OBVIOUS
<1>7. ASSUME NEW x
      PROVE  /\ InHandOf(x, k)' <=> InHandOf(x, k)
             /\ InStageOf(x, k)' <=> InStageOf(x, k)
             /\ InQueueOf(x, k)' <=> InQueueOf(x, k)
             /\ ~InBatchOf(x, k)' /\ ~InMarkOf(x, k)
             /\ InBatchOf(x, k) <=> \E i \in B : x = AtBatch(i)
             /\ InMarkOf(x, k)' <=> \E j \in J : x = AtMark(j)
  BY <1>1, <1>3, <1>4 DEF InHandOf, InStageOf, InQueueOf, InBatchOf, InMarkOf
<1>8. ASSUME NEW x, InBatchOf(x, k) PROVE ~InHandOf(x, k) /\ ~InStageOf(x, k) /\ ~InQueueOf(x, k)
  BY <1>8, Places DEF InHandOf, InStageOf, InQueueOf, InBatchOf
<1>9. ASSUME NEW x PROVE x \in R <=> InHandOf(x, k) \/ InStageOf(x, k) \/ InQueueOf(x, k)
  BY <1>6, <1>7, <1>8, UnmarkedIs DEF Collected
<1>10. PICK V, W : V = {AtBatch(i) : i \in B} /\ W = {AtMark(j) : j \in J}
  OBVIOUS
<1>11. PICK S, T : S = Unmarked(k) /\ T = Unmarked(k)'
  OBVIOUS
<1>12. S = R \cup V /\ R \cap V = {}
  <2>1. \A x : x \in S <=> x \in R \/ x \in V
    BY <1>7, <1>9, <1>10, <1>11, UnmarkedIs DEF Collected
  <2>2. \A x \in V : x \notin R
    BY <1>6, <1>7, <1>10
  <2> QED BY <2>1, <2>2
<1>13. T = R \cup W /\ R \cap W = {}
  <2>1. \A x : x \in T <=> x \in R \/ x \in W
    BY <1>7, <1>9, <1>10, <1>11, UnmarkedThen DEF Collected
  <2>2. \A j \in J : AtMark(j) \notin R
    BY <1>9, Places DEF InHandOf, InStageOf, InQueueOf
  <2> QED BY <1>10, <2>1, <2>2
<1>14. IsFiniteSet(V) /\ Cardinality(V) = Cardinality(B)
  <2>1. PICK f : f = [i \in B |-> AtBatch(i)]
    OBVIOUS
  <2>2. f \in [B -> V] /\ (\A i, j \in B : f[i] = f[j] => i = j) /\ \A x \in V : \E i \in B : f[i] = x
    BY <1>10, <2>1, Places
  <2> QED BY <1>5, <2>2, Renamed
<1>15. IsFiniteSet(W) /\ Cardinality(W) = Cardinality(J)
  <2>1. PICK f : f = [i \in J |-> AtMark(i)]
    OBVIOUS
  <2>2. f \in [J -> W] /\ (\A i, j \in J : f[i] = f[j] => i = j) /\ \A x \in W : \E i \in J : f[i] = x
    BY <1>10, <2>1, Places
  <2> QED BY <1>5, <2>2, Renamed
<1>16. IsFiniteSet(R) /\ Cardinality(R) \in Nat
  BY <1>11, <1>12, FS_Subset, FS_CardinalityType
<1>17. Cardinality(S) = Cardinality(R) + Cardinality(V)
  <2>1. Cardinality(R \cup V) = Cardinality(R) + Cardinality(V) - Cardinality(R \cap V)
    BY <1>14, <1>16, FS_Union
  <2>2. Cardinality(R \cap V) = 0
    BY <1>12, FS_EmptySet
  <2> QED BY <1>5, <1>12, <1>14, <1>16, <2>1, <2>2
<1>18. IsFiniteSet(T) /\ Cardinality(T) = Cardinality(R) + Cardinality(W)
  <2>1. IsFiniteSet(R \cup W)
        /\ Cardinality(R \cup W) = Cardinality(R) + Cardinality(W) - Cardinality(R \cap W)
    BY <1>15, <1>16, FS_Union
  <2>2. Cardinality(R \cap W) = 0
    BY <1>13, FS_EmptySet
  <2> QED BY <1>5, <1>13, <1>15, <1>16, <2>1, <2>2
<1> QED BY <1>3, <1>5, <1>11, <1>14, <1>15, <1>16, <1>17, <1>18 DEF Count

\* MarkPersisted drops the first mark.
LEMMA MarksDrop ==
    ASSUME DShape, MarkPersisted
    PROVE  /\ Len(marks) \in Nat /\ Len(marks) > 0 /\ DOMAIN marks = 1..Len(marks)
           /\ marks[1] = Head(marks) /\ Head(marks).key \in Key /\ Head(marks).seqno \in Nat
           /\ DOMAIN marks' = 1..(Len(marks) - 1)
           /\ \A i \in 1..(Len(marks) - 1) : marks'[i] = marks[i + 1]
<1>1. marks \in Seq(Mark) /\ marks # <<>> /\ marks' = Tail(marks)
  BY ShapeIs DEF WriteTypes, MarkPersisted
<1>2. Len(marks) \in Nat /\ Len(marks) > 0 /\ DOMAIN marks = 1..Len(marks)
  BY <1>1, LenProperties, EmptySeq
<1>3. Tail(marks) \in Seq(Mark) /\ Len(Tail(marks)) = Len(marks) - 1
      /\ \A i \in 1..Len(Tail(marks)) : Tail(marks)[i] = marks[i + 1]
  BY <1>1, HeadTailProperties
<1>4. DOMAIN Tail(marks) = 1..Len(Tail(marks))
  BY <1>3, LenProperties
<1>5. Head(marks) = marks[1] /\ Head(marks) \in Mark
  BY <1>1, HeadTailProperties
<1>6. Head(marks).key \in Key /\ Head(marks).seqno \in Nat
  BY <1>5 DEF Mark
<1> QED BY <1>1, <1>2, <1>3, <1>4, <1>5, <1>6

\* Marking accounts for one write to the key of the mark.
LEMMA MarkCount ==
    ASSUME DShape, MarkPersisted, NEW k \in Key, IsFiniteSet(Unmarked(k))
    PROVE  /\ IsFiniteSet(Unmarked(k))'
           /\ Head(marks).key # k => Count(k)' = Count(k)
           /\ Head(marks).key = k => Count(k)' = Count(k) - 1 /\ Count(k) \in Nat /\ Count(k) > 0
<1>1. PICK l \in Nat : l = Len(marks) /\ l > 0
  BY MarksDrop
<1>2. /\ DOMAIN marks = 1..l /\ marks[1] = Head(marks) /\ DOMAIN marks' = 1..(l - 1)
      /\ \A i \in 1..(l - 1) : marks'[i] = marks[i + 1]
  BY <1>1, MarksDrop
<1>3. wpc = "mark" /\ wpc' # "write" /\ UNCHANGED <<inHand, staged, queue, batch>>
  BY DEF MarkPersisted, ioVars
<1>4. PICK J : J = WritesTo(k, marks')
  OBVIOUS
<1>5. /\ \A j \in J : j \in Nat /\ j > 0
      /\ \A j \in J : j + 1 \in WritesTo(k, marks)
      /\ \A i \in WritesTo(k, marks) : i \in Nat /\ (i = 1 \/ i - 1 \in J)
      /\ 1 \in WritesTo(k, marks) <=> Head(marks).key = k
  <2>1. \A j \in J : j \in Nat /\ j > 0 /\ j + 1 \in WritesTo(k, marks)
    BY <1>1, <1>2, <1>4 DEF WritesTo
  <2>2. ASSUME NEW i \in WritesTo(k, marks) PROVE i \in Nat /\ (i = 1 \/ i - 1 \in J)
    <3>1. i \in 1..l /\ marks[i].key = k
      BY <1>2 DEF WritesTo
    <3>2. CASE i # 1
      <4>1. i - 1 \in 1..(l - 1) /\ (i - 1) + 1 = i
        BY <1>1, <3>1, <3>2
      <4>2. marks'[i - 1] = marks[i]
        BY <1>2, <4>1
      <4> QED BY <1>2, <1>4, <3>1, <4>1, <4>2 DEF WritesTo
    <3> QED BY <3>1, <3>2
  <2>3. 1 \in WritesTo(k, marks) <=> Head(marks).key = k
    BY <1>1, <1>2 DEF WritesTo
  <2> QED BY <2>1, <2>2, <2>3
<1>6. PICK a : a = AtMark(1)
  OBVIOUS
<1>7. PICK g : g = [j \in J |-> AtMark(j)]
  OBVIOUS
<1>8. PICK h : h = [j \in J |-> AtMark(j + 1)]
  OBVIOUS
<1>9. PICK R : R = {x \in Unmarked(k) : ~InMarkOf(x, k)}
  OBVIOUS
<1>10. ASSUME NEW x
       PROVE  /\ InHandOf(x, k)' <=> InHandOf(x, k)
              /\ InStageOf(x, k)' <=> InStageOf(x, k)
              /\ InQueueOf(x, k)' <=> InQueueOf(x, k)
              /\ ~InBatchOf(x, k)' /\ ~InBatchOf(x, k)
              /\ InMarkOf(x, k) <=> \E i \in WritesTo(k, marks) : x = AtMark(i)
              /\ InMarkOf(x, k)' <=> \E j \in J : x = AtMark(j)
  BY <1>3, <1>4 DEF InHandOf, InStageOf, InQueueOf, InBatchOf, InMarkOf
<1>11. ASSUME NEW i PROVE LET x == AtMark(i) IN ~InHandOf(x, k) /\ ~InStageOf(x, k) /\ ~InQueueOf(x, k)
  BY Places DEF InHandOf, InStageOf, InQueueOf
<1>12. ASSUME NEW x PROVE x \in R <=> InHandOf(x, k) \/ InStageOf(x, k) \/ InQueueOf(x, k)
  BY <1>9, <1>10, <1>11, UnmarkedIs DEF Collected
<1>13. Unmarked(k)' = R \cup {g[j] : j \in J}
  <2>1. ASSUME NEW x PROVE x \in Unmarked(k)' <=> x \in R \/ \E j \in J : x = AtMark(j)
    BY <1>10, <1>12, UnmarkedThen DEF Collected
  <2> QED BY <1>7, <2>1
<1>14. Unmarked(k) \ {a} = R \cup {h[j] : j \in J}
  <2>1. ASSUME NEW j \in J PROVE AtMark(j + 1) \in Unmarked(k) \ {a}
    <3>1. AtMark(j + 1) \in Unmarked(k)
      BY <1>5, <1>10, UnmarkedIs DEF Collected
    <3>2. j + 1 # 1
      BY <1>5
    <3>3. AtMark(j + 1) # AtMark(1)
      BY <3>2, Places
    <3> QED BY <1>6, <3>1, <3>3
  <2>2. ASSUME NEW x \in Unmarked(k), x # a, InMarkOf(x, k) PROVE \E j \in J : x = AtMark(j + 1)
    <3>1. PICK i \in WritesTo(k, marks) : x = AtMark(i)
      BY <1>10, <2>2
    <3>2. i # 1
      BY <1>6, <2>2, <3>1
    <3>3. i - 1 \in J /\ i = (i - 1) + 1
      BY <1>5, <3>2
    <3> QED BY <3>1, <3>3
  <2>3. a \notin R
    BY <1>6, <1>11, <1>12
  <2> QED BY <1>8, <1>9, <2>1, <2>2, <2>3
<1>15. /\ \A i, j \in J : g[i] = g[j] => i = j
       /\ \A i, j \in J : h[i] = h[j] => i = j
  <2>1. \A i, j : AtMark(i) = AtMark(j) => i = j
    BY Places
  <2>2. \A i, j \in J : i + 1 = j + 1 => i = j
    BY <1>5
  <2> QED BY <1>7, <1>8, <2>1, <2>2
<1>16. \A j \in J : g[j] \notin R /\ h[j] \notin R
  BY <1>7, <1>8, <1>11, <1>12
<1>17. PICK U, T : U = Unmarked(k) /\ T = Unmarked(k)'
  OBVIOUS
<1>18. PICK S : S = U \ {a}
  OBVIOUS
<1>19. S = R \cup {h[j] : j \in J} /\ T = R \cup {g[j] : j \in J} /\ IsFiniteSet(U)
  BY <1>13, <1>14, <1>17, <1>18
<1>20. Relocates(R, J, g, h, S, T)
  BY <1>15, <1>16, <1>19 DEF Relocates
<1>21. /\ IsFiniteSet(S) /\ Cardinality(U) \in Nat
       /\ Cardinality(S) = IF a \in U THEN Cardinality(U) - 1 ELSE Cardinality(U)
  BY <1>18, <1>19, FS_RemoveElement, FS_CardinalityType
<1>22. IsFiniteSet(T) /\ Cardinality(T) = Cardinality(S)
  BY <1>20, <1>21, Moved
<1>23. a \in U <=> Head(marks).key = k
  <2>1. InMarkOf(a, k) <=> Head(marks).key = k
    BY <1>5, <1>6, <1>10, Places
  <2> QED BY <1>6, <1>10, <1>11, <1>17, <2>1, UnmarkedIs DEF Collected
<1>24. a \in U => Cardinality(U) > 0
  BY <1>19, <1>21, FS_EmptySet
<1> QED BY <1>17, <1>21, <1>22, <1>23, <1>24 DEF Count

\* A write put in the cache is in hand.
LEMMA PutCount ==
    ASSUME DShape, NEW t \in IOThreads, NEW w \in Write, WriteThrough(t, w),
           NEW k \in Key, IsFiniteSet(Unmarked(k))
    PROVE  /\ IsFiniteSet(Unmarked(k))'
           /\ w.key # k => Count(k)' = Count(k)
           /\ w.key = k => Count(k)' = Count(k) + 1
<1>1. inHand \in [IOThreads -> Write \cup {Absent}]
  BY ShapeIs DEF IOTypes
<1>2. /\ inHand' = [inHand EXCEPT ![t] = w] /\ inHand[t] = Absent
      /\ UNCHANGED <<staged, queue, batch, wpc, marks>>
  BY DEF WriteThrough, writeVars
<1>3. w # Absent
  BY NoneAbsent
<1>4. inHand'[t] = w /\ \A u \in IOThreads \ {t} : inHand'[u] = inHand[u]
  BY <1>1, <1>2
<1>5. PICK a : a = AtHand(t)
  OBVIOUS
<1>6. ASSUME NEW x
      PROVE  /\ InHandOf(x, k)' <=> InHandOf(x, k) \/ (x = a /\ w.key = k)
             /\ ~InHandOf(a, k)
  BY <1>2, <1>3, <1>4, <1>5, Places DEF InHandOf
<1>7. ASSUME NEW x
      PROVE  /\ InStageOf(x, k)' <=> InStageOf(x, k)
             /\ InQueueOf(x, k)' <=> InQueueOf(x, k)
             /\ InBatchOf(x, k)' <=> InBatchOf(x, k)
             /\ InMarkOf(x, k)' <=> InMarkOf(x, k)
             /\ ~InStageOf(a, k) /\ ~InQueueOf(a, k) /\ ~InBatchOf(a, k) /\ ~InMarkOf(a, k)
  BY <1>2, <1>5, Places DEF InStageOf, InQueueOf, InBatchOf, InMarkOf
<1>8. PICK S, T : S = Unmarked(k) /\ T = Unmarked(k)'
  OBVIOUS
<1>9. a \notin S /\ \A x : x \in T <=> x \in S \/ (x = a /\ w.key = k)
  BY <1>6, <1>7, <1>8, UnmarkedIs, UnmarkedThen DEF Collected
<1>10. IsFiniteSet(S)
  BY <1>8
<1>11. IsFiniteSet(S \cup {a}) /\ Cardinality(S \cup {a}) = Cardinality(S) + 1
  BY <1>9, <1>10, FS_AddElement
<1>12. T = IF w.key = k THEN S \cup {a} ELSE S
  BY <1>9
<1> QED BY <1>8, <1>10, <1>11, <1>12 DEF Count

\* A refused write was to its key alone.
LEMMA RefuseCount ==
    ASSUME DShape, NEW t \in IOThreads, Refuse(t), inHand[t] # Absent, NEW k \in Key,
           k # inHand[t].key
    PROVE  Unmarked(k)' = Unmarked(k)
<1>1. inHand \in [IOThreads -> Write \cup {Absent}]
  BY ShapeIs DEF IOTypes
<1>2. /\ inHand' = [inHand EXCEPT ![t] = Absent]
      /\ UNCHANGED <<staged, queue, batch, wpc, marks>>
  BY DEF Refuse, writeVars
<1>3. inHand'[t] = Absent /\ \A u \in IOThreads \ {t} : inHand'[u] = inHand[u]
  BY <1>1, <1>2
<1>4. ASSUME NEW x PROVE InHandOf(x, k)' <=> InHandOf(x, k)
  BY <1>3 DEF InHandOf
<1>5. ASSUME NEW x
      PROVE  /\ InStageOf(x, k)' <=> InStageOf(x, k)
             /\ InQueueOf(x, k)' <=> InQueueOf(x, k)
             /\ InBatchOf(x, k)' <=> InBatchOf(x, k)
             /\ InMarkOf(x, k)' <=> InMarkOf(x, k)
  BY <1>2 DEF InStageOf, InQueueOf, InBatchOf, InMarkOf
<1> QED BY <1>4, <1>5, UnmarkedIs, UnmarkedThen DEF Collected

-----------------------------------------------------------------------------
(* How often an entry is pinned *)

\* The pins of k in c.
PinsIn(c, k) == IF c[k] = Absent THEN 0 ELSE c[k].pending

\* Carry is that of the cache, and the pinned entries are those with pins.
LEMMA PinsAre ==
    /\ \A k : Carry(k) = PinsIn(cache, k)
    /\ \A k : Carry(k)' = PinsIn(cache', k)
    /\ \A c, k : k \in Pinned(c) <=> k \in Key /\ c[k] # Absent /\ c[k].pending # 0
    /\ \A c, k : k \in Pinned(c) <=> k \in Key /\ PinsIn(c, k) # 0
<1>1. \A c, k : k \in Pinned(c) <=> k \in Key /\ c[k] # Absent /\ c[k].pending # 0
  BY DEF Pinned, Resident, Unpinned
<1> QED BY <1>1 DEF Carry, PinsIn

\* Eviction takes no pins.
LEMMA EvictPins ==
    ASSUME NEW c \in [Key -> Entry \cup {Absent}], NEW b \in Nat, NEW d \in Evict(c, b)
    PROVE  Pinned(d) = Pinned(c) /\ \A k \in Key : PinsIn(d, k) = PinsIn(c, k)
BY EvictDrops DEF PinsIn

\* No pins are taken or given.
PinsStay == Pinned(cache') = Pinned(cache) /\ \A k \in Key : Carry(k)' = Carry(k)

\* They are not by an eviction alone, nor where the cache is left alone.
LEMMA EvictStays ==
    ASSUME DShape, cache' = cache \/ \E b \in Nat : cache' \in Evict(cache, b)
    PROVE  PinsStay
<1>1. cache \in [Key -> Entry \cup {Absent}]
  BY ShapeIs DEF CacheTypes
<1>2. CASE cache' = cache
  BY <1>2, PinsAre DEF PinsStay
<1>3. ASSUME NEW b \in Nat, cache' \in Evict(cache, b) PROVE PinsStay
  BY <1>1, <1>3, EvictPins, PinsAre DEF PinsStay
<1> QED BY <1>2, <1>3

\* No write to k appears, and none disappears but what sorting drops.
Accounted(k) ==
    /\ IsFiniteSet(Unmarked(k))'
    /\ Count(k)' + deduped'[k] = Count(k) + deduped[k]

\* Count is a number, before and after.
LEMMA CountType ==
    ASSUME NEW k
    PROVE  /\ IsFiniteSet(Unmarked(k)) => Count(k) \in Nat
           /\ IsFiniteSet(Unmarked(k))' => Count(k)' \in Nat
BY FS_CardinalityType DEF Count

\* Then the pins still cover the writes.
LEMMA StillPinned ==
    ASSUME DShape, PinInv, PinsStay, UNCHANGED <<refused, issued, pendingItems>>,
           \A k \in Key \ refused : IsFiniteSet(Unmarked(k)) => Accounted(k)
    PROVE  PinInv'
<1>1. ASSUME NEW k \in Key \ refused PROVE PinsOf(k)'
  <2>1. PinsOf(k) /\ Accounted(k)
    BY DEF PinInv, PinsOf
  <2>2. Count(k) \in Nat /\ Count(k)' \in Nat
    BY <2>1, CountType DEF PinsOf, Accounted
  <2>3. Carry(k)' = Carry(k)
    BY DEF PinsStay
  <2> QED BY <2>1, <2>2, <2>3 DEF PinsOf, Accounted
<1>2. PendingItemsExact'
  BY DEF PinInv, PendingItemsExact, PinsStay, Pinned
<1> QED BY <1>1, <1>2 DEF PinInv

\* The pinned keys are few.
LEMMA PinnedFinite ==
    ASSUME NEW c
    PROVE  Pinned(c) \subseteq Key /\ IsFiniteSet(Pinned(c)) /\ Cardinality(Pinned(c)) \in Nat
<1>1. Pinned(c) \in SUBSET Key
  BY DEF Pinned, Resident
<1>2. IsFiniteSet(Pinned(c))
  BY <1>1, Sets, FS_Subset
<1> QED BY <1>1, <1>2, FS_CardinalityType

\* Put pins the entry once more and counts it if it was not pinned before.
LEMMA PutPins ==
    ASSUME DShape, PinInv, NoWrap, NEW t \in IOThreads, NEW w \in Write, WriteThrough(t, w)
    PROVE  PinInv'
<1>1. CacheTypes /\ budget \in Nat /\ issued \in Nat /\ issued < MaxWrites
  BY ShapeIs, Numbers DEF ReadTypes, Id, WriteThrough
<1>2. PutDone(w) /\ issued' = issued + 1 /\ UNCHANGED <<refused, deduped>>
      /\ pendingItems' = pendingItems + (IF NewlyPinned(w.key) THEN 1 ELSE 0)
  BY <1>1, PutEffect DEF WriteThrough, Put, diskVars
<1>3. PICK c \in [Key -> Entry \cup {Absent}] :
         /\ cache' \in Evict(c, budget) /\ c[w.key] # Absent /\ c[w.key].pending = Pins(w.key)
         /\ \A k \in Key \ {w.key} : c[k] = cache[k]
  BY <1>2 DEF PutDone
<1>4. Pinned(cache') = Pinned(c) /\ \A k \in Key : Carry(k)' = PinsIn(c, k)
  BY <1>1, <1>3, EvictPins, PinsAre
<1>5. w.key \in Key
  BY DEF Write
<1>6. \A k \in Key \ {w.key} : Carry(k)' = Carry(k)
  BY <1>3, <1>4, PinsAre DEF PinsIn
<1>7. ASSUME w.key \notin refused
      PROVE  /\ Carry(w.key) \in Nat /\ Carry(w.key) + 1 < Word
             /\ Pins(w.key) = Carry(w.key) + 1 /\ Carry(w.key)' = Carry(w.key) + 1
  <2>1. Carry(w.key) \in Nat
    BY <1>1, <1>5, PinsType, Numbers
  <2>2. Carry(w.key) <= issued
    BY <1>5, <1>7 DEF PinInv, PinsOf
  <2>3. Carry(w.key) + 1 < Word
    BY <1>1, <2>1, <2>2, Numbers DEF NoWrap
  <2>4. Pins(w.key) = Carry(w.key) + 1
    BY <2>1, <2>3, WordFits DEF Pins
  <2>5. Carry(w.key)' = Pins(w.key)
    BY <1>3, <1>4, <1>5 DEF PinsIn
  <2> QED BY <2>1, <2>3, <2>4, <2>5
<1>8. ASSUME NEW k \in Key \ refused PROVE PinsOf(k)'
  <2>1. PinsOf(k)
    BY DEF PinInv
  <2>2. /\ IsFiniteSet(Unmarked(k))'
        /\ w.key # k => Count(k)' = Count(k)
        /\ w.key = k => Count(k)' = Count(k) + 1
    BY <2>1, PutCount DEF PinsOf
  <2>3. Count(k) \in Nat /\ Carry(k) \in Nat /\ deduped[k] \in Nat
    BY <1>1, <2>1, CountType, PinsType, ShapeIs, Numbers DEF PinsOf, DiskTypes
  <2>4. CASE w.key # k
    BY <1>1, <1>2, <1>6, <2>1, <2>2, <2>3, <2>4 DEF PinsOf
  <2>5. CASE w.key = k
    <3>1. Carry(k)' = Carry(k) + 1
      BY <1>7, <2>5
    <3> QED BY <1>1, <1>2, <2>1, <2>2, <2>3, <2>5, <3>1 DEF PinsOf
  <2> QED BY <2>4, <2>5
<1>9. PendingItemsExact'
  <2> SUFFICES ASSUME refused = {} PROVE pendingItems' = Cardinality(Pinned(cache'))
    BY <1>2 DEF PendingItemsExact, Pinned
  <2>1. pendingItems = Cardinality(Pinned(cache))
    BY DEF PinInv, PendingItemsExact, Pinned
  <2>2. PICK P, Q : P = Pinned(cache) /\ Q = Pinned(cache')
    OBVIOUS
  <2>3. Q = P \cup {w.key}
    BY <1>3, <1>4, <1>5, <1>7, <2>2, PinsAre
  <2>4. w.key \in P <=> Carry(w.key) # 0
    BY <1>5, <2>2, PinsAre
  <2>5. IsFiniteSet(P)
    BY <2>2, PinnedFinite
  <2>6. Cardinality(P \cup {w.key}) = IF w.key \in P THEN Cardinality(P) ELSE Cardinality(P) + 1
    BY <2>5, FS_AddElement
  <2>7. Cardinality(P) \in Nat
    BY <2>2, PinnedFinite
  <2> QED BY <1>2, <2>1, <2>2, <2>3, <2>4, <2>6, <2>7 DEF NewlyPinned
<1> QED BY <1>2, <1>8, <1>9 DEF PinInv

\* Refusing a write drops the entry of its key and no other.
LEMMA RefusePins ==
    ASSUME DShape, PinInv, NEW t \in IOThreads, Refuse(t), inHand[t] # Absent
    PROVE  PinInv'
<1>1. PICK w \in Write : w = inHand[t] /\ w.key \in Key
  BY ShapeIs DEF IOTypes, Write
<1>2. /\ cache' = [cache EXCEPT ![w.key] = Absent] /\ refused' = refused \cup {w.key}
      /\ UNCHANGED <<issued, deduped>>
  BY <1>1 DEF Refuse, Erase, diskVars
<1>3. ASSUME NEW k \in Key \ refused' PROVE PinsOf(k)'
  <2>1. PinsOf(k) /\ k # w.key
    BY <1>2 DEF PinInv
  <2>2. Unmarked(k)' = Unmarked(k)
    BY <1>1, <2>1, RefuseCount
  <2>3. cache'[k] = cache[k]
    BY <1>2, <2>1, ShapeIs DEF CacheTypes
  <2>4. Carry(k)' = Carry(k)
    BY <2>3, PinsAre DEF PinsIn
  <2> QED BY <1>2, <2>1, <2>2, <2>4 DEF PinsOf, Count
<1>4. PendingItemsExact'
  BY <1>2 DEF PendingItemsExact
<1> QED BY <1>3, <1>4 DEF PinInv

\* What MarkPersisted does to the entry of its key.
LEMMA MarkEffect ==
    ASSUME DShape, MarkPersisted, NEW k \in Key, k = Head(marks).key
    PROVE  /\ \A j \in Key \ {k} : cache'[j] = cache[j]
           /\ cache[k] = Absent => cache'[k] = Absent
           /\ cache[k] # Absent =>
                /\ cache'[k] # Absent /\ cache'[k].pending = Unpin(cache[k].pending)
                /\ cache'[k].id = cache[k].id
           /\ pendingItems' = IF Carry(k) = 1 THEN pendingItems - 1 ELSE pendingItems
           /\ UNCHANGED <<refused, issued, deduped>>
<1>1. cache \in [Key -> Entry \cup {Absent}]
  BY ShapeIs DEF CacheTypes
<1>2. PICK n : n = Head(marks).seqno
  OBVIOUS
<1>3. /\ cache' = IF cache[k] = Absent THEN cache
           ELSE [cache EXCEPT ![k].seqno = IF n = 0 THEN @ ELSE n,
                              ![k].pending = Unpin(@)]
      /\ pendingItems' = IF Carry(k) = 1 THEN pendingItems - 1 ELSE pendingItems
      /\ UNCHANGED <<refused, issued, deduped>>
  BY <1>2 DEF MarkPersisted, ioVars, diskVars
<1>4. CASE cache[k] = Absent
  BY <1>3, <1>4
<1>5. CASE cache[k] # Absent
  <2>1. PICK e \in Entry : e = cache[k]
    BY <1>1, <1>5
  <2>2. PICK f : f = [e EXCEPT !.seqno = IF n = 0 THEN @ ELSE n, !.pending = Unpin(@)]
    OBVIOUS
  <2>3. cache' = [cache EXCEPT ![k] = f]
    BY <1>1, <1>3, <1>5, <2>1, <2>2
  <2>4. f.pending = Unpin(e.pending) /\ f.id = e.id
    BY <2>1, <2>2 DEF Entry
  <2>5. cache'[k] = f /\ \A j \in Key \ {k} : cache'[j] = cache[j]
    BY <1>1, <2>3
  <2>6. cache' \in [Key -> Entry \cup {Absent}] /\ f \in Entry
    <3>1. Unpin(e.pending) \in 0..Word-1
      BY <2>1, WordType, Numbers DEF Unpin, Entry
    <3>2. n \in Nat
      BY <1>2, MarksDrop
    <3>3. f \in Entry
      BY <2>1, <2>2, <3>1, <3>2 DEF Entry
    <3> QED BY <1>1, <2>3, <3>3
  <2>7. f # Absent
    BY <2>6, NoneAbsent
  <2> QED BY <1>3, <1>5, <2>1, <2>4, <2>5, <2>7
<1> QED BY <1>4, <1>5

\* MarkPersisted releases one pin, of a key that has one.
LEMMA MarkPins ==
    ASSUME DShape, PinInv, NoWrap, MarkPersisted
    PROVE  PinInv'
<1>1. PICK k \in Key : k = Head(marks).key
  BY MarksDrop
<1>2. /\ \A j \in Key \ {k} : cache'[j] = cache[j]
      /\ cache[k] # Absent => cache'[k] # Absent /\ cache'[k].pending = Unpin(cache[k].pending)
      /\ pendingItems' = IF Carry(k) = 1 THEN pendingItems - 1 ELSE pendingItems
      /\ UNCHANGED <<refused, issued, deduped>>
  BY <1>1, MarkEffect
<1>3. CacheTypes /\ issued \in Nat
  BY ShapeIs, Numbers DEF ReadTypes, Id
<1>4. \A j \in Key \ {k} : Carry(j)' = Carry(j)
  BY <1>2, PinsAre DEF PinsIn
<1>5. ASSUME k \notin refused
      PROVE  Carry(k) \in Nat /\ Carry(k) > 0 /\ Carry(k)' = Carry(k) - 1
  <2>1. PinsOf(k)
    BY <1>5 DEF PinInv
  <2>2. Count(k) \in Nat /\ Count(k) > 0 /\ Carry(k) >= Count(k)
    <3>1. Count(k) \in Nat /\ Count(k) > 0 /\ deduped[k] \in Nat
      BY <1>1, <2>1, MarkCount, ShapeIs DEF PinsOf, DiskTypes
    <3> QED BY <2>1, <3>1 DEF PinsOf
  <2>3. Carry(k) \in 0..Word-1
    BY <1>3, PinsType
  <2>4. Carry(k) > 0
    BY <2>2, <2>3, Numbers
  <2>5. cache[k] # Absent /\ cache[k].pending = Carry(k)
    BY <2>4 DEF Carry
  <2>6. Carry(k)' = Unpin(Carry(k))
    BY <1>2, <2>5 DEF Carry
  <2>7. Carry(k) - 1 \in Nat /\ Carry(k) - 1 < Word
    BY <2>3, <2>4, Numbers
  <2>8. Unpin(Carry(k)) = Carry(k) - 1
    BY <2>7, WordFits DEF Unpin
  <2> QED BY <2>3, <2>4, <2>6, <2>8, Numbers
<1>6. ASSUME NEW j \in Key \ refused PROVE PinsOf(j)'
  <2>1. PinsOf(j)
    BY DEF PinInv
  <2>2. /\ IsFiniteSet(Unmarked(j))'
        /\ k # j => Count(j)' = Count(j)
        /\ k = j => Count(j)' = Count(j) - 1
    BY <1>1, <2>1, MarkCount DEF PinsOf
  <2>3. Count(j) \in Nat /\ Carry(j) \in Nat /\ deduped[j] \in Nat
    BY <1>3, <2>1, CountType, PinsType, ShapeIs, Numbers DEF PinsOf, DiskTypes
  <2>4. CASE j # k
    BY <1>2, <1>4, <2>1, <2>2, <2>3, <2>4 DEF PinsOf
  <2>5. CASE j = k
    <3>1. Carry(j)' = Carry(j) - 1
      BY <1>5, <2>5
    <3> QED BY <1>2, <1>3, <2>1, <2>2, <2>3, <2>5, <3>1 DEF PinsOf
  <2> QED BY <2>4, <2>5
<1>7. PendingItemsExact'
  <2> SUFFICES ASSUME refused = {} PROVE pendingItems' = Cardinality(Pinned(cache'))
    BY <1>2 DEF PendingItemsExact, Pinned
  <2>1. pendingItems = Cardinality(Pinned(cache))
    BY DEF PinInv, PendingItemsExact, Pinned
  <2>2. Carry(k) \in Nat /\ Carry(k) > 0 /\ Carry(k)' = Carry(k) - 1
    BY <1>5
  <2>3. PICK P, Q : P = Pinned(cache) /\ Q = Pinned(cache')
    OBVIOUS
  <2>4. \A j : j \in P <=> j \in Key /\ Carry(j) # 0
    BY <2>3, PinsAre
  <2>5. \A j : j \in Q <=> j \in Key /\ Carry(j)' # 0
    BY <2>3, PinsAre
  <2>6. IsFiniteSet(P) /\ Cardinality(P) \in Nat
    BY <2>3, PinnedFinite
  <2>7. k \in P
    BY <2>2, <2>4
  <2>8. CASE Carry(k) = 1
    <3>1. Q = P \ {k}
      BY <1>4, <2>2, <2>4, <2>5, <2>8
    <3>2. Cardinality(P \ {k}) = Cardinality(P) - 1
      BY <2>6, <2>7, FS_RemoveElement
    <3> QED BY <1>2, <2>1, <2>3, <2>8, <3>1, <3>2
  <2>9. CASE Carry(k) # 1
    <3>1. Carry(k)' # 0
      BY <2>2, <2>9
    <3>2. Q = P
      BY <1>4, <2>4, <2>5, <2>7, <3>1
    <3> QED BY <1>2, <2>1, <2>3, <2>9, <3>2
  <2> QED BY <2>8, <2>9
<1> QED BY <1>2, <1>6, <1>7 DEF PinInv

\* Nothing is outstanding and nothing pinned after a restart.
LEMMA InitPins == Init => PinInv
<1> SUFFICES ASSUME Init PROVE PinInv
  OBVIOUS
<1>1. ASSUME NEW k \in Key PROVE Unmarked(k) = {} /\ Carry(k) = 0
  <2>1. \A x : ~InHandOf(x, k)
    BY DEF Init, InHandOf
  <2>2. WritesTo(k, <<>>) = {}
    BY DEF WritesTo
  <2>3. \A x : ~InStageOf(x, k)
    BY <2>2 DEF Init, InStageOf
  <2>4. \A x : ~InQueueOf(x, k) /\ ~InBatchOf(x, k) /\ ~InMarkOf(x, k)
    BY <2>2 DEF Init, InQueueOf, InBatchOf, InMarkOf
  <2>5. Unmarked(k) = {}
    BY <2>1, <2>3, <2>4, UnmarkedIs DEF Collected
  <2>6. Carry(k) = 0
    BY DEF Init, Carry
  <2> QED BY <2>5, <2>6
<1>2. ASSUME NEW k \in Key PROVE PinsOf(k)
  <2>1. issued = 0
    BY DEF Init
  <2>2. IsFiniteSet(Unmarked(k)) /\ Count(k) = 0
    BY <1>1, FS_EmptySet DEF Count
  <2>3. deduped[k] = 0
    BY DEF Init
  <2> QED BY <1>1, <2>1, <2>2, <2>3 DEF PinsOf
<1>3. Pinned(cache) = {}
  BY <1>1, PinsAre
<1>4. PendingItemsExact
  BY <1>3, FS_EmptySet DEF PendingItemsExact, Pinned, Init
<1> QED BY <1>2, <1>4 DEF PinInv

\* A step that moves no write and takes no pin.
LEMMA IdlePins ==
    ASSUME DShape, PinInv, UNCHANGED <<inHand, staged, queue, marks, refused, issued, pendingItems, deduped>>,
           wpc' = "write" <=> wpc = "write", wpc = "write" => batch' = batch, PinsStay
    PROVE  PinInv'
<1>1. \A k : Unmarked(k)' = Unmarked(k)
  BY SamePlaces
<1>2. \A k \in Key \ refused : IsFiniteSet(Unmarked(k)) => Accounted(k)
  <2> SUFFICES ASSUME NEW k, IsFiniteSet(Unmarked(k)) PROVE Accounted(k)
    OBVIOUS
  <2>1. Count(k) \in Nat /\ Count(k)' = Count(k)
    BY <1>1, CountType DEF Count
  <2> QED BY <1>1, <2>1 DEF Accounted
<1> QED BY <1>2, StillPinned

\* A step that moves writes and leaves the cache alone.
LEMMA MovePins ==
    ASSUME DShape, PinInv, UNCHANGED <<cacheVars, refused, issued, deduped>>,
           \A k \in Key : IsFiniteSet(Unmarked(k)) => SameCount(k)
    PROVE  PinInv'
<1>1. PinsStay /\ pendingItems' = pendingItems
  BY EvictStays DEF cacheVars
<1>2. ASSUME NEW k \in Key, IsFiniteSet(Unmarked(k)) PROVE Accounted(k)
  <2>1. SameCount(k) /\ Count(k) \in Nat
    BY <1>2, CountType
  <2> QED BY <2>1 DEF SameCount, Accounted
<1> QED BY <1>1, <1>2, StillPinned

\* A write of a batch.
LEMMA WritePins ==
    ASSUME DShape, PinInv, NEW doSort \in BOOLEAN, NEW ok \in BOOLEAN, WriteDocs(doSort, ok)
    PROVE  PinInv'
<1>1. UNCHANGED <<inHand, staged, queue, batch, cache, pendingItems, refused, issued>>
  BY DEF WriteDocs, ioVars, cacheVars
<1>2. PICK ops : Written(ops, ok)
  BY WriteEffect
<1>3. ASSUME NEW k \in Key, IsFiniteSet(Unmarked(k)) PROVE Accounted(k)
  <2>1. PICK b, o : b = Cardinality(WritesTo(k, batch)) /\ o = Cardinality(WritesTo(k, ops))
    OBVIOUS
  <2>2. b \in Nat /\ o \in Nat
    <3>1. batch \in Seq(Write) /\ Keeps(ops, batch)
      BY <1>2, ShapeIs DEF WriteTypes, Written
    <3> QED BY <2>1, <3>1, WritesFewer
  <2>3. deduped[k] \in Nat /\ deduped'[k] = deduped[k] + b - o
    BY <1>2, <2>1, ShapeIs DEF Written, Drops, DiskTypes
  <2>4. IsFiniteSet(Unmarked(k))' /\ Count(k)' + b = Count(k) + o
    BY <1>1, <1>2, <1>3, <2>1, WriteCount
  <2>5. Count(k) \in Nat /\ Count(k)' \in Nat
    BY <1>3, <2>4, CountType
  <2> QED BY <2>2, <2>3, <2>4, <2>5 DEF Accounted
<1>4. PinsStay
  BY <1>1, EvictStays
<1> QED BY <1>1, <1>3, <1>4, StillPinned

\* A fill takes no pin and gives none: it only inserts where there is no entry.
LEMMA FillPins ==
    ASSUME DShape, NEW r \in Readers, PutIfAbsent(r)
    PROVE  PinsStay
<1>1. CASE cache' = cache
  BY <1>1, EvictStays
<1>2. CASE cache[reads[r].key] = Absent /\ FillDone(reads[r].key, reads[r].seqno)
  <2>1. PICK k \in Key : k = reads[r].key /\ cache[k] = Absent
    BY <1>2, ReadFields
  <2>2. PICK c \in [Key -> Entry \cup {Absent}] :
           /\ cache' \in Evict(c, budget) /\ c[k] # Absent /\ c[k].pending = 0
           /\ \A j \in Key \ {k} : c[j] = cache[j]
    BY <1>2, <2>1 DEF FillDone
  <2>3. budget \in Nat
    BY ShapeIs
  <2>4. Pinned(cache') = Pinned(c) /\ \A j \in Key : PinsIn(cache', j) = PinsIn(c, j)
    BY <2>2, <2>3, EvictPins
  <2>5. \A j \in Key : PinsIn(c, j) = PinsIn(cache, j)
    BY <2>1, <2>2 DEF PinsIn
  <2>6. Pinned(c) = Pinned(cache)
    BY <2>5, PinsAre
  <2> QED BY <2>4, <2>5, <2>6, PinsAre DEF PinsStay
<1> QED BY <1>1, <1>2, FillEffect

\* Every step keeps the pins.
LEMMA NextPins == NoWrap /\ DShape /\ PinInv /\ [Next]_vars => PinInv'
<1> SUFFICES ASSUME NoWrap, DShape, PinInv, [Next]_vars PROVE PinInv'
  OBVIOUS
<1>0. budget \in Nat
  BY ShapeIs
<1>1. ASSUME NEW t \in IOThreads, NEW k \in Key, HandleSet(t, k) \/ HandleDelete(t, k)
      PROVE  PinInv'
  BY <1>1, HandleIsPut, PutPins
<1>2. ASSUME NEW t \in IOThreads, IOStep(t) PROVE PinInv'
  <2>1. CASE StageWrite(t)
    <3>1. UNCHANGED <<cacheVars, refused, issued, deduped>>
      BY <2>1 DEF StageWrite, diskVars
    <3> QED BY <2>1, <3>1, StageCount, MovePins
  <2>2. CASE FlushStaged(t)
    <3>1. UNCHANGED <<cacheVars, refused, issued, deduped>>
      BY <2>2 DEF FlushStaged, diskVars
    <3> QED BY <2>2, <3>1, FlushCount, MovePins
  <2>3. CASE RefuseSet(t) \/ RefuseDelete(t)
    BY <2>3, RefusePins DEF RefuseSet, RefuseDelete
  <2> QED BY <1>2, <2>1, <2>2, <2>3 DEF IOStep
<1>3. CASE Sweep
  <2>1. UNCHANGED <<cacheVars, refused, issued, deduped>>
    BY <1>3 DEF Sweep, ioVars, diskVars
  <2> QED BY <1>3, <2>1, SweepCount, MovePins
<1>4. CASE MarkPersisted
  BY <1>4, MarkPins
<1>5. CASE Trim
  <2>1. /\ UNCHANGED <<inHand, staged, queue, marks, refused, issued, pendingItems, deduped, batch>>
        /\ wpc = "trim" /\ wpc' = "mark" /\ cache' \in Evict(cache, budget)
    BY <1>5 DEF Trim, ioVars, diskVars
  <2>2. PinsStay
    BY <1>0, <2>1, EvictStays
  <2> QED BY <2>1, <2>2, IdlePins
<1>6. CASE Complete
  <2>1. /\ UNCHANGED <<inHand, staged, queue, marks, refused, issued, pendingItems, deduped, cache>>
        /\ wpc = "mark" /\ wpc' = "idle"
    BY <1>6 DEF Complete, ioVars, diskVars, cacheVars
  <2>2. PinsStay
    BY <2>1, EvictStays
  <2> QED BY <2>1, <2>2, IdlePins
<1>7. ASSUME NEW doSort \in BOOLEAN, NEW ok \in BOOLEAN, WriteDocs(doSort, ok) PROVE PinInv'
  BY <1>7, WritePins
<1>8. ASSUME NEW r \in Readers, (\E k \in Key : HandleGet(r, k)) \/ ReadStep(r) PROVE PinInv'
  <2>1. UNCHANGED <<inHand, staged, queue, marks, refused, issued, pendingItems, deduped, wpc, batch>>
    <3>1. ASSUME NEW k \in Key, HandleGet(r, k)
          PROVE  UNCHANGED <<ioVars, writeVars, diskVars, pendingItems, issued>>
      BY <3>1 DEF HandleGet, cacheVars
    <3>2. ASSUME ReadStep(r) PROVE UNCHANGED <<ioVars, writeVars, diskVars, pendingItems, issued>>
      BY <3>2 DEF ReadStep, SeqnoHint, GetDocs, NoteFill, PutIfAbsent, SendGetResponse, cacheVars
    <3> QED BY <1>8, <3>1, <3>2 DEF ioVars, writeVars, diskVars
  <2>2. PinsStay
    <3>1. CASE PutIfAbsent(r)
      BY <3>1, FillPins
    <3>2. CASE ~PutIfAbsent(r)
      <4>1. cache' = cache
        BY <1>8, <3>2 DEF HandleGet, ReadStep, SeqnoHint, GetDocs, NoteFill, SendGetResponse, cacheVars
      <4> QED BY <4>1, EvictStays
    <3> QED BY <3>1, <3>2
  <2> QED BY <2>1, <2>2, IdlePins
<1>9. ASSUME NEW b \in Budgets, SetBudget(b) PROVE PinInv'
  <2>1. /\ UNCHANGED <<inHand, staged, queue, marks, refused, issued, pendingItems, deduped, wpc, batch>>
        /\ cache' \in Evict(cache, b)
    BY <1>9 DEF SetBudget, ioVars, writeVars, diskVars
  <2>2. b \in Nat
    BY Sets
  <2>3. PinsStay
    BY <2>1, <2>2, EvictStays
  <2> QED BY <2>1, <2>3, IdlePins
<1>10. CASE (\E k \in Key : ServeCachedGets(k)) \/ Quiet \/ UNCHANGED vars
  <2>1. UNCHANGED <<ioVars, writeVars, diskVars, cacheVars, issued>>
    BY <1>10 DEF ServeCachedGets, Quiet, vars
  <2>2. UNCHANGED <<inHand, staged, queue, marks, refused, issued, pendingItems, deduped, wpc, batch, cache>>
    BY <2>1 DEF ioVars, writeVars, diskVars, cacheVars
  <2>3. PinsStay
    BY <2>2, EvictStays
  <2> QED BY <2>2, <2>3, IdlePins
<1> QED BY <1>1, <1>2, <1>3, <1>4, <1>5, <1>6, <1>7, <1>8, <1>9, <1>10 DEF Next, WriterStep

\* The pins of every key none of whose writes was refused, at all times, as long
\* as Entry::pending does not wrap.
THEOREM PinInvariant == NoWrap /\ Spec => [](DShape /\ PinInv)
<1>1. NoWrap /\ DShape /\ IndexInv /\ PinInv /\ [Next]_vars => DShape' /\ IndexInv' /\ PinInv'
  BY NextShape, NextPins
<1>2. NoWrap' <=> NoWrap
  BY DEF NoWrap
<1>3. Init => DShape /\ IndexInv /\ PinInv
  BY InitShape, InitPins
<1> QED BY <1>1, <1>2, <1>3, PTL DEF Spec

\* An entry is pinned at least as often as writes to it are outstanding, so that
\* no eviction, newer Put or late fill uncovers the older version on disk, and
\* the count of pinned entries is exact (putEntry, MarkPersisted, Shard::evict).
THEOREM WritesArePinned == NoWrap /\ Spec => []PinsCoverWrites
<1>1. DShape /\ PinInv => PinsCoverWrites
  <2> SUFFICES ASSUME DShape, PinInv PROVE PinsCoverWrites
    OBVIOUS
  <2>1. ASSUME NEW k \in Key \ refused PROVE Carry(k) >= Cardinality(Unmarked(k))
    <3>1. PinsOf(k)
      BY DEF PinInv
    <3>2. Count(k) \in Nat /\ deduped[k] \in Nat
      BY <3>1, CountType, ShapeIs DEF PinsOf, DiskTypes
    <3> QED BY <3>1, <3>2 DEF PinsOf, Count
  <2> QED BY <2>1 DEF PinsCoverWrites, DShape, PinInv
<1> QED BY <1>1, PinInvariant, PTL

\* However the event loops, readers and evictions interleave, an entry all of
\* whose writes have been marked is pinned by nothing but the duplicates that
\* sorted batches dropped: failed batches, replaced entries and fills leak no
\* pin (putEntry, MarkPersisted; executePersist marks the survivors).
THEOREM PinsAreReleased == NoWrap /\ Spec => []PinsReleased
<1>1. DShape /\ PinInv => PinsReleased
  <2> SUFFICES ASSUME DShape, PinInv, NEW k \in Key \ refused, Settled(k)
               PROVE  Carry(k) = deduped[k]
    BY DEF PinsReleased
  <2>1. Carry(k) = Count(k) + deduped[k] /\ deduped[k] \in Nat
    BY ShapeIs DEF PinInv, PinsOf, DiskTypes
  <2>2. Count(k) = 0
    BY FS_EmptySet DEF Settled, Count
  <2> QED BY <2>1, <2>2
<1> QED BY <1>1, PinInvariant, PTL

-----------------------------------------------------------------------------
(* The version a GET finds in the cache *)

\* Every write to k that was answered or is in hand is at most n.
NoneNewer(k, n) ==
    /\ acked[k] <= n
    /\ \A t \in IOThreads : inHand[t] # Absent /\ inHand[t].key = k => inHand[t].id <= n

\* A pinned entry of k is at least as new as those.
FreshOf(k) == NoneNewer(k, issued) /\ (Carry(k) # 0 => NoneNewer(k, cache[k].id))

FreshInv == \A k \in Key \ refused : FreshOf(k)

\* If k is pinned after the step it was before, with the same version.
EntryStays(k) == Carry(k)' # 0 => Carry(k) # 0 /\ cache'[k].id = cache[k].id

\* A step that pins no entry anew, answers no write and puts none in hand.
LEMMA IdleFresh ==
    ASSUME FreshInv, UNCHANGED <<acked, issued>>, refused \subseteq refused',
           \A t \in IOThreads : inHand'[t] # Absent => inHand'[t] = inHand[t],
           \A k \in Key \ refused' : EntryStays(k)
    PROVE  FreshInv'
<1> SUFFICES ASSUME NEW k \in Key \ refused' PROVE FreshOf(k)'
  BY DEF FreshInv
<1>1. FreshOf(k) /\ EntryStays(k)
  BY DEF FreshInv
<1>2. NoneNewer(k, issued)'
  BY <1>1 DEF FreshOf, NoneNewer
<1>3. ASSUME Carry(k)' # 0 PROVE NoneNewer(k, cache[k].id)'
  <2>1. NoneNewer(k, cache[k].id) /\ cache'[k].id = cache[k].id
    BY <1>1, <1>3 DEF FreshOf, EntryStays
  <2> QED BY <2>1 DEF NoneNewer
<1> QED BY <1>2, <1>3 DEF FreshOf

\* An eviction leaves pinned entries as they are.
LEMMA EvictFresh ==
    ASSUME DShape, cache' = cache \/ \E b \in Nat : cache' \in Evict(cache, b)
    PROVE  \A k \in Key : EntryStays(k)
<1>1. cache \in [Key -> Entry \cup {Absent}]
  BY ShapeIs DEF CacheTypes
<1>2. CASE cache' = cache
  BY <1>2 DEF EntryStays, Carry
<1>3. ASSUME NEW b \in Nat, cache' \in Evict(cache, b), NEW k \in Key PROVE EntryStays(k)
  <2>1. cache'[k] = cache[k] \/ cache'[k] = Absent
    BY <1>1, <1>3, EvictDrops
  <2> QED BY <2>1 DEF EntryStays, Carry
<1> QED BY <1>2, <1>3

\* So does a fill, whose entry is not pinned.
LEMMA FillFresh ==
    ASSUME DShape, NEW r \in Readers, PutIfAbsent(r)
    PROVE  \A k \in Key : EntryStays(k)
<1>1. CASE cache' = cache
  BY <1>1, EvictFresh
<1>2. CASE cache[reads[r].key] = Absent /\ FillDone(reads[r].key, reads[r].seqno)
  <2>1. PICK k \in Key : k = reads[r].key
    BY ReadFields
  <2>2. PICK c \in [Key -> Entry \cup {Absent}] :
           /\ cache' \in Evict(c, budget) /\ c[k] # Absent /\ c[k].pending = 0
           /\ \A j \in Key \ {k} : c[j] = cache[j]
    BY <1>2, <2>1 DEF FillDone
  <2>3. ASSUME NEW j \in Key PROVE cache'[j] = c[j] \/ cache'[j] = Absent
    BY <2>2, EvictDrops, ShapeIs
  <2> QED BY <2>2, <2>3 DEF EntryStays, Carry
<1> QED BY <1>1, <1>2, FillEffect

\* Put shows the newest write of all, and its entry is pinned.
LEMMA PutFresh ==
    ASSUME DShape, FreshInv, NEW t \in IOThreads, NEW w \in Write, WriteThrough(t, w),
           w.id = issued + 1
    PROVE  FreshInv'
<1>1. /\ CacheTypes /\ inHand \in [IOThreads -> Write \cup {Absent}] /\ budget \in Nat
      /\ w # Absent /\ w.key \in Key /\ acked \in [Key -> Id] /\ issued \in Nat
  BY ShapeIs, NoneAbsent, Numbers DEF IOTypes, ReadTypes, Write, Id
<1>2. /\ Put(w) /\ inHand' = [inHand EXCEPT ![t] = w]
      /\ issued' = issued + 1 /\ UNCHANGED <<acked, refused>>
  BY DEF WriteThrough
<1>3. PutDone(w)
  BY <1>1, <1>2, PutEffect
<1>4. PICK c \in [Key -> Entry \cup {Absent}] :
         /\ cache' \in Evict(c, budget) /\ c[w.key] # Absent /\ c[w.key].id = w.id
         /\ \A k \in Key \ {w.key} : c[k] = cache[k]
  BY <1>3 DEF PutDone
<1>5. \A k \in Key : cache'[k] = c[k] \/ cache'[k] = Absent
  BY <1>1, <1>4, EvictDrops
<1>6. inHand'[t] = w /\ \A u \in IOThreads \ {t} : inHand'[u] = inHand[u]
  BY <1>1, <1>2
<1> SUFFICES ASSUME NEW k \in Key \ refused PROVE FreshOf(k)'
  BY <1>2 DEF FreshInv
<1>7. FreshOf(k)
  BY DEF FreshInv
<1>8. acked[k] \in Int /\ \A u \in IOThreads : inHand[u] # Absent => inHand[u].id \in Int
  BY <1>1, Numbers DEF Id, Write
<1>9. NoneNewer(k, issued)'
  <2>1. acked'[k] <= issued + 1
    BY <1>1, <1>2, <1>7, <1>8 DEF FreshOf, NoneNewer
  <2>2. ASSUME NEW u \in IOThreads, inHand'[u] # Absent, inHand'[u].key = k
        PROVE  inHand'[u].id <= issued + 1
    <3>1. CASE u = t
      BY <1>1, <1>6, <3>1
    <3>2. CASE u # t
      <4>1. inHand'[u] = inHand[u]
        BY <1>6, <3>2
      <4>2. inHand[u].id <= issued /\ inHand[u].id \in Int
        BY <1>7, <1>8, <2>2, <4>1 DEF FreshOf, NoneNewer
      <4> QED BY <1>1, <4>1, <4>2
    <3> QED BY <3>1, <3>2
  <2> QED BY <1>2, <2>1, <2>2 DEF NoneNewer
<1>10. ASSUME Carry(k)' # 0 PROVE NoneNewer(k, cache[k].id)'
  <2>1. cache'[k] = c[k]
    BY <1>5, <1>10 DEF Carry
  <2>2. CASE k = w.key
    <3>1. cache'[k].id = issued'
      BY <1>2, <1>4, <2>1, <2>2
    <3> QED BY <1>9, <3>1 DEF NoneNewer
  <2>3. CASE k # w.key
    <3>1. cache'[k] = cache[k] /\ Carry(k) # 0
      BY <1>4, <1>10, <2>1, <2>3 DEF Carry
    <3>2. NoneNewer(k, cache[k].id)
      BY <1>7, <3>1 DEF FreshOf
    <3>3. \A u \in IOThreads : (inHand'[u] # Absent /\ inHand'[u].key = k) =>
              (inHand[u] # Absent /\ inHand[u].key = k /\ inHand'[u] = inHand[u])
      BY <1>6, <2>3
    <3> QED BY <1>2, <3>1, <3>2, <3>3 DEF NoneNewer
  <2> QED BY <2>2, <2>3
<1> QED BY <1>9, <1>10 DEF FreshOf

\* A write that is answered was in hand, so a pinned entry is as new.
LEMMA StageFresh ==
    ASSUME DShape, FreshInv, NEW t \in IOThreads, StageWrite(t)
    PROVE  FreshInv'
<1>1. inHand \in [IOThreads -> Write \cup {Absent}] /\ acked \in [Key -> Id]
  BY ShapeIs DEF IOTypes
<1>2. PICK w \in Write : w = inHand[t] /\ w # Absent /\ w.key \in Key
  BY <1>1 DEF StageWrite, Write
<1>3. /\ acked' = [acked EXCEPT ![w.key] = IF acked[w.key] < w.id THEN w.id ELSE acked[w.key]]
      /\ inHand' = [inHand EXCEPT ![t] = Absent]
      /\ UNCHANGED <<cache, refused, issued>>
  BY <1>2 DEF StageWrite, cacheVars
<1>4. inHand'[t] = Absent /\ \A u \in IOThreads \ {t} : inHand'[u] = inHand[u]
  BY <1>1, <1>3
<1> SUFFICES ASSUME NEW k \in Key \ refused PROVE FreshOf(k)'
  BY <1>3 DEF FreshInv
<1>5. FreshOf(k)
  BY DEF FreshInv
<1>6. \A u \in IOThreads : (inHand'[u] # Absent /\ inHand'[u].key = k) =>
          (inHand[u] # Absent /\ inHand[u].key = k /\ inHand'[u] = inHand[u])
  BY <1>4
<1>7. k # w.key => acked'[k] = acked[k]
  BY <1>1, <1>3
<1>8. ASSUME NEW n, NoneNewer(k, n)
      PROVE  /\ acked'[k] <= n
             /\ \A u \in IOThreads : inHand'[u] # Absent /\ inHand'[u].key = k => inHand'[u].id <= n
  <2>1. acked[k] <= n /\ (k = w.key => w.id <= n)
    BY <1>2, <1>8 DEF NoneNewer
  <2>2. acked'[k] <= n
    BY <1>1, <1>3, <1>7, <2>1
  <2> QED BY <1>6, <1>8, <2>2 DEF NoneNewer
<1>9. NoneNewer(k, issued)'
  BY <1>3, <1>5, <1>8 DEF FreshOf, NoneNewer
<1>10. ASSUME Carry(k)' # 0 PROVE NoneNewer(k, cache[k].id)'
  <2>1. Carry(k) # 0
    BY <1>3, <1>10 DEF Carry
  <2> QED BY <1>3, <1>5, <1>8, <2>1 DEF FreshOf, NoneNewer
<1> QED BY <1>9, <1>10 DEF FreshOf

\* A mark finds the entry pinned and leaves its version.
LEMMA MarkFresh ==
    ASSUME DShape, PinInv, MarkPersisted
    PROVE  \A k \in Key \ refused : EntryStays(k)
<1>1. PICK k \in Key : k = Head(marks).key
  BY MarksDrop
<1>2. /\ \A j \in Key \ {k} : cache'[j] = cache[j]
      /\ cache[k] # Absent => cache'[k].id = cache[k].id
  BY <1>1, MarkEffect
<1>3. ASSUME k \notin refused PROVE Carry(k) # 0 /\ cache[k] # Absent
  <2>1. PinsOf(k)
    BY <1>3 DEF PinInv
  <2>2. Count(k) \in Nat /\ Count(k) > 0 /\ deduped[k] \in Nat
    BY <1>1, <2>1, MarkCount, ShapeIs DEF PinsOf, DiskTypes
  <2>3. Carry(k) # 0
    BY <2>1, <2>2 DEF PinsOf
  <2> QED BY <2>3 DEF Carry
<1> QED BY <1>2, <1>3 DEF EntryStays, Carry

\* A reader's step other than a fill touches neither writes nor cache.
LEMMA ReadLeaves ==
    ASSUME NEW r \in Readers, (\E k \in Key : HandleGet(r, k)) \/ ReadStep(r), ~PutIfAbsent(r)
    PROVE  UNCHANGED <<ioVars, writeVars, diskVars, cacheVars, issued>>
BY DEF HandleGet, ReadStep, SeqnoHint, GetDocs, NoteFill, SendGetResponse

\* Every step keeps pinned entries fresh.
LEMMA NextFresh == DShape /\ PinInv /\ FreshInv /\ [Next]_vars => FreshInv'
<1> SUFFICES ASSUME DShape, PinInv, FreshInv, [Next]_vars PROVE FreshInv'
  OBVIOUS
<1>0. budget \in Nat /\ inHand \in [IOThreads -> Write \cup {Absent}]
  BY ShapeIs DEF IOTypes
<1>1. ASSUME NEW t \in IOThreads, NEW k \in Key, HandleSet(t, k) \/ HandleDelete(t, k)
      PROVE  FreshInv'
  BY <1>1, HandleIsPut, PutFresh
<1>2. ASSUME UNCHANGED <<acked, inHand, issued, refused>>, \A k \in Key \ refused : EntryStays(k)
      PROVE  FreshInv'
  BY <1>2, IdleFresh
<1>3. ASSUME UNCHANGED <<acked, inHand, issued, refused, cache>> PROVE FreshInv'
  BY <1>2, <1>3, EvictFresh
<1>4. ASSUME NEW t \in IOThreads, IOStep(t) PROVE FreshInv'
  <2>1. CASE StageWrite(t)
    BY <2>1, StageFresh
  <2>2. CASE FlushStaged(t)
    <3>1. UNCHANGED <<acked, inHand, issued, refused, cache>>
      BY <2>2 DEF FlushStaged, cacheVars
    <3> QED BY <1>3, <3>1
  <2>3. CASE RefuseSet(t) \/ RefuseDelete(t)
    <3>1. PICK w \in Write : w = inHand[t] /\ w.key \in Key
      BY <1>0, <2>3 DEF RefuseSet, RefuseDelete, Write
    <3>2. /\ cache' = [cache EXCEPT ![w.key] = Absent] /\ refused' = refused \cup {w.key}
          /\ inHand' = [inHand EXCEPT ![t] = Absent] /\ UNCHANGED <<acked, issued>>
      BY <2>3, <3>1 DEF RefuseSet, RefuseDelete, Refuse, Erase
    <3>3. \A k \in Key \ refused' : cache'[k] = cache[k]
      BY <3>2, ShapeIs DEF CacheTypes
    <3>4. \A k \in Key \ refused' : EntryStays(k)
      BY <3>3 DEF EntryStays, Carry
    <3>5. \A u \in IOThreads : inHand'[u] # Absent => inHand'[u] = inHand[u]
      BY <1>0, <3>2
    <3> QED BY <3>2, <3>4, <3>5, IdleFresh
  <2> QED BY <1>4, <2>1, <2>2, <2>3 DEF IOStep
<1>5. CASE Sweep \/ Complete \/ \E doSort, ok \in BOOLEAN : WriteDocs(doSort, ok)
  <2>1. UNCHANGED <<acked, inHand, issued, refused, cache>>
    BY <1>5 DEF Sweep, Complete, WriteDocs, ioVars, cacheVars
  <2> QED BY <1>3, <2>1
<1>6. CASE MarkPersisted
  <2>1. UNCHANGED <<acked, inHand, issued, refused>>
    BY <1>6 DEF MarkPersisted, ioVars
  <2> QED BY <1>2, <1>6, <2>1, MarkFresh
<1>7. CASE Trim \/ \E b \in Budgets : SetBudget(b)
  <2>1. /\ UNCHANGED <<acked, inHand, issued, refused>>
        /\ \E b \in Nat : cache' \in Evict(cache, b)
    BY <1>0, <1>7, Sets DEF Trim, SetBudget, ioVars
  <2> QED BY <1>2, <2>1, EvictFresh
<1>8. ASSUME NEW r \in Readers, (\E k \in Key : HandleGet(r, k)) \/ ReadStep(r) PROVE FreshInv'
  <2>1. CASE PutIfAbsent(r)
    <3>1. UNCHANGED <<acked, inHand, issued, refused>>
      BY <2>1 DEF PutIfAbsent, ioVars
    <3> QED BY <1>2, <2>1, <3>1, FillFresh
  <2>2. CASE ~PutIfAbsent(r)
    <3>1. UNCHANGED <<acked, inHand, issued, refused, cache>>
      BY <1>8, <2>2, ReadLeaves DEF ioVars, cacheVars
    <3> QED BY <1>3, <3>1
  <2> QED BY <2>1, <2>2
<1>9. CASE (\E k \in Key : ServeCachedGets(k)) \/ Quiet \/ UNCHANGED vars
  <2>1. UNCHANGED <<ioVars, cacheVars, issued>>
    BY <1>9 DEF ServeCachedGets, Quiet, vars
  <2> QED BY <1>3, <2>1 DEF ioVars, cacheVars
<1> QED BY <1>1, <1>4, <1>5, <1>6, <1>7, <1>8, <1>9 DEF Next, WriterStep

\* Nothing was answered before a restart.
LEMMA InitFresh == Init => FreshInv
<1> SUFFICES ASSUME Init, NEW k \in Key PROVE FreshOf(k)
  BY DEF FreshInv
<1>1. cache[k] = Absent /\ acked[k] = 0 /\ issued = 0 /\ \A t \in IOThreads : inHand[t] = Absent
  BY DEF Init
<1> QED BY <1>1 DEF FreshOf, NoneNewer, Carry

-----------------------------------------------------------------------------
(* The document a GET brings back *)

\* Whatever names a document of k, or will, names f or a later one.
NamesFrom(k, f) ==
    /\ f <= LastSeqno(k)
    /\ index[k] # Absent => f <= index[k].seqno
    /\ \A i \in DOMAIN marks : marks[i].key = k /\ marks[i].seqno # 0 => f <= marks[i].seqno

\* What a GET in flight has found is not older than what was there at its miss.
FoundFrom(rd) ==
    /\ NamesFrom(rd.key, rd.floor)
    /\ rd.hint # 0 => rd.floor <= rd.hint
    /\ rd.pc \in {"note", "fill", "answer"} => rd.floor <= rd.seqno

ReadInv ==
    \A r \in Readers : reads[r].pc # "idle" /\ reads[r].key \notin refused => FoundFrom(reads[r])

\* Where neither documents, nor marks, nor the index change.
LEMMA NamesStay ==
    ASSUME UNCHANGED <<docs, marks, index>>, NEW k, NEW f, NamesFrom(k, f)
    PROVE  NamesFrom(k, f)'
<1>1. LastSeqno(k)' = LastSeqno(k)
  BY SameDocs
<1> QED BY <1>1 DEF NamesFrom

\* A batch is written after all that is there.
LEMMA WriteNames ==
    ASSUME DShape, NEW doSort \in BOOLEAN, NEW ok \in BOOLEAN, WriteDocs(doSort, ok),
           NEW k \in Key, NEW f \in Nat, NamesFrom(k, f)
    PROVE  NamesFrom(k, f)'
<1>1. PICK ops : Written(ops, ok)
  BY WriteEffect
<1>2. docs \in Seq(Write \cup {Absent}) /\ OnDisk
  BY ShapeIs DEF DiskTypes
<1>3. PICK l \in Nat : l = Len(docs) /\ DOMAIN docs = 1..l
  BY <1>2, LenProperties
<1>4. PICK m \in Nat : m = LastSeqno(k) /\ m <= l
  <2>1. IsDoc(LastSeqno(k), k) /\ LastSeqno(k) \in Nat
    BY <1>2, LastDoc DEF OnDisk
  <2> QED BY <1>3, <2>1 DEF IsDoc
<1>5. f <= m /\ f <= l
  BY <1>3, <1>4 DEF NamesFrom
<1>6. DOMAIN ops \subseteq Nat
  BY <1>1, LenProperties DEF Written, Keeps
<1>7. f <= LastSeqno(k)'
  <2>1. CASE ok /\ k \in KeysOf(batch)
    <3>1. PICK n \in DOMAIN ops : LastSeqno(k)' = l + n
      BY <1>1, <1>3, <2>1, WriteLast
    <3> QED BY <1>3, <1>5, <1>6, <3>1
  <2>2. CASE ~ok \/ k \notin KeysOf(batch)
    <3>1. LastSeqno(k)' = m
      BY <1>1, <1>4, <2>2, WriteLast
    <3> QED BY <1>5, <3>1
  <2> QED BY <2>1, <2>2
<1>8. ASSUME NEW i \in DOMAIN marks', marks'[i].seqno # 0 PROVE f <= marks'[i].seqno
  <2>1. i \in DOMAIN ops /\ marks'[i].seqno = l + i
    BY <1>1, <1>3, <1>8 DEF Written
  <2> QED BY <1>3, <1>5, <1>6, <2>1
<1>9. index' = index
  BY DEF WriteDocs, indexVars
<1> QED BY <1>7, <1>8, <1>9 DEF NamesFrom

\* A mark moves into the index.
LEMMA MarkNamesFrom ==
    ASSUME DShape, MarkPersisted, NEW k \in Key, NEW f \in Nat, NamesFrom(k, f)
    PROVE  NamesFrom(k, f)'
<1>1. PICK l \in Nat, j \in Key, n \in Nat :
         /\ l = Len(marks) /\ l > 0 /\ DOMAIN marks = 1..l
         /\ marks[1] = Head(marks) /\ j = Head(marks).key /\ n = Head(marks).seqno
         /\ DOMAIN marks' = 1..(l - 1)
         /\ \A i \in 1..(l - 1) : marks'[i] = marks[i + 1]
  BY MarksDrop
<1>2. docs' = docs
  BY DEF MarkPersisted, diskVars
<1>3. LastSeqno(k)' = LastSeqno(k)
  BY <1>2, SameDocs
<1>4. ASSUME NEW i \in DOMAIN marks', marks'[i].key = k, marks'[i].seqno # 0
      PROVE  f <= marks'[i].seqno
  <2>1. i \in 1..(l - 1) /\ i + 1 \in DOMAIN marks /\ marks'[i] = marks[i + 1]
    BY <1>1
  <2> QED BY <1>4, <2>1 DEF NamesFrom
<1>5. k = j /\ n # 0 => f <= n
  <2>1. 1 \in DOMAIN marks
    BY <1>1
  <2> QED BY <1>1, <2>1 DEF NamesFrom
<1>6. index' = index \/ (n # 0 /\ Noted(j, n, TRUE))
  <2>1. CASE n = 0
    BY <1>1, <2>1 DEF MarkPersisted, indexVars
  <2>2. CASE n # 0
    <3>1. PICK d : d = (cache[j] # Absent /\ cache[j].del)
      OBVIOUS
    <3>2. NoteSeqno(j, n, d, TRUE)
      BY <1>1, <2>2, <3>1 DEF MarkPersisted
    <3>3. d \in BOOLEAN
      BY <3>1, ShapeIs DEF CacheTypes, Entry
    <3> QED BY <2>2, <3>2, <3>3, NoteEffect, ShapeIs
  <2> QED BY <2>1, <2>2
<1>7. ASSUME index'[k] # Absent PROVE f <= index'[k].seqno
  <2>1. CASE index' = index
    BY <1>7, <2>1 DEF NamesFrom
  <2>2. CASE n # 0 /\ Noted(j, n, TRUE) /\ k # j
    <3>1. index'[k] = index[k]
      BY <1>7, <2>2 DEF Noted
    <3> QED BY <1>7, <3>1 DEF NamesFrom
  <2>3. CASE n # 0 /\ Noted(j, n, TRUE) /\ k = j
    <3>1. index[k] # Absent => f <= index[k].seqno
      BY DEF NamesFrom
    <3> QED BY <1>5, <1>7, <2>3, <3>1 DEF Noted
  <2> QED BY <1>6, <2>1, <2>2, <2>3
<1> QED BY <1>3, <1>4, <1>7 DEF NamesFrom

\* A fill raises an entry of the index and adds none.
LEMMA FillNames ==
    ASSUME DShape, IndexInv, NEW r \in Readers, NoteFill(r), NEW k \in Key, NEW f \in Nat,
           NamesFrom(k, f)
    PROVE  NamesFrom(k, f)'
<1>1. PICK j \in Key, n \in Nat : j = reads[r].key /\ n = reads[r].seqno
  BY ReadFields
<1>2. NoteSeqno(j, n, FALSE, FALSE) /\ UNCHANGED <<docs, marks>>
  BY <1>1 DEF NoteFill, diskVars, writeVars
<1>3. Noted(j, n, FALSE)
  BY <1>2, NoteEffect, ShapeIs
<1>4. index[j] = Absent => index'[j] = Absent
  BY <1>3, Zenon DEF Noted, MayIndex, IndexInv, Indexed
<1>5. LastSeqno(k)' = LastSeqno(k)
  BY <1>2, SameDocs
<1>6. ASSUME index'[k] # Absent PROVE f <= index'[k].seqno
  <2>1. CASE k # j
    <3>1. index'[k] = index[k]
      BY <1>3, <1>6, <2>1 DEF Noted
    <3> QED BY <1>6, <3>1 DEF NamesFrom
  <2>2. CASE k = j
    <3>1. index[k] # Absent /\ f <= index[k].seqno
      BY <1>4, <1>6, <2>2 DEF NamesFrom
    <3>2. index[k].seqno \in Nat
      BY <3>1, ShapeIs DEF IndexTypes, SeqEntry
    <3> QED BY <1>3, <2>2, <3>1, <3>2 DEF Noted
  <2> QED BY <2>1, <2>2
<1> QED BY <1>2, <1>5, <1>6 DEF NamesFrom

\* So every step names documents from f on.
LEMMA NextNames ==
    ASSUME DShape, IndexInv, [Next]_vars, NEW k \in Key, NEW f \in Nat, NamesFrom(k, f)
    PROVE  NamesFrom(k, f)'
<1>1. ASSUME NEW doSort \in BOOLEAN, NEW ok \in BOOLEAN, WriteDocs(doSort, ok) PROVE NamesFrom(k, f)'
  BY <1>1, WriteNames
<1>2. CASE MarkPersisted
  BY <1>2, MarkNamesFrom
<1>3. ASSUME NEW r \in Readers, NoteFill(r) PROVE NamesFrom(k, f)'
  BY <1>3, FillNames
<1>4. ASSUME UNCHANGED <<diskVars, marks, indexVars>> PROVE NamesFrom(k, f)'
  BY <1>4, NamesStay DEF diskVars, indexVars
<1>5. ASSUME NEW t \in IOThreads, NEW j \in Key, HandleSet(t, j) \/ HandleDelete(t, j)
      PROVE  UNCHANGED <<diskVars, marks, indexVars>>
  BY <1>5 DEF HandleSet, HandleDelete, WriteThrough, writeVars
<1>6. ASSUME NEW t \in IOThreads, IOStep(t) PROVE UNCHANGED <<diskVars, marks, indexVars>>
  BY <1>6 DEF IOStep, StageWrite, RefuseSet, RefuseDelete, Refuse, FlushStaged, writeVars
<1>7. ASSUME Sweep \/ Trim \/ Complete PROVE UNCHANGED <<diskVars, marks, indexVars>>
  BY <1>7 DEF Sweep, Trim, Complete
<1>8. ASSUME NEW r \in Readers,
             SeqnoHint(r) \/ GetDocs(r) \/ PutIfAbsent(r) \/ SendGetResponse(r) \/ \E j \in Key : HandleGet(r, j)
      PROVE  UNCHANGED <<diskVars, marks, indexVars>>
  BY <1>8 DEF SeqnoHint, GetDocs, PutIfAbsent, SendGetResponse, HandleGet, writeVars
<1>9. ASSUME (\E j \in Key : ServeCachedGets(j)) \/ (\E b \in Budgets : SetBudget(b)) \/ Quiet \/ UNCHANGED vars
      PROVE  UNCHANGED <<diskVars, marks, indexVars>>
  BY <1>9 DEF ServeCachedGets, SetBudget, Quiet, vars, writeVars
<1> QED BY <1>1, <1>2, <1>3, <1>4, <1>5, <1>6, <1>7, <1>8, <1>9 DEF Next, WriterStep, ReadStep

\* A GET that misses starts from k's last document: k's writes are settled.
LEMMA MissNames ==
    ASSUME DShape, IndexInv, PinInv, NEW k \in Key \ refused, cache[k] = Absent
    PROVE  NamesFrom(k, LastSeqno(k))
<1>1. Count(k) = 0 /\ IsFiniteSet(Unmarked(k))
  <2>1. PinsOf(k) /\ Carry(k) = 0
    BY DEF PinInv, Carry
  <2>2. Count(k) \in Nat /\ deduped[k] \in Nat
    BY <2>1, CountType, ShapeIs DEF PinsOf, DiskTypes
  <2> QED BY <2>1, <2>2 DEF PinsOf
<1>2. Unmarked(k) = {}
  BY <1>1, FS_EmptySet DEF Count
<1>3. ASSUME NEW i \in DOMAIN marks, marks[i].key = k PROVE FALSE
  <2>1. InMarkOf(AtMark(i), k)
    BY <1>3 DEF WritesTo, InMarkOf
  <2> QED BY <1>2, <2>1, UnmarkedIs DEF Collected
<1>4. LastSeqno(k) \in Nat
  BY LastDoc, ShapeIs DEF OnDisk, DiskTypes
<1>5. index[k] # Absent => index[k].seqno = LastSeqno(k)
  BY <1>3 DEF IndexInv, Coming
<1> QED BY <1>3, <1>4, <1>5 DEF NamesFrom

\* What a step of reader r makes of its GET: the same key and floor, a hint from
\* the index, a document that is the last one or the hinted one.
Advances(r, rd) ==
    /\ reads' = [reads EXCEPT ![r] = rd] /\ reads[r].pc # "idle"
    /\ rd.key = reads[r].key /\ rd.floor = reads[r].floor
    /\ \/ rd.hint = 0 \/ rd.hint = reads[r].hint
       \/ index[rd.key] # Absent /\ rd.hint = index[rd.key].seqno
    /\ rd.pc \in {"note", "fill", "answer"} =>
         \/ reads[r].pc \in {"note", "fill", "answer"} /\ rd.seqno = reads[r].seqno
         \/ rd.seqno = LastSeqno(rd.key)
         \/ rd.seqno = reads[r].hint /\ reads[r].hint # 0

\* Every step of a reader is of this kind.
LEMMA ReadAdvances ==
    ASSUME DShape, NEW r \in Readers, ReadStep(r)
    PROVE  \E rd : Advances(r, rd)
<1>0. reads \in [Readers -> Read] /\ reads[r] \in Read
  BY ShapeIs DEF ReadTypes
<1>1. PICK old \in Read : old = reads[r]
  BY <1>0
<1>2. CASE SeqnoHint(r)
  <2>1. PICK e, h : e = index[old.key] /\ h = IF e = Absent \/ e.del THEN 0 ELSE e.seqno
    OBVIOUS
  <2>2. PICK rd : rd = [old EXCEPT !.pc = "get", !.hint = h]
    OBVIOUS
  <2>3. rd.pc = "get" /\ rd.hint = h /\ rd.key = old.key /\ rd.floor = old.floor
    BY <2>2 DEF Read
  <2>4. reads' = [reads EXCEPT ![r] = rd] /\ old.pc = "hint"
    BY <1>0, <1>1, <1>2, <2>1, <2>2 DEF SeqnoHint
  <2>5. h = 0 \/ (index[old.key] # Absent /\ h = index[old.key].seqno)
    BY <2>1
  <2> QED BY <1>1, <2>3, <2>4, <2>5 DEF Advances
<1>3. CASE GetDocs(r)
  <2>1. PICK n \in {LastSeqno(old.key)} \cup ({old.hint} \ {0}) :
           reads' = [reads EXCEPT ![r].seqno = n,
                       ![r].pc = IF docs[n].del THEN "answer" ELSE "note"]
    BY <1>1, <1>3 DEF GetDocs
  <2>2. PICK p : p = IF docs[n].del THEN "answer" ELSE "note"
    OBVIOUS
  <2>3. PICK rd : rd = [old EXCEPT !.seqno = n, !.pc = p]
    OBVIOUS
  <2>4. rd.hint = old.hint /\ rd.key = old.key /\ rd.floor = old.floor /\ rd.seqno = n
    BY <2>3 DEF Read
  <2>5. reads' = [reads EXCEPT ![r] = rd] /\ old.pc = "get"
    BY <1>0, <1>1, <1>3, <2>1, <2>2, <2>3 DEF GetDocs
  <2>6. n = LastSeqno(old.key) \/ (n = old.hint /\ old.hint # 0)
    BY <2>1
  <2>7. LastSeqno(rd.key) = LastSeqno(old.key)
    BY <2>4
  <2> QED BY <1>1, <2>4, <2>5, <2>6, <2>7 DEF Advances
<1>4. ASSUME NEW p, reads' = [reads EXCEPT ![r].pc = p], old.pc \in {"note", "fill", "answer"}
      PROVE  \E rd : Advances(r, rd)
  <2>1. PICK rd : rd = [old EXCEPT !.pc = p]
    OBVIOUS
  <2>2. rd.hint = old.hint /\ rd.key = old.key /\ rd.floor = old.floor /\ rd.seqno = old.seqno
    BY <2>1 DEF Read
  <2>3. reads' = [reads EXCEPT ![r] = rd]
    BY <1>0, <1>1, <1>4, <2>1
  <2> QED BY <1>1, <1>4, <2>2, <2>3 DEF Advances
<1>5. CASE NoteFill(r)
  BY <1>1, <1>4, <1>5 DEF NoteFill
<1>6. CASE PutIfAbsent(r)
  BY <1>1, <1>4, <1>6 DEF PutIfAbsent
<1>7. CASE SendGetResponse(r)
  BY <1>1, <1>4, <1>7 DEF SendGetResponse
<1> QED BY <1>2, <1>3, <1>5, <1>6, <1>7 DEF ReadStep

\* Every step keeps what the GETs have found.
LEMMA NextReads == DShape /\ IndexInv /\ PinInv /\ ReadInv /\ [Next]_vars => ReadInv'
<1> SUFFICES ASSUME DShape, IndexInv, PinInv, ReadInv, [Next]_vars PROVE ReadInv'
  OBVIOUS
<1>0. reads \in [Readers -> Read] /\ \A k \in Key : LastSeqno(k) \in Nat
  BY ShapeIs, LastDoc DEF ReadTypes, OnDisk, DiskTypes
<1>1. ASSUME NEW k \in Key, NEW f \in Nat, NamesFrom(k, f) PROVE NamesFrom(k, f)'
  BY <1>1, NextNames
<1>2. refused \subseteq refused'
  <2>1. ASSUME NEW t \in IOThreads, NEW k \in Key, HandleSet(t, k) \/ HandleDelete(t, k)
        PROVE  refused' = refused
    BY <2>1 DEF HandleSet, HandleDelete, WriteThrough
  <2>2. ASSUME NEW t \in IOThreads, IOStep(t) PROVE refused \subseteq refused'
    BY <2>2 DEF IOStep, StageWrite, RefuseSet, RefuseDelete, Refuse, FlushStaged
  <2>3. ASSUME WriterStep PROVE refused' = refused
    BY <2>3 DEF WriterStep, Sweep, MarkPersisted, Trim, Complete, WriteDocs, ioVars
  <2>4. ASSUME NEW r \in Readers, (\E k \in Key : HandleGet(r, k)) \/ ReadStep(r) PROVE refused' = refused
    BY <2>4 DEF HandleGet, ReadStep, SeqnoHint, GetDocs, NoteFill, PutIfAbsent, SendGetResponse, ioVars
  <2>5. ASSUME (\E k \in Key : ServeCachedGets(k)) \/ (\E b \in Budgets : SetBudget(b)) \/ Quiet \/ UNCHANGED vars
        PROVE  refused' = refused
    BY <2>5 DEF ServeCachedGets, SetBudget, Quiet, vars, ioVars
  <2> QED BY <2>1, <2>2, <2>3, <2>4, <2>5 DEF Next
<1>3. ASSUME NEW r \in Readers, reads'[r] = reads[r], reads'[r].pc # "idle", reads'[r].key \notin refused'
      PROVE  FoundFrom(reads[r])'
  <2>1. PICK rd \in Read : rd = reads[r] /\ rd = reads'[r] /\ rd.key \in Key /\ rd.floor \in Nat
    BY <1>0, <1>3, ReadFields
  <2>2. FoundFrom(rd)
    BY <1>2, <1>3, <2>1 DEF ReadInv
  <2>3. NamesFrom(rd.key, rd.floor)'
    BY <1>1, <2>1, <2>2 DEF FoundFrom
  <2> QED BY <2>1, <2>2, <2>3 DEF FoundFrom
<1>4. ASSUME NEW r \in Readers, NEW rd, Advances(r, rd), rd.key \notin refused' PROVE FoundFrom(rd)'
  <2>1. PICK old \in Read : /\ old = reads[r] /\ old.key \in Key /\ old.floor \in Nat
                            /\ old.hint \in Nat /\ old.seqno \in Nat
    BY <1>0, ReadFields
  <2>2. /\ rd.key = old.key /\ rd.floor = old.floor /\ old.pc # "idle"
        /\ \/ rd.hint = 0 \/ rd.hint = old.hint
           \/ index[old.key] # Absent /\ rd.hint = index[old.key].seqno
        /\ rd.pc \in {"note", "fill", "answer"} =>
             \/ old.pc \in {"note", "fill", "answer"} /\ rd.seqno = old.seqno
             \/ rd.seqno = LastSeqno(old.key)
             \/ rd.seqno = old.hint /\ old.hint # 0
    BY <1>4, <2>1 DEF Advances
  <2>3. FoundFrom(old)
    BY <1>2, <1>4, <2>1, <2>2 DEF ReadInv
  <2>4. NamesFrom(old.key, old.floor) /\ NamesFrom(old.key, old.floor)'
    BY <1>1, <2>1, <2>3 DEF FoundFrom
  <2>5. rd.hint # 0 => rd.floor <= rd.hint
    BY <2>2, <2>3, <2>4 DEF FoundFrom, NamesFrom
  <2>6. rd.pc \in {"note", "fill", "answer"} => rd.floor <= rd.seqno
    BY <2>2, <2>3, <2>4 DEF FoundFrom, NamesFrom
  <2> QED BY <2>2, <2>4, <2>5, <2>6 DEF FoundFrom
<1>5. ASSUME NEW r \in Readers, NEW k \in Key, HandleGet(r, k) PROVE ReadInv'
  <2>1. PICK rd : rd = [pc |-> "hint", key |-> k, floor |-> LastSeqno(k), hint |-> 0, seqno |-> 0]
    OBVIOUS
  <2>2. reads' = [reads EXCEPT ![r] = rd] /\ cache[k] = Absent
    BY <1>5, <2>1 DEF HandleGet
  <2>3. reads'[r] = rd /\ \A q \in Readers \ {r} : reads'[q] = reads[q]
    BY <1>0, <2>2
  <2>4. ASSUME rd.key \notin refused' PROVE FoundFrom(rd)'
    <3>1. NamesFrom(k, LastSeqno(k))
      BY <1>2, <2>1, <2>2, <2>4, MissNames
    <3>2. PICK f \in Nat : f = LastSeqno(k)
      BY <1>0
    <3>3. NamesFrom(k, f)'
      BY <1>1, <3>1, <3>2
    <3>4. rd.key = k /\ rd.floor = f /\ rd.hint = 0 /\ rd.pc = "hint"
      BY <2>1, <3>2
    <3> QED BY <3>3, <3>4 DEF FoundFrom
  <2> QED BY <1>3, <2>3, <2>4 DEF ReadInv
<1>6. ASSUME NEW r \in Readers, ReadStep(r) PROVE ReadInv'
  <2>1. PICK rd : Advances(r, rd)
    BY <1>6, ReadAdvances
  <2>2. reads'[r] = rd /\ \A q \in Readers \ {r} : reads'[q] = reads[q]
    BY <1>0, <2>1 DEF Advances
  <2> QED BY <1>3, <1>4, <2>1, <2>2 DEF ReadInv
<1>7. ASSUME reads' = reads PROVE ReadInv'
  BY <1>3, <1>7 DEF ReadInv
<1>8. ASSUME NEW t \in IOThreads, (\E k \in Key : HandleSet(t, k) \/ HandleDelete(t, k)) \/ IOStep(t)
      PROVE  reads' = reads
  BY <1>8 DEF HandleSet, HandleDelete, WriteThrough, IOStep, StageWrite, RefuseSet, RefuseDelete,
              Refuse, FlushStaged
<1>9. ASSUME WriterStep PROVE reads' = reads
  BY <1>9 DEF WriterStep, Sweep, MarkPersisted, Trim, Complete, WriteDocs
<1>10. ASSUME (\E k \in Key : ServeCachedGets(k)) \/ (\E b \in Budgets : SetBudget(b)) \/ Quiet \/ UNCHANGED vars
       PROVE  reads' = reads
  BY <1>10 DEF ServeCachedGets, SetBudget, Quiet, vars
<1> QED BY <1>5, <1>6, <1>7, <1>8, <1>9, <1>10 DEF Next

\* With dedupe, evictions, budget cuts and refusals of other keys, and any number
\* of event loops and readers: while a write to a key none of whose writes was
\* refused is on its way every GET of it hits and gets no version older than the
\* newest acknowledged one (putEntry, Shard::evict, MarkPersisted), and a GET that
\* misses brings back no document older than the one magma held at the miss
\* (SeqnoHint, fillCache, noteSeqno).
THEOREM ReadsAreFresh == NoWrap /\ Spec => []ReadsFresh
<1>1. DShape /\ PinInv /\ FreshInv /\ ReadInv => ReadsFresh
  <2> SUFFICES ASSUME DShape, PinInv, FreshInv, ReadInv PROVE ReadsFresh
    OBVIOUS
  <2>1. ASSUME NEW k \in Key \ refused, ~Settled(k) PROVE cache[k] # Absent /\ cache[k].id >= acked[k]
    <3>1. PinsOf(k)
      BY DEF PinInv
    <3>2. Count(k) \in Nat /\ deduped[k] \in Nat
      BY <3>1, CountType, ShapeIs DEF PinsOf, DiskTypes
    <3>3. Count(k) # 0
      BY <2>1, <3>1, FS_EmptySet DEF PinsOf, Settled, Count
    <3>4. Carry(k) # 0
      BY <3>1, <3>2, <3>3 DEF PinsOf
    <3>5. cache[k] # Absent /\ acked[k] <= cache[k].id
      BY <3>4 DEF FreshInv, FreshOf, NoneNewer, Carry
    <3>6. acked[k] \in Int /\ cache[k].id \in Int
      BY <3>5, ShapeIs, Numbers DEF IOTypes, CacheTypes, Entry, Id
    <3> QED BY <3>5, <3>6
  <2>2. ASSUME NEW r \in Readers, reads[r].pc \in {"note", "fill", "answer"}, reads[r].key \notin refused
        PROVE  reads[r].seqno >= reads[r].floor
    <3>1. FoundFrom(reads[r])
      BY <2>2 DEF ReadInv
    <3>2. reads[r].floor <= reads[r].seqno
      BY <2>2, <3>1 DEF FoundFrom
    <3>3. reads[r].floor \in Nat /\ reads[r].seqno \in Nat
      BY ReadFields
    <3> QED BY <3>2, <3>3
  <2> QED BY <2>1, <2>2 DEF ReadsFresh
<1>2. Init => ReadInv
  <2> SUFFICES ASSUME Init, NEW r \in Readers PROVE reads[r].pc = "idle"
    BY DEF ReadInv
  <2> QED BY DEF Init
<1>3. NoWrap /\ DShape /\ IndexInv /\ PinInv /\ FreshInv /\ ReadInv /\ [Next]_vars
      => DShape' /\ IndexInv' /\ PinInv' /\ FreshInv' /\ ReadInv'
  BY NextShape, NextPins, NextFresh, NextReads
<1>4. Init => DShape /\ IndexInv /\ PinInv /\ FreshInv
  BY InitShape, InitPins, InitFresh
<1>5. NoWrap' <=> NoWrap
  BY DEF NoWrap
<1> QED BY <1>1, <1>2, <1>3, <1>4, <1>5, PTL DEF Spec

=============================================================================
