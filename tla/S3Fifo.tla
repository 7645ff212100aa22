-------------------------------- MODULE S3Fifo --------------------------------
(***************************************************************************)
(* One shard of the S3-FIFO document cache: the open-addressing index from *)
(* key hash to entry (FlatIndex), the small and main queues with the       *)
(* frequencies and pins of their entries, the ghost queue of hashes        *)
(* evicted from small, and the operations IO threads, readers, writers and *)
(* the memory governor run on it.  DocCache takes the victim of an         *)
(* eviction to be any unpinned entry; here it is the one the code picks.   *)
(* (src/server/cache/s3fifo_cache.cc)                                      *)
(*                                                                         *)
(* A step is what runs under the shard's lock, shared or exclusive.        *)
(***************************************************************************)
EXTENDS Integers, Sequences, SequencesExt, FiniteSets, Functions

CONSTANTS
    Key,            \* document keys
    NoKey,          \* nullptr
    Hash,           \* key -> hashKey
    Charges,        \* what an entry can be charged
    Budgets,        \* the shard budgets the governor may set
    SmallPercent,   \* kSmallPercent
    MaxFreq,        \* kMaxFreq
    InitCap,        \* slots of the first index table (1024)
    GhostFloor,     \* least capacity of the ghost queue (1024)
    Doorkeeper,     \* fillDoorkeeper_
    Word,           \* modulus of the uint32_t counter Entry::pending
    Writers,        \* number of writer threads
    Readers,        \* fills that can be in progress at once
    MaxQueued,      \* bound: writes queued at once
    MaxRefused      \* bound: writes refused

ASSUME Sizes ==
    /\ IsFiniteSet(Key) /\ NoKey \notin Key /\ Hash \in [Key -> Nat]
    /\ Charges \subseteq Nat \ {0} /\ Budgets \subseteq Nat /\ Budgets # {}
    /\ SmallPercent \in 0..100 /\ MaxFreq \in Nat \ {0}
    /\ InitCap \in Nat \ {0, 1} /\ GhostFloor \in Nat \ {0}
    /\ Word \in Nat \ {0, 1} /\ Writers \in Nat
    /\ MaxQueued \in Nat /\ MaxRefused \in Nat

VARIABLES
    shard,          \* index, queues, entries and ghosts
    budget,         \* Shard::budget
    queued,         \* key -> Puts whose write is not yet applied or refused
    refused,        \* writes refused so far
    trims,          \* MarkPersisted calls about to trim
    fill            \* reader -> the PutIfAbsent it is in

vars == <<shard, budget, queued, refused, trims, fill>>

Entry == [pending : 0..Word-1, freq : 0..MaxFreq, charge : Charges,
          queue : {"small", "main"}]
None  == [pending |-> 0, freq |-> 0, charge |-> 0, queue |-> "none"]

-----------------------------------------------------------------------------
(* FlatIndex: linear probing, backward-shift deletion *)

Table(cap) == [cap |-> cap, slots |-> [i \in 0..cap-1 |-> NoKey]]

\* The slot d probes from the home of a hash.
Slot(t, h, d) == (h + d) % t.cap

Held(t) == {i \in 0..t.cap-1 : t.slots[i] # NoKey}

\* Probes before the first slot that holds x.
Distance(t, h, x) ==
    CHOOSE d \in 0..t.cap-1 :
        /\ t.slots[Slot(t, h, d)] = x
        /\ \A e \in 0..d-1 : t.slots[Slot(t, h, e)] # x

\* find: a hole ends the search.
Find(t, k) ==
    \E d \in 0..t.cap-1 :
        /\ t.slots[Slot(t, Hash[k], d)] = k
        /\ \A e \in 0..d-1 : t.slots[Slot(t, Hash[k], e)] # NoKey

Place(t, k) ==
    [t EXCEPT !.slots[Slot(t, Hash[k], Distance(t, Hash[k], NoKey))] = k]

\* grow: twice the slots, filled in the order of the old ones.
Larger(t)   == Table(IF t.cap = 0 THEN InitCap ELSE 2 * t.cap)
Refill(u, x) == IF x = NoKey THEN u ELSE Place(u, x)
Grow(t) ==
    LET moved[i \in 0..t.cap] == IF i = 0 THEN Larger(t)
                                 ELSE Refill(moved[i-1], t.slots[i-1])
    IN  moved[t.cap]

\* insert grows the table before it is more than 70% full.
Full(t) == (Cardinality(Held(t)) + 1) * 10 > t.cap * 7

IndexInsert(t, k) == Place(IF Full(t) THEN Grow(t) ELSE t, k)

\* Mutant: a cluster that wraps around the table is not seen as one.
StraightBetween(home, i, j) == home > i /\ home <= j

\* Does home lie cyclically in (i, j]?
Between(home, i, j) ==
    IF i <= j THEN home > i /\ home <= j ELSE home > i \/ home <= j

\* Slot j of the cluster moves back into the hole if its home is not behind it.
ShiftBack(cap, p, j) ==
    LET x == p.slots[j] IN
    IF p.end \/ x = NoKey THEN [p EXCEPT !.end = TRUE]
    ELSE IF Between(Hash[x] % cap, p.hole, j) THEN p
    ELSE [p EXCEPT !.slots[p.hole] = x, !.hole = j]

\* erase: later members of the cluster move back into the hole.
IndexErase(t, k) ==
    LET at == Slot(t, Hash[k], Distance(t, Hash[k], k))
        shift[d \in 0..t.cap-1] ==
            IF d = 0 THEN [slots |-> t.slots, hole |-> at, end |-> FALSE]
            ELSE ShiftBack(t.cap, shift[d-1], (at + d) % t.cap)
        last == shift[t.cap-1]
    IN  IF Find(t, k) THEN [t EXCEPT !.slots = [last.slots EXCEPT ![last.hole] = NoKey]]
        ELSE t

-----------------------------------------------------------------------------
(* Queues, entries and ghosts.  A queue is a sequence with its head first. *)

\* What the entries of a set of keys are charged together, one member a byte.
Charged(s, K) == UNION {{k} \X (1..s.entry[k].charge) : k \in K}
Bytes(s, K)   == Cardinality(Charged(s, K))
SmallBytes(s) == Bytes(s, Range(s.small))
MainBytes(s)  == Bytes(s, Range(s.main))
TotalBytes(s) == SmallBytes(s) + MainBytes(s)
SmallBudget(b) == (b * SmallPercent) \div 100
Count(s) == Len(s.small) + Len(s.main)

Resident(s) == {k \in Key : s.entry[k] # None}
Pinned(s)   == {k \in Resident(s) : s.entry[k].pending > 0}

PushHead(s, q, k) ==
    IF q = "small" THEN [s EXCEPT !.small = <<k>> \o @, !.entry[k].queue = q]
                   ELSE [s EXCEPT !.main  = <<k>> \o @, !.entry[k].queue = q]

Without(q, k) == RemoveAt(q, CHOOSE i \in DOMAIN q : q[i] = k)

Unlink(s, k) ==
    IF s.entry[k].queue = "small" THEN [s EXCEPT !.small = Without(@, k)]
                                  ELSE [s EXCEPT !.main = Without(@, k)]

\* The entry leaves the index and is destroyed.
Free(s, k) == [s EXCEPT !.index = IndexErase(@, k), !.entry[k] = None]

\* insert: a remembered hash goes straight to main.
Insert(s, k, e) ==
    LET q == IF Hash[k] \in s.ghostSet THEN "main" ELSE "small"
    IN  PushHead([s EXCEPT !.entry[k] = e, !.index = IndexInsert(@, k)], q, k)

\* Mutant: a hash that is remembered already is queued once more.
GhostAgain(s, h) ==
    LET g   == Append(s.ghost, h)
        cap == IF Len(s.main) > GhostFloor THEN Len(s.main) ELSE GhostFloor
        out == IF Len(g) > cap THEN Len(g) - cap ELSE 0
    IN  [s EXCEPT !.ghost = SubSeq(g, out + 1, Len(g)),
                  !.ghostSet = (@ \cup {h}) \ {g[i] : i \in 1..out}]

\* ghostAdd: a remembered hash stays where it is; the oldest go at the cap.
GhostAdd(s, h) ==
    LET g   == Append(s.ghost, h)
        cap == IF Len(s.main) > GhostFloor THEN Len(s.main) ELSE GhostFloor
        out == IF Len(g) > cap THEN Len(g) - cap ELSE 0
    IN  IF h \in s.ghostSet THEN s
        ELSE [s EXCEPT !.ghost = SubSeq(g, out + 1, Len(g)),
                       !.ghostSet = (@ \cup {h}) \ {g[i] : i \in 1..out}]

-----------------------------------------------------------------------------
(* Eviction *)

\* The tail of small: a pinned entry or one hit twice moves to main.
EvictSmall(s) ==
    LET k == Last(s.small)
        e == s.entry[k]
        t == [s EXCEPT !.small = Front(@)]
    IN  IF e.pending > 0 \/ e.freq > 1
          THEN PushHead([t EXCEPT !.entry[k].freq = 0], "main", k)
          ELSE Free(GhostAdd(t, Hash[k]), k)

\* Mutant: the pins of an entry in main do not keep it.
EvictMainAny(s) ==
    LET k == Last(s.main)
        e == s.entry[k]
        t == [s EXCEPT !.main = Front(@)]
    IN  IF e.freq > 0 THEN PushHead([t EXCEPT !.entry[k].freq = @ - 1], "main", k)
                      ELSE Free(t, k)

\* The tail of main: a pinned entry or one with hits left goes round again.
EvictMain(s) ==
    LET k == Last(s.main)
        e == s.entry[k]
        t == [s EXCEPT !.main = Front(@)]
    IN  IF e.pending > 0 \/ e.freq > 0
          THEN PushHead([t EXCEPT !.entry[k].freq = IF @ > 0 THEN @ - 1 ELSE @],
                        "main", k)
          ELSE Free(t, k)

EvictOne(s, b) ==
    IF SmallBytes(s) > SmallBudget(b) /\ s.small # <<>> THEN EvictSmall(s)
    ELSE IF s.main # <<>> THEN EvictMain(s)
    ELSE IF s.small # <<>> THEN EvictSmall(s)
    ELSE s

\* Mutant: room for one pass per hit, and none for the move out of small.
GuardShort(s) == MaxFreq * Count(s) + 1

\* The passes it may take to wear the frequencies down.
Guard(s) == (MaxFreq + 1) * Count(s) + 1

Pass(s, b) == IF TotalBytes(s) > b THEN EvictOne(s, b) ELSE s

Evict(s, b) ==
    LET after[n \in 0..Guard(s)] == IF n = 0 THEN s ELSE Pass(after[n-1], b)
    IN  IF TotalBytes(s) > b THEN after[Guard(s)] ELSE s

-----------------------------------------------------------------------------
(* What the threads do *)

Init ==
    /\ shard = [index |-> Table(0), small |-> <<>>, main |-> <<>>,
                entry |-> [k \in Key |-> None], ghost |-> <<>>, ghostSet |-> {}]
    /\ budget \in Budgets
    /\ queued = [k \in Key |-> 0]
    /\ refused = 0 /\ trims = 0
    /\ fill = [r \in Readers |-> [pc |-> "idle", key |-> NoKey]]

\* A hit, copied out or handed to a callback, under the shared lock.
Get(k) ==
    /\ Find(shard.index, k)
    /\ shard' = [shard EXCEPT !.entry[k].freq = IF @ < MaxFreq THEN @ + 1 ELSE @]
    /\ UNCHANGED <<budget, queued, refused, trims, fill>>

\* Writes that are queued, over all keys.
Queued == Cardinality(UNION {{k} \X (1..queued[k]) : k \in Key})

\* putEntry: the pins of a replaced entry are carried over.
PutEntry(k, c) ==
    LET old   == Find(shard.index, k)
        carry == IF old THEN shard.entry[k].pending ELSE 0
        s     == IF old THEN Free(Unlink(shard, k), k) ELSE shard
        e     == [pending |-> (carry + 1) % Word, freq |-> 0, charge |-> c,
                  queue |-> "small"]
    IN  /\ Queued < MaxQueued
        /\ queued' = [queued EXCEPT ![k] = @ + 1]
        /\ shard' = Evict(Insert(s, k, e), budget)
        /\ UNCHANGED <<budget, refused, trims, fill>>

\* The write is applied: one pin is released, and the shard trimmed if that
\* was the last one and it is over budget.
MarkPersisted(k) ==
    LET found == Find(shard.index, k)
        last  == found /\ shard.entry[k].pending = 1
    IN  /\ queued[k] > 0 /\ trims < Writers
        /\ queued' = [queued EXCEPT ![k] = @ - 1]
        /\ shard' = IF found THEN [shard EXCEPT !.entry[k].pending = (@ - 1) % Word]
                    ELSE shard
        /\ trims' = IF last /\ TotalBytes(shard) > budget THEN trims + 1 ELSE trims
        /\ UNCHANGED <<budget, refused, fill>>

Trim ==
    /\ trims > 0
    /\ trims' = trims - 1
    /\ shard' = Evict(shard, budget)
    /\ UNCHANGED <<budget, queued, refused, fill>>

\* The write is refused.
Erase(k) ==
    /\ queued[k] > 0 /\ refused < MaxRefused
    /\ refused' = refused + 1
    /\ queued' = [queued EXCEPT ![k] = @ - 1]
    /\ shard' = IF Find(shard.index, k) THEN Free(Unlink(shard, k), k) ELSE shard
    /\ UNCHANGED <<budget, trims, fill>>

\* PutIfAbsent looks under the shared lock first.
FillCheck(r, k) ==
    /\ fill[r].pc = "idle" /\ ~Find(shard.index, k)
    /\ fill' = [fill EXCEPT ![r] = [pc |-> IF Doorkeeper THEN "door" ELSE "insert",
                                    key |-> k]]
    /\ UNCHANGED <<shard, budget, queued, refused, trims>>

\* The doorkeeper remembers a key and lets it in on its next miss.
FillDoor(r) ==
    LET h == Hash[fill[r].key] IN
    /\ fill[r].pc = "door"
    /\ IF h \in shard.ghostSet
         THEN /\ fill' = [fill EXCEPT ![r].pc = "insert"]
              /\ UNCHANGED shard
         ELSE /\ fill' = [fill EXCEPT ![r] = [pc |-> "idle", key |-> NoKey]]
              /\ shard' = GhostAdd(shard, h)
    /\ UNCHANGED <<budget, queued, refused, trims>>

\* Mutant: the second lock does not look again.
FillBlind(r, c) ==
    /\ fill[r].pc = "insert"
    /\ fill' = [fill EXCEPT ![r] = [pc |-> "idle", key |-> NoKey]]
    /\ shard' = Evict(Insert(shard, fill[r].key,
                        [pending |-> 0, freq |-> 0, charge |-> c,
                         queue |-> "small"]), budget)
    /\ UNCHANGED <<budget, queued, refused, trims>>

\* Under the exclusive lock, if the key is still absent.
FillInsert(r, c) ==
    LET k == fill[r].key
        e == [pending |-> 0, freq |-> 0, charge |-> c, queue |-> "small"]
    IN  /\ fill[r].pc = "insert"
        /\ fill' = [fill EXCEPT ![r] = [pc |-> "idle", key |-> NoKey]]
        /\ shard' = IF Find(shard.index, k) THEN shard
                    ELSE Evict(Insert(shard, k, e), budget)
        /\ UNCHANGED <<budget, queued, refused, trims>>

SetBudget(b) ==
    /\ b < budget
    /\ budget' = b
    /\ shard' = Evict(shard, b)
    /\ UNCHANGED <<queued, refused, trims, fill>>

Next ==
    \/ \E k \in Key : Get(k) \/ MarkPersisted(k) \/ Erase(k)
    \/ \E k \in Key, c \in Charges : PutEntry(k, c)
    \/ Trim
    \/ \E r \in Readers, k \in Key : FillCheck(r, k)
    \/ \E r \in Readers : FillDoor(r) \/ \E c \in Charges : FillInsert(r, c)
    \/ \E b \in Budgets : SetBudget(b)

Spec == Init /\ [][Next]_vars

-----------------------------------------------------------------------------
(* Properties *)

TypeOK ==
    /\ shard.entry \in [Key -> Entry \cup {None}]
    /\ shard.small \in Seq(Key) /\ shard.main \in Seq(Key)
    /\ shard.ghost \in Seq(Nat) /\ shard.ghostSet \subseteq Nat
    /\ shard.index.slots \in [0..shard.index.cap-1 -> Key \cup {NoKey}]
    /\ budget \in Budgets
    /\ queued \in [Key -> 0..MaxQueued]
    /\ refused \in 0..MaxRefused /\ trims \in 0..Writers
    /\ fill \in [Readers -> [pc : {"idle", "door", "insert"},
                             key : Key \cup {NoKey}]]

\* Index, queues, entries and ghosts agree.  A lookup finds exactly the
\* entries that are linked, each of them once and in the queue its flag names,
\* through collisions, clusters that wrap around the table, backward shifts
\* and growth; an entry that is linked and not found is served no more, is put
\* a second time, and is freed while a slot still names it.  Every search for
\* an absent key meets a hole.  The ghost queue and the set beside it hold the
\* same hashes, each once, so none is remembered for ever.
ShardConsistent ==
    /\ TypeOK
    /\ \A k \in Key :
         LET in(q) == Cardinality({i \in DOMAIN q : q[i] = k})
             slots == {i \in Held(shard.index) : shard.index.slots[i] = k}
             flag  == shard.entry[k].queue
         IN  /\ in(shard.small) = IF flag = "small" THEN 1 ELSE 0
             /\ in(shard.main) = IF flag = "main" THEN 1 ELSE 0
             /\ Cardinality(slots) = IF k \in Resident(shard) THEN 1 ELSE 0
             /\ Find(shard.index, k) <=> k \in Resident(shard)
    /\ shard.index.cap > 0 => Cardinality(Held(shard.index)) < shard.index.cap
    /\ IsInjective(shard.ghost) /\ shard.ghostSet = Range(shard.ghost)

\* "The cache can sit over budget by at most the bytes of unapplied writes":
\* once nobody is about to trim, what exceeds the budget is no more than the
\* pinned entries, so the guard that bounds an eviction never ends it early.
OverBudgetByPins ==
    trims = 0 => TotalBytes(shard) <= budget + Bytes(shard, Pinned(shard))

\* A pinned entry leaves the cache only with a refused write to its key: no
\* eviction, replacement or fill uncovers the older version on disk.  The one
\* exception is a count that has wrapped: after a refusal has erased the pins
\* of earlier writes, their MarkPersisted takes a later entry below zero.
PinnedStay ==
    [][\A k \in Pinned(shard) :
         k \in Resident(shard') \/ Erase(k) \/ shard.entry[k].pending = Word - 1]_vars
=============================================================================
