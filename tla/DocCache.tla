------------------------------- MODULE DocCache -------------------------------
(***************************************************************************)
(* The document cache in front of magma and everyone who touches it for    *)
(* the keys of one vbucket: IO threads put writes into it before queueing  *)
(* them (handleSet, handleDelete) and take a refused write out again, the  *)
(* vbucket's writer unpins what it has applied (MarkPersisted), readers    *)
(* fill it after a miss (fillCache), every insertion may evict, and the    *)
(* memory governor moves the budget.  The seqno index beside it remembers  *)
(* where a key's latest document is after its value has been evicted.      *)
(* (src/server/cache, src/server/connection.cc, src/server/engine.cc)      *)
(*                                                                         *)
(* The write queue is the ordered one VBucketStore describes.  A step is   *)
(* what runs under one lock of the cache.  An entry is charged one unit.   *)
(***************************************************************************)
EXTENDS Integers, Sequences, SequencesExt, FiniteSets

CONSTANTS
    IOThreads,      \* the IO event loops
    Readers,        \* GETs that can be in flight at once
    Key,            \* document keys (numbers: batches are sorted by key)
    Absent,         \* no entry, no document, no request
    Limit,          \* writeQueueMemLimit_, in requests
    Budgets,        \* the cache budgets the governor may set
    IndexCap,       \* keys the seqno index can hold
    Sort,           \* gBatchSort # Never: the writer may sort and dedupe
    Doorkeeper,     \* EnableFillDoorkeeper
    Word,           \* modulus of the uint32_t counter Entry::pending
    MaxWrites,      \* bound: SETs and DELETEs the clients send
    MaxReads        \* bound: GETs the clients send

ASSUME Sets ==
    /\ Key \subseteq Nat /\ IsFiniteSet(Key) /\ Key # {}
    /\ Budgets \subseteq Nat /\ Budgets # {}

ASSUME Numbers ==
    /\ Limit \in Nat /\ IndexCap \in Nat \ {0} /\ Word \in Nat \ {0, 1}
    /\ MaxWrites \in Nat /\ MaxReads \in Nat
    /\ Sort \in BOOLEAN /\ Doorkeeper \in BOOLEAN

VARIABLES
    inHand,         \* IO thread -> the write it has put and not yet staged
    staged,         \* IO thread -> writes staged for the vbucket, oldest first
    queue,          \* the vbucket's write queue, oldest first
    batch,          \* what its writer has swept
    wpc,            \* where the writer is in executePersist
    marks,          \* MarkPersisted calls the writer still has to make
    docs,           \* magma: seqno -> document, Absent if its batch failed
    lost,           \* writes whose batch magma refused
    deduped,        \* history: key -> writes to it that a sorted batch dropped
    cache,          \* key -> Entry or Absent
    pendingItems,   \* Shard::pendingItems
    budget,         \* Shard::budget, in entries
    index,          \* key -> SeqEntry or Absent
    seqEvicted,     \* seqEvictions > 0
    reads,          \* reader -> the GET it is working on
    issued,         \* writes received so far
    gets,           \* GETs received so far
    acked,          \* key -> newest write answered with success
    refused         \* history: keys a write to which was refused

ioVars    == <<inHand, staged, acked, refused>>
writeVars == <<queue, batch, wpc, marks>>
diskVars  == <<docs, lost, deduped>>
cacheVars == <<cache, pendingItems>>
indexVars == <<index, seqEvicted>>
vars == <<ioVars, writeVars, diskVars, cacheVars, budget, indexVars, reads,
          issued, gets>>

Id       == 0..MaxWrites
Write    == [id : Id, key : Key, del : BOOLEAN]
Entry    == [id : Id, del : BOOLEAN, seqno : Nat, pending : 0..Word-1]
SeqEntry == [seqno : Nat, del : BOOLEAN]
Mark     == [key : Key, seqno : Nat]
Read     == [pc : {"idle", "hint", "get", "note", "fill", "answer"},
             key : Key, floor : Nat, hint : Nat, seqno : Nat]

ASSUME NoneAbsent ==
    Absent \notin Write /\ Absent \notin Entry /\ Absent \notin SeqEntry

TypeOK ==
    /\ inHand \in [IOThreads -> Write \cup {Absent}]
    /\ staged \in [IOThreads -> Seq(Write)]
    /\ acked \in [Key -> Id] /\ refused \subseteq Key
    /\ queue \in Seq(Write) /\ batch \in Seq(Write)
    /\ wpc \in {"idle", "write", "mark", "trim"}
    /\ marks \in Seq(Mark)
    /\ docs \in Seq(Write \cup {Absent})
    /\ lost \subseteq Id /\ deduped \in [Key -> Nat]
    /\ cache \in [Key -> Entry \cup {Absent}]
    /\ pendingItems \in Int
    /\ budget \in Budgets
    /\ index \in [Key -> SeqEntry \cup {Absent}]
    /\ seqEvicted \in BOOLEAN
    /\ reads \in [Readers -> Read]
    /\ issued \in Id /\ gets \in 0..MaxReads

\* The seqno of the document magma holds for k; 0 if it never held one.
LastSeqno(k) ==
    LET written == {n \in DOMAIN docs : docs[n] # Absent /\ docs[n].key = k}
    IN  IF written = {} THEN 0
        ELSE CHOOSE n \in written : \A m \in written : m <= n

Indexed == {k \in Key : index[k] # Absent}

\* A restart: every key is on disk, the cache is empty, and Bucket::Open has
\* warmed the seqno index with as many keys as fit.
Init ==
    /\ inHand = [t \in IOThreads |-> Absent]
    /\ staged = [t \in IOThreads |-> <<>>]
    /\ acked = [k \in Key |-> 0] /\ refused = {}
    /\ queue = <<>> /\ batch = <<>> /\ wpc = "idle" /\ marks = <<>>
    /\ docs = LET ks == SetToSeq(Key) IN
              [n \in DOMAIN ks |-> [id |-> 0, key |-> ks[n], del |-> FALSE]]
    /\ lost = {} /\ deduped = [k \in Key |-> 0]
    /\ cache = [k \in Key |-> Absent]
    /\ pendingItems = 0
    /\ budget \in Budgets
    /\ index \in [Key -> {Absent} \cup
                    [seqno : DOMAIN docs, del : {FALSE}]]
    /\ \A k \in Indexed : index[k].seqno = LastSeqno(k)
    /\ IF Cardinality(Key) <= IndexCap
         THEN Indexed = Key /\ seqEvicted = FALSE
         ELSE Cardinality(Indexed) = IndexCap /\ seqEvicted = TRUE
    /\ reads = [r \in Readers |-> [pc |-> "idle", key |-> CHOOSE k \in Key : TRUE,
                                   floor |-> 0, hint |-> 0, seqno |-> 0]]
    /\ issued = 0 /\ gets = 0

-----------------------------------------------------------------------------
(* The cache *)

Resident(c) == {k \in Key : c[k] # Absent}

Unpinned(c) == {k \in Resident(c) : c[k].pending = 0}

\* Shard::evict: while over budget drop unpinned entries, until none is left.
\* Which ones go first (S3-FIFO's queues and frequencies) is left open.
Evict(c, b) ==
    LET over == Cardinality(Resident(c)) - b
        free == Cardinality(Unpinned(c))
        n    == IF over <= 0 THEN 0 ELSE IF over < free THEN over ELSE free
    IN  {[k \in Key |-> IF k \in V THEN Absent ELSE c[k]] :
            V \in {S \in SUBSET Unpinned(c) : Cardinality(S) = n}}

\* Writes queued for the version being replaced.
Carry(k) == IF cache[k] = Absent THEN 0 ELSE cache[k].pending

\* Mutant: a replaced entry's pins are dropped.
PinsReset(k) == 1

\* The new entry's pins: the outstanding count carried over, and its own.
Pins(k) == (Carry(k) + 1) % Word

NewlyPinned(k) == Carry(k) = 0

\* putEntry: replace and pin.
Put(w) ==
    /\ cache' \in Evict([cache EXCEPT ![w.key] =
                    [id |-> w.id, del |-> w.del, seqno |-> 0,
                     pending |-> Pins(w.key)]], budget)
    /\ pendingItems' = pendingItems + (IF NewlyPinned(w.key) THEN 1 ELSE 0)

Erase(k) ==
    /\ cache' = [cache EXCEPT ![k] = Absent]
    /\ pendingItems' = IF Carry(k) > 0 THEN pendingItems - 1 ELSE pendingItems

\* Mutant: read fills may always add a key to the index.
AdmitsAlways(admit) == TRUE

\* Once the index has evicted, a read fill's seqno may predate a write whose
\* entry is gone: only writes still add keys.
MayIndex(admit) == admit \/ ~seqEvicted

\* Shard::noteSeqno: an entry is only ever raised; a key without one gets one
\* if MayIndex, evicting another at the cap.
NoteSeqno(k, n, del, admit) ==
    IF index[k] # Absent
      THEN /\ index' = IF n > index[k].seqno \/ (n = index[k].seqno /\ del)
                         THEN [index EXCEPT ![k] = [seqno |-> n, del |-> del]]
                         ELSE index
           /\ UNCHANGED seqEvicted
      ELSE \/ ~MayIndex(admit) /\ UNCHANGED indexVars
           \/ /\ MayIndex(admit)
              /\ Cardinality(Indexed) < IndexCap
              /\ index' = [index EXCEPT ![k] = [seqno |-> n, del |-> del]]
              /\ UNCHANGED seqEvicted
           \/ /\ MayIndex(admit)
              /\ Cardinality(Indexed) >= IndexCap
              /\ \E v \in Indexed :
                   index' = [index EXCEPT ![v] = Absent,
                                          ![k] = [seqno |-> n, del |-> del]]
              /\ seqEvicted' = TRUE

\* S3FifoCache::SetBudget: the memory governor takes what the seqno index has
\* grown by from the cache, and never gives it back.
SetBudget(b) ==
    /\ b < budget
    /\ budget' = b
    /\ cache' \in Evict(cache, b)
    /\ UNCHANGED <<ioVars, writeVars, diskVars, pendingItems, indexVars, reads,
                   issued, gets>>

-----------------------------------------------------------------------------
(* SET and DELETE on an IO thread *)

\* A write is put in the cache before it is queued, a DELETE as a tombstone.
WriteThrough(t, w) ==
    /\ inHand[t] = Absent /\ issued < MaxWrites
    /\ inHand' = [inHand EXCEPT ![t] = w]
    /\ Put(w)
    /\ issued' = issued + 1
    /\ UNCHANGED <<staged, acked, refused, writeVars, diskVars, budget, indexVars,
                   reads, gets>>
HandleSet(t, k) ==
    WriteThrough(t, [id |-> issued + 1, key |-> k, del |-> FALSE])
HandleDelete(t, k) ==
    WriteThrough(t, [id |-> issued + 1, key |-> k, del |-> TRUE])

Admits(t) == Len(queue) + Len(batch) + Len(staged[t]) + 1 <= Limit

\* StageWrite accepts: the client is answered success.
StageWrite(t) ==
    /\ inHand[t] # Absent /\ Admits(t)
    /\ staged' = [staged EXCEPT ![t] = Append(@, inHand[t])]
    /\ acked' = [acked EXCEPT ![inHand[t].key] =
                   IF @ < inHand[t].id THEN inHand[t].id ELSE @]
    /\ inHand' = [inHand EXCEPT ![t] = Absent]
    /\ UNCHANGED <<refused, writeVars, diskVars, cacheVars, budget, indexVars,
                   reads, issued, gets>>

\* StageWrite refuses: TMPFAIL, and the key's entry is dropped.
Refuse(t) ==
    /\ ~Admits(t)
    /\ Erase(inHand[t].key)
    /\ refused' = refused \cup {inHand[t].key}
    /\ inHand' = [inHand EXCEPT ![t] = Absent]
    /\ UNCHANGED <<staged, acked, writeVars, diskVars, budget, indexVars, reads,
                   issued, gets>>

RefuseSet(t)    == inHand[t] # Absent /\ ~inHand[t].del /\ Refuse(t)
RefuseDelete(t) == inHand[t] # Absent /\ inHand[t].del /\ Refuse(t)

Flushed(t) == queue \o staged[t]

\* The end of a socket wake.
FlushStaged(t) ==
    /\ inHand[t] = Absent /\ staged[t] # <<>>
    /\ queue' = Flushed(t)
    /\ staged' = [staged EXCEPT ![t] = <<>>]
    /\ UNCHANGED <<inHand, acked, refused, batch, wpc, marks, diskVars, cacheVars,
                   budget, indexVars, reads, issued, gets>>

-----------------------------------------------------------------------------
(* The vbucket's writer: executePersist *)

Sweep ==
    /\ wpc = "idle" /\ queue # <<>>
    /\ batch' = queue /\ queue' = <<>>
    /\ wpc' = "write"
    /\ UNCHANGED <<ioVars, marks, diskVars, cacheVars, budget, indexVars, reads,
                   issued, gets>>

WritesTo(k, s) == {i \in DOMAIN s : s[i].key = k}

\* The keys a batch writes to.
KeysOf(b) == {b[i].key : i \in DOMAIN b}

\* The n-th of a set of keys, in their order.
Nth(S, n) == CHOOSE k \in S : Cardinality({j \in S : j <= k}) = n

\* The last write to k in a batch.
Newest(b, k) ==
    CHOOSE i \in DOMAIN b :
        b[i].key = k /\ \A j \in DOMAIN b : b[j].key = k => j <= i

\* Sorted, a batch keeps the newest write of each key, in key order.
Survivors(b, doSort) ==
    IF doSort THEN [n \in 1..Cardinality(KeysOf(b)) |->
                      b[Newest(b, Nth(KeysOf(b), n))]]
              ELSE b

\* Mutant: a failed batch is not unpinned.
MarksIfStored(ops, ok) ==
    IF ~ok THEN <<>> ELSE
    [i \in DOMAIN ops |-> [key |-> ops[i].key, seqno |-> Len(docs) + i]]

\* The MarkPersisted calls a batch ends with, with seqno 0 after a failure.
MarksOf(ops, ok) ==
    [i \in DOMAIN ops |->
        [key |-> ops[i].key, seqno |-> IF ok THEN Len(docs) + i ELSE 0]]

\* WriteDocs takes the survivors whole or fails.
WriteDocs(doSort, ok) ==
    /\ wpc = "write"
    /\ doSort => Sort /\ Len(batch) > 1
    /\ LET ops == Survivors(batch, doSort) IN
         /\ docs' = docs \o [i \in DOMAIN ops |-> IF ok THEN ops[i] ELSE Absent]
         /\ marks' = MarksOf(ops, ok)
         /\ deduped' = [k \in Key |-> deduped[k] + Cardinality(WritesTo(k, batch))
                                        - Cardinality(WritesTo(k, ops))]
    /\ lost' = IF ok THEN lost ELSE lost \cup {batch[i].id : i \in DOMAIN batch}
    /\ wpc' = "mark"
    /\ UNCHANGED <<ioVars, queue, batch, cacheVars, budget, indexVars, reads,
                   issued, gets>>

\* pending.fetch_sub(1).
Unpin(p) == (p - 1) % Word

\* MarkPersisted(k, n) under the shared lock: note the seqno with the deleted
\* flag of the entry found, record it there and release one pin.
MarkPersisted ==
    /\ wpc = "mark" /\ marks # <<>>
    /\ LET k == Head(marks).key
           n == Head(marks).seqno
           e == cache[k]
           last == Carry(k) = 1
       IN  /\ IF n = 0 THEN UNCHANGED indexVars
              ELSE NoteSeqno(k, n, e # Absent /\ e.del, TRUE)
           /\ cache' = IF e = Absent THEN cache
                ELSE [cache EXCEPT ![k].seqno = IF n = 0 THEN @ ELSE n,
                                   ![k].pending = Unpin(@)]
           /\ pendingItems' = IF last THEN pendingItems - 1 ELSE pendingItems
           /\ wpc' = IF last /\ Cardinality(Resident(cache)) > budget
                       THEN "trim" ELSE "mark"
    /\ marks' = Tail(marks)
    /\ UNCHANGED <<ioVars, queue, batch, diskVars, budget, reads, issued, gets>>

\* The trim at the end of MarkPersisted, under the lock taken anew.
Trim ==
    /\ wpc = "trim"
    /\ cache' \in Evict(cache, budget)
    /\ wpc' = "mark"
    /\ UNCHANGED <<ioVars, queue, batch, marks, diskVars, pendingItems, budget,
                   indexVars, reads, issued, gets>>

\* The batch's bytes are returned and its requests recycled.
Complete ==
    /\ wpc = "mark" /\ marks = <<>>
    /\ batch' = <<>>
    /\ wpc' = "idle"
    /\ UNCHANGED <<ioVars, queue, marks, diskVars, cacheVars, budget, indexVars,
                   reads, issued, gets>>

-----------------------------------------------------------------------------
(* GET *)

\* A hit is answered on the spot: the value, or not found for a tombstone.
ServeCachedGets(k) ==
    /\ gets < MaxReads /\ cache[k] # Absent
    /\ gets' = gets + 1
    /\ UNCHANGED <<ioVars, writeVars, diskVars, cacheVars, budget, indexVars,
                   reads, issued>>

\* handleGet: a miss goes to the readers.
HandleGet(r, k) ==
    /\ reads[r].pc = "idle" /\ gets < MaxReads /\ cache[k] = Absent
    /\ gets' = gets + 1
    /\ reads' = [reads EXCEPT ![r] = [pc |-> "hint", key |-> k,
                     floor |-> LastSeqno(k), hint |-> 0, seqno |-> 0]]
    /\ UNCHANGED <<ioVars, writeVars, diskVars, cacheVars, budget, indexVars,
                   issued>>

\* executeRead asks the seqno index where the document is ...
SeqnoHint(r) ==
    /\ reads[r].pc = "hint"
    /\ LET e == index[reads[r].key] IN
       reads' = [reads EXCEPT ![r].pc = "get",
                              ![r].hint = IF e = Absent \/ e.del THEN 0 ELSE e.seqno]
    /\ UNCHANGED <<ioVars, writeVars, diskVars, cacheVars, budget, indexVars,
                   issued, gets>>

\* ... and reads it: magma serves the key's current document, or the one the
\* hint names, which may have been superseded since.
GetDocs(r) ==
    /\ reads[r].pc = "get"
    /\ \E n \in {LastSeqno(reads[r].key)} \cup ({reads[r].hint} \ {0}) :
         reads' = [reads EXCEPT ![r].seqno = n,
                     ![r].pc = IF docs[n].del THEN "answer" ELSE "note"]
    /\ UNCHANGED <<ioVars, writeVars, diskVars, cacheVars, budget, indexVars,
                   issued, gets>>

\* fillCache: PutIfAbsent notes the seqno first, under the index's lock ...
NoteFill(r) ==
    /\ reads[r].pc = "note"
    /\ NoteSeqno(reads[r].key, reads[r].seqno, FALSE, FALSE)
    /\ reads' = [reads EXCEPT ![r].pc = "fill"]
    /\ UNCHANGED <<ioVars, writeVars, diskVars, cacheVars, budget, issued, gets>>

\* Mutant: a fill replaces what is there.
FillAlways(k) == TRUE

MayFill(k) == cache[k] = Absent

\* ... and inserts if the key is absent; the doorkeeper may only take note of
\* the miss.
PutIfAbsent(r) ==
    LET rd == reads[r]
        k  == rd.key
    IN  /\ rd.pc = "fill"
        /\ reads' = [reads EXCEPT ![r].pc = "answer"]
        /\ \/ (~MayFill(k) \/ Doorkeeper) /\ UNCHANGED cache
           \/ /\ MayFill(k)
              /\ cache' \in Evict([cache EXCEPT ![k] =
                    [id |-> docs[rd.seqno].id, del |-> FALSE,
                     seqno |-> rd.seqno, pending |-> 0]], budget)
        /\ UNCHANGED <<ioVars, writeVars, diskVars, pendingItems, budget,
                       indexVars, issued, gets>>

SendGetResponse(r) ==
    /\ reads[r].pc = "answer"
    /\ reads' = [reads EXCEPT ![r].pc = "idle"]
    /\ UNCHANGED <<ioVars, writeVars, diskVars, cacheVars, budget, indexVars,
                   issued, gets>>

-----------------------------------------------------------------------------
IOStep(t) == StageWrite(t) \/ RefuseSet(t) \/ RefuseDelete(t) \/ FlushStaged(t)

WriterStep ==
    \/ Sweep \/ MarkPersisted \/ Trim \/ Complete
    \/ \E doSort, ok \in BOOLEAN : WriteDocs(doSort, ok)

ReadStep(r) ==
    \/ SeqnoHint(r) \/ GetDocs(r) \/ NoteFill(r) \/ PutIfAbsent(r)
    \/ SendGetResponse(r)

\* Every request has been served.
Quiet ==
    /\ issued = MaxWrites /\ gets = MaxReads
    /\ \A t \in IOThreads : inHand[t] = Absent /\ staged[t] = <<>>
    /\ queue = <<>> /\ wpc = "idle"
    /\ \A r \in Readers : reads[r].pc = "idle"
    /\ UNCHANGED vars

Next ==
    \/ \E t \in IOThreads, k \in Key : HandleSet(t, k) \/ HandleDelete(t, k)
    \/ \E t \in IOThreads : IOStep(t)
    \/ WriterStep
    \/ \E k \in Key : ServeCachedGets(k)
    \/ \E r \in Readers, k \in Key : HandleGet(r, k)
    \/ \E r \in Readers : ReadStep(r)
    \/ \E b \in Budgets : SetBudget(b)
    \/ Quiet

Spec == Init /\ [][Next]_vars

-----------------------------------------------------------------------------
(* Properties *)

\* Where writes to k can be, accepted or in hand and not yet marked persisted.
HandPlaces(k) == {<<"hand", t>> : t \in {u \in IOThreads :
                                   inHand[u] # Absent /\ inHand[u].key = k}}
StagePlaces(k) == UNION {{<<"staged", t, i>> : i \in WritesTo(k, staged[t])} :
                                                          t \in IOThreads}
QueuePlaces(k) == {<<"queue", i>> : i \in WritesTo(k, queue)}
BatchPlaces(k) == IF wpc = "write" THEN {<<"batch", i>> : i \in WritesTo(k, batch)}
                                   ELSE {}
MarkPlaces(k)  == {<<"mark", i>> : i \in WritesTo(k, marks)}

Unmarked(k) == HandPlaces(k) \cup StagePlaces(k) \cup QueuePlaces(k)
                 \cup BatchPlaces(k) \cup MarkPlaces(k)

Settled(k) == Unmarked(k) = {}

\* Until a write is refused the pendingItems statistic is the number of pinned
\* entries.
PendingItemsExact ==
    refused = {} => pendingItems = Cardinality(Resident(cache) \ Unpinned(cache))

\* Unless a write to the key was refused, its entry holds a pin for every
\* write to it that has not been marked: neither eviction, nor a newer Put, nor
\* a fill can take away the entry that hides the older version on disk.  The
\* counter of pinned entries goes with it.
PinsCoverWrites ==
    /\ TypeOK
    /\ \A k \in Key \ refused : Carry(k) >= Cardinality(Unmarked(k))
    /\ PendingItemsExact

\* Once a key's writes have been marked nothing pins it but the writes that a
\* sorted batch dropped (executePersist marks the survivors only): failed
\* batches, replaced entries, fills and evictions release every other pin.
PinsReleased ==
    \A k \in Key \ refused : Settled(k) => Carry(k) = deduped[k]

\* The seqno index never falls behind: once a key's writes have been marked,
\* its entry, if it has one, names the document magma holds, whatever slow
\* read fills arrived late and whatever was evicted in between.
HintCurrent ==
    \A k \in Key : Settled(k) /\ index[k] # Absent
                     => index[k].seqno = LastSeqno(k)

\* "Writes queued for the old version are still ahead of ours in the writer
\* queue" (s3fifo_cache.cc:804), so that when a key's writes have all been
\* applied the cache and the store agree on its version, unless magma refused
\* that write.
CacheMatchesStore ==
    \A k \in Key :
        Settled(k) /\ cache[k] # Absent /\ cache[k].id \notin lost
          => cache[k].id = docs[LastSeqno(k)].id

\* Unless a write to the key was refused: while a write to it is on its way
\* every GET hits, and is answered with the newest write that was put, which is
\* no older than any acknowledged one; and a GET that misses brings back a
\* document no older than the one magma held when it missed, whatever hint,
\* fill and eviction it met on the way.
ReadsFresh ==
    /\ \A k \in Key \ refused :
          ~Settled(k) => cache[k] # Absent /\ cache[k].id >= acked[k]
    /\ \A r \in Readers : /\ reads[r].pc \in {"note", "fill", "answer"}
                           /\ reads[r].key \notin refused
                             => reads[r].seqno >= reads[r].floor
=============================================================================
