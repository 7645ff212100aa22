# TLA+ models of fluxkv

fluxkv is a memcached-protocol key-value server over the magma storage engine.
This directory models how its server (`src/server`) moves a request through its
threads, checks the models with TLC on small instances and proves with TLAPS,
for every instance, the central invariants of the write path, the read path, the
document cache, durable mode, the IO pool, the response path and the tuner, and
that the write path implements its abstract specification.

## 1. Inventory

| part | state | operations | talks to |
|---|---|---|---|
| Staging (`Bucket::StageWrite`, `FlushStaged`, engine.cc 2334-2372) | per-thread chains, touched vbuckets, staged bytes | admit, stage, flush | vbucket queues, `queuedBytes_` |
| Vbucket write queue (`RequestStack`, `VBQueue`, engine.h 429-520) | lock-free stack, `scheduled`, `pending`, `lastWriteNs` | insertChain, sweepOnce, arm, release | writers |
| `WriterPool` (engine.cc 747-1333) | task queue, coalescing queue, workers, `live_` | submit, defer, execute, Grow, Shrink, Reap, Shutdown | magma, cache, IO loops |
| Document cache (cache/s3fifo_cache.cc) | entries with pins, two FIFO queues, ghosts, budget | Put, PutIfAbsent, MarkPersisted, Erase, evict, SetBudget | handlers, writers, readers |
| Seqno index (same file, 400-504) | key -> seqno, tombstone bit, eviction count | noteSeqno, SeqnoHint | writers, readers |
| Read queues and `ReaderPool` (engine.cc 721-745, 1335-1990, 2374-2413) | stack, owners, depth, overflow list, task queue | enqueue, collect, release, Shrink | magma, cache, IO loops |
| `DurableNotifier`, `Shard::durableLoop` (engine.cc 346-700) | parked requests, ledger, watermark | Park, AddBytes, wake, DrainDurable | writers, IO loops |
| IO threads (`iothread.h`, server.cc) | connection counts, reservations, holds, mailbox | Post, Pump, Hold, Release, Grow, Retire, Reap | tuner, connections |
| Connection (connection.cc) | read buffer, coalesced output, pause, migration, outstanding count | handlers, send paths, pause, migrate | everything above |
| Thread tuner (tuner.cc) | one trial per pool, history, back-off | decide, judge, undo | the three pools |
| Governors and start-up (main.cc) | cache and magma budgets | SetBudget, sync interval, shutdown order | cache, magma, server |
| Codecs (protocol.cc, metadata.h), session handlers, allocator hooks, statistics | none that outlives a request | | |

What is hard here: every hand-over between threads is lock-free or spread over
several locks (store-then-recheck releases, a counter that is raised after the
push it counts, a cache entry pinned by one thread and unpinned by another); a
write is acknowledged before it is stored, so shutdown, refusal and failure
have to be exact; reads race the writes that replace what they read; and thread
pools are resized while they work. `PROJECT.json` lists each hazard at its line.

What makes each part correct:

* write path: one owner per vbucket, no stranded request, writes of a vbucket
  applied in queue order with the newest per key winning, exact byte
  accounting, a pool that never loses its last writer, a shutdown that leaves
  nothing behind, truthful durable acknowledgements;
* cache: an entry that hides an older version on disk stays while a write to it
  is queued, pins are released, a GET gets no version older than the last
  acknowledged one while writes are under way, cache and store agree;
* seqno index: a hint never names a superseded document;
* cache shard: index, queues and ghosts agree, eviction reaches the budget
  unless pins stand in its way and never takes a pinned entry;
* read path: no stranded GET, each answered once, oldest first;
* durable mode: answered only when the log covers the write, and eventually;
* IO pool: a loop is never reaped while an answer is owed on it, a connection
  is only moved when idle, a posted callback runs;
* response path: whole frames on the wire, nobody touches a deleted
  connection, nothing is left behind on the loop it leaves;
* tuner: pool sizes stay in their bounds as far as threads per shard allow, a
  trial ends and a failed one is undone.

## 2. Modules

| module | models |
|---|---|
| `WriteQueue` | the write path of one shard, from StageWrite to the release of the vbucket, pool resizing and Bucket::Close |
| `VBucketStore` | what it promises: an ordered queue per vbucket applied in prefixes |
| `DocCache` | cache, seqno index, SET/DELETE/GET handlers, the writer's and the reader's calls into the cache, for one vbucket |
| `ReadQueue` | the read path of one shard, from EnqueueRead to the posted answer, pool resizing and shutdown |
| `S3Fifo` | one shard of the cache: open-addressing index, small and main queue, ghosts, eviction, and every operation on them |
| `DurableNotifier` | async durable mode of one shard: stamping, parking, the ledger, the notifier, DrainDurable, the completion thread, close |
| `IOPool` | event loops and connections: accept, mailboxes, pause, migration, close, holds, and the tuner's Grow, Shrink, Reap |
| `DirectSend` | one connection's socket shared by reader threads and its event loop, through migration and close |
| `Tuner` | the tuner's windows, trials, judgements and undo over pools made of shards |
| `MC...` | symmetry sets and constant values for TLC |
| `WriteQueueProofs` | theorems about `WriteQueue`: types, ownership, wake-ups, that it implements `VBucketStore`; where a request is, bytes, acknowledgements, shutdown, pool |
| `ReadQueueProofs` | theorems about `ReadQueue` |
| `DocCacheProofs` | theorems about `DocCache` |
| `S3FifoProofs` | theorems about `S3Fifo` |
| `DurableNotifierProofs` | theorems about `DurableNotifier` |
| `IOPoolProofs` | theorems about `IOPool` |
| `DirectSendProofs` | theorems about `DirectSend` |
| `TunerProofs` | theorems about `Tuner` |

How they fit together: `WriteQueue` implements `VBucketStore`, and `DocCache`
takes the ordered queue of `VBucketStore` as its write path. `S3Fifo` details
what `DocCache` leaves open (which unpinned entries go). `DurableNotifier` is
the branch of `WriteQueue`'s `complete` step that async durable mode takes.
`IOPool` has a connection's outstanding requests and unsent output as counts and
flags; `DirectSend` details them for one connection. `Tuner` decides the Grow
and Shrink calls that `WriteQueue`, `ReadQueue` and `IOPool` take in any order.

### WriteQueue

Each atomic access is one step. An IO thread goes `read -> insert -> count ->
arm -> submit` (StageWrite and RefuseWrite happen at `read`; FlushStaged charges
the bytes, InsertChain is the CAS, CountPushed the `pending` increment, Arm the
exchange, Submit the blocking write to the task or the coalescing queue). A
writer goes `idle -> sweep -> count -> write -> complete -> release -> recheck
-> rearm -> resubmit`; an empty sweep goes from `count` straight to `release`.
`releaseVBQueue` and `releaseVBQueueAfterWrite` are the same three steps and
differ in Resubmit. The coalescing thread holds one task while it sleeps. The
tuner's Grow, Shrink and Reap may come at any time before the shutdown;
Bucket::Close is a sequence of phases that starts when `Server::Stop` has
joined the IO loops.

Abstractions: a request counts one unit of bytes; a blocking write waits for
room; a run of sentinels is queued in one step; the clock test of
`shouldDeferWrite` is a free choice once the vbucket has been written
(`lastWriteNs` starts at 0); sampling for `estimateDupFraction` is a free choice
to sort or not; magma's WriteDocs applies a batch whole or fails. `pending` is
a machine word of modulus `Word`. `fate` and `answer` record what became of
each request. Durable mode is the synchronous one (`gAsyncDurable` off).

### VBucketStore

`queue`, `store`, `high`, `fate`. Accept appends a chain, Apply takes a prefix
into the store under fresh seqnos, the newest write per key winning, Fail lets a
prefix fail together. `WriteQueue` instantiates it with the swept batch followed
by the reversed stack as the queue; `ImplementsStore` is that refinement.

### ReadQueue

An IO thread goes `read -> count -> arm -> submit` (EnqueueRead is the push,
CountRead the `readDepth` increment, Arm the compare-exchange loop on
`readOwners`). A reader goes `loop -> idle -> drain -> sweep -> spill -> count`
(workerLoop and collectRead; `drain` and `spill` are the critical sections of
`overflowMu`). With FLUXKV_READER_MULTI (`Multi`) it first gathers further tasks
from the queue without waiting, collects them one after the other and gives them
back in the same order (`todo`, `held`); a sentinel met on the way ends it after
that round (`stopAfter`). Then `serve`, in which magma completes one operation at a time
and FlushAll ends the call, then `release -> peek -> recheck -> depth -> rearm ->
resubmit` (releaseReadVBQueue, one step per access). With async reads the
release comes before `call`, and magma's own threads answer (`calls`,
`magmaAccum`). The loop tests `shutdown_`, so readers leave by the flag or by a
sentinel. gMaxReadOwners and gAsyncReads are fixed at start-up and chosen in
Init from `OwnerLimits` and `AsyncModes`.

Abstractions: a compare-exchange loop is one step, since only its last load
matters; what a reader has collected is a set (`got`), since magma may complete
its operations in any order; what GetDocs returns and what it does to the cache is in `DocCache`;
the groups of an accumulator are posted together or kept together; two
tasks of one vbucket in a round share their operations by key; retries of
GetDocsAsync are stuttering. Shrink takes up to `live_` readers, as
ReaderPool::Shrink does: it keeps none, so a shard can be left without a reader
until the next Grow (item 4 of section 4).

### DocCache

A step is what one critical section of the cache does. HandleSet and
HandleDelete do the write-through Put; StageWrite, RefuseSet and RefuseDelete
(with the Erase) and FlushStaged follow as separate steps of the IO thread, because
other threads can run between them. The writer sweeps, writes, calls
MarkPersisted per survivor (Trim is the second lock of that call) and completes.
ServeCachedGets answers a hit on the IO thread. A GET that misses takes a hint, reads magma, notes the seqno, fills and answers.

Abstractions: every entry is one unit of budget; eviction picks any unpinned
victims (`S3Fifo` has which, and that as many go as must); the
index evicts any entry at its cap, which covers CLOCK, and its rejection of a
key whose part of the table is empty is left out; a deferred fill of the
doorkeeper is a free choice; magma serves the newest document of a key or, given
a hint, possibly the one it names. Writes are acknowledged when staged (the
non-durable mode). `refused` (keys a write to which was refused) and `deduped`
(per key, the writes a sorted batch dropped) are history variables used only by
properties; a read's `floor` is the seqno magma held for its key when the GET
missed. Init is a restart: documents on disk, empty cache, index warmed up to its cap.

### S3Fifo

A step is what runs under the shard's lock. The index is a table of slots that
hold keys, with the code's probing (Find, Place), its growth at 70% and its
backward-shift deletion; `Between` is the cyclic test that decides whether a
member of a cluster may move. Queues are sequences with their head first, so
EvictSmall and EvictMain take the last element. The bytes the code keeps in
`Fifo::bytes` are what the queue's entries are charged together (Bytes). Evict
runs EvictOne at most Guard times, while the shard is over its budget (Pass). PutIfAbsent is three steps, because it takes the lock three times
(FillCheck, FillDoor, FillInsert); MarkPersisted and its Trim are two.

Abstractions: a charge is a small number; hashes are given by the constant
`Hash`, and two keys may share one; the lost increments of `freq` that the code
allows are not taken. A write is queued from its Put to its MarkPersisted or
Erase (`queued`). SetBudget only lowers the budget, since raising it changes
nothing but the bound.

### DurableNotifier

A writer goes `idle -> tail -> push -> count -> register -> push ... -> gen`
through the
async-durable branch of executePersist: it writes the batch, reads the log's
tail, stamps the requests, pushes them to the loops that own them (ParkPush,
ParkCount, ParkRegister) or to the completion thread (AwaitDurable), enters the
bytes in the ledger and moves `parkGen_`. The notifier reads `parkGen_`, then
the watermark, compares both with what it saw last, releases the ledger, wakes
the loops with parked requests and waits. A loop clears `durableWakeQueued`,
takes what is parked, answers what the log covers and lowers the count. Each
access to an atomic is a step. The log is the environment: Flush moves the
watermark up to the tail. A record is one number, and other writers' records
come between a write and the reading of the tail. ParkRegister shares
`loopsMu_` with the notifier's walk over the registered loops and waits only
while that walk is under way.

### IOPool

A callback of an event loop is a step, and so is a critical section of the
server's lock. Connections go `new -> picked -> posted -> open`, may be
`detached` on the way to another loop, and end `closing -> gone`. A migration is
planned by the tuner (Shrink, Reap, Rebalance), posted as mail to the source
loop, started there by migrateTo, finished by tryFinishMigrate when the
connection is quiescent and attached by the target's mail. Requests keep the
loop they left; durable writes hold it. Reap reads a loop's two counters in two
steps. A plan is a sequence of destinations, each the emptiest loop once the
moves before it are reserved; where loops are equally empty any of them
(PlanMoves), and the same for the moves of a rebalance (Rebalancings, DestsFrom).
A cached GET, an acknowledged or refused write leaves its response in the
output buffer (ParseAndDispatch); session handlers write at once
(DispatchSession). Grow adds any number of loops, as addThreads(n) does.
PauseForQueue also stands for a SET without a write token.

Abstractions: Reap acts on ticks of the tuner's clock, so the model lets one
begin only when the mail of retiring loops has been looked at (250 ms against a
callback); GETs in flight of a connection that is closed do not hold their loop.
At the end of the process the loops are stopped first: writes still owed then
are answered to nobody.

### DirectSend

`sendMu_` is `lock`; taking it, working under it and giving it back are steps of
their own because others try it meanwhile. A reader goes `push -> retry -> take
-> write -> unlock -> recheck -> finish` (sendDirect, sendHeld, finishBatch) and
`rel -> relheld | relcas -> relpost` (releaseOutstanding). The event loop flushes,
writes chains, runs posted callbacks, migrates and destroys. A response is two
halves of a frame, and the kernel takes any number of halves, so that a send can
stop within a frame; what it does not take stays in `spill` or, for a write
through folly, in `folly`, which writes it later (FollyWrite). Errors of the
socket are a close at any point. A request counts in `outstanding` wherever it
is: in the engine, on the pending list, in a thread's batch or in a posted
release.

### Tuner

One step per decision window: Rest, StartTrial, or a step of the trial under way
(NotSettled, NoLoad, Measure, Judge). Sizes, steps rounded to shards, caps, ramps,
back-offs and window counts are the code's numbers; throughput, noise and busy
fractions are free, restricted to the combinations the formulas allow. A pool
starts with the threads asked for, spread over its shards as the bucket's
constructor spreads them, one per shard at least (`Made`); nothing makes that a
multiple of the shards. `TunerBounds` is what main.cc ensures of the bounds: a
pool is not made smaller than its floor. `KeepsOne` are the pools whose Shrink
keeps the last thread of a shard (writers and IO loops, not readers). `Closed`
clears the fields of a trial that is over, which only the next trial sets.

## 3. Runs

| run | instance | shows |
|---|---|---|
| `write_path` | 2 IO threads, 2 writers, 1 vbucket, 2 keys, 3 writes, limit 2, coalescing | TypeOK, SingleOwner, NoLostWakeup, ExactAccounting (bytes, `pending`, overshoot), CleanShutdown, refinement of VBucketStore |
| `writer_pool` | durable, fairness, 2 IO threads, 2 writers and a third identity, 2 vbuckets, 2 writes, 2 resizes, limit 1, no symmetry | WriterRemains (and that no queue fills), DurableAck, EventuallyWritten |
| `read_path` | synchronous reads, 2 IO threads, 2 readers, 1 vbucket, 1 or 2 owners, batches of 1, rounds of up to 2 tasks, 4 GETs | NoStrandedRead, DepthExact, OldestFirst |
| `read_pool` | synchronous and async reads, fairness, 2 IO threads, 1 reader and a second identity, 2 vbuckets, 2 owners, rounds of up to 2 tasks, 2 GETs of one key, 2 resizes | OwnersExact, OnePlace, EventuallyAnswered, ShutdownReturns |
| `cache_pins` | 2 IO threads, 1 reader, 2 keys, 3 writes, limit 2, budget 1 or 0, index of 1, dedupe, failed batches, refusals | PinsCoverWrites (and the count of pinned entries), PinsReleased, HintCurrent, ReadsFresh |
| `cache_order` | 2 IO threads, 1 reader, 2 keys, 2 writes, no dedupe | a finding below: CacheMatchesStore fails |
| `cache_shard` | 3 keys, two of one hash and one next to it, table from 2 slots, budgets 1 and 2, frequencies to 2, 2 writes queued, 1 refused, a fill in flight | ShardConsistent, OverBudgetByPins, PinnedStay |
| `durable_ack` | fairness, 2 writers, 1 loop, requests with and without a loop, 2 batches | AckIsDurable, BudgetBoundsLog, WakeNotLost, EventuallyAnswered |
| `io_pool` | fairness, 2 loops, 2 connections, 1 request, 2 resizes | LoopOutlivesConns, CountsExact, AnswerBeforeReap, NeverDeaf, RetireCompletes |
| `direct_send` | 2 readers and the loop, 3 requests | WireWellFormed, NoUseAfterFree (and exact counts), QuiescentDetach, SpillHasFlusher |
| `tuner` | 4 IO loops in 1 to 5, 3 readers in 2 to 4 and 3 writers in 2 to 3, each over 2 shards, short back-offs and windows | WithinBounds, TrialBounded, UndoRestores |
| `stranded_send` | 2 readers and the loop, 2 requests | a finding below: NoStrandedSend fails |

Every module's type invariant is checked: on its own in `write_path`, as a
conjunct of OnePlace, PinsCoverWrites,
ShardConsistent, BudgetBoundsLog, CountsExact, WireWellFormed and WithinBounds
in the others.

Why the bounds are enough: the races of the write path are between one pusher,
another pusher and a releasing writer on one vbucket; two IO threads, two
writers and three requests give a chain of two, a second chain that arrives
during the sweep and a re-arm in every order, and two keys make dedupe differ
from arrival order; a limit of two is where the third write is refused. The pool
needs two initial writers, one identity to grow into and two resizes to Shrink
below what is running. Batches of one make every sweep of two GETs spill, and
four GETs let two owners spill while a fourth arrives. Two tasks to a round and
two vbuckets let a round take both, or one and a sentinel. `read_pool` starts with
one reader, so that a Shrink can take the last one and a Grow bring one back. The
cache needs two
keys for one to evict the other at a budget of one, and an index of one entry to
evict from; limit 2 is where a write is refused behind accepted ones. In the
shard hashes 7, 7 and 8 wrap around tables of two, four and eight slots, so
clusters cross the end of the table; a budget of two gives the small queue a
budget of one. Two batches are enough for one to be parked while the other's
watermark is compared. Two loops and two connections let a loop retire with one
connection migrating and another accepted; a further resize makes it grow back.
Three responses let one sender write, one leave its response and one arrive
late. Five IO threads let a ramp of the tuner double its step; three threads over
two shards are unequal shards, from which every step, cut, ramp and undo is
rounded. `Word` is larger
than any count reached but small enough that a wrap below zero shows as a large
value. `MaxWrites`, `MaxReads`, `MaxBatches`, `MaxQueued`, `MaxRefused` and
`MaxResizes` are the only bounds on behaviour.

What the cache properties leave out, because the code does not do it, is in the
properties themselves and not in the instance: a key a write to which was refused
(item 2 of section 4), and the pins of deduplicated writes, which PinsReleased
counts (item 1). Two IO threads, evictions, budget cuts, dedupe, failed batches and
refusals all happen in `cache_pins`.

EventuallyAnswered of the read path takes it that from some time on the shard has
a reader: a Shrink that takes the last one and is never followed by a Grow is a
stop that ReaderPool allows.

Fairness: weak fairness of each IO loop's flush, of each writer, of the
coalescing thread and of Bucket::Close; of EnqueueRead, each reader, magma's
completions and ReaderPool::Shutdown; of each writer, the notifier, each loop,
the completion thread and the log's flusher; of each loop's mail, each
connection's callbacks, the tuner's ticks and the engine's answers. These are
threads of the operating system that block only on queues, callbacks an event
loop has accepted, or a flusher that runs on an interval, so a step that stays
enabled is taken; the event loop always reaches FlushStaged at the end of a
socket wake. Nothing makes a client send, read or close, the tuner resize or the
process stop; `io_pool` takes it that a socket accepts what is written to it in
the end. A shutdown whose drain times out is the one way a write is given up, and
the property says so.

Deadlock is checked in every run but `direct_send`; the explicit `Closed`,
`Quiet`, `Stopped` and `Done` steps stand for a process that has stopped and for
clients that have nothing left to send. `direct_send` does not check it because
of the finding: a stranded response with nothing else to do is a stop.

## 4. Findings

`stranded_send`: a sender that cannot take `sendMu_` pushes its response on
`sendPending_` and leaves it to the holder (connection.cc 1615, 1664), but two
holders do not look at the list when they let go: migrateTo (268), which takes the
lock to set `drainWatch_` (`unlockM` in the model), and releaseOutstanding (1731),
which takes it to lower the count (`relheld`). A response pushed in that moment,
whose retry also fails, stays until the connection's next send, flush or close. In
TLC's shortest trace the holder is the loop in migrateTo: Receive, FlushPending,
SendDirect that fails to take the lock, LoopUnlock, Drain, After, MigrateTo, Watch,
PushPending, Retry.

`cache_order`: the cache is updated when a request is parsed, the queue at the end
of the socket wake, so two IO threads can do them in opposite orders, where
s3fifo_cache.cc 804 says that writes to the old version "are still ahead of ours in
the writer queue". In the trace both writes of a key have been stored and marked,
the cache has one and magma the other; the cache serves its version until it is
evicted.

The models reach further states that differ from what the code's comments say. The
properties of the passing runs state what is true instead:

1. Pins of deduplicated writes. MarkPersisted is called for the survivors of a
   batch only (engine.cc 1222; the dropped requests rejoin the batch at 1236),
   while every Put took a pin (doccache.h 12-14: "Each Put is matched by exactly
   one MarkPersisted()"). `PinsReleased` says that a key whose writes are settled
   is pinned exactly `deduped` times: every duplicate leaves a pin, nothing else
   does.
2. Refused writes. A refused write erases the key's entry, the pins of earlier
   accepted writes included (connection.cc 1229; doccache.h 17: "a key with a
   queued write is always resident"). `PinsCoverWrites`, `PinsReleased` and
   `ReadsFresh` leave out the keys in `refused`; without that clause each fails in
   `cache_pins`. A later entry may then be unpinned below zero and its count wrap;
   `PinnedStay` leaves out the Put that wraps it back.
3. Late fills. A write applied, unpinned and evicted while a read is in flight
   does not stop that read's fill (engine.cc 1354-1356), so the cache may then
   serve a version older than the last acknowledged one. `ReadsFresh` therefore
   has two parts: while a write is on its way the key is resident with nothing
   older than what was acknowledged, and a GET that misses brings back nothing
   older than what magma held at the miss.
4. Unequal shards. ShardedPoolGroup::Shrink takes at least one thread from
   every shard, and Grow adds one to every shard. Three readers over two shards
   shrink to one, a shard of which has none ("the floor is one per shard", main.cc
   1420), and ReaderPool::Shrink does not keep one (engine.cc 1419-1425): its
   GETs wait for the next Grow. A ceiling that is not a multiple of the shards
   ("ceiling for --auto-tune", main.cc 385-386) is passed by the last step:
   startTrial cuts a step to the room there is (tuner.cc 412) and Grow rounds it
   up (tuner.h 81). And a shrink that found unequal shards is undone to the size
   it found rounded to threads per shard. `WithinBounds` and `UndoRestores` say how
   far this goes: less than a thread per shard below the floor, at most a thread
   per shard above the ceiling, and only shrinks are undone roughly.
5. Process end. The loops end before Bucket::Close drains durable writes, so a
   held loop (connection.cc 1187) does not outlive the requests that hold it.

## 5. Proofs

All theorems hold for every value of the constants that satisfies the `ASSUME`s
of the module concerned: any sets of threads, vbuckets, loops and requests, any
limits, capacities, batch sizes and counter widths. The assumptions are that
sets whose members are counted are finite, that the initial workers are workers,
that sentinels and "none" values are not members of the sets they stand beside
(so that a task is told from a sentinel), that bounds are natural numbers, and
that there is at least one owner and a batch of at least one.

Cardinalities carry the counting. A counter of the code is stated as the size
of the set of what it counts, each member tagged with the place that holds it,
and a lemma per place says how that size changes when one place changes
(`UnitsChange`, `UnitsAppend`, `UnitsTail`, `SlotsCount`). The one sum over a
function, the tuner's `Total`, is evaluated with an induction principle for sets
of numbers that is itself proved by counting (`NatSetInduction`).

### Write path: `WriteQueueProofs`

* `TypeCorrect`: `Spec => []TypeOK`. TypeOK alone is not inductive: a thread in
  mid-flush takes `Head(touched)`, which has a type only if `touched` is not
  empty there, and a worker in mid-task uses `wvb` as a vbucket. `TypeInv` adds
  these (`MidCall`). The lemmas on Reverse, Sentinels, KeysOf and Newest give
  the types of what a batch is turned into.
* `WakeupNeverLost`: `Spec => []NoLostWakeup`. `Watched(v)` is the disjunction
  per vbucket; each action either leaves it alone or moves the duty to the next
  party: the pusher passes it to the flag it raises, the releasing writer to its
  own recheck.
* `OneOwner`: `Spec => []SingleOwner`. Cardinalities are replaced by `Own(v)`,
  which says that any two holders are equal and that the flag is up exactly
  when there is one. Lemmas on positions in a queue after Append, Tail and
  concatenation of sentinels carry it through the queue operations.
* `ImplementsOrderedStore`: `Spec => ImplementsStore`, that is,
  `Spec => Store!Spec` with the queue of a vbucket mapped to its owner's swept
  batch followed by the reversed stack. The mapping is a function of the state only because there is
  one owner, so the proof uses `Own`. Staging, accounting, releases, resizes and
  the phases of Close are stutters; InsertChain is Accept; the sweep is a stutter,
  because it moves the stack into the batch; WriteDocs is Apply or Fail on the
  prefix that is the batch. `SeqnosFresh` (stored documents have different
  seqnos, none above `high`) and `NonEmptyWrite` (a writer writes no empty batch)
  give the step the form of the abstract action.

### Write path, accounting: `WriteQueueProofs`

`Accounting` proves `AInv`, the invariant that follows a request through the
shard. `OnePlace` and `AllDistinct`: it is staged by one thread, on one stack or
in one writer's batch, and there once; without them the size of a union is not
the sum of its parts. `Received`: requests that are somewhere have been issued,
so a new one is nowhere. `AllTouched`: FlushStaged reaches every chain through
`touched`; without it a chain could be charged and never pushed. `Charged`:
`queuedBytes_` is the number of requests flushed and not completed, `bytes` the
number staged, and the limit is overshot by no more than one wake per thread.
`Outcomes`, `NotLost` and `Closing` are about the end: a batch that is being
completed has been through WriteDocs, an accepted write is in a place or has an
outcome, and a drain that did not time out leaves nothing. From them:

* `AccountingIsExact` (ExactAccounting: bytes, `pending` modulo the word,
  overshoot). `pending` needs one more counting argument, because the increment
  comes after the push: it differs from the stack by what pushers have still to
  add and sweepers to subtract.
* `AcksAreStored` (DurableAck) and `ShutdownIsClean` (CleanShutdown).
* `WriterAlwaysRemains` (WriterRemains), from `PoolExact`: until Shutdown the
  workers that run are `live_` and one for each sentinel, and `live_` is never
  zero; there are never more than two sentinels per worker and one for the
  coalescing thread. Together with single ownership (`Own`) this bounds both
  queues: a vbucket that is about to be submitted is in neither, the others
  are in each at most once.

### Read path: `ReadQueueProofs`

`ReadInvariant` proves `RInv`: the types of the parts that matter (`RTypes`,
with the `MidCall` of EnqueueRead and of a reader, and that collectRead spills
only past the cap), `Slotted` (`readOwners` is the number of tasks queued,
threads about to submit and slots held by readers), `Limited`, `DepthExact` and
`NoStrandedRead`. They are inductive only together: that a depth of zero read
by a releasing reader means that nothing waits rests on the depth being exact
up to what is being counted, and that somebody else will look rests on the slots being
exact.

* `OwnersAreExact` (OwnersExact), `DepthIsExact` (DepthExact) and
  `NoReadStranded` (NoStrandedRead), for synchronous and async reads, any number
  of owners and rounds of any number of tasks.

`PlacesInvariant` proves `FullInv`, which adds where a GET is and in which order.
A place is a stack, an overflow, a reader's batch, what it has collected or its
accumulator, a call of magma's, magma's accumulator, or the event loop that has
been handed the answer. `PlaceInv`: an id that was issued is at one place and one
that was not at none (`Located`), a list has it once (`OnceEach`), and an id
stands for one request (`Known`), without which two operations of a round that
share a key could not be told from one. Every step is a move of a set of
requests from one place to another (`MoveKeeps`). `OrderInv`: requests are
collected under their vbucket (`OwnVB`); the stack falls in the order of arrival
and is newer than everything that was ever swept of it (`Newer`), for any number
of owners; and with one owner (`InTurn`) overflow and batches rise, a reader that
sweeps has emptied the overflow, and what was collected is older than what is
being collected and left over. That there is one reader at a vbucket comes from
the slots of `RInv`: a second one would make `readOwners` two.

* `EachReadInOnePlace` (OnePlace): no GET is lost, collected by two owners or
  answered twice.
* `OldestAreFirst` (OldestFirst): the overflow is older than the stack, and with
  one owner per vbucket GETs are collected in the order they arrived.

### Document cache: `DocCacheProofs`

`DShape` has the types, that whatever names a document (index, marks, readers)
names one of its own key, and that nothing is to be marked before a batch is
written.

* `HintIsCurrent` (HintCurrent), from `IndexInv`: where the index is behind a
  mark for the key's last document is still to come, and a mark that is not the
  last of its key is followed by that one. A key is missing from the index only
  if something was evicted, and after that noteSeqno of a reader no longer adds
  keys; without this clause a slow read could bring an old seqno back.
* `WritesArePinned` (PinsCoverWrites), from `PinInv`. The writes to a key that
  are not marked are a set of places (hand, staged, queue, batch, marks), and
  every step either moves writes to other places one for one (`Moved`,
  `Relocates`), adds the one that is put, takes away the one that is marked or
  drops those that dedupe removes. The theorem takes it that fewer writes are
  issued than `Entry::pending` can count (`NoWrap`, 2^32 in the code): a wrapped
  counter would unpin an entry with writes outstanding.
* `PinsAreReleased` (PinsReleased), from the same invariant: a key's pins are the
  writes to it that are not marked and the duplicates that sorted batches dropped,
  exactly. The step that matters is WriteDocs, where dedupe splits a key's writes
  in the batch into one that will be marked and those that `deduped` counts.
* `ReadsAreFresh` (ReadsFresh), from `FreshInv`: a pinned entry is at least as new
  as every write to its key that was acknowledged or is in the hands of an IO
  thread. With `PinInv` a key with writes on
  their way is pinned, hence resident; with `IndexInv` the hint a reader took is
  not older than what magma held then. It holds for any number of event loops and
  readers, with dedupe, evictions, budget cuts and refusals of other keys.

`NoWrap` is the only hypothesis. What the properties leave out of refused keys is
item 2 of section 4.

### Cache shard: `S3FifoProofs`

Growth, backward shifts and the loop of evict are recursive functions over an
interval. `Iterates` shows that such a function exists, by induction in its set
form (`NatSetInduction`), and the lemmas below then follow it step by step.

* The index. `TableOK`: no key is in two slots (`Single`), and no hole lies
  between the home of a key and its slot (`Probed`), with distances counted
  around the table. `PlaceIs` and `GrowIs` keep it, `FindIs` turns it into what a
  lookup returns. For the deletion, slots are numbered from a hole of the table
  on (`From`), which unrolls the cycle: the code's cyclic test becomes a
  comparison (`BetweenIs`). `Shifted` is the loop's invariant: past the slots
  already seen no key has the moving hole between its home and itself
  (`Crossed`). A hole exists because insert grows at 70% (`InsertIs`).
* The shard. `Good`: the queues hold different keys, those whose flag names them
  (`Linked`), the index holds the resident keys (`Indexed`), the ghost queue and
  its set agree (`Remembers`). Inside an operation a key may be out of its queue
  (`GoodBut`). Each of remove, popTail, pushHead, free, insert and ghostAdd has a
  lemma that says what it does to them.
* Eviction. `Due(s, b, R)`: R more passes are enough for every entry of main that
  nothing pins. While small is over its share an entry at place i of n, hit f
  times, needs at most m + (n - i + 1) + f (n + m) passes, m being the entries of
  small (`Far`), and (n - i + 1) + f n afterwards (`Near`); an entry that comes
  from small starts a round with no hits. The guard is enough at first
  (`DueFirst`), and every pass lowers what each entry needs (`SmallPassDue`,
  `MainPassDue`). With no pass left, main is pinned and small inside its share,
  which is part of the budget (`DueDone`).

`InvariantHolds` proves `IInv`: the shard is good, the counters have their types,
a fill has its key (`Counters`), and the entries without a pin fit into the budget
unless a trim is owed (`Fits`).

* `ShardIsConsistent` (ShardConsistent), `BudgetExceededByPinsOnly`
  (OverBudgetByPins) and `PinnedEntriesStay` (PinnedStay), for any keys, hashes,
  charges, budgets, table sizes and numbers of threads.

### Durable mode: `DurableNotifierProofs`

`Invariant` proves `IInv`. `LogOrder`, `MidPersist` and `AllStamped` say that a
request that has left its writer is stamped with its own record or a later one
(the tail is read after the write). `SeenBefore`: the notifier's copies of the
watermark and of `parkGen_` are not ahead of them, and it sleeps only on what it
compared. `Budget`: a batch is with its writer, in the ledger or on disk.
`ParkedOnce` and `CountLag`: `parkedCount` is the number parked less what
writers have still to add plus what the loop has still to subtract.
`Registered`: a loop with parked requests is on the notifier's list or its
writer is about to put it there, and a queued wake is in the mailbox.

* `AcksAreDurable` (AckIsDurable), `BudgetIsExact` (BudgetBoundsLog) and
  `ParkedNotForgotten` (WakeNotLost): a request that the log covers and that is
  still parked has somebody on the way to it, in every interleaving of ParkPush,
  ParkCount, ParkRegister and the notifier's reads.

### IO pool: `IOPoolProofs`

`Invariant` proves `IInv`. `Shape` has the types and what a connection, a
request, a mail and the tuner look like at each point: a loop is set exactly
while a connection is on one, its output, pause and migration are clear when it
is not open, and mail names connections that wait for it. `Watched`: a
migrating connection has its check scheduled or is not quiescent, in which case
the event that makes it so schedules one. `Counted`: `connCount` is the
connections open on a loop, `pending` what is reserved on it, as the sizes of
disjoint sets (accepts, migration targets and mail), `pausedConns` the paused
ones. `HoldsExact`: `holds` is the durable requests not answered. `SeenCount` and
`Ending` are about Reap, which reads the counters one after the other and needs
two ticks: what was found empty once has no reservation, and from then on
nothing can be placed there, so what the second reading finds zero is.

* `CountersAreExact` (CountsExact), `NoConnectionIsDeaf` (NeverDeaf),
  `LoopsOutliveConnections` (LoopOutlivesConns) and `AnswersBeforeReap`
  (AnswerBeforeReap).

### Response path: `DirectSendProofs`

`SendInvariant` proves `DInv`. `Shape` says what a thread holds at each step
(who has `sendMu_`, what is in its batch, how deep it is in nested calls, where
it returns to), `Life` and `PostShape` which of close, delete and posted
callbacks can still come, `Quiet` and `Bare` what a connection that is being
moved no longer has, `Flagged` that a spill has its flusher, and
`OutstandingExact` that `outstandingRequests_` is the number of requests in the
engine, on the pending list, in batches, in releases under way and in posts.

* `NeverUsedAfterFree` (NoUseAfterFree): the object is deleted when the count is
  zero, and a count that is exact is not zero while a thread is in a call.
* `DetachIsQuiescent` (QuiescentDetach) and `SpillAlwaysFlushed`
  (SpillHasFlusher).
* `WireAlwaysWhole` (WireWellFormed). `WireInv` says that there are sequences of
  requests `q` and `p` such that the wire, folly's buffer and the spill, one
  after the other, are the frames of `q` (or a prefix of them once a close has
  dropped the rest) and the coalesced output is the frames of `p`, that nothing
  is twice in a place (`Once`) and that each request is in one place
  (`Located`). Frames in the middle of which a sender stopped are therefore
  continued by whoever sends next, and no response is sent twice.

### Tuner: `TunerProofs`

`TrialInvariant` proves `TrialInv`: one trial at a time, and a trial's windows
are counted without a gap from one that came no later than maxSettleWindows
(`OnTime`). `Progress` is needed because two counters take turns: `settled`
counts until the pool has settled, `measured` afterwards, and a window without
load clears both.

* `TrialsEnd` (TrialBounded). The assumption that there is a longest measurement
  is startTrial's cap of eight windows.

`BoundInvariant` proves `BoundInv`, without a condition on how threads divide into
shards. A pool is always `Spread(c, r, s)`: c threads in each of s shards and one
more in the first r. Grow and Shrink change c and keep r, except that a shrink
that takes all there is leaves r = 0 (`GrowSpread`, `ShrinkSpread`), so the shards
never differ by two. `Level` keeps this shape and the bounds with it
(`InBounds`). During a trial `Undoable` says how the present size came from the one
found: by a grow (`Grown`), or by a shrink that took as many from each shard or all
that there was to take (`Shrunk`). `DivMod`, `Quotient` and
`ShareOf` are the arithmetic of the rounding, `TotalOfSpread` what Size adds up,
`UndoGrow`, `UndoShrink` and `UndoLevel` what the undo leaves.

* `PoolsStayWithinBounds` (WithinBounds) and `UndoIsExact` (UndoRestores), for any
  numbers of threads, shards and bounds.

### Only model-checked

* Liveness under fairness is out of the prover's reach: EventuallyWritten,
  EventuallyAnswered of both paths, ShutdownReturns, RetireCompletes.
* NoStrandedSend and CacheMatchesStore do not hold (section 4).

## 6. Plan

1. done: write path, its abstract specification, cache and handlers, read path,
   durable notifier, IO pool, response path, tuner, cache shard.
2. done: the proofs of section 5; every safety property the passing runs check
   has its theorem.
3. Models that remain: the space governor and its write tokens (main.cc), the
   CLOCK hand and value pointers of the seqno index.

Not modelled: byte layouts of the protocol and of metadata, the contents of
HELLO, SASL and cluster configuration answers and the SCRAM exchange,
statistics, allocator hooks, option parsing and start-up in main.cc, the
governors' formulas, the load generator and benchmark scripts (I/O and tooling
without protocol state), and magma itself, which is external. Weak memory orders
are taken as sequentially consistent; the code's own argument for its seq_cst
store and recheck is at engine.cc 700-711.
