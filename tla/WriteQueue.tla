------------------------------ MODULE WriteQueue ------------------------------
(***************************************************************************)
(* The write path of one shard: IO threads stage SETs and DELETEs per      *)
(* vbucket and flush them as chains into lock-free per-vbucket stacks;     *)
(* whoever turns a vbucket's `scheduled` flag from false to true submits   *)
(* one task for it, straight to the writers or through the coalescing      *)
(* (defer) queue; a writer sweeps the stack, writes the batch to magma,    *)
(* releases the flag and re-arms the vbucket if more arrived.  The tuner   *)
(* grows and shrinks the writer pool, and Bucket::Close drains and stops   *)
(* it.  (src/server/engine.cc, engine.h)                                   *)
(*                                                                         *)
(* Every atomic access to shared state (a CAS, an exchange, a fetch_add, a *)
(* queue operation) is a step of its own.  A request counts one unit of    *)
(* queuedBytes_.  The async-durable completion of a batch is not here.     *)
(***************************************************************************)
EXTENDS Integers, Sequences, SequencesExt, FiniteSets

CONSTANTS
    IOThreads,      \* the IO event loops
    Workers,        \* identities the writer pool may use
    InitWorkers,    \* the writers the pool starts with
    VB,             \* the vbuckets of the shard
    Key,            \* document keys (numbers: batches are sorted by key)
    Sentinel,       \* the null-shard task: kStopWorker or kRetireWriter
    NoVB,           \* no vbucket
    Limit,          \* writeQueueMemLimit_, in requests
    Capacity,       \* capacity of taskQueue_ and of deferQueue_
    Coalesce,       \* gWriteCoalesceNs # 0
    MinBatch,       \* gMinWriteBatch
    Word,           \* modulus of the uint32_t counter VBQueue::pending
    Durable,        \* Bucket::durable_ (with gAsyncDurable off)
    MaxWrites,      \* bound: requests the clients send
    MaxResizes      \* bound: Grow and Shrink calls of the tuner

ASSUME Sets ==
    /\ InitWorkers \subseteq Workers /\ InitWorkers # {}
    /\ Key \subseteq Nat /\ IsFiniteSet(Key)
    /\ IsFiniteSet(Workers) /\ IsFiniteSet(VB)
    /\ Sentinel \notin VB /\ NoVB \notin VB /\ NoVB # Sentinel

ASSUME Numbers ==
    /\ Limit \in Nat /\ Capacity \in Nat /\ MinBatch \in Nat
    /\ Word \in Nat \ {0}
    /\ MaxWrites \in Nat /\ MaxResizes \in Nat
    /\ Coalesce \in BOOLEAN /\ Durable \in BOOLEAN

VARIABLES
    iopc,           \* IO thread -> where it is in readDataAvailable/FlushStaged
    staged,         \* IO thread -> vbucket -> staged chain, newest first
    touched,        \* IO thread -> vbuckets with a staged chain, in order
    bytes,          \* IO thread -> admitted since its last FlushStaged
    list,           \* vbucket -> VBQueue::list, newest first
    scheduled,      \* vbucket -> VBQueue::scheduled
    pending,        \* vbucket -> VBQueue::pending
    taskQueue,      \* WriterPool::taskQueue_
    deferQueue,     \* WriterPool::deferQueue_
    deferpc,        \* the coalescing thread
    deferHeld,      \* the task the coalescing thread sleeps on
    wpc,            \* worker -> where it is in workerLoop/executePersist
    wvb,            \* worker -> vbucket of its task
    batch,          \* worker -> the batch it swept
    live,           \* WriterPool::live_
    seqno,          \* vbucket -> Shard::seqnos_
    disk,           \* vbucket -> key -> what magma holds
    queuedBytes,    \* Bucket::queuedBytes_
    phase,          \* progress of Bucket::Close
    timedOut,       \* DrainWrites gave up
    issued,         \* requests received so far
    resizes,        \* Grow and Shrink calls so far
    fate,           \* request id -> what WriteDocs said of its batch
    answer          \* request id -> response appended or posted

ioVars     == <<iopc, staged, touched, bytes>>
vbVars     == <<list, scheduled, pending>>
queueVars  == <<taskQueue, deferQueue>>
deferVars  == <<deferpc, deferHeld>>
workerVars == <<wpc, wvb, batch>>
storeVars  == <<seqno, disk, fate>>
closeVars  == <<phase, timedOut>>
vars == <<ioVars, vbVars, queueVars, deferVars, workerVars, live, storeVars,
          queuedBytes, closeVars, issued, resizes, answer>>

Id      == 1..MaxWrites
Request == [vb : VB, key : Key, id : Id]
Doc     == [id : 0..MaxWrites, seqno : Nat]

IOpc    == {"read", "insert", "count", "arm", "submit"}
Wpc     == {"off", "idle", "sweep", "count", "write", "complete", "release",
            "recheck", "rearm", "resubmit", "done"}
Phase   == {"run", "drain", "stopDefer", "joinDefer", "stopWriters", "join",
            "closed"}

IOType ==
    /\ iopc \in [IOThreads -> IOpc]
    /\ staged \in [IOThreads -> [VB -> Seq(Request)]]
    /\ touched \in [IOThreads -> Seq(VB)]
    /\ bytes \in [IOThreads -> Nat]

VBType ==
    /\ list \in [VB -> Seq(Request)]
    /\ scheduled \in [VB -> BOOLEAN]
    /\ pending \in [VB -> 0..Word-1]

QueueType ==
    /\ taskQueue \in Seq(VB \cup {Sentinel})
    /\ deferQueue \in Seq(VB \cup {Sentinel})

DeferType ==
    /\ deferpc \in {"run", "drain", "done"}
    /\ deferHeld \in VB \cup {NoVB}

WorkerType ==
    /\ wpc \in [Workers -> Wpc]
    /\ wvb \in [Workers -> VB \cup {NoVB}]
    /\ batch \in [Workers -> Seq(Request)]

StoreType ==
    /\ seqno \in [VB -> Nat]
    /\ disk \in [VB -> [Key -> Doc]]
    /\ fate \in [Id -> {"new", "stored", "failed"}]

CountType ==
    /\ live \in Int
    /\ queuedBytes \in Int
    /\ phase \in Phase
    /\ timedOut \in BOOLEAN
    /\ issued \in 0..MaxWrites
    /\ resizes \in 0..MaxResizes
    /\ answer \in [Id -> {"none", "success", "tmpfail", "error"}]

TypeOK ==
    /\ IOType /\ VBType /\ QueueType /\ DeferType /\ WorkerType /\ StoreType
    /\ CountType

Init ==
    /\ iopc = [t \in IOThreads |-> "read"]
    /\ staged = [t \in IOThreads |-> [v \in VB |-> <<>>]]
    /\ touched = [t \in IOThreads |-> <<>>]
    /\ bytes = [t \in IOThreads |-> 0]
    /\ list = [v \in VB |-> <<>>]
    /\ scheduled = [v \in VB |-> FALSE]
    /\ pending = [v \in VB |-> 0]
    /\ taskQueue = <<>>
    /\ deferQueue = <<>>
    /\ deferpc = IF Coalesce THEN "run" ELSE "done"
    /\ deferHeld = NoVB
    /\ wpc = [w \in Workers |-> IF w \in InitWorkers THEN "idle" ELSE "off"]
    /\ wvb = [w \in Workers |-> NoVB]
    /\ batch = [w \in Workers |-> <<>>]
    /\ live = Cardinality(InitWorkers)
    /\ seqno = [v \in VB |-> 0]
    /\ disk = [v \in VB |-> [k \in Key |-> [id |-> 0, seqno |-> 0]]]
    /\ queuedBytes = 0
    /\ phase = "run"
    /\ timedOut = FALSE
    /\ issued = 0
    /\ resizes = 0
    /\ fate = [i \in Id |-> "new"]
    /\ answer = [i \in Id |-> "none"]

-----------------------------------------------------------------------------
(* IO threads *)

\* The admission check of StageWrite: this thread's own unflushed bytes count,
\* other threads' do not.
Admits(t) == queuedBytes + bytes[t] + 1 <= Limit

\* StageWrite accepting the next request, for key k of vbucket v: link it at
\* the head of the thread's chain.  Without durability it is answered at once.
StageWrite(t, v, k) ==
    /\ phase = "run" /\ iopc[t] = "read" /\ issued < MaxWrites
    /\ Admits(t)
    /\ issued' = issued + 1
    /\ bytes' = [bytes EXCEPT ![t] = @ + 1]
    /\ staged' = [staged EXCEPT ![t][v] =
                    <<[vb |-> v, key |-> k, id |-> issued + 1]>> \o @]
    /\ touched' = [touched EXCEPT ![t] =
                    IF staged[t][v] = <<>> THEN Append(@, v) ELSE @]
    /\ answer' = IF Durable THEN answer
                 ELSE [answer EXCEPT ![issued + 1] = "success"]
    /\ UNCHANGED <<iopc, vbVars, queueVars, deferVars, workerVars, live,
                   storeVars, queuedBytes, closeVars, resizes>>

\* StageWrite refusing it.
RefuseWrite(t) ==
    /\ phase = "run" /\ iopc[t] = "read" /\ issued < MaxWrites
    /\ ~Admits(t)
    /\ issued' = issued + 1
    /\ answer' = [answer EXCEPT ![issued + 1] =
                    IF Durable THEN "error" ELSE "tmpfail"]
    /\ UNCHANGED <<ioVars, vbVars, queueVars, deferVars, workerVars, live,
                   storeVars, queuedBytes, closeVars, resizes>>

\* FlushStaged charges the staged bytes to the bucket, then walks `touched`.
FlushStaged(t) ==
    /\ iopc[t] = "read" /\ touched[t] # <<>>
    /\ queuedBytes' = queuedBytes + bytes[t]
    /\ bytes' = [bytes EXCEPT ![t] = 0]
    /\ iopc' = [iopc EXCEPT ![t] = "insert"]
    /\ UNCHANGED <<staged, touched, vbVars, queueVars, deferVars, workerVars,
                   live, storeVars, closeVars, issued, resizes, answer>>

\* vbq.list.insertChain(st.first, st.last): one CAS for the whole chain.
InsertChain(t) ==
    /\ iopc[t] = "insert"
    /\ LET v == Head(touched[t]) IN
         list' = [list EXCEPT ![v] = staged[t][v] \o @]
    /\ iopc' = [iopc EXCEPT ![t] = "count"]
    /\ UNCHANGED <<staged, touched, bytes, scheduled, pending, queueVars,
                   deferVars, workerVars, live, storeVars, queuedBytes,
                   closeVars, issued, resizes, answer>>

\* vbq.pending.fetch_add(st.count); st = StagedVB{}.
CountPushed(t) ==
    /\ iopc[t] = "count"
    /\ LET v == Head(touched[t]) IN
         /\ pending' = [pending EXCEPT ![v] = (@ + Len(staged[t][v])) % Word]
         /\ staged' = [staged EXCEPT ![t][v] = <<>>]
    /\ iopc' = [iopc EXCEPT ![t] = "arm"]
    /\ UNCHANGED <<touched, bytes, list, scheduled, queueVars, deferVars,
                   workerVars, live, storeVars, queuedBytes, closeVars,
                   issued, resizes, answer>>

\* On to the next touched vbucket, or back to the event loop.
NextTouched(t) ==
    /\ touched' = [touched EXCEPT ![t] = Tail(@)]
    /\ iopc' = [iopc EXCEPT ![t] =
                  IF Len(touched[t]) = 1 THEN "read" ELSE "insert"]

\* Mutant: the exchange's result is taken the wrong way round.
ArmInverted(t) ==
    /\ iopc[t] = "arm"
    /\ LET v == Head(touched[t]) IN
         /\ scheduled' = [scheduled EXCEPT ![v] = TRUE]
         /\ IF ~scheduled[v]
              THEN NextTouched(t)
              ELSE /\ iopc' = [iopc EXCEPT ![t] = "submit"]
                   /\ UNCHANGED touched
    /\ UNCHANGED <<staged, bytes, list, pending, queueVars, deferVars,
                   workerVars, live, storeVars, queuedBytes, closeVars,
                   issued, resizes, answer>>

\* scheduled.exchange(true): only the thread that saw false submits.
Arm(t) ==
    /\ iopc[t] = "arm"
    /\ LET v == Head(touched[t]) IN
         /\ scheduled' = [scheduled EXCEPT ![v] = TRUE]
         /\ IF scheduled[v]
              THEN NextTouched(t)
              ELSE /\ iopc' = [iopc EXCEPT ![t] = "submit"]
                   /\ UNCHANGED touched
    /\ UNCHANGED <<staged, bytes, list, pending, queueVars, deferVars,
                   workerVars, live, storeVars, queuedBytes, closeVars,
                   issued, resizes, answer>>

\* shouldDeferWrite; `recent` is the clock test, which only a vbucket already
\* written can pass (lastWriteNs starts at 0).
ShouldDefer(v, recent) ==
    Coalesce /\ pending[v] < MinBatch /\ seqno[v] > 0 /\ recent

BlockingWrite(v) ==
    /\ Len(taskQueue) < Capacity
    /\ taskQueue' = Append(taskQueue, v)
    /\ UNCHANGED deferQueue

SubmitOrDefer(v, recent) ==
    IF ShouldDefer(v, recent)
      THEN /\ Len(deferQueue) < Capacity
           /\ deferQueue' = Append(deferQueue, v)
           /\ UNCHANGED taskQueue
      ELSE BlockingWrite(v)

Submit(t) ==
    /\ iopc[t] = "submit"
    /\ \E recent \in BOOLEAN : SubmitOrDefer(Head(touched[t]), recent)
    /\ NextTouched(t)
    /\ UNCHANGED <<staged, bytes, vbVars, deferVars, workerVars, live,
                   storeVars, queuedBytes, closeVars, issued, resizes, answer>>

-----------------------------------------------------------------------------
(* The coalescing thread *)

\* deferLoop takes the oldest task and sleeps out its interval, or meets the
\* shutdown sentinel and turns to handing over what is left.
DeferTake ==
    /\ deferpc = "run" /\ deferHeld = NoVB /\ deferQueue # <<>>
    /\ deferQueue' = Tail(deferQueue)
    /\ IF Head(deferQueue) = Sentinel
         THEN deferpc' = "drain" /\ UNCHANGED deferHeld
         ELSE deferHeld' = Head(deferQueue) /\ UNCHANGED deferpc
    /\ UNCHANGED <<ioVars, vbVars, taskQueue, workerVars, live, storeVars,
                   queuedBytes, closeVars, issued, resizes, answer>>

DeferSubmit ==
    /\ deferHeld # NoVB
    /\ Len(taskQueue) < Capacity
    /\ taskQueue' = Append(taskQueue, deferHeld)
    /\ deferHeld' = NoVB
    /\ UNCHANGED <<ioVars, vbVars, deferQueue, deferpc, workerVars, live,
                   storeVars, queuedBytes, closeVars, issued, resizes, answer>>

\* The hand-over loop of deferLoop: non-blocking reads until the queue is empty.
DeferDrain ==
    /\ deferpc = "drain" /\ deferHeld = NoVB
    /\ IF deferQueue = <<>>
         THEN deferpc' = "done" /\ UNCHANGED <<deferQueue, deferHeld>>
         ELSE /\ deferQueue' = Tail(deferQueue)
              /\ deferHeld' = IF Head(deferQueue) = Sentinel
                                THEN NoVB ELSE Head(deferQueue)
              /\ UNCHANGED deferpc
    /\ UNCHANGED <<ioVars, vbVars, taskQueue, workerVars, live, storeVars,
                   queuedBytes, closeVars, issued, resizes, answer>>

-----------------------------------------------------------------------------
(* Writers *)

\* workerLoop reads a task; a null-shard task ends the worker.
TakeTask(w) ==
    /\ wpc[w] = "idle" /\ taskQueue # <<>>
    /\ taskQueue' = Tail(taskQueue)
    /\ IF Head(taskQueue) = Sentinel
         THEN wpc' = [wpc EXCEPT ![w] = "done"] /\ UNCHANGED wvb
         ELSE /\ wpc' = [wpc EXCEPT ![w] = "sweep"]
              /\ wvb' = [wvb EXCEPT ![w] = Head(taskQueue)]
    /\ UNCHANGED <<ioVars, vbVars, deferQueue, deferVars, batch, live,
                   storeVars, queuedBytes, closeVars, issued, resizes, answer>>

\* vbq.list.sweepOnce: one exchange takes the whole chain, newest first.
Sweep(w) ==
    /\ wpc[w] = "sweep"
    /\ batch' = [batch EXCEPT ![w] = list[wvb[w]]]
    /\ list' = [list EXCEPT ![wvb[w]] = <<>>]
    /\ wpc' = [wpc EXCEPT ![w] = "count"]
    /\ UNCHANGED <<ioVars, scheduled, pending, queueVars, deferVars, wvb, live,
                   storeVars, queuedBytes, closeVars, issued, resizes, answer>>

\* Mutant: the counter goes below zero instead of wrapping.
CountSweptSigned(w) ==
    /\ wpc[w] = "count"
    /\ pending' = [pending EXCEPT ![wvb[w]] = @ - Len(batch[w])]
    /\ batch' = [batch EXCEPT ![w] = Reverse(@)]
    /\ wpc' = [wpc EXCEPT ![w] =
                 IF batch[w] = <<>> THEN "release" ELSE "write"]
    /\ UNCHANGED <<ioVars, list, scheduled, queueVars, deferVars, wvb, live,
                   storeVars, queuedBytes, closeVars, issued, resizes, answer>>

\* vbq.pending.fetch_sub, then the batch is put in arrival order.
CountSwept(w) ==
    /\ wpc[w] = "count"
    /\ pending' = [pending EXCEPT ![wvb[w]] = (@ - Len(batch[w])) % Word]
    /\ batch' = [batch EXCEPT ![w] = Reverse(@)]
    /\ wpc' = [wpc EXCEPT ![w] =
                 IF batch[w] = <<>> THEN "release" ELSE "write"]
    /\ UNCHANGED <<ioVars, list, scheduled, queueVars, deferVars, wvb, live,
                   storeVars, queuedBytes, closeVars, issued, resizes, answer>>

KeysOf(b) == {b[i].key : i \in DOMAIN b}

\* Mutant: dedupe keeps the first of a key's run.
OldestWrite(b, k) ==
    CHOOSE i \in DOMAIN b :
        b[i].key = k /\ \A j \in DOMAIN b : b[j].key = k => i <= j

\* The newest write to k in a batch in arrival order: the last of its run.
Newest(b, k) ==
    CHOOSE i \in DOMAIN b :
        b[i].key = k /\ \A j \in DOMAIN b : b[j].key = k => j <= i

\* Sorting drops the older writes to a key, so a batch has one operation per
\* key, in key order; unsorted it has one per request.  Seqnos follow.
NumOps(b, doSort) == IF doSort THEN Cardinality(KeysOf(b)) ELSE Len(b)
OpRank(b, doSort, i) ==
    IF doSort THEN Cardinality({k \in KeysOf(b) : k <= b[i].key}) ELSE i

\* What a key of the batch holds afterwards.
Applied(v, b, doSort, k) ==
    LET i == Newest(b, k) IN
    [id |-> b[i].id, seqno |-> seqno[v] + OpRank(b, doSort, i)]

\* Assign seqnos and hand the batch to magma, which takes it whole or fails.
\* Dropped duplicates share the outcome of the batch.
WriteBatch(v, b, doSort, ok) ==
    /\ doSort => Len(b) > 1
    /\ seqno' = [seqno EXCEPT ![v] = @ + NumOps(b, doSort)]
    /\ disk' = IF ~ok THEN disk ELSE
         [disk EXCEPT ![v] = [k \in Key |->
            IF k \in KeysOf(b) THEN Applied(v, b, doSort, k) ELSE disk[v][k]]]
    /\ fate' = [i \in Id |->
         IF \E j \in DOMAIN b : b[j].id = i
           THEN IF ok THEN "stored" ELSE "failed"
           ELSE fate[i]]

\* Sort and dedupe (the writer samples the batch to decide), then WriteDocs.
WriteDocs(w) ==
    /\ wpc[w] = "write"
    /\ \E doSort, ok \in BOOLEAN : WriteBatch(wvb[w], batch[w], doSort, ok)
    /\ wpc' = [wpc EXCEPT ![w] = "complete"]
    /\ UNCHANGED <<ioVars, vbVars, queueVars, deferVars, wvb, batch, live,
                   queuedBytes, closeVars, issued, resizes, answer>>

\* Mutant: only the survivors' bytes are returned.
SurvivorBytes(b) == Cardinality(KeysOf(b))

\* batchBytes: survivors, then the dropped duplicates, charged in StageWrite too.
BatchBytes(b) == Len(b)

\* Mutant: every request of the batch is answered with success.
CompleteUnchecked(w) ==
    /\ wpc[w] = "complete"
    /\ queuedBytes' = queuedBytes - BatchBytes(batch[w])
    /\ answer' = IF ~Durable THEN answer ELSE
         [i \in Id |-> IF \E j \in DOMAIN batch[w] : batch[w][j].id = i
                         THEN "success" ELSE answer[i]]
    /\ wpc' = [wpc EXCEPT ![w] = "release"]
    /\ UNCHANGED <<ioVars, vbVars, queueVars, deferVars, wvb, batch, live,
                   storeVars, closeVars, issued, resizes>>

\* Return the whole batch's bytes, dropped duplicates included; in durable mode
\* post the responses, otherwise recycle the requests.
Complete(w) ==
    /\ wpc[w] = "complete"
    /\ queuedBytes' = queuedBytes - BatchBytes(batch[w])
    /\ answer' = IF ~Durable THEN answer ELSE
         [i \in Id |->
            IF \E j \in DOMAIN batch[w] : batch[w][j].id = i
              THEN IF fate[i] = "stored" THEN "success" ELSE "error"
              ELSE answer[i]]
    /\ wpc' = [wpc EXCEPT ![w] = "release"]
    /\ UNCHANGED <<ioVars, vbVars, queueVars, deferVars, wvb, batch, live,
                   storeVars, closeVars, issued, resizes>>

\* executePersist returns.
Return(w) ==
    /\ wpc' = [wpc EXCEPT ![w] = "idle"]
    /\ wvb' = [wvb EXCEPT ![w] = NoVB]
    /\ batch' = [batch EXCEPT ![w] = <<>>]

\* releaseVBQueue and releaseVBQueueAfterWrite: store false ...
Release(w) ==
    /\ wpc[w] = "release"
    /\ scheduled' = [scheduled EXCEPT ![wvb[w]] = FALSE]
    /\ wpc' = [wpc EXCEPT ![w] = "recheck"]
    /\ UNCHANGED <<ioVars, list, pending, queueVars, deferVars, wvb, batch,
                   live, storeVars, queuedBytes, closeVars, issued, resizes,
                   answer>>

\* Mutant: release without looking at the stack again.
RecheckSkipped(w) ==
    /\ wpc[w] = "recheck"
    /\ Return(w)
    /\ UNCHANGED <<ioVars, vbVars, queueVars, deferVars, live, storeVars,
                   queuedBytes, closeVars, issued, resizes, answer>>

\* ... then test list.empty() ...
Recheck(w) ==
    /\ wpc[w] = "recheck"
    /\ IF list[wvb[w]] = <<>>
         THEN Return(w)
         ELSE wpc' = [wpc EXCEPT ![w] = "rearm"] /\ UNCHANGED <<wvb, batch>>
    /\ UNCHANGED <<ioVars, vbVars, queueVars, deferVars, live, storeVars,
                   queuedBytes, closeVars, issued, resizes, answer>>

\* Mutant: resubmit without testing what the exchange returned.
RearmBlind(w) ==
    /\ wpc[w] = "rearm"
    /\ scheduled' = [scheduled EXCEPT ![wvb[w]] = TRUE]
    /\ wpc' = [wpc EXCEPT ![w] = "resubmit"]
    /\ UNCHANGED <<ioVars, list, pending, queueVars, deferVars, wvb, batch,
                   live, storeVars, queuedBytes, closeVars, issued, resizes,
                   answer>>

\* ... and if something arrived, compete for the flag again ...
Rearm(w) ==
    /\ wpc[w] = "rearm"
    /\ scheduled' = [scheduled EXCEPT ![wvb[w]] = TRUE]
    /\ IF scheduled[wvb[w]]
         THEN Return(w)
         ELSE wpc' = [wpc EXCEPT ![w] = "resubmit"] /\ UNCHANGED <<wvb, batch>>
    /\ UNCHANGED <<ioVars, list, pending, queueVars, deferVars, live, storeVars,
                   queuedBytes, closeVars, issued, resizes, answer>>

\* ... and submit: an empty sweep re-arms at once, a write may be deferred.
Resubmit(w) ==
    /\ wpc[w] = "resubmit"
    /\ IF batch[w] = <<>>
         THEN BlockingWrite(wvb[w])
         ELSE \E recent \in BOOLEAN : SubmitOrDefer(wvb[w], recent)
    /\ Return(w)
    /\ UNCHANGED <<ioVars, vbVars, deferVars, live, storeVars, queuedBytes,
                   closeVars, issued, resizes, answer>>

-----------------------------------------------------------------------------
(* Pool sizing by the tuner, and Bucket::Close *)

Joinable == {w \in Workers : wpc[w] # "off"}       \* workers_

Sentinels(n) == [i \in 1..n |-> Sentinel]

Grow(w) ==
    /\ phase = "run" /\ resizes < MaxResizes
    /\ wpc[w] = "off"
    /\ wpc' = [wpc EXCEPT ![w] = "idle"]
    /\ live' = live + 1
    /\ resizes' = resizes + 1
    /\ UNCHANGED <<ioVars, vbVars, queueVars, deferVars, wvb, batch, storeVars,
                   queuedBytes, closeVars, issued, answer>>

\* Mutant: no clamp, the pool may retire its last writer.
ShrinkUnclamped(n) == n

\* Shrink(n) clamps n so that one writer stays, and queues that many sentinels.
ShrinkBy(n) == IF live > 1 THEN IF n < live - 1 THEN n ELSE live - 1 ELSE 0

Shrink(n) ==
    /\ phase = "run" /\ resizes < MaxResizes
    /\ Len(taskQueue) + ShrinkBy(n) <= Capacity
    /\ live' = live - ShrinkBy(n)
    /\ taskQueue' = taskQueue \o Sentinels(ShrinkBy(n))
    /\ resizes' = resizes + 1
    /\ UNCHANGED <<ioVars, vbVars, deferQueue, deferVars, workerVars, storeVars,
                   queuedBytes, closeVars, issued, answer>>

Reap ==
    /\ phase = "run"
    /\ \E w \in Workers : wpc[w] = "done"
    /\ wpc' = [w \in Workers |-> IF wpc[w] = "done" THEN "off" ELSE wpc[w]]
    /\ UNCHANGED <<ioVars, vbVars, queueVars, deferVars, wvb, batch, live,
                   storeVars, queuedBytes, closeVars, issued, resizes, answer>>

\* Server::Stop has joined the tuner and the IO loops, each of which left
\* readDataAvailable through FlushStaged; Bucket::Close starts DrainWrites.
BeginClose ==
    /\ phase = "run"
    /\ \A t \in IOThreads : iopc[t] = "read" /\ touched[t] = <<>>
    /\ phase' = "drain"
    /\ UNCHANGED <<ioVars, vbVars, queueVars, deferVars, workerVars, live,
                   storeVars, queuedBytes, timedOut, issued, resizes, answer>>

\* Mutant: close without waiting for the queue.
DrainNothing ==
    /\ phase = "drain"
    /\ phase' = "stopDefer"
    /\ UNCHANGED <<ioVars, vbVars, queueVars, deferVars, workerVars, live,
                   storeVars, queuedBytes, timedOut, issued, resizes, answer>>

\* Bucket::DrainWrites: wait for queuedBytes_ to reach zero, or give up.
DrainWrites ==
    /\ phase = "drain"
    /\ \/ queuedBytes = 0 /\ UNCHANGED timedOut
       \/ queuedBytes # 0 /\ timedOut' = TRUE
    /\ phase' = "stopDefer"
    /\ UNCHANGED <<ioVars, vbVars, queueVars, deferVars, workerVars, live,
                   storeVars, queuedBytes, issued, resizes, answer>>

\* WriterPool::Shutdown: end the coalescing thread first, if there is one ...
StopDefer ==
    /\ phase = "stopDefer"
    /\ IF Coalesce
         THEN /\ Len(deferQueue) < Capacity
              /\ deferQueue' = Append(deferQueue, Sentinel)
              /\ phase' = "joinDefer"
         ELSE phase' = "stopWriters" /\ UNCHANGED deferQueue
    /\ UNCHANGED <<ioVars, vbVars, taskQueue, deferVars, workerVars, live,
                   storeVars, queuedBytes, timedOut, issued, resizes, answer>>

JoinDefer ==
    /\ phase = "joinDefer" /\ deferpc = "done"
    /\ phase' = "stopWriters"
    /\ UNCHANGED <<ioVars, vbVars, queueVars, deferVars, workerVars, live,
                   storeVars, queuedBytes, timedOut, issued, resizes, answer>>

\* ... then one stop sentinel per worker, behind whatever is queued ...
StopWriters ==
    /\ phase = "stopWriters"
    /\ Len(taskQueue) + Cardinality(Joinable) <= Capacity
    /\ taskQueue' = taskQueue \o Sentinels(Cardinality(Joinable))
    /\ phase' = "join"
    /\ UNCHANGED <<ioVars, vbVars, deferQueue, deferVars, workerVars, live,
                   storeVars, queuedBytes, timedOut, issued, resizes, answer>>

\* ... and join them.
JoinWriters ==
    /\ phase = "join"
    /\ \A w \in Joinable : wpc[w] = "done"
    /\ wpc' = [w \in Workers |-> "off"]
    /\ live' = 0
    /\ phase' = "closed"
    /\ UNCHANGED <<ioVars, vbVars, queueVars, deferVars, wvb, batch, storeVars,
                   queuedBytes, timedOut, issued, resizes, answer>>

-----------------------------------------------------------------------------
IOStep(t) ==
    \/ FlushStaged(t) \/ InsertChain(t) \/ CountPushed(t) \/ Arm(t) \/ Submit(t)

DeferStep == DeferTake \/ DeferSubmit \/ DeferDrain

WorkerStep(w) ==
    \/ TakeTask(w) \/ Sweep(w) \/ CountSwept(w) \/ WriteDocs(w) \/ Complete(w)
    \/ Release(w) \/ Recheck(w) \/ Rearm(w) \/ Resubmit(w)

CloseStep ==
    DrainWrites \/ StopDefer \/ JoinDefer \/ StopWriters \/ JoinWriters

\* The process has stopped.
Closed == phase = "closed" /\ UNCHANGED vars

Next ==
    \/ \E t \in IOThreads, v \in VB, k \in Key : StageWrite(t, v, k)
    \/ \E t \in IOThreads : RefuseWrite(t) \/ IOStep(t)
    \/ DeferStep
    \/ \E w \in Workers : WorkerStep(w) \/ Grow(w)
    \/ \E n \in 1..Cardinality(Workers) : Shrink(n)
    \/ Reap
    \/ BeginClose
    \/ CloseStep
    \/ Closed

Spec == Init /\ [][Next]_vars

\* The event loop returns to FlushStaged, writers and the coalescing thread
\* run, and Bucket::Close proceeds; nobody has to send, resize or close.
Fairness ==
    /\ \A t \in IOThreads : WF_vars(IOStep(t))
    /\ WF_vars(DeferStep)
    /\ \A w \in Workers : WF_vars(WorkerStep(w))
    /\ WF_vars(CloseStep)

FairSpec == Spec /\ Fairness

-----------------------------------------------------------------------------
(* Properties *)

\* Where a vbucket's one task can be: in a queue, with the coalescing thread,
\* with a thread that won the flag and has not submitted yet, or in execution.
OwningPc == {"sweep", "count", "write", "complete", "release", "resubmit"}

Holders(v) ==
    {<<"task", i>> : i \in {j \in DOMAIN taskQueue : taskQueue[j] = v}}
    \cup {<<"defer", i>> : i \in {j \in DOMAIN deferQueue : deferQueue[j] = v}}
    \cup {<<"held", 0>> : x \in {deferHeld} \cap {v}}
    \cup {<<"io", t>> : t \in {u \in IOThreads :
                            iopc[u] = "submit" /\ Head(touched[u]) = v}}
    \cup {<<"worker", w>> : w \in {u \in Workers :
                            wpc[u] \in OwningPc /\ wvb[u] = v}}

\* A vbucket's `scheduled` flag is up exactly when one task for it exists
\* somewhere, and there is never a second one: two writers never work on one
\* vbucket, so its batches reach magma in the order they were swept.
SingleOwner ==
    \A v \in VB : /\ Cardinality(Holders(v)) <= 1
                  /\ scheduled[v] <=> Holders(v) # {}

\* No lost wakeup: queued requests always have an owner, a pusher that has not
\* tried the flag yet, or a releasing writer that has not rechecked.
NoLostWakeup ==
    \A v \in VB : list[v] # <<>> =>
        \/ scheduled[v]
        \/ \E t \in IOThreads :
              iopc[t] \in {"count", "arm"} /\ Head(touched[t]) = v
        \/ \E w \in Workers : wpc[w] \in {"recheck", "rearm"} /\ wvb[w] = v

\* The requests of a chain or of a batch.
Ids(s) == {s[j].id : j \in DOMAIN s}

\* Requests of v that t has staged and not pushed, and the ones that w has
\* swept and not completed.
Unpushed(t, v) ==
    IF iopc[t] = "count" /\ Head(touched[t]) = v THEN {} ELSE Ids(staged[t][v])
Held(w) ==
    IF wpc[w] \in {"count", "write", "complete"} THEN Ids(batch[w]) ELSE {}

\* The requests flushed and not completed.
Outstanding ==
    {i \in Id :
        \/ \E t \in IOThreads, v \in VB : iopc[t] # "read" /\ i \in Unpushed(t, v)
        \/ \E v \in VB : i \in Ids(list[v])
        \/ \E w \in Workers : i \in Held(w)}

\* The admission check reads a total the other threads' staged bytes are not
\* in yet; no wake stages more than the limit, so the overshoot is at most one
\* limit for every other IO thread.
BoundedOvershoot == \A t \in IOThreads : bytes[t] <= Limit

\* VBQueue::pending is raised after the push and lowered after the sweep, so it
\* may wrap below zero in between; it is exact, as far as a uint32_t can be,
\* whenever no one is in between.
PendingSettles ==
    \A v \in VB :
        \/ \E t \in IOThreads : iopc[t] = "count" /\ Head(touched[t]) = v
        \/ \E w \in Workers : wpc[w] = "count" /\ wvb[w] = v
        \/ pending[v] = Len(list[v]) % Word

\* queuedBytes_ is exactly the requests flushed and not completed: the drain of
\* a shutdown waits for all of them, and no path leaks budget or returns it
\* twice (dropped duplicates are where it could).  What the limit is compared
\* with, and what coalescing looks at, follow from it.
ExactAccounting ==
    /\ queuedBytes = Cardinality(Outstanding)
    /\ BoundedOvershoot
    /\ PendingSettles

\* A queue of one slot per vbucket and two sentinels per worker never fills,
\* so no blockingWrite ever blocks: workers, which write to the queue they
\* drain, cannot all be stuck on it.
NeverBlocks ==
    Capacity >= Cardinality(VB) + 2 * Cardinality(Workers) =>
        \A v \in VB : Holders(v) \cap ({"io", "worker", "held"} \X
                          (IOThreads \cup Workers \cup {0})) # {}
                        => Len(taskQueue) < Capacity /\ Len(deferQueue) < Capacity

\* The tuner never retires the last writer: until shutdown more workers run
\* than sentinels wait for them, whatever sequence of resizes came before,
\* and they are not all stuck on the queue they drain.
WriterRemains ==
    /\ NeverBlocks
    /\ phase = "run" =>
        Cardinality({w \in Workers : wpc[w] \notin {"off", "done"}})
          > Cardinality({i \in DOMAIN taskQueue : taskQueue[i] = Sentinel})

Accepted(i) ==
    /\ i <= issued
    /\ answer[i] \notin {"tmpfail"}
    /\ ~(Durable /\ answer[i] = "error" /\ fate[i] = "new")

\* A shutdown that did not time out leaves nothing behind: every accepted write
\* has been through WriteDocs and no request is left in a stack, even where a
\* late re-arm left an (empty-handed) task behind the stop sentinels.
CleanShutdown ==
    phase = "closed" /\ ~timedOut =>
        /\ \A i \in Id : Accepted(i) => fate[i] # "new"
        /\ \A v \in VB : list[v] = <<>>

\* In durable mode a write is acknowledged only once magma has taken the whole
\* batch it was in, the duplicates that dedupe dropped from it included.
DurableAck ==
    Durable => \A i \in Id : answer[i] = "success" => fate[i] = "stored"

\* Every accepted write is eventually handed to magma.
EventuallyWritten ==
    \A i \in Id : (Accepted(i) /\ ~timedOut) ~> (fate[i] # "new" \/ timedOut)

\* The write path implements the ordered per-vbucket store: what a writer has
\* swept is the front of the queue, the stack read backwards is the rest.
Swept(v) ==
    LET owners == {w \in Workers : wpc[w] \in {"count", "write"} /\ wvb[w] = v}
        w == CHOOSE u \in owners : TRUE
    IN  IF owners = {} THEN <<>>
        ELSE IF wpc[w] = "count" THEN Reverse(batch[w]) ELSE batch[w]

Store == INSTANCE VBucketStore WITH
    queue <- [v \in VB |-> Swept(v) \o Reverse(list[v])],
    store <- disk,
    high  <- seqno

ImplementsStore == Store!Spec
=============================================================================
