------------------------------ MODULE ReadQueue ------------------------------
(***************************************************************************)
(* The read path of one shard: an IO thread pushes a GET that missed the   *)
(* cache on its vbucket's stack and arms an owner slot if the backlog asks *)
(* for one; a reader takes the task, collects a batch (what earlier        *)
(* batches left over first, then one sweep of the stack), leaves the       *)
(* excess in the overflow list, reads magma, posts the answers and gives   *)
(* the slot back.  Up to maxOwners readers work on a vbucket at once, and  *)
(* with async reads the slot is given back before magma has answered.      *)
(* (src/server/engine.cc, ReaderPool and Bucket::EnqueueRead)              *)
(*                                                                         *)
(* Every atomic access and every critical section of overflowMu is a step. *)
(* A reader may take several tasks at once (FLUXKV_READER_MULTI): it       *)
(* collects each, reads magma for all of them and then gives them back.    *)
(***************************************************************************)
EXTENDS Integers, Sequences, SequencesExt, FiniteSets, Functions

CONSTANTS
    IOThreads,      \* the IO event loops
    Workers,        \* identities the reader pool may use
    InitWorkers,    \* the readers the pool starts with
    VB,             \* the vbuckets of the shard
    Key,            \* document keys
    Sentinel,       \* the null-shard task: kStopSentinel or kRetireSentinel
    NoVB,           \* no vbucket
    Capacity,       \* capacity of taskQueue_
    MaxBatch,       \* gMaxReadBatch
    Multi,          \* FLUXKV_READER_MULTI
    OwnerLimits,    \* settings of gMaxReadOwners to consider
    AsyncModes,     \* settings of gAsyncReads to consider
    MaxReads,       \* bound: GETs the clients send
    MaxResizes      \* bound: Grow and Shrink calls of the tuner

ASSUME ReadSets ==
    /\ InitWorkers \subseteq Workers /\ InitWorkers # {}
    /\ IsFiniteSet(Workers) /\ IsFiniteSet(IOThreads)
    /\ Sentinel \notin VB /\ NoVB \notin VB /\ NoVB # Sentinel
    /\ AsyncModes \subseteq BOOLEAN

ASSUME ReadNumbers ==
    /\ Capacity \in Nat /\ MaxReads \in Nat /\ MaxResizes \in Nat
    /\ MaxBatch \in Nat \ {0} /\ Multi \in Nat \ {0}
    /\ OwnerLimits \subseteq Nat \ {0}

VARIABLES
    maxOwners,      \* gMaxReadOwners, fixed at start-up
    async,          \* gAsyncReads, fixed at start-up
    iopc,           \* IO thread -> where it is in EnqueueRead
    ioreq,          \* IO thread -> the request it enqueues
    iodepth,        \* IO thread -> its local `depth`
    list,           \* vbucket -> VBQueue::list, newest first
    overflow,       \* vbucket -> overflowHead .. overflowTail
    readOwners,     \* vbucket -> VBQueue::readOwners
    readDepth,      \* vbucket -> VBQueue::readDepth
    taskQueue,      \* ReaderPool::taskQueue_
    wpc,            \* worker -> where it is in workerLoop/executeRead
    wvb,            \* worker -> vbucket of the task it collects or releases
    todo,           \* worker -> tasks it has taken and not collected yet
    held,           \* worker -> tasks to release once magma has answered
    stopAfter,      \* worker -> it has met a sentinel behind its tasks
    batch,          \* worker -> requests of the task it is collecting
    got,            \* worker -> requests collected and not completed, a set
    accum,          \* worker -> its DispatchAccum
    calls,          \* GetDocsAsync operations under way: sets of requests
    magmaAccum,     \* the DispatchAccum of magma's reading threads
    live,           \* ReaderPool::live_
    phase,          \* progress of ReaderPool::Shutdown
    issued,         \* GETs received so far
    resizes,        \* Grow and Shrink calls so far
    posted          \* request id -> answers posted to its event loop

modeVars   == <<maxOwners, async>>
ioVars     == <<iopc, ioreq, iodepth>>
vbVars     == <<list, overflow, readOwners, readDepth>>
taskVars   == <<wvb, todo, held, stopAfter>>
reqVars    == <<batch, got, accum>>
workerVars == <<wpc, taskVars, reqVars>>
magmaVars  == <<calls, magmaAccum>>
poolVars   == <<live, phase, resizes>>
vars == <<modeVars, ioVars, vbVars, taskQueue, workerVars, magmaVars, poolVars,
          issued, posted>>

Id      == 1..MaxReads
Request == [id : Id, vb : VB, key : Key]

NoRequest == [id |-> 0, vb |-> NoVB]

Wpc == {"off", "loop", "idle", "drain", "sweep", "spill", "count", "serve",
        "release", "peek", "recheck", "depth", "rearm", "resubmit",
        "call", "done", "gather"}

TypeOK ==
    /\ maxOwners \in OwnerLimits
    /\ async \in AsyncModes
    /\ iopc \in [IOThreads -> {"read", "count", "arm", "submit"}]
    /\ ioreq \in [IOThreads -> Request \cup {NoRequest}]
    /\ iodepth \in [IOThreads -> Int]
    /\ list \in [VB -> Seq(Request)]
    /\ overflow \in [VB -> Seq(Request)]
    /\ readOwners \in [VB -> Nat]
    /\ readDepth \in [VB -> Int]
    /\ taskQueue \in Seq(VB \cup {Sentinel})
    /\ wpc \in [Workers -> Wpc]
    /\ wvb \in [Workers -> VB \cup {NoVB}]
    /\ todo \in [Workers -> Seq(VB)] /\ held \in [Workers -> Seq(VB)]
    /\ stopAfter \in [Workers -> BOOLEAN]
    /\ batch \in [Workers -> Seq(Request)]
    /\ got \in [Workers -> SUBSET Request]
    /\ accum \in [Workers -> SUBSET Request]
    /\ calls \subseteq SUBSET Request
    /\ magmaAccum \subseteq Request
    /\ live \in Nat
    /\ phase \in {"run", "stop", "join", "closed"}
    /\ issued \in 0..MaxReads
    /\ resizes \in 0..MaxResizes
    /\ posted \in [Id -> Nat]

Init ==
    /\ maxOwners \in OwnerLimits
    /\ async \in AsyncModes
    /\ iopc = [t \in IOThreads |-> "read"]
    /\ ioreq = [t \in IOThreads |-> NoRequest]
    /\ iodepth = [t \in IOThreads |-> 0]
    /\ list = [v \in VB |-> <<>>]
    /\ overflow = [v \in VB |-> <<>>]
    /\ readOwners = [v \in VB |-> 0]
    /\ readDepth = [v \in VB |-> 0]
    /\ taskQueue = <<>>
    /\ wpc = [w \in Workers |-> IF w \in InitWorkers THEN "loop" ELSE "off"]
    /\ wvb = [w \in Workers |-> NoVB]
    /\ todo = [w \in Workers |-> <<>>] /\ held = [w \in Workers |-> <<>>]
    /\ stopAfter = [w \in Workers |-> FALSE]
    /\ batch = [w \in Workers |-> <<>>] /\ got = [w \in Workers |-> {}]
    /\ accum = [w \in Workers |-> {}]
    /\ calls = {}
    /\ magmaAccum = {}
    /\ live = Cardinality(InitWorkers)
    /\ phase = "run"
    /\ issued = 0
    /\ resizes = 0
    /\ posted = [i \in Id |-> 0]

-----------------------------------------------------------------------------
(* Bucket::EnqueueRead *)

\* vbq.list.insertHead(req): from here on a reader may answer and recycle it.
EnqueueRead(t, v, k) ==
    /\ phase = "run" /\ iopc[t] = "read" /\ issued < MaxReads
    /\ LET req == [id |-> issued + 1, vb |-> v, key |-> k] IN
         /\ list' = [list EXCEPT ![v] = <<req>> \o @]
         /\ ioreq' = [ioreq EXCEPT ![t] = req]
    /\ issued' = issued + 1
    /\ iopc' = [iopc EXCEPT ![t] = "count"]
    /\ UNCHANGED <<modeVars, iodepth, overflow, readOwners, readDepth,
                   taskQueue, workerVars, magmaVars, poolVars, posted>>

\* depth = vbq.readDepth.fetch_add(1) + 1
CountRead(t) ==
    /\ iopc[t] = "count"
    /\ LET v == ioreq[t].vb IN
         /\ readDepth' = [readDepth EXCEPT ![v] = @ + 1]
         /\ iodepth' = [iodepth EXCEPT ![t] = readDepth[v] + 1]
    /\ iopc' = [iopc EXCEPT ![t] = "arm"]
    /\ UNCHANGED <<modeVars, ioreq, list, overflow, readOwners, taskQueue,
                   workerVars, magmaVars, poolVars, issued, posted>>

\* Back to the event loop.
EnqueueDone(t) ==
    /\ iopc' = [iopc EXCEPT ![t] = "read"]
    /\ ioreq' = [ioreq EXCEPT ![t] = NoRequest]
    /\ iodepth' = [iodepth EXCEPT ![t] = 0]

\* The first owner always starts; another one when a full round is queued
\* behind those there are.
Arms(v, depth) ==
    \/ readOwners[v] = 0
    \/ readOwners[v] < maxOwners /\ depth > readOwners[v] * MaxBatch

\* The load and compare_exchange loop on readOwners.
Arm(t) ==
    /\ iopc[t] = "arm"
    /\ LET v == ioreq[t].vb IN
         IF Arms(v, iodepth[t])
           THEN /\ readOwners' = [readOwners EXCEPT ![v] = @ + 1]
                /\ iopc' = [iopc EXCEPT ![t] = "submit"]
                /\ UNCHANGED <<ioreq, iodepth>>
           ELSE EnqueueDone(t) /\ UNCHANGED readOwners
    /\ UNCHANGED <<modeVars, list, overflow, readDepth, taskQueue, workerVars,
                   magmaVars, poolVars, issued, posted>>

\* Mutant: the vbucket is read from the request after the push; one answered
\* and recycled by then names any vbucket.
SubmitRecycled(t) ==
    /\ iopc[t] = "submit"
    /\ Len(taskQueue) < Capacity
    /\ \E v \in VB : /\ posted[ioreq[t].id] = 0 => v = ioreq[t].vb
                     /\ taskQueue' = Append(taskQueue, v)
    /\ EnqueueDone(t)
    /\ UNCHANGED <<modeVars, vbVars, workerVars, magmaVars, poolVars, issued,
                   posted>>

\* ReaderPool::Submit
Submit(t) ==
    /\ iopc[t] = "submit"
    /\ Len(taskQueue) < Capacity
    /\ taskQueue' = Append(taskQueue, ioreq[t].vb)
    /\ EnqueueDone(t)
    /\ UNCHANGED <<modeVars, vbVars, workerVars, magmaVars, poolVars, issued,
                   posted>>

-----------------------------------------------------------------------------
(* workerLoop and collectRead *)

Goto(w, pc) == wpc' = [wpc EXCEPT ![w] = pc]

\* while (!shutdown_)
LoopTest(w) ==
    /\ wpc[w] = "loop"
    /\ Goto(w, IF phase = "run" THEN "idle" ELSE "done")
    /\ UNCHANGED <<modeVars, ioVars, vbVars, taskQueue, taskVars, reqVars,
                   magmaVars, poolVars, issued, posted>>

\* The next task, in order; a null-shard task ends the worker.
TakeTask(w) ==
    /\ wpc[w] = "idle" /\ taskQueue # <<>>
    /\ taskQueue' = Tail(taskQueue)
    /\ IF Head(taskQueue) = Sentinel
         THEN Goto(w, "done") /\ UNCHANGED wvb
         ELSE /\ Goto(w, IF Multi > 1 THEN "gather" ELSE "drain")
              /\ wvb' = [wvb EXCEPT ![w] = Head(taskQueue)]
    /\ UNCHANGED <<modeVars, ioVars, vbVars, todo, held, stopAfter, reqVars,
                   magmaVars, poolVars, issued, posted>>

Gathers(w) == wpc[w] = "gather" /\ Len(todo[w]) + 1 < Multi /\ taskQueue # <<>>

\* Up to Multi tasks are taken without waiting for them.
GatherTask(w) ==
    /\ Gathers(w) /\ Head(taskQueue) # Sentinel
    /\ taskQueue' = Tail(taskQueue)
    /\ todo' = [todo EXCEPT ![w] = Append(@, Head(taskQueue))]
    /\ UNCHANGED <<modeVars, ioVars, vbVars, wpc, wvb, held, stopAfter, reqVars,
                   magmaVars, poolVars, issued, posted>>

\* A sentinel met on the way ends the worker after its tasks.
GatherSentinel(w) ==
    /\ Gathers(w) /\ Head(taskQueue) = Sentinel
    /\ taskQueue' = Tail(taskQueue)
    /\ stopAfter' = [stopAfter EXCEPT ![w] = TRUE]
    /\ Goto(w, "drain")
    /\ UNCHANGED <<modeVars, ioVars, vbVars, wvb, todo, held, reqVars, magmaVars,
                   poolVars, issued, posted>>

GatherEnd(w) ==
    /\ wpc[w] = "gather" /\ ~Gathers(w)
    /\ Goto(w, "drain")
    /\ UNCHANGED <<modeVars, ioVars, vbVars, taskQueue, taskVars, reqVars,
                   magmaVars, poolVars, issued, posted>>

\* Under overflowMu: take up to a batch of what earlier rounds left.
DrainOverflow(w) ==
    /\ wpc[w] = "drain"
    /\ LET v == wvb[w]
           n == IF Len(overflow[v]) < MaxBatch THEN Len(overflow[v])
                ELSE MaxBatch
       IN  /\ batch' = [batch EXCEPT ![w] = SubSeq(overflow[v], 1, n)]
           /\ overflow' = [overflow EXCEPT ![v] = SubSeq(@, n + 1, Len(@))]
           /\ Goto(w, IF n < MaxBatch THEN "sweep" ELSE "count")
    /\ UNCHANGED <<modeVars, ioVars, list, readOwners, readDepth, taskQueue,
                   taskVars, got, accum, magmaVars, poolVars, issued, posted>>

\* sweepOnce and reverse: the stack in arrival order behind the batch.
Sweep(w) ==
    /\ wpc[w] = "sweep"
    /\ LET v == wvb[w]
           b == batch[w] \o Reverse(list[v])
       IN  /\ batch' = [batch EXCEPT ![w] = b]
           /\ list' = [list EXCEPT ![v] = <<>>]
           /\ Goto(w, IF b = <<>> THEN "release"
                      ELSE IF Len(b) > MaxBatch THEN "spill" ELSE "count")
    /\ UNCHANGED <<modeVars, ioVars, overflow, readOwners, readDepth, taskQueue,
                   taskVars, got, accum, magmaVars, poolVars, issued, posted>>

\* Mutant: the excess goes back to the stack, where later arrivals pass it.
SpillToList(w) ==
    /\ wpc[w] = "spill"
    /\ list' = [list EXCEPT ![wvb[w]] =
                  Reverse(SubSeq(batch[w], MaxBatch + 1, Len(batch[w]))) \o @]
    /\ batch' = [batch EXCEPT ![w] = SubSeq(@, 1, MaxBatch)]
    /\ Goto(w, "count")
    /\ UNCHANGED <<modeVars, ioVars, overflow, readOwners, readDepth, taskQueue,
                   taskVars, got, accum, magmaVars, poolVars, issued, posted>>

\* Under overflowMu: append what is past the cap to the overflow.
Spill(w) ==
    /\ wpc[w] = "spill"
    /\ overflow' = [overflow EXCEPT ![wvb[w]] =
                      @ \o SubSeq(batch[w], MaxBatch + 1, Len(batch[w]))]
    /\ batch' = [batch EXCEPT ![w] = SubSeq(@, 1, MaxBatch)]
    /\ Goto(w, "count")
    /\ UNCHANGED <<modeVars, ioVars, list, readOwners, readDepth, taskQueue,
                   taskVars, got, accum, magmaVars, poolVars, issued, posted>>

\* executeReadMulti's next task, or GetDocs once all are collected.
NextTask(w) ==
    IF todo[w] # <<>>
      THEN /\ Goto(w, "drain")
           /\ wvb' = [wvb EXCEPT ![w] = Head(todo[w])]
           /\ todo' = [todo EXCEPT ![w] = Tail(@)]
      ELSE /\ Goto(w, "serve")
           /\ wvb' = [wvb EXCEPT ![w] = NoVB]
           /\ UNCHANGED todo

\* A synchronous read keeps the slot while magma works; an async one gives it
\* back first.
Collected(w) ==
    /\ batch' = [batch EXCEPT ![w] = <<>>]
    /\ got' = [got EXCEPT ![w] = @ \cup Range(batch[w])]
    /\ IF async THEN Goto(w, "release") /\ UNCHANGED <<wvb, todo, held>>
       ELSE NextTask(w) /\ held' = [held EXCEPT ![w] = Append(@, wvb[w])]

\* Mutant: requests left in the overflow are taken off the depth too, and
\* again when they are served.
CountSweptTwice(w) ==
    /\ wpc[w] = "count"
    /\ readDepth' = [readDepth EXCEPT ![wvb[w]] =
                       @ - Len(batch[w]) - Len(overflow[wvb[w]])]
    /\ Collected(w)
    /\ UNCHANGED <<modeVars, ioVars, list, overflow, readOwners, taskQueue,
                   stopAfter, accum, magmaVars, poolVars, issued, posted>>

\* vbq.readDepth.fetch_sub(batch.size())
CountBatch(w) ==
    /\ wpc[w] = "count"
    /\ readDepth' = [readDepth EXCEPT ![wvb[w]] = @ - Len(batch[w])]
    /\ Collected(w)
    /\ UNCHANGED <<modeVars, ioVars, list, overflow, readOwners, taskQueue,
                   stopAfter, accum, magmaVars, poolVars, issued, posted>>

-----------------------------------------------------------------------------
(* Reading magma and answering *)

Post(reqs) ==
    posted' = [i \in Id |-> IF \E r \in reqs : r.id = i THEN posted[i] + 1
                            ELSE posted[i]]

\* Mutant: only the first of the requests that share a key is answered.
SharingFirst(S, v, k) ==
    {r \in S : /\ r.vb = v /\ r.key = k
               /\ \A q \in S : q.vb = v /\ q.key = k => r.id <= q.id}

\* The requests that wait on one operation: one per distinct key of a task.  Two
\* tasks of one vbucket in one round are two operations; their keys are taken
\* together here.
Sharing(S, v, k) == {r \in S : r.vb = v /\ r.key = k}

\* magma completes one operation of a GetDocs (or the single Get) and
\* completeGets hands its requests to the accumulator, which posts them once
\* they fill a group; otherwise they are kept for FlushAll.
OnDoc(w, v, k) ==
    /\ wpc[w] = "serve"
    /\ LET done == Sharing(got[w], v, k) IN
         /\ done # {}
         /\ \E kept \in {{}, accum[w] \cup done} :
              /\ accum' = [accum EXCEPT ![w] = kept]
              /\ Post((accum[w] \cup done) \ kept)
         /\ got' = [got EXCEPT ![w] = {r \in @ : r.vb # v \/ r.key # k}]
    /\ UNCHANGED <<modeVars, ioVars, vbVars, taskQueue, wpc, taskVars, batch,
                   magmaVars, poolVars, issued>>

\* The tasks that had anything are given back one after the other, and
\* executeRead returns to workerLoop.
ReleaseNext(w) ==
    IF held[w] # <<>>
      THEN /\ Goto(w, "release")
           /\ wvb' = [wvb EXCEPT ![w] = Head(held[w])]
           /\ held' = [held EXCEPT ![w] = Tail(@)]
           /\ UNCHANGED stopAfter
      ELSE /\ Goto(w, IF stopAfter[w] THEN "done" ELSE "loop")
           /\ wvb' = [wvb EXCEPT ![w] = NoVB]
           /\ stopAfter' = [stopAfter EXCEPT ![w] = FALSE]
           /\ UNCHANGED held

\* Mutant: GetDocs returns and the accumulator is not flushed.
FlushNothing(w) ==
    /\ wpc[w] = "serve" /\ got[w] = {}
    /\ ReleaseNext(w)
    /\ UNCHANGED <<modeVars, ioVars, vbVars, taskQueue, todo, reqVars, magmaVars,
                   poolVars, issued, posted>>

\* GetDocs or GetDocsMulti has returned; accum.FlushAll().
FlushAll(w) ==
    /\ wpc[w] = "serve" /\ got[w] = {}
    /\ Post(accum[w])
    /\ accum' = [accum EXCEPT ![w] = {}]
    /\ ReleaseNext(w)
    /\ UNCHANGED <<modeVars, ioVars, vbVars, taskQueue, todo, batch, got,
                   magmaVars, poolVars, issued>>

\* GetDocsAsync takes the call, after retries while it is busy ...
CallAccepted(w) ==
    /\ wpc[w] = "call"
    /\ calls' = calls \cup ({Sharing(got[w], v, k) : v \in VB, k \in Key} \ {{}})
    /\ got' = [got EXCEPT ![w] = {}]
    /\ ReleaseNext(w)
    /\ UNCHANGED <<modeVars, ioVars, vbVars, taskQueue, todo, batch, accum,
                   magmaAccum, poolVars, issued, posted>>

\* ... or refuses it for good, and every read of it is answered with the error.
CallFailed(w) ==
    /\ wpc[w] = "call"
    /\ Post(got[w])
    /\ got' = [got EXCEPT ![w] = {}]
    /\ ReleaseNext(w)
    /\ UNCHANGED <<modeVars, ioVars, vbVars, taskQueue, todo, batch, accum,
                   magmaVars, poolVars, issued>>

\* AsyncReadCall::OnDoc on a thread of magma ...
AsyncOnDoc ==
    /\ \E g \in calls :
         /\ calls' = calls \ {g}
         /\ \E kept \in {{}, magmaAccum \cup g} :
              /\ magmaAccum' = kept
              /\ Post((magmaAccum \cup g) \ kept)
    /\ UNCHANGED <<modeVars, ioVars, vbVars, taskQueue, workerVars, poolVars,
                   issued>>

\* ... and OnJobDone, when the thread has finished its part.
OnJobDone ==
    /\ magmaAccum # {}
    /\ Post(magmaAccum)
    /\ magmaAccum' = {}
    /\ UNCHANGED <<modeVars, ioVars, vbVars, taskQueue, workerVars, calls,
                   poolVars, issued>>

-----------------------------------------------------------------------------
(* releaseReadVBQueue *)

\* The release of an empty batch, of an async one or of a served one is over:
\* collect the next task, read magma for what was collected, or go on releasing.
Released(w) ==
    IF todo[w] # <<>> THEN NextTask(w) /\ UNCHANGED <<held, stopAfter>>
    ELSE IF got[w] = {} THEN ReleaseNext(w) /\ UNCHANGED todo
    ELSE /\ Goto(w, IF async THEN "call" ELSE "serve")
         /\ wvb' = [wvb EXCEPT ![w] = NoVB]
         /\ UNCHANGED <<todo, held, stopAfter>>

Release(w) ==
    /\ wpc[w] = "release"
    /\ readOwners' = [readOwners EXCEPT ![wvb[w]] = @ - 1]
    /\ Goto(w, "peek")
    /\ UNCHANGED <<modeVars, ioVars, list, overflow, readDepth, taskQueue,
                   taskVars, reqVars, magmaVars, poolVars, issued, posted>>

\* hasOverflow, under overflowMu
PeekOverflow(w) ==
    /\ wpc[w] = "peek"
    /\ Goto(w, IF overflow[wvb[w]] # <<>> THEN "rearm" ELSE "recheck")
    /\ UNCHANGED <<modeVars, ioVars, vbVars, taskQueue, taskVars, reqVars,
                   magmaVars, poolVars, issued, posted>>

\* Mutant: an empty overflow is enough to leave.
RecheckNothing(w) ==
    /\ wpc[w] = "recheck"
    /\ Released(w)
    /\ UNCHANGED <<modeVars, ioVars, vbVars, taskQueue, reqVars, magmaVars,
                   poolVars, issued, posted>>

Recheck(w) ==
    /\ wpc[w] = "recheck"
    /\ Goto(w, IF list[wvb[w]] # <<>> THEN "rearm" ELSE "depth")
    /\ UNCHANGED <<modeVars, ioVars, vbVars, taskQueue, taskVars, reqVars,
                   magmaVars, poolVars, issued, posted>>

RecheckDepth(w) ==
    /\ wpc[w] = "depth"
    /\ IF readDepth[wvb[w]] > 0 THEN Goto(w, "rearm") /\ UNCHANGED taskVars
       ELSE Released(w)
    /\ UNCHANGED <<modeVars, ioVars, vbVars, taskQueue, reqVars, magmaVars,
                   poolVars, issued, posted>>

\* The compare_exchange loop: take a slot back unless all are taken.
Rearm(w) ==
    /\ wpc[w] = "rearm"
    /\ IF readOwners[wvb[w]] < maxOwners
         THEN /\ readOwners' = [readOwners EXCEPT ![wvb[w]] = @ + 1]
              /\ Goto(w, "resubmit") /\ UNCHANGED taskVars
         ELSE Released(w) /\ UNCHANGED readOwners
    /\ UNCHANGED <<modeVars, ioVars, list, overflow, readDepth, taskQueue,
                   reqVars, magmaVars, poolVars, issued, posted>>

Resubmit(w) ==
    /\ wpc[w] = "resubmit"
    /\ Len(taskQueue) < Capacity
    /\ taskQueue' = Append(taskQueue, wvb[w])
    /\ Released(w)
    /\ UNCHANGED <<modeVars, ioVars, vbVars, reqVars, magmaVars, poolVars,
                   issued, posted>>

-----------------------------------------------------------------------------
(* Pool sizing by the tuner, and ReaderPool::Shutdown *)

Sentinels(n) == [i \in 1..n |-> Sentinel]

Grow(w) ==
    /\ phase = "run" /\ resizes < MaxResizes
    /\ wpc[w] = "off"
    /\ Goto(w, "loop")
    /\ live' = live + 1
    /\ resizes' = resizes + 1
    /\ UNCHANGED <<modeVars, ioVars, vbVars, taskQueue, taskVars, reqVars,
                   magmaVars, phase, issued, posted>>

\* Shrink(n) clamps n to live_, and so may take the last reader.
ShrinkBy(n) == IF n < live THEN n ELSE live

Shrink(n) ==
    /\ phase = "run" /\ resizes < MaxResizes
    /\ Len(taskQueue) + ShrinkBy(n) <= Capacity
    /\ live' = live - ShrinkBy(n)
    /\ taskQueue' = taskQueue \o Sentinels(ShrinkBy(n))
    /\ resizes' = resizes + 1
    /\ UNCHANGED <<modeVars, ioVars, vbVars, workerVars, magmaVars, phase,
                   issued, posted>>

Reap ==
    /\ phase = "run"
    /\ \E w \in Workers : wpc[w] = "done"
    /\ wpc' = [w \in Workers |-> IF wpc[w] = "done" THEN "off" ELSE wpc[w]]
    /\ UNCHANGED <<modeVars, ioVars, vbVars, taskQueue, taskVars, reqVars,
                   magmaVars, poolVars, issued, posted>>

Joinable == {w \in Workers : wpc[w] # "off"}       \* workers_

\* shutdown_.exchange(true), after Server::Stop has joined the tuner and the
\* IO loops ...
BeginShutdown ==
    /\ phase = "run"
    /\ \A t \in IOThreads : iopc[t] = "read"
    /\ phase' = "stop"
    /\ UNCHANGED <<modeVars, ioVars, vbVars, taskQueue, workerVars, magmaVars,
                   live, resizes, issued, posted>>

\* Mutant: one sentinel short.
StopAllButOne ==
    /\ phase = "stop"
    /\ Len(taskQueue) + Cardinality(Joinable) - 1 <= Capacity
    /\ taskQueue' = taskQueue \o Sentinels(Cardinality(Joinable) - 1)
    /\ phase' = "join"
    /\ UNCHANGED <<modeVars, ioVars, vbVars, workerVars, magmaVars, live,
                   resizes, issued, posted>>

\* ... one stop sentinel per worker, also for those that leave by the flag ...
StopReaders ==
    /\ phase = "stop"
    /\ Len(taskQueue) + Cardinality(Joinable) <= Capacity
    /\ taskQueue' = taskQueue \o Sentinels(Cardinality(Joinable))
    /\ phase' = "join"
    /\ UNCHANGED <<modeVars, ioVars, vbVars, workerVars, magmaVars, live,
                   resizes, issued, posted>>

\* ... and join them.
JoinReaders ==
    /\ phase = "join"
    /\ \A w \in Joinable : wpc[w] = "done"
    /\ wpc' = [w \in Workers |-> "off"]
    /\ live' = 0
    /\ phase' = "closed"
    /\ UNCHANGED <<modeVars, ioVars, vbVars, taskQueue, taskVars, reqVars,
                   magmaVars, resizes, issued, posted>>

-----------------------------------------------------------------------------
IOStep(t) == CountRead(t) \/ Arm(t) \/ Submit(t)

WorkerStep(w) ==
    \/ LoopTest(w) \/ TakeTask(w)
    \/ GatherTask(w) \/ GatherSentinel(w) \/ GatherEnd(w)
    \/ DrainOverflow(w) \/ Sweep(w) \/ Spill(w)
    \/ CountBatch(w) \/ FlushAll(w) \/ CallAccepted(w) \/ CallFailed(w)
    \/ Release(w) \/ PeekOverflow(w) \/ Recheck(w) \/ RecheckDepth(w)
    \/ Rearm(w) \/ Resubmit(w)
    \/ \E v \in VB, k \in Key : OnDoc(w, v, k)

MagmaStep == AsyncOnDoc \/ OnJobDone

ShutdownStep == StopReaders \/ JoinReaders

\* The process has stopped.
Closed == phase = "closed" /\ UNCHANGED vars

Next ==
    \/ \E t \in IOThreads, v \in VB, k \in Key : EnqueueRead(t, v, k)
    \/ \E t \in IOThreads : IOStep(t)
    \/ \E w \in Workers : WorkerStep(w) \/ Grow(w)
    \/ MagmaStep
    \/ \E n \in 1..Cardinality(Workers) : Shrink(n)
    \/ Reap
    \/ BeginShutdown
    \/ ShutdownStep
    \/ Closed

Spec == Init /\ [][Next]_vars

\* EnqueueRead runs to its end, readers run, magma answers what it took, and
\* Shutdown proceeds; nobody has to send, resize or stop.  What the IO threads
\* and magma have to do is finite, so one assumption for all of them is enough.
Fairness ==
    /\ WF_vars(\E t \in IOThreads : IOStep(t))
    /\ \A w \in Workers : WF_vars(WorkerStep(w))
    /\ WF_vars(MagmaStep)
    /\ WF_vars(ShutdownStep)

FairSpec == Spec /\ Fairness

-----------------------------------------------------------------------------
(* Properties *)

\* The owner slots of v that reader w holds: the task it collects or releases
\* and those it has yet to collect or to release.
OwningPc ==
    {"gather", "drain", "sweep", "spill", "count", "release", "resubmit"}

Pos(v, q) == {i \in DOMAIN q : q[i] = v}

Slots(w, v) ==
    (IF wpc[w] \in OwningPc /\ wvb[w] = v THEN {<<"task", 0>>} ELSE {})
    \cup ({"todo"} \X Pos(v, todo[w])) \cup ({"held"} \X Pos(v, held[w]))

ReaderSlots(v) == UNION {{w} \X Slots(w, v) : w \in Workers}

Submitting(v) == {t \in IOThreads : iopc[t] = "submit" /\ ioreq[t].vb = v}

\* An owner slot is always held by exactly one task in the queue, one thread
\* about to submit, or one reader, and there are at most gMaxReadOwners: a slot
\* nobody holds would keep the vbucket from being armed for ever, and a task
\* without a slot would put more readers on the vbucket than configured.
OwnersExact ==
    \A v \in VB :
        /\ readOwners[v] <= maxOwners
        /\ readOwners[v] = Cardinality(Pos(v, taskQueue))
                           + Cardinality(Submitting(v))
                           + Cardinality(ReaderSlots(v))

\* No lost wakeup: a waiting GET, on the stack or in the overflow, always has
\* an owner, a pusher that has not tried to arm yet, or a releasing reader that
\* has not finished its rechecks.
NoStrandedRead ==
    \A v \in VB :
        \/ list[v] = <<>> /\ overflow[v] = <<>>
        \/ readOwners[v] > 0
        \/ \E t \in IOThreads : iopc[t] \in {"count", "arm"} /\ ioreq[t].vb = v
        \/ \E w \in Workers :
              wvb[w] = v /\ wpc[w] \in {"peek", "recheck", "depth", "rearm"}

\* Where request i is in a family of lists.
InLists(f, i) ==
    UNION {{x} \X {j \in DOMAIN f[x] : f[x][j].id = i} : x \in DOMAIN f}

\* Which of a family of sets have it.
InSets(f, i) == {x \in DOMAIN f : \E r \in f[x] : r.id = i}

\* Every GET is in exactly one place from its push to its answer: the stack,
\* the overflow, one reader's batch or accumulator, a call of magma, or
\* answered, once.  Two owners never collect the same request, and a request is
\* never touched after its answer was posted and it may have been recycled.
Places(i) ==
    Cardinality(InLists(list, i)) + Cardinality(InLists(overflow, i))
    + Cardinality(InLists(batch, i)) + Cardinality(InSets(got, i))
    + Cardinality(InSets(accum, i))
    + Cardinality({g \in calls : \E r \in g : r.id = i})
    + Cardinality({r \in magmaAccum : r.id = i})
    + posted[i]

OnePlace == TypeOK /\ \A i \in 1..issued : Places(i) = 1

\* The requests of v in the batch of a reader that has not counted it, and the
\* pushes that are not counted.
CollectingPc == {"sweep", "spill", "count"}

Uncounted(w, v) ==
    IF wpc[w] \in CollectingPc /\ wvb[w] = v THEN DOMAIN batch[w] ELSE {}

Collecting(v) == UNION {{w} \X Uncounted(w, v) : w \in Workers}

Pushing(v) == {t \in IOThreads : iopc[t] = "count" /\ ioreq[t].vb = v}

\* readDepth counts what is queued, give or take the pushes and collections
\* under way: an excess that stayed would make every release re-arm an empty
\* vbucket for ever, a deficit would keep further owners from being started.
DepthExact ==
    \A v \in VB :
        readDepth[v] = Len(list[v]) + Len(overflow[v])
                       + Cardinality(Collecting(v)) - Cardinality(Pushing(v))

\* What the overflow holds is older than anything on the stack, so draining it
\* first never lets a later GET pass an earlier one that was left over; and with
\* one owner GETs of a vbucket are collected strictly in arrival order.
OldestFirst ==
    \A v \in VB :
        /\ \A o \in Range(overflow[v]), r \in Range(list[v]) : o.id < r.id
        /\ maxOwners = 1 =>
             \A w \in Workers : \A b \in got[w] : b.vb = v =>
                 \A r \in Range(overflow[v]) \cup Range(list[v]) : b.id < r.id

\* Every GET is answered, unless the server is stopped first, as long as the
\* resizes do not leave the shard without a reader for good (Shrink keeps none).
EventuallyAnswered ==
    <>[](live > 0) =>
        \A i \in Id : (i <= issued) ~> (posted[i] = 1 \/ phase # "run")

\* ReaderPool::Shutdown returns: no reader stays blocked on the task queue,
\* however the flag, the sentinels and retirements under way interleave.
ShutdownReturns == (phase = "stop") ~> (phase = "closed")
=============================================================================
