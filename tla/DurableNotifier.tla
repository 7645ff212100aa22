---------------------------- MODULE DurableNotifier ----------------------------
(***************************************************************************)
(* Asynchronous durable mode: a writer that has written a batch parks its  *)
(* requests on the IO loops that will answer them, enters the batch's      *)
(* bytes in a ledger and goes on; one notifier thread follows the log's    *)
(* durable watermark, releases the ledger up to it and wakes the loops     *)
(* that hold parked requests; a loop answers what the log covers.          *)
(* Requests without a loop go to the shard's completion thread.            *)
(* (src/server/engine.cc: DurableNotifier, Shard::durableLoop,             *)
(* executePersist)                                                         *)
(*                                                                         *)
(* Every access to an atomic is a step, and so is a critical section.  A   *)
(* batch has one request per loop of its share and charges one unit.       *)
(***************************************************************************)
EXTENDS Integers, Sequences, SequencesExt, FiniteSets

CONSTANTS
    Writers,        \* writer threads of one shard
    Loops,          \* the IO loops
    NoLoop,         \* Request::ioOwner == nullptr
    Shares,         \* the sets of owners a batch's requests can have
    MaxBatches      \* bound: batches the writers sweep

ASSUME Domain ==
    /\ NoLoop \notin Loops /\ MaxBatches \in Nat
    /\ Shares \subseteq (SUBSET (Loops \cup {NoLoop})) \ {{}}

VARIABLES
    tail, durable,  \* the shared log: last record staged, last record on disk
    batches,        \* the batches swept: the owners of their requests, their
                    \* last record (history) and Request::durableLsn
    writer,         \* writer -> where it is in executePersist
    queuedBytes,    \* Bucket::queuedBytes_
    ledger,         \* batches whose bytes the notifier has to release
    parkGen,        \* parkGen_
    loops,          \* loops_, the loops the notifier wakes
    parkedHead,     \* loop -> requests parked by writers
    parkedLocal,    \* loop -> parked requests the loop has taken over
    parkedCount,    \* loop -> parkedCount
    wakeQueued,     \* loop -> durableWakeQueued
    mail,           \* loop -> DrainDurable callbacks in its mailbox
    drain,          \* loop -> where it is in DrainDurable
    notifier,       \* the notifier thread
    stop,           \* the server is closing: no loop runs, stop_ is set
    durableQueue,   \* Shard::durableQueue_
    answered        \* answers sent

logVars    == <<tail, durable>>
parkVars   == <<parkedHead, parkedLocal, parkedCount>>
wakeVars   == <<wakeQueued, mail, drain>>
vars == <<logVars, batches, writer, queuedBytes, ledger, parkGen, loops,
          parkVars, wakeVars, notifier, stop, durableQueue, answered>>

Batch   == 1..MaxBatches
Lsn     == 0..MaxBatches
Owner   == Loops \cup {NoLoop}
Request == Batch \X Owner

BatchState  == [share : Shares, rec : Lsn, lsn : Lsn]
WriterState == [pc : {"idle", "tail", "push", "count", "register", "gen"},
                batch : Lsn, todo : SUBSET Owner, t : Owner]
NotifierState == [pc : {"gen", "durable", "release", "wake", "await", "done"},
                  last : BOOLEAN, g : Nat, d : Lsn, lastG : Nat, lastD : Lsn,
                  todo : SUBSET Loops]

LogType ==
    /\ tail \in Lsn /\ durable \in 0..tail
    /\ batches \in Seq(BatchState)
    /\ Len(batches) <= MaxBatches

BudgetType ==
    /\ queuedBytes \in Int
    /\ ledger \subseteq Batch /\ parkGen \in Nat

ParkType ==
    /\ parkedHead \in [Loops -> SUBSET Request]
    /\ parkedLocal \in [Loops -> SUBSET Request]
    /\ parkedCount \in [Loops -> Int]

WakeType ==
    /\ wakeQueued \in [Loops -> BOOLEAN]
    /\ mail \in [Loops -> Nat]
    /\ drain \in [Loops -> [pc : {"idle", "take", "answer", "count"},
                            done : Nat]]

AnswerType ==
    /\ durableQueue \in Seq(Batch)
    /\ answered \subseteq Request

TypeOK ==
    /\ LogType /\ BudgetType /\ ParkType /\ WakeType /\ AnswerType
    /\ writer \in [Writers -> WriterState]
    /\ notifier \in NotifierState
    /\ loops \subseteq Loops /\ stop \in BOOLEAN

\* Bucket::Open: the notifier is published and started.
Init ==
    /\ tail = 0 /\ durable = 0
    /\ batches = <<>>
    /\ writer = [w \in Writers |-> [pc |-> "idle", batch |-> 0, todo |-> {},
                                    t |-> NoLoop]]
    /\ queuedBytes = 0 /\ ledger = {} /\ parkGen = 0 /\ loops = {}
    /\ parkedHead = [t \in Loops |-> {}]
    /\ parkedLocal = [t \in Loops |-> {}]
    /\ parkedCount = [t \in Loops |-> 0]
    /\ wakeQueued = [t \in Loops |-> FALSE]
    /\ mail = [t \in Loops |-> 0]
    /\ drain = [t \in Loops |-> [pc |-> "idle", done |-> 0]]
    /\ notifier = [pc |-> "gen", last |-> FALSE, g |-> 0, d |-> 0,
                   lastG |-> 0, lastD |-> 0, todo |-> {}]
    /\ stop = FALSE
    /\ durableQueue = <<>>
    /\ answered = {}

---------------------------------------------------------------------------
(* The log: a flusher makes staged records durable and publishes the       *)
(* watermark.                                                              *)

Flush ==
    /\ \E d \in durable + 1 .. tail : durable' = d
    /\ UNCHANGED <<tail, batches, writer, queuedBytes, ledger, parkGen, loops,
                   parkVars, wakeVars, notifier, stop, durableQueue, answered>>

---------------------------------------------------------------------------
(* A writer, from the sweep of a batch to the release of the vbucket.      *)

At(w, pc) == writer[w].pc = pc
Goto(w, pc) == writer' = [writer EXCEPT ![w].pc = pc]

\* A sweep and its WriteDocs.  The batch's bytes were charged when its writes
\* were staged.
SweepBatch(w) ==
    /\ At(w, "idle") /\ ~stop
    /\ Len(batches) < MaxBatches

WriteDocs(w) ==
    /\ SweepBatch(w)
    /\ tail' = tail + 1
    /\ \E share \in Shares :
         batches' = Append(batches, [share |-> share, rec |-> tail',
                                     lsn |-> 0])
    /\ writer' = [writer EXCEPT ![w].pc = "tail", ![w].batch = Len(batches')]
    /\ queuedBytes' = queuedBytes + 1
    /\ UNCHANGED <<durable, ledger, parkGen, loops, parkVars, wakeVars,
                   notifier, stop, durableQueue, answered>>

\* A batch magma refused is answered, with an error, without the log, and its
\* bytes are given back.  (An answer that runInEventBaseThread was given
\* counts as sent.)
WriteFails(w) ==
    /\ SweepBatch(w)
    /\ \E share \in Shares :
         /\ batches' = Append(batches, [share |-> share, rec |-> 0, lsn |-> 0])
         /\ answered' = answered \cup ({Len(batches')} \X share)
    /\ UNCHANGED <<logVars, writer, queuedBytes, ledger, parkGen, loops,
                   parkVars, wakeVars, notifier, stop, durableQueue>>

\* Mutant: the batch is stamped with what is durable already.
GetWALDurableLSN(w) ==
    /\ At(w, "tail")
    /\ batches' = [batches EXCEPT ![writer[w].batch].lsn = durable]
    /\ writer' = [writer EXCEPT ![w].pc = "push",
                        ![w].todo = batches[writer[w].batch].share]
    /\ UNCHANGED <<logVars, queuedBytes, ledger, parkGen, loops, parkVars,
                   wakeVars, notifier, stop, durableQueue, answered>>

\* Another writer's records may be in the tail too: it is only an upper bound.
GetWALTailLSN(w) ==
    /\ At(w, "tail")
    /\ batches' = [batches EXCEPT ![writer[w].batch].lsn = tail]
    /\ writer' = [writer EXCEPT ![w].pc = "push",
                        ![w].todo = batches[writer[w].batch].share]
    /\ UNCHANGED <<logVars, queuedBytes, ledger, parkGen, loops, parkVars,
                   wakeVars, notifier, stop, durableQueue, answered>>

\* Park, its CAS: the loop can take the requests over from here on.
ParkPush(w, t) ==
    /\ At(w, "push") /\ t \in writer[w].todo \cap Loops
    /\ parkedHead' = [parkedHead EXCEPT ![t] = @ \cup {<<writer[w].batch, t>>}]
    /\ writer' = [writer EXCEPT ![w].pc = "count", ![w].t = t]
    /\ UNCHANGED <<logVars, batches, queuedBytes, ledger, parkGen, loops,
                   parkedLocal, parkedCount, wakeVars, notifier, stop,
                   durableQueue, answered>>

Parked(w, t) == [writer EXCEPT ![w].pc = "push", ![w].todo = @ \ {t},
                               ![w].t = NoLoop]

\* A loop that is registered stays so until it is destroyed.
ParkCount(w) ==
    LET t == writer[w].t IN
    /\ At(w, "count")
    /\ parkedCount' = [parkedCount EXCEPT ![t] = @ + 1]
    /\ IF t \in loops THEN writer' = Parked(w, t) ELSE Goto(w, "register")
    /\ UNCHANGED <<logVars, batches, queuedBytes, ledger, parkGen, loops,
                   parkedHead, parkedLocal, wakeVars, notifier, stop,
                   durableQueue, answered>>

\* loopsMu_ is held by the notifier while wake() has loops to look at.
ParkRegister(w) ==
    LET t == writer[w].t IN
    /\ At(w, "register") /\ notifier.todo = {}
    /\ loops' = loops \cup {t}
    /\ writer' = Parked(w, t)
    /\ UNCHANGED <<logVars, batches, queuedBytes, ledger, parkGen, parkVars,
                   wakeVars, notifier, stop, durableQueue, answered>>

AwaitDurable(w) ==
    /\ At(w, "push") /\ writer[w].todo = {NoLoop}
    /\ durableQueue' = Append(durableQueue, writer[w].batch)
    /\ writer' = [writer EXCEPT ![w].todo = {}]
    /\ UNCHANGED <<logVars, batches, queuedBytes, ledger, parkGen, loops,
                   parkVars, wakeVars, notifier, stop, answered>>

AddBytes(w) ==
    /\ At(w, "push") /\ writer[w].todo = {}
    /\ ledger' = ledger \cup {writer[w].batch}
    /\ Goto(w, "gen")
    /\ UNCHANGED <<logVars, batches, queuedBytes, parkGen, loops, parkVars,
                   wakeVars, notifier, stop, durableQueue, answered>>

BumpGen(w) ==
    /\ At(w, "gen")
    /\ parkGen' = parkGen + 1
    /\ writer' = [writer EXCEPT ![w].pc = "idle", ![w].batch = 0]
    /\ UNCHANGED <<logVars, batches, queuedBytes, ledger, loops, parkVars,
                   wakeVars, notifier, stop, durableQueue, answered>>

---------------------------------------------------------------------------
(* The notifier thread.                                                    *)

ReadGen ==
    /\ notifier.pc = "gen"
    /\ notifier' = [notifier EXCEPT !.pc = "durable", !.g = parkGen,
                                    !.last = stop]
    /\ UNCHANGED <<logVars, batches, writer, queuedBytes, ledger, parkGen,
                   loops, parkVars, wakeVars, stop, durableQueue, answered>>

\* Mutant: only the watermark is looked at.
UnchangedWatermark(d) == d = notifier.lastD

\* Nothing to do while neither the watermark nor parkGen_ has moved.
Unchanged(d) == d = notifier.lastD /\ notifier.g = notifier.lastG

ReadDurable ==
    /\ notifier.pc = "durable"
    /\ notifier' = [notifier EXCEPT !.d = durable,
                      !.pc = IF Unchanged(durable) THEN "await" ELSE "release"]
    /\ UNCHANGED <<logVars, batches, writer, queuedBytes, ledger, parkGen,
                   loops, parkVars, wakeVars, stop, durableQueue, answered>>

\* Mutant: the whole ledger is released whenever the watermark moves.
ReleaseAll ==
    /\ notifier.pc = "release"
    /\ ledger' = {}
    /\ queuedBytes' = queuedBytes - Cardinality(ledger)
    /\ notifier' = [notifier EXCEPT !.pc = "wake", !.todo = loops]
    /\ UNCHANGED <<logVars, batches, writer, parkGen, loops, parkVars,
                   wakeVars, stop, durableQueue, answered>>

Release ==
    LET covered == {b \in ledger : batches[b].lsn <= notifier.d} IN
    /\ notifier.pc = "release"
    /\ ledger' = ledger \ covered
    /\ queuedBytes' = queuedBytes - Cardinality(covered)
    /\ notifier' = [notifier EXCEPT !.pc = "wake", !.todo = loops]
    /\ UNCHANGED <<logVars, batches, writer, parkGen, loops, parkVars,
                   wakeVars, stop, durableQueue, answered>>

Wake(t) ==
    LET post == parkedCount[t] > 0 /\ ~wakeQueued[t] IN
    /\ notifier.pc = "wake" /\ t \in notifier.todo
    /\ wakeQueued' = [wakeQueued EXCEPT ![t] = @ \/ post]
    /\ mail' = [mail EXCEPT ![t] = IF post THEN @ + 1 ELSE @]
    /\ notifier' = [notifier EXCEPT !.todo = @ \ {t}]
    /\ UNCHANGED <<logVars, batches, writer, queuedBytes, ledger, parkGen,
                   loops, parkVars, drain, stop, durableQueue, answered>>

\* Remember what was seen, then AwaitWALDurable(d + 1) if the log has a longer tail, a short sleep if not.
Await ==
    /\ notifier.pc \in {"wake", "await"} /\ notifier.todo = {}
    /\ notifier.last \/ tail <= notifier.d \/ durable > notifier.d
    /\ notifier' = [notifier EXCEPT !.pc = IF notifier.last THEN "done"
                                           ELSE "gen", !.g = 0, !.d = 0,
                      !.lastG = notifier.g, !.lastD = notifier.d]
    /\ UNCHANGED <<logVars, batches, writer, queuedBytes, ledger, parkGen,
                   loops, parkVars, wakeVars, stop, durableQueue, answered>>

---------------------------------------------------------------------------
(* An IO loop answers its parked requests.                                 *)

\* Mutant: durableWakeQueued is not cleared.
DrainStartSticky(t) ==
    /\ drain[t].pc = "idle" /\ mail[t] > 0 /\ ~stop
    /\ mail' = [mail EXCEPT ![t] = @ - 1]
    /\ drain' = [drain EXCEPT ![t].pc = "take"]
    /\ UNCHANGED <<logVars, batches, writer, queuedBytes, ledger, parkGen,
                   loops, parkVars, wakeQueued, notifier, stop, durableQueue,
                   answered>>

DrainStart(t) ==
    /\ drain[t].pc = "idle" /\ mail[t] > 0 /\ ~stop
    /\ mail' = [mail EXCEPT ![t] = @ - 1]
    /\ wakeQueued' = [wakeQueued EXCEPT ![t] = FALSE]
    /\ drain' = [drain EXCEPT ![t].pc = "take"]
    /\ UNCHANGED <<logVars, batches, writer, queuedBytes, ledger, parkGen,
                   loops, parkVars, notifier, stop, durableQueue, answered>>

DrainTake(t) ==
    /\ drain[t].pc = "take"
    /\ parkedLocal' = [parkedLocal EXCEPT ![t] = @ \cup parkedHead[t]]
    /\ parkedHead' = [parkedHead EXCEPT ![t] = {}]
    /\ drain' = [drain EXCEPT ![t].pc = "answer"]
    /\ UNCHANGED <<logVars, batches, writer, queuedBytes, ledger, parkGen,
                   loops, parkedCount, wakeQueued, mail, notifier, stop,
                   durableQueue, answered>>

\* The requests the log covers when the loop looks.
Covered(t) == {r \in parkedLocal[t] : batches[r[1]].lsn <= durable}

DrainAnswer(t) ==
    /\ drain[t].pc = "answer"
    /\ answered' = answered \cup Covered(t)
    /\ parkedLocal' = [parkedLocal EXCEPT ![t] = @ \ Covered(t)]
    /\ drain' = [drain EXCEPT ![t].pc = "count",
                              ![t].done = Cardinality(Covered(t))]
    /\ UNCHANGED <<logVars, batches, writer, queuedBytes, ledger, parkGen,
                   loops, parkedHead, parkedCount, wakeQueued, mail, notifier,
                   stop, durableQueue>>

DrainCount(t) ==
    /\ drain[t].pc = "count"
    /\ parkedCount' = [parkedCount EXCEPT ![t] = @ - drain[t].done]
    /\ drain' = [drain EXCEPT ![t] = [pc |-> "idle", done |-> 0]]
    /\ UNCHANGED <<logVars, batches, writer, queuedBytes, ledger, parkGen,
                   loops, parkedHead, parkedLocal, wakeQueued, mail, notifier,
                   stop, durableQueue, answered>>

---------------------------------------------------------------------------
(* The shard's completion thread: requests that have no loop to park on.   *)

\* The thread waits for the log to reach the head, then takes the longest
\* prefix of the queue that the log covers.
ReadyPrefix(q) ==
    {i \in DOMAIN q : \A j \in 1..i : batches[q[j]].lsn <= durable}

CompleteReady ==
    LET ready == Cardinality(ReadyPrefix(durableQueue)) IN
    /\ ready > 0
    /\ answered' = answered \cup {<<durableQueue[i], NoLoop>> : i \in 1..ready}
    /\ durableQueue' = SubSeq(durableQueue, ready + 1, Len(durableQueue))
    /\ UNCHANGED <<logVars, batches, writer, queuedBytes, ledger, parkGen,
                   loops, parkVars, wakeVars, notifier, stop>>

---------------------------------------------------------------------------
(* Server::Stop and Bucket::Close: the loops are joined, DrainWrites has   *)
(* seen the queue empty, the writers are joined.                           *)

Close ==
    /\ ~stop
    /\ \A w \in Writers : At(w, "idle")
    /\ \A t \in Loops : drain[t].pc = "idle"
    /\ queuedBytes = 0
    /\ stop' = TRUE
    /\ UNCHANGED <<logVars, batches, writer, queuedBytes, ledger, parkGen,
                   loops, parkVars, wakeVars, notifier, durableQueue, answered>>

\* The notifier thread has been joined.
Closed == notifier.pc = "done" /\ UNCHANGED vars

WriterStep(w) ==
    \/ GetWALTailLSN(w)
    \/ \E t \in Loops : ParkPush(w, t)
    \/ ParkCount(w) \/ ParkRegister(w) \/ AwaitDurable(w)
    \/ AddBytes(w) \/ BumpGen(w)
NotifierStep ==
    \/ ReadGen \/ ReadDurable \/ Release
    \/ \E t \in Loops : Wake(t)
    \/ Await
LoopStep(t) == DrainStart(t) \/ DrainTake(t) \/ DrainAnswer(t) \/ DrainCount(t)

Next ==
    \/ Flush
    \/ \E w \in Writers : WriteDocs(w) \/ WriteFails(w) \/ WriterStep(w)
    \/ NotifierStep
    \/ \E t \in Loops : LoopStep(t)
    \/ CompleteReady
    \/ Close
    \/ Closed

Spec == Init /\ [][Next]_vars

\* The threads run, and the log's flushers make what is staged durable.
Fairness ==
    /\ WF_vars(Flush)
    /\ \A w \in Writers : WF_vars(WriterStep(w))
    /\ WF_vars(NotifierStep)
    /\ \A t \in Loops : WF_vars(LoopStep(t))
    /\ WF_vars(CompleteReady)

FairSpec == Spec /\ Fairness

---------------------------------------------------------------------------
(* Properties.                                                             *)

\* A durable write is answered only when its own record is on disk, although
\* the writer stamps it with a log tail that other writers move
\* (executePersist, DrainDurable, durableLoop).
AckIsDurable == \A r \in answered : batches[r[1]].rec <= durable

\* The batches a writer holds whose bytes are not in the ledger yet.
InHand == {writer[w].batch : w \in {v \in Writers :
             writer[v].pc \notin {"idle", "gen"}}}

\* queuedBytes_ is exactly what is unsettled, and a batch's bytes are given
\* back only once its record is on disk: the limit bounds the writes that
\* wait for the log, not the ones that wait for a writer (executePersist,
\* AddBytes, release).
BudgetBoundsLog ==
    /\ TypeOK
    /\ queuedBytes = Cardinality(InHand) + Cardinality(ledger)
    /\ \A b \in DOMAIN batches \ (InHand \cup ledger) :
          batches[b].rec <= durable

\* What the notifier compares the watermark and parkGen_ with when it looks
\* next.
Seen == IF notifier.pc \in {"release", "wake"}
          THEN <<notifier.d, notifier.g>>
          ELSE <<notifier.lastD, notifier.lastG>>

\* A parked request the log covers is never forgotten: its loop is about to
\* drain, or the notifier is about to look at the loop, or a writer that has
\* still to move parkGen_ will make it look (Park, AddBytes, wake,
\* DrainDurable: four counters and flags that no lock covers together).
WakeNotLost ==
    stop \/ \A t \in Loops : \A r \in parkedHead[t] \cup parkedLocal[t] :
        batches[r[1]].lsn <= durable =>
            \/ mail[t] > 0 \/ drain[t].pc = "take"
            \/ drain[t].pc = "answer" /\ r \in parkedLocal[t]
            \/ \E w \in Writers : writer[w].pc \notin {"idle", "tail"}
            \/ notifier.pc = "release"
            \/ notifier.pc = "wake" /\ t \in notifier.todo
            \/ Seen # <<durable, parkGen>>

\* Every write a writer has swept is answered, whatever the order in which
\* the log moves and the batch is parked, unless the server is closed.
EventuallyAnswered ==
    \A b \in Batch :
        b \in DOMAIN batches
            ~> stop \/ (b \in DOMAIN batches
                          /\ {b} \X batches[b].share \subseteq answered)
=============================================================================
