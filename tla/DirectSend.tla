------------------------------ MODULE DirectSend ------------------------------
(***************************************************************************)
(* The socket of one connection with --direct-send: reader threads write   *)
(* GET responses straight to it, leave them to each other through          *)
(* sendPending_ when sendMu_ is taken, or spill what the kernel does not   *)
(* take for the event loop, while the loop sends its own answers through   *)
(* folly, closes the connection, or moves it to another loop.              *)
(* (src/server/connection.cc, src/server/connection.h)                     *)
(*                                                                         *)
(* A step is one atomic operation or one critical section's body; the lock *)
(* is taken and given back in steps of their own, because others try it    *)
(* meanwhile.  A response is two halves of a frame, so that a send may     *)
(* stop within one.                                                        *)
(***************************************************************************)
EXTENDS Integers, Sequences, FiniteSets

CONSTANTS
    Reader,         \* reader threads
    Loop,           \* the event loop the connection is on
    Req,            \* requests of the client
    NoThread        \* sendMu_ is free

ASSUME Domain ==
    /\ IsFiniteSet(Reader) /\ IsFiniteSet(Req)
    /\ Loop \notin Reader /\ NoThread \notin Reader \cup {Loop}

VARIABLES
    conn,           \* the flags of the connection the loop owns
    outstanding,    \* outstandingRequests_
    fresh,          \* requests the client has not sent
    engine,         \* requests a reader has not brought back yet
    lock,           \* owner of sendMu_
    sendClosed, drainWatch, spillPosted,  \* flags under sendMu_
    spill,          \* spill_, in halves of frames
    sendPending,    \* sendPending_, newest first
    pendingBuf,     \* pendingWriteBuf_, in halves of frames
    folly,          \* what folly has not written (inflightBufs_), in halves
    wire,           \* what the client is sent
    posts,          \* callbacks posted to the loop
    th              \* the threads: what they do and their locals

locked  == <<sendClosed, drainWatch, spillPosted, spill>>
out     == <<folly, wire>>
vars == <<conn, outstanding, fresh, engine, lock, locked, sendPending,
          pendingBuf, out, posts, th>>

Thread == Reader \cup {Loop}
Half   == Req \X {1, 2}

\* The responses to the requests of q, in halves.
Frames(q) == [i \in 1 .. 2 * Len(q) |-> <<q[(i + 1) \div 2], 2 - (i % 2)>>]

Pc     == {"idle", "push", "retry", "take", "write", "unlock", "recheck",
           "finish", "rel", "relheld", "relcas", "relpost", "flush", "chain",
           "unlockF", "unlockH", "drain", "after", "close", "unlockC",
           "closed", "watch", "unlockM", "attach", "unlockA"}
Chunk  == [k : Nat, post : BOOLEAN]
Posted == [op : {"flush", "drop", "delete"}, k : Nat]
Locals == [pc : Pc, ret : {"idle", "after", "closed", "flush"}, depth : 0..2,
           batch : Seq(Req), chunks : Seq(Chunk), extra : 0..1, k : Nat,
           owed : Nat]

ConnType ==
    /\ conn \in [st : {"open", "detached", "closing", "deleted"},
                 migrating : BOOLEAN, check : BOOLEAN]
    /\ outstanding \in Nat /\ fresh \subseteq Req /\ engine \subseteq Req

LockType ==
    /\ lock \in Thread \cup {NoThread}
    /\ sendClosed \in BOOLEAN /\ drainWatch \in BOOLEAN
    /\ spillPosted \in BOOLEAN

BufferType ==
    /\ spill \in Seq(Half) /\ pendingBuf \in Seq(Half) /\ folly \in Seq(Half)
    /\ wire \in Seq(Half) /\ sendPending \in Seq(Req)

TypeOK ==
    /\ ConnType /\ LockType /\ BufferType
    /\ posts \in Seq(Posted)
    /\ th \in [Thread -> Locals]

Rest == [pc |-> "idle", ret |-> "idle", depth |-> 0, batch |-> <<>>,
         chunks |-> <<>>, extra |-> 0, k |-> 0, owed |-> 0]

Init ==
    /\ conn = [st |-> "open", migrating |-> FALSE, check |-> FALSE]
    /\ outstanding = 0 /\ fresh = Req /\ engine = {} /\ lock = NoThread
    /\ sendClosed = FALSE /\ drainWatch = FALSE /\ spillPosted = FALSE
    /\ spill = <<>> /\ sendPending = <<>> /\ pendingBuf = <<>>
    /\ folly = <<>> /\ wire = <<>> /\ posts = <<>>
    /\ th = [t \in Thread |-> Rest]

At(t, pc)   == th[t].pc = pc
Goto(t, pc) == th' = [th EXCEPT ![t].pc = pc]
Free(t)     == lock \in {NoThread, t}       \* sendMu_ is recursive
Take(t)     == Free(t) /\ lock' = t
Closing     == conn.st = "closing"
Post(op, n) == posts' = Append(posts, [op |-> op, k |-> n])

Unlock(locals, t, pc) ==
    /\ th' = [locals EXCEPT ![t].pc = pc, ![t].depth = @ - 1]
    /\ lock' = IF th[t].depth = 1 THEN NoThread ELSE lock

---------------------------------------------------------------------------
(* Sending: sendDirect, sendHeld, writeDirectLocked, drainPendingSends.    *)

\* Mutant: the sender that leaves its response to others keeps no count.
SendDirectUncounted(t, r) ==
    /\ At(t, "idle") /\ r \in engine
    /\ engine' = engine \ {r}
    /\ IF Free(t)
         THEN /\ Take(t)
              /\ th' = [th EXCEPT ![t] = [Rest EXCEPT !.pc = "take",
                                          !.depth = 1, !.batch = <<r>>]]
         ELSE /\ th' = [th EXCEPT ![t] = [Rest EXCEPT !.pc = "push",
                                          !.batch = <<r>>]]
              /\ UNCHANGED lock
    /\ UNCHANGED <<conn, outstanding, fresh, locked, sendPending, pendingBuf,
                   out, posts>>

\* sendDirect by a reader that has a response: the lock is free, or the
\* request is left to whoever has it and an extra count keeps the connection.
SendDirect(t, r) ==
    /\ At(t, "idle") /\ r \in engine
    /\ engine' = engine \ {r}
    /\ IF Free(t)
         THEN /\ Take(t)
              /\ th' = [th EXCEPT ![t] = [Rest EXCEPT !.pc = "take",
                                          !.depth = 1, !.batch = <<r>>]]
              /\ UNCHANGED outstanding
         ELSE /\ outstanding' = outstanding + 1
              /\ th' = [th EXCEPT ![t] = [Rest EXCEPT !.pc = "push",
                                          !.extra = 1, !.batch = <<r>>]]
              /\ UNCHANGED lock
    /\ UNCHANGED <<conn, fresh, locked, sendPending, pendingBuf, out, posts>>

PushPending(t) ==
    /\ At(t, "push")
    /\ sendPending' = th[t].batch \o sendPending
    /\ th' = [th EXCEPT ![t].pc = "retry", ![t].batch = <<>>]
    /\ UNCHANGED <<conn, outstanding, fresh, engine, lock, locked, pendingBuf, out,
                   posts>>

\* The second try; the first of sendHeld and drainPendingSends is alike.
TryLock(t, won, lost) ==
    IF Free(t)
      THEN /\ Take(t)
           /\ th' = [th EXCEPT ![t].pc = won, ![t].depth = @ + 1]
      ELSE Goto(t, lost) /\ UNCHANGED lock

Retry(t) ==
    /\ At(t, "retry")
    /\ TryLock(t, "take", "finish")
    /\ UNCHANGED <<conn, outstanding, fresh, engine, locked, sendPending, pendingBuf,
                   out, posts>>

DrainPendingSends(t) ==
    /\ At(t, "drain")
    /\ IF sendPending = <<>> THEN Goto(t, th[t].ret) /\ UNCHANGED lock
                             ELSE TryLock(t, "take", th[t].ret)
    /\ UNCHANGED <<conn, outstanding, fresh, engine, locked, sendPending, pendingBuf,
                   out, posts>>

\* sendHeld, with the lock: take what others left.
TakePending(t) ==
    /\ At(t, "take")
    /\ sendPending' = <<>>
    /\ th' = [th EXCEPT ![t].pc = "write",
                        ![t].batch = @ \o sendPending]
    /\ UNCHANGED <<conn, outstanding, fresh, engine, lock, locked, pendingBuf, out,
                   posts>>

\* Mutant: a reader writes to the socket although folly has a write in hand.
MayWriteAhead == spill = <<>>

MayWrite == spill = <<>> /\ folly = <<>>

\* Whether a spill has to be posted: nobody has yet.
SpillPosts == ~spillPosted

\* writeDirectLocked: n halves go out, the rest is spilled.  A broken socket
\* counts as sent: the loop sees the error.
WriteDirect(t) ==
    LET q == Frames(th[t].batch)
        chunk(post) == Append(th[t].chunks,
                              [k |-> Len(th[t].batch), post |-> post])
    IN
    /\ At(t, "write")
    /\ \/ /\ q = <<>>
          /\ Goto(t, "unlock")
          /\ UNCHANGED <<locked, out>>
       \/ /\ q # <<>> /\ sendClosed
          /\ th' = [th EXCEPT ![t].pc = "unlock", ![t].batch = <<>>,
                              ![t].chunks = chunk(FALSE)]
          /\ UNCHANGED <<locked, out>>
       \/ \E n \in 0..Len(q) :
            /\ q # <<>> /\ ~sendClosed
            /\ n > 0 => MayWrite
            /\ wire' = wire \o SubSeq(q, 1, n)
            /\ spill' = spill \o SubSeq(q, n + 1, Len(q))
            /\ spillPosted' = (spillPosted \/ n < Len(q))
            /\ th' = [th EXCEPT ![t].pc = "unlock", ![t].batch = <<>>,
                        ![t].chunks = chunk(n < Len(q) /\ SpillPosts)]
            /\ UNCHANGED <<sendClosed, drainWatch, folly>>
    /\ UNCHANGED <<conn, outstanding, fresh, engine, lock, sendPending, pendingBuf,
                   posts>>

SendUnlock(t) ==
    /\ At(t, "unlock")
    /\ Unlock(th, t, "recheck")
    /\ UNCHANGED <<conn, outstanding, fresh, engine, locked, sendPending, pendingBuf,
                   out, posts>>

\* Somebody may have pushed and failed its retry while the lock was ours.
Recheck(t) ==
    /\ At(t, "recheck")
    /\ IF sendPending = <<>> THEN Goto(t, "finish") /\ UNCHANGED lock
                             ELSE TryLock(t, "take", "finish")
    /\ UNCHANGED <<conn, outstanding, fresh, engine, locked, sendPending, pendingBuf,
                   out, posts>>

---------------------------------------------------------------------------
(* Giving the counts back: finishBatch, finishDirect, releaseOutstanding.  *)

\* Mutant: the requests of a chunk do not wait for its spill to be flushed.
FinishBatchEarly(t) ==
    /\ At(t, "finish")
    /\ \/ /\ th[t].chunks # <<>>
          /\ IF Head(th[t].chunks).post THEN Post("flush", 0)
                                        ELSE UNCHANGED posts
          /\ th' = [th EXCEPT ![t].pc = "rel", ![t].chunks = Tail(@),
                              ![t].k = Head(th[t].chunks).k]
       \/ /\ th[t].chunks = <<>>
          /\ th' = [th EXCEPT ![t].pc = IF th[t].extra = 1 THEN "rel"
                                        ELSE th[t].ret,
                              ![t].k = th[t].extra, ![t].extra = 0]
          /\ UNCHANGED posts
    /\ UNCHANGED <<conn, outstanding, fresh, engine, lock, locked, sendPending,
                   pendingBuf, out>>

\* The next chunk: its requests wait for the loop to flush the spill, or are
\* recycled here; then the extra count; then the thread is done.
FinishBatch(t) ==
    /\ At(t, "finish")
    /\ \/ /\ th[t].chunks # <<>> /\ Head(th[t].chunks).post
          /\ Post("flush", Head(th[t].chunks).k)
          /\ th' = [th EXCEPT ![t].chunks = Tail(@)]
       \/ /\ th[t].chunks # <<>> /\ ~Head(th[t].chunks).post
          /\ th' = [th EXCEPT ![t].pc = "rel", ![t].chunks = Tail(@),
                              ![t].k = Head(th[t].chunks).k]
          /\ UNCHANGED posts
       \/ /\ th[t].chunks = <<>> /\ th[t].extra = 1
          /\ th' = [th EXCEPT ![t].pc = "rel", ![t].extra = 0, ![t].k = 1]
          /\ UNCHANGED posts
       \/ /\ th[t].chunks = <<>> /\ th[t].extra = 0
          /\ Goto(t, th[t].ret)
          /\ UNCHANGED posts
    /\ UNCHANGED <<conn, outstanding, fresh, engine, lock, locked, sendPending,
                   pendingBuf, out>>

ReleaseTry(t) ==
    /\ At(t, "rel")
    /\ TryLock(t, "relheld", "relcas")
    /\ UNCHANGED <<conn, outstanding, fresh, engine, locked, sendPending, pendingBuf,
                   out, posts>>

\* Nothing waits for the count to reach zero.
NobodyWaits == ~sendClosed /\ ~drainWatch

ReleaseHeld(t) ==
    /\ At(t, "relheld")
    /\ IF NobodyWaits
         THEN /\ outstanding' = outstanding - th[t].k
              /\ Unlock([th EXCEPT ![t].k = 0], t, "finish")
         ELSE Unlock(th, t, "relcas") /\ UNCHANGED outstanding
    /\ UNCHANGED <<conn, fresh, engine, locked, sendPending, pendingBuf, out, posts>>

\* Without it the count stops at one, and the loop takes the last step.
ReleaseCas(t) ==
    LET d == IF th[t].k < outstanding THEN th[t].k ELSE outstanding - 1 IN
    /\ At(t, "relcas")
    /\ outstanding' = outstanding - d
    /\ th' = [th EXCEPT ![t].k = @ - d,
                 ![t].pc = IF d = th[t].k THEN "finish" ELSE "relpost"]
    /\ UNCHANGED <<conn, fresh, engine, lock, locked, sendPending, pendingBuf, out,
                   posts>>

ReleasePost(t) ==
    /\ At(t, "relpost")
    /\ Post("drop", th[t].k)
    /\ th' = [th EXCEPT ![t].pc = "finish", ![t].k = 0]
    /\ UNCHANGED <<conn, outstanding, fresh, engine, lock, locked, sendPending,
                   pendingBuf, out>>

---------------------------------------------------------------------------
(* The loop: requests, flushes, folly, posted callbacks.                   *)

LoopIdle == At(Loop, "idle")
Open     == conn.st = "open"
Reading  == Open /\ ~conn.migrating

\* A request goes to the engine, is answered into pendingWriteBuf_, or is
\* answered with a chain of its own (writeChainLocked).
Receive(r) ==
    /\ LoopIdle /\ Reading /\ r \in fresh
    /\ fresh' = fresh \ {r}
    /\ \/ /\ engine' = engine \cup {r}
          /\ outstanding' = outstanding + 1
          /\ Goto(Loop, "flush")
          /\ UNCHANGED pendingBuf
       \/ /\ pendingBuf' = pendingBuf \o Frames(<<r>>)
          /\ \E pc \in {"flush", "idle"} : Goto(Loop, pc)
          /\ UNCHANGED <<engine, outstanding>>
       \/ /\ th' = [th EXCEPT ![Loop].pc = "chain", ![Loop].batch = <<r>>]
          /\ UNCHANGED <<engine, outstanding, pendingBuf>>
    /\ UNCHANGED <<conn, lock, locked, sendPending, out, posts>>

\* flushPending at the end of a later wake, or of the flush timer.
Wake ==
    /\ LoopIdle /\ Open /\ (Reading \/ pendingBuf # <<>>)
    /\ Goto(Loop, "flush")
    /\ UNCHANGED <<conn, outstanding, fresh, engine, lock, locked, sendPending,
                   pendingBuf, out, posts>>

\* Two buffers given to folly, or one if the first is empty: it writes n halves
\* at once and keeps the rest.  A writeSuccess that leaves it nothing to write
\* looks at a waiting migration; the first buffer's does before the second is
\* given.
HandToFolly(b1, b2, pc) ==
    LET q == b1 \o b2
        success(n) == n = Len(q) \/ (b1 # <<>> /\ n >= Len(b1))
    IN
    /\ \E n \in 0..Len(q) :
         /\ n > 0 => folly = <<>>
         /\ wire' = wire \o SubSeq(q, 1, n)
         /\ folly' = folly \o SubSeq(q, n + 1, Len(q))
         /\ conn' = [conn EXCEPT !.check =
                       @ \/ (conn.migrating /\ n > 0 /\ success(n))]
    /\ th' = [th EXCEPT ![Loop].pc = pc, ![Loop].depth = 1,
                        ![Loop].batch = <<>>]
    /\ UNCHANGED sendClosed

\* The write fails at once: writeErr runs destroy() inside it, with the lock.
FailInWrite(b1, b2) ==
    /\ b1 \o b2 # <<>>
    /\ conn' = [st |-> "closing", migrating |-> FALSE, check |-> FALSE]
    /\ sendClosed' = TRUE
    /\ folly' = <<>>
    /\ th' = [th EXCEPT ![Loop].pc = "drain", ![Loop].ret = "closed",
                        ![Loop].depth = 1, ![Loop].batch = <<>>]
    /\ UNCHANGED wire

\* Mutant: the flag of a posted spill stays up when the spill is flushed.
FlushKeepsFlag ==
    /\ At(Loop, "flush") /\ ~Closing
    /\ Take(Loop)
    /\ \/ HandToFolly(spill, pendingBuf, "unlockF")
       \/ FailInWrite(spill, pendingBuf)
    /\ spill' = <<>> /\ pendingBuf' = <<>>
    /\ UNCHANGED <<outstanding, fresh, engine, drainWatch, spillPosted,
                   sendPending, posts>>

\* flushPendingImpl: the spill first, it may finish a frame; a closed
\* connection has nothing to flush.
FlushPending ==
    /\ At(Loop, "flush") /\ ~Closing
    /\ Take(Loop)
    /\ \/ HandToFolly(spill, pendingBuf, "unlockF")
       \/ FailInWrite(spill, pendingBuf)
    /\ spill' = <<>> /\ pendingBuf' = <<>> /\ spillPosted' = FALSE
    /\ UNCHANGED <<outstanding, fresh, engine, drainWatch, sendPending, posts>>

FlushClosed ==
    /\ At(Loop, "flush") /\ Closing
    /\ th' = [th EXCEPT ![Loop].pc = "drain", ![Loop].ret = "after"]
    /\ UNCHANGED <<conn, outstanding, fresh, engine, lock, locked, sendPending,
                   pendingBuf, out, posts>>

WriteChainLocked ==
    LET chain == Frames(th[Loop].batch) IN
    /\ At(Loop, "chain")
    /\ Take(Loop)
    /\ HandToFolly(spill, chain, "unlockH") \/ FailInWrite(spill, chain)
    /\ spill' = <<>>
    /\ UNCHANGED <<outstanding, fresh, engine, drainWatch, spillPosted,
                   sendPending, pendingBuf, posts>>

\* The end of a critical section of the loop, and what it does next.
UnlockAt(pc, next, ret) ==
    /\ At(Loop, pc)
    /\ Unlock([th EXCEPT ![Loop].ret = ret], Loop, next)
    /\ conn' = [conn EXCEPT !.check = @ \/ pc = "unlockM"]
    /\ UNCHANGED <<outstanding, fresh, engine, locked, sendPending, pendingBuf,
                   out, posts>>

LoopUnlock ==
    \/ UnlockAt("unlockF", "drain", "after")
    \/ UnlockAt("unlockH", "drain", "flush")
    \/ UnlockAt("unlockC", "drain", "closed")
    \/ UnlockAt("unlockM", "idle", "idle")
    \/ UnlockAt("unlockA", "flush", "idle")

\* The end of a callback: the counts its batch held, and onDrained.
After ==
    LET left == outstanding - th[Loop].owed
        drained == th[Loop].owed > 0 /\ left = 0
    IN
    /\ At(Loop, "after")
    /\ outstanding' = left
    /\ conn' = [conn EXCEPT !.st = IF drained /\ Closing THEN "deleted" ELSE @,
                            !.check = @ \/ (drained /\ conn.migrating)]
    /\ th' = [th EXCEPT ![Loop] = Rest]
    /\ UNCHANGED <<fresh, engine, lock, locked, sendPending, pendingBuf, out,
                   posts>>

RunPost ==
    LET p == Head(posts) IN
    /\ LoopIdle /\ posts # <<>>
    /\ posts' = Tail(posts)
    /\ th' = [th EXCEPT ![Loop].owed = p.k,
                 ![Loop].pc = CASE p.op = "flush" -> "flush"
                                [] p.op = "drop" -> "after"
                                [] p.op = "delete" -> "idle"]
    /\ conn' = [conn EXCEPT !.st = IF p.op = "delete" THEN "deleted" ELSE @]
    /\ UNCHANGED <<outstanding, fresh, engine, lock, locked, sendPending,
                   pendingBuf, out>>

\* folly writes more of what it has; when all of it is written, writeSuccess.
FollyWrite ==
    /\ LoopIdle
    /\ \E n \in 1..Len(folly) :
         /\ wire' = wire \o SubSeq(folly, 1, n)
         /\ folly' = SubSeq(folly, n + 1, Len(folly))
    /\ conn' = [conn EXCEPT !.check = @ \/ (conn.migrating /\ folly' = <<>>)]
    /\ UNCHANGED <<outstanding, fresh, engine, lock, locked, sendPending,
                   pendingBuf, posts, th>>

---------------------------------------------------------------------------
(* The loop: destroy() and migration.                                      *)

\* End of file or a read error; writeErr for the writes folly has.
Destroy ==
    /\ LoopIdle /\ Open /\ (Reading \/ folly # <<>>)
    /\ conn' = [st |-> "closing", migrating |-> FALSE, check |-> FALSE]
    /\ Goto(Loop, "close")
    /\ UNCHANGED <<outstanding, fresh, engine, lock, locked, sendPending,
                   pendingBuf, out, posts>>

CloseSends ==
    /\ At(Loop, "close")
    /\ Take(Loop)
    /\ sendClosed' = TRUE /\ spill' = <<>>
    /\ th' = [th EXCEPT ![Loop].pc = "unlockC", ![Loop].depth = 1]
    /\ UNCHANGED <<conn, outstanding, fresh, engine, drainWatch, spillPosted,
                   sendPending, pendingBuf, out, posts>>

\* The socket is closed; the object goes with the next callback unless
\* requests are still out.
Closed ==
    /\ At(Loop, "closed")
    /\ folly' = <<>> /\ pendingBuf' = <<>>
    /\ IF outstanding = 0 THEN Post("delete", 0) ELSE UNCHANGED posts
    /\ th' = [th EXCEPT ![Loop].pc = IF th[Loop].depth = 1 THEN "unlockF"
                                     ELSE "idle",
                        ![Loop].ret = "idle"]
    /\ UNCHANGED <<conn, outstanding, fresh, engine, lock, locked, sendPending,
                   wire>>

MigrateTo ==
    /\ LoopIdle /\ Reading
    /\ conn' = [conn EXCEPT !.migrating = TRUE]
    /\ Goto(Loop, "watch")
    /\ UNCHANGED <<outstanding, fresh, engine, lock, locked, sendPending,
                   pendingBuf, out, posts>>

\* migrateTo and finishAttach tell the readers whether zero is waited for.
WatchAt(pc, next, watch) ==
    /\ At(Loop, pc)
    /\ Take(Loop)
    /\ drainWatch' = watch
    /\ th' = [th EXCEPT ![Loop].pc = next, ![Loop].depth = 1]
    /\ UNCHANGED <<conn, outstanding, fresh, engine, sendClosed, spillPosted,
                   spill, sendPending, pendingBuf, out, posts>>

Watch == WatchAt("watch", "unlockM", TRUE) \/ WatchAt("attach", "unlockA", FALSE)

\* tryFinishMigrate: wait, flush, or leave the loop.
TryFinishMigrate ==
    /\ LoopIdle /\ Open /\ conn.migrating /\ conn.check
    /\ conn' = [conn EXCEPT !.check = FALSE,
                   !.st = IF /\ outstanding = 0
                             /\ pendingBuf = <<>> /\ folly = <<>>
                          THEN "detached" ELSE @]
    /\ IF outstanding = 0 /\ pendingBuf # <<>>
         THEN Goto(Loop, "flush") ELSE UNCHANGED th
    /\ UNCHANGED <<outstanding, fresh, engine, lock, locked, sendPending,
                   pendingBuf, out, posts>>

FinishAttach ==
    /\ LoopIdle /\ conn.st = "detached"
    /\ conn' = [conn EXCEPT !.st = "open", !.migrating = FALSE]
    /\ Goto(Loop, "attach")
    /\ UNCHANGED <<outstanding, fresh, engine, lock, locked, sendPending,
                   pendingBuf, out, posts>>

\* Every response is on the wire, or the connection is gone.
Done ==
    /\ \/ conn.st = "deleted"
       \/ Open /\ fresh = {} /\ Len(wire) = 2 * Cardinality(Req)
    /\ UNCHANGED vars

SendStep(t) ==
    \/ PushPending(t) \/ Retry(t) \/ DrainPendingSends(t) \/ TakePending(t)
    \/ WriteDirect(t) \/ SendUnlock(t) \/ Recheck(t) \/ FinishBatch(t)
    \/ ReleaseTry(t) \/ ReleaseHeld(t) \/ ReleaseCas(t) \/ ReleasePost(t)
ReaderStep(t) == SendStep(t) \/ \E r \in Req : SendDirect(t, r)
LoopStep ==
    \/ SendStep(Loop) \/ FlushPending \/ FlushClosed \/ WriteChainLocked
    \/ LoopUnlock \/ After \/ CloseSends \/ Closed \/ Watch
CallbackStep == RunPost \/ FollyWrite \/ TryFinishMigrate \/ FinishAttach

Next ==
    \/ \E t \in Reader : ReaderStep(t)
    \/ LoopStep \/ CallbackStep
    \/ \E r \in Req : Receive(r)
    \/ Wake \/ Destroy \/ MigrateTo \/ Done

Spec == Init /\ [][Next]_vars

----
(* Properties.                                                             *)

\* What the client is sent is a sequence of whole frames, each once: a frame a
\* reader could send only in part is finished before anything else is written,
\* by whichever thread (writeDirectLocked, flushPendingImpl, writeChainLocked).
WireWellFormed ==
    /\ TypeOK
    /\ \A i \in DOMAIN wire :
        IF i % 2 = 1
          THEN wire[i][2] = 1 /\ \A j \in 1..i-1 : wire[j] # wire[i]
          ELSE wire[i] = <<wire[i-1][1], 2>>

\* A thread that has nothing left but to return does not use the connection.
Inside(t) ==
    ~At(t, "idle") /\ ~(At(t, "finish") /\ th[t].chunks = <<>>
                                       /\ th[t].extra = 0 /\ t # Loop)

\* The counts requests and senders hold, wherever they are: one unit for every
\* count, so that what is held is the number of units.
Units(f) == UNION {{x} \X (1 .. f[x].k) : x \in DOMAIN f}

Held(t) ==
    [k |-> th[t].extra + th[t].k + th[t].owed
           + (IF At(t, "chain") THEN 0 ELSE Len(th[t].batch))
           + Cardinality(Units(th[t].chunks))]

CountsHeld ==
    Cardinality(engine) + Len(sendPending)
    + Cardinality(Units([t \in Thread |-> Held(t)]))
    + Cardinality(Units(posts))

\* outstandingRequests_ counts exactly the requests that are not finished and
\* the senders that keep the connection; one lost keeps a migration or a
\* close waiting for ever, one returned twice deletes under a reader.
OutstandingExact == outstanding = CountsHeld

\* A connection is deleted once: when nobody can touch it any more, neither a
\* reader between its sends and its counts nor a posted callback (destroy,
\* onDrained, releaseOutstanding).  The counts that tell are exact until then.
NoUseAfterFree ==
    IF conn.st # "deleted" THEN OutstandingExact ELSE
        /\ \A t \in Thread : ~Inside(t)
        /\ engine = {} /\ sendPending = <<>> /\ posts = <<>>

\* The connection leaves its loop with nothing behind: no reader, response,
\* spill or callback that would still use the old loop (tryFinishMigrate).
QuiescentDetach ==
    conn.st = "detached" =>
        /\ \A t \in Thread : ~Inside(t)
        /\ engine = {} /\ sendPending = <<>> /\ posts = <<>>
        /\ spill = <<>> /\ pendingBuf = <<>> /\ folly = <<>>

\* A spill has somebody to flush it: a posted flush, or a sender about to post
\* one (spillPosted_ against flushPending and writeChainLocked).
SpillHasFlusher ==
    spill # <<>> /\ ~sendClosed =>
        \/ At(Loop, "flush")
        \/ \E i \in DOMAIN posts : posts[i].op = "flush"
        \/ \E t \in Thread : \E i \in DOMAIN th[t].chunks :
              th[t].chunks[i].post

\* "A sender that pushed while we held the lock and then failed its retry left
\* its responses to us" (connection.cc:1664): a response in sendPending_ has a
\* thread that is still going to look there.  The loop that holds the lock in
\* migrateTo (268, pc unlockM) and a thread that holds it in releaseOutstanding
\* (1731, pc relheld) do not look.
NoStrandedSend ==
    sendPending # <<>> =>
        \/ At(Loop, "closed") /\ th[Loop].depth = 1
        \/ \E t \in Thread : th[t].pc \in
             {"retry", "take", "write", "unlock", "recheck", "drain", "flush",
              "chain", "unlockF", "unlockH", "unlockC", "close", "unlockA",
              "attach"}
=============================================================================
