-------------------------------- MODULE IOPool --------------------------------
(***************************************************************************)
(* The IO loops and the connections on them: the accept loop assigns a     *)
(* connection to the least loaded loop, the tuner adds loops, retires      *)
(* them, plans migrations and reaps the empty ones, a connection migrates  *)
(* once it is quiescent, pauses while the write queue is full, closes, and *)
(* requests it has sent to the engine come back to the loop they left.     *)
(* (src/server/server.cc, src/server/iothread.h, src/server/connection.cc) *)
(*                                                                         *)
(* A callback of a loop is a step, a critical section is a step, and       *)
(* Load() reads its two counters in two steps where it decides the end of  *)
(* a loop.                                                                 *)
(***************************************************************************)
EXTENDS Integers, Sequences, FiniteSets, FiniteSetsExt

CONSTANTS
    Loop,           \* IO threads that can exist
    InitLoops,      \* those the server starts with
    Conn,           \* connections the clients open
    NoLoop,         \* nullptr
    Req,            \* requests that reach the engine
    MaxResizes      \* bound: Grow and Shrink calls of the tuner

ASSUME Domain ==
    /\ InitLoops \subseteq Loop /\ InitLoops # {} /\ NoLoop \notin Loop
    /\ IsFiniteSet(Loop) /\ IsFiniteSet(Conn) /\ MaxResizes \in Nat

VARIABLES
    life,           \* loop -> does it exist, is it retiring
    connCount,      \* loop -> IOThread::connCount
    pending,        \* loop -> IOThread::pending, the reservations
    holds,          \* loop -> IOThread::holds
    emptyTicks,     \* loop -> IOThread::emptyTicks
    mail,           \* loop -> its mailbox, oldest first
    conn,           \* connection -> its state
    pausedConns,    \* gPausedConns
    req,            \* request -> who sent it, and which loop answers it
    tuner,          \* the tuner thread
    resizes         \* Grow and Shrink calls so far

counters == <<connCount, pending>>
loopVars == <<life, counters, holds, emptyTicks, mail>>
vars == <<loopVars, conn, pausedConns, req, tuner, resizes>>

MaybeLoop == Loop \cup {NoLoop}
Mail == [op : {"accept", "attach"}, conn : Conn]
          \cup [op : {"plan"}, dests : Seq(Loop)]
Connection ==
    [st : {"new", "picked", "posted", "open", "detached", "closing", "gone"},
     loop : MaybeLoop, target : MaybeLoop, reading : BOOLEAN,
     paused : BOOLEAN, timer : BOOLEAN, check : BOOLEAN,
     unsent : BOOLEAN, inflight : BOOLEAN]
Request == [st : {"none", "engine", "posted", "done"}, durable : BOOLEAN,
            conn : Conn \cup {NoLoop}, loop : MaybeLoop]

TypeOK ==
    /\ life \in [Loop -> {"unborn", "live", "retiring", "reaped", "stopped"}]
    /\ connCount \in [Loop -> Nat] /\ pending \in [Loop -> Nat]
    /\ holds \in [Loop -> Nat] /\ emptyTicks \in [Loop -> 0..1]
    /\ mail \in [Loop -> Seq(Mail)]
    /\ conn \in [Conn -> Connection]
    /\ pausedConns \in 0..Cardinality(Conn)
    /\ req \in [Req -> Request]
    /\ tuner \in [pc : {"idle", "scan", "load", "shrink", "replan",
                        "rebalance"},
                  todo : SUBSET Loop, at : MaybeLoop, seen : Nat,
                  stuck : SUBSET Loop]
    /\ resizes \in 0..MaxResizes

Idle == [pc |-> "idle", todo |-> {}, at |-> NoLoop, seen |-> 0, stuck |-> {}]

Init ==
    /\ life = [l \in Loop |-> IF l \in InitLoops THEN "live" ELSE "unborn"]
    /\ connCount = [l \in Loop |-> 0] /\ pending = [l \in Loop |-> 0]
    /\ holds = [l \in Loop |-> 0] /\ emptyTicks = [l \in Loop |-> 0]
    /\ mail = [l \in Loop |-> <<>>]
    /\ conn = [c \in Conn |->
                 [st |-> "new", loop |-> NoLoop, target |-> NoLoop,
                  reading |-> FALSE, paused |-> FALSE, timer |-> FALSE,
                  check |-> FALSE, unsent |-> FALSE, inflight |-> FALSE]]
    /\ pausedConns = 0
    /\ req = [r \in Req |-> [st |-> "none", durable |-> FALSE,
                             conn |-> NoLoop, loop |-> NoLoop]]
    /\ tuner = Idle
    /\ resizes = 0

Live        == {l \in Loop : life[l] = "live"}
Retiring    == {l \in Loop : life[l] = "retiring"}
Running(l)  == life[l] \in {"live", "retiring"}
Load(l)     == connCount[l] + pending[l]
Add(f, l, n) == [f EXCEPT ![l] = @ + n]
Migrating(c) == conn[c].target # NoLoop
OpenOn(l)   == {c \in Conn : conn[c].st = "open" /\ conn[c].loop = l}
Outstanding(c) == {r \in Req : /\ req[r].st \in {"engine", "posted"}
                               /\ req[r].conn = c}
Post(l, m)  == mail' = [mail EXCEPT ![l] = Append(@, m)]

---------------------------------------------------------------------------
(* The accept loop.                                                        *)

\* Mutant: the slot is not reserved until the connection starts.
PickUnreserved(c) ==
    /\ conn[c].st = "new"
    /\ \E l \in Live :
         /\ \A k \in Live : Load(l) <= Load(k)
         /\ conn' = [conn EXCEPT ![c].st = "picked", ![c].loop = l]
    /\ UNCHANGED <<loopVars, pausedConns, req, tuner, resizes>>

PickIOThread(c) ==
    /\ conn[c].st = "new"
    /\ \E l \in Live :
         /\ \A k \in Live : Load(l) <= Load(k)
         /\ pending' = Add(pending, l, 1)
         /\ conn' = [conn EXCEPT ![c].st = "picked", ![c].loop = l]
    /\ UNCHANGED <<life, connCount, holds, emptyTicks, mail, pausedConns, req,
                   tuner, resizes>>

PostAccept(c) ==
    /\ conn[c].st = "picked"
    /\ conn' = [conn EXCEPT ![c].st = "posted"]
    /\ Post(conn[c].loop, [op |-> "accept", conn |-> c])
    /\ UNCHANGED <<life, counters, holds, emptyTicks, pausedConns, req, tuner,
                   resizes>>

---------------------------------------------------------------------------
(* The mailbox of a loop, run by its pump one callback after the other.    *)

TakeMail(l, op) ==
    /\ Running(l) /\ mail[l] # <<>> /\ Head(mail[l]).op = op
    /\ mail' = [mail EXCEPT ![l] = Tail(@)]

\* Connection::start and finishAttach: the arrival turns its reservation into
\* a connection of the loop and is read from (again).
Arrive(l, op) ==
    LET c == Head(mail[l]).conn IN
    /\ TakeMail(l, op)
    /\ connCount' = Add(connCount, l, 1)
    /\ pending' = Add(pending, l, -1)
    /\ conn' = [conn EXCEPT ![c].st = "open", ![c].loop = l,
                            ![c].reading = TRUE]
    /\ UNCHANGED <<life, holds, emptyTicks, pausedConns, req, tuner, resizes>>
Start(l)        == Arrive(l, "accept")
FinishAttach(l) == Arrive(l, "attach")

\* Connection::migrateTo: stop reading, check for quiescence soon.
MigrateTo(c, l) == [conn[c] EXCEPT !.target = l, !.reading = FALSE,
                                   !.check = TRUE]

\* A migration plan: one connection that is not migrating yet per destination,
\* and the reservations nobody uses are given back.
RunPlan(l) ==
    LET dests   == Head(mail[l]).dests
        movable == {c \in OpenOn(l) : ~Migrating(c)}
        k       == Min({Cardinality(movable), Len(dests)})
        unused(d) == Cardinality({i \in k + 1 .. Len(dests) : dests[i] = d})
    IN
    /\ TakeMail(l, "plan")
    /\ \E q \in [1..k -> movable] :
         /\ \A i, j \in 1..k : i # j => q[i] # q[j]
         /\ conn' = [c \in Conn |->
                       IF \E i \in 1..k : q[i] = c
                         THEN MigrateTo(c, dests[CHOOSE i \in 1..k : q[i] = c])
                         ELSE conn[c]]
    /\ pending' = [d \in Loop |-> pending[d] - unused(d)]
    /\ UNCHANGED <<life, connCount, holds, emptyTicks, pausedConns, req, tuner,
                   resizes>>

---------------------------------------------------------------------------
(* A connection, on its loop.                                              *)

OnLoop(c) == conn[c].st = "open" /\ Running(conn[c].loop)

\* Requests are read while the connection is; what the engine has to do keeps
\* a request outstanding.
ToEngine(c, r, durable) ==
    /\ OnLoop(c) /\ conn[c].reading /\ req[r].st = "none"
    /\ req' = [req EXCEPT ![r] = [st |-> "engine", durable |-> durable,
                                  conn |-> c, loop |-> conn[c].loop]]
    /\ UNCHANGED <<life, counters, emptyTicks, mail, conn, pausedConns, tuner,
                   resizes>>

\* A GET that misses the cache.
HandleGet(c, r) == ToEngine(c, r, FALSE) /\ UNCHANGED holds

\* A durable SET or DELETE that is accepted: it holds the loop.
HandleSet(c, r) ==
    ToEngine(c, r, TRUE) /\ holds' = Add(holds, conn[c].loop, 1)

\* A cached GET, a write acknowledged when it is queued and a refused one leave
\* their response in pendingWriteBuf_.
ParseAndDispatch(c) ==
    /\ OnLoop(c) /\ conn[c].reading
    /\ conn' = [conn EXCEPT ![c].unsent = TRUE]
    /\ UNCHANGED <<loopVars, pausedConns, req, tuner, resizes>>

\* The bootstrap handlers write their response themselves.
DispatchSession(c) ==
    /\ OnLoop(c) /\ conn[c].reading
    /\ conn' = [conn EXCEPT ![c].inflight = TRUE]
    /\ UNCHANGED <<loopVars, pausedConns, req, tuner, resizes>>

\* The write queue is full, or the write rate is limited: stop reading.
PauseForQueue(c) ==
    /\ OnLoop(c) /\ conn[c].reading
    /\ conn' = [conn EXCEPT ![c].reading = FALSE, ![c].paused = TRUE,
                            ![c].timer = TRUE]
    /\ pausedConns' = pausedConns + 1
    /\ UNCHANGED <<loopVars, req, tuner, resizes>>

\* Mutant: a migrating connection is read from again when its pause ends.
ResumeReading(c) ==
    /\ OnLoop(c) /\ conn[c].timer
    /\ conn' = [conn EXCEPT ![c].timer = FALSE, ![c].paused = FALSE,
                            ![c].reading = TRUE]
    /\ pausedConns' = pausedConns - 1
    /\ UNCHANGED <<loopVars, req, tuner, resizes>>

\* The resume timer, when it finds room (without room it is armed again).  A
\* migrating connection only forgets the pause.
ResumeAfterQueue(c) ==
    /\ OnLoop(c) /\ conn[c].timer
    /\ conn' = [conn EXCEPT ![c].timer = FALSE, ![c].paused = FALSE,
                            ![c].reading = ~Migrating(c)]
    /\ pausedConns' = pausedConns - (IF conn[c].paused THEN 1 ELSE 0)
    /\ UNCHANGED <<loopVars, req, tuner, resizes>>

FlushPending(c) ==
    /\ OnLoop(c) /\ conn[c].unsent
    /\ conn' = [conn EXCEPT ![c].unsent = FALSE, ![c].inflight = TRUE]
    /\ UNCHANGED <<loopVars, pausedConns, req, tuner, resizes>>

WriteSuccess(c) ==
    /\ OnLoop(c) /\ conn[c].inflight
    /\ conn' = [conn EXCEPT ![c].inflight = FALSE, ![c].check = Migrating(c)]
    /\ UNCHANGED <<loopVars, pausedConns, req, tuner, resizes>>

Quiescent(c) == Outstanding(c) = {} /\ ~conn[c].unsent /\ ~conn[c].inflight

\* tryFinishMigrate before the connection is quiescent: wait for onDrained, or
\* flush and wait for writeSuccess.
MigrateWait(c) ==
    LET flush == Outstanding(c) = {} /\ conn[c].unsent IN
    /\ OnLoop(c) /\ conn[c].check /\ ~Quiescent(c)
    /\ conn' = [conn EXCEPT ![c].check = FALSE,
                            ![c].unsent = @ /\ ~flush,
                            ![c].inflight = @ \/ flush]
    /\ UNCHANGED <<loopVars, pausedConns, req, tuner, resizes>>

\* tryFinishMigrate: leave the loop, and have the target attach the socket.
Detach(c) ==
    /\ OnLoop(c) /\ conn[c].check /\ Quiescent(c)
    /\ conn' = [conn EXCEPT ![c].st = "detached", ![c].loop = NoLoop,
                            ![c].target = NoLoop, ![c].check = FALSE,
                            ![c].paused = FALSE, ![c].timer = FALSE]
    /\ pausedConns' = pausedConns - (IF conn[c].paused THEN 1 ELSE 0)
    /\ connCount' = Add(connCount, conn[c].loop, -1)
    /\ Post(conn[c].target, [op |-> "attach", conn |-> c])
    /\ UNCHANGED <<life, pending, holds, emptyTicks, req, tuner, resizes>>

\* Connection::destroy, on end of file, a read or write error or a request
\* that cannot be parsed.  The object lives until its requests have come back.
Destroy(c) ==
    /\ OnLoop(c) /\ (conn[c].reading \/ conn[c].inflight)
    /\ conn' = [conn EXCEPT ![c] =
                  [@ EXCEPT !.st = IF Outstanding(c) = {} THEN "gone"
                                   ELSE "closing",
                            !.loop = NoLoop, !.target = NoLoop,
                            !.reading = FALSE, !.paused = FALSE,
                            !.timer = FALSE, !.check = FALSE,
                            !.unsent = FALSE, !.inflight = FALSE]]
    /\ pausedConns' = pausedConns - (IF conn[c].paused THEN 1 ELSE 0)
    /\ connCount' = Add(connCount, conn[c].loop, -1)
    /\ pending' = IF Migrating(c) THEN Add(pending, conn[c].target, -1)
                  ELSE pending
    /\ UNCHANGED <<life, holds, emptyTicks, mail, req, tuner, resizes>>

---------------------------------------------------------------------------
(* The engine answers on the loop the request came from.                   *)

Complete(r) ==
    /\ req[r].st = "engine"
    /\ req' = [req EXCEPT ![r].st = "posted"]
    /\ UNCHANGED <<loopVars, conn, pausedConns, tuner, resizes>>

\* sendWriteResponse, sendGetResponse and onDrained.
Respond(r) ==
    LET c == req[r].conn
        last == Outstanding(c) = {r}
    IN
    /\ req[r].st = "posted" /\ Running(req[r].loop)
    /\ req' = [req EXCEPT ![r].st = "done"]
    /\ holds' = Add(holds, req[r].loop, IF req[r].durable THEN -1 ELSE 0)
    /\ conn' = IF conn[c].st = "closing"
                 THEN [conn EXCEPT ![c].st = IF last THEN "gone" ELSE @]
                 ELSE [conn EXCEPT ![c].unsent = TRUE,
                         ![c].check = @ \/ (last /\ Migrating(c))]
    /\ UNCHANGED <<life, counters, emptyTicks, mail, pausedConns, tuner,
                   resizes>>

---------------------------------------------------------------------------
(* The tuner thread: Grow, Shrink, Reap and the plans they make.           *)

\* planMoves: k moves, each onto a loop of to that is emptiest once the moves
\* before it are reserved.
PlanMoves(k, to) ==
    LET n == IF to = {} THEN 0 ELSE k
        load(q, i, d) == Load(d) + Cardinality({j \in 1 .. i - 1 : q[j] = d})
    IN  {q \in [1..n -> to] :
           \A i \in 1..n : \A d \in to : load(q, i, q[i]) <= load(q, i, d)}

\* postMigrations, with every destination reserved.
PostMigrations(l, dests) ==
    /\ pending' = [d \in Loop |-> pending[d] +
                     Cardinality({i \in DOMAIN dests : dests[i] = d})]
    /\ IF dests = <<>> THEN UNCHANGED mail
                       ELSE Post(l, [op |-> "plan", dests |-> dests])

\* rebalance: one move from a fullest to an emptiest live loop until they are
\* within one of each other.  Bounded by the connections there are.
Rebalancings ==
    LET From(q, i, l) == Cardinality({j \in 1..i : q[j].from = l})
        To(q, i, l)   == Cardinality({j \in 1..i : q[j].to = l})
        load(q, i, l) == Load(l) - From(q, i, l) + To(q, i, l)
        Move(q, i)    == \A l \in Live :
                           /\ load(q, i - 1, l) <= load(q, i - 1, q[i].from)
                           /\ load(q, i - 1, l) >= load(q, i - 1, q[i].to)
        Level(q, i)   == \A l, k \in Live : load(q, i, l) - load(q, i, k) <= 1
        Most          == Cardinality(Conn)
    IN  {q \in UNION {[1..n -> [from : Live, to : Live]] : n \in 0..Most} :
           /\ \A i \in DOMAIN q : ~Level(q, i - 1) /\ Move(q, i)
           /\ Level(q, Len(q)) \/ Len(q) = Most}

\* The destinations of the moves that leave l, in the order they were made.
DestsFrom(l, moves) ==
    LET own     == {i \in DOMAIN moves : moves[i].from = l}
        rank(i) == Cardinality({j \in own : j <= i})
    IN  [n \in 1..Cardinality(own) |-> moves[CHOOSE i \in own : rank(i) = n].to]

Rebalance ==
    /\ tuner.pc = "rebalance"
    /\ \E moves \in Rebalancings :
         /\ pending' = [d \in Loop |-> pending[d] +
                          Cardinality({i \in DOMAIN moves : moves[i].to = d})]
         /\ mail' = [l \in Loop |->
                       LET dests == DestsFrom(l, moves) IN
                       IF dests = <<>> THEN mail[l]
                       ELSE Append(mail[l], [op |-> "plan", dests |-> dests])]
    /\ tuner' = Idle
    /\ UNCHANGED <<life, connCount, holds, emptyTicks, conn, pausedConns, req,
                   resizes>>

Grow ==
    /\ tuner.pc = "idle" /\ resizes < MaxResizes /\ Live # {}
    /\ \E new \in SUBSET {l \in Loop : life[l] = "unborn"} :
         /\ new # {}
         /\ life' = [l \in Loop |-> IF l \in new THEN "live" ELSE life[l]]
    /\ tuner' = [Idle EXCEPT !.pc = "rebalance"]
    /\ resizes' = resizes + 1
    /\ UNCHANGED <<counters, holds, emptyTicks, mail, conn, pausedConns, req>>

\* The loops with the fewest connections retire; one always stays.
Shrink ==
    /\ tuner.pc = "idle" /\ resizes < MaxResizes
    /\ \E gone \in SUBSET Live :
         /\ gone # {} /\ gone # Live
         /\ \A l \in gone, k \in Live \ gone : Load(l) <= Load(k)
         /\ life' = [l \in Loop |-> IF l \in gone THEN "retiring" ELSE life[l]]
         /\ emptyTicks' = [l \in Loop |-> IF l \in gone THEN 0
                                          ELSE emptyTicks[l]]
         /\ tuner' = [Idle EXCEPT !.pc = "shrink", !.todo = gone]
    /\ resizes' = resizes + 1
    /\ UNCHANGED <<counters, holds, mail, conn, pausedConns, req>>

Planned(l) == IF tuner.todo = {l} THEN Idle
              ELSE [tuner EXCEPT !.todo = @ \ {l}]

PlanShrink(l) ==
    /\ tuner.pc = "shrink" /\ l \in tuner.todo
    /\ \E dests \in PlanMoves(Load(l), Live) : PostMigrations(l, dests)
    /\ tuner' = Planned(l)
    /\ UNCHANGED <<life, connCount, holds, emptyTicks, conn, pausedConns, req,
                   resizes>>

\* A tick.  Ticks are 250 ms apart: a loop runs the mail it has before the
\* second of two ticks that find it empty.
ReapStart ==
    /\ tuner.pc = "idle" /\ Live # {}
    /\ \A l \in Retiring : emptyTicks[l] = 1 => mail[l] = <<>>
    /\ tuner' = [Idle EXCEPT !.pc = "scan", !.todo = Retiring]
    /\ UNCHANGED <<loopVars, conn, pausedConns, req, resizes>>

ReapRead(l) ==
    /\ tuner.pc = "scan" /\ l \in tuner.todo
    /\ tuner' = [tuner EXCEPT !.pc = "load", !.at = l, !.seen = connCount[l]]
    /\ UNCHANGED <<loopVars, conn, pausedConns, req, resizes>>

\* Mutant: the first tick that finds a loop empty ends it.
ReapAtOnce ==
    LET l == tuner.at
        stuck == tuner.seen + pending[l] > 0
    IN
    /\ tuner.pc = "load"
    /\ life' = [life EXCEPT ![l] = IF stuck \/ holds[l] > 0 THEN @
                                   ELSE "reaped"]
    /\ tuner' = [tuner EXCEPT !.pc = "scan", !.at = NoLoop, !.seen = 0,
                     !.todo = @ \ {l},
                     !.stuck = IF stuck THEN @ \cup {l} ELSE @]
    /\ UNCHANGED <<counters, holds, emptyTicks, mail, conn, pausedConns, req,
                   resizes>>

\* Mutant: a loop that owes replies is ended like any other.
ReapHeld ==
    LET l == tuner.at
        stuck == tuner.seen + pending[l] > 0
        second == ~stuck /\ emptyTicks[l] = 1
    IN
    /\ tuner.pc = "load"
    /\ emptyTicks' = [emptyTicks EXCEPT ![l] = IF ~stuck /\ ~second THEN 1
                                               ELSE 0]
    /\ life' = [life EXCEPT ![l] = IF second THEN "reaped" ELSE @]
    /\ tuner' = [tuner EXCEPT !.pc = "scan", !.at = NoLoop, !.seen = 0,
                     !.todo = @ \ {l},
                     !.stuck = IF stuck THEN @ \cup {l} ELSE @]
    /\ UNCHANGED <<counters, holds, mail, conn, pausedConns, req, resizes>>

\* Mutant: a tick that finds a loop empty does not count for the next one.
ReapForgets ==
    LET l == tuner.at
        stuck == tuner.seen + pending[l] > 0
    IN
    /\ tuner.pc = "load"
    /\ tuner' = [tuner EXCEPT !.pc = "scan", !.at = NoLoop, !.seen = 0,
                     !.todo = @ \ {l},
                     !.stuck = IF stuck THEN @ \cup {l} ELSE @]
    /\ UNCHANGED <<loopVars, conn, pausedConns, req, resizes>>

\* A loop that is empty and owes no durable reply at two ticks in a row is
\* stopped and joined; what is left in its mailbox is dropped.
ReapDecide ==
    LET l == tuner.at
        stuck == tuner.seen + pending[l] > 0
        empty == ~stuck /\ holds[l] = 0
        second == empty /\ emptyTicks[l] = 1
    IN
    /\ tuner.pc = "load"
    /\ emptyTicks' = [emptyTicks EXCEPT ![l] = IF empty /\ ~second THEN 1
                                               ELSE 0]
    /\ life' = [life EXCEPT ![l] = IF second THEN "reaped" ELSE @]
    /\ tuner' = [tuner EXCEPT !.pc = "scan", !.at = NoLoop, !.seen = 0,
                     !.todo = @ \ {l},
                     !.stuck = IF stuck THEN @ \cup {l} ELSE @]
    /\ UNCHANGED <<counters, holds, mail, conn, pausedConns, req, resizes>>

\* Nothing is planned while anything is in flight; then the loops that could
\* not be emptied get a new plan, or the pool is levelled.
ReapPlan ==
    LET inFlight == \E l \in Live \cup tuner.stuck : pending[l] > 0 IN
    /\ tuner.pc = "scan" /\ tuner.todo = {}
    /\ tuner' = IF inFlight THEN Idle
                ELSE IF tuner.stuck = {} THEN [Idle EXCEPT !.pc = "rebalance"]
                ELSE [Idle EXCEPT !.pc = "replan", !.todo = tuner.stuck]
    /\ UNCHANGED <<loopVars, conn, pausedConns, req, resizes>>

PlanStuck(l) ==
    /\ tuner.pc = "replan" /\ l \in tuner.todo
    /\ \E dests \in PlanMoves(connCount[l], Live) : PostMigrations(l, dests)
    /\ tuner' = Planned(l)
    /\ UNCHANGED <<life, connCount, holds, emptyTicks, conn, pausedConns, req,
                   resizes>>

\* Server::Stop and ~Server, on the thread that ran the accept loop: the tuner
\* is joined, then every loop is stopped, joined and destroyed.
Stop ==
    /\ tuner.pc = "idle" /\ Live # {}
    /\ \A c \in Conn : conn[c].st # "picked"
    /\ life' = [l \in Loop |-> IF Running(l) THEN "stopped" ELSE life[l]]
    /\ UNCHANGED <<counters, holds, emptyTicks, mail, conn, pausedConns, req,
                   tuner, resizes>>

Stopped == Live = {} /\ UNCHANGED vars

LoopStep(l) == Start(l) \/ FinishAttach(l) \/ RunPlan(l)
ConnStep(c) == MigrateWait(c) \/ Detach(c)
IOStep(c)   == FlushPending(c) \/ WriteSuccess(c)
TunerStep ==
    \/ ReapStart \/ ReapDecide \/ ReapPlan
    \/ \E l \in Loop : PlanShrink(l) \/ ReapRead(l) \/ PlanStuck(l)

Next ==
    \/ \E c \in Conn : PickIOThread(c) \/ PostAccept(c)
    \/ \E l \in Loop : LoopStep(l)
    \/ \E c \in Conn, r \in Req : HandleGet(c, r) \/ HandleSet(c, r)
    \/ \E c \in Conn : ParseAndDispatch(c) \/ DispatchSession(c)
    \/ \E c \in Conn : PauseForQueue(c) \/ ResumeAfterQueue(c) \/ Destroy(c)
    \/ \E c \in Conn : ConnStep(c) \/ IOStep(c)
    \/ \E r \in Req : Complete(r) \/ Respond(r)
    \/ Grow \/ Shrink \/ TunerStep \/ Rebalance
    \/ Stop \/ Stopped

Spec == Init /\ [][Next]_vars

\* The tuner runs (Rebalance waits for nothing, so that it is always enabled
\* when its turn comes), every loop runs its mail and the callbacks of its
\* connections, sockets take what is written to them, and magma answers.
ConnWork(c) == PostAccept(c) \/ ConnStep(c) \/ IOStep(c)
Answers == \E r \in Req : Complete(r) \/ Respond(r)

Fairness ==
    /\ WF_vars(TunerStep) /\ []<>(tuner.pc # "rebalance")
    /\ \A l \in Loop : WF_vars(LoopStep(l))
    /\ \A c \in Conn : WF_vars(ConnWork(c))
    /\ WF_vars(Answers)

FairSpec == Spec /\ Fairness

---------------------------------------------------------------------------
(* Properties.                                                             *)

\* A loop is not reaped while a connection is on it or on its way to it: an
\* accept between its pick and its start, a migration between its plan and its
\* attach (Reap against pickIOThread, start, tryFinishMigrate, finishAttach).
LoopOutlivesConns ==
    \A l \in Loop : life[l] = "reaped" =>
        /\ \A c \in Conn : conn[c].loop # l /\ conn[c].target # l
        /\ \A i \in DOMAIN mail[l] : mail[l][i].op = "plan"

\* The disjoint union of the sets that are the values of f.
Disjoint(f) == UNION {{x} \X f[x] : x \in DOMAIN f}

\* What a message in the mailbox of k reserves on l: an attach that has not
\* run, the entries of a plan that has not run.
Reserves(k, m, l) ==
    IF m.op = "plan" THEN {j \in DOMAIN m.dests : m.dests[j] = l}
    ELSE {x \in {k} : m.op = "attach" /\ k = l}
InMail(l) == Disjoint([k \in Loop |->
                 Disjoint([i \in DOMAIN mail[k] |-> Reserves(k, mail[k][i], l)])])

\* The reservations of l: accepts that have not run, migrations under way, and
\* those the mailboxes hold.
Reservations(l) ==
    Cardinality({c \in Conn : /\ conn[c].st \in {"picked", "posted"}
                              /\ conn[c].loop = l})
    + Cardinality({c \in Conn : conn[c].target = l})
    + Cardinality(InMail(l))

\* The counters of a loop are exact whatever the connections did between a
\* plan and its execution: a reservation that leaked would keep Settled()
\* false and stop every later plan, one given back twice would let a loop be
\* reaped under a connection (Reserve, Unreserve, Add, Remove).
CountsExact ==
    /\ TypeOK
    /\ \A l \in Loop : Running(l) =>
         /\ connCount[l] = Cardinality(OpenOn(l))
         /\ pending[l] = Reservations(l)

\* A request that is held, or whose connection is open, is answered on a loop
\* that has not been reaped (Hold, Release, Reap, Detach).
AnswerBeforeReap ==
    \A r \in Req : req[r].st \in {"engine", "posted"}
                   /\ (req[r].durable \/ conn[req[r].conn].st = "open") =>
        life[req[r].loop] # "reaped"

\* No connection is deaf: one that is not migrating is read from or has its
\* resume timer armed, one that is migrating has something to wait for or its
\* check scheduled, and gPausedConns counts the paused ones (migrateTo,
\* pauseForQueue, resumeAfterQueue, onDrained, writeSuccess, destroy).
NeverDeaf ==
    /\ \A c \in Conn : conn[c].st = "open" =>
         IF Migrating(c)
           THEN conn[c].check \/ ~Quiescent(c)
           ELSE conn[c].reading \/ (conn[c].paused /\ conn[c].timer)
    /\ \A c \in Conn : Migrating(c) => ~conn[c].reading
    /\ pausedConns = Cardinality({c \in Conn : conn[c].paused})

\* A loop that retires is emptied and reaped, also when its plan was made
\* while other migrations were in flight and partly dropped.
RetireCompletes ==
    \A l \in Loop : life[l] = "retiring" ~> life[l] \in {"reaped", "stopped"}
=============================================================================
