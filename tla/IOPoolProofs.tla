---------------------------- MODULE IOPoolProofs ----------------------------
(***************************************************************************)
(* Proofs about IOPool, for any loops, connections, requests and number of *)
(* resizes: the counters of a loop are exact, a loop is not reaped under a *)
(* connection, a request that is held or whose connection is open finds    *)
(* its loop, and no connection is left deaf.                               *)
(*                                                                         *)
(* The invariant is built in three layers.  Shape: what the states of a    *)
(* connection, a request, a message and the tuner go together with.        *)
(* Counted: each counter is the cardinality of the set it counts, which    *)
(* needs Shape.  Ending: what a retiring loop has already lost at each     *)
(* point of the two ticks that end it, which needs both.                   *)
(***************************************************************************)
EXTENDS IOPool, FiniteSetTheorems, SequenceTheorems, TLAPS

---------------------------------------------------------------------------
(* The inductive invariant.                                                *)

TunerState ==
    [pc : {"idle", "scan", "load", "shrink", "replan", "rebalance"},
     todo : SUBSET Loop, at : MaybeLoop, seen : Int, stuck : SUBSET Loop]

\* Types, with the counters integers: that they never fall below zero follows
\* from their being counts.
Typed ==
    /\ life \in [Loop -> {"unborn", "live", "retiring", "reaped", "stopped"}]
    /\ connCount \in [Loop -> Int] /\ pending \in [Loop -> Int]
    /\ holds \in [Loop -> Int] /\ emptyTicks \in [Loop -> 0..1]
    /\ mail \in [Loop -> Seq(Mail)]
    /\ conn \in [Conn -> Connection]
    /\ pausedConns \in Int
    /\ req \in [Req -> Request]
    /\ tuner \in TunerState
    /\ resizes \in 0..MaxResizes

\* A connection that is not open has none of an open one's business.
AtRest(s) ==
    /\ s.target = NoLoop /\ ~s.reading /\ ~s.paused /\ ~s.timer
    /\ ~s.check /\ ~s.unsent /\ ~s.inflight

\* An open connection is read from or waits for its timer, or migrates and is
\* not read from.
Busy(s) ==
    /\ s.paused = s.timer /\ (s.reading => ~s.paused)
    /\ IF s.target = NoLoop THEN ~s.check /\ (s.reading \/ s.paused)
       ELSE ~s.reading

ConnOK(s) ==
    /\ s.st \in {"picked", "posted", "open"} <=> s.loop # NoLoop
    /\ IF s.st = "open" THEN Busy(s) ELSE AtRest(s)

ConnsOK == \A c \in Conn : ConnOK(conn[c])

\* A migrating connection is going to be looked at again.
Watched == \A c \in Conn : Migrating(c) => conn[c].check \/ ~Quiescent(c)

\* A request the engine or the loop still has comes from a connection that is
\* open on the loop that will answer, or closing.
ReqOK ==
    \A r \in Req : req[r].st \in {"engine", "posted"} =>
        /\ req[r].conn \in Conn /\ req[r].loop \in Loop
        /\ \/ conn[req[r].conn].st = "closing"
           \/ /\ conn[req[r].conn].st = "open"
              /\ conn[req[r].conn].loop = req[r].loop

\* A message about a connection finds it where its sender left it, and is the
\* only one about it.
Expects(l, m) ==
    IF m.op = "accept" THEN conn[m.conn].st = "posted" /\ conn[m.conn].loop = l
    ELSE m.op = "attach" => conn[m.conn].st = "detached"

MailOK ==
    \A l \in Loop : \A i \in DOMAIN mail[l] :
        /\ Expects(l, mail[l][i])
        /\ \A k \in Loop : \A j \in DOMAIN mail[k] :
             /\ mail[l][i].op # "plan" /\ mail[k][j].op # "plan"
             /\ mail[l][i].conn = mail[k][j].conn
             => l = k /\ i = j

\* The loops the tuner is working on.
TunerOK ==
    /\ tuner.todo \cup tuner.stuck \subseteq Retiring
    /\ tuner.todo \cap tuner.stuck = {}
    /\ tuner.pc = "load" => tuner.at \in tuner.todo
    /\ tuner.pc = "idle" => tuner = Idle

Shape == Typed /\ ConnsOK /\ ReqOK /\ MailOK /\ TunerOK

\* The durable requests that hold l.
Held(l) == {r \in Req : /\ req[r].st \in {"engine", "posted"}
                        /\ req[r].durable /\ req[r].loop = l}

Counted ==
    /\ \A l \in Loop : connCount[l] = Cardinality(OpenOn(l))
    /\ \A l \in Loop : pending[l] = Reservations(l)
    /\ pausedConns = Cardinality({c \in Conn : conn[c].paused})

HoldsExact ==
    \A l \in Loop : IsFiniteSet(Held(l)) /\ holds[l] = Cardinality(Held(l))

\* A loop that has been found empty once has no reservation left and, from
\* the tick that finds it empty again, no mail and no connection.  One that is
\* gone has nothing.
Ending ==
    /\ \A l \in Retiring : emptyTicks[l] = 1 => pending[l] = 0
    /\ tuner.pc \in {"scan", "load"} =>
         \A l \in tuner.todo : emptyTicks[l] = 1 => mail[l] = <<>>
    /\ tuner.pc = "load" /\ emptyTicks[tuner.at] = 1 /\ tuner.seen = 0 =>
         connCount[tuner.at] = 0
    /\ \A l \in Loop : life[l] = "reaped" =>
         connCount[l] = 0 /\ pending[l] = 0 /\ holds[l] = 0 /\ mail[l] = <<>>

\* What the tuner read of a counter was a count.
SeenCount == tuner.seen \in Nat

IInv == Shape /\ Watched /\ Counted /\ HoldsExact /\ SeenCount /\ Ending

---------------------------------------------------------------------------
(* Shape.                                                                  *)

\* A counter of a loop changes.
LEMMA AddType ==
    ASSUME NEW f \in [Loop -> Int], NEW l \in Loop
    PROVE  /\ Add(f, l, 1) \in [Loop -> Int] /\ Add(f, l, -1) \in [Loop -> Int]
           /\ Add(f, l, 1)[l] = f[l] + 1 /\ Add(f, l, -1)[l] = f[l] - 1
           /\ \A k \in Loop \ {l} : /\ Add(f, l, 1)[k] = f[k]
                                    /\ Add(f, l, -1)[k] = f[k]
<1>1. f[l] \in Int /\ f[l] + 1 \in Int /\ f[l] + (-1) \in Int
      /\ f[l] + (-1) = f[l] - 1
  OBVIOUS
<1>2. Add(f, l, 1) = [f EXCEPT ![l] = f[l] + 1]
      /\ Add(f, l, -1) = [f EXCEPT ![l] = f[l] + (-1)]
  BY DEF Add
<1> QED BY <1>1, <1>2

\* The invariant holds of a server that has just started.
LEMMA InitShape == Init => Shape
<1> SUFFICES ASSUME Init PROVE Shape
  OBVIOUS
<1> USE DEF Init, Idle
<1>1. Typed
  BY Domain DEF Typed, Connection, Request, MaybeLoop, Mail, TunerState
<1>2. ConnsOK
  BY DEF ConnsOK, ConnOK, AtRest
<1>3. ReqOK
  BY DEF ReqOK
<1>4. MailOK
  BY DEF MailOK
<1>5. TunerOK
  BY DEF TunerOK
<1> QED BY <1>1, <1>2, <1>3, <1>4, <1>5 DEF Shape

\* Where every connection is stays the same.
SamePlaces ==
    \A c \in Conn : conn'[c].st = conn[c].st /\ conn'[c].loop = conn[c].loop

\* Requests and messages only ask where a connection is.
LEMMA SamePlacesKeep ==
    ASSUME Shape, SamePlaces
    PROVE  /\ UNCHANGED req => ReqOK'
           /\ UNCHANGED mail => MailOK'
<1>1. ASSUME UNCHANGED req PROVE ReqOK'
  BY <1>1 DEF Shape, SamePlaces, ReqOK
<1>2. ASSUME UNCHANGED mail PROVE MailOK'
  <2>1. ASSUME NEW l \in Loop, NEW i \in DOMAIN mail[l], mail[l][i].op # "plan"
        PROVE  mail[l][i].conn \in Conn
    <3>1. mail[l][i] \in Mail
      BY DEF Shape, Typed
    <3> QED BY <2>1, <3>1 DEF Mail
  <2>2. ASSUME NEW l \in Loop, NEW i \in DOMAIN mail[l]
        PROVE  Expects(l, mail[l][i])'
    BY <1>2, <2>1, <2>2 DEF Shape, MailOK, Expects, SamePlaces
  <2> QED BY <1>2, <2>2 DEF Shape, MailOK
<1> QED BY <1>1, <1>2

\* One connection changes.
Becomes(c, s) == conn' = [conn EXCEPT ![c] = s]

\* The connection that changes has the shape of its new state; the others
\* keep theirs.
LEMMA BecomesKeeps ==
    ASSUME Shape, NEW c \in Conn, NEW s \in Connection, Becomes(c, s), ConnOK(s)
    PROVE  /\ conn' \in [Conn -> Connection] /\ ConnsOK'
           /\ conn'[c] = s /\ \A d \in Conn \ {c} : conn'[d] = conn[d]
           /\ s.st = conn[c].st /\ s.loop = conn[c].loop => SamePlaces
<1>1. conn \in [Conn -> Connection]
  BY DEF Shape, Typed
<1>2. conn'[c] = s /\ \A d \in Conn \ {c} : conn'[d] = conn[d]
  BY <1>1 DEF Becomes
<1>3. conn' \in [Conn -> Connection]
  BY <1>1 DEF Becomes
<1>4. ConnsOK'
  BY <1>2 DEF Shape, ConnsOK
<1> QED BY <1>2, <1>3, <1>4 DEF SamePlaces

\* The fields of a connection.
LEMMA ConnFields ==
    ASSUME Shape, NEW c \in Conn
    PROVE  /\ conn[c] \in Connection /\ ConnOK(conn[c])
           /\ conn[c].loop \in MaybeLoop /\ conn[c].target \in MaybeLoop
           /\ conn[c].reading \in BOOLEAN /\ conn[c].paused \in BOOLEAN
           /\ conn[c].timer \in BOOLEAN /\ conn[c].check \in BOOLEAN
           /\ conn[c].unsent \in BOOLEAN /\ conn[c].inflight \in BOOLEAN
<1>1. conn[c] \in Connection
  BY DEF Shape, Typed
<1> QED BY <1>1 DEF Connection, Shape, ConnsOK

\* What an open connection does without leaving its place or its plan.
InPlace(c, s) ==
    /\ conn[c].st = "open" /\ s \in Connection /\ Becomes(c, s) /\ ConnOK(s)
    /\ s.st = conn[c].st /\ s.loop = conn[c].loop
    /\ s.target = conn[c].target

\* That keeps every shape.
LEMMA InPlaceShape ==
    ASSUME Shape, NEW c \in Conn, NEW s, InPlace(c, s),
           UNCHANGED <<loopVars, req, tuner, resizes>>, pausedConns' \in Int
    PROVE  Shape'
<1>1. conn' \in [Conn -> Connection] /\ ConnsOK' /\ SamePlaces
  BY BecomesKeeps DEF InPlace
<1>2. ReqOK' /\ MailOK'
  BY <1>1, SamePlacesKeep DEF loopVars
<1>3. Typed'
  BY <1>1 DEF Shape, Typed, loopVars, counters
<1>4. TunerOK'
  BY DEF Shape, TunerOK, Retiring, loopVars
<1> QED BY <1>1, <1>2, <1>3, <1>4 DEF Shape

\* The actions that do so.
LEMMA ParseInPlace ==
    ASSUME Shape, NEW c \in Conn, ParseAndDispatch(c)
    PROVE  /\ InPlace(c, [conn[c] EXCEPT !.unsent = TRUE])
           /\ UNCHANGED <<loopVars, req, tuner, resizes>>
           /\ pausedConns' \in Int
<1> DEFINE s == [conn[c] EXCEPT !.unsent = TRUE]
<1>1. conn[c] \in Connection /\ ConnOK(conn[c]) /\ conn[c].st = "open"
  BY ConnFields DEF ParseAndDispatch, OnLoop
<1>2. Becomes(c, s)
  BY DEF ParseAndDispatch, Becomes
<1>3. /\ s \in Connection /\ s.st = conn[c].st /\ s.loop = conn[c].loop
      /\ s.target = conn[c].target
  BY <1>1 DEF Connection, Migrating
<1>4. ConnOK(s)
  BY <1>1 DEF Connection, ConnOK, Busy, Migrating, ParseAndDispatch
<1>5. pausedConns' \in Int
  BY DEF ParseAndDispatch, Shape, Typed
<1>6. UNCHANGED <<loopVars, req, tuner, resizes>>
  BY DEF ParseAndDispatch
<1> QED BY <1>1, <1>2, <1>3, <1>4, <1>5, <1>6 DEF InPlace

\* dispatchSession: the bootstrap handlers write.
LEMMA SessionInPlace ==
    ASSUME Shape, NEW c \in Conn, DispatchSession(c)
    PROVE  /\ InPlace(c, [conn[c] EXCEPT !.inflight = TRUE])
           /\ UNCHANGED <<loopVars, req, tuner, resizes>>
           /\ pausedConns' \in Int
<1> DEFINE s == [conn[c] EXCEPT !.inflight = TRUE]
<1>1. conn[c] \in Connection /\ ConnOK(conn[c]) /\ conn[c].st = "open"
  BY ConnFields DEF DispatchSession, OnLoop
<1>2. Becomes(c, s)
  BY DEF DispatchSession, Becomes
<1>3. /\ s \in Connection /\ s.st = conn[c].st /\ s.loop = conn[c].loop
      /\ s.target = conn[c].target
  BY <1>1 DEF Connection, Migrating
<1>4. ConnOK(s)
  BY <1>1 DEF Connection, ConnOK, Busy, Migrating, DispatchSession
<1>5. pausedConns' \in Int
  BY DEF DispatchSession, Shape, Typed
<1>6. UNCHANGED <<loopVars, req, tuner, resizes>>
  BY DEF DispatchSession
<1> QED BY <1>1, <1>2, <1>3, <1>4, <1>5, <1>6 DEF InPlace

\* pauseForQueue: reading stops and the timer is armed.
LEMMA PauseInPlace ==
    ASSUME Shape, NEW c \in Conn, PauseForQueue(c)
    PROVE  /\ InPlace(c, [conn[c] EXCEPT !.reading = FALSE, !.paused = TRUE, !.timer = TRUE])
           /\ UNCHANGED <<loopVars, req, tuner, resizes>>
           /\ pausedConns' \in Int
<1> DEFINE s == [conn[c] EXCEPT !.reading = FALSE, !.paused = TRUE, !.timer = TRUE]
<1>1. conn[c] \in Connection /\ ConnOK(conn[c]) /\ conn[c].st = "open"
  BY ConnFields DEF PauseForQueue, OnLoop
<1>2. Becomes(c, s)
  BY DEF PauseForQueue, Becomes
<1>3. /\ s \in Connection /\ s.st = conn[c].st /\ s.loop = conn[c].loop
      /\ s.target = conn[c].target
  BY <1>1 DEF Connection, Migrating
<1>4. ConnOK(s)
  BY <1>1 DEF Connection, ConnOK, Busy, Migrating, PauseForQueue
<1>5. pausedConns' \in Int
  BY DEF PauseForQueue, Shape, Typed
<1>6. UNCHANGED <<loopVars, req, tuner, resizes>>
  BY DEF PauseForQueue
<1> QED BY <1>1, <1>2, <1>3, <1>4, <1>5, <1>6 DEF InPlace

\* resumeAfterQueue: the pause ends.
LEMMA ResumeInPlace ==
    ASSUME Shape, NEW c \in Conn, ResumeAfterQueue(c)
    PROVE  /\ InPlace(c, [conn[c] EXCEPT !.timer = FALSE, !.paused = FALSE,
               !.reading = ~Migrating(c)])
           /\ UNCHANGED <<loopVars, req, tuner, resizes>>
           /\ pausedConns' \in Int
<1> DEFINE s == [conn[c] EXCEPT !.timer = FALSE, !.paused = FALSE,
               !.reading = ~Migrating(c)]
<1>1. conn[c] \in Connection /\ ConnOK(conn[c]) /\ conn[c].st = "open"
  BY ConnFields DEF ResumeAfterQueue, OnLoop
<1>2. Becomes(c, s)
  BY DEF ResumeAfterQueue, Becomes
<1>3. /\ s \in Connection /\ s.st = conn[c].st /\ s.loop = conn[c].loop
      /\ s.target = conn[c].target
  BY <1>1 DEF Connection, Migrating
<1>4. ConnOK(s)
  BY <1>1 DEF Connection, ConnOK, Busy, Migrating, ResumeAfterQueue
<1>5. pausedConns' \in Int
  BY DEF ResumeAfterQueue, Shape, Typed
<1>6. UNCHANGED <<loopVars, req, tuner, resizes>>
  BY DEF ResumeAfterQueue
<1> QED BY <1>1, <1>2, <1>3, <1>4, <1>5, <1>6 DEF InPlace

\* flushPending: what is unsent goes to the socket.
LEMMA FlushInPlace ==
    ASSUME Shape, NEW c \in Conn, FlushPending(c)
    PROVE  /\ InPlace(c, [conn[c] EXCEPT !.unsent = FALSE, !.inflight = TRUE])
           /\ UNCHANGED <<loopVars, req, tuner, resizes>>
           /\ pausedConns' \in Int
<1> DEFINE s == [conn[c] EXCEPT !.unsent = FALSE, !.inflight = TRUE]
<1>1. conn[c] \in Connection /\ ConnOK(conn[c]) /\ conn[c].st = "open"
  BY ConnFields DEF FlushPending, OnLoop
<1>2. Becomes(c, s)
  BY DEF FlushPending, Becomes
<1>3. /\ s \in Connection /\ s.st = conn[c].st /\ s.loop = conn[c].loop
      /\ s.target = conn[c].target
  BY <1>1 DEF Connection, Migrating
<1>4. ConnOK(s)
  BY <1>1 DEF Connection, ConnOK, Busy, Migrating, FlushPending
<1>5. pausedConns' \in Int
  BY DEF FlushPending, Shape, Typed
<1>6. UNCHANGED <<loopVars, req, tuner, resizes>>
  BY DEF FlushPending
<1> QED BY <1>1, <1>2, <1>3, <1>4, <1>5, <1>6 DEF InPlace

\* writeSuccess: the socket has taken it.
LEMMA WrittenInPlace ==
    ASSUME Shape, NEW c \in Conn, WriteSuccess(c)
    PROVE  /\ InPlace(c, [conn[c] EXCEPT !.inflight = FALSE, !.check = Migrating(c)])
           /\ UNCHANGED <<loopVars, req, tuner, resizes>>
           /\ pausedConns' \in Int
<1> DEFINE s == [conn[c] EXCEPT !.inflight = FALSE, !.check = Migrating(c)]
<1>1. conn[c] \in Connection /\ ConnOK(conn[c]) /\ conn[c].st = "open"
  BY ConnFields DEF WriteSuccess, OnLoop
<1>2. Becomes(c, s)
  BY DEF WriteSuccess, Becomes
<1>3. /\ s \in Connection /\ s.st = conn[c].st /\ s.loop = conn[c].loop
      /\ s.target = conn[c].target
  BY <1>1 DEF Connection, Migrating
<1>4. ConnOK(s)
  BY <1>1 DEF Connection, ConnOK, Busy, Migrating, WriteSuccess
<1>5. pausedConns' \in Int
  BY DEF WriteSuccess, Shape, Typed
<1>6. UNCHANGED <<loopVars, req, tuner, resizes>>
  BY DEF WriteSuccess
<1> QED BY <1>1, <1>2, <1>3, <1>4, <1>5, <1>6 DEF InPlace

\* tryFinishMigrate before the connection is quiescent.
LEMMA WaitInPlace ==
    ASSUME Shape, NEW c \in Conn, MigrateWait(c)
    PROVE  /\ \E s \in Connection :
                /\ InPlace(c, s) /\ s.paused = conn[c].paused
                /\ s.unsent \/ s.inflight \/ Outstanding(c) # {}
           /\ UNCHANGED <<loopVars, req, tuner, resizes, pausedConns>>
<1> DEFINE flush == Outstanding(c) = {} /\ conn[c].unsent
           s == [conn[c] EXCEPT !.check = FALSE, !.unsent = @ /\ ~flush,
                                !.inflight = @ \/ flush]
<1>1. /\ conn[c] \in Connection /\ ConnOK(conn[c]) /\ conn[c].st = "open"
      /\ ~Quiescent(c) /\ conn[c].check
  BY ConnFields DEF MigrateWait, OnLoop
<1>2. Becomes(c, s)
  BY DEF MigrateWait, Becomes
<1>3. flush \in BOOLEAN /\ conn[c].unsent \in BOOLEAN /\ conn[c].inflight \in BOOLEAN
  BY ConnFields
<1>4. s.unsent \/ s.inflight \/ Outstanding(c) # {}
  BY <1>1, <1>3 DEF Quiescent, Connection
<1> HIDE DEF flush
<1>5. /\ s \in Connection /\ s.st = conn[c].st /\ s.loop = conn[c].loop
      /\ s.target = conn[c].target /\ s.paused = conn[c].paused
  BY <1>1, <1>3 DEF Connection
<1>6. ConnOK(s)
  BY <1>1, <1>3 DEF Connection, ConnOK, Busy
<1>7. UNCHANGED <<loopVars, req, tuner, resizes, pausedConns>>
  BY DEF MigrateWait
<1>8. InPlace(c, s)
  BY <1>1, <1>2, <1>5, <1>6 DEF InPlace
<1> HIDE DEF s
<1> QED BY <1>4, <1>5, <1>7, <1>8

\* Types of what the tuner and the loops change, when connections, requests
\* and mail stay as they are.
LEMMA AsideShape ==
    ASSUME Shape, UNCHANGED <<mail, conn, req>>, Typed', TunerOK'
    PROVE  Shape'
<1>1. SamePlaces
  BY DEF SamePlaces
<1>2. ReqOK' /\ MailOK'
  BY <1>1, SamePlacesKeep
<1>3. ConnsOK'
  BY DEF Shape, ConnsOK
<1> QED BY <1>2, <1>3 DEF Shape

\* pickIOThread keeps the shapes.
LEMMA PickShape ==
    ASSUME Shape, NEW c \in Conn, PickIOThread(c) PROVE Shape'
<1>1. PICK l \in Live :
        /\ pending' = Add(pending, l, 1)
        /\ conn' = [conn EXCEPT ![c].st = "picked", ![c].loop = l]
  BY DEF PickIOThread
<1>2. l \in Loop /\ l # NoLoop
  BY Domain DEF Live
<1> DEFINE s == [conn[c] EXCEPT !.st = "picked", !.loop = l]
<1>3. conn[c] \in Connection /\ ConnOK(conn[c]) /\ conn[c].st = "new"
  BY ConnFields DEF PickIOThread
<1>4. Becomes(c, s)
  BY <1>1 DEF Becomes
<1>5. s \in Connection /\ ConnOK(s)
  BY <1>2, <1>3 DEF Connection, ConnOK, AtRest, MaybeLoop
<1> HIDE DEF s
<1>6. /\ conn' \in [Conn -> Connection] /\ ConnsOK'
      /\ \A d \in Conn \ {c} : conn'[d] = conn[d]
  BY <1>4, <1>5, BecomesKeeps
<1>7. /\ \A r \in Req : req[r].st \in {"engine", "posted"} => req[r].conn # c
      /\ UNCHANGED <<life, connCount, holds, emptyTicks, mail, pausedConns,
                     req, tuner, resizes>>
  BY <1>3 DEF Shape, ReqOK, PickIOThread
<1>8. ReqOK'
  BY <1>6, <1>7 DEF Shape, ReqOK
<1>9. MailOK'
  <2>1. ASSUME NEW k \in Loop, NEW i \in DOMAIN mail[k]
        PROVE  Expects(k, mail[k][i])'
    <3>1. mail[k][i] \in Mail /\ Expects(k, mail[k][i])
      BY DEF Shape, Typed, MailOK
    <3> QED BY <1>3, <1>6, <1>7, <3>1 DEF Expects, Mail
  <2> QED BY <1>7, <2>1 DEF Shape, MailOK
<1>10. Typed'
  BY <1>1, <1>2, <1>6, <1>7 DEF Shape, Typed, Add
<1>11. TunerOK'
  BY <1>7 DEF Shape, TunerOK, Retiring
<1> QED BY <1>6, <1>8, <1>9, <1>10, <1>11 DEF Shape

\* A connection in any other state is in no mailbox.
LEMMA NotInMail ==
    ASSUME Shape, NEW c \in Conn, conn[c].st \notin {"posted", "detached"}
    PROVE  \A l \in Loop : \A i \in DOMAIN mail[l] :
             mail[l][i].op # "plan" => mail[l][i].conn # c
<1> SUFFICES ASSUME NEW l \in Loop, NEW i \in DOMAIN mail[l],
                    mail[l][i].op # "plan", mail[l][i].conn = c
             PROVE  FALSE
  OBVIOUS
<1>1. mail[l][i] \in Mail /\ Expects(l, mail[l][i])
  BY DEF Shape, Typed, MailOK
<1> QED BY <1>1 DEF Mail, Expects

\* Messages about connections that stay where they are are still right.
LEMMA StillExpected ==
    ASSUME Shape, NEW c,
           \A d \in Conn \ {c} : /\ conn'[d].st = conn[d].st
                                 /\ conn'[d].loop = conn[d].loop,
           NEW l, NEW m \in Mail, m.op # "plan" => m.conn # c, Expects(l, m)
    PROVE  Expects(l, m)'
BY DEF Mail, Expects

\* A message is posted.
LEMMA PostedMail ==
    ASSUME Shape, NEW l \in Loop, NEW m \in Mail, Post(l, m)
    PROVE  /\ mail' \in [Loop -> Seq(Mail)]
           /\ DOMAIN mail'[l] = 1 .. Len(mail[l]) + 1
           /\ DOMAIN mail[l] = 1 .. Len(mail[l]) /\ Len(mail[l]) \in Nat
           /\ mail'[l] = Append(mail[l], m)
           /\ mail'[l][Len(mail[l]) + 1] = m
           /\ \A i \in DOMAIN mail[l] : mail'[l][i] = mail[l][i]
           /\ \A k \in Loop \ {l} : mail'[k] = mail[k]
<1>1. mail \in [Loop -> Seq(Mail)] /\ mail[l] \in Seq(Mail)
  BY DEF Shape, Typed
<1>2. mail'[l] = Append(mail[l], m) /\ \A k \in Loop \ {l} : mail'[k] = mail[k]
  BY <1>1 DEF Post
<1>3. Append(mail[l], m) \in Seq(Mail)
  BY <1>1, AppendProperties
<1>4. mail' \in [Loop -> Seq(Mail)]
  BY <1>1, <1>3 DEF Post
<1> QED BY <1>1, <1>2, <1>4, AppendProperties, LenProperties

\* One message more: it is right, the others are still right, and it is the
\* only one about its connection.
LEMMA PostMailOK ==
    ASSUME Shape, NEW l \in Loop, NEW m \in Mail, Post(l, m), Expects(l, m)',
           \A k \in Loop, n \in Mail :
             (\E i \in DOMAIN mail[k] : n = mail[k][i]) => Expects(k, n)',
           m.op # "plan" =>
             \A k \in Loop : \A i \in DOMAIN mail[k] :
               mail[k][i].op # "plan" => mail[k][i].conn # m.conn
    PROVE  mail' \in [Loop -> Seq(Mail)] /\ MailOK'
<1> DEFINE e == Len(mail[l]) + 1
<1>1. /\ mail' \in [Loop -> Seq(Mail)]
      /\ DOMAIN mail'[l] = 1 .. e /\ e \in Nat
      /\ DOMAIN mail[l] = 1 .. e - 1
      /\ mail'[l][e] = m
      /\ \A i \in DOMAIN mail[l] : mail'[l][i] = mail[l][i]
      /\ \A k \in Loop \ {l} : mail'[k] = mail[k]
  BY PostedMail
<1> HIDE DEF e
<1>2. ASSUME NEW k \in Loop, NEW i \in DOMAIN mail'[k]
      PROVE  \/ k = l /\ i = e /\ mail'[k][i] = m
             \/ i \in DOMAIN mail[k] /\ mail'[k][i] = mail[k][i]
  BY <1>1
<1>3. ASSUME NEW k \in Loop, NEW i \in DOMAIN mail[k] PROVE mail[k][i] \in Mail
  BY DEF Shape, Typed
<1>4. ASSUME NEW k \in Loop, NEW i \in DOMAIN mail'[k]
      PROVE  Expects(k, mail[k][i])'
  <2>1. PICK n \in Mail : n = mail'[k][i] /\ Expects(k, n)'
    BY <1>2, <1>3
  <2> QED BY <2>1 DEF Expects
<1>5. ASSUME NEW k \in Loop, NEW i \in DOMAIN mail'[k],
             NEW h \in Loop, NEW j \in DOMAIN mail'[h],
             mail'[k][i].op # "plan", mail'[h][j].op # "plan",
             mail'[k][i].conn = mail'[h][j].conn
      PROVE  k = h /\ i = j
  BY <1>2, <1>5 DEF Shape, MailOK
<1> QED BY <1>1, <1>4, <1>5 DEF MailOK

\* The oldest message is taken.
LEMMA TakenMail ==
    ASSUME Shape, NEW l \in Loop, NEW op, TakeMail(l, op)
    PROVE  /\ mail' \in [Loop -> Seq(Mail)]
           /\ mail[l] \in Seq(Mail) /\ mail[l] # <<>> /\ 1 \in DOMAIN mail[l]
           /\ Head(mail[l]) = mail[l][1] /\ mail[l][1] \in Mail
           /\ mail[l][1].op = op
           /\ mail'[l] = Tail(mail[l])
           /\ \A i \in DOMAIN mail'[l] : /\ i \in Nat /\ i + 1 \in DOMAIN mail[l]
                                         /\ i + 1 # 1
                                         /\ mail'[l][i] = mail[l][i + 1]
           /\ \A k \in Loop \ {l} : mail'[k] = mail[k]
<1>1. /\ mail \in [Loop -> Seq(Mail)] /\ mail[l] \in Seq(Mail)
      /\ mail[l] # <<>> /\ Head(mail[l]).op = op
  BY DEF Shape, Typed, TakeMail
<1>2. mail'[l] = Tail(mail[l]) /\ \A k \in Loop \ {l} : mail'[k] = mail[k]
  BY <1>1 DEF TakeMail
<1>3. /\ Len(mail[l]) \in Nat /\ Len(mail[l]) > 0
      /\ DOMAIN mail[l] = 1..Len(mail[l]) /\ Head(mail[l]) = mail[l][1]
  BY <1>1, EmptySeq, LenProperties, HeadTailProperties
<1>4. /\ Tail(mail[l]) \in Seq(Mail)
      /\ DOMAIN Tail(mail[l]) = 1..(Len(mail[l]) - 1)
      /\ \A i \in 1..(Len(mail[l]) - 1) : Tail(mail[l])[i] = mail[l][i + 1]
  BY <1>1, <1>3, HeadTailProperties, LenProperties
<1>5. mail' \in [Loop -> Seq(Mail)]
  BY <1>1, <1>4 DEF TakeMail
<1>6. mail[l][1] \in Mail /\ 1 \in DOMAIN mail[l]
  BY <1>1, <1>3
<1>7. \A i \in 1..(Len(mail[l]) - 1) : i \in Nat /\ i + 1 \in 1..Len(mail[l]) /\ i + 1 # 1
  BY <1>3
<1> QED BY <1>1, <1>2, <1>3, <1>4, <1>5, <1>6, <1>7

\* One message less: the others are still right.
LEMMA TakeMailOK ==
    ASSUME Shape, NEW l \in Loop, NEW op, TakeMail(l, op),
           \A k \in Loop, n \in Mail :
             (\E i \in DOMAIN mail[k] : n = mail[k][i] /\ (k # l \/ i # 1))
               => Expects(k, n)'
    PROVE  MailOK'
<1> DEFINE at(k, i) == IF k = l THEN i + 1 ELSE i
<1>1. ASSUME NEW k \in Loop, NEW i \in DOMAIN mail'[k]
      PROVE  /\ at(k, i) \in DOMAIN mail[k] /\ (k # l \/ at(k, i) # 1)
             /\ mail'[k][i] = mail[k][at(k, i)]
  BY TakenMail
<1>2. ASSUME NEW k \in Loop, NEW i \in DOMAIN mail[k] PROVE mail[k][i] \in Mail
  BY DEF Shape, Typed
<1>3. ASSUME NEW k \in Loop, NEW i \in DOMAIN mail'[k]
      PROVE  Expects(k, mail[k][i])'
  <2>1. PICK n \in Mail : n = mail'[k][i] /\ Expects(k, n)'
    BY <1>1, <1>2
  <2> QED BY <2>1 DEF Expects
<1>4. ASSUME NEW k \in Loop, NEW i \in DOMAIN mail'[k], NEW j \in DOMAIN mail'[k],
             at(k, i) = at(k, j)
      PROVE  i = j
  BY <1>4, TakenMail
<1>5. ASSUME NEW k \in Loop, NEW i \in DOMAIN mail'[k],
             NEW h \in Loop, NEW j \in DOMAIN mail'[h],
             mail'[k][i].op # "plan", mail'[h][j].op # "plan",
             mail'[k][i].conn = mail'[h][j].conn
      PROVE  k = h /\ i = j
  <2> HIDE DEF at
  <2>1. k = h /\ at(k, i) = at(h, j)
    BY <1>1, <1>5 DEF Shape, MailOK
  <2> QED BY <1>4, <2>1
<1> QED BY <1>3, <1>5 DEF MailOK

\* So does the post of an accepted connection.
LEMMA PostAcceptShape ==
    ASSUME Shape, NEW c \in Conn, PostAccept(c) PROVE Shape'
<1> DEFINE s == [conn[c] EXCEPT !.st = "posted"]
           m == [op |-> "accept", conn |-> c]
           l == conn[c].loop
<1>1. conn[c] \in Connection /\ ConnOK(conn[c]) /\ conn[c].st = "picked"
  BY ConnFields DEF PostAccept
<1>2. l \in Loop
  BY <1>1 DEF Connection, ConnOK, MaybeLoop
<1>3. Becomes(c, s) /\ Post(l, m) /\ m \in Mail
  BY DEF PostAccept, Becomes, Mail
<1>4. s \in Connection /\ ConnOK(s) /\ s.st = "posted" /\ s.loop = l
  BY <1>1 DEF Connection, ConnOK, AtRest
<1> HIDE DEF s
<1>5. /\ conn' \in [Conn -> Connection] /\ ConnsOK' /\ conn'[c] = s
      /\ \A d \in Conn \ {c} : conn'[d] = conn[d]
  BY <1>3, <1>4, BecomesKeeps
<1>6. /\ \A r \in Req : req[r].st \in {"engine", "posted"} => req[r].conn # c
      /\ UNCHANGED <<life, connCount, pending, holds, emptyTicks, pausedConns,
                     req, tuner, resizes>>
  BY <1>1 DEF Shape, ReqOK, PostAccept, counters
<1>7. ReqOK'
  BY <1>5, <1>6 DEF Shape, ReqOK
<1>8. \A k \in Loop : \A i \in DOMAIN mail[k] :
        mail[k][i].op # "plan" => mail[k][i].conn # c
  BY <1>1, NotInMail
<1>9. ASSUME NEW k \in Loop, NEW n \in Mail, NEW i \in DOMAIN mail[k],
             n = mail[k][i]
      PROVE  Expects(k, n)'
  <2>1. Expects(k, n)
    BY <1>9 DEF Shape, MailOK
  <2> QED BY <1>5, <1>8, <1>9, <2>1, StillExpected
<1>10. Expects(l, m)'
  <2>1. conn'[c].st = "posted" /\ conn'[c].loop = l
    BY <1>4, <1>5
  <2>2. PICK k : k = l
    OBVIOUS
  <2>3. Expects(k, [op |-> "accept", conn |-> c])'
    BY <2>1, <2>2 DEF Expects
  <2> QED BY <1>4, <1>5, <2>1 DEF Expects
<1>11. mail' \in [Loop -> Seq(Mail)] /\ MailOK'
  <2>1. PICK k \in Loop : k = l
    BY <1>2
  <2>2. Expects(k, m)'
    BY <1>4, <1>5, <2>1 DEF Expects
  <2> QED BY <1>3, <1>8, <1>9, <2>1, <2>2, PostMailOK
<1>12. Typed'
  BY <1>5, <1>6, <1>11 DEF Shape, Typed
<1>13. TunerOK'
  BY <1>6 DEF Shape, TunerOK, Retiring
<1> QED BY <1>5, <1>7, <1>11, <1>12, <1>13 DEF Shape

\* What starts or attaches is in its place on the loop afterwards.
LEMMA ArriveConn ==
    ASSUME Shape, NEW l \in Loop, NEW op \in {"accept", "attach"}, Arrive(l, op)
    PROVE  \E c \in Conn :
             /\ mail[l][1].conn = c /\ mail[l][1].op = op /\ 1 \in DOMAIN mail[l]
             /\ conn[c].st = (IF op = "accept" THEN "posted" ELSE "detached")
             /\ op = "accept" => conn[c].loop = l
             /\ AtRest(conn[c])
             /\ Becomes(c, [conn[c] EXCEPT !.st = "open", !.loop = l,
                                           !.reading = TRUE])
<1> DEFINE c == Head(mail[l]).conn
<1>1. TakeMail(l, op)
  BY DEF Arrive
<1>2. /\ 1 \in DOMAIN mail[l] /\ Head(mail[l]) = mail[l][1]
      /\ mail[l][1] \in Mail /\ mail[l][1].op = op
  BY <1>1, TakenMail
<1>3. c \in Conn /\ c = mail[l][1].conn
  BY <1>2 DEF Mail
<1>4. Expects(l, mail[l][1])
  BY <1>2 DEF Shape, MailOK
<1>5. /\ conn[c].st = (IF op = "accept" THEN "posted" ELSE "detached")
      /\ op = "accept" => conn[c].loop = l
  BY <1>2, <1>3, <1>4 DEF Expects
<1>6. AtRest(conn[c])
  BY <1>3, <1>5, ConnFields DEF ConnOK
<1>7. Becomes(c, [conn[c] EXCEPT !.st = "open", !.loop = l, !.reading = TRUE])
  BY DEF Arrive, Becomes
<1> QED BY <1>2, <1>3, <1>5, <1>6, <1>7

\* An arrival keeps the shapes.
LEMMA ArriveShape ==
    ASSUME Shape, NEW l \in Loop, NEW op \in {"accept", "attach"}, Arrive(l, op)
    PROVE  Shape'
<1>1. PICK c \in Conn :
        /\ mail[l][1].conn = c /\ mail[l][1].op = op /\ 1 \in DOMAIN mail[l]
        /\ conn[c].st = (IF op = "accept" THEN "posted" ELSE "detached")
        /\ AtRest(conn[c])
        /\ Becomes(c, [conn[c] EXCEPT !.st = "open", !.loop = l,
                                      !.reading = TRUE])
  BY ArriveConn
<1> DEFINE s == [conn[c] EXCEPT !.st = "open", !.loop = l, !.reading = TRUE]
<1>2. conn[c] \in Connection
  BY ConnFields
<1>3. s \in Connection /\ ConnOK(s)
  BY <1>1, <1>2, Domain DEF Connection, ConnOK, AtRest, Busy, MaybeLoop
<1>4. /\ conn' \in [Conn -> Connection] /\ ConnsOK'
      /\ \A d \in Conn \ {c} : conn'[d] = conn[d]
  BY <1>1, <1>3, BecomesKeeps
<1>5. TakeMail(l, op)
  BY DEF Arrive
<1>6. /\ \A r \in Req : req[r].st \in {"engine", "posted"} => req[r].conn # c
      /\ connCount' = Add(connCount, l, 1) /\ pending' = Add(pending, l, -1)
      /\ UNCHANGED <<life, holds, emptyTicks, pausedConns, req, tuner, resizes>>
  BY <1>1 DEF Shape, ReqOK, Arrive
<1>7. ReqOK'
  BY <1>4, <1>6 DEF Shape, ReqOK
<1>8. ASSUME NEW k \in Loop, NEW n \in Mail, NEW i \in DOMAIN mail[k],
             n = mail[k][i], k # l \/ i # 1
      PROVE  Expects(k, n)'
  <2>1. Expects(k, n)
    BY <1>8 DEF Shape, MailOK
  <2>2. n.op # "plan" => n.conn # c
    BY <1>1, <1>8 DEF Shape, MailOK
  <2> QED BY <1>4, <2>1, <2>2, StillExpected
<1>9. MailOK'
  BY <1>5, <1>8, TakeMailOK
<1>10. mail' \in [Loop -> Seq(Mail)]
  BY <1>5, TakenMail
<1>11. Typed'
  <2>1. connCount \in [Loop -> Int] /\ pending \in [Loop -> Int]
    BY DEF Shape, Typed
  <2>2. connCount' \in [Loop -> Int] /\ pending' \in [Loop -> Int]
    BY <1>6, <2>1, AddType
  <2> QED BY <1>4, <1>6, <1>10, <2>2 DEF Shape, Typed
<1>12. TunerOK'
  BY <1>6 DEF Shape, TunerOK, Retiring
<1> QED BY <1>4, <1>7, <1>9, <1>11, <1>12 DEF Shape

\* A migration leaves the loop.
LEMMA DetachConn ==
    ASSUME Shape, NEW c \in Conn, Detach(c)
    PROVE  \E l \in Loop, t \in Loop, s \in Connection :
             /\ conn[c].st = "open" /\ conn[c].loop = l /\ conn[c].target = t
             /\ Becomes(c, s) /\ ConnOK(s)
             /\ s.st = "detached" /\ s.loop = NoLoop /\ s.target = NoLoop
             /\ ~s.paused
             /\ Outstanding(c) = {}
             /\ connCount' = Add(connCount, l, -1)
             /\ Post(t, [op |-> "attach", conn |-> c])
<1> DEFINE s == [conn[c] EXCEPT !.st = "detached", !.loop = NoLoop,
                                !.target = NoLoop, !.check = FALSE,
                                !.paused = FALSE, !.timer = FALSE]
           l == conn[c].loop
           t == conn[c].target
<1>1. /\ conn[c] \in Connection /\ ConnOK(conn[c]) /\ conn[c].st = "open"
      /\ conn[c].check /\ Quiescent(c)
  BY ConnFields DEF Detach, OnLoop
<1>2. l \in Loop /\ t \in Loop /\ ~conn[c].reading
  BY <1>1 DEF Connection, ConnOK, Busy, MaybeLoop
<1>3. Becomes(c, s)
  BY DEF Detach, Becomes
<1>4. /\ s \in Connection /\ s.st = "detached" /\ s.loop = NoLoop
      /\ s.target = NoLoop /\ ~s.paused
  BY <1>1 DEF Connection, MaybeLoop
<1>5. ConnOK(s)
  BY <1>1, <1>2 DEF Connection, ConnOK, AtRest, Quiescent
<1>6. Outstanding(c) = {}
  BY <1>1 DEF Quiescent
<1>7. connCount' = Add(connCount, l, -1) /\ Post(t, [op |-> "attach", conn |-> c])
  BY DEF Detach
<1> HIDE DEF s, l, t
<1>8. conn[c].st = "open" /\ conn[c].loop = l /\ conn[c].target = t
  BY <1>1 DEF l, t
<1> QED BY <1>2, <1>3, <1>4, <1>5, <1>6, <1>7, <1>8

\* A detach keeps the shapes.
LEMMA DetachShape ==
    ASSUME Shape, NEW c \in Conn, Detach(c) PROVE Shape'
<1>1. PICK l \in Loop, t \in Loop, s \in Connection :
        /\ conn[c].st = "open"
        /\ Becomes(c, s) /\ ConnOK(s) /\ s.st = "detached"
        /\ Outstanding(c) = {}
        /\ connCount' = Add(connCount, l, -1)
        /\ Post(t, [op |-> "attach", conn |-> c])
  BY DetachConn
<1>2. /\ conn' \in [Conn -> Connection] /\ ConnsOK' /\ conn'[c] = s
      /\ \A d \in Conn \ {c} : conn'[d] = conn[d]
  BY <1>1, BecomesKeeps
<1>3. /\ \A r \in Req : req[r].st \in {"engine", "posted"} => req[r].conn # c
      /\ UNCHANGED <<life, pending, holds, emptyTicks, req, tuner, resizes>>
  BY <1>1 DEF Outstanding, Detach
<1>4. ReqOK'
  BY <1>2, <1>3 DEF Shape, ReqOK
<1> DEFINE m == [op |-> "attach", conn |-> c]
<1>5. m \in Mail /\ m.conn = c /\ m.op = "attach"
  BY DEF Mail
<1>6. \A k \in Loop : \A i \in DOMAIN mail[k] :
        mail[k][i].op # "plan" => mail[k][i].conn # c
  BY <1>1, NotInMail
<1>7. ASSUME NEW k \in Loop, NEW n \in Mail, NEW i \in DOMAIN mail[k],
             n = mail[k][i]
      PROVE  Expects(k, n)'
  <2>1. Expects(k, n)
    BY <1>7 DEF Shape, MailOK
  <2> QED BY <1>2, <1>6, <1>7, <2>1, StillExpected
<1>8. Expects(t, m)'
  BY <1>1, <1>2, <1>5 DEF Expects
<1>9. mail' \in [Loop -> Seq(Mail)] /\ MailOK'
  BY <1>1, <1>5, <1>6, <1>7, <1>8, PostMailOK
<1>10. connCount' \in [Loop -> Int] /\ pausedConns' \in Int
  <2>1. connCount' \in [Loop -> Int]
    BY <1>1, AddType DEF Shape, Typed
  <2>2. pausedConns' \in Int
    BY DEF Shape, Typed, Detach
  <2> QED BY <2>1, <2>2
<1>11. Typed'
  BY <1>2, <1>3, <1>9, <1>10 DEF Shape, Typed
<1>12. TunerOK'
  BY <1>3 DEF Shape, TunerOK, Retiring
<1> QED BY <1>2, <1>4, <1>9, <1>11, <1>12 DEF Shape

\* A connection closes.
LEMMA DestroyConn ==
    ASSUME Shape, NEW c \in Conn, Destroy(c)
    PROVE  \E l \in Loop, s \in Connection :
             /\ conn[c].st = "open" /\ conn[c].loop = l
             /\ Becomes(c, s) /\ ConnOK(s)
             /\ s.st = (IF Outstanding(c) = {} THEN "gone" ELSE "closing")
             /\ s.loop = NoLoop /\ s.target = NoLoop /\ ~s.paused
             /\ connCount' = Add(connCount, l, -1)
             /\ IF conn[c].target = NoLoop THEN UNCHANGED pending
                ELSE pending' = Add(pending, conn[c].target, -1)
             /\ conn[c].target \in MaybeLoop
<1> DEFINE s == [conn[c] EXCEPT
                   !.st = IF Outstanding(c) = {} THEN "gone" ELSE "closing",
                   !.loop = NoLoop, !.target = NoLoop, !.reading = FALSE,
                   !.paused = FALSE, !.timer = FALSE, !.check = FALSE,
                   !.unsent = FALSE, !.inflight = FALSE]
           l == conn[c].loop
<1>1. conn[c] \in Connection /\ ConnOK(conn[c]) /\ conn[c].st = "open"
  BY ConnFields DEF Destroy, OnLoop
<1>2. l \in Loop
  BY <1>1 DEF Connection, ConnOK, MaybeLoop
<1>3. Becomes(c, s)
  BY DEF Destroy, Becomes
<1>4. /\ s \in Connection /\ s.loop = NoLoop /\ s.target = NoLoop /\ ~s.paused
      /\ s.st = (IF Outstanding(c) = {} THEN "gone" ELSE "closing")
  BY <1>1 DEF Connection, MaybeLoop
<1>5. ConnOK(s)
  BY <1>1 DEF Connection, ConnOK, AtRest
<1>6. /\ connCount' = Add(connCount, l, -1)
      /\ IF conn[c].target = NoLoop THEN UNCHANGED pending
         ELSE pending' = Add(pending, conn[c].target, -1)
      /\ conn[c].target \in MaybeLoop
  BY ConnFields DEF Destroy, Migrating
<1> HIDE DEF s, l
<1>7. conn[c].loop = l
  BY DEF l
<1> QED BY <1>1, <1>2, <1>3, <1>4, <1>5, <1>6, <1>7

\* A close keeps the shapes.
LEMMA DestroyShape ==
    ASSUME Shape, NEW c \in Conn, Destroy(c) PROVE Shape'
<1>1. PICK l \in Loop, s \in Connection :
        /\ conn[c].st = "open" /\ conn[c].loop = l
        /\ Becomes(c, s) /\ ConnOK(s)
        /\ s.st = (IF Outstanding(c) = {} THEN "gone" ELSE "closing")
        /\ s.loop = NoLoop /\ s.target = NoLoop /\ ~s.paused
        /\ connCount' = Add(connCount, l, -1)
        /\ IF conn[c].target = NoLoop THEN UNCHANGED pending
           ELSE pending' = Add(pending, conn[c].target, -1)
        /\ conn[c].target \in MaybeLoop
  BY DestroyConn
<1>2. /\ conn' \in [Conn -> Connection] /\ ConnsOK' /\ conn'[c] = s
      /\ \A d \in Conn \ {c} : conn'[d] = conn[d]
  BY <1>1, BecomesKeeps
<1>3. UNCHANGED <<life, holds, emptyTicks, mail, req, tuner, resizes>>
  BY DEF Destroy
<1>4. ReqOK'
  <2>1. ASSUME NEW r \in Req, req[r].st \in {"engine", "posted"}, req[r].conn = c
        PROVE  s.st = "closing"
    <3>1. r \in Outstanding(c)
      BY <2>1 DEF Outstanding
    <3> QED BY <1>1, <3>1
  <2> QED BY <1>2, <1>3, <2>1 DEF Shape, ReqOK
<1>5. MailOK'
  <2>1. \A k \in Loop : \A i \in DOMAIN mail[k] :
          mail[k][i].op # "plan" => mail[k][i].conn # c
    BY <1>1, NotInMail
  <2>2. ASSUME NEW k \in Loop, NEW i \in DOMAIN mail[k]
        PROVE  Expects(k, mail[k][i])'
    <3>1. PICK m \in Mail : m = mail[k][i]
      BY DEF Shape, Typed
    <3>2. Expects(k, m)
      BY <3>1 DEF Shape, MailOK
    <3>3. Expects(k, m)'
      BY <1>2, <2>1, <3>1, <3>2, StillExpected
    <3> QED BY <1>3, <3>1, <3>3 DEF Expects
  <2> QED BY <1>3, <2>2 DEF Shape, MailOK
<1>6. pending' \in [Loop -> Int]
  <2>1. pending \in [Loop -> Int]
    BY DEF Shape, Typed
  <2>2. CASE conn[c].target = NoLoop
    BY <1>1, <2>1, <2>2
  <2>3. CASE conn[c].target # NoLoop
    <3>1. conn[c].target \in Loop /\ pending' = Add(pending, conn[c].target, -1)
      BY <1>1, <2>3 DEF MaybeLoop
    <3> QED BY <2>1, <3>1, AddType
  <2> QED BY <2>2, <2>3
<1>7. connCount' \in [Loop -> Int] /\ pausedConns' \in Int
  <2>1. connCount' \in [Loop -> Int]
    BY <1>1, AddType DEF Shape, Typed
  <2>2. pausedConns' \in Int
    BY DEF Shape, Typed, Destroy
  <2> QED BY <2>1, <2>2
<1>8. Typed'
  BY <1>2, <1>3, <1>6, <1>7 DEF Shape, Typed
<1>9. TunerOK'
  BY <1>3 DEF Shape, TunerOK, Retiring
<1> QED BY <1>2, <1>4, <1>5, <1>8, <1>9 DEF Shape

\* The connections a plan can move, and what is left of it.
Movable(l) == {c \in OpenOn(l) : ~Migrating(c)}
Unused(dests, k, d) == Cardinality({i \in k + 1 .. Len(dests) : dests[i] = d})

\* A plan runs: its first entries each move a connection of their own.
Runs(l, dests, k, q) ==
    /\ dests \in Seq(Loop) /\ k \in 0 .. Len(dests)
    /\ q \in [1..k -> Movable(l)]
    /\ \A i, j \in 1..k : i # j => q[i] # q[j]
    /\ \A i \in 1..k : conn'[q[i]] = MigrateTo(q[i], dests[i])
    /\ \A c \in Conn : (\A i \in 1..k : q[i] # c) => conn'[c] = conn[c]
    /\ pending' = [d \in Loop |-> pending[d] - Unused(dests, k, d)]

\* RunPlan does that, with distinct connections of the loop.
LEMMA RunPlanRuns ==
    ASSUME Shape, NEW l \in Loop, RunPlan(l)
    PROVE  /\ \E k, q : Runs(l, mail[l][1].dests, k, q)
           /\ DOMAIN conn' = Conn /\ conn' = [c \in Conn |-> conn'[c]]
<1> DEFINE dests == Head(mail[l]).dests
           k == Min({Cardinality(Movable(l)), Len(dests)})
<1>1. TakeMail(l, "plan")
  BY DEF RunPlan
<1>2. /\ Head(mail[l]) = mail[l][1] /\ mail[l][1] \in Mail
      /\ mail[l][1].op = "plan"
  BY <1>1, TakenMail
<1>3. dests \in Seq(Loop) /\ Len(dests) \in Nat
  BY <1>2, LenProperties DEF Mail
<1>4. IsFiniteSet(Movable(l)) /\ Cardinality(Movable(l)) \in Nat
  <2>1. Movable(l) \subseteq Conn
    BY DEF Movable, OpenOn
  <2> QED BY <2>1, Domain, FS_Subset, FS_CardinalityType
<1>5. k \in 0 .. Len(dests)
  <2>1. PICK a \in Nat : a = Cardinality(Movable(l))
    BY <1>4
  <2>2. PICK b \in Nat : b = Len(dests)
    BY <1>3
  <2>3. \E x \in {a, b} : \A y \in {a, b} : x <= y
    OBVIOUS
  <2>4. Min({a, b}) \in {a, b} /\ \A y \in {a, b} : Min({a, b}) <= y
    BY <2>3 DEF Min
  <2>5. Min({a, b}) \in Nat /\ Min({a, b}) <= b
    BY <2>4
  <2> QED BY <2>1, <2>2, <2>5
<1>6. PICK q \in [1..k -> Movable(l)] :
        /\ \A i, j \in 1..k : i # j => q[i] # q[j]
        /\ conn' = [c \in Conn |->
                      IF \E i \in 1..k : q[i] = c
                        THEN MigrateTo(c, dests[CHOOSE i \in 1..k : q[i] = c])
                        ELSE conn[c]]
  BY DEF RunPlan, Movable
<1>7. pending' = [d \in Loop |-> pending[d] - Unused(dests, k, d)]
  BY DEF RunPlan, Movable, Unused
<1> HIDE DEF k, dests
<1>8. ASSUME NEW i \in 1..k PROVE conn'[q[i]] = MigrateTo(q[i], dests[i])
  <2>1. q[i] \in Conn
    BY DEF Movable, OpenOn
  <2>2. (CHOOSE j \in 1..k : q[j] = q[i]) = i
    BY <1>6
  <2> QED BY <1>6, <2>1, <2>2
<1>9. ASSUME NEW c \in Conn, \A i \in 1..k : q[i] # c PROVE conn'[c] = conn[c]
  BY <1>6, <1>9
<1>10. Runs(l, dests, k, q)
  BY <1>3, <1>5, <1>6, <1>7, <1>8, <1>9 DEF Runs
<1>11. DOMAIN conn' = Conn /\ conn' = [c \in Conn |-> conn'[c]]
  BY <1>6
<1> QED BY <1>2, <1>10, <1>11 DEF dests

\* A connection starts to migrate.
LEMMA MigrateFields ==
    ASSUME Shape, NEW l \in Loop, NEW c \in Movable(l), NEW d \in Loop
    PROVE  /\ c \in Conn /\ conn[c].st = "open" /\ conn[c].target = NoLoop
           /\ conn[c].loop = l
           /\ MigrateTo(c, d) \in Connection /\ ConnOK(MigrateTo(c, d))
           /\ MigrateTo(c, d).st = conn[c].st
           /\ MigrateTo(c, d).loop = conn[c].loop
           /\ MigrateTo(c, d).target = d
           /\ MigrateTo(c, d).paused = conn[c].paused
           /\ MigrateTo(c, d).check
<1>1. /\ c \in Conn /\ conn[c].st = "open" /\ conn[c].target = NoLoop
      /\ conn[c].loop = l
  BY DEF Movable, OpenOn, Migrating
<1>2. conn[c] \in Connection /\ ConnOK(conn[c])
  BY <1>1, ConnFields
<1> QED BY <1>1, <1>2, Domain DEF MigrateTo, Connection, ConnOK, Busy, MaybeLoop

\* How a plan changes a connection.
LEMMA RunsConn ==
    ASSUME Shape, NEW l \in Loop, NEW dests, NEW k, NEW q,
           Runs(l, dests, k, q), NEW c \in Conn
    PROVE  \/ conn'[c] = conn[c]
           \/ \E i \in 1..k : /\ c = q[i] /\ c \in Movable(l)
                              /\ dests[i] \in Loop
                              /\ conn'[c] = MigrateTo(c, dests[i])
<1>1. \A i \in 1..k : dests[i] \in Loop
  <2>1. DOMAIN dests = 1 .. Len(dests) /\ Len(dests) \in Nat
    BY LenProperties DEF Runs
  <2>2. \A i \in 1..k : i \in 1 .. Len(dests)
    BY <2>1 DEF Runs
  <2> QED BY <2>1, <2>2 DEF Runs
<1> QED BY <1>1 DEF Runs

\* A plan that runs keeps the shapes.
LEMMA RunPlanShape ==
    ASSUME Shape, NEW l \in Loop, RunPlan(l) PROVE Shape'
<1>1. PICK dests, k, q : Runs(l, dests, k, q)
  BY RunPlanRuns
<1>2. ASSUME NEW c \in Conn
      PROVE  /\ conn'[c] \in Connection /\ ConnOK(conn'[c])
             /\ conn'[c].st = conn[c].st /\ conn'[c].loop = conn[c].loop
  BY <1>1, RunsConn, MigrateFields, ConnFields
<1>3. conn' \in [Conn -> Connection]
  BY <1>2, RunPlanRuns
<1>4. ConnsOK' /\ SamePlaces
  BY <1>2 DEF ConnsOK, SamePlaces
<1>5. UNCHANGED <<life, connCount, holds, emptyTicks, pausedConns, req, tuner,
                  resizes>>
  BY DEF RunPlan
<1>6. ReqOK'
  BY <1>4, <1>5, SamePlacesKeep
<1>7. TakeMail(l, "plan")
  BY DEF RunPlan
<1>8. MailOK'
  <2>1. ASSUME NEW h \in Loop, NEW n \in Mail, NEW i \in DOMAIN mail[h],
               n = mail[h][i]
        PROVE  Expects(h, n)'
    <3>1. Expects(h, n)
      BY <2>1 DEF Shape, MailOK
    <3> QED BY <1>4, <3>1 DEF SamePlaces, Expects, Mail
  <2> QED BY <1>7, <2>1, TakeMailOK
<1>9. mail' \in [Loop -> Seq(Mail)]
  BY <1>7, TakenMail
<1>10. pending' \in [Loop -> Int]
  <2>1. ASSUME NEW d \in Loop PROVE Unused(dests, k, d) \in Int
    <3>1. dests \in Seq(Loop) /\ k \in Int /\ Len(dests) \in Int /\ k + 1 \in Int
      BY <1>1, LenProperties DEF Runs
    <3>2. IsFiniteSet(k + 1 .. Len(dests))
      BY <3>1, FS_Interval
    <3>3. {i \in k + 1 .. Len(dests) : dests[i] = d} \subseteq k + 1 .. Len(dests)
      OBVIOUS
    <3>4. IsFiniteSet({i \in k + 1 .. Len(dests) : dests[i] = d})
      BY <3>2, <3>3, FS_Subset
    <3> QED BY <3>4, FS_CardinalityType DEF Unused
  <2>2. pending \in [Loop -> Int]
    BY DEF Shape, Typed
  <2>3. pending' = [d \in Loop |-> pending[d] - Unused(dests, k, d)]
    BY <1>1 DEF Runs
  <2> QED BY <2>1, <2>2, <2>3
<1>11. Typed'
  BY <1>3, <1>5, <1>9, <1>10 DEF Shape, Typed
<1>12. TunerOK'
  BY <1>5 DEF Shape, TunerOK, Retiring
<1> QED BY <1>4, <1>6, <1>8, <1>11, <1>12 DEF Shape

\* A request goes to the engine from the loop its connection is on.
LEMMA ToEngineShape ==
    ASSUME Shape, NEW c \in Conn, NEW r \in Req, NEW d \in BOOLEAN,
           ToEngine(c, r, d), holds' \in [Loop -> Int]
    PROVE  Shape'
<1> DEFINE s == [st |-> "engine", durable |-> d, conn |-> c,
                 loop |-> conn[c].loop]
<1>1. conn[c] \in Connection /\ ConnOK(conn[c]) /\ conn[c].st = "open"
  BY ConnFields DEF ToEngine, OnLoop
<1>2. conn[c].loop \in Loop
  BY <1>1 DEF Connection, ConnOK, MaybeLoop
<1>3. s \in Request
  BY <1>2 DEF Request, MaybeLoop
<1>4. /\ req' = [req EXCEPT ![r] = s]
      /\ UNCHANGED <<life, connCount, pending, emptyTicks, mail, conn,
                     pausedConns, tuner, resizes>>
  BY DEF ToEngine, counters
<1>5. req \in [Req -> Request]
  BY DEF Shape, Typed
<1>6. /\ req' \in [Req -> Request] /\ req'[r] = s
      /\ \A p \in Req \ {r} : req'[p] = req[p]
  BY <1>3, <1>4, <1>5
<1>7. Typed'
  BY <1>4, <1>6 DEF Shape, Typed
<1>8. ReqOK'
  BY <1>1, <1>2, <1>4, <1>6 DEF Shape, ReqOK
<1>9. ConnsOK' /\ MailOK' /\ TunerOK'
  <2>1. SamePlaces
    BY <1>4 DEF SamePlaces
  <2> QED BY <1>4, <2>1, SamePlacesKeep DEF Shape, ConnsOK, TunerOK, Retiring
<1> QED BY <1>7, <1>8, <1>9 DEF Shape

\* A GET that reaches the engine keeps the shapes.
LEMMA HandleGetShape ==
    ASSUME Shape, NEW c \in Conn, NEW r \in Req, HandleGet(c, r) PROVE Shape'
BY ToEngineShape DEF HandleGet, Shape, Typed

\* A durable SET keeps them and holds its loop.
LEMMA HandleSetShape ==
    ASSUME Shape, NEW c \in Conn, NEW r \in Req, HandleSet(c, r) PROVE Shape'
<1>1. ToEngine(c, r, TRUE) /\ holds' = Add(holds, conn[c].loop, 1)
  BY DEF HandleSet
<1>2. conn[c].loop \in Loop
  BY <1>1, ConnFields DEF ToEngine, OnLoop, Connection, ConnOK, MaybeLoop
<1>3. holds' \in [Loop -> Int]
  BY <1>1, <1>2, AddType DEF Shape, Typed
<1> QED BY <1>1, <1>3, ToEngineShape

\* The engine that completes a request keeps the shapes.
LEMMA CompleteShape ==
    ASSUME Shape, NEW r \in Req, Complete(r) PROVE Shape'
<1>1. /\ req[r].st = "engine" /\ req' = [req EXCEPT ![r].st = "posted"]
      /\ UNCHANGED <<life, connCount, pending, holds, emptyTicks, mail, conn,
                     pausedConns, tuner, resizes>>
  BY DEF Complete, loopVars, counters
<1>2. req \in [Req -> Request] /\ req[r] \in Request
  BY DEF Shape, Typed
<1>3. /\ req' \in [Req -> Request] /\ \A p \in Req \ {r} : req'[p] = req[p]
      /\ req'[r].st = "posted" /\ req'[r].conn = req[r].conn
      /\ req'[r].loop = req[r].loop
  BY <1>1, <1>2 DEF Request
<1>4. Typed'
  BY <1>1, <1>3 DEF Shape, Typed
<1>5. ReqOK'
  BY <1>1, <1>3 DEF Shape, ReqOK
<1>6. ConnsOK' /\ MailOK' /\ TunerOK'
  <2>1. SamePlaces
    BY <1>1 DEF SamePlaces
  <2> QED BY <1>1, <2>1, SamePlacesKeep DEF Shape, ConnsOK, TunerOK, Retiring
<1> QED BY <1>4, <1>5, <1>6 DEF Shape

\* A response: the request is done, and its connection has something to send
\* or, if it was closing and waited for nothing else, is gone.
Responds(r, c, l, s) ==
    /\ c \in Conn /\ c = req[r].conn /\ l \in Loop /\ l = req[r].loop
    /\ s \in Connection /\ Becomes(c, s) /\ ConnOK(s)
    /\ s.loop = conn[c].loop /\ s.target = conn[c].target
    /\ s.paused = conn[c].paused
    /\ \/ conn[c].st = "closing" /\ s.st = "closing" /\ Outstanding(c) # {r}
       \/ conn[c].st = "closing" /\ s.st = "gone" /\ Outstanding(c) = {r}
       \/ conn[c].st = "open" /\ s.st = "open" /\ conn[c].loop = l /\ s.unsent
    /\ s.st = "closing" \/ s.st = "gone" => s = [conn[c] EXCEPT !.st = s.st]
    /\ req[r].st = "posted" /\ req' = [req EXCEPT ![r].st = "done"]
    /\ holds' = IF req[r].durable THEN Add(holds, l, -1) ELSE holds

\* Respond does that.
LEMMA RespondDoes ==
    ASSUME Shape, NEW r \in Req, Respond(r)
    PROVE  \E c, l, s : Responds(r, c, l, s)
<1> DEFINE c == req[r].conn
           l == req[r].loop
           last == Outstanding(c) = {r}
           s == IF conn[c].st = "closing"
                  THEN [conn[c] EXCEPT !.st = IF last THEN "gone" ELSE @]
                  ELSE [conn[c] EXCEPT !.unsent = TRUE,
                           !.check = @ \/ (last /\ Migrating(c))]
<1>1. /\ req[r].st = "posted" /\ req' = [req EXCEPT ![r].st = "done"]
      /\ holds' = Add(holds, l, IF req[r].durable THEN -1 ELSE 0)
      /\ conn' = IF conn[c].st = "closing"
                   THEN [conn EXCEPT ![c].st = IF last THEN "gone" ELSE @]
                   ELSE [conn EXCEPT ![c].unsent = TRUE,
                           ![c].check = @ \/ (last /\ Migrating(c))]
  BY DEF Respond
<1>2. /\ c \in Conn /\ l \in Loop
      /\ \/ conn[c].st = "closing"
         \/ conn[c].st = "open" /\ conn[c].loop = l
  BY <1>1 DEF Shape, ReqOK
<1>3. conn[c] \in Connection /\ ConnOK(conn[c]) /\ conn[c].check \in BOOLEAN
  BY <1>2, ConnFields
<1>4. Becomes(c, s)
  BY <1>1 DEF Becomes
<1>5. holds' = IF req[r].durable THEN Add(holds, l, -1) ELSE holds
  <2>1. holds \in [Loop -> Int] /\ holds[l] \in Int
    BY <1>2 DEF Shape, Typed
  <2>2. [holds EXCEPT ![l] = holds[l] + 0] = holds
    BY <1>2, <2>1
  <2> QED BY <1>1, <2>2 DEF Add
<1>6. last \in BOOLEAN /\ Migrating(c) \in BOOLEAN
      /\ (Migrating(c) <=> conn[c].target # NoLoop)
  BY DEF Migrating
<1>7. CASE conn[c].st = "closing"
  <2>1. s = [conn[c] EXCEPT !.st = IF last THEN "gone" ELSE "closing"]
    BY <1>7
  <2> DEFINE u == [conn[c] EXCEPT !.st = IF last THEN "gone" ELSE "closing"]
  <2>2. /\ u \in Connection /\ u.loop = conn[c].loop
        /\ u.target = conn[c].target /\ u.paused = conn[c].paused
        /\ u.st = IF last THEN "gone" ELSE "closing"
        /\ u = [conn[c] EXCEPT !.st = u.st]
    BY <1>3 DEF Connection
  <2>3. ConnOK(u)
    BY <1>3, <1>7 DEF Connection, ConnOK, AtRest
  <2>4. Becomes(c, u)
    BY <1>4, <2>1
  <2>5. last <=> Outstanding(c) = {r}
    OBVIOUS
  <2> HIDE DEF u, s, last
  <2>6. Responds(r, c, l, u)
    BY <1>1, <1>2, <1>5, <1>7, <2>2, <2>3, <2>4, <2>5 DEF Responds
  <2> QED BY <2>6
<1>8. CASE conn[c].st = "open"
  <2> DEFINE u == [conn[c] EXCEPT !.unsent = TRUE,
                      !.check = @ \/ (last /\ Migrating(c))]
  <2>1. Becomes(c, u)
    BY <1>4, <1>8
  <2>2. /\ u \in Connection /\ u.loop = conn[c].loop
        /\ u.target = conn[c].target /\ u.paused = conn[c].paused
        /\ u.st = "open" /\ u.unsent
    BY <1>3, <1>6, <1>8 DEF Connection
  <2>3. ConnOK(u)
    BY <1>3, <1>6, <1>8 DEF Connection, ConnOK, Busy
  <2> HIDE DEF u, s, last
  <2>4. Responds(r, c, l, u)
    BY <1>1, <1>2, <1>5, <1>8, <2>1, <2>2, <2>3 DEF Responds
  <2> QED BY <2>4
<1> QED BY <1>2, <1>7, <1>8

\* An answer keeps the shapes.
LEMMA RespondShape ==
    ASSUME Shape, NEW r \in Req, Respond(r) PROVE Shape'
<1>1. PICK c, l, s : Responds(r, c, l, s)
  BY RespondDoes
<1>2. c \in Conn /\ l \in Loop /\ s \in Connection /\ Becomes(c, s) /\ ConnOK(s)
  BY <1>1 DEF Responds
<1>3. /\ conn' \in [Conn -> Connection] /\ ConnsOK' /\ conn'[c] = s
      /\ \A d \in Conn \ {c} : conn'[d] = conn[d]
  BY <1>2, BecomesKeeps
<1>4. req \in [Req -> Request] /\ req[r] \in Request
  BY DEF Shape, Typed
<1>5. /\ req' \in [Req -> Request] /\ \A p \in Req \ {r} : req'[p] = req[p]
      /\ req'[r].st = "done"
  BY <1>1, <1>4 DEF Request, Responds
<1>6. UNCHANGED <<life, connCount, pending, emptyTicks, mail, pausedConns,
                  tuner, resizes>>
  BY DEF Respond, counters
<1>7. holds' \in [Loop -> Int]
  BY <1>1, AddType DEF Responds, Shape, Typed
<1>8. Typed'
  BY <1>3, <1>5, <1>6, <1>7 DEF Shape, Typed
<1>9. ReqOK'
  <2> SUFFICES ASSUME NEW p \in Req, req'[p].st \in {"engine", "posted"}
               PROVE  /\ req'[p].conn \in Conn /\ req'[p].loop \in Loop
                      /\ \/ conn'[req'[p].conn].st = "closing"
                         \/ /\ conn'[req'[p].conn].st = "open"
                            /\ conn'[req'[p].conn].loop = req'[p].loop
    BY DEF ReqOK
  <2>1. p # r /\ req'[p] = req[p]
    BY <1>5
  <2>2. /\ req[p].conn \in Conn /\ req[p].loop \in Loop
        /\ \/ conn[req[p].conn].st = "closing"
           \/ /\ conn[req[p].conn].st = "open"
              /\ conn[req[p].conn].loop = req[p].loop
    BY <2>1 DEF Shape, ReqOK
  <2>3. CASE req[p].conn # c
    BY <1>3, <2>1, <2>2, <2>3
  <2>4. CASE req[p].conn = c
    <3>1. p \in Outstanding(c)
      BY <2>1, <2>4 DEF Outstanding
    <3>2. Outstanding(c) # {r}
      BY <2>1, <3>1
    <3> QED BY <1>1, <1>3, <2>1, <2>2, <2>4, <3>2 DEF Responds
  <2> QED BY <2>3, <2>4
<1>10. MailOK'
  <2>1. \A k \in Loop : \A i \in DOMAIN mail[k] :
          mail[k][i].op # "plan" => mail[k][i].conn # c
    BY <1>1, <1>2, NotInMail DEF Responds
  <2>2. ASSUME NEW k \in Loop, NEW i \in DOMAIN mail[k]
        PROVE  Expects(k, mail[k][i])'
    <3>1. PICK m \in Mail : m = mail[k][i]
      BY DEF Shape, Typed
    <3>2. Expects(k, m)
      BY <3>1 DEF Shape, MailOK
    <3>3. Expects(k, m)'
      BY <1>3, <2>1, <3>1, <3>2, StillExpected
    <3> QED BY <1>6, <3>1, <3>3 DEF Expects
  <2> QED BY <1>6, <2>2 DEF Shape, MailOK
<1>11. TunerOK'
  BY <1>6 DEF Shape, TunerOK, Retiring
<1> QED BY <1>3, <1>8, <1>9, <1>10, <1>11 DEF Shape

---------------------------------------------------------------------------
(* The plans the tuner posts.                                              *)

\* The place of i among the elements of own.
Rank(own, i) == Cardinality({j \in own : j <= i})

\* Ranks number the elements of a finite set of numbers from one on.
LEMMA Ranks ==
    ASSUME NEW n \in Nat, NEW own \in SUBSET (1..n)
    PROVE  /\ IsFiniteSet(own) /\ Cardinality(own) \in Nat
           /\ \A i \in own : Rank(own, i) \in 1 .. Cardinality(own)
           /\ \A i, j \in own : Rank(own, i) = Rank(own, j) => i = j
           /\ \A m \in 1 .. Cardinality(own) : \E i \in own : Rank(own, i) = m
<1> DEFINE N == Cardinality(own)
           upto(i) == {j \in own : j <= i}
<1>1. IsFiniteSet(own) /\ N \in Nat
  <2>1. 1 \in Int /\ n \in Int
    OBVIOUS
  <2>2. IsFiniteSet(1..n)
    BY <2>1, FS_Interval
  <2> QED BY <2>2, FS_Subset, FS_CardinalityType
<1>2. ASSUME NEW i \in own PROVE IsFiniteSet(upto(i)) /\ upto(i) \in SUBSET own
  <2>1. upto(i) \in SUBSET own
    OBVIOUS
  <2> QED BY <1>1, <2>1, FS_Subset
<1>3. ASSUME NEW i \in own PROVE Rank(own, i) \in 1 .. N
  <2>1. i \in upto(i)
    OBVIOUS
  <2>2. Cardinality(upto(i)) \in Nat /\ Cardinality(upto(i)) <= N
    BY <1>1, <1>2, FS_Subset, FS_CardinalityType
  <2>3. Cardinality(upto(i)) # 0
    BY <1>2, <2>1, FS_EmptySet
  <2>4. Rank(own, i) = Cardinality(upto(i))
    BY DEF Rank
  <2> HIDE DEF upto, N
  <2> QED BY <1>1, <2>2, <2>3, <2>4
<1>4. ASSUME NEW i \in own, NEW j \in own, i < j, Rank(own, i) = Rank(own, j)
      PROVE  FALSE
  <2>1. upto(i) \in SUBSET upto(j) /\ j \in upto(j) /\ j \notin upto(i)
    <3>1. \A x \in own : x \in Int
      OBVIOUS
    <3>2. \A x \in own : x <= i => x <= j
      BY <1>4, <3>1
    <3>3. j <= j /\ ~(j <= i)
      BY <1>4, <3>1
    <3> QED BY <3>2, <3>3
  <2>2. Cardinality(upto(j)) = Cardinality(upto(i))
    BY <1>4 DEF Rank
  <2>3. upto(j) = upto(i)
    BY <1>2, <2>1, <2>2, FS_Subset
  <2> QED BY <2>1, <2>3
<1>5. ASSUME NEW i \in own, NEW j \in own, Rank(own, i) = Rank(own, j)
      PROVE  i = j
  <2>1. i \in Int /\ j \in Int
    OBVIOUS
  <2>2. i < j \/ j < i \/ i = j
    BY <2>1
  <2> QED BY <1>4, <1>5, <2>2
<1> DEFINE f == [i \in own |-> Rank(own, i)]
<1>6. f \in Injection(own, 1 .. N)
  <2>1. f \in [own -> 1 .. N]
    BY <1>3
  <2>2. \A a, b \in own : f[a] = f[b] => a = b
    BY <1>5
  <2> QED BY <2>1, <2>2 DEF Injection, IsInjective
<1>7. IsFiniteSet(1 .. N) /\ Cardinality(1 .. N) = N
  <2>1. PICK m \in Nat : m = N
    BY <1>1
  <2>2. 1 \in Int /\ m \in Int
    BY <2>1
  <2>3. IsFiniteSet(1 .. m) /\ Cardinality(1 .. m) = IF 1 > m THEN 0 ELSE m - 1 + 1
    BY <2>2, FS_Interval
  <2> QED BY <2>1, <2>3
<1>8. f \in Surjection(own, 1 .. N)
  BY <1>6, <1>7, FS_Injection
<1>9. \A m \in 1 .. N : \E i \in own : Rank(own, i) = m
  BY <1>8 DEF Surjection
<1> QED BY <1>1, <1>3, <1>5, <1>9

\* D gives the plan of each loop.  What a plan puts on d.
Entries(D, d) == Disjoint([l \in Loop |-> {j \in DOMAIN D[l] : D[l][j] = d}])

\* Plans onto live loops are posted to loops that run, every destination
\* reserved.
PlansPosted(D) ==
    /\ D \in [Loop -> Seq(Live)]
    /\ \A l \in Loop : D[l] # <<>> => Running(l)
    /\ mail' = [l \in Loop |-> IF D[l] = <<>> THEN mail[l]
                               ELSE Append(mail[l], [op |-> "plan",
                                                     dests |-> D[l]])]
    /\ pending' = [d \in Loop |-> pending[d] + Cardinality(Entries(D, d))]

\* The entries of plans are finitely many.
LEMMA EntriesFinite ==
    ASSUME NEW D, \A l \in Loop : \E S : D[l] \in Seq(S), NEW d
    PROVE  IsFiniteSet(Entries(D, d)) /\ Cardinality(Entries(D, d)) \in Nat
<1> DEFINE f == [l \in Loop |-> {j \in DOMAIN D[l] : D[l][j] = d}]
           F == {{x} \X f[x] : x \in Loop}
<1>1. ASSUME NEW l \in Loop PROVE IsFiniteSet(f[l])
  <2>1. PICK S : D[l] \in Seq(S)
    OBVIOUS
  <2>2. DOMAIN D[l] = 1 .. Len(D[l]) /\ Len(D[l]) \in Int /\ 1 \in Int
    BY <2>1, LenProperties
  <2>3. IsFiniteSet(1 .. Len(D[l]))
    BY <2>2, FS_Interval
  <2>4. f[l] \in SUBSET (1 .. Len(D[l]))
    BY <2>2
  <2> QED BY <2>3, <2>4, FS_Subset
<1> HIDE DEF f
<1>2. IsFiniteSet(F)
  <2> DEFINE g == [x \in Loop |-> {x} \X f[x]]
  <2>1. g \in Surjection(Loop, F)
    BY DEF Surjection
  <2> QED BY <2>1, Domain, FS_Surjection
<1>3. ASSUME NEW Y \in F PROVE IsFiniteSet(Y)
  <2>1. PICK x \in Loop : Y = {x} \X f[x]
    BY <1>3
  <2> QED BY <1>1, <2>1, FS_Singleton, FS_Product
<1>4. Entries(D, d) = UNION F
  BY DEF Entries, Disjoint, f
<1>5. IsFiniteSet(UNION F)
  BY <1>2, <1>3, FS_UNION
<1> QED BY <1>4, <1>5, FS_CardinalityType

\* What is in the plans.
LEMMA InEntries ==
    ASSUME NEW D, NEW d, NEW e
    PROVE  e \in Entries(D, d) <=>
             \E l \in Loop : \E j \in DOMAIN D[l] : D[l][j] = d /\ e = <<l, j>>
<1> DEFINE f == [l \in Loop |-> {j \in DOMAIN D[l] : D[l][j] = d}]
<1>1. Entries(D, d) = UNION {{x} \X f[x] : x \in Loop}
  BY DEF Entries, Disjoint
<1> QED BY <1>1

\* Two sets matched one to one have as many elements.
LEMMA Matched ==
    ASSUME NEW S, NEW T, IsFiniteSet(S), NEW f \in [S -> T],
           \A a, b \in S : f[a] = f[b] => a = b,
           \A t \in T : \E a \in S : f[a] = t
    PROVE  IsFiniteSet(T) /\ Cardinality(T) = Cardinality(S)
<1>1. f \in Bijection(S, T)
  <2>1. f \in Injection(S, T)
    BY DEF Injection, IsInjective
  <2>2. f \in Surjection(S, T)
    BY DEF Surjection
  <2> QED BY <2>1, <2>2 DEF Bijection
<1> QED BY <1>1, FS_Bijection DEF ExistsBijection

\* The moves planMoves finds form a sequence.
LEMMA PlanIsSeq ==
    ASSUME NEW k \in Int, NEW to, NEW q \in PlanMoves(k, to)
    PROVE  q \in Seq(to)
<1> DEFINE n == IF to = {} THEN 0 ELSE k
<1>1. n \in Int /\ q \in [1..n -> to]
  BY DEF PlanMoves
<1> HIDE DEF n
<1>2. CASE n \in Nat
  BY <1>1, <1>2
<1>3. CASE n \notin Nat
  <2>1. 1..n = 1..0
    BY <1>1, <1>3
  <2>2. q \in [1..0 -> to] /\ 0 \in Nat
    BY <1>1, <2>1
  <2> QED BY <2>2
<1> QED BY <1>2, <1>3

\* One plan.
LEMMA OnePlan ==
    ASSUME Shape, NEW l \in Loop, Running(l), NEW dests \in Seq(Live),
           PostMigrations(l, dests)
    PROVE  \E D : PlansPosted(D)
<1> DEFINE D == [k \in Loop |-> IF k = l THEN dests ELSE <<>>]
           m == [op |-> "plan", dests |-> dests]
<1>1. D \in [Loop -> Seq(Live)] /\ \A k \in Loop : D[k] # <<>> => Running(k)
  BY EmptySeq
<1>2. mail \in [Loop -> Seq(Mail)]
  BY DEF Shape, Typed
<1>3. mail' = [k \in Loop |-> IF D[k] = <<>> THEN mail[k]
                              ELSE Append(mail[k], [op |-> "plan",
                                                    dests |-> D[k]])]
  <2>1. CASE dests = <<>>
    <3>1. mail' = mail
      BY <2>1 DEF PostMigrations
    <3>2. \A k \in Loop : D[k] = <<>>
      BY <2>1
    <3> HIDE DEF D
    <3> QED BY <1>2, <3>1, <3>2
  <2>2. CASE dests # <<>>
    <3>1. mail' = [mail EXCEPT ![l] = Append(mail[l], m)]
      BY <2>2 DEF PostMigrations, Post
    <3>2. D[l] = dests /\ \A k \in Loop \ {l} : D[k] = <<>>
      OBVIOUS
    <3>3. m = [op |-> "plan", dests |-> D[l]]
      BY <3>2
    <3> HIDE DEF D, m
    <3>4. mail' = [k \in Loop |-> IF k = l THEN Append(mail[k], m) ELSE mail[k]]
      BY <1>2, <3>1
    <3>5. ASSUME NEW k \in Loop
          PROVE  (IF k = l THEN Append(mail[k], m) ELSE mail[k])
                 = (IF D[k] = <<>> THEN mail[k]
                    ELSE Append(mail[k], [op |-> "plan", dests |-> D[k]]))
      BY <2>2, <3>2, <3>3
    <3> QED BY <3>4, <3>5
  <2> QED BY <2>1, <2>2
<1>4. ASSUME NEW d \in Loop
      PROVE  Cardinality({i \in DOMAIN dests : dests[i] = d})
               = Cardinality(Entries(D, d))
  <2> DEFINE S == {i \in DOMAIN dests : dests[i] = d}
             f == [i \in S |-> <<l, i>>]
  <2>1. IsFiniteSet(S)
    <3>1. DOMAIN dests = 1 .. Len(dests) /\ Len(dests) \in Int /\ 1 \in Int
      BY LenProperties
    <3>2. IsFiniteSet(1 .. Len(dests))
      BY <3>1, FS_Interval
    <3> QED BY <3>1, <3>2, FS_Subset
  <2>2. \A i \in S : i \in DOMAIN D[l] /\ D[l][i] = d
    OBVIOUS
  <2>3. \A i \in S : <<l, i>> \in Entries(D, d)
    BY <2>2, InEntries
  <2>4. ASSUME NEW e \in Entries(D, d) PROVE \E i \in S : e = <<l, i>>
    <3>1. PICK k \in Loop : \E j \in DOMAIN D[k] : D[k][j] = d /\ e = <<k, j>>
      BY InEntries
    <3>2. PICK j \in DOMAIN D[k] : D[k][j] = d /\ e = <<k, j>>
      BY <3>1
    <3>3. CASE k = l
      BY <3>2, <3>3
    <3>4. CASE k # l
      <4>1. D[k] = <<>>
        BY <3>4
      <4>2. DOMAIN <<>> = {}
        OBVIOUS
      <4> QED BY <3>2, <4>1, <4>2
    <3> QED BY <3>3, <3>4
  <2>5. f \in [S -> Entries(D, d)]
    BY <2>3
  <2>6. \A a, b \in S : f[a] = f[b] => a = b
    OBVIOUS
  <2>7. \A e \in Entries(D, d) : \E i \in S : f[i] = e
    BY <2>4
  <2> HIDE DEF S, f, D
  <2>8. Cardinality(Entries(D, d)) = Cardinality(S)
    BY <2>1, <2>5, <2>6, <2>7, Matched
  <2> QED BY <2>8 DEF S
<1>5. pending' = [d \in Loop |-> pending[d] + Cardinality(Entries(D, d))]
  BY <1>4 DEF PostMigrations
<1> HIDE DEF D
<1>6. PlansPosted(D)
  BY <1>1, <1>3, <1>5 DEF PlansPosted
<1> QED BY <1>6

\* The destinations of some of the moves, in their order.
InOrder(own, moves) ==
    [m \in 1 .. Cardinality(own) |->
       moves[CHOOSE i \in own : Rank(own, i) = m].to]

Ordered(own, moves, T) ==
    /\ DOMAIN InOrder(own, moves) = 1 .. Cardinality(own)
    /\ InOrder(own, moves) \in Seq(T)
    /\ \A i \in own : InOrder(own, moves)[Rank(own, i)] = moves[i].to

\* The moves of a loop, in order, are a sequence of destinations.
LEMMA InOrderSeq ==
    ASSUME NEW n \in Nat, NEW T, NEW moves \in [1..n -> [from : T, to : T]],
           NEW own, own \subseteq 1..n
    PROVE  Ordered(own, moves, T)
<1> DEFINE s == InOrder(own, moves)
           N == Cardinality(own)
           at(m) == CHOOSE i \in own : Rank(own, i) = m
<1>1. N \in Nat
  BY Ranks
<1>2. ASSUME NEW m \in 1..N PROVE at(m) \in own /\ Rank(own, at(m)) = m
  <2>1. \E i \in own : Rank(own, i) = m
    BY Ranks
  <2> QED BY <2>1, Zenon
<1>3. s = [m \in 1..N |-> moves[at(m)].to]
  BY DEF InOrder
<1>4. ASSUME NEW i \in own PROVE Rank(own, i) \in 1..N /\ at(Rank(own, i)) = i
  <2>1. Rank(own, i) \in 1..N
    BY Ranks
  <2>2. at(Rank(own, i)) \in own /\ Rank(own, at(Rank(own, i))) = Rank(own, i)
    BY <1>2, <2>1
  <2> HIDE DEF at, N
  <2> QED BY <2>1, <2>2, Ranks
<1> HIDE DEF s, N, at
<1>5. ASSUME NEW m \in 1..N PROVE moves[at(m)].to \in T
  BY <1>2
<1>6. s \in [1..N -> T]
  BY <1>3, <1>5
<1>7. s \in Seq(T) /\ DOMAIN s = 1..N
  BY <1>1, <1>6
<1>8. ASSUME NEW i \in own PROVE s[Rank(own, i)] = moves[i].to
  BY <1>3, <1>4
<1> QED BY <1>7, <1>8 DEF s, N, Ordered

\* The plans of rebalance are the moves, each in the plan of the loop it leaves.
LEMMA LevelPlans ==
    ASSUME Shape, Rebalance
    PROVE  \E D : PlansPosted(D)
<1>1. PICK moves \in Rebalancings :
         /\ pending' = [d \in Loop |-> pending[d] +
                          Cardinality({i \in DOMAIN moves : moves[i].to = d})]
         /\ mail' = [l \in Loop |->
                       LET dests == DestsFrom(l, moves) IN
                       IF dests = <<>> THEN mail[l]
                       ELSE Append(mail[l], [op |-> "plan", dests |-> dests])]
  BY DEF Rebalance
<1>2. PICK n \in Nat : moves \in [1..n -> [from : Live, to : Live]]
  <2>1. moves \in UNION {[1..n -> [from : Live, to : Live]] :
                           n \in 0..Cardinality(Conn)}
    BY DEF Rebalancings
  <2>2. PICK X \in {[1..n -> [from : Live, to : Live]] :
                      n \in 0..Cardinality(Conn)} : moves \in X
    BY <2>1
  <2>3. PICK n \in 0..Cardinality(Conn) : X = [1..n -> [from : Live, to : Live]]
    BY <2>2
  <2>4. n \in Nat
    BY Domain, FS_CardinalityType
  <2> QED BY <2>2, <2>3, <2>4
<1>3. DOMAIN moves = 1..n
      /\ \A i \in 1..n : moves[i].from \in Live /\ moves[i].to \in Live
  BY <1>2
<1> DEFINE own(l) == {i \in 1..n : moves[i].from = l}
           D == [l \in Loop |-> DestsFrom(l, moves)]
<1>4. ASSUME NEW l \in Loop
      PROVE  /\ Cardinality(own(l)) \in Nat
             /\ \A i \in own(l) : Rank(own(l), i) \in 1 .. Cardinality(own(l))
             /\ \A i, j \in own(l) : Rank(own(l), i) = Rank(own(l), j) => i = j
             /\ \A m \in 1 .. Cardinality(own(l)) :
                  \E i \in own(l) : Rank(own(l), i) = m
  <2>1. own(l) \in SUBSET (1..n)
    OBVIOUS
  <2> HIDE DEF own
  <2> QED BY <2>1, Ranks
<1>6. ASSUME NEW l \in Loop
      PROVE  /\ DOMAIN D[l] = 1 .. Cardinality(own(l))
             /\ D[l] \in Seq(Live)
             /\ \A i \in own(l) : D[l][Rank(own(l), i)] = moves[i].to
  <2>1. own(l) \in SUBSET (1..n)
    OBVIOUS
  <2>2. D[l] = InOrder(own(l), moves)
    BY <1>3 DEF DestsFrom, InOrder, Rank
  <2>3. PICK o \in SUBSET (1..n) : o = own(l)
    BY <2>1
  <2> HIDE DEF D, own
  <2>4. /\ DOMAIN InOrder(o, moves) = 1 .. Cardinality(o)
        /\ InOrder(o, moves) \in Seq(Live)
        /\ \A i \in o : InOrder(o, moves)[Rank(o, i)] = moves[i].to
    <3>1. PICK T : T = Live
      OBVIOUS
    <3>2. moves \in [1..n -> [from : T, to : T]]
      BY <1>2, <3>1
    <3>3. o \subseteq 1..n
      OBVIOUS
    <3>4. Ordered(o, moves, T)
      BY <3>2, <3>3, InOrderSeq
    <3> QED BY <3>1, <3>4 DEF Ordered
  <2> QED BY <2>2, <2>3, <2>4
<1>7. D \in [Loop -> Seq(Live)]
  BY <1>6
<1>8. ASSUME NEW l \in Loop, D[l] # <<>> PROVE Running(l)
  <2> HIDE DEF D
  <2>1. own(l) # {}
    <3> SUFFICES ASSUME own(l) = {} PROVE FALSE
      OBVIOUS
    <3> HIDE DEF own
    <3>1. Cardinality(own(l)) = 0
      BY FS_EmptySet
    <3>2. DOMAIN D[l] = 1..0
      BY <1>6, <3>1
    <3>3. Len(D[l]) = 0
      <4>1. PICK k \in Nat : k = Len(D[l]) /\ DOMAIN D[l] = 1..k
        BY <1>6, LenProperties
      <4>2. 1..k = 1..0
        BY <3>2, <4>1
      <4>3. k = 0
        BY <4>2
      <4> QED BY <4>1, <4>3
    <3> QED BY <1>6, <1>8, <3>3, EmptySeq
  <2>2. l \in Live
    BY <1>3, <2>1
  <2> QED BY <2>2 DEF Live, Running
<1>9. ASSUME NEW d \in Loop
      PROVE  Cardinality({i \in DOMAIN moves : moves[i].to = d})
               = Cardinality(Entries(D, d))
  <2> DEFINE S == {i \in 1..n : moves[i].to = d}
             f == [i \in S |-> <<moves[i].from, Rank(own(moves[i].from), i)>>]
  <2>1. IsFiniteSet(S)
    <3>1. 1 \in Int /\ n \in Int
      OBVIOUS
    <3>2. IsFiniteSet(1..n)
      BY <3>1, FS_Interval
    <3> QED BY <3>2, FS_Subset
  <2>2. ASSUME NEW i \in S
        PROVE  /\ i \in own(moves[i].from) /\ moves[i].from \in Loop
               /\ moves[i].to = d
               /\ f[i] = <<moves[i].from, Rank(own(moves[i].from), i)>>
    BY <1>3 DEF Live
  <2> HIDE DEF D, own
  <2>3. ASSUME NEW i \in S PROVE f[i] \in Entries(D, d)
    <3>1. PICK k \in Loop : k = moves[i].from
      BY <2>2
    <3>2. i \in own(k) /\ moves[i].to = d
      BY <2>2, <3>1
    <3>3. Rank(own(k), i) \in DOMAIN D[k] /\ D[k][Rank(own(k), i)] = d
      BY <1>4, <1>6, <3>2
    <3> QED BY <2>2, <3>1, <3>3, InEntries
  <2>4. ASSUME NEW a \in S, NEW b \in S, f[a] = f[b] PROVE a = b
    BY <1>4, <2>2, <2>4
  <2>5. ASSUME NEW e \in Entries(D, d) PROVE \E i \in S : f[i] = e
    <3>1. PICK k \in Loop : \E j \in DOMAIN D[k] : D[k][j] = d /\ e = <<k, j>>
      BY InEntries
    <3>2. PICK j \in DOMAIN D[k] : D[k][j] = d /\ e = <<k, j>>
      BY <3>1
    <3>3. PICK i \in own(k) : Rank(own(k), i) = j
      BY <1>4, <1>6, <3>2
    <3>4. moves[i].from = k /\ i \in 1..n
      BY DEF own
    <3>5. moves[i].to = d
      BY <1>6, <3>2, <3>3
    <3> QED BY <3>2, <3>3, <3>4, <3>5
  <2>6. f \in [S -> Entries(D, d)]
    BY <2>3
  <2> HIDE DEF S, f
  <2>7. Cardinality(Entries(D, d)) = Cardinality(S)
    BY <2>1, <2>4, <2>5, <2>6, Matched
  <2> QED BY <1>3, <2>7 DEF S
<1>10. pending' = [d \in Loop |-> pending[d] + Cardinality(Entries(D, d))]
  <2> HIDE DEF D
  <2> QED BY <1>1, <1>9
<1>11. mail' = [l \in Loop |-> IF D[l] = <<>> THEN mail[l]
                               ELSE Append(mail[l], [op |-> "plan",
                                                     dests |-> D[l]])]
  BY <1>1
<1> HIDE DEF D
<1>12. PlansPosted(D)
  BY <1>7, <1>8, <1>10, <1>11 DEF PlansPosted
<1> QED BY <1>12

\* What plans do to a mailbox.
LEMMA PlannedMail ==
    ASSUME Shape, NEW D, PlansPosted(D), NEW l \in Loop
    PROVE  /\ mail[l] \in Seq(Mail) /\ mail'[l] \in Seq(Mail)
           /\ D[l] \in Seq(Loop)
           /\ D[l] = <<>> => mail'[l] = mail[l]
           /\ D[l] # <<>> =>
                 /\ mail'[l] = Append(mail[l], [op |-> "plan", dests |-> D[l]])
                 /\ DOMAIN mail'[l] = 1 .. Len(mail[l]) + 1
                 /\ mail'[l][Len(mail[l]) + 1] = [op |-> "plan", dests |-> D[l]]
           /\ DOMAIN mail[l] = 1 .. Len(mail[l]) /\ Len(mail[l]) \in Nat
           /\ \A i \in DOMAIN mail[l] : /\ i \in DOMAIN mail'[l]
                                        /\ mail'[l][i] = mail[l][i]
           /\ \A i \in DOMAIN mail'[l] \ DOMAIN mail[l] :
                mail'[l][i] = [op |-> "plan", dests |-> D[l]]
<1> DEFINE m == [op |-> "plan", dests |-> D[l]]
<1>1. mail[l] \in Seq(Mail)
  BY DEF Shape, Typed
<1>2. D[l] \in Seq(Loop)
  <2>1. D[l] \in Seq(Live) /\ Live \subseteq Loop
    BY DEF PlansPosted, Live
  <2> QED BY <2>1
<1>3. m \in Mail
  BY <1>2 DEF Mail
<1>4. mail'[l] = IF D[l] = <<>> THEN mail[l] ELSE Append(mail[l], m)
  BY DEF PlansPosted
<1>5. DOMAIN mail[l] = 1 .. Len(mail[l]) /\ Len(mail[l]) \in Nat
  BY <1>1, LenProperties
<1>6. /\ Append(mail[l], m) \in Seq(Mail)
      /\ DOMAIN Append(mail[l], m) = 1 .. Len(mail[l]) + 1
      /\ \A i \in 1 .. Len(mail[l]) : Append(mail[l], m)[i] = mail[l][i]
      /\ Append(mail[l], m)[Len(mail[l]) + 1] = m
  BY <1>1, <1>3, AppendProperties, LenProperties
<1> HIDE DEF m
<1>7. CASE D[l] = <<>>
  BY <1>1, <1>2, <1>4, <1>5, <1>7
<1>8. CASE D[l] # <<>>
  <2>1. \A i \in 1 .. Len(mail[l]) + 1 :
           i \in 1 .. Len(mail[l]) \/ i = Len(mail[l]) + 1
    BY <1>5
  <2>2. \A i \in 1 .. Len(mail[l]) : i \in 1 .. Len(mail[l]) + 1
    BY <1>5
  <2> QED BY <1>1, <1>2, <1>4, <1>5, <1>6, <1>8, <2>1, <2>2 DEF m
<1> QED BY <1>7, <1>8

\* Posting plans keeps the shapes.
LEMMA PlansShape ==
    ASSUME Shape, NEW D, PlansPosted(D),
           UNCHANGED <<life, connCount, holds, emptyTicks, conn, pausedConns,
                       req, resizes>>,
           tuner' = Idle \/ \E T \in SUBSET tuner.todo :
                              tuner' = [tuner EXCEPT !.todo = T],
           tuner.pc \notin {"load", "idle"}
    PROVE  Shape'
<1>1. mail' \in [Loop -> Seq(Mail)]
  <2>1. mail' = [l \in Loop |-> mail'[l]]
    BY DEF PlansPosted
  <2> QED BY <2>1, PlannedMail
<1>2. pending' \in [Loop -> Int]
  <2>1. \A l \in Loop : \E S : D[l] \in Seq(S)
    BY PlannedMail
  <2>2. \A d \in Loop : Cardinality(Entries(D, d)) \in Nat
    BY <2>1, EntriesFinite
  <2>3. pending \in [Loop -> Int]
    BY DEF Shape, Typed
  <2>4. pending' = [d \in Loop |-> pending[d] + Cardinality(Entries(D, d))]
    BY DEF PlansPosted
  <2> QED BY <2>2, <2>3, <2>4
<1>3. /\ tuner' \in TunerState /\ tuner'.pc # "load"
      /\ tuner'.pc = "idle" => tuner' = Idle
      /\ tuner'.todo \cup tuner'.stuck \subseteq Retiring
      /\ tuner'.todo \cap tuner'.stuck = {}
  <2>1. /\ tuner \in TunerState
        /\ tuner.todo \cup tuner.stuck \subseteq Retiring
        /\ tuner.todo \cap tuner.stuck = {}
    BY DEF Shape, Typed, TunerOK
  <2>2. CASE tuner' = Idle
    BY <2>2 DEF Idle, TunerState, MaybeLoop
  <2>3. ASSUME NEW T \in SUBSET tuner.todo, tuner' = [tuner EXCEPT !.todo = T]
        PROVE  /\ tuner' \in TunerState /\ tuner'.pc = tuner.pc
               /\ tuner'.todo = T /\ tuner'.stuck = tuner.stuck
    BY <2>1, <2>3 DEF TunerState
  <2> QED BY <2>1, <2>2, <2>3
<1>4. Typed'
  BY <1>1, <1>2, <1>3 DEF Shape, Typed
<1>5. TunerOK'
  BY <1>3 DEF TunerOK, Retiring, Idle
<1>6. SamePlaces /\ ReqOK' /\ ConnsOK'
  <2>1. SamePlaces
    BY DEF SamePlaces
  <2> QED BY <2>1, SamePlacesKeep DEF Shape, ConnsOK
<1>7. MailOK'
  <2>1. ASSUME NEW l \in Loop, NEW i \in DOMAIN mail'[l]
        PROVE  \/ i \in DOMAIN mail[l] /\ mail'[l][i] = mail[l][i]
               \/ mail'[l][i] = [op |-> "plan", dests |-> D[l]]
    BY PlannedMail
  <2>2. ASSUME NEW l \in Loop, NEW i \in DOMAIN mail'[l]
        PROVE  Expects(l, mail[l][i])'
    <3>1. PICK m : m = mail'[l][i]
      OBVIOUS
    <3>2. Expects(l, m)'
      <4>1. CASE i \in DOMAIN mail[l] /\ mail'[l][i] = mail[l][i]
        <5>1. Expects(l, m)
          BY <3>1, <4>1 DEF Shape, MailOK
        <5> QED BY <5>1 DEF Expects
      <4>2. CASE mail'[l][i] = [op |-> "plan", dests |-> D[l]]
        BY <3>1, <4>2 DEF Expects
      <4> QED BY <2>1, <4>1, <4>2
    <3> QED BY <3>1, <3>2 DEF Expects
  <2>3. ASSUME NEW l \in Loop, NEW i \in DOMAIN mail'[l],
               NEW k \in Loop, NEW j \in DOMAIN mail'[k],
               mail'[l][i].op # "plan", mail'[k][j].op # "plan",
               mail'[l][i].conn = mail'[k][j].conn
        PROVE  l = k /\ i = j
    <3>1. i \in DOMAIN mail[l] /\ mail'[l][i] = mail[l][i]
      <4>1. mail'[l][i] # [op |-> "plan", dests |-> D[l]]
        BY <2>3
      <4> QED BY <2>1, <4>1
    <3>2. j \in DOMAIN mail[k] /\ mail'[k][j] = mail[k][j]
      <4>1. mail'[k][j] # [op |-> "plan", dests |-> D[k]]
        BY <2>3
      <4> QED BY <2>1, <4>1
    <3> QED BY <2>3, <3>1, <3>2 DEF Shape, MailOK
  <2> QED BY <2>2, <2>3 DEF MailOK
<1> QED BY <1>4, <1>5, <1>6, <1>7 DEF Shape

\* The steps that post plans.
LEMMA PlanSteps ==
    ASSUME Shape,
           Rebalance \/ \E l \in Loop : PlanShrink(l) \/ PlanStuck(l)
    PROVE  /\ \E D : PlansPosted(D)
           /\ UNCHANGED <<life, connCount, holds, emptyTicks, conn,
                          pausedConns, req, resizes>>
           /\ \/ tuner' = Idle
              \/ \E T \in SUBSET tuner.todo : tuner' = [tuner EXCEPT !.todo = T]
           /\ tuner.pc \notin {"scan", "load", "idle"}
           /\ tuner'.pc \notin {"scan", "load"}
<1>1. CASE Rebalance
  <2>1. \E D : PlansPosted(D)
    BY <1>1, LevelPlans
  <2> QED BY <1>1, <2>1 DEF Rebalance, Idle
<1>2. ASSUME NEW l \in Loop, PlanShrink(l) \/ PlanStuck(l)
      PROVE  /\ \E D : PlansPosted(D)
             /\ UNCHANGED <<life, connCount, holds, emptyTicks, conn,
                            pausedConns, req, resizes>>
             /\ \/ tuner' = Idle
                \/ \E T \in SUBSET tuner.todo :
                     tuner' = [tuner EXCEPT !.todo = T]
             /\ tuner.pc \notin {"scan", "load", "idle"}
             /\ tuner'.pc \notin {"scan", "load"}
  <2>1. l \in tuner.todo /\ tuner' = Planned(l) /\ tuner.pc \in {"shrink", "replan"}
    BY <1>2 DEF PlanShrink, PlanStuck
  <2>2. PICK k \in Int : \E dests \in PlanMoves(k, Live) : PostMigrations(l, dests)
    <3>1. connCount[l] \in Int /\ Load(l) \in Int
      BY DEF Shape, Typed, Load
    <3> QED BY <1>2, <3>1 DEF PlanShrink, PlanStuck
  <2>3. PICK dests \in PlanMoves(k, Live) : PostMigrations(l, dests)
    BY <2>2
  <2>4. dests \in Seq(Live)
    BY <2>2, PlanIsSeq
  <2>5. Running(l)
    BY <2>1 DEF Shape, TunerOK, Retiring, Running
  <2>6. \E D : PlansPosted(D)
    BY <2>3, <2>4, <2>5, OnePlan
  <2>7. tuner.todo \ {l} \in SUBSET tuner.todo
    OBVIOUS
  <2>8. tuner'.pc \notin {"scan", "load"}
    <3>1. CASE tuner.todo = {l}
      BY <2>1, <3>1 DEF Planned, Idle
    <3>2. CASE tuner.todo # {l}
      <4>1. tuner' = [tuner EXCEPT !.todo = tuner.todo \ {l}]
        BY <2>1, <3>2 DEF Planned
      <4>2. tuner'.pc = tuner.pc
        BY <4>1 DEF Shape, Typed, TunerState
      <4> QED BY <2>1, <4>2
    <3> QED BY <3>1, <3>2
  <2> QED BY <1>2, <2>1, <2>6, <2>7, <2>8 DEF PlanShrink, PlanStuck, Planned
<1> QED BY <1>1, <1>2

---------------------------------------------------------------------------
(* The other steps of the tuner, and the end.                              *)

\* Growing keeps the shapes.
LEMMA GrowShape ==
    ASSUME Shape, Grow PROVE Shape'
<1>1. PICK new \in SUBSET {l \in Loop : life[l] = "unborn"} :
         life' = [l \in Loop |-> IF l \in new THEN "live" ELSE life[l]]
  BY DEF Grow
<1>2. /\ tuner' = [Idle EXCEPT !.pc = "rebalance"] /\ resizes' = resizes + 1
      /\ resizes < MaxResizes
      /\ UNCHANGED <<connCount, pending, holds, emptyTicks, mail, conn,
                     pausedConns, req>>
  BY DEF Grow, counters
<1>3. /\ tuner' \in TunerState /\ tuner'.todo = {} /\ tuner'.stuck = {}
      /\ tuner'.pc = "rebalance"
  BY <1>2 DEF Idle, TunerState, MaybeLoop
<1>4. resizes' \in 0..MaxResizes
  BY <1>2, Domain DEF Shape, Typed
<1>5. Typed'
  BY <1>1, <1>2, <1>3, <1>4 DEF Shape, Typed
<1>6. TunerOK'
  BY <1>3 DEF TunerOK
<1> QED BY <1>2, <1>5, <1>6, AsideShape

\* The loops that retire.
Retires(gone) ==
    /\ gone \subseteq Live
    /\ life' = [l \in Loop |-> IF l \in gone THEN "retiring" ELSE life[l]]
    /\ emptyTicks' = [l \in Loop |-> IF l \in gone THEN 0 ELSE emptyTicks[l]]
    /\ tuner' = [Idle EXCEPT !.pc = "shrink", !.todo = gone]

\* Shrink does that.
LEMMA ShrinkRetires ==
    ASSUME Shrink
    PROVE  /\ \E gone : Retires(gone)
           /\ resizes < MaxResizes /\ resizes' = resizes + 1
           /\ UNCHANGED <<connCount, pending, holds, mail, conn, pausedConns,
                          req>>
BY DEF Shrink, Retires, counters

\* Shrinking keeps the shapes.
LEMMA ShrinkShape ==
    ASSUME Shape, Shrink PROVE Shape'
<1>1. PICK gone : Retires(gone)
  BY ShrinkRetires
<1>2. gone \subseteq Loop
  BY <1>1 DEF Retires, Live
<1>3. /\ tuner' \in TunerState /\ tuner'.todo = gone /\ tuner'.stuck = {}
      /\ tuner'.pc = "shrink"
  <2>1. tuner' = [pc |-> "shrink", todo |-> gone, at |-> NoLoop, seen |-> 0,
                  stuck |-> {}]
    BY <1>1 DEF Retires, Idle
  <2>2. gone \in SUBSET Loop /\ {} \in SUBSET Loop /\ NoLoop \in MaybeLoop
    BY <1>2 DEF MaybeLoop
  <2> QED BY <2>1, <2>2 DEF TunerState
<1>4. resizes' \in 0..MaxResizes
  BY ShrinkRetires, Domain DEF Shape, Typed
<1>5. /\ life' \in [Loop -> {"unborn", "live", "retiring", "reaped", "stopped"}]
      /\ emptyTicks' \in [Loop -> 0..1]
  BY <1>1 DEF Shape, Typed, Retires
<1>6. Typed'
  BY <1>3, <1>4, <1>5, ShrinkRetires DEF Shape, Typed
<1>7. TunerOK'
  BY <1>1, <1>2, <1>3 DEF TunerOK, Retires, Retiring
<1> QED BY <1>6, <1>7, ShrinkRetires, AsideShape

\* A tick that starts keeps the shapes.
LEMMA ReapStartShape ==
    ASSUME Shape, ReapStart PROVE Shape'
<1>1. /\ tuner' = [Idle EXCEPT !.pc = "scan", !.todo = Retiring]
      /\ UNCHANGED <<life, connCount, pending, holds, emptyTicks, mail, conn,
                     pausedConns, req, resizes>>
  BY DEF ReapStart, loopVars, counters
<1>2. /\ tuner' \in TunerState /\ tuner'.todo = Retiring /\ tuner'.stuck = {}
      /\ tuner'.pc = "scan"
  <2>1. tuner' = [pc |-> "scan", todo |-> Retiring, at |-> NoLoop, seen |-> 0,
                  stuck |-> {}]
    BY <1>1 DEF Idle
  <2>2. Retiring \in SUBSET Loop /\ {} \in SUBSET Loop /\ NoLoop \in MaybeLoop
    BY DEF MaybeLoop, Retiring
  <2> QED BY <2>1, <2>2 DEF TunerState
<1>3. Typed' /\ TunerOK'
  BY <1>1, <1>2 DEF Shape, Typed, TunerOK, Retiring
<1> QED BY <1>1, <1>3, AsideShape

\* So does its read of a connection count.
LEMMA ReapReadShape ==
    ASSUME Shape, NEW l \in Loop, ReapRead(l) PROVE Shape'
<1>1. /\ tuner.pc = "scan" /\ l \in tuner.todo
      /\ tuner' = [tuner EXCEPT !.pc = "load", !.at = l, !.seen = connCount[l]]
      /\ UNCHANGED <<life, connCount, pending, holds, emptyTicks, mail, conn,
                     pausedConns, req, resizes>>
  BY DEF ReapRead, loopVars, counters
<1>2. tuner \in TunerState /\ connCount[l] \in Int
  BY DEF Shape, Typed
<1>3. /\ tuner' \in TunerState /\ tuner'.todo = tuner.todo
      /\ tuner'.stuck = tuner.stuck /\ tuner'.pc = "load" /\ tuner'.at = l
  BY <1>1, <1>2 DEF TunerState, MaybeLoop
<1>4. Typed' /\ TunerOK'
  BY <1>1, <1>3 DEF Shape, Typed, TunerOK, Retiring
<1> QED BY <1>1, <1>4, AsideShape

\* One tick looks at one loop: it ends, it is found empty, or it is not.
Decides(l, stuck, second) ==
    /\ l \in tuner.todo /\ l = tuner.at /\ l \in Loop
    /\ stuck = (tuner.seen + pending[l] > 0)
    /\ second = (~stuck /\ holds[l] = 0 /\ emptyTicks[l] = 1)
    /\ emptyTicks' = [emptyTicks EXCEPT ![l] =
                        IF ~stuck /\ holds[l] = 0 /\ ~second THEN 1 ELSE 0]
    /\ life' = [life EXCEPT ![l] = IF second THEN "reaped" ELSE @]
    /\ tuner' = [tuner EXCEPT !.pc = "scan", !.at = NoLoop, !.seen = 0,
                     !.todo = @ \ {l},
                     !.stuck = IF stuck THEN @ \cup {l} ELSE @]
    /\ UNCHANGED <<connCount, pending, holds, mail, conn, pausedConns, req,
                   resizes>>

\* ReapDecide does that.
LEMMA ReapDecides ==
    ASSUME Shape, ReapDecide
    PROVE  tuner.pc = "load" /\ \E l, stuck, second : Decides(l, stuck, second)
<1> DEFINE l == tuner.at
           stuck == tuner.seen + pending[l] > 0
           second == ~stuck /\ holds[l] = 0 /\ emptyTicks[l] = 1
<1>1. tuner.pc = "load" /\ l \in tuner.todo /\ l \in Loop
  BY DEF ReapDecide, Shape, TunerOK, Retiring
<1>2. Decides(l, stuck, second)
  BY <1>1 DEF ReapDecide, Decides, counters
<1> QED BY <1>1, <1>2

\* A decision keeps the shapes.
LEMMA ReapDecideShape ==
    ASSUME Shape, ReapDecide PROVE Shape'
<1>1. PICK l, stuck, second : Decides(l, stuck, second)
  BY ReapDecides
<1>2. tuner \in TunerState /\ l \in Loop /\ l \in tuner.todo
  BY <1>1 DEF Shape, Typed, Decides
<1>3. /\ tuner' \in TunerState /\ tuner'.todo = tuner.todo \ {l}
      /\ tuner'.stuck = (IF stuck THEN tuner.stuck \cup {l} ELSE tuner.stuck)
      /\ tuner'.pc = "scan"
  <2> DEFINE st == IF stuck THEN tuner.stuck \cup {l} ELSE tuner.stuck
             td == tuner.todo \ {l}
  <2>1. tuner' = [tuner EXCEPT !.pc = "scan", !.at = NoLoop, !.seen = 0,
                     !.todo = td, !.stuck = st]
    BY <1>1 DEF Decides
  <2>2. st \in SUBSET Loop /\ td \in SUBSET Loop /\ NoLoop \in MaybeLoop
    BY <1>2 DEF MaybeLoop, TunerState
  <2> HIDE DEF st, td
  <2>3. tuner' \in TunerState /\ tuner'.todo = td /\ tuner'.stuck = st
        /\ tuner'.pc = "scan"
    <3>1. tuner' = [pc |-> "scan", todo |-> td, at |-> NoLoop, seen |-> 0,
                    stuck |-> st]
      BY <1>2, <2>1 DEF TunerState
    <3> QED BY <2>2, <3>1 DEF TunerState
  <2> QED BY <2>3 DEF st, td
<1>4. stuck => ~second
  BY <1>1 DEF Decides
<1>5. /\ life' \in [Loop -> {"unborn", "live", "retiring", "reaped", "stopped"}]
      /\ emptyTicks' \in [Loop -> 0..1]
  BY <1>1, <1>2 DEF Shape, Typed, Decides
<1>6. Typed'
  BY <1>1, <1>3, <1>5 DEF Shape, Typed, Decides
<1>7. TunerOK'
  <2>1. /\ life \in [Loop -> {"unborn", "live", "retiring", "reaped", "stopped"}]
        /\ tuner.todo \cup tuner.stuck \subseteq Retiring
    BY DEF Shape, Typed, TunerOK
  <2>2. ASSUME NEW k \in tuner'.todo \cup tuner'.stuck PROVE k \in Retiring'
    <3>1. k \in Retiring /\ k \in Loop
      BY <1>2, <1>3, <2>1 DEF Retiring
    <3>2. life'[k] = life[k]
      <4>1. CASE k # l
        BY <1>1, <2>1, <3>1, <4>1 DEF Decides
      <4>2. CASE k = l
        <5>1. CASE ~second
          BY <1>1, <2>1, <3>1, <4>2, <5>1 DEF Decides
        <5>2. CASE second
          <6>1. ~stuck /\ k \in tuner.stuck
            BY <1>3, <1>4, <4>2, <5>2
          <6> QED BY <1>2, <4>2, <6>1 DEF Shape, TunerOK
        <5> QED BY <5>1, <5>2
      <4> QED BY <4>1, <4>2
    <3> QED BY <3>1, <3>2 DEF Retiring
  <2>3. tuner'.todo \cap tuner'.stuck = {}
    <3>1. tuner.todo \cap tuner.stuck = {}
      BY DEF Shape, TunerOK
    <3> QED BY <1>3, <3>1
  <2> QED BY <1>3, <2>2, <2>3 DEF TunerOK
<1>8. UNCHANGED <<mail, conn, req>>
  BY <1>1 DEF Decides
<1> QED BY <1>6, <1>7, <1>8, AsideShape

\* So does the end of a tick.
LEMMA ReapPlanShape ==
    ASSUME Shape, ReapPlan PROVE Shape'
<1>1. /\ \/ tuner' = Idle
         \/ tuner' = [Idle EXCEPT !.pc = "rebalance"]
         \/ tuner' = [Idle EXCEPT !.pc = "replan", !.todo = tuner.stuck]
      /\ UNCHANGED <<life, connCount, pending, holds, emptyTicks, mail, conn,
                     pausedConns, req, resizes>>
  BY DEF ReapPlan, loopVars, counters
<1>2. tuner.stuck \in SUBSET Loop /\ tuner.stuck \subseteq Retiring
  BY DEF Shape, Typed, TunerState, TunerOK
<1>3. /\ tuner' \in TunerState /\ tuner'.pc \in {"idle", "rebalance", "replan"}
      /\ tuner'.stuck = {} /\ tuner'.todo \subseteq Retiring
      /\ tuner'.pc = "idle" => tuner' = Idle
  <2>1. CASE tuner' = Idle
    BY <2>1 DEF Idle, TunerState, MaybeLoop
  <2>2. CASE tuner' = [Idle EXCEPT !.pc = "rebalance"]
    BY <2>2 DEF Idle, TunerState, MaybeLoop
  <2>3. CASE tuner' = [Idle EXCEPT !.pc = "replan", !.todo = tuner.stuck]
    <3>1. tuner' = [pc |-> "replan", todo |-> tuner.stuck, at |-> NoLoop,
                    seen |-> 0, stuck |-> {}]
      BY <2>3 DEF Idle
    <3> QED BY <1>2, <3>1 DEF TunerState, MaybeLoop
  <2> QED BY <1>1, <2>1, <2>2, <2>3
<1>4. Typed' /\ TunerOK'
  BY <1>1, <1>3 DEF Shape, Typed, TunerOK, Retiring, Idle
<1> QED BY <1>1, <1>4, AsideShape

\* Stopping the server keeps the shapes.
LEMMA StopShape ==
    ASSUME Shape, Stop PROVE Shape'
<1>1. /\ tuner.pc = "idle"
      /\ life' = [l \in Loop |-> IF Running(l) THEN "stopped" ELSE life[l]]
      /\ UNCHANGED <<connCount, pending, holds, emptyTicks, mail, conn,
                     pausedConns, req, tuner, resizes>>
  BY DEF Stop, counters
<1>2. tuner = Idle
  BY <1>1 DEF Shape, TunerOK
<1>3. TunerOK'
  BY <1>1, <1>2 DEF TunerOK, Idle
<1>4. Typed'
  BY <1>1 DEF Shape, Typed
<1> QED BY <1>1, <1>3, <1>4, AsideShape

\* Every step keeps the shape.
LEMMA ShapeKeeps == Shape /\ [Next]_vars => Shape'
<1> SUFFICES ASSUME Shape, [Next]_vars PROVE Shape'
  OBVIOUS
<1>1. ASSUME NEW c \in Conn, PickIOThread(c) \/ PostAccept(c) PROVE Shape'
  BY <1>1, PickShape, PostAcceptShape
<1>2. ASSUME NEW l \in Loop, LoopStep(l) PROVE Shape'
  BY <1>2, ArriveShape, RunPlanShape DEF LoopStep, Start, FinishAttach
<1>3. ASSUME NEW c \in Conn, NEW r \in Req, HandleGet(c, r) \/ HandleSet(c, r)
      PROVE  Shape'
  BY <1>3, HandleGetShape, HandleSetShape
<1>4. ASSUME NEW c \in Conn, ParseAndDispatch(c) \/ DispatchSession(c)
      PROVE  Shape'
  BY <1>4, ParseInPlace, SessionInPlace, InPlaceShape
<1>5. ASSUME NEW c \in Conn,
             PauseForQueue(c) \/ ResumeAfterQueue(c) \/ Destroy(c)
      PROVE  Shape'
  BY <1>5, PauseInPlace, ResumeInPlace, InPlaceShape, DestroyShape
<1>6. ASSUME NEW c \in Conn, ConnStep(c) \/ IOStep(c) PROVE Shape'
  <2>1. CASE MigrateWait(c)
    <3>1. pausedConns' \in Int
      BY <2>1, WaitInPlace DEF Shape, Typed
    <3> QED BY <2>1, <3>1, WaitInPlace, InPlaceShape
  <2> QED BY <1>6, <2>1, FlushInPlace, WrittenInPlace, InPlaceShape, DetachShape
          DEF ConnStep, IOStep
<1>7. ASSUME NEW r \in Req, Complete(r) \/ Respond(r) PROVE Shape'
  BY <1>7, CompleteShape, RespondShape
<1>8. CASE Grow \/ Shrink
  BY <1>8, GrowShape, ShrinkShape
<1>9. ASSUME Rebalance \/ \E l \in Loop : PlanShrink(l) \/ PlanStuck(l)
      PROVE  Shape'
  BY <1>9, PlanSteps, PlansShape
<1>10. CASE TunerStep
  BY <1>9, <1>10, ReapStartShape, ReapDecideShape, ReapPlanShape, ReapReadShape
     DEF TunerStep
<1>11. CASE Stop
  BY <1>11, StopShape
<1>12. CASE UNCHANGED vars
  <2>1. UNCHANGED <<mail, conn, req>> /\ Typed' /\ TunerOK'
    BY <1>12 DEF Shape, Typed, TunerOK, Retiring, vars, loopVars, counters
  <2> QED BY <2>1, AsideShape
<1> QED BY <1>1, <1>2, <1>3, <1>4, <1>5, <1>6, <1>7, <1>8, <1>9, <1>10, <1>11,
           <1>12 DEF Next, Stopped

\* The shape of the state is kept by every step.
THEOREM ShapeInvariant == Spec => []Shape
BY InitShape, ShapeKeeps, PTL DEF Spec

---------------------------------------------------------------------------
(* Migrations are watched.                                                 *)

\* A step that changes one connection, and answers no request of another.
LEMMA WatchedOne ==
    ASSUME Shape, Watched, NEW c \in Conn, NEW s \in Connection, Becomes(c, s),
           \A d \in Conn \ {c} : Outstanding(d) # {} => Outstanding(d)' # {},
           s.target # NoLoop => \/ s.check \/ s.unsent \/ s.inflight
                                \/ Outstanding(c)' # {}
    PROVE  Watched'
<1>1. conn'[c] = s /\ \A d \in Conn \ {c} : conn'[d] = conn[d]
  BY DEF Shape, Typed, Becomes
<1> SUFFICES ASSUME NEW d \in Conn, conn'[d].target # NoLoop
             PROVE  \/ conn'[d].check \/ conn'[d].unsent \/ conn'[d].inflight
                    \/ Outstanding(d)' # {}
  BY DEF Watched, Migrating, Quiescent
<1>2. CASE d = c
  BY <1>1, <1>2
<1>3. CASE d # c
  BY <1>1, <1>3 DEF Watched, Migrating, Quiescent
<1> QED BY <1>2, <1>3

\* Steps that leave requests alone.
LEMMA SameOutstanding ==
    ASSUME UNCHANGED req, NEW d PROVE Outstanding(d)' = Outstanding(d)
BY DEF Outstanding

\* A connection that stays where it is stays watched.
LEMMA InPlaceWatched ==
    ASSUME Shape, Watched, NEW c \in Conn,
           \/ ParseAndDispatch(c) \/ DispatchSession(c) \/ PauseForQueue(c)
           \/ ResumeAfterQueue(c) \/ FlushPending(c) \/ WriteSuccess(c)
           \/ MigrateWait(c)
    PROVE  Watched'
<1>1. UNCHANGED req /\ conn[c].st = "open" /\ conn[c] \in Connection
      /\ ConnOK(conn[c])
  BY ConnFields DEF ParseAndDispatch, DispatchSession, PauseForQueue,
     ResumeAfterQueue, FlushPending, WriteSuccess, MigrateWait, OnLoop
<1>2. \A d \in Conn : Outstanding(d)' = Outstanding(d)
  BY <1>1, SameOutstanding
<1>3. conn[c].target # NoLoop => \/ conn[c].check \/ conn[c].unsent
                                 \/ conn[c].inflight \/ Outstanding(c) # {}
  BY DEF Watched, Migrating, Quiescent
<1>4. CASE ParseAndDispatch(c)
  <2> DEFINE s == [conn[c] EXCEPT !.unsent = TRUE]
  <2>1. InPlace(c, s) /\ s.unsent
    BY <1>1, <1>4, ParseInPlace DEF Connection
  <2> QED BY <1>2, <2>1, WatchedOne DEF InPlace
<1>5. CASE DispatchSession(c)
  <2> DEFINE s == [conn[c] EXCEPT !.inflight = TRUE]
  <2>1. InPlace(c, s) /\ s.inflight
    BY <1>1, <1>5, SessionInPlace DEF Connection
  <2> QED BY <1>2, <2>1, WatchedOne DEF InPlace
<1>6. CASE PauseForQueue(c)
  <2> DEFINE s == [conn[c] EXCEPT !.reading = FALSE, !.paused = TRUE,
                                  !.timer = TRUE]
  <2>1. InPlace(c, s)
    BY <1>6, PauseInPlace
  <2>2. s.target = NoLoop
    <3>1. conn[c].reading
      BY <1>6 DEF PauseForQueue
    <3>2. conn[c].target = NoLoop
      BY <1>1, <3>1 DEF ConnOK, Busy
    <3> QED BY <2>1, <3>2 DEF InPlace
  <2> HIDE DEF s
  <2> QED BY <1>2, <2>1, <2>2, WatchedOne DEF InPlace
<1>7. CASE ResumeAfterQueue(c)
  <2> DEFINE s == [conn[c] EXCEPT !.timer = FALSE, !.paused = FALSE,
                                  !.reading = ~Migrating(c)]
  <2>1. /\ InPlace(c, s) /\ s.check = conn[c].check /\ s.target = conn[c].target
        /\ s.unsent = conn[c].unsent /\ s.inflight = conn[c].inflight
    BY <1>1, <1>7, ResumeInPlace DEF Connection
  <2> HIDE DEF s
  <2> QED BY <1>2, <1>3, <2>1, WatchedOne DEF InPlace
<1>8. CASE FlushPending(c)
  <2> DEFINE s == [conn[c] EXCEPT !.unsent = FALSE, !.inflight = TRUE]
  <2>1. InPlace(c, s) /\ s.inflight
    BY <1>1, <1>8, FlushInPlace DEF Connection
  <2> QED BY <1>2, <2>1, WatchedOne DEF InPlace
<1>9. CASE WriteSuccess(c)
  <2> DEFINE s == [conn[c] EXCEPT !.inflight = FALSE, !.check = Migrating(c)]
  <2>1. InPlace(c, s) /\ s.check = Migrating(c) /\ s.target = conn[c].target
    BY <1>1, <1>9, WrittenInPlace DEF Connection
  <2> HIDE DEF s
  <2> QED BY <1>2, <2>1, WatchedOne DEF InPlace, Migrating
<1>10. CASE MigrateWait(c)
  <2>1. PICK s \in Connection :
          InPlace(c, s) /\ (s.unsent \/ s.inflight \/ Outstanding(c) # {})
    BY <1>10, WaitInPlace
  <2> QED BY <1>2, <2>1, WatchedOne DEF InPlace
<1> QED BY <1>4, <1>5, <1>6, <1>7, <1>8, <1>9, <1>10

\* So do the others when one comes, leaves or closes.
LEMMA MovesWatched ==
    ASSUME Shape, Watched, NEW c \in Conn,
           PickIOThread(c) \/ PostAccept(c) \/ Detach(c) \/ Destroy(c)
    PROVE  Watched'
<1>1. UNCHANGED req
  BY DEF PickIOThread, PostAccept, Detach, Destroy
<1>2. \A d \in Conn : Outstanding(d)' = Outstanding(d)
  BY <1>1, SameOutstanding
<1>3. conn[c] \in Connection /\ ConnOK(conn[c])
  BY ConnFields
<1>4. CASE PickIOThread(c)
  <2>1. PICK l \in Live :
          conn' = [conn EXCEPT ![c].st = "picked", ![c].loop = l]
    BY <1>4 DEF PickIOThread
  <2> DEFINE s == [conn[c] EXCEPT !.st = "picked", !.loop = l]
  <2>2. conn[c].target = NoLoop
    BY <1>3, <1>4 DEF PickIOThread, ConnOK, AtRest
  <2>3. s \in Connection /\ s.target = NoLoop /\ Becomes(c, s)
    BY <1>3, <2>1, <2>2 DEF Connection, Live, MaybeLoop, Becomes
  <2> HIDE DEF s
  <2> QED BY <1>2, <2>3, WatchedOne
<1>5. CASE PostAccept(c)
  <2> DEFINE s == [conn[c] EXCEPT !.st = "posted"]
  <2>1. conn[c].target = NoLoop
    BY <1>3, <1>5 DEF PostAccept, ConnOK, AtRest
  <2>2. s \in Connection /\ s.target = NoLoop /\ Becomes(c, s)
    BY <1>3, <1>5, <2>1 DEF Connection, PostAccept, Becomes
  <2> HIDE DEF s
  <2> QED BY <1>2, <2>2, WatchedOne
<1>6. CASE Detach(c)
  <2>1. PICK s \in Connection : Becomes(c, s) /\ s.target = NoLoop
    BY <1>6, DetachConn
  <2> QED BY <1>2, <2>1, WatchedOne
<1>7. CASE Destroy(c)
  <2>1. PICK s \in Connection : Becomes(c, s) /\ s.target = NoLoop
    BY <1>7, DestroyConn
  <2> QED BY <1>2, <2>1, WatchedOne
<1> QED BY <1>4, <1>5, <1>6, <1>7

\* A migration starts watched.
LEMMA LoopWatched ==
    ASSUME Shape, Watched, NEW l \in Loop, LoopStep(l) PROVE Watched'
<1>1. UNCHANGED req
  BY DEF LoopStep, Start, FinishAttach, Arrive, RunPlan
<1>2. \A d \in Conn : Outstanding(d)' = Outstanding(d)
  BY <1>1, SameOutstanding
<1>3. ASSUME NEW op \in {"accept", "attach"}, Arrive(l, op) PROVE Watched'
  <2>1. PICK c \in Conn :
          /\ AtRest(conn[c])
          /\ Becomes(c, [conn[c] EXCEPT !.st = "open", !.loop = l,
                                        !.reading = TRUE])
    BY <1>3, ArriveConn
  <2> DEFINE s == [conn[c] EXCEPT !.st = "open", !.loop = l, !.reading = TRUE]
  <2>2. conn[c] \in Connection
    BY ConnFields
  <2>3. s \in Connection /\ s.target = NoLoop
    BY <2>1, <2>2 DEF Connection, AtRest, MaybeLoop
  <2> HIDE DEF s
  <2> QED BY <1>2, <2>1, <2>3, WatchedOne DEF s
<1>4. CASE RunPlan(l)
  <2>1. PICK dests, k, q : Runs(l, dests, k, q)
    BY <1>4, RunPlanRuns
  <2> SUFFICES ASSUME NEW d \in Conn, conn'[d].target # NoLoop
               PROVE  \/ conn'[d].check \/ conn'[d].unsent \/ conn'[d].inflight
                      \/ Outstanding(d)' # {}
    BY DEF Watched, Migrating, Quiescent
  <2>2. CASE conn'[d] = conn[d]
    BY <1>2, <2>2 DEF Watched, Migrating, Quiescent
  <2>3. CASE conn'[d] # conn[d]
    BY <2>1, <2>3, RunsConn, MigrateFields
  <2> QED BY <2>2, <2>3
<1> QED BY <1>3, <1>4 DEF LoopStep, Start, FinishAttach

\* A request keeps its connection watched, and so does its answer.
LEMMA RequestWatched ==
    ASSUME Shape, Watched, NEW r \in Req,
           \/ \E c \in Conn : HandleGet(c, r) \/ HandleSet(c, r)
           \/ Complete(r) \/ Respond(r)
    PROVE  Watched'
<1>1. req \in [Req -> Request] /\ req[r] \in Request
  BY DEF Shape, Typed
<1>2. ASSUME NEW c \in Conn, HandleGet(c, r) \/ HandleSet(c, r) PROVE Watched'
  <2>1. /\ UNCHANGED conn /\ req[r].st = "none"
        /\ \A p \in Req \ {r} : req'[p] = req[p]
    BY <1>1, <1>2 DEF HandleGet, HandleSet, ToEngine
  <2>2. \A d \in Conn : Outstanding(d) \subseteq Outstanding(d)'
    BY <2>1 DEF Outstanding
  <2> QED BY <2>1, <2>2 DEF Watched, Migrating, Quiescent
<1>3. CASE Complete(r)
  <2>1. /\ UNCHANGED conn /\ req'[r].st = "posted" /\ req'[r].conn = req[r].conn
        /\ \A p \in Req \ {r} : req'[p] = req[p]
    BY <1>1, <1>3 DEF Complete, Request
  <2>2. \A d \in Conn : Outstanding(d) \subseteq Outstanding(d)'
    BY <2>1 DEF Outstanding
  <2> QED BY <2>1, <2>2 DEF Watched, Migrating, Quiescent
<1>4. CASE Respond(r)
  <2>1. PICK c, l, s : Responds(r, c, l, s)
    BY <1>4, RespondDoes
  <2>2. c \in Conn /\ s \in Connection /\ Becomes(c, s) /\ ConnOK(s)
    BY <2>1 DEF Responds
  <2>3. \A p \in Req \ {r} : req'[p] = req[p]
    BY <1>1, <2>1 DEF Responds
  <2>4. ASSUME NEW d \in Conn \ {c} PROVE Outstanding(d) \subseteq Outstanding(d)'
    <3>1. r \notin Outstanding(d)
      BY <2>1 DEF Responds, Outstanding
    <3> QED BY <2>3, <3>1 DEF Outstanding
  <2>5. s.target # NoLoop => s.unsent
    BY <2>1, <2>2 DEF Responds, ConnOK, AtRest
  <2> QED BY <2>2, <2>4, <2>5, WatchedOne
<1> QED BY <1>2, <1>3, <1>4

\* Every step keeps migrations watched.
LEMMA WatchedKeeps == Shape /\ Watched /\ [Next]_vars => Watched'
<1> SUFFICES ASSUME Shape, Watched, [Next]_vars PROVE Watched'
  OBVIOUS
<1>1. CASE UNCHANGED <<conn, req>>
  BY <1>1 DEF Watched, Migrating, Quiescent, Outstanding
<1>2. CASE Grow \/ Shrink \/ Rebalance \/ Stop \/ Stopped \/ UNCHANGED vars
  BY <1>1, <1>2 DEF Grow, Shrink, Rebalance, Stop, Stopped, vars
<1>3. CASE TunerStep
  BY <1>1, <1>3 DEF TunerStep, ReapStart, ReapDecide, ReapPlan, PlanShrink,
     ReapRead, PlanStuck
<1> QED BY <1>2, <1>3, InPlaceWatched, MovesWatched, LoopWatched, RequestWatched
        DEF Next, ConnStep, IOStep

---------------------------------------------------------------------------
(* Counting.                                                               *)

Bit(b) == IF b THEN 1 ELSE 0

\* A set that gains or loses at most one element.
LEMMA CountOne ==
    ASSUME NEW S, NEW T, NEW c, IsFiniteSet(S), S \ {c} = T \ {c}
    PROVE  /\ IsFiniteSet(T)
           /\ Cardinality(S) \in Nat /\ Cardinality(T) \in Nat
           /\ Cardinality(T) = Cardinality(S) + Bit(c \in T) - Bit(c \in S)
<1> DEFINE R == S \ {c}
<1>1. IsFiniteSet(R)
  BY FS_Difference
<1>2. c \notin R
  OBVIOUS
<1>3. /\ S = IF c \in S THEN R \cup {c} ELSE R
      /\ T = IF c \in T THEN R \cup {c} ELSE R
  OBVIOUS
<1> HIDE DEF R
<1>4. /\ IsFiniteSet(R \cup {c}) /\ Cardinality(R) \in Nat
      /\ Cardinality(R \cup {c}) = Cardinality(R) + 1
  BY <1>1, <1>2, FS_AddElement, FS_CardinalityType
<1>5. PICK n \in Nat : n = Cardinality(R)
  BY <1>4
<1>6. Cardinality(S) = n + Bit(c \in S)
  <2>1. CASE c \in S
    BY <1>3, <1>4, <1>5, <2>1 DEF Bit
  <2>2. CASE c \notin S
    BY <1>3, <1>4, <1>5, <2>2 DEF Bit
  <2> QED BY <2>1, <2>2
<1>7. Cardinality(T) = n + Bit(c \in T) /\ IsFiniteSet(T)
  <2>1. CASE c \in T
    <3>1. T = R \cup {c} /\ Bit(c \in T) = 1
      BY <1>3, <2>1 DEF Bit
    <3> QED BY <1>4, <1>5, <3>1
  <2>2. CASE c \notin T
    <3>1. T = R /\ Bit(c \in T) = 0
      BY <1>3, <2>2 DEF Bit
    <3> QED BY <1>1, <1>5, <3>1
  <2> QED BY <2>1, <2>2
<1>8. Bit(c \in S) \in Nat /\ Bit(c \in T) \in Nat
  BY DEF Bit
<1>9. \A x, y \in Nat : n + y = (n + x) + y - x /\ n + x \in Nat /\ n + y \in Nat
  OBVIOUS
<1> QED BY <1>6, <1>7, <1>8, <1>9

\* A set and what comes on top of it.
LEMMA AddOn ==
    ASSUME NEW S, NEW N, IsFiniteSet(S), IsFiniteSet(N), S \cap N = {}
    PROVE  /\ IsFiniteSet(S \cup N)
           /\ Cardinality(S \cup N) = Cardinality(S) + Cardinality(N)
           /\ Cardinality(S) \in Nat /\ Cardinality(N) \in Nat
<1>1. /\ IsFiniteSet(S \cup N)
      /\ Cardinality(S \cup N)
           = Cardinality(S) + Cardinality(N) - Cardinality(S \cap N)
  BY FS_Union
<1>2. Cardinality(S \cap N) = 0
  BY FS_EmptySet
<1>3. Cardinality(S) \in Nat /\ Cardinality(N) \in Nat
  BY FS_CardinalityType
<1> QED BY <1>1, <1>2, <1>3

\* The connections a loop waits for, those on the way to it, those that pause.
Accepts(l) == {c \in Conn : /\ conn[c].st \in {"picked", "posted"}
                            /\ conn[c].loop = l}
Targets(l) == {c \in Conn : conn[c].target = l}
Pauses == {c \in Conn : conn[c].paused}

\* These sets are finite.
LEMMA ConnsFinite ==
    ASSUME NEW l
    PROVE  /\ IsFiniteSet(OpenOn(l)) /\ IsFiniteSet(Accepts(l))
           /\ IsFiniteSet(Targets(l)) /\ IsFiniteSet(Pauses)
<1>1. /\ OpenOn(l) \subseteq Conn /\ Accepts(l) \subseteq Conn
      /\ Targets(l) \subseteq Conn /\ Pauses \subseteq Conn
  BY DEF OpenOn, Accepts, Targets, Pauses
<1> QED BY <1>1, Domain, FS_Subset

\* One connection changes: each set gains or loses it.
LEMMA BecomesCounts ==
    ASSUME Shape, NEW c \in Conn, NEW s \in Connection, Becomes(c, s),
           NEW l \in Loop
    PROVE  /\ Cardinality(OpenOn(l)') = Cardinality(OpenOn(l))
                + Bit(s.st = "open" /\ s.loop = l)
                - Bit(conn[c].st = "open" /\ conn[c].loop = l)
           /\ Cardinality(Accepts(l)') = Cardinality(Accepts(l))
                + Bit(s.st \in {"picked", "posted"} /\ s.loop = l)
                - Bit(conn[c].st \in {"picked", "posted"} /\ conn[c].loop = l)
           /\ Cardinality(Targets(l)') = Cardinality(Targets(l))
                + Bit(s.target = l) - Bit(conn[c].target = l)
           /\ Cardinality(Pauses') = Cardinality(Pauses)
                + Bit(s.paused) - Bit(conn[c].paused)
<1>1. conn'[c] = s /\ \A d \in Conn \ {c} : conn'[d] = conn[d]
  BY DEF Shape, Typed, Becomes
<1>2. /\ OpenOn(l)' \ {c} = OpenOn(l) \ {c}
      /\ Accepts(l)' \ {c} = Accepts(l) \ {c}
      /\ Targets(l)' \ {c} = Targets(l) \ {c}
      /\ Pauses' \ {c} = Pauses \ {c}
  BY <1>1 DEF OpenOn, Accepts, Targets, Pauses
<1>3. /\ c \in OpenOn(l)' <=> s.st = "open" /\ s.loop = l
      /\ c \in OpenOn(l) <=> conn[c].st = "open" /\ conn[c].loop = l
      /\ c \in Accepts(l)' <=> s.st \in {"picked", "posted"} /\ s.loop = l
      /\ c \in Accepts(l) <=>
           conn[c].st \in {"picked", "posted"} /\ conn[c].loop = l
      /\ c \in Targets(l)' <=> s.target = l
      /\ c \in Targets(l) <=> conn[c].target = l
      /\ c \in Pauses' <=> s.paused
      /\ c \in Pauses <=> conn[c].paused
  BY <1>1 DEF OpenOn, Accepts, Targets, Pauses
<1>4. Cardinality(OpenOn(l)') = Cardinality(OpenOn(l))
        + Bit(c \in OpenOn(l)') - Bit(c \in OpenOn(l))
  BY <1>2, ConnsFinite, CountOne
<1>5. Cardinality(Accepts(l)') = Cardinality(Accepts(l))
        + Bit(c \in Accepts(l)') - Bit(c \in Accepts(l))
  BY <1>2, ConnsFinite, CountOne
<1>6. Cardinality(Targets(l)') = Cardinality(Targets(l))
        + Bit(c \in Targets(l)') - Bit(c \in Targets(l))
  BY <1>2, ConnsFinite, CountOne
<1>7. Cardinality(Pauses') = Cardinality(Pauses)
        + Bit(c \in Pauses') - Bit(c \in Pauses)
  BY <1>2, ConnsFinite, CountOne
<1> QED BY <1>3, <1>4, <1>5, <1>6, <1>7 DEF Bit

\* The disjoint union of finitely many finite sets is finite.
LEMMA DisjointFinite ==
    ASSUME NEW f, IsFiniteSet(DOMAIN f), \A x \in DOMAIN f : IsFiniteSet(f[x])
    PROVE  IsFiniteSet(Disjoint(f))
<1> DEFINE F == {{x} \X f[x] : x \in DOMAIN f}
           g == [x \in DOMAIN f |-> {x} \X f[x]]
<1>1. g \in Surjection(DOMAIN f, F)
  BY DEF Surjection
<1>2. IsFiniteSet(F)
  BY <1>1, FS_Surjection
<1>3. ASSUME NEW Y \in F PROVE IsFiniteSet(Y)
  <2>1. PICK x \in DOMAIN f : Y = {x} \X f[x]
    BY <1>3
  <2> QED BY <2>1, FS_Singleton, FS_Product
<1>4. IsFiniteSet(UNION F)
  BY <1>2, <1>3, FS_UNION
<1> QED BY <1>4 DEF Disjoint

\* What mailboxes M hold for d.
Boxes(M, d) ==
    Disjoint([k \in Loop |->
                Disjoint([i \in DOMAIN M[k] |-> Reserves(k, M[k][i], d)])])

\* Its elements.
LEMMA InBoxes ==
    ASSUME NEW M, NEW d, NEW e
    PROVE  e \in Boxes(M, d) <=>
             \E k \in Loop : \E i \in DOMAIN M[k] :
               \E j \in Reserves(k, M[k][i], d) : e = <<k, <<i, j>>>>
<1> DEFINE g(k) == [i \in DOMAIN M[k] |-> Reserves(k, M[k][i], d)]
           f == [k \in Loop |-> Disjoint(g(k))]
<1>1. ASSUME NEW k, NEW p
      PROVE  p \in Disjoint(g(k)) <=>
               \E i \in DOMAIN M[k] :
                 \E j \in Reserves(k, M[k][i], d) : p = <<i, j>>
  <2>1. Disjoint(g(k)) = UNION {{x} \X g(k)[x] : x \in DOMAIN M[k]}
    BY DEF Disjoint
  <2> QED BY <2>1
<1>2. Disjoint(f) = UNION {{x} \X f[x] : x \in Loop}
  BY DEF Disjoint
<1>3. e \in Disjoint(f) <=> \E k \in Loop : \E p \in Disjoint(g(k)) : e = <<k, p>>
  <2> HIDE DEF g
  <2> QED BY <1>2
<1>4. e \in Disjoint(f) <=>
        \E k \in Loop : \E i \in DOMAIN M[k] :
          \E j \in Reserves(k, M[k][i], d) : e = <<k, <<i, j>>>>
  <2> HIDE DEF g, f
  <2> QED BY <1>1, <1>3
<1> QED BY <1>4 DEF Boxes

\* What the mailboxes hold for d, before a step and after it.
LEMMA InMailOf ==
    ASSUME NEW d, NEW e
    PROVE  /\ e \in InMail(d) <=>
                \E k \in Loop : \E i \in DOMAIN mail[k] :
                  \E j \in Reserves(k, mail[k][i], d) : e = <<k, <<i, j>>>>
           /\ e \in InMail(d)' <=>
                \E k \in Loop : \E i \in DOMAIN mail'[k] :
                  \E j \in Reserves(k, mail'[k][i], d) : e = <<k, <<i, j>>>>
<1>1. InMail(d) = Boxes(mail, d)
  BY DEF InMail, Boxes
<1>2. InMail(d)' = Boxes(mail', d)
  BY DEF InMail, Boxes, Disjoint, Reserves
<1> QED BY <1>1, <1>2, InBoxes

\* What messages reserve is finite.
LEMMA InMailFinite ==
    ASSUME Shape, NEW d
    PROVE  /\ IsFiniteSet(InMail(d))
           /\ \A k \in Loop, m \in Mail : IsFiniteSet(Reserves(k, m, d))
<1>1. ASSUME NEW k \in Loop, NEW m \in Mail PROVE IsFiniteSet(Reserves(k, m, d))
  <2>1. CASE m.op = "plan"
    <3>1. m.dests \in Seq(Loop)
      BY <2>1 DEF Mail
    <3>2. DOMAIN m.dests = 1 .. Len(m.dests) /\ Len(m.dests) \in Int /\ 1 \in Int
      BY <3>1, LenProperties
    <3>3. IsFiniteSet(DOMAIN m.dests)
      BY <3>2, FS_Interval
    <3>4. Reserves(k, m, d) \subseteq DOMAIN m.dests
      BY <2>1 DEF Reserves
    <3> QED BY <3>3, <3>4, FS_Subset
  <2>2. CASE m.op # "plan"
    <3>1. Reserves(k, m, d) \subseteq {k}
      BY <2>2 DEF Reserves
    <3> QED BY <3>1, FS_Singleton, FS_Subset
  <2> QED BY <2>1, <2>2
<1> DEFINE g(k) == [i \in DOMAIN mail[k] |-> Reserves(k, mail[k][i], d)]
           f == [k \in Loop |-> Disjoint(g(k))]
<1>2. ASSUME NEW k \in Loop PROVE IsFiniteSet(Disjoint(g(k)))
  <2>1. mail[k] \in Seq(Mail)
    BY DEF Shape, Typed
  <2>2. DOMAIN mail[k] = 1 .. Len(mail[k]) /\ Len(mail[k]) \in Int /\ 1 \in Int
    BY <2>1, LenProperties
  <2>3. IsFiniteSet(DOMAIN mail[k])
    BY <2>2, FS_Interval
  <2>4. \A i \in DOMAIN mail[k] : mail[k][i] \in Mail
    BY <2>1
  <2>5. DOMAIN g(k) = DOMAIN mail[k]
        /\ \A i \in DOMAIN mail[k] : IsFiniteSet(g(k)[i])
    BY <1>1, <2>4
  <2> HIDE DEF g
  <2> QED BY <2>3, <2>5, DisjointFinite
<1>3. DOMAIN f = Loop /\ \A k \in Loop : IsFiniteSet(f[k])
  BY <1>2
<1>4. InMail(d) = Disjoint(f)
  BY DEF InMail
<1> HIDE DEF f
<1> QED BY <1>1, <1>3, <1>4, Domain, DisjointFinite

\* Posting a message adds what it reserves.
LEMMA PostCounts ==
    ASSUME Shape, NEW l \in Loop, NEW m \in Mail, Post(l, m), NEW d
    PROVE  /\ Cardinality(InMail(d)')
                = Cardinality(InMail(d)) + Cardinality(Reserves(l, m, d))
           /\ Cardinality(InMail(d)) \in Nat
           /\ Cardinality(Reserves(l, m, d)) \in Nat
<1> DEFINE R == Reserves(l, m, d)
           n == Len(mail[l]) + 1
           N == {<<l, <<n, j>>>> : j \in R}
           f == [j \in R |-> <<l, <<n, j>>>>]
<1>1. /\ DOMAIN mail'[l] = 1 .. Len(mail[l]) + 1
      /\ DOMAIN mail[l] = 1 .. Len(mail[l]) /\ Len(mail[l]) \in Nat
      /\ mail'[l][Len(mail[l]) + 1] = m
      /\ \A i \in DOMAIN mail[l] : mail'[l][i] = mail[l][i]
      /\ \A k \in Loop \ {l} : mail'[k] = mail[k]
  BY PostedMail
<1>2. n \notin DOMAIN mail[l] /\ DOMAIN mail'[l] = DOMAIN mail[l] \cup {n}
      /\ mail'[l][n] = m
  BY <1>1
<1>3. InMail(d)' = InMail(d) \cup N
  <2> HIDE DEF n
  <2>1. ASSUME NEW e \in InMail(d)' PROVE e \in InMail(d) \cup N
    <3>1. PICK k \in Loop : \E i \in DOMAIN mail'[k] :
            \E j \in Reserves(k, mail'[k][i], d) : e = <<k, <<i, j>>>>
      BY InMailOf
    <3>2. PICK i \in DOMAIN mail'[k] :
            \E j \in Reserves(k, mail'[k][i], d) : e = <<k, <<i, j>>>>
      BY <3>1
    <3>3. CASE k = l /\ i = n
      BY <1>2, <3>2, <3>3
    <3>4. CASE ~(k = l /\ i = n)
      <4>1. i \in DOMAIN mail[k] /\ mail'[k][i] = mail[k][i]
        BY <1>1, <1>2, <3>2, <3>4
      <4> QED BY <3>2, <4>1, InMailOf
    <3> QED BY <3>3, <3>4
  <2>2. ASSUME NEW e \in InMail(d) PROVE e \in InMail(d)'
    <3>1. PICK k \in Loop : \E i \in DOMAIN mail[k] :
            \E j \in Reserves(k, mail[k][i], d) : e = <<k, <<i, j>>>>
      BY InMailOf
    <3>2. PICK i \in DOMAIN mail[k] :
            \E j \in Reserves(k, mail[k][i], d) : e = <<k, <<i, j>>>>
      BY <3>1
    <3>3. i \in DOMAIN mail'[k] /\ mail'[k][i] = mail[k][i]
      BY <1>1, <1>2, <3>2
    <3> QED BY <3>2, <3>3, InMailOf
  <2>3. ASSUME NEW e \in N PROVE e \in InMail(d)'
    <3>1. PICK j \in R : e = <<l, <<n, j>>>>
      BY <2>3
    <3>2. n \in DOMAIN mail'[l] /\ j \in Reserves(l, mail'[l][n], d)
      BY <1>2, <3>1
    <3> QED BY <3>1, <3>2, InMailOf
  <2> QED BY <2>1, <2>2, <2>3
<1>4. InMail(d) \cap N = {}
  <2> HIDE DEF n
  <2> SUFFICES ASSUME NEW e \in InMail(d), e \in N PROVE FALSE
    OBVIOUS
  <2>1. PICK k \in Loop : \E i \in DOMAIN mail[k] :
          \E j \in Reserves(k, mail[k][i], d) : e = <<k, <<i, j>>>>
    BY InMailOf
  <2> QED BY <1>2, <2>1
<1>5. IsFiniteSet(R) /\ IsFiniteSet(InMail(d))
  BY InMailFinite
<1>6. /\ f \in [R -> N] /\ \A a, b \in R : f[a] = f[b] => a = b
      /\ \A t \in N : \E a \in R : f[a] = t
  OBVIOUS
<1> HIDE DEF f, N, R
<1>7. IsFiniteSet(N) /\ Cardinality(N) = Cardinality(R)
  BY <1>5, <1>6, Matched
<1>8. Cardinality(InMail(d) \cup N) = Cardinality(InMail(d)) + Cardinality(N)
      /\ Cardinality(InMail(d)) \in Nat /\ Cardinality(N) \in Nat
  BY <1>4, <1>5, <1>7, AddOn
<1> QED BY <1>3, <1>7, <1>8 DEF R

\* So do posted plans.
LEMMA PlansCount ==
    ASSUME Shape, NEW D, PlansPosted(D), NEW d
    PROVE  /\ Cardinality(InMail(d)')
                = Cardinality(InMail(d)) + Cardinality(Entries(D, d))
           /\ Cardinality(InMail(d)) \in Nat
           /\ Cardinality(Entries(D, d)) \in Nat
<1> DEFINE E == Entries(D, d)
           At(k) == Len(mail[k]) + 1
           N == {<<p[1], <<At(p[1]), p[2]>>>> : p \in E}
           f == [p \in E |-> <<p[1], <<At(p[1]), p[2]>>>>]
<1>1. ASSUME NEW k \in Loop
      PROVE  /\ At(k) \notin DOMAIN mail[k]
             /\ \A i \in DOMAIN mail[k] : /\ i \in DOMAIN mail'[k]
                                          /\ mail'[k][i] = mail[k][i]
             /\ \A i \in DOMAIN mail'[k] \ DOMAIN mail[k] :
                  /\ mail'[k][i] = [op |-> "plan", dests |-> D[k]]
                  /\ i = At(k)
             /\ D[k] # <<>> => At(k) \in DOMAIN mail'[k]
             /\ D[k] \in Seq(Loop)
  <2>1. /\ DOMAIN mail[k] = 1 .. Len(mail[k]) /\ Len(mail[k]) \in Nat
        /\ \A i \in DOMAIN mail[k] : /\ i \in DOMAIN mail'[k]
                                     /\ mail'[k][i] = mail[k][i]
        /\ \A i \in DOMAIN mail'[k] \ DOMAIN mail[k] :
             mail'[k][i] = [op |-> "plan", dests |-> D[k]]
        /\ D[k] # <<>> => DOMAIN mail'[k] = 1 .. Len(mail[k]) + 1
        /\ D[k] = <<>> => mail'[k] = mail[k]
        /\ D[k] \in Seq(Loop)
    BY PlannedMail
  <2>2. PICK n \in Nat : n = Len(mail[k])
    BY <2>1
  <2>3. At(k) \notin DOMAIN mail[k]
        /\ \A i \in DOMAIN mail'[k] \ DOMAIN mail[k] : i = At(k)
    BY <2>1, <2>2
  <2>4. D[k] # <<>> => At(k) \in DOMAIN mail'[k]
    BY <2>1, <2>2
  <2> QED BY <2>1, <2>3, <2>4
<1> HIDE DEF At
<1>2. InMail(d)' = InMail(d) \cup N
  <2>1. ASSUME NEW e \in InMail(d)' PROVE e \in InMail(d) \cup N
    <3>1. PICK k \in Loop : \E i \in DOMAIN mail'[k] :
            \E j \in Reserves(k, mail'[k][i], d) : e = <<k, <<i, j>>>>
      BY InMailOf
    <3>2. PICK i \in DOMAIN mail'[k] :
            \E j \in Reserves(k, mail'[k][i], d) : e = <<k, <<i, j>>>>
      BY <3>1
    <3>3. PICK j \in Reserves(k, mail'[k][i], d) : e = <<k, <<i, j>>>>
      BY <3>2
    <3>4. CASE i \notin DOMAIN mail[k]
      <4>0. mail'[k][i] = [op |-> "plan", dests |-> D[k]] /\ i = At(k)
        BY <1>1, <3>4
      <4>1. i = At(k) /\ j \in DOMAIN D[k] /\ D[k][j] = d
        BY <3>3, <4>0 DEF Reserves
      <4>2. <<k, j>> \in E
        BY <4>1, InEntries
      <4>3. e = <<<<k, j>>[1], <<At(<<k, j>>[1]), <<k, j>>[2]>>>>
        BY <3>3, <4>1
      <4> QED BY <4>2, <4>3
    <3>5. CASE i \in DOMAIN mail[k]
      <4>1. mail'[k][i] = mail[k][i]
        BY <1>1, <3>5
      <4> QED BY <3>2, <3>5, <4>1, InMailOf
    <3> QED BY <3>4, <3>5
  <2>2. ASSUME NEW e \in InMail(d) PROVE e \in InMail(d)'
    <3>1. PICK k \in Loop : \E i \in DOMAIN mail[k] :
            \E j \in Reserves(k, mail[k][i], d) : e = <<k, <<i, j>>>>
      BY InMailOf
    <3>2. PICK i \in DOMAIN mail[k] :
            \E j \in Reserves(k, mail[k][i], d) : e = <<k, <<i, j>>>>
      BY <3>1
    <3>3. i \in DOMAIN mail'[k] /\ mail'[k][i] = mail[k][i]
      BY <1>1, <3>2
    <3> QED BY <3>2, <3>3, InMailOf
  <2>3. ASSUME NEW e \in N PROVE e \in InMail(d)'
    <3>1. PICK p \in E : e = <<p[1], <<At(p[1]), p[2]>>>>
      BY <2>3
    <3>2. PICK k \in Loop : \E j \in DOMAIN D[k] : D[k][j] = d /\ p = <<k, j>>
      BY <3>1, InEntries
    <3>3. PICK j \in DOMAIN D[k] : D[k][j] = d /\ p = <<k, j>>
      BY <3>2
    <3>4. D[k] # <<>>
      BY <3>3
    <3>5. At(k) \in DOMAIN mail'[k] /\ At(k) \notin DOMAIN mail[k]
          /\ mail'[k][At(k)] = [op |-> "plan", dests |-> D[k]]
      BY <1>1, <3>4
    <3>6. j \in Reserves(k, mail'[k][At(k)], d)
      BY <3>3, <3>5 DEF Reserves
    <3>7. e = <<k, <<At(k), j>>>>
      BY <3>1, <3>3
    <3> QED BY <3>5, <3>6, <3>7, InMailOf
  <2> QED BY <2>1, <2>2, <2>3
<1>3. ASSUME NEW p \in E PROVE p[1] \in Loop /\ p = <<p[1], p[2]>>
  BY InEntries
<1>4. InMail(d) \cap N = {}
  <2> SUFFICES ASSUME NEW e \in InMail(d), e \in N PROVE FALSE
    OBVIOUS
  <2>1. PICK k \in Loop : \E i \in DOMAIN mail[k] :
          \E j \in Reserves(k, mail[k][i], d) : e = <<k, <<i, j>>>>
    BY InMailOf
  <2>2. PICK p \in E : e = <<p[1], <<At(p[1]), p[2]>>>>
    OBVIOUS
  <2>3. PICK i \in DOMAIN mail[k] : \E j : e = <<k, <<i, j>>>>
    BY <2>1
  <2>4. p[1] = k /\ At(p[1]) = i
    BY <2>2, <2>3
  <2> QED BY <1>1, <2>3, <2>4
<1>5. IsFiniteSet(E) /\ IsFiniteSet(InMail(d))
  <2>1. \A l \in Loop : \E S : D[l] \in Seq(S)
    BY <1>1
  <2> QED BY <2>1, EntriesFinite, InMailFinite
<1>6. /\ f \in [E -> N] /\ \A a, b \in E : f[a] = f[b] => a = b
      /\ \A t \in N : \E a \in E : f[a] = t
  BY <1>3
<1> HIDE DEF f, N, E
<1>7. IsFiniteSet(N) /\ Cardinality(N) = Cardinality(E)
  BY <1>5, <1>6, Matched
<1>8. Cardinality(InMail(d) \cup N) = Cardinality(InMail(d)) + Cardinality(N)
      /\ Cardinality(InMail(d)) \in Nat /\ Cardinality(N) \in Nat
  BY <1>4, <1>5, <1>7, AddOn
<1> QED BY <1>2, <1>7, <1>8 DEF E

\* Taking a message gives up what it reserves.
LEMMA TakeCounts ==
    ASSUME Shape, NEW l \in Loop, NEW op, TakeMail(l, op), NEW d
    PROVE  /\ Cardinality(InMail(d)) = Cardinality(InMail(d)')
                + Cardinality(Reserves(l, mail[l][1], d))
           /\ Cardinality(InMail(d)') \in Nat
           /\ Cardinality(Reserves(l, mail[l][1], d)) \in Nat
<1> DEFINE R == Reserves(l, mail[l][1], d)
           N == {<<l, <<1, j>>>> : j \in R}
           f == [j \in R |-> <<l, <<1, j>>>>]
           S == InMail(d) \ N
           Back(e) == IF e[1] = l THEN <<l, <<e[2][1] - 1, e[2][2]>>>> ELSE e
           g == [e \in S |-> Back(e)]
<1>1. /\ mail[l] \in Seq(Mail) /\ mail[l] # <<>> /\ 1 \in DOMAIN mail[l]
      /\ mail[l][1] \in Mail
      /\ mail'[l] = Tail(mail[l])
      /\ \A k \in Loop \ {l} : mail'[k] = mail[k]
  BY TakenMail
<1>2. PICK n \in Nat : n = Len(mail[l])
  BY <1>1
<1>3. /\ DOMAIN mail[l] = 1 .. n /\ DOMAIN mail'[l] = 1 .. n - 1
      /\ \A i \in 1 .. n - 1 : mail'[l][i] = mail[l][i + 1]
  BY <1>1, <1>2
<1>4. N \subseteq InMail(d)
  BY <1>1, InMailOf
<1>5. IsFiniteSet(R) /\ IsFiniteSet(InMail(d)) /\ IsFiniteSet(S)
  BY <1>1, InMailFinite, FS_Difference
<1>6. ASSUME NEW e \in S
      PROVE  \E k \in Loop, i \in Nat : \E j \in Reserves(k, mail[k][i], d) :
               /\ e = <<k, <<i, j>>>> /\ i \in DOMAIN mail[k]
               /\ k = l => i # 1
               /\ Back(e) = <<k, <<IF k = l THEN i - 1 ELSE i, j>>>>
  <2>1. PICK k \in Loop : \E i \in DOMAIN mail[k] :
          \E j \in Reserves(k, mail[k][i], d) : e = <<k, <<i, j>>>>
    BY InMailOf
  <2>2. PICK i \in DOMAIN mail[k] :
          \E j \in Reserves(k, mail[k][i], d) : e = <<k, <<i, j>>>>
    BY <2>1
  <2>3. PICK j \in Reserves(k, mail[k][i], d) : e = <<k, <<i, j>>>>
    BY <2>2
  <2>4. k = l => i # 1
    BY <2>3
  <2>5. mail[k] \in Seq(Mail)
    BY DEF Shape, Typed
  <2>6. i \in Nat
    BY <2>5, LenProperties
  <2>7. Back(e) = <<k, <<IF k = l THEN i - 1 ELSE i, j>>>>
    BY <2>3
  <2> QED BY <2>3, <2>4, <2>6, <2>7
<1>7. ASSUME NEW e \in S PROVE Back(e) \in InMail(d)'
  <2>1. PICK k \in Loop, i \in Nat : \E j \in Reserves(k, mail[k][i], d) :
               /\ e = <<k, <<i, j>>>> /\ i \in DOMAIN mail[k]
               /\ k = l => i # 1
               /\ Back(e) = <<k, <<IF k = l THEN i - 1 ELSE i, j>>>>
    BY <1>6
  <2>2. PICK j \in Reserves(k, mail[k][i], d) :
               /\ e = <<k, <<i, j>>>> /\ i \in DOMAIN mail[k]
               /\ k = l => i # 1
               /\ Back(e) = <<k, <<IF k = l THEN i - 1 ELSE i, j>>>>
    BY <2>1
  <2> HIDE DEF Back
  <2>3. CASE k = l
    <3>1. i - 1 \in 1 .. n - 1 /\ (i - 1) + 1 = i
      BY <1>3, <2>2, <2>3
    <3>2. i - 1 \in DOMAIN mail'[k] /\ mail'[k][i - 1] = mail[k][i]
      BY <1>3, <2>3, <3>1
    <3>3. Back(e) = <<k, <<i - 1, j>>>>
      BY <2>2, <2>3
    <3> QED BY <2>2, <3>2, <3>3, InMailOf
  <2>4. CASE k # l
    <3>1. mail'[k] = mail[k] /\ Back(e) = <<k, <<i, j>>>>
      BY <1>1, <2>2, <2>4
    <3> QED BY <2>2, <3>1, InMailOf
  <2> QED BY <2>3, <2>4
<1>8. ASSUME NEW a \in S, NEW b \in S, Back(a) = Back(b) PROVE a = b
  <2> HIDE DEF Back, S
  <2>1. PICK k \in Loop, i \in Nat : \E j \in Reserves(k, mail[k][i], d) :
               /\ a = <<k, <<i, j>>>>
               /\ Back(a) = <<k, <<IF k = l THEN i - 1 ELSE i, j>>>>
    BY <1>6
  <2>2. PICK h \in Loop, x \in Nat : \E j \in Reserves(h, mail[h][x], d) :
               /\ b = <<h, <<x, j>>>>
               /\ Back(b) = <<h, <<IF h = l THEN x - 1 ELSE x, j>>>>
    BY <1>6
  <2>3. PICK j : /\ a = <<k, <<i, j>>>>
                 /\ Back(a) = <<k, <<IF k = l THEN i - 1 ELSE i, j>>>>
    BY <2>1
  <2>4. PICK y : /\ b = <<h, <<x, y>>>>
                 /\ Back(b) = <<h, <<IF h = l THEN x - 1 ELSE x, y>>>>
    BY <2>2
  <2>5. k = h /\ j = y /\ (IF k = l THEN i - 1 ELSE i)
                            = (IF h = l THEN x - 1 ELSE x)
    BY <1>8, <2>3, <2>4
  <2>6. i = x
    BY <2>5
  <2> QED BY <2>3, <2>4, <2>5, <2>6
<1>9. ASSUME NEW t \in InMail(d)' PROVE \E e \in S : Back(e) = t
  <2>1. PICK k \in Loop : \E i \in DOMAIN mail'[k] :
          \E j \in Reserves(k, mail'[k][i], d) : t = <<k, <<i, j>>>>
    BY InMailOf
  <2>2. PICK i \in DOMAIN mail'[k] :
          \E j \in Reserves(k, mail'[k][i], d) : t = <<k, <<i, j>>>>
    BY <2>1
  <2>3. PICK j \in Reserves(k, mail'[k][i], d) : t = <<k, <<i, j>>>>
    BY <2>2
  <2>4. CASE k = l
    <3>1. /\ i \in Nat /\ i + 1 \in DOMAIN mail[l] /\ i + 1 # 1
          /\ mail'[l][i] = mail[l][i + 1] /\ (i + 1) - 1 = i
      BY <1>3, <2>2, <2>4
    <3> DEFINE e == <<l, <<i + 1, j>>>>
    <3>2. e \in InMail(d)
      BY <2>3, <2>4, <3>1, InMailOf
    <3>3. e \notin N
      BY <3>1
    <3>4. Back(e) = <<l, <<(i + 1) - 1, j>>>>
      OBVIOUS
    <3>5. Back(e) = t
      BY <2>3, <2>4, <3>1, <3>4
    <3> QED BY <3>2, <3>3, <3>5
  <2>5. CASE k # l
    <3>1. t \in InMail(d)
      BY <1>1, <2>3, <2>5, InMailOf
    <3>2. Back(t) = t /\ t \notin N
      BY <2>3, <2>5
    <3> QED BY <3>1, <3>2
  <2> QED BY <2>4, <2>5
<1> HIDE DEF Back
<1>10. /\ g \in [S -> InMail(d)'] /\ \A a, b \in S : g[a] = g[b] => a = b
       /\ \A t \in InMail(d)' : \E a \in S : g[a] = t
  BY <1>7, <1>8, <1>9
<1>11. /\ f \in [R -> N] /\ \A a, b \in R : f[a] = f[b] => a = b
       /\ \A t \in N : \E a \in R : f[a] = t
  OBVIOUS
<1>12. S \cap N = {} /\ S \cup N = InMail(d)
  BY <1>4
<1> HIDE DEF g, S, f, N, R
<1>13. IsFiniteSet(InMail(d)') /\ Cardinality(InMail(d)') = Cardinality(S)
  BY <1>5, <1>10, Matched
<1>14. IsFiniteSet(N) /\ Cardinality(N) = Cardinality(R)
  BY <1>5, <1>11, Matched
<1>15. Cardinality(S \cup N) = Cardinality(S) + Cardinality(N)
       /\ Cardinality(S) \in Nat /\ Cardinality(N) \in Nat
  BY <1>5, <1>12, <1>14, AddOn
<1> QED BY <1>12, <1>13, <1>14, <1>15 DEF R

---------------------------------------------------------------------------
(* The counters are exact.                                                 *)

\* What the counters count, by name and type.
LEMMA CountedAs ==
    /\ Counted <=>
         /\ \A l \in Loop : connCount[l] = Cardinality(OpenOn(l))
         /\ \A l \in Loop : pending[l] = Cardinality(Accepts(l))
              + Cardinality(Targets(l)) + Cardinality(InMail(l))
         /\ pausedConns = Cardinality(Pauses)
    /\ \A l : /\ Cardinality(OpenOn(l)) \in Nat /\ Cardinality(Accepts(l)) \in Nat
              /\ Cardinality(Targets(l)) \in Nat /\ Cardinality(Pauses) \in Nat
    /\ Shape => \A l : Cardinality(InMail(l)) \in Nat
<1>1. \A l : Reservations(l) = Cardinality(Accepts(l))
               + Cardinality(Targets(l)) + Cardinality(InMail(l))
  BY DEF Reservations, Accepts, Targets
<1>2. \A l : /\ Cardinality(OpenOn(l)) \in Nat /\ Cardinality(Accepts(l)) \in Nat
             /\ Cardinality(Targets(l)) \in Nat /\ Cardinality(Pauses) \in Nat
  BY ConnsFinite, FS_CardinalityType
<1>3. Shape => \A l : Cardinality(InMail(l)) \in Nat
  BY InMailFinite, FS_CardinalityType
<1> QED BY <1>1, <1>2, <1>3 DEF Counted, Pauses

\* The same after a step.
LEMMA CountedNext ==
    Counted' <=>
      /\ \A l \in Loop : connCount'[l] = Cardinality(OpenOn(l)')
      /\ \A l \in Loop : pending'[l] = Cardinality(Accepts(l)')
           + Cardinality(Targets(l)') + Cardinality(InMail(l)')
      /\ pausedConns' = Cardinality(Pauses')
<1>1. \A l \in Loop : Reservations(l)' = Cardinality(Accepts(l)')
               + Cardinality(Targets(l)') + Cardinality(InMail(l)')
  BY DEF Reservations, Accepts, Targets
<1> QED BY <1>1 DEF Counted, Pauses

\* A mailbox that does not change reserves what it did.
LEMMA SameMail ==
    ASSUME UNCHANGED mail, NEW l PROVE InMail(l)' = InMail(l)
BY DEF InMail, Disjoint, Reserves

\* One connection changes, and the counters change with it and with what comes
\* to the mailboxes.
Balanced(c, s) ==
    /\ \A l \in Loop : connCount'[l] = connCount[l]
         + Bit(s.st = "open" /\ s.loop = l)
         - Bit(conn[c].st = "open" /\ conn[c].loop = l)
    /\ \A l \in Loop : \E x \in Int :
         /\ Cardinality(InMail(l)') = Cardinality(InMail(l)) + x
         /\ pending'[l] = pending[l]
              + Bit(s.st \in {"picked", "posted"} /\ s.loop = l)
              - Bit(conn[c].st \in {"picked", "posted"} /\ conn[c].loop = l)
              + Bit(s.target = l) - Bit(conn[c].target = l) + x
    /\ pausedConns' = pausedConns + Bit(s.paused) - Bit(conn[c].paused)

\* Then they stay exact.
LEMMA BalancedCounts ==
    ASSUME Shape, Counted, NEW c \in Conn, NEW s \in Connection, Becomes(c, s),
           Balanced(c, s)
    PROVE  Counted'
<1>1. ASSUME NEW l \in Loop PROVE connCount'[l] = Cardinality(OpenOn(l)')
  BY CountedAs, BecomesCounts DEF Balanced
<1>2. pausedConns' = Cardinality(Pauses')
  <2>1. CASE Loop = {}
    BY <2>1, Domain
  <2>2. CASE Loop # {}
    BY <2>2, CountedAs, BecomesCounts DEF Balanced
  <2> QED BY <2>1, <2>2
<1>3. ASSUME NEW l \in Loop
      PROVE  pending'[l] = Cardinality(Accepts(l)') + Cardinality(Targets(l)')
                             + Cardinality(InMail(l)')
  <2>1. PICK a \in Nat, t \in Nat, m \in Nat :
          /\ a = Cardinality(Accepts(l)) /\ t = Cardinality(Targets(l))
          /\ m = Cardinality(InMail(l)) /\ pending[l] = a + t + m
    BY CountedAs
  <2>2. PICK p \in Int, q \in Int, u \in Int, v \in Int :
          /\ p = Bit(s.st \in {"picked", "posted"} /\ s.loop = l)
          /\ q = Bit(conn[c].st \in {"picked", "posted"} /\ conn[c].loop = l)
          /\ u = Bit(s.target = l) /\ v = Bit(conn[c].target = l)
    BY DEF Bit
  <2>3. Cardinality(Accepts(l)') = a + p - q
        /\ Cardinality(Targets(l)') = t + u - v
    BY <2>1, <2>2, BecomesCounts
  <2>4. PICK x \in Int : /\ Cardinality(InMail(l)') = m + x
                         /\ pending'[l] = (a + t + m) + p - q + u - v + x
    BY <2>1, <2>2 DEF Balanced
  <2> QED BY <2>3, <2>4
<1> QED BY <1>1, <1>2, <1>3, CountedNext

\* A connection that stays where it is only moves the count of pauses.
LEMMA InPlaceCounted ==
    ASSUME Shape, Counted, NEW c \in Conn, NEW s, InPlace(c, s),
           UNCHANGED loopVars,
           pausedConns' = pausedConns + Bit(s.paused) - Bit(conn[c].paused)
    PROVE  Counted'
<1>1. ASSUME NEW l \in Loop
      PROVE  Cardinality(InMail(l)') = Cardinality(InMail(l)) + 0
             /\ Cardinality(InMail(l)) \in Nat
             /\ connCount[l] \in Int /\ pending[l] \in Int
             /\ connCount'[l] = connCount[l] /\ pending'[l] = pending[l]
  BY SameMail, CountedAs DEF loopVars, counters, Shape, Typed
<1>2. Balanced(c, s)
  BY <1>1 DEF Balanced, InPlace, Bit
<1> QED BY <1>2, BalancedCounts DEF InPlace

\* The steps that do so.
LEMMA InPlaceCounts ==
    ASSUME Shape, Counted, NEW c \in Conn,
           \/ ParseAndDispatch(c) \/ DispatchSession(c) \/ PauseForQueue(c)
           \/ ResumeAfterQueue(c) \/ FlushPending(c) \/ WriteSuccess(c)
           \/ MigrateWait(c)
    PROVE  Counted'
<1>1. conn[c] \in Connection /\ conn[c].paused \in BOOLEAN
      /\ pausedConns \in Int /\ ConnOK(conn[c])
  BY ConnFields DEF Shape, Typed
<1>2. CASE ParseAndDispatch(c)
  <2> DEFINE s == [conn[c] EXCEPT !.unsent = TRUE]
  <2>1. s.paused = conn[c].paused
    BY <1>1 DEF Connection
  <2>2. pausedConns' = pausedConns + Bit(s.paused) - Bit(conn[c].paused)
    BY <1>1, <1>2, <2>1 DEF ParseAndDispatch, Bit
  <2> QED BY <1>2, <2>2, ParseInPlace, InPlaceCounted
<1>3. CASE DispatchSession(c)
  <2> DEFINE s == [conn[c] EXCEPT !.inflight = TRUE]
  <2>1. s.paused = conn[c].paused
    BY <1>1 DEF Connection
  <2>2. pausedConns' = pausedConns + Bit(s.paused) - Bit(conn[c].paused)
    BY <1>1, <1>3, <2>1 DEF DispatchSession, Bit
  <2> QED BY <1>3, <2>2, SessionInPlace, InPlaceCounted
<1>4. CASE PauseForQueue(c)
  <2> DEFINE s == [conn[c] EXCEPT !.reading = FALSE, !.paused = TRUE,
                                  !.timer = TRUE]
  <2>1. s.paused = TRUE
    BY <1>1 DEF Connection
  <2>2. ~conn[c].paused
    BY <1>1, <1>4 DEF PauseForQueue, OnLoop, ConnOK, Busy
  <2>3. pausedConns' = pausedConns + Bit(s.paused) - Bit(conn[c].paused)
    BY <1>1, <1>4, <2>1, <2>2 DEF PauseForQueue, Bit
  <2> QED BY <1>4, <2>3, PauseInPlace, InPlaceCounted
<1>5. CASE ResumeAfterQueue(c)
  <2> DEFINE s == [conn[c] EXCEPT !.timer = FALSE, !.paused = FALSE,
                                  !.reading = ~Migrating(c)]
  <2>1. s.paused = FALSE
    BY <1>1 DEF Connection
  <2>2. pausedConns' = pausedConns + Bit(s.paused) - Bit(conn[c].paused)
    BY <1>1, <1>5, <2>1 DEF ResumeAfterQueue, Bit
  <2> QED BY <1>5, <2>2, ResumeInPlace, InPlaceCounted
<1>6. CASE FlushPending(c)
  <2> DEFINE s == [conn[c] EXCEPT !.unsent = FALSE, !.inflight = TRUE]
  <2>1. s.paused = conn[c].paused
    BY <1>1 DEF Connection
  <2>2. pausedConns' = pausedConns + Bit(s.paused) - Bit(conn[c].paused)
    BY <1>1, <1>6, <2>1 DEF FlushPending, Bit
  <2> QED BY <1>6, <2>2, FlushInPlace, InPlaceCounted
<1>7. CASE WriteSuccess(c)
  <2> DEFINE s == [conn[c] EXCEPT !.inflight = FALSE, !.check = Migrating(c)]
  <2>1. s.paused = conn[c].paused
    BY <1>1 DEF Connection
  <2>2. pausedConns' = pausedConns + Bit(s.paused) - Bit(conn[c].paused)
    BY <1>1, <1>7, <2>1 DEF WriteSuccess, Bit
  <2> QED BY <1>7, <2>2, WrittenInPlace, InPlaceCounted
<1>8. CASE MigrateWait(c)
  <2>1. PICK s \in Connection : InPlace(c, s) /\ s.paused = conn[c].paused
    BY <1>8, WaitInPlace
  <2>2. UNCHANGED <<loopVars, pausedConns>>
    BY <1>8, WaitInPlace
  <2>3. pausedConns' = pausedConns + Bit(s.paused) - Bit(conn[c].paused)
    BY <1>1, <2>1, <2>2 DEF Bit
  <2> QED BY <2>1, <2>2, <2>3, InPlaceCounted
<1> QED BY <1>2, <1>3, <1>4, <1>5, <1>6, <1>7, <1>8

\* What a message of the accept loop or of a migration reserves.
LEMMA ReservesConn ==
    ASSUME NEW k \in Loop, NEW m, m.op \in {"accept", "attach"}, NEW d
    PROVE  Cardinality(Reserves(k, m, d)) = Bit(m.op = "attach" /\ k = d)
<1>1. Reserves(k, m, d) = IF m.op = "attach" /\ k = d THEN {k} ELSE {}
  BY DEF Reserves
<1>2. Cardinality({k}) = 1 /\ Cardinality({}) = 0
  BY FS_Singleton, FS_EmptySet
<1> QED BY <1>1, <1>2 DEF Bit

\* A counter of one loop changes.
LEMMA AddBit ==
    ASSUME NEW f \in [Loop -> Int], NEW l \in Loop, NEW d \in Loop
    PROVE  /\ Add(f, l, 1)[d] = f[d] + Bit(l = d)
           /\ Add(f, l, -1)[d] = f[d] - Bit(l = d)
<1>1. CASE l = d
  BY <1>1, AddType DEF Bit
<1>2. CASE l # d
  <2>1. Add(f, l, 1)[d] = f[d] /\ Add(f, l, -1)[d] = f[d] /\ f[d] \in Int
    BY <1>2, AddType
  <2> QED BY <1>2, <2>1 DEF Bit
<1> QED BY <1>1, <1>2

\* A pick reserves a place on its loop.
LEMMA PickCounts ==
    ASSUME Shape, Counted, NEW c \in Conn, PickIOThread(c) PROVE Counted'
<1>1. PICK l \in Loop : /\ pending' = Add(pending, l, 1)
                        /\ conn' = [conn EXCEPT ![c].st = "picked",
                                                ![c].loop = l]
  BY DEF PickIOThread, Live
<1> DEFINE s == [conn[c] EXCEPT !.st = "picked", !.loop = l]
<1>2. /\ conn[c] \in Connection /\ conn[c].st = "new"
      /\ UNCHANGED <<connCount, mail, pausedConns>>
  BY ConnFields DEF PickIOThread
<1>3. Becomes(c, s)
  BY <1>1 DEF Becomes
<1>4. /\ s \in Connection /\ s.st = "picked" /\ s.loop = l
      /\ s.target = conn[c].target /\ s.paused = conn[c].paused
  BY <1>2 DEF Connection, MaybeLoop
<1>5. ASSUME NEW d \in Loop
      PROVE  /\ Cardinality(InMail(d)') = Cardinality(InMail(d)) + 0
             /\ Cardinality(InMail(d)) \in Nat
             /\ connCount[d] \in Int /\ pending[d] \in Int
             /\ connCount'[d] = connCount[d]
             /\ pending'[d] = pending[d] + Bit(l = d)
  <2>1. connCount \in [Loop -> Int] /\ pending \in [Loop -> Int]
    BY DEF Shape, Typed
  <2>2. pending'[d] = pending[d] + Bit(l = d)
    BY <1>1, <2>1, AddBit
  <2>3. InMail(d)' = InMail(d) /\ Cardinality(InMail(d)) \in Nat
    BY <1>2, SameMail, CountedAs
  <2> QED BY <1>2, <2>1, <2>2, <2>3
<1>6. pausedConns \in Int
  BY DEF Shape, Typed
<1> HIDE DEF s
<1>7. Balanced(c, s)
  BY <1>2, <1>4, <1>5, <1>6 DEF Balanced, Bit
<1> QED BY <1>3, <1>4, <1>7, BalancedCounts

\* Its post does not change what is reserved.
LEMMA PostAcceptCounts ==
    ASSUME Shape, Counted, NEW c \in Conn, PostAccept(c) PROVE Counted'
<1> DEFINE s == [conn[c] EXCEPT !.st = "posted"]
           m == [op |-> "accept", conn |-> c]
           l == conn[c].loop
<1>1. /\ conn[c] \in Connection /\ conn[c].st = "picked" /\ l \in Loop
      /\ UNCHANGED <<connCount, pending, pausedConns>> /\ Post(l, m)
  BY ConnFields DEF PostAccept, counters, ConnOK, MaybeLoop
<1>2. Becomes(c, s)
  BY DEF PostAccept, Becomes
<1>3. /\ s \in Connection /\ s.st = "posted" /\ s.loop = conn[c].loop
      /\ s.target = conn[c].target /\ s.paused = conn[c].paused
  BY <1>1 DEF Connection
<1>4. m \in Mail /\ m.op = "accept"
  BY DEF Mail
<1> HIDE DEF m, s
<1>5. ASSUME NEW d \in Loop
      PROVE  /\ Cardinality(InMail(d)') = Cardinality(InMail(d)) + 0
             /\ Cardinality(InMail(d)) \in Nat
             /\ connCount[d] \in Int /\ pending[d] \in Int
             /\ connCount'[d] = connCount[d] /\ pending'[d] = pending[d]
  <2>1. Cardinality(Reserves(l, m, d)) = 0
    BY <1>1, <1>4, ReservesConn DEF Bit
  <2> QED BY <1>1, <1>4, <2>1, PostCounts DEF Shape, Typed
<1>6. pausedConns \in Int
  BY DEF Shape, Typed
<1>7. Balanced(c, s)
  BY <1>1, <1>3, <1>5, <1>6 DEF Balanced, Bit
<1> QED BY <1>2, <1>3, <1>7, BalancedCounts

\* An arrival turns its reservation, its own or its message's, into a
\* connection.
LEMMA ArriveCounts ==
    ASSUME Shape, Counted, NEW l \in Loop, NEW op \in {"accept", "attach"},
           Arrive(l, op)
    PROVE  Counted'
<1>1. PICK c \in Conn :
             /\ mail[l][1].conn = c /\ mail[l][1].op = op
             /\ conn[c].st = (IF op = "accept" THEN "posted" ELSE "detached")
             /\ op = "accept" => conn[c].loop = l
             /\ AtRest(conn[c])
             /\ Becomes(c, [conn[c] EXCEPT !.st = "open", !.loop = l,
                                           !.reading = TRUE])
  BY ArriveConn
<1> DEFINE s == [conn[c] EXCEPT !.st = "open", !.loop = l, !.reading = TRUE]
<1>2. /\ conn[c] \in Connection /\ TakeMail(l, op)
      /\ connCount' = Add(connCount, l, 1) /\ pending' = Add(pending, l, -1)
      /\ UNCHANGED pausedConns
  BY ConnFields DEF Arrive
<1>3. /\ s \in Connection /\ s.st = "open" /\ s.loop = l
      /\ s.target = conn[c].target /\ s.paused = conn[c].paused
  BY <1>2 DEF Connection, MaybeLoop
<1>4. Becomes(c, s)
  BY <1>1
<1> HIDE DEF s
<1>5. ASSUME NEW d \in Loop
      PROVE  /\ Cardinality(InMail(d)')
                  = Cardinality(InMail(d)) + (0 - Bit(op = "attach" /\ l = d))
             /\ Cardinality(InMail(d)) \in Nat
             /\ connCount[d] \in Int /\ pending[d] \in Int
             /\ connCount'[d] = connCount[d] + Bit(l = d)
             /\ pending'[d] = pending[d] - Bit(l = d)
  <2>1. Cardinality(Reserves(l, mail[l][1], d)) = Bit(op = "attach" /\ l = d)
    BY <1>1, ReservesConn
  <2>2. /\ Cardinality(InMail(d)) = Cardinality(InMail(d)')
                + Cardinality(Reserves(l, mail[l][1], d))
        /\ Cardinality(InMail(d)') \in Nat
    BY <1>2, TakeCounts
  <2>3. connCount \in [Loop -> Int] /\ pending \in [Loop -> Int]
    BY DEF Shape, Typed
  <2>4. /\ connCount'[d] = connCount[d] + Bit(l = d)
        /\ pending'[d] = pending[d] - Bit(l = d)
    BY <1>2, <2>3, AddBit
  <2>5. Bit(op = "attach" /\ l = d) \in Nat
    BY DEF Bit
  <2>6. Cardinality(InMail(d)')
          = Cardinality(InMail(d)) + (0 - Bit(op = "attach" /\ l = d))
    BY <2>1, <2>2, <2>5
  <2> QED BY <2>3, <2>4, <2>6, CountedAs
<1>6. pausedConns \in Int
  BY DEF Shape, Typed
<1>7. \A d \in Loop : (0 - Bit(op = "attach" /\ l = d)) \in Int
  BY DEF Bit
<1>8. ASSUME NEW d \in Loop
      PROVE  pending'[d] = pending[d]
              + Bit(s.st \in {"picked", "posted"} /\ s.loop = d)
              - Bit(conn[c].st \in {"picked", "posted"} /\ conn[c].loop = d)
              + Bit(s.target = d) - Bit(conn[c].target = d)
              + (0 - Bit(op = "attach" /\ l = d))
  <2>1. Bit(s.target = d) = 0 /\ Bit(conn[c].target = d) = 0
    BY <1>1, <1>3, Domain DEF AtRest, Bit
  <2>2. Bit(s.st \in {"picked", "posted"} /\ s.loop = d) = 0
    BY <1>3 DEF Bit
  <2>3. CASE op = "accept"
    BY <1>1, <1>5, <2>1, <2>2, <2>3 DEF Bit
  <2>4. CASE op = "attach"
    BY <1>1, <1>5, <2>1, <2>2, <2>4 DEF Bit
  <2> QED BY <2>3, <2>4
<1>9. \A d \in Loop : connCount'[d] = connCount[d]
         + Bit(s.st = "open" /\ s.loop = d)
         - Bit(conn[c].st = "open" /\ conn[c].loop = d)
  BY <1>1, <1>3, <1>5 DEF Bit
<1>10. pausedConns' = pausedConns + Bit(s.paused) - Bit(conn[c].paused)
  BY <1>2, <1>3, <1>6 DEF Bit
<1>11. Balanced(c, s)
  BY <1>5, <1>7, <1>8, <1>9, <1>10 DEF Balanced
<1> QED BY <1>3, <1>4, <1>11, BalancedCounts

\* A detach trades the reservation of the migration for that of the attach.
LEMMA DetachCounts ==
    ASSUME Shape, Counted, NEW c \in Conn, Detach(c) PROVE Counted'
<1>1. PICK l \in Loop, t \in Loop, s \in Connection :
             /\ conn[c].st = "open" /\ conn[c].loop = l /\ conn[c].target = t
             /\ Becomes(c, s) /\ ConnOK(s)
             /\ s.st = "detached" /\ s.loop = NoLoop /\ s.target = NoLoop
             /\ ~s.paused
             /\ connCount' = Add(connCount, l, -1)
             /\ Post(t, [op |-> "attach", conn |-> c])
  BY DetachConn
<1> DEFINE m == [op |-> "attach", conn |-> c]
<1>2. m \in Mail /\ m.op = "attach" /\ Post(t, m)
  BY <1>1 DEF Mail
<1> HIDE DEF m
<1>3. ASSUME NEW d \in Loop
      PROVE  /\ Cardinality(InMail(d)') = Cardinality(InMail(d)) + Bit(t = d)
             /\ connCount[d] \in Int /\ pending[d] \in Int
             /\ connCount'[d] = connCount[d] - Bit(l = d)
             /\ pending'[d] = pending[d]
  <2>1. Cardinality(Reserves(t, m, d)) = Bit(t = d)
    BY <1>2, ReservesConn DEF Bit
  <2>2. Cardinality(InMail(d)') = Cardinality(InMail(d)) + Bit(t = d)
    BY <1>2, <2>1, PostCounts
  <2>3. connCount \in [Loop -> Int] /\ pending \in [Loop -> Int]
    BY DEF Shape, Typed
  <2>4. connCount'[d] = connCount[d] - Bit(l = d)
    BY <1>1, <2>3, AddBit
  <2> QED BY <2>2, <2>3, <2>4 DEF Detach
<1>4. pausedConns' = pausedConns + Bit(s.paused) - Bit(conn[c].paused)
  <2>1. pausedConns \in Int
    BY DEF Shape, Typed
  <2>2. pausedConns' = pausedConns - Bit(conn[c].paused)
    BY DEF Detach, Bit
  <2> QED BY <1>1, <2>1, <2>2 DEF Bit
<1>5. ASSUME NEW d \in Loop
      PROVE  /\ Bit(t = d) \in Int
             /\ pending'[d] = pending[d]
                  + Bit(s.st \in {"picked", "posted"} /\ s.loop = d)
                  - Bit(conn[c].st \in {"picked", "posted"} /\ conn[c].loop = d)
                  + Bit(s.target = d) - Bit(conn[c].target = d) + Bit(t = d)
             /\ connCount'[d] = connCount[d]
                  + Bit(s.st = "open" /\ s.loop = d)
                  - Bit(conn[c].st = "open" /\ conn[c].loop = d)
  <2>1. /\ Bit(s.st \in {"picked", "posted"} /\ s.loop = d) = 0
        /\ Bit(conn[c].st \in {"picked", "posted"} /\ conn[c].loop = d) = 0
        /\ Bit(s.target = d) = 0 /\ Bit(conn[c].target = d) = Bit(t = d)
        /\ Bit(s.st = "open" /\ s.loop = d) = 0
        /\ Bit(conn[c].st = "open" /\ conn[c].loop = d) = Bit(l = d)
        /\ Bit(t = d) \in Int /\ Bit(l = d) \in Int
    BY <1>1, Domain DEF Bit
  <2> QED BY <1>3, <2>1
<1>6. Balanced(c, s)
  BY <1>3, <1>4, <1>5 DEF Balanced
<1> QED BY <1>1, <1>6, BalancedCounts

\* A connection that closes gives back its place and the one it was going to.
LEMMA DestroyCounts ==
    ASSUME Shape, Counted, NEW c \in Conn, Destroy(c) PROVE Counted'
<1>1. PICK l \in Loop, s \in Connection :
             /\ conn[c].st = "open" /\ conn[c].loop = l
             /\ Becomes(c, s) /\ ConnOK(s)
             /\ s.st = (IF Outstanding(c) = {} THEN "gone" ELSE "closing")
             /\ s.loop = NoLoop /\ s.target = NoLoop /\ ~s.paused
             /\ connCount' = Add(connCount, l, -1)
             /\ IF conn[c].target = NoLoop THEN UNCHANGED pending
                ELSE pending' = Add(pending, conn[c].target, -1)
             /\ conn[c].target \in MaybeLoop
  BY DestroyConn
<1>2. UNCHANGED mail
  BY DEF Destroy
<1>3. ASSUME NEW d \in Loop
      PROVE  /\ Cardinality(InMail(d)') = Cardinality(InMail(d)) + 0
             /\ connCount[d] \in Int /\ pending[d] \in Int
             /\ connCount'[d] = connCount[d] - Bit(l = d)
             /\ pending'[d] = pending[d] - Bit(conn[c].target = d)
  <2>1. InMail(d)' = InMail(d) /\ Cardinality(InMail(d)) \in Nat
    BY <1>2, SameMail, CountedAs
  <2>2. connCount \in [Loop -> Int] /\ pending \in [Loop -> Int]
    BY DEF Shape, Typed
  <2>3. connCount'[d] = connCount[d] - Bit(l = d)
    BY <1>1, <2>2, AddBit
  <2>4. pending'[d] = pending[d] - Bit(conn[c].target = d)
    <3>1. CASE conn[c].target = NoLoop
      <4>1. Bit(conn[c].target = d) = 0 /\ pending[d] \in Int
        BY <2>2, <3>1, Domain DEF Bit
      <4> QED BY <1>1, <3>1, <4>1
    <3>2. CASE conn[c].target # NoLoop
      <4>1. conn[c].target \in Loop
        BY <1>1, <3>2 DEF MaybeLoop
      <4> QED BY <1>1, <2>2, <3>2, <4>1, AddBit
    <3> QED BY <3>1, <3>2
  <2> QED BY <2>1, <2>2, <2>3, <2>4
<1>4. pausedConns' = pausedConns + Bit(s.paused) - Bit(conn[c].paused)
  <2>1. pausedConns \in Int
    BY DEF Shape, Typed
  <2>2. pausedConns' = pausedConns - Bit(conn[c].paused)
    BY DEF Destroy, Bit
  <2> QED BY <1>1, <2>1, <2>2 DEF Bit
<1>5. ASSUME NEW d \in Loop
      PROVE  /\ pending'[d] = pending[d]
                  + Bit(s.st \in {"picked", "posted"} /\ s.loop = d)
                  - Bit(conn[c].st \in {"picked", "posted"} /\ conn[c].loop = d)
                  + Bit(s.target = d) - Bit(conn[c].target = d) + 0
             /\ connCount'[d] = connCount[d]
                  + Bit(s.st = "open" /\ s.loop = d)
                  - Bit(conn[c].st = "open" /\ conn[c].loop = d)
  <2>1. /\ Bit(s.st \in {"picked", "posted"} /\ s.loop = d) = 0
        /\ Bit(conn[c].st \in {"picked", "posted"} /\ conn[c].loop = d) = 0
        /\ Bit(s.target = d) = 0
        /\ Bit(s.st = "open" /\ s.loop = d) = 0
        /\ Bit(conn[c].st = "open" /\ conn[c].loop = d) = Bit(l = d)
        /\ Bit(conn[c].target = d) \in Int /\ Bit(l = d) \in Int
    BY <1>1, Domain DEF Bit
  <2> QED BY <1>3, <2>1
<1>6. Balanced(c, s)
  BY <1>3, <1>4, <1>5 DEF Balanced
<1> QED BY <1>1, <1>6, BalancedCounts

\* An answer changes no count of its loop.
LEMMA RespondCounts ==
    ASSUME Shape, Counted, NEW r \in Req, Respond(r) PROVE Counted'
<1>1. PICK c, l, s : Responds(r, c, l, s)
  BY RespondDoes
<1>2. UNCHANGED <<connCount, pending, mail, pausedConns>>
  BY DEF Respond, counters
<1>3. c \in Conn /\ s \in Connection /\ Becomes(c, s)
      /\ s.target = conn[c].target /\ s.paused = conn[c].paused
      /\ s.loop = conn[c].loop /\ (s.st = "open" <=> conn[c].st = "open")
      /\ s.st \notin {"picked", "posted"} /\ conn[c].st \notin {"picked", "posted"}
  BY <1>1 DEF Responds
<1>4. ASSUME NEW d \in Loop
      PROVE  /\ Cardinality(InMail(d)') = Cardinality(InMail(d)) + 0
             /\ connCount[d] \in Int /\ pending[d] \in Int
  <2>1. InMail(d)' = InMail(d) /\ Cardinality(InMail(d)) \in Nat
    BY <1>2, SameMail, CountedAs
  <2> QED BY <2>1 DEF Shape, Typed
<1>5. pausedConns \in Int
  BY DEF Shape, Typed
<1>6. Balanced(c, s)
  BY <1>2, <1>3, <1>4, <1>5 DEF Balanced, Bit
<1> QED BY <1>3, <1>6, BalancedCounts

\* Plans are posted with their destinations reserved.
LEMMA PlansCounted ==
    ASSUME Shape, Counted, NEW D, PlansPosted(D),
           UNCHANGED <<connCount, conn, pausedConns>>
    PROVE  Counted'
<1>1. ASSUME NEW d \in Loop
      PROVE  /\ OpenOn(d)' = OpenOn(d) /\ Accepts(d)' = Accepts(d)
             /\ Targets(d)' = Targets(d) /\ Pauses' = Pauses
  BY DEF OpenOn, Accepts, Targets, Pauses
<1>2. ASSUME NEW d \in Loop
      PROVE  pending'[d] = Cardinality(Accepts(d)') + Cardinality(Targets(d)')
                             + Cardinality(InMail(d)')
  <2>1. pending'[d] = pending[d] + Cardinality(Entries(D, d))
    BY DEF PlansPosted
  <2>2. /\ Cardinality(InMail(d)')
             = Cardinality(InMail(d)) + Cardinality(Entries(D, d))
        /\ Cardinality(Entries(D, d)) \in Nat
    BY PlansCount
  <2> QED BY <1>1, <2>1, <2>2, CountedAs
<1>3. Pauses' = Pauses
  BY DEF Pauses
<1> QED BY <1>1, <1>2, <1>3, CountedAs, CountedNext

\* The entries of a plan that are used.
Used(dests, k, d) == {i \in 1..k : dests[i] = d}

\* The entries a plan uses and those it gives back are its entries.
LEMMA PlanSplits ==
    ASSUME NEW dests \in Seq(Loop), NEW k \in 0 .. Len(dests), NEW d, NEW l,
           NEW m, m.op = "plan", m.dests = dests
    PROVE  /\ Cardinality(Reserves(l, m, d))
                = Cardinality(Used(dests, k, d)) + Unused(dests, k, d)
           /\ IsFiniteSet(Used(dests, k, d))
           /\ Cardinality(Used(dests, k, d)) \in Nat
           /\ Unused(dests, k, d) \in Nat
<1>1. PICK n \in Nat : n = Len(dests) /\ DOMAIN dests = 1..n
  BY LenProperties
<1>2. k \in Int /\ k + 1 \in Int /\ 1 \in Int /\ 0 <= k /\ k <= n
  BY <1>1
<1> DEFINE U == {i \in 1..k : dests[i] = d}
           V == {i \in k + 1 .. n : dests[i] = d}
<1>3. IsFiniteSet(1..k) /\ IsFiniteSet(k + 1 .. n)
  BY <1>1, <1>2, FS_Interval
<1>4. IsFiniteSet(U) /\ IsFiniteSet(V)
  <2>1. U \subseteq 1..k /\ V \subseteq k + 1 .. n
    OBVIOUS
  <2> QED BY <1>3, <2>1, FS_Subset
<1>5. U \cap V = {} /\ U \cup V = {i \in 1..n : dests[i] = d}
  BY <1>1, <1>2
<1>6. Reserves(l, m, d) = U \cup V
  BY <1>1, <1>5 DEF Reserves
<1>7. Unused(dests, k, d) = Cardinality(V)
  BY <1>1 DEF Unused
<1>8. U = Used(dests, k, d)
  BY DEF Used
<1> HIDE DEF U, V
<1>9. Cardinality(U \cup V) = Cardinality(U) + Cardinality(V)
      /\ Cardinality(U) \in Nat /\ Cardinality(V) \in Nat
  BY <1>4, <1>5, AddOn
<1> QED BY <1>4, <1>6, <1>7, <1>8, <1>9

\* A plan that runs turns the entries it uses into migrations.
LEMMA RunsTargets ==
    ASSUME Shape, NEW l \in Loop, NEW dests, NEW k, NEW q,
           Runs(l, dests, k, q), NEW d \in Loop
    PROVE  /\ OpenOn(d)' = OpenOn(d) /\ Accepts(d)' = Accepts(d)
           /\ Pauses' = Pauses
           /\ Cardinality(Targets(d)') = Cardinality(Targets(d))
                + Cardinality(Used(dests, k, d))
<1>1. ASSUME NEW c \in Conn
      PROVE  /\ conn'[c].st = conn[c].st /\ conn'[c].loop = conn[c].loop
             /\ conn'[c].paused = conn[c].paused
  BY RunsConn, MigrateFields
<1>2. /\ OpenOn(d)' = OpenOn(d) /\ Accepts(d)' = Accepts(d)
      /\ Pauses' = Pauses
  BY <1>1 DEF OpenOn, Accepts, Pauses
<1> DEFINE U == {i \in 1..k : dests[i] = d}
           N == {q[i] : i \in U}
           f == [i \in U |-> q[i]]
<1>3. /\ dests \in Seq(Loop) /\ k \in 0 .. Len(dests)
      /\ q \in [1..k -> Movable(l)]
      /\ \A i, j \in 1..k : i # j => q[i] # q[j]
      /\ \A i \in 1..k : conn'[q[i]] = MigrateTo(q[i], dests[i])
  BY DEF Runs
<1>4. \A i \in 1..k : dests[i] \in Loop
  BY <1>3
<1>5. ASSUME NEW i \in 1..k
      PROVE  /\ q[i] \in Conn /\ conn[q[i]].target = NoLoop
             /\ conn'[q[i]].target = dests[i]
  BY <1>3, <1>4, MigrateFields
<1>6. Targets(d)' = Targets(d) \cup N
  <2>1. ASSUME NEW c \in Conn, conn'[c].target = d
        PROVE  conn[c].target = d \/ c \in N
    <3>1. CASE conn'[c] = conn[c]
      BY <2>1, <3>1
    <3>2. CASE \E i \in 1..k : c = q[i]
      BY <1>5, <2>1, <3>2
    <3> QED BY <3>1, <3>2, RunsConn
  <2>2. ASSUME NEW c \in Conn, conn[c].target = d PROVE conn'[c].target = d
    <3>1. \A i \in 1..k : q[i] # c
      BY <1>5, <2>2, Domain
    <3> QED BY <2>2, <3>1 DEF Runs
  <2>3. \A c \in N : c \in Conn /\ conn'[c].target = d
    BY <1>5
  <2> QED BY <2>1, <2>2, <2>3 DEF Targets
<1>7. Targets(d) \cap N = {}
  BY <1>5, Domain DEF Targets
<1>8. /\ f \in [U -> N] /\ \A a, b \in U : f[a] = f[b] => a = b
      /\ \A t \in N : \E a \in U : f[a] = t
  BY <1>3
<1>9. U = Used(dests, k, d)
  BY DEF Used
<1>10. IsFiniteSet(U)
  <2>1. PICK m : m.op = "plan" /\ m.dests = dests
    <3>1. [op |-> "plan", dests |-> dests].op = "plan"
          /\ [op |-> "plan", dests |-> dests].dests = dests
      OBVIOUS
    <3> QED BY <3>1
  <2> HIDE DEF U
  <2> QED BY <1>3, <1>9, <2>1, PlanSplits

<1> HIDE DEF U, N, f
<1>11. IsFiniteSet(N) /\ Cardinality(N) = Cardinality(U)
  BY <1>8, <1>10, Matched
<1>12. Cardinality(Targets(d) \cup N) = Cardinality(Targets(d)) + Cardinality(N)
  BY <1>7, <1>11, ConnsFinite, AddOn
<1> QED BY <1>2, <1>6, <1>9, <1>11, <1>12

\* It keeps the counters exact.
LEMMA RunPlanCounts ==
    ASSUME Shape, Counted, NEW l \in Loop, RunPlan(l) PROVE Counted'
<1>1. TakeMail(l, "plan") /\ UNCHANGED <<connCount, pausedConns>>
  BY DEF RunPlan
<1> DEFINE m == mail[l][1]
           dests == m.dests
<1>2. m \in Mail /\ m.op = "plan"
  BY <1>1, TakenMail
<1>3. PICK k, q : Runs(l, dests, k, q)
  BY RunPlanRuns
<1> HIDE DEF m, dests
<1>4. /\ dests \in Seq(Loop) /\ k \in 0 .. Len(dests)
      /\ pending' = [d \in Loop |-> pending[d] - Unused(dests, k, d)]
  BY <1>3 DEF Runs
<1>5. ASSUME NEW d \in Loop
      PROVE  pending'[d] = Cardinality(Accepts(d)') + Cardinality(Targets(d)')
                             + Cardinality(InMail(d)')
  <2>1. PICK u \in Nat, v \in Nat :
          /\ u = Cardinality(Used(dests, k, d))
          /\ v = Unused(dests, k, d)
          /\ Cardinality(Reserves(l, m, d)) = u + v
    <3>1. m.dests = dests
      BY DEF dests
    <3> QED BY <1>2, <1>4, <3>1, PlanSplits
  <2>2. Cardinality(InMail(d)) = Cardinality(InMail(d)') + (u + v)
        /\ Cardinality(InMail(d)') \in Nat
    BY <1>1, <2>1, TakeCounts DEF m
  <2>3. Accepts(d)' = Accepts(d)
        /\ Cardinality(Targets(d)') = Cardinality(Targets(d)) + u
    BY <1>3, <2>1, RunsTargets
  <2>4. pending'[d] = pending[d] - v
    BY <1>4, <2>1
  <2>5. PICK a \in Nat, t \in Nat, x \in Nat :
          /\ a = Cardinality(Accepts(d)) /\ t = Cardinality(Targets(d))
          /\ x = Cardinality(InMail(d)')
          /\ pending[d] = a + t + Cardinality(InMail(d))
    BY <2>2, CountedAs
  <2>6. pending[d] = a + t + (x + (u + v))
    BY <2>2, <2>5
  <2> QED BY <2>3, <2>4, <2>5, <2>6
<1>6. \A d \in Loop : connCount'[d] = Cardinality(OpenOn(d)')
  BY <1>1, <1>3, RunsTargets, CountedAs
<1>7. pausedConns' = Cardinality(Pauses')
  <2>1. PICK d : d \in Loop
    OBVIOUS
  <2> QED BY <1>1, <1>3, <2>1, RunsTargets, CountedAs
<1> QED BY <1>5, <1>6, <1>7, CountedNext

\* Every step keeps the counters exact.
LEMMA CountedKeeps == Shape /\ Counted /\ [Next]_vars => Counted'
<1> SUFFICES ASSUME Shape, Counted, [Next]_vars PROVE Counted'
  OBVIOUS
<1>1. CASE UNCHANGED <<connCount, pending, mail, conn, pausedConns>>
  <2>1. \A l \in Loop : /\ OpenOn(l)' = OpenOn(l) /\ InMail(l)' = InMail(l)
                        /\ Accepts(l)' = Accepts(l) /\ Targets(l)' = Targets(l)
    BY <1>1, SameMail DEF OpenOn, Accepts, Targets
  <2>2. Pauses' = Pauses
    BY <1>1 DEF Pauses
  <2> QED BY <1>1, <2>1, <2>2, CountedAs, CountedNext
<1>2. CASE Grow \/ Shrink \/ Stop \/ Stopped \/ UNCHANGED vars
  BY <1>1, <1>2 DEF Grow, Shrink, Stop, Stopped, vars, loopVars, counters
<1>3. CASE \/ ReapStart \/ ReapDecide \/ ReapPlan \/ \E l \in Loop : ReapRead(l)
  BY <1>1, <1>3 DEF ReapStart, ReapDecide, ReapPlan, ReapRead, loopVars, counters
<1>4. CASE Rebalance \/ \E l \in Loop : PlanShrink(l) \/ PlanStuck(l)
  <2>1. PICK D : PlansPosted(D)
    BY <1>4, PlanSteps
  <2>2. UNCHANGED <<connCount, conn, pausedConns>>
    BY <1>4, PlanSteps
  <2> QED BY <2>1, <2>2, PlansCounted
<1>5. CASE \/ \E c \in Conn, r \in Req : HandleGet(c, r) \/ HandleSet(c, r)
           \/ \E r \in Req : Complete(r)
  BY <1>1, <1>5 DEF HandleGet, HandleSet, ToEngine, Complete, loopVars, counters
<1>6. CASE \E l \in Loop : LoopStep(l)
  BY <1>6, ArriveCounts, RunPlanCounts DEF LoopStep, Start, FinishAttach
<1>7. CASE \E c \in Conn : \/ PickIOThread(c) \/ PostAccept(c) \/ Detach(c)
                           \/ Destroy(c)
  BY <1>7, PickCounts, PostAcceptCounts, DetachCounts, DestroyCounts
<1> QED BY <1>2, <1>3, <1>4, <1>5, <1>6, <1>7, InPlaceCounts, RespondCounts
        DEF Next, ConnStep, IOStep, TunerStep

\* And they start so.
LEMMA InitCounted == Init => Counted
<1> SUFFICES ASSUME Init PROVE Counted
  OBVIOUS
<1>1. ASSUME NEW l \in Loop
      PROVE  OpenOn(l) = {} /\ Accepts(l) = {} /\ Targets(l) = {}
             /\ InMail(l) = {}
  <2>1. OpenOn(l) = {} /\ Accepts(l) = {}
    BY DEF Init, OpenOn, Accepts
  <2>2. Targets(l) = {}
    BY Domain DEF Init, Targets
  <2>3. \A e : e \notin InMail(l)
    BY InMailOf DEF Init
  <2> QED BY <2>1, <2>2, <2>3
<1>2. Pauses = {}
  BY DEF Init, Pauses
<1>3. Cardinality({}) = 0
  BY FS_EmptySet
<1>4. \A l \in Loop : connCount[l] = 0 /\ pending[l] = 0
  BY DEF Init
<1>5. pausedConns = 0
  BY DEF Init
<1>6. \A l \in Loop : connCount[l] = Cardinality(OpenOn(l))
  BY <1>1, <1>3, <1>4
<1>7. \A l \in Loop : pending[l] = Cardinality(Accepts(l))
              + Cardinality(Targets(l)) + Cardinality(InMail(l))
  BY <1>1, <1>3, <1>4
<1>8. pausedConns = Cardinality(Pauses)
  BY <1>2, <1>3, <1>5
<1> QED BY <1>6, <1>7, <1>8, CountedAs

---------------------------------------------------------------------------
(* The holds are exact.                                                    *)

\* The request of a step enters or leaves what holds a loop.
LEMMA HeldOne ==
    ASSUME HoldsExact, NEW r \in Req, \A p \in Req \ {r} : req'[p] = req[p],
           \A l \in Loop : holds'[l] = holds[l] + Bit(r \in Held(l)')
                                                - Bit(r \in Held(l))
    PROVE  HoldsExact'
<1>1. ASSUME NEW l \in Loop
      PROVE  IsFiniteSet(Held(l)') /\ holds'[l] = Cardinality(Held(l)')
  <2>1. Held(l) \ {r} = Held(l)' \ {r}
    BY DEF Held
  <2>2. IsFiniteSet(Held(l)) /\ holds[l] = Cardinality(Held(l))
    BY DEF HoldsExact
  <2>3. /\ IsFiniteSet(Held(l)')
        /\ Cardinality(Held(l)') = Cardinality(Held(l))
             + Bit(r \in Held(l)') - Bit(r \in Held(l))
    BY <2>1, <2>2, CountOne
  <2> QED BY <2>2, <2>3
<1> QED BY <1>1 DEF HoldsExact

\* Every step keeps them exact.
LEMMA HoldsKeep == Shape /\ HoldsExact /\ [Next]_vars => HoldsExact'
<1> SUFFICES ASSUME Shape, HoldsExact, [Next]_vars PROVE HoldsExact'
  OBVIOUS
<1>1. CASE UNCHANGED <<holds, req>>
  BY <1>1 DEF HoldsExact, Held
<1>2. /\ req \in [Req -> Request] /\ holds \in [Loop -> Int]
      /\ \A l \in Loop : holds[l] \in Int
  BY DEF Shape, Typed
<1>3. ASSUME NEW c \in Conn, NEW r \in Req, HandleGet(c, r) PROVE HoldsExact'
  <2>1. /\ \A p \in Req \ {r} : req'[p] = req[p]
        /\ ~req'[r].durable /\ req[r].st = "none" /\ UNCHANGED holds
    BY <1>2, <1>3 DEF HandleGet, ToEngine
  <2>2. \A l \in Loop : Bit(r \in Held(l)') = 0 /\ Bit(r \in Held(l)) = 0
    BY <2>1 DEF Held, Bit
  <2> QED BY <1>2, <2>1, <2>2, HeldOne
<1>4. ASSUME NEW c \in Conn, NEW r \in Req, HandleSet(c, r) PROVE HoldsExact'
  <2> DEFINE k == conn[c].loop
  <2>1. k \in Loop
    BY <1>4, ConnFields DEF HandleSet, ToEngine, OnLoop, ConnOK, MaybeLoop
  <2>2. /\ \A p \in Req \ {r} : req'[p] = req[p]
        /\ req'[r] = [st |-> "engine", durable |-> TRUE, conn |-> c, loop |-> k]
        /\ req[r].st = "none" /\ holds' = Add(holds, k, 1)
    BY <1>2, <1>4 DEF HandleSet, ToEngine
  <2> HIDE DEF k
  <2>3. ASSUME NEW l \in Loop
        PROVE  holds'[l] = holds[l] + Bit(r \in Held(l)') - Bit(r \in Held(l))
    <3>1. Bit(r \in Held(l)') = Bit(k = l) /\ Bit(r \in Held(l)) = 0
      BY <2>2 DEF Held, Bit
    <3>2. holds'[l] = holds[l] + Bit(k = l) /\ Bit(k = l) \in Int
      BY <1>2, <2>1, <2>2, AddBit DEF Bit
    <3> QED BY <1>2, <3>1, <3>2
  <2> QED BY <2>2, <2>3, HeldOne
<1>5. ASSUME NEW r \in Req, Complete(r) PROVE HoldsExact'
  <2>1. /\ \A p \in Req \ {r} : req'[p] = req[p]
        /\ req[r].st = "engine" /\ req[r] \in Request
        /\ req'[r] = [req[r] EXCEPT !.st = "posted"] /\ UNCHANGED holds
    BY <1>2, <1>5 DEF Complete, loopVars
  <2>2. req'[r].st = "posted" /\ req'[r].durable = req[r].durable
        /\ req'[r].loop = req[r].loop
    BY <2>1 DEF Request
  <2>3. \A l \in Loop : Bit(r \in Held(l)') = Bit(r \in Held(l))
                        /\ Bit(r \in Held(l)) \in Int
    <3>1. \A l \in Loop : r \in Held(l)' <=> r \in Held(l)
      BY <2>1, <2>2 DEF Held
    <3> QED BY <3>1 DEF Bit
  <2> QED BY <1>2, <2>1, <2>3, HeldOne
<1>6. ASSUME NEW r \in Req, Respond(r) PROVE HoldsExact'
  <2>1. PICK c, k, s : Responds(r, c, k, s)
    BY <1>6, RespondDoes
  <2>2. /\ k \in Loop /\ k = req[r].loop /\ req[r].st = "posted"
        /\ req' = [req EXCEPT ![r].st = "done"]
        /\ holds' = IF req[r].durable THEN Add(holds, k, -1) ELSE holds
        /\ req[r] \in Request
    BY <1>2, <2>1 DEF Responds
  <2>3. /\ \A p \in Req \ {r} : req'[p] = req[p]
        /\ req'[r] = [req[r] EXCEPT !.st = "done"]
    BY <1>2, <2>2
  <2>4. req'[r].st = "done"
    BY <2>2, <2>3 DEF Request
  <2>5. ASSUME NEW l \in Loop
        PROVE  holds'[l] = holds[l] + Bit(r \in Held(l)') - Bit(r \in Held(l))
    <3>1. Bit(r \in Held(l)') = 0
      BY <2>4 DEF Held, Bit
    <3>2. CASE req[r].durable
      <4>1. Bit(r \in Held(l)) = Bit(k = l) /\ Bit(k = l) \in Int
        BY <2>2, <3>2 DEF Held, Bit
      <4>2. holds'[l] = holds[l] - Bit(k = l)
        BY <1>2, <2>2, <3>2, AddBit
      <4> QED BY <1>2, <3>1, <4>1, <4>2
    <3>3. CASE ~req[r].durable
      <4>1. Bit(r \in Held(l)) = 0 /\ holds'[l] = holds[l]
        BY <2>2, <3>3 DEF Held, Bit
      <4> QED BY <1>2, <3>1, <4>1
    <3> QED BY <3>2, <3>3
  <2> QED BY <2>3, <2>5, HeldOne
<1>7. CASE Grow \/ Shrink \/ Rebalance \/ Stop \/ Stopped \/ UNCHANGED vars
  BY <1>1, <1>7 DEF Grow, Shrink, Rebalance, Stop, Stopped, vars, loopVars
<1>8. CASE TunerStep
  BY <1>1, <1>8 DEF TunerStep, ReapStart, ReapDecide, ReapPlan, PlanShrink,
     ReapRead, PlanStuck, loopVars
<1>9. CASE \E l \in Loop : LoopStep(l)
  BY <1>1, <1>9 DEF LoopStep, Start, FinishAttach, Arrive, RunPlan
<1>10. CASE \E c \in Conn : PickIOThread(c) \/ PostAccept(c) \/ Detach(c)
                            \/ Destroy(c)
  BY <1>1, <1>10 DEF PickIOThread, PostAccept, Detach, Destroy
<1>11. CASE \E c \in Conn : \/ ParseAndDispatch(c) \/ DispatchSession(c)
                            \/ PauseForQueue(c) \/ ResumeAfterQueue(c)
                            \/ MigrateWait(c) \/ IOStep(c)
  BY <1>1, <1>11 DEF ParseAndDispatch, DispatchSession, PauseForQueue,
     ResumeAfterQueue, MigrateWait, IOStep, FlushPending, WriteSuccess, loopVars
<1> QED BY <1>3, <1>4, <1>5, <1>6, <1>7, <1>8, <1>9, <1>10, <1>11
        DEF Next, ConnStep

\* At the start nothing is held.
LEMMA InitHolds == Init => HoldsExact
<1> SUFFICES ASSUME Init, NEW l \in Loop
             PROVE  IsFiniteSet(Held(l)) /\ holds[l] = Cardinality(Held(l))
  BY DEF HoldsExact
<1>1. Held(l) = {} /\ holds[l] = 0
  BY DEF Init, Held
<1> QED BY <1>1, FS_EmptySet

---------------------------------------------------------------------------
(* The end of a loop.                                                      *)

\* A loop nothing is reserved on is waited for by no connection and has
\* nothing but plans in its mailbox.
LEMMA Unreserved ==
    ASSUME Shape, Counted, NEW l \in Loop, pending[l] = 0
    PROVE  /\ Accepts(l) = {} /\ Targets(l) = {}
           /\ \A i \in DOMAIN mail[l] : mail[l][i].op = "plan"
<1>1. /\ Cardinality(Accepts(l)) = 0 /\ Cardinality(Targets(l)) = 0
      /\ Cardinality(InMail(l)) = 0
  <2>1. PICK a \in Nat, t \in Nat, m \in Nat :
          /\ a = Cardinality(Accepts(l)) /\ t = Cardinality(Targets(l))
          /\ m = Cardinality(InMail(l)) /\ 0 = a + t + m
    BY CountedAs
  <2>2. \A x, y, z \in Nat : 0 = x + y + z => x = 0 /\ y = 0 /\ z = 0
    OBVIOUS
  <2>3. 0 = a + t + m
    BY <2>1
  <2>4. a = 0 /\ t = 0 /\ m = 0
    BY <2>2, <2>3
  <2> QED BY <2>1, <2>4
<1>2. Accepts(l) = {} /\ Targets(l) = {} /\ InMail(l) = {}
  BY <1>1, ConnsFinite, InMailFinite, FS_EmptySet
<1>3. ASSUME NEW i \in DOMAIN mail[l], mail[l][i].op # "plan" PROVE FALSE
  <2>1. mail[l][i] \in Mail
    BY DEF Shape, Typed
  <2>2. CASE mail[l][i].op = "accept"
    <3>1. mail[l][i].conn \in Conn
      BY <2>1, <2>2 DEF Mail
    <3>2. mail[l][i].conn \in Accepts(l)
      BY <2>2, <3>1 DEF Shape, MailOK, Expects, Accepts
    <3> QED BY <1>2, <3>2
  <2>3. CASE mail[l][i].op = "attach"
    <3>1. l \in Reserves(l, mail[l][i], l)
      BY <2>3 DEF Reserves
    <3>2. <<l, <<i, l>>>> \in InMail(l)
      BY <3>1, InMailOf
    <3> QED BY <1>2, <3>2
  <2> QED BY <1>3, <2>1, <2>2, <2>3 DEF Mail
<1> QED BY <1>2, <1>3

\* What a step does to a loop that is not live and has no reservation: none
\* comes, no connection comes, and its mailbox gets nothing but a plan.
Fades(l) ==
    /\ pending'[l] <= pending[l] /\ connCount'[l] <= connCount[l]
    /\ holds'[l] <= holds[l] \/ Running(l)
    /\ mail[l] = <<>> => mail'[l] = <<>>

\* The steps of a connection do so.
LEMMA ConnFades ==
    ASSUME Shape, Counted, NEW l \in Loop, life[l] # "live", pending[l] = 0,
           NEW c \in Conn,
           \/ PickIOThread(c) \/ PostAccept(c) \/ Detach(c) \/ Destroy(c)
    PROVE  Fades(l)
<1>1. connCount \in [Loop -> Int] /\ pending \in [Loop -> Int]
      /\ holds \in [Loop -> Int]
  BY DEF Shape, Typed
<1>2. connCount[l] \in Int /\ pending[l] \in Int /\ holds[l] \in Int
  BY <1>1
<1>3. CASE PickIOThread(c)
  <2>1. PICK k \in Live : pending' = Add(pending, k, 1)
    BY <1>3 DEF PickIOThread
  <2>2. k \in Loop /\ k # l
    BY <2>1 DEF Live
  <2>3. pending'[l] = pending[l]
    BY <1>1, <2>1, <2>2, AddType
  <2> QED BY <1>2, <1>3, <2>3 DEF PickIOThread, Fades
<1>4. CASE PostAccept(c)
  <2> DEFINE k == conn[c].loop
  <2>1. k \in Loop /\ c \in Accepts(k) /\ Post(k, [op |-> "accept", conn |-> c])
    BY <1>4, ConnFields DEF PostAccept, ConnOK, MaybeLoop, Accepts
  <2>2. k # l
    BY <2>1, Unreserved
  <2>3. mail'[l] = mail[l]
    BY <2>1, <2>2 DEF Post, Shape, Typed
  <2> QED BY <1>2, <1>4, <2>3 DEF PostAccept, Fades, counters
<1>5. CASE Detach(c)
  <2>1. PICK k \in Loop, t \in Loop :
             /\ conn[c].target = t /\ connCount' = Add(connCount, k, -1)
             /\ Post(t, [op |-> "attach", conn |-> c])
    BY <1>5, DetachConn
  <2>2. t # l
    BY <2>1, Unreserved DEF Targets
  <2>3. mail'[l] = mail[l]
    BY <2>1, <2>2 DEF Post, Shape, Typed
  <2>4. connCount'[l] = connCount[l] - Bit(k = l)
    BY <1>1, <2>1, AddBit
  <2>5. connCount'[l] <= connCount[l]
    BY <1>2, <2>4 DEF Bit
  <2> QED BY <1>2, <1>5, <2>3, <2>5 DEF Detach, Fades
<1>6. CASE Destroy(c)
  <2>1. PICK k \in Loop :
             /\ connCount' = Add(connCount, k, -1)
             /\ IF conn[c].target = NoLoop THEN UNCHANGED pending
                ELSE pending' = Add(pending, conn[c].target, -1)
             /\ conn[c].target \in MaybeLoop
    BY <1>6, DestroyConn
  <2>2. connCount'[l] = connCount[l] - Bit(k = l)
    BY <1>1, <2>1, AddBit
  <2>3. connCount'[l] <= connCount[l]
    BY <1>2, <2>2 DEF Bit
  <2>4. pending'[l] <= pending[l]
    <3>1. CASE conn[c].target = NoLoop
      BY <1>2, <2>1, <3>1
    <3>2. CASE conn[c].target # NoLoop
      <4>1. conn[c].target \in Loop
        BY <2>1, <3>2 DEF MaybeLoop
      <4>2. pending'[l] = pending[l] - Bit(conn[c].target = l)
        BY <1>1, <2>1, <3>2, <4>1, AddBit
      <4> QED BY <1>2, <4>2 DEF Bit
    <3> QED BY <3>1, <3>2
  <2> QED BY <1>2, <1>6, <2>3, <2>4 DEF Destroy, Fades
<1> QED BY <1>3, <1>4, <1>5, <1>6

\* So do those of a loop's mailbox.
LEMMA LoopFades ==
    ASSUME Shape, Counted, NEW l \in Loop, life[l] # "live", pending[l] = 0,
           NEW k \in Loop, LoopStep(k)
    PROVE  Fades(l)
<1>1. connCount \in [Loop -> Int] /\ pending \in [Loop -> Int]
      /\ holds \in [Loop -> Int]
  BY DEF Shape, Typed
<1>2. connCount[l] \in Int /\ pending[l] \in Int /\ holds[l] \in Int
  BY <1>1
<1>3. ASSUME NEW op \in {"accept", "attach"}, Arrive(k, op) PROVE Fades(l)
  <2>1. TakeMail(k, op) /\ connCount' = Add(connCount, k, 1)
        /\ pending' = Add(pending, k, -1) /\ UNCHANGED holds
    BY <1>3 DEF Arrive
  <2>2. 1 \in DOMAIN mail[k] /\ mail[k][1].op = op
    BY <2>1, TakenMail
  <2>3. k # l
    BY <2>2, Unreserved
  <2>4. mail'[l] = mail[l]
    BY <2>1, <2>3, TakenMail
  <2>5. connCount'[l] = connCount[l] /\ pending'[l] = pending[l]
    BY <1>1, <2>1, <2>3, AddType
  <2> QED BY <1>2, <2>1, <2>4, <2>5 DEF Fades
<1>4. CASE RunPlan(k)
  <2>1. TakeMail(k, "plan") /\ UNCHANGED <<connCount, holds>>
    BY <1>4 DEF RunPlan
  <2>2. mail[l] = <<>> => mail'[l] = <<>>
    BY <2>1, TakenMail
  <2>3. PICK n, q : Runs(k, mail[k][1].dests, n, q)
    BY <1>4, RunPlanRuns
  <2> DEFINE m == mail[k][1]
             dests == m.dests
  <2>4. m.op = "plan" /\ m.dests = dests
    BY <2>1, TakenMail
  <2>5. /\ dests \in Seq(Loop) /\ n \in 0 .. Len(dests)
        /\ pending' = [d \in Loop |-> pending[d] - Unused(dests, n, d)]
    BY <2>3 DEF Runs
  <2> HIDE DEF m, dests
  <2>6. Unused(dests, n, l) \in Nat
    BY <2>4, <2>5, PlanSplits
  <2>7. pending'[l] <= pending[l]
    BY <1>2, <2>5, <2>6
  <2> QED BY <1>2, <2>1, <2>2, <2>7 DEF Fades
<1> QED BY <1>3, <1>4 DEF LoopStep, Start, FinishAttach

\* And those of a request.
LEMMA RequestFades ==
    ASSUME Shape, NEW l \in Loop, NEW r \in Req,
           \/ \E c \in Conn : HandleGet(c, r) \/ HandleSet(c, r)
           \/ Complete(r) \/ Respond(r)
    PROVE  Fades(l)
<1>1. connCount \in [Loop -> Int] /\ pending \in [Loop -> Int]
      /\ holds \in [Loop -> Int]
  BY DEF Shape, Typed
<1>2. connCount[l] \in Int /\ pending[l] \in Int /\ holds[l] \in Int
  BY <1>1
<1>3. UNCHANGED <<connCount, pending, mail>>
  BY DEF HandleGet, HandleSet, ToEngine, Complete, Respond, loopVars, counters
<1>4. holds'[l] <= holds[l] \/ Running(l)
  <2>1. ASSUME NEW c \in Conn, HandleSet(c, r) PROVE holds'[l] <= holds[l] \/ Running(l)
    <3> DEFINE k == conn[c].loop
    <3>1. k \in Loop /\ Running(k) /\ holds' = Add(holds, k, 1)
      BY <2>1, ConnFields DEF HandleSet, ToEngine, OnLoop, ConnOK, MaybeLoop
    <3>2. CASE k = l
      BY <3>1, <3>2
    <3>3. CASE k # l
      <4>1. holds'[l] = holds[l]
        BY <1>1, <3>1, <3>3, AddType
      <4> QED BY <1>2, <4>1
    <3> QED BY <3>2, <3>3
  <2>2. CASE Respond(r)
    <3>1. PICK c, k, s : Responds(r, c, k, s)
      BY <2>2, RespondDoes
    <3>2. k \in Loop /\ holds' = IF req[r].durable THEN Add(holds, k, -1) ELSE holds
      BY <3>1 DEF Responds
    <3>3. holds'[l] = holds[l] - Bit(k = l) \/ holds'[l] = holds[l]
      BY <1>1, <3>2, AddBit
    <3> QED BY <1>2, <3>3 DEF Bit
  <2>3. CASE Complete(r) \/ \E c \in Conn : HandleGet(c, r)
    <3>1. UNCHANGED holds
      BY <2>3 DEF Complete, HandleGet, loopVars
    <3> QED BY <1>2, <3>1
  <2> QED BY <2>1, <2>2, <2>3
<1> QED BY <1>2, <1>3, <1>4 DEF Fades

\* And those of a connection that stays where it is.
LEMMA InPlaceFades ==
    ASSUME Shape, NEW l \in Loop, UNCHANGED <<connCount, pending, holds, mail>>
    PROVE  Fades(l)
<1>1. connCount[l] \in Int /\ pending[l] \in Int /\ holds[l] \in Int
  BY DEF Shape, Typed
<1> QED BY <1>1 DEF Fades

\* The steps that take no part in a resize.
Traffic ==
    \/ \E c \in Conn : PickIOThread(c) \/ PostAccept(c)
    \/ \E l \in Loop : LoopStep(l)
    \/ \E c \in Conn, r \in Req : HandleGet(c, r) \/ HandleSet(c, r)
    \/ \E c \in Conn : ParseAndDispatch(c) \/ DispatchSession(c)
    \/ \E c \in Conn : PauseForQueue(c) \/ ResumeAfterQueue(c) \/ Destroy(c)
    \/ \E c \in Conn : ConnStep(c) \/ IOStep(c)
    \/ \E r \in Req : Complete(r) \/ Respond(r)

\* They leave the end of a loop to the tuner.
LEMMA TrafficFades ==
    ASSUME Shape, Counted, Traffic
    PROVE  /\ UNCHANGED <<life, emptyTicks, tuner, resizes>>
           /\ \A l \in Loop : life[l] # "live" /\ pending[l] = 0 => Fades(l)
<1>1. CASE \E c \in Conn : \/ PickIOThread(c) \/ PostAccept(c) \/ Detach(c)
                           \/ Destroy(c)
  <2>1. UNCHANGED <<life, emptyTicks, tuner, resizes>>
    BY <1>1 DEF PickIOThread, PostAccept, Detach, Destroy
  <2> QED BY <1>1, <2>1, ConnFades
<1>2. CASE \E l \in Loop : LoopStep(l)
  <2>1. UNCHANGED <<life, emptyTicks, tuner, resizes>>
    BY <1>2 DEF LoopStep, Start, FinishAttach, Arrive, RunPlan
  <2> QED BY <1>2, <2>1, LoopFades
<1>3. CASE \/ \E c \in Conn, r \in Req : HandleGet(c, r) \/ HandleSet(c, r)
           \/ \E r \in Req : Complete(r) \/ Respond(r)
  <2>1. UNCHANGED <<life, emptyTicks, tuner, resizes>>
    BY <1>3 DEF HandleGet, HandleSet, ToEngine, Complete, Respond, loopVars
  <2> QED BY <1>3, <2>1, RequestFades
<1>4. CASE \E c \in Conn : \/ ParseAndDispatch(c) \/ DispatchSession(c)
                           \/ PauseForQueue(c) \/ ResumeAfterQueue(c)
                           \/ MigrateWait(c) \/ IOStep(c)
  <2>1. UNCHANGED <<loopVars, tuner, resizes>>
    BY <1>4 DEF ParseAndDispatch, DispatchSession, PauseForQueue,
       ResumeAfterQueue, MigrateWait, IOStep, FlushPending, WriteSuccess
  <2>2. UNCHANGED <<life, connCount, pending, holds, emptyTicks, mail, tuner,
                    resizes>>
    BY <2>1 DEF loopVars, counters
  <2> QED BY <2>2, InPlaceFades
<1> QED BY <1>1, <1>2, <1>3, <1>4 DEF Traffic, ConnStep

\* Every count is a number from zero on.
LoadsNat == \A l \in Loop : connCount[l] \in Nat /\ pending[l] \in Nat
HoldsNat == \A l \in Loop : holds[l] \in Nat

\* The loads, as they are cardinalities.
LEMMA CountsNat == Shape /\ Counted => LoadsNat
<1>1. ASSUME Shape, Counted, NEW l \in Loop
      PROVE  connCount[l] \in Nat /\ pending[l] \in Nat
  BY <1>1, CountedAs
<1> QED BY <1>1 DEF LoadsNat

\* The holds too.
LEMMA HeldNat == HoldsExact => HoldsNat
BY FS_CardinalityType DEF HoldsExact, HoldsNat

\* What the tuner reads is a count.
LEMMA SeenKeeps ==
    ASSUME Shape, Counted, SeenCount, [Next]_vars PROVE SeenCount'
<1>1. CASE UNCHANGED tuner
  BY <1>1 DEF SeenCount
<1>2. CASE Traffic
  BY <1>1, <1>2, TrafficFades
<1>3. tuner \in TunerState
  BY DEF Shape, Typed
<1>4. CASE Rebalance \/ \E l \in Loop : PlanShrink(l) \/ PlanStuck(l)
  <2>1. tuner' = Idle \/ \E T \in SUBSET tuner.todo : tuner' = [tuner EXCEPT !.todo = T]
    BY <1>4, PlanSteps
  <2>2. tuner'.seen = 0 \/ tuner'.seen = tuner.seen
    BY <1>3, <2>1 DEF Idle, TunerState
  <2> QED BY <2>2 DEF SeenCount
<1>5. CASE Grow \/ Shrink \/ ReapStart \/ ReapPlan
  <2>1. tuner'.seen = 0
    <3>1. \A p, T : [Idle EXCEPT !.pc = p].seen = 0 /\ Idle.seen = 0
                    /\ [Idle EXCEPT !.pc = p, !.todo = T].seen = 0
      BY DEF Idle
    <3>2. CASE Grow
      BY <3>1, <3>2 DEF Grow
    <3>3. CASE Shrink
      BY <3>1, <3>3 DEF Shrink
    <3>4. CASE ReapStart
      BY <3>1, <3>4 DEF ReapStart
    <3>5. CASE ReapPlan
      BY <3>1, <3>5 DEF ReapPlan
    <3> QED BY <1>5, <3>2, <3>3, <3>4, <3>5
  <2> QED BY <2>1 DEF SeenCount
<1>6. ASSUME NEW l \in Loop, ReapRead(l) PROVE SeenCount'
  <2>1. tuner'.seen = connCount[l]
    BY <1>3, <1>6 DEF ReapRead, TunerState
  <2> QED BY <2>1, CountsNat DEF SeenCount, LoadsNat
<1>7. CASE ReapDecide
  <2>1. tuner'.seen = 0
    BY <1>3, <1>7 DEF ReapDecide, TunerState
  <2> QED BY <2>1 DEF SeenCount
<1>8. CASE Stop \/ Stopped \/ UNCHANGED vars
  BY <1>1, <1>8 DEF Stop, Stopped, vars
<1> QED BY <1>2, <1>4, <1>5, <1>6, <1>7, <1>8 DEF Next, TunerStep, Traffic

\* Traffic takes nothing back from a loop that is ending.
LEMMA TrafficEnding ==
    ASSUME Shape, Counted, Counted', Shape', HoldsExact, HoldsExact', Ending,
           Traffic
    PROVE  Ending'
<1>1. /\ UNCHANGED <<life, emptyTicks, tuner>>
      /\ \A l \in Loop : life[l] # "live" /\ pending[l] = 0 => Fades(l)
  BY TrafficFades
<1>2. ASSUME NEW l \in Loop
      PROVE  /\ connCount[l] \in Nat /\ pending[l] \in Nat /\ holds[l] \in Nat
             /\ connCount'[l] \in Nat /\ pending'[l] \in Nat
             /\ holds'[l] \in Nat
  <2>1. Shape' /\ Counted' => LoadsNat'
    BY CountsNat, PTL
  <2>2. HoldsExact' => HoldsNat'
    BY HeldNat, PTL
  <2> QED BY <2>1, <2>2, CountsNat, HeldNat DEF LoadsNat, HoldsNat
<1>3. ASSUME NEW l \in Loop, life[l] # "live", pending[l] = 0
      PROVE  /\ connCount[l] = 0 => connCount'[l] = 0
             /\ mail[l] = <<>> => mail'[l] = <<>>
             /\ holds[l] = 0 /\ ~Running(l) => holds'[l] = 0
  BY <1>1, <1>2, <1>3 DEF Fades
<1>4. ASSUME NEW l \in Loop, life[l] # "live", pending[l] = 0
      PROVE  pending'[l] = 0
  BY <1>1, <1>2, <1>4 DEF Fades
<1>5. \A l \in Retiring' : emptyTicks'[l] = 1 => pending'[l] = 0
  BY <1>1, <1>4 DEF Ending, Retiring
<1>6. tuner.todo \subseteq Retiring /\ Retiring \subseteq Loop
      /\ (tuner.pc = "load" => tuner.at \in tuner.todo)
  BY DEF Shape, TunerOK, Retiring
<1>7. \A l \in Retiring : l \in Loop /\ life[l] # "live"
  BY DEF Retiring
<1>8. tuner'.pc \in {"scan", "load"} =>
        \A l \in tuner'.todo : emptyTicks'[l] = 1 => mail'[l] = <<>>
  BY <1>1, <1>3, <1>6, <1>7 DEF Ending
<1>9. tuner'.pc = "load" /\ emptyTicks'[tuner'.at] = 1 /\ tuner'.seen = 0 =>
         connCount'[tuner'.at] = 0
  <2> SUFFICES ASSUME tuner.pc = "load", emptyTicks[tuner.at] = 1,
                      tuner.seen = 0
               PROVE  connCount'[tuner.at] = 0
    BY <1>1
  <2>1. tuner.at \in Retiring
    BY <1>6
  <2>2. pending[tuner.at] = 0 /\ connCount[tuner.at] = 0
    BY <2>1 DEF Ending
  <2> QED BY <1>3, <1>7, <2>1, <2>2
<1>10. \A l \in Loop : life'[l] = "reaped" =>
         /\ connCount'[l] = 0 /\ pending'[l] = 0 /\ holds'[l] = 0
         /\ mail'[l] = <<>>
  <2> SUFFICES ASSUME NEW l \in Loop, life[l] = "reaped"
               PROVE  /\ connCount'[l] = 0 /\ pending'[l] = 0 /\ holds'[l] = 0
                      /\ mail'[l] = <<>>
    BY <1>1
  <2>1. connCount[l] = 0 /\ pending[l] = 0 /\ holds[l] = 0 /\ mail[l] = <<>>
    BY DEF Ending
  <2>2. life[l] # "live" /\ ~Running(l)
    BY DEF Running
  <2>3. pending'[l] = 0
    BY <1>4, <2>1, <2>2
  <2> QED BY <1>3, <2>1, <2>2, <2>3
<1> QED BY <1>5, <1>8, <1>9, <1>10 DEF Ending

\* Plans are made for live loops, and not during a tick.
LEMMA PlansEnding ==
    ASSUME Shape, Ending,
           Rebalance \/ \E l \in Loop : PlanShrink(l) \/ PlanStuck(l)
    PROVE  Ending'
<1>1. PICK D : PlansPosted(D)
  BY PlanSteps
<1>2. /\ UNCHANGED <<life, connCount, holds, emptyTicks>>
      /\ tuner'.pc \notin {"scan", "load"}
  BY PlanSteps
<1>3. ASSUME NEW l \in Loop, life[l] # "live" PROVE pending'[l] = pending[l]
  <2>1. ASSUME NEW e \in Entries(D, l) PROVE FALSE
    <3>1. PICK k \in Loop : \E j \in DOMAIN D[k] : D[k][j] = l
      BY <2>1, InEntries
    <3>2. D[k] \in Seq(Live)
      BY <1>1 DEF PlansPosted
    <3>3. l \in Live
      BY <3>1, <3>2
    <3> QED BY <1>3, <3>3 DEF Live
  <2>2. Entries(D, l) = {}
    BY <2>1
  <2>3. pending'[l] = pending[l] + 0
    BY <1>1, <2>2, FS_EmptySet DEF PlansPosted
  <2> QED BY <2>3 DEF Shape, Typed
<1>4. ASSUME NEW l \in Loop, ~Running(l) PROVE mail'[l] = mail[l]
  BY <1>1, <1>4 DEF PlansPosted
<1>5. \A l \in Retiring' : emptyTicks'[l] = 1 => pending'[l] = 0
  BY <1>2, <1>3 DEF Ending, Retiring
<1>6. \A l \in Loop : life'[l] = "reaped" =>
         /\ connCount'[l] = 0 /\ pending'[l] = 0 /\ holds'[l] = 0
         /\ mail'[l] = <<>>
  BY <1>2, <1>3, <1>4 DEF Ending, Running
<1> QED BY <1>2, <1>5, <1>6 DEF Ending

\* The tick: what the first read saw is still so at the decision of the second.
LEMMA DecideEnding ==
    ASSUME Shape, Counted, SeenCount, Ending, ReapDecide PROVE Ending'
<1>1. PICK l, stuck, second : Decides(l, stuck, second)
  BY ReapDecides
<1>2. tuner.pc = "load" /\ l \in Loop /\ l \in tuner.todo /\ l = tuner.at
  BY <1>1, ReapDecides DEF Decides
<1>3. /\ stuck = (tuner.seen + pending[l] > 0)
      /\ second = (~stuck /\ holds[l] = 0 /\ emptyTicks[l] = 1)
  BY <1>1 DEF Decides
<1>4. ~stuck => tuner.seen = 0 /\ pending[l] = 0
  <2>1. pending[l] \in Nat /\ tuner.seen \in Nat
    BY <1>2, CountsNat DEF SeenCount, LoadsNat
  <2>2. \A x, y \in Nat : ~(x + y > 0) => x = 0 /\ y = 0
    OBVIOUS
  <2>3. ~stuck => ~(tuner.seen + pending[l] > 0)
    BY <1>3
  <2> QED BY <2>1, <2>2, <2>3
<1>5. /\ life \in [Loop -> {"unborn", "live", "retiring", "reaped", "stopped"}]
      /\ emptyTicks \in [Loop -> 0..1] /\ tuner \in TunerState
  BY DEF Shape, Typed
<1>6. /\ emptyTicks'[l] = (IF ~stuck /\ holds[l] = 0 /\ ~second THEN 1 ELSE 0)
      /\ life'[l] = (IF second THEN "reaped" ELSE life[l])
      /\ \A k \in Loop \ {l} : /\ emptyTicks'[k] = emptyTicks[k]
                               /\ life'[k] = life[k]
      /\ UNCHANGED <<connCount, pending, holds, mail>>
  BY <1>1, <1>2, <1>5 DEF Decides
<1>7. tuner'.pc = "scan" /\ tuner'.todo = tuner.todo \ {l}
  BY <1>1, <1>5 DEF Decides, TunerState
<1>8. tuner.todo \subseteq Loop
  BY <1>5 DEF TunerState
<1>9. \A k \in Retiring' : emptyTicks'[k] = 1 => pending'[k] = 0
  <2> SUFFICES ASSUME NEW k \in Loop, life'[k] = "retiring", emptyTicks'[k] = 1
               PROVE  pending'[k] = 0
    BY DEF Retiring
  <2>1. CASE k = l
    BY <1>4, <1>6, <2>1
  <2>2. CASE k # l
    BY <1>6, <2>2 DEF Ending, Retiring
  <2> QED BY <2>1, <2>2
<1>10. \A k \in tuner'.todo : emptyTicks'[k] = 1 => mail'[k] = <<>>
  BY <1>2, <1>6, <1>7, <1>8 DEF Ending
<1>11. second => connCount[l] = 0 /\ pending[l] = 0 /\ holds[l] = 0
                 /\ mail[l] = <<>>
  BY <1>2, <1>3, <1>4 DEF Ending
<1>12. \A k \in Loop : life'[k] = "reaped" =>
         /\ connCount'[k] = 0 /\ pending'[k] = 0 /\ holds'[k] = 0
         /\ mail'[k] = <<>>
  <2> SUFFICES ASSUME NEW k \in Loop, life'[k] = "reaped"
               PROVE  /\ connCount[k] = 0 /\ pending[k] = 0 /\ holds[k] = 0
                      /\ mail[k] = <<>>
    BY <1>6
  <2>1. CASE k = l /\ second
    BY <1>11, <2>1
  <2>2. CASE k # l \/ ~second
    <3>1. life[k] = "reaped"
      BY <1>6, <2>2
    <3> QED BY <3>1 DEF Ending
  <2> QED BY <2>1, <2>2
<1> QED BY <1>7, <1>9, <1>10, <1>12 DEF Ending

\* The other steps of the tuner, and Stop.
LEMMA TunerEnding ==
    ASSUME Shape, Ending,
           \/ Grow \/ Shrink \/ ReapStart \/ ReapPlan \/ Stop
           \/ \E l \in Loop : ReapRead(l)
    PROVE  Ending'
<1>1. /\ life \in [Loop -> {"unborn", "live", "retiring", "reaped", "stopped"}]
      /\ emptyTicks \in [Loop -> 0..1] /\ tuner \in TunerState
  BY DEF Shape, Typed
<1>2. UNCHANGED <<connCount, pending, holds, mail>>
  BY DEF Grow, Shrink, ReapStart, ReapPlan, Stop, ReapRead, loopVars, counters
<1>3. \A p, T : /\ [Idle EXCEPT !.pc = p].pc = p /\ Idle.pc = "idle"
                /\ [Idle EXCEPT !.pc = p, !.todo = T].pc = p
                /\ [Idle EXCEPT !.pc = p, !.todo = T].todo = T
  BY DEF Idle
<1>4. CASE Grow
  <2>1. PICK new \in SUBSET {l \in Loop : life[l] = "unborn"} :
           life' = [l \in Loop |-> IF l \in new THEN "live" ELSE life[l]]
    BY <1>4 DEF Grow
  <2>2. \A k \in Loop : life'[k] \in {"retiring", "reaped"} => life[k] = life'[k]
    BY <1>1, <2>1
  <2>3. tuner'.pc = "rebalance" /\ UNCHANGED emptyTicks
    BY <1>3, <1>4 DEF Grow
  <2> QED BY <1>2, <2>2, <2>3 DEF Ending, Retiring
<1>5. CASE Shrink
  <2>1. PICK gone : Retires(gone)
    BY <1>5, ShrinkRetires
  <2>2. \A k \in Loop : /\ life'[k] = "reaped" => life[k] = "reaped"
                        /\ life'[k] = "retiring" /\ emptyTicks'[k] = 1 =>
                             life[k] = "retiring" /\ emptyTicks[k] = 1
    BY <1>1, <2>1 DEF Retires
  <2>3. tuner'.pc = "shrink"
    BY <1>3, <2>1 DEF Retires
  <2> QED BY <1>2, <2>2, <2>3 DEF Ending, Retiring
<1>6. CASE ReapStart
  <2>1. /\ tuner'.pc = "scan" /\ tuner'.todo = Retiring
        /\ UNCHANGED <<life, emptyTicks>>
    BY <1>3, <1>6 DEF ReapStart, loopVars
  <2>2. \A l \in Retiring : emptyTicks[l] = 1 => mail[l] = <<>>
    BY <1>6 DEF ReapStart
  <2> QED BY <1>2, <2>1, <2>2 DEF Ending, Retiring
<1>7. CASE ReapPlan
  <2>1. tuner'.pc \in {"idle", "rebalance", "replan"}
        /\ UNCHANGED <<life, emptyTicks>>
    BY <1>3, <1>7 DEF ReapPlan, loopVars
  <2> QED BY <1>2, <2>1 DEF Ending, Retiring
<1>8. CASE Stop
  <2>1. tuner.pc = "idle" /\ UNCHANGED <<tuner, emptyTicks>>
    BY <1>8 DEF Stop
  <2>2. \A k \in Loop : life'[k] \in {"retiring", "reaped"} => life[k] = life'[k]
    BY <1>1, <1>8 DEF Stop
  <2> QED BY <1>2, <2>1, <2>2 DEF Ending, Retiring
<1>9. ASSUME NEW l \in Loop, ReapRead(l) PROVE Ending'
  <2>1. /\ tuner.pc = "scan" /\ tuner'.pc = "load" /\ tuner'.todo = tuner.todo
        /\ tuner'.at = l /\ tuner'.seen = connCount[l]
        /\ UNCHANGED <<life, emptyTicks>>
    BY <1>1, <1>9 DEF ReapRead, TunerState, loopVars
  <2> QED BY <1>2, <2>1 DEF Ending, Retiring
<1> QED BY <1>4, <1>5, <1>6, <1>7, <1>8, <1>9

---------------------------------------------------------------------------
(* The theorems.                                                           *)

\* The invariant holds at the start.
LEMMA InitInvariant == Init => IInv
<1> SUFFICES ASSUME Init PROVE IInv
  OBVIOUS
<1>1. Watched
  BY DEF Init, Watched, Migrating
<1>2. SeenCount
  BY DEF Init, Idle, SeenCount
<1>3. Ending
  <2>1. \A l \in Loop : life[l] \in {"live", "unborn"}
    BY DEF Init
  <2>2. tuner.pc = "idle"
    BY DEF Init, Idle
  <2> QED BY <2>1, <2>2 DEF Ending, Retiring
<1> QED BY <1>1, <1>2, <1>3, InitShape, InitCounted, InitHolds DEF IInv

\* Every step keeps it.
LEMMA InvariantKeeps == IInv /\ [Next]_vars => IInv'
<1> SUFFICES ASSUME IInv, [Next]_vars PROVE IInv'
  OBVIOUS
<1>1. Shape /\ Watched /\ Counted /\ HoldsExact /\ SeenCount /\ Ending
  BY DEF IInv
<1>2. Shape' /\ Watched' /\ Counted' /\ HoldsExact' /\ SeenCount'
  BY <1>1, ShapeKeeps, WatchedKeeps, CountedKeeps, HoldsKeep, SeenKeeps
<1>3. Ending'
  <2>1. CASE Traffic
    BY <1>1, <1>2, <2>1, TrafficEnding
  <2>2. CASE Rebalance \/ \E l \in Loop : PlanShrink(l) \/ PlanStuck(l)
    BY <1>1, <2>2, PlansEnding
  <2>3. CASE ReapDecide
    BY <1>1, <2>3, DecideEnding
  <2>4. CASE \/ Grow \/ Shrink \/ ReapStart \/ ReapPlan \/ Stop
             \/ \E l \in Loop : ReapRead(l)
    BY <1>1, <2>4, TunerEnding
  <2>5. CASE Stopped \/ UNCHANGED vars
    BY <1>1, <2>5 DEF Stopped, vars, loopVars, counters, Ending, Retiring
  <2> QED BY <2>1, <2>2, <2>3, <2>4, <2>5 DEF Next, Traffic, TunerStep
<1> QED BY <1>2, <1>3 DEF IInv

\* The inductive invariant of the IO pool: where connections, requests and
\* messages are, what is watched, what the counters count, and what a loop has
\* lost at each point of its end.
THEOREM Invariant == Spec => []IInv
BY InitInvariant, InvariantKeeps, PTL DEF Spec

\* The counters of a loop are exact, and are counts: whatever connections did
\* between a plan and its execution, no reservation leaks and none is given
\* back twice (Reserve, Unreserve, Add, Remove).
THEOREM CountersAreExact == Spec => []CountsExact
<1>1. IInv => CountsExact
  <2> SUFFICES ASSUME IInv PROVE CountsExact
    OBVIOUS
  <2>1. Shape /\ Counted /\ HoldsExact /\ SeenCount
    BY DEF IInv
  <2>2. LoadsNat /\ HoldsNat
    BY <2>1, CountsNat, HeldNat
  <2>3. connCount \in [Loop -> Nat] /\ pending \in [Loop -> Nat]
        /\ holds \in [Loop -> Nat]
    BY <2>1, <2>2 DEF Shape, Typed, LoadsNat, HoldsNat
  <2>4. pausedConns \in 0 .. Cardinality(Conn)
    <3>1. Pauses \subseteq Conn
      BY DEF Pauses
    <3>2. Cardinality(Pauses) <= Cardinality(Conn) /\ Cardinality(Conn) \in Nat
      BY <3>1, Domain, FS_Subset, FS_CardinalityType
    <3>3. pausedConns = Cardinality(Pauses) /\ Cardinality(Pauses) \in Nat
      BY <2>1, CountedAs
    <3> QED BY <3>2, <3>3
  <2>5. tuner \in [pc : {"idle", "scan", "load", "shrink", "replan",
                         "rebalance"},
                   todo : SUBSET Loop, at : MaybeLoop, seen : Nat,
                   stuck : SUBSET Loop]
    BY <2>1 DEF Shape, Typed, TunerState, SeenCount
  <2>6. TypeOK
    BY <2>1, <2>3, <2>4, <2>5 DEF TypeOK, Shape, Typed
  <2> QED BY <2>1, <2>6 DEF CountsExact, Counted
<1> QED BY <1>1, Invariant, PTL

\* No connection is left deaf: one that does not migrate is read from or has
\* its timer armed, one that migrates has something to wait for or its check
\* scheduled, and gPausedConns counts the paused ones.
THEOREM NoConnectionIsDeaf == Spec => []NeverDeaf
<1>1. IInv => NeverDeaf
  <2> SUFFICES ASSUME IInv PROVE NeverDeaf
    OBVIOUS
  <2>1. Shape /\ Watched /\ Counted
    BY DEF IInv
  <2>2. \A c \in Conn : ConnOK(conn[c])
    BY <2>1 DEF Shape, ConnsOK
  <2>3. \A c \in Conn : conn[c].st = "open" =>
         IF Migrating(c)
           THEN conn[c].check \/ ~Quiescent(c)
           ELSE conn[c].reading \/ (conn[c].paused /\ conn[c].timer)
    BY <2>1, <2>2 DEF ConnOK, Busy, Migrating, Watched
  <2>4. \A c \in Conn : Migrating(c) => ~conn[c].reading
    BY <2>2 DEF ConnOK, Busy, AtRest, Migrating
  <2> QED BY <2>1, <2>3, <2>4 DEF NeverDeaf, Counted
<1> QED BY <1>1, Invariant, PTL

\* A loop is not reaped while a connection is on it or on its way to it.
THEOREM LoopsOutliveConnections == Spec => []LoopOutlivesConns
<1>1. IInv => LoopOutlivesConns
  <2> SUFFICES ASSUME IInv, NEW l \in Loop, life[l] = "reaped"
               PROVE  /\ \A c \in Conn : conn[c].loop # l /\ conn[c].target # l
                      /\ \A i \in DOMAIN mail[l] : mail[l][i].op = "plan"
    BY DEF LoopOutlivesConns
  <2>1. Shape /\ Counted /\ Ending
    BY DEF IInv
  <2>2. connCount[l] = 0 /\ pending[l] = 0 /\ mail[l] = <<>>
    BY <2>1 DEF Ending
  <2>3. /\ Accepts(l) = {} /\ Targets(l) = {}
        /\ \A i \in DOMAIN mail[l] : mail[l][i].op = "plan"
    BY <2>1, <2>2, Unreserved
  <2>4. OpenOn(l) = {}
    BY <2>1, <2>2, CountedAs, ConnsFinite, FS_EmptySet
  <2>5. ASSUME NEW c \in Conn PROVE conn[c].loop # l /\ conn[c].target # l
    <3>1. ConnOK(conn[c]) /\ l # NoLoop
      BY <2>1, Domain DEF Shape, ConnsOK
    <3>2. conn[c].loop = l => conn[c].st \in {"picked", "posted", "open"}
      BY <3>1 DEF ConnOK
    <3> QED BY <2>3, <2>4, <3>2 DEF Accepts, Targets, OpenOn
  <2> QED BY <2>3, <2>5
<1> QED BY <1>1, Invariant, PTL

\* A request that is held, or whose connection is open, is answered on a loop
\* that has not been reaped.
THEOREM AnswersBeforeReap == Spec => []AnswerBeforeReap
<1>1. IInv => AnswerBeforeReap
  <2> SUFFICES ASSUME IInv, NEW r \in Req, req[r].st \in {"engine", "posted"},
                      req[r].durable \/ conn[req[r].conn].st = "open",
                      life[req[r].loop] = "reaped"
               PROVE  FALSE
    BY DEF AnswerBeforeReap
  <2> DEFINE l == req[r].loop
  <2>1. Shape /\ Counted /\ HoldsExact /\ Ending
    BY DEF IInv
  <2>2. /\ req[r].conn \in Conn /\ l \in Loop
        /\ \/ conn[req[r].conn].st = "closing"
           \/ conn[req[r].conn].st = "open" /\ conn[req[r].conn].loop = l
    BY <2>1 DEF Shape, ReqOK
  <2>3. connCount[l] = 0 /\ holds[l] = 0
    BY <2>1, <2>2 DEF Ending
  <2>4. OpenOn(l) = {}
    BY <2>1, <2>2, <2>3, CountedAs, ConnsFinite, FS_EmptySet
  <2>5. Held(l) = {}
    BY <2>1, <2>2, <2>3, FS_EmptySet DEF HoldsExact
  <2> QED BY <2>2, <2>4, <2>5 DEF OpenOn, Held
<1> QED BY <1>1, Invariant, PTL
=============================================================================
