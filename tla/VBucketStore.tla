----------------------------- MODULE VBucketStore -----------------------------
(***************************************************************************)
(* What the write path promises, per vbucket: an ordered queue of accepted *)
(* writes whose prefixes are applied, newest write per key winning and     *)
(* every applied document getting a fresh, higher seqno, or fail together. *)
(* Nothing overtakes, nothing is dropped, nothing is applied twice.        *)
(***************************************************************************)
EXTENDS Integers, Sequences

CONSTANTS VB, Key, MaxWrites

VARIABLES
    queue,      \* vbucket -> accepted writes not yet applied, oldest first
    store,      \* vbucket -> key -> [id, seqno]
    high,       \* vbucket -> highest seqno handed out
    fate        \* request id -> "new", "stored" or "failed"

absVars == <<queue, store, high, fate>>

Init ==
    /\ queue = [v \in VB |-> <<>>]
    /\ store = [v \in VB |-> [k \in Key |-> [id |-> 0, seqno |-> 0]]]
    /\ high = [v \in VB |-> 0]
    /\ fate = [i \in 1..MaxWrites |-> "new"]

\* A chain of writes joins the end of the queue.
Accept(v) ==
    /\ Len(queue'[v]) > Len(queue[v])
    /\ queue' = [queue EXCEPT ![v] =
                   @ \o SubSeq(queue'[v], Len(@) + 1, Len(queue'[v]))]
    /\ UNCHANGED <<store, high, fate>>

\* The first n writes of v leave the queue with the same fate.
Leave(v, n, how) ==
    /\ queue' = [queue EXCEPT ![v] = SubSeq(@, n + 1, Len(@))]
    /\ fate' = [i \in 1..MaxWrites |->
                  IF \E j \in 1..n : queue[v][j].id = i THEN how ELSE fate[i]]
    /\ \A u \in VB \ {v} : high'[u] = high[u]
    /\ high'[v] >= high[v]

\* Each key written by the prefix ends up at its newest write there, under a
\* seqno above everything handed out before; other keys are left alone.
Apply(v, n) ==
    /\ Leave(v, n, "stored")
    /\ \A u \in VB \ {v} : store'[u] = store[u]
    /\ \A k \in Key :
         LET writes == {j \in 1..n : queue[v][j].key = k} IN
         IF writes = {} THEN store'[v][k] = store[v][k]
         ELSE /\ \E j \in writes : /\ \A i \in writes : i <= j
                                   /\ store'[v][k].id = queue[v][j].id
              /\ high[v] < store'[v][k].seqno /\ store'[v][k].seqno <= high'[v]
    /\ \A k, l \in Key : store'[v][k].seqno = store'[v][l].seqno
                           => k = l \/ store'[v][k].seqno = 0

Fail(v, n) == Leave(v, n, "failed") /\ UNCHANGED store

Next == \E v \in VB : \/ Accept(v)
                      \/ \E n \in 1..Len(queue[v]) : Apply(v, n) \/ Fail(v, n)

Spec == Init /\ [][Next]_absVars
=============================================================================
