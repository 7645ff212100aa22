--------------------------- MODULE DirectSendProofs ---------------------------
(***************************************************************************)
(* Theorems about DirectSend, for every finite set of readers and requests *)
(***************************************************************************)
EXTENDS DirectSend, TLAPS, FiniteSetTheorems, FunctionTheorems, SequenceTheorems

-----------------------------------------------------------------------------
(* The inductive invariant *)

HeldPc   == {"take", "write", "unlock", "relheld"}
SendPc   == {"take", "write", "unlock", "recheck", "finish"}
RelPc    == {"rel", "relheld", "relcas", "relpost"}
UnlockPc == {"unlockF", "unlockH", "unlockC", "unlockM", "unlockA"}

\* A chunk whose spill is still to be posted; a posted flush; chunks with counts;
\* posts with counts, but for the deletion.
Posting(c)  == \E i \in DOMAIN c : c[i].post
Flushing(p) == \E i \in DOMAIN p : p[i].op = "flush"
NoZero(c)   == \A i \in DOMAIN c : c[i].k # 0
PostOK(p)   == \A i \in DOMAIN p : p[i].k = 0 <=> p[i].op = "delete"

InSend(l) == l.pc \in SendPc \cup RelPc \cup {"drain"}

\* What a thread's locals l are at each step, whoever it is: where a count, a
\* batch or a chunk can be in hand.
CommonOK(l) ==
    /\ l.k # 0 <=> l.pc \in RelPc
    /\ l.batch # <<>> => l.pc \in {"push", "take", "write", "chain"}
    /\ l.chunks # <<>> => l.pc \in SendPc \cup RelPc
    /\ NoZero(l.chunks)

\* A reader in sendDirect holds something until it is done.
ReaderOK(l) ==
    /\ l.pc \in {"idle", "push", "retry"} \cup SendPc \cup RelPc
    /\ l.ret = "idle" /\ l.owed = 0
    /\ l.depth = (IF l.pc \in HeldPc THEN 1 ELSE 0)
    /\ l.pc = "idle" => l.extra = 0
    /\ l.pc = "push" => l.batch # <<>>
    /\ l.pc \in {"push", "retry", "take", "write", "unlock", "recheck"} =>
         \/ l.extra = 1 \/ l.chunks # <<>>
         \/ l.pc \in {"take", "write"} /\ l.batch # <<>>

\* The loop's destroy() inside a failed write runs with the lock already held.
Nested(l) == l.ret = "closed" /\ l.depth = (IF l.pc \in HeldPc THEN 2 ELSE 1)

LoopOK(l) ==
    /\ l.pc \notin {"push", "retry"} /\ l.extra = 0
    /\ InSend(l) => l.ret # "idle"
    /\ InSend(l) => l.depth = (IF l.pc \in HeldPc THEN 1 ELSE 0) \/ Nested(l)
    /\ l.pc \in UnlockPc => l.depth = 1
    /\ l.pc = "closed" => l.depth \in {0, 1}
    /\ ~InSend(l) /\ l.pc \notin UnlockPc \cup {"closed"} => l.depth = 0
    /\ l.owed # 0 => \/ l.pc \in {"flush", "unlockF", "after"}
                     \/ InSend(l) /\ (l.ret = "after" \/ Nested(l))
                     \/ l.pc = "closed" /\ l.depth = 1

LocalOK(t, l) ==
    /\ CommonOK(l)
    /\ t \in Reader => ReaderOK(l)
    /\ t = Loop => LoopOK(l)

Shape == \A t \in Thread : LocalOK(t, th[t])

Deletes == {i \in DOMAIN posts : posts[i].op = "delete"}

ClosingPc(l) == \/ l.pc \in {"close", "unlockC", "closed"}
                \/ InSend(l) /\ l.ret = "closed"

Life ==
    /\ sendClosed => conn.st \in {"closing", "deleted"}
    /\ conn.st \in {"closing", "deleted"} => sendClosed \/ At(Loop, "close")
    /\ At(Loop, "chain") => Open
    /\ ClosingPc(th[Loop]) => Closing /\ Deletes = {}

PostShape ==
    /\ PostOK(posts)
    /\ \A i, j \in Deletes : i = j
    /\ Deletes # {} => outstanding = 0 /\ Closing

Quiet ==
    conn.st \in {"detached", "deleted"} => outstanding = 0 /\ LoopIdle

Bare == conn.st = "detached" => pendingBuf = <<>> /\ folly = <<>>

Flagged ==
    /\ spill # <<>> /\ ~sendClosed => spillPosted
    /\ spillPosted /\ ~sendClosed =>
        At(Loop, "flush") \/ Flushing(posts) \/ \E t \in Thread : Posting(th[t].chunks)

DInv == TypeOK /\ Shape /\ Life /\ PostShape /\ Quiet
        /\ Bare /\ Flagged /\ OutstandingExact


-----------------------------------------------------------------------------
(* Units *)

\* Counted things with their counts.
Counted(f) == IsFiniteSet(DOMAIN f) /\ \A x \in DOMAIN f : f[x].k \in Nat

\* The units of all but one of the things.
Others(f, t) == UNION {{x} \X (1 .. f[x].k) : x \in DOMAIN f \ {t}}

\* The units of a thing are as many as its count, and come on top of the rest.
LEMMA UnitsOf ==
    ASSUME NEW f, Counted(f), NEW t \in DOMAIN f
    PROVE  /\ IsFiniteSet(Units(f)) /\ Cardinality(Others(f, t)) \in Nat
           /\ Cardinality(Units(f)) = Cardinality(Others(f, t)) + f[t].k
<1> DEFINE R == Others(f, t)
           F == {{x} \X (1 .. f[x].k) : x \in DOMAIN f \ {t}}
           X == {t} \X (1 .. f[t].k)
<1>1. IsFiniteSet(R)
  <2>1. IsFiniteSet(DOMAIN f \ {t})
    BY FS_Difference DEF Counted
  <2>2. IsFiniteSet(F)
    <3> DEFINE g == [x \in DOMAIN f \ {t} |-> {x} \X (1 .. f[x].k)]
    <3>1. g \in Surjection(DOMAIN f \ {t}, F)
      BY DEF Surjection
    <3> QED BY <2>1, <3>1, FS_Surjection
  <2>3. ASSUME NEW Y \in F PROVE IsFiniteSet(Y)
    <3>1. PICK x \in DOMAIN f \ {t} : Y = {x} \X (1 .. f[x].k)
      BY <2>3
    <3>2. f[x].k \in Int
      BY DEF Counted
    <3>3. IsFiniteSet(1 .. f[x].k)
      BY <3>2, FS_Interval
    <3>4. IsFiniteSet({x})
      BY FS_Singleton
    <3> QED BY <3>1, <3>3, <3>4, FS_Product
  <2> QED BY <2>2, <2>3, FS_UNION DEF Others
<1>2. f[t].k \in Nat
  BY DEF Counted
<1>3. IsFiniteSet(1 .. f[t].k) /\ Cardinality(1 .. f[t].k) = f[t].k
  <2>1. 0 + 1 \in Int /\ f[t].k \in Int
    BY <1>2
  <2>2. /\ IsFiniteSet(1 .. f[t].k)
        /\ Cardinality(1 .. f[t].k) = IF 1 > f[t].k THEN 0 ELSE f[t].k - 1 + 1
    BY <2>1, FS_Interval
  <2> QED BY <1>2, <2>2
<1>4. IsFiniteSet(X) /\ Cardinality(X) = f[t].k
  <2>1. IsFiniteSet({t}) /\ Cardinality({t}) = 1
    BY FS_Singleton
  <2>2. IsFiniteSet(X) /\ Cardinality(X) = 1 * Cardinality(1 .. f[t].k)
    BY <1>3, <2>1, FS_Product
  <2> QED BY <1>2, <1>3, <2>2
<1>5. Units(f) = R \cup X
  <2>1. Units(f) \subseteq R \cup X
    BY DEF Units, Others
  <2>2. R \cup X \subseteq Units(f)
    BY DEF Units, Others
  <2> QED BY <2>1, <2>2
<1>6. R \cap X = {}
  BY DEF Others
<1>7. Cardinality(R \cup X) = Cardinality(R) + Cardinality(X) - Cardinality(R \cap X)
  BY <1>1, <1>4, FS_Union
<1>8. Cardinality(R \cap X) = 0 /\ Cardinality(R) \in Nat
  BY <1>1, <1>6, FS_EmptySet, FS_CardinalityType
<1>9. IsFiniteSet(Units(f))
  <2>1. IsFiniteSet(R \cup X)
    BY <1>1, <1>4, FS_Union
  <2> QED BY <1>5, <2>1
<1> HIDE DEF R, X
<1>10. PICK n \in Nat : n = f[t].k
  BY <1>2
<1>11. PICK m \in Nat : m = Cardinality(R)
  BY <1>8
<1>12. Cardinality(Units(f)) = m + n - 0
  BY <1>4, <1>5, <1>7, <1>8, <1>10, <1>11
<1>13. m + n - 0 = m + n
  OBVIOUS
<1> QED BY <1>8, <1>9, <1>10, <1>11, <1>12, <1>13 DEF R

\* Nothing counted, nothing held.
LEMMA UnitsNone ==
    ASSUME NEW f, DOMAIN f = {}
    PROVE  Units(f) = {} /\ Cardinality(Units(f)) = 0
<1>1. Units(f) = {}
  BY DEF Units
<1> QED BY <1>1, FS_EmptySet

\* The number of units is a number, and no less than each count.
LEMMA UnitsCount ==
    ASSUME NEW f, Counted(f)
    PROVE  /\ IsFiniteSet(Units(f)) /\ Cardinality(Units(f)) \in Nat
           /\ \A t \in DOMAIN f : f[t].k <= Cardinality(Units(f))
<1>1. CASE DOMAIN f = {}
  BY <1>1, UnitsNone, FS_EmptySet
<1>2. CASE DOMAIN f # {}
  <2>1. IsFiniteSet(Units(f))
    BY <1>2, UnitsOf
  <2>2. Cardinality(Units(f)) \in Nat
    BY <2>1, FS_CardinalityType
  <2>3. ASSUME NEW t \in DOMAIN f PROVE f[t].k <= Cardinality(Units(f))
    <3>1. PICK n \in Nat : n = Cardinality(Others(f, t))
      BY UnitsOf
    <3>2. f[t].k \in Nat /\ Cardinality(Units(f)) = n + f[t].k
      BY <3>1, UnitsOf DEF Counted
    <3> QED BY <3>2
  <2> QED BY <2>1, <2>2, <2>3
<1> QED BY <1>1, <1>2

\* When one count changes, the total changes by as much.
LEMMA UnitsChange ==
    ASSUME NEW f, NEW g, Counted(f), Counted(g), DOMAIN f = DOMAIN g,
           NEW t \in DOMAIN f, \A x \in DOMAIN f \ {t} : f[x].k = g[x].k
    PROVE  Cardinality(Units(g)) + f[t].k = Cardinality(Units(f)) + g[t].k
<1>1. Others(f, t) = Others(g, t)
  BY DEF Others
<1>2. PICK n \in Nat : n = Cardinality(Others(f, t))
  BY UnitsOf
<1>3. PICK a \in Nat : a = f[t].k
  BY DEF Counted
<1>4. PICK b \in Nat : b = g[t].k
  BY DEF Counted
<1>5. Cardinality(Units(f)) = n + a
  BY <1>2, <1>3, UnitsOf
<1>6. Cardinality(Units(g)) = n + b
  BY <1>1, <1>2, <1>4, UnitsOf
<1>7. (n + b) + a = (n + a) + b
  OBVIOUS
<1> QED BY <1>3, <1>4, <1>5, <1>6, <1>7

\* Appending adds what is appended.
LEMMA UnitsAppend ==
    ASSUME NEW S, NEW q \in Seq(S), NEW e \in S, \A x \in S : x.k \in Nat
    PROVE  Cardinality(Units(Append(q, e))) = Cardinality(Units(q)) + e.k
<1> DEFINE g == Append(q, e)
           n == Len(q) + 1
<1>1. /\ Len(q) \in Nat /\ DOMAIN q = 1..Len(q)
      /\ DOMAIN g = 1..n /\ g[n] = e
      /\ \A i \in 1..Len(q) : g[i] = q[i]
  BY AppendProperties, LenProperties
<1>2. Counted(g)
  <2>1. IsFiniteSet(1..n)
    BY <1>1, FS_Interval
  <2>2. \A i \in 1..n : g[i] \in S
    BY <1>1
  <2> QED BY <1>1, <2>1, <2>2 DEF Counted
<1>3. Others(g, n) = Units(q)
  <2>1. DOMAIN g \ {n} = DOMAIN q
    BY <1>1
  <2>2. \A i \in DOMAIN q : g[i] = q[i]
    BY <1>1
  <2> HIDE DEF g, n
  <2> QED BY <2>1, <2>2 DEF Others, Units
<1>4. n \in DOMAIN g
  BY <1>1
<1> HIDE DEF g, n
<1>5. Cardinality(Units(g)) = Cardinality(Others(g, n)) + g[n].k
  BY <1>2, <1>4, UnitsOf
<1> QED BY <1>1, <1>3, <1>5 DEF g

\* Taking the head takes its units away.
LEMMA UnitsTail ==
    ASSUME NEW S, NEW q \in Seq(S), q # <<>>, \A x \in S : x.k \in Nat
    PROVE  Cardinality(Units(q)) = Cardinality(Units(Tail(q))) + Head(q).k
<1>1. /\ Len(q) \in Nat /\ Len(q) > 0 /\ DOMAIN q = 1..Len(q)
      /\ Head(q) = q[1]
  BY EmptySeq, LenProperties, HeadTailProperties
<1>2. /\ Tail(q) \in Seq(S) /\ DOMAIN Tail(q) = 1..(Len(q) - 1)
      /\ \A i \in 1..(Len(q) - 1) : Tail(q)[i] = q[i + 1]
  BY <1>1, HeadTailProperties, LenProperties
<1>3. Counted(q) /\ Counted(Tail(q))
  <2>1. IsFiniteSet(1..Len(q)) /\ IsFiniteSet(1..(Len(q) - 1))
    BY <1>1, FS_Interval
  <2>2. \A i \in DOMAIN q : q[i] \in S
    BY <1>1
  <2>3. \A i \in DOMAIN Tail(q) : Tail(q)[i] \in S
    BY <1>1, <1>2
  <2> QED BY <1>1, <1>2, <2>1, <2>2, <2>3 DEF Counted
<1> DEFINE N == Units(Tail(q))
           P == Others(q, 1)
           f == [u \in N |-> <<u[1] + 1, u[2]>>]
<1>4. \A i \in 1..(Len(q) - 1) : i \in Int /\ i + 1 \in DOMAIN q \ {1}
  BY <1>1
<1>5. \A i \in DOMAIN q \ {1} : i - 1 \in 1..(Len(q) - 1) /\ (i - 1) + 1 = i
  BY <1>1
<1>6. ASSUME NEW u \in N
      PROVE  /\ u[1] \in 1..(Len(q) - 1) /\ u = <<u[1], u[2]>>
             /\ u[2] \in 1..Tail(q)[u[1]].k
  BY <1>2 DEF Units
<1>7. \A u \in N : <<u[1] + 1, u[2]>> \in P
  <2> SUFFICES ASSUME NEW u \in N PROVE <<u[1] + 1, u[2]>> \in P
    OBVIOUS
  <2>1. u[1] + 1 \in DOMAIN q \ {1} /\ q[u[1] + 1] = Tail(q)[u[1]]
    BY <1>2, <1>4, <1>6
  <2>2. u[2] \in 1..q[u[1] + 1].k
    BY <1>6, <2>1
  <2>3. PICK x \in DOMAIN q \ {1} : x = u[1] + 1
    BY <2>1
  <2>4. <<x, u[2]>> \in {x} \X (1..q[x].k)
    BY <2>2, <2>3
  <2> QED BY <2>3, <2>4 DEF Others
<1>8. \A p \in P : \E u \in N : <<u[1] + 1, u[2]>> = p
  <2> SUFFICES ASSUME NEW p \in P PROVE \E u \in N : <<u[1] + 1, u[2]>> = p
    OBVIOUS
  <2>0. PICK i \in DOMAIN q \ {1} : \E j \in 1..q[i].k : p = <<i, j>>
    BY DEF Others
  <2>1. PICK j \in 1..q[i].k : p = <<i, j>>
    BY <2>0
  <2>2. /\ i - 1 \in DOMAIN Tail(q) /\ (i - 1) + 1 = i
        /\ Tail(q)[i - 1] = q[(i - 1) + 1]
    BY <1>2, <1>5
  <2>3. j \in 1..Tail(q)[i - 1].k
    BY <2>2
  <2>4. <<i - 1, j>> \in N
    BY <2>2, <2>3 DEF Units
  <2> QED BY <2>1, <2>2, <2>4
<1>9. \A u, v \in N : <<u[1] + 1, u[2]>> = <<v[1] + 1, v[2]>> => u = v
  <2> SUFFICES ASSUME NEW u \in N, NEW v \in N, u[1] + 1 = v[1] + 1, u[2] = v[2]
               PROVE  u = v
    OBVIOUS
  <2>1. u[1] = v[1]
    BY <1>1, <1>6
  <2> QED BY <1>6, <2>1
<1>10. f \in Bijection(N, P)
  <2>1. f \in [N -> P]
    BY <1>7
  <2>2. \A u, v \in N : f[u] = f[v] => u = v
    BY <1>9
  <2>3. \A p \in P : \E u \in N : f[u] = p
    BY <1>8
  <2> QED BY <2>1, <2>2, <2>3, Fun_IsBij
<1>11. ExistsBijection(N, P)
  BY <1>10 DEF ExistsBijection
<1>12. IsFiniteSet(N)
  BY <1>3, UnitsCount
<1>13. Cardinality(P) = Cardinality(N)
  BY <1>11, <1>12, FS_Bijection
<1>14. Cardinality(Units(q)) = Cardinality(P) + q[1].k
  BY <1>1, <1>3, UnitsOf
<1> QED BY <1>1, <1>13, <1>14
-----------------------------------------------------------------------------
(* What the threads hold *)

BLen(t) == IF At(t, "chain") THEN 0 ELSE Len(th[t].batch)
CU(t)   == Cardinality(Units(th[t].chunks))

\* A sequence of chunks or of posts can be counted.
LEMMA SeqCounted ==
    ASSUME NEW S, NEW q \in Seq(S), \A x \in S : x.k \in Nat
    PROVE  Counted(q) /\ Cardinality(Units(q)) \in Nat
<1>1. Len(q) \in Nat /\ DOMAIN q = 1..Len(q) /\ \A i \in 1..Len(q) : q[i] \in S
  BY LenProperties, ElementOfSeq
<1>2. IsFiniteSet(DOMAIN q)
  BY <1>1, FS_Interval
<1>3. Counted(q)
  BY <1>1, <1>2 DEF Counted
<1> QED BY <1>3, UnitsCount

\* What a thread holds is a number, and so are its parts.
Parted ==
    /\ \A t \in Thread :
         /\ th[t].extra \in Nat /\ th[t].k \in Nat /\ th[t].owed \in Nat
         /\ BLen(t) \in Nat /\ CU(t) \in Nat
         /\ Held(t).k = th[t].extra + th[t].k + th[t].owed + BLen(t) + CU(t)
         /\ Held(t).k \in Nat
    /\ Cardinality(Units(posts)) \in Nat /\ Len(sendPending) \in Nat
    /\ Cardinality(engine) \in Nat /\ IsFiniteSet(engine)
    /\ Counted([t \in Thread |-> Held(t)]) /\ Counted(posts)

\* The parts of the count are finite, and numbers.
LEMMA Parts == TypeOK => Parted
<1> SUFFICES ASSUME TypeOK PROVE Parted
  OBVIOUS
<1>1. ASSUME NEW t \in Thread
      PROVE  /\ th[t].extra \in Nat /\ th[t].k \in Nat /\ th[t].owed \in Nat
             /\ BLen(t) \in Nat /\ CU(t) \in Nat
             /\ Held(t).k = th[t].extra + th[t].k + th[t].owed + BLen(t) + CU(t)
             /\ Held(t).k \in Nat
  <2>1. th[t] \in Locals
    BY DEF TypeOK
  <2>2. th[t].extra \in Nat /\ th[t].k \in Nat /\ th[t].owed \in Nat
    BY <2>1 DEF Locals
  <2>3. th[t].batch \in Seq(Req) /\ th[t].chunks \in Seq(Chunk)
    BY <2>1 DEF Locals
  <2>4. BLen(t) \in Nat
    BY <2>3, LenProperties DEF BLen
  <2>5. CU(t) \in Nat
    <3>1. \A x \in Chunk : x.k \in Nat
      BY DEF Chunk
    <3> QED BY <2>3, <3>1, SeqCounted DEF CU
  <2>6. Held(t).k = th[t].extra + th[t].k + th[t].owed + BLen(t) + CU(t)
    BY DEF Held, BLen, CU
  <2> QED BY <2>2, <2>4, <2>5, <2>6
<1>2. IsFiniteSet(Thread)
  BY Domain, FS_AddElement DEF Thread
<1>3. Counted([t \in Thread |-> Held(t)])
  BY <1>1, <1>2 DEF Counted
<1>4. Counted(posts) /\ Cardinality(Units(posts)) \in Nat
  <2>1. \A x \in Posted : x.k \in Nat
    BY DEF Posted
  <2>2. posts \in Seq(Posted)
    BY DEF TypeOK
  <2> QED BY <2>1, <2>2, SeqCounted
<1>5. Len(sendPending) \in Nat
  BY LenProperties DEF TypeOK, BufferType
<1>6. IsFiniteSet(engine) /\ Cardinality(engine) \in Nat
  BY Domain, FS_Subset, FS_CardinalityType DEF TypeOK, ConnType
<1> QED BY <1>1, <1>3, <1>4, <1>5, <1>6 DEF Parted

\* The arithmetic of CountStep.
LEMMA Sums ==
    ASSUME NEW e \in Nat, NEW e1 \in Nat, NEW s \in Nat, NEW s1 \in Nat,
           NEW h \in Nat, NEW h1 \in Nat, NEW p \in Nat, NEW p1 \in Nat,
           NEW u \in Nat, NEW u1 \in Nat, NEW o1 \in Int,
           u1 + h = u + h1,
           o1 + e + s + h + p = (e + s + u + p) + e1 + s1 + h1 + p1
    PROVE  o1 = e1 + s1 + u1 + p1
OBVIOUS

\* A step of one thread: if what it adds to the count is what it adds to what is
\* held, the count stays exact.
LEMMA CountStep ==
    ASSUME TypeOK, TypeOK', OutstandingExact,
           NEW t \in Thread, \A u \in Thread \ {t} : th'[u] = th[u],
           outstanding' + Cardinality(engine) + Len(sendPending) + Held(t).k
             + Cardinality(Units(posts))
           = outstanding + Cardinality(engine') + Len(sendPending') + Held(t)'.k
             + Cardinality(Units(posts'))
    PROVE  OutstandingExact'
<1>1. Parted /\ Parted'
  BY Parts, PTL
<1> DEFINE f == [u \in Thread |-> Held(u)]
           g == [u \in Thread |-> Held(u)']
<1>2. \A u \in Thread \ {t} : Held(u)' = Held(u)
  BY DEF Held, At
<1>3. Counted(f) /\ Counted(g)
  BY <1>1 DEF Parted
<1>4. Cardinality(Units(g)) + f[t].k = Cardinality(Units(f)) + g[t].k
  BY <1>2, <1>3, UnitsChange
<1>5. Cardinality(Units(f)) \in Nat /\ Cardinality(Units(g)) \in Nat
  BY <1>3, UnitsCount
<1>6. Cardinality(Units(g)) + Held(t).k = Cardinality(Units(f)) + Held(t)'.k
  BY <1>4
<1>7. outstanding = Cardinality(engine) + Len(sendPending) + Cardinality(Units(f))
                    + Cardinality(Units(posts))
  BY DEF OutstandingExact, CountsHeld
<1>8. outstanding' \in Int
  BY DEF TypeOK, ConnType
<1>9. outstanding' = Cardinality(engine') + Len(sendPending') + Cardinality(Units(g))
                     + Cardinality(Units(posts'))
  <2>1. PICK e \in Nat : e = Cardinality(engine)
    BY <1>1 DEF Parted
  <2>2. PICK e1 \in Nat : e1 = Cardinality(engine')
    BY <1>1 DEF Parted
  <2>3. PICK s \in Nat : s = Len(sendPending)
    BY <1>1 DEF Parted
  <2>4. PICK s1 \in Nat : s1 = Len(sendPending')
    BY <1>1 DEF Parted
  <2>5. PICK h \in Nat : h = Held(t).k
    BY <1>1 DEF Parted
  <2>6. PICK h1 \in Nat : h1 = Held(t)'.k
    BY <1>1 DEF Parted
  <2>7. PICK p \in Nat : p = Cardinality(Units(posts))
    BY <1>1 DEF Parted
  <2>8. PICK p1 \in Nat : p1 = Cardinality(Units(posts'))
    BY <1>1 DEF Parted
  <2>9. PICK u \in Nat : u = Cardinality(Units(f))
    BY <1>5
  <2>10. PICK u1 \in Nat : u1 = Cardinality(Units(g))
    BY <1>5
  <2>11. PICK o1 \in Int : o1 = outstanding'
    BY <1>8
  <2>12. u1 + h = u + h1
    BY <1>6, <2>5, <2>6, <2>9, <2>10
  <2>13. o1 + e + s + h + p = (e + s + u + p) + e1 + s1 + h1 + p1
    BY <1>7, <2>1, <2>2, <2>3, <2>4, <2>5, <2>6, <2>7, <2>8, <2>9, <2>11
  <2>14. o1 = e1 + s1 + u1 + p1
    BY <2>12, <2>13, Sums
  <2> QED BY <2>2, <2>4, <2>8, <2>10, <2>11, <2>14
<1> QED BY <1>9 DEF OutstandingExact, CountsHeld

\* What a step of t adds to the count and to each of the places that hold counts:
\* the engine, sendPending_, its own extra count, k, owed, batch and chunks, and
\* the posted callbacks.
Delta(t, o, e, s, x, k, w, b, c, p) ==
    /\ outstanding' = outstanding + o
    /\ Cardinality(engine') = Cardinality(engine) + e
    /\ Len(sendPending') = Len(sendPending) + s
    /\ th'[t].extra = th[t].extra + x /\ th'[t].k = th[t].k + k
    /\ th'[t].owed = th[t].owed + w
    /\ BLen(t)' = BLen(t) + b /\ CU(t)' = CU(t) + c
    /\ Cardinality(Units(posts')) = Cardinality(Units(posts)) + p

\* If the places gain together what the count gains, it stays exact.
LEMMA DeltaExact ==
    ASSUME TypeOK, TypeOK', OutstandingExact, NEW t \in Thread,
           \A u \in Thread \ {t} : th'[u] = th[u],
           NEW o \in Int, NEW e \in Int, NEW s \in Int, NEW x \in Int, NEW k \in Int,
           NEW w \in Int, NEW b \in Int, NEW c \in Int, NEW p \in Int,
           Delta(t, o, e, s, x, k, w, b, c, p), o = e + s + x + k + w + b + c + p
    PROVE  OutstandingExact'
<1>1. Parted /\ Parted'
  BY Parts, PTL
<1>2. PICK x0 \in Nat, k0 \in Nat, w0 \in Nat, b0 \in Nat, c0 \in Nat :
         /\ x0 = th[t].extra /\ k0 = th[t].k /\ w0 = th[t].owed
         /\ b0 = BLen(t) /\ c0 = CU(t)
  BY <1>1 DEF Parted
<1>3. PICK o0 \in Nat, e0 \in Nat, s0 \in Nat, p0 \in Nat :
         /\ o0 = outstanding /\ e0 = Cardinality(engine) /\ s0 = Len(sendPending)
         /\ p0 = Cardinality(Units(posts))
  BY <1>1 DEF Parted, TypeOK, ConnType
<1>4. Held(t).k = x0 + k0 + w0 + b0 + c0
  BY <1>1, <1>2 DEF Parted
<1>5. Held(t)'.k = th'[t].extra + th'[t].k + th'[t].owed + BLen(t)' + CU(t)'
  BY <1>1 DEF Parted
<1>6. Held(t)'.k = (x0 + x) + (k0 + k) + (w0 + w) + (b0 + b) + (c0 + c)
  BY <1>2, <1>5 DEF Delta
<1>7. (o0 + o) + e0 + s0 + (x0 + k0 + w0 + b0 + c0) + p0
      = o0 + (e0 + e) + (s0 + s)
        + ((x0 + x) + (k0 + k) + (w0 + w) + (b0 + b) + (c0 + c)) + (p0 + p)
  OBVIOUS
<1>8. /\ outstanding' = o0 + o /\ Cardinality(engine') = e0 + e
      /\ Len(sendPending') = s0 + s /\ Cardinality(Units(posts')) = p0 + p
  BY <1>3 DEF Delta
<1>9. outstanding' + Cardinality(engine) + Len(sendPending) + Held(t).k
        + Cardinality(Units(posts))
      = outstanding + Cardinality(engine') + Len(sendPending') + Held(t)'.k
        + Cardinality(Units(posts'))
  BY <1>3, <1>4, <1>6, <1>7, <1>8
<1> QED BY <1>9, CountStep

\* What does not change changes by zero.
LEMMA PlusZero ==
    ASSUME TypeOK, NEW t \in Thread
    PROVE  /\ outstanding = outstanding + 0
           /\ Cardinality(engine) = Cardinality(engine) + 0
           /\ Len(sendPending) = Len(sendPending) + 0
           /\ th[t].extra = th[t].extra + 0 /\ th[t].k = th[t].k + 0
           /\ th[t].owed = th[t].owed + 0
           /\ BLen(t) = BLen(t) + 0 /\ CU(t) = CU(t) + 0
           /\ Cardinality(Units(posts)) = Cardinality(Units(posts)) + 0
<1>1. Parted /\ outstanding \in Nat
  BY Parts DEF TypeOK, ConnType
<1> QED BY <1>1 DEF Parted

\* With a count of zero nobody holds anything.
Empty ==
    /\ engine = {} /\ sendPending = <<>>
    /\ \A t \in Thread : Held(t).k = 0
    /\ \A i \in DOMAIN posts : posts[i].k = 0

\* A count of zero leaves nothing in any of the places it counts.
LEMMA ZeroEmpty == TypeOK /\ OutstandingExact /\ outstanding = 0 => Empty
<1> SUFFICES ASSUME TypeOK, OutstandingExact, outstanding = 0 PROVE Empty
  OBVIOUS
<1>1. Parted
  BY Parts
<1> DEFINE f == [t \in Thread |-> Held(t)]
<1>2. PICK e \in Nat : e = Cardinality(engine)
  BY <1>1 DEF Parted
<1>3. PICK s \in Nat : s = Len(sendPending)
  BY <1>1 DEF Parted
<1>4. Counted(f) /\ Counted(posts)
  BY <1>1 DEF Parted
<1>5. PICK u \in Nat : u = Cardinality(Units(f))
  BY <1>4, UnitsCount
<1>6. PICK p \in Nat : p = Cardinality(Units(posts))
  BY <1>1 DEF Parted
<1>7. 0 = e + s + u + p
  BY <1>2, <1>3, <1>5, <1>6 DEF OutstandingExact, CountsHeld
<1>8. e = 0 /\ s = 0 /\ u = 0 /\ p = 0
  BY <1>7
<1>9. engine = {}
  BY <1>1, <1>2, <1>8, FS_EmptySet DEF Parted
<1>10. sendPending = <<>>
  BY <1>3, <1>8, EmptySeq DEF TypeOK, BufferType
<1>11. \A t \in Thread : Held(t).k = 0
  <2> SUFFICES ASSUME NEW t \in Thread PROVE Held(t).k = 0
    OBVIOUS
  <2>1. f[t].k <= u
    BY <1>4, <1>5, UnitsCount
  <2>2. Held(t).k \in Nat
    BY <1>1 DEF Parted
  <2> QED BY <1>8, <2>1, <2>2
<1>12. \A i \in DOMAIN posts : posts[i].k = 0
  <2> SUFFICES ASSUME NEW i \in DOMAIN posts PROVE posts[i].k = 0
    OBVIOUS
  <2>1. posts[i].k <= p
    BY <1>4, <1>6, UnitsCount
  <2>2. posts[i].k \in Nat
    BY <1>4 DEF Counted
  <2> QED BY <1>8, <2>1, <2>2
<1> QED BY <1>9, <1>10, <1>11, <1>12 DEF Empty

\* A thread that holds nothing has no counts, no chunks and no batch.
LEMMA HoldsNothing ==
    ASSUME TypeOK, Shape, NEW t \in Thread, Held(t).k = 0
    PROVE  /\ th[t].extra = 0 /\ th[t].k = 0 /\ th[t].owed = 0
           /\ th[t].chunks = <<>>
           /\ th[t].pc # "chain" => th[t].batch = <<>>
<1>1. Parted
  BY Parts
<1>2. PICK a \in Nat, b \in Nat, c \in Nat, d \in Nat, e \in Nat :
         /\ a = th[t].extra /\ b = th[t].k /\ c = th[t].owed /\ d = BLen(t)
         /\ e = CU(t)
  BY <1>1 DEF Parted
<1>3. Held(t).k = a + b + c + d + e
  BY <1>1, <1>2 DEF Parted
<1>4. a = 0 /\ b = 0 /\ c = 0 /\ d = 0 /\ e = 0
  BY <1>3
<1>5. th[t] \in Locals
  BY DEF TypeOK
<1>6. th[t].chunks = <<>>
  <2> SUFFICES ASSUME th[t].chunks # <<>> PROVE FALSE
    OBVIOUS
  <2>1. th[t].chunks \in Seq(Chunk) /\ \A x \in Chunk : x.k \in Nat
    BY <1>5 DEF Locals, Chunk
  <2>2. 1 \in DOMAIN th[t].chunks
    BY <2>1, EmptySeq, LenProperties
  <2>3. Counted(th[t].chunks)
    BY <2>1, SeqCounted
  <2>4. th[t].chunks[1].k <= CU(t)
    BY <2>2, <2>3, UnitsCount DEF CU
  <2>5. th[t].chunks[1].k \in Nat
    BY <2>2, <2>3 DEF Counted
  <2>6. th[t].chunks[1].k # 0
    BY <2>2 DEF Shape, LocalOK, CommonOK, NoZero
  <2> QED BY <1>2, <1>4, <2>4, <2>5, <2>6
<1>7. th[t].pc # "chain" => th[t].batch = <<>>
  BY <1>2, <1>4, <1>5, EmptySeq DEF BLen, At, Locals
<1> QED BY <1>2, <1>4, <1>6, <1>7

-----------------------------------------------------------------------------
(* Steps that hold what they held *)

\* Only t moves.
Moves(t) ==
    /\ th' \in [Thread -> Locals]
    /\ \A u \in Thread \ {t} : th'[u] = th[u]

SameHeld(t) ==
    /\ th'[t].batch = th[t].batch /\ th'[t].chunks = th[t].chunks
    /\ th'[t].extra = th[t].extra /\ th'[t].k = th[t].k
    /\ th'[t].owed = th[t].owed
    /\ th[t].pc # "chain" /\ th'[t].pc # "chain"
    /\ UNCHANGED <<outstanding, engine, sendPending, posts>>

\* A step of one thread that moves no count keeps the count exact.
LEMMA SameHeldExact ==
    ASSUME TypeOK, TypeOK', OutstandingExact, NEW t \in Thread, Moves(t), SameHeld(t)
    PROVE  OutstandingExact'
<1>1. Held(t)' = Held(t)
  BY DEF Held, At, SameHeld
<1> QED BY <1>1, CountStep DEF Moves, SameHeld

\* A step in the sending code that only goes on, with or without the lock.
GoesOn(t) ==
    /\ Moves(t) /\ SameHeld(t)
    /\ lock' \in Thread \cup {NoThread}
    /\ UNCHANGED <<conn, fresh, locked, pendingBuf, out>>
    /\ th[t].pc \notin {"idle", "flush", "close"}
    /\ LocalOK(t, th'[t])
    /\ ClosingPc(th'[Loop]) => ClosingPc(th[Loop])

\* A step that leaves the connection, its callbacks and the counts alone keeps
\* the invariant.
LEMMA GoesOnKeeps ==
    ASSUME DInv, NEW t \in Thread, GoesOn(t)
    PROVE  DInv'
<1>1. TypeOK'
  BY DEF DInv, GoesOn, Moves, SameHeld, TypeOK, ConnType, LockType, BufferType, locked, out
<1>2. OutstandingExact'
  BY <1>1, SameHeldExact DEF DInv, GoesOn
<1>3. /\ UNCHANGED <<conn, outstanding, posts, sendClosed, spillPosted, spill>>
      /\ \A u \in Thread : th'[u].chunks = th[u].chunks
      /\ UNCHANGED <<pendingBuf, folly>>
  BY DEF GoesOn, Moves, SameHeld, locked, out
<1>4. At(Loop, "idle") => At(Loop, "idle")'
  BY DEF GoesOn, Moves, At, Thread
<1>5. At(Loop, "flush") => At(Loop, "flush")'
  BY DEF GoesOn, Moves, At, Thread
<1>6. At(Loop, "close") => At(Loop, "close")'
  BY DEF GoesOn, Moves, At, Thread
<1>7. Life'
  <2>1. ~At(Loop, "chain") => ~At(Loop, "chain")'
    BY DEF GoesOn, Moves, SameHeld, At, Thread
  <2> QED BY <1>3, <1>6, <2>1 DEF DInv, Life, GoesOn, Deletes, Open, Closing
<1>8. PostShape'
  BY <1>3 DEF DInv, PostShape, Deletes, Closing
<1>9. Quiet' /\ Bare'
  BY <1>3, <1>4 DEF DInv, Quiet, Bare, LoopIdle
<1>10. Flagged'
  BY <1>3, <1>5 DEF DInv, Flagged
<1>11. Shape'
  BY DEF DInv, GoesOn, Moves, Shape
<1> QED BY <1>1, <1>2, <1>7, <1>8, <1>9, <1>10, <1>11 DEF DInv, GoesOn

\* Where t is after the step, with which depth and return.
Lands(t, pc, depth, ret) ==
    /\ th' \in [Thread -> Locals]
    /\ \A u \in Thread \ {t} : th'[u] = th[u]
    /\ th'[t].pc = pc /\ th'[t].depth = depth /\ th'[t].ret = ret
    /\ th'[t].batch = th[t].batch /\ th'[t].chunks = th[t].chunks
    /\ th'[t].extra = th[t].extra /\ th'[t].k = th[t].k
    /\ th'[t].owed = th[t].owed

\* Goto changes where the thread is, and nothing else of it.
LEMMA LandsPc ==
    ASSUME TypeOK, NEW t \in Thread, NEW pc \in Pc, Goto(t, pc)
    PROVE  Lands(t, pc, th[t].depth, th[t].ret)
<1>1. th \in [Thread -> Locals] /\ th[t] \in Locals
  BY DEF TypeOK
<1>2. th' = [th EXCEPT ![t] = [th[t] EXCEPT !.pc = pc]]
  BY DEF Goto
<1>3. [th[t] EXCEPT !.pc = pc] \in Locals
  BY <1>1 DEF Locals
<1>4. th' \in [Thread -> Locals] /\ th'[t] = [th[t] EXCEPT !.pc = pc]
  BY <1>1, <1>2, <1>3
<1> QED BY <1>1, <1>2, <1>4 DEF Lands, Locals

\* So does a step that takes or gives back the lock.
LEMMA LandsDepth ==
    ASSUME TypeOK, NEW t \in Thread, NEW pc \in Pc, NEW d \in 0..2,
           th' = [th EXCEPT ![t].pc = pc, ![t].depth = d]
    PROVE  Lands(t, pc, d, th[t].ret)
<1>1. th \in [Thread -> Locals] /\ th[t] \in Locals
  BY DEF TypeOK
<1>2. th' = [th EXCEPT ![t] = [th[t] EXCEPT !.pc = pc, !.depth = d]]
  BY <1>1
<1>3. [th[t] EXCEPT !.pc = pc, !.depth = d] \in Locals
  BY <1>1 DEF Locals
<1>4. th' \in [Thread -> Locals] /\ th'[t] = [th[t] EXCEPT !.pc = pc, !.depth = d]
  BY <1>1, <1>2, <1>3
<1> QED BY <1>1, <1>2, <1>4 DEF Lands, Locals

\* A thread that only goes elsewhere holds what it held.
LEMMA LandsOn ==
    ASSUME TypeOK, NEW t \in Thread, NEW pc, NEW depth, NEW ret,
           Lands(t, pc, depth, ret), th[t].pc # "chain", pc # "chain",
           UNCHANGED <<outstanding, engine, sendPending, posts>>
    PROVE  Moves(t) /\ SameHeld(t)
BY DEF Lands, Moves, SameHeld

\* The loop's part of GoesOn.
LEMMA SameLoop ==
    ASSUME NEW t \in Thread, Moves(t), t = Loop => (ClosingPc(th'[t]) => ClosingPc(th[t]))
    PROVE  ClosingPc(th'[Loop]) => ClosingPc(th[Loop])
BY DEF Moves, Thread

\* TryLock, from a step of the sending code.
LEMMA TryLockKeeps ==
    ASSUME DInv, NEW t \in Thread, NEW won, NEW lost, TryLock(t, won, lost),
           UNCHANGED <<conn, outstanding, fresh, engine, locked, sendPending,
                       pendingBuf, out, posts>>,
           \/ th[t].pc \in {"retry", "recheck"} /\ won = "take" /\ lost = "finish"
           \/ th[t].pc = "drain" /\ t = Loop /\ won = "take" /\ lost = th[t].ret
           \/ th[t].pc = "rel" /\ won = "relheld" /\ lost = "relcas"
    PROVE  DInv'
<1>1. TypeOK /\ LocalOK(t, th[t]) /\ th[t] \in Locals
  BY DEF DInv, Shape, TypeOK
<1>2. won \in Pc /\ lost \in Pc /\ won # "chain" /\ lost # "chain"
  BY <1>1 DEF Locals, Pc
<1>3. th[t].depth \in {0, 1}
  BY <1>1, Domain DEF LocalOK, ReaderOK, LoopOK, Nested, InSend, HeldPc, SendPc, RelPc, Thread
<1>4. ASSUME NEW pc, NEW d, Lands(t, pc, d, th[t].ret),
             \/ pc = won /\ d = th[t].depth + 1
             \/ pc = lost /\ d = th[t].depth,
             lock' \in Thread \cup {NoThread}
      PROVE  DInv'
  <2>1. Moves(t) /\ SameHeld(t)
    BY <1>1, <1>2, <1>4, LandsOn
  <2> DEFINE l == th[t]
             m == th'[t]
  <2>2. /\ m.pc = pc /\ m.depth = d /\ m.ret = l.ret /\ m.batch = l.batch
        /\ m.chunks = l.chunks /\ m.extra = l.extra /\ m.k = l.k /\ m.owed = l.owed
    BY <1>4 DEF Lands
  <2>3. CommonOK(m)
    BY <1>1, <2>2, <1>4 DEF LocalOK, CommonOK, SendPc, RelPc, Locals
  <2>4. t \in Reader => ReaderOK(m)
    BY <1>1, <2>2, <1>4, Domain DEF LocalOK, CommonOK, ReaderOK, SendPc, RelPc, HeldPc, Locals
  <2>5. t = Loop => LoopOK(m)
    BY <1>1, <2>2, <1>4, <1>3 DEF LocalOK, CommonOK, LoopOK, InSend, Nested, SendPc, RelPc, HeldPc, UnlockPc, Locals
  <2>6. t = Loop => (ClosingPc(m) => ClosingPc(l))
    BY <1>1, <2>2, <1>4 DEF LocalOK, LoopOK, ClosingPc, InSend, SendPc, RelPc, Locals
  <2>7. GoesOn(t)
    BY <1>4, <2>1, <2>3, <2>4, <2>5, <2>6, SameLoop DEF GoesOn, LocalOK
  <2> QED BY <2>7, GoesOnKeeps
<1>5. CASE Free(t)
  <2>1. th' = [th EXCEPT ![t].pc = won, ![t].depth = th[t].depth + 1] /\ lock' = t
    BY <1>5 DEF TryLock, Take, TypeOK
  <2>2. th[t].depth + 1 \in 0..2
    BY <1>3
  <2>3. Lands(t, won, th[t].depth + 1, th[t].ret)
    BY <1>1, <1>2, <2>1, <2>2, LandsDepth
  <2> QED BY <1>4, <2>1, <2>3
<1>6. CASE ~Free(t)
  <2>1. Goto(t, lost) /\ lock' = lock
    BY <1>6 DEF TryLock
  <2>2. Lands(t, lost, th[t].depth, th[t].ret)
    BY <1>1, <1>2, <2>1, LandsPc
  <2>3. lock' \in Thread \cup {NoThread}
    BY <1>1, <2>1 DEF TypeOK, LockType
  <2> QED BY <1>4, <2>2, <2>3
<1> QED BY <1>5, <1>6

\* Going on in the sending code, or back to where it was called from.
LEMMA SendGoesOn ==
    ASSUME DInv, NEW t \in Thread, NEW pc, NEW d, Lands(t, pc, d, th[t].ret),
           UNCHANGED <<conn, outstanding, fresh, engine, locked, sendPending,
                       pendingBuf, out, posts>>,
           lock' \in Thread \cup {NoThread},
           \/ th[t].pc = "recheck" /\ pc = "finish" /\ d = th[t].depth
           \/ th[t].pc = "unlock" /\ pc = "recheck" /\ d = th[t].depth - 1
           \/ th[t].pc = "drain" /\ pc = th[t].ret /\ d = th[t].depth
           \/ /\ th[t].pc = "finish" /\ pc = th[t].ret /\ d = th[t].depth
              /\ th[t].chunks = <<>> /\ th[t].extra = 0
           \/ th[t].pc = "relheld" /\ pc = "relcas" /\ d = th[t].depth - 1
           \/ /\ th[t].pc = "write" /\ pc = "unlock" /\ d = th[t].depth
              /\ th[t].batch = <<>>
    PROVE  DInv'
<1>1. TypeOK /\ LocalOK(t, th[t]) /\ th[t] \in Locals
  BY DEF DInv, Shape, TypeOK
<1>2. pc # "chain"
  BY <1>1 DEF Locals
<1>3. Moves(t) /\ SameHeld(t)
  BY <1>1, <1>2, LandsOn
<1> DEFINE l == th[t]
           m == th'[t]
<1>4. /\ m.pc = pc /\ m.depth = d /\ m.ret = l.ret /\ m.batch = l.batch
      /\ m.chunks = l.chunks /\ m.extra = l.extra /\ m.k = l.k /\ m.owed = l.owed
  BY DEF Lands
<1>5. CommonOK(m)
  BY <1>1, <1>4 DEF LocalOK, CommonOK, SendPc, RelPc, Locals
<1>6. t \in Reader => ReaderOK(m)
  BY <1>1, <1>4, Domain DEF LocalOK, CommonOK, ReaderOK, SendPc, RelPc, HeldPc, Locals
<1>7. t = Loop => LoopOK(m)
  BY <1>1, <1>4 DEF LocalOK, CommonOK, LoopOK, InSend, Nested, SendPc, RelPc, HeldPc,
                    UnlockPc, Locals
<1>8. t = Loop => (ClosingPc(m) => ClosingPc(l))
  BY <1>1, <1>4 DEF LocalOK, LoopOK, ClosingPc, InSend, SendPc, RelPc, Locals
<1>9. GoesOn(t)
  BY <1>3, <1>5, <1>6, <1>7, <1>8, SameLoop DEF GoesOn, LocalOK
<1> QED BY <1>9, GoesOnKeeps

\* The steps of the sending code that hold what they held.
LEMMA RetryKeeps ==
    ASSUME DInv, NEW t \in Thread, Retry(t) \/ ReleaseTry(t)
    PROVE  DInv'
<1>1. CASE Retry(t)
  BY <1>1, TryLockKeeps DEF Retry, At
<1>2. CASE ReleaseTry(t)
  BY <1>2, TryLockKeeps DEF ReleaseTry, At
<1> QED BY <1>1, <1>2

\* Looking at sendPending_ again after the unlock (sendHeld) keeps the invariant.
LEMMA RecheckKeeps ==
    ASSUME DInv, NEW t \in Thread, Recheck(t)
    PROVE  DInv'
<1>1. CASE sendPending = <<>>
  <2>1. Goto(t, "finish") /\ lock' = lock /\ th[t].pc = "recheck"
    BY <1>1 DEF Recheck, At
  <2>2. TypeOK /\ lock \in Thread \cup {NoThread}
    BY DEF DInv, TypeOK, LockType
  <2>3. Lands(t, "finish", th[t].depth, th[t].ret)
    BY <2>1, <2>2, LandsPc DEF Pc
  <2> QED BY <2>1, <2>2, <2>3, SendGoesOn DEF Recheck
<1>2. CASE sendPending # <<>>
  BY <1>2, TryLockKeeps DEF Recheck, At
<1> QED BY <1>1, <1>2

\* drainPendingSends, on the loop, keeps the invariant.
LEMMA DrainKeeps ==
    ASSUME DInv, NEW t \in Thread, DrainPendingSends(t)
    PROVE  DInv'
<1>0. t = Loop /\ th[t].pc = "drain" /\ th[t].ret \in Pc
  <2>1. th[t] \in Locals /\ LocalOK(t, th[t]) /\ th[t].pc = "drain"
    BY DEF DInv, TypeOK, Shape, DrainPendingSends, At
  <2> QED BY <2>1 DEF Locals, Pc, LocalOK, ReaderOK, SendPc, RelPc, Thread
<1>1. CASE sendPending = <<>>
  <2>1. Goto(t, th[t].ret) /\ lock' = lock
    BY <1>1 DEF DrainPendingSends, At
  <2>2. TypeOK /\ lock \in Thread \cup {NoThread}
    BY DEF DInv, TypeOK, LockType
  <2>3. Lands(t, th[t].ret, th[t].depth, th[t].ret)
    BY <1>0, <2>1, <2>2, LandsPc
  <2> QED BY <1>0, <2>1, <2>2, <2>3, SendGoesOn DEF DrainPendingSends
<1>2. CASE sendPending # <<>>
  BY <1>0, <1>2, TryLockKeeps DEF DrainPendingSends, At
<1> QED BY <1>1, <1>2

\* Unlock lowers the depth.
LEMMA UnlockLands ==
    ASSUME DInv, NEW t \in Thread, NEW pc \in Pc, Unlock(th, t, pc),
           th[t].depth # 0
    PROVE  /\ Lands(t, pc, th[t].depth - 1, th[t].ret)
           /\ lock' \in Thread \cup {NoThread}
<1>1. TypeOK /\ th[t] \in Locals /\ lock \in Thread \cup {NoThread}
  BY DEF DInv, TypeOK, LockType
<1>2. th[t].depth - 1 \in 0..2
  BY <1>1 DEF Locals
<1>3. th' = [th EXCEPT ![t].pc = pc, ![t].depth = th[t].depth - 1]
  BY DEF Unlock, DInv, TypeOK
<1> QED BY <1>1, <1>2, <1>3, LandsDepth DEF Unlock

\* Giving back sendMu_ after a write keeps the invariant.
LEMMA SendUnlockKeeps ==
    ASSUME DInv, NEW t \in Thread, SendUnlock(t)
    PROVE  DInv'
<1>1. th[t].pc = "unlock" /\ Unlock(th, t, "recheck")
  BY DEF SendUnlock, At
<1>2. LocalOK(t, th[t])
  BY DEF DInv, Shape
<1>3. th[t].depth # 0
  BY <1>1, <1>2 DEF LocalOK, ReaderOK, LoopOK, InSend, Nested, HeldPc, SendPc, Thread
<1>4. Lands(t, "recheck", th[t].depth - 1, th[t].ret) /\ lock' \in Thread \cup {NoThread}
  BY <1>1, <1>3, UnlockLands DEF Pc
<1> QED BY <1>1, <1>4, SendGoesOn DEF SendUnlock

-----------------------------------------------------------------------------
(* Steps of the sending code that move what is held *)

\* What such a step leaves alone: the life of the connection, the posted
\* deletion, and a count of zero.
Aside(t) ==
    /\ Moves(t) /\ LocalOK(t, th'[t])
    /\ UNCHANGED <<conn, sendClosed, pendingBuf, folly>>
    /\ t = Loop => /\ th[t].pc \notin {"idle", "close"} /\ th'[t].pc # "chain"
                   /\ ClosingPc(th'[t]) => ClosingPc(th[t])
    /\ Deletes' = Deletes
    /\ outstanding = 0 => outstanding' = 0

\* A step of the sending code away from the connection's life keeps the parts
\* of the invariant about that life.
LEMMA AsideKeeps ==
    ASSUME DInv, NEW t \in Thread, Aside(t)
    PROVE  /\ Shape' /\ Life' /\ Quiet' /\ Bare'
           /\ \A i, j \in Deletes' : i = j
           /\ Deletes' # {} => outstanding' = 0 /\ Closing'
<1>1. Shape'
  BY DEF DInv, Aside, Moves, Shape
<1>2. /\ At(Loop, "idle") => At(Loop, "idle")'
      /\ At(Loop, "close") => At(Loop, "close")'
      /\ At(Loop, "chain")' => At(Loop, "chain")
      /\ ClosingPc(th'[Loop]) => ClosingPc(th[Loop])
  BY DEF Aside, Moves, At, Thread
<1>3. Life'
  BY <1>2 DEF DInv, Life, Aside, Open, Closing
<1>4. Quiet' /\ Bare'
  BY <1>2 DEF DInv, Quiet, Bare, Aside, LoopIdle
<1>5. /\ \A i, j \in Deletes' : i = j
      /\ Deletes' # {} => outstanding' = 0 /\ Closing'
  BY DEF DInv, PostShape, Aside, Closing
<1> QED BY <1>1, <1>3, <1>4, <1>5

\* The elements of a sequence with one more.
LEMMA AppendAll ==
    ASSUME NEW S, NEW q \in Seq(S), NEW e \in S
    PROVE  /\ Append(q, e) \in Seq(S) /\ Len(q) + 1 \notin DOMAIN q
           /\ DOMAIN Append(q, e) = DOMAIN q \cup {Len(q) + 1}
           /\ Append(q, e)[Len(q) + 1] = e
           /\ \A i \in DOMAIN q : Append(q, e)[i] = q[i]
<1>1. /\ Append(q, e) \in Seq(S) /\ Len(Append(q, e)) = Len(q) + 1
      /\ Append(q, e)[Len(q) + 1] = e
      /\ \A i \in 1..Len(q) : Append(q, e)[i] = q[i]
  BY AppendProperties
<1>2. Len(q) \in Nat /\ DOMAIN q = 1..Len(q)
  BY LenProperties
<1>3. DOMAIN Append(q, e) = 1..(Len(q) + 1)
  BY <1>1, LenProperties
<1>4. 1..(Len(q) + 1) = 1..Len(q) \cup {Len(q) + 1} /\ Len(q) + 1 \notin 1..Len(q)
  BY <1>2
<1> QED BY <1>1, <1>2, <1>3, <1>4

\* The elements of a tail.
LEMMA TailAll ==
    ASSUME NEW S, NEW q \in Seq(S), q # <<>>
    PROVE  /\ Tail(q) \in Seq(S) /\ 1 \in DOMAIN q /\ Head(q) = q[1] /\ q[1] \in S
           /\ \A i \in DOMAIN Tail(q) : i + 1 \in DOMAIN q /\ Tail(q)[i] = q[i + 1]
           /\ \A j \in DOMAIN q \ {1} :
                j - 1 \in DOMAIN Tail(q) /\ Tail(q)[j - 1] = q[j]
           /\ \A i, j \in DOMAIN Tail(q) : i + 1 = j + 1 => i = j
<1>1. /\ Len(q) \in Nat /\ Len(q) > 0 /\ DOMAIN q = 1..Len(q)
      /\ Head(q) = q[1] /\ q[1] \in S
  BY EmptySeq, LenProperties, HeadTailProperties, ElementOfSeq
<1>2. /\ Tail(q) \in Seq(S) /\ DOMAIN Tail(q) = 1..(Len(q) - 1)
      /\ \A i \in 1..(Len(q) - 1) : Tail(q)[i] = q[i + 1]
  BY <1>1, HeadTailProperties, LenProperties
<1>3. \A i \in 1..(Len(q) - 1) : i + 1 \in 1..Len(q)
  BY <1>1
<1>4. \A j \in 1..Len(q) \ {1} : j - 1 \in 1..(Len(q) - 1) /\ (j - 1) + 1 = j
  BY <1>1
<1>5. \A i, j \in 1..(Len(q) - 1) : i + 1 = j + 1 => i = j
  BY <1>1
<1> QED BY <1>1, <1>2, <1>3, <1>4, <1>5

\* A chunk is added, a chunk is taken, a callback is posted.
LEMMA ChunkAppend ==
    ASSUME NEW q \in Seq(Chunk), NEW e \in Chunk
    PROVE  /\ Append(q, e) \in Seq(Chunk)
           /\ Posting(q) \/ e.post => Posting(Append(q, e))
           /\ NoZero(q) /\ e.k # 0 => NoZero(Append(q, e))
           /\ Append(q, e) # <<>>
           /\ Cardinality(Units(Append(q, e))) = Cardinality(Units(q)) + e.k
<1>1. \A x \in Chunk : x.k \in Nat
  BY DEF Chunk
<1>2. Cardinality(Units(Append(q, e))) = Cardinality(Units(q)) + e.k
  BY <1>1, UnitsAppend
<1>3. Append(q, e) # <<>>
  BY AppendAll
<1> QED BY <1>2, <1>3, AppendAll DEF Posting, NoZero

\* The first chunk is taken.
LEMMA ChunkTail ==
    ASSUME NEW q \in Seq(Chunk), q # <<>>
    PROVE  /\ Tail(q) \in Seq(Chunk) /\ Head(q) \in Chunk
           /\ Posting(q) => Posting(Tail(q)) \/ Head(q).post
           /\ NoZero(q) => NoZero(Tail(q)) /\ Head(q).k # 0
           /\ Cardinality(Units(q)) = Cardinality(Units(Tail(q))) + Head(q).k
<1>1. \A x \in Chunk : x.k \in Nat
  BY DEF Chunk
<1>2. Cardinality(Units(q)) = Cardinality(Units(Tail(q))) + Head(q).k
  BY <1>1, UnitsTail
<1>3. Posting(q) => Posting(Tail(q)) \/ Head(q).post
  BY TailAll DEF Posting
<1>4. NoZero(q) => NoZero(Tail(q)) /\ Head(q).k # 0
  BY TailAll DEF NoZero
<1> QED BY <1>2, <1>3, <1>4, TailAll

\* A callback is posted.
LEMMA PostAppend ==
    ASSUME TypeOK, NEW op, NEW n, Post(op, n), [op |-> op, k |-> n] \in Posted
    PROVE  /\ posts' \in Seq(Posted)
           /\ Flushing(posts) \/ op = "flush" => Flushing(posts')
           /\ PostOK(posts) /\ (n = 0 <=> op = "delete") => PostOK(posts')
           /\ Cardinality(Units(posts')) = Cardinality(Units(posts)) + n
           /\ op # "delete" => Deletes' = Deletes
           /\ op = "delete" => Deletes' = Deletes \cup {Len(posts) + 1}
<1> DEFINE e == [op |-> op, k |-> n]
<1>1. posts \in Seq(Posted) /\ posts' = Append(posts, e) /\ \A x \in Posted : x.k \in Nat
  BY DEF TypeOK, Posted, Post
<1>2. Cardinality(Units(posts')) = Cardinality(Units(posts)) + n
  BY <1>1, UnitsAppend
<1>3. /\ posts' \in Seq(Posted) /\ DOMAIN posts' = DOMAIN posts \cup {Len(posts) + 1}
      /\ posts'[Len(posts) + 1] = e /\ Len(posts) + 1 \notin DOMAIN posts
      /\ \A i \in DOMAIN posts : posts'[i] = posts[i]
  BY <1>1, AppendAll
<1>4. Flushing(posts) \/ op = "flush" => Flushing(posts')
  BY <1>3 DEF Flushing
<1>5. PostOK(posts) /\ (n = 0 <=> op = "delete") => PostOK(posts')
  BY <1>3 DEF PostOK
<1>6. /\ op # "delete" => Deletes' = Deletes
      /\ op = "delete" => Deletes' = Deletes \cup {Len(posts) + 1}
  BY <1>3 DEF Deletes
<1> QED BY <1>2, <1>3, <1>4, <1>5, <1>6

\* t gets the locals m.
LEMMA SetsTo ==
    ASSUME TypeOK, NEW t \in Thread, NEW m \in Locals, th' = [th EXCEPT ![t] = m]
    PROVE  Moves(t) /\ th'[t] = m
BY DEF TypeOK, Moves

\* The count covers what anybody holds.
LEMMA Covers ==
    ASSUME TypeOK, OutstandingExact
    PROVE  /\ outstanding \in Nat
           /\ outstanding = 0 => Empty
           /\ \A t \in Thread : Held(t).k <= outstanding /\ Held(t).k \in Nat
           /\ \A t \in Thread : th[t].k <= outstanding /\ th[t].owed <= outstanding
<1>1. Parted /\ outstanding \in Nat
  BY Parts DEF TypeOK, ConnType
<1> DEFINE f == [t \in Thread |-> Held(t)]
<1>2. Counted(f)
  BY <1>1 DEF Parted
<1>3. PICK e \in Nat, s \in Nat, u \in Nat, p \in Nat :
        /\ e = Cardinality(engine) /\ s = Len(sendPending) /\ u = Cardinality(Units(f))
        /\ p = Cardinality(Units(posts))
  BY <1>1, <1>2, UnitsCount DEF Parted
<1>4. outstanding = e + s + u + p
  BY <1>3 DEF OutstandingExact, CountsHeld
<1>5. ASSUME NEW t \in Thread
      PROVE  /\ Held(t).k <= outstanding /\ Held(t).k \in Nat
             /\ th[t].k <= outstanding /\ th[t].owed <= outstanding
  <2>1. PICK h \in Nat : h = Held(t).k
    BY <1>1 DEF Parted
  <2>2. h <= u
    <3>1. f[t].k <= Cardinality(Units(f))
      BY <1>2, UnitsCount
    <3> QED BY <1>3, <2>1, <3>1
  <2>3. h <= e + s + u + p
    BY <2>2
  <2>4. PICK a \in Nat, b \in Nat, c \in Nat, d \in Nat, g \in Nat :
           /\ a = th[t].extra /\ b = th[t].k /\ c = th[t].owed /\ d = BLen(t)
           /\ g = CU(t)
    BY <1>1 DEF Parted
  <2>5. h = a + b + c + d + g
    BY <1>1, <2>1, <2>4 DEF Parted
  <2>6. b <= e + s + u + p /\ c <= e + s + u + p
    BY <2>3, <2>5
  <2> QED BY <1>4, <2>1, <2>3, <2>4, <2>6
<1> QED BY <1>1, <1>5, ZeroEmpty

\* A response that finds the lock taken goes to sendPending_ with its count.
LEMMA PushPendingKeeps ==
    ASSUME DInv, NEW t \in Thread, PushPending(t)
    PROVE  DInv'
<1>1. TypeOK /\ LocalOK(t, th[t]) /\ th[t] \in Locals /\ th[t].pc = "push"
  BY DEF DInv, Shape, TypeOK, PushPending, At
<1>2. t \in Reader /\ t # Loop
  BY <1>1, Domain DEF LocalOK, LoopOK, Thread
<1> DEFINE l == th[t]
           m == [l EXCEPT !.pc = "retry", !.batch = <<>>]
<1>3. m \in Locals
  <2>1. <<>> \in Seq(Req)
    BY EmptySeq
  <2> QED BY <1>1, <2>1 DEF Locals, Pc
<1>4. th' = [th EXCEPT ![t] = m]
  BY <1>1 DEF PushPending, TypeOK
<1>5. Moves(t) /\ th'[t] = m
  BY <1>1, <1>3, <1>4 DEF Moves, TypeOK
<1>6. /\ m.pc = "retry" /\ m.batch = <<>> /\ m.depth = l.depth /\ m.ret = l.ret
      /\ m.chunks = l.chunks /\ m.extra = l.extra /\ m.k = l.k /\ m.owed = l.owed
  BY <1>1 DEF Locals
<1>7. LocalOK(t, th'[t])
  <2>1. CommonOK(m)
    BY <1>1, <1>6 DEF LocalOK, CommonOK, SendPc, RelPc
  <2>2. ReaderOK(m)
    BY <1>1, <1>2, <1>6 DEF LocalOK, CommonOK, ReaderOK, SendPc, RelPc, HeldPc
  <2> QED BY <1>2, <1>5, <2>1, <2>2 DEF LocalOK
<1>8. /\ UNCHANGED <<conn, outstanding, fresh, engine, lock, sendClosed, drainWatch,
                     spillPosted, spill, pendingBuf, folly, wire, posts>>
      /\ sendPending' = l.batch \o sendPending
  BY DEF PushPending, locked, out
<1>9. Aside(t)
  BY <1>2, <1>5, <1>7, <1>8 DEF Aside, Deletes
<1>10. l.batch \in Seq(Req) /\ sendPending \in Seq(Req)
  BY <1>1 DEF Locals, TypeOK, BufferType
<1>11. TypeOK'
  <2>1. sendPending' \in Seq(Req)
    BY <1>8, <1>10, ConcatProperties
  <2> QED BY <1>1, <1>5, <1>8, <2>1 DEF Moves, TypeOK, ConnType, LockType, BufferType
<1>12. OutstandingExact'
  <2>1. PICK n \in Nat, b \in Nat : n = Len(sendPending) /\ b = Len(l.batch)
    BY <1>10, LenProperties
  <2>2. Len(sendPending') = n + b
    BY <1>8, <1>10, <2>1, ConcatProperties
  <2>3. BLen(t) = b /\ BLen(t)' = 0 /\ CU(t)' = CU(t)
    BY <1>1, <1>5, <1>6, <2>1 DEF BLen, CU, At
  <2>4. Parted
    BY <1>1, Parts
  <2>5. Delta(t, 0, 0, b, 0, 0, 0, 0 - b, 0, 0)
    BY <1>1, <1>5, <1>6, <1>8, <2>1, <2>2, <2>3, <2>4 DEF Delta, Parted, TypeOK, ConnType
  <2>6. 0 = 0 + b + 0 + 0 + 0 + (0 - b) + 0 + 0 /\ 0 - b \in Int /\ b \in Int /\ 0 \in Int
    OBVIOUS
  <2> QED BY <1>1, <1>5, <1>11, <2>5, <2>6, DeltaExact DEF DInv, Moves
<1>13. PostShape'
  BY <1>8, <1>9, AsideKeeps DEF DInv, PostShape
<1>14. Flagged'
  <2>1. \A u \in Thread : th'[u].chunks = th[u].chunks
    BY <1>5, <1>6 DEF Moves
  <2>2. At(Loop, "flush") => At(Loop, "flush")'
    BY <1>2, <1>5 DEF At, Moves, Thread
  <2> QED BY <1>8, <2>1, <2>2 DEF DInv, Flagged
<1> QED BY <1>9, <1>11, <1>12, <1>13, <1>14, AsideKeeps DEF DInv

\* A reader with nothing to do holds nothing.
LEMMA IdleHolds ==
    ASSUME TypeOK, Shape, NEW t \in Reader, th[t].pc = "idle"
    PROVE  /\ th[t].extra = 0 /\ th[t].k = 0 /\ th[t].owed = 0 /\ th[t].ret = "idle"
           /\ th[t].batch = <<>> /\ th[t].chunks = <<>> /\ BLen(t) = 0 /\ CU(t) = 0
<1>1. t \in Thread /\ LocalOK(t, th[t])
  BY DEF Shape, Thread
<1>2. /\ th[t].extra = 0 /\ th[t].k = 0 /\ th[t].owed = 0 /\ th[t].ret = "idle"
      /\ th[t].batch = <<>> /\ th[t].chunks = <<>>
  BY <1>1 DEF LocalOK, CommonOK, ReaderOK, SendPc, RelPc
<1>3. BLen(t) = 0
  BY <1>2, EmptySeq DEF BLen
<1>4. CU(t) = 0
  BY <1>2, UnitsNone DEF CU
<1> QED BY <1>2, <1>3, <1>4

\* The engine's answer becomes the reader's response, and its count with it.
LEMMA SendDirectKeeps ==
    ASSUME DInv, NEW t \in Reader, NEW r \in Req, SendDirect(t, r)
    PROVE  DInv'
<1>1. TypeOK /\ Shape /\ t \in Thread /\ t # Loop /\ th[t].pc = "idle" /\ r \in engine
  BY Domain DEF DInv, SendDirect, At, Thread
<1> DEFINE Sends(m, pc, d, o) ==
             /\ \/ pc = "take" /\ d = 1 /\ o = 0
                \/ pc = "push" /\ d = 0 /\ o = 1
             /\ outstanding' = outstanding + o /\ lock' \in Thread \cup {NoThread}
             /\ th' = [th EXCEPT ![t] = m]
             /\ m \in Locals /\ m.pc = pc /\ m.ret = "idle" /\ m.depth = d
             /\ m.batch = <<r>> /\ m.chunks = <<>> /\ m.extra = o /\ m.k = 0 /\ m.owed = 0
<1>2. \E m, pc, d, o : Sends(m, pc, d, o)
  <2>1. outstanding + 0 = outstanding /\ lock \in Thread \cup {NoThread}
    BY <1>1 DEF TypeOK, ConnType, LockType
  <2>2. <<>> \in Seq(Chunk) /\ <<>> \in Seq(Req) /\ <<r>> \in Seq(Req)
    BY EmptySeq
  <2>0. /\ Rest \in Locals /\ Rest.ret = "idle" /\ Rest.chunks = <<>> /\ Rest.extra = 0
        /\ Rest.k = 0 /\ Rest.owed = 0 /\ Rest.depth = 0
    BY <2>2 DEF Rest, Locals, Pc
  <2>5. \A pc \in Pc, d \in 0..2, b \in Seq(Req) :
           [Rest EXCEPT !.pc = pc, !.depth = d, !.batch = b] \in Locals
    BY <2>0 DEF Locals
  <2>6. \A pc \in Pc, x \in 0..1, b \in Seq(Req) :
           [Rest EXCEPT !.pc = pc, !.extra = x, !.batch = b] \in Locals
    BY <2>0 DEF Locals
  <2>7. "take" \in Pc /\ "push" \in Pc /\ 1 \in 0..2 /\ 1 \in 0..1
    BY DEF Pc
  <2>3. CASE Free(t)
    <3> DEFINE m == [Rest EXCEPT !.pc = "take", !.depth = 1, !.batch = <<r>>]
    <3>0. m \in Locals
      BY <2>2, <2>5, <2>6, <2>7
    <3>1. /\ m.pc = "take" /\ m.ret = "idle" /\ m.depth = 1
          /\ m.batch = <<r>> /\ m.chunks = <<>> /\ m.extra = 0 /\ m.k = 0 /\ m.owed = 0
      BY <2>0 DEF Locals
    <3>2. Sends(m, "take", 1, 0)
      BY <1>1, <2>1, <2>3, <3>0, <3>1 DEF SendDirect, Take
    <3> QED BY <3>2
  <2>4. CASE ~Free(t)
    <3> DEFINE m == [Rest EXCEPT !.pc = "push", !.extra = 1, !.batch = <<r>>]
    <3>0. m \in Locals
      BY <2>2, <2>5, <2>6, <2>7
    <3>1. /\ m.pc = "push" /\ m.ret = "idle" /\ m.depth = 0
          /\ m.batch = <<r>> /\ m.chunks = <<>> /\ m.extra = 1 /\ m.k = 0 /\ m.owed = 0
      BY <2>0 DEF Locals
    <3>2. Sends(m, "push", 0, 1)
      BY <1>1, <2>1, <2>4, <3>0, <3>1 DEF SendDirect
    <3> QED BY <3>2
  <2> QED BY <2>3, <2>4
<1>3. PICK m, pc, d, o : Sends(m, pc, d, o)
  BY <1>2
<1>5. Moves(t) /\ th'[t] = m
  BY <1>1, <1>3, SetsTo
<1>6. LocalOK(t, m)
  <2>1. NoZero(<<>>) /\ <<r>> # <<>>
    BY DEF NoZero
  <2>2. CommonOK(m)
    BY <1>3, <2>1 DEF CommonOK, RelPc
  <2>3. ReaderOK(m)
    BY <1>3, <2>1 DEF ReaderOK, SendPc, RelPc, HeldPc
  <2> QED BY <1>1, <2>2, <2>3 DEF LocalOK
<1>7. /\ UNCHANGED <<conn, fresh, sendClosed, drainWatch, spillPosted, spill, sendPending,
                     pendingBuf, folly, wire, posts>>
      /\ engine' = engine \ {r}
  BY DEF SendDirect, locked, out
<1>8. outstanding # 0
  BY <1>1, Covers DEF DInv, Empty
<1>9. Aside(t)
  BY <1>1, <1>5, <1>6, <1>7, <1>8 DEF Aside, Deletes
<1>10. TypeOK'
  <2>1. outstanding' \in Nat
    BY <1>1, <1>3 DEF TypeOK, ConnType
  <2> QED BY <1>1, <1>3, <1>5, <1>7, <2>1 DEF Moves, TypeOK, ConnType, LockType, BufferType
<1>11. OutstandingExact'
  <2>1. Parted
    BY <1>1, Parts
  <2>2. Cardinality(engine') = Cardinality(engine) - 1
    BY <1>1, <1>7, <2>1, FS_RemoveElement DEF Parted
  <2>3. BLen(t)' = 1
    <3>1. th'[t].batch = <<r>> /\ th'[t].pc # "chain"
      BY <1>3, <1>5
    <3> QED BY <3>1 DEF BLen, At
  <2>4. CU(t)' = 0
    <3>1. th'[t].chunks = <<>>
      BY <1>3, <1>5
    <3>2. Cardinality(Units(<<>>)) = 0
      BY UnitsNone
    <3> QED BY <3>1, <3>2 DEF CU
  <2>5. /\ th'[t].extra = o /\ th'[t].k = 0 /\ th'[t].owed = 0
    BY <1>3, <1>5
  <2>6. Delta(t, o, 0 - 1, 0, o, 0, 0, 1, 0, 0)
    BY <1>1, <1>3, <1>7, <2>1, <2>2, <2>3, <2>4, <2>5, IdleHolds DEF Delta, Parted
  <2>7. /\ o = (0 - 1) + 0 + o + 0 + 0 + 1 + 0 + 0
        /\ 0 - 1 \in Int /\ o \in Int /\ 0 \in Int /\ 1 \in Int
    BY <1>3
  <2> QED BY <1>1, <1>5, <1>10, <2>6, <2>7, DeltaExact DEF DInv, Moves
<1>12. PostShape'
  BY <1>7, <1>9, AsideKeeps, <1>1 DEF DInv, PostShape
<1>13. Flagged'
  <2>1. \A u \in Thread : Posting(th[u].chunks) => Posting(th'[u].chunks)
    <3>1. ~Posting(th[t].chunks)
      BY <1>1, IdleHolds DEF Posting
    <3> QED BY <1>5, <3>1 DEF Moves
  <2>2. At(Loop, "flush") => At(Loop, "flush")'
    BY <1>1, <1>5 DEF At, Moves, Thread
  <2> QED BY <1>7, <2>1, <2>2 DEF DInv, Flagged
<1> QED BY <1>1, <1>9, <1>10, <1>11, <1>12, <1>13, AsideKeeps DEF DInv

\* The holder takes what others left in sendPending_, and their counts with it.
LEMMA TakePendingKeeps ==
    ASSUME DInv, NEW t \in Thread, TakePending(t)
    PROVE  DInv'
<1>1. TypeOK /\ LocalOK(t, th[t]) /\ th[t] \in Locals /\ th[t].pc = "take"
  BY DEF DInv, Shape, TypeOK, TakePending, At
<1> DEFINE l == th[t]
           m == [l EXCEPT !.pc = "write", !.batch = l.batch \o sendPending]
<1>2. l.batch \in Seq(Req) /\ sendPending \in Seq(Req)
  BY <1>1 DEF Locals, TypeOK, BufferType
<1>3. m \in Locals
  <2>1. l.batch \o sendPending \in Seq(Req)
    BY <1>2, ConcatProperties
  <2> QED BY <1>1, <2>1 DEF Locals, Pc
<1>4. th' = [th EXCEPT ![t] = m]
  BY <1>1 DEF TakePending, TypeOK
<1>5. Moves(t) /\ th'[t] = m
  BY <1>1, <1>3, <1>4, SetsTo
<1>6. /\ m.pc = "write" /\ m.batch = l.batch \o sendPending /\ m.depth = l.depth
      /\ m.ret = l.ret /\ m.chunks = l.chunks /\ m.extra = l.extra /\ m.k = l.k
      /\ m.owed = l.owed
  BY <1>1 DEF Locals
<1>7. l.batch # <<>> => l.batch \o sendPending # <<>>
  <2>1. Len(l.batch \o sendPending) = Len(l.batch) + Len(sendPending)
    BY <1>2, ConcatProperties
  <2>2. Len(l.batch) \in Nat /\ Len(sendPending) \in Nat /\ (Len(l.batch) = 0 <=> l.batch = <<>>)
    BY <1>2, LenProperties, EmptySeq
  <2>3. l.batch \o sendPending = <<>> => Len(l.batch \o sendPending) = 0
    BY EmptySeq
  <2> QED BY <2>1, <2>2, <2>3
<1>8. LocalOK(t, m)
  <2>1. CommonOK(m)
    BY <1>1, <1>6 DEF LocalOK, CommonOK, SendPc, RelPc
  <2>2. t \in Reader => ReaderOK(m)
    BY <1>1, <1>6, <1>7 DEF LocalOK, ReaderOK, SendPc, RelPc, HeldPc
  <2>3. t = Loop => LoopOK(m)
    BY <1>1, <1>6 DEF LocalOK, LoopOK, InSend, Nested, SendPc, RelPc, HeldPc, UnlockPc
  <2> QED BY <2>1, <2>2, <2>3 DEF LocalOK
<1>9. /\ UNCHANGED <<conn, outstanding, fresh, engine, lock, sendClosed, drainWatch,
                     spillPosted, spill, pendingBuf, folly, wire, posts>>
      /\ sendPending' = <<>>
  BY DEF TakePending, locked, out
<1>10. Aside(t)
  <2>1. ClosingPc(m) => ClosingPc(l)
    BY <1>1, <1>6 DEF ClosingPc, InSend, SendPc, RelPc
  <2> QED BY <1>1, <1>5, <1>6, <1>8, <1>9, <2>1 DEF Aside, Deletes
<1>11. TypeOK'
  <2>1. sendPending' \in Seq(Req)
    BY <1>9, EmptySeq
  <2> QED BY <1>1, <1>5, <1>9, <2>1 DEF Moves, TypeOK, ConnType, LockType, BufferType
<1>12. OutstandingExact'
  <2>1. PICK n \in Nat, b \in Nat : n = Len(sendPending) /\ b = Len(l.batch)
    BY <1>2, LenProperties
  <2>2. Len(l.batch \o sendPending) = b + n /\ Len(sendPending') = 0
    BY <1>2, <1>9, <2>1, ConcatProperties, EmptySeq
  <2>3. BLen(t) = b /\ BLen(t)' = b + n /\ CU(t)' = CU(t)
    BY <1>1, <1>5, <1>6, <2>1, <2>2 DEF BLen, CU, At
  <2>4. Parted
    BY <1>1, Parts
  <2>5. Delta(t, 0, 0, 0 - n, 0, 0, 0, n, 0, 0)
    BY <1>1, <1>5, <1>6, <1>9, <2>1, <2>2, <2>3, <2>4 DEF Delta, Parted, TypeOK, ConnType
  <2>6. 0 = 0 + (0 - n) + 0 + 0 + 0 + n + 0 + 0 /\ 0 - n \in Int /\ n \in Int /\ 0 \in Int
    OBVIOUS
  <2> QED BY <1>1, <1>5, <1>11, <2>5, <2>6, DeltaExact DEF DInv, Moves
<1>13. PostShape'
  BY <1>9, <1>10, AsideKeeps DEF DInv, PostShape
<1>14. Flagged'
  <2>1. \A u \in Thread : th'[u].chunks = th[u].chunks
    BY <1>5, <1>6 DEF Moves
  <2>2. At(Loop, "flush") => At(Loop, "flush")'
    BY <1>1, <1>5 DEF At, Moves, Thread
  <2> QED BY <1>9, <2>1, <2>2 DEF DInv, Flagged
<1> QED BY <1>10, <1>11, <1>12, <1>13, <1>14, AsideKeeps DEF DInv

\* The halves of the responses to q.
LEMMA FramesOf ==
    ASSUME NEW q \in Seq(Req)
    PROVE  /\ Frames(q) \in Seq(Half) /\ Len(Frames(q)) = 2 * Len(q)
           /\ Frames(q) = <<>> <=> q = <<>>
           /\ Len(Frames(q)) \in Nat /\ (q # <<>> => Len(q) # 0)
<1>1. Len(q) \in Nat /\ DOMAIN q = 1..Len(q) /\ \A i \in 1..Len(q) : q[i] \in Req
  BY LenProperties, ElementOfSeq
<1>2. PICK n \in Nat : n = Len(q)
  BY <1>1
<1>3. \A i \in 1..2*n : (i + 1) \div 2 \in 1..n /\ 2 - (i % 2) \in {1, 2}
  OBVIOUS
<1>4. \A i \in 1..2*n : <<q[(i + 1) \div 2], 2 - (i % 2)>> \in Half
  <2> SUFFICES ASSUME NEW i \in 1..2*n
               PROVE  <<q[(i + 1) \div 2], 2 - (i % 2)>> \in Half
    OBVIOUS
  <2>1. PICK j \in 1..n, h \in {1, 2} : j = (i + 1) \div 2 /\ h = 2 - (i % 2)
    BY <1>3
  <2>2. <<q[j], h>> \in Half
    BY <1>1, <1>2, <2>1 DEF Half
  <2> QED BY <2>1, <2>2
<1>5. Frames(q) = [i \in 1..2*n |-> <<q[(i + 1) \div 2], 2 - (i % 2)>>]
  BY <1>2 DEF Frames
<1>6. 2 * n \in Nat
  OBVIOUS
<1>7. Frames(q) \in Seq(Half) /\ Len(Frames(q)) = 2 * n
  <2>1. Frames(q) \in [1..2*n -> Half]
    BY <1>4, <1>5
  <2> QED BY <1>6, <2>1, IsASeq, LenProperties
<1>8. (n = 0 <=> 2 * n = 0) /\ (n = 0 <=> q = <<>>)
  BY <1>2, EmptySeq
<1>9. 2 * n = 0 <=> Frames(q) = <<>>
  BY <1>7, EmptySeq
<1> QED BY <1>2, <1>6, <1>7, <1>8, <1>9

\* A sequence of halves cut in two.
LEMMA Cut ==
    ASSUME NEW q \in Seq(Half), NEW n \in 0..Len(q)
    PROVE  SubSeq(q, 1, n) \in Seq(Half) /\ SubSeq(q, n + 1, Len(q)) \in Seq(Half)
<1>1. Len(q) \in Nat
  BY LenProperties
<1> QED BY <1>1, SubSeqProperties

\* The batch is done with, and n counts become a chunk.
Chunked(t, post) ==
    th' = [th EXCEPT ![t].pc = "unlock", ![t].batch = <<>>,
                     ![t].chunks = Append(th[t].chunks,
                        [k |-> Len(th[t].batch), post |-> post])]

\* The batch becomes a chunk with the batch's counts, whatever the socket took.
LEMMA ChunkedKeeps ==
    ASSUME DInv, NEW t \in Thread, NEW post \in BOOLEAN, At(t, "write"),
           th[t].batch # <<>>, Chunked(t, post), wire' \in Seq(Half), spill' \in Seq(Half),
           spillPosted' \in BOOLEAN,
           UNCHANGED <<conn, outstanding, fresh, engine, lock, sendClosed, drainWatch,
                       sendPending, pendingBuf, folly, posts>>,
           spill' # <<>> /\ ~sendClosed => spillPosted',
           spillPosted' /\ ~sendClosed => spillPosted \/ post
    PROVE  DInv'
<1>1. TypeOK /\ LocalOK(t, th[t]) /\ th[t] \in Locals /\ th[t].pc = "write"
  BY DEF DInv, Shape, TypeOK, At
<1> DEFINE l == th[t]
           e == [k |-> Len(l.batch), post |-> post]
           m == [l EXCEPT !.pc = "unlock", !.batch = <<>>, !.chunks = Append(l.chunks, e)]
<1>2. l.batch \in Seq(Req) /\ l.chunks \in Seq(Chunk) /\ <<>> \in Seq(Req)
  BY <1>1, EmptySeq DEF Locals
<1>3. PICK n \in Nat : n = Len(l.batch) /\ n # 0
  BY <1>2, LenProperties, EmptySeq
<1>4. e \in Chunk /\ e.k = n /\ e.post = post
  BY <1>3 DEF Chunk
<1> HIDE DEF e
<1>5. /\ Append(l.chunks, e) \in Seq(Chunk)
      /\ Posting(l.chunks) \/ post => Posting(Append(l.chunks, e))
      /\ NoZero(l.chunks) => NoZero(Append(l.chunks, e))
      /\ Append(l.chunks, e) # <<>>
      /\ Cardinality(Units(Append(l.chunks, e))) = Cardinality(Units(l.chunks)) + n
  BY <1>2, <1>3, <1>4, ChunkAppend
<1>6. m \in Locals
  BY <1>1, <1>2, <1>5 DEF Locals, Pc
<1>7. th' = [th EXCEPT ![t] = m]
  BY <1>1 DEF Chunked, TypeOK, e
<1>8. Moves(t) /\ th'[t] = m
  BY <1>1, <1>6, <1>7, SetsTo
<1>9. /\ m.pc = "unlock" /\ m.batch = <<>> /\ m.depth = l.depth /\ m.ret = l.ret
      /\ m.chunks = Append(l.chunks, e) /\ m.extra = l.extra /\ m.k = l.k /\ m.owed = l.owed
  BY <1>1 DEF Locals
<1> HIDE DEF m
<1>10. LocalOK(t, m)
  <2>1. CommonOK(m)
    BY <1>1, <1>5, <1>9 DEF LocalOK, CommonOK, SendPc, RelPc
  <2>2. t \in Reader => ReaderOK(m)
    BY <1>1, <1>5, <1>9 DEF LocalOK, ReaderOK, SendPc, RelPc, HeldPc
  <2>3. t = Loop => LoopOK(m)
    BY <1>1, <1>9 DEF LocalOK, LoopOK, InSend, Nested, SendPc, RelPc, HeldPc, UnlockPc
  <2> QED BY <2>1, <2>2, <2>3 DEF LocalOK
<1>11. Aside(t)
  <2>1. ClosingPc(m) => ClosingPc(l)
    BY <1>1, <1>9 DEF ClosingPc, InSend, SendPc, RelPc
  <2> QED BY <1>1, <1>8, <1>9, <1>10, <2>1 DEF Aside, Deletes
<1>12. TypeOK'
  BY <1>1, <1>8 DEF Moves, TypeOK, ConnType, LockType, BufferType
<1>13. OutstandingExact'
  <2>1. BLen(t) = n /\ BLen(t)' = 0
    BY <1>1, <1>3, <1>8, <1>9, EmptySeq DEF BLen, At
  <2>2. CU(t)' = CU(t) + n
    BY <1>5, <1>8, <1>9 DEF CU
  <2>3. Parted
    BY <1>1, Parts
  <2>4. Delta(t, 0, 0, 0, 0, 0, 0, 0 - n, n, 0)
    <3>1. 0 = n + (0 - n)
      OBVIOUS
    <3> QED BY <1>1, <1>8, <1>9, <2>1, <2>2, <3>1, PlusZero DEF Delta
  <2>5. 0 = 0 + 0 + 0 + 0 + 0 + (0 - n) + n + 0 /\ 0 - n \in Int /\ n \in Int /\ 0 \in Int
    OBVIOUS
  <2> QED BY <1>1, <1>8, <1>12, <2>4, <2>5, DeltaExact DEF DInv, Moves
<1>14. PostShape'
  BY <1>11, AsideKeeps DEF DInv, PostShape
<1>15. Flagged'
  <2>1. \A u \in Thread : Posting(th[u].chunks) => Posting(th'[u].chunks)
    BY <1>5, <1>8, <1>9 DEF Moves
  <2>2. At(Loop, "flush") => At(Loop, "flush")'
    BY <1>1, <1>8 DEF At, Moves, Thread
  <2>3. post => Posting(th'[t].chunks)
    BY <1>5, <1>8, <1>9
  <2> QED BY <2>1, <2>2, <2>3 DEF DInv, Flagged
<1> QED BY <1>11, <1>12, <1>13, <1>14, <1>15, AsideKeeps DEF DInv

\* Writing the batch, or spilling it, keeps the invariant (sendHeld).
LEMMA WriteDirectKeeps ==
    ASSUME DInv, NEW t \in Thread, WriteDirect(t)
    PROVE  DInv'
<1>1. TypeOK /\ LocalOK(t, th[t]) /\ th[t] \in Locals /\ th[t].pc = "write" /\ At(t, "write")
  BY DEF DInv, Shape, TypeOK, WriteDirect, At
<1> DEFINE q == Frames(th[t].batch)
<1>2. th[t].batch \in Seq(Req)
  BY <1>1 DEF Locals
<1>3. /\ q \in Seq(Half) /\ Len(q) \in Nat /\ (q = <<>> <=> th[t].batch = <<>>)
  BY <1>2, FramesOf
<1>4. UNCHANGED <<conn, outstanding, fresh, engine, lock, sendPending, pendingBuf, posts>>
  BY DEF WriteDirect
<1>5. /\ lock \in Thread \cup {NoThread} /\ spill \in Seq(Half) /\ wire \in Seq(Half)
      /\ spillPosted \in BOOLEAN
  BY <1>1 DEF TypeOK, LockType, BufferType
<1>6. CASE q = <<>> /\ Goto(t, "unlock") /\ UNCHANGED <<locked, out>>
  <2>1. Lands(t, "unlock", th[t].depth, th[t].ret)
    BY <1>1, <1>6, LandsPc DEF Pc
  <2>2. th[t].batch = <<>>
    BY <1>3, <1>6
  <2> QED BY <1>1, <1>4, <1>5, <1>6, <2>1, <2>2, SendGoesOn
<1>7. CASE /\ q # <<>> /\ sendClosed /\ Chunked(t, FALSE) /\ UNCHANGED <<locked, out>>
  <2>1. UNCHANGED <<sendClosed, drainWatch, spillPosted, spill, folly, wire>>
    BY <1>7 DEF locked, out
  <2> QED BY <1>1, <1>3, <1>4, <1>5, <1>7, <2>1, ChunkedKeeps
<1>8. ASSUME NEW n \in 0..Len(q), q # <<>>, ~sendClosed,
             wire' = wire \o SubSeq(q, 1, n), spill' = spill \o SubSeq(q, n + 1, Len(q)),
             spillPosted' = (spillPosted \/ n < Len(q)),
             Chunked(t, n < Len(q) /\ SpillPosts),
             UNCHANGED <<sendClosed, drainWatch, folly>>
      PROVE  DInv'
  <2>1. wire' \in Seq(Half) /\ spill' \in Seq(Half)
    <3>1. SubSeq(q, 1, n) \in Seq(Half) /\ SubSeq(q, n + 1, Len(q)) \in Seq(Half)
      BY <1>3, Cut
    <3> HIDE DEF q
    <3> QED BY <1>5, <1>8, <3>1, ConcatProperties
  <2>2. spill' # <<>> => spillPosted'
    <3>1. CASE n < Len(q)
      BY <1>8, <3>1
    <3>2. CASE n = Len(q)
      <4>1. n + 1 > Len(q)
        BY <1>3, <3>2
      <4>2. SubSeq(q, n + 1, Len(q)) = <<>>
        BY <1>3, <4>1, <3>2, SubSeqEmpty
      <4>3. spill' = spill
        BY <1>5, <1>8, <4>2, ConcatEmptySeq
      <4> QED BY <1>8, <4>3 DEF DInv, Flagged
    <3> QED BY <1>3, <3>1, <3>2
  <2>3. spillPosted' => spillPosted \/ (n < Len(q) /\ SpillPosts)
    BY <1>5, <1>8 DEF SpillPosts
  <2>4. spillPosted' \in BOOLEAN /\ (n < Len(q) /\ SpillPosts) \in BOOLEAN
    BY <1>5, <1>8 DEF SpillPosts
  <2> QED BY <1>1, <1>3, <1>4, <1>8, <2>1, <2>2, <2>3, <2>4, ChunkedKeeps
<1> QED BY <1>6, <1>7, <1>8 DEF WriteDirect, Chunked

\* A chunk is taken from t's list, and its counts go to the loop or into t's hand.
LEMMA FinishChunkKeeps ==
    ASSUME DInv, NEW t \in Thread, FinishBatch(t), th[t].chunks # <<>>
    PROVE  DInv'
<1>1. TypeOK /\ LocalOK(t, th[t]) /\ th[t] \in Locals /\ th[t].pc = "finish" /\ PostOK(posts)
  BY DEF DInv, Shape, TypeOK, FinishBatch, At, PostShape
<1> DEFINE l == th[t]
           h == Head(l.chunks)
<1>2. l.chunks \in Seq(Chunk)
  BY <1>1 DEF Locals
<1>3. /\ Tail(l.chunks) \in Seq(Chunk) /\ h \in Chunk
      /\ Posting(l.chunks) => Posting(Tail(l.chunks)) \/ h.post
      /\ NoZero(Tail(l.chunks)) /\ h.k # 0
      /\ Cardinality(Units(l.chunks)) = Cardinality(Units(Tail(l.chunks))) + h.k
  BY <1>1, <1>2, ChunkTail DEF LocalOK, CommonOK
<1>4. PICK n \in Nat : n = h.k /\ n # 0
  BY <1>3 DEF Chunk
<1>5. l.k = 0
  BY <1>1 DEF LocalOK, CommonOK, RelPc
<1>6. UNCHANGED <<conn, outstanding, fresh, engine, lock, sendClosed, drainWatch,
                  spillPosted, spill, sendPending, pendingBuf, folly, wire>>
  BY DEF FinishBatch, locked, out
<1>7. ASSUME NEW m \in Locals, th' = [th EXCEPT ![t] = m],
             NEW pc \in {"finish", "rel"}, NEW a \in Nat, NEW p \in Nat, n = a + p,
             pc = "rel" <=> a # 0,
             m.pc = pc, m.batch = l.batch, m.depth = l.depth, m.ret = l.ret,
             m.chunks = Tail(l.chunks), m.extra = l.extra, m.k = a, m.owed = l.owed,
             posts' \in Seq(Posted), PostOK(posts'), Deletes' = Deletes,
             Flushing(posts) \/ h.post => Flushing(posts'),
             Cardinality(Units(posts')) = Cardinality(Units(posts)) + p
      PROVE  DInv'
  <2>1. Moves(t) /\ th'[t] = m
    BY <1>1, <1>7, SetsTo
  <2>2. LocalOK(t, m)
    <3>1. CommonOK(m)
      BY <1>1, <1>3, <1>7 DEF LocalOK, CommonOK, SendPc, RelPc
    <3>2. t \in Reader => ReaderOK(m)
      BY <1>1, <1>7 DEF LocalOK, ReaderOK, SendPc, RelPc, HeldPc
    <3>3. t = Loop => LoopOK(m)
      BY <1>1, <1>7 DEF LocalOK, LoopOK, InSend, Nested, SendPc, RelPc, HeldPc, UnlockPc
    <3> QED BY <3>1, <3>2, <3>3 DEF LocalOK
  <2>3. Aside(t)
    <3>1. ClosingPc(m) => ClosingPc(l)
      BY <1>1, <1>7 DEF ClosingPc, InSend, SendPc, RelPc
    <3> QED BY <1>1, <1>6, <1>7, <2>1, <2>2, <3>1 DEF Aside
  <2>4. TypeOK'
    BY <1>1, <1>6, <1>7, <2>1 DEF Moves, TypeOK, ConnType, LockType, BufferType
  <2>5. OutstandingExact'
    <3>1. BLen(t)' = BLen(t)
      BY <1>1, <1>7, <2>1 DEF BLen, At
    <3>2. CU(t)' \in Nat /\ CU(t) = CU(t)' + n
      <4>1. Parted'
        BY <2>4, Parts, PTL
      <4> QED BY <1>3, <1>4, <1>7, <2>1, <4>1 DEF CU, Parted
    <3>3. CU(t)' = CU(t) + (0 - n) /\ l.k + a = a
      BY <1>5, <3>2
    <3>4. Delta(t, 0, 0, 0, 0, a, 0, 0, 0 - n, p)
      BY <1>1, <1>6, <1>7, <2>1, <3>1, <3>3, PlusZero DEF Delta
    <3>5. 0 = 0 + 0 + 0 + a + 0 + 0 + (0 - n) + p /\ 0 - n \in Int /\ a \in Int /\ p \in Int
      BY <1>7
    <3>6. 0 \in Int
      OBVIOUS
    <3> QED BY <1>1, <2>1, <2>4, <3>4, <3>5, <3>6, DeltaExact DEF DInv, Moves
  <2>6. PostShape'
    BY <1>7, <2>3, AsideKeeps DEF DInv, PostShape
  <2>7. Flagged'
    <3>1. \A u \in Thread : Posting(th[u].chunks) => Posting(th'[u].chunks) \/ h.post
      BY <1>3, <1>7, <2>1 DEF Moves
    <3>2. At(Loop, "flush") => At(Loop, "flush")'
      BY <1>1, <2>1 DEF At, Moves, Thread
    <3> QED BY <1>6, <1>7, <3>1, <3>2 DEF DInv, Flagged
  <2> QED BY <2>3, <2>4, <2>5, <2>6, <2>7, AsideKeeps DEF DInv
<1>8. CASE h.post
  <2> DEFINE m == [l EXCEPT !.chunks = Tail(l.chunks)]
  <2>1. Post("flush", h.k) /\ th' = [th EXCEPT ![t] = m]
    BY <1>1, <1>8 DEF FinishBatch, TypeOK
  <2>2. m \in Locals
    BY <1>1, <1>3 DEF Locals
  <2>3. /\ m.pc = "finish" /\ m.batch = l.batch /\ m.depth = l.depth /\ m.ret = l.ret
        /\ m.chunks = Tail(l.chunks) /\ m.extra = l.extra /\ m.k = 0 /\ m.owed = l.owed
    BY <1>1, <1>5 DEF Locals
  <2>4. [op |-> "flush", k |-> h.k] \in Posted
    BY <1>4 DEF Posted
  <2>5. /\ posts' \in Seq(Posted) /\ PostOK(posts') /\ Deletes' = Deletes
        /\ Flushing(posts')
        /\ Cardinality(Units(posts')) = Cardinality(Units(posts)) + n
    BY <1>1, <1>4, <2>1, <2>4, PostAppend
  <2>6. n = 0 + n /\ 0 \in Nat
    OBVIOUS
  <2> HIDE DEF m
  <2> QED BY <1>7, <2>1, <2>2, <2>3, <2>5, <2>6
<1>9. CASE ~h.post
  <2> DEFINE m == [l EXCEPT !.pc = "rel", !.chunks = Tail(l.chunks), !.k = n]
  <2>1. posts' = posts /\ th' = [th EXCEPT ![t] = m]
    BY <1>1, <1>4, <1>9 DEF FinishBatch, TypeOK
  <2>2. m \in Locals
    BY <1>1, <1>3 DEF Locals, Pc
  <2>3. /\ m.pc = "rel" /\ m.batch = l.batch /\ m.depth = l.depth /\ m.ret = l.ret
        /\ m.chunks = Tail(l.chunks) /\ m.extra = l.extra /\ m.k = n /\ m.owed = l.owed
    BY <1>1 DEF Locals
  <2>4. /\ posts' \in Seq(Posted) /\ PostOK(posts') /\ Deletes' = Deletes
        /\ Flushing(posts) => Flushing(posts')
        /\ Cardinality(Units(posts')) = Cardinality(Units(posts)) + 0
    BY <1>1, <2>1, PlusZero DEF TypeOK, Deletes
  <2>5. n = n + 0 /\ 0 \in Nat
    OBVIOUS
  <2> HIDE DEF m
  <2> QED BY <1>4, <1>7, <1>9, <2>1, <2>2, <2>3, <2>4, <2>5
<1> QED BY <1>8, <1>9

\* Counts leave t's hand: for good, to a post, or its extra count comes into it.
LEMMA HandKeeps ==
    ASSUME DInv, NEW t \in Thread, th[t].pc \in RelPc \cup {"finish"},
           NEW m \in Locals, th' = [th EXCEPT ![t] = m], LocalOK(t, m),
           m.pc \in RelPc \cup {"finish"}, m.batch = th[t].batch, m.ret = th[t].ret,
           m.chunks = th[t].chunks, m.owed = th[t].owed,
           NEW o \in Int, NEW x \in Int, NEW k \in Int, NEW p \in Int, o = x + k + p,
           m.extra = th[t].extra + x, m.k = th[t].k + k,
           outstanding' = outstanding + o, outstanding' \in Nat,
           outstanding = 0 => outstanding' = 0,
           UNCHANGED <<conn, fresh, engine, sendClosed, drainWatch, spillPosted, spill,
                       sendPending, pendingBuf, folly, wire>>,
           lock' \in Thread \cup {NoThread},
           posts' \in Seq(Posted), PostOK(posts'), Deletes' = Deletes,
           Flushing(posts) => Flushing(posts'),
           Cardinality(Units(posts')) = Cardinality(Units(posts)) + p
    PROVE  DInv'
<1>1. TypeOK /\ th[t] \in Locals
  BY DEF DInv, TypeOK
<1>2. Moves(t) /\ th'[t] = m
  BY <1>1, SetsTo
<1>3. Aside(t)
  <2>1. ClosingPc(m) => ClosingPc(th[t])
    BY DEF ClosingPc, InSend, SendPc, RelPc
  <2>2. th[t].pc \notin {"idle", "close", "flush"} /\ m.pc # "chain"
    BY DEF RelPc
  <2> QED BY <1>2, <2>1, <2>2 DEF Aside
<1>4. TypeOK'
  BY <1>1, <1>2 DEF Moves, TypeOK, ConnType, LockType, BufferType
<1>5. OutstandingExact'
  <2>1. th[t].pc # "chain" /\ m.pc # "chain"
    BY DEF RelPc
  <2>2. BLen(t)' = BLen(t) /\ CU(t)' = CU(t)
    BY <1>2, <2>1 DEF BLen, At, CU
  <2>3. Delta(t, o, 0, 0, x, k, 0, 0, 0, p)
    BY <1>1, <1>2, <2>2, PlusZero DEF Delta
  <2>4. o = 0 + 0 + x + k + 0 + 0 + 0 + p /\ 0 \in Int
    OBVIOUS
  <2> QED BY <1>1, <1>2, <1>4, <2>3, <2>4, DeltaExact DEF DInv, Moves
<1>6. PostShape'
  BY <1>3, AsideKeeps DEF DInv, PostShape
<1>7. Flagged'
  <2>1. \A u \in Thread : th'[u].chunks = th[u].chunks
    BY <1>2 DEF Moves
  <2>2. At(Loop, "flush") => At(Loop, "flush")'
    BY <1>2 DEF At, Moves, Thread, RelPc
  <2> QED BY <2>1, <2>2 DEF DInv, Flagged
<1> QED BY <1>3, <1>4, <1>5, <1>6, <1>7, AsideKeeps DEF DInv

\* finishBatch, with and without chunks left, keeps the invariant.
LEMMA FinishBatchKeeps ==
    ASSUME DInv, NEW t \in Thread, FinishBatch(t)
    PROVE  DInv'
<1>1. /\ TypeOK /\ LocalOK(t, th[t]) /\ th[t] \in Locals /\ th[t].pc = "finish"
      /\ PostOK(posts) /\ posts \in Seq(Posted) /\ outstanding \in Nat
      /\ lock \in Thread \cup {NoThread}
  BY DEF DInv, Shape, TypeOK, FinishBatch, At, PostShape, ConnType, LockType
<1> DEFINE l == th[t]
<1>2. UNCHANGED <<conn, outstanding, fresh, engine, lock, sendClosed, drainWatch,
                  spillPosted, spill, sendPending, pendingBuf, folly, wire>>
  BY DEF FinishBatch, locked, out
<1>3. CASE l.chunks # <<>>
  BY <1>3, FinishChunkKeeps
<1>4. CASE l.chunks = <<>> /\ l.extra = 1
  <2> DEFINE m == [l EXCEPT !.pc = "rel", !.extra = 0, !.k = 1]
  <2>1. posts' = posts /\ th' = [th EXCEPT ![t] = m]
    <3>1. /\ posts' = posts
          /\ th' = [th EXCEPT ![t].pc = "rel", ![t].extra = 0, ![t].k = 1]
      BY <1>1, <1>4 DEF FinishBatch
    <3>2. th \in [Thread -> Locals]
      BY <1>1 DEF TypeOK
    <3> QED BY <3>1, <3>2
  <2>2. \A pc \in Pc, x \in 0..1, k \in Nat : [l EXCEPT !.pc = pc, !.extra = x, !.k = k] \in Locals
    BY <1>1 DEF Locals
  <2>3. m \in Locals
    <3>1. "rel" \in Pc /\ 0 \in 0..1 /\ 1 \in Nat
      BY DEF Pc
    <3> QED BY <2>2, <3>1
  <2>4. /\ m.pc = "rel" /\ m.batch = l.batch /\ m.depth = l.depth /\ m.ret = l.ret
        /\ m.chunks = l.chunks /\ m.extra = 0 /\ m.k = 1 /\ m.owed = l.owed
    BY <1>1 DEF Locals
  <2> HIDE DEF m
  <2>5. LocalOK(t, m)
    <3>1. CommonOK(m)
      BY <1>1, <2>4 DEF LocalOK, CommonOK, SendPc, RelPc
    <3>2. t \in Reader => ReaderOK(m)
      BY <1>1, <2>4 DEF LocalOK, ReaderOK, SendPc, RelPc, HeldPc
    <3>3. t = Loop => LoopOK(m)
      BY <1>1, <2>4 DEF LocalOK, LoopOK, InSend, Nested, SendPc, RelPc, HeldPc, UnlockPc
    <3> QED BY <3>1, <3>2, <3>3 DEF LocalOK
  <2>6. l.k = 0
    BY <1>1 DEF LocalOK, CommonOK, RelPc
  <2>7. PICK x \in Int, k \in Int, z \in Int :
           z = x + k + z /\ m.extra = l.extra + x /\ m.k = l.k + k /\ z = 0
    <3>1. 0 = (0 - 1) + 1 + 0 /\ m.extra = l.extra + (0 - 1) /\ m.k = l.k + 1
      BY <1>4, <2>4, <2>6
    <3> QED BY <3>1
  <2>8. l.pc \in RelPc \cup {"finish"} /\ m.pc \in RelPc \cup {"finish"} /\ Deletes' = Deletes
    BY <1>1, <2>1, <2>4 DEF RelPc, Deletes
  <2>9. /\ outstanding' = outstanding + z /\ outstanding' \in Nat
        /\ outstanding = 0 => outstanding' = 0
        /\ lock' \in Thread \cup {NoThread} /\ posts' \in Seq(Posted) /\ PostOK(posts')
        /\ Flushing(posts) => Flushing(posts')
        /\ Cardinality(Units(posts')) = Cardinality(Units(posts)) + z
    BY <1>1, <1>2, <2>1, <2>7, PlusZero
  <2> QED BY <1>2, <2>1, <2>3, <2>4, <2>5, <2>7, <2>8, <2>9, HandKeeps
<1>5. CASE l.chunks = <<>> /\ l.extra = 0
  <2>1. Goto(t, l.ret) /\ posts' = posts
    BY <1>1, <1>5 DEF FinishBatch
  <2>2. l.ret \in Pc
    BY <1>1 DEF Locals, Pc
  <2>3. Lands(t, l.ret, l.depth, l.ret)
    BY <1>1, <2>1, <2>2, LandsPc
  <2> QED BY <1>1, <1>2, <1>5, <2>1, <2>3, SendGoesOn DEF FinishBatch
<1>6. l.extra \in {0, 1}
  BY <1>1 DEF Locals
<1> QED BY <1>3, <1>4, <1>5, <1>6

\* Counts given back under the lock (releaseOutstanding) keep the invariant.
LEMMA ReleaseHeldKeeps ==
    ASSUME DInv, NEW t \in Thread, ReleaseHeld(t)
    PROVE  DInv'
<1>1. /\ TypeOK /\ LocalOK(t, th[t]) /\ th[t] \in Locals /\ th[t].pc = "relheld"
      /\ PostOK(posts) /\ posts \in Seq(Posted) /\ outstanding \in Nat
      /\ lock \in Thread \cup {NoThread}
  BY DEF DInv, Shape, TypeOK, ReleaseHeld, At, PostShape, ConnType, LockType
<1> DEFINE l == th[t]
<1>2. UNCHANGED <<conn, fresh, engine, sendClosed, drainWatch, spillPosted, spill,
                  sendPending, pendingBuf, folly, wire, posts>>
  BY DEF ReleaseHeld, locked, out
<1>3. l.depth # 0
  BY <1>1 DEF LocalOK, ReaderOK, LoopOK, InSend, Nested, HeldPc, RelPc, Thread
<1>4. PICK k \in Nat : k = l.k /\ k # 0 /\ k <= outstanding
  BY <1>1, Covers DEF DInv, LocalOK, CommonOK, RelPc, Locals
<1>5. CASE NobodyWaits
  <2>0. l.depth - 1 \in 0..2 /\ "finish" \in Pc /\ 0 \in Nat
    BY <1>1, <1>3 DEF Locals, Pc
  <2> DEFINE m == [l EXCEPT !.k = 0, !.pc = "finish", !.depth = l.depth - 1]
  <2>1. /\ outstanding' = outstanding - k /\ th' = [th EXCEPT ![t] = m]
        /\ lock' \in Thread \cup {NoThread}
    <3>1. /\ outstanding' = outstanding - k /\ Unlock([th EXCEPT ![t].k = 0], t, "finish")
      BY <1>4, <1>5 DEF ReleaseHeld
    <3>2. th \in [Thread -> Locals]
      BY <1>1 DEF TypeOK
    <3> DEFINE f == [th EXCEPT ![t].k = 0]
    <3>3. f \in [Thread -> Locals] /\ f = [th EXCEPT ![t] = [l EXCEPT !.k = 0]]
      BY <3>2 DEF Locals
    <3>4. f[t] = [l EXCEPT !.k = 0] /\ f[t].depth = l.depth
      BY <1>1, <3>2, <3>3 DEF Locals
    <3>5. th' = [f EXCEPT ![t] = [f[t] EXCEPT !.pc = "finish", !.depth = f[t].depth - 1]]
      BY <3>1, <3>3 DEF Unlock
    <3>6. [f[t] EXCEPT !.pc = "finish", !.depth = f[t].depth - 1] = m
      BY <1>1, <3>4 DEF Locals
    <3>7. th' = [th EXCEPT ![t] = m]
      BY <3>2, <3>3, <3>5, <3>6
    <3> QED BY <1>1, <3>1, <3>7 DEF Unlock
  <2>2. \A pc \in Pc, d \in 0..2, n \in Nat : [l EXCEPT !.k = n, !.pc = pc, !.depth = d] \in Locals
    BY <1>1 DEF Locals
  <2>3. m \in Locals
    BY <2>0, <2>2
  <2>4. /\ m.pc = "finish" /\ m.batch = l.batch /\ m.depth = l.depth - 1 /\ m.ret = l.ret
        /\ m.chunks = l.chunks /\ m.extra = l.extra /\ m.k = 0 /\ m.owed = l.owed
    BY <1>1 DEF Locals
  <2> HIDE DEF m
  <2>5. LocalOK(t, m)
    <3>1. CommonOK(m)
      BY <1>1, <2>4 DEF LocalOK, CommonOK, SendPc, RelPc
    <3>2. t \in Reader => ReaderOK(m)
      BY <1>1, <2>4 DEF LocalOK, ReaderOK, SendPc, RelPc, HeldPc
    <3>3. t = Loop => LoopOK(m)
      BY <1>1, <2>4 DEF LocalOK, LoopOK, InSend, Nested, SendPc, RelPc, HeldPc, UnlockPc
    <3> QED BY <3>1, <3>2, <3>3 DEF LocalOK
  <2>6. /\ 0 - k = 0 + (0 - k) + 0 /\ 0 - k \in Int /\ 0 \in Int
        /\ outstanding' = outstanding + (0 - k) /\ outstanding' \in Nat
        /\ m.k = l.k + (0 - k) /\ outstanding # 0
    <3>1. PICK n \in Nat : n = outstanding
      BY <1>1
    <3>2. /\ 0 - k = 0 + (0 - k) + 0 /\ 0 - k \in Int /\ 0 \in Int
          /\ 0 = k + (0 - k)
      OBVIOUS
    <3>3. n - k = n + (0 - k) /\ n - k \in Nat /\ n # 0
      BY <1>4, <3>1
    <3> QED BY <1>4, <2>1, <2>4, <3>1, <3>2, <3>3
  <2>7. l.pc \in RelPc \cup {"finish"} /\ m.pc \in RelPc \cup {"finish"} /\ Deletes' = Deletes
    BY <1>1, <1>2, <2>4 DEF RelPc, Deletes
  <2>8. m.extra = l.extra + 0 /\ Cardinality(Units(posts')) = Cardinality(Units(posts)) + 0
    BY <1>1, <1>2, <2>4, PlusZero
  <2> QED BY <1>1, <1>2, <2>1, <2>3, <2>4, <2>5, <2>6, <2>7, <2>8, HandKeeps
<1>6. CASE ~NobodyWaits
  <2>1. Unlock(th, t, "relcas") /\ outstanding' = outstanding
    BY <1>6 DEF ReleaseHeld
  <2>2. Lands(t, "relcas", l.depth - 1, l.ret) /\ lock' \in Thread \cup {NoThread}
    BY <1>3, <2>1, UnlockLands DEF Pc
  <2> QED BY <1>1, <1>2, <2>1, <2>2, SendGoesOn DEF ReleaseHeld
<1> QED BY <1>5, <1>6

\* Counts given back by compare-exchange keep the invariant.
LEMMA ReleaseCasKeeps ==
    ASSUME DInv, NEW t \in Thread, ReleaseCas(t)
    PROVE  DInv'
<1>1. /\ TypeOK /\ LocalOK(t, th[t]) /\ th[t] \in Locals /\ th[t].pc = "relcas"
      /\ PostOK(posts) /\ posts \in Seq(Posted) /\ outstanding \in Nat
      /\ lock \in Thread \cup {NoThread}
  BY DEF DInv, Shape, TypeOK, ReleaseCas, At, PostShape, ConnType, LockType
<1> DEFINE l == th[t]
<1>2. UNCHANGED <<conn, fresh, engine, lock, sendClosed, drainWatch, spillPosted, spill,
                  sendPending, pendingBuf, folly, wire, posts>>
  BY DEF ReleaseCas, locked, out
<1>3. PICK k \in Nat : k = l.k /\ k # 0 /\ k <= outstanding
  BY <1>1, Covers DEF DInv, LocalOK, CommonOK, RelPc, Locals
<1>4. PICK d \in Nat : d = IF l.k < outstanding THEN l.k ELSE outstanding - 1
  BY <1>1, <1>3
<1>5. d <= k /\ (outstanding - d) \in Nat /\ (outstanding - d) = outstanding + (0 - d)
  BY <1>1, <1>3, <1>4
<1>6. PICK n \in Nat : n = k - d /\ n = l.k + (0 - d) /\ (n = 0 <=> d = l.k)
  BY <1>3, <1>5
<1>7. PICK pc \in {"finish", "relpost"} : pc = IF d = l.k THEN "finish" ELSE "relpost"
  OBVIOUS
<1> DEFINE m == [l EXCEPT !.k = n, !.pc = pc]
<1>8. outstanding' = outstanding - d /\ th' = [th EXCEPT ![t] = m]
  BY <1>1, <1>3, <1>4, <1>6, <1>7 DEF ReleaseCas, TypeOK
<1>9. m \in Locals
  BY <1>1 DEF Locals, Pc
<1>10. /\ m.pc = pc /\ m.batch = l.batch /\ m.depth = l.depth /\ m.ret = l.ret
       /\ m.chunks = l.chunks /\ m.extra = l.extra /\ m.k = n /\ m.owed = l.owed
  BY <1>1 DEF Locals
<1> HIDE DEF m
<1>11. LocalOK(t, m)
  <2>1. CommonOK(m)
    BY <1>1, <1>6, <1>7, <1>10 DEF LocalOK, CommonOK, SendPc, RelPc
  <2>2. t \in Reader => ReaderOK(m)
    BY <1>1, <1>10 DEF LocalOK, ReaderOK, SendPc, RelPc, HeldPc
  <2>3. t = Loop => LoopOK(m)
    BY <1>1, <1>10 DEF LocalOK, LoopOK, InSend, Nested, SendPc, RelPc, HeldPc, UnlockPc
  <2> QED BY <2>1, <2>2, <2>3 DEF LocalOK
<1>12. /\ 0 - d = 0 + (0 - d) + 0 /\ 0 - d \in Int /\ 0 \in Int
       /\ outstanding' = outstanding + (0 - d) /\ outstanding' \in Nat
       /\ m.k = l.k + (0 - d) /\ outstanding # 0
  BY <1>1, <1>3, <1>5, <1>6, <1>8, <1>10
<1>13. l.pc \in RelPc \cup {"finish"} /\ m.pc \in RelPc \cup {"finish"} /\ Deletes' = Deletes
  BY <1>1, <1>2, <1>10 DEF RelPc, Deletes
<1>14. m.extra = l.extra + 0 /\ Cardinality(Units(posts')) = Cardinality(Units(posts)) + 0
  BY <1>1, <1>2, <1>10, PlusZero
<1> QED BY <1>1, <1>2, <1>8, <1>9, <1>10, <1>11, <1>12, <1>13, <1>14, HandKeeps

\* Counts given back through a callback of the loop keep the invariant.
LEMMA ReleasePostKeeps ==
    ASSUME DInv, NEW t \in Thread, ReleasePost(t)
    PROVE  DInv'
<1>1. /\ TypeOK /\ LocalOK(t, th[t]) /\ th[t] \in Locals /\ th[t].pc = "relpost"
      /\ PostOK(posts) /\ posts \in Seq(Posted) /\ outstanding \in Nat
      /\ lock \in Thread \cup {NoThread}
  BY DEF DInv, Shape, TypeOK, ReleasePost, At, PostShape, ConnType, LockType
<1> DEFINE l == th[t]
<1>2. UNCHANGED <<conn, outstanding, fresh, engine, lock, sendClosed, drainWatch,
                  spillPosted, spill, sendPending, pendingBuf, folly, wire>>
  BY DEF ReleasePost, locked, out
<1>3. PICK k \in Nat : k = l.k /\ k # 0
  BY <1>1 DEF LocalOK, CommonOK, RelPc, Locals
<1> DEFINE m == [l EXCEPT !.pc = "finish", !.k = 0]
<1>4. Post("drop", l.k) /\ th' = [th EXCEPT ![t] = m]
  BY <1>1 DEF ReleasePost, TypeOK
<1>5. m \in Locals
  BY <1>1 DEF Locals, Pc
<1>6. /\ m.pc = "finish" /\ m.batch = l.batch /\ m.depth = l.depth /\ m.ret = l.ret
      /\ m.chunks = l.chunks /\ m.extra = l.extra /\ m.k = 0 /\ m.owed = l.owed
  BY <1>1 DEF Locals
<1> HIDE DEF m
<1>7. LocalOK(t, m)
  <2>1. CommonOK(m)
    BY <1>1, <1>6 DEF LocalOK, CommonOK, SendPc, RelPc
  <2>2. t \in Reader => ReaderOK(m)
    BY <1>1, <1>6 DEF LocalOK, ReaderOK, SendPc, RelPc, HeldPc
  <2>3. t = Loop => LoopOK(m)
    BY <1>1, <1>6 DEF LocalOK, LoopOK, InSend, Nested, SendPc, RelPc, HeldPc, UnlockPc
  <2> QED BY <2>1, <2>2, <2>3 DEF LocalOK
<1>8. [op |-> "drop", k |-> l.k] \in Posted
  BY <1>3 DEF Posted
<1>9. /\ posts' \in Seq(Posted) /\ PostOK(posts') /\ Deletes' = Deletes
      /\ Flushing(posts) => Flushing(posts')
      /\ Cardinality(Units(posts')) = Cardinality(Units(posts)) + k
  BY <1>1, <1>3, <1>4, <1>8, PostAppend
<1>10. /\ 0 = 0 + (0 - k) + k /\ 0 - k \in Int /\ 0 \in Int /\ k \in Int
       /\ m.k = l.k + (0 - k)
  <2>1. /\ 0 = 0 + (0 - k) + k /\ 0 - k \in Int /\ 0 \in Int /\ k \in Int
        /\ 0 = k + (0 - k)
    OBVIOUS
  <2> QED BY <1>3, <1>6, <2>1
<1>11. l.pc \in RelPc \cup {"finish"} /\ m.pc \in RelPc \cup {"finish"}
  BY <1>1, <1>6 DEF RelPc
<1>12. /\ m.extra = l.extra + 0 /\ outstanding' = outstanding + 0 /\ outstanding' \in Nat
       /\ outstanding = 0 => outstanding' = 0
       /\ lock' \in Thread \cup {NoThread}
  BY <1>1, <1>2, <1>6, PlusZero
<1> QED BY <1>2, <1>4, <1>5, <1>6, <1>7, <1>9, <1>10, <1>11, <1>12, HandKeeps

\* Every step of the sending code.
LEMMA SendStepKeeps ==
    ASSUME DInv, NEW t \in Thread, SendStep(t)
    PROVE  DInv'
BY PushPendingKeeps, RetryKeeps, DrainKeeps, TakePendingKeeps, WriteDirectKeeps,
   SendUnlockKeeps, RecheckKeeps, FinishBatchKeeps, ReleaseHeldKeeps, ReleaseCasKeeps,
   ReleasePostKeeps DEF SendStep

-----------------------------------------------------------------------------
(* Steps of the loop *)

\* The loop holds what it held; the batch of a chain holds no count.
LEMMA LoopHolds ==
    ASSUME DInv, TypeOK', Moves(Loop), LocalOK(Loop, th'[Loop]),
           th'[Loop].k = th[Loop].k, th'[Loop].owed = th[Loop].owed,
           th'[Loop].chunks = th[Loop].chunks,
           th'[Loop].batch = th[Loop].batch \/ th'[Loop].batch = <<>> \/ th'[Loop].pc = "chain",
           th'[Loop].pc \notin {"take", "write"}, th[Loop].pc \notin {"take", "write"},
           UNCHANGED <<outstanding, engine, sendPending, posts>>
    PROVE  OutstandingExact'
<1>1. Loop \in Thread /\ TypeOK /\ LocalOK(Loop, th[Loop]) /\ OutstandingExact
  BY DEF Thread, DInv, Shape
<1>2. th[Loop].extra = 0 /\ th'[Loop].extra = 0
  BY <1>1 DEF LocalOK, LoopOK
<1>3. th[Loop].pc # "push" /\ th'[Loop].pc # "push"
  BY <1>1 DEF LocalOK, LoopOK
<1>4. th[Loop].pc # "chain" => th[Loop].batch = <<>>
  BY <1>1, <1>3 DEF LocalOK, CommonOK
<1>5. th'[Loop].pc # "chain" => th'[Loop].batch = <<>>
  BY <1>3 DEF LocalOK, CommonOK
<1>6. BLen(Loop) = 0 /\ BLen(Loop)' = 0
  BY <1>4, <1>5, EmptySeq DEF BLen, At
<1>7. CU(Loop)' = CU(Loop)
  BY DEF CU
<1>8. Delta(Loop, 0, 0, 0, 0, 0, 0, 0, 0, 0)
  BY <1>1, <1>2, <1>6, <1>7, PlusZero DEF Delta
<1>9. 0 = 0 + 0 + 0 + 0 + 0 + 0 + 0 + 0 /\ 0 \in Int
  OBVIOUS
<1> QED BY <1>1, <1>8, <1>9, DeltaExact DEF Moves

\* The invariant from its parts, for a step of the loop.
LEMMA LoopEnds ==
    ASSUME DInv, TypeOK', Moves(Loop), LocalOK(Loop, th'[Loop]), Life', PostShape',
           Quiet', Bare', Flagged', OutstandingExact'
    PROVE  DInv'
BY DEF DInv, Shape, Moves

\* A step that leaves the life of the connection and the spill alone.
LEMMA LoopPasses ==
    ASSUME DInv, TypeOK', Moves(Loop), LocalOK(Loop, th'[Loop]), OutstandingExact',
           conn'.st = conn.st, conn.st \notin {"detached", "deleted"},
           UNCHANGED <<sendClosed, spillPosted, spill, posts>>,
           th'[Loop].chunks = th[Loop].chunks,
           outstanding' = outstanding \/ conn.st = "open",
           th[Loop].pc \notin {"flush", "close"},
           th'[Loop].pc = "chain" => Open,
           ClosingPc(th'[Loop]) => ClosingPc(th[Loop])
    PROVE  DInv'
<1>1. Life'
  BY DEF DInv, Life, At, Open, Closing, Deletes
<1>2. PostShape'
  BY DEF DInv, PostShape, Deletes, Closing
<1>3. Quiet' /\ Bare'
  BY DEF Quiet, Bare
<1>4. Flagged'
  <2>1. \A u \in Thread : th'[u].chunks = th[u].chunks
    BY DEF Moves
  <2> QED BY <2>1 DEF DInv, Flagged, At
<1> QED BY <1>1, <1>2, <1>3, <1>4, LoopEnds

\* A loop with nothing to do holds nothing.
LEMMA LoopRests ==
    ASSUME DInv, LoopIdle
    PROVE  /\ TypeOK /\ Loop \in Thread /\ th \in [Thread -> Locals] /\ th[Loop] \in Locals
           /\ th[Loop].pc = "idle"
           /\ th[Loop].extra = 0 /\ th[Loop].k = 0 /\ th[Loop].owed = 0
           /\ th[Loop].depth = 0 /\ th[Loop].batch = <<>> /\ th[Loop].chunks = <<>>
           /\ ~ClosingPc(th[Loop])
<1>1. TypeOK /\ Loop \in Thread /\ LocalOK(Loop, th[Loop]) /\ th[Loop].pc = "idle"
  BY DEF DInv, Shape, Thread, LoopIdle, At
<1>2. th \in [Thread -> Locals] /\ th[Loop] \in Locals
  BY <1>1 DEF TypeOK
<1> QED BY <1>1, <1>2 DEF LocalOK, CommonOK, LoopOK, InSend, Nested, SendPc, RelPc,
                          UnlockPc, ClosingPc

\* A loop that starts something without counts.
LEMMA LoopStarts ==
    ASSUME DInv, LoopIdle, NEW pc \in {"idle", "flush", "chain", "close", "watch", "attach"},
           NEW b \in Seq(Req), b # <<>> => pc = "chain",
           th' = [th EXCEPT ![Loop].pc = pc, ![Loop].batch = b]
    PROVE  /\ Moves(Loop) /\ LocalOK(Loop, th'[Loop])
           /\ th'[Loop].pc = pc /\ th'[Loop].chunks = th[Loop].chunks
           /\ th'[Loop].k = 0 /\ th'[Loop].owed = 0 /\ th'[Loop].extra = 0
           /\ ClosingPc(th'[Loop]) <=> pc = "close"
<1>1. /\ TypeOK /\ Loop \in Thread /\ th \in [Thread -> Locals] /\ th[Loop] \in Locals
      /\ th[Loop].extra = 0 /\ th[Loop].k = 0 /\ th[Loop].owed = 0
      /\ th[Loop].depth = 0 /\ th[Loop].chunks = <<>>
  BY LoopRests
<1> DEFINE m == [th[Loop] EXCEPT !.pc = pc, !.batch = b]
<1>2. m \in Locals
  <2>1. pc \in Pc
    BY DEF Pc
  <2> QED BY <1>1, <2>1 DEF Locals
<1>3. th' = [th EXCEPT ![Loop] = m]
  BY <1>1
<1>4. Moves(Loop) /\ th'[Loop] = m
  BY <1>1, <1>2, <1>3, SetsTo
<1>5. /\ m.pc = pc /\ m.batch = b /\ m.depth = 0 /\ m.ret = th[Loop].ret
      /\ m.chunks = <<>> /\ m.extra = 0 /\ m.k = 0 /\ m.owed = 0
  BY <1>1 DEF Locals
<1> HIDE DEF m
<1>6. CommonOK(m)
  BY <1>5 DEF CommonOK, RelPc, NoZero
<1>7. LoopOK(m)
  BY <1>5 DEF LoopOK, InSend, Nested, SendPc, RelPc, UnlockPc
<1>8. LocalOK(Loop, m)
  BY <1>6, <1>7, Domain DEF LocalOK
<1>9. ClosingPc(m) <=> pc = "close"
  BY <1>5 DEF ClosingPc, InSend, SendPc, RelPc
<1> QED BY <1>1, <1>4, <1>5, <1>8, <1>9

\* The same with Goto.
LEMMA LoopGoes ==
    ASSUME DInv, LoopIdle, NEW pc, Goto(Loop, pc)
    PROVE  th' = [th EXCEPT ![Loop].pc = pc, ![Loop].batch = <<>>]
<1>1. th \in [Thread -> Locals] /\ Loop \in Thread /\ th[Loop] \in Locals /\ th[Loop].batch = <<>>
  BY LoopRests
<1>2. [th[Loop] EXCEPT !.pc = pc, !.batch = <<>>] = [th[Loop] EXCEPT !.pc = pc]
  BY <1>1 DEF Locals
<1> QED BY <1>1, <1>2 DEF Goto

\* A request is in the engine only after it was received.
Sent == fresh \cap engine = {}

\* A request parsed adds one count, the engine's.
LEMMA ReceiveKeeps ==
    ASSUME DInv, Sent, NEW r \in Req, Receive(r)
    PROVE  DInv'
<1>1. /\ LoopIdle /\ Open /\ r \in fresh /\ fresh' = fresh \ {r}
      /\ UNCHANGED <<conn, lock, sendClosed, drainWatch, spillPosted, spill, sendPending,
                     folly, wire, posts>>
  BY DEF Receive, Reading, locked, out
<1>2. /\ TypeOK /\ OutstandingExact /\ Loop \in Thread /\ th \in [Thread -> Locals]
      /\ th[Loop] \in Locals /\ th[Loop].pc = "idle" /\ th[Loop].extra = 0 /\ th[Loop].k = 0
      /\ th[Loop].owed = 0 /\ th[Loop].batch = <<>> /\ th[Loop].chunks = <<>>
      /\ ~ClosingPc(th[Loop])
  BY <1>1, LoopRests DEF DInv
<1>3. <<>> \in Seq(Req) /\ <<r>> \in Seq(Req)
  BY EmptySeq
<1>4. ASSUME NEW pc \in {"idle", "flush", "chain"}, NEW b \in Seq(Req), b # <<>> => pc = "chain",
             th' = [th EXCEPT ![Loop].pc = pc, ![Loop].batch = b],
             pendingBuf' \in Seq(Half), engine' \subseteq Req, outstanding' \in Nat,
             \/ UNCHANGED <<engine, outstanding>>
             \/ engine' = engine \cup {r} /\ outstanding' = outstanding + 1
      PROVE  DInv'
  <2>1. /\ Moves(Loop) /\ LocalOK(Loop, th'[Loop]) /\ th'[Loop].pc = pc
        /\ th'[Loop].chunks = th[Loop].chunks /\ ~ClosingPc(th'[Loop])
        /\ th'[Loop].k = 0 /\ th'[Loop].owed = 0 /\ th'[Loop].extra = 0
    BY <1>1, <1>4, LoopStarts
  <2>2. TypeOK'
    BY <1>1, <1>2, <1>4, <2>1 DEF Moves, TypeOK, ConnType, LockType, BufferType
  <2>3. BLen(Loop) = 0 /\ BLen(Loop)' = 0 /\ CU(Loop)' = CU(Loop)
    <3>1. th'[Loop].pc # "chain" => th'[Loop].batch = <<>>
      BY <1>4, <2>1 DEF LocalOK, CommonOK
    <3> QED BY <1>2, <2>1, <3>1, EmptySeq DEF BLen, At, CU
  <2>4. OutstandingExact'
    <3>1. CASE UNCHANGED <<engine, outstanding>>
      <4>1. Delta(Loop, 0, 0, 0, 0, 0, 0, 0, 0, 0)
        BY <1>1, <1>2, <2>1, <2>3, <3>1, PlusZero DEF Delta
      <4>2. 0 = 0 + 0 + 0 + 0 + 0 + 0 + 0 + 0 /\ 0 \in Int
        OBVIOUS
      <4> QED BY <1>2, <2>1, <2>2, <4>1, <4>2, DeltaExact DEF Moves
    <3>2. CASE engine' = engine \cup {r} /\ outstanding' = outstanding + 1
      <4>1. r \notin engine /\ IsFiniteSet(engine)
        BY <1>1, <1>2, Parts DEF Sent, Parted
      <4>2. Cardinality(engine') = Cardinality(engine) + 1
        BY <3>2, <4>1, FS_AddElement
      <4>3. Delta(Loop, 1, 1, 0, 0, 0, 0, 0, 0, 0)
        BY <1>1, <1>2, <2>1, <2>3, <3>2, <4>2, PlusZero DEF Delta
      <4>4. 1 = 1 + 0 + 0 + 0 + 0 + 0 + 0 + 0 /\ 0 \in Int /\ 1 \in Int
        OBVIOUS
      <4> QED BY <1>2, <2>1, <2>2, <4>3, <4>4, DeltaExact DEF Moves
    <3> QED BY <1>4, <3>1, <3>2
  <2> QED BY <1>1, <1>2, <2>1, <2>2, <2>4, LoopPasses DEF Open
<1>5. pendingBuf \in Seq(Half) /\ engine \subseteq Req /\ outstanding \in Nat
  BY <1>2 DEF TypeOK, BufferType, ConnType
<1>6. CASE /\ engine' = engine \cup {r} /\ outstanding' = outstanding + 1
           /\ Goto(Loop, "flush") /\ UNCHANGED pendingBuf
  <2>1. th' = [th EXCEPT ![Loop].pc = "flush", ![Loop].batch = <<>>]
    BY <1>1, <1>6, LoopGoes
  <2>2. outstanding' \in Nat /\ engine' \subseteq Req
    BY <1>5, <1>6
  <2> QED BY <1>3, <1>4, <1>5, <1>6, <2>1, <2>2
<1>7. ASSUME NEW pc \in {"flush", "idle"}, Goto(Loop, pc),
             pendingBuf' = pendingBuf \o Frames(<<r>>), UNCHANGED <<engine, outstanding>>
      PROVE  DInv'
  <2>1. th' = [th EXCEPT ![Loop].pc = pc, ![Loop].batch = <<>>]
    BY <1>1, <1>7, LoopGoes
  <2>2. Frames(<<r>>) \in Seq(Half)
    BY <1>3, FramesOf
  <2>3. pendingBuf' \in Seq(Half)
    BY <1>5, <1>7, <2>2, ConcatProperties
  <2> QED BY <1>3, <1>4, <1>5, <1>7, <2>1, <2>3
<1>8. CASE /\ th' = [th EXCEPT ![Loop].pc = "chain", ![Loop].batch = <<r>>]
           /\ UNCHANGED <<engine, outstanding, pendingBuf>>
  BY <1>3, <1>4, <1>5, <1>8
<1> QED BY <1>6, <1>7, <1>8 DEF Receive

\* The loop starts a flush, a migration or an attachment.
LEMMA LoopTurns ==
    ASSUME DInv, LoopIdle, Open, NEW pc \in {"idle", "flush", "watch"}, Goto(Loop, pc),
           conn' \in [st : {"open"}, migrating : BOOLEAN, check : BOOLEAN],
           UNCHANGED <<outstanding, fresh, engine, lock, locked, sendPending, pendingBuf,
                       out, posts>>
    PROVE  DInv'
<1>1. /\ TypeOK /\ Loop \in Thread /\ th[Loop].pc = "idle" /\ th[Loop].k = 0
      /\ th[Loop].owed = 0
  BY LoopRests
<1>2. <<>> \in Seq(Req)
  BY EmptySeq
<1>3. th' = [th EXCEPT ![Loop].pc = pc, ![Loop].batch = <<>>]
  BY LoopGoes
<1>4. /\ Moves(Loop) /\ LocalOK(Loop, th'[Loop]) /\ th'[Loop].pc = pc
      /\ th'[Loop].chunks = th[Loop].chunks /\ ~ClosingPc(th'[Loop])
      /\ th'[Loop].k = 0 /\ th'[Loop].owed = 0
  BY <1>2, <1>3, LoopStarts
<1>5. /\ UNCHANGED <<outstanding, fresh, engine, lock, sendClosed, drainWatch, spillPosted,
                     spill, sendPending, pendingBuf, folly, wire, posts>>
      /\ conn'.st = "open" /\ conn.st = "open"
  BY DEF locked, out, Open
<1>6. TypeOK'
  BY <1>1, <1>4, <1>5 DEF Moves, TypeOK, ConnType, LockType, BufferType
<1>7. th'[Loop].batch = <<>>
  BY <1>4 DEF LocalOK, CommonOK
<1>8. OutstandingExact'
  BY <1>1, <1>4, <1>5, <1>6, <1>7, LoopHolds
<1> QED BY <1>1, <1>4, <1>5, <1>6, <1>8, LoopPasses

\* A wake of the socket and the start of a migration keep the invariant.
LEMMA WakeKeeps ==
    ASSUME DInv, Wake \/ MigrateTo
    PROVE  DInv'
<1>1. LoopIdle /\ Open
  BY DEF Wake, MigrateTo, Reading
<1>2. conn \in [st : {"open"}, migrating : BOOLEAN, check : BOOLEAN]
  BY <1>1 DEF DInv, TypeOK, ConnType, Open
<1>3. CASE Wake
  BY <1>1, <1>2, <1>3, LoopTurns DEF Wake
<1>4. CASE MigrateTo
  <2>1. conn' \in [st : {"open"}, migrating : BOOLEAN, check : BOOLEAN]
    BY <1>2, <1>4 DEF MigrateTo
  <2> QED BY <1>1, <1>4, <2>1, LoopTurns DEF MigrateTo
<1> QED BY <1>3, <1>4

\* destroy starts the close.
LEMMA DestroyKeeps ==
    ASSUME DInv, Destroy
    PROVE  DInv'
<1>1. /\ LoopIdle /\ Open /\ Goto(Loop, "close")
      /\ conn' = [st |-> "closing", migrating |-> FALSE, check |-> FALSE]
      /\ UNCHANGED <<outstanding, fresh, engine, lock, sendClosed, drainWatch, spillPosted,
                     spill, sendPending, pendingBuf, folly, wire, posts>>
  BY DEF Destroy, locked, out
<1>2. TypeOK /\ Loop \in Thread /\ th[Loop].pc = "idle" /\ th[Loop].k = 0 /\ th[Loop].owed = 0
  BY <1>1, LoopRests
<1>3. th' = [th EXCEPT ![Loop].pc = "close", ![Loop].batch = <<>>]
  BY <1>1, LoopGoes
<1>4. /\ Moves(Loop) /\ LocalOK(Loop, th'[Loop]) /\ th'[Loop].pc = "close"
      /\ th'[Loop].chunks = th[Loop].chunks /\ th'[Loop].k = 0 /\ th'[Loop].owed = 0
  <2>1. <<>> \in Seq(Req)
    BY EmptySeq
  <2> QED BY <1>1, <1>3, <2>1, LoopStarts
<1>5. TypeOK'
  <2>1. conn' \in [st : {"open", "detached", "closing", "deleted"}, migrating : BOOLEAN,
                   check : BOOLEAN]
    BY <1>1
  <2> QED BY <1>1, <1>2, <1>4, <2>1 DEF Moves, TypeOK, ConnType, LockType, BufferType
<1>6. th'[Loop].batch = <<>>
  BY <1>4 DEF LocalOK, CommonOK
<1>7. OutstandingExact'
  BY <1>1, <1>2, <1>4, <1>5, <1>6, LoopHolds
<1>8. Deletes = {} /\ Deletes' = {} /\ conn'.st = "closing" /\ At(Loop, "close")'
  <2>1. Deletes = {}
    BY <1>1 DEF DInv, PostShape, Closing, Open
  <2>2. Deletes' = Deletes
    BY <1>1 DEF Deletes
  <2> QED BY <1>1, <1>4, <2>1, <2>2 DEF At
<1>9. Life'
  BY <1>8 DEF Life, At, Closing
<1>10. PostShape'
  BY <1>1, <1>8 DEF DInv, PostShape
<1>11. Quiet' /\ Bare'
  BY <1>8 DEF Quiet, Bare
<1>12. Flagged'
  <2>1. \A u \in Thread : th'[u].chunks = th[u].chunks
    BY <1>4 DEF Moves
  <2>2. ~At(Loop, "flush")
    BY <1>2 DEF At
  <2> QED BY <1>1, <2>1, <2>2 DEF DInv, Flagged
<1> QED BY <1>4, <1>5, <1>7, <1>9, <1>10, <1>11, <1>12, LoopEnds

\* A migration ends only when nothing is outstanding and nothing is to be sent.
LEMMA TryFinishMigrateKeeps ==
    ASSUME DInv, TryFinishMigrate
    PROVE  DInv'
<1>1. /\ LoopIdle /\ Open
      /\ UNCHANGED <<outstanding, fresh, engine, lock, sendClosed, drainWatch, spillPosted,
                     spill, sendPending, pendingBuf, folly, wire, posts>>
  BY DEF TryFinishMigrate, locked, out
<1>2. TypeOK /\ th[Loop].pc = "idle" /\ conn.st = "open"
  BY <1>1, LoopRests DEF Open
<1>3. conn \in [st : {"open", "detached", "closing", "deleted"}, migrating : BOOLEAN,
                check : BOOLEAN]
  BY <1>2 DEF TypeOK, ConnType
<1>4. CASE outstanding = 0 /\ pendingBuf = <<>> /\ folly = <<>>
  <2>1. conn' = [conn EXCEPT !.check = FALSE, !.st = "detached"] /\ th' = th
    BY <1>4 DEF TryFinishMigrate
  <2>2. conn'.st = "detached" /\
        conn' \in [st : {"open", "detached", "closing", "deleted"}, migrating : BOOLEAN,
                   check : BOOLEAN]
    BY <1>3, <2>1
  <2>3. TypeOK'
    BY <1>1, <1>2, <2>1, <2>2 DEF TypeOK, ConnType, LockType, BufferType
  <2>4. OutstandingExact'
    BY <1>1, <2>1 DEF DInv, OutstandingExact, CountsHeld, Held, At
  <2>5. Deletes = {} /\ ~ClosingPc(th[Loop]) /\ ~sendClosed
    BY <1>2 DEF DInv, PostShape, Life, Closing
  <2>6. Life'
    BY <1>1, <1>2, <2>1, <2>2, <2>5 DEF DInv, Life, At
  <2>7. PostShape'
    BY <1>1, <2>5 DEF DInv, PostShape, Deletes
  <2>8. Quiet' /\ Bare'
    BY <1>1, <1>4, <2>1 DEF Quiet, Bare, LoopIdle, At
  <2>9. Flagged'
    BY <1>1, <2>1 DEF DInv, Flagged, At
  <2> QED BY <2>1, <2>3, <2>4, <2>6, <2>7, <2>8, <2>9 DEF DInv, Shape
<1>5. CASE ~(outstanding = 0 /\ pendingBuf = <<>> /\ folly = <<>>)
  <2>1. conn' = [conn EXCEPT !.check = FALSE, !.st = conn.st]
    BY <1>5 DEF TryFinishMigrate
  <2>2. conn' \in [st : {"open"}, migrating : BOOLEAN, check : BOOLEAN]
    BY <1>2, <1>3, <2>1
  <2>3. Goto(Loop, "flush") \/ Goto(Loop, "idle")
    <3>1. Goto(Loop, "flush") \/ th' = th
      BY DEF TryFinishMigrate
    <3>2. th = [th EXCEPT ![Loop].pc = "idle"]
      <4>1. th \in [Thread -> Locals] /\ th[Loop] \in Locals /\ Loop \in Thread
        BY <1>1, LoopRests
      <4>2. [th[Loop] EXCEPT !.pc = "idle"] = th[Loop]
        BY <1>2, <4>1 DEF Locals
      <4> QED BY <4>1, <4>2
    <3> QED BY <3>1, <3>2 DEF Goto
  <2>4. UNCHANGED <<outstanding, fresh, engine, lock, locked, sendPending, pendingBuf, out, posts>>
    BY DEF TryFinishMigrate
  <2> QED BY <1>1, <2>2, <2>3, <2>4, LoopTurns
<1> QED BY <1>4, <1>5

\* The connection arrives on its new loop.
LEMMA FinishAttachKeeps ==
    ASSUME DInv, FinishAttach
    PROVE  DInv'
<1>1. /\ LoopIdle /\ conn.st = "detached" /\ Goto(Loop, "attach")
      /\ conn' = [conn EXCEPT !.st = "open", !.migrating = FALSE]
      /\ UNCHANGED <<outstanding, fresh, engine, lock, sendClosed, drainWatch, spillPosted,
                     spill, sendPending, pendingBuf, folly, wire, posts>>
  BY DEF FinishAttach, locked, out
<1>2. TypeOK /\ Loop \in Thread /\ th[Loop].pc = "idle" /\ th[Loop].k = 0 /\ th[Loop].owed = 0
  BY <1>1, LoopRests
<1>3. th' = [th EXCEPT ![Loop].pc = "attach", ![Loop].batch = <<>>]
  BY <1>1, LoopGoes
<1>4. /\ Moves(Loop) /\ LocalOK(Loop, th'[Loop]) /\ th'[Loop].pc = "attach"
      /\ th'[Loop].chunks = th[Loop].chunks /\ th'[Loop].k = 0 /\ th'[Loop].owed = 0
      /\ ~ClosingPc(th'[Loop])
  <2>1. <<>> \in Seq(Req)
    BY EmptySeq
  <2> QED BY <1>1, <1>3, <2>1, LoopStarts
<1>5. TypeOK' /\ conn'.st = "open"
  <2>1. conn' \in [st : {"open", "detached", "closing", "deleted"}, migrating : BOOLEAN,
                   check : BOOLEAN] /\ conn'.st = "open"
    BY <1>1, <1>2 DEF TypeOK, ConnType
  <2> QED BY <1>1, <1>2, <1>4, <2>1 DEF Moves, TypeOK, ConnType, LockType, BufferType
<1>6. th'[Loop].batch = <<>>
  BY <1>4 DEF LocalOK, CommonOK
<1>7. OutstandingExact'
  BY <1>1, <1>2, <1>4, <1>5, <1>6, LoopHolds
<1>8. Deletes' = {} /\ ~sendClosed
  <2>1. Deletes = {} /\ ~sendClosed
    BY <1>1 DEF DInv, PostShape, Closing, Life
  <2> QED BY <1>1, <2>1 DEF Deletes
<1>9. Life'
  BY <1>1, <1>4, <1>5, <1>8 DEF Life, At, Closing
<1>10. PostShape'
  BY <1>1, <1>8 DEF DInv, PostShape
<1>11. Quiet' /\ Bare'
  BY <1>5 DEF Quiet, Bare
<1>12. Flagged'
  <2>1. \A u \in Thread : th'[u].chunks = th[u].chunks
    BY <1>4 DEF Moves
  <2>2. ~At(Loop, "flush")
    BY <1>2 DEF At
  <2> QED BY <1>1, <2>1, <2>2 DEF DInv, Flagged
<1> QED BY <1>4, <1>5, <1>7, <1>9, <1>10, <1>11, <1>12, LoopEnds

\* The kernel takes halves of what folly holds.
LEMMA FollyWriteKeeps ==
    ASSUME DInv, FollyWrite
    PROVE  DInv'
<1>1. PICK n \in 1..Len(folly) : /\ wire' = wire \o SubSeq(folly, 1, n)
                                 /\ folly' = SubSeq(folly, n + 1, Len(folly))
  BY DEF FollyWrite
<1>2. /\ LoopIdle /\ conn' = [conn EXCEPT !.check = @ \/ (conn.migrating /\ folly' = <<>>)]
      /\ UNCHANGED <<outstanding, fresh, engine, lock, sendClosed, drainWatch, spillPosted,
                     spill, sendPending, pendingBuf, posts, th>>
  BY DEF FollyWrite, locked
<1>3. TypeOK /\ folly \in Seq(Half) /\ wire \in Seq(Half) /\ Len(folly) \in Nat
  BY LenProperties DEF DInv, TypeOK, BufferType
<1>4. folly # <<>>
  BY <1>1, <1>3, EmptySeq
<1>5. wire' \in Seq(Half) /\ folly' \in Seq(Half)
  <2>1. n \in 0..Len(folly)
    BY <1>3
  <2>2. SubSeq(folly, 1, n) \in Seq(Half) /\ SubSeq(folly, n + 1, Len(folly)) \in Seq(Half)
    BY <1>3, <2>1, Cut
  <2> QED BY <1>1, <1>3, <2>2, ConcatProperties
<1>6. conn'.st = conn.st /\
      conn' \in [st : {"open", "detached", "closing", "deleted"}, migrating : BOOLEAN,
                 check : BOOLEAN]
  BY <1>2, <1>3 DEF TypeOK, ConnType
<1>7. TypeOK'
  BY <1>2, <1>3, <1>5, <1>6 DEF TypeOK, ConnType, LockType, BufferType
<1>8. OutstandingExact'
  BY <1>2 DEF DInv, OutstandingExact, CountsHeld, Held, At
<1>9. Life' /\ PostShape' /\ Quiet' /\ Flagged' /\ Shape'
  BY <1>2, <1>6 DEF DInv, Life, PostShape, Quiet, Flagged, Shape, Deletes, Closing, Open, At,
                    LoopIdle
<1>10. Bare'
  BY <1>4, <1>6 DEF DInv, Bare
<1> QED BY <1>7, <1>8, <1>9, <1>10 DEF DInv

\* The first callback, taken.
LEMMA PostTail ==
    ASSUME TypeOK, PostOK(posts), posts # <<>>, posts' = Tail(posts)
    PROVE  /\ Head(posts) \in Posted /\ posts' \in Seq(Posted) /\ PostOK(posts')
           /\ Head(posts).k = 0 <=> Head(posts).op = "delete"
           /\ Flushing(posts) => Flushing(posts') \/ Head(posts).op = "flush"
           /\ Cardinality(Units(posts)) = Cardinality(Units(posts')) + Head(posts).k
           /\ Deletes' # {} => Deletes # {}
           /\ (\A i, j \in Deletes : i = j) => \A i, j \in Deletes' : i = j
           /\ (\A i, j \in Deletes : i = j) /\ Head(posts).op = "delete" => Deletes' = {}
           /\ Head(posts).op = "delete" => Deletes # {}
           /\ \E i \in DOMAIN posts : posts[i] = Head(posts)
<1>1. posts \in Seq(Posted) /\ \A x \in Posted : x.k \in Nat
  BY DEF TypeOK, Posted
<1>2. /\ posts' \in Seq(Posted) /\ 1 \in DOMAIN posts /\ Head(posts) = posts[1]
      /\ posts[1] \in Posted
      /\ \A i \in DOMAIN posts' : i + 1 \in DOMAIN posts /\ posts'[i] = posts[i + 1]
      /\ \A j \in DOMAIN posts \ {1} : j - 1 \in DOMAIN posts' /\ posts'[j - 1] = posts[j]
      /\ \A i, j \in DOMAIN posts' : i + 1 = j + 1 => i = j
  BY <1>1, TailAll
<1>3. Cardinality(Units(posts)) = Cardinality(Units(posts')) + Head(posts).k
  BY <1>1, UnitsTail
<1>4. \A i \in DOMAIN posts' : i + 1 # 1
  <2>1. Len(posts') \in Nat /\ DOMAIN posts' = 1..Len(posts')
    BY <1>2, LenProperties
  <2> QED BY <2>1
<1>5. Deletes' = {i \in DOMAIN posts' : posts'[i].op = "delete"}
  BY DEF Deletes
<1>6. \A i \in Deletes' : i \in DOMAIN posts' /\ i + 1 \in Deletes
  BY <1>2, <1>5 DEF Deletes
<1>7. (\A i, j \in Deletes : i = j) => \A i, j \in Deletes' : i = j
  BY <1>2, <1>6
<1>8. Head(posts).op = "delete" => 1 \in Deletes
  BY <1>2 DEF Deletes
<1>9. (\A i, j \in Deletes : i = j) /\ Head(posts).op = "delete" => Deletes' = {}
  BY <1>4, <1>6, <1>8
<1>10. PostOK(posts') /\ (Head(posts).k = 0 <=> Head(posts).op = "delete")
  BY <1>2 DEF PostOK
<1>11. Flushing(posts) => Flushing(posts') \/ Head(posts).op = "flush"
  <2> SUFFICES ASSUME NEW i \in DOMAIN posts, posts[i].op = "flush", i # 1
               PROVE  Flushing(posts')
    BY <1>2 DEF Flushing
  <2>1. i - 1 \in DOMAIN posts' /\ posts'[i - 1].op = "flush"
    BY <1>2
  <2> QED BY <2>1 DEF Flushing
<1> QED BY <1>2, <1>3, <1>6, <1>7, <1>8, <1>9, <1>10, <1>11

\* The loop runs the first callback posted to it.
LEMMA RunPostKeeps ==
    ASSUME DInv, RunPost
    PROVE  DInv'
<1> DEFINE p == Head(posts)
<1>1. /\ LoopIdle /\ posts # <<>> /\ posts' = Tail(posts)
      /\ UNCHANGED <<outstanding, fresh, engine, lock, sendClosed, drainWatch, spillPosted,
                     spill, sendPending, pendingBuf, folly, wire>>
  BY DEF RunPost, locked, out
<1>2. /\ TypeOK /\ OutstandingExact /\ Loop \in Thread /\ th \in [Thread -> Locals]
      /\ th[Loop] \in Locals /\ th[Loop].pc = "idle" /\ th[Loop].extra = 0 /\ th[Loop].k = 0
      /\ th[Loop].owed = 0 /\ th[Loop].depth = 0 /\ th[Loop].batch = <<>>
      /\ th[Loop].chunks = <<>> /\ ~ClosingPc(th[Loop])
  BY <1>1, LoopRests DEF DInv
<1>3. /\ p \in Posted /\ posts' \in Seq(Posted) /\ PostOK(posts')
      /\ p.k = 0 <=> p.op = "delete"
      /\ Flushing(posts) => Flushing(posts') \/ p.op = "flush"
      /\ Cardinality(Units(posts)) = Cardinality(Units(posts')) + p.k
      /\ Deletes' # {} => Deletes # {}
      /\ \A i, j \in Deletes' : i = j
      /\ p.op = "delete" => Deletes' = {} /\ Deletes # {}
      /\ \E i \in DOMAIN posts : posts[i] = p
  BY <1>1, <1>2, PostTail DEF DInv, PostShape
<1>4. conn.st \notin {"detached", "deleted"}
  <2> SUFFICES ASSUME conn.st \in {"detached", "deleted"} PROVE FALSE
    OBVIOUS
  <2>1. outstanding = 0
    BY DEF DInv, Quiet
  <2>2. p.k = 0
    BY <1>2, <1>3, <2>1, ZeroEmpty DEF Empty
  <2> QED BY <1>3, <2>2 DEF DInv, PostShape, Closing
<1>5. PICK n \in Nat : n = p.k
  BY <1>3 DEF Posted
<1>6. PICK pc \in {"flush", "after", "idle"} :
        /\ th' = [th EXCEPT ![Loop].owed = n, ![Loop].pc = pc]
        /\ p.op = "flush" => pc = "flush"
        /\ p.op = "delete" <=> pc = "idle"
  BY <1>3, <1>5 DEF RunPost, Posted
<1> DEFINE m == [th[Loop] EXCEPT !.owed = n, !.pc = pc]
<1>7. m \in Locals
  BY <1>2 DEF Locals, Pc
<1>8. Moves(Loop) /\ th'[Loop] = m
  <2>1. th' = [th EXCEPT ![Loop] = m]
    BY <1>2, <1>6
  <2> QED BY <1>2, <1>7, <2>1, SetsTo
<1>9. /\ m.pc = pc /\ m.batch = <<>> /\ m.depth = 0 /\ m.chunks = <<>> /\ m.extra = 0
      /\ m.k = 0 /\ m.owed = n
  BY <1>2 DEF Locals
<1> HIDE DEF m
<1>10. LocalOK(Loop, m)
  <2>1. CommonOK(m)
    BY <1>9 DEF CommonOK, RelPc, NoZero
  <2>2. LoopOK(m)
    BY <1>3, <1>5, <1>6, <1>9 DEF LoopOK, InSend, SendPc, RelPc, UnlockPc
  <2> QED BY <2>1, <2>2, Domain DEF LocalOK
<1>11. /\ conn'.st = IF p.op = "delete" THEN "deleted" ELSE conn.st
       /\ conn' \in [st : {"open", "detached", "closing", "deleted"}, migrating : BOOLEAN,
                     check : BOOLEAN]
  BY <1>2 DEF RunPost, TypeOK, ConnType
<1>12. TypeOK'
  BY <1>1, <1>2, <1>3, <1>8, <1>11 DEF Moves, TypeOK, ConnType, LockType, BufferType
<1>13. OutstandingExact'
  <2>1. BLen(Loop) = 0 /\ BLen(Loop)' = 0 /\ CU(Loop)' = CU(Loop)
    BY <1>2, <1>6, <1>8, <1>9, EmptySeq DEF BLen, At, CU
  <2>2. Cardinality(Units(posts')) = Cardinality(Units(posts)) + (0 - n)
    <3>1. Parted'
      BY <1>12, Parts, PTL
    <3>2. PICK a \in Nat : a = Cardinality(Units(posts'))
      BY <3>1 DEF Parted
    <3>3. a = (a + n) + (0 - n)
      OBVIOUS
    <3> QED BY <1>3, <1>5, <3>2, <3>3
  <2>3. n = 0 + n
    OBVIOUS
  <2>4. Delta(Loop, 0, 0, 0, 0, 0, n, 0, 0, 0 - n)
    BY <1>1, <1>2, <1>8, <1>9, <2>1, <2>2, <2>3, PlusZero DEF Delta
  <2>5. 0 = 0 + 0 + 0 + 0 + n + 0 + 0 + (0 - n) /\ 0 \in Int /\ n \in Int /\ 0 - n \in Int
    OBVIOUS
  <2> QED BY <1>2, <1>8, <1>12, <2>4, <2>5, DeltaExact DEF Moves
<1>14. Closing => sendClosed
  BY <1>2 DEF DInv, Life, Closing, At
<1>15. p.op = "delete" => Closing /\ outstanding = 0
  BY <1>3 DEF DInv, PostShape
<1>16. Life'
  <2>1. ~ClosingPc(m) /\ m.pc # "chain"
    BY <1>9 DEF ClosingPc, InSend, SendPc, RelPc
  <2> QED BY <1>1, <1>2, <1>8, <1>11, <1>14, <1>15, <2>1 DEF DInv, Life, At, Closing
<1>17. PostShape'
  BY <1>1, <1>3, <1>11 DEF DInv, PostShape, Closing
<1>18. Quiet' /\ Bare'
  BY <1>1, <1>4, <1>6, <1>8, <1>9, <1>11, <1>15 DEF Quiet, Bare, LoopIdle, At
<1>19. Flagged'
  <2>1. \A u \in Thread : th'[u].chunks = th[u].chunks
    BY <1>2, <1>8, <1>9 DEF Moves
  <2>2. ~At(Loop, "flush")
    BY <1>2 DEF At
  <2>3. p.op = "flush" => At(Loop, "flush")'
    BY <1>6, <1>8, <1>9 DEF At
  <2> QED BY <1>1, <1>3, <2>1, <2>2, <2>3 DEF DInv, Flagged
<1> QED BY <1>8, <1>10, <1>12, <1>13, <1>16, <1>17, <1>18, <1>19, LoopEnds

\* The loop gives back the counts it owes; the last one of a closed connection
\* deletes it.
LEMMA AfterKeeps ==
    ASSUME DInv, After
    PROVE  DInv'
<1>1. /\ TypeOK /\ OutstandingExact /\ Loop \in Thread /\ th \in [Thread -> Locals]
      /\ th[Loop] \in Locals /\ th[Loop].pc = "after" /\ LocalOK(Loop, th[Loop])
      /\ outstanding \in Nat
  BY DEF DInv, After, At, Thread, TypeOK, ConnType, Shape
<1>2. /\ th[Loop].extra = 0 /\ th[Loop].k = 0 /\ th[Loop].batch = <<>>
      /\ th[Loop].chunks = <<>>
  BY <1>1 DEF LocalOK, CommonOK, LoopOK, RelPc, SendPc
<1>3. PICK w \in Nat : w = th[Loop].owed /\ w <= outstanding
  BY <1>1, Covers DEF Locals
<1>4. /\ UNCHANGED <<fresh, engine, lock, sendClosed, drainWatch, spillPosted,
                     spill, sendPending, pendingBuf, folly, wire, posts>>
      /\ outstanding' = outstanding - w /\ th' = [th EXCEPT ![Loop] = Rest]
  BY <1>3 DEF After, locked, out
<1>5. /\ Rest \in Locals /\ Rest.pc = "idle" /\ Rest.batch = <<>> /\ Rest.depth = 0
      /\ Rest.chunks = <<>> /\ Rest.extra = 0 /\ Rest.k = 0 /\ Rest.owed = 0
  <2>1. <<>> \in Seq(Chunk) /\ <<>> \in Seq(Req)
    BY EmptySeq
  <2> QED BY <2>1 DEF Rest, Locals, Pc
<1>6. Moves(Loop) /\ th'[Loop] = Rest
  BY <1>1, <1>4, <1>5, SetsTo
<1>7. LocalOK(Loop, Rest)
  <2>1. CommonOK(Rest)
    BY <1>5 DEF CommonOK, RelPc, NoZero
  <2>2. LoopOK(Rest)
    BY <1>5 DEF LoopOK, InSend, SendPc, RelPc, UnlockPc
  <2> QED BY <2>1, <2>2, Domain DEF LocalOK
<1>8. outstanding' \in Nat /\ outstanding' = outstanding + (0 - w) /\ (outstanding = 0 => outstanding' = 0)
  BY <1>1, <1>3, <1>4
<1>9. /\ \/ conn'.st = conn.st
         \/ conn'.st = "deleted" /\ outstanding' = 0 /\ Closing /\ outstanding # 0
      /\ conn' \in [st : {"open", "detached", "closing", "deleted"}, migrating : BOOLEAN,
                    check : BOOLEAN]
  <2>1. conn \in [st : {"open", "detached", "closing", "deleted"}, migrating : BOOLEAN,
                  check : BOOLEAN]
    BY <1>1 DEF TypeOK, ConnType
  <2>2. /\ \/ conn'.st = conn.st
           \/ conn'.st = "deleted" /\ outstanding - w = 0 /\ Closing /\ w > 0
        /\ conn' \in [st : {"open", "detached", "closing", "deleted"}, migrating : BOOLEAN,
                      check : BOOLEAN]
    BY <1>3, <2>1 DEF After
  <2>3. w > 0 => outstanding # 0
    BY <1>1, <1>3
  <2> QED BY <1>4, <2>2, <2>3
<1>10. TypeOK'
  BY <1>1, <1>4, <1>6, <1>8, <1>9 DEF Moves, TypeOK, ConnType, LockType, BufferType
<1>11. OutstandingExact'
  <2>1. BLen(Loop) = 0 /\ BLen(Loop)' = 0 /\ CU(Loop)' = CU(Loop)
    BY <1>1, <1>2, <1>5, <1>6, EmptySeq DEF BLen, At, CU
  <2>2. 0 = w + (0 - w)
    OBVIOUS
  <2>3. Delta(Loop, 0 - w, 0, 0, 0, 0, 0 - w, 0, 0, 0)
    BY <1>1, <1>2, <1>3, <1>4, <1>5, <1>6, <1>8, <2>1, <2>2, PlusZero DEF Delta
  <2>4. 0 - w = 0 + 0 + 0 + 0 + (0 - w) + 0 + 0 + 0 /\ 0 \in Int /\ 0 - w \in Int
    OBVIOUS
  <2> QED BY <1>1, <1>6, <1>10, <2>3, <2>4, DeltaExact DEF Moves
<1>12. conn.st \notin {"detached", "deleted"} /\ (Closing => sendClosed)
  BY <1>1 DEF DInv, Life, Quiet, LoopIdle, Closing, At
<1>13. Life'
  <2>1. ~ClosingPc(Rest)
    BY <1>5 DEF ClosingPc, InSend, SendPc, RelPc
  <2> QED BY <1>4, <1>5, <1>6, <1>9, <1>12, <2>1 DEF DInv, Life, At, Closing
<1>14. PostShape'
  BY <1>4, <1>8, <1>9 DEF DInv, PostShape, Closing, Deletes
<1>15. Quiet' /\ Bare'
  BY <1>5, <1>6, <1>9, <1>12 DEF Quiet, Bare, LoopIdle, At
<1>16. Flagged'
  <2>1. \A u \in Thread : th'[u].chunks = th[u].chunks
    BY <1>2, <1>5, <1>6 DEF Moves
  <2>2. ~At(Loop, "flush")
    BY <1>1 DEF At
  <2> QED BY <1>4, <2>1, <2>2 DEF DInv, Flagged
<1> QED BY <1>6, <1>7, <1>10, <1>11, <1>13, <1>14, <1>15, <1>16, LoopEnds

\* The loop gives the lock back, or takes it for drainWatch.
LEMMA LoopLocks ==
    ASSUME DInv, NEW m \in Locals, th' = [th EXCEPT ![Loop] = m], LocalOK(Loop, m),
           th[Loop].pc \in UnlockPc \cup {"watch", "attach"},
           m.pc \in UnlockPc \cup {"idle", "flush", "drain"},
           m.k = th[Loop].k, m.owed = th[Loop].owed, m.chunks = th[Loop].chunks,
           m.batch = th[Loop].batch, ClosingPc(m) => ClosingPc(th[Loop]),
           conn'.st = conn.st, conn' \in [st : {"open", "detached", "closing", "deleted"},
                                          migrating : BOOLEAN, check : BOOLEAN],
           lock' \in Thread \cup {NoThread}, drainWatch' \in BOOLEAN,
           UNCHANGED <<outstanding, fresh, engine, sendClosed, spillPosted, spill,
                       sendPending, pendingBuf, folly, wire, posts>>
    PROVE  DInv'
<1>1. TypeOK /\ Loop \in Thread
  BY DEF DInv, Thread
<1>2. Moves(Loop) /\ th'[Loop] = m
  BY <1>1, SetsTo
<1>3. TypeOK'
  BY <1>1, <1>2 DEF Moves, TypeOK, ConnType, LockType, BufferType
<1>4. OutstandingExact'
  BY <1>2, <1>3, LoopHolds DEF UnlockPc
<1>5. conn.st \notin {"detached", "deleted"}
  BY DEF DInv, Quiet, LoopIdle, At, UnlockPc
<1>6. th[Loop].pc \notin {"flush", "close"} /\ m.pc # "chain"
  BY DEF UnlockPc
<1> QED BY <1>2, <1>3, <1>4, <1>5, <1>6, LoopPasses

\* The loop gives back sendMu_.
LEMMA LoopUnlockKeeps ==
    ASSUME DInv, LoopUnlock
    PROVE  DInv'
<1>1. /\ TypeOK /\ Loop \in Thread /\ th \in [Thread -> Locals] /\ th[Loop] \in Locals
      /\ LocalOK(Loop, th[Loop]) /\ lock \in Thread \cup {NoThread} /\ drainWatch \in BOOLEAN
  BY DEF DInv, Thread, TypeOK, LockType, Shape
<1> DEFINE l == th[Loop]
<1>2. ASSUME NEW pc \in UnlockPc, NEW next \in {"drain", "idle", "flush"},
             NEW ret \in {"after", "flush", "closed", "idle"}, UnlockAt(pc, next, ret),
             next = "drain" => ret # "idle", ret = "closed" <=> pc = "unlockC",
             pc = "unlockF" <=> ret = "after", ret = "after" => next = "drain"
      PROVE  DInv'
  <2>1. l.pc = pc /\ l.depth = 1
    BY <1>1, <1>2 DEF UnlockAt, At, LocalOK, LoopOK
  <2> DEFINE m == [l EXCEPT !.ret = ret, !.pc = next, !.depth = 0]
  <2>2. m \in Locals
    <3>1. next \in Pc /\ 0 \in 0..2
      BY DEF Pc
    <3>2. \A p \in Pc, d \in 0..2 : [l EXCEPT !.ret = ret, !.pc = p, !.depth = d] \in Locals
      BY <1>1 DEF Locals
    <3> QED BY <3>1, <3>2
  <2>3. th' = [th EXCEPT ![Loop] = m] /\ lock' \in Thread \cup {NoThread}
    <3>1. Unlock([th EXCEPT ![Loop].ret = ret], Loop, next)
      BY <1>2 DEF UnlockAt
    <3> DEFINE f == [th EXCEPT ![Loop].ret = ret]
    <3>2. f \in [Thread -> Locals] /\ f = [th EXCEPT ![Loop] = [l EXCEPT !.ret = ret]]
      BY <1>1 DEF Locals
    <3>3. f[Loop] = [l EXCEPT !.ret = ret] /\ f[Loop].depth = 1
      BY <1>1, <2>1, <3>2 DEF Locals
    <3>4. th' = [f EXCEPT ![Loop] = [f[Loop] EXCEPT !.pc = next, !.depth = f[Loop].depth - 1]]
      BY <3>1, <3>2 DEF Unlock
    <3>5. [f[Loop] EXCEPT !.pc = next, !.depth = f[Loop].depth - 1] = m
      <4>1. f[Loop].depth - 1 = 0
        BY <3>3
      <4> QED BY <1>1, <3>3, <4>1 DEF Locals
    <3>6. th' = [th EXCEPT ![Loop] = m]
      BY <1>1, <3>2, <3>4, <3>5
    <3> QED BY <1>1, <3>1, <3>6 DEF Unlock
  <2>4. /\ m.pc = next /\ m.ret = ret /\ m.depth = 0 /\ m.batch = l.batch /\ m.extra = l.extra
        /\ m.chunks = l.chunks /\ m.k = l.k /\ m.owed = l.owed
    BY <1>1 DEF Locals
  <2> HIDE DEF m
  <2>5. LocalOK(Loop, m)
    <3>1. CommonOK(m)
      BY <1>1, <2>1, <2>4 DEF LocalOK, CommonOK, SendPc, RelPc, UnlockPc
    <3>2. LoopOK(m)
      <4>1. l.extra = 0 /\ (l.owed # 0 => pc = "unlockF")
        BY <1>1, <2>1 DEF LocalOK, LoopOK, InSend, SendPc, RelPc, UnlockPc
      <4>2. m.owed # 0 => m.pc = "flush" \/ (InSend(m) /\ m.ret = "after")
        BY <1>2, <2>4, <4>1 DEF InSend
      <4>3. m.pc \notin UnlockPc \cup HeldPc \cup {"push", "retry", "closed"}
        BY <2>4 DEF UnlockPc, HeldPc
      <4>4. InSend(m) => m.ret # "idle"
        BY <1>2, <2>4 DEF InSend, SendPc, RelPc
      <4> QED BY <2>4, <4>1, <4>2, <4>3, <4>4 DEF LoopOK
    <3> QED BY <3>1, <3>2, Domain DEF LocalOK
  <2>6. ClosingPc(m) => ClosingPc(l)
    BY <1>2, <2>1, <2>4 DEF ClosingPc, InSend, SendPc, RelPc
  <2>7. conn'.st = conn.st /\
        conn' \in [st : {"open", "detached", "closing", "deleted"}, migrating : BOOLEAN,
                   check : BOOLEAN]
    BY <1>1, <1>2 DEF UnlockAt, TypeOK, ConnType
  <2>8. UNCHANGED <<outstanding, fresh, engine, sendClosed, drainWatch, spillPosted, spill,
                    sendPending, pendingBuf, folly, wire, posts>>
    BY <1>2 DEF UnlockAt, locked, out
  <2>9. l.pc \in UnlockPc /\ m.pc \in UnlockPc \cup {"idle", "flush", "drain"}
    BY <2>1, <2>4
  <2> QED BY <1>1, <2>2, <2>3, <2>4, <2>5, <2>6, <2>7, <2>8, <2>9, LoopLocks
<1> QED BY <1>2 DEF LoopUnlock, UnlockPc

\* The loop sets or clears drainWatch under the lock.
LEMMA WatchKeeps ==
    ASSUME DInv, Watch
    PROVE  DInv'
<1>1. /\ TypeOK /\ Loop \in Thread /\ th \in [Thread -> Locals] /\ th[Loop] \in Locals
      /\ LocalOK(Loop, th[Loop])
      /\ conn \in [st : {"open", "detached", "closing", "deleted"}, migrating : BOOLEAN,
                   check : BOOLEAN]
  BY DEF DInv, Thread, TypeOK, ConnType, Shape
<1> DEFINE l == th[Loop]
<1>2. ASSUME NEW pc \in {"watch", "attach"}, NEW next \in {"unlockM", "unlockA"},
             NEW watch \in BOOLEAN, WatchAt(pc, next, watch)
      PROVE  DInv'
  <2>1. l.pc = pc /\ l.depth = 0 /\ l.owed = 0
    BY <1>1, <1>2 DEF WatchAt, At, LocalOK, LoopOK, InSend, SendPc, RelPc, UnlockPc
  <2> DEFINE m == [l EXCEPT !.pc = next, !.depth = 1]
  <2>2. m \in Locals
    <3>1. next \in Pc /\ 1 \in 0..2
      BY DEF Pc
    <3>2. \A p \in Pc, d \in 0..2 : [l EXCEPT !.pc = p, !.depth = d] \in Locals
      BY <1>1 DEF Locals
    <3> QED BY <3>1, <3>2
  <2>3. th' = [th EXCEPT ![Loop] = m] /\ lock' \in Thread \cup {NoThread} /\ drainWatch' \in BOOLEAN
    BY <1>1, <1>2 DEF WatchAt, Take
  <2>4. /\ m.pc = next /\ m.ret = l.ret /\ m.depth = 1 /\ m.batch = l.batch /\ m.extra = l.extra
        /\ m.chunks = l.chunks /\ m.k = l.k /\ m.owed = l.owed
    BY <1>1 DEF Locals
  <2> HIDE DEF m
  <2>5. LocalOK(Loop, m)
    <3>1. CommonOK(m)
      BY <1>1, <2>1, <2>4 DEF LocalOK, CommonOK, SendPc, RelPc
    <3>2. LoopOK(m)
      BY <1>1, <2>1, <2>4 DEF LocalOK, LoopOK, InSend, SendPc, RelPc, UnlockPc
    <3> QED BY <3>1, <3>2, Domain DEF LocalOK
  <2>6. ClosingPc(m) => ClosingPc(l)
    BY <2>1, <2>4 DEF ClosingPc, InSend, SendPc, RelPc
  <2>7. UNCHANGED <<conn, outstanding, fresh, engine, sendClosed, spillPosted, spill,
                    sendPending, pendingBuf, folly, wire, posts>>
    BY <1>2 DEF WatchAt, out
  <2>8. /\ l.pc \in UnlockPc \cup {"watch", "attach"}
        /\ m.pc \in UnlockPc \cup {"idle", "flush", "drain"}
    BY <2>1, <2>4 DEF UnlockPc
  <2> QED BY <1>1, <2>2, <2>3, <2>4, <2>5, <2>6, <2>7, <2>8, LoopLocks
<1> QED BY <1>2 DEF Watch

\* The loop writes to folly with the lock: the spill goes, and its flag stays up
\* only if a flusher remains.
LEMMA GivesFolly ==
    ASSUME DInv, Open, th[Loop].pc \in {"flush", "chain"}, NEW b1 \in Seq(Half), NEW b2 \in Seq(Half),
           NEW pc \in {"unlockF", "unlockH"}, pc = "unlockH" => th[Loop].pc = "chain",
           HandToFolly(b1, b2, pc) \/ FailInWrite(b1, b2), lock' = Loop,
           spill' = <<>>, pendingBuf' \in Seq(Half),
           \/ spillPosted' = FALSE
           \/ spillPosted' = spillPosted /\ th[Loop].pc = "chain",
           UNCHANGED <<outstanding, fresh, engine, drainWatch, sendPending, posts>>
    PROVE  DInv'
<1>1. /\ TypeOK /\ Loop \in Thread /\ th \in [Thread -> Locals] /\ th[Loop] \in Locals
      /\ LocalOK(Loop, th[Loop])
      /\ conn \in [st : {"open", "detached", "closing", "deleted"}, migrating : BOOLEAN,
                   check : BOOLEAN]
      /\ folly \in Seq(Half) /\ wire \in Seq(Half) /\ spillPosted \in BOOLEAN
      /\ sendClosed \in BOOLEAN
  BY DEF DInv, Thread, TypeOK, ConnType, LockType, BufferType, Shape
<1> DEFINE l == th[Loop]
           q == b1 \o b2
<1>2. <<>> \in Seq(Half) /\ <<>> \in Seq(Req) /\ q \in Seq(Half)
  BY EmptySeq, ConcatProperties
<1>3. l.extra = 0 /\ l.k = 0 /\ (l.owed # 0 => l.pc = "flush")
  BY <1>1 DEF LocalOK, LoopOK, CommonOK, InSend, SendPc, RelPc
<1>4. Deletes = {} /\ ~sendClosed
  BY DEF DInv, PostShape, Life, Open, Closing
<1>5. PICK next \in {pc, "drain"} : \E ret \in {"idle", "after", "closed", "flush"} :
        /\ th' = [th EXCEPT ![Loop] = [l EXCEPT !.pc = next, !.ret = ret, !.depth = 1,
                                                !.batch = <<>>]]
        /\ next = "drain" => ret = "closed" /\ conn'.st = "closing" /\ sendClosed'
        /\ next = pc => conn'.st = "open" /\ ~sendClosed'
        /\ wire' \in Seq(Half) /\ folly' \in Seq(Half) /\ sendClosed' \in BOOLEAN
        /\ conn' \in [st : {"open", "detached", "closing", "deleted"}, migrating : BOOLEAN,
                      check : BOOLEAN]
  <2>1. CASE HandToFolly(b1, b2, pc)
    <3>1. PICK n \in 0..Len(q) :
            /\ wire' = wire \o SubSeq(q, 1, n)
            /\ folly' = folly \o SubSeq(q, n + 1, Len(q))
            /\ conn' = [conn EXCEPT !.check = @ \/ (conn.migrating /\ n > 0 /\
                          (n = Len(q) \/ (b1 # <<>> /\ n >= Len(b1))))]
      BY <2>1 DEF HandToFolly
    <3>2. SubSeq(q, 1, n) \in Seq(Half) /\ SubSeq(q, n + 1, Len(q)) \in Seq(Half)
      BY <1>2, Cut
    <3> HIDE DEF q
    <3>3. wire' \in Seq(Half) /\ folly' \in Seq(Half)
      BY <1>1, <3>1, <3>2, ConcatProperties
    <3>4. conn'.st = "open" /\
          conn' \in [st : {"open", "detached", "closing", "deleted"}, migrating : BOOLEAN,
                     check : BOOLEAN]
      BY <1>1, <3>1 DEF Open
    <3>5. th' = [th EXCEPT ![Loop] = [l EXCEPT !.pc = pc, !.ret = l.ret, !.depth = 1,
                                              !.batch = <<>>]]
      <4>1. th' = [th EXCEPT ![Loop] = [l EXCEPT !.pc = pc, !.depth = 1, !.batch = <<>>]]
        BY <1>1, <2>1 DEF HandToFolly
      <4>2. [l EXCEPT !.pc = pc, !.depth = 1, !.batch = <<>>]
            = [l EXCEPT !.pc = pc, !.ret = l.ret, !.depth = 1, !.batch = <<>>]
        BY <1>1 DEF Locals
      <4> QED BY <4>1, <4>2
    <3>6. l.ret \in {"idle", "after", "closed", "flush"} /\ sendClosed' = sendClosed
      BY <1>1, <2>1 DEF Locals, HandToFolly
    <3> QED BY <1>1, <1>4, <3>3, <3>4, <3>5, <3>6
  <2>2. CASE FailInWrite(b1, b2)
    <3>1. /\ conn' = [st |-> "closing", migrating |-> FALSE, check |-> FALSE]
          /\ sendClosed' = TRUE /\ folly' = <<>> /\ wire' = wire
          /\ th' = [th EXCEPT ![Loop] = [l EXCEPT !.pc = "drain", !.ret = "closed", !.depth = 1,
                                              !.batch = <<>>]]
      BY <1>1, <2>2 DEF FailInWrite
    <3> QED BY <1>1, <1>2, <3>1
  <2> QED BY <2>1, <2>2
<1>6. PICK ret \in {"idle", "after", "closed", "flush"} :
        /\ th' = [th EXCEPT ![Loop] = [l EXCEPT !.pc = next, !.ret = ret, !.depth = 1,
                                                !.batch = <<>>]]
        /\ next = "drain" => ret = "closed" /\ conn'.st = "closing" /\ sendClosed'
        /\ next = pc => conn'.st = "open" /\ ~sendClosed'
        /\ wire' \in Seq(Half) /\ folly' \in Seq(Half) /\ sendClosed' \in BOOLEAN
        /\ conn' \in [st : {"open", "detached", "closing", "deleted"}, migrating : BOOLEAN,
                      check : BOOLEAN]
  BY <1>5
<1> DEFINE m == [l EXCEPT !.pc = next, !.ret = ret, !.depth = 1, !.batch = <<>>]
<1>7. m \in Locals
  <2>1. \A p \in Pc, d \in 0..2, b \in Seq(Req) :
          [l EXCEPT !.pc = p, !.ret = ret, !.depth = d, !.batch = b] \in Locals
    BY <1>1 DEF Locals
  <2>2. next \in Pc /\ 1 \in 0..2
    BY DEF Pc
  <2> QED BY <1>2, <2>1, <2>2
<1>8. Moves(Loop) /\ th'[Loop] = m
  BY <1>1, <1>6, <1>7, SetsTo
<1>9. /\ m.pc = next /\ m.ret = ret /\ m.depth = 1 /\ m.batch = <<>> /\ m.extra = l.extra
      /\ m.chunks = l.chunks /\ m.k = l.k /\ m.owed = l.owed
  BY <1>1 DEF Locals
<1> HIDE DEF m
<1>10. LocalOK(Loop, m)
  <2>1. l.chunks = <<>>
    BY <1>1 DEF LocalOK, CommonOK, SendPc, RelPc
  <2>2. CommonOK(m)
    BY <1>1, <1>3, <1>9, <2>1 DEF LocalOK, CommonOK, SendPc, RelPc
  <2>3. LoopOK(m)
    BY <1>3, <1>6, <1>9 DEF LoopOK, InSend, Nested, SendPc, RelPc, HeldPc, UnlockPc
  <2> QED BY <2>2, <2>3, Domain DEF LocalOK
<1>11. TypeOK'
  BY <1>1, <1>2, <1>6, <1>8 DEF Moves, TypeOK, ConnType, LockType, BufferType
<1>12. OutstandingExact'
  BY <1>8, <1>9, <1>10, <1>11, LoopHolds
<1>13. Deletes' = {}
  BY <1>4 DEF Deletes
<1>14. Life'
  <2>1. m.pc # "chain" /\ (ClosingPc(m) => next = "drain")
    BY <1>9 DEF ClosingPc, InSend, SendPc, RelPc
  <2> QED BY <1>6, <1>8, <1>9, <1>13, <2>1 DEF Life, At, Closing
<1>15. PostShape'
  BY <1>13 DEF DInv, PostShape
<1>16. Quiet' /\ Bare'
  BY <1>6 DEF Quiet, Bare
<1>17. Flagged'
  <2>1. \A u \in Thread : th'[u].chunks = th[u].chunks
    BY <1>8, <1>9 DEF Moves
  <2> QED BY <1>4, <2>1 DEF DInv, Flagged, At
<1> QED BY <1>8, <1>10, <1>11, <1>12, <1>14, <1>15, <1>16, <1>17, LoopEnds

\* flushPending and the chains of the loop keep the invariant.
LEMMA FlushKeeps ==
    ASSUME DInv, FlushPending \/ FlushClosed \/ WriteChainLocked
    PROVE  DInv'
<1>1. /\ TypeOK /\ Loop \in Thread /\ th \in [Thread -> Locals] /\ th[Loop] \in Locals
      /\ LocalOK(Loop, th[Loop]) /\ spill \in Seq(Half) /\ pendingBuf \in Seq(Half)
      /\ conn.st \in {"open", "detached", "closing", "deleted"}
  BY DEF DInv, Thread, TypeOK, ConnType, BufferType, Shape
<1>2. <<>> \in Seq(Half)
  BY EmptySeq
<1>3. conn.st \notin {"detached", "deleted"}
  BY DEF DInv, Quiet, LoopIdle, At, FlushPending, FlushClosed, WriteChainLocked
<1>4. CASE FlushPending
  <2>1. Open /\ th[Loop].pc = "flush"
    BY <1>1, <1>3, <1>4 DEF FlushPending, Open, Closing, At
  <2> QED BY <1>1, <1>2, <1>4, <2>1, GivesFolly DEF FlushPending, Take
<1>5. CASE WriteChainLocked
  <2>1. Open /\ th[Loop].pc = "chain"
    BY <1>5 DEF WriteChainLocked, DInv, Life, At
  <2>2. Frames(th[Loop].batch) \in Seq(Half)
    BY <1>1, FramesOf DEF Locals
  <2> QED BY <1>1, <1>5, <2>1, <2>2, GivesFolly DEF WriteChainLocked, Take
<1>6. CASE FlushClosed
  <2> DEFINE l == th[Loop]
             m == [l EXCEPT !.pc = "drain", !.ret = "after"]
  <2>1. /\ l.pc = "flush" /\ Closing /\ th' = [th EXCEPT ![Loop] = m]
        /\ UNCHANGED <<conn, outstanding, fresh, engine, lock, sendClosed, drainWatch,
                       spillPosted, spill, sendPending, pendingBuf, folly, wire, posts>>
    BY <1>1, <1>6 DEF FlushClosed, At, locked, out
  <2>2. m \in Locals
    BY <1>1 DEF Locals, Pc
  <2>3. Moves(Loop) /\ th'[Loop] = m
    BY <1>1, <2>1, <2>2, SetsTo
  <2>4. /\ m.pc = "drain" /\ m.ret = "after" /\ m.depth = l.depth /\ m.batch = l.batch
        /\ m.extra = l.extra /\ m.chunks = l.chunks /\ m.k = l.k /\ m.owed = l.owed
    BY <1>1 DEF Locals
  <2> HIDE DEF m
  <2>5. LocalOK(Loop, m)
    <3>1. CommonOK(m)
      BY <1>1, <2>1, <2>4 DEF LocalOK, CommonOK, SendPc, RelPc
    <3>2. LoopOK(m)
      BY <1>1, <2>1, <2>4 DEF LocalOK, LoopOK, InSend, Nested, SendPc, RelPc, HeldPc, UnlockPc
    <3> QED BY <3>1, <3>2, Domain DEF LocalOK
  <2>6. TypeOK'
    BY <1>1, <2>1, <2>3 DEF Moves, TypeOK, ConnType, LockType, BufferType
  <2>7. OutstandingExact'
    BY <2>1, <2>3, <2>4, <2>5, <2>6, LoopHolds
  <2>8. sendClosed
    BY <2>1 DEF DInv, Life, Closing, At
  <2>9. Life'
    <3>1. m.pc # "chain" /\ ~ClosingPc(m)
      BY <2>4 DEF ClosingPc, InSend, SendPc, RelPc
    <3> QED BY <2>1, <2>3, <2>8, <3>1 DEF DInv, Life, At, Closing
  <2>10. PostShape'
    BY <2>1 DEF DInv, PostShape, Deletes, Closing
  <2>11. Quiet' /\ Bare'
    BY <1>3, <2>1 DEF Quiet, Bare
  <2>12. Flagged'
    BY <2>1, <2>8 DEF Flagged
  <2> QED BY <2>3, <2>5, <2>6, <2>7, <2>9, <2>10, <2>11, <2>12, LoopEnds
<1> QED BY <1>4, <1>5, <1>6

\* Closing the sends drops the spill under the lock.
LEMMA CloseSendsKeeps ==
    ASSUME DInv, CloseSends
    PROVE  DInv'
<1>1. /\ TypeOK /\ Loop \in Thread /\ th \in [Thread -> Locals] /\ th[Loop] \in Locals
      /\ LocalOK(Loop, th[Loop]) /\ <<>> \in Seq(Half)
  BY EmptySeq DEF DInv, Thread, TypeOK, Shape
<1> DEFINE l == th[Loop]
           m == [l EXCEPT !.pc = "unlockC", !.depth = 1]
<1>2. /\ l.pc = "close" /\ th' = [th EXCEPT ![Loop] = m] /\ lock' = Loop
      /\ sendClosed' = TRUE /\ spill' = <<>>
      /\ UNCHANGED <<conn, outstanding, fresh, engine, drainWatch, spillPosted,
                     sendPending, pendingBuf, folly, wire, posts>>
  BY <1>1 DEF CloseSends, At, Take, out
<1>3. m \in Locals
  <2>1. \A p \in Pc, d \in 0..2 : [l EXCEPT !.pc = p, !.depth = d] \in Locals
    BY <1>1 DEF Locals
  <2>2. "unlockC" \in Pc /\ 1 \in 0..2
    BY DEF Pc
  <2> QED BY <2>1, <2>2
<1>4. Moves(Loop) /\ th'[Loop] = m
  BY <1>1, <1>2, <1>3, SetsTo
<1>5. /\ m.pc = "unlockC" /\ m.ret = l.ret /\ m.depth = 1 /\ m.batch = l.batch
      /\ m.extra = l.extra /\ m.chunks = l.chunks /\ m.k = l.k /\ m.owed = l.owed
  BY <1>1 DEF Locals
<1> HIDE DEF m
<1>6. LocalOK(Loop, m)
  <2>1. CommonOK(m)
    BY <1>1, <1>2, <1>5 DEF LocalOK, CommonOK, SendPc, RelPc
  <2>2. LoopOK(m)
    BY <1>1, <1>2, <1>5 DEF LocalOK, LoopOK, InSend, SendPc, RelPc, UnlockPc
  <2> QED BY <2>1, <2>2, Domain DEF LocalOK
<1>7. TypeOK'
  BY <1>1, <1>2, <1>4 DEF Moves, TypeOK, ConnType, LockType, BufferType
<1>8. OutstandingExact'
  BY <1>2, <1>4, <1>5, <1>6, <1>7, LoopHolds
<1>9. Closing /\ Deletes = {}
  BY <1>2 DEF DInv, Life, ClosingPc
<1>10. Deletes' = {} /\ conn'.st = "closing"
  BY <1>2, <1>9 DEF Deletes, Closing
<1>11. Life'
  BY <1>2, <1>4, <1>5, <1>10 DEF Life, At, Closing
<1>12. PostShape'
  BY <1>2, <1>10 DEF DInv, PostShape
<1>13. Quiet' /\ Bare' /\ Flagged'
  BY <1>2, <1>10 DEF Quiet, Bare, Flagged
<1> QED BY <1>4, <1>6, <1>7, <1>8, <1>11, <1>12, <1>13, LoopEnds

\* The end of destroy: delete now, or leave it to the last count.
LEMMA ClosedKeeps ==
    ASSUME DInv, Closed
    PROVE  DInv'
<1>1. /\ TypeOK /\ Loop \in Thread /\ th \in [Thread -> Locals] /\ th[Loop] \in Locals
      /\ LocalOK(Loop, th[Loop]) /\ <<>> \in Seq(Half) /\ posts \in Seq(Posted)
  BY EmptySeq DEF DInv, Thread, TypeOK, Shape
<1> DEFINE l == th[Loop]
<1>2. PICK pc \in {"unlockF", "idle"} : pc = IF l.depth = 1 THEN "unlockF" ELSE "idle"
  OBVIOUS
<1> DEFINE m == [l EXCEPT !.pc = pc, !.ret = "idle"]
<1>3. /\ l.pc = "closed" /\ th' = [th EXCEPT ![Loop] = m]
      /\ folly' = <<>> /\ pendingBuf' = <<>>
      /\ UNCHANGED <<conn, outstanding, fresh, engine, lock, sendClosed, drainWatch,
                     spillPosted, spill, sendPending, wire>>
  BY <1>1, <1>2 DEF Closed, At, locked
<1>4. m \in Locals
  BY <1>1 DEF Locals, Pc
<1>5. Moves(Loop) /\ th'[Loop] = m
  BY <1>1, <1>3, <1>4, SetsTo
<1>6. /\ m.pc = pc /\ m.ret = "idle" /\ m.depth = l.depth /\ m.batch = l.batch
      /\ m.extra = l.extra /\ m.chunks = l.chunks /\ m.k = l.k /\ m.owed = l.owed
  BY <1>1 DEF Locals
<1> HIDE DEF m
<1>7. LocalOK(Loop, m)
  <2>1. CommonOK(m)
    BY <1>1, <1>3, <1>6 DEF LocalOK, CommonOK, SendPc, RelPc
  <2>2. LoopOK(m)
    BY <1>1, <1>2, <1>3, <1>6 DEF LocalOK, LoopOK, InSend, SendPc, RelPc, UnlockPc
  <2> QED BY <2>1, <2>2, Domain DEF LocalOK
<1>8. Closing /\ Deletes = {} /\ sendClosed
  BY <1>3 DEF DInv, Life, ClosingPc, Closing, At
<1>9. /\ posts' \in Seq(Posted) /\ PostOK(posts')
      /\ Cardinality(Units(posts')) = Cardinality(Units(posts))
      /\ \A i, j \in Deletes' : i = j
      /\ Deletes' # {} => outstanding = 0
  <2>1. CASE outstanding = 0
    <3>1. Post("delete", 0) /\ [op |-> "delete", k |-> 0] \in Posted
      BY <2>1 DEF Closed, Posted
    <3>2. /\ posts' \in Seq(Posted)
          /\ PostOK(posts) => PostOK(posts')
          /\ Cardinality(Units(posts')) = Cardinality(Units(posts)) + 0
          /\ Deletes' = Deletes \cup {Len(posts) + 1}
      BY <1>1, <3>1, PostAppend
    <3> QED BY <1>1, <1>8, <2>1, <3>2, PlusZero DEF DInv, PostShape
  <2>2. CASE outstanding # 0
    <3>1. posts' = posts
      BY <2>2 DEF Closed
    <3> QED BY <1>1, <1>8, <3>1 DEF DInv, PostShape, Deletes
  <2> QED BY <2>1, <2>2
<1>10. TypeOK'
  BY <1>1, <1>3, <1>5, <1>9 DEF Moves, TypeOK, ConnType, LockType, BufferType
<1>11. OutstandingExact'
  <2>1. BLen(Loop)' = BLen(Loop) /\ CU(Loop)' = CU(Loop)
    BY <1>3, <1>5, <1>6 DEF BLen, At, CU
  <2>2. Delta(Loop, 0, 0, 0, 0, 0, 0, 0, 0, 0)
    BY <1>1, <1>3, <1>5, <1>6, <1>9, <2>1, PlusZero DEF Delta
  <2>3. 0 = 0 + 0 + 0 + 0 + 0 + 0 + 0 + 0 /\ 0 \in Int
    OBVIOUS
  <2> QED BY <1>1, <1>5, <1>10, <2>2, <2>3, DeltaExact DEF Moves, DInv
<1>12. conn'.st = "closing" /\ sendClosed'
  BY <1>3, <1>8 DEF Closing
<1>13. Life'
  <2>1. m.pc # "chain" /\ ~ClosingPc(m)
    BY <1>6 DEF ClosingPc, InSend, SendPc, RelPc
  <2> QED BY <1>5, <1>12, <2>1 DEF Life, At
<1>14. PostShape'
  BY <1>3, <1>9, <1>12 DEF PostShape, Closing
<1>15. Quiet' /\ Bare' /\ Flagged'
  BY <1>12 DEF Quiet, Bare, Flagged
<1> QED BY <1>5, <1>7, <1>10, <1>11, <1>13, <1>14, <1>15, LoopEnds

-----------------------------------------------------------------------------
(* The theorems *)

\* The requests the client has not sent and the engine's stay apart.
LEMMA SentKeeps ==
    ASSUME Sent, [Next]_vars
    PROVE  Sent'
<1>1. UNCHANGED <<fresh, engine>> \/ (\E r \in Req : fresh' = fresh \ {r} /\ engine' \subseteq engine \cup {r})
      \/ (fresh' = fresh /\ engine' \subseteq engine)
  <2>1. CASE UNCHANGED vars
    BY <2>1 DEF vars
  <2>2. ASSUME NEW t \in Thread, SendStep(t)
        PROVE  UNCHANGED <<fresh, engine>>
    BY <2>2 DEF SendStep, PushPending, Retry, DrainPendingSends, TakePending, WriteDirect,
                SendUnlock, Recheck, FinishBatch, ReleaseTry, ReleaseHeld, ReleaseCas, ReleasePost
  <2>3. ASSUME NEW t \in Reader, NEW r \in Req, SendDirect(t, r)
        PROVE  fresh' = fresh /\ engine' \subseteq engine
    BY <2>3 DEF SendDirect
  <2>4. CASE FlushPending \/ FlushClosed \/ WriteChainLocked \/ LoopUnlock \/ After
             \/ CloseSends \/ Closed \/ Watch
    BY <2>4 DEF FlushPending, FlushClosed, WriteChainLocked, LoopUnlock, UnlockAt, After,
                CloseSends, Closed, Watch, WatchAt
  <2>5. CASE RunPost \/ FollyWrite \/ TryFinishMigrate \/ FinishAttach \/ Wake \/ Destroy
             \/ MigrateTo
    BY <2>5 DEF RunPost, FollyWrite, TryFinishMigrate, FinishAttach, Wake, Destroy, MigrateTo
  <2>6. ASSUME NEW r \in Req, Receive(r)
        PROVE  fresh' = fresh \ {r} /\ engine' \subseteq engine \cup {r}
    BY <2>6 DEF Receive
  <2>7. CASE Done
    BY <2>7 DEF Done, vars
  <2> QED BY <2>1, <2>2, <2>3, <2>4, <2>5, <2>6, <2>7
          DEF Next, ReaderStep, LoopStep, CallbackStep, Thread
<1> QED BY <1>1 DEF Sent

\* Nothing has happened yet.
LEMMA InitDInv == Init => DInv /\ Sent
<1> SUFFICES ASSUME Init PROVE DInv /\ Sent
  OBVIOUS
<1>1. <<>> \in Seq(Half) /\ <<>> \in Seq(Req) /\ <<>> \in Seq(Posted) /\ <<>> \in Seq(Chunk)
  BY EmptySeq
<1>2. /\ Rest \in Locals /\ Rest.pc = "idle" /\ Rest.ret = "idle" /\ Rest.depth = 0
      /\ Rest.batch = <<>> /\ Rest.chunks = <<>> /\ Rest.extra = 0 /\ Rest.k = 0
      /\ Rest.owed = 0
  BY <1>1 DEF Rest, Locals, Pc
<1>3. th \in [Thread -> Locals] /\ \A t \in Thread : th[t] = Rest
  BY <1>2 DEF Init
<1>4. TypeOK
  BY <1>1, <1>3 DEF Init, TypeOK, ConnType, LockType, BufferType
<1>5. Shape
  <2>1. CommonOK(Rest)
    BY <1>2 DEF CommonOK, NoZero, RelPc
  <2>2. ReaderOK(Rest)
    BY <1>2 DEF ReaderOK, HeldPc
  <2>3. LoopOK(Rest)
    BY <1>2 DEF LoopOK, InSend, SendPc, RelPc, UnlockPc
  <2> QED BY <1>3, <2>1, <2>2, <2>3 DEF Shape, LocalOK
<1>6. Deletes = {} /\ PostOK(posts) /\ Loop \in Thread /\ conn.st = "open"
  BY DEF Deletes, PostOK, Init, Thread
<1>7. Life
  BY <1>2, <1>3, <1>6 DEF Life, At, ClosingPc, InSend, SendPc, RelPc, Init
<1>8. PostShape /\ Quiet /\ Bare
  BY <1>6 DEF PostShape, Quiet, Bare
<1>9. Flagged
  BY DEF Init, Flagged
<1>10. OutstandingExact
  <2>1. Cardinality({}) = 0
    BY FS_EmptySet
  <2>2. Cardinality(Units(<<>>)) = 0
    BY UnitsNone
  <2>3. Cardinality(Units([t \in Thread |-> Held(t)])) = 0
    <3>1. ASSUME NEW t \in Thread PROVE Held(t).k = 0
      <4>1. /\ th[t].extra = 0 /\ th[t].k = 0 /\ th[t].owed = 0 /\ BLen(t) = 0 /\ CU(t) = 0
        BY <1>2, <1>3, <2>2, EmptySeq DEF BLen, CU, At
      <4>2. Parted
        BY <1>4, Parts
      <4>3. Held(t).k = 0 + 0 + 0 + 0 + 0
        BY <4>1, <4>2 DEF Parted
      <4> QED BY <4>3
    <3>2. Units([t \in Thread |-> Held(t)]) = {}
      <4>1. \A t \in Thread : 1 .. Held(t).k = {}
        BY <3>1
      <4> QED BY <4>1 DEF Units
    <3> QED BY <2>1, <3>2
  <2>4. /\ engine = {} /\ sendPending = <<>> /\ posts = <<>> /\ outstanding = 0
        /\ Len(sendPending) = 0
    BY EmptySeq DEF Init
  <2>5. CountsHeld = 0 + 0 + 0 + 0
    BY <2>1, <2>2, <2>3, <2>4 DEF CountsHeld
  <2> QED BY <2>4, <2>5 DEF OutstandingExact
<1>11. Sent
  BY DEF Init, Sent
<1> QED BY <1>4, <1>5, <1>7, <1>8, <1>9, <1>10, <1>11 DEF DInv

\* Every step keeps the invariant.
LEMMA NextDInv ==
    ASSUME DInv, Sent, [Next]_vars
    PROVE  DInv'
<1>1. CASE UNCHANGED vars
  <2>1. /\ UNCHANGED <<conn, outstanding, fresh, engine, lock, sendClosed, drainWatch,
                       spillPosted, spill, sendPending, pendingBuf, folly, wire, posts, th>>
    BY <1>1 DEF vars, locked, out
  <2>2. TypeOK'
    BY <2>1 DEF DInv, TypeOK, ConnType, LockType, BufferType
  <2>3. OutstandingExact'
    BY <2>1 DEF DInv, OutstandingExact, CountsHeld, Held, At
  <2> QED BY <2>1, <2>2, <2>3 DEF DInv, Shape, Life, PostShape, Quiet, Bare, Flagged, Deletes,
                                  At, Open, Closing, LoopIdle
<1>2. ASSUME NEW t \in Reader, ReaderStep(t)
      PROVE  DInv'
  BY <1>2, SendStepKeeps, SendDirectKeeps DEF ReaderStep, Thread
<1>3. CASE LoopStep
  BY <1>3, SendStepKeeps, FlushKeeps, LoopUnlockKeeps, AfterKeeps, CloseSendsKeeps,
     ClosedKeeps, WatchKeeps DEF LoopStep, Thread
<1>4. CASE CallbackStep
  BY <1>4, RunPostKeeps, FollyWriteKeeps, TryFinishMigrateKeeps, FinishAttachKeeps
     DEF CallbackStep
<1>5. ASSUME NEW r \in Req, Receive(r)
      PROVE  DInv'
  BY <1>5, ReceiveKeeps
<1>6. CASE Wake \/ MigrateTo
  BY <1>6, WakeKeeps
<1>7. CASE Destroy
  BY <1>7, DestroyKeeps
<1>8. CASE Done
  BY <1>1, <1>8 DEF Done
<1> QED BY <1>1, <1>2, <1>3, <1>4, <1>5, <1>6, <1>7, <1>8 DEF Next

\* The counts, the locals and the flags of a connection agree in every reachable
\* state (sendDirect, releaseOutstanding, flushPendingImpl, destroy, migrateTo).
THEOREM SendInvariant == Spec => []DInv
<1>1. DInv /\ Sent /\ [Next]_vars => DInv' /\ Sent'
  BY NextDInv, SentKeeps
<1> QED BY <1>1, InitDInv, PTL DEF Spec

\* Nobody is in the sending code, and nothing is on its way to it, once the count
\* is zero and the loop idle.
LEMMA NobodyInside ==
    ASSUME DInv, conn.st \in {"detached", "deleted"}
    PROVE  /\ \A t \in Thread : ~Inside(t) /\ th[t].chunks = <<>>
           /\ engine = {} /\ sendPending = <<>> /\ posts = <<>>
<1>1. TypeOK /\ Shape /\ outstanding = 0 /\ LoopIdle /\ OutstandingExact
  BY DEF DInv, Quiet
<1>2. Empty
  BY <1>1, ZeroEmpty
<1>3. posts = <<>>
  <2>1. posts \in Seq(Posted)
    BY <1>1 DEF TypeOK
  <2>2. Deletes = {}
    BY DEF DInv, PostShape, Closing
  <2>3. DOMAIN posts = {}
    BY <1>2, <2>2 DEF Empty, DInv, PostShape, PostOK, Deletes
  <2>4. Len(posts) = 0
    BY <2>1, <2>3, LenProperties
  <2> QED BY <2>1, <2>4, EmptySeq
<1>4. ASSUME NEW t \in Thread
      PROVE  ~Inside(t) /\ th[t].chunks = <<>>
  <2>1. /\ th[t].extra = 0 /\ th[t].k = 0 /\ th[t].owed = 0 /\ th[t].chunks = <<>>
        /\ th[t].pc # "chain" => th[t].batch = <<>>
    BY <1>1, <1>2, HoldsNothing DEF Empty
  <2>2. CASE t = Loop
    BY <1>1, <2>1, <2>2 DEF Inside, LoopIdle
  <2>3. CASE t \in Reader
    <3>1. ReaderOK(th[t]) /\ CommonOK(th[t])
      BY <1>1, <2>3 DEF Shape, LocalOK
    <3>2. th[t].pc \in {"idle", "finish"}
      BY <2>1, <3>1 DEF ReaderOK, CommonOK, SendPc, RelPc
    <3>3. t # Loop
      BY <2>3, Domain
    <3> QED BY <2>1, <3>2, <3>3 DEF Inside, At
  <2> QED BY <2>2, <2>3 DEF Thread
<1> QED BY <1>2, <1>3, <1>4 DEF Empty

\* A connection is freed once nobody can touch it, and until then its count is
\* exactly what requests, senders and callbacks hold (onDrained, releaseOutstanding,
\* destroy), for any number of readers and requests.
THEOREM NeverUsedAfterFree == Spec => []NoUseAfterFree
<1>1. DInv => NoUseAfterFree
  <2> SUFFICES ASSUME DInv PROVE NoUseAfterFree
    OBVIOUS
  <2>1. CASE conn.st # "deleted"
    BY <2>1 DEF DInv, NoUseAfterFree
  <2>2. CASE conn.st = "deleted"
    BY <2>2, NobodyInside DEF NoUseAfterFree
  <2> QED BY <2>1, <2>2
<1> QED BY <1>1, SendInvariant, PTL

\* A connection leaves its loop with no reader inside it, no response, no spill and
\* no callback left behind (tryFinishMigrate), for any number of readers and requests.
THEOREM DetachIsQuiescent == Spec => []QuiescentDetach
<1>1. DInv => QuiescentDetach
  <2> SUFFICES ASSUME DInv, conn.st = "detached" PROVE QuiescentDetach
    BY DEF QuiescentDetach
  <2>1. /\ \A t \in Thread : ~Inside(t) /\ th[t].chunks = <<>>
        /\ engine = {} /\ sendPending = <<>> /\ posts = <<>>
    BY NobodyInside
  <2>2. pendingBuf = <<>> /\ folly = <<>> /\ ~sendClosed /\ At(Loop, "idle")
    BY DEF DInv, Bare, Life, Quiet, LoopIdle
  <2>3. spill = <<>>
    <3>1. ~At(Loop, "flush")
      BY <2>2 DEF At
    <3>2. ~Flushing(posts)
      BY <2>1 DEF Flushing
    <3>3. \A t \in Thread : ~Posting(th[t].chunks)
      BY <2>1 DEF Posting
    <3> QED BY <2>2, <3>1, <3>2, <3>3 DEF DInv, Flagged
  <2> QED BY <2>1, <2>2, <2>3 DEF QuiescentDetach
<1> QED BY <1>1, SendInvariant, PTL

\* What a reader spilled is never left lying: a flush is posted, running, or about
\* to be posted by the sender that spilled (spillPosted_), for any number of readers
\* and requests.
THEOREM SpillAlwaysFlushed == Spec => []SpillHasFlusher
<1>1. DInv => SpillHasFlusher
  BY DEF DInv, Flagged, SpillHasFlusher, Flushing, Posting
<1> QED BY <1>1, SendInvariant, PTL

-----------------------------------------------------------------------------
(* What the client is sent *)

\* The requests of a sequence; no request is in it twice.
Elems(s)    == {s[i] : i \in DOMAIN s}
Distinct(s) == \A i, j \in DOMAIN s : s[i] = s[j] => i = j

\* A request is in one place: loc tells which.
Tag == {"fresh", "engine", "pending", "batch", "buffer", "sent"} \X (Thread \cup {NoThread})
Loc == [Req -> Tag]

FreshTag    == <<"fresh", NoThread>>
EngineTag   == <<"engine", NoThread>>
PendingTag  == <<"pending", NoThread>>
BatchTag(t) == <<"batch", t>>
BufferTag   == <<"buffer", NoThread>>
SentTag     == <<"sent", NoThread>>

Where(loc, S, tag) == \A r \in S : loc[r] = tag

Located(loc, q, p) ==
    /\ Where(loc, fresh, FreshTag) /\ Where(loc, engine, EngineTag)
    /\ Where(loc, Elems(sendPending), PendingTag)
    /\ \A t \in Thread : Where(loc, Elems(th[t].batch), BatchTag(t))
    /\ Where(loc, Elems(p), BufferTag) /\ Where(loc, Elems(q), SentTag)

\* Nothing is twice in a place.
Once(q, p) ==
    /\ Distinct(q) /\ Distinct(p) /\ Distinct(sendPending)
    /\ \A t \in Thread : Distinct(th[t].batch)

\* q is what was given to the socket, p what waits in pendingWriteBuf_: the wire,
\* what folly has and the spill are the frames of q, less what a close threw away.
Stream(q, p) ==
    /\ pendingBuf = Frames(p)
    /\ \E u \in Seq(Half) : (wire \o folly) \o u = Frames(q)
    /\ ~sendClosed => (wire \o folly) \o spill = Frames(q)

\* The inductive invariant of the stream.
WireInv == \E q, p \in Seq(Req), loc \in Loc :
              Stream(q, p) /\ Once(q, p) /\ Located(loc, q, p)

\* A sequence put after another without common elements.
LEMMA DistinctConcat ==
    ASSUME NEW a \in Seq(Req), NEW b \in Seq(Req)
    PROVE  /\ a \o b \in Seq(Req) /\ Elems(a \o b) = Elems(a) \cup Elems(b)
           /\ Elems(a) \subseteq Req /\ Elems(b) \subseteq Req
           /\ Distinct(a) /\ Distinct(b) /\ Elems(a) \cap Elems(b) = {} => Distinct(a \o b)
<1>1. /\ a \o b \in Seq(Req) /\ Len(a \o b) = Len(a) + Len(b)
      /\ \A i \in 1 .. Len(a) + Len(b) :
            (a \o b)[i] = IF i <= Len(a) THEN a[i] ELSE b[i - Len(a)]
  BY ConcatProperties
<1>2. /\ Len(a) \in Nat /\ Len(b) \in Nat /\ DOMAIN a = 1..Len(a) /\ DOMAIN b = 1..Len(b)
      /\ DOMAIN (a \o b) = 1 .. Len(a) + Len(b)
  BY <1>1, LenProperties
<1>3. PICK m \in Nat, n \in Nat : m = Len(a) /\ n = Len(b)
  BY <1>2
<1>4. \A i \in 1..m : i \in 1..(m + n) /\ (a \o b)[i] = a[i]
  BY <1>1, <1>3
<1>5. \A i \in 1..n : m + i \in 1..(m + n) /\ (a \o b)[m + i] = b[i]
  BY <1>1, <1>3
<1>6. \A i \in 1..(m + n) : i \in 1..m \/ \E j \in 1..n : i = m + j
  <2> SUFFICES ASSUME NEW i \in 1..(m + n), i \notin 1..m PROVE \E j \in 1..n : i = m + j
    OBVIOUS
  <2>1. i - m \in 1..n /\ i = m + (i - m)
    OBVIOUS
  <2> QED BY <2>1
<1>7. Elems(a \o b) = Elems(a) \cup Elems(b)
  <2>1. ASSUME NEW x \in Elems(a \o b) PROVE x \in Elems(a) \cup Elems(b)
    <3>1. PICK i \in 1..(m + n) : x = (a \o b)[i]
      BY <1>2, <1>3 DEF Elems
    <3>2. CASE i \in 1..m
      BY <1>2, <1>3, <1>4, <3>1, <3>2 DEF Elems
    <3>3. CASE i \notin 1..m
      <4>1. PICK j \in 1..n : i = m + j
        BY <1>6, <3>3
      <4> QED BY <1>2, <1>3, <1>5, <3>1, <4>1 DEF Elems
    <3> QED BY <3>2, <3>3
  <2>2. ASSUME NEW x \in Elems(a) PROVE x \in Elems(a \o b)
    <3>1. PICK i \in 1..m : x = a[i]
      BY <1>2, <1>3 DEF Elems
    <3> QED BY <1>2, <1>3, <1>4, <3>1 DEF Elems
  <2>3. ASSUME NEW x \in Elems(b) PROVE x \in Elems(a \o b)
    <3>1. PICK i \in 1..n : x = b[i]
      BY <1>2, <1>3 DEF Elems
    <3> QED BY <1>2, <1>3, <1>5, <3>1 DEF Elems
  <2> QED BY <2>1, <2>2, <2>3
<1>8. ASSUME Distinct(a), Distinct(b), Elems(a) \cap Elems(b) = {}
      PROVE  Distinct(a \o b)
  <2> SUFFICES ASSUME NEW i \in 1..(m + n), NEW j \in 1..(m + n), (a \o b)[i] = (a \o b)[j]
               PROVE  i = j
    BY <1>2, <1>3 DEF Distinct
  <2>1. CASE i \in 1..m /\ j \in 1..m
    BY <1>2, <1>3, <1>4, <1>8, <2>1 DEF Distinct
  <2>2. CASE i \in 1..m /\ j \notin 1..m
    <3>1. PICK k \in 1..n : j = m + k
      BY <1>6, <2>2
    <3>2. a[i] = b[k] /\ a[i] \in Elems(a) /\ b[k] \in Elems(b)
      BY <1>2, <1>3, <1>4, <1>5, <2>2, <3>1 DEF Elems
    <3> QED BY <1>8, <3>2
  <2>3. CASE i \notin 1..m /\ j \in 1..m
    <3>1. PICK k \in 1..n : i = m + k
      BY <1>6, <2>3
    <3>2. a[j] = b[k] /\ a[j] \in Elems(a) /\ b[k] \in Elems(b)
      BY <1>2, <1>3, <1>4, <1>5, <2>3, <3>1 DEF Elems
    <3> QED BY <1>8, <3>2
  <2>4. CASE i \notin 1..m /\ j \notin 1..m
    <3>1. PICK k \in 1..n : i = m + k
      BY <1>6, <2>4
    <3>2. PICK h \in 1..n : j = m + h
      BY <1>6, <2>4
    <3>3. b[k] = b[h]
      BY <1>5, <3>1, <3>2
    <3>4. k = h
      BY <1>2, <1>3, <1>8, <3>3 DEF Distinct
    <3> QED BY <3>1, <3>2, <3>4
  <2> QED BY <2>1, <2>2, <2>3, <2>4
<1>9. Elems(a) \subseteq Req /\ Elems(b) \subseteq Req
  BY <1>2, ElementOfSeq DEF Elems
<1> QED BY <1>1, <1>7, <1>8, <1>9

\* The frames of two batches one after the other.
LEMMA FramesConcat ==
    ASSUME NEW a \in Seq(Req), NEW b \in Seq(Req)
    PROVE  Frames(a \o b) = Frames(a) \o Frames(b)
<1>1. /\ a \o b \in Seq(Req) /\ Len(a \o b) = Len(a) + Len(b)
      /\ \A i \in 1 .. Len(a) + Len(b) :
            (a \o b)[i] = IF i <= Len(a) THEN a[i] ELSE b[i - Len(a)]
  BY ConcatProperties
<1>2. PICK m \in Nat, n \in Nat : m = Len(a) /\ n = Len(b)
  BY LenProperties
<1>3. PICK fa \in Seq(Half) : fa = Frames(a) /\ Len(fa) = 2 * m
  BY <1>2, FramesOf
<1>4. PICK fb \in Seq(Half) : fb = Frames(b) /\ Len(fb) = 2 * n
  BY <1>2, FramesOf
<1>5. PICK fc \in Seq(Half) : fc = Frames(a \o b) /\ Len(fc) = 2 * (m + n)
  BY <1>1, <1>2, FramesOf
<1>6. /\ fa \o fb \in Seq(Half)
      /\ Len(fa \o fb) = 2 * m + 2 * n
      /\ \A i \in 1 .. 2 * m + 2 * n :
            (fa \o fb)[i] = IF i <= 2 * m THEN fa[i] ELSE fb[i - 2 * m]
  <2>1. /\ fa \o fb \in Seq(Half)
        /\ Len(fa \o fb) = Len(fa) + Len(fb)
        /\ \A i \in 1 .. Len(fa) + Len(fb) :
             (fa \o fb)[i] = IF i <= Len(fa) THEN fa[i] ELSE fb[i - Len(fa)]
    BY ConcatProperties
  <2> QED BY <1>3, <1>4, <2>1
<1>7. /\ \A i \in 1 .. 2 * m : fa[i] = <<a[(i + 1) \div 2], 2 - (i % 2)>>
      /\ \A i \in 1 .. 2 * n : fb[i] = <<b[(i + 1) \div 2], 2 - (i % 2)>>
      /\ \A i \in 1 .. 2 * (m + n) : fc[i] = <<(a \o b)[(i + 1) \div 2], 2 - (i % 2)>>
  BY <1>1, <1>2, <1>3, <1>4, <1>5 DEF Frames
<1>8. 2 * (m + n) = 2 * m + 2 * n
  OBVIOUS
<1>9. ASSUME NEW i \in 1 .. 2 * (m + n)
      PROVE  fc[i] = (fa \o fb)[i]
  <2>2. CASE i <= 2 * m
    <3>1. PICK k \in 1..m : k = (i + 1) \div 2
      BY <2>2
    <3>3. (a \o b)[k] = a[k]
      BY <1>1, <1>2
    <3>4. i \in 1 .. 2 * m
      BY <2>2
    <3>5. fa[i] = <<a[k], 2 - (i % 2)>> /\ fc[i] = <<a[k], 2 - (i % 2)>>
      BY <1>7, <3>1, <3>3, <3>4
    <3> QED BY <1>6, <1>8, <2>2, <3>5
  <2>3. CASE ~(i <= 2 * m)
    <3>1. PICK j \in 1..2 * n : j = i - 2 * m
      BY <2>3
    <3>2. /\ (j + 1) \div 2 \in 1..n /\ (i + 1) \div 2 = m + ((j + 1) \div 2)
          /\ i % 2 = j % 2
      BY <3>1
    <3>3. PICK k \in 1..n : k = (j + 1) \div 2
      BY <3>2
    <3>4. (a \o b)[m + k] = b[k]
      <4>1. m + k \in 1 .. m + n /\ ~(m + k <= m) /\ (m + k) - m = k
        OBVIOUS
      <4> QED BY <1>1, <1>2, <4>1
    <3>5. fb[j] = <<b[k], 2 - (j % 2)>>
      BY <1>7, <3>3
    <3>6. fc[i] = <<b[k], 2 - (j % 2)>>
      BY <1>7, <3>2, <3>3, <3>4
    <3>7. (fa \o fb)[i] = fb[j]
      <4>1. ~(i <= 2 * m) /\ i \in 1 .. 2 * m + 2 * n
        BY <1>8, <2>3
      <4> QED BY <1>6, <3>1, <4>1
    <3> QED BY <3>5, <3>6, <3>7
  <2> QED BY <2>2, <2>3
<1>10. Len(fc) = Len(fa \o fb) /\ Len(fc) = 2 * (m + n)
  BY <1>5, <1>6, <1>8
<1>11. fc = fa \o fb
  BY <1>6, <1>9, <1>10, SeqEqual
<1> QED BY <1>3, <1>4, <1>5, <1>11

\* A sequence is its two parts.
LEMMA CutWhole ==
    ASSUME NEW q \in Seq(Half), NEW n \in 0..Len(q)
    PROVE  SubSeq(q, 1, n) \o SubSeq(q, n + 1, Len(q)) = q
<1>1. PICK m \in Nat : m = Len(q)
  BY LenProperties
<1>2. DOMAIN q = 1..m /\ \A i \in 1..m : q[i] \in Half
  BY <1>1, LenProperties, ElementOfSeq
<1>3. PICK a \in Seq(Half) : a = SubSeq(q, 1, n) /\ Len(a) = n /\ \A i \in 1..n : a[i] = q[i]
  <2>1. \A i \in 1..n : q[i] \in Half
    BY <1>1, <1>2
  <2>2. /\ SubSeq(q, 1, n) \in Seq(Half)
        /\ Len(SubSeq(q, 1, n)) = (IF 1 <= n THEN n - 1 + 1 ELSE 0)
        /\ \A i \in 1 .. n - 1 + 1 : SubSeq(q, 1, n)[i] = q[1 + i - 1]
    BY <2>1, <1>1, SubSeqProperties
  <2>3. n \in Nat /\ n - 1 + 1 = n /\ (IF 1 <= n THEN n - 1 + 1 ELSE 0) = n
    BY <1>1
  <2>4. \A i \in 1..n : 1 + i - 1 = i
    BY <2>3
  <2> QED BY <2>2, <2>3, <2>4
<1>4. PICK b \in Seq(Half) : /\ b = SubSeq(q, n + 1, Len(q)) /\ Len(b) = m - n
                             /\ \A i \in 1..(m - n) : b[i] = q[n + i]
  <2>1. \A i \in (n + 1)..m : q[i] \in Half
    BY <1>1, <1>2
  <2>2. PICK c : c = SubSeq(q, n + 1, m)
    OBVIOUS
  <2>3. /\ c \in Seq(Half) /\ Len(c) = (IF n + 1 <= m THEN m - (n + 1) + 1 ELSE 0)
        /\ \A i \in 1 .. m - (n + 1) + 1 : c[i] = q[(n + 1) + i - 1]
    <3>1. n + 1 \in Int /\ m \in Int
      BY <1>1
    <3> QED BY <2>1, <2>2, <3>1, SubSeqProperties
  <2>4. Len(c) = m - n /\ \A i \in 1..(m - n) : c[i] = q[n + i]
    <3>1. m - (n + 1) + 1 = m - n
      BY <1>1
    <3>2. \A i \in 1..(m - n) : (n + 1) + i - 1 = n + i
      BY <1>1
    <3> QED BY <1>1, <2>3, <3>1, <3>2
  <2> QED BY <1>1, <2>2, <2>3, <2>4
<1>5. /\ a \o b \in Seq(Half) /\ Len(a \o b) = Len(a) + Len(b)
      /\ \A i \in 1 .. Len(a) + Len(b) : (a \o b)[i] = IF i <= Len(a) THEN a[i] ELSE b[i - Len(a)]
  BY ConcatProperties
<1>6. Len(a) + Len(b) = m /\ n \in 0..m
  <2>1. n \in 0..m
    BY <1>1
  <2>2. n + (m - n) = m
    BY <2>1
  <2> QED BY <1>3, <1>4, <2>1, <2>2
<1>7. ASSUME NEW i \in 1..m PROVE (a \o b)[i] = q[i]
  <2>1. CASE i <= n
    BY <1>3, <1>5, <1>6, <2>1
  <2>2. CASE ~(i <= n)
    <3>1. i - n \in 1..(m - n) /\ n + (i - n) = i
      BY <1>6, <2>2
    <3>2. b[i - n] = q[i]
      BY <1>4, <3>1
    <3> QED BY <1>3, <1>5, <1>6, <2>2, <3>2
  <2> QED BY <2>1, <2>2
<1>8. Len(a \o b) = Len(q) /\ Len(q) = m
  BY <1>1, <1>5, <1>6
<1>9. a \o b = q
  <2> HIDE <1>3, <1>4
  <2> QED BY <1>5, <1>7, <1>8, SeqEqual
<1> QED BY <1>3, <1>4, <1>9

\* Putting sequences of halves together in any order of the calls.
LEMMA Assoc == \A a, b, c \in Seq(Half) : (a \o b) \o c = a \o (b \o c)
BY ConcatAssociative

\* x, the first part of b, goes out after a and y, the rest, is kept behind f.
Follows(a, x, f, y, b) == (a \o x) \o (f \o y) = (a \o f) \o b

\* If one of x and f is empty, that leaves the stream as if both parts had been put
\* at its end.
LEMMA PartsFollow ==
    ASSUME NEW a \in Seq(Half), NEW f \in Seq(Half), NEW x \in Seq(Half), NEW y \in Seq(Half),
           f = <<>> \/ x = <<>>
    PROVE  Follows(a, x, f, y, x \o y)
<1>1. (a \o x) \o y = a \o (x \o y)
  BY Assoc
<1>2. (a \o f) \o y = a \o (f \o y)
  BY Assoc
<1>3. CASE f = <<>>
  <2>1. f \o y = y /\ a \o f = a
    BY <1>3, ConcatEmptySeq
  <2> QED BY <1>1, <2>1 DEF Follows
<1>4. CASE x = <<>>
  <2>1. a \o x = a /\ x \o y = y
    BY <1>4, ConcatEmptySeq
  <2> QED BY <1>2, <2>1 DEF Follows
<1> QED BY <1>3, <1>4

\* The same of the whole.
LEMMA MovesOn ==
    ASSUME NEW a \in Seq(Half), NEW f \in Seq(Half), NEW b \in Seq(Half),
           NEW x \in Seq(Half), NEW y \in Seq(Half), x \o y = b,
           f = <<>> \/ x = <<>>
    PROVE  Follows(a, x, f, y, b)
<1>1. Follows(a, x, f, y, x \o y)
  BY PartsFollow
<1> QED BY <1>1

\* The two parts of a sequence of halves.
LEMMA TwoParts ==
    ASSUME NEW b \in Seq(Half), NEW n \in 0..Len(b)
    PROVE  \E x, y \in Seq(Half) : /\ x = SubSeq(b, 1, n) /\ y = SubSeq(b, n + 1, Len(b))
                                   /\ x \o y = b /\ (n > 0 \/ x = <<>>)
<1>1. PICK x \in Seq(Half) : x = SubSeq(b, 1, n)
  BY Cut
<1>2. PICK y \in Seq(Half) : y = SubSeq(b, n + 1, Len(b))
  BY Cut
<1>3. x \o y = b
  BY <1>1, <1>2, CutWhole
<1>4. ASSUME ~(n > 0) PROVE x = <<>>
  <2>1. n = 0
    BY <1>4
  <2> QED BY <1>1, <2>1, SubSeqEmpty
<1> QED BY <1>1, <1>2, <1>3, <1>4

-----------------------------------------------------------------------------
(* Requests change places *)

\* X moves from the place old to the place new; S, whose tag is g, becomes S1.
Goes(S, S1, g, X, old, new) ==
    /\ S1 \subseteq S \cup X
    /\ g # new => S1 \subseteq S
    /\ g = old => S1 \cap X = {}

Moved(loc, X, new) == [r \in Req |-> IF r \in X THEN new ELSE loc[r]]

\* The elements of a place after a move are tagged with it.
LEMMA MovedWhere ==
    ASSUME NEW loc \in Loc, NEW X \in SUBSET Req, NEW old, NEW new \in Tag,
           Where(loc, X, old),
           NEW S, NEW S1 \in SUBSET Req, NEW g, Where(loc, S, g), Goes(S, S1, g, X, old, new)
    PROVE  Where(Moved(loc, X, new), S1, g)
<1> SUFFICES ASSUME NEW r \in S1 PROVE Moved(loc, X, new)[r] = g
  BY DEF Where
<1>1. CASE r \in X
  <2>1. Moved(loc, X, new)[r] = new /\ loc[r] = old
    BY <1>1 DEF Moved, Where
  <2>2. r \in S => loc[r] = g
    BY DEF Where
  <2> QED BY <1>1, <2>1, <2>2 DEF Goes
<1>2. CASE r \notin X
  <2>1. Moved(loc, X, new)[r] = loc[r] /\ r \in S
    BY <1>2 DEF Moved, Goes
  <2> QED BY <2>1 DEF Where
<1> QED BY <1>1, <1>2

\* How a step moves requests: X from old to new, q and p becoming q1 and p1.
Shift(q, p, q1, p1, X, old, new) ==
    /\ Goes(fresh, fresh', FreshTag, X, old, new)
    /\ Goes(engine, engine', EngineTag, X, old, new)
    /\ Goes(Elems(sendPending), Elems(sendPending'), PendingTag, X, old, new)
    /\ \A t \in Thread : Goes(Elems(th[t].batch), Elems(th'[t].batch), BatchTag(t), X, old, new)
    /\ Goes(Elems(p), Elems(p1), BufferTag, X, old, new)
    /\ Goes(Elems(q), Elems(q1), SentTag, X, old, new)

\* A sequence of requests has requests.
LEMMA ElemsReq == \A s \in Seq(Req) : Elems(s) \subseteq Req
<1> SUFFICES ASSUME NEW s \in Seq(Req), NEW i \in DOMAIN s PROVE s[i] \in Req
  BY DEF Elems
<1> QED BY LenProperties, ElementOfSeq

\* An empty sequence has none, and none twice.
LEMMA ElemsNone == Elems(<<>>) = {} /\ Distinct(<<>>)
<1>1. DOMAIN <<>> = {}
  OBVIOUS
<1> QED BY <1>1 DEF Elems, Distinct

\* The tags of the places.
LEMMA Tags ==
    /\ FreshTag \in Tag /\ EngineTag \in Tag /\ PendingTag \in Tag
    /\ BufferTag \in Tag /\ SentTag \in Tag
    /\ \A t \in Thread : BatchTag(t) \in Tag
BY DEF FreshTag, EngineTag, PendingTag, BufferTag, SentTag, BatchTag, Tag

\* Tags of two places differ.
LEMMA TagsDiffer ==
    /\ FreshTag # EngineTag /\ FreshTag # PendingTag /\ FreshTag # BufferTag
    /\ FreshTag # SentTag /\ EngineTag # PendingTag /\ EngineTag # BufferTag
    /\ EngineTag # SentTag /\ PendingTag # BufferTag /\ PendingTag # SentTag
    /\ BufferTag # SentTag
    /\ \A t \in Thread :
         /\ BatchTag(t) # FreshTag /\ BatchTag(t) # EngineTag /\ BatchTag(t) # PendingTag
         /\ BatchTag(t) # BufferTag /\ BatchTag(t) # SentTag
         /\ \A u \in Thread : BatchTag(t) = BatchTag(u) => t = u
BY DEF FreshTag, EngineTag, PendingTag, BufferTag, SentTag, BatchTag

\* A step that moves requests and keeps the stream.
LEMMA Relocates ==
    ASSUME TypeOK', NEW q \in Seq(Req), NEW p \in Seq(Req), NEW q1 \in Seq(Req),
           NEW p1 \in Seq(Req), NEW loc \in Loc, Located(loc, q, p),
           NEW X \in SUBSET Req, NEW old, NEW new \in Tag, Where(loc, X, old),
           Shift(q, p, q1, p1, X, old, new), Stream(q1, p1)', Once(q1, p1)'
    PROVE  WireInv'
<1> DEFINE loc1 == Moved(loc, X, new)
<1>1. loc1 \in Loc
  BY DEF Moved, Loc
<1>2. /\ fresh' \subseteq Req /\ engine' \subseteq Req /\ Elems(sendPending') \subseteq Req
      /\ \A t \in Thread : Elems(th'[t].batch) \subseteq Req
      /\ Elems(p1) \subseteq Req /\ Elems(q1) \subseteq Req
  BY ElemsReq DEF TypeOK, ConnType, BufferType, Locals
<1>3. Where(loc1, fresh', FreshTag) /\ Where(loc1, engine', EngineTag)
  BY <1>2, MovedWhere DEF Located, Shift
<1>4. Where(loc1, Elems(sendPending'), PendingTag)
  BY <1>2, MovedWhere DEF Located, Shift
<1>5. \A t \in Thread : Where(loc1, Elems(th'[t].batch), BatchTag(t))
  BY <1>2, MovedWhere DEF Located, Shift
<1>6. Where(loc1, Elems(p1), BufferTag) /\ Where(loc1, Elems(q1), SentTag)
  BY <1>2, MovedWhere DEF Located, Shift
<1> HIDE DEF loc1
<1>7. PICK loc2 \in Loc : loc2 = loc1
  BY <1>1
<1>8. Located(loc2, q1, p1)'
  BY <1>3, <1>4, <1>5, <1>6, <1>7 DEF Located, Elems
<1> QED BY <1>8 DEF WireInv

\* Nothing moves, and the stream stays.
Stays ==
    /\ fresh' \subseteq fresh /\ engine' \subseteq engine
    /\ sendPending' = sendPending
    /\ \A t \in Thread : th'[t].batch = th[t].batch \/ th'[t].batch = <<>>

\* Nothing is twice in a place after such a step.
LEMMA StaysOnce ==
    ASSUME Stays, NEW q, NEW p, Once(q, p)
    PROVE  Once(q, p)'
BY ElemsNone DEF Once, Stays, Distinct

\* A step that moves nothing keeps the invariant if it keeps the stream.
LEMMA StaysKeeps ==
    ASSUME TypeOK', NEW q \in Seq(Req), NEW p \in Seq(Req), NEW p1 \in Seq(Req),
           NEW loc \in Loc, Located(loc, q, p), Once(q, p), Stays,
           p1 = p \/ p1 = <<>>, Stream(q, p1)'
    PROVE  WireInv'
<1>1. Elems(p1) \subseteq Elems(p) /\ Distinct(p1)
  BY ElemsNone DEF Once
<1>2. Once(q, p1)'
  BY <1>1, StaysOnce DEF Once
<1>3. \A S, S1, g : S1 \subseteq S => Goes(S, S1, g, {}, FreshTag, FreshTag)
  BY DEF Goes
<1>4. \A t \in Thread : Elems(th'[t].batch) \subseteq Elems(th[t].batch)
  BY ElemsNone DEF Stays
<1>5. Elems(sendPending') \subseteq Elems(sendPending)
  BY DEF Stays
<1>6. Shift(q, p, q, p1, {}, FreshTag, FreshTag)
  BY <1>1, <1>3, <1>4, <1>5 DEF Shift, Stays
<1>7. Where(loc, {}, FreshTag) /\ {} \in SUBSET Req
  BY DEF Where
<1> QED BY <1>2, <1>6, <1>7, Tags, Relocates

\* A step that sends nothing and moves nothing keeps the invariant.
LEMMA SameStreamKeeps ==
    ASSUME TypeOK', WireInv, Stays, UNCHANGED <<pendingBuf, wire, folly>>,
           sendClosed' \/ UNCHANGED <<sendClosed, spill>>
    PROVE  WireInv'
<1>1. PICK q \in Seq(Req), p \in Seq(Req), loc \in Loc :
          Stream(q, p) /\ Once(q, p) /\ Located(loc, q, p)
  BY DEF WireInv
<1>2. Stream(q, p)'
  BY <1>1 DEF Stream
<1> QED BY <1>1, <1>2, StaysKeeps

\* Where a thread is, its depth and its counts are not its batch.
LEMMA BatchSame ==
    ASSUME TypeOK, NEW t \in Thread, Retry(t) \/ DrainPendingSends(t) \/ SendUnlock(t)
             \/ Recheck(t) \/ FinishBatch(t) \/ ReleaseTry(t) \/ ReleaseHeld(t)
             \/ ReleaseCas(t) \/ ReleasePost(t)
    PROVE  \A u \in Thread : th'[u].batch = th[u].batch
<1> SUFFICES ASSUME NEW u \in Thread PROVE th'[u].batch = th[u].batch
  OBVIOUS
<1>1. th \in [Thread -> Locals]
  BY DEF TypeOK
<1>2. ASSUME NEW pc, Goto(t, pc) PROVE th'[u].batch = th[u].batch
  BY <1>1, <1>2 DEF Goto, Locals
<1>3. ASSUME NEW won, NEW lost, TryLock(t, won, lost) PROVE th'[u].batch = th[u].batch
  <2>1. CASE th' = [th EXCEPT ![t].pc = won, ![t].depth = @ + 1]
    BY <1>1, <2>1 DEF Locals
  <2> QED BY <1>2, <1>3, <2>1 DEF TryLock
<1>4. ASSUME NEW pc, Unlock(th, t, pc) PROVE th'[u].batch = th[u].batch
  BY <1>1, <1>4 DEF Unlock, Locals
<1>5. CASE Retry(t) \/ ReleaseTry(t)
  BY <1>3, <1>5 DEF Retry, ReleaseTry
<1>6. CASE DrainPendingSends(t) \/ Recheck(t)
  BY <1>2, <1>3, <1>6 DEF DrainPendingSends, Recheck
<1>7. CASE SendUnlock(t)
  BY <1>4, <1>7 DEF SendUnlock
<1>8. CASE FinishBatch(t)
  <2>1. CASE th' = [th EXCEPT ![t].chunks = Tail(@)]
    BY <1>1, <2>1 DEF Locals
  <2>2. CASE th' = [th EXCEPT ![t].pc = "rel", ![t].chunks = Tail(@), ![t].k = Head(th[t].chunks).k]
    BY <1>1, <2>2 DEF Locals
  <2>3. CASE th' = [th EXCEPT ![t].pc = "rel", ![t].extra = 0, ![t].k = 1]
    BY <1>1, <2>3 DEF Locals
  <2> QED BY <1>2, <1>8, <2>1, <2>2, <2>3 DEF FinishBatch
<1>9. CASE ReleaseHeld(t)
  <2>1. CASE Unlock([th EXCEPT ![t].k = 0], t, "finish")
    BY <1>1, <2>1 DEF Unlock, Locals
  <2> QED BY <1>4, <1>9, <2>1 DEF ReleaseHeld
<1>10. CASE ReleaseCas(t)
  BY <1>1, <1>10 DEF ReleaseCas, Locals
<1>11. CASE ReleasePost(t)
  BY <1>1, <1>11 DEF ReleasePost, Locals
<1> QED BY <1>5, <1>6, <1>7, <1>8, <1>9, <1>10, <1>11

\* The steps of the sending code between its writes.
LEMMA SendStays ==
    ASSUME TypeOK, TypeOK', WireInv, NEW t \in Thread,
           Retry(t) \/ DrainPendingSends(t) \/ SendUnlock(t)
             \/ Recheck(t) \/ FinishBatch(t) \/ ReleaseTry(t) \/ ReleaseHeld(t)
             \/ ReleaseCas(t) \/ ReleasePost(t)
    PROVE  WireInv'
<1>1. \A u \in Thread : th'[u].batch = th[u].batch
  BY BatchSame
<1>2. UNCHANGED <<fresh, engine, sendPending, pendingBuf, wire, folly, sendClosed, spill>>
  BY DEF Retry, DrainPendingSends, SendUnlock, Recheck, FinishBatch, ReleaseTry, ReleaseHeld,
         ReleaseCas, ReleasePost, locked, out
<1> QED BY <1>1, <1>2, SameStreamKeeps DEF Stays

\* The steps of the loop that send nothing.
LEMMA LoopStays ==
    ASSUME TypeOK, TypeOK', WireInv,
           FlushClosed \/ LoopUnlock \/ After \/ CloseSends \/ Watch \/ RunPost
             \/ TryFinishMigrate \/ FinishAttach \/ Wake \/ Destroy \/ MigrateTo
             \/ Done \/ UNCHANGED vars
    PROVE  WireInv'
<1>1. th \in [Thread -> Locals] /\ Loop \in Thread
  BY DEF TypeOK, Thread
<1>2. ASSUME NEW u \in Thread PROVE th'[u].batch = th[u].batch \/ th'[u].batch = <<>>
  <2>1. ASSUME NEW pc, Goto(Loop, pc) PROVE th'[u].batch = th[u].batch
    BY <1>1, <2>1 DEF Goto, Locals
  <2>2. CASE FlushClosed
    BY <1>1, <2>2 DEF FlushClosed, Locals
  <2>3. ASSUME NEW pc, NEW next, NEW ret, UnlockAt(pc, next, ret) PROVE th'[u].batch = th[u].batch
    BY <1>1, <2>3 DEF UnlockAt, Unlock, Locals
  <2>4. CASE LoopUnlock
    BY <2>3, <2>4 DEF LoopUnlock
  <2>5. CASE After
    BY <1>1, <2>5 DEF After, Rest
  <2>6. CASE CloseSends
    BY <1>1, <2>6 DEF CloseSends, Locals
  <2>7. ASSUME NEW pc, NEW next, NEW watch, WatchAt(pc, next, watch) PROVE th'[u].batch = th[u].batch
    BY <1>1, <2>7 DEF WatchAt, Locals
  <2>8. CASE Watch
    BY <2>7, <2>8 DEF Watch
  <2>9. CASE RunPost
    <3> DEFINE pc == CASE Head(posts).op = "flush" -> "flush"
                       [] Head(posts).op = "drop" -> "after"
                       [] Head(posts).op = "delete" -> "idle"
    <3>1. th' = [th EXCEPT ![Loop].owed = Head(posts).k, ![Loop].pc = pc]
      BY <2>9 DEF RunPost
    <3> HIDE DEF pc
    <3> QED BY <1>1, <3>1 DEF Locals
  <2>10. CASE TryFinishMigrate
    BY <2>1, <2>10 DEF TryFinishMigrate
  <2>11. CASE FinishAttach \/ Wake \/ Destroy \/ MigrateTo
    BY <2>1, <2>11 DEF FinishAttach, Wake, Destroy, MigrateTo
  <2>12. CASE Done \/ UNCHANGED vars
    BY <2>12 DEF Done, vars
  <2> QED BY <2>2, <2>4, <2>5, <2>6, <2>8, <2>9, <2>10, <2>11, <2>12
<1>3. /\ UNCHANGED <<fresh, engine, sendPending, pendingBuf, wire, folly>>
      /\ sendClosed' \/ UNCHANGED <<sendClosed, spill>>
  BY DEF FlushClosed, LoopUnlock, UnlockAt, After, CloseSends, Watch, WatchAt, RunPost,
         TryFinishMigrate, FinishAttach, Wake, Destroy, MigrateTo, Done, vars, locked, out
<1> QED BY <1>2, <1>3, SameStreamKeeps DEF Stays

\* Places with different tags have nothing in common.
LEMMA Apart ==
    ASSUME NEW loc, NEW S, NEW S1, NEW g, NEW g1, Where(loc, S, g), Where(loc, S1, g1), g # g1
    PROVE  S \cap S1 = {}
BY DEF Where

\* What each place does in a move.
LEMMA GoesHow ==
    ASSUME NEW X, NEW old, NEW new, old # new
    PROVE  /\ \A S, g : g # old => Goes(S, S, g, X, old, new)
           /\ \A S, S1 : S1 \subseteq S /\ S1 \cap X = {} => Goes(S, S1, old, X, old, new)
           /\ \A S, S1 : S1 \subseteq S \cup X => Goes(S, S1, new, X, old, new)
BY DEF Goes

\* A sequence of one request.
LEMMA OneElem == \A r \in Req : <<r>> \in Seq(Req) /\ Elems(<<r>>) = {r} /\ Distinct(<<r>>)
<1> SUFFICES ASSUME NEW r \in Req PROVE <<r>> \in Seq(Req) /\ Elems(<<r>>) = {r} /\ Distinct(<<r>>)
  OBVIOUS
<1>1. <<r>> \in Seq(Req) /\ DOMAIN <<r>> = {1} /\ <<r>>[1] = r
  OBVIOUS
<1> QED BY <1>1 DEF Elems, Distinct

\* A sender pushes what it has on sendPending_.
LEMMA PushMoves ==
    ASSUME TypeOK, TypeOK', WireInv, NEW t \in Thread, PushPending(t)
    PROVE  WireInv'
<1>1. PICK q \in Seq(Req), p \in Seq(Req), loc \in Loc :
          Stream(q, p) /\ Once(q, p) /\ Located(loc, q, p)
  BY DEF WireInv
<1>2. PICK b \in Seq(Req) : b = th[t].batch
  BY DEF TypeOK, Locals
<1>3. /\ sendPending \in Seq(Req) /\ sendPending' = b \o sendPending
      /\ UNCHANGED <<fresh, engine, pendingBuf, wire, folly, sendClosed, spill>>
      /\ th'[t].batch = <<>> /\ \A u \in Thread \ {t} : th'[u] = th[u]
  BY <1>2 DEF PushPending, TypeOK, BufferType, locked, out, Locals
<1>4. Elems(b) \cap Elems(sendPending) = {} /\ Where(loc, Elems(b), BatchTag(t))
  BY <1>1, <1>2, Apart, TagsDiffer DEF Located
<1>5. Elems(sendPending') = Elems(b) \cup Elems(sendPending) /\ Distinct(sendPending')
  BY <1>1, <1>2, <1>3, <1>4, DistinctConcat DEF Once
<1>6. Stream(q, p)'
  BY <1>1, <1>3 DEF Stream
<1>7. Once(q, p)'
  BY <1>1, <1>3, <1>5, ElemsNone DEF Once
<1>8. Shift(q, p, q, p, Elems(b), BatchTag(t), PendingTag)
  <2>1. BatchTag(t) # PendingTag
    BY TagsDiffer
  <2>2. \A u \in Thread : Goes(Elems(th[u].batch), Elems(th'[u].batch), BatchTag(u),
                               Elems(b), BatchTag(t), PendingTag)
    <3>1. Goes(Elems(th[t].batch), Elems(th'[t].batch), BatchTag(t), Elems(b), BatchTag(t), PendingTag)
      BY <1>3, <2>1, GoesHow, ElemsNone
    <3>2. ASSUME NEW u \in Thread \ {t}
          PROVE  Goes(Elems(th[u].batch), Elems(th'[u].batch), BatchTag(u), Elems(b), BatchTag(t), PendingTag)
      BY <1>3, <2>1, GoesHow, TagsDiffer
    <3> QED BY <3>1, <3>2
  <2> QED BY <1>3, <1>5, <2>1, <2>2, GoesHow, TagsDiffer DEF Shift
<1> QED BY <1>1, <1>4, <1>6, <1>7, <1>8, Tags, ElemsReq, Relocates

\* The holder takes sendPending_.
LEMMA TakeMoves ==
    ASSUME TypeOK, TypeOK', WireInv, NEW t \in Thread, TakePending(t)
    PROVE  WireInv'
<1>1. PICK q \in Seq(Req), p \in Seq(Req), loc \in Loc :
          Stream(q, p) /\ Once(q, p) /\ Located(loc, q, p)
  BY DEF WireInv
<1>2. PICK b \in Seq(Req) : b = th[t].batch
  BY DEF TypeOK, Locals
<1>3. /\ sendPending \in Seq(Req) /\ sendPending' = <<>>
      /\ UNCHANGED <<fresh, engine, pendingBuf, wire, folly, sendClosed, spill>>
      /\ th'[t].batch = b \o sendPending /\ \A u \in Thread \ {t} : th'[u] = th[u]
  BY <1>2 DEF TakePending, TypeOK, BufferType, locked, out, Locals
<1>4. /\ Elems(b) \cap Elems(sendPending) = {}
      /\ Where(loc, Elems(sendPending), PendingTag)
  BY <1>1, <1>2, Apart, TagsDiffer DEF Located
<1>5. Elems(th'[t].batch) = Elems(b) \cup Elems(sendPending) /\ Distinct(th'[t].batch)
  BY <1>1, <1>2, <1>3, <1>4, DistinctConcat DEF Once
<1>6. Stream(q, p)'
  BY <1>1, <1>3 DEF Stream
<1>7. Once(q, p)'
  BY <1>1, <1>3, <1>5, ElemsNone DEF Once
<1>8. Shift(q, p, q, p, Elems(sendPending), PendingTag, BatchTag(t))
  <2>1. BatchTag(t) # PendingTag
    BY TagsDiffer
  <2>2. \A u \in Thread : Goes(Elems(th[u].batch), Elems(th'[u].batch), BatchTag(u),
                               Elems(sendPending), PendingTag, BatchTag(t))
    BY <1>2, <1>3, <1>5, <2>1, GoesHow, TagsDiffer
  <2> QED BY <1>3, <2>1, <2>2, GoesHow, TagsDiffer, ElemsNone DEF Shift
<1> QED BY <1>1, <1>3, <1>4, <1>6, <1>7, <1>8, Tags, ElemsReq, Relocates

\* A reader brings a response.
LEMMA SendMoves ==
    ASSUME TypeOK, TypeOK', WireInv, NEW t \in Reader, NEW r \in Req, SendDirect(t, r)
    PROVE  WireInv'
<1>1. PICK q \in Seq(Req), p \in Seq(Req), loc \in Loc :
          Stream(q, p) /\ Once(q, p) /\ Located(loc, q, p)
  BY DEF WireInv
<1>2. t \in Thread /\ th \in [Thread -> Locals]
  BY DEF Thread, TypeOK
<1>3. /\ r \in engine /\ engine' = engine \ {r}
      /\ UNCHANGED <<fresh, sendPending, pendingBuf, wire, folly, sendClosed, spill>>
      /\ th'[t].batch = <<r>> /\ \A u \in Thread \ {t} : th'[u] = th[u]
  BY <1>2 DEF SendDirect, Rest, locked, out
<1>4. Where(loc, {r}, EngineTag)
  BY <1>1, <1>3 DEF Located, Where
<1>5. Elems(th'[t].batch) = {r} /\ Distinct(th'[t].batch)
  BY <1>3, OneElem
<1>6. Stream(q, p)'
  BY <1>1, <1>3 DEF Stream
<1>7. Once(q, p)'
  BY <1>1, <1>3, <1>5 DEF Once
<1>8. Shift(q, p, q, p, {r}, EngineTag, BatchTag(t))
  <2>1. BatchTag(t) # EngineTag
    BY <1>2, TagsDiffer
  <2>2. \A u \in Thread : Goes(Elems(th[u].batch), Elems(th'[u].batch), BatchTag(u),
                               {r}, EngineTag, BatchTag(t))
    BY <1>2, <1>3, <1>5, <2>1, GoesHow, TagsDiffer
  <2> QED BY <1>2, <1>3, <2>1, <2>2, GoesHow, TagsDiffer DEF Shift
<1> QED BY <1>1, <1>2, <1>4, <1>6, <1>7, <1>8, Tags, Relocates

\* A request is parsed.
LEMMA ReceiveMoves ==
    ASSUME TypeOK, TypeOK', WireInv, NEW r \in Req, Receive(r)
    PROVE  WireInv'
<1>1. PICK q \in Seq(Req), p \in Seq(Req), loc \in Loc :
          Stream(q, p) /\ Once(q, p) /\ Located(loc, q, p)
  BY DEF WireInv
<1>2. Loop \in Thread /\ th \in [Thread -> Locals] /\ FreshTag # EngineTag
      /\ FreshTag # BufferTag /\ FreshTag # BatchTag(Loop)
  BY TagsDiffer DEF Thread, TypeOK
<1>3. /\ r \in fresh /\ fresh' = fresh \ {r}
      /\ UNCHANGED <<sendPending, wire, folly, sendClosed, spill>>
      /\ \A u \in Thread \ {Loop} : th'[u] = th[u]
  BY <1>2 DEF Receive, Goto, locked, out
<1>4. Where(loc, {r}, FreshTag)
  BY <1>1, <1>3 DEF Located, Where
<1>5. CASE /\ engine' = engine \cup {r} /\ pendingBuf' = pendingBuf /\ Goto(Loop, "flush")
  <2>1. \A u \in Thread : th'[u].batch = th[u].batch
    BY <1>2, <1>5 DEF Goto, Locals
  <2>2. Stream(q, p)' /\ Once(q, p)'
    BY <1>1, <1>3, <1>5, <2>1 DEF Stream, Once
  <2>3. Shift(q, p, q, p, {r}, FreshTag, EngineTag)
    BY <1>2, <1>3, <1>5, <2>1, GoesHow, TagsDiffer DEF Shift
  <2> QED BY <1>1, <1>4, <2>2, <2>3, Tags, Relocates
<1>6. ASSUME NEW pc, engine' = engine, pendingBuf' = pendingBuf \o Frames(<<r>>), Goto(Loop, pc)
      PROVE  WireInv'
  <2>1. \A u \in Thread : th'[u].batch = th[u].batch
    BY <1>2, <1>6 DEF Goto, Locals
  <2>2. PICK p1 \in Seq(Req) : p1 = p \o <<r>>
    BY OneElem, DistinctConcat
  <2>3. Elems(p) \cap {r} = {}
    BY <1>1, <1>2, <1>4, Apart DEF Located
  <2>4. Elems(p1) = Elems(p) \cup {r} /\ Distinct(p1)
    <3>1. PICK o \in Seq(Req) : o = <<r>> /\ Elems(o) = {r} /\ Distinct(o)
      BY OneElem
    <3>2. Distinct(p) /\ Elems(p) \cap Elems(o) = {} /\ p1 = p \o o
      BY <1>1, <2>2, <2>3, <3>1 DEF Once
    <3>3. Elems(p \o o) = Elems(p) \cup Elems(o)
      BY DistinctConcat
    <3>4. Distinct(p \o o)
      BY <3>1, <3>2, DistinctConcat
    <3> QED BY <3>1, <3>2, <3>3, <3>4
  <2>5. pendingBuf' = Frames(p1)
    BY <1>1, <1>6, <2>2, OneElem, FramesConcat DEF Stream
  <2>6. Stream(q, p1)'
    BY <1>1, <1>3, <2>5 DEF Stream
  <2>7. Once(q, p1)'
    BY <1>1, <1>3, <2>1, <2>4 DEF Once
  <2>8. Shift(q, p, q, p1, {r}, FreshTag, BufferTag)
    BY <1>2, <1>3, <1>6, <2>1, <2>4, GoesHow, TagsDiffer DEF Shift
  <2> QED BY <1>1, <1>4, <2>6, <2>7, <2>8, Tags, Relocates
<1>7. CASE /\ th' = [th EXCEPT ![Loop].pc = "chain", ![Loop].batch = <<r>>]
           /\ UNCHANGED <<engine, pendingBuf>>
  <2>1. th'[Loop].batch = <<r>>
    BY <1>2, <1>7 DEF Locals
  <2>2. Elems(th'[Loop].batch) = {r} /\ Distinct(th'[Loop].batch)
    BY <2>1, OneElem
  <2>3. Stream(q, p)' /\ Once(q, p)'
    BY <1>1, <1>3, <1>7, <2>2 DEF Stream, Once
  <2>4. \A u \in Thread : Goes(Elems(th[u].batch), Elems(th'[u].batch), BatchTag(u),
                               {r}, FreshTag, BatchTag(Loop))
    BY <1>2, <1>3, <2>2, GoesHow, TagsDiffer
  <2>5. Shift(q, p, q, p, {r}, FreshTag, BatchTag(Loop))
    BY <1>2, <1>3, <1>7, <2>4, GoesHow, TagsDiffer DEF Shift
  <2> QED BY <1>1, <1>2, <1>4, <2>3, <2>5, Tags, Relocates
<1> QED BY <1>5, <1>6, <1>7 DEF Receive

-----------------------------------------------------------------------------
(* Frames change places *)

\* The requests b leave their place, and their frames follow the stream.
Leaves(q, p, p1, loc, b, old) ==
    /\ Once(q, p) /\ Located(loc, q, p)
    /\ old # SentTag /\ old # FreshTag /\ old # EngineTag /\ old # PendingTag
    /\ Where(loc, Elems(b), old) /\ Distinct(b)
    /\ UNCHANGED <<fresh, engine, sendPending>>
    /\ \A u \in Thread : \/ th'[u].batch = <<>>
                         \/ th'[u].batch = th[u].batch /\ BatchTag(u) # old
    /\ p1 = <<>> \/ (p1 = p /\ BufferTag # old)
    /\ pendingBuf' = Frames(p1)
    /\ \E u \in Seq(Half) : (wire' \o folly') \o u = Frames(q \o b)
    /\ ~sendClosed' => (wire' \o folly') \o spill' = Frames(q \o b)

\* A batch or a buffer whose frames follow the stream is part of what was given
\* to the socket from now on.
LEMMA Sends ==
    ASSUME TypeOK', NEW q \in Seq(Req), NEW p \in Seq(Req), NEW p1 \in Seq(Req),
           NEW loc \in Loc, NEW b \in Seq(Req), NEW old, Leaves(q, p, p1, loc, b, old)
    PROVE  WireInv'
<1> USE DEF Leaves
<1>1. Elems(q) \cap Elems(b) = {}
  BY Apart DEF Located
<1>2. PICK q1 \in Seq(Req) : q1 = q \o b
  BY DistinctConcat
<1>3. Elems(q1) = Elems(q) \cup Elems(b)
  BY <1>2, DistinctConcat
<1>4. Distinct(q1)
  BY <1>1, <1>2, DistinctConcat DEF Once
<1>5. Stream(q1, p1)'
  BY <1>2 DEF Stream
<1>6. Once(q1, p1)'
  BY <1>4, ElemsNone DEF Once
<1>7. Shift(q, p, q1, p1, Elems(b), old, SentTag)
  <2>1. Goes(Elems(q), Elems(q1), SentTag, Elems(b), old, SentTag)
    BY <1>3, GoesHow
  <2>2. \A S, g : Goes(S, Elems(<<>>), g, Elems(b), old, SentTag)
    BY ElemsNone DEF Goes
  <2>3. Goes(Elems(p), Elems(p1), BufferTag, Elems(b), old, SentTag)
    BY <2>2, GoesHow
  <2>4. \A w \in Thread : Goes(Elems(th[w].batch), Elems(th'[w].batch), BatchTag(w),
                               Elems(b), old, SentTag)
    BY <2>2, GoesHow
  <2>5. /\ Goes(fresh, fresh', FreshTag, Elems(b), old, SentTag)
        /\ Goes(engine, engine', EngineTag, Elems(b), old, SentTag)
        /\ Goes(Elems(sendPending), Elems(sendPending'), PendingTag, Elems(b), old, SentTag)
    BY GoesHow
  <2> QED BY <2>1, <2>3, <2>4, <2>5 DEF Shift
<1> QED BY <1>5, <1>6, <1>7, Tags, ElemsReq, Relocates

\* A batch is written to the socket or spilled.
LEMMA WriteMoves ==
    ASSUME TypeOK, TypeOK', WireInv, NEW t \in Thread, WriteDirect(t)
    PROVE  WireInv'
<1>1. PICK q \in Seq(Req), p \in Seq(Req), loc \in Loc :
          Stream(q, p) /\ Once(q, p) /\ Located(loc, q, p)
  BY DEF WireInv
<1>2. PICK b \in Seq(Req) : b = th[t].batch
  BY DEF TypeOK, Locals
<1>3. PICK f \in Seq(Half) : f = Frames(b)
  BY FramesOf
<1>4. /\ UNCHANGED <<fresh, engine, sendPending, pendingBuf>>
      /\ th \in [Thread -> Locals]
      /\ wire \in Seq(Half) /\ folly \in Seq(Half) /\ spill \in Seq(Half)
  BY DEF WriteDirect, TypeOK, BufferType
<1>5. CASE Goto(t, "unlock") /\ UNCHANGED <<locked, out>>
  <2>1. \A u \in Thread : th'[u].batch = th[u].batch
    BY <1>4, <1>5 DEF Goto, Locals
  <2> QED BY <1>4, <1>5, <2>1, SameStreamKeeps DEF Stays, locked, out
<1>6. ASSUME NEW c, th' = [th EXCEPT ![t].pc = "unlock", ![t].batch = <<>>, ![t].chunks = c]
      PROVE  th'[t].batch = <<>> /\ \A u \in Thread \ {t} : th'[u] = th[u]
  BY <1>4, <1>6 DEF Locals
<1>7. ASSUME NEW c, th' = [th EXCEPT ![t].pc = "unlock", ![t].batch = <<>>, ![t].chunks = c],
             UNCHANGED <<locked, out>>
      PROVE  WireInv'
  <2>1. \A u \in Thread : th'[u].batch = th[u].batch \/ th'[u].batch = <<>>
    BY <1>6, <1>7
  <2> QED BY <1>4, <1>7, <2>1, SameStreamKeeps DEF Stays, locked, out
<1>8. ASSUME NEW c, th' = [th EXCEPT ![t].pc = "unlock", ![t].batch = <<>>, ![t].chunks = c],
             NEW n \in 0..Len(f), ~sendClosed, n > 0 => MayWrite,
             wire' = wire \o SubSeq(f, 1, n), spill' = spill \o SubSeq(f, n + 1, Len(f)),
             UNCHANGED <<sendClosed, folly>>
      PROVE  WireInv'
  <2>1. wire \o folly \in Seq(Half) /\ (wire \o folly) \o spill = Frames(q)
    BY <1>1, <1>4, <1>8, ConcatProperties DEF Stream
  <2>2. (wire' \o folly') \o spill' = ((wire \o folly) \o spill) \o f
    <3>1. PICK x \in Seq(Half), y \in Seq(Half) :
              /\ x = SubSeq(f, 1, n) /\ y = SubSeq(f, n + 1, Len(f))
              /\ x \o y = f /\ (n > 0 \/ x = <<>>)
      BY <1>8, TwoParts
    <3>2. wire' = wire \o x /\ spill' = spill \o y /\ folly' = folly
      BY <1>8, <3>1
    <3>3. CASE folly = <<>> /\ spill = <<>>
      <4>0. Follows(wire, x, spill, y, f)
        BY <1>4, <3>1, <3>3, MovesOn
      <4>1. (wire \o x) \o (spill \o y) = (wire \o spill) \o f
        BY <4>0 DEF Follows
      <4>2. wire \o x \in Seq(Half)
        BY <1>4, ConcatProperties
      <4>3. wire \o folly = wire /\ (wire \o x) \o folly = wire \o x
        BY <1>4, <3>3, <4>2, ConcatEmptySeq
      <4> QED BY <3>2, <4>1, <4>3
    <3>4. CASE x = <<>>
      <4>1. wire \o x = wire /\ y = f
        BY <1>4, <3>1, <3>4, ConcatEmptySeq
      <4>2. ((wire \o folly) \o spill) \o f = (wire \o folly) \o (spill \o f)
        BY <1>4, <2>1, Assoc
      <4> QED BY <3>2, <4>1, <4>2
    <3> QED BY <1>8, <3>1, <3>3, <3>4 DEF MayWrite
  <2>3. (wire' \o folly') \o spill' = Frames(q \o b)
    BY <1>3, <2>1, <2>2, FramesConcat
  <2>4. spill' \in Seq(Half)
    BY DEF TypeOK, BufferType
  <2>5. Where(loc, Elems(b), BatchTag(t)) /\ Distinct(b) /\ pendingBuf' = Frames(p)
    BY <1>1, <1>2, <1>4 DEF Located, Once, Stream
  <2>6. \A u \in Thread : \/ th'[u].batch = <<>>
                          \/ th'[u].batch = th[u].batch /\ BatchTag(u) # BatchTag(t)
    BY <1>6, <1>8, TagsDiffer
  <2>7. /\ BatchTag(t) # SentTag /\ BatchTag(t) # FreshTag /\ BatchTag(t) # EngineTag
        /\ BatchTag(t) # PendingTag /\ BufferTag # BatchTag(t)
    BY TagsDiffer
  <2>8. Leaves(q, p, p, loc, b, BatchTag(t))
    BY <1>1, <1>4, <2>3, <2>4, <2>5, <2>6, <2>7 DEF Leaves
  <2> QED BY <2>8, Sends
<1> QED
  <2> DEFINE c(post) == Append(th[t].chunks, [k |-> Len(th[t].batch), post |-> post])
  <2>1. \/ Goto(t, "unlock") /\ UNCHANGED <<locked, out>>
        \/ /\ th' = [th EXCEPT ![t].pc = "unlock", ![t].batch = <<>>, ![t].chunks = c(FALSE)]
           /\ UNCHANGED <<locked, out>>
        \/ \E n \in 0..Len(f) :
             /\ ~sendClosed /\ (n > 0 => MayWrite)
             /\ wire' = wire \o SubSeq(f, 1, n) /\ spill' = spill \o SubSeq(f, n + 1, Len(f))
             /\ th' = [th EXCEPT ![t].pc = "unlock", ![t].batch = <<>>,
                                 ![t].chunks = c(n < Len(f) /\ SpillPosts)]
             /\ UNCHANGED <<sendClosed, folly>>
    BY <1>2, <1>3 DEF WriteDirect
  <2> HIDE DEF c
  <2> QED BY <2>1, <1>5, <1>7, <1>8

\* folly writes more of what it has.
LEMMA FollyMoves ==
    ASSUME TypeOK, TypeOK', WireInv, FollyWrite
    PROVE  WireInv'
<1>1. PICK q \in Seq(Req), p \in Seq(Req), loc \in Loc :
          Stream(q, p) /\ Once(q, p) /\ Located(loc, q, p)
  BY DEF WireInv
<1>2. PICK n \in 1..Len(folly) : /\ wire' = wire \o SubSeq(folly, 1, n)
                                 /\ folly' = SubSeq(folly, n + 1, Len(folly))
  BY DEF FollyWrite
<1>3. wire \in Seq(Half) /\ folly \in Seq(Half) /\ n \in 0..Len(folly)
  BY <1>2 DEF TypeOK, BufferType
<1>4. PICK x \in Seq(Half) : x = SubSeq(folly, 1, n)
  BY <1>3, Cut
<1>5. PICK y \in Seq(Half) : y = SubSeq(folly, n + 1, Len(folly))
  BY <1>3, Cut
<1>6. x \o y = folly
  BY <1>3, <1>4, <1>5, CutWhole
<1>7. wire' \o folly' = wire \o folly
  <2>1. (wire \o x) \o y = wire \o (x \o y)
    BY <1>3, Assoc
  <2> QED BY <1>2, <1>4, <1>5, <1>6, <2>1
<1>8. UNCHANGED <<fresh, engine, sendPending, pendingBuf, sendClosed, spill, th>>
  BY DEF FollyWrite, locked
<1>9. Stream(q, p)'
  BY <1>1, <1>7, <1>8 DEF Stream
<1>10. Stays
  BY <1>8 DEF Stays
<1> QED BY <1>1, <1>9, <1>10, StaysKeeps

\* What is thrown away when the connection closes is the end of the stream.
LEMMA Drops ==
    ASSUME TypeOK, TypeOK', WireInv, Stays, UNCHANGED wire, folly' = <<>>, sendClosed',
           pendingBuf' = pendingBuf \/ pendingBuf' = <<>>
    PROVE  WireInv'
<1>1. PICK q \in Seq(Req), p \in Seq(Req), loc \in Loc :
          Stream(q, p) /\ Once(q, p) /\ Located(loc, q, p)
  BY DEF WireInv
<1>2. wire \in Seq(Half) /\ folly \in Seq(Half)
  BY DEF TypeOK, BufferType
<1>3. PICK u \in Seq(Half) : (wire \o folly) \o u = Frames(q)
  BY <1>1 DEF Stream
<1>4. folly \o u \in Seq(Half) /\ (wire' \o folly') \o (folly \o u) = Frames(q)
  <2>1. wire \o <<>> = wire
    BY <1>2, ConcatEmptySeq
  <2>2. (wire \o folly) \o u = wire \o (folly \o u)
    BY <1>2, Assoc
  <2>3. folly \o u \in Seq(Half)
    BY <1>2, ConcatProperties
  <2> QED BY <1>3, <2>1, <2>2, <2>3
<1>5. Frames(<<>>) = <<>> /\ <<>> \in Seq(Req)
  BY FramesOf, EmptySeq
<1>6. PICK p1 \in Seq(Req) : (p1 = p \/ p1 = <<>>) /\ pendingBuf' = Frames(p1)
  BY <1>1, <1>5 DEF Stream
<1>7. Stream(q, p1)'
  BY <1>4, <1>6 DEF Stream
<1> QED BY <1>1, <1>6, <1>7, StaysKeeps

\* destroy closes the socket.
LEMMA ClosedMoves ==
    ASSUME DInv, TypeOK', WireInv, Closed
    PROVE  WireInv'
<1>1. th \in [Thread -> Locals] /\ Loop \in Thread /\ TypeOK
  BY DEF DInv, TypeOK, Thread
<1>2. \A u \in Thread : th'[u].batch = th[u].batch
  BY <1>1 DEF Closed, Locals
<1>3. sendClosed
  BY DEF DInv, Life, ClosingPc, Closed, At, Closing
<1>4. /\ UNCHANGED <<fresh, engine, sendPending, sendClosed, wire>>
      /\ folly' = <<>> /\ pendingBuf' = <<>>
  BY DEF Closed, locked
<1> QED BY <1>1, <1>2, <1>3, <1>4, Drops DEF Stays

\* The spill and a buffer or a chain go to folly, or are lost with the socket.
LEMMA FlushMoves ==
    ASSUME DInv, TypeOK', WireInv, FlushPending \/ WriteChainLocked
    PROVE  WireInv'
<1>1. PICK q \in Seq(Req), p \in Seq(Req), loc \in Loc :
          Stream(q, p) /\ Once(q, p) /\ Located(loc, q, p)
  BY DEF WireInv
<1>2. th \in [Thread -> Locals] /\ Loop \in Thread /\ TypeOK
  BY DEF DInv, TypeOK, Thread
<1>3. /\ wire \in Seq(Half) /\ folly \in Seq(Half) /\ spill \in Seq(Half)
      /\ spill' = <<>> /\ UNCHANGED <<fresh, engine, sendPending>>
  BY <1>2 DEF TypeOK, BufferType, FlushPending, WriteChainLocked
<1>4. ~sendClosed
  BY DEF DInv, Life, Quiet, FlushPending, WriteChainLocked, At, LoopIdle, Closing, Open
<1>5. ASSUME NEW b1, NEW b2, FailInWrite(b1, b2), pendingBuf' = pendingBuf \/ pendingBuf' = <<>>
      PROVE  WireInv'
  <2>1. /\ th' = [th EXCEPT ![Loop].pc = "drain", ![Loop].ret = "closed",
                            ![Loop].depth = 1, ![Loop].batch = <<>>]
        /\ folly' = <<>> /\ sendClosed' /\ UNCHANGED wire
    BY <1>5 DEF FailInWrite
  <2>2. \A u \in Thread : th'[u].batch = th[u].batch \/ th'[u].batch = <<>>
    BY <1>2, <2>1 DEF Locals
  <2> QED BY <1>2, <1>3, <1>5, <2>1, <2>2, Drops DEF Stays
<1> DEFINE Away(old) == /\ old # SentTag /\ old # FreshTag /\ old # EngineTag /\ old # PendingTag
                        /\ \A u \in Thread \ {Loop} : BatchTag(u) # old
           Rests(p1, old) == p1 = <<>> \/ (p1 = p /\ BufferTag # old)
<1>6. ASSUME NEW b \in Seq(Req), NEW old, Away(old), Where(loc, Elems(b), old), Distinct(b),
             NEW p1 \in Seq(Req), Rests(p1, old), pendingBuf' = Frames(p1),
             NEW pc, HandToFolly(spill, Frames(b), pc)
      PROVE  WireInv'
  <2>1. PICK c \in Seq(Half) : c = Frames(b)
    BY FramesOf
  <2>2. PICK f \in Seq(Half) : f = spill \o c
    BY <1>3, <2>1, ConcatProperties
  <2>3. PICK n \in 0..Len(f) : /\ n > 0 => folly = <<>>
                               /\ wire' = wire \o SubSeq(f, 1, n)
                               /\ folly' = folly \o SubSeq(f, n + 1, Len(f))
    BY <1>6, <2>1, <2>2 DEF HandToFolly
  <2>4. wire' \o folly' = (wire \o folly) \o f
    <3>1. PICK x \in Seq(Half), y \in Seq(Half) :
              /\ x = SubSeq(f, 1, n) /\ y = SubSeq(f, n + 1, Len(f))
              /\ x \o y = f /\ (n > 0 \/ x = <<>>)
      BY TwoParts
    <3>2. wire' = wire \o x /\ folly' = folly \o y /\ (folly = <<>> \/ x = <<>>)
      BY <2>3, <3>1
    <3>4. Follows(wire, x, folly, y, f)
      BY <1>3, <3>1, <3>2, MovesOn
    <3>3. (wire \o x) \o (folly \o y) = (wire \o folly) \o f
      BY <3>4 DEF Follows
    <3> QED BY <3>2, <3>3
  <2>5. wire \o folly \in Seq(Half)
    BY <1>3, ConcatProperties
  <2>6. (wire \o folly) \o f = ((wire \o folly) \o spill) \o c
    BY <1>3, <2>1, <2>2, <2>5, Assoc
  <2>7. ((wire \o folly) \o spill) \o c = Frames(q \o b)
    <3>1. (wire \o folly) \o spill = Frames(q)
      BY <1>1, <1>4 DEF Stream
    <3>2. Frames(q \o b) = Frames(q) \o Frames(b)
      BY FramesConcat
    <3> QED BY <2>1, <3>1, <3>2
  <2>8. <<>> \in Seq(Half) /\ wire' \o folly' \in Seq(Half)
    BY <2>2, <2>4, <2>5, EmptySeq, ConcatProperties
  <2>9. (wire' \o folly') \o <<>> = Frames(q \o b)
    BY <2>4, <2>6, <2>7, <2>8, ConcatEmptySeq
  <2>10. /\ th' = [th EXCEPT ![Loop].pc = pc, ![Loop].depth = 1, ![Loop].batch = <<>>]
    BY <1>6 DEF HandToFolly
  <2>11. \A u \in Thread : \/ th'[u].batch = <<>>
                           \/ th'[u].batch = th[u].batch /\ BatchTag(u) # old
    BY <1>2, <1>6, <2>10 DEF Locals
  <2>12. /\ old # SentTag /\ old # FreshTag /\ old # EngineTag /\ old # PendingTag
         /\ p1 = <<>> \/ (p1 = p /\ BufferTag # old)
    BY <1>6
  <2>13. Where(loc, Elems(b), old) /\ Distinct(b) /\ pendingBuf' = Frames(p1)
    BY <1>6
  <2>14. (wire' \o folly') \o spill' = Frames(q \o b)
    BY <1>3, <2>9
  <2>15. Once(q, p) /\ Located(loc, q, p) /\ UNCHANGED <<fresh, engine, sendPending>>
    BY <1>1, <1>3
  <2>16. PICK e \in Seq(Half) : (wire' \o folly') \o e = Frames(q \o b)
    BY <2>8, <2>9
  <2>17. Leaves(q, p, p1, loc, b, old)
    BY <2>11, <2>12, <2>13, <2>14, <2>15, <2>16 DEF Leaves
  <2> QED BY <2>17, Sends
<1>9. Away(BufferTag) /\ Away(BatchTag(Loop)) /\ Rests(<<>>, BufferTag) /\ Rests(p, BatchTag(Loop))
  BY <1>2, TagsDiffer
<1> HIDE DEF Away, Rests
<1>7. CASE FlushPending
  <2>1. /\ HandToFolly(spill, pendingBuf, "unlockF") \/ FailInWrite(spill, pendingBuf)
        /\ pendingBuf' = <<>>
    BY <1>7 DEF FlushPending
  <2>2. pendingBuf = Frames(p) /\ Where(loc, Elems(p), BufferTag) /\ Distinct(p)
    BY <1>1 DEF Stream, Located, Once
  <2>3. Frames(<<>>) = <<>> /\ <<>> \in Seq(Req)
    BY FramesOf, EmptySeq
  <2>4. CASE HandToFolly(spill, pendingBuf, "unlockF")
    <3>1. pendingBuf' = Frames(<<>>) /\ HandToFolly(spill, Frames(p), "unlockF")
      BY <2>1, <2>2, <2>3, <2>4
    <3> QED BY <1>6, <1>9, <2>2, <2>3, <3>1
  <2> QED BY <1>5, <2>1, <2>4
<1>8. CASE WriteChainLocked
  <2>1. PICK b \in Seq(Req) : b = th[Loop].batch
    BY <1>2 DEF Locals
  <2>2. /\ HandToFolly(spill, Frames(b), "unlockH") \/ FailInWrite(spill, Frames(b))
        /\ pendingBuf' = pendingBuf
    BY <1>8, <2>1 DEF WriteChainLocked
  <2>3. /\ pendingBuf' = Frames(p) /\ Where(loc, Elems(b), BatchTag(Loop)) /\ Distinct(b)
    BY <1>1, <1>2, <2>1, <2>2 DEF Stream, Located, Once
  <2>4. CASE HandToFolly(spill, Frames(b), "unlockH")
    BY <1>6, <1>9, <2>3, <2>4
  <2> QED BY <1>5, <2>2, <2>4
<1> QED BY <1>7, <1>8

\* Nothing has been sent.
LEMMA InitWire == Init => WireInv
<1> SUFFICES ASSUME Init PROVE WireInv
  OBVIOUS
<1>1. /\ <<>> \in Seq(Req) /\ <<>> \in Seq(Half) /\ Frames(<<>>) = <<>>
  BY EmptySeq, FramesOf
<1>2. (<<>> \o <<>>) \o <<>> = <<>>
  BY <1>1, ConcatEmptySeq
<1>3. Stream(<<>>, <<>>)
  BY <1>1, <1>2 DEF Stream, Init
<1>4. \A t \in Thread : th[t].batch = <<>>
  BY DEF Init, Rest
<1>5. Once(<<>>, <<>>)
  BY <1>4, ElemsNone DEF Once, Init
<1>6. PICK loc \in Loc : loc = [r \in Req |-> FreshTag]
  BY Tags DEF Loc
<1>7. \A S : Where(loc, {}, S)
  BY DEF Where
<1>8. Where(loc, fresh, FreshTag)
  BY <1>6 DEF Where, Init
<1>9. Located(loc, <<>>, <<>>)
  BY <1>4, <1>7, <1>8, ElemsNone DEF Located, Init
<1> QED BY <1>1, <1>3, <1>5, <1>9 DEF WireInv

\* Every step keeps the stream.
LEMMA NextWire ==
    ASSUME DInv, TypeOK', WireInv, [Next]_vars
    PROVE  WireInv'
<1>1. TypeOK /\ Loop \in Thread /\ Reader \subseteq Thread
  BY DEF DInv, Thread
<1>2. ASSUME NEW t \in Thread, SendStep(t) PROVE WireInv'
  BY <1>1, <1>2, PushMoves, TakeMoves, WriteMoves, SendStays DEF SendStep
<1>3. ASSUME NEW t \in Reader, ReaderStep(t) PROVE WireInv'
  BY <1>1, <1>2, <1>3, SendMoves DEF ReaderStep
<1>4. CASE LoopStep
  BY <1>1, <1>2, <1>4, FlushMoves, ClosedMoves, LoopStays DEF LoopStep
<1>5. CASE CallbackStep
  BY <1>1, <1>5, FollyMoves, LoopStays DEF CallbackStep
<1>6. CASE \E r \in Req : Receive(r)
  BY <1>1, <1>6, ReceiveMoves
<1>7. CASE Wake \/ Destroy \/ MigrateTo \/ Done \/ UNCHANGED vars
  BY <1>1, <1>7, LoopStays
<1> QED BY <1>3, <1>4, <1>5, <1>6, <1>7 DEF Next

\* Odd and even positions.
LEMMA OddEven ==
    \A i \in Nat : /\ i % 2 = 1 => i = 2 * ((i + 1) \div 2) - 1
                  /\ i % 2 # 1 => i % 2 = 0 /\ i \div 2 = (i + 1) \div 2 /\ i # 1
OBVIOUS

\* The frames of distinct requests, or a first part of them, are whole frames, each once.
LEMMA PrefixWellFormed ==
    ASSUME NEW q \in Seq(Req), Distinct(q), NEW w \in Seq(Half), NEW u \in Seq(Half),
           w \o u = Frames(q)
    PROVE  \A i \in DOMAIN w :
              IF i % 2 = 1
                THEN w[i][2] = 1 /\ \A j \in 1..i-1 : w[j] # w[i]
                ELSE w[i] = <<w[i-1][1], 2>>
<1>1. PICK m \in Nat, n \in Nat : m = Len(w) /\ n = Len(q)
  BY LenProperties
<1>2. m <= 2 * n
  <2>1. Len(w \o u) = m + Len(u) /\ Len(u) \in Nat
    BY <1>1, ConcatProperties, LenProperties
  <2>2. Len(Frames(q)) = 2 * n
    BY <1>1, FramesOf
  <2> QED BY <2>1, <2>2
<1>3. ASSUME NEW i \in 1..m
      PROVE  /\ (i + 1) \div 2 \in 1..n
             /\ w[i] = <<q[(i + 1) \div 2], 2 - (i % 2)>>
  <2>1. i \in 1..2 * n /\ (i + 1) \div 2 \in 1..n
    BY <1>2
  <2>2. (w \o u)[i] = w[i]
    <3>1. Len(u) \in Nat
      BY LenProperties
    <3>2. i \in 1 .. Len(w) + Len(u) /\ i <= Len(w)
      BY <1>1, <3>1
    <3> QED BY <3>2, ConcatProperties
  <2>3. Frames(q)[i] = <<q[(i + 1) \div 2], 2 - (i % 2)>>
    BY <1>1, <2>1 DEF Frames
  <2> QED BY <2>1, <2>2, <2>3
<1>4. DOMAIN w = 1..m /\ DOMAIN q = 1..n
  BY <1>1, LenProperties
<1> SUFFICES ASSUME NEW i \in 1..m
             PROVE  /\ i % 2 = 1 => w[i][2] = 1 /\ \A j \in 1..i-1 : w[j] # w[i]
                    /\ i % 2 # 1 => w[i] = <<w[i-1][1], 2>>
  BY <1>4
<1>5. PICK k \in 1..n : k = (i + 1) \div 2 /\ w[i] = <<q[k], 2 - (i % 2)>>
  BY <1>3
<1>6. ASSUME i % 2 = 1, NEW j \in 1..i-1, w[j] = w[i] PROVE FALSE
  <2>1. j \in 1..m
    OBVIOUS
  <2>2. PICK h \in 1..n : h = (j + 1) \div 2 /\ w[j] = <<q[h], 2 - (j % 2)>>
    BY <1>3, <2>1
  <2>3. q[h] = q[k] /\ 2 - (j % 2) = 2 - (i % 2)
    BY <1>5, <1>6, <2>2
  <2>4. h = k
    BY <1>4, <2>3 DEF Distinct
  <2>5. j % 2 = 1
    BY <1>6, <2>3
  <2>6. i \in Nat /\ j \in Nat /\ j # i
    OBVIOUS
  <2>7. i = 2 * k - 1 /\ j = 2 * h - 1
    <3>1. (i + 1) \div 2 = k /\ (j + 1) \div 2 = h
      BY <1>5, <2>2
    <3>2. i = 2 * ((i + 1) \div 2) - 1
      <4>1. i % 2 = 1
        BY <1>6
      <4> HIDE <1>6
      <4> QED BY <2>6, <4>1, OddEven
    <3>3. j = 2 * ((j + 1) \div 2) - 1
      BY <2>5, <2>6, OddEven
    <3> QED BY <3>1, <3>2, <3>3
  <2> QED BY <2>4, <2>6, <2>7
<1>7. ASSUME i % 2 = 1 PROVE w[i][2] = 1
  <2>1. w[i] = <<q[k], 1>>
    BY <1>5, <1>7
  <2> QED BY <2>1
<1>8. ASSUME i % 2 # 1 PROVE w[i] = <<w[i-1][1], 2>>
  <2>1. i - 1 \in 1..m /\ i % 2 = 0 /\ ((i - 1) + 1) \div 2 = (i + 1) \div 2
    <3>1. i \in Nat /\ i % 2 = 0 /\ i \div 2 = (i + 1) \div 2 /\ i # 1
      BY <1>8, OddEven
    <3>2. i - 1 \in 1..m /\ (i - 1) + 1 = i
      BY <3>1
    <3> QED BY <3>1, <3>2
  <2>2. w[i-1] = <<q[k], 2 - ((i - 1) % 2)>>
    BY <1>3, <1>5, <2>1
  <2>3. w[i-1][1] = q[k]
    BY <2>2
  <2> QED BY <1>5, <2>1, <2>3
<1> QED BY <1>6, <1>7, <1>8

\* What the client is sent is whole frames, each once, whichever threads send
\* them and wherever a send stops or the connection closes, for any number of
\* readers and requests (writeDirectLocked, flushPendingImpl, writeChainLocked).
THEOREM WireAlwaysWhole == Spec => []WireWellFormed
<1>1. Init => WireInv
  BY InitWire
<1>2. DInv /\ DInv' /\ WireInv /\ [Next]_vars => WireInv'
  BY NextWire DEF DInv
<1>3. DInv /\ WireInv => WireWellFormed
  <2> SUFFICES ASSUME DInv, WireInv PROVE WireWellFormed
    OBVIOUS
  <2>1. PICK q \in Seq(Req), p \in Seq(Req), loc \in Loc :
            Stream(q, p) /\ Once(q, p) /\ Located(loc, q, p)
    BY DEF WireInv
  <2>2. TypeOK /\ wire \in Seq(Half) /\ folly \in Seq(Half) /\ Distinct(q)
    BY <2>1 DEF DInv, TypeOK, BufferType, Once
  <2>3. PICK u \in Seq(Half) : (wire \o folly) \o u = Frames(q)
    BY <2>1 DEF Stream
  <2>4. wire \o (folly \o u) = Frames(q) /\ folly \o u \in Seq(Half)
    BY <2>2, <2>3, Assoc, ConcatProperties
  <2> QED BY <2>2, <2>4, PrefixWellFormed DEF WireWellFormed
<1> QED BY <1>1, <1>2, <1>3, SendInvariant, PTL DEF Spec

===============================================================================
