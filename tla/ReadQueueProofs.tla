---------------------------- MODULE ReadQueueProofs ----------------------------
(***************************************************************************)
(* Theorems about ReadQueue, for every set of threads, readers, vbuckets   *)
(* and keys, every batch size, owner limit and queue capacity: owner slots *)
(* and depths are counted exactly, and because of that no GET is left      *)
(* waiting without an owner; every GET is in one place until its answer    *)
(* and is answered once; and what was left over is collected first.        *)
(***************************************************************************)
EXTENDS ReadQueue, TLAPS, FiniteSetTheorems, FunctionTheorems, SequenceTheorems

-----------------------------------------------------------------------------
(* The inductive invariant *)

Task == VB \cup {Sentinel}

IOType ==
    /\ iopc \in [IOThreads -> {"read", "count", "arm", "submit"}]
    /\ ioreq \in [IOThreads -> Request \cup {NoRequest}]
    /\ iodepth \in [IOThreads -> Int]
    /\ issued \in 0..MaxReads

VBType ==
    /\ maxOwners \in OwnerLimits
    /\ list \in [VB -> Seq(Request)] /\ overflow \in [VB -> Seq(Request)]
    /\ readOwners \in [VB -> Int] /\ readDepth \in [VB -> Int]

QueueType == taskQueue \in Seq(Task)

WorkerType ==
    /\ wpc \in [Workers -> Wpc]
    /\ wvb \in [Workers -> VB \cup {NoVB}]
    /\ todo \in [Workers -> Seq(VB)] /\ held \in [Workers -> Seq(VB)]
    /\ batch \in [Workers -> Seq(Request)]

\* A thread in EnqueueRead has its request and a reader between taking a task
\* and giving it back has its vbucket.
TaskPc == {"gather", "drain", "sweep", "spill", "count", "release", "peek",
           "recheck", "depth", "rearm", "resubmit"}

MidCall ==
    /\ \A t \in IOThreads : iopc[t] # "read" => ioreq[t] \in Request
    /\ \A w \in Workers : wpc[w] \in TaskPc => wvb[w] \in VB

\* collectRead spills only what is past the cap.
Spilling == \A w \in Workers : wpc[w] = "spill" => Len(batch[w]) > MaxBatch

RTypes == IOType /\ VBType /\ QueueType /\ WorkerType /\ MidCall /\ Spilling

\* The slots are counted before the limit on them is known to hold.
Slotted == \A v \in VB : readOwners[v] = Cardinality(Pos(v, taskQueue))
                                         + Cardinality(Submitting(v))
                                         + Cardinality(ReaderSlots(v))

Limited == \A v \in VB : readOwners[v] <= maxOwners

RInv == RTypes /\ Slotted /\ Limited /\ DepthExact /\ NoStrandedRead

-----------------------------------------------------------------------------
(* Counting by reader *)

TagAll(S) == UNION {{u} \X S[u] : u \in Workers}

\* What the readers hold is counted by reader: when one of them changes what it
\* holds, the total changes by as much.
LEMMA TagChange ==
    ASSUME NEW S, NEW T, NEW w \in Workers,
           \A u \in Workers : IsFiniteSet(S[u]) /\ IsFiniteSet(T[u]),
           \A u \in Workers \ {w} : T[u] = S[u]
    PROVE  /\ Cardinality(TagAll(S)) \in Nat /\ Cardinality(TagAll(T)) \in Nat
           /\ Cardinality(S[w]) \in Nat /\ Cardinality(T[w]) \in Nat
           /\ Cardinality(TagAll(T)) + Cardinality(S[w])
                = Cardinality(TagAll(S)) + Cardinality(T[w])
<1> DEFINE R == UNION {{u} \X S[u] : u \in Workers \ {w}}
<1>1. IsFiniteSet(R)
  <2> DEFINE F == {{u} \X S[u] : u \in Workers \ {w}}
  <2>1. IsFiniteSet(Workers \ {w})
    BY ReadSets, FS_Difference
  <2>2. IsFiniteSet(F)
    <3> DEFINE f == [u \in Workers \ {w} |-> {u} \X S[u]]
    <3>1. f \in Surjection(Workers \ {w}, F)
      BY DEF Surjection
    <3> QED BY <2>1, <3>1, FS_Surjection
  <2>3. ASSUME NEW X \in F PROVE IsFiniteSet(X)
    <3>1. PICK u \in Workers \ {w} : X = {u} \X S[u]
      BY <2>3
    <3>2. IsFiniteSet({u}) /\ IsFiniteSet(S[u])
      BY FS_Singleton
    <3> QED BY <3>1, <3>2, FS_Product
  <2> QED BY <2>2, <2>3, FS_UNION
<1>2. ASSUME NEW U, IsFiniteSet(U)
      PROVE  /\ IsFiniteSet({w} \X U) /\ Cardinality({w} \X U) = Cardinality(U)
             /\ Cardinality(U) \in Nat
             /\ Cardinality(R \cup ({w} \X U)) = Cardinality(R) + Cardinality(U)
  <2>1. IsFiniteSet({w}) /\ Cardinality({w}) = 1
    BY FS_Singleton
  <2>2. IsFiniteSet({w} \X U) /\ Cardinality({w} \X U) = 1 * Cardinality(U)
    BY <1>2, <2>1, FS_Product
  <2>3. Cardinality(U) \in Nat /\ Cardinality(R) \in Nat
    BY <1>1, <1>2, FS_CardinalityType
  <2>4. R \cap ({w} \X U) = {}
    OBVIOUS
  <2>5. Cardinality(R \cup ({w} \X U)) = Cardinality(R) + Cardinality({w} \X U) - 0
    BY <1>1, <2>2, <2>4, FS_Union, FS_EmptySet
  <2> QED BY <2>2, <2>3, <2>5
<1>3. TagAll(S) = R \cup ({w} \X S[w])
  <2>1. TagAll(S) \subseteq R \cup ({w} \X S[w])
    BY DEF TagAll
  <2>2. R \cup ({w} \X S[w]) \subseteq TagAll(S)
    BY DEF TagAll
  <2> QED BY <2>1, <2>2
<1>4. TagAll(T) = R \cup ({w} \X T[w])
  <2>1. TagAll(T) \subseteq R \cup ({w} \X T[w])
    BY DEF TagAll
  <2>2. R \cup ({w} \X T[w]) \subseteq TagAll(T)
    BY DEF TagAll
  <2> QED BY <2>1, <2>2
<1>5. Cardinality(R) \in Nat
  BY <1>1, FS_CardinalityType
<1> HIDE DEF R
<1>6. /\ Cardinality(TagAll(S)) = Cardinality(R) + Cardinality(S[w])
      /\ Cardinality(S[w]) \in Nat
  BY <1>2, <1>3
<1>7. /\ Cardinality(TagAll(T)) = Cardinality(R) + Cardinality(T[w])
      /\ Cardinality(T[w]) \in Nat
  BY <1>2, <1>4
<1> QED BY <1>5, <1>6, <1>7

\* One place more or less, for a set that loses its first place and shifts.
LEMMA PosFinite ==
    ASSUME NEW S, NEW q \in Seq(S), NEW v
    PROVE  /\ IsFiniteSet(Pos(v, q)) /\ Cardinality(Pos(v, q)) \in Nat
           /\ Pos(v, q) \subseteq 1..Len(q)
<1>1. Len(q) \in Nat /\ DOMAIN q = 1..Len(q)
  BY LenProperties
<1>2. IsFiniteSet(1..Len(q))
  BY <1>1, FS_Interval
<1>3. Pos(v, q) \subseteq 1..Len(q)
  BY <1>1 DEF Pos
<1>4. IsFiniteSet(Pos(v, q))
  BY <1>2, <1>3, FS_Subset
<1> QED BY <1>3, <1>4, FS_CardinalityType

\* Whether the vbucket x is v, as a number.
Same(x, v) == IF x = v THEN 1 ELSE 0

\* Appending a task adds one place of its own vbucket.
LEMMA PosAppend ==
    ASSUME NEW S, NEW q \in Seq(S), NEW x \in S, NEW v
    PROVE  Cardinality(Pos(v, Append(q, x))) = Cardinality(Pos(v, q)) + Same(x, v)
<1>1. /\ Len(q) \in Nat /\ DOMAIN q = 1..Len(q)
      /\ DOMAIN Append(q, x) = 1..(Len(q) + 1)
      /\ \A i \in 1..Len(q) : Append(q, x)[i] = q[i]
      /\ Append(q, x)[Len(q) + 1] = x
  BY AppendProperties, LenProperties
<1>2. IsFiniteSet(Pos(v, q)) /\ Cardinality(Pos(v, q)) \in Nat /\ Pos(v, q) \subseteq 1..Len(q)
  BY PosFinite
<1>3. CASE x = v
  <2>1. Pos(v, Append(q, x)) = Pos(v, q) \cup {Len(q) + 1}
    BY <1>1, <1>3 DEF Pos
  <2>2. Len(q) + 1 \notin Pos(v, q)
    BY <1>1, <1>2
  <2> QED BY <1>2, <1>3, <2>1, <2>2, FS_AddElement DEF Same
<1>4. CASE x # v
  <2>1. Pos(v, Append(q, x)) = Pos(v, q)
    BY <1>1, <1>4 DEF Pos
  <2> QED BY <1>2, <1>4, <2>1 DEF Same
<1> QED BY <1>3, <1>4

\* Taking the head of a queue removes one place of its vbucket.
LEMMA PosTail ==
    ASSUME NEW S, NEW q \in Seq(S), q # <<>>, NEW v
    PROVE  Cardinality(Pos(v, q)) = Cardinality(Pos(v, Tail(q))) + Same(Head(q), v)
<1>1. /\ Len(q) \in Nat /\ Len(q) > 0 /\ DOMAIN q = 1..Len(q)
      /\ Head(q) = q[1]
  BY EmptySeq, LenProperties, HeadTailProperties
<1>2. /\ Tail(q) \in Seq(S) /\ DOMAIN Tail(q) = 1..(Len(q) - 1)
      /\ \A i \in 1..(Len(q) - 1) : Tail(q)[i] = q[i + 1]
  BY <1>1, HeadTailProperties, LenProperties
<1> DEFINE P == Pos(v, q) \ {1}
           N == Pos(v, Tail(q))
           f == [i \in N |-> i + 1]
<1>3. IsFiniteSet(N) /\ Cardinality(N) \in Nat /\ IsFiniteSet(Pos(v, q))
  BY <1>2, PosFinite
<1>4. \A i \in N : i \in Nat /\ i + 1 \in P
  BY <1>1, <1>2 DEF Pos
<1>5. \A j \in P : j - 1 \in N /\ f[j - 1] = j
  BY <1>1, <1>2 DEF Pos
<1>6. f \in Bijection(N, P)
  <2>1. f \in [N -> P]
    BY <1>4
  <2>2. \A i, j \in N : f[i] = f[j] => i = j
    BY <1>4
  <2> QED BY <1>5, <2>1, <2>2, Fun_IsBij
<1>7. ExistsBijection(N, P)
  BY <1>6 DEF ExistsBijection
<1>8. Cardinality(P) = Cardinality(N)
  BY <1>3, <1>7, FS_Bijection
<1>9. 1 \in Pos(v, q) <=> Head(q) = v
  BY <1>1 DEF Pos
<1>10. /\ Cardinality(Pos(v, q)) \in Nat
       /\ Cardinality(P) = IF 1 \in Pos(v, q) THEN Cardinality(Pos(v, q)) - 1
                           ELSE Cardinality(Pos(v, q))
  BY <1>3, FS_RemoveElement, FS_CardinalityType
<1> QED BY <1>3, <1>8, <1>9, <1>10 DEF Same

\* Sentinels are no task of a vbucket.
LEMMA PosSentinels ==
    ASSUME NEW q \in Seq(Task), NEW n \in Nat
    PROVE  /\ q \o Sentinels(n) \in Seq(Task)
           /\ \A v \in VB : Pos(v, q \o Sentinels(n)) = Pos(v, q)
<1>1. Sentinels(n) \in Seq(Task) /\ Len(Sentinels(n)) = n
  <2>1. Sentinels(n) \in [1..n -> Task]
    BY DEF Sentinels, Task
  <2> QED BY <2>1, IsASeq, LenProperties
<1>2. /\ Len(q) \in Nat /\ DOMAIN q = 1..Len(q)
      /\ q \o Sentinels(n) \in Seq(Task)
      /\ DOMAIN (q \o Sentinels(n)) = 1..(Len(q) + n)
  <2>1. q \o Sentinels(n) \in Seq(Task) /\ Len(q \o Sentinels(n)) = Len(q) + n
    BY <1>1, ConcatProperties
  <2>2. DOMAIN (q \o Sentinels(n)) = 1..Len(q \o Sentinels(n))
    BY <2>1, LenProperties
  <2> QED BY <2>1, <2>2, LenProperties
<1>3. \A i \in 1..Len(q) : (q \o Sentinels(n))[i] = q[i]
  BY <1>1, <1>2, ConcatProperties
<1>4. \A i \in 1..(Len(q) + n) : i > Len(q) => (q \o Sentinels(n))[i] = Sentinel
  BY <1>1, <1>2, ConcatProperties DEF Sentinels
<1>5. \A v \in VB : v # Sentinel
  BY ReadSets
<1> QED BY <1>2, <1>3, <1>4, <1>5 DEF Pos

-----------------------------------------------------------------------------
(* The slots of a reader *)

Owning(w, v)  == IF wpc[w] \in OwningPc /\ wvb[w] = v THEN 1 ELSE 0
Waiting(w, v) == Cardinality(Pos(v, todo[w])) + Cardinality(Pos(v, held[w]))

\* A reader's slots are the task at hand, the tasks it has yet to collect and
\* the tasks it has yet to release.
SlotsCounted ==
    \A w \in Workers, v \in VB :
        /\ IsFiniteSet(Slots(w, v))
        /\ Cardinality(Slots(w, v)) = Owning(w, v) + Waiting(w, v)
        /\ Owning(w, v) \in Nat /\ Waiting(w, v) \in Nat

\* A reader's slots of a vbucket are finitely many, and counted as above.
LEMMA SlotsCount == WorkerType => SlotsCounted
<1> SUFFICES ASSUME WorkerType, NEW w \in Workers, NEW v \in VB
             PROVE  /\ IsFiniteSet(Slots(w, v))
                    /\ Cardinality(Slots(w, v)) = Owning(w, v) + Waiting(w, v)
                    /\ Owning(w, v) \in Nat /\ Waiting(w, v) \in Nat
  BY DEF SlotsCounted
<1> DEFINE A == IF wpc[w] \in OwningPc /\ wvb[w] = v THEN {<<"task", 0>>} ELSE {}
           B == {"todo"} \X Pos(v, todo[w])
           C == {"held"} \X Pos(v, held[w])
<1>1. /\ IsFiniteSet(Pos(v, todo[w])) /\ Cardinality(Pos(v, todo[w])) \in Nat
      /\ IsFiniteSet(Pos(v, held[w])) /\ Cardinality(Pos(v, held[w])) \in Nat
  <2>1. todo[w] \in Seq(VB) /\ held[w] \in Seq(VB)
    BY DEF WorkerType
  <2> QED BY <2>1, PosFinite
<1>2. IsFiniteSet(A) /\ Cardinality(A) = Owning(w, v) /\ Owning(w, v) \in Nat
  BY FS_Singleton, FS_EmptySet DEF Owning
<1>3. IsFiniteSet(B) /\ Cardinality(B) = Cardinality(Pos(v, todo[w]))
  <2>1. IsFiniteSet({"todo"}) /\ Cardinality({"todo"}) = 1
    BY FS_Singleton
  <2>2. IsFiniteSet(B) /\ Cardinality(B) = 1 * Cardinality(Pos(v, todo[w]))
    BY <1>1, <2>1, FS_Product
  <2> QED BY <1>1, <2>2
<1>4. IsFiniteSet(C) /\ Cardinality(C) = Cardinality(Pos(v, held[w]))
  <2>1. IsFiniteSet({"held"}) /\ Cardinality({"held"}) = 1
    BY FS_Singleton
  <2>2. IsFiniteSet(C) /\ Cardinality(C) = 1 * Cardinality(Pos(v, held[w]))
    BY <1>1, <2>1, FS_Product
  <2> QED BY <1>1, <2>2
<1>5. A \cap B = {} /\ (A \cup B) \cap C = {}
  OBVIOUS
<1>6. Slots(w, v) = (A \cup B) \cup C
  BY DEF Slots
<1> HIDE DEF A, B, C
<1>7. IsFiniteSet(A \cup B) /\ Cardinality(A \cup B) = Cardinality(A) + Cardinality(B) - 0
  BY <1>2, <1>3, <1>5, FS_Union, FS_EmptySet
<1>8. /\ IsFiniteSet((A \cup B) \cup C)
      /\ Cardinality((A \cup B) \cup C) = Cardinality(A \cup B) + Cardinality(C) - 0
  BY <1>4, <1>5, <1>7, FS_Union, FS_EmptySet
<1> QED BY <1>1, <1>2, <1>3, <1>4, <1>6, <1>7, <1>8 DEF Waiting

\* A step of reader w leaves what the others hold alone.
OthersKept(w) ==
    \A u \in Workers \ {w} :
        /\ wpc'[u] = wpc[u] /\ wvb'[u] = wvb[u] /\ batch'[u] = batch[u]
        /\ todo'[u] = todo[u] /\ held'[u] = held[u]

\* Whatever a reader takes or gives back, the slots of all readers change by
\* what its own do.
LEMMA ReaderSlotsChange ==
    ASSUME WorkerType, WorkerType', NEW w \in Workers, OthersKept(w), NEW v \in VB
    PROVE  /\ Cardinality(ReaderSlots(v)) \in Nat /\ Cardinality(ReaderSlots(v)') \in Nat
           /\ Cardinality(ReaderSlots(v)') + Owning(w, v) + Waiting(w, v)
                = Cardinality(ReaderSlots(v)) + Owning(w, v)' + Waiting(w, v)'
<1> DEFINE S == [u \in Workers |-> Slots(u, v)]
           T == [u \in Workers |-> Slots(u, v)']
<1>1. SlotsCounted /\ SlotsCounted'
  BY SlotsCount, PTL
<1>2. \A u \in Workers : IsFiniteSet(S[u]) /\ IsFiniteSet(T[u])
  BY <1>1 DEF SlotsCounted
<1>3. \A u \in Workers \ {w} : T[u] = S[u]
  BY DEF OthersKept, Slots
<1>4. TagAll(S) = ReaderSlots(v)
  BY DEF TagAll, ReaderSlots
<1>5. TagAll(T) = ReaderSlots(v)'
  BY DEF TagAll, ReaderSlots
<1>6. /\ S[w] = Slots(w, v) /\ T[w] = Slots(w, v)'
      /\ Cardinality(Slots(w, v)) = Owning(w, v) + Waiting(w, v)
      /\ Cardinality(Slots(w, v)') = Owning(w, v)' + Waiting(w, v)'
      /\ Owning(w, v) \in Nat /\ Waiting(w, v) \in Nat
      /\ Owning(w, v)' \in Nat /\ Waiting(w, v)' \in Nat
  BY <1>1 DEF SlotsCounted
<1> HIDE DEF S, T
<1>7. /\ Cardinality(TagAll(S)) \in Nat /\ Cardinality(TagAll(T)) \in Nat
      /\ Cardinality(TagAll(T)) + Cardinality(S[w])
           = Cardinality(TagAll(S)) + Cardinality(T[w])
  BY <1>2, <1>3, TagChange
<1> QED BY <1>4, <1>5, <1>6, <1>7

\* The same for the requests that readers have collected and not counted.
LEMMA CollectingChange ==
    ASSUME WorkerType, WorkerType', NEW w \in Workers, OthersKept(w), NEW v \in VB
    PROVE  /\ Cardinality(Collecting(v)) \in Nat /\ Cardinality(Collecting(v)') \in Nat
           /\ Cardinality(Uncounted(w, v)) \in Nat /\ Cardinality(Uncounted(w, v)') \in Nat
           /\ Cardinality(Collecting(v)') + Cardinality(Uncounted(w, v))
                = Cardinality(Collecting(v)) + Cardinality(Uncounted(w, v)')
<1> DEFINE S == [u \in Workers |-> Uncounted(u, v)]
           T == [u \in Workers |-> Uncounted(u, v)']
<1>1. \A u \in Workers : IsFiniteSet(DOMAIN batch[u]) /\ IsFiniteSet(DOMAIN batch'[u])
  <2> SUFFICES ASSUME NEW u \in Workers
               PROVE  IsFiniteSet(DOMAIN batch[u]) /\ IsFiniteSet(DOMAIN batch'[u])
    OBVIOUS
  <2>1. batch[u] \in Seq(Request) /\ batch'[u] \in Seq(Request)
    BY DEF WorkerType
  <2>2. /\ DOMAIN batch[u] = 1..Len(batch[u]) /\ Len(batch[u]) \in Nat
        /\ DOMAIN batch'[u] = 1..Len(batch'[u]) /\ Len(batch'[u]) \in Nat
    BY <2>1, LenProperties
  <2>3. IsFiniteSet(1..Len(batch[u]))
    BY <2>2, FS_Interval
  <2>4. IsFiniteSet(1..Len(batch'[u]))
    BY <2>2, FS_Interval
  <2> QED BY <2>2, <2>3, <2>4
<1>2. \A u \in Workers : IsFiniteSet(S[u]) /\ IsFiniteSet(T[u])
  BY <1>1, FS_EmptySet DEF Uncounted
<1>3. \A u \in Workers \ {w} : T[u] = S[u]
  BY DEF OthersKept, Uncounted
<1>4. TagAll(S) = Collecting(v)
  BY DEF TagAll, Collecting
<1>5. TagAll(T) = Collecting(v)'
  BY DEF TagAll, Collecting
<1>6. S[w] = Uncounted(w, v) /\ T[w] = Uncounted(w, v)'
  OBVIOUS
<1> HIDE DEF S, T
<1>7. /\ Cardinality(TagAll(S)) \in Nat /\ Cardinality(TagAll(T)) \in Nat
      /\ Cardinality(S[w]) \in Nat /\ Cardinality(T[w]) \in Nat
      /\ Cardinality(TagAll(T)) + Cardinality(S[w])
           = Cardinality(TagAll(S)) + Cardinality(T[w])
  BY <1>2, <1>3, TagChange
<1> QED BY <1>4, <1>5, <1>6, <1>7

-----------------------------------------------------------------------------
(* What a reader does next *)

\* Where a reader goes after collecting a task or giving one back.
AfterPc == {"drain", "serve", "release", "done", "loop", "call"}

TaskType ==
    /\ wpc \in [Workers -> Wpc]
    /\ wvb \in [Workers -> VB \cup {NoVB}]
    /\ todo \in [Workers -> Seq(VB)] /\ held \in [Workers -> Seq(VB)]

\* Reader w goes on with another of its tasks, or with none.
GoesOn(w) ==
    /\ TaskType'
    /\ \A u \in Workers \ {w} : /\ wpc'[u] = wpc[u] /\ wvb'[u] = wvb[u]
                                /\ todo'[u] = todo[u] /\ held'[u] = held[u]
    /\ wpc'[w] \in AfterPc /\ (wpc'[w] \in {"drain", "release"} => wvb'[w] \in VB)

\* executeReadMulti's next task comes out of todo; collecting it is what its
\* slot is for.
LEMMA NextTaskStep ==
    ASSUME TaskType, NEW w \in Workers, NextTask(w), held' \in [Workers -> Seq(VB)],
           \A u \in Workers \ {w} : held'[u] = held[u]
    PROVE  /\ GoesOn(w)
           /\ \A v \in VB : Owning(w, v)' + Cardinality(Pos(v, todo'[w]))
                              = Cardinality(Pos(v, todo[w]))
<1>1. todo[w] \in Seq(VB)
  BY DEF TaskType
<1>2. ASSUME todo[w] # <<>>
      PROVE  /\ wpc' = [wpc EXCEPT ![w] = "drain"]
             /\ wvb' = [wvb EXCEPT ![w] = Head(todo[w])]
             /\ todo' = [todo EXCEPT ![w] = Tail(todo[w])]
             /\ Head(todo[w]) \in VB /\ Tail(todo[w]) \in Seq(VB)
             /\ \A v \in VB : Cardinality(Pos(v, todo[w]))
                   = Cardinality(Pos(v, Tail(todo[w]))) + Same(Head(todo[w]), v)
  <2>1. Head(todo[w]) \in VB /\ Tail(todo[w]) \in Seq(VB)
    BY <1>1, <1>2, HeadTailProperties
  <2>2. \A v \in VB : Cardinality(Pos(v, todo[w]))
                   = Cardinality(Pos(v, Tail(todo[w]))) + Same(Head(todo[w]), v)
    BY <1>1, <1>2, PosTail
  <2> QED BY <1>2, <2>1, <2>2 DEF NextTask, Goto
<1>3. ASSUME todo[w] = <<>>
      PROVE  /\ wpc' = [wpc EXCEPT ![w] = "serve"]
             /\ wvb' = [wvb EXCEPT ![w] = NoVB] /\ todo' = todo
  BY <1>3 DEF NextTask, Goto
<1>4. GoesOn(w)
  <2>1. CASE todo[w] # <<>>
    BY <1>2, <2>1 DEF TaskType, GoesOn, AfterPc, Wpc
  <2>2. CASE todo[w] = <<>>
    BY <1>3, <2>2 DEF TaskType, GoesOn, AfterPc, Wpc
  <2> QED BY <2>1, <2>2
<1>5. ASSUME NEW v \in VB
      PROVE  Owning(w, v)' + Cardinality(Pos(v, todo'[w])) = Cardinality(Pos(v, todo[w]))
  <2>1. CASE todo[w] # <<>>
    <3>1. Owning(w, v)' = Same(Head(todo[w]), v) /\ todo'[w] = Tail(todo[w])
      BY <1>2, <2>1 DEF TaskType, Owning, OwningPc, Same
    <3>2. /\ Cardinality(Pos(v, todo[w]))
                   = Cardinality(Pos(v, Tail(todo[w]))) + Same(Head(todo[w]), v)
          /\ Cardinality(Pos(v, Tail(todo[w]))) \in Nat
      BY <1>2, <2>1, PosFinite
    <3>3. Same(Head(todo[w]), v) \in Nat
      BY DEF Same
    <3> QED BY <3>1, <3>2, <3>3
  <2>2. CASE todo[w] = <<>>
    <3>1. Owning(w, v)' = 0 /\ todo'[w] = todo[w]
      BY <1>3, <2>2 DEF TaskType, Owning, OwningPc
    <3>2. Cardinality(Pos(v, todo[w])) \in Nat
      BY <1>1, PosFinite
    <3> QED BY <3>1, <3>2
  <2> QED BY <2>1, <2>2
<1> QED BY <1>4, <1>5

\* The next task to give back comes out of held.
LEMMA ReleaseNextStep ==
    ASSUME TaskType, NEW w \in Workers, ReleaseNext(w), todo' = todo
    PROVE  /\ GoesOn(w)
           /\ \A v \in VB : Owning(w, v)' + Waiting(w, v)' = Waiting(w, v)
<1>1. held[w] \in Seq(VB) /\ todo[w] \in Seq(VB)
  BY DEF TaskType
<1>2. ASSUME held[w] # <<>>
      PROVE  /\ wpc' = [wpc EXCEPT ![w] = "release"]
             /\ wvb' = [wvb EXCEPT ![w] = Head(held[w])]
             /\ held' = [held EXCEPT ![w] = Tail(held[w])]
             /\ Head(held[w]) \in VB /\ Tail(held[w]) \in Seq(VB)
             /\ \A v \in VB : Cardinality(Pos(v, held[w]))
                   = Cardinality(Pos(v, Tail(held[w]))) + Same(Head(held[w]), v)
  <2>1. Head(held[w]) \in VB /\ Tail(held[w]) \in Seq(VB)
    BY <1>1, <1>2, HeadTailProperties
  <2>2. \A v \in VB : Cardinality(Pos(v, held[w]))
                   = Cardinality(Pos(v, Tail(held[w]))) + Same(Head(held[w]), v)
    BY <1>1, <1>2, PosTail
  <2> QED BY <1>2, <2>1, <2>2 DEF ReleaseNext, Goto
<1>3. ASSUME held[w] = <<>>
      PROVE  /\ wpc' = [wpc EXCEPT ![w] = IF stopAfter[w] THEN "done" ELSE "loop"]
             /\ wvb' = [wvb EXCEPT ![w] = NoVB] /\ held' = held
  BY <1>3 DEF ReleaseNext, Goto
<1>4. GoesOn(w)
  <2>1. CASE held[w] # <<>>
    BY <1>2, <2>1 DEF TaskType, GoesOn, AfterPc, Wpc
  <2>2. CASE held[w] = <<>>
    BY <1>3, <2>2 DEF TaskType, GoesOn, AfterPc, Wpc
  <2> QED BY <2>1, <2>2
<1>5. ASSUME NEW v \in VB PROVE Owning(w, v)' + Waiting(w, v)' = Waiting(w, v)
  <2>0. Cardinality(Pos(v, todo[w])) \in Nat /\ Cardinality(Pos(v, held[w])) \in Nat
    BY <1>1, PosFinite
  <2>1. CASE held[w] # <<>>
    <3>1. Owning(w, v)' = Same(Head(held[w]), v) /\ held'[w] = Tail(held[w])
      BY <1>2, <2>1 DEF TaskType, Owning, OwningPc, Same
    <3>2. /\ Cardinality(Pos(v, held[w]))
                   = Cardinality(Pos(v, Tail(held[w]))) + Same(Head(held[w]), v)
          /\ Cardinality(Pos(v, Tail(held[w]))) \in Nat
      BY <1>2, <2>1, PosFinite
    <3>3. Same(Head(held[w]), v) \in Nat
      BY DEF Same
    <3>4. Waiting(w, v)' = Cardinality(Pos(v, todo[w])) + Cardinality(Pos(v, Tail(held[w])))
      BY <3>1 DEF Waiting, Pos
    <3> QED BY <2>0, <3>1, <3>2, <3>3, <3>4 DEF Waiting
  <2>2. CASE held[w] = <<>>
    <3>1. Owning(w, v)' = 0 /\ held'[w] = held[w]
      BY <1>3, <2>2 DEF TaskType, Owning, OwningPc
    <3>2. Waiting(w, v)' = Waiting(w, v)
      BY <3>1 DEF Waiting, Pos
    <3> QED BY <2>0, <3>1, <3>2 DEF Waiting
  <2> QED BY <2>1, <2>2
<1> QED BY <1>4, <1>5

\* After the release of a task the reader goes on with the others.
LEMMA ReleasedStep ==
    ASSUME TaskType, NEW w \in Workers, Released(w)
    PROVE  /\ GoesOn(w)
           /\ \A v \in VB : Owning(w, v)' + Waiting(w, v)' = Waiting(w, v)
<1>1. CASE todo[w] # <<>>
  <2>1. NextTask(w) /\ held' = held
    BY <1>1 DEF Released
  <2>2. held' \in [Workers -> Seq(VB)]
    BY <2>1 DEF TaskType
  <2>3. /\ GoesOn(w)
        /\ \A v \in VB : Owning(w, v)' + Cardinality(Pos(v, todo'[w]))
                              = Cardinality(Pos(v, todo[w]))
    BY <2>1, <2>2, NextTaskStep
  <2>4. ASSUME NEW v \in VB PROVE Owning(w, v)' + Waiting(w, v)' = Waiting(w, v)
    <3>1. /\ Owning(w, v)' \in Nat /\ Cardinality(Pos(v, todo'[w])) \in Nat
          /\ Cardinality(Pos(v, todo[w])) \in Nat /\ Cardinality(Pos(v, held[w])) \in Nat
      <4>1. todo'[w] \in Seq(VB) /\ todo[w] \in Seq(VB) /\ held[w] \in Seq(VB)
        BY <2>3 DEF GoesOn, TaskType
      <4> QED BY <4>1, PosFinite DEF Owning
    <3>2. Waiting(w, v)' = Cardinality(Pos(v, todo'[w])) + Cardinality(Pos(v, held[w]))
      BY <2>1 DEF Waiting, Pos
    <3> QED BY <2>3, <3>1, <3>2 DEF Waiting
  <2> QED BY <2>3, <2>4
<1>2. CASE todo[w] = <<>> /\ got[w] = {}
  BY <1>2, ReleaseNextStep DEF Released
<1>3. CASE todo[w] = <<>> /\ got[w] # {}
  <2>1. /\ wpc' = [wpc EXCEPT ![w] = IF async THEN "call" ELSE "serve"]
        /\ wvb' = [wvb EXCEPT ![w] = NoVB] /\ todo' = todo /\ held' = held
    BY <1>3 DEF Released, Goto
  <2>2. GoesOn(w)
    BY <2>1 DEF TaskType, GoesOn, AfterPc, Wpc
  <2>3. ASSUME NEW v \in VB PROVE Owning(w, v)' + Waiting(w, v)' = Waiting(w, v)
    <3>1. Owning(w, v)' = 0 /\ Waiting(w, v)' = Waiting(w, v)
      BY <2>1 DEF TaskType, Owning, OwningPc, Waiting, Pos
    <3>2. Waiting(w, v) \in Nat
      <4>1. todo[w] \in Seq(VB) /\ held[w] \in Seq(VB)
        BY DEF TaskType
      <4>2. Cardinality(Pos(v, todo[w])) \in Nat /\ Cardinality(Pos(v, held[w])) \in Nat
        BY <4>1, PosFinite
      <4> QED BY <4>2 DEF Waiting
    <3> QED BY <3>1, <3>2
  <2> QED BY <2>2, <2>3
<1> QED BY <1>1, <1>2, <1>3

-----------------------------------------------------------------------------
(* What a step must do to keep the invariant *)

\* The counts are numbers.
LEMMA CountTypes ==
    ASSUME RTypes, NEW v \in VB
    PROVE  /\ Cardinality(Pos(v, taskQueue)) \in Nat
           /\ IsFiniteSet(Submitting(v)) /\ Cardinality(Submitting(v)) \in Nat
           /\ IsFiniteSet(Pushing(v)) /\ Cardinality(Pushing(v)) \in Nat
           /\ readOwners[v] \in Int /\ readDepth[v] \in Int
           /\ Len(list[v]) \in Nat /\ Len(overflow[v]) \in Nat
<1>1. Cardinality(Pos(v, taskQueue)) \in Nat
  BY PosFinite DEF RTypes, QueueType
<1>2. Submitting(v) \subseteq IOThreads /\ Pushing(v) \subseteq IOThreads
  BY DEF Submitting, Pushing
<1>3. IsFiniteSet(Submitting(v)) /\ IsFiniteSet(Pushing(v))
  BY <1>2, ReadSets, FS_Subset
<1>4. Cardinality(Submitting(v)) \in Nat /\ Cardinality(Pushing(v)) \in Nat
  BY <1>3, FS_CardinalityType
<1>5. list[v] \in Seq(Request) /\ overflow[v] \in Seq(Request)
  BY DEF RTypes, VBType
<1>6. Len(list[v]) \in Nat /\ Len(overflow[v]) \in Nat
  BY <1>5, LenProperties
<1> QED BY <1>1, <1>3, <1>4, <1>6 DEF RTypes, VBType

\* ReaderSlots and Collecting are finite.
LEMMA HeldFinite ==
    ASSUME WorkerType, NEW v \in VB
    PROVE  /\ IsFiniteSet(ReaderSlots(v)) /\ Cardinality(ReaderSlots(v)) \in Nat
           /\ Cardinality(Collecting(v)) \in Nat
<1> DEFINE S == [u \in Workers |-> Slots(u, v)]
           T == [u \in Workers |-> Uncounted(u, v)]
<1>1. ASSUME NEW F, \A u \in Workers : IsFiniteSet(F[u]) PROVE IsFiniteSet(TagAll(F))
  <2> DEFINE G == {{u} \X F[u] : u \in Workers}
             f == [u \in Workers |-> {u} \X F[u]]
  <2>1. f \in Surjection(Workers, G)
    BY DEF Surjection
  <2>2. IsFiniteSet(G)
    BY <2>1, ReadSets, FS_Surjection
  <2>3. ASSUME NEW X \in G PROVE IsFiniteSet(X)
    <3>1. PICK u \in Workers : X = {u} \X F[u]
      BY <2>3
    <3>2. IsFiniteSet({u}) /\ IsFiniteSet(F[u])
      BY <1>1, FS_Singleton
    <3> QED BY <3>1, <3>2, FS_Product
  <2>4. IsFiniteSet(UNION G)
    BY <2>2, <2>3, FS_UNION
  <2> QED BY <2>4 DEF TagAll
<1>2. \A u \in Workers : IsFiniteSet(S[u])
  BY SlotsCount DEF SlotsCounted
<1>3. ASSUME NEW u \in Workers PROVE IsFiniteSet(T[u])
  <2>1. batch[u] \in Seq(Request)
    BY DEF WorkerType
  <2>2. DOMAIN batch[u] = 1..Len(batch[u]) /\ Len(batch[u]) \in Nat
    BY <2>1, LenProperties
  <2>3. IsFiniteSet(1..Len(batch[u]))
    BY <2>2, FS_Interval
  <2> QED BY <2>2, <2>3, FS_EmptySet DEF Uncounted
<1>4. TagAll(S) = ReaderSlots(v)
  BY DEF TagAll, ReaderSlots
<1>5. TagAll(T) = Collecting(v)
  BY DEF TagAll, Collecting
<1> HIDE DEF S, T
<1>6. IsFiniteSet(ReaderSlots(v)) /\ IsFiniteSet(Collecting(v))
  BY <1>1, <1>2, <1>3, <1>4, <1>5
<1> QED BY <1>6, FS_CardinalityType

\* A reader with a task for v has one of v's owner slots, and while v has no
\* owner nobody is collecting.
LEMMA OwnerCounts ==
    ASSUME RTypes, Slotted, NEW v \in VB
    PROVE  /\ readOwners[v] >= 0
           /\ \A w \in Workers :
                wpc[w] \in OwningPc /\ wvb[w] = v => readOwners[v] > 0
           /\ readOwners[v] = 0 => Collecting(v) = {}
<1>1. /\ IsFiniteSet(ReaderSlots(v)) /\ Cardinality(ReaderSlots(v)) \in Nat
  BY HeldFinite DEF RTypes
<1>2. /\ readOwners[v] = Cardinality(Pos(v, taskQueue)) + Cardinality(Submitting(v))
                         + Cardinality(ReaderSlots(v))
      /\ Cardinality(Pos(v, taskQueue)) \in Nat /\ Cardinality(Submitting(v)) \in Nat
  BY CountTypes DEF Slotted
<1>3. readOwners[v] >= 0
  BY <1>1, <1>2
<1>4. ASSUME NEW w \in Workers, wpc[w] \in OwningPc, wvb[w] = v PROVE readOwners[v] > 0
  <2>1. <<w, <<"task", 0>>>> \in ReaderSlots(v)
    BY <1>4 DEF ReaderSlots, Slots
  <2>2. Cardinality(ReaderSlots(v)) # 0
    BY <1>1, <2>1, FS_EmptySet
  <2> QED BY <1>1, <1>2, <2>2
<1>5. ASSUME readOwners[v] = 0 PROVE Collecting(v) = {}
  <2>1. \A w \in Workers : Uncounted(w, v) = {}
    BY <1>4, <1>5 DEF Uncounted, CollectingPc, OwningPc
  <2> QED BY <2>1 DEF Collecting
<1> QED BY <1>3, <1>4, <1>5

\* A step of one reader keeps the slots counted if readOwners changes by what
\* the queue and the reader's own slots do.
LEMMA ReaderSlotted ==
    ASSUME RTypes, RTypes', Slotted, NEW w \in Workers, OthersKept(w),
           iopc' = iopc, ioreq' = ioreq,
           \A v \in VB : readOwners'[v] + Cardinality(Pos(v, taskQueue))
                           + Owning(w, v) + Waiting(w, v)
                         = readOwners[v] + Cardinality(Pos(v, taskQueue'))
                             + Owning(w, v)' + Waiting(w, v)'
    PROVE  Slotted'
<1> SUFFICES ASSUME NEW v \in VB
             PROVE  readOwners'[v] = Cardinality(Pos(v, taskQueue'))
                                     + Cardinality(Submitting(v)')
                                     + Cardinality(ReaderSlots(v)')
  BY DEF Slotted, Pos
<1>1. Submitting(v)' = Submitting(v)
  BY DEF Submitting
<1>2. /\ Cardinality(ReaderSlots(v)) \in Nat /\ Cardinality(ReaderSlots(v)') \in Nat
      /\ Cardinality(ReaderSlots(v)') + Owning(w, v) + Waiting(w, v)
           = Cardinality(ReaderSlots(v)) + Owning(w, v)' + Waiting(w, v)'
  BY ReaderSlotsChange DEF RTypes
<1>3. SlotsCounted /\ SlotsCounted'
  BY SlotsCount, PTL DEF RTypes
<1>4. /\ Owning(w, v) \in Nat /\ Waiting(w, v) \in Nat
      /\ Owning(w, v)' \in Nat /\ Waiting(w, v)' \in Nat
  BY <1>3 DEF SlotsCounted
<1>5. /\ Cardinality(Pos(v, taskQueue)) \in Nat /\ Cardinality(Pos(v, taskQueue')) \in Nat
      /\ Cardinality(Submitting(v)) \in Nat
      /\ readOwners[v] \in Int /\ readOwners'[v] \in Int
  <2>1. taskQueue' \in Seq(Task) /\ readOwners'[v] \in Int
    BY DEF RTypes, QueueType, VBType
  <2> QED BY <2>1, CountTypes, PosFinite
<1>6. readOwners[v] = Cardinality(Pos(v, taskQueue)) + Cardinality(Submitting(v))
                      + Cardinality(ReaderSlots(v))
  BY DEF Slotted
<1> QED BY <1>1, <1>2, <1>4, <1>5, <1>6

\* Arithmetic of the next lemma.
LEMMA DepthSum ==
    ASSUME NEW d \in Int, NEW e \in Int, NEW a \in Nat, NEW b \in Nat, NEW x \in Nat,
           NEW y \in Nat, NEW m \in Nat, NEW n \in Nat, NEW k \in Nat, NEW j \in Nat,
           NEW p \in Nat,
           n + k = m + j, e + a + b + k = d + x + y + j, d = a + b + m - p
    PROVE  e = x + y + n - p
OBVIOUS

\* readDepth changes by what is queued and collected.
Compensated(w) ==
    \A v \in VB : readDepth'[v] + Len(list[v]) + Len(overflow[v])
                    + Cardinality(Uncounted(w, v))
                  = readDepth[v] + Len(list'[v]) + Len(overflow'[v])
                      + Cardinality(Uncounted(w, v)')

\* Such a step keeps the depth exact.
LEMMA ReaderDepth ==
    ASSUME RTypes, RTypes', DepthExact, NEW w \in Workers, OthersKept(w),
           iopc' = iopc, ioreq' = ioreq, Compensated(w)
    PROVE  DepthExact'
<1> SUFFICES ASSUME NEW v \in VB
             PROVE  readDepth'[v] = Len(list'[v]) + Len(overflow'[v])
                                    + Cardinality(Collecting(v)')
                                    - Cardinality(Pushing(v)')
  BY DEF DepthExact
<1>1. Pushing(v)' = Pushing(v)
  BY DEF Pushing
<1>2. /\ Cardinality(Collecting(v)) \in Nat /\ Cardinality(Collecting(v)') \in Nat
      /\ Cardinality(Uncounted(w, v)) \in Nat /\ Cardinality(Uncounted(w, v)') \in Nat
      /\ Cardinality(Collecting(v)') + Cardinality(Uncounted(w, v))
           = Cardinality(Collecting(v)) + Cardinality(Uncounted(w, v)')
  BY CollectingChange DEF RTypes
<1>3. /\ readDepth[v] \in Int /\ Len(list[v]) \in Nat /\ Len(overflow[v]) \in Nat
      /\ Cardinality(Pushing(v)) \in Nat
  BY CountTypes
<1>4. readDepth'[v] \in Int /\ Len(list'[v]) \in Nat /\ Len(overflow'[v]) \in Nat
  <2>1. list'[v] \in Seq(Request) /\ overflow'[v] \in Seq(Request) /\ readDepth'[v] \in Int
    BY DEF RTypes, VBType
  <2> QED BY <2>1, LenProperties
<1>5. readDepth[v] = Len(list[v]) + Len(overflow[v]) + Cardinality(Collecting(v))
                     - Cardinality(Pushing(v))
  BY DEF DepthExact
<1>6. readDepth'[v] + Len(list[v]) + Len(overflow[v]) + Cardinality(Uncounted(w, v))
      = readDepth[v] + Len(list'[v]) + Len(overflow'[v]) + Cardinality(Uncounted(w, v)')
  BY DEF Compensated
<1>7. PICK d \in Int, e \in Int, a \in Nat, b \in Nat, x \in Nat, y \in Nat,
           m \in Nat, n \in Nat, k \in Nat, j \in Nat, p \in Nat :
        /\ d = readDepth[v] /\ e = readDepth'[v]
        /\ a = Len(list[v]) /\ b = Len(overflow[v])
        /\ x = Len(list'[v]) /\ y = Len(overflow'[v])
        /\ m = Cardinality(Collecting(v)) /\ n = Cardinality(Collecting(v)')
        /\ k = Cardinality(Uncounted(w, v)) /\ j = Cardinality(Uncounted(w, v)')
        /\ p = Cardinality(Pushing(v))
  BY <1>2, <1>3, <1>4
<1>8. n + k = m + j
  BY <1>2, <1>7
<1>9. e + a + b + k = d + x + y + j
  BY <1>6, <1>7
<1>10. d = a + b + m - p
  BY <1>5, <1>7
<1>11. e = x + y + n - p
  BY <1>8, <1>9, <1>10, DepthSum
<1> QED BY <1>1, <1>7, <1>11

\* A step that is not about depth or batches keeps it anyway.
LEMMA ReaderDepthSame ==
    ASSUME RTypes, RTypes', DepthExact, NEW w \in Workers, OthersKept(w),
           UNCHANGED <<iopc, ioreq, list, overflow, readDepth>>,
           wpc[w] \notin CollectingPc, wpc'[w] \notin CollectingPc
    PROVE  DepthExact'
<1>1. ASSUME NEW v \in VB
      PROVE  readDepth'[v] + Len(list[v]) + Len(overflow[v]) + Cardinality(Uncounted(w, v))
             = readDepth[v] + Len(list'[v]) + Len(overflow'[v])
                 + Cardinality(Uncounted(w, v)')
  <2>1. Uncounted(w, v) = {} /\ Uncounted(w, v)' = {}
    BY DEF Uncounted
  <2> QED BY <2>1
<1>2. Compensated(w)
  BY <1>1 DEF Compensated
<1> QED BY <1>2, ReaderDepth

RecheckPc == {"peek", "recheck", "depth", "rearm"}

\* A waiting GET keeps its guard if the step gives it an owner, empties its
\* queue or takes no guard away.
LEMMA ReaderStranded ==
    ASSUME RTypes, RTypes', NoStrandedRead, NEW w \in Workers, OthersKept(w),
           iopc' = iopc, ioreq' = ioreq,
           \A v \in VB :
              \/ readOwners'[v] > 0
              \/ list'[v] = <<>> /\ overflow'[v] = <<>>
              \/ wpc'[w] \in RecheckPc /\ wvb'[w] = v
              \/ \E t \in IOThreads : iopc[t] \in {"count", "arm"} /\ ioreq[t].vb = v
              \/ /\ list'[v] = list[v] /\ overflow'[v] = overflow[v]
                 /\ readOwners'[v] = readOwners[v]
                 /\ wpc[w] \in RecheckPc => wvb[w] # v
    PROVE  NoStrandedRead'
  BY DEF NoStrandedRead, OthersKept, RecheckPc

-----------------------------------------------------------------------------
(* The steps that change no count *)

\* No slot, no request and no guard moves.
Quiet ==
    /\ UNCHANGED <<maxOwners, iopc, ioreq, iodepth, issued, vbVars, wvb, todo, held,
                   batch>>
    /\ wpc' \in [Workers -> Wpc]
    /\ \A u \in Workers : /\ wpc'[u] \in OwningPc <=> wpc[u] \in OwningPc
                          /\ wpc'[u] \in CollectingPc <=> wpc[u] \in CollectingPc
                          /\ wpc'[u] \in RecheckPc <=> wpc[u] \in RecheckPc
                          /\ wpc'[u] = "spill" => wpc[u] = "spill"
    /\ taskQueue' \in Seq(Task)
    /\ \A v \in VB : Cardinality(Pos(v, taskQueue')) = Cardinality(Pos(v, taskQueue))

\* Such a step keeps the invariant.
LEMMA QuietKeeps == RInv /\ Quiet => RInv'
<1> SUFFICES ASSUME RInv, Quiet PROVE RInv'
  OBVIOUS
<1>1. IOType' /\ VBType' /\ QueueType' /\ WorkerType'
  BY DEF Quiet, RInv, RTypes, IOType, VBType, QueueType, WorkerType, vbVars
<1>2. MidCall' /\ Spilling'
  <2>1. TaskPc = OwningPc \cup RecheckPc
    BY DEF TaskPc, OwningPc, RecheckPc
  <2>2. \A w \in Workers : wpc'[w] \in TaskPc => wpc[w] \in TaskPc
    BY <2>1 DEF Quiet
  <2> QED BY <2>2 DEF Quiet, RInv, RTypes, MidCall, Spilling
<1>3. ASSUME NEW v \in VB
      PROVE  /\ ReaderSlots(v)' = ReaderSlots(v) /\ Submitting(v)' = Submitting(v)
             /\ Collecting(v)' = Collecting(v) /\ Pushing(v)' = Pushing(v)
  <2>1. \A w \in Workers : Slots(w, v)' = Slots(w, v) /\ Uncounted(w, v)' = Uncounted(w, v)
    BY DEF Quiet, Slots, Uncounted, Pos
  <2>2. ReaderSlots(v)' = ReaderSlots(v)
    BY <2>1 DEF ReaderSlots
  <2>3. Collecting(v)' = Collecting(v)
    BY <2>1 DEF Collecting
  <2> QED BY <2>2, <2>3 DEF Quiet, Submitting, Pushing
<1>4. Slotted'
  <2> SUFFICES ASSUME NEW v \in VB
               PROVE  readOwners'[v] = Cardinality(Pos(v, taskQueue'))
                                       + Cardinality(Submitting(v)')
                                       + Cardinality(ReaderSlots(v)')
    BY DEF Slotted, Pos
  <2> QED BY <1>3 DEF Quiet, RInv, Slotted, vbVars
<1>5. Limited'
  BY DEF Quiet, RInv, Limited, vbVars
<1>6. DepthExact'
  <2> SUFFICES ASSUME NEW v \in VB
               PROVE  readDepth'[v] = Len(list'[v]) + Len(overflow'[v])
                                      + Cardinality(Collecting(v)')
                                      - Cardinality(Pushing(v)')
    BY DEF DepthExact
  <2> QED BY <1>3 DEF Quiet, RInv, DepthExact, vbVars
<1>7. NoStrandedRead'
  BY DEF Quiet, RInv, NoStrandedRead, vbVars, RecheckPc
<1> QED BY <1>1, <1>2, <1>4, <1>5, <1>6, <1>7 DEF RInv, RTypes

\* A step that moves one reader's pc within its group is quiet.
LEMMA GotoQuiet ==
    ASSUME RTypes, NEW w \in Workers, NEW pc \in Wpc, Goto(w, pc),
           UNCHANGED <<maxOwners, iopc, ioreq, iodepth, issued, vbVars, taskQueue,
                       wvb, todo, held, batch>>,
           /\ pc \in OwningPc <=> wpc[w] \in OwningPc
           /\ pc \in CollectingPc <=> wpc[w] \in CollectingPc
           /\ pc \in RecheckPc <=> wpc[w] \in RecheckPc
           /\ pc # "spill"
    PROVE  Quiet
<1>1. /\ wpc' \in [Workers -> Wpc] /\ wpc'[w] = pc
      /\ \A u \in Workers \ {w} : wpc'[u] = wpc[u]
  BY DEF Goto, RTypes, WorkerType
<1>2. taskQueue' \in Seq(Task)
  BY DEF RTypes, QueueType
<1> QED BY <1>1, <1>2 DEF Quiet

\* Shrink takes no more readers than there are.
LEMMA ShrinkByIs ==
    ASSUME live \in Nat, NEW n \in 1..Cardinality(Workers)
    PROVE  ShrinkBy(n) \in Nat /\ live - ShrinkBy(n) \in Nat
<1>1. n \in Nat
  BY ReadSets, FS_CardinalityType
<1> QED BY <1>1 DEF ShrinkBy

\* So are the steps that only answer, resize, begin or end.
LEMMA IdleQuiet ==
    ASSUME RTypes, live \in Nat,
           \/ \E w \in Workers : \/ LoopTest(w) \/ GatherEnd(w) \/ GatherSentinel(w)
                                 \/ PeekOverflow(w) \/ Recheck(w) \/ Grow(w)
                                 \/ \E v \in VB, k \in Key : OnDoc(w, v, k)
                                 \/ RecheckDepth(w) /\ readDepth[wvb[w]] > 0
                                 \/ TakeTask(w) /\ Head(taskQueue) = Sentinel
           \/ MagmaStep \/ (\E n \in 1..Cardinality(Workers) : Shrink(n)) \/ Reap
           \/ BeginShutdown \/ ShutdownStep \/ Closed \/ UNCHANGED vars
    PROVE  Quiet
<1> USE DEF workerVars, taskVars, reqVars, ioVars, modeVars
<1> DEFINE Still == UNCHANGED <<maxOwners, iopc, ioreq, iodepth, issued, vbVars,
                                taskQueue, wvb, todo, held, batch>>
<1>1. ASSUME NEW w \in Workers, LoopTest(w) PROVE Quiet
  <2>1. PICK pc \in {"idle", "done"} : Goto(w, pc)
    BY <1>1 DEF LoopTest
  <2>2. Still /\ wpc[w] = "loop"
    BY <1>1 DEF LoopTest
  <2>3. pc \in Wpc
    BY DEF Wpc
  <2> QED BY <2>1, <2>2, <2>3, GotoQuiet DEF OwningPc, CollectingPc, RecheckPc
<1>2. ASSUME NEW w \in Workers, GatherEnd(w) PROVE Quiet
  <2>1. Goto(w, "drain") /\ Still /\ wpc[w] = "gather" /\ "drain" \in Wpc
    BY <1>2 DEF GatherEnd, Wpc
  <2> QED BY <2>1, GotoQuiet DEF OwningPc, CollectingPc, RecheckPc
<1>3. ASSUME NEW w \in Workers, PeekOverflow(w) PROVE Quiet
  <2>1. PICK pc \in {"rearm", "recheck"} : Goto(w, pc)
    BY <1>3 DEF PeekOverflow
  <2>2. Still /\ wpc[w] = "peek" /\ pc \in Wpc
    BY <1>3 DEF PeekOverflow, Wpc
  <2> QED BY <2>1, <2>2, GotoQuiet DEF OwningPc, CollectingPc, RecheckPc
<1>4. ASSUME NEW w \in Workers, Recheck(w) PROVE Quiet
  <2>1. PICK pc \in {"rearm", "depth"} : Goto(w, pc)
    BY <1>4 DEF Recheck
  <2>2. Still /\ wpc[w] = "recheck" /\ pc \in Wpc
    BY <1>4 DEF Recheck, Wpc
  <2> QED BY <2>1, <2>2, GotoQuiet DEF OwningPc, CollectingPc, RecheckPc
<1>5. ASSUME NEW w \in Workers, Grow(w) PROVE Quiet
  <2>1. Goto(w, "loop") /\ Still /\ wpc[w] = "off" /\ "loop" \in Wpc
    BY <1>5 DEF Grow, Wpc
  <2> QED BY <2>1, GotoQuiet DEF OwningPc, CollectingPc, RecheckPc
<1>6. ASSUME NEW w \in Workers, RecheckDepth(w), readDepth[wvb[w]] > 0 PROVE Quiet
  <2>1. Goto(w, "rearm") /\ Still /\ wpc[w] = "depth" /\ "rearm" \in Wpc
    BY <1>6 DEF RecheckDepth, Wpc
  <2> QED BY <2>1, GotoQuiet DEF OwningPc, CollectingPc, RecheckPc
<1>7. ASSUME taskQueue # <<>>, taskQueue' = Tail(taskQueue), Head(taskQueue) = Sentinel
      PROVE  /\ taskQueue' \in Seq(Task)
             /\ \A v \in VB : Cardinality(Pos(v, taskQueue')) = Cardinality(Pos(v, taskQueue))
  <2>1. taskQueue \in Seq(Task) /\ taskQueue' \in Seq(Task)
    BY <1>7, HeadTailProperties DEF RTypes, QueueType
  <2>2. ASSUME NEW v \in VB
        PROVE  Cardinality(Pos(v, taskQueue')) = Cardinality(Pos(v, taskQueue))
    <3>1. Same(Head(taskQueue), v) = 0
      BY <1>7, ReadSets DEF Same
    <3>2. Cardinality(Pos(v, taskQueue)) = Cardinality(Pos(v, Tail(taskQueue)))
                                           + Same(Head(taskQueue), v)
      BY <1>7, <2>1, PosTail
    <3>3. Cardinality(Pos(v, taskQueue')) \in Nat
      BY <2>1, PosFinite
    <3> QED BY <1>7, <3>1, <3>2, <3>3
  <2> QED BY <2>1, <2>2
<1>8. ASSUME NEW w \in Workers, GatherSentinel(w) PROVE Quiet
  <2>1. /\ wpc' = [wpc EXCEPT ![w] = "drain"] /\ wpc[w] = "gather"
        /\ UNCHANGED <<maxOwners, iopc, ioreq, iodepth, issued, vbVars, wvb, todo, held,
                       batch>>
        /\ taskQueue # <<>> /\ taskQueue' = Tail(taskQueue) /\ Head(taskQueue) = Sentinel
    BY <1>8 DEF GatherSentinel, Goto, Gathers
  <2>2. wpc' \in [Workers -> Wpc] /\ wpc'[w] = "drain" /\ \A u \in Workers \ {w} : wpc'[u] = wpc[u]
    BY <2>1 DEF RTypes, WorkerType, Wpc
  <2> QED BY <1>7, <2>1, <2>2 DEF Quiet, OwningPc, CollectingPc, RecheckPc
<1>9. ASSUME NEW w \in Workers, TakeTask(w), Head(taskQueue) = Sentinel PROVE Quiet
  <2>1. /\ wpc' = [wpc EXCEPT ![w] = "done"] /\ wpc[w] = "idle"
        /\ UNCHANGED <<maxOwners, iopc, ioreq, iodepth, issued, vbVars, wvb, todo, held,
                       batch>>
        /\ taskQueue # <<>> /\ taskQueue' = Tail(taskQueue)
    BY <1>9 DEF TakeTask, Goto
  <2>2. wpc' \in [Workers -> Wpc] /\ wpc'[w] = "done" /\ \A u \in Workers \ {w} : wpc'[u] = wpc[u]
    BY <2>1 DEF RTypes, WorkerType, Wpc
  <2> QED BY <1>7, <1>9, <2>1, <2>2 DEF Quiet, OwningPc, CollectingPc, RecheckPc
<1>10. ASSUME Still, wpc' = wpc PROVE Quiet
  BY <1>10 DEF Quiet, RTypes, QueueType, WorkerType
<1>11. ASSUME NEW w \in Workers, NEW v \in VB, NEW k \in Key, OnDoc(w, v, k) PROVE Quiet
  <2>1. Still /\ wpc' = wpc
    BY <1>11 DEF OnDoc
  <2> QED BY <1>10, <2>1
<1>12. ASSUME MagmaStep \/ BeginShutdown \/ Closed \/ UNCHANGED vars PROVE Quiet
  <2>1. CASE MagmaStep
    BY <1>10, <2>1 DEF MagmaStep, AsyncOnDoc, OnJobDone
  <2>2. CASE BeginShutdown
    BY <1>10, <2>2 DEF BeginShutdown
  <2>3. CASE Closed \/ UNCHANGED vars
    <3>1. UNCHANGED vars
      BY <2>3 DEF Closed
    <3>2. Still /\ wpc' = wpc
      BY <3>1 DEF vars
    <3> QED BY <1>10, <3>2
  <2> QED BY <1>12, <2>1, <2>2, <2>3
<1>13. ASSUME NEW n \in Nat, taskQueue' = taskQueue \o Sentinels(n), wpc' = wpc,
              UNCHANGED <<maxOwners, iopc, ioreq, iodepth, issued, vbVars, wvb, todo,
                          held, batch>>
       PROVE  Quiet
  <2>1. taskQueue \in Seq(Task)
    BY DEF RTypes, QueueType
  <2>2. /\ taskQueue' \in Seq(Task)
        /\ \A v \in VB : Pos(v, taskQueue') = Pos(v, taskQueue)
    BY <1>13, <2>1, PosSentinels
  <2> QED BY <1>13, <2>2 DEF Quiet, RTypes, WorkerType
<1>14. ASSUME NEW n \in 1..Cardinality(Workers), Shrink(n) PROVE Quiet
  <2>1. /\ taskQueue' = taskQueue \o Sentinels(ShrinkBy(n)) /\ wpc' = wpc
        /\ UNCHANGED <<maxOwners, iopc, ioreq, iodepth, issued, vbVars, wvb, todo,
                       held, batch>>
    BY <1>14 DEF Shrink
  <2>2. ShrinkBy(n) \in Nat
    BY ShrinkByIs
  <2> QED BY <1>13, <2>1, <2>2
<1>15. ASSUME StopReaders PROVE Quiet
  <2>1. /\ taskQueue' = taskQueue \o Sentinels(Cardinality(Joinable)) /\ wpc' = wpc
        /\ UNCHANGED <<maxOwners, iopc, ioreq, iodepth, issued, vbVars, wvb, todo,
                       held, batch>>
    BY <1>15 DEF StopReaders
  <2>2. Joinable \subseteq Workers
    BY DEF Joinable
  <2>3. IsFiniteSet(Joinable)
    BY <2>2, ReadSets, FS_Subset
  <2>4. Cardinality(Joinable) \in Nat
    BY <2>3, FS_CardinalityType
  <2> QED BY <1>13, <2>1, <2>4
<1>16. ASSUME Still, wpc' \in [Workers -> Wpc],
              \A u \in Workers : \/ wpc'[u] = wpc[u]
                                 \/ wpc[u] \in {"done", "off"} /\ wpc'[u] = "off"
       PROVE  Quiet
  BY <1>16 DEF Quiet, RTypes, QueueType, OwningPc, CollectingPc, RecheckPc
<1>17. ASSUME Reap \/ JoinReaders PROVE Quiet
  <2>1. Still
    BY <1>17 DEF Reap, JoinReaders
  <2>2. /\ wpc' \in [Workers -> Wpc]
        /\ \A u \in Workers : \/ wpc'[u] = wpc[u]
                              \/ wpc[u] \in {"done", "off"} /\ wpc'[u] = "off"
    BY <1>17 DEF Reap, JoinReaders, Joinable, RTypes, WorkerType, Wpc
  <2> QED BY <1>16, <2>1, <2>2
<1> QED BY <1>1, <1>2, <1>3, <1>4, <1>5, <1>6, <1>8, <1>9, <1>11, <1>12, <1>14, <1>15,
           <1>17 DEF ShutdownStep

-----------------------------------------------------------------------------
(* Bucket::EnqueueRead *)

\* The IO threads leave what readers hold alone.
LEMMA ReadersSame ==
    ASSUME UNCHANGED <<wpc, wvb, todo, held, batch>>, NEW v \in VB
    PROVE  ReaderSlots(v)' = ReaderSlots(v) /\ Collecting(v)' = Collecting(v)
<1>1. \A w \in Workers : Slots(w, v)' = Slots(w, v) /\ Uncounted(w, v)' = Uncounted(w, v)
  BY DEF Slots, Uncounted, Pos
<1> QED BY <1>1 DEF ReaderSlots, Collecting

\* Arithmetic of a push and of its count.
LEMMA DepthOne ==
    ASSUME NEW d \in Int, NEW a \in Nat, NEW b \in Nat, NEW m \in Nat, NEW p \in Nat,
           d = a + b + m - p
    PROVE  d = (a + 1) + b + m - (p + 1) /\ d + 1 = a + b + m - (p - 1)
OBVIOUS

\* The push is counted as a push under way.
LEMMA EnqueueReadKeeps ==
    ASSUME RInv, NEW t \in IOThreads, NEW v \in VB, NEW k \in Key, EnqueueRead(t, v, k)
    PROVE  RInv'
<1> DEFINE req == [id |-> issued + 1, vb |-> v, key |-> k]
<1> USE DEF workerVars, taskVars, reqVars, ioVars, modeVars
<1>1. /\ iopc[t] = "read" /\ issued < MaxReads
      /\ list' = [list EXCEPT ![v] = <<req>> \o list[v]]
      /\ ioreq' = [ioreq EXCEPT ![t] = req] /\ issued' = issued + 1
      /\ iopc' = [iopc EXCEPT ![t] = "count"]
      /\ UNCHANGED <<maxOwners, iodepth, overflow, readOwners, readDepth, taskQueue,
                     wpc, wvb, todo, held, batch>>
  BY DEF EnqueueRead
<1>2. issued \in 0..MaxReads /\ MaxReads \in Nat
  BY ReadNumbers DEF RInv, RTypes, IOType
<1>3. req \in Request /\ issued' \in 0..MaxReads
  BY <1>1, <1>2 DEF Request, Id
<1>4. list[v] \in Seq(Request)
  BY DEF RInv, RTypes, VBType
<1>5. <<req>> \in Seq(Request) /\ Len(<<req>>) = 1
  BY <1>3
<1>6. /\ <<req>> \o list[v] \in Seq(Request)
      /\ Len(<<req>> \o list[v]) = Len(list[v]) + 1 /\ Len(list[v]) \in Nat
  BY <1>4, <1>5, ConcatProperties, LenProperties
<1> HIDE DEF req
<1>7. RTypes'
  <2>1. IOType'
    BY <1>1, <1>3 DEF RInv, RTypes, IOType
  <2>2. VBType' /\ QueueType' /\ WorkerType'
    BY <1>1, <1>6 DEF RInv, RTypes, VBType, QueueType, WorkerType
  <2>3. MidCall' /\ Spilling'
    BY <1>1, <1>3 DEF RInv, RTypes, MidCall, Spilling, IOType
  <2> QED BY <2>1, <2>2, <2>3 DEF RTypes
<1>8. /\ iopc'[t] = "count" /\ ioreq'[t] = req /\ req.vb = v
      /\ \A s \in IOThreads \ {t} : iopc'[s] = iopc[s] /\ ioreq'[s] = ioreq[s]
  BY <1>1 DEF RInv, RTypes, IOType, req
<1>9. Slotted'
  <2> SUFFICES ASSUME NEW u \in VB
               PROVE  readOwners'[u] = Cardinality(Pos(u, taskQueue)')
                                       + Cardinality(Submitting(u)')
                                       + Cardinality(ReaderSlots(u)')
    BY DEF Slotted
  <2>1. ReaderSlots(u)' = ReaderSlots(u) /\ Pos(u, taskQueue)' = Pos(u, taskQueue)
    BY <1>1, ReadersSame DEF Pos
  <2>2. Submitting(u)' = Submitting(u)
    BY <1>1, <1>8 DEF Submitting
  <2> QED BY <1>1, <2>1, <2>2 DEF RInv, Slotted
<1>10. Limited'
  BY <1>1 DEF RInv, Limited
<1>11. DepthExact'
  <2> SUFFICES ASSUME NEW u \in VB
               PROVE  readDepth'[u] = Len(list'[u]) + Len(overflow'[u])
                                      + Cardinality(Collecting(u)')
                                      - Cardinality(Pushing(u)')
    BY DEF DepthExact
  <2>1. Collecting(u)' = Collecting(u) /\ Cardinality(Collecting(u)) \in Nat
    BY <1>1, ReadersSame, HeldFinite DEF RInv, RTypes
  <2>2. /\ readDepth[u] = Len(list[u]) + Len(overflow[u]) + Cardinality(Collecting(u))
                          - Cardinality(Pushing(u))
        /\ readDepth[u] \in Int /\ Len(list[u]) \in Nat /\ Len(overflow[u]) \in Nat
        /\ IsFiniteSet(Pushing(u)) /\ Cardinality(Pushing(u)) \in Nat
    BY CountTypes DEF RInv, DepthExact
  <2>3. CASE u = v
    <3>1. Pushing(u)' = Pushing(u) \cup {t} /\ t \notin Pushing(u)
      BY <1>1, <1>8, <2>3 DEF Pushing
    <3>2. Cardinality(Pushing(u)') = Cardinality(Pushing(u)) + 1
      BY <2>2, <3>1, FS_AddElement
    <3>3. Len(list'[u]) = Len(list[u]) + 1
      BY <1>1, <1>6, <2>3 DEF RInv, RTypes, VBType
    <3>4. PICK d \in Int, a \in Nat, b \in Nat, m \in Nat, p \in Nat :
            /\ d = readDepth[u] /\ a = Len(list[u]) /\ b = Len(overflow[u])
            /\ m = Cardinality(Collecting(u)) /\ p = Cardinality(Pushing(u))
      BY <2>1, <2>2
    <3>5. d = a + b + m - p
      BY <2>2, <3>4
    <3>6. d = (a + 1) + b + m - (p + 1) /\ d + 1 = a + b + m - (p - 1)
      BY <3>5, DepthOne
    <3>7. overflow'[u] = overflow[u] /\ Collecting(u)' = Collecting(u)
      BY <1>1, <2>1
    <3> QED BY <1>1, <3>2, <3>3, <3>4, <3>6, <3>7
  <2>4. CASE u # v
    <3>1. Pushing(u)' = Pushing(u)
      BY <1>1, <1>8, <2>4 DEF Pushing
    <3>2. list'[u] = list[u]
      BY <1>1, <2>4 DEF RInv, RTypes, VBType
    <3> QED BY <1>1, <2>1, <2>2, <3>1, <3>2
  <2> QED BY <2>3, <2>4
<1>12. NoStrandedRead'
  <2>1. \A u \in VB \ {v} : list'[u] = list[u]
    BY <1>1 DEF RInv, RTypes, VBType
  <2> QED BY <1>1, <1>8, <2>1 DEF RInv, NoStrandedRead
<1> QED BY <1>7, <1>9, <1>10, <1>11, <1>12 DEF RInv

\* fetch_add settles it.
LEMMA CountReadKeeps ==
    ASSUME RInv, NEW t \in IOThreads, CountRead(t)
    PROVE  RInv'
<1> DEFINE v == ioreq[t].vb
<1> USE DEF workerVars, taskVars, reqVars, ioVars, modeVars
<1>1. /\ iopc[t] = "count"
      /\ readDepth' = [readDepth EXCEPT ![v] = readDepth[v] + 1]
      /\ iodepth' = [iodepth EXCEPT ![t] = readDepth[v] + 1]
      /\ iopc' = [iopc EXCEPT ![t] = "arm"]
      /\ UNCHANGED <<maxOwners, ioreq, issued, list, overflow, readOwners, taskQueue,
                     wpc, wvb, todo, held, batch>>
  BY DEF CountRead
<1>2. v \in VB
  BY <1>1 DEF RInv, RTypes, MidCall, Request
<1>3. readDepth[v] \in Int
  BY <1>2 DEF RInv, RTypes, VBType
<1> HIDE DEF v
<1>4. RTypes'
  <2>1. IOType'
    BY <1>1, <1>3 DEF RInv, RTypes, IOType
  <2>2. VBType' /\ QueueType' /\ WorkerType'
    <3>1. readDepth[v] + 1 \in Int
      BY <1>3
    <3>2. readDepth' \in [VB -> Int]
      BY <1>1, <3>1 DEF RInv, RTypes, VBType
    <3> QED BY <1>1, <3>2 DEF RInv, RTypes, VBType, QueueType, WorkerType
  <2>3. MidCall' /\ Spilling'
    BY <1>1 DEF RInv, RTypes, MidCall, Spilling, IOType
  <2> QED BY <2>1, <2>2, <2>3 DEF RTypes
<1>5. iopc'[t] = "arm" /\ \A s \in IOThreads \ {t} : iopc'[s] = iopc[s]
  BY <1>1 DEF RInv, RTypes, IOType
<1>6. Slotted'
  <2> SUFFICES ASSUME NEW u \in VB
               PROVE  readOwners'[u] = Cardinality(Pos(u, taskQueue)')
                                       + Cardinality(Submitting(u)')
                                       + Cardinality(ReaderSlots(u)')
    BY DEF Slotted
  <2>1. ReaderSlots(u)' = ReaderSlots(u) /\ Pos(u, taskQueue)' = Pos(u, taskQueue)
    BY <1>1, ReadersSame DEF Pos
  <2>2. Submitting(u)' = Submitting(u)
    BY <1>1, <1>5 DEF Submitting
  <2> QED BY <1>1, <2>1, <2>2 DEF RInv, Slotted
<1>7. Limited'
  BY <1>1 DEF RInv, Limited
<1>8. DepthExact'
  <2> SUFFICES ASSUME NEW u \in VB
               PROVE  readDepth'[u] = Len(list'[u]) + Len(overflow'[u])
                                      + Cardinality(Collecting(u)')
                                      - Cardinality(Pushing(u)')
    BY DEF DepthExact
  <2>1. Collecting(u)' = Collecting(u) /\ Cardinality(Collecting(u)) \in Nat
    BY <1>1, ReadersSame, HeldFinite DEF RInv, RTypes
  <2>2. /\ readDepth[u] = Len(list[u]) + Len(overflow[u]) + Cardinality(Collecting(u))
                          - Cardinality(Pushing(u))
        /\ readDepth[u] \in Int /\ Len(list[u]) \in Nat /\ Len(overflow[u]) \in Nat
        /\ IsFiniteSet(Pushing(u)) /\ Cardinality(Pushing(u)) \in Nat
    BY CountTypes DEF RInv, DepthExact
  <2>3. CASE u = v
    <3>1. Pushing(u)' = Pushing(u) \ {t} /\ t \in Pushing(u)
      BY <1>1, <1>5, <2>3 DEF Pushing, v
    <3>2. Cardinality(Pushing(u)') = Cardinality(Pushing(u)) - 1
      BY <2>2, <3>1, FS_RemoveElement
    <3>3. readDepth'[u] = readDepth[u] + 1
      BY <1>1, <1>2, <2>3 DEF RInv, RTypes, VBType
    <3>4. PICK d \in Int, a \in Nat, b \in Nat, m \in Nat, p \in Nat :
            /\ d = readDepth[u] /\ a = Len(list[u]) /\ b = Len(overflow[u])
            /\ m = Cardinality(Collecting(u)) /\ p = Cardinality(Pushing(u))
      BY <2>1, <2>2
    <3>5. d = a + b + m - p
      BY <2>2, <3>4
    <3>6. d = (a + 1) + b + m - (p + 1) /\ d + 1 = a + b + m - (p - 1)
      BY <3>5, DepthOne
    <3>7. overflow'[u] = overflow[u] /\ Collecting(u)' = Collecting(u)
      BY <1>1, <2>1
    <3> QED BY <1>1, <3>2, <3>3, <3>4, <3>6, <3>7
  <2>4. CASE u # v
    <3>1. Pushing(u)' = Pushing(u)
      BY <1>1, <1>5, <2>4 DEF Pushing, v
    <3>2. readDepth'[u] = readDepth[u]
      BY <1>1, <2>4 DEF RInv, RTypes, VBType
    <3> QED BY <1>1, <2>1, <2>2, <3>1, <3>2
  <2> QED BY <2>3, <2>4
<1>9. NoStrandedRead'
  BY <1>1, <1>5 DEF RInv, NoStrandedRead, v
<1> QED BY <1>4, <1>6, <1>7, <1>8, <1>9 DEF RInv

\* A thread that leaves EnqueueRead has no request.
LEMMA LeavingTypes ==
    ASSUME RTypes, NEW t \in IOThreads, EnqueueDone(t), issued' = issued
    PROVE  /\ IOType' /\ (\A s \in IOThreads : iopc'[s] # "read" => ioreq'[s] \in Request)
           /\ iopc'[t] = "read"
           /\ \A s \in IOThreads \ {t} : iopc'[s] = iopc[s] /\ ioreq'[s] = ioreq[s]
<1>1. NoRequest \in Request \cup {NoRequest} /\ 0 \in Int
  OBVIOUS
<1>2. /\ iopc' = [iopc EXCEPT ![t] = "read"] /\ ioreq' = [ioreq EXCEPT ![t] = NoRequest]
      /\ iodepth' = [iodepth EXCEPT ![t] = 0]
  BY DEF EnqueueDone
<1> HIDE DEF NoRequest
<1>3. IOType'
  BY <1>1, <1>2 DEF RTypes, IOType
<1>4. /\ iopc'[t] = "read"
      /\ \A s \in IOThreads \ {t} : iopc'[s] = iopc[s] /\ ioreq'[s] = ioreq[s]
  BY <1>2 DEF RTypes, IOType
<1> QED BY <1>3, <1>4 DEF RTypes, MidCall

\* A slot taken is the slot of the task about to be submitted; one not taken is
\* one that others hold.
LEMMA ArmKeeps ==
    ASSUME RInv, NEW t \in IOThreads, Arm(t)
    PROVE  RInv'
<1> DEFINE v == ioreq[t].vb
<1> USE DEF workerVars, taskVars, reqVars, ioVars, modeVars
<1>1. /\ iopc[t] = "arm"
      /\ UNCHANGED <<maxOwners, issued, list, overflow, readDepth, taskQueue,
                     wpc, wvb, todo, held, batch>>
  BY DEF Arm
<1>2. v \in VB
  BY <1>1 DEF RInv, RTypes, MidCall, Request
<1>3. \/ /\ Arms(v, iodepth[t])
         /\ readOwners' = [readOwners EXCEPT ![v] = readOwners[v] + 1]
         /\ iopc' = [iopc EXCEPT ![t] = "submit"]
         /\ UNCHANGED <<ioreq, iodepth>>
      \/ ~Arms(v, iodepth[t]) /\ EnqueueDone(t) /\ UNCHANGED readOwners
  BY DEF Arm
<1> HIDE DEF v
<1>4. readOwners[v] \in Int /\ readOwners[v] >= 0 /\ maxOwners \in Nat /\ maxOwners >= 1
  <2>1. OwnerLimits \subseteq Nat \ {0}
    BY ReadNumbers
  <2> QED BY <1>2, <2>1, OwnerCounts DEF RInv, RTypes, VBType
<1>5. /\ iopc'[t] \in {"submit", "read"}
      /\ \A s \in IOThreads \ {t} : iopc'[s] = iopc[s] /\ ioreq'[s] = ioreq[s]
  <2>1. CASE Arms(v, iodepth[t])
    BY <1>3, <2>1 DEF RInv, RTypes, IOType
  <2>2. CASE ~Arms(v, iodepth[t])
    BY <1>1, <1>3, <2>2, LeavingTypes DEF RInv
  <2> QED BY <2>1, <2>2
<1>6. RTypes'
  <2>1. QueueType' /\ WorkerType'
    BY <1>1 DEF RInv, RTypes, QueueType, WorkerType
  <2>2. (\A w \in Workers : wpc'[w] \in TaskPc => wvb'[w] \in VB) /\ Spilling'
    BY <1>1 DEF RInv, RTypes, MidCall, Spilling
  <2>3. CASE Arms(v, iodepth[t])
    <3>1. readOwners[v] + 1 \in Int
      BY <1>4
    <3>2. readOwners' \in [VB -> Int]
      BY <1>3, <2>3, <3>1 DEF RInv, RTypes, VBType
    <3>3. VBType' /\ IOType'
      BY <1>1, <1>3, <2>3, <3>2 DEF RInv, RTypes, VBType, IOType
    <3>4. \A s \in IOThreads : iopc'[s] # "read" => ioreq'[s] \in Request
      BY <1>1, <1>3, <1>5, <2>3 DEF RInv, RTypes, MidCall
    <3> QED BY <2>1, <2>2, <3>3, <3>4 DEF RTypes, MidCall
  <2>4. CASE ~Arms(v, iodepth[t])
    <3>1. EnqueueDone(t) /\ readOwners' = readOwners
      BY <1>3, <2>4
    <3>2. IOType' /\ \A s \in IOThreads : iopc'[s] # "read" => ioreq'[s] \in Request
      BY <1>1, <3>1, LeavingTypes DEF RInv
    <3>3. VBType'
      BY <1>1, <3>1 DEF RInv, RTypes, VBType
    <3> QED BY <2>1, <2>2, <3>2, <3>3 DEF RTypes, MidCall
  <2> QED BY <2>3, <2>4
<1>7. ASSUME NEW u \in VB PROVE Pushing(u)' = Pushing(u)
  <2>1. iopc[t] # "count" /\ iopc'[t] # "count"
    BY <1>1, <1>5
  <2> QED BY <1>5, <2>1 DEF Pushing
<1>8. Slotted'
  <2> SUFFICES ASSUME NEW u \in VB
               PROVE  readOwners'[u] = Cardinality(Pos(u, taskQueue)')
                                       + Cardinality(Submitting(u)')
                                       + Cardinality(ReaderSlots(u)')
    BY DEF Slotted
  <2>1. /\ ReaderSlots(u)' = ReaderSlots(u) /\ Pos(u, taskQueue)' = Pos(u, taskQueue)
        /\ Cardinality(ReaderSlots(u)) \in Nat
    BY <1>1, ReadersSame, HeldFinite DEF Pos, RInv, RTypes
  <2>2. /\ readOwners[u] = Cardinality(Pos(u, taskQueue)) + Cardinality(Submitting(u))
                           + Cardinality(ReaderSlots(u))
        /\ Cardinality(Pos(u, taskQueue)) \in Nat
        /\ IsFiniteSet(Submitting(u)) /\ Cardinality(Submitting(u)) \in Nat
    BY CountTypes DEF RInv, Slotted
  <2>3. CASE Arms(v, iodepth[t]) /\ u = v
    <3>1. Submitting(u)' = Submitting(u) \cup {t} /\ t \notin Submitting(u)
      <4>1. iopc'[t] = "submit" /\ ioreq'[t].vb = u
        BY <1>3, <2>3 DEF RInv, RTypes, IOType, v
      <4> QED BY <1>1, <1>5, <4>1 DEF Submitting
    <3>2. Cardinality(Submitting(u)') = Cardinality(Submitting(u)) + 1
      BY <2>2, <3>1, FS_AddElement
    <3>3. readOwners'[u] = readOwners[u] + 1
      BY <1>2, <1>3, <2>3 DEF RInv, RTypes, VBType
    <3> QED BY <2>1, <2>2, <3>2, <3>3
  <2>4. CASE ~(Arms(v, iodepth[t]) /\ u = v)
    <3>1. readOwners'[u] = readOwners[u]
      BY <1>3, <2>4 DEF RInv, RTypes, VBType
    <3>2. ~(iopc'[t] = "submit" /\ ioreq'[t].vb = u)
      <4>1. CASE Arms(v, iodepth[t])
        BY <1>3, <2>4, <4>1 DEF v
      <4>2. CASE ~Arms(v, iodepth[t])
        BY <1>1, <1>3, <4>2, LeavingTypes DEF RInv
      <4> QED BY <4>1, <4>2
    <3>3. Submitting(u)' = Submitting(u)
      BY <1>1, <1>5, <3>2 DEF Submitting
    <3> QED BY <2>1, <2>2, <3>1, <3>3
  <2> QED BY <2>3, <2>4
<1>9. Limited'
  <2> SUFFICES ASSUME NEW u \in VB PROVE readOwners'[u] <= maxOwners
    BY <1>1 DEF Limited
  <2>1. CASE Arms(v, iodepth[t]) /\ u = v
    <3>1. readOwners'[u] = readOwners[v] + 1
      BY <1>2, <1>3, <2>1 DEF RInv, RTypes, VBType
    <3> QED BY <1>4, <2>1, <3>1 DEF Arms
  <2>2. CASE ~(Arms(v, iodepth[t]) /\ u = v)
    <3>1. readOwners'[u] = readOwners[u]
      BY <1>3, <2>2 DEF RInv, RTypes, VBType
    <3> QED BY <3>1 DEF RInv, Limited
  <2> QED BY <2>1, <2>2
<1>10. DepthExact'
  <2> SUFFICES ASSUME NEW u \in VB
               PROVE  readDepth'[u] = Len(list'[u]) + Len(overflow'[u])
                                      + Cardinality(Collecting(u)')
                                      - Cardinality(Pushing(u)')
    BY DEF DepthExact
  <2>1. Collecting(u)' = Collecting(u)
    BY <1>1, ReadersSame
  <2> QED BY <1>1, <1>7, <2>1 DEF RInv, DepthExact
<1>11. NoStrandedRead'
  <2>1. readOwners'[v] > 0
    <3>1. CASE Arms(v, iodepth[t])
      <4>1. readOwners'[v] = readOwners[v] + 1
        BY <1>2, <1>3, <3>1 DEF RInv, RTypes, VBType
      <4> QED BY <1>4, <4>1
    <3>2. CASE ~Arms(v, iodepth[t])
      BY <1>3, <1>4, <3>2 DEF Arms
    <3> QED BY <3>1, <3>2
  <2>2. \A u \in VB \ {v} : readOwners'[u] = readOwners[u]
    BY <1>3 DEF RInv, RTypes, VBType
  <2>3. \A u \in VB \ {v} : ~(ioreq[t].vb = u)
    BY DEF v
  <2> QED BY <1>1, <1>5, <2>1, <2>2, <2>3 DEF RInv, NoStrandedRead
<1> QED BY <1>6, <1>8, <1>9, <1>10, <1>11 DEF RInv

\* Submit hands the slot to the queue.
LEMMA SubmitKeeps ==
    ASSUME RInv, NEW t \in IOThreads, Submit(t)
    PROVE  RInv'
<1> DEFINE v == ioreq[t].vb
<1> USE DEF workerVars, taskVars, reqVars, ioVars, modeVars
<1>1. /\ iopc[t] = "submit" /\ taskQueue' = Append(taskQueue, v) /\ EnqueueDone(t)
      /\ UNCHANGED <<maxOwners, issued, vbVars, wpc, wvb, todo, held, batch>>
  BY DEF Submit
<1>2. v \in VB
  BY <1>1 DEF RInv, RTypes, MidCall, Request
<1> HIDE DEF v
<1>3. /\ IOType' /\ (\A s \in IOThreads : iopc'[s] # "read" => ioreq'[s] \in Request)
      /\ iopc'[t] = "read"
      /\ \A s \in IOThreads \ {t} : iopc'[s] = iopc[s] /\ ioreq'[s] = ioreq[s]
  BY <1>1, LeavingTypes DEF RInv
<1>4. v \in Task /\ taskQueue \in Seq(Task) /\ taskQueue' \in Seq(Task)
  <2>1. v \in Task /\ taskQueue \in Seq(Task)
    BY <1>2 DEF Task, RInv, RTypes, QueueType
  <2> QED BY <1>1, <2>1, AppendProperties
<1>5. RTypes'
  BY <1>1, <1>3, <1>4
     DEF RInv, RTypes, QueueType, WorkerType, VBType, MidCall, Spilling, vbVars
<1>6. Slotted'
  <2> SUFFICES ASSUME NEW u \in VB
               PROVE  readOwners'[u] = Cardinality(Pos(u, taskQueue'))
                                       + Cardinality(Submitting(u)')
                                       + Cardinality(ReaderSlots(u)')
    BY DEF Slotted, Pos
  <2>1. ReaderSlots(u)' = ReaderSlots(u) /\ Cardinality(ReaderSlots(u)) \in Nat
    BY <1>1, ReadersSame, HeldFinite DEF RInv, RTypes
  <2>2. /\ readOwners[u] = Cardinality(Pos(u, taskQueue)) + Cardinality(Submitting(u))
                           + Cardinality(ReaderSlots(u))
        /\ Cardinality(Pos(u, taskQueue)) \in Nat
        /\ IsFiniteSet(Submitting(u)) /\ Cardinality(Submitting(u)) \in Nat
    BY CountTypes DEF RInv, Slotted
  <2>3. Cardinality(Pos(u, taskQueue')) = Cardinality(Pos(u, taskQueue)) + Same(v, u)
    BY <1>1, <1>4, PosAppend
  <2>4. readOwners'[u] = readOwners[u]
    BY <1>1 DEF vbVars
  <2>5. Cardinality(Submitting(u)') = Cardinality(Submitting(u)) - Same(v, u)
    <3>1. CASE v = u
      <4>1. Submitting(u)' = Submitting(u) \ {t} /\ t \in Submitting(u)
        BY <1>1, <1>3, <3>1 DEF Submitting, v
      <4> QED BY <2>2, <3>1, <4>1, FS_RemoveElement DEF Same
    <3>2. CASE v # u
      <4>1. Submitting(u)' = Submitting(u)
        BY <1>1, <1>3, <3>2 DEF Submitting, v
      <4> QED BY <2>2, <3>2, <4>1 DEF Same
    <3> QED BY <3>1, <3>2
  <2>6. Same(v, u) \in Int
    BY DEF Same
  <2> QED BY <2>1, <2>2, <2>3, <2>4, <2>5, <2>6
<1>7. Limited'
  BY <1>1 DEF RInv, Limited, vbVars
<1>8. DepthExact'
  <2> SUFFICES ASSUME NEW u \in VB
               PROVE  readDepth'[u] = Len(list'[u]) + Len(overflow'[u])
                                      + Cardinality(Collecting(u)')
                                      - Cardinality(Pushing(u)')
    BY DEF DepthExact
  <2>1. Collecting(u)' = Collecting(u)
    BY <1>1, ReadersSame
  <2>2. Pushing(u)' = Pushing(u)
    BY <1>1, <1>3 DEF Pushing
  <2> QED BY <1>1, <2>1, <2>2 DEF RInv, DepthExact, vbVars
<1>9. NoStrandedRead'
  BY <1>1, <1>3 DEF RInv, NoStrandedRead, vbVars
<1> QED BY <1>5, <1>6, <1>7, <1>8, <1>9 DEF RInv

-----------------------------------------------------------------------------
(* The readers *)

\* What is left to show of the types after a step of a reader.
LEMMA ReaderTypes ==
    ASSUME RTypes, NEW w \in Workers, OthersKept(w),
           UNCHANGED <<iopc, ioreq, iodepth, issued>>,
           VBType', QueueType', WorkerType', wpc'[w] \in TaskPc => wvb'[w] \in VB,
           wpc'[w] = "spill" => Len(batch'[w]) > MaxBatch
    PROVE  RTypes'
<1>1. IOType'
  BY DEF RTypes, IOType
<1>2. MidCall'
  BY DEF RTypes, MidCall, OthersKept
<1>3. Spilling'
  BY DEF RTypes, Spilling, OthersKept
<1> QED BY <1>1, <1>2, <1>3 DEF RTypes

\* Taking a task from the queue takes its slot.
LEMMA TakeTaskKeeps ==
    ASSUME RInv, NEW w \in Workers, TakeTask(w), Head(taskQueue) # Sentinel
    PROVE  RInv'
<1> USE DEF workerVars, taskVars, reqVars, ioVars, modeVars
<1>1. PICK pc \in {"gather", "drain"} : wpc' = [wpc EXCEPT ![w] = pc]
  BY DEF TakeTask, Goto
<1>2. /\ wpc[w] = "idle" /\ taskQueue # <<>> /\ taskQueue' = Tail(taskQueue)
      /\ wvb' = [wvb EXCEPT ![w] = Head(taskQueue)]
      /\ UNCHANGED <<maxOwners, iopc, ioreq, iodepth, issued, vbVars, todo, held, batch>>
  BY DEF TakeTask
<1>3. /\ taskQueue \in Seq(Task) /\ taskQueue' \in Seq(Task) /\ Head(taskQueue) \in VB
  <2>1. taskQueue \in Seq(Task)
    BY DEF RInv, RTypes, QueueType
  <2>2. Head(taskQueue) \in Task /\ taskQueue' \in Seq(Task)
    BY <1>2, <2>1, HeadTailProperties
  <2> QED BY <2>1, <2>2 DEF Task
<1>4. WorkerType'
  BY <1>1, <1>2, <1>3 DEF RInv, RTypes, WorkerType, Wpc
<1>5. OthersKept(w) /\ wpc'[w] = pc /\ wvb'[w] = Head(taskQueue)
  BY <1>1, <1>2 DEF RInv, RTypes, WorkerType, OthersKept
<1>6. RTypes'
  <2>1. VBType' /\ QueueType'
    BY <1>2, <1>3 DEF RInv, RTypes, VBType, QueueType, vbVars
  <2> QED BY <1>2, <1>3, <1>4, <1>5, <2>1, ReaderTypes DEF RInv
<1>7. ASSUME NEW v \in VB
      PROVE  readOwners'[v] + Cardinality(Pos(v, taskQueue)) + Owning(w, v) + Waiting(w, v)
             = readOwners[v] + Cardinality(Pos(v, taskQueue')) + Owning(w, v)'
                 + Waiting(w, v)'
  <2>1. Cardinality(Pos(v, taskQueue)) = Cardinality(Pos(v, taskQueue'))
                                         + Same(Head(taskQueue), v)
    BY <1>2, <1>3, PosTail
  <2>2. Owning(w, v) = 0 /\ Owning(w, v)' = Same(Head(taskQueue), v)
    BY <1>2, <1>5 DEF Owning, OwningPc, Same
  <2>3. Waiting(w, v)' = Waiting(w, v) /\ Waiting(w, v) \in Nat
    BY <1>2, SlotsCount DEF Waiting, Pos, SlotsCounted, RInv, RTypes
  <2>4. readOwners'[v] = readOwners[v] /\ readOwners[v] \in Int
    BY <1>2, CountTypes DEF vbVars, RInv
  <2>5. Cardinality(Pos(v, taskQueue')) \in Nat /\ Same(Head(taskQueue), v) \in Nat
    BY <1>3, PosFinite DEF Same
  <2> QED BY <2>1, <2>2, <2>3, <2>4, <2>5
<1>8. Slotted'
  BY <1>2, <1>5, <1>6, <1>7, ReaderSlotted DEF RInv
<1>9. DepthExact'
  BY <1>2, <1>5, <1>6, ReaderDepthSame DEF RInv, vbVars, CollectingPc
<1>10. NoStrandedRead'
  BY <1>2, <1>5, <1>6, ReaderStranded DEF RInv, vbVars, RecheckPc
<1>11. Limited'
  BY <1>2 DEF RInv, Limited, vbVars
<1> QED BY <1>6, <1>8, <1>9, <1>10, <1>11 DEF RInv

\* So does taking one more without waiting.
LEMMA GatherTaskKeeps ==
    ASSUME RInv, NEW w \in Workers, GatherTask(w)
    PROVE  RInv'
<1> USE DEF workerVars, taskVars, reqVars, ioVars, modeVars
<1> DEFINE x == Head(taskQueue)
<1>1. /\ wpc[w] = "gather" /\ taskQueue # <<>> /\ taskQueue' = Tail(taskQueue)
      /\ x # Sentinel /\ todo' = [todo EXCEPT ![w] = Append(todo[w], x)]
      /\ UNCHANGED <<maxOwners, iopc, ioreq, iodepth, issued, vbVars, wpc, wvb, held, batch>>
  BY DEF GatherTask, Gathers
<1>2. taskQueue \in Seq(Task) /\ taskQueue' \in Seq(Task) /\ x \in VB
  <2>1. taskQueue \in Seq(Task)
    BY DEF RInv, RTypes, QueueType
  <2>2. x \in Task /\ taskQueue' \in Seq(Task)
    BY <1>1, <2>1, HeadTailProperties
  <2> QED BY <1>1, <2>1, <2>2 DEF Task
<1>3. \A v \in VB : Cardinality(Pos(v, taskQueue)) = Cardinality(Pos(v, taskQueue'))
                                                     + Same(x, v)
  BY <1>1, <1>2, PosTail
<1>4. todo[w] \in Seq(VB) /\ held[w] \in Seq(VB)
  BY DEF RInv, RTypes, WorkerType
<1> HIDE DEF x
<1>5. /\ Append(todo[w], x) \in Seq(VB)
      /\ \A v \in VB : Cardinality(Pos(v, Append(todo[w], x)))
                         = Cardinality(Pos(v, todo[w])) + Same(x, v)
  BY <1>2, <1>4, PosAppend, AppendProperties
<1>6. WorkerType' /\ todo'[w] = Append(todo[w], x)
  BY <1>1, <1>5 DEF RInv, RTypes, WorkerType
<1>7. OthersKept(w)
  BY <1>1 DEF RInv, RTypes, WorkerType, OthersKept
<1>8. RTypes'
  <2>1. VBType' /\ QueueType'
    BY <1>1, <1>2 DEF RInv, RTypes, VBType, QueueType, vbVars
  <2>2. wvb'[w] \in VB
    BY <1>1 DEF RInv, RTypes, MidCall, TaskPc
  <2> QED BY <1>1, <1>6, <1>7, <2>1, <2>2, ReaderTypes DEF RInv
<1>9. ASSUME NEW v \in VB
      PROVE  readOwners'[v] + Cardinality(Pos(v, taskQueue)) + Owning(w, v) + Waiting(w, v)
             = readOwners[v] + Cardinality(Pos(v, taskQueue')) + Owning(w, v)'
                 + Waiting(w, v)'
  <2>1. Owning(w, v)' = Owning(w, v) /\ Owning(w, v) \in Nat
    BY <1>1 DEF Owning
  <2>2. /\ Cardinality(Pos(v, todo[w])) \in Nat /\ Cardinality(Pos(v, held[w])) \in Nat
        /\ Cardinality(Pos(v, taskQueue')) \in Nat /\ Same(x, v) \in Nat
    BY <1>2, <1>4, PosFinite DEF Same
  <2>3. /\ Waiting(w, v) = Cardinality(Pos(v, todo[w])) + Cardinality(Pos(v, held[w]))
        /\ Waiting(w, v)' = Cardinality(Pos(v, todo[w])) + Same(x, v)
                            + Cardinality(Pos(v, held[w]))
    BY <1>1, <1>5, <1>6 DEF Waiting, Pos
  <2>4. readOwners'[v] = readOwners[v] /\ readOwners[v] \in Int
    BY <1>1, CountTypes DEF vbVars, RInv
  <2> QED BY <1>3, <2>1, <2>2, <2>3, <2>4
<1>10. Slotted'
  BY <1>1, <1>7, <1>8, <1>9, ReaderSlotted DEF RInv
<1>11. DepthExact'
  BY <1>1, <1>7, <1>8, ReaderDepthSame DEF RInv, vbVars, CollectingPc
<1>12. NoStrandedRead'
  BY <1>1, <1>7, <1>8, ReaderStranded DEF RInv, vbVars, RecheckPc
<1>13. Limited'
  BY <1>1 DEF RInv, Limited, vbVars
<1> QED BY <1>8, <1>10, <1>11, <1>12, <1>13 DEF RInv

\* A reader that stays with its task keeps its slot.
LEMMA SameSlots ==
    ASSUME RTypes, RTypes', Slotted, NEW w \in Workers, OthersKept(w),
           UNCHANGED <<iopc, ioreq, taskQueue, readOwners, wvb, todo, held>>,
           wpc[w] \in OwningPc, wpc'[w] \in OwningPc
    PROVE  Slotted'
<1>1. ASSUME NEW v \in VB
      PROVE  readOwners'[v] + Cardinality(Pos(v, taskQueue)) + Owning(w, v) + Waiting(w, v)
             = readOwners[v] + Cardinality(Pos(v, taskQueue')) + Owning(w, v)'
                 + Waiting(w, v)'
  <2>1. Owning(w, v)' = Owning(w, v) /\ Waiting(w, v)' = Waiting(w, v)
    BY DEF Owning, Waiting, Pos
  <2> QED BY <2>1
<1>2. iopc' = iopc /\ ioreq' = ioreq
  OBVIOUS
<1> QED BY <1>1, <1>2, ReaderSlotted

\* A chain has as many places as its length says.
LEMMA ChainCard ==
    ASSUME NEW S, NEW s \in Seq(S)
    PROVE  Len(s) \in Nat /\ IsFiniteSet(DOMAIN s) /\ Cardinality(DOMAIN s) = Len(s)
<1>1. DOMAIN s = 1..Len(s) /\ Len(s) \in Nat
  BY LenProperties
<1>2. IsFiniteSet(1..Len(s)) /\ Cardinality(1..Len(s)) = Len(s)
  BY <1>1, FS_Interval
<1> QED BY <1>1, <1>2

\* Arithmetic of the next lemmas.
LEMMA MoveSum ==
    ASSUME NEW d \in Int, NEW a \in Nat, NEW b \in Nat, NEW x \in Nat, NEW y \in Nat,
           NEW i \in Nat, NEW j \in Nat, a + b + i = x + y + j
    PROVE  d + a + b + i = d + x + y + j
OBVIOUS

\* The reader w moves requests of v between the stack, the overflow and its
\* batch, which counts for i before and for j after the step.
Collects(w, v, pc, b, l, o, i, j) ==
    /\ wvb[w] = v /\ wpc[w] \in OwningPc /\ pc \in OwningPc
    /\ b \in Seq(Request) /\ l \in Seq(Request) /\ o \in Seq(Request)
    /\ wpc' = [wpc EXCEPT ![w] = pc] /\ batch' = [batch EXCEPT ![w] = b]
    /\ list' = [list EXCEPT ![v] = l] /\ overflow' = [overflow EXCEPT ![v] = o]
    /\ UNCHANGED <<maxOwners, iopc, ioreq, iodepth, issued, readOwners, readDepth,
                   taskQueue, wvb, todo, held>>
    /\ pc = "spill" => Len(b) > MaxBatch
    /\ i = IF wpc[w] \in CollectingPc THEN Len(batch[w]) ELSE 0
    /\ j = IF pc \in CollectingPc THEN Len(b) ELSE 0
    /\ Len(list[v]) + Len(overflow[v]) + i = Len(l) + Len(o) + j

\* Such a step keeps the invariant.
LEMMA CollectKeeps ==
    ASSUME RInv, NEW w \in Workers, NEW v \in VB, NEW pc, NEW b, NEW l, NEW o, NEW i, NEW j,
           Collects(w, v, pc, b, l, o, i, j)
    PROVE  RInv'
<1>1. pc \in Wpc /\ pc \in TaskPc /\ pc \notin RecheckPc /\ wpc[w] \notin RecheckPc
  BY DEF Collects, OwningPc, Wpc, TaskPc, RecheckPc
<1>2. /\ wpc'[w] = pc /\ batch'[w] = b /\ wvb'[w] = v
      /\ list'[v] = l /\ overflow'[v] = o
      /\ \A u \in VB \ {v} : list'[u] = list[u] /\ overflow'[u] = overflow[u]
      /\ OthersKept(w)
  BY DEF Collects, RInv, RTypes, WorkerType, VBType, OthersKept
<1>3. RTypes'
  <2>1. WorkerType'
    BY <1>1 DEF Collects, RInv, RTypes, WorkerType
  <2>2. VBType' /\ QueueType'
    BY DEF Collects, RInv, RTypes, VBType, QueueType
  <2>3. UNCHANGED <<iopc, ioreq, iodepth, issued>> /\ (pc = "spill" => Len(b) > MaxBatch)
    BY DEF Collects
  <2> QED BY <1>1, <1>2, <2>1, <2>2, <2>3, ReaderTypes DEF RInv
<1>4. Slotted'
  <2>1. /\ UNCHANGED <<iopc, ioreq, taskQueue, readOwners, wvb, todo, held>>
        /\ wpc[w] \in OwningPc /\ pc \in OwningPc
    BY DEF Collects
  <2> QED BY <1>2, <1>3, <2>1, SameSlots DEF RInv
<1>5. Limited'
  BY DEF Collects, RInv, Limited
<1>6. ASSUME NEW u \in VB
      PROVE  readDepth'[u] + Len(list[u]) + Len(overflow[u]) + Cardinality(Uncounted(w, u))
             = readDepth[u] + Len(list'[u]) + Len(overflow'[u])
                 + Cardinality(Uncounted(w, u)')
  <2>1. /\ Len(batch[w]) \in Nat /\ Cardinality(DOMAIN batch[w]) = Len(batch[w])
        /\ Len(b) \in Nat /\ Cardinality(DOMAIN b) = Len(b)
        /\ Len(l) \in Nat /\ Len(o) \in Nat
    <3>1. /\ batch[w] \in Seq(Request) /\ b \in Seq(Request) /\ l \in Seq(Request)
          /\ o \in Seq(Request)
      BY DEF RInv, RTypes, WorkerType, Collects
    <3> QED BY <3>1, ChainCard
  <2>2. /\ readDepth[u] \in Int /\ Len(list[u]) \in Nat /\ Len(overflow[u]) \in Nat
        /\ readDepth' = readDepth /\ i \in Nat /\ j \in Nat
    BY <2>1, CountTypes DEF RInv, Collects
  <2>3. CASE u = v
    <3>1. Cardinality(Uncounted(w, u)) = i
      BY <2>1, <2>3, FS_EmptySet DEF Uncounted, Collects
    <3>2. Cardinality(Uncounted(w, u)') = j
      <4>1. Uncounted(w, u)' = IF pc \in CollectingPc THEN DOMAIN b ELSE {}
        BY <1>2, <2>3 DEF Uncounted
      <4> QED BY <2>1, <4>1, FS_EmptySet DEF Collects
    <3>3. Len(list[u]) + Len(overflow[u]) + i = Len(l) + Len(o) + j
      BY <2>3 DEF Collects
    <3>4. readDepth[u] + Len(list[u]) + Len(overflow[u]) + i
            = readDepth[u] + Len(l) + Len(o) + j
      <4>1. PICK d \in Int, a \in Nat, c \in Nat, x \in Nat, y \in Nat :
              /\ d = readDepth[u] /\ a = Len(list[u]) /\ c = Len(overflow[u])
              /\ x = Len(l) /\ y = Len(o)
        BY <2>1, <2>2
      <4>2. a + c + i = x + y + j
        BY <3>3, <4>1
      <4>3. d + a + c + i = d + x + y + j
        BY <2>2, <4>2, MoveSum
      <4> QED BY <4>1, <4>3
    <3> QED BY <1>2, <2>2, <2>3, <3>1, <3>2, <3>4
  <2>4. CASE u # v
    <3>1. Uncounted(w, u) = {} /\ Uncounted(w, u)' = {}
      BY <1>2, <2>4 DEF Uncounted, Collects
    <3> QED BY <1>2, <2>2, <2>4, <3>1
  <2> QED BY <2>3, <2>4
<1>7. DepthExact'
  <2>1. iopc' = iopc /\ ioreq' = ioreq
    BY DEF Collects
  <2>2. Compensated(w)
    BY <1>6 DEF Compensated
  <2> QED BY <1>2, <1>3, <2>1, <2>2, ReaderDepth DEF RInv
<1>8. NoStrandedRead'
  <2>1. readOwners'[v] > 0
    BY OwnerCounts DEF RInv, Collects
  <2>2. iopc' = iopc /\ ioreq' = ioreq /\ readOwners' = readOwners
    BY DEF Collects
  <2> QED BY <1>1, <1>2, <1>3, <2>1, <2>2, ReaderStranded DEF RInv
<1> QED BY <1>3, <1>4, <1>5, <1>7, <1>8 DEF RInv

\* Reversing a swept chain keeps its length.
LEMMA ReverseType ==
    ASSUME NEW S, NEW s \in Seq(S)
    PROVE  Reverse(s) \in Seq(S) /\ Len(Reverse(s)) = Len(s)
<1>1. Len(s) \in Nat /\ \A i \in 1..Len(s) : s[i] \in S
  BY ElementOfSeq, LenProperties
<1>2. \A i \in 1..Len(s) : (Len(s) - i) + 1 \in 1..Len(s)
  BY <1>1
<1>3. Reverse(s) \in [1..Len(s) -> S]
  BY <1>1, <1>2 DEF Reverse
<1> QED BY <1>1, <1>3, IsASeq, LenProperties

\* Cutting a list in two loses nothing.
LEMMA CutLength ==
    ASSUME NEW S, NEW s \in Seq(S), NEW n \in 0..Len(s)
    PROVE  /\ SubSeq(s, 1, n) \in Seq(S) /\ Len(SubSeq(s, 1, n)) = n
           /\ SubSeq(s, n + 1, Len(s)) \in Seq(S)
           /\ Len(SubSeq(s, n + 1, Len(s))) = Len(s) - n
<1>1. Len(s) \in Nat /\ \A i \in 1..Len(s) : s[i] \in S
  BY ElementOfSeq, LenProperties
<1>2. (\A i \in 1..n : s[i] \in S) /\ \A i \in (n + 1)..Len(s) : s[i] \in S
  BY <1>1
<1>3. SubSeq(s, 1, n) \in Seq(S) /\ Len(SubSeq(s, 1, n)) = IF 1 <= n THEN n - 1 + 1 ELSE 0
  BY <1>1, <1>2, SubSeqProperties
<1>4. /\ SubSeq(s, n + 1, Len(s)) \in Seq(S)
      /\ Len(SubSeq(s, n + 1, Len(s))) = IF n + 1 <= Len(s) THEN Len(s) - (n + 1) + 1 ELSE 0
  <2>1. n + 1 \in Int /\ Len(s) \in Int
    BY <1>1
  <2> QED BY <1>2, <2>1, SubSeqProperties
<1> QED BY <1>1, <1>3, <1>4

\* What earlier rounds left over, taken under overflowMu.
LEMMA DrainOverflowKeeps ==
    ASSUME RInv, NEW w \in Workers, DrainOverflow(w)
    PROVE  RInv'
<1> USE DEF workerVars, taskVars, reqVars, ioVars, modeVars
<1>1. PICK v : v = wvb[w]
  OBVIOUS
<1>2. wpc[w] = "drain" /\ v \in VB
  BY <1>1 DEF DrainOverflow, RInv, RTypes, MidCall, TaskPc
<1>3. overflow[v] \in Seq(Request) /\ Len(overflow[v]) \in Nat /\ list[v] \in Seq(Request)
  BY <1>2, CountTypes DEF RInv, RTypes, VBType
<1>4. PICK n : n = IF Len(overflow[v]) < MaxBatch THEN Len(overflow[v]) ELSE MaxBatch
  OBVIOUS
<1>5. n \in 0..Len(overflow[v]) /\ MaxBatch \in Nat
  BY <1>3, <1>4, ReadNumbers
<1>6. PICK b, o : b = SubSeq(overflow[v], 1, n)
                  /\ o = SubSeq(overflow[v], n + 1, Len(overflow[v]))
  OBVIOUS
<1>7. /\ b \in Seq(Request) /\ Len(b) = n
      /\ o \in Seq(Request) /\ Len(o) = Len(overflow[v]) - n
  BY <1>3, <1>5, <1>6, CutLength
<1>8. PICK pc \in {"sweep", "count"} : wpc' = [wpc EXCEPT ![w] = pc]
  BY DEF DrainOverflow, Goto
<1>9. /\ batch' = [batch EXCEPT ![w] = b] /\ overflow' = [overflow EXCEPT ![v] = o]
      /\ UNCHANGED <<maxOwners, iopc, ioreq, iodepth, issued, list, readOwners, readDepth,
                     taskQueue, wvb, todo, held>>
  BY <1>1, <1>4, <1>6 DEF DrainOverflow
<1>10. list' = [list EXCEPT ![v] = list[v]]
  BY <1>2, <1>9 DEF RInv, RTypes, VBType
<1>11. pc \in OwningPc /\ wpc[w] \in OwningPc
  BY <1>2 DEF OwningPc
<1>12. Len(list[v]) \in Nat
  BY <1>2, CountTypes DEF RInv
<1>13. Len(list[v]) + Len(overflow[v]) + 0 = Len(list[v]) + Len(o) + Len(b)
  BY <1>3, <1>5, <1>7, <1>12
<1>14. Collects(w, v, pc, b, list[v], o, 0, Len(b))
  BY <1>1, <1>2, <1>3, <1>7, <1>8, <1>9, <1>10, <1>11, <1>13 DEF Collects, CollectingPc
<1> QED BY <1>2, <1>14, CollectKeeps

\* sweepOnce and reverse.
LEMMA SweepKeeps ==
    ASSUME RInv, NEW w \in Workers, Sweep(w)
    PROVE  RInv'
<1> USE DEF workerVars, taskVars, reqVars, ioVars, modeVars
<1>1. PICK v : v = wvb[w]
  OBVIOUS
<1>2. wpc[w] = "sweep" /\ v \in VB
  BY <1>1 DEF Sweep, RInv, RTypes, MidCall, TaskPc
<1>3. /\ list[v] \in Seq(Request) /\ Len(list[v]) \in Nat
      /\ overflow[v] \in Seq(Request) /\ Len(overflow[v]) \in Nat
      /\ batch[w] \in Seq(Request) /\ Len(batch[w]) \in Nat
  BY <1>2, CountTypes, LenProperties DEF RInv, RTypes, VBType, WorkerType
<1>4. PICK b : b = batch[w] \o Reverse(list[v])
  OBVIOUS
<1>5. b \in Seq(Request) /\ Len(b) = Len(batch[w]) + Len(list[v])
  <2>1. Reverse(list[v]) \in Seq(Request) /\ Len(Reverse(list[v])) = Len(list[v])
    BY <1>3, ReverseType
  <2>2. PICK r : r = Reverse(list[v])
    OBVIOUS
  <2>3. batch[w] \o r \in Seq(Request) /\ Len(batch[w] \o r) = Len(batch[w]) + Len(r)
    BY <1>3, <2>1, <2>2, ConcatProperties
  <2> QED BY <1>4, <2>1, <2>2, <2>3
<1>6. PICK pc : pc = IF b = <<>> THEN "release"
                     ELSE IF Len(b) > MaxBatch THEN "spill" ELSE "count"
  OBVIOUS
<1>7. /\ wpc' = [wpc EXCEPT ![w] = pc]
      /\ batch' = [batch EXCEPT ![w] = b] /\ list' = [list EXCEPT ![v] = <<>>]
      /\ UNCHANGED <<maxOwners, iopc, ioreq, iodepth, issued, overflow, readOwners,
                     readDepth, taskQueue, wvb, todo, held>>
  BY <1>1, <1>4, <1>6 DEF Sweep, Goto
<1>8. overflow' = [overflow EXCEPT ![v] = overflow[v]]
  BY <1>2, <1>7 DEF RInv, RTypes, VBType
<1>9. /\ pc \in OwningPc /\ wpc[w] \in OwningPc /\ (pc = "spill" => Len(b) > MaxBatch)
      /\ wpc[w] \in CollectingPc
  BY <1>2, <1>6 DEF OwningPc, CollectingPc
<1>10. <<>> \in Seq(Request) /\ Len(<<>>) = 0
  BY EmptySeq
<1>11. (IF pc \in CollectingPc THEN Len(b) ELSE 0) = Len(b)
  <2>1. CASE b = <<>>
    BY <1>6, <1>10, <2>1 DEF CollectingPc
  <2>2. CASE b # <<>>
    BY <1>6, <2>2 DEF CollectingPc
  <2> QED BY <2>1, <2>2
<1>12. Len(list[v]) + Len(overflow[v]) + Len(batch[w]) = 0 + Len(overflow[v]) + Len(b)
  <2>1. PICK a \in Nat, c \in Nat, n \in Nat :
          a = Len(overflow[v]) /\ c = Len(batch[w]) /\ n = Len(list[v])
    BY <1>3
  <2>2. Len(b) = c + n
    BY <1>5, <2>1
  <2>3. n + a + c = 0 + a + (c + n)
    OBVIOUS
  <2> QED BY <2>1, <2>2, <2>3
<1>13. PICK l : l = <<>>
  OBVIOUS
<1>14. Collects(w, v, pc, b, l, overflow[v], Len(batch[w]), Len(b))
  BY <1>1, <1>3, <1>5, <1>7, <1>8, <1>9, <1>10, <1>11, <1>12, <1>13 DEF Collects
<1> QED BY <1>2, <1>14, CollectKeeps

\* The excess goes to the overflow.
LEMMA SpillKeeps ==
    ASSUME RInv, NEW w \in Workers, Spill(w)
    PROVE  RInv'
<1> USE DEF workerVars, taskVars, reqVars, ioVars, modeVars
<1>1. PICK v : v = wvb[w]
  OBVIOUS
<1>2. wpc[w] = "spill" /\ v \in VB
  BY <1>1 DEF Spill, RInv, RTypes, MidCall, TaskPc
<1>3. /\ list[v] \in Seq(Request) /\ Len(list[v]) \in Nat
      /\ overflow[v] \in Seq(Request) /\ Len(overflow[v]) \in Nat
      /\ batch[w] \in Seq(Request) /\ Len(batch[w]) \in Nat
  BY <1>2, CountTypes, LenProperties DEF RInv, RTypes, VBType, WorkerType
<1>4. MaxBatch \in 0..Len(batch[w]) /\ MaxBatch \in Nat
  BY <1>2, <1>3, ReadNumbers DEF RInv, RTypes, Spilling
<1>5. PICK b, e : /\ b = SubSeq(batch[w], 1, MaxBatch)
                  /\ e = SubSeq(batch[w], MaxBatch + 1, Len(batch[w]))
  OBVIOUS
<1>6. /\ b \in Seq(Request) /\ Len(b) = MaxBatch
      /\ e \in Seq(Request) /\ Len(e) = Len(batch[w]) - MaxBatch
  BY <1>3, <1>4, <1>5, CutLength
<1>7. overflow[v] \o e \in Seq(Request) /\ Len(overflow[v] \o e) = Len(overflow[v]) + Len(e)
  BY <1>3, <1>6, ConcatProperties
<1>8. PICK o : o = overflow[v] \o e
  OBVIOUS
<1>9. /\ wpc' = [wpc EXCEPT ![w] = "count"]
      /\ batch' = [batch EXCEPT ![w] = b] /\ overflow' = [overflow EXCEPT ![v] = o]
      /\ UNCHANGED <<maxOwners, iopc, ioreq, iodepth, issued, list, readOwners,
                     readDepth, taskQueue, wvb, todo, held>>
  BY <1>1, <1>5, <1>8 DEF Spill, Goto
<1>10. list' = [list EXCEPT ![v] = list[v]]
  BY <1>2, <1>9 DEF RInv, RTypes, VBType
<1>11. /\ "count" \in OwningPc /\ wpc[w] \in OwningPc
       /\ wpc[w] \in CollectingPc /\ "count" \in CollectingPc
  BY <1>2 DEF OwningPc, CollectingPc
<1>12. o \in Seq(Request) /\ Len(o) = Len(overflow[v]) + Len(e) /\ Len(o) \in Nat
  BY <1>7, <1>8, LenProperties
<1>13. Len(list[v]) + Len(overflow[v]) + Len(batch[w]) = Len(list[v]) + Len(o) + Len(b)
  <2>1. PICK a \in Nat, c \in Nat, n \in Nat, k \in Nat :
          a = Len(overflow[v]) /\ c = Len(batch[w]) /\ n = Len(list[v]) /\ k = Len(o)
    BY <1>3, <1>12
  <2>2. k = a + (c - MaxBatch)
    BY <1>6, <1>12, <2>1
  <2>3. n + a + c = n + k + MaxBatch
    BY <1>4, <2>2
  <2> QED BY <1>6, <2>1, <2>3
<1>14. Collects(w, v, "count", b, list[v], o, Len(batch[w]), Len(b))
  BY <1>1, <1>3, <1>6, <1>9, <1>10, <1>11, <1>12, <1>13 DEF Collects
<1> QED BY <1>2, <1>14, CollectKeeps

\* A reader that goes on with another task, its batch unchanged or emptied.
LEMMA GoesOnTypes ==
    ASSUME RTypes, NEW w \in Workers, GoesOn(w), batch' \in [Workers -> Seq(Request)],
           \A u \in Workers \ {w} : batch'[u] = batch[u],
           UNCHANGED <<iopc, ioreq, iodepth, issued>>, VBType', QueueType'
    PROVE  /\ RTypes' /\ OthersKept(w)
           /\ wpc'[w] \notin CollectingPc /\ wpc'[w] \notin RecheckPc
<1>1. WorkerType'
  BY DEF GoesOn, TaskType, WorkerType
<1>2. OthersKept(w)
  BY DEF GoesOn, OthersKept
<1>3. /\ wpc'[w] \in TaskPc => wvb'[w] \in VB
      /\ wpc'[w] # "spill" /\ wpc'[w] \notin CollectingPc /\ wpc'[w] \notin RecheckPc
  BY DEF GoesOn, AfterPc, TaskPc, CollectingPc, RecheckPc
<1>4. RTypes'
  BY <1>1, <1>2, <1>3, ReaderTypes
<1> QED BY <1>2, <1>3, <1>4

\* The types NextTask and ReleaseNext need.
LEMMA TaskTypes == RTypes => TaskType
BY DEF RTypes, WorkerType, TaskType

\* A reader that has nothing at hand and goes on: GetDocs has returned, or the
\* call was taken or refused.
LEMMA ReturnKeeps ==
    ASSUME RInv, NEW w \in Workers, wpc[w] \in {"serve", "call"}, ReleaseNext(w),
           UNCHANGED <<maxOwners, iopc, ioreq, iodepth, issued, vbVars, taskQueue, todo,
                       batch>>
    PROVE  RInv'
<1>1. /\ GoesOn(w)
      /\ \A v \in VB : Owning(w, v)' + Waiting(w, v)' = Waiting(w, v)
  BY TaskTypes, ReleaseNextStep DEF RInv
<1>2. /\ RTypes' /\ OthersKept(w)
      /\ wpc'[w] \notin CollectingPc /\ wpc'[w] \notin RecheckPc
  <2>1. VBType' /\ QueueType' /\ batch' \in [Workers -> Seq(Request)]
    BY DEF RInv, RTypes, VBType, QueueType, WorkerType, vbVars
  <2> QED BY <1>1, <2>1, GoesOnTypes DEF RInv
<1>3. wpc[w] \notin CollectingPc /\ wpc[w] \notin RecheckPc /\ wpc[w] \notin OwningPc
  BY DEF CollectingPc, RecheckPc, OwningPc
<1>4. iopc' = iopc /\ ioreq' = ioreq /\ taskQueue' = taskQueue /\ readOwners' = readOwners
  BY DEF vbVars
<1>5. ASSUME NEW v \in VB
      PROVE  readOwners'[v] + Cardinality(Pos(v, taskQueue)) + Owning(w, v) + Waiting(w, v)
             = readOwners[v] + Cardinality(Pos(v, taskQueue')) + Owning(w, v)'
                 + Waiting(w, v)'
  <2>1. Owning(w, v) = 0
    BY <1>3 DEF Owning
  <2>2. SlotsCounted /\ SlotsCounted'
    BY <1>2, SlotsCount, PTL DEF RInv, RTypes
  <2>3. /\ Waiting(w, v) \in Nat /\ Waiting(w, v)' \in Nat /\ Owning(w, v)' \in Nat
    BY <2>2 DEF SlotsCounted
  <2>4. readOwners[v] \in Int /\ Cardinality(Pos(v, taskQueue)) \in Nat
    BY CountTypes DEF RInv
  <2> QED BY <1>1, <1>4, <2>1, <2>3, <2>4
<1>6. Slotted'
  BY <1>2, <1>4, <1>5, ReaderSlotted DEF RInv
<1>7. DepthExact'
  BY <1>2, <1>3, ReaderDepthSame DEF RInv, vbVars
<1>8. NoStrandedRead'
  BY <1>2, <1>3, ReaderStranded DEF RInv, vbVars
<1>9. Limited'
  BY <1>4 DEF RInv, Limited
<1> QED BY <1>2, <1>6, <1>7, <1>8, <1>9 DEF RInv

\* fetch_sub: what was collected is no longer queued, and a synchronous read
\* keeps the slot of the task among those to release.
LEMMA CountBatchKeeps ==
    ASSUME RInv, NEW w \in Workers, CountBatch(w)
    PROVE  RInv'
<1> USE DEF workerVars, taskVars, reqVars, ioVars, modeVars
<1>1. PICK v : v = wvb[w]
  OBVIOUS
<1>2. wpc[w] = "count" /\ v \in VB
  BY <1>1 DEF CountBatch, RInv, RTypes, MidCall, TaskPc
<1>3. /\ readDepth' = [readDepth EXCEPT ![v] = readDepth[v] - Len(batch[w])]
      /\ batch' = [batch EXCEPT ![w] = <<>>]
      /\ UNCHANGED <<maxOwners, iopc, ioreq, iodepth, issued, list, overflow, readOwners,
                     taskQueue>>
  BY <1>1 DEF CountBatch, Collected
<1>4. /\ Len(batch[w]) \in Nat /\ Cardinality(DOMAIN batch[w]) = Len(batch[w])
      /\ held[w] \in Seq(VB) /\ todo[w] \in Seq(VB)
  <2>1. batch[w] \in Seq(Request) /\ held[w] \in Seq(VB) /\ todo[w] \in Seq(VB)
    BY DEF RInv, RTypes, WorkerType
  <2> QED BY <2>1, ChainCard
<1>5. VBType' /\ QueueType' /\ batch' \in [Workers -> Seq(Request)]
      /\ \A u \in Workers \ {w} : batch'[u] = batch[u]
  <2>1. readDepth[v] - Len(batch[w]) \in Int
    BY <1>2, <1>4, CountTypes DEF RInv
  <2>2. <<>> \in Seq(Request)
    BY EmptySeq
  <2>3. readDepth' \in [VB -> Int] /\ batch' \in [Workers -> Seq(Request)]
        /\ \A u \in Workers \ {w} : batch'[u] = batch[u]
    BY <1>3, <2>1, <2>2 DEF RInv, RTypes, VBType, WorkerType
  <2> QED BY <1>3, <2>3 DEF RInv, RTypes, VBType, QueueType
<1>6. /\ RTypes' /\ OthersKept(w)
      /\ wpc'[w] \notin CollectingPc /\ wpc'[w] \notin RecheckPc
      /\ \A u \in VB : Owning(w, u)' + Waiting(w, u)' = Waiting(w, u) + Same(v, u)
  <2>1. CASE async
    <3>1. wpc' = [wpc EXCEPT ![w] = "release"] /\ UNCHANGED <<wvb, todo, held>>
      BY <2>1 DEF CountBatch, Collected, Goto
    <3>2. GoesOn(w)
      <4>1. /\ TaskType' /\ wpc'[w] = "release" /\ wvb'[w] = v
            /\ \A u \in Workers \ {w} : wpc'[u] = wpc[u]
        BY <1>1, <3>1 DEF TaskType, RInv, RTypes, WorkerType, Wpc
      <4> QED BY <1>2, <3>1, <4>1 DEF GoesOn, AfterPc
    <3>3. ASSUME NEW u \in VB
          PROVE  Owning(w, u)' + Waiting(w, u)' = Waiting(w, u) + Same(v, u)
      <4>1. Owning(w, u)' = Same(v, u) /\ Waiting(w, u)' = Waiting(w, u)
        BY <1>1, <3>1 DEF Owning, OwningPc, Same, Waiting, Pos, RInv, RTypes, WorkerType
      <4>2. Same(v, u) \in Nat /\ Waiting(w, u) \in Nat
        BY SlotsCount DEF Same, RInv, RTypes, SlotsCounted
      <4> QED BY <4>1, <4>2
    <3> QED BY <1>3, <1>5, <3>2, <3>3, GoesOnTypes DEF RInv
  <2>2. CASE ~async
    <3>1. NextTask(w) /\ held' = [held EXCEPT ![w] = Append(held[w], v)]
      BY <1>1, <2>2 DEF CountBatch, Collected
    <3>2. /\ Append(held[w], v) \in Seq(VB)
          /\ \A u \in VB : Cardinality(Pos(u, Append(held[w], v)))
                             = Cardinality(Pos(u, held[w])) + Same(v, u)
      BY <1>2, <1>4, PosAppend, AppendProperties
    <3>3. /\ held' \in [Workers -> Seq(VB)] /\ held'[w] = Append(held[w], v)
          /\ \A u \in Workers \ {w} : held'[u] = held[u]
      BY <3>1, <3>2 DEF RInv, RTypes, WorkerType
    <3>4. /\ GoesOn(w)
          /\ \A u \in VB : Owning(w, u)' + Cardinality(Pos(u, todo'[w]))
                             = Cardinality(Pos(u, todo[w]))
      BY <3>1, <3>3, TaskTypes, NextTaskStep DEF RInv
    <3>5. /\ RTypes' /\ OthersKept(w)
          /\ wpc'[w] \notin CollectingPc /\ wpc'[w] \notin RecheckPc
      BY <1>3, <1>5, <3>4, GoesOnTypes DEF RInv
    <3>6. ASSUME NEW u \in VB
          PROVE  Owning(w, u)' + Waiting(w, u)' = Waiting(w, u) + Same(v, u)
      <4>1. /\ Waiting(w, u)' = Cardinality(Pos(u, todo'[w]))
                                + (Cardinality(Pos(u, held[w])) + Same(v, u))
            /\ Waiting(w, u) = Cardinality(Pos(u, todo[w])) + Cardinality(Pos(u, held[w]))
        BY <3>2, <3>3 DEF Waiting, Pos
      <4>2. todo'[w] \in Seq(VB)
        BY <3>5 DEF RTypes, WorkerType
      <4>3. /\ Cardinality(Pos(u, todo'[w])) \in Nat /\ Cardinality(Pos(u, held[w])) \in Nat
            /\ Cardinality(Pos(u, todo[w])) \in Nat
            /\ Owning(w, u)' \in Nat /\ Same(v, u) \in Nat
        BY <1>4, <4>2, PosFinite DEF Owning, Same
      <4> QED BY <3>4, <4>1, <4>3
    <3> QED BY <3>5, <3>6
  <2> QED BY <2>1, <2>2
<1>7. ASSUME NEW u \in VB
      PROVE  readOwners'[u] + Cardinality(Pos(u, taskQueue)) + Owning(w, u) + Waiting(w, u)
             = readOwners[u] + Cardinality(Pos(u, taskQueue')) + Owning(w, u)'
                 + Waiting(w, u)'
  <2>1. Owning(w, u) = Same(v, u) /\ Same(v, u) \in Nat
    BY <1>1, <1>2 DEF Owning, OwningPc, Same
  <2>2. SlotsCounted /\ SlotsCounted'
    BY <1>6, SlotsCount, PTL DEF RInv, RTypes
  <2>3. Waiting(w, u) \in Nat /\ Waiting(w, u)' \in Nat /\ Owning(w, u)' \in Nat
    BY <2>2 DEF SlotsCounted
  <2>4. readOwners[u] \in Int /\ Cardinality(Pos(u, taskQueue)) \in Nat
    BY CountTypes DEF RInv
  <2>5. PICK r \in Int, p \in Nat, k \in Nat, x \in Nat, y \in Nat, z \in Nat :
          /\ r = readOwners[u] /\ p = Cardinality(Pos(u, taskQueue)) /\ k = Same(v, u)
          /\ x = Waiting(w, u) /\ y = Waiting(w, u)' /\ z = Owning(w, u)'
    BY <2>1, <2>3, <2>4
  <2>6. z + y = x + k
    BY <1>6, <2>5
  <2>7. r + p + k + x = r + p + z + y
    BY <2>6
  <2> QED BY <1>3, <2>1, <2>5, <2>7
<1>8. Slotted'
  BY <1>3, <1>6, <1>7, ReaderSlotted DEF RInv
<1>9. ASSUME NEW u \in VB
      PROVE  readDepth'[u] + Len(list[u]) + Len(overflow[u]) + Cardinality(Uncounted(w, u))
             = readDepth[u] + Len(list'[u]) + Len(overflow'[u])
                 + Cardinality(Uncounted(w, u)')
  <2>1. Cardinality(Uncounted(w, u)') = 0
    BY <1>6, FS_EmptySet DEF Uncounted
  <2>2. readDepth[u] \in Int /\ Len(list[u]) \in Nat /\ Len(overflow[u]) \in Nat
    BY CountTypes DEF RInv
  <2>3. list'[u] = list[u] /\ overflow'[u] = overflow[u]
    BY <1>3
  <2>4. PICK d \in Int, a \in Nat, c \in Nat, n \in Nat :
          d = readDepth[u] /\ a = Len(list[u]) /\ c = Len(overflow[u]) /\ n = Len(batch[w])
    BY <1>4, <2>2
  <2>5. CASE u = v
    <3>1. Cardinality(Uncounted(w, u)) = n
      BY <1>1, <1>2, <1>4, <2>4, <2>5 DEF Uncounted, CollectingPc
    <3>2. readDepth'[u] = d - n
      BY <1>2, <1>3, <2>4, <2>5 DEF RInv, RTypes, VBType
    <3>3. (d - n) + a + c + n = d + a + c + 0
      OBVIOUS
    <3> QED BY <2>1, <2>3, <2>4, <3>1, <3>2, <3>3
  <2>6. CASE u # v
    <3>1. Cardinality(Uncounted(w, u)) = 0
      BY <1>1, <2>6, FS_EmptySet DEF Uncounted
    <3>2. readDepth'[u] = d
      BY <1>3, <2>4, <2>6 DEF RInv, RTypes, VBType
    <3> QED BY <2>1, <2>3, <2>4, <3>1, <3>2
  <2> QED BY <2>5, <2>6
<1>10. DepthExact'
  <2>1. Compensated(w)
    BY <1>9 DEF Compensated
  <2> QED BY <1>3, <1>6, <2>1, ReaderDepth DEF RInv
<1>11. NoStrandedRead'
  BY <1>2, <1>3, <1>6, ReaderStranded DEF RInv, RecheckPc
<1>12. Limited'
  BY <1>3 DEF RInv, Limited
<1> QED BY <1>6, <1>8, <1>10, <1>11, <1>12 DEF RInv

\* The slot is given back; the reader still has to look.
LEMMA ReleaseKeeps ==
    ASSUME RInv, NEW w \in Workers, Release(w)
    PROVE  RInv'
<1> USE DEF workerVars, taskVars, reqVars, ioVars, modeVars
<1>1. PICK v : v = wvb[w]
  OBVIOUS
<1>2. wpc[w] = "release" /\ v \in VB
  BY <1>1 DEF Release, RInv, RTypes, MidCall, TaskPc
<1>3. /\ readOwners' = [readOwners EXCEPT ![v] = readOwners[v] - 1]
      /\ wpc' = [wpc EXCEPT ![w] = "peek"]
      /\ UNCHANGED <<maxOwners, iopc, ioreq, iodepth, issued, list, overflow, readDepth,
                     taskQueue, wvb, todo, held, batch>>
  BY <1>1 DEF Release, Goto
<1>4. /\ wpc'[w] = "peek" /\ wvb'[w] = v /\ OthersKept(w)
      /\ \A u \in VB \ {v} : readOwners'[u] = readOwners[u]
      /\ readOwners'[v] = readOwners[v] - 1
  BY <1>1, <1>2, <1>3 DEF RInv, RTypes, WorkerType, VBType, OthersKept
<1>5. RTypes'
  <2>1. readOwners[v] - 1 \in Int
    BY <1>2, CountTypes DEF RInv
  <2>2. readOwners' \in [VB -> Int]
    BY <1>3, <2>1 DEF RInv, RTypes, VBType
  <2>3. VBType' /\ QueueType' /\ WorkerType'
    BY <1>3, <2>2 DEF RInv, RTypes, VBType, QueueType, WorkerType, Wpc
  <2> QED BY <1>2, <1>3, <1>4, <2>3, ReaderTypes DEF RInv
<1>6. ASSUME NEW u \in VB
      PROVE  readOwners'[u] + Cardinality(Pos(u, taskQueue)) + Owning(w, u) + Waiting(w, u)
             = readOwners[u] + Cardinality(Pos(u, taskQueue')) + Owning(w, u)'
                 + Waiting(w, u)'
  <2>1. Owning(w, u) = Same(v, u) /\ Owning(w, u)' = 0 /\ Waiting(w, u)' = Waiting(w, u)
    BY <1>1, <1>2, <1>3, <1>4 DEF Owning, OwningPc, Same, Waiting, Pos
  <2>2. readOwners'[u] = readOwners[u] - Same(v, u) /\ Same(v, u) \in Nat
    BY <1>4, CountTypes DEF Same, RInv
  <2>3. /\ Waiting(w, u) \in Nat /\ readOwners[u] \in Int
        /\ Cardinality(Pos(u, taskQueue)) \in Nat
    BY SlotsCount, CountTypes DEF RInv, RTypes, SlotsCounted
  <2> QED BY <1>3, <2>1, <2>2, <2>3
<1>7. Slotted'
  BY <1>3, <1>4, <1>5, <1>6, ReaderSlotted DEF RInv
<1>8. DepthExact'
  BY <1>2, <1>3, <1>4, <1>5, ReaderDepthSame DEF RInv, CollectingPc
<1>9. NoStrandedRead'
  BY <1>2, <1>3, <1>4, <1>5, ReaderStranded DEF RInv, RecheckPc
<1>10. Limited'
  <2>1. /\ \A u \in VB : readOwners[u] \in Int /\ readOwners[u] <= maxOwners
        /\ maxOwners \in Nat /\ maxOwners' = maxOwners
    BY <1>3, CountTypes, ReadNumbers DEF RInv, RTypes, VBType, Limited
  <2> QED BY <1>2, <1>4, <2>1 DEF Limited
<1> QED BY <1>5, <1>7, <1>8, <1>9, <1>10 DEF RInv

\* The last look is over: the reader goes on, its slot, if it has one again, is
\* in the queue, and the vbucket has an owner, a pusher, or nothing waiting.
LEMMA LeavesKeeps ==
    ASSUME RInv, NEW w \in Workers, wpc[w] \in RecheckPc \cup {"resubmit"}, Released(w),
           taskQueue' \in Seq(Task),
           UNCHANGED <<maxOwners, iopc, ioreq, iodepth, issued, vbVars, batch>>,
           \A u \in VB : Cardinality(Pos(u, taskQueue'))
                           = Cardinality(Pos(u, taskQueue)) + Owning(w, u),
           \A u \in VB : wpc[w] \in RecheckPc /\ wvb[w] = u =>
              \/ readOwners[u] > 0 \/ (list[u] = <<>> /\ overflow[u] = <<>>)
              \/ \E t \in IOThreads : iopc[t] \in {"count", "arm"} /\ ioreq[t].vb = u
    PROVE  RInv'
<1>1. /\ GoesOn(w)
      /\ \A v \in VB : Owning(w, v)' + Waiting(w, v)' = Waiting(w, v)
  BY TaskTypes, ReleasedStep DEF RInv
<1>2. /\ RTypes' /\ OthersKept(w)
      /\ wpc'[w] \notin CollectingPc /\ wpc'[w] \notin RecheckPc
  <2>1. VBType' /\ QueueType' /\ batch' \in [Workers -> Seq(Request)]
    BY DEF RInv, RTypes, VBType, QueueType, WorkerType, vbVars
  <2> QED BY <1>1, <2>1, GoesOnTypes DEF RInv
<1>3. wpc[w] \notin CollectingPc
  BY DEF CollectingPc, RecheckPc
<1>4. /\ iopc' = iopc /\ ioreq' = ioreq /\ readOwners' = readOwners
      /\ list' = list /\ overflow' = overflow
  BY DEF vbVars
<1>5. ASSUME NEW v \in VB
      PROVE  readOwners'[v] + Cardinality(Pos(v, taskQueue)) + Owning(w, v) + Waiting(w, v)
             = readOwners[v] + Cardinality(Pos(v, taskQueue')) + Owning(w, v)'
                 + Waiting(w, v)'
  <2>1. SlotsCounted /\ SlotsCounted'
    BY <1>2, SlotsCount, PTL DEF RInv, RTypes
  <2>2. /\ Waiting(w, v) \in Nat /\ Waiting(w, v)' \in Nat
        /\ Owning(w, v) \in Nat /\ Owning(w, v)' \in Nat
    BY <2>1 DEF SlotsCounted
  <2>3. readOwners[v] \in Int /\ Cardinality(Pos(v, taskQueue)) \in Nat
    BY CountTypes DEF RInv
  <2>4. PICK r \in Int, p \in Nat, k \in Nat, x \in Nat, y \in Nat, z \in Nat :
          /\ r = readOwners[v] /\ p = Cardinality(Pos(v, taskQueue)) /\ k = Owning(w, v)
          /\ x = Waiting(w, v) /\ y = Waiting(w, v)' /\ z = Owning(w, v)'
    BY <2>2, <2>3
  <2>5. z + y = x /\ Cardinality(Pos(v, taskQueue')) = p + k
    BY <1>1, <2>4
  <2>6. r + p + k + x = r + (p + k) + z + y
    BY <2>5
  <2> QED BY <1>4, <2>4, <2>5, <2>6
<1>6. Slotted'
  BY <1>2, <1>4, <1>5, ReaderSlotted DEF RInv
<1>7. DepthExact'
  BY <1>2, <1>3, ReaderDepthSame DEF RInv, vbVars
<1>8. NoStrandedRead'
  BY <1>2, <1>4, ReaderStranded DEF RInv
<1>9. Limited'
  BY <1>4 DEF RInv, Limited
<1> QED BY <1>2, <1>6, <1>7, <1>8, <1>9 DEF RInv

\* The point of the recheck on readDepth: with no owner nobody is collecting,
\* so a depth of zero or less means that nothing is queued but what is being
\* pushed, and the pusher will arm.
LEMMA RecheckDepthKeeps ==
    ASSUME RInv, NEW w \in Workers, RecheckDepth(w), ~(readDepth[wvb[w]] > 0)
    PROVE  RInv'
<1> USE DEF workerVars, taskVars, reqVars, ioVars, modeVars
<1>1. PICK v : v = wvb[w]
  OBVIOUS
<1>2. wpc[w] = "depth" /\ v \in VB
  BY <1>1 DEF RecheckDepth, RInv, RTypes, MidCall, TaskPc
<1>3. /\ Released(w) /\ taskQueue' = taskQueue
      /\ UNCHANGED <<maxOwners, iopc, ioreq, iodepth, issued, vbVars, batch>>
  BY DEF RecheckDepth
<1>4. \/ readOwners[v] > 0 \/ (list[v] = <<>> /\ overflow[v] = <<>>)
      \/ \E t \in IOThreads : iopc[t] \in {"count", "arm"} /\ ioreq[t].vb = v
  <2> SUFFICES ASSUME ~(readOwners[v] > 0), Pushing(v) = {}
               PROVE  list[v] = <<>> /\ overflow[v] = <<>>
    BY DEF Pushing
  <2>1. readOwners[v] = 0
    BY <1>2, OwnerCounts, CountTypes DEF RInv
  <2>2. Collecting(v) = {}
    BY <1>2, <2>1, OwnerCounts DEF RInv
  <2>3. Cardinality(Collecting(v)) = 0 /\ Cardinality(Pushing(v)) = 0
    BY <2>2, FS_EmptySet
  <2>4. /\ readDepth[v] = Len(list[v]) + Len(overflow[v]) + Cardinality(Collecting(v))
                          - Cardinality(Pushing(v))
        /\ Len(list[v]) \in Nat /\ Len(overflow[v]) \in Nat /\ readDepth[v] \in Int
    BY <1>2, CountTypes DEF RInv, DepthExact
  <2>5. Len(list[v]) = 0 /\ Len(overflow[v]) = 0
    <3>1. PICK d \in Int, a \in Nat, c \in Nat :
            d = readDepth[v] /\ a = Len(list[v]) /\ c = Len(overflow[v])
      BY <2>4
    <3>2. d = a + c + 0 - 0 /\ ~(d > 0)
      BY <1>1, <2>3, <2>4, <3>1
    <3>3. a = 0 /\ c = 0
      BY <3>2
    <3> QED BY <3>1, <3>3
  <2>6. list[v] \in Seq(Request) /\ overflow[v] \in Seq(Request)
    BY <1>2 DEF RInv, RTypes, VBType
  <2> QED BY <2>5, <2>6, EmptySeq
<1>5. ASSUME NEW u \in VB
      PROVE  Cardinality(Pos(u, taskQueue')) = Cardinality(Pos(u, taskQueue)) + Owning(w, u)
  BY <1>2, <1>3, CountTypes DEF Owning, OwningPc, RInv
<1>6. taskQueue' \in Seq(Task) /\ wpc[w] \in RecheckPc
  BY <1>2, <1>3 DEF RInv, RTypes, QueueType, RecheckPc
<1> QED BY <1>1, <1>3, <1>4, <1>5, <1>6, LeavesKeeps

\* A slot taken back is the reader's until it has resubmitted; if there is none
\* to take, others own the vbucket.
LEMMA RearmKeeps ==
    ASSUME RInv, NEW w \in Workers, Rearm(w)
    PROVE  RInv'
<1> USE DEF workerVars, taskVars, reqVars, ioVars, modeVars
<1>1. PICK v : v = wvb[w]
  OBVIOUS
<1>2. wpc[w] = "rearm" /\ v \in VB
  BY <1>1 DEF Rearm, RInv, RTypes, MidCall, TaskPc
<1>3. UNCHANGED <<maxOwners, iopc, ioreq, iodepth, issued, list, overflow, readDepth,
                  taskQueue, batch>>
  BY DEF Rearm
<1>4. readOwners[v] \in Int /\ readOwners[v] >= 0 /\ maxOwners \in Nat \ {0}
  BY <1>2, OwnerCounts, CountTypes, ReadNumbers DEF RInv, RTypes, VBType
<1>5. CASE readOwners[v] < maxOwners
  <2>1. /\ readOwners' = [readOwners EXCEPT ![v] = readOwners[v] + 1]
        /\ wpc' = [wpc EXCEPT ![w] = "resubmit"] /\ UNCHANGED <<wvb, todo, held>>
    BY <1>1, <1>5 DEF Rearm, Goto
  <2>2. /\ wpc'[w] = "resubmit" /\ wvb'[w] = v /\ OthersKept(w)
        /\ \A u \in VB \ {v} : readOwners'[u] = readOwners[u]
        /\ readOwners'[v] = readOwners[v] + 1
    BY <1>1, <1>2, <1>3, <2>1 DEF RInv, RTypes, WorkerType, VBType, OthersKept
  <2>3. RTypes'
    <3>1. readOwners[v] + 1 \in Int
      BY <1>4
    <3>2. readOwners' \in [VB -> Int]
      BY <2>1, <3>1 DEF RInv, RTypes, VBType
    <3>3. VBType' /\ QueueType' /\ WorkerType'
      BY <1>3, <2>1, <3>2 DEF RInv, RTypes, VBType, QueueType, WorkerType, Wpc
    <3> QED BY <1>2, <1>3, <2>2, <3>3, ReaderTypes DEF RInv
  <2>4. ASSUME NEW u \in VB
        PROVE  readOwners'[u] + Cardinality(Pos(u, taskQueue)) + Owning(w, u)
                 + Waiting(w, u)
               = readOwners[u] + Cardinality(Pos(u, taskQueue')) + Owning(w, u)'
                   + Waiting(w, u)'
    <3>1. Owning(w, u)' = Same(v, u) /\ Owning(w, u) = 0 /\ Waiting(w, u)' = Waiting(w, u)
      BY <1>1, <1>2, <1>3, <2>1, <2>2 DEF Owning, OwningPc, Same, Waiting, Pos
    <3>2. readOwners'[u] = readOwners[u] + Same(v, u) /\ Same(v, u) \in Nat
      BY <2>2, CountTypes DEF Same, RInv
    <3>3. /\ Waiting(w, u) \in Nat /\ readOwners[u] \in Int
          /\ Cardinality(Pos(u, taskQueue)) \in Nat
      BY SlotsCount, CountTypes DEF RInv, RTypes, SlotsCounted
    <3> QED BY <1>3, <3>1, <3>2, <3>3
  <2>5. Slotted'
    BY <1>3, <2>2, <2>3, <2>4, ReaderSlotted DEF RInv
  <2>6. DepthExact'
    BY <1>2, <1>3, <2>2, <2>3, ReaderDepthSame DEF RInv, CollectingPc
  <2>7. NoStrandedRead'
    <3>1. readOwners'[v] > 0
      BY <1>4, <2>2
    <3> QED BY <1>1, <1>2, <1>3, <2>2, <2>3, <3>1, ReaderStranded DEF RInv, RecheckPc
  <2>8. Limited'
    <3>1. readOwners'[v] <= maxOwners
      BY <1>4, <1>5, <2>2
    <3> QED BY <1>3, <2>2, <3>1 DEF RInv, Limited
  <2> QED BY <2>3, <2>5, <2>6, <2>7, <2>8 DEF RInv
<1>6. CASE ~(readOwners[v] < maxOwners)
  <2>1. Released(w) /\ readOwners' = readOwners
    BY <1>1, <1>6 DEF Rearm
  <2>2. readOwners[v] > 0
    BY <1>4, <1>6
  <2>3. ASSUME NEW u \in VB
        PROVE  Cardinality(Pos(u, taskQueue')) = Cardinality(Pos(u, taskQueue)) + Owning(w, u)
    BY <1>2, <1>3, CountTypes DEF Owning, OwningPc, RInv
  <2>4. /\ taskQueue' \in Seq(Task) /\ wpc[w] \in RecheckPc
        /\ UNCHANGED <<maxOwners, iopc, ioreq, iodepth, issued, vbVars, batch>>
    BY <1>2, <1>3, <2>1 DEF RInv, RTypes, QueueType, RecheckPc, vbVars
  <2> QED BY <1>1, <2>1, <2>2, <2>3, <2>4, LeavesKeeps
<1> QED BY <1>5, <1>6

\* The task goes back to the queue with its slot.
LEMMA ResubmitKeeps ==
    ASSUME RInv, NEW w \in Workers, Resubmit(w)
    PROVE  RInv'
<1> USE DEF workerVars, taskVars, reqVars, ioVars, modeVars
<1>1. PICK v : v = wvb[w]
  OBVIOUS
<1>2. wpc[w] = "resubmit" /\ v \in VB
  BY <1>1 DEF Resubmit, RInv, RTypes, MidCall, TaskPc
<1>3. /\ Released(w) /\ taskQueue' = Append(taskQueue, v)
      /\ UNCHANGED <<maxOwners, iopc, ioreq, iodepth, issued, vbVars, batch>>
  BY <1>1 DEF Resubmit
<1>4. taskQueue \in Seq(Task) /\ v \in Task
  BY <1>2 DEF RInv, RTypes, QueueType, Task
<1>5. taskQueue' \in Seq(Task)
  BY <1>3, <1>4, AppendProperties
<1>6. ASSUME NEW u \in VB
      PROVE  Cardinality(Pos(u, taskQueue')) = Cardinality(Pos(u, taskQueue)) + Owning(w, u)
  <2>1. Owning(w, u) = Same(v, u)
    BY <1>1, <1>2 DEF Owning, OwningPc, Same
  <2> QED BY <1>3, <1>4, <2>1, PosAppend
<1>7. wpc[w] \notin RecheckPc
  BY <1>2 DEF RecheckPc
<1> QED BY <1>2, <1>3, <1>5, <1>6, <1>7, LeavesKeeps

-----------------------------------------------------------------------------
(* The theorems *)

\* The invariant holds before the first request.
LEMMA InitRInv == Init => RInv
<1> SUFFICES ASSUME Init PROVE RInv
  OBVIOUS
<1>1. <<>> \in Seq(Request) /\ <<>> \in Seq(VB) /\ <<>> \in Seq(Task) /\ Len(<<>>) = 0
  BY EmptySeq
<1>2. IOType
  BY ReadNumbers DEF Init, IOType
<1>3. VBType /\ QueueType
  BY <1>1 DEF Init, VBType, QueueType
<1>4. WorkerType
  BY <1>1 DEF Init, WorkerType, Wpc
<1>5. MidCall /\ Spilling
  BY DEF Init, MidCall, TaskPc, Spilling
<1>6. ASSUME NEW v \in VB
      PROVE  /\ Pos(v, taskQueue) = {} /\ Submitting(v) = {} /\ ReaderSlots(v) = {}
             /\ Collecting(v) = {} /\ Pushing(v) = {}
  <2>1. Submitting(v) = {} /\ Pushing(v) = {}
    BY DEF Init, Submitting, Pushing
  <2>2. Pos(v, <<>>) = {}
    BY DEF Pos
  <2>3. \A w \in Workers : Slots(w, v) = {}
    <3>1. \A w \in Workers : wpc[w] \notin OwningPc /\ todo[w] = <<>> /\ held[w] = <<>>
      BY DEF Init, OwningPc
    <3> QED BY <2>2, <3>1 DEF Slots
  <2>4. \A w \in Workers : Uncounted(w, v) = {}
    BY DEF Init, Uncounted, CollectingPc
  <2>5. Pos(v, taskQueue) = {}
    BY <2>2 DEF Init
  <2> QED BY <2>1, <2>3, <2>4, <2>5 DEF ReaderSlots, Collecting
<1>7. Slotted
  <2>1. ASSUME NEW v \in VB
        PROVE  readOwners[v] = Cardinality(Pos(v, taskQueue)) + Cardinality(Submitting(v))
                               + Cardinality(ReaderSlots(v))
    <3>1. readOwners[v] = 0
      BY DEF Init
    <3>2. /\ Cardinality(Pos(v, taskQueue)) = 0 /\ Cardinality(Submitting(v)) = 0
          /\ Cardinality(ReaderSlots(v)) = 0
      BY <1>6, FS_EmptySet
    <3> QED BY <3>1, <3>2
  <2> QED BY <2>1 DEF Slotted
<1>8. Limited
  <2>1. maxOwners \in Nat /\ \A v \in VB : readOwners[v] = 0
    BY ReadNumbers DEF Init
  <2> QED BY <2>1 DEF Limited
<1>9. DepthExact
  <2>1. ASSUME NEW v \in VB
        PROVE  readDepth[v] = Len(list[v]) + Len(overflow[v])
                              + Cardinality(Collecting(v)) - Cardinality(Pushing(v))
    <3>1. readDepth[v] = 0 /\ Len(list[v]) = 0 /\ Len(overflow[v]) = 0
      BY <1>1 DEF Init
    <3>2. Cardinality(Collecting(v)) = 0 /\ Cardinality(Pushing(v)) = 0
      BY <1>6, FS_EmptySet
    <3> QED BY <3>1, <3>2
  <2> QED BY <2>1 DEF DepthExact
<1>10. NoStrandedRead
  BY DEF Init, NoStrandedRead
<1> QED BY <1>2, <1>3, <1>4, <1>5, <1>7, <1>8, <1>9, <1>10 DEF RInv, RTypes

\* The number of readers stays a number: only resizing and the end change it.
LEMMA LiveType == live \in Nat /\ [Next]_vars => live' \in Nat
<1> USE DEF workerVars, taskVars, reqVars, ioVars, modeVars, vbVars, magmaVars, poolVars
<1> SUFFICES ASSUME live \in Nat, [Next]_vars PROVE live' \in Nat
  OBVIOUS
<1>1. CASE UNCHANGED vars \/ Reap \/ BeginShutdown \/ Closed
  BY <1>1 DEF Reap, BeginShutdown, Closed, vars
<1>2. CASE MagmaStep \/ ShutdownStep
  BY <1>2 DEF MagmaStep, AsyncOnDoc, OnJobDone, ShutdownStep, StopReaders, JoinReaders
<1>3. ASSUME NEW n \in 1..Cardinality(Workers), Shrink(n) PROVE live' \in Nat
  BY <1>3, ShrinkByIs DEF Shrink
<1>4. ASSUME NEW t \in IOThreads, NEW v \in VB, NEW k \in Key, EnqueueRead(t, v, k)
      PROVE  live' \in Nat
  BY <1>4 DEF EnqueueRead
<1>5. ASSUME NEW t \in IOThreads, IOStep(t) PROVE live' \in Nat
  BY <1>5 DEF IOStep, CountRead, Arm, Submit
<1>6. ASSUME NEW w \in Workers, WorkerStep(w) \/ Grow(w) PROVE live' \in Nat
  <2>1. CASE LoopTest(w) \/ TakeTask(w) \/ GatherTask(w) \/ GatherSentinel(w)
             \/ GatherEnd(w) \/ Grow(w)
    BY <2>1 DEF LoopTest, TakeTask, GatherTask, GatherSentinel, GatherEnd, Grow
  <2>2. CASE DrainOverflow(w) \/ Sweep(w) \/ Spill(w) \/ CountBatch(w)
    BY <2>2 DEF DrainOverflow, Sweep, Spill, CountBatch
  <2>3. CASE FlushAll(w) \/ CallAccepted(w) \/ CallFailed(w)
    BY <2>3 DEF FlushAll, CallAccepted, CallFailed
  <2>4. ASSUME NEW v \in VB, NEW k \in Key, OnDoc(w, v, k) PROVE live' \in Nat
    BY <2>4 DEF OnDoc
  <2>5. CASE Release(w) \/ PeekOverflow(w) \/ Recheck(w) \/ RecheckDepth(w)
             \/ Rearm(w) \/ Resubmit(w)
    BY <2>5 DEF Release, PeekOverflow, Recheck, RecheckDepth, Rearm, Resubmit
  <2> QED BY <1>6, <2>1, <2>2, <2>3, <2>4, <2>5 DEF WorkerStep
<1> QED BY <1>1, <1>2, <1>3, <1>4, <1>5, <1>6 DEF Next

\* Every step keeps it.
LEMMA NextRInv == RInv /\ live \in Nat /\ [Next]_vars => RInv'
<1> SUFFICES ASSUME RInv, live \in Nat, [Next]_vars PROVE RInv'
  OBVIOUS
<1>1. ASSUME Quiet PROVE RInv'
  BY <1>1, QuietKeeps
<1>2. CASE UNCHANGED vars \/ MagmaStep \/ Reap \/ BeginShutdown \/ ShutdownStep \/ Closed
           \/ \E n \in 1..Cardinality(Workers) : Shrink(n)
  BY <1>1, <1>2, IdleQuiet DEF RInv
<1>3. ASSUME NEW t \in IOThreads, NEW v \in VB, NEW k \in Key, EnqueueRead(t, v, k)
      PROVE  RInv'
  BY <1>3, EnqueueReadKeeps
<1>4. ASSUME NEW t \in IOThreads, IOStep(t) PROVE RInv'
  BY <1>4, CountReadKeeps, ArmKeeps, SubmitKeeps DEF IOStep
<1>5. ASSUME NEW w \in Workers, WorkerStep(w) \/ Grow(w) PROVE RInv'
  <2>1. CASE Grow(w) \/ LoopTest(w) \/ GatherEnd(w) \/ GatherSentinel(w) \/ PeekOverflow(w)
             \/ Recheck(w) \/ \E v \in VB, k \in Key : OnDoc(w, v, k)
    BY <1>1, <2>1, IdleQuiet DEF RInv
  <2>2. CASE TakeTask(w)
    <3>1. CASE Head(taskQueue) = Sentinel
      BY <1>1, <2>2, <3>1, IdleQuiet DEF RInv
    <3>2. CASE Head(taskQueue) # Sentinel
      BY <2>2, <3>2, TakeTaskKeeps
    <3> QED BY <3>1, <3>2
  <2>3. CASE RecheckDepth(w)
    <3>1. CASE readDepth[wvb[w]] > 0
      BY <1>1, <2>3, <3>1, IdleQuiet DEF RInv
    <3>2. CASE ~(readDepth[wvb[w]] > 0)
      BY <2>3, <3>2, RecheckDepthKeeps
    <3> QED BY <3>1, <3>2
  <2>4. CASE FlushAll(w) \/ CallAccepted(w) \/ CallFailed(w)
    <3>1. /\ wpc[w] \in {"serve", "call"} /\ ReleaseNext(w)
          /\ UNCHANGED <<maxOwners, iopc, ioreq, iodepth, issued, vbVars, taskQueue, todo,
                         batch>>
      BY <2>4 DEF FlushAll, CallAccepted, CallFailed, modeVars, ioVars
    <3> QED BY <3>1, ReturnKeeps
  <2>5. CASE GatherTask(w)
    BY <2>5, GatherTaskKeeps
  <2>6. CASE DrainOverflow(w)
    BY <2>6, DrainOverflowKeeps
  <2>7. CASE Sweep(w)
    BY <2>7, SweepKeeps
  <2>8. CASE Spill(w)
    BY <2>8, SpillKeeps
  <2>9. CASE CountBatch(w)
    BY <2>9, CountBatchKeeps
  <2>10. CASE Release(w)
    BY <2>10, ReleaseKeeps
  <2>11. CASE Rearm(w)
    BY <2>11, RearmKeeps
  <2>12. CASE Resubmit(w)
    BY <2>12, ResubmitKeeps
  <2> QED BY <1>5, <2>1, <2>2, <2>3, <2>4, <2>5, <2>6, <2>7, <2>8, <2>9, <2>10, <2>11,
             <2>12 DEF WorkerStep
<1> QED BY <1>2, <1>3, <1>4, <1>5 DEF Next

\* The invariant holds in every reachable state of the read path.
THEOREM ReadInvariant == Spec => []RInv
<1> DEFINE Staffed == live \in Nat
<1>1. Init => RInv /\ Staffed
  <2>1. IsFiniteSet(InitWorkers)
    BY ReadSets, FS_Subset
  <2> QED BY <2>1, FS_CardinalityType, InitRInv DEF Init
<1>2. RInv /\ Staffed /\ [Next]_vars => (RInv /\ Staffed)'
  BY NextRInv, LiveType
<1> HIDE DEF Staffed
<1> QED BY <1>1, <1>2, PTL DEF Spec

\* readOwners is the number of tasks that exist for the vbucket, wherever the
\* compare_exchange loops of EnqueueRead and releaseReadVBQueue interleave, and
\* gMaxReadOwners bounds it (Bucket::EnqueueRead, ReaderPool::releaseReadVBQueue).
THEOREM OwnersAreExact == Spec => []OwnersExact
<1>1. RInv => OwnersExact
  BY DEF RInv, Slotted, Limited, OwnersExact
<1> QED BY <1>1, ReadInvariant, PTL

\* readDepth is what is queued, up to the pushes and collections under way
\* (EnqueueRead's fetch_add, collectRead's fetch_sub).
THEOREM DepthIsExact == Spec => []DepthExact
<1>1. RInv => DepthExact
  BY DEF RInv
<1> QED BY <1>1, ReadInvariant, PTL

\* A GET on the stack or in the overflow has an owner or somebody who is still
\* going to look: release, peek, recheck and rearm lose no wakeup.
THEOREM NoReadStranded == Spec => []NoStrandedRead
<1>1. RInv => NoStrandedRead
  BY DEF RInv
<1> QED BY <1>1, ReadInvariant, PTL
-----------------------------------------------------------------------------
(* Where a GET is and in which order: the inductive invariant *)

\* The types RTypes has no need of.
RestTypes ==
    /\ async \in AsyncModes
    /\ stopAfter \in [Workers -> BOOLEAN]
    /\ got \in [Workers -> SUBSET Request]
    /\ accum \in [Workers -> SUBSET Request]
    /\ calls \subseteq SUBSET Request
    /\ magmaAccum \subseteq Request
    /\ live \in Nat
    /\ phase \in {"run", "stop", "join", "closed"}
    /\ resizes \in 0..MaxResizes
    /\ posted \in [Id -> Nat]

\* The places a GET goes through.
Place == ({"list", "overflow"} \X VB) \cup ({"batch", "got", "accum"} \X Workers)
         \cup ({"call"} \X SUBSET Request) \cup {<<"magma", 0>>, <<"posted", 0>>}

Has(S, i) == \E r \in S : r.id = i

Posted == <<"posted", 0>>

\* The requests at place c; of those answered only the number is left.
Hold(c) ==
    CASE c[1] = "list"     -> Range(list[c[2]])
      [] c[1] = "overflow" -> Range(overflow[c[2]])
      [] c[1] = "batch"    -> Range(batch[c[2]])
      [] c[1] = "got"      -> got[c[2]]
      [] c[1] = "accum"    -> accum[c[2]]
      [] c[1] = "call"     -> IF c[2] \in calls THEN c[2] ELSE {}
      [] c[1] = "magma"    -> magmaAccum
      [] OTHER             -> {}

\* Request i is at place c.
At(c, i) == IF c = Posted THEN posted[i] = 1 ELSE Has(Hold(c), i)

\* A request that was received is at one place, and one that was not at none.
Located ==
    /\ \A i \in Id : \A c, d \in Place : At(c, i) /\ At(d, i) => c = d
    /\ \A i \in Id : i <= issued <=> \E c \in Place : At(c, i)
    /\ \A i \in Id : posted[i] \in {0, 1}

\* ... and only once there.
Once(q) == \A j, k \in DOMAIN q : q[j].id = q[k].id => j = k

OnceEach ==
    /\ \A v \in VB : Once(list[v]) /\ Once(overflow[v])
    /\ \A w \in Workers : Once(batch[w])

\* An id stands for one request.
Known == \A c, d \in Place : \A r \in Hold(c), s \in Hold(d) : r.id = s.id => r = s

\* Every GET is somewhere, once.
PlaceInv == RestTypes /\ Located /\ OnceEach /\ Known

\* Requests are queued and collected under their vbucket.
OwnVB ==
    /\ \A v \in VB : \A r \in Range(list[v]) \cup Range(overflow[v]) : r.vb = v
    /\ \A w \in Workers : batch[w] # <<>> => wpc[w] \in CollectingPc
    /\ \A w \in Workers : \A r \in Range(batch[w]) : r.vb = wvb[w]

\* What has been swept of a vbucket, by any reader.
Swept(v) ==
    Range(overflow[v])
    \cup UNION {{r \in Range(batch[w]) \cup got[w] : r.vb = v} : w \in Workers}

Before(S, T) == \A r \in S, s \in T : r.id < s.id

Rising(q)  == \A j, k \in DOMAIN q : j < k => q[j].id < q[k].id
Falling(q) == \A j, k \in DOMAIN q : j < k => q[j].id > q[k].id

\* The stack is in the order of arrival and newer than what was swept.
Newer ==
    /\ \A v \in VB : Falling(list[v]) /\ Before(Swept(v), Range(list[v]))
    /\ \A v \in VB : \A r \in Range(list[v]) \cup Swept(v) : r.id <= issued

\* With one owner everything moves in the order of arrival.
InTurn ==
    /\ \A v \in VB : Rising(overflow[v])
    /\ \A w \in Workers : Rising(batch[w])
    /\ \A w \in Workers : wpc[w] \in {"sweep", "spill"} => overflow[wvb[w]] = <<>>
    /\ \A w \in Workers : \A b \in Range(batch[w]) :
         Before({b}, Range(overflow[b.vb]))
    /\ \A u \in Workers : \A g \in got[u] :
         /\ Before({g}, Range(overflow[g.vb]))
         /\ \A w \in Workers : \A b \in Range(batch[w]) : b.vb = g.vb => g.id < b.id

\* GETs are collected in the order of arrival.
OrderInv == OwnVB /\ Newer /\ (maxOwners = 1 => InTurn)
-----------------------------------------------------------------------------
(* Places *)

\* What Hold is at each kind of place.
Forms ==
    /\ \A v \in VB : /\ Hold(<<"list", v>>) = Range(list[v])
                     /\ Hold(<<"overflow", v>>) = Range(overflow[v])
    /\ \A w \in Workers : /\ Hold(<<"batch", w>>) = Range(batch[w])
                          /\ Hold(<<"got", w>>) = got[w]
                          /\ Hold(<<"accum", w>>) = accum[w]
    /\ \A g \in SUBSET Request : Hold(<<"call", g>>) = IF g \in calls THEN g ELSE {}
    /\ Hold(<<"magma", 0>>) = magmaAccum /\ Hold(Posted) = {}

\* Hold evaluated.
LEMMA HoldForms == Forms
BY DEF Forms, Hold, Posted

\* A place is of one of eight kinds.
LEMMA PlaceForms ==
    ASSUME NEW c \in Place
    PROVE  \/ \E v \in VB : c = <<"list", v>> \/ c = <<"overflow", v>>
           \/ \E w \in Workers : c = <<"batch", w>> \/ c = <<"got", w>> \/ c = <<"accum", w>>
           \/ \E g \in SUBSET Request : c = <<"call", g>>
           \/ c = <<"magma", 0>> \/ c = Posted
BY DEF Place, Posted

\* Eight kinds of places are places.
LEMMA PlacesAre ==
    /\ \A v \in VB : <<"list", v>> \in Place /\ <<"overflow", v>> \in Place
    /\ \A w \in Workers : /\ <<"batch", w>> \in Place /\ <<"got", w>> \in Place
                          /\ <<"accum", w>> \in Place
    /\ \A g \in SUBSET Request : <<"call", g>> \in Place
    /\ <<"magma", 0>> \in Place /\ Posted \in Place
    /\ \A v \in VB : <<"list", v>> # Posted /\ <<"overflow", v>> # Posted
    /\ \A w \in Workers : /\ <<"batch", w>> # Posted /\ <<"got", w>> # Posted
                          /\ <<"accum", w>> # Posted
    /\ \A g \in SUBSET Request : <<"call", g>> # Posted
    /\ <<"magma", 0>> # Posted
BY DEF Place, Posted

\* What is held is requests.
HoldsRequests == \A c \in Place : Hold(c) \subseteq Request

\* The requests of a sequence.
LEMMA RangeSeq ==
    ASSUME NEW S, NEW q \in Seq(S)
    PROVE  /\ Range(q) \subseteq S
           /\ \A r : r \in Range(q) <=> \E j \in 1..Len(q) : q[j] = r
BY ElementOfSeq, LenProperties DEF Range

\* Every place holds requests.
LEMMA HoldTypes == VBType /\ WorkerType /\ RestTypes => HoldsRequests
<1> SUFFICES ASSUME VBType, WorkerType, RestTypes, NEW c \in Place
             PROVE  Hold(c) \subseteq Request
  BY DEF HoldsRequests
<1>1. \A v \in VB : Range(list[v]) \subseteq Request /\ Range(overflow[v]) \subseteq Request
  BY RangeSeq DEF VBType
<1>2. \A w \in Workers : Range(batch[w]) \subseteq Request
  BY RangeSeq DEF WorkerType
<1>3. CASE \E v \in VB : c = <<"list", v>> \/ c = <<"overflow", v>>
  BY <1>1, <1>3, HoldForms DEF Forms
<1>4. CASE \E w \in Workers : c = <<"batch", w>> \/ c = <<"got", w>> \/ c = <<"accum", w>>
  <2>1. PICK w \in Workers : c = <<"batch", w>> \/ c = <<"got", w>> \/ c = <<"accum", w>>
    BY <1>4
  <2>2. got[w] \subseteq Request /\ accum[w] \subseteq Request /\ Range(batch[w]) \subseteq Request
    BY <1>2 DEF RestTypes
  <2>3. /\ Hold(<<"batch", w>>) = Range(batch[w]) /\ Hold(<<"got", w>>) = got[w]
        /\ Hold(<<"accum", w>>) = accum[w]
    BY HoldForms DEF Forms
  <2> QED BY <2>1, <2>2, <2>3
<1>5. CASE \E g \in SUBSET Request : c = <<"call", g>>
  BY <1>5, HoldForms DEF Forms
<1>6. CASE c = <<"magma", 0>> \/ c = Posted
  BY <1>6, HoldForms DEF Forms, RestTypes
<1> QED BY <1>3, <1>4, <1>5, <1>6, PlaceForms

\* A request stays where it is, or is at one place after the step.
Settles(i) ==
    \/ \A c \in Place : At(c, i)' <=> At(c, i)
    \/ i <= issued /\ \E b \in Place : \A c \in Place : At(c, i)' <=> c = b

\* Then every request is at one place again.
LEMMA SettledLocated ==
    ASSUME Located, UNCHANGED issued, \A i \in Id : Settles(i),
           \A i \in Id : posted'[i] \in {0, 1}
    PROVE  Located'
<1>1. ASSUME NEW i \in Id PROVE \A c, d \in Place : At(c, i)' /\ At(d, i)' => c = d
  BY Zenon DEF Located, Settles
<1>2. ASSUME NEW i \in Id PROVE i <= issued' <=> \E c \in Place : At(c, i)'
  <2>1. CASE \A c \in Place : At(c, i)' <=> At(c, i)
    BY <2>1, Zenon DEF Located
  <2>2. CASE i <= issued /\ \E b \in Place : \A c \in Place : At(c, i)' <=> c = b
    BY <2>2, Zenon
  <2> QED BY <2>1, <2>2 DEF Settles
<1> QED BY <1>1, <1>2 DEF Located, Place

\* The requests X move from the places A to the place b.
Moves(A, b, X) ==
    /\ A \subseteq Place \ {Posted} /\ b \in Place \ A
    /\ X \subseteq UNION {Hold(a) : a \in A}
    /\ \A c \in Place \ (A \cup {b}) : Hold(c)' = Hold(c)
    /\ \A a \in A : Hold(a)' = Hold(a) \ X
    /\ IF b = Posted THEN Post(X)
       ELSE Hold(b)' = Hold(b) \cup X /\ posted' = posted

\* A move keeps every request at one place, and every id with its request.
LEMMA MoveKeeps ==
    ASSUME Located, Known, HoldsRequests, RestTypes, UNCHANGED issued,
           NEW A, NEW b, NEW X, Moves(A, b, X)
    PROVE  Located' /\ Known'
<1>1. ASSUME NEW r \in X
      PROVE  \E a \in A : a \in Place /\ a # Posted /\ r \in Hold(a) /\ At(a, r.id)
  BY DEF Moves, At, Has
<1>2. \A r \in X : r.id \in Id
  BY <1>1 DEF HoldsRequests, Request
<1>3. \A i \in Id : Has(X, i) => posted[i] = 0 /\ i <= issued
  <2> SUFFICES ASSUME NEW i \in Id, NEW r \in X, r.id = i
               PROVE  posted[i] = 0 /\ i <= issued
    BY DEF Has
  <2>1. PICK a \in A : a \in Place /\ a # Posted /\ At(a, i)
    BY <1>1
  <2>2. Posted \in Place /\ (At(Posted, i) <=> posted[i] = 1)
    BY PlacesAre DEF At
  <2> QED BY <2>1, <2>2 DEF Located
<1>4. \A i \in Id : posted'[i] \in {0, 1}
  BY <1>3 DEF Moves, Post, Located, Has
<1>5. ASSUME NEW i \in Id, ~Has(X, i) PROVE \A c \in Place : At(c, i)' <=> At(c, i)
  <2> TAKE c \in Place
  <2>1. CASE c = Posted
    <3>1. posted'[i] = posted[i]
      BY <1>5 DEF Moves, Post, Has
    <3> QED BY <2>1, <3>1 DEF At, Posted
  <2>2. CASE c # Posted
    <3>1. Has(Hold(c)', i) <=> Has(Hold(c), i)
      <4>1. CASE c \in A
        BY <1>5, <4>1 DEF Moves, Has
      <4>2. CASE c = b
        BY <1>5, <2>2, <4>2 DEF Moves, Has
      <4>3. CASE c \notin A \cup {b}
        BY <4>3 DEF Moves, Has
      <4> QED BY <4>1, <4>2, <4>3
    <3> QED BY <2>2, <3>1 DEF At, Has, Posted
  <2> QED BY <2>1, <2>2
<1>6. ASSUME NEW i \in Id, Has(X, i) PROVE \A c \in Place : At(c, i)' <=> c = b
  <2>1. PICK r \in X : r.id = i
    BY <1>6 DEF Has
  <2>2. PICK a \in A : a \in Place /\ a # Posted /\ r \in Hold(a) /\ At(a, i)
    BY <1>1, <2>1
  <2> TAKE c \in Place
  <2>3. CASE c = b
    <3>1. CASE b = Posted
      BY <1>3, <1>6, <2>3, <3>1 DEF Moves, Post, At, Has, Posted
    <3>2. CASE b # Posted
      BY <2>1, <2>3, <3>2 DEF Moves, At, Has, Posted
    <3> QED BY <3>1, <3>2
  <2>4. CASE c \in A /\ c # b
    <3>1. ~Has(Hold(c) \ X, i)
      BY <2>1, <2>2, <2>4 DEF Known, Has
    <3> QED BY <2>4, <3>1 DEF Moves, At, Has, Posted
  <2>5. CASE c \notin A /\ c # b
    <3>1. ~At(c, i)
      BY <2>2, <2>5 DEF Located
    <3>2. CASE c = Posted
      <4>1. posted' = posted
        BY <2>5, <3>2 DEF Moves
      <4> QED BY <2>5, <3>1, <3>2, <4>1 DEF At, Posted
    <3>3. CASE c # Posted
      BY <2>5, <3>1, <3>3 DEF Moves, At, Has, Posted
    <3> QED BY <3>2, <3>3
  <2> QED BY <2>3, <2>4, <2>5
<1>7. \A i \in Id : Settles(i)
  BY <1>3, <1>5, <1>6 DEF Settles, Moves
<1>8. Located'
  BY <1>4, <1>7, SettledLocated
<1>9. \A c \in Place : \A r \in Hold(c)' : \E d \in Place : r \in Hold(d)
  <2> SUFFICES ASSUME NEW c \in Place, NEW r \in Hold(c)'
               PROVE  \E d \in Place : r \in Hold(d)
    OBVIOUS
  <2>1. CASE c \in A
    BY <2>1 DEF Moves
  <2>2. CASE c = b /\ b # Posted
    BY <2>2 DEF Moves
  <2>3. CASE c = b /\ b = Posted
    <3>1. Forms'
      BY HoldForms, PTL
    <3> QED BY <2>3, <3>1 DEF Forms, Posted
  <2>4. CASE c \notin A \cup {b}
    BY <2>4 DEF Moves
  <2> QED BY <2>1, <2>2, <2>3, <2>4
<1>10. Known'
  <2>1. \A c, d \in Place : \A r \in Hold(c)', s \in Hold(d)' : r.id = s.id => r = s
    BY <1>9 DEF Known
  <2> QED BY <2>1 DEF Known, Place
<1> QED BY <1>8, <1>10

-----------------------------------------------------------------------------
(* Lists of requests *)

\* The requests of two lists in one.
LEMMA RangeConcat ==
    ASSUME NEW S, NEW p \in Seq(S), NEW q \in Seq(S)
    PROVE  p \o q \in Seq(S) /\ Range(p \o q) = Range(p) \cup Range(q)
BY ConcatProperties, RangeConcatenation

\* A list cut in two.
Cuts(q, p, s) ==
    /\ \E n \in 0..Len(q) : p = SubSeq(q, 1, n) /\ s = SubSeq(q, n + 1, Len(q))

\* Both parts of a cut are lists, and the first is what the second is not.
LEMMA CutParts ==
    ASSUME NEW S, NEW q \in Seq(S), NEW p, NEW s, Cuts(q, p, s)
    PROVE  /\ p \in Seq(S) /\ s \in Seq(S)
           /\ \A j \in 1..Len(p) : j \in 1..Len(q) /\ p[j] = q[j]
           /\ \A j \in 1..Len(s) : Len(p) + j \in 1..Len(q) /\ s[j] = q[Len(p) + j]
           /\ Len(p) \in Nat /\ Len(s) \in Nat /\ Len(q) = Len(p) + Len(s)
<1>1. PICK n \in 0..Len(q) : p = SubSeq(q, 1, n) /\ s = SubSeq(q, n + 1, Len(q))
  BY DEF Cuts
<1>2. Len(q) \in Nat
  BY LenProperties
<1>3. /\ p \in Seq(S) /\ Len(p) = n
      /\ s \in Seq(S) /\ Len(s) = Len(q) - n
  BY <1>1, CutLength
<1>4. \A j \in 1..Len(p) : j \in 1..Len(q) /\ p[j] = q[j]
  BY <1>1, <1>2, <1>3
<1>5. \A j \in 1..Len(s) : Len(p) + j \in 1..Len(q) /\ s[j] = q[Len(p) + j]
  BY <1>1, <1>2, <1>3
<1> QED BY <1>2, <1>3, <1>4, <1>5

\* A list without repetition cut in two: no request is in both parts.
LEMMA CutOnce ==
    ASSUME NEW q \in Seq(Request), NEW p, NEW s, Cuts(q, p, s), Once(q)
    PROVE  /\ Once(p) /\ Once(s)
           /\ Range(p) = Range(q) \ Range(s) /\ Range(s) = Range(q) \ Range(p)
<1>1. PICK m, n, l : m = Len(p) /\ n = Len(s) /\ l = Len(q)
  OBVIOUS
<1>2. /\ p \in Seq(Request) /\ s \in Seq(Request) /\ m \in Nat /\ n \in Nat /\ l = m + n
      /\ \A j \in 1..m : j \in 1..l /\ p[j] = q[j]
      /\ \A j \in 1..n : m + j \in 1..l /\ s[j] = q[m + j]
  BY <1>1, CutParts
<1>3. DOMAIN p = 1..m /\ DOMAIN s = 1..n /\ DOMAIN q = 1..l
  BY <1>1, <1>2, LenProperties
<1>4. \A j, k \in 1..l : q[j].id = q[k].id => j = k
  BY <1>3 DEF Once
<1>5. Once(p)
  BY <1>2, <1>3, <1>4 DEF Once
<1>6. Once(s)
  <2> SUFFICES ASSUME NEW j \in 1..n, NEW k \in 1..n, s[j].id = s[k].id PROVE j = k
    BY <1>3 DEF Once
  <2>1. m + j \in 1..l /\ m + k \in 1..l /\ q[m + j].id = q[m + k].id
    BY <1>2
  <2>2. m + j = m + k
    BY <1>4, <2>1
  <2> QED BY <1>2, <2>2
<1>7. \A r : /\ r \in Range(p) <=> \E j \in 1..m : p[j] = r
             /\ r \in Range(s) <=> \E j \in 1..n : s[j] = r
             /\ r \in Range(q) <=> \E j \in 1..l : q[j] = r
  BY <1>3 DEF Range
<1>8. \A r \in Range(p) : r \in Range(q) /\ r \notin Range(s)
  <2> SUFFICES ASSUME NEW r, NEW j \in 1..m, p[j] = r
               PROVE  r \in Range(q) /\ r \notin Range(s)
    BY <1>7
  <2>1. j \in 1..l /\ q[j] = r
    BY <1>2
  <2>2. ASSUME NEW k \in 1..n, s[k] = r PROVE FALSE
    <3>1. m + k \in 1..l /\ q[m + k] = r
      BY <1>2, <2>2
    <3>2. j = m + k
      BY <1>4, <2>1, <3>1
    <3> QED BY <1>2, <3>2
  <2> QED BY <1>7, <2>1, <2>2
<1>9. \A r \in Range(s) : r \in Range(q)
  BY <1>2, <1>7
<1>10. \A r \in Range(q) : r \in Range(p) \/ r \in Range(s)
  <2> SUFFICES ASSUME NEW r, NEW j \in 1..l, q[j] = r
               PROVE  r \in Range(p) \/ r \in Range(s)
    BY <1>7
  <2>1. CASE j <= m
    BY <1>2, <1>7, <2>1
  <2>2. CASE j > m
    <3>1. j - m \in 1..n /\ m + (j - m) = j
      BY <1>2, <2>2
    <3>2. s[j - m] = r
      BY <1>2, <3>1
    <3> QED BY <1>7, <3>1, <3>2
  <2> QED BY <1>2, <2>1, <2>2
<1> QED BY <1>5, <1>6, <1>8, <1>9, <1>10

\* Two lists without repetition and without a common request.
LEMMA ConcatOnce ==
    ASSUME NEW p \in Seq(Request), NEW q \in Seq(Request), Once(p), Once(q),
           \A r \in Range(p), s \in Range(q) : r.id # s.id
    PROVE  Once(p \o q)
<1>1. PICK m, n : m = Len(p) /\ n = Len(q)
  OBVIOUS
<1>2. /\ m \in Nat /\ n \in Nat /\ Len(p \o q) = m + n /\ p \o q \in Seq(Request)
      /\ \A i \in 1..(m + n) : (p \o q)[i] = IF i <= m THEN p[i] ELSE q[i - m]
  BY <1>1, ConcatProperties, LenProperties
<1>3. DOMAIN p = 1..m /\ DOMAIN q = 1..n /\ DOMAIN (p \o q) = 1..(m + n)
  BY <1>1, <1>2, LenProperties
<1> SUFFICES ASSUME NEW j \in 1..(m + n), NEW k \in 1..(m + n),
                    (p \o q)[j].id = (p \o q)[k].id
             PROVE  j = k
  BY <1>3 DEF Once
<1>4. (\A i \in 1..m : p[i] \in Range(p)) /\ \A i \in 1..n : q[i] \in Range(q)
  BY <1>3 DEF Range
<1>5. CASE j <= m /\ k <= m
  BY <1>2, <1>3, <1>5 DEF Once
<1>6. CASE j > m /\ k > m
  <2>1. j - m \in 1..n /\ k - m \in 1..n
    BY <1>2, <1>6
  <2>3. (p \o q)[j] = q[j - m] /\ (p \o q)[k] = q[k - m]
    BY <1>2, <1>6
  <2>2. j - m = k - m
    BY <1>3, <2>1, <2>3 DEF Once
  <2> QED BY <1>2, <2>2
<1>7. CASE j <= m /\ k > m
  <2>1. k - m \in 1..n /\ j \in 1..m
    BY <1>2, <1>7
  <2>2. (p \o q)[j] = p[j] /\ (p \o q)[k] = q[k - m]
    BY <1>2, <1>7
  <2> QED BY <1>4, <2>1, <2>2
<1>8. CASE j > m /\ k <= m
  <2>1. j - m \in 1..n /\ k \in 1..m
    BY <1>2, <1>8
  <2>2. (p \o q)[j] = q[j - m] /\ (p \o q)[k] = p[k]
    BY <1>2, <1>8
  <2> QED BY <1>4, <2>1, <2>2
<1> QED BY <1>2, <1>5, <1>6, <1>7, <1>8

\* A reversed list has the same requests.
LEMMA ReverseOnce ==
    ASSUME NEW q \in Seq(Request)
    PROVE  /\ Reverse(q) \in Seq(Request) /\ Range(Reverse(q)) = Range(q)
           /\ Once(q) => Once(Reverse(q))
           /\ Falling(q) => Rising(Reverse(q))
<1>1. PICK n : n = Len(q)
  OBVIOUS
<1>2. PICK f : f = Reverse(q)
  OBVIOUS
<1>3. /\ n \in Nat /\ f \in Seq(Request) /\ DOMAIN f = 1..n /\ DOMAIN q = 1..n
  BY <1>1, <1>2, ReverseType, LenProperties
<1>4. \A i \in 1..n : (n - i) + 1 \in 1..n /\ f[i] = q[(n - i) + 1]
  BY <1>1, <1>2, <1>3 DEF Reverse
<1>5. Range(f) = Range(q)
  <2>1. ASSUME NEW r \in Range(f) PROVE r \in Range(q)
    BY <1>3, <1>4 DEF Range
  <2>2. ASSUME NEW r \in Range(q) PROVE r \in Range(f)
    <3>1. PICK i \in 1..n : q[i] = r
      BY <1>3 DEF Range
    <3>2. PICK k : k = (n - i) + 1
      OBVIOUS
    <3>3. k \in 1..n /\ (n - k) + 1 = i
      BY <1>3, <3>2
    <3>4. f[k] = r
      BY <1>4, <3>1, <3>3
    <3> QED BY <1>3, <3>3, <3>4 DEF Range
  <2> QED BY <2>1, <2>2
<1>6. ASSUME Once(q) PROVE Once(f)
  <2> SUFFICES ASSUME NEW j \in 1..n, NEW k \in 1..n, f[j].id = f[k].id PROVE j = k
    BY <1>3 DEF Once
  <2>1. PICK a, b : a = (n - j) + 1 /\ b = (n - k) + 1
    OBVIOUS
  <2>2. a \in 1..n /\ b \in 1..n /\ q[a].id = q[b].id
    BY <1>4, <2>1
  <2>3. a = b
    BY <1>3, <1>6, <2>2 DEF Once
  <2> QED BY <1>3, <2>1, <2>3
<1>7. ASSUME Falling(q) PROVE Rising(f)
  <2> SUFFICES ASSUME NEW j \in 1..n, NEW k \in 1..n, j < k PROVE f[j].id < f[k].id
    BY <1>3 DEF Rising
  <2>1. PICK a, b : a = (n - j) + 1 /\ b = (n - k) + 1
    OBVIOUS
  <2>2. a \in 1..n /\ b \in 1..n /\ f[j] = q[a] /\ f[k] = q[b]
    BY <1>4, <2>1
  <2>3. b < a
    BY <1>3, <2>1
  <2>4. q[b].id > q[a].id
    BY <1>3, <1>7, <2>2, <2>3 DEF Falling
  <2>5. q[b] \in Request /\ q[a] \in Request
    BY <1>1, <2>2, ElementOfSeq
  <2> QED BY <2>2, <2>4, <2>5 DEF Request, Id
<1> QED BY <1>2, <1>3, <1>5, <1>6, <1>7

\* A rising list cut in two: what was cut off is later.
LEMMA CutRising ==
    ASSUME NEW q \in Seq(Request), NEW p, NEW s, Cuts(q, p, s), Rising(q)
    PROVE  Rising(p) /\ Rising(s) /\ Before(Range(p), Range(s))
<1>1. PICK m, n, l : m = Len(p) /\ n = Len(s) /\ l = Len(q)
  OBVIOUS
<1>2. /\ p \in Seq(Request) /\ s \in Seq(Request) /\ m \in Nat /\ n \in Nat /\ l = m + n
      /\ \A j \in 1..m : j \in 1..l /\ p[j] = q[j]
      /\ \A j \in 1..n : m + j \in 1..l /\ s[j] = q[m + j]
  BY <1>1, CutParts
<1>3. DOMAIN p = 1..m /\ DOMAIN s = 1..n /\ DOMAIN q = 1..l
  BY <1>1, <1>2, LenProperties
<1>4. \A j, k \in 1..l : j < k => q[j].id < q[k].id
  BY <1>3 DEF Rising
<1>5. Rising(p)
  BY <1>2, <1>3, <1>4 DEF Rising
<1>6. Rising(s)
  <2> SUFFICES ASSUME NEW j \in 1..n, NEW k \in 1..n, j < k PROVE s[j].id < s[k].id
    BY <1>3 DEF Rising
  <2>1. m + j \in 1..l /\ m + k \in 1..l /\ m + j < m + k /\ s[j] = q[m + j] /\ s[k] = q[m + k]
    BY <1>2
  <2> QED BY <1>4, <2>1
<1>7. ASSUME NEW r \in Range(p), NEW u \in Range(s) PROVE r.id < u.id
  <2>1. PICK j \in 1..m : p[j] = r
    BY <1>3 DEF Range
  <2>2. PICK k \in 1..n : s[k] = u
    BY <1>3 DEF Range
  <2>3. /\ j \in 1..l /\ m + k \in 1..l /\ j < m + k
        /\ q[j] = r /\ q[m + k] = u
    BY <1>2, <2>1, <2>2
  <2> QED BY <1>4, <2>3
<1> QED BY <1>5, <1>6, <1>7 DEF Before

\* Rising lists one behind the other.
LEMMA ConcatRising ==
    ASSUME NEW p \in Seq(Request), NEW q \in Seq(Request), Rising(p), Rising(q),
           Before(Range(p), Range(q))
    PROVE  Rising(p \o q)
<1>1. PICK m, n : m = Len(p) /\ n = Len(q)
  OBVIOUS
<1>2. /\ m \in Nat /\ n \in Nat /\ Len(p \o q) = m + n /\ p \o q \in Seq(Request)
      /\ \A i \in 1..(m + n) : (p \o q)[i] = IF i <= m THEN p[i] ELSE q[i - m]
  BY <1>1, ConcatProperties, LenProperties
<1>3. DOMAIN p = 1..m /\ DOMAIN q = 1..n /\ DOMAIN (p \o q) = 1..(m + n)
  BY <1>1, <1>2, LenProperties
<1> SUFFICES ASSUME NEW j \in 1..(m + n), NEW k \in 1..(m + n), j < k
             PROVE  (p \o q)[j].id < (p \o q)[k].id
  BY <1>3 DEF Rising
<1>4. (\A i \in 1..m : p[i] \in Range(p)) /\ \A i \in 1..n : q[i] \in Range(q)
  BY <1>3 DEF Range
<1>5. CASE k <= m
  <2>1. j \in 1..m /\ k \in 1..m /\ (p \o q)[j] = p[j] /\ (p \o q)[k] = p[k]
    BY <1>2, <1>5
  <2> QED BY <1>3, <2>1 DEF Rising
<1>6. CASE j > m
  <2>1. j - m \in 1..n /\ k - m \in 1..n /\ j - m < k - m
    BY <1>2, <1>6
  <2>2. (p \o q)[j] = q[j - m] /\ (p \o q)[k] = q[k - m]
    BY <1>2, <1>6
  <2> QED BY <1>3, <2>1, <2>2 DEF Rising
<1>7. CASE j <= m /\ k > m
  <2>1. k - m \in 1..n /\ j \in 1..m /\ (p \o q)[j] = p[j] /\ (p \o q)[k] = q[k - m]
    BY <1>2, <1>7
  <2> QED BY <1>4, <2>1 DEF Before
<1> QED BY <1>2, <1>5, <1>6, <1>7

\* A new request on a stack.
LEMMA PushFalling ==
    ASSUME NEW q \in Seq(Request), Falling(q), NEW r \in Request,
           \A s \in Range(q) : s.id < r.id
    PROVE  /\ <<r>> \o q \in Seq(Request) /\ Range(<<r>> \o q) = {r} \cup Range(q)
           /\ Falling(<<r>> \o q)
<1>1. PICK n : n = Len(q)
  OBVIOUS
<1>2. <<r>> \in Seq(Request) /\ Len(<<r>>) = 1 /\ Range(<<r>>) = {r} /\ <<r>>[1] = r
  BY DEF Range
<1>3. /\ n \in Nat /\ Len(<<r>> \o q) = 1 + n /\ <<r>> \o q \in Seq(Request)
      /\ \A i \in 1..(1 + n) : (<<r>> \o q)[i] = IF i <= 1 THEN <<r>>[i] ELSE q[i - 1]
  BY <1>1, <1>2, ConcatProperties, LenProperties
<1>4. DOMAIN q = 1..n /\ DOMAIN (<<r>> \o q) = 1..(1 + n)
  BY <1>1, <1>3, LenProperties
<1>5. ASSUME NEW j \in 1..(1 + n), NEW k \in 1..(1 + n), j < k
      PROVE  (<<r>> \o q)[j].id > (<<r>> \o q)[k].id
  <2>1. k - 1 \in 1..n /\ (<<r>> \o q)[k] = q[k - 1] /\ q[k - 1] \in Range(q)
    BY <1>3, <1>4, <1>5 DEF Range
  <2>2. q[k - 1] \in Request
    BY <1>1, <2>1, ElementOfSeq
  <2>3. CASE j = 1
    BY <1>2, <1>3, <2>1, <2>2, <2>3 DEF Request, Id
  <2>4. CASE j > 1
    <3>1. j - 1 \in 1..n /\ j - 1 < k - 1 /\ (<<r>> \o q)[j] = q[j - 1]
      BY <1>3, <1>5, <2>4
    <3> QED BY <1>4, <2>1, <3>1 DEF Falling
  <2> QED BY <1>3, <2>3, <2>4
<1>6. Falling(<<r>> \o q)
  BY <1>4, <1>5 DEF Falling
<1>7. \A p \in Seq(Request) : Range(p \o q) = Range(p) \cup Range(q)
  BY RangeConcat
<1>8. Range(<<r>> \o q) = Range(<<r>>) \cup Range(q)
  BY <1>2, <1>7, Zenon
<1> QED BY <1>2, <1>3, <1>6, <1>8

-----------------------------------------------------------------------------
(* The steps that collect nothing *)

\* Nothing is queued or collected, and nobody begins or ends collecting.
Serves ==
    /\ UNCHANGED <<maxOwners, list, overflow, batch, issued>>
    /\ \A u \in Workers : got'[u] \subseteq got[u]
    /\ \A u \in Workers : wpc[u] \in CollectingPc \/ wpc'[u] \in CollectingPc
                            => wpc'[u] = wpc[u] /\ wvb'[u] = wvb[u]

\* What the readers and magma hold is left alone too.
Frozen == UNCHANGED <<got, accum, calls, magmaAccum, posted>>

\* The types that every step but these five leaves alone.
ModeTypes ==
    /\ async' \in AsyncModes /\ stopAfter' \in [Workers -> BOOLEAN]
    /\ live' \in Nat /\ phase' \in {"run", "stop", "join", "closed"}
    /\ resizes' \in 0..MaxResizes

\* A reader that leaves one task for the next collects nothing meanwhile.
LEMMA OnlyReader ==
    ASSUME NEW w \in Workers, wpc[w] \notin CollectingPc, wpc'[w] \notin CollectingPc,
           \A u \in Workers \ {w} : wpc'[u] = wpc[u] /\ wvb'[u] = wvb[u],
           UNCHANGED <<maxOwners, list, overflow, batch, issued>>,
           \A u \in Workers : got'[u] \subseteq got[u]
    PROVE  Serves
  BY DEF Serves

\* Where a task ends nothing is collected.
LEMMA AfterCollecting == AfterPc \cap CollectingPc = {}
  BY DEF AfterPc, CollectingPc

\* The flags a reader keeps while it changes tasks.
LEMMA TaskModes ==
    ASSUME NEW w \in Workers, stopAfter \in [Workers -> BOOLEAN]
    PROVE  /\ ReleaseNext(w) => stopAfter' \in [Workers -> BOOLEAN]
           /\ Released(w) => stopAfter' \in [Workers -> BOOLEAN]
<1>1. ReleaseNext(w) => stopAfter' \in [Workers -> BOOLEAN]
  BY DEF ReleaseNext
<1> QED BY <1>1 DEF Released

\* Steps that only park, take, give back, resize or stop.
LEMMA ParkedSteps ==
    ASSUME RTypes, RestTypes,
           \/ \E t \in IOThreads : IOStep(t)
           \/ \E w \in Workers : \/ LoopTest(w) \/ TakeTask(w) \/ GatherTask(w)
                                 \/ GatherSentinel(w) \/ GatherEnd(w) \/ Release(w)
                                 \/ PeekOverflow(w) \/ Recheck(w) \/ RecheckDepth(w)
                                 \/ Rearm(w) \/ Resubmit(w) \/ Grow(w)
           \/ (\E n \in 1..Cardinality(Workers) : Shrink(n)) \/ Reap
           \/ BeginShutdown \/ ShutdownStep \/ Closed \/ UNCHANGED vars
    PROVE  Serves /\ Frozen /\ ModeTypes
<1> USE DEF workerVars, taskVars, reqVars, ioVars, modeVars, vbVars, magmaVars, poolVars
<1> DEFINE Alike == /\ UNCHANGED <<maxOwners, list, overflow, batch, issued>> /\ Frozen
<1>0. ASSUME Alike PROVE \A u \in Workers : got'[u] \subseteq got[u]
  BY <1>0 DEF Frozen
<1>1. ASSUME Alike, wpc' = wpc, wvb' = wvb PROVE Serves /\ Frozen
  BY <1>0, <1>1 DEF Serves
<1>2. ASSUME Alike, UNCHANGED <<async, stopAfter, live, phase, resizes>> PROVE ModeTypes
  BY <1>2 DEF ModeTypes, RestTypes
<1>3. ASSUME NEW t \in IOThreads, IOStep(t) PROVE Serves /\ Frozen /\ ModeTypes
  <2>1. Alike /\ wpc' = wpc /\ wvb' = wvb /\ UNCHANGED <<async, stopAfter, live, phase, resizes>>
    BY <1>3 DEF IOStep, CountRead, Arm, Submit, Frozen
  <2> QED BY <1>1, <1>2, <2>1
<1>4. ASSUME BeginShutdown \/ StopReaders \/ Closed \/ UNCHANGED vars PROVE Serves /\ Frozen /\ ModeTypes
  <2>1. Alike /\ wpc' = wpc /\ wvb' = wvb /\ UNCHANGED <<async, stopAfter, live, resizes>>
    BY <1>4 DEF BeginShutdown, StopReaders, Closed, vars, Frozen
  <2>2. phase' \in {"run", "stop", "join", "closed"}
    BY <1>4 DEF BeginShutdown, StopReaders, Closed, vars, RestTypes
  <2> QED BY <1>1, <2>1, <2>2 DEF ModeTypes, RestTypes
<1>5. ASSUME NEW n \in 1..Cardinality(Workers), Shrink(n) PROVE Serves /\ Frozen /\ ModeTypes
  <2>1. /\ Alike /\ wpc' = wpc /\ wvb' = wvb /\ UNCHANGED <<async, stopAfter, phase>>
        /\ live' = live - ShrinkBy(n) /\ resizes' = resizes + 1 /\ resizes < MaxResizes
    BY <1>5 DEF Shrink, Frozen
  <2>2. resizes' \in 0..MaxResizes /\ live' \in Nat
    <3>1. live - ShrinkBy(n) \in Nat
      BY ShrinkByIs DEF RestTypes
    <3> QED BY <2>1, <3>1, ReadNumbers DEF RestTypes
  <2> QED BY <1>1, <2>1, <2>2 DEF ModeTypes, RestTypes
<1>6. ASSUME Reap \/ JoinReaders PROVE Serves /\ Frozen /\ ModeTypes
  <2>1. /\ Alike /\ wvb' = wvb /\ UNCHANGED <<async, stopAfter, resizes>>
        /\ live' \in Nat /\ phase' \in {"run", "stop", "join", "closed"}
    BY <1>6 DEF Reap, JoinReaders, Frozen, RestTypes
  <2>2. \A u \in Workers : \/ wpc'[u] = wpc[u]
                           \/ wpc[u] \in {"done", "off"} /\ wpc'[u] = "off"
    <3>1. CASE Reap
      <4> TAKE u \in Workers
      <4>1. wpc'[u] = IF wpc[u] = "done" THEN "off" ELSE wpc[u]
        BY <3>1 DEF Reap
      <4> QED BY <4>1
    <3>2. CASE JoinReaders
      BY <3>2 DEF JoinReaders, Joinable, RTypes, WorkerType, Wpc
    <3> QED BY <1>6, <3>1, <3>2
  <2> QED BY <1>0, <2>1, <2>2 DEF Serves, ModeTypes, RestTypes, CollectingPc
<1>7. ASSUME NEW w \in Workers,
             LoopTest(w) \/ GatherTask(w) \/ GatherSentinel(w) \/ GatherEnd(w) \/ Release(w)
             \/ PeekOverflow(w) \/ Recheck(w) \/ Grow(w)
      PROVE  Serves /\ Frozen /\ ModeTypes
  <2>1. /\ Alike /\ wvb' = wvb /\ UNCHANGED <<async, phase>>
        /\ \E pc \in Wpc \ CollectingPc : wpc' = [wpc EXCEPT ![w] = pc]
    <3>1. CASE LoopTest(w) \/ GatherSentinel(w) \/ GatherEnd(w)
      BY <3>1 DEF LoopTest, GatherSentinel, GatherEnd, Goto, Frozen, Wpc, CollectingPc
    <3>2. CASE GatherTask(w)
      <4>1. wpc[w] = "gather" /\ wpc' = wpc
        BY <3>2 DEF GatherTask, Gathers
      <4>2. wpc' = [wpc EXCEPT ![w] = "gather"]
        BY <4>1 DEF RTypes, WorkerType
      <4> QED BY <3>2, <4>2 DEF GatherTask, Frozen, Wpc, CollectingPc
    <3>3. CASE Release(w) \/ PeekOverflow(w) \/ Recheck(w) \/ Grow(w)
      BY <3>3 DEF Release, PeekOverflow, Recheck, Grow, Goto, Frozen, Wpc, CollectingPc
    <3> QED BY <1>7, <3>1, <3>2, <3>3
  <2>2. wpc[w] \notin CollectingPc
    BY <1>7 DEF LoopTest, GatherTask, Gathers, GatherSentinel, GatherEnd, Release, PeekOverflow,
                Recheck, Grow, CollectingPc
  <2>3. wpc'[w] \notin CollectingPc /\ \A u \in Workers \ {w} : wpc'[u] = wpc[u] /\ wvb'[u] = wvb[u]
    BY <2>1 DEF RTypes, WorkerType
  <2>4. Serves
    BY <1>0, <2>1, <2>2, <2>3, OnlyReader
  <2>5. stopAfter' \in [Workers -> BOOLEAN]
    BY <1>7 DEF LoopTest, GatherTask, GatherSentinel, GatherEnd, Release, PeekOverflow, Recheck,
                Grow, RestTypes
  <2>6. live' \in Nat /\ resizes' \in 0..MaxResizes
    BY <1>7, ReadNumbers DEF LoopTest, GatherTask, GatherSentinel, GatherEnd, Release,
                PeekOverflow, Recheck, Grow, RestTypes
  <2> QED BY <2>1, <2>4, <2>5, <2>6 DEF ModeTypes, RestTypes
<1>8. ASSUME NEW w \in Workers, TakeTask(w) PROVE Serves /\ Frozen /\ ModeTypes
  <2>1. /\ Alike /\ UNCHANGED <<async, stopAfter, live, phase, resizes>> /\ wpc[w] = "idle"
        /\ \E pc \in Wpc \ CollectingPc : wpc' = [wpc EXCEPT ![w] = pc]
        /\ \E v : wvb' = [wvb EXCEPT ![w] = v] \/ wvb' = wvb
    BY <1>8 DEF TakeTask, Goto, Frozen, Wpc, CollectingPc
  <2>2. /\ wpc'[w] \notin CollectingPc /\ wpc[w] \notin CollectingPc
        /\ \A u \in Workers \ {w} : wpc'[u] = wpc[u] /\ wvb'[u] = wvb[u]
    BY <2>1 DEF RTypes, WorkerType, CollectingPc
  <2> QED BY <1>0, <1>2, <2>1, <2>2, OnlyReader
<1>9. ASSUME NEW w \in Workers, Released(w), Alike, UNCHANGED <<async, live, phase, resizes>>,
             wpc[w] \notin CollectingPc
      PROVE  Serves /\ Frozen /\ ModeTypes
  <2>1. GoesOn(w)
    BY <1>9, ReleasedStep, TaskTypes
  <2>2. /\ wpc'[w] \notin CollectingPc
        /\ \A u \in Workers \ {w} : wpc'[u] = wpc[u] /\ wvb'[u] = wvb[u]
    BY <2>1, AfterCollecting DEF GoesOn
  <2>3. stopAfter' \in [Workers -> BOOLEAN]
    BY <1>9, TaskModes DEF RestTypes
  <2> QED BY <1>0, <1>9, <2>2, <2>3, OnlyReader DEF ModeTypes, RestTypes
<1>10. ASSUME NEW w \in Workers, NEW pc \in {"rearm", "resubmit"},
              Goto(w, pc), wvb' = wvb, Alike,
              UNCHANGED <<async, stopAfter, live, phase, resizes>>, wpc[w] \notin CollectingPc
       PROVE  Serves /\ Frozen /\ ModeTypes
  <2>1. /\ wpc'[w] \notin CollectingPc
        /\ \A u \in Workers \ {w} : wpc'[u] = wpc[u] /\ wvb'[u] = wvb[u]
    BY <1>10 DEF Goto, RTypes, WorkerType, CollectingPc
  <2> QED BY <1>0, <1>2, <1>10, <2>1, OnlyReader
<1>11. ASSUME NEW w \in Workers, RecheckDepth(w) \/ Rearm(w) \/ Resubmit(w)
       PROVE  Serves /\ Frozen /\ ModeTypes
  <2>1. Alike /\ UNCHANGED <<async, live, phase, resizes>> /\ wpc[w] \notin CollectingPc
    BY <1>11 DEF RecheckDepth, Rearm, Resubmit, CollectingPc, Frozen
  <2>2. \/ Released(w)
        \/ \E pc \in {"rearm", "resubmit"} : Goto(w, pc) /\ wvb' = wvb /\ stopAfter' = stopAfter
    BY <1>11 DEF RecheckDepth, Rearm, Resubmit
  <2> QED BY <1>9, <1>10, <2>1, <2>2
<1> QED BY <1>3, <1>4, <1>5, <1>6, <1>7, <1>8, <1>11 DEF ShutdownStep

\* Requests handed over or answered, by the readers and by magma.
LEMMA ServingSteps ==
    ASSUME RTypes, RestTypes,
           \/ \E w \in Workers : \/ \E v \in VB, k \in Key : OnDoc(w, v, k)
                                 \/ FlushAll(w) \/ CallAccepted(w) \/ CallFailed(w)
           \/ MagmaStep
    PROVE  Serves /\ ModeTypes
<1> USE DEF workerVars, taskVars, reqVars, ioVars, modeVars, vbVars, magmaVars, poolVars
<1>1. ASSUME MagmaStep PROVE Serves /\ ModeTypes
  <2>1. /\ UNCHANGED <<maxOwners, list, overflow, batch, issued, got, wpc, wvb>>
        /\ UNCHANGED <<async, stopAfter, live, phase, resizes>>
    BY <1>1 DEF MagmaStep, AsyncOnDoc, OnJobDone
  <2> QED BY <2>1 DEF Serves, ModeTypes, RestTypes
<1>2. ASSUME NEW w \in Workers, NEW v \in VB, NEW k \in Key, OnDoc(w, v, k)
      PROVE  Serves /\ ModeTypes
  <2>1. /\ UNCHANGED <<maxOwners, list, overflow, batch, issued, wpc, wvb>>
        /\ UNCHANGED <<async, stopAfter, live, phase, resizes>>
        /\ got' = [got EXCEPT ![w] = {r \in got[w] : r.vb # v \/ r.key # k}]
    BY <1>2 DEF OnDoc
  <2>2. \A u \in Workers : got'[u] \subseteq got[u]
    BY <2>1 DEF RestTypes
  <2> QED BY <2>1, <2>2 DEF Serves, ModeTypes, RestTypes
<1>3. ASSUME NEW w \in Workers, FlushAll(w) \/ CallAccepted(w) \/ CallFailed(w)
      PROVE  Serves /\ ModeTypes
  <2>1. /\ UNCHANGED <<maxOwners, list, overflow, batch, issued, todo>>
        /\ UNCHANGED <<async, live, phase, resizes>>
        /\ ReleaseNext(w) /\ wpc[w] \notin CollectingPc
        /\ got' = got \/ got' = [got EXCEPT ![w] = {}]
    BY <1>3 DEF FlushAll, CallAccepted, CallFailed, CollectingPc
  <2>2. GoesOn(w)
    BY <2>1, ReleaseNextStep, TaskTypes
  <2>3. /\ wpc'[w] \notin CollectingPc
        /\ \A u \in Workers \ {w} : wpc'[u] = wpc[u] /\ wvb'[u] = wvb[u]
    BY <2>2, AfterCollecting DEF GoesOn
  <2>4. \A u \in Workers : got'[u] \subseteq got[u]
    BY <2>1 DEF RestTypes
  <2>5. Serves
    BY <2>1, <2>3, <2>4, OnlyReader
  <2> QED BY <2>1, <2>5, TaskModes DEF ModeTypes, RestTypes
<1> QED BY <1>1, <1>2, <1>3

\* A place no variable of which changes holds the same requests.
Keeps(c) ==
    /\ \A v \in VB : /\ c = <<"list", v>> => list'[v] = list[v]
                     /\ c = <<"overflow", v>> => overflow'[v] = overflow[v]
    /\ \A w \in Workers : /\ c = <<"batch", w>> => batch'[w] = batch[w]
                          /\ c = <<"got", w>> => got'[w] = got[w]
                          /\ c = <<"accum", w>> => accum'[w] = accum[w]
    /\ \A g \in SUBSET Request : c = <<"call", g>> => (g \in calls' <=> g \in calls)
    /\ c = <<"magma", 0>> => magmaAccum' = magmaAccum

\* So it holds what it held.
LEMMA KeepsHold == \A c \in Place : Keeps(c) => Hold(c)' = Hold(c)
<1> SUFFICES ASSUME NEW c \in Place, Keeps(c) PROVE Hold(c)' = Hold(c)
  OBVIOUS
<1>1. Forms /\ Forms'
  BY HoldForms, PTL
<1>2. CASE \E v \in VB : c = <<"list", v>> \/ c = <<"overflow", v>>
  <2>1. PICK v \in VB : c = <<"list", v>> \/ c = <<"overflow", v>>
    BY <1>2
  <2>2. CASE c = <<"list", v>>
    BY <2>2 DEF Hold, Keeps
  <2>3. CASE c = <<"overflow", v>>
    BY <2>3 DEF Hold, Keeps
  <2> QED BY <2>1, <2>2, <2>3
<1>3. CASE \E w \in Workers : c = <<"batch", w>> \/ c = <<"got", w>> \/ c = <<"accum", w>>
  <2>1. PICK w \in Workers : c = <<"batch", w>> \/ c = <<"got", w>> \/ c = <<"accum", w>>
    BY <1>3
  <2>2. CASE c = <<"batch", w>>
    BY <2>2 DEF Hold, Keeps
  <2>3. CASE c = <<"got", w>>
    BY <2>3 DEF Hold, Keeps
  <2>4. CASE c = <<"accum", w>>
    BY <2>4 DEF Hold, Keeps
  <2> QED BY <2>1, <2>2, <2>3, <2>4
<1>4. CASE \E g \in SUBSET Request : c = <<"call", g>>
  BY <1>1, <1>4 DEF Forms, Keeps
<1>5. CASE c = <<"magma", 0>>
  BY <1>1, <1>5 DEF Forms, Keeps
<1>6. CASE c = Posted
  BY <1>1, <1>6 DEF Forms, Posted
<1> QED BY <1>2, <1>3, <1>4, <1>5, <1>6, PlaceForms

\* Where nothing moves, every request stays at its place.
LEMMA FrozenKeeps ==
    ASSUME Located, Known, Serves, Frozen PROVE Located' /\ Known'
<1>1. \A c \in Place : Hold(c)' = Hold(c)
  <2>1. \A c \in Place : Keeps(c)
    BY DEF Keeps, Serves, Frozen
  <2> QED BY <2>1, KeepsHold
<1>2. \A c \in Place : \A i \in Id : At(c, i)' <=> At(c, i)
  BY <1>1 DEF At, Posted, Has, Frozen
<1>3. Located'
  <2>1. UNCHANGED issued /\ posted' = posted
    BY DEF Serves, Frozen
  <2>2. \A i \in Id : Settles(i)
    BY <1>2 DEF Settles
  <2>3. \A i \in Id : posted'[i] \in {0, 1}
    BY <2>1 DEF Located
  <2> QED BY <2>1, <2>2, <2>3, SettledLocated
<1>4. Known'
  BY <1>1 DEF Known, Place
<1> QED BY <1>3, <1>4

-----------------------------------------------------------------------------
(* Answering *)

\* Two places have no request in common.
LEMMA Apart ==
    ASSUME Located, HoldsRequests, NEW c \in Place \ {Posted}, NEW d \in Place \ {Posted}, c # d
    PROVE  \A r \in Hold(c), s \in Hold(d) : r.id # s.id
<1> SUFFICES ASSUME NEW r \in Hold(c), NEW s \in Hold(d), r.id = s.id PROVE FALSE
  OBVIOUS
<1>1. r.id \in Id
  BY DEF HoldsRequests, Request
<1>2. At(c, r.id) /\ At(d, r.id)
  BY DEF At, Has
<1> QED BY <1>1, <1>2 DEF Located

\* Answers are counted by id.
LEMMA PostTypes ==
    ASSUME RestTypes
    PROVE  /\ \A X : Post(X) => posted' \in [Id -> Nat]
           /\ Post({}) => posted' = posted
  BY DEF RestTypes, Post

\* magma completes one operation: its requests go to the accumulator, or are
\* answered together with those that wait there.
LEMMA OnDocPlaces ==
    ASSUME RestTypes, Located, Known, HoldsRequests, NEW w \in Workers, NEW v \in VB,
           NEW k \in Key, OnDoc(w, v, k)
    PROVE  Located' /\ Known'
<1> USE DEF workerVars, taskVars, reqVars, ioVars, modeVars, vbVars, magmaVars, poolVars
<1>0. Forms /\ Forms'
  BY HoldForms, PTL
<1>1. PICK done : done = Sharing(got[w], v, k)
  OBVIOUS
<1>2. PICK kept \in {{}, accum[w] \cup done} :
        accum' = [accum EXCEPT ![w] = kept] /\ Post((accum[w] \cup done) \ kept)
  BY <1>1 DEF OnDoc
<1>3. /\ got' = [got EXCEPT ![w] = got[w] \ done] /\ done \subseteq got[w]
      /\ UNCHANGED <<list, overflow, batch, calls, magmaAccum, issued>>
  <2>1. {r \in got[w] : r.vb # v \/ r.key # k} = got[w] \ done
    BY <1>1 DEF Sharing
  <2> QED BY <1>1, <2>1 DEF OnDoc, Sharing
<1>4. /\ <<"got", w>> \in Place \ {Posted} /\ <<"accum", w>> \in Place \ {Posted}
      /\ <<"got", w>> # <<"accum", w>> /\ Posted \in Place
  BY PlacesAre
<1>5. /\ Hold(<<"got", w>>) = got[w] /\ Hold(<<"accum", w>>) = accum[w]
      /\ Hold(<<"got", w>>)' = got'[w] /\ Hold(<<"accum", w>>)' = accum'[w]
  BY <1>0 DEF Forms
<1>6. got'[w] = got[w] \ done /\ accum'[w] = kept
  BY <1>2, <1>3 DEF RestTypes
<1>7. got[w] \cap accum[w] = {}
  BY <1>4, <1>5, Apart
<1>8. \A c \in Place \ {<<"got", w>>, <<"accum", w>>} : Hold(c)' = Hold(c)
  <2>1. \A c \in Place \ {<<"got", w>>, <<"accum", w>>} : Keeps(c)
    BY <1>2, <1>3 DEF Keeps, RestTypes
  <2> QED BY <2>1, KeepsHold
<1>9. CASE kept = {}
  <2>1. PICK X : X = accum[w] \cup done
    OBVIOUS
  <2>2. Post(X)
    <3>1. (accum[w] \cup done) \ kept = X
      BY <1>9, <2>1
    <3> QED BY <1>2, <3>1
  <2>3. got'[w] = got[w] \ X /\ accum'[w] = accum[w] \ X
    BY <1>6, <1>7, <1>9, <2>1
  <2>4. X \subseteq UNION {Hold(a) : a \in {<<"got", w>>, <<"accum", w>>}}
    BY <1>3, <1>5, <2>1
  <2>5. Moves({<<"got", w>>, <<"accum", w>>}, Posted, X)
    BY <1>4, <1>5, <1>8, <2>2, <2>3, <2>4 DEF Moves
  <2> QED BY <1>3, <2>5, MoveKeeps
<1>10. CASE kept # {}
  <2>1. kept = accum[w] \cup done
    BY <1>2, <1>10
  <2>2. posted' = posted
    <3>1. (accum[w] \cup done) \ kept = {}
      BY <2>1
    <3> QED BY <1>2, <3>1, PostTypes
  <2>3. done \subseteq UNION {Hold(a) : a \in {<<"got", w>>}}
    BY <1>3, <1>5
  <2>4. Moves({<<"got", w>>}, <<"accum", w>>, done)
    BY <1>4, <1>5, <1>6, <1>8, <2>1, <2>2, <2>3 DEF Moves
  <2> QED BY <1>3, <2>4, MoveKeeps
<1> QED BY <1>9, <1>10

\* FlushAll answers what the accumulator holds; a call that failed answers all it
\* was to read.
LEMMA FlushPlaces ==
    ASSUME RestTypes, Located, Known, HoldsRequests, NEW w \in Workers,
           FlushAll(w) \/ CallFailed(w)
    PROVE  Located' /\ Known'
<1> USE DEF workerVars, taskVars, reqVars, ioVars, modeVars, vbVars, magmaVars, poolVars
<1>0. Forms /\ Forms'
  BY HoldForms, PTL
<1>1. /\ <<"got", w>> \in Place \ {Posted} /\ <<"accum", w>> \in Place \ {Posted}
      /\ Posted \in Place
  BY PlacesAre
<1>2. /\ Hold(<<"got", w>>) = got[w] /\ Hold(<<"accum", w>>) = accum[w]
      /\ Hold(<<"got", w>>)' = got'[w] /\ Hold(<<"accum", w>>)' = accum'[w]
  BY <1>0 DEF Forms
<1>3. CASE FlushAll(w)
  <2>1. /\ Post(accum[w]) /\ accum' = [accum EXCEPT ![w] = {}]
        /\ UNCHANGED <<list, overflow, batch, got, calls, magmaAccum, issued>>
    BY <1>3 DEF FlushAll
  <2>2. \A c \in Place \ {<<"accum", w>>} : Hold(c)' = Hold(c)
    <3>1. \A c \in Place \ {<<"accum", w>>} : Keeps(c)
      BY <2>1 DEF Keeps, RestTypes
    <3> QED BY <3>1, KeepsHold
  <2>3. accum'[w] = accum[w] \ accum[w]
    BY <2>1 DEF RestTypes
  <2>4. accum[w] \subseteq UNION {Hold(a) : a \in {<<"accum", w>>}}
    BY <1>2
  <2>5. Moves({<<"accum", w>>}, Posted, accum[w])
    BY <1>1, <1>2, <2>1, <2>2, <2>3, <2>4 DEF Moves
  <2> QED BY <2>1, <2>5, MoveKeeps
<1>4. CASE CallFailed(w)
  <2>1. /\ Post(got[w]) /\ got' = [got EXCEPT ![w] = {}]
        /\ UNCHANGED <<list, overflow, batch, accum, calls, magmaAccum, issued>>
    BY <1>4 DEF CallFailed
  <2>2. \A c \in Place \ {<<"got", w>>} : Hold(c)' = Hold(c)
    <3>1. \A c \in Place \ {<<"got", w>>} : Keeps(c)
      BY <2>1 DEF Keeps, RestTypes
    <3> QED BY <3>1, KeepsHold
  <2>3. got'[w] = got[w] \ got[w]
    BY <2>1 DEF RestTypes
  <2>4. got[w] \subseteq UNION {Hold(a) : a \in {<<"got", w>>}}
    BY <1>2
  <2>5. Moves({<<"got", w>>}, Posted, got[w])
    BY <1>1, <1>2, <2>1, <2>2, <2>3, <2>4 DEF Moves
  <2> QED BY <2>1, <2>5, MoveKeeps
<1> QED BY <1>3, <1>4

\* The same on magma's threads.
LEMMA MagmaPlaces ==
    ASSUME RestTypes, Located, Known, HoldsRequests, MagmaStep
    PROVE  Located' /\ Known'
<1> USE DEF workerVars, taskVars, reqVars, ioVars, modeVars, vbVars, magmaVars, poolVars
<1>0. Forms /\ Forms'
  BY HoldForms, PTL
<1>1. /\ Hold(<<"magma", 0>>) = magmaAccum /\ Hold(<<"magma", 0>>)' = magmaAccum'
      /\ <<"magma", 0>> \in Place \ {Posted} /\ Posted \in Place
  BY <1>0, PlacesAre DEF Forms
<1>2. UNCHANGED <<list, overflow, batch, got, accum, issued>>
  BY DEF MagmaStep, AsyncOnDoc, OnJobDone
<1>3. CASE AsyncOnDoc
  <2>1. PICK g \in calls :
          /\ calls' = calls \ {g}
          /\ \E kept \in {{}, magmaAccum \cup g} :
               magmaAccum' = kept /\ Post((magmaAccum \cup g) \ kept)
    BY <1>3 DEF AsyncOnDoc
  <2>2. g \in SUBSET Request
    BY DEF RestTypes
  <2>3. /\ <<"call", g>> \in Place \ {Posted} /\ <<"call", g>> # <<"magma", 0>>
        /\ Hold(<<"call", g>>) = g /\ Hold(<<"call", g>>)' = {}
    <3>1. <<"call", g>> \in Place /\ <<"call", g>> # Posted
      BY <2>2, PlacesAre
    <3>2. Hold(<<"call", g>>) = g
      BY <2>2, <1>0 DEF Forms
    <3>3. Hold(<<"call", g>>)' = IF g \in calls' THEN g ELSE {}
      BY <2>2, <1>0 DEF Forms
    <3> QED BY <2>1, <3>1, <3>2, <3>3
  <2>4. \A c \in Place \ {<<"call", g>>, <<"magma", 0>>} : Hold(c)' = Hold(c)
    <3>1. \A c \in Place \ {<<"call", g>>, <<"magma", 0>>} : Keeps(c)
      BY <1>2, <2>1 DEF Keeps
    <3> QED BY <3>1, KeepsHold
  <2>5. CASE magmaAccum' = {} /\ Post((magmaAccum \cup g) \ {})
    <3>1. PICK X : X = magmaAccum \cup g
      OBVIOUS
    <3>2. Post(X) /\ magmaAccum' = magmaAccum \ X /\ g \ X = {}
      <4>1. (magmaAccum \cup g) \ {} = X
        BY <3>1
      <4>2. Post(X)
        BY <2>5, <4>1
      <4> QED BY <2>5, <3>1, <4>2
    <3>3. X \subseteq UNION {Hold(a) : a \in {<<"call", g>>, <<"magma", 0>>}}
      BY <1>1, <2>3, <3>1
    <3>4. Moves({<<"call", g>>, <<"magma", 0>>}, Posted, X)
      BY <1>1, <2>3, <2>4, <3>2, <3>3 DEF Moves
    <3> QED BY <1>2, <3>4, MoveKeeps
  <2>6. CASE magmaAccum' = magmaAccum \cup g /\ Post((magmaAccum \cup g) \ (magmaAccum \cup g))
    <3>1. posted' = posted
      <4>1. (magmaAccum \cup g) \ (magmaAccum \cup g) = {}
        OBVIOUS
      <4>2. Post({})
        BY <2>6, <4>1
      <4> QED BY <4>2, PostTypes
    <3>2. g \subseteq UNION {Hold(a) : a \in {<<"call", g>>}} /\ g \ g = {}
      BY <2>3
    <3>3. Moves({<<"call", g>>}, <<"magma", 0>>, g)
      BY <1>1, <2>3, <2>4, <2>6, <3>1, <3>2 DEF Moves
    <3> QED BY <1>2, <3>3, MoveKeeps
  <2> QED BY <2>1, <2>5, <2>6
<1>4. CASE OnJobDone
  <2>1. Post(magmaAccum) /\ magmaAccum' = magmaAccum \ magmaAccum /\ calls' = calls
    BY <1>4 DEF OnJobDone
  <2>2. \A c \in Place \ {<<"magma", 0>>} : Hold(c)' = Hold(c)
    <3>1. \A c \in Place \ {<<"magma", 0>>} : Keeps(c)
      BY <1>2, <2>1 DEF Keeps
    <3> QED BY <3>1, KeepsHold
  <2>3. magmaAccum \subseteq UNION {Hold(a) : a \in {<<"magma", 0>>}}
    BY <1>1
  <2>4. Moves({<<"magma", 0>>}, Posted, magmaAccum)
    BY <1>1, <2>1, <2>2, <2>3 DEF Moves
  <2> QED BY <1>2, <2>4, MoveKeeps
<1> QED BY <1>3, <1>4 DEF MagmaStep

\* GetDocsAsync takes the call: every request goes to the operation of its key.
LEMMA CallAcceptedPlaces ==
    ASSUME RestTypes, Located, Known, HoldsRequests, NEW w \in Workers, CallAccepted(w)
    PROVE  Located' /\ Known' /\ calls' \subseteq SUBSET Request
<1> USE DEF workerVars, taskVars, reqVars, ioVars, modeVars, vbVars, magmaVars, poolVars
<1>0. Forms /\ Forms'
  BY HoldForms, PTL
<1> DEFINE G == {Sharing(got[w], v, k) : v \in VB, k \in Key} \ {{}}
<1>1. \A g : g \in G <=> g # {} /\ \E v \in VB, k \in Key : g = Sharing(got[w], v, k)
  OBVIOUS
<1>2. /\ calls' = calls \cup G /\ got' = [got EXCEPT ![w] = {}]
      /\ UNCHANGED <<list, overflow, batch, accum, magmaAccum, issued, posted>>
  BY DEF CallAccepted
<1> HIDE DEF G
<1>3. got[w] \subseteq Request
  BY DEF RestTypes
<1>4. \A g \in G : g \subseteq got[w] /\ \A r \in got[w], s \in g : r.vb = s.vb /\ r.key = s.key
                                                                => r \in g
  BY <1>1 DEF Sharing
<1>5. \A r \in got[w] : \E g \in G : r \in g
  <2> SUFFICES ASSUME NEW r \in got[w] PROVE \E g \in G : r \in g
    OBVIOUS
  <2>1. r.vb \in VB /\ r.key \in Key
    BY <1>3 DEF Request
  <2>2. r \in Sharing(got[w], r.vb, r.key)
    BY DEF Sharing
  <2> QED BY <1>1, <2>1, <2>2
<1>6. \A g, h \in G : \A r : r \in g /\ r \in h => g = h
  <2> SUFFICES ASSUME NEW g \in G, NEW h \in G, NEW r, r \in g, r \in h PROVE g = h
    OBVIOUS
  <2>1. PICK v \in VB, k \in Key : g = Sharing(got[w], v, k)
    BY <1>1
  <2>2. PICK v1 \in VB, k1 \in Key : h = Sharing(got[w], v1, k1)
    BY <1>1
  <2>3. v = v1 /\ k = k1
    BY <2>1, <2>2 DEF Sharing
  <2> QED BY <2>1, <2>2, <2>3
<1>7. calls' \subseteq SUBSET Request
  BY <1>2, <1>3, <1>4 DEF RestTypes
<1>8. /\ <<"got", w>> \in Place \ {Posted} /\ Hold(<<"got", w>>) = got[w]
      /\ Hold(<<"got", w>>)' = {}
  <2>1. Hold(<<"got", w>>)' = got'[w]
    BY <1>0 DEF Forms
  <2> QED BY <1>0, <1>2, <2>1, PlacesAre DEF Forms, RestTypes
<1>9. ASSUME NEW g \in SUBSET Request
      PROVE  /\ <<"call", g>> \in Place \ {Posted} /\ <<"call", g>> # <<"got", w>>
             /\ Hold(<<"call", g>>) = IF g \in calls THEN g ELSE {}
             /\ Hold(<<"call", g>>)' = IF g \in calls \cup G THEN g ELSE {}
  BY <1>0, <1>2, PlacesAre DEF Forms
<1>10. ASSUME NEW c \in Place, c # <<"got", w>>, \A g \in SUBSET Request : c # <<"call", g>>
       PROVE  Hold(c)' = Hold(c)
  <2>1. Keeps(c)
    BY <1>2, <1>10 DEF Keeps, RestTypes
  <2> QED BY <2>1, KeepsHold
<1>11. ASSUME NEW i \in Id, ~Has(got[w], i) PROVE \A c \in Place : At(c, i)' <=> At(c, i)
  <2> TAKE c \in Place
  <2>1. CASE c = Posted
    BY <1>2, <2>1 DEF At, Posted
  <2>2. CASE c # Posted
    <3>1. Has(Hold(c)', i) <=> Has(Hold(c), i)
      <4>1. CASE c = <<"got", w>>
        BY <1>8, <1>11, <4>1 DEF Has
      <4>2. CASE \E g \in SUBSET Request : c = <<"call", g>>
        <5>1. PICK g \in SUBSET Request : c = <<"call", g>>
          BY <4>2
        <5>2. g \in G => ~Has(g, i)
          BY <1>4, <1>11 DEF Has
        <5> QED BY <1>9, <5>1, <5>2 DEF Has
      <4>3. CASE c # <<"got", w>> /\ \A g \in SUBSET Request : c # <<"call", g>>
        BY <1>10, <4>3
      <4> QED BY <4>1, <4>2, <4>3
    <3> QED BY <2>2, <3>1 DEF At, Has, Posted
  <2> QED BY <2>1, <2>2
<1>12. ASSUME NEW i \in Id, Has(got[w], i)
       PROVE  i <= issued /\ \E b \in Place : \A c \in Place : At(c, i)' <=> c = b
  <2>1. PICK r \in got[w] : r.id = i
    BY <1>12 DEF Has
  <2>2. PICK g \in G : r \in g
    BY <1>5
  <2>3. g \in SUBSET Request
    BY <1>3, <1>4
  <2>4. At(<<"got", w>>, i)
    BY <1>8, <1>12 DEF At
  <2>5. \A c \in Place : c # <<"got", w>> => ~At(c, i)
    BY <1>8, <2>4 DEF Located
  <2>6. i <= issued
    BY <1>8, <2>4 DEF Located
  <2>7. \A c \in Place : At(c, i)' <=> c = <<"call", g>>
    <3> TAKE c \in Place
    <3>1. CASE c = Posted
      <4>1. ~At(c, i) /\ c # <<"call", g>>
        BY <1>8, <1>9, <2>3, <2>5, <3>1
      <4> QED BY <1>2, <3>1, <4>1 DEF At, Posted
    <3>2. CASE c # Posted
      <4>0. At(c, i)' <=> Has(Hold(c)', i)
        BY <3>2 DEF At, Has, Posted
      <4>1. CASE c = <<"got", w>>
        BY <1>8, <1>9, <2>3, <4>0, <4>1 DEF Has
      <4>2. CASE \E h \in SUBSET Request : c = <<"call", h>>
        <5>1. PICK h \in SUBSET Request : c = <<"call", h>>
          BY <4>2
        <5>2. ~At(c, i) /\ c # <<"got", w>>
          BY <1>9, <2>5, <5>1
        <5>3. Hold(c) = (IF h \in calls THEN h ELSE {})
          BY <1>9, <5>1
        <5>4. ~Has(Hold(c), i)
          BY <3>2, <5>2 DEF At
        <5>5. h \in calls => ~Has(h, i)
          BY <5>3, <5>4
        <5>6. Hold(c)' = (IF h \in calls \cup G THEN h ELSE {})
          BY <1>9, <5>1
        <5>7. h \in G /\ Has(h, i) => h = g
          <6> SUFFICES ASSUME h \in G, NEW s \in h, s.id = i PROVE h = g
            BY DEF Has
          <6>1. s \in got[w]
            BY <1>4
          <6>2. s = r
            BY <1>8, <2>1, <6>1 DEF Known
          <6> QED BY <1>6, <2>2, <6>2
        <5>8. Has(Hold(c)', i) => h = g
          <6>1. CASE h \in calls \cup G
            BY <5>5, <5>6, <5>7, <6>1
          <6>2. CASE h \notin calls \cup G
            BY <5>6, <6>2 DEF Has
          <6> QED BY <6>1, <6>2
        <5>9. h = g => Has(Hold(c)', i)
          BY <2>1, <2>2, <5>6 DEF Has
        <5>10. (c = <<"call", g>>) <=> h = g
          BY <5>1
        <5> QED BY <4>0, <5>8, <5>9, <5>10
      <4>3. CASE c # <<"got", w>> /\ \A h \in SUBSET Request : c # <<"call", h>>
        <5>1. Hold(c)' = Hold(c) /\ ~At(c, i) /\ c # <<"call", g>>
          BY <1>10, <2>3, <2>5, <4>3
        <5> QED BY <3>2, <4>0, <5>1 DEF At
      <4> QED BY <4>1, <4>2, <4>3
    <3> QED BY <3>1, <3>2
  <2> QED BY <1>9, <2>3, <2>6, <2>7
<1>13. Located'
  <2>1. \A i \in Id : Settles(i)
    BY <1>11, <1>12 DEF Settles
  <2>2. \A i \in Id : posted'[i] \in {0, 1}
    BY <1>2 DEF Located
  <2> QED BY <1>2, <2>1, <2>2, SettledLocated
<1>14. \A c \in Place : \A r \in Hold(c)' : \E d \in Place : r \in Hold(d)
  <2> SUFFICES ASSUME NEW c \in Place, NEW r \in Hold(c)'
               PROVE  \E d \in Place : r \in Hold(d)
    OBVIOUS
  <2>1. CASE c = <<"got", w>>
    BY <1>8, <2>1
  <2>2. CASE \E g \in SUBSET Request : c = <<"call", g>>
    <3>1. PICK g \in SUBSET Request : c = <<"call", g>>
      BY <2>2
    <3>2. g \in calls \cup G /\ r \in g
      <4>1. Hold(c)' = IF g \in calls \cup G THEN g ELSE {}
        BY <1>9, <3>1
      <4> QED BY <4>1
    <3>3. CASE g \in calls
      <4>1. Hold(<<"call", g>>) = g /\ <<"call", g>> \in Place
        BY <1>9, <3>3
      <4> QED BY <3>2, <4>1
    <3>4. CASE g \in G
      BY <1>4, <1>8, <3>2, <3>4
    <3> QED BY <3>2, <3>3, <3>4
  <2>3. CASE c # <<"got", w>> /\ \A g \in SUBSET Request : c # <<"call", g>>
    BY <1>10, <2>3
  <2> QED BY <2>1, <2>2, <2>3
<1>15. Known'
  <2>1. \A c, d \in Place : \A r \in Hold(c)', s \in Hold(d)' : r.id = s.id => r = s
    BY <1>14 DEF Known
  <2> QED BY <2>1 DEF Known, Place
<1> QED BY <1>7, <1>13, <1>15

-----------------------------------------------------------------------------
(* The order of arrival *)

\* A step that collects nothing leaves the order alone.
LEMMA ServesOrder ==
    ASSUME OnceEach, OrderInv, Serves PROVE OnceEach' /\ OrderInv'
<1>1. OnceEach'
  BY DEF OnceEach, Serves, Once
<1>2. OwnVB'
  <2>1. \A v \in VB : \A r \in Range(list'[v]) \cup Range(overflow'[v]) : r.vb = v
    BY DEF OrderInv, OwnVB, Serves
  <2>2. \A w \in Workers : batch'[w] # <<>> => wpc'[w] \in CollectingPc
    BY DEF OrderInv, OwnVB, Serves
  <2>3. ASSUME NEW w \in Workers, NEW r \in Range(batch'[w]) PROVE r.vb = wvb'[w]
    <3>1. batch'[w] = batch[w] /\ batch[w] # <<>>
      BY <2>3 DEF Serves, Range
    <3>2. wvb'[w] = wvb[w]
      BY <3>1 DEF OrderInv, OwnVB, Serves
    <3> QED BY <2>3, <3>1, <3>2 DEF OrderInv, OwnVB
  <2> QED BY <2>1, <2>2, <2>3 DEF OwnVB
<1>3. \A v \in VB : Swept(v)' \subseteq Swept(v)
  BY DEF Swept, Serves
<1>4. Newer'
  <2>1. \A v \in VB : Falling(list'[v]) /\ Before(Swept(v)', Range(list'[v]))
    BY <1>3 DEF OrderInv, Newer, Serves, Before
  <2>2. \A v \in VB : \A r \in Range(list'[v]) \cup Swept(v)' : r.id <= issued'
    BY <1>3 DEF OrderInv, Newer, Serves
  <2> QED BY <2>1, <2>2 DEF Newer, Falling, Before
<1>5. ASSUME InTurn PROVE InTurn'
  <2>1. \A v \in VB : Rising(overflow'[v])
    BY <1>5 DEF InTurn, Serves
  <2>2. \A w \in Workers : Rising(batch'[w])
    BY <1>5 DEF InTurn, Serves
  <2>3. \A w \in Workers : wpc'[w] \in {"sweep", "spill"} => overflow'[wvb'[w]] = <<>>
    BY <1>5 DEF InTurn, Serves, CollectingPc
  <2>4. \A w \in Workers : \A b \in Range(batch'[w]) : Before({b}, Range(overflow'[b.vb]))
    BY <1>5 DEF InTurn, Serves
  <2>5. \A u \in Workers : \A g \in got'[u] :
          /\ Before({g}, Range(overflow'[g.vb]))
          /\ \A w \in Workers : \A b \in Range(batch'[w]) : b.vb = g.vb => g.id < b.id
    BY <1>5 DEF InTurn, Serves
  <2> QED BY <2>1, <2>2, <2>3, <2>4, <2>5 DEF InTurn, Rising, Before
<1>6. (maxOwners = 1 => InTurn)'
  BY <1>5 DEF OrderInv, Serves
<1> QED BY <1>1, <1>2, <1>4, <1>6 DEF OrderInv

\* With one owner allowed two readers never work on the same vbucket.
LEMMA OneOwner ==
    ASSUME RInv, maxOwners = 1, NEW w \in Workers, NEW x \in Workers, NEW v \in VB,
           wpc[w] \in OwningPc, wpc[x] \in OwningPc, wvb[w] = v, wvb[x] = v
    PROVE  w = x
<1> SUFFICES ASSUME w # x PROVE FALSE
  OBVIOUS
<1>1. PICK a, b : a = <<w, <<"task", 0>>>> /\ b = <<x, <<"task", 0>>>>
  OBVIOUS
<1>2. a \in ReaderSlots(v) /\ b \in ReaderSlots(v) /\ a # b
  BY <1>1 DEF ReaderSlots, Slots
<1>3. IsFiniteSet(ReaderSlots(v)) /\ Cardinality(ReaderSlots(v)) \in Nat
  BY HeldFinite DEF RInv, RTypes
<1>4. IsFiniteSet(ReaderSlots(v) \ {a})
      /\ Cardinality(ReaderSlots(v) \ {a}) = Cardinality(ReaderSlots(v)) - 1
  BY <1>2, <1>3, FS_RemoveElement
<1>5. Cardinality(ReaderSlots(v) \ {a}) # 0
  BY <1>2, <1>4, FS_EmptySet
<1>6. /\ readOwners[v] = Cardinality(Pos(v, taskQueue)) + Cardinality(Submitting(v))
                         + Cardinality(ReaderSlots(v))
      /\ Cardinality(Pos(v, taskQueue)) \in Nat /\ Cardinality(Submitting(v)) \in Nat
      /\ readOwners[v] <= 1
  BY CountTypes DEF RInv, Slotted, Limited
<1>7. Cardinality(ReaderSlots(v)) >= 2
  <2>1. Cardinality(ReaderSlots(v) \ {a}) \in Nat
    BY <1>4, FS_CardinalityType
  <2> QED BY <1>3, <1>4, <1>5, <2>1
<1> QED BY <1>3, <1>6, <1>7

\* Reader w, at vbucket v, moves requests between the stack, the overflow, its
\* batch and what it has collected.
Shift(w, v, l, o, b, g) ==
    /\ list' = [list EXCEPT ![v] = l] /\ overflow' = [overflow EXCEPT ![v] = o]
    /\ batch' = [batch EXCEPT ![w] = b] /\ got' = [got EXCEPT ![w] = g]
    /\ UNCHANGED <<maxOwners, accum, calls, magmaAccum, posted, issued>>
    /\ \A u \in Workers \ {w} : wpc'[u] = wpc[u] /\ wvb'[u] = wvb[u]

\* What holds before and what after.
Shifted(w, v, l, o, b, g) ==
    /\ list'[v] = l /\ overflow'[v] = o /\ batch'[w] = b /\ got'[w] = g
    /\ \A u \in VB \ {v} : list'[u] = list[u] /\ overflow'[u] = overflow[u]
    /\ \A u \in Workers \ {w} : /\ batch'[u] = batch[u] /\ got'[u] = got[u]
                                /\ wpc'[u] = wpc[u] /\ wvb'[u] = wvb[u]
    /\ UNCHANGED <<maxOwners, accum, calls, magmaAccum, posted, issued>>

\* The places a reader moves requests between.
Stack(v)     == <<"list", v>>
Excess(v)    == <<"overflow", v>>
Batch(w)     == <<"batch", w>>
Got(w)       == <<"got", w>>
Around(w, v) == {Stack(v), Excess(v), Batch(w), Got(w)}

\* Every other place is left alone.
LEMMA ShiftPlaces ==
    ASSUME VBType, WorkerType, RestTypes, NEW w \in Workers, NEW v \in VB,
           NEW l, NEW o, NEW b, NEW g, Shift(w, v, l, o, b, g)
    PROVE  /\ Shifted(w, v, l, o, b, g)
           /\ \A c \in Place \ Around(w, v) : Hold(c)' = Hold(c)
           /\ Hold(Stack(v)) = Range(list[v]) /\ Hold(Stack(v))' = Range(l)
           /\ Hold(Excess(v)) = Range(overflow[v]) /\ Hold(Excess(v))' = Range(o)
           /\ Hold(Batch(w)) = Range(batch[w]) /\ Hold(Batch(w))' = Range(b)
           /\ Hold(Got(w)) = got[w] /\ Hold(Got(w))' = g
           /\ Around(w, v) \subseteq Place \ {Posted}
           /\ Stack(v) # Excess(v) /\ Stack(v) # Batch(w) /\ Stack(v) # Got(w)
           /\ Excess(v) # Batch(w) /\ Excess(v) # Got(w) /\ Batch(w) # Got(w)
<1>1. Shifted(w, v, l, o, b, g)
  BY DEF Shift, Shifted, VBType, WorkerType, RestTypes
<1>2. \A c \in Place \ Around(w, v) : Hold(c)' = Hold(c)
  <2>1. ASSUME NEW c \in Place \ Around(w, v) PROVE Keeps(c)
    <3>1. c # <<"list", v>> /\ c # <<"overflow", v>> /\ c # <<"batch", w>> /\ c # <<"got", w>>
      BY DEF Around, Stack, Excess, Batch, Got
    <3> QED BY <1>1, <3>1 DEF Keeps, Shifted
  <2> QED BY <2>1, KeepsHold
<1>3. /\ Hold(Stack(v)) = Range(list[v]) /\ Hold(Excess(v)) = Range(overflow[v])
      /\ Hold(Batch(w)) = Range(batch[w]) /\ Hold(Got(w)) = got[w]
  BY HoldForms DEF Forms, Stack, Excess, Batch, Got
<1>4. /\ Hold(Stack(v))' = Range(l) /\ Hold(Excess(v))' = Range(o)
      /\ Hold(Batch(w))' = Range(b) /\ Hold(Got(w))' = g
  <2>1. Forms'
    BY HoldForms, PTL
  <2>2. /\ Hold(Stack(v))' = Range(list'[v]) /\ Hold(Excess(v))' = Range(overflow'[v])
        /\ Hold(Batch(w))' = Range(batch'[w]) /\ Hold(Got(w))' = got'[w]
    BY <2>1 DEF Forms, Stack, Excess, Batch, Got
  <2> QED BY <1>1, <2>2 DEF Shifted
<1>5. /\ Stack(v) \in Place /\ Excess(v) \in Place /\ Batch(w) \in Place /\ Got(w) \in Place
      /\ Stack(v) # Posted /\ Excess(v) # Posted /\ Batch(w) # Posted /\ Got(w) # Posted
  BY PlacesAre DEF Stack, Excess, Batch, Got
<1>6. /\ Stack(v) # Excess(v) /\ Stack(v) # Batch(w) /\ Stack(v) # Got(w)
      /\ Excess(v) # Batch(w) /\ Excess(v) # Got(w) /\ Batch(w) # Got(w)
  BY DEF Stack, Excess, Batch, Got
<1> QED BY <1>1, <1>2, <1>3, <1>4, <1>5, <1>6 DEF Around

-----------------------------------------------------------------------------
(* Collecting *)

\* All three together: the slots, the places and the order.
FullInv == RInv /\ PlaceInv /\ OrderInv

\* The types of what reader w works with.
LEMMA ReaderView ==
    ASSUME FullInv, NEW w \in Workers, NEW v \in VB
    PROVE  /\ list[v] \in Seq(Request) /\ overflow[v] \in Seq(Request)
           /\ batch[w] \in Seq(Request) /\ got[w] \subseteq Request
           /\ VBType /\ WorkerType /\ RestTypes /\ HoldsRequests
           /\ Located /\ Known /\ Once(list[v]) /\ Once(overflow[v]) /\ Once(batch[w])
<1>1. VBType /\ WorkerType /\ RestTypes
  BY DEF FullInv, RInv, RTypes, PlaceInv
<1> QED BY <1>1, HoldTypes DEF VBType, WorkerType, RestTypes, FullInv, PlaceInv, OnceEach

\* The types after reader w has moved requests.
LEMMA ShiftRest ==
    ASSUME RestTypes, NEW w \in Workers, NEW v \in VB, NEW l, NEW o, NEW b, NEW g,
           Shift(w, v, l, o, b, g), g \subseteq Request,
           UNCHANGED <<async, stopAfter, live, phase, resizes>>
    PROVE  RestTypes'
<1>1. got' \in [Workers -> SUBSET Request]
  BY DEF Shift, RestTypes
<1> QED BY <1>1 DEF Shift, RestTypes

\* Lists without repetition stay so.
LEMMA ShiftOnce ==
    ASSUME OnceEach, NEW w \in Workers, NEW v \in VB, NEW l, NEW o, NEW b, NEW g,
           Shifted(w, v, l, o, b, g), Once(l), Once(o), Once(b)
    PROVE  OnceEach'
<1>1. \A u \in VB : Once(list'[u]) /\ Once(overflow'[u])
  BY DEF OnceEach, Shifted
<1>2. \A u \in Workers : Once(batch'[u])
  BY DEF OnceEach, Shifted
<1> QED BY <1>1, <1>2 DEF OnceEach, Once

\* Requests stay under their vbucket.
LEMMA ShiftOwn ==
    ASSUME OwnVB, NEW w \in Workers, NEW v \in VB, NEW l, NEW o, NEW b, NEW g,
           Shifted(w, v, l, o, b, g),
           \A r \in Range(l) \cup Range(o) \cup Range(b) : r.vb = v,
           b # <<>> => wpc'[w] \in CollectingPc /\ wvb'[w] = v
    PROVE  OwnVB'
<1>1. \A u \in VB : \A r \in Range(list'[u]) \cup Range(overflow'[u]) : r.vb = u
  BY DEF OwnVB, Shifted
<1>2. \A u \in Workers : batch'[u] # <<>> => wpc'[u] \in CollectingPc
  BY DEF OwnVB, Shifted
<1>3. ASSUME NEW u \in Workers, NEW r \in Range(batch'[u]) PROVE r.vb = wvb'[u]
  <2>1. CASE u = w
    <3>1. batch'[w] = b /\ r \in Range(b)
      BY <1>3, <2>1 DEF Shifted
    <3>2. b # <<>>
      BY <3>1 DEF Range
    <3> QED BY <2>1, <3>1, <3>2
  <2>2. CASE u # w
    BY <1>3, <2>2 DEF OwnVB, Shifted
  <2> QED BY <2>1, <2>2
<1> QED BY <1>1, <1>2, <1>3 DEF OwnVB

\* What was swept, after the move.
LEMMA ShiftSwept ==
    ASSUME NEW w \in Workers, NEW v \in VB, NEW l, NEW o, NEW b, NEW g,
           Shifted(w, v, l, o, b, g),
           \A r \in Range(o) \cup Range(b) : r.vb = v,
           Range(o) \cup Range(b) \cup g
             \subseteq Range(overflow[v]) \cup Range(batch[w]) \cup got[w] \cup Range(list[v]),
           \A r \in Range(overflow[v]) \cup Range(batch[w]) \cup Range(list[v]) : r.vb = v
    PROVE  /\ \A u \in VB \ {v} : Swept(u)' \subseteq Swept(u)
           /\ Swept(v)' \subseteq Swept(v) \cup Range(list[v])
<1>1. ASSUME NEW u \in VB \ {v}, NEW r \in Swept(u)' PROVE r \in Swept(u)
  <2>1. CASE r \in Range(overflow'[u])
    BY <1>1, <2>1 DEF Swept, Shifted
  <2>2. CASE \E x \in Workers : r \in Range(batch'[x]) \cup got'[x] /\ r.vb = u
    <3>1. PICK x \in Workers : r \in Range(batch'[x]) \cup got'[x] /\ r.vb = u
      BY <2>2
    <3>2. CASE x = w
      <4>1. r \in g
        BY <1>1, <3>1, <3>2 DEF Shifted
      <4>2. r \in got[w]
        BY <1>1, <3>1, <4>1
      <4> QED BY <3>1, <4>2 DEF Swept
    <3>3. CASE x # w
      BY <3>1, <3>3 DEF Shifted, Swept
    <3> QED BY <3>2, <3>3
  <2> QED BY <1>1, <2>1, <2>2 DEF Swept
<1>2. ASSUME NEW r \in Swept(v)' PROVE r \in Swept(v) \cup Range(list[v])
  <2>1. CASE r \in Range(overflow'[v]) \cup Range(batch'[w]) \cup got'[w] /\ r.vb = v
    <3>1. r \in Range(overflow[v]) \cup Range(batch[w]) \cup got[w] \cup Range(list[v])
      BY <2>1 DEF Shifted
    <3> QED BY <2>1, <3>1 DEF Swept
  <2>2. CASE \E x \in Workers \ {w} : r \in Range(batch'[x]) \cup got'[x] /\ r.vb = v
    BY <2>2 DEF Shifted, Swept
  <2>3. r \in Range(overflow'[v]) => r.vb = v
    BY DEF Shifted
  <2> QED BY <1>2, <2>1, <2>2, <2>3 DEF Swept
<1> QED BY <1>1, <1>2

\* The stack stays the newest, as it was or swept.
LEMMA ShiftNewer ==
    ASSUME Newer, NEW w \in Workers, NEW v \in VB, NEW l, NEW o, NEW b, NEW g,
           Shifted(w, v, l, o, b, g), VBType,
           \A u \in VB \ {v} : Swept(u)' \subseteq Swept(u),
           \/ l = list[v] /\ Swept(v)' \subseteq Swept(v)
           \/ l = <<>> /\ Swept(v)' \subseteq Swept(v) \cup Range(list[v])
    PROVE  Newer'
<1>0. Range(<<>>) = {} /\ Falling(<<>>)
  BY DEF Range, Falling
<1>1. ASSUME NEW u \in VB
      PROVE  /\ Falling(list'[u]) /\ Before(Swept(u)', Range(list'[u]))
             /\ \A r \in Range(list'[u]) \cup Swept(u)' : r.id <= issued'
  <2>1. CASE u # v
    BY <2>1 DEF Newer, Shifted, Before
  <2>2. CASE u = v /\ l = list[v] /\ Swept(v)' \subseteq Swept(v)
    BY <2>2 DEF Newer, Shifted, Before
  <2>3. CASE u = v /\ l = <<>> /\ Swept(v)' \subseteq Swept(v) \cup Range(list[v])
    <3>1. list'[u] = <<>> /\ Range(list'[u]) = {} /\ Falling(list'[u])
      BY <1>0, <2>3 DEF Shifted
    <3>2. \A r \in Swept(v)' : r.id <= issued
      BY <2>3 DEF Newer
    <3> QED BY <2>3, <3>1, <3>2 DEF Before, Shifted
  <2> QED BY <2>1, <2>2, <2>3
<1> QED BY <1>1 DEF Newer, Falling, Before

\* Nothing reader w leaves behind in the overflow or still has to count comes
\* before what it or others have collected.
Behind(w, v, o, b, g) ==
    /\ Before(Range(b), Range(o))
    /\ \A r \in g : r.vb = v => Before({r}, Range(o)) /\ Before({r}, Range(b))
    /\ \A u \in Workers \ {w} : \A r \in got[u] :
         r.vb = v => Before({r}, Range(o)) /\ Before({r}, Range(b))
    /\ \A u \in Workers \ {w} : \A r \in Range(batch[u]) : r.vb = v =>
         Before({r}, Range(o)) /\ \A s \in g : s.vb = v => s.id < r.id
    /\ \A u \in Workers \ {w} : wpc[u] \in {"sweep", "spill"} /\ wvb[u] = v => o = <<>>

\* Then everything is in turn after the move.
LEMMA ShiftTurn ==
    ASSUME InTurn, NEW w \in Workers, NEW v \in VB, NEW l, NEW o, NEW b, NEW g,
           Shifted(w, v, l, o, b, g), MidCall, WorkerType, RestTypes,
           Rising(o), Rising(b), \A r \in Range(b) : r.vb = v,
           \A r \in Range(batch[w]) : r.vb = v,
           g \subseteq got[w] \cup Range(batch[w]),
           wpc'[w] \in {"sweep", "spill"} => wvb'[w] = v /\ o = <<>>,
           Behind(w, v, o, b, g)
    PROVE  InTurn'
<1>1. \A u \in VB : Rising(overflow'[u])
  BY DEF InTurn, Shifted
<1>2. \A u \in Workers : Rising(batch'[u])
  BY DEF InTurn, Shifted
<1>3. ASSUME NEW u \in Workers, wpc'[u] \in {"sweep", "spill"} PROVE overflow'[wvb'[u]] = <<>>
  <2>1. CASE u = w
    BY <1>3, <2>1 DEF Shifted
  <2>2. CASE u # w
    <3>1. wpc[u] \in {"sweep", "spill"} /\ wvb'[u] = wvb[u] /\ overflow[wvb[u]] = <<>>
      BY <1>3, <2>2 DEF InTurn, Shifted
    <3>2. wvb[u] \in VB
      BY <3>1 DEF MidCall, TaskPc
    <3>3. CASE wvb[u] = v
      BY <2>2, <3>1, <3>3 DEF Shifted, Behind
    <3>4. CASE wvb[u] \in VB \ {v}
      BY <3>1, <3>4 DEF Shifted
    <3> QED BY <3>2, <3>3, <3>4
  <2> QED BY <2>1, <2>2
<1>4. \A u \in Workers : \A r \in Range(batch[u]) : r.vb \in VB
  <2>1. \A u \in Workers : Range(batch[u]) \subseteq Request
    BY RangeSeq DEF WorkerType
  <2> QED BY <2>1 DEF Request
<1>5. \A u \in Workers : \A r \in got[u] : r.vb \in VB
  <2>1. \A u \in Workers : got[u] \subseteq Request
    BY DEF RestTypes
  <2> QED BY <2>1 DEF Request
<1>6. ASSUME NEW u \in Workers, NEW r \in Range(batch'[u])
      PROVE  Before({r}, Range(overflow'[r.vb]))
  <2>1. CASE u = w
    BY <1>6, <2>1 DEF Shifted, Behind, Before
  <2>2. CASE u # w /\ r.vb = v
    BY <1>6, <2>2 DEF Shifted, Behind
  <2>3. CASE u # w /\ r.vb # v
    BY <1>4, <1>6, <2>3 DEF Shifted, InTurn
  <2> QED BY <2>1, <2>2, <2>3
<1>7. ASSUME NEW u \in Workers, NEW r \in got'[u] PROVE Before({r}, Range(overflow'[r.vb]))
  <2>1. CASE r.vb = v
    BY <1>7, <2>1 DEF Shifted, Behind
  <2>2. CASE r.vb # v
    <3>1. r \in got[u] /\ r.vb \in VB \ {v}
      BY <1>5, <1>7, <2>2 DEF Shifted
    <3>2. overflow'[r.vb] = overflow[r.vb]
      BY <3>1 DEF Shifted
    <3> QED BY <3>1, <3>2 DEF InTurn
  <2> QED BY <2>1, <2>2
<1>8. ASSUME NEW u \in Workers, NEW r \in got'[u], NEW x \in Workers,
             NEW s \in Range(batch'[x]), s.vb = r.vb
      PROVE  r.id < s.id
  <2>1. CASE r.vb = v
    <3>1. CASE u = w /\ x = w
      BY <1>8, <2>1, <3>1 DEF Shifted, Behind, Before
    <3>2. CASE u = w /\ x # w
      BY <1>8, <2>1, <3>2 DEF Shifted, Behind
    <3>3. CASE u # w /\ x = w
      BY <1>8, <2>1, <3>3 DEF Shifted, Behind, Before
    <3>4. CASE u # w /\ x # w
      BY <1>8, <3>4 DEF Shifted, InTurn
    <3> QED BY <3>1, <3>2, <3>3, <3>4
  <2>2. CASE r.vb # v
    <3>1. r \in got[u]
      BY <1>7, <1>8, <2>2 DEF Shifted
    <3>2. x # w
      BY <1>8, <2>2 DEF Shifted
    <3> QED BY <1>8, <3>1, <3>2 DEF Shifted, InTurn
  <2> QED BY <2>1, <2>2
<1>9. \A u \in Workers : \A r \in got'[u] :
        /\ Before({r}, Range(overflow'[r.vb]))
        /\ \A x \in Workers : \A s \in Range(batch'[x]) : s.vb = r.vb => r.id < s.id
  BY <1>7, <1>8
<1> QED BY <1>1, <1>2, <1>3, <1>6, <1>9 DEF InTurn, Rising, Before

\* What earlier rounds left over is collected first.
LEMMA DrainOrder ==
    ASSUME FullInv, NEW w \in Workers, DrainOverflow(w)
    PROVE  PlaceInv' /\ OrderInv'
<1> USE DEF workerVars, taskVars, reqVars, ioVars, modeVars, vbVars, magmaVars, poolVars
<1>1. PICK v : v = wvb[w]
  OBVIOUS
<1>2. wpc[w] = "drain" /\ v \in VB
  BY <1>1 DEF DrainOverflow, FullInv, RInv, RTypes, MidCall, TaskPc
<1>3. /\ list[v] \in Seq(Request) /\ overflow[v] \in Seq(Request)
      /\ batch[w] \in Seq(Request) /\ got[w] \subseteq Request
      /\ VBType /\ WorkerType /\ RestTypes /\ HoldsRequests
      /\ Located /\ Known /\ Once(list[v]) /\ Once(overflow[v]) /\ Once(batch[w])
  BY <1>2, ReaderView
<1>4. batch[w] = <<>> /\ Range(batch[w]) = {}
  <2>1. batch[w] = <<>>
    BY <1>2 DEF FullInv, OrderInv, OwnVB, CollectingPc
  <2> QED BY <2>1 DEF Range
<1>5. PICK n : n = IF Len(overflow[v]) < MaxBatch THEN Len(overflow[v]) ELSE MaxBatch
  OBVIOUS
<1>6. n \in 0..Len(overflow[v]) /\ Len(overflow[v]) \in Nat /\ (n < MaxBatch => n = Len(overflow[v]))
  BY <1>3, <1>5, ReadNumbers, LenProperties
<1>7. PICK b, o : b = SubSeq(overflow[v], 1, n)
                  /\ o = SubSeq(overflow[v], n + 1, Len(overflow[v]))
  OBVIOUS
<1>8. /\ Cuts(overflow[v], b, o) /\ b \in Seq(Request) /\ o \in Seq(Request)
      /\ Len(o) = Len(overflow[v]) - n
  BY <1>3, <1>6, <1>7, CutLength DEF Cuts
<1>9. n = Len(overflow[v]) => o = <<>>
  BY <1>6, <1>8, EmptySeq
<1>10. /\ batch' = [batch EXCEPT ![w] = b] /\ overflow' = [overflow EXCEPT ![v] = o]
       /\ UNCHANGED <<maxOwners, issued, list, wvb, got, accum, calls, magmaAccum, posted>>
       /\ UNCHANGED <<async, stopAfter, live, phase, resizes>>
       /\ wpc' = [wpc EXCEPT ![w] = IF n < MaxBatch THEN "sweep" ELSE "count"]
  BY <1>1, <1>5, <1>7 DEF DrainOverflow, Goto
<1>11. /\ wpc'[w] = (IF n < MaxBatch THEN "sweep" ELSE "count")
       /\ \A u \in Workers \ {w} : wpc'[u] = wpc[u]
  BY <1>3, <1>10 DEF WorkerType
<1>12. Shift(w, v, list[v], o, b, got[w])
  BY <1>2, <1>3, <1>10, <1>11 DEF Shift, VBType, WorkerType, RestTypes
<1>13. /\ Once(b) /\ Once(o) /\ Range(b) = Range(overflow[v]) \ Range(o)
       /\ Range(o) = Range(overflow[v]) \ Range(b)
  BY <1>3, <1>8, CutOnce
<1>14. Shifted(w, v, list[v], o, b, got[w])
  BY <1>2, <1>3, <1>12, ShiftPlaces
<1>15. Located' /\ Known'
  <2>1. Moves({Excess(v)}, Batch(w), Range(b))
    <3>1. /\ \A c \in Place \ {Excess(v), Batch(w)} : Hold(c)' = Hold(c)
          /\ Excess(v) \in Place \ {Posted} /\ Batch(w) \in Place \ {Posted}
          /\ Excess(v) # Batch(w)
          /\ Hold(Excess(v)) = Range(overflow[v]) /\ Hold(Excess(v))' = Range(o)
          /\ Hold(Batch(w)) = {} /\ Hold(Batch(w))' = Range(b)
      BY <1>2, <1>3, <1>4, <1>12, ShiftPlaces DEF Around
    <3>2. Range(b) \subseteq UNION {Hold(a) : a \in {Excess(v)}}
      BY <1>13, <3>1
    <3> QED BY <1>10, <1>13, <3>1, <3>2 DEF Moves
  <2> QED BY <1>3, <1>10, <2>1, MoveKeeps
<1>16. PlaceInv'
  <2>1. OnceEach'
    BY <1>2, <1>3, <1>13, <1>14, ShiftOnce DEF FullInv, PlaceInv
  <2>2. RestTypes'
    BY <1>2, <1>3, <1>10, <1>12, ShiftRest
  <2> QED BY <1>15, <2>1, <2>2 DEF PlaceInv
<1>17. \A r \in Range(list[v]) \cup Range(overflow[v]) : r.vb = v
  BY <1>2 DEF FullInv, OrderInv, OwnVB
<1>18. OwnVB'
  <2>1. wpc'[w] \in CollectingPc /\ wvb'[w] = v
    BY <1>1, <1>10, <1>11 DEF CollectingPc
  <2>2. \A r \in Range(list[v]) \cup Range(o) \cup Range(b) : r.vb = v
    BY <1>13, <1>17
  <2> QED BY <1>2, <1>14, <2>1, <2>2, ShiftOwn DEF FullInv, OrderInv
<1>19. Newer'
  <2>1. /\ \A u \in VB \ {v} : Swept(u)' \subseteq Swept(u)
        /\ Swept(v)' \subseteq Swept(v)
    <3>1. \A u \in VB \ {v} : Swept(u)' \subseteq Swept(u)
      BY <1>2, <1>4, <1>13, <1>14, <1>17, ShiftSwept
    <3>2. ASSUME NEW r \in Swept(v)' PROVE r \in Swept(v)
      <4>1. r \in Range(o) \/ \E x \in Workers : r \in Range(batch'[x]) \cup got'[x] /\ r.vb = v
        BY <3>2, <1>14 DEF Swept, Shifted
      <4>2. CASE r \in Range(o)
        BY <1>13, <4>2 DEF Swept
      <4>3. CASE \E x \in Workers : r \in Range(batch'[x]) \cup got'[x] /\ r.vb = v
        BY <1>13, <1>14, <4>3 DEF Swept, Shifted
      <4> QED BY <4>1, <4>2, <4>3
    <3> QED BY <3>1, <3>2
  <2> QED BY <1>2, <1>3, <1>14, <2>1, ShiftNewer DEF FullInv, OrderInv
<1>20. ASSUME maxOwners = 1 PROVE InTurn'
  <2>1. InTurn
    BY <1>20 DEF FullInv, OrderInv
  <2>2. Rising(b) /\ Rising(o) /\ Before(Range(b), Range(o))
    BY <1>2, <1>3, <1>8, <2>1, CutRising DEF InTurn
  <2>3. \A u \in Workers : \A r \in got[u] : r.vb = v => Before({r}, Range(overflow[v]))
    BY <2>1 DEF InTurn
  <2>4. \A u \in Workers : \A r \in Range(batch[u]) : r.vb = v =>
          /\ Before({r}, Range(overflow[v]))
          /\ \A s \in got[w] : s.vb = v => s.id < r.id
    BY <2>1 DEF InTurn
  <2>5. overflow[v] = <<>> => o = <<>>
    <3>1. Range(<<>>) = {}
      BY DEF Range
    <3>2. overflow[v] = <<>> => Len(overflow[v]) = 0
      OBVIOUS
    <3>3. overflow[v] = <<>> => n = Len(overflow[v])
      BY <1>6, <3>2
    <3> QED BY <1>9, <3>3
  <2>6. \A u \in Workers : wpc[u] \in {"sweep", "spill"} /\ wvb[u] = v => o = <<>>
    BY <2>1, <2>5 DEF InTurn
  <2>7. Range(o) \subseteq Range(overflow[v]) /\ Range(b) \subseteq Range(overflow[v])
    BY <1>13
  <2>8. Behind(w, v, o, b, got[w])
    BY <2>2, <2>3, <2>4, <2>6, <2>7 DEF Behind, Before
  <2>9. wpc'[w] \in {"sweep", "spill"} => wvb'[w] = v /\ o = <<>>
    BY <1>1, <1>6, <1>9, <1>10, <1>11
  <2>10. MidCall
    BY DEF FullInv, RInv, RTypes
  <2>11. /\ \A r \in Range(b) : r.vb = v
         /\ \A r \in Range(batch[w]) : r.vb = v
    BY <1>4, <1>13, <1>17
  <2> QED BY <1>2, <1>3, <1>14, <2>1, <2>2, <2>8, <2>9, <2>10, <2>11, ShiftTurn
<1>21. maxOwners' = maxOwners
  BY <1>10
<1> QED BY <1>16, <1>18, <1>19, <1>20, <1>21 DEF OrderInv

\* sweepOnce and reverse: the stack comes behind the batch, in arrival order.
LEMMA SweepOrder ==
    ASSUME FullInv, NEW w \in Workers, Sweep(w)
    PROVE  PlaceInv' /\ OrderInv'
<1> USE DEF workerVars, taskVars, reqVars, ioVars, modeVars, vbVars, magmaVars, poolVars
<1>1. PICK v : v = wvb[w]
  OBVIOUS
<1>2. wpc[w] = "sweep" /\ v \in VB
  BY <1>1 DEF Sweep, FullInv, RInv, RTypes, MidCall, TaskPc
<1>3. /\ list[v] \in Seq(Request) /\ overflow[v] \in Seq(Request)
      /\ batch[w] \in Seq(Request) /\ got[w] \subseteq Request
      /\ VBType /\ WorkerType /\ RestTypes /\ HoldsRequests
      /\ Located /\ Known /\ Once(list[v]) /\ Once(overflow[v]) /\ Once(batch[w])
  BY <1>2, ReaderView
<1>4. PICK q : q = Reverse(list[v])
  OBVIOUS
<1>5. /\ q \in Seq(Request) /\ Range(q) = Range(list[v]) /\ Once(q)
      /\ Falling(list[v]) => Rising(q)
  BY <1>3, <1>4, ReverseOnce
<1>6. PICK b : b = batch[w] \o q
  OBVIOUS
<1>7. b \in Seq(Request) /\ Range(b) = Range(batch[w]) \cup Range(list[v])
  BY <1>3, <1>5, <1>6, RangeConcat
<1>8. PICK l : l = <<>>
  OBVIOUS
<1>9. Range(l) = {} /\ Once(l)
  BY <1>8 DEF Range, Once
<1>10. PICK pc : /\ pc = IF b = <<>> THEN "release"
                         ELSE IF Len(b) > MaxBatch THEN "spill" ELSE "count"
                 /\ wpc' = [wpc EXCEPT ![w] = pc]
  BY <1>1, <1>4, <1>6 DEF Sweep, Goto
<1>11. /\ batch' = [batch EXCEPT ![w] = b] /\ list' = [list EXCEPT ![v] = l]
       /\ UNCHANGED <<maxOwners, issued, overflow, wvb, got, accum, calls, magmaAccum, posted>>
       /\ UNCHANGED <<async, stopAfter, live, phase, resizes>>
  BY <1>1, <1>4, <1>6, <1>8 DEF Sweep
<1>12. wpc'[w] = pc /\ \A u \in Workers \ {w} : wpc'[u] = wpc[u]
  BY <1>3, <1>10 DEF WorkerType
<1>13. Shift(w, v, l, overflow[v], b, got[w])
  BY <1>2, <1>3, <1>11, <1>12 DEF Shift, VBType, WorkerType, RestTypes
<1>14. Shifted(w, v, l, overflow[v], b, got[w])
  BY <1>2, <1>3, <1>13, ShiftPlaces
<1>15. /\ \A c \in Place \ {Stack(v), Batch(w)} : Hold(c)' = Hold(c)
       /\ Stack(v) \in Place \ {Posted} /\ Batch(w) \in Place \ {Posted}
       /\ Stack(v) # Batch(w)
       /\ Hold(Stack(v)) = Range(list[v]) /\ Hold(Stack(v))' = {}
       /\ Hold(Batch(w)) = Range(batch[w]) /\ Hold(Batch(w))' = Range(b)
  BY <1>2, <1>3, <1>9, <1>13, ShiftPlaces DEF Around
<1>16. Located' /\ Known'
  <2>1. Range(list[v]) \subseteq UNION {Hold(a) : a \in {Stack(v)}}
    BY <1>15
  <2>2. Moves({Stack(v)}, Batch(w), Range(list[v]))
    BY <1>7, <1>11, <1>15, <2>1 DEF Moves
  <2> QED BY <1>3, <1>11, <2>2, MoveKeeps
<1>17. PlaceInv'
  <2>1. \A r \in Range(batch[w]), s \in Range(q) : r.id # s.id
    BY <1>3, <1>5, <1>15, Apart
  <2>2. Once(b)
    BY <1>3, <1>5, <1>6, <2>1, ConcatOnce
  <2>3. OnceEach'
    BY <1>2, <1>3, <1>9, <1>14, <2>2, ShiftOnce DEF FullInv, PlaceInv
  <2>4. RestTypes'
    BY <1>2, <1>3, <1>11, <1>13, ShiftRest
  <2> QED BY <1>16, <2>3, <2>4 DEF PlaceInv
<1>18. \A r \in Range(list[v]) \cup Range(overflow[v]) \cup Range(batch[w]) : r.vb = v
  BY <1>1, <1>2 DEF FullInv, OrderInv, OwnVB
<1>19. OwnVB'
  <2>1. b # <<>> => wpc'[w] \in CollectingPc /\ wvb'[w] = v
    BY <1>1, <1>10, <1>11, <1>12 DEF CollectingPc
  <2>2. \A r \in Range(l) \cup Range(overflow[v]) \cup Range(b) : r.vb = v
    BY <1>7, <1>9, <1>18
  <2> QED BY <1>2, <1>14, <2>1, <2>2, ShiftOwn DEF FullInv, OrderInv
<1>20. Newer'
  <2>1. /\ \A u \in VB \ {v} : Swept(u)' \subseteq Swept(u)
        /\ Swept(v)' \subseteq Swept(v) \cup Range(list[v])
    BY <1>2, <1>7, <1>14, <1>18, ShiftSwept
  <2> QED BY <1>2, <1>3, <1>8, <1>14, <2>1, ShiftNewer DEF FullInv, OrderInv
<1>21. ASSUME maxOwners = 1 PROVE InTurn'
  <2>1. InTurn
    BY <1>21 DEF FullInv, OrderInv
  <2>2. overflow[v] = <<>> /\ Range(overflow[v]) = {} /\ Rising(overflow[v])
    <3>1. overflow[v] = <<>> /\ Rising(overflow[v])
      BY <1>1, <1>2, <2>1 DEF InTurn
    <3> QED BY <3>1 DEF Range
  <2>3. Before(Swept(v), Range(list[v])) /\ Falling(list[v])
    BY <1>2 DEF FullInv, OrderInv, Newer
  <2>4. Range(batch[w]) \subseteq Swept(v)
    BY <1>18 DEF Swept
  <2>5. Rising(b)
    <3>1. Rising(batch[w])
      BY <2>1 DEF InTurn
    <3>2. Before(Range(batch[w]), Range(q))
      BY <1>5, <2>3, <2>4 DEF Before
    <3> QED BY <1>3, <1>5, <1>6, <2>3, <3>1, <3>2, ConcatRising
  <2>6. \A u \in Workers : \A r \in got[u] : r.vb = v =>
          Before({r}, Range(batch[w])) /\ Before({r}, Range(list[v]))
    <3>1. \A u \in Workers : \A r \in got[u] : r.vb = v => r \in Swept(v)
      BY DEF Swept
    <3>2. \A u \in Workers : \A r \in got[u] : r.vb = v => Before({r}, Range(batch[w]))
      BY <1>18, <2>1 DEF InTurn, Before
    <3> QED BY <2>3, <3>1, <3>2 DEF Before
  <2>7. \A u \in Workers : \A r \in Range(batch[u]) : r.vb = v =>
          \A s \in got[w] : s.vb = v => s.id < r.id
    BY <2>1 DEF InTurn
  <2>8. Behind(w, v, overflow[v], b, got[w])
    BY <1>7, <2>2, <2>6, <2>7 DEF Behind, Before
  <2>9. wpc'[w] \in {"sweep", "spill"} => wvb'[w] = v /\ overflow[v] = <<>>
    BY <1>1, <1>11, <2>2
  <2>10. MidCall
    BY DEF FullInv, RInv, RTypes
  <2>11. /\ \A r \in Range(b) : r.vb = v
         /\ \A r \in Range(batch[w]) : r.vb = v
    BY <1>7, <1>18
  <2> QED BY <1>2, <1>3, <1>14, <2>1, <2>2, <2>5, <2>8, <2>9, <2>10, <2>11, ShiftTurn
<1>22. maxOwners' = maxOwners
  BY <1>11
<1> QED BY <1>17, <1>19, <1>20, <1>21, <1>22 DEF OrderInv

\* The excess goes behind what the overflow holds; with one owner that is
\* nothing, because the reader drained it and nobody else could add to it.
LEMMA SpillOrder ==
    ASSUME FullInv, NEW w \in Workers, Spill(w)
    PROVE  PlaceInv' /\ OrderInv'
<1> USE DEF workerVars, taskVars, reqVars, ioVars, modeVars, vbVars, magmaVars, poolVars
<1>1. PICK v : v = wvb[w]
  OBVIOUS
<1>2. wpc[w] = "spill" /\ v \in VB /\ Len(batch[w]) > MaxBatch
  BY <1>1 DEF Spill, FullInv, RInv, RTypes, MidCall, TaskPc, Spilling
<1>3. /\ list[v] \in Seq(Request) /\ overflow[v] \in Seq(Request)
      /\ batch[w] \in Seq(Request) /\ got[w] \subseteq Request
      /\ VBType /\ WorkerType /\ RestTypes /\ HoldsRequests
      /\ Located /\ Known /\ Once(list[v]) /\ Once(overflow[v]) /\ Once(batch[w])
  BY <1>2, ReaderView
<1>4. PICK b, s : b = SubSeq(batch[w], 1, MaxBatch)
                  /\ s = SubSeq(batch[w], MaxBatch + 1, Len(batch[w]))
  OBVIOUS
<1>5. MaxBatch \in 0..Len(batch[w])
  BY <1>2, <1>3, ReadNumbers, LenProperties
<1>6. Cuts(batch[w], b, s) /\ b \in Seq(Request) /\ s \in Seq(Request)
  BY <1>3, <1>4, <1>5, CutLength DEF Cuts
<1>7. /\ Once(b) /\ Once(s) /\ Range(b) = Range(batch[w]) \ Range(s)
      /\ Range(s) = Range(batch[w]) \ Range(b)
  BY <1>3, <1>6, CutOnce
<1>8. PICK o : o = overflow[v] \o s
  OBVIOUS
<1>9. o \in Seq(Request) /\ Range(o) = Range(overflow[v]) \cup Range(s)
  BY <1>3, <1>6, <1>8, RangeConcat
<1>10. /\ batch' = [batch EXCEPT ![w] = b] /\ overflow' = [overflow EXCEPT ![v] = o]
       /\ UNCHANGED <<maxOwners, issued, list, wvb, got, accum, calls, magmaAccum, posted>>
       /\ UNCHANGED <<async, stopAfter, live, phase, resizes>>
       /\ wpc' = [wpc EXCEPT ![w] = "count"]
  BY <1>1, <1>4, <1>8 DEF Spill, Goto
<1>11. wpc'[w] = "count" /\ \A u \in Workers \ {w} : wpc'[u] = wpc[u]
  BY <1>3, <1>10 DEF WorkerType
<1>12. Shift(w, v, list[v], o, b, got[w])
  BY <1>2, <1>3, <1>10, <1>11 DEF Shift, VBType, WorkerType, RestTypes
<1>13. Shifted(w, v, list[v], o, b, got[w])
  BY <1>2, <1>3, <1>12, ShiftPlaces
<1>14. /\ \A c \in Place \ {Excess(v), Batch(w)} : Hold(c)' = Hold(c)
       /\ Excess(v) \in Place \ {Posted} /\ Batch(w) \in Place \ {Posted}
       /\ Excess(v) # Batch(w)
       /\ Hold(Excess(v)) = Range(overflow[v]) /\ Hold(Excess(v))' = Range(o)
       /\ Hold(Batch(w)) = Range(batch[w]) /\ Hold(Batch(w))' = Range(b)
  BY <1>2, <1>3, <1>12, ShiftPlaces DEF Around
<1>15. Located' /\ Known'
  <2>1. Range(s) \subseteq UNION {Hold(a) : a \in {Batch(w)}}
    BY <1>7, <1>14
  <2>2. Moves({Batch(w)}, Excess(v), Range(s))
    BY <1>7, <1>9, <1>10, <1>14, <2>1 DEF Moves
  <2> QED BY <1>3, <1>10, <2>2, MoveKeeps
<1>16. PlaceInv'
  <2>1. \A r \in Range(overflow[v]), x \in Range(s) : r.id # x.id
    BY <1>3, <1>7, <1>14, Apart
  <2>2. Once(o)
    BY <1>3, <1>6, <1>7, <1>8, <2>1, ConcatOnce
  <2>3. OnceEach'
    BY <1>2, <1>3, <1>7, <1>13, <2>2, ShiftOnce DEF FullInv, PlaceInv
  <2>4. RestTypes'
    BY <1>2, <1>3, <1>10, <1>12, ShiftRest
  <2> QED BY <1>15, <2>3, <2>4 DEF PlaceInv
<1>17. \A r \in Range(list[v]) \cup Range(overflow[v]) \cup Range(batch[w]) : r.vb = v
  BY <1>1, <1>2 DEF FullInv, OrderInv, OwnVB
<1>18. OwnVB'
  <2>1. wpc'[w] \in CollectingPc /\ wvb'[w] = v
    BY <1>1, <1>10, <1>11 DEF CollectingPc
  <2>2. \A r \in Range(list[v]) \cup Range(o) \cup Range(b) : r.vb = v
    BY <1>7, <1>9, <1>17
  <2> QED BY <1>2, <1>13, <2>1, <2>2, ShiftOwn DEF FullInv, OrderInv
<1>19. Newer'
  <2>1. \A u \in VB \ {v} : Swept(u)' \subseteq Swept(u)
    BY <1>2, <1>7, <1>9, <1>13, <1>17, ShiftSwept
  <2>2. ASSUME NEW r \in Swept(v)' PROVE r \in Swept(v)
    <3>1. r \in Range(o) \/ \E x \in Workers : r \in Range(batch'[x]) \cup got'[x] /\ r.vb = v
      BY <2>2, <1>13 DEF Swept, Shifted
    <3>2. CASE r \in Range(o)
      BY <1>7, <1>9, <1>17, <3>2 DEF Swept
    <3>3. CASE \E x \in Workers : r \in Range(batch'[x]) \cup got'[x] /\ r.vb = v
      BY <1>7, <1>13, <3>3 DEF Swept, Shifted
    <3> QED BY <3>1, <3>2, <3>3
  <2> QED BY <1>2, <1>3, <1>13, <2>1, <2>2, ShiftNewer DEF FullInv, OrderInv
<1>20. ASSUME maxOwners = 1 PROVE InTurn'
  <2>1. InTurn
    BY <1>20 DEF FullInv, OrderInv
  <2>2. overflow[v] = <<>>
    BY <1>1, <1>2, <2>1 DEF InTurn
  <2>3. o = s
    BY <1>6, <1>8, <2>2, ConcatEmptySeq
  <2>4. Rising(b) /\ Rising(o) /\ Before(Range(b), Range(o))
    <3>1. Rising(batch[w])
      BY <2>1 DEF InTurn
    <3> QED BY <1>3, <1>6, <2>3, <3>1, CutRising
  <2>5. Range(o) \subseteq Range(batch[w]) /\ Range(b) \subseteq Range(batch[w])
    BY <1>7, <2>3
  <2>6. \A u \in Workers : \A r \in got[u] : r.vb = v => Before({r}, Range(batch[w]))
    BY <1>17, <2>1 DEF InTurn, Before
  <2>7. \A u \in Workers \ {w} : wpc[u] \in CollectingPc => wvb[u] # v
    <3>1. RInv /\ CollectingPc \subseteq OwningPc /\ wpc[w] \in OwningPc /\ wvb[w] = v
      BY <1>1, <1>2 DEF FullInv, CollectingPc, OwningPc
    <3> QED BY <1>2, <1>20, <3>1, OneOwner
  <2>8. \A u \in Workers \ {w} : \A r \in Range(batch[u]) : r.vb # v
    <3> SUFFICES ASSUME NEW u \in Workers \ {w}, NEW r \in Range(batch[u]) PROVE r.vb # v
      OBVIOUS
    <3>1. batch[u] # <<>>
      BY DEF Range
    <3>2. wpc[u] \in CollectingPc /\ r.vb = wvb[u]
      BY <3>1 DEF FullInv, OrderInv, OwnVB
    <3> QED BY <2>7, <3>2
  <2>9. \A u \in Workers \ {w} : ~(wpc[u] \in {"sweep", "spill"} /\ wvb[u] = v)
    BY <2>7 DEF CollectingPc
  <2>10. Behind(w, v, o, b, got[w])
    BY <2>4, <2>5, <2>6, <2>8, <2>9 DEF Behind, Before
  <2>11. ~(wpc'[w] \in {"sweep", "spill"})
    BY <1>11
  <2>12. MidCall
    BY DEF FullInv, RInv, RTypes
  <2>13. /\ \A r \in Range(b) : r.vb = v
         /\ \A r \in Range(batch[w]) : r.vb = v
    BY <1>7, <1>17
  <2> QED BY <1>2, <1>3, <1>13, <2>1, <2>4, <2>10, <2>11, <2>12, <2>13, ShiftTurn
<1>21. maxOwners' = maxOwners
  BY <1>10
<1> QED BY <1>16, <1>18, <1>19, <1>20, <1>21 DEF OrderInv

\* The batch joins what the reader has collected.
LEMMA CountOrder ==
    ASSUME FullInv, NEW w \in Workers, CountBatch(w)
    PROVE  PlaceInv' /\ OrderInv'
<1> USE DEF workerVars, taskVars, reqVars, ioVars, modeVars, vbVars, magmaVars, poolVars
<1>1. PICK v : v = wvb[w]
  OBVIOUS
<1>2. wpc[w] = "count" /\ v \in VB
  BY <1>1 DEF CountBatch, FullInv, RInv, RTypes, MidCall, TaskPc
<1>3. /\ list[v] \in Seq(Request) /\ overflow[v] \in Seq(Request)
      /\ batch[w] \in Seq(Request) /\ got[w] \subseteq Request
      /\ VBType /\ WorkerType /\ RestTypes /\ HoldsRequests
      /\ Located /\ Known /\ Once(list[v]) /\ Once(overflow[v]) /\ Once(batch[w])
  BY <1>2, ReaderView
<1>4. PICK b, g : b = <<>> /\ g = got[w] \cup Range(batch[w])
  OBVIOUS
<1>5. Range(b) = {} /\ Once(b) /\ Rising(b)
  BY <1>4 DEF Range, Once, Rising
<1>6. g \subseteq Request
  BY <1>3, <1>4, RangeSeq
<1>7. /\ batch' = [batch EXCEPT ![w] = b] /\ got' = [got EXCEPT ![w] = g]
      /\ UNCHANGED <<maxOwners, issued, list, overflow, accum, calls, magmaAccum, posted>>
      /\ UNCHANGED <<async, stopAfter, live, phase, resizes>>
  BY <1>4 DEF CountBatch, Collected
<1>8. /\ wpc'[w] \notin CollectingPc
      /\ \A u \in Workers \ {w} : wpc'[u] = wpc[u] /\ wvb'[u] = wvb[u]
  <2>1. CASE async
    <3>1. wpc' = [wpc EXCEPT ![w] = "release"] /\ wvb' = wvb
      BY <2>1 DEF CountBatch, Collected, Goto
    <3> QED BY <1>3, <3>1 DEF WorkerType, CollectingPc
  <2>2. CASE ~async
    <3>1. NextTask(w)
      BY <2>2 DEF CountBatch, Collected
    <3>2. \E pc \in {"drain", "serve"} : wpc' = [wpc EXCEPT ![w] = pc]
      BY <3>1 DEF NextTask, Goto
    <3>3. \E x : wvb' = [wvb EXCEPT ![w] = x]
      BY <3>1 DEF NextTask
    <3> QED BY <1>3, <3>2, <3>3 DEF WorkerType, CollectingPc
  <2> QED BY <2>1, <2>2
<1>9. Shift(w, v, list[v], overflow[v], b, g)
  BY <1>2, <1>3, <1>7, <1>8 DEF Shift, VBType, WorkerType, RestTypes
<1>10. Shifted(w, v, list[v], overflow[v], b, g)
  BY <1>2, <1>3, <1>9, ShiftPlaces
<1>11. /\ \A c \in Place \ {Batch(w), Got(w)} : Hold(c)' = Hold(c)
       /\ Got(w) \in Place \ {Posted} /\ Batch(w) \in Place \ {Posted}
       /\ Got(w) # Batch(w)
       /\ Hold(Got(w)) = got[w] /\ Hold(Got(w))' = g
       /\ Hold(Batch(w)) = Range(batch[w]) /\ Hold(Batch(w))' = {}
  BY <1>2, <1>3, <1>5, <1>9, ShiftPlaces DEF Around
<1>12. Located' /\ Known'
  <2>1. Range(batch[w]) \subseteq UNION {Hold(a) : a \in {Batch(w)}}
    BY <1>11
  <2>2. Moves({Batch(w)}, Got(w), Range(batch[w]))
    BY <1>4, <1>7, <1>11, <2>1 DEF Moves
  <2> QED BY <1>3, <1>7, <2>2, MoveKeeps
<1>13. PlaceInv'
  <2>1. OnceEach'
    BY <1>2, <1>3, <1>5, <1>10, ShiftOnce DEF FullInv, PlaceInv
  <2>2. RestTypes'
    BY <1>2, <1>3, <1>6, <1>7, <1>9, ShiftRest
  <2> QED BY <1>12, <2>1, <2>2 DEF PlaceInv
<1>14. \A r \in Range(list[v]) \cup Range(overflow[v]) \cup Range(batch[w]) : r.vb = v
  BY <1>1, <1>2 DEF FullInv, OrderInv, OwnVB
<1>15. OwnVB'
  <2>1. \A r \in Range(list[v]) \cup Range(overflow[v]) \cup Range(b) : r.vb = v
    BY <1>5, <1>14
  <2> QED BY <1>2, <1>4, <1>10, <2>1, ShiftOwn DEF FullInv, OrderInv
<1>16. Newer'
  <2>1. \A u \in VB \ {v} : Swept(u)' \subseteq Swept(u)
    BY <1>2, <1>4, <1>5, <1>10, <1>14, ShiftSwept
  <2>2. ASSUME NEW r \in Swept(v)' PROVE r \in Swept(v)
    <3>1. \/ r \in Range(overflow[v])
          \/ \E x \in Workers : r \in Range(batch'[x]) \cup got'[x] /\ r.vb = v
      BY <2>2, <1>10 DEF Swept, Shifted
    <3>2. CASE r \in Range(overflow[v])
      BY <3>2 DEF Swept
    <3>3. CASE \E x \in Workers : r \in Range(batch'[x]) \cup got'[x] /\ r.vb = v
      BY <1>4, <1>5, <1>10, <3>3 DEF Swept, Shifted
    <3> QED BY <3>1, <3>2, <3>3
  <2> QED BY <1>2, <1>3, <1>10, <2>1, <2>2, ShiftNewer DEF FullInv, OrderInv
<1>17. ASSUME maxOwners = 1 PROVE InTurn'
  <2>1. InTurn
    BY <1>17 DEF FullInv, OrderInv
  <2>2. \A u \in Workers \ {w} : wpc[u] \in CollectingPc => wvb[u] # v
    <3>1. RInv /\ CollectingPc \subseteq OwningPc /\ wpc[w] \in OwningPc /\ wvb[w] = v
      BY <1>1, <1>2 DEF FullInv, CollectingPc, OwningPc
    <3> QED BY <1>2, <1>17, <3>1, OneOwner
  <2>3. \A u \in Workers \ {w} : \A r \in Range(batch[u]) : r.vb # v
    <3> SUFFICES ASSUME NEW u \in Workers \ {w}, NEW r \in Range(batch[u]) PROVE r.vb # v
      OBVIOUS
    <3>1. batch[u] # <<>>
      BY DEF Range
    <3>2. wpc[u] \in CollectingPc /\ r.vb = wvb[u]
      BY <3>1 DEF FullInv, OrderInv, OwnVB
    <3> QED BY <2>2, <3>2
  <2>4. \A u \in Workers : \A r \in got[u] : r.vb = v => Before({r}, Range(overflow[v]))
    BY <2>1 DEF InTurn
  <2>5. \A r \in Range(batch[w]) : Before({r}, Range(overflow[v]))
    BY <1>14, <2>1 DEF InTurn
  <2>6. \A u \in Workers \ {w} : ~(wpc[u] \in {"sweep", "spill"} /\ wvb[u] = v)
    BY <2>2 DEF CollectingPc
  <2>7. Behind(w, v, overflow[v], b, g)
    BY <1>4, <1>5, <2>3, <2>4, <2>5, <2>6 DEF Behind, Before
  <2>8. ~(wpc'[w] \in {"sweep", "spill"})
    BY <1>8 DEF CollectingPc
  <2>9. MidCall /\ Rising(overflow[v])
    BY <1>2, <2>1 DEF FullInv, RInv, RTypes, InTurn
  <2>10. /\ \A r \in Range(b) : r.vb = v
         /\ \A r \in Range(batch[w]) : r.vb = v
         /\ g \subseteq got[w] \cup Range(batch[w])
    BY <1>4, <1>5, <1>14
  <2> QED BY <1>2, <1>3, <1>5, <1>10, <2>1, <2>7, <2>8, <2>9, <2>10, ShiftTurn
<1>18. maxOwners' = maxOwners
  BY <1>7
<1> QED BY <1>13, <1>15, <1>16, <1>17, <1>18 DEF OrderInv

\* A stack in order has no request twice.
LEMMA FallingOnce ==
    ASSUME NEW q \in Seq(Request), Falling(q) PROVE Once(q)
<1> SUFFICES ASSUME NEW j \in DOMAIN q, NEW k \in DOMAIN q, q[j].id = q[k].id PROVE j = k
  BY DEF Once
<1>1. DOMAIN q = 1..Len(q) /\ Len(q) \in Nat
  BY LenProperties
<1>2. q[j] \in Request /\ q[k] \in Request
  BY <1>1, ElementOfSeq
<1>3. q[j].id \in Int /\ q[k].id \in Int
  BY <1>2 DEF Request, Id
<1>4. ~(j < k) /\ ~(k < j)
  BY <1>3 DEF Falling
<1> QED BY <1>1, <1>4

\* A GET arrives: its id is new, and it is on top of its vbucket's stack.
LEMMA EnqueueOrder ==
    ASSUME FullInv, NEW t \in IOThreads, NEW v \in VB, NEW k \in Key, EnqueueRead(t, v, k)
    PROVE  PlaceInv' /\ OrderInv'
<1> USE DEF workerVars, taskVars, reqVars, ioVars, modeVars, vbVars, magmaVars, poolVars
<1>1. PICK n : n = issued + 1
  OBVIOUS
<1>2. PICK req : req = [id |-> n, vb |-> v, key |-> k]
  OBVIOUS
<1>3. PICK l : l = <<req>> \o list[v]
  OBVIOUS
<1>4. /\ list' = [list EXCEPT ![v] = l] /\ issued' = n /\ issued < MaxReads
      /\ UNCHANGED <<maxOwners, overflow, wpc, wvb, batch, got, accum, calls, magmaAccum, posted>>
      /\ UNCHANGED <<async, stopAfter, live, phase, resizes>>
  BY <1>1, <1>2, <1>3 DEF EnqueueRead
<1>5. /\ VBType /\ WorkerType /\ RestTypes /\ issued \in 0..MaxReads
      /\ list[v] \in Seq(Request) /\ Located /\ Known /\ OnceEach
  BY DEF FullInv, PlaceInv, RInv, RTypes, IOType, VBType
<1>6. /\ issued \in Nat /\ n \in Id /\ n > issued /\ req \in Request
      /\ req.id = n /\ req.vb = v
  <2>1. n \in Id /\ issued \in Nat /\ n > issued
    BY <1>1, <1>4, <1>5, ReadNumbers DEF Id
  <2> QED BY <1>2, <2>1 DEF Request
<1>7. \A c \in Place : ~At(c, n)
  <2>1. ~(n <= issued)
    BY <1>6 DEF Id
  <2>2. n <= issued <=> \E c \in Place : At(c, n)
    BY <1>5, <1>6 DEF Located
  <2> QED BY <2>1, <2>2
<1>8. /\ list'[v] = l /\ \A u \in VB \ {v} : list'[u] = list[u]
  BY <1>4, <1>5 DEF VBType
<1>9. \A s \in Range(list[v]) : s.id < n
  <2>1. \A s \in Range(list[v]) : s.id \in Int /\ s.id <= issued
    <3>1. Range(list[v]) \subseteq Request
      BY <1>5, RangeSeq
    <3> QED BY <3>1 DEF FullInv, OrderInv, Newer, Request, Id
  <2> QED BY <1>6, <2>1 DEF Id
<1>10. /\ l \in Seq(Request) /\ Range(l) = {req} \cup Range(list[v]) /\ Falling(l)
  <2>1. Falling(list[v])
    BY DEF FullInv, OrderInv, Newer
  <2> QED BY <1>3, <1>5, <1>6, <1>9, <2>1, PushFalling
<1>11. Once(l)
  BY <1>10, FallingOnce
<1>12. \A c \in Place : c # Stack(v) => Hold(c)' = Hold(c)
  <2>1. ASSUME NEW c \in Place, c # Stack(v) PROVE Keeps(c)
    <3>1. c # <<"list", v>>
      BY <2>1 DEF Stack
    <3> QED BY <1>4, <1>8, <3>1 DEF Keeps
  <2> QED BY <2>1, KeepsHold
<1>13. /\ Hold(Stack(v)) = Range(list[v]) /\ Hold(Stack(v))' = {req} \cup Range(list[v])
       /\ Stack(v) \in Place /\ Stack(v) # Posted
  <2>1. Hold(Stack(v)) = Range(list[v])
    BY HoldForms DEF Forms, Stack
  <2>2. Hold(Stack(v))' = Range(list'[v])
    <3>1. Forms'
      BY HoldForms, PTL
    <3> QED BY <3>1 DEF Forms, Stack
  <2>3. Stack(v) \in Place /\ Stack(v) # Posted
    BY PlacesAre DEF Stack
  <2> QED BY <1>8, <1>10, <2>1, <2>2, <2>3
<1>14. ASSUME NEW c \in Place, NEW i \in Id
       PROVE  At(c, i)' <=> At(c, i) \/ (c = Stack(v) /\ i = n)
  <2>1. CASE c = Posted
    BY <1>4, <1>13, <2>1 DEF At, Posted
  <2>2. CASE c # Posted
    <3>1. (At(c, i)' <=> Has(Hold(c)', i)) /\ (At(c, i) <=> Has(Hold(c), i))
      BY <2>2 DEF At, Has, Posted
    <3>2. CASE c = Stack(v)
      BY <1>6, <1>13, <3>1, <3>2 DEF Has
    <3>3. CASE c # Stack(v)
      BY <1>12, <3>1, <3>3
    <3> QED BY <3>2, <3>3
  <2> QED BY <2>1, <2>2
<1>15. Located'
  <2>1. \A i \in Id : \A c, d \in Place : At(c, i)' /\ At(d, i)' => c = d
    BY <1>5, <1>7, <1>14 DEF Located
  <2>2. ASSUME NEW i \in Id PROVE i <= issued' <=> \E c \in Place : At(c, i)'
    <3>1. i <= issued' <=> i <= issued \/ i = n
      BY <1>1, <1>4, <1>6 DEF Id
    <3>2. i <= issued <=> \E c \in Place : At(c, i)
      BY <1>5 DEF Located
    <3> QED BY <1>13, <1>14, <3>1, <3>2
  <2>3. \A i \in Id : posted'[i] \in {0, 1}
    BY <1>4, <1>5 DEF Located
  <2> QED BY <2>1, <2>2, <2>3 DEF Located, Place
<1>16. Known'
  <2>1. \A c \in Place : \A r \in Hold(c)' : r = req \/ \E d \in Place : r \in Hold(d)
    BY <1>12, <1>13
  <2>2. \A d \in Place : \A r \in Hold(d) : r.id # n
    <3>1. Hold(Posted) = {}
      BY HoldForms DEF Forms
    <3> QED BY <1>7, <3>1 DEF At, Has
  <2>3. \A c, d \in Place : \A r \in Hold(c)', s \in Hold(d)' : r.id = s.id => r = s
    BY <1>5, <1>6, <2>1, <2>2 DEF Known
  <2> QED BY <2>3 DEF Known, Place
<1>17. PlaceInv'
  <2>1. \A u \in VB : Once(list'[u]) /\ Once(overflow'[u])
    BY <1>4, <1>5, <1>8, <1>11 DEF OnceEach
  <2>2. \A u \in Workers : Once(batch'[u])
    BY <1>4, <1>5 DEF OnceEach
  <2>3. OnceEach'
    BY <2>1, <2>2 DEF OnceEach, Once
  <2>4. RestTypes'
    BY <1>4, <1>5 DEF RestTypes
  <2> QED BY <1>15, <1>16, <2>3, <2>4 DEF PlaceInv
<1>18. OwnVB'
  <2>1. OwnVB
    BY DEF FullInv, OrderInv
  <2>2. \A u \in VB : \A r \in Range(list'[u]) \cup Range(overflow'[u]) : r.vb = u
    BY <1>4, <1>6, <1>8, <1>10, <2>1 DEF OwnVB
  <2>3. /\ \A w \in Workers : batch'[w] # <<>> => wpc'[w] \in CollectingPc
        /\ \A w \in Workers : \A r \in Range(batch'[w]) : r.vb = wvb'[w]
    BY <1>4, <2>1 DEF OwnVB
  <2> QED BY <2>2, <2>3 DEF OwnVB
<1>19. Newer'
  <2>0. Newer
    BY DEF FullInv, OrderInv
  <2>1. \A u \in VB : Swept(u)' = Swept(u)
    BY <1>4 DEF Swept
  <2>2. ASSUME NEW u \in VB
        PROVE  /\ \A r \in Swept(u) : r.id <= issued /\ r.id \in Int
               /\ \A r \in Range(list[u]) : r.id <= issued /\ r.id \in Int
    <3>1. Range(list[u]) \subseteq Request /\ Range(overflow[u]) \subseteq Request
      BY <1>5, RangeSeq DEF VBType
    <3>2. \A w \in Workers : Range(batch[w]) \subseteq Request /\ got[w] \subseteq Request
      <4>1. \A w \in Workers : batch[w] \in Seq(Request) /\ got[w] \subseteq Request
        BY <1>5 DEF WorkerType, RestTypes
      <4> QED BY <4>1, RangeSeq
    <3>3. Swept(u) \subseteq Request
      BY <3>1, <3>2 DEF Swept
    <3> QED BY <2>0, <3>1, <3>3 DEF Newer, Request, Id
  <2>3. ASSUME NEW u \in VB
        PROVE  /\ Falling(list'[u]) /\ Before(Swept(u)', Range(list'[u]))
               /\ \A r \in Range(list'[u]) \cup Swept(u)' : r.id <= issued'
    <3>1. \A r \in Swept(u) \cup Range(list[u]) : r.id < n /\ r.id <= n
      BY <1>6, <2>2 DEF Id
    <3>2. CASE u = v
      <4>1. Before(Swept(u), {req} \cup Range(list[v]))
        BY <1>6, <2>0, <3>1, <3>2 DEF Newer, Before
      <4>2. req.id <= n
        BY <1>6 DEF Id
      <4> QED BY <1>4, <1>8, <1>10, <2>1, <3>1, <3>2, <4>1, <4>2
    <3>3. CASE u # v
      BY <1>4, <1>8, <2>0, <2>1, <3>1, <3>3 DEF Newer
    <3> QED BY <3>2, <3>3
  <2> QED BY <2>3 DEF Newer, Falling, Before
<1>20. (maxOwners = 1 => InTurn)'
  <2>1. ASSUME InTurn PROVE InTurn'
    <3>1. /\ \A u \in VB : Rising(overflow'[u])
          /\ \A w \in Workers : Rising(batch'[w])
          /\ \A w \in Workers : wpc'[w] \in {"sweep", "spill"} => overflow'[wvb'[w]] = <<>>
          /\ \A w \in Workers : \A b \in Range(batch'[w]) : Before({b}, Range(overflow'[b.vb]))
          /\ \A u \in Workers : \A g \in got'[u] :
               /\ Before({g}, Range(overflow'[g.vb]))
               /\ \A w \in Workers : \A b \in Range(batch'[w]) : b.vb = g.vb => g.id < b.id
      BY <1>4, <2>1 DEF InTurn
    <3> QED BY <3>1 DEF InTurn, Rising, Before
  <2> QED BY <1>4, <2>1 DEF FullInv, OrderInv
<1> QED BY <1>17, <1>18, <1>19, <1>20 DEF OrderInv

-----------------------------------------------------------------------------
(* The invariant *)

\* Before the first request every place is empty.
LEMMA InitFullInv == Init => FullInv
<1> SUFFICES ASSUME Init PROVE FullInv
  OBVIOUS
<1>1. RInv
  BY InitRInv
<1>2. RestTypes
  <2>1. Cardinality(InitWorkers) \in Nat
    <3>1. IsFiniteSet(InitWorkers)
      BY ReadSets, FS_Subset
    <3> QED BY <3>1, FS_CardinalityType
  <2> QED BY <2>1, ReadNumbers DEF Init, RestTypes
<1>3. Range(<<>>) = {} /\ Once(<<>>) /\ Rising(<<>>) /\ Falling(<<>>)
  BY DEF Range, Once, Rising, Falling
<1>4. /\ \A v \in VB : Range(list[v]) = {} /\ Range(overflow[v]) = {}
      /\ \A w \in Workers : Range(batch[w]) = {} /\ got[w] = {} /\ accum[w] = {}
      /\ calls = {} /\ magmaAccum = {} /\ issued = 0
      /\ \A i \in Id : posted[i] = 0
  BY <1>3 DEF Init
<1>5. ASSUME NEW c \in Place PROVE Hold(c) = {}
  <2>1. CASE \E v \in VB : c = <<"list", v>> \/ c = <<"overflow", v>>
    BY <1>4, <2>1, HoldForms DEF Forms
  <2>2. CASE \E w \in Workers : c = <<"batch", w>> \/ c = <<"got", w>> \/ c = <<"accum", w>>
    <3>1. PICK w \in Workers : c = <<"batch", w>> \/ c = <<"got", w>> \/ c = <<"accum", w>>
      BY <2>2
    <3>2. /\ Hold(<<"batch", w>>) = {} /\ Hold(<<"got", w>>) = {} /\ Hold(<<"accum", w>>) = {}
      BY <1>4, HoldForms DEF Forms
    <3> QED BY <3>1, <3>2
  <2>3. CASE \E g \in SUBSET Request : c = <<"call", g>>
    BY <1>4, <2>3, HoldForms DEF Forms
  <2>4. CASE c = <<"magma", 0>> \/ c = Posted
    BY <1>4, <2>4, HoldForms DEF Forms
  <2> QED BY <2>1, <2>2, <2>3, <2>4, PlaceForms
<1>6. Located
  <2>1. \A i \in Id : \A c \in Place : ~At(c, i)
    BY <1>4, <1>5 DEF At, Has
  <2>2. \A i \in Id : ~(i <= issued)
    BY <1>4 DEF Id
  <2> QED BY <1>4, <2>1, <2>2 DEF Located
<1>7. Known
  BY <1>5 DEF Known
<1>8. OnceEach
  BY <1>3 DEF Init, OnceEach
<1>9. OwnVB
  BY <1>4 DEF Init, OwnVB
<1>10. \A v \in VB : Swept(v) = {}
  BY <1>4 DEF Swept
<1>11. Newer
  BY <1>3, <1>4, <1>10 DEF Init, Newer, Before
<1>12. InTurn
  <2>1. \A v \in VB : Rising(overflow[v])
    BY <1>3 DEF Init
  <2>2. \A w \in Workers : Rising(batch[w])
    BY <1>3 DEF Init
  <2>3. \A w \in Workers : wpc[w] \notin {"sweep", "spill"}
    BY DEF Init
  <2> QED BY <1>4, <2>1, <2>2, <2>3 DEF InTurn
<1> QED BY <1>1, <1>2, <1>6, <1>7, <1>8, <1>9, <1>11, <1>12 DEF FullInv, PlaceInv, OrderInv

\* A step that answers: the types, and from the places the whole of PlaceInv.
LEMMA ServingKeeps ==
    ASSUME FullInv, Serves, ModeTypes, Located', Known',
           got' \in [Workers -> SUBSET Request], accum' \in [Workers -> SUBSET Request],
           calls' \subseteq SUBSET Request, magmaAccum' \subseteq Request,
           posted' \in [Id -> Nat]
    PROVE  PlaceInv' /\ OrderInv'
<1>1. OnceEach' /\ OrderInv'
  BY ServesOrder DEF FullInv, PlaceInv
<1>2. RestTypes'
  BY DEF ModeTypes, RestTypes
<1> QED BY <1>1, <1>2 DEF PlaceInv

\* Every step keeps it.
LEMMA NextFullInv == FullInv /\ [Next]_vars => FullInv'
<1> USE DEF workerVars, taskVars, reqVars, ioVars, modeVars, vbVars, magmaVars, poolVars
<1> SUFFICES ASSUME FullInv, [Next]_vars PROVE FullInv'
  OBVIOUS
<1>1. RInv'
  BY NextRInv DEF FullInv, PlaceInv, RestTypes
<1>2. RTypes /\ RestTypes /\ Located /\ Known /\ HoldsRequests /\ VBType /\ WorkerType
  BY HoldTypes DEF FullInv, RInv, RTypes, PlaceInv
<1>3. ASSUME Serves, Frozen, ModeTypes PROVE PlaceInv' /\ OrderInv'
  <2>1. Located' /\ Known'
    BY <1>2, <1>3, FrozenKeeps
  <2>2. /\ got' \in [Workers -> SUBSET Request] /\ accum' \in [Workers -> SUBSET Request]
        /\ calls' \subseteq SUBSET Request /\ magmaAccum' \subseteq Request
        /\ posted' \in [Id -> Nat]
    BY <1>2, <1>3 DEF Frozen, RestTypes
  <2> QED BY <1>3, <2>1, <2>2, ServingKeeps
<1>4. CASE UNCHANGED vars \/ Reap \/ BeginShutdown \/ ShutdownStep \/ Closed
           \/ (\E n \in 1..Cardinality(Workers) : Shrink(n))
           \/ (\E t \in IOThreads : IOStep(t))
  BY <1>1, <1>2, <1>3, <1>4, ParkedSteps DEF FullInv
<1>5. CASE MagmaStep
  <2>1. Serves /\ ModeTypes
    BY <1>2, <1>5, ServingSteps
  <2>2. Located' /\ Known'
    BY <1>2, <1>5, MagmaPlaces
  <2>3. /\ got' = got /\ accum' = accum /\ (\E X : Post(X))
        /\ calls' \subseteq calls
        /\ magmaAccum' \subseteq magmaAccum \cup UNION calls
    BY <1>5 DEF MagmaStep, AsyncOnDoc, OnJobDone
  <2>4. calls' \subseteq SUBSET Request /\ magmaAccum' \subseteq Request
    BY <1>2, <2>3 DEF RestTypes
  <2>5. posted' \in [Id -> Nat]
    BY <1>2, <2>3, PostTypes
  <2>6. got' \in [Workers -> SUBSET Request] /\ accum' \in [Workers -> SUBSET Request]
    BY <1>2, <2>3 DEF RestTypes
  <2> QED BY <1>1, <2>1, <2>2, <2>4, <2>5, <2>6, ServingKeeps DEF FullInv
<1>6. ASSUME NEW t \in IOThreads, NEW v \in VB, NEW k \in Key, EnqueueRead(t, v, k)
      PROVE  FullInv'
  BY <1>1, <1>6, EnqueueOrder DEF FullInv
<1>7. ASSUME NEW w \in Workers, WorkerStep(w) \/ Grow(w) PROVE FullInv'
  <2>1. CASE LoopTest(w) \/ TakeTask(w) \/ GatherTask(w) \/ GatherSentinel(w) \/ GatherEnd(w)
             \/ Release(w) \/ PeekOverflow(w) \/ Recheck(w) \/ RecheckDepth(w) \/ Rearm(w)
             \/ Resubmit(w) \/ Grow(w)
    BY <1>1, <1>2, <1>3, <2>1, ParkedSteps DEF FullInv
  <2>2. CASE DrainOverflow(w)
    BY <1>1, <2>2, DrainOrder DEF FullInv
  <2>3. CASE Sweep(w)
    BY <1>1, <2>3, SweepOrder DEF FullInv
  <2>4. CASE Spill(w)
    BY <1>1, <2>4, SpillOrder DEF FullInv
  <2>5. CASE CountBatch(w)
    BY <1>1, <2>5, CountOrder DEF FullInv
  <2>6. CASE FlushAll(w) \/ CallFailed(w)
    <3>1. Serves /\ ModeTypes
      BY <1>2, <2>6, ServingSteps
    <3>2. Located' /\ Known'
      BY <1>2, <2>6, FlushPlaces
    <3>3. /\ got' = got \/ got' = [got EXCEPT ![w] = {}]
          /\ accum' = accum \/ accum' = [accum EXCEPT ![w] = {}]
          /\ calls' = calls /\ magmaAccum' = magmaAccum /\ (\E X : Post(X))
      BY <2>6 DEF FlushAll, CallFailed
    <3>4. posted' \in [Id -> Nat]
      BY <1>2, <3>3, PostTypes
    <3>5. /\ got' \in [Workers -> SUBSET Request] /\ accum' \in [Workers -> SUBSET Request]
          /\ calls' \subseteq SUBSET Request /\ magmaAccum' \subseteq Request
      BY <1>2, <3>3 DEF RestTypes
    <3> QED BY <1>1, <3>1, <3>2, <3>4, <3>5, ServingKeeps DEF FullInv
  <2>7. CASE CallAccepted(w)
    <3>1. Serves /\ ModeTypes
      BY <1>2, <2>7, ServingSteps
    <3>2. Located' /\ Known' /\ calls' \subseteq SUBSET Request
      BY <1>2, <2>7, CallAcceptedPlaces
    <3>3. /\ got' = [got EXCEPT ![w] = {}] /\ accum' = accum
          /\ magmaAccum' = magmaAccum /\ posted' = posted
      BY <2>7 DEF CallAccepted
    <3>4. /\ got' \in [Workers -> SUBSET Request] /\ accum' \in [Workers -> SUBSET Request]
          /\ magmaAccum' \subseteq Request /\ posted' \in [Id -> Nat]
      BY <1>2, <3>3 DEF RestTypes
    <3> QED BY <1>1, <3>1, <3>2, <3>4, ServingKeeps DEF FullInv
  <2>8. ASSUME NEW v \in VB, NEW k \in Key, OnDoc(w, v, k) PROVE FullInv'
    <3>1. Serves /\ ModeTypes
      BY <1>2, <2>8, ServingSteps
    <3>2. Located' /\ Known'
      BY <1>2, <2>8, OnDocPlaces
    <3>3. PICK kept \in {{}, accum[w] \cup Sharing(got[w], v, k)} :
            accum' = [accum EXCEPT ![w] = kept] /\ \E X : Post(X)
      BY <2>8 DEF OnDoc
    <3>4. kept \subseteq Request
      BY <1>2, <3>3 DEF RestTypes, Sharing
    <3>5. /\ got' = [got EXCEPT ![w] = {r \in got[w] : r.vb # v \/ r.key # k}]
          /\ calls' = calls /\ magmaAccum' = magmaAccum
      BY <2>8 DEF OnDoc
    <3>6. posted' \in [Id -> Nat]
      BY <1>2, <3>3, PostTypes
    <3>7. accum' \in [Workers -> SUBSET Request]
      BY <1>2, <3>3, <3>4 DEF RestTypes
    <3>8. got' \in [Workers -> SUBSET Request]
      BY <1>2, <3>5 DEF RestTypes
    <3>9. calls' \subseteq SUBSET Request /\ magmaAccum' \subseteq Request
      BY <1>2, <3>5 DEF RestTypes
    <3> QED BY <1>1, <3>1, <3>2, <3>6, <3>7, <3>8, <3>9, ServingKeeps DEF FullInv
  <2> QED BY <1>7, <2>1, <2>2, <2>3, <2>4, <2>5, <2>6, <2>7, <2>8 DEF WorkerStep
<1> QED BY <1>4, <1>5, <1>6, <1>7 DEF Next

\* It holds in every reachable state.
THEOREM PlacesInvariant == Spec => []FullInv
BY InitFullInv, NextFullInv, PTL DEF Spec

\* What earlier batches left over is older than anything on the stack, and with
\* gMaxReadOwners = 1 the GETs of a vbucket are collected in the order in which
\* they arrived (collectRead's drain, sweep, reverse and spill).
THEOREM OldestAreFirst == Spec => []OldestFirst
<1>1. FullInv => OldestFirst
  <2> SUFFICES ASSUME FullInv, NEW v \in VB
               PROVE  /\ \A o \in Range(overflow[v]), r \in Range(list[v]) : o.id < r.id
                      /\ maxOwners = 1 =>
                           \A w \in Workers : \A b \in got[w] : b.vb = v =>
                             \A r \in Range(overflow[v]) \cup Range(list[v]) : b.id < r.id
    BY DEF OldestFirst
  <2>1. Before(Swept(v), Range(list[v])) /\ Range(overflow[v]) \subseteq Swept(v)
    BY DEF FullInv, OrderInv, Newer, Swept
  <2>2. \A w \in Workers : \A b \in got[w] : b.vb = v => b \in Swept(v)
    BY DEF Swept
  <2>3. ASSUME maxOwners = 1, NEW w \in Workers, NEW b \in got[w], b.vb = v
        PROVE  \A r \in Range(overflow[v]) : b.id < r.id
    BY <2>3 DEF FullInv, OrderInv, InTurn, Before
  <2> QED BY <2>1, <2>2, <2>3 DEF Before
<1> QED BY <1>1, PlacesInvariant, PTL

-----------------------------------------------------------------------------
(* One place *)

\* In a family of lists without repetition a request is found once or not at all.
LEMMA CountLists ==
    ASSUME NEW D, NEW f \in [D -> Seq(Request)], NEW i, \A x \in D : Once(f[x]),
           \A x, y \in D : Has(Range(f[x]), i) /\ Has(Range(f[y]), i) => x = y
    PROVE  Cardinality(InLists(f, i)) = IF \E x \in D : Has(Range(f[x]), i) THEN 1 ELSE 0
<1>1. CASE \E x \in D : Has(Range(f[x]), i)
  <2>1. PICK x \in D : Has(Range(f[x]), i)
    BY <1>1
  <2>2. PICK j \in DOMAIN f[x] : f[x][j].id = i
    BY <2>1 DEF Has, Range
  <2>3. ASSUME NEW y \in D, NEW k \in DOMAIN f[y], f[y][k].id = i PROVE y = x /\ k = j
    <3>1. Has(Range(f[y]), i)
      BY <2>3 DEF Has, Range
    <3>2. y = x
      BY <2>1, <3>1
    <3> QED BY <2>2, <2>3, <3>2 DEF Once
  <2>4. InLists(f, i) = {<<x, j>>}
    <3>1. ASSUME NEW e \in InLists(f, i) PROVE e = <<x, j>>
      <4>1. PICK y \in D : e \in {y} \X {k \in DOMAIN f[y] : f[y][k].id = i}
        BY <3>1 DEF InLists
      <4>2. PICK k \in DOMAIN f[y] : f[y][k].id = i /\ e = <<y, k>>
        BY <4>1
      <4> QED BY <2>3, <4>2
    <3>2. <<x, j>> \in InLists(f, i)
      <4>1. <<x, j>> \in {x} \X {k \in DOMAIN f[x] : f[x][k].id = i}
        BY <2>2
      <4> QED BY <4>1 DEF InLists
    <3> QED BY <3>1, <3>2
  <2>5. Cardinality(InLists(f, i)) = 1
    BY <2>4, FS_Singleton
  <2> QED BY <1>1, <2>5
<1>2. CASE ~\E x \in D : Has(Range(f[x]), i)
  <2>1. \A x \in D : {k \in DOMAIN f[x] : f[x][k].id = i} = {}
    BY <1>2 DEF Has, Range
  <2>2. InLists(f, i) = {}
    BY <2>1 DEF InLists
  <2>3. Cardinality(InLists(f, i)) = 0
    BY <2>2, FS_EmptySet
  <2> QED BY <1>2, <2>3
<1> QED BY <1>1, <1>2

\* A set with at most one member counts it.
LEMMA CountOne ==
    ASSUME NEW S, \A x, y \in S : x = y
    PROVE  Cardinality(S) = IF S = {} THEN 0 ELSE 1
<1>1. CASE S = {}
  BY <1>1, FS_EmptySet
<1>2. CASE S # {}
  <2>1. PICK x : x \in S
    BY <1>2
  <2>2. S = {x}
    BY <2>1
  <2> QED BY <1>2, <2>2, FS_Singleton
<1> QED BY <1>1, <1>2

Bit(P) == IF P THEN 1 ELSE 0

\* Request i at each of the kinds of places.
Kinds(i, n) ==
    /\ n[1] = Bit(\E v \in VB : At(Stack(v), i))
    /\ n[2] = Bit(\E v \in VB : At(Excess(v), i))
    /\ n[3] = Bit(\E w \in Workers : At(Batch(w), i))
    /\ n[4] = Bit(\E w \in Workers : At(Got(w), i))
    /\ n[5] = Bit(\E w \in Workers : At(<<"accum", w>>, i))
    /\ n[6] = Bit(\E g \in SUBSET Request : At(<<"call", g>>, i))
    /\ n[7] = Bit(At(<<"magma", 0>>, i))
    /\ n[8] = Bit(At(Posted, i))

\* The tag of a place says of which kind it is.
LEMMA PlaceTags ==
    ASSUME NEW b \in Place
    PROVE  /\ b[1] \in {"list", "overflow", "batch", "got", "accum", "call", "magma", "posted"}
           /\ b[1] = "list" => \E v \in VB : b = Stack(v)
           /\ b[1] = "overflow" => \E v \in VB : b = Excess(v)
           /\ b[1] = "batch" => \E w \in Workers : b = Batch(w)
           /\ b[1] = "got" => \E w \in Workers : b = Got(w)
           /\ b[1] = "accum" => \E w \in Workers : b = <<"accum", w>>
           /\ b[1] = "call" => \E g \in SUBSET Request : b = <<"call", g>>
           /\ b[1] = "magma" => b = <<"magma", 0>>
           /\ b[1] = "posted" => b = Posted
<1>1. CASE \E v \in VB : b = <<"list", v>> \/ b = <<"overflow", v>>
  BY <1>1 DEF Stack, Excess
<1>2. CASE \E w \in Workers : b = <<"batch", w>> \/ b = <<"got", w>> \/ b = <<"accum", w>>
  BY <1>2 DEF Batch, Got
<1>3. CASE \E g \in SUBSET Request : b = <<"call", g>>
  BY <1>3
<1>4. CASE b = <<"magma", 0>> \/ b = Posted
  BY <1>4 DEF Posted
<1> QED BY <1>1, <1>2, <1>3, <1>4, PlaceForms

\* At one place means at one kind of place.
LEMMA OneKind ==
    ASSUME Located, NEW i \in Id, i <= issued, NEW n, Kinds(i, n)
    PROVE  n[1] + n[2] + n[3] + n[4] + n[5] + n[6] + n[7] + n[8] = 1
<1>1. PICK b \in Place : At(b, i)
  BY DEF Located
<1>2. \A c \in Place : At(c, i) => c = b
  BY <1>1 DEF Located
<1>3. /\ b[1] \in {"list", "overflow", "batch", "got", "accum", "call", "magma", "posted"}
      /\ b[1] = "list" => \E v \in VB : b = Stack(v)
      /\ b[1] = "overflow" => \E v \in VB : b = Excess(v)
      /\ b[1] = "batch" => \E w \in Workers : b = Batch(w)
      /\ b[1] = "got" => \E w \in Workers : b = Got(w)
      /\ b[1] = "accum" => \E w \in Workers : b = <<"accum", w>>
      /\ b[1] = "call" => \E g \in SUBSET Request : b = <<"call", g>>
      /\ b[1] = "magma" => b = <<"magma", 0>>
      /\ b[1] = "posted" => b = Posted
  BY PlaceTags
<1>4. (\E v \in VB : At(Stack(v), i)) <=> b[1] = "list"
  <2>1. ASSUME NEW v \in VB, At(Stack(v), i) PROVE b[1] = "list"
    <3>1. Stack(v) \in Place
      BY PlacesAre DEF Stack
    <3>2. b = Stack(v)
      BY <1>2, <2>1, <3>1
    <3> QED BY <3>2 DEF Stack
  <2> QED BY <1>1, <1>3, <2>1
<1>5. (\E v \in VB : At(Excess(v), i)) <=> b[1] = "overflow"
  <2>1. ASSUME NEW v \in VB, At(Excess(v), i) PROVE b[1] = "overflow"
    <3>1. Excess(v) \in Place
      BY PlacesAre DEF Excess
    <3>2. b = Excess(v)
      BY <1>2, <2>1, <3>1
    <3> QED BY <3>2 DEF Excess
  <2> QED BY <1>1, <1>3, <2>1
<1>6. (\E w \in Workers : At(Batch(w), i)) <=> b[1] = "batch"
  <2>1. ASSUME NEW w \in Workers, At(Batch(w), i) PROVE b[1] = "batch"
    <3>1. Batch(w) \in Place
      BY PlacesAre DEF Batch
    <3>2. b = Batch(w)
      BY <1>2, <2>1, <3>1
    <3> QED BY <3>2 DEF Batch
  <2> QED BY <1>1, <1>3, <2>1
<1>7. (\E w \in Workers : At(Got(w), i)) <=> b[1] = "got"
  <2>1. ASSUME NEW w \in Workers, At(Got(w), i) PROVE b[1] = "got"
    <3>1. Got(w) \in Place
      BY PlacesAre DEF Got
    <3>2. b = Got(w)
      BY <1>2, <2>1, <3>1
    <3> QED BY <3>2 DEF Got
  <2> QED BY <1>1, <1>3, <2>1
<1>8. (\E w \in Workers : At(<<"accum", w>>, i)) <=> b[1] = "accum"
  <2>1. ASSUME NEW w \in Workers, At(<<"accum", w>>, i) PROVE b[1] = "accum"
    <3>1. <<"accum", w>> \in Place
      BY PlacesAre
    <3>2. b = <<"accum", w>>
      BY <1>2, <2>1, <3>1
    <3> QED BY <3>2
  <2> QED BY <1>1, <1>3, <2>1
<1>9. (\E g \in SUBSET Request : At(<<"call", g>>, i)) <=> b[1] = "call"
  <2>1. ASSUME NEW g \in SUBSET Request, At(<<"call", g>>, i) PROVE b[1] = "call"
    <3>1. <<"call", g>> \in Place
      BY PlacesAre
    <3>2. b = <<"call", g>>
      BY <1>2, <2>1, <3>1
    <3> QED BY <3>2
  <2> QED BY <1>1, <1>3, <2>1
<1>10. At(<<"magma", 0>>, i) <=> b[1] = "magma"
  <2>1. <<"magma", 0>> \in Place
    BY PlacesAre
  <2>2. ASSUME At(<<"magma", 0>>, i) PROVE b[1] = "magma"
    <3>1. b = <<"magma", 0>>
      BY <1>2, <2>1, <2>2
    <3> QED BY <3>1
  <2> QED BY <1>1, <1>3, <2>2
<1>11. At(Posted, i) <=> b[1] = "posted"
  <2>1. Posted \in Place
    BY PlacesAre
  <2>2. ASSUME At(Posted, i) PROVE b[1] = "posted"
    <3>1. b = Posted
      BY <1>2, <2>1, <2>2
    <3> QED BY <3>1 DEF Posted
  <2> QED BY <1>1, <1>3, <2>2
<1>12. PICK t : t = b[1]
  OBVIOUS
<1>13. /\ n[1] = Bit(t = "list") /\ n[2] = Bit(t = "overflow") /\ n[3] = Bit(t = "batch")
       /\ n[4] = Bit(t = "got") /\ n[5] = Bit(t = "accum") /\ n[6] = Bit(t = "call")
       /\ n[7] = Bit(t = "magma") /\ n[8] = Bit(t = "posted")
  BY <1>4, <1>5, <1>6, <1>7, <1>8, <1>9, <1>10, <1>11, <1>12 DEF Kinds, Bit
<1> QED BY <1>3, <1>12, <1>13 DEF Bit

\* What OnePlace counts.
LEMMA PlacesCount ==
    ASSUME FullInv, NEW i \in Id, i <= issued
    PROVE  Places(i) = 1
<1>1. /\ VBType /\ WorkerType /\ RestTypes /\ Located /\ OnceEach /\ Known
  BY DEF FullInv, RInv, RTypes, PlaceInv
<1>2. /\ \A v \in VB : Stack(v) \in Place /\ Excess(v) \in Place
      /\ \A w \in Workers : Batch(w) \in Place /\ Got(w) \in Place /\ <<"accum", w>> \in Place
      /\ \A g \in SUBSET Request : <<"call", g>> \in Place
      /\ <<"magma", 0>> \in Place /\ Posted \in Place
  BY PlacesAre DEF Stack, Excess, Batch, Got
<1>3. /\ \A v \in VB : /\ At(Stack(v), i) <=> Has(Range(list[v]), i)
                       /\ At(Excess(v), i) <=> Has(Range(overflow[v]), i)
      /\ \A w \in Workers : /\ At(Batch(w), i) <=> Has(Range(batch[w]), i)
                            /\ At(Got(w), i) <=> Has(got[w], i)
                            /\ At(<<"accum", w>>, i) <=> Has(accum[w], i)
      /\ At(<<"magma", 0>>, i) <=> Has(magmaAccum, i)
      /\ At(Posted, i) <=> posted[i] = 1
  BY HoldForms, PlacesAre DEF At, Forms, Stack, Excess, Batch, Got
<1>4. ASSUME NEW g \in SUBSET Request
      PROVE  At(<<"call", g>>, i) <=> g \in calls /\ Has(g, i)
  BY HoldForms, PlacesAre DEF At, Forms, Has
<1>5. /\ \A v, u \in VB : Stack(v) = Stack(u) \/ Excess(v) = Excess(u) => v = u
      /\ \A w, u \in Workers : Batch(w) = Batch(u) \/ Got(w) = Got(u) => w = u
      /\ \A w, u \in Workers : <<"accum", w>> = <<"accum", u>> => w = u
      /\ \A g, h \in SUBSET Request : <<"call", g>> = <<"call", h>> => g = h
  BY DEF Stack, Excess, Batch, Got
<1>0. \A c, d \in Place : At(c, i) /\ At(d, i) => c = d
  BY <1>1 DEF Located
<1>6. Cardinality(InLists(list, i)) = Bit(\E v \in VB : At(Stack(v), i))
  <2>1. \A v, u \in VB : Has(Range(list[v]), i) /\ Has(Range(list[u]), i) => v = u
    BY <1>1, <1>2, <1>3, <1>5 DEF Located
  <2>2. Cardinality(InLists(list, i)) = IF \E v \in VB : Has(Range(list[v]), i) THEN 1 ELSE 0
    BY <1>1, <2>1, CountLists DEF VBType, OnceEach
  <2> QED BY <1>3, <2>2 DEF Bit
<1>7. Cardinality(InLists(overflow, i)) = Bit(\E v \in VB : At(Excess(v), i))
  <2>1. \A v, u \in VB : Has(Range(overflow[v]), i) /\ Has(Range(overflow[u]), i) => v = u
    BY <1>1, <1>2, <1>3, <1>5 DEF Located
  <2>2. Cardinality(InLists(overflow, i))
          = IF \E v \in VB : Has(Range(overflow[v]), i) THEN 1 ELSE 0
    BY <1>1, <2>1, CountLists DEF VBType, OnceEach
  <2> QED BY <1>3, <2>2 DEF Bit
<1>8. Cardinality(InLists(batch, i)) = Bit(\E w \in Workers : At(Batch(w), i))
  <2>1. ASSUME NEW w \in Workers, NEW u \in Workers,
               Has(Range(batch[w]), i) /\ Has(Range(batch[u]), i)
        PROVE  w = u
    <3>1. At(Batch(w), i) /\ At(Batch(u), i)
      BY <1>3, <2>1
    <3>2. Batch(w) = Batch(u)
      BY <1>0, <1>2, <3>1
    <3> QED BY <1>5, <3>2
  <2>2. Cardinality(InLists(batch, i))
          = IF \E w \in Workers : Has(Range(batch[w]), i) THEN 1 ELSE 0
    BY <1>1, <2>1, CountLists DEF WorkerType, OnceEach
  <2> QED BY <1>3, <2>2 DEF Bit
<1>9. Cardinality(InSets(got, i)) = Bit(\E w \in Workers : At(Got(w), i))
  <2>1. InSets(got, i) = {w \in Workers : Has(got[w], i)}
    BY <1>1 DEF InSets, Has, RestTypes
  <2>2. ASSUME NEW w \in InSets(got, i), NEW u \in InSets(got, i) PROVE w = u
    <3>1. w \in Workers /\ u \in Workers /\ At(Got(w), i) /\ At(Got(u), i)
      BY <1>3, <2>1
    <3>2. Got(w) = Got(u)
      BY <1>0, <1>2, <3>1
    <3> QED BY <1>5, <3>1, <3>2
  <2>3. Cardinality(InSets(got, i)) = IF InSets(got, i) = {} THEN 0 ELSE 1
    BY <2>2, CountOne
  <2> QED BY <1>3, <2>1, <2>3 DEF Bit
<1>10. Cardinality(InSets(accum, i)) = Bit(\E w \in Workers : At(<<"accum", w>>, i))
  <2>1. InSets(accum, i) = {w \in Workers : Has(accum[w], i)}
    BY <1>1 DEF InSets, Has, RestTypes
  <2>2. ASSUME NEW w \in InSets(accum, i), NEW u \in InSets(accum, i) PROVE w = u
    <3>1. w \in Workers /\ u \in Workers /\ At(<<"accum", w>>, i) /\ At(<<"accum", u>>, i)
      BY <1>3, <2>1
    <3>2. <<"accum", w>> = <<"accum", u>>
      BY <1>0, <1>2, <3>1
    <3> QED BY <1>5, <3>1, <3>2
  <2>3. Cardinality(InSets(accum, i)) = IF InSets(accum, i) = {} THEN 0 ELSE 1
    BY <2>2, CountOne
  <2> QED BY <1>3, <2>1, <2>3 DEF Bit
<1>11. PICK C : C = {g \in calls : \E r \in g : r.id = i}
  OBVIOUS
<1>12. Cardinality(C) = Bit(\E g \in SUBSET Request : At(<<"call", g>>, i))
  <2>1. \A g : g \in C <=> g \in SUBSET Request /\ At(<<"call", g>>, i)
    BY <1>1, <1>4, <1>11 DEF Has, RestTypes
  <2>2. ASSUME NEW g \in C, NEW h \in C PROVE g = h
    <3>1. g \in SUBSET Request /\ h \in SUBSET Request /\ At(<<"call", g>>, i) /\ At(<<"call", h>>, i)
      BY <2>1
    <3>2. <<"call", g>> = <<"call", h>>
      BY <1>0, <1>2, <3>1
    <3> QED BY <3>2
  <2>3. Cardinality(C) = IF C = {} THEN 0 ELSE 1
    BY <2>2, CountOne
  <2> QED BY <2>1, <2>3 DEF Bit
<1>13. PICK M : M = {r \in magmaAccum : r.id = i}
  OBVIOUS
<1>14. Cardinality(M) = Bit(At(<<"magma", 0>>, i))
  <2>1. \A r, s \in M : r = s
    <3>1. Hold(<<"magma", 0>>) = magmaAccum
      BY HoldForms DEF Forms
    <3> QED BY <1>1, <1>2, <1>13, <3>1 DEF Known
  <2>2. Cardinality(M) = IF M = {} THEN 0 ELSE 1
    BY <2>1, CountOne
  <2>3. M # {} <=> Has(magmaAccum, i)
    BY <1>13 DEF Has
  <2> QED BY <1>3, <2>2, <2>3 DEF Bit
<1>15. posted[i] = Bit(At(Posted, i))
  BY <1>1, <1>3 DEF Bit, Located
<1>16. PICK n : n = <<Cardinality(InLists(list, i)), Cardinality(InLists(overflow, i)),
                      Cardinality(InLists(batch, i)), Cardinality(InSets(got, i)),
                      Cardinality(InSets(accum, i)), Cardinality(C), Cardinality(M), posted[i]>>
  OBVIOUS
<1>17. Kinds(i, n)
  BY <1>6, <1>7, <1>8, <1>9, <1>10, <1>12, <1>14, <1>15, <1>16 DEF Kinds
<1>18. n[1] + n[2] + n[3] + n[4] + n[5] + n[6] + n[7] + n[8] = 1
  BY <1>1, <1>17, OneKind
<1>19. Places(i) = n[1] + n[2] + n[3] + n[4] + n[5] + n[6] + n[7] + n[8]
  BY <1>11, <1>13, <1>16 DEF Places
<1> QED BY <1>18, <1>19

\* Every GET is in exactly one place from its push to its answer and is answered
\* once: two owners never collect the same request, and none is lost between the
\* stack, the overflow, the readers, magma and the event loop.
THEOREM EachReadInOnePlace == Spec => []OnePlace
<1>1. FullInv => OnePlace
  <2> SUFFICES ASSUME FullInv PROVE OnePlace
    OBVIOUS
  <2>1. readOwners \in [VB -> Nat]
    <3>1. \A v \in VB : readOwners[v] >= 0
      BY OwnerCounts DEF FullInv, RInv
    <3>2. readOwners \in [VB -> Int]
      BY DEF FullInv, RInv, RTypes, VBType
    <3> QED BY <3>1, <3>2
  <2>2. taskQueue \in Seq(VB \cup {Sentinel})
    BY DEF FullInv, RInv, RTypes, QueueType, Task
  <2>3. TypeOK
    BY <2>1, <2>2 DEF TypeOK, FullInv, RInv, RTypes, IOType, VBType, WorkerType, PlaceInv, RestTypes
  <2>4. ASSUME NEW i \in 1..issued PROVE Places(i) = 1
    <3>1. i \in Id /\ i <= issued
      BY ReadNumbers DEF FullInv, RInv, RTypes, IOType, Id
    <3> QED BY <3>1, PlacesCount
  <2> QED BY <2>3, <2>4 DEF OnePlace
<1> QED BY <1>1, PlacesInvariant, PTL
=============================================================================
