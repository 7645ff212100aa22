--------------------------- MODULE WriteQueueProofs ---------------------------
(***************************************************************************)
(* Theorems about WriteQueue, for every set of threads, vbuckets and keys, *)
(* every limit and every queue capacity.                                   *)
(***************************************************************************)
EXTENDS WriteQueue, TLAPS, FiniteSetTheorems, FunctionTheorems, SequenceTheorems

-----------------------------------------------------------------------------
(* The data a batch is made of *)

\* Sentinels(n), the retire and stop tasks of the pool, is a sequence of tasks.
LEMMA SentinelsType ==
    ASSUME NEW n \in Nat
    PROVE  Sentinels(n) \in Seq({Sentinel}) /\ Len(Sentinels(n)) = n
<1>1. Sentinels(n) \in [1..n -> {Sentinel}]
  BY DEF Sentinels
<1> QED BY <1>1, IsASeq, LenProperties

\* Reversing a swept chain gives a batch of the same requests.
LEMMA ReverseType ==
    ASSUME NEW S, NEW s \in Seq(S)
    PROVE  Reverse(s) \in Seq(S) /\ Len(Reverse(s)) = Len(s)
<1>1. Len(s) \in Nat /\ \A i \in 1..Len(s) : s[i] \in S
  BY ElementOfSeq, LenProperties
<1>2. \A i \in 1..Len(s) : (Len(s) - i) + 1 \in 1..Len(s)
  BY <1>1
<1>3. Reverse(s) \in [1..Len(s) -> S]
  BY <1>1, <1>2 DEF Reverse
<1> QED BY <1>1, <1>3, IsASeq, LenProperties

\* The keys of a batch are finitely many, so ranks among them are numbers.
LEMMA KeysOfFinite ==
    ASSUME NEW b \in Seq(Request), NEW P
    PROVE  /\ KeysOf(b) \subseteq Key
           /\ P \subseteq KeysOf(b) => Cardinality(P) \in Nat
<1>1. ASSUME NEW k \in KeysOf(b) PROVE k \in Key
  <2>1. PICK i \in 1..Len(b) : k = b[i].key
    BY LenProperties DEF KeysOf
  <2>2. b[i] \in Request
    BY ElementOfSeq
  <2> QED BY <2>1, <2>2 DEF Request
<1>2. IsFiniteSet(Key)
  BY Sets
<1>3. ASSUME P \subseteq KeysOf(b) PROVE Cardinality(P) \in Nat
  <2>1. P \subseteq Key
    BY <1>1, <1>3
  <2> QED BY <1>2, <2>1, FS_Subset, FS_CardinalityType
<1> QED BY <1>1, <1>3

\* A key written in a batch has a newest write there: the position that dedupe
\* keeps, the last of the key's run after the stable sort, is well defined.
LEMMA NewestExists ==
    ASSUME NEW b \in Seq(Request), NEW k \in KeysOf(b)
    PROVE  /\ Newest(b, k) \in DOMAIN b
           /\ b[Newest(b, k)].key = k
           /\ \A j \in DOMAIN b : b[j].key = k => j <= Newest(b, k)
<1> DEFINE D == {d \in Nat : \E i \in DOMAIN b : b[i].key = k /\ d = Len(b) - i}
<1>1. Len(b) \in Nat /\ DOMAIN b = 1..Len(b)
  BY LenProperties
<1>2. PICK i0 \in DOMAIN b : b[i0].key = k
  BY DEF KeysOf
<1>3. Len(b) - i0 \in D
  BY <1>1, <1>2
<1>4. PICK d \in D : \A e \in D : <<e, d>> \notin OpToRel(<, Nat)
  <2>1. D \subseteq Nat /\ D # {}
    BY <1>3
  <2> HIDE DEF D
  <2> QED BY <2>1, NatLessThanWellFounded, WFMin
<1>5. PICK i \in DOMAIN b : b[i].key = k /\ d = Len(b) - i
  BY <1>4
<1>6. ASSUME NEW j \in DOMAIN b, b[j].key = k PROVE j <= i
  <2>1. Len(b) - j \in D
    BY <1>1, <1>6
  <2>2. ~(Len(b) - j < d)
    BY <1>1, <1>4, <1>5, <2>1 DEF OpToRel
  <2> QED BY <1>1, <1>5, <2>2
<1> QED BY <1>5, <1>6 DEF Newest

-----------------------------------------------------------------------------
(* Type correctness *)

\* A thread in the middle of FlushStaged has a vbucket to flush, and a writer
\* in the middle of executePersist has a vbucket to write.
InCall == {"sweep", "count", "write", "complete", "release", "recheck",
           "rearm", "resubmit"}

MidCall ==
    /\ \A t \in IOThreads : iopc[t] # "read" => touched[t] # <<>>
    /\ \A w \in Workers : wpc[w] \in InCall => wvb[w] \in VB

TypeInv == TypeOK /\ MidCall

\* The bucket starts well typed, with no writer in the middle of a call.
LEMMA InitTypeInv == Init => TypeInv
<1> SUFFICES ASSUME Init PROVE TypeInv
  OBVIOUS
<1> USE DEF Init
<1>1. IOType
  BY DEF IOType, IOpc
<1>2. VBType
  BY Numbers DEF VBType
<1>3. QueueType
  BY DEF QueueType
<1>4. DeferType
  BY DEF DeferType
<1>5. WorkerType
  BY DEF WorkerType, Wpc
<1>6. StoreType
  BY Numbers DEF StoreType, Doc
<1>7. CountType
  <2>1. Cardinality(InitWorkers) \in Int
    BY Sets, FS_Subset, FS_CardinalityType
  <2>2. live \in Int /\ queuedBytes \in Int /\ phase \in Phase
    BY <2>1 DEF Phase
  <2>3. issued \in 0..MaxWrites /\ resizes \in 0..MaxResizes
    BY Numbers
  <2>4. timedOut \in BOOLEAN
    OBVIOUS
  <2>5. answer \in [Id -> {"none", "success", "tmpfail", "error"}]
    OBVIOUS
  <2> QED BY <2>2, <2>3, <2>4, <2>5 DEF CountType
<1>8. MidCall
  BY DEF MidCall, InCall
<1> QED BY <1>1, <1>2, <1>3, <1>4, <1>5, <1>6, <1>7, <1>8 DEF TypeInv, TypeOK

\* Types follow from what a step leaves alone.
countVars == <<live, queuedBytes, closeVars, issued, resizes, answer>>

\* A step that changes nothing keeps the types.
LEMMA UnchangedTypes ==
    /\ IOType /\ UNCHANGED ioVars => IOType'
    /\ VBType /\ UNCHANGED vbVars => VBType'
    /\ QueueType /\ UNCHANGED queueVars => QueueType'
    /\ DeferType /\ UNCHANGED deferVars => DeferType'
    /\ WorkerType /\ UNCHANGED workerVars => WorkerType'
    /\ StoreType /\ UNCHANGED storeVars => StoreType'
    /\ CountType /\ UNCHANGED countVars => CountType'
<1>1. IOType /\ UNCHANGED ioVars => IOType'
  BY DEF IOType, ioVars
<1>2. VBType /\ UNCHANGED vbVars => VBType'
  BY DEF VBType, vbVars
<1>3. QueueType /\ UNCHANGED queueVars => QueueType'
  BY DEF QueueType, queueVars
<1>4. DeferType /\ UNCHANGED deferVars => DeferType'
  BY DEF DeferType, deferVars
<1>5. WorkerType /\ UNCHANGED workerVars => WorkerType'
  BY DEF WorkerType, workerVars
<1>6. StoreType /\ UNCHANGED storeVars => StoreType'
  BY DEF StoreType, storeVars
<1>7. CountType /\ UNCHANGED countVars => CountType'
  BY Zenon DEF CountType, countVars, closeVars
<1> QED BY <1>1, <1>2, <1>3, <1>4, <1>5, <1>6, <1>7

\* The uint32_t arithmetic of VBQueue::pending stays in the word.
LEMMA WordType == ASSUME NEW a \in Int PROVE a % Word \in 0..Word-1
  BY Numbers

\* The vbucket a thread in FlushStaged is at.
LEMMA FlushHead ==
    ASSUME TypeInv, NEW t \in IOThreads, iopc[t] # "read"
    PROVE  /\ Head(touched[t]) \in VB
           /\ Tail(touched[t]) \in Seq(VB)
           /\ Len(touched[t]) \in Nat /\ Len(touched[t]) > 0
           /\ Len(touched[t]) # 1 => Tail(touched[t]) # <<>>
<1>1. touched[t] \in Seq(VB) /\ touched[t] # <<>>
  BY DEF TypeInv, TypeOK, IOType, MidCall
<1>2. /\ Head(touched[t]) \in VB /\ Tail(touched[t]) \in Seq(VB)
      /\ Len(Tail(touched[t])) = Len(touched[t]) - 1
  BY <1>1, HeadTailProperties
<1>3. Len(touched[t]) \in Nat /\ Len(touched[t]) > 0
  BY <1>1, EmptySeq, LenProperties
<1>4. ASSUME Tail(touched[t]) = <<>> PROVE Len(touched[t]) = 1
  <2>1. Len(Tail(touched[t])) = 0
    BY <1>4, EmptySeq
  <2> QED BY <1>2, <1>3, <2>1
<1> QED BY <1>2, <1>3, <1>4

\* Accepting a write keeps the types.
LEMMA StageTypeInv ==
    ASSUME TypeInv, NEW t \in IOThreads, NEW v \in VB, NEW k \in Key
    PROVE  StageWrite(t, v, k) => TypeInv'
<1> USE DEF TypeInv, TypeOK
<1>1. ASSUME StageWrite(t, v, k) PROVE TypeInv'
  <2>1. UNCHANGED <<vbVars, queueVars, deferVars, workerVars, storeVars>>
    BY <1>1 DEF StageWrite
  <2>2. IOType'
    <3> DEFINE r == [vb |-> v, key |-> k, id |-> issued + 1]
    <3>1. r \in Request
      BY <1>1, Numbers DEF StageWrite, CountType, Request, Id
    <3>2. <<r>> \o staged[t][v] \in Seq(Request)
      BY <3>1 DEF IOType
    <3>3. staged' \in [IOThreads -> [VB -> Seq(Request)]]
      BY <1>1, <3>2 DEF StageWrite, IOType
    <3>4. touched' \in [IOThreads -> Seq(VB)]
      BY <1>1 DEF StageWrite, IOType
    <3>5. iopc' \in [IOThreads -> IOpc] /\ bytes' \in [IOThreads -> Nat]
      BY <1>1 DEF StageWrite, IOType
    <3> QED BY <3>3, <3>4, <3>5 DEF IOType
  <2>3. CountType'
    BY <1>1, Numbers DEF StageWrite, CountType, closeVars, Id
  <2>4. MidCall'
    BY <1>1, Numbers DEF StageWrite, MidCall, InCall, IOType, workerVars
  <2> QED BY <2>1, <2>2, <2>3, <2>4, UnchangedTypes
<1> QED BY <1>1

\* So do the other steps of an IO thread.
LEMMA IOTypeInv ==
    ASSUME TypeInv, NEW t \in IOThreads
    PROVE  RefuseWrite(t) \/ IOStep(t) => TypeInv'
<1> USE DEF TypeInv, TypeOK
<1>1. ASSUME RefuseWrite(t) PROVE TypeInv'
  <2>1. UNCHANGED <<ioVars, vbVars, queueVars, deferVars, workerVars, storeVars>>
    BY <1>1 DEF RefuseWrite
  <2>2. CountType'
    BY <1>1, Numbers DEF RefuseWrite, CountType, closeVars, Id
  <2>3. MidCall'
    BY <1>1 DEF RefuseWrite, MidCall, ioVars, workerVars
  <2> QED BY <2>1, <2>2, <2>3, UnchangedTypes
<1>2. ASSUME FlushStaged(t) PROVE TypeInv'
  <2>1. UNCHANGED <<vbVars, queueVars, deferVars, workerVars, storeVars>>
    BY <1>2 DEF FlushStaged
  <2>2. IOType'
    BY <1>2 DEF FlushStaged, IOType, IOpc
  <2>3. CountType'
    BY <1>2 DEF FlushStaged, CountType, closeVars, IOType
  <2>4. MidCall'
    BY <1>2 DEF FlushStaged, MidCall, InCall, IOType, workerVars
  <2> QED BY <2>1, <2>2, <2>3, <2>4, UnchangedTypes
<1>3. ASSUME InsertChain(t) PROVE TypeInv'
  <2>1. UNCHANGED <<queueVars, deferVars, workerVars, storeVars, countVars>>
    BY <1>3 DEF InsertChain, countVars
  <2>2. IOType'
    BY <1>3 DEF InsertChain, IOType, IOpc
  <2>3. VBType'
    <3>1. Head(touched[t]) \in VB
      BY <1>3, FlushHead DEF InsertChain
    <3>2. staged[t][Head(touched[t])] \o list[Head(touched[t])] \in Seq(Request)
      BY <3>1 DEF IOType, VBType
    <3> QED BY <1>3, <3>1, <3>2 DEF InsertChain, VBType
  <2>4. MidCall'
    BY <1>3 DEF InsertChain, MidCall, InCall, IOType, workerVars
  <2> QED BY <2>1, <2>2, <2>3, <2>4, UnchangedTypes
<1>4. ASSUME CountPushed(t) PROVE TypeInv'
  <2>1. UNCHANGED <<queueVars, deferVars, workerVars, storeVars, countVars>>
    BY <1>4 DEF CountPushed, countVars
  <2>2. IOType'
    <3>1. Head(touched[t]) \in VB
      BY <1>4, FlushHead DEF CountPushed
    <3>2. staged' \in [IOThreads -> [VB -> Seq(Request)]]
      <4>1. <<>> \in Seq(Request)
        OBVIOUS
      <4> QED BY <1>4, <3>1, <4>1 DEF CountPushed, IOType
    <3> QED BY <1>4, <3>2 DEF CountPushed, IOType, IOpc
  <2>3. VBType'
    <3> DEFINE v0 == Head(touched[t])
               n == pending[v0] + Len(staged[t][v0])
    <3>1. v0 \in VB
      BY <1>4, FlushHead DEF CountPushed
    <3>2. n \in Int
      BY <3>1, Numbers DEF IOType, VBType
    <3>3. n % Word \in 0..Word-1
      BY <3>2, WordType
    <3>4. pending' \in [VB -> 0..Word-1]
      <4> HIDE DEF n
      <4>1. pending' = [pending EXCEPT ![v0] = n % Word]
        BY <1>4 DEF CountPushed, n
      <4> QED BY <3>1, <3>3, <4>1 DEF VBType
    <3> QED BY <1>4, <3>4 DEF CountPushed, VBType
  <2>4. MidCall'
    BY <1>4 DEF CountPushed, MidCall, InCall, IOType, workerVars
  <2> QED BY <2>1, <2>2, <2>3, <2>4, UnchangedTypes
<1>5. ASSUME Arm(t) PROVE TypeInv'
  <2>1. UNCHANGED <<queueVars, deferVars, workerVars, storeVars, countVars>>
    BY <1>5 DEF Arm, NextTouched, countVars
  <2>2. IOType'
    <3>1. Tail(touched[t]) \in Seq(VB)
      BY <1>5, FlushHead DEF Arm
    <3>2. iopc' \in [IOThreads -> IOpc]
      BY <1>5 DEF Arm, NextTouched, IOType, IOpc
    <3>3. touched' \in [IOThreads -> Seq(VB)]
      BY <1>5, <3>1 DEF Arm, NextTouched, IOType
    <3> QED BY <1>5, <3>2, <3>3 DEF Arm, IOType
  <2>3. VBType'
    BY <1>5 DEF Arm, NextTouched, VBType, IOType
  <2>4. MidCall'
    <3>1. /\ Len(touched[t]) # 1 => Tail(touched[t]) # <<>>
          /\ touched[t] # <<>>
      BY <1>5, FlushHead DEF Arm, MidCall
    <3> QED BY <1>5, <3>1 DEF Arm, NextTouched, MidCall, InCall, IOType, workerVars
  <2> QED BY <2>1, <2>2, <2>3, <2>4, UnchangedTypes
<1>6. ASSUME Submit(t) PROVE TypeInv'
  <2>1. UNCHANGED <<vbVars, deferVars, workerVars, storeVars, countVars>>
    BY <1>6 DEF Submit, NextTouched, SubmitOrDefer, BlockingWrite, countVars
  <2>2. IOType'
    <3>1. Tail(touched[t]) \in Seq(VB)
      BY <1>6, FlushHead DEF Submit
    <3> QED BY <1>6, <3>1 DEF Submit, NextTouched, IOType, IOpc
  <2>3. QueueType'
    <3>1. Head(touched[t]) \in VB
      BY <1>6, FlushHead DEF Submit
    <3> QED BY <1>6, <3>1 DEF Submit, SubmitOrDefer, BlockingWrite, QueueType
  <2>4. MidCall'
    <3>1. Len(touched[t]) # 1 => Tail(touched[t]) # <<>>
      BY <1>6, FlushHead DEF Submit
    <3> QED BY <1>6, <3>1 DEF Submit, NextTouched, MidCall, InCall, IOType, workerVars
  <2> QED BY <2>1, <2>2, <2>3, <2>4, UnchangedTypes
<1> QED BY <1>1, <1>2, <1>3, <1>4, <1>5, <1>6 DEF IOStep

\* So do the steps of the coalescing thread.
LEMMA DeferTypeInv ==
    ASSUME TypeInv
    PROVE  DeferStep => TypeInv'
<1> USE DEF TypeInv, TypeOK
<1>1. ASSUME DeferTake PROVE TypeInv'
  <2>1. UNCHANGED <<ioVars, vbVars, workerVars, storeVars, countVars>>
    BY <1>1 DEF DeferTake, countVars
  <2>2. QueueType'
    <3>1. deferQueue \in Seq(VB \cup {Sentinel}) /\ deferQueue # <<>>
      BY <1>1 DEF DeferTake, QueueType
    <3>2. /\ Head(deferQueue) \in VB \cup {Sentinel}
          /\ Tail(deferQueue) \in Seq(VB \cup {Sentinel})
      BY <3>1, HeadTailProperties
    <3> QED BY <1>1, <3>2 DEF DeferTake, QueueType
  <2>3. DeferType'
    <3>1. deferQueue \in Seq(VB \cup {Sentinel}) /\ deferQueue # <<>>
      BY <1>1 DEF DeferTake, QueueType
    <3>2. /\ Head(deferQueue) \in VB \cup {Sentinel}
          /\ Tail(deferQueue) \in Seq(VB \cup {Sentinel})
      BY <3>1, HeadTailProperties
    <3> QED BY <1>1, <3>2 DEF DeferTake, DeferType
  <2>4. MidCall'
    BY <1>1 DEF DeferTake, MidCall, ioVars, workerVars
  <2> QED BY <2>1, <2>2, <2>3, <2>4, UnchangedTypes
<1>2. ASSUME DeferSubmit PROVE TypeInv'
  <2>1. UNCHANGED <<ioVars, vbVars, workerVars, storeVars, countVars>>
    BY <1>2 DEF DeferSubmit, countVars
  <2>2. QueueType'
    <3>1. deferHeld \in VB
      BY <1>2 DEF DeferSubmit, DeferType
    <3> QED BY <1>2, <3>1 DEF DeferSubmit, QueueType
  <2>3. DeferType'
    BY <1>2 DEF DeferSubmit, DeferType
  <2>4. MidCall'
    BY <1>2 DEF DeferSubmit, MidCall, ioVars, workerVars
  <2> QED BY <2>1, <2>2, <2>3, <2>4, UnchangedTypes
<1>3. ASSUME DeferDrain PROVE TypeInv'
  <2>1. UNCHANGED <<ioVars, vbVars, workerVars, storeVars, countVars>>
    BY <1>3 DEF DeferDrain, countVars
  <2>2. QueueType'
    <3>1. deferQueue # <<>> => Tail(deferQueue) \in Seq(VB \cup {Sentinel})
      BY HeadTailProperties DEF QueueType
    <3> QED BY <1>3, <3>1 DEF DeferDrain, QueueType
  <2>3. DeferType'
    <3>1. deferQueue # <<>> => Head(deferQueue) \in VB \cup {Sentinel}
      BY HeadTailProperties DEF QueueType
    <3> QED BY <1>3, <3>1 DEF DeferDrain, DeferType
  <2>4. MidCall'
    BY <1>3 DEF DeferDrain, MidCall, ioVars, workerVars
  <2> QED BY <2>1, <2>2, <2>3, <2>4, UnchangedTypes
<1> QED BY <1>1, <1>2, <1>3 DEF DeferStep

\* The outcome of one WriteDocs call is well typed: the newest write of a key
\* exists, and seqnos are numbers.
LEMMA WriteBatchType ==
    ASSUME TypeOK, NEW v \in VB, NEW b \in Seq(Request),
           NEW doSort \in BOOLEAN, NEW ok \in BOOLEAN,
           WriteBatch(v, b, doSort, ok)
    PROVE  StoreType'
<1>1. NumOps(b, doSort) \in Nat
  BY KeysOfFinite, LenProperties DEF NumOps
<1>2. seqno' \in [VB -> Nat]
  BY <1>1 DEF WriteBatch, TypeOK, StoreType
<1>3. ASSUME NEW k \in KeysOf(b)
      PROVE  Applied(v, b, doSort, k) \in Doc
  <2> DEFINE i == Newest(b, k)
  <2>1. i \in 1..Len(b) /\ Len(b) \in Nat
    BY NewestExists, LenProperties
  <2> HIDE DEF i
  <2>2. b[i].id \in 0..MaxWrites
    <3>1. b[i] \in Request
      BY <2>1, ElementOfSeq
    <3> QED BY <3>1, Numbers DEF Request, Id
  <2>3. OpRank(b, doSort, i) \in Nat
    <3>1. Cardinality({x \in KeysOf(b) : x <= b[i].key}) \in Nat
      BY KeysOfFinite
    <3> QED BY <2>1, <3>1 DEF OpRank
  <2>4. seqno[v] \in Nat
    BY DEF TypeOK, StoreType
  <2> QED BY <2>2, <2>3, <2>4 DEF Applied, Doc, i
<1>4. disk' \in [VB -> [Key -> Doc]]
  <2>1. CASE ~ok
    BY <2>1 DEF WriteBatch, TypeOK, StoreType
  <2>2. CASE ok
    <3> DEFINE row == [k \in Key |-> IF k \in KeysOf(b) THEN Applied(v, b, doSort, k)
                                     ELSE disk[v][k]]
    <3>1. row \in [Key -> Doc]
      BY <1>3 DEF TypeOK, StoreType
    <3>2. disk' = [disk EXCEPT ![v] = row]
      BY <2>2 DEF WriteBatch
    <3> HIDE DEF row
    <3> QED BY <3>1, <3>2 DEF TypeOK, StoreType
  <2> QED BY <2>1, <2>2
<1>5. fate' \in [Id -> {"new", "stored", "failed"}]
  BY DEF WriteBatch, TypeOK, StoreType
<1> QED BY <1>2, <1>4, <1>5 DEF StoreType

\* So do the steps of a writer.
LEMMA WorkerTypeInv ==
    ASSUME TypeInv, NEW w \in Workers
    PROVE  WorkerStep(w) => TypeInv'
<1> USE DEF TypeInv, TypeOK
<1>1. ASSUME TakeTask(w) PROVE TypeInv'
  <2>1. UNCHANGED <<ioVars, vbVars, deferVars, storeVars, countVars>>
    BY <1>1 DEF TakeTask, countVars
  <2>2. QueueType'
    <3>1. /\ Head(taskQueue) \in VB \cup {Sentinel}
          /\ Tail(taskQueue) \in Seq(VB \cup {Sentinel})
      BY <1>1, HeadTailProperties DEF TakeTask, QueueType
    <3> QED BY <1>1, <3>1 DEF TakeTask, QueueType
  <2>3. WorkerType'
    <3>1. /\ Head(taskQueue) \in VB \cup {Sentinel}
          /\ Tail(taskQueue) \in Seq(VB \cup {Sentinel})
      BY <1>1, HeadTailProperties DEF TakeTask, QueueType
    <3> QED BY <1>1, <3>1 DEF TakeTask, WorkerType, Wpc
  <2>4. MidCall'
    <3>1. /\ Head(taskQueue) \in VB \cup {Sentinel}
          /\ Tail(taskQueue) \in Seq(VB \cup {Sentinel})
      BY <1>1, HeadTailProperties DEF TakeTask, QueueType
    <3> QED BY <1>1, <3>1 DEF TakeTask, MidCall, InCall, WorkerType, ioVars
  <2> QED BY <2>1, <2>2, <2>3, <2>4, UnchangedTypes
<1>2. ASSUME Sweep(w) PROVE TypeInv'
  <2>1. UNCHANGED <<ioVars, queueVars, deferVars, storeVars, countVars>>
    BY <1>2 DEF Sweep, countVars
  <2>2. VBType'
    <3>1. <<>> \in Seq(Request)
      BY EmptySeq
    <3> QED BY <1>2, <3>1 DEF Sweep, VBType
  <2>3. WorkerType'
    <3>1. list[wvb[w]] \in Seq(Request)
      BY <1>2 DEF Sweep, VBType, MidCall, InCall
    <3> QED BY <1>2, <3>1 DEF Sweep, WorkerType, Wpc
  <2>4. MidCall'
    BY <1>2 DEF Sweep, MidCall, InCall, WorkerType, ioVars
  <2> QED BY <2>1, <2>2, <2>3, <2>4, UnchangedTypes
<1>3. ASSUME CountSwept(w) PROVE TypeInv'
  <2>1. UNCHANGED <<ioVars, queueVars, deferVars, storeVars, countVars>>
    BY <1>3 DEF CountSwept, countVars
  <2>2. VBType'
    <3> DEFINE n == pending[wvb[w]] - Len(batch[w])
    <3>1. wvb[w] \in VB
      BY <1>3 DEF CountSwept, MidCall, InCall
    <3>2. n \in Int
      BY <3>1, Numbers DEF WorkerType, VBType
    <3>3. n % Word \in 0..Word-1
      BY <3>2, WordType
    <3>4. pending' \in [VB -> 0..Word-1]
      <4> HIDE DEF n
      <4>1. pending' = [pending EXCEPT ![wvb[w]] = n % Word]
        BY <1>3 DEF CountSwept, n
      <4> QED BY <3>1, <3>3, <4>1 DEF VBType
    <3> QED BY <1>3, <3>4 DEF CountSwept, VBType
  <2>3. WorkerType'
    <3>1. Reverse(batch[w]) \in Seq(Request)
      BY ReverseType DEF WorkerType
    <3> QED BY <1>3, <3>1 DEF CountSwept, WorkerType, Wpc
  <2>4. MidCall'
    BY <1>3 DEF CountSwept, MidCall, InCall, WorkerType, ioVars
  <2> QED BY <2>1, <2>2, <2>3, <2>4, UnchangedTypes
<1>4. ASSUME WriteDocs(w) PROVE TypeInv'
  <2>1. UNCHANGED <<ioVars, vbVars, queueVars, deferVars, countVars>>
    BY <1>4 DEF WriteDocs, countVars
  <2>2. WorkerType'
    BY <1>4 DEF WriteDocs, WorkerType, Wpc
  <2>3. StoreType'
    <3> DEFINE v == wvb[w]  b == batch[w]
    <3>1. v \in VB /\ b \in Seq(Request)
      BY <1>4 DEF WriteDocs, MidCall, InCall, WorkerType
    <3>2. PICK doSort \in BOOLEAN, ok \in BOOLEAN : WriteBatch(v, b, doSort, ok)
      BY <1>4 DEF WriteDocs
    <3> QED BY <3>1, <3>2, WriteBatchType
  <2>4. MidCall'
    BY <1>4 DEF WriteDocs, MidCall, InCall, WorkerType, ioVars
  <2> QED BY <2>1, <2>2, <2>3, <2>4, UnchangedTypes
<1>5. ASSUME Complete(w) PROVE TypeInv'
  <2>1. UNCHANGED <<ioVars, vbVars, queueVars, deferVars, storeVars>>
    BY <1>5 DEF Complete
  <2>2. WorkerType'
    BY <1>5 DEF Complete, WorkerType, Wpc
  <2>3. CountType'
    <3>1. batch[w] \in Seq(Request)
      BY DEF WorkerType
    <3>2. queuedBytes' \in Int
      BY <1>5, <3>1 DEF Complete, CountType, BatchBytes
    <3>3. answer' \in [Id -> {"none", "success", "tmpfail", "error"}]
      BY <1>5 DEF Complete, CountType
    <3> QED BY <1>5, <3>2, <3>3 DEF Complete, CountType, closeVars
  <2>4. MidCall'
    BY <1>5 DEF Complete, MidCall, InCall, WorkerType, ioVars
  <2> QED BY <2>1, <2>2, <2>3, <2>4, UnchangedTypes
<1>6. ASSUME Release(w) PROVE TypeInv'
  <2>1. UNCHANGED <<ioVars, queueVars, deferVars, storeVars, countVars>>
    BY <1>6 DEF Release, countVars
  <2>2. VBType'
    BY <1>6 DEF Release, VBType
  <2>3. WorkerType'
    BY <1>6 DEF Release, WorkerType, Wpc
  <2>4. MidCall'
    BY <1>6 DEF Release, MidCall, InCall, WorkerType, ioVars
  <2> QED BY <2>1, <2>2, <2>3, <2>4, UnchangedTypes
<1>7. ASSUME Recheck(w) PROVE TypeInv'
  <2>1. UNCHANGED <<ioVars, vbVars, queueVars, deferVars, storeVars, countVars>>
    BY <1>7 DEF Recheck, Return, countVars
  <2>2. WorkerType'
    <3>1. <<>> \in Seq(Request)
      BY EmptySeq
    <3>2. wpc' \in [Workers -> Wpc] /\ wvb' \in [Workers -> VB \cup {NoVB}]
      BY <1>7 DEF Recheck, Return, WorkerType, Wpc
    <3>3. batch' \in [Workers -> Seq(Request)]
      BY <1>7, <3>1 DEF Recheck, Return, WorkerType
    <3> QED BY <3>2, <3>3 DEF WorkerType
  <2>3. MidCall'
    BY <1>7 DEF Recheck, Return, MidCall, InCall, WorkerType, ioVars
  <2> QED BY <2>1, <2>2, <2>3, UnchangedTypes
<1>8. ASSUME Rearm(w) PROVE TypeInv'
  <2>1. UNCHANGED <<ioVars, queueVars, deferVars, storeVars, countVars>>
    BY <1>8 DEF Rearm, Return, countVars
  <2>2. VBType'
    BY <1>8 DEF Rearm, Return, VBType
  <2>3. WorkerType'
    <3>1. <<>> \in Seq(Request)
      BY EmptySeq
    <3>2. wpc' \in [Workers -> Wpc] /\ wvb' \in [Workers -> VB \cup {NoVB}]
      BY <1>8 DEF Rearm, Return, WorkerType, Wpc
    <3>3. batch' \in [Workers -> Seq(Request)]
      BY <1>8, <3>1 DEF Rearm, Return, WorkerType
    <3> QED BY <3>2, <3>3 DEF WorkerType
  <2>4. MidCall'
    BY <1>8 DEF Rearm, Return, MidCall, InCall, WorkerType, ioVars
  <2> QED BY <2>1, <2>2, <2>3, <2>4, UnchangedTypes
<1>9. ASSUME Resubmit(w) PROVE TypeInv'
  <2>1. UNCHANGED <<ioVars, vbVars, deferVars, storeVars, countVars>>
    BY <1>9 DEF Resubmit, Return, SubmitOrDefer, BlockingWrite, countVars
  <2>2. QueueType'
    <3>1. wvb[w] \in VB
      BY <1>9 DEF Resubmit, MidCall, InCall
    <3>2. /\ Append(taskQueue, wvb[w]) \in Seq(VB \cup {Sentinel})
          /\ Append(deferQueue, wvb[w]) \in Seq(VB \cup {Sentinel})
      BY <3>1 DEF QueueType
    <3>3. /\ taskQueue' = taskQueue \/ taskQueue' = Append(taskQueue, wvb[w])
          /\ deferQueue' = deferQueue \/ deferQueue' = Append(deferQueue, wvb[w])
      <4>1. CASE batch[w] = <<>>
        BY <1>9, <4>1 DEF Resubmit, BlockingWrite
      <4>2. CASE batch[w] # <<>>
        BY <1>9, <4>2 DEF Resubmit, SubmitOrDefer, BlockingWrite
      <4> QED BY <4>1, <4>2
    <3> QED BY <3>2, <3>3 DEF QueueType
  <2>3. WorkerType'
    <3>1. <<>> \in Seq(Request)
      BY EmptySeq
    <3> QED BY <1>9, <3>1 DEF Resubmit, Return, WorkerType, Wpc
  <2>4. MidCall'
    BY <1>9 DEF Resubmit, Return, MidCall, InCall, WorkerType, ioVars
  <2> QED BY <2>1, <2>2, <2>3, <2>4, UnchangedTypes
<1> QED BY <1>1, <1>2, <1>3, <1>4, <1>5, <1>6, <1>7, <1>8, <1>9 DEF WorkerStep

\* So do the resizes of the tuner and the steps of Bucket::Close.
LEMMA PoolTypeInv ==
    ASSUME TypeInv
    PROVE  (\E u \in Workers : Grow(u)) \/ (\E n \in 1..Cardinality(Workers) : Shrink(n))
           \/ Reap \/ BeginClose \/ CloseStep => TypeInv'
<1> USE DEF TypeInv, TypeOK
<1>1. ASSUME (\E u \in Workers : Grow(u)) PROVE TypeInv'
  <2>1. UNCHANGED <<ioVars, vbVars, queueVars, deferVars, storeVars>>
    BY <1>1 DEF Grow
  <2>2. WorkerType'
    BY <1>1 DEF Grow, WorkerType, Wpc
  <2>3. CountType'
    BY <1>1, Numbers DEF Grow, CountType, closeVars
  <2>4. MidCall'
    BY <1>1 DEF Grow, MidCall, InCall, WorkerType, ioVars
  <2> QED BY <2>1, <2>2, <2>3, <2>4, UnchangedTypes
<1>2. ASSUME (\E n \in 1..Cardinality(Workers) : Shrink(n)) PROVE TypeInv'
  <2>1. UNCHANGED <<ioVars, vbVars, deferVars, workerVars, storeVars>>
    BY <1>2 DEF Shrink
  <2>2. QueueType'
    <3>1. PICK n \in 1..Cardinality(Workers) : Shrink(n)
      BY <1>2
    <3>2. ShrinkBy(n) \in Nat
      BY DEF ShrinkBy, CountType
    <3>3. Sentinels(ShrinkBy(n)) \in Seq(VB \cup {Sentinel})
      BY <3>2, SentinelsType, SeqMonotonic
    <3> QED BY <3>1, <3>3 DEF Shrink, QueueType
  <2>3. CountType'
    <3>1. PICK n \in 1..Cardinality(Workers) : Shrink(n)
      BY <1>2
    <3>2. ShrinkBy(n) \in Nat
      BY DEF ShrinkBy, CountType
    <3> QED BY <3>1, <3>2, Numbers DEF Shrink, CountType, closeVars
  <2>4. MidCall'
    BY <1>2 DEF Shrink, MidCall, ioVars, workerVars
  <2> QED BY <2>1, <2>2, <2>3, <2>4, UnchangedTypes
<1>3. ASSUME Reap PROVE TypeInv'
  <2>1. UNCHANGED <<ioVars, vbVars, queueVars, deferVars, storeVars, countVars>>
    BY <1>3 DEF Reap, countVars
  <2>2. WorkerType'
    BY <1>3 DEF Reap, WorkerType, Wpc
  <2>3. MidCall'
    BY <1>3 DEF Reap, MidCall, InCall, WorkerType, ioVars
  <2> QED BY <2>1, <2>2, <2>3, UnchangedTypes
<1>4. ASSUME BeginClose PROVE TypeInv'
  <2>1. UNCHANGED <<ioVars, vbVars, queueVars, deferVars, workerVars, storeVars>>
    BY <1>4 DEF BeginClose
  <2>2. CountType'
    BY <1>4 DEF BeginClose, CountType, Phase
  <2>3. MidCall'
    BY <1>4 DEF BeginClose, MidCall, ioVars, workerVars
  <2> QED BY <2>1, <2>2, <2>3, UnchangedTypes
<1>5. ASSUME DrainWrites PROVE TypeInv'
  <2>1. UNCHANGED <<ioVars, vbVars, queueVars, deferVars, workerVars, storeVars>>
    BY <1>5 DEF DrainWrites
  <2>2. CountType'
    BY <1>5 DEF DrainWrites, CountType, Phase
  <2>3. MidCall'
    BY <1>5 DEF DrainWrites, MidCall, ioVars, workerVars
  <2> QED BY <2>1, <2>2, <2>3, UnchangedTypes
<1>6. ASSUME StopDefer PROVE TypeInv'
  <2>1. UNCHANGED <<ioVars, vbVars, deferVars, workerVars, storeVars>>
    BY <1>6 DEF StopDefer
  <2>2. QueueType'
    BY <1>6 DEF StopDefer, QueueType
  <2>3. CountType'
    BY <1>6 DEF StopDefer, CountType, Phase
  <2>4. MidCall'
    BY <1>6 DEF StopDefer, MidCall, ioVars, workerVars
  <2> QED BY <2>1, <2>2, <2>3, <2>4, UnchangedTypes
<1>7. ASSUME JoinDefer PROVE TypeInv'
  <2>1. UNCHANGED <<ioVars, vbVars, queueVars, deferVars, workerVars, storeVars>>
    BY <1>7 DEF JoinDefer
  <2>2. CountType'
    BY <1>7 DEF JoinDefer, CountType, Phase
  <2>3. MidCall'
    BY <1>7 DEF JoinDefer, MidCall, ioVars, workerVars
  <2> QED BY <2>1, <2>2, <2>3, UnchangedTypes
<1>8. ASSUME StopWriters PROVE TypeInv'
  <2>1. UNCHANGED <<ioVars, vbVars, deferVars, workerVars, storeVars>>
    BY <1>8 DEF StopWriters
  <2>2. QueueType'
    <3>1. Cardinality(Joinable) \in Nat
      BY Sets, FS_Subset, FS_CardinalityType DEF Joinable
    <3>2. Sentinels(Cardinality(Joinable)) \in Seq(VB \cup {Sentinel})
      BY <3>1, SentinelsType, SeqMonotonic
    <3> QED BY <1>8, <3>2 DEF StopWriters, QueueType
  <2>3. CountType'
    BY <1>8 DEF StopWriters, CountType, Phase
  <2>4. MidCall'
    BY <1>8 DEF StopWriters, MidCall, ioVars, workerVars
  <2> QED BY <2>1, <2>2, <2>3, <2>4, UnchangedTypes
<1>9. ASSUME JoinWriters PROVE TypeInv'
  <2>1. UNCHANGED <<ioVars, vbVars, queueVars, deferVars, storeVars>>
    BY <1>9 DEF JoinWriters
  <2>2. WorkerType'
    BY <1>9 DEF JoinWriters, WorkerType, Wpc
  <2>3. CountType'
    BY <1>9 DEF JoinWriters, CountType, Phase
  <2>4. MidCall'
    BY <1>9 DEF JoinWriters, MidCall, InCall, WorkerType, ioVars
  <2> QED BY <2>1, <2>2, <2>3, <2>4, UnchangedTypes
<1> QED BY <1>1, <1>2, <1>3, <1>4, <1>5, <1>6, <1>7, <1>8, <1>9 DEF CloseStep

\* Every step of the write path keeps the types.
LEMMA NextTypeInv == TypeInv /\ [Next]_vars => TypeInv'
<1> SUFFICES ASSUME TypeInv, [Next]_vars PROVE TypeInv'
  OBVIOUS
<1>1. CASE \E t \in IOThreads, v \in VB, k \in Key : StageWrite(t, v, k)
  BY <1>1, StageTypeInv
<1>2. CASE \E t \in IOThreads : RefuseWrite(t) \/ IOStep(t)
  BY <1>2, IOTypeInv
<1>3. CASE DeferStep
  BY <1>3, DeferTypeInv
<1>4. CASE \E w \in Workers : WorkerStep(w)
  BY <1>4, WorkerTypeInv
<1>5. CASE (\E w \in Workers : Grow(w)) \/ (\E n \in 1..Cardinality(Workers) : Shrink(n))
           \/ Reap \/ BeginClose \/ CloseStep
  BY <1>5, PoolTypeInv
<1>6. CASE Closed \/ UNCHANGED vars
  <2>1. UNCHANGED <<ioVars, vbVars, queueVars, deferVars, workerVars, storeVars,
                    countVars>>
    BY <1>6 DEF Closed, vars, countVars, closeVars
  <2>2. MidCall'
    BY <2>1 DEF TypeInv, MidCall, ioVars, workerVars
  <2> QED BY <2>1, <2>2, UnchangedTypes DEF TypeInv, TypeOK
<1> QED BY <1>1, <1>2, <1>3, <1>4, <1>5, <1>6 DEF Next

\* Every variable keeps its type in every behaviour of the write path: no step
\* of an IO thread, of the coalescing thread, of a writer, of the tuner or of
\* Bucket::Close dereferences a missing vbucket or loses a newest write.
THEOREM TypeCorrect == Spec => []TypeOK
<1>1. Init => TypeInv
  BY InitTypeInv
<1>2. TypeInv /\ [Next]_vars => TypeInv'
  BY NextTypeInv
<1>3. TypeInv => TypeOK
  BY DEF TypeInv
<1> QED BY <1>1, <1>2, <1>3, PTL DEF Spec

-----------------------------------------------------------------------------
(* No lost wakeup *)

\* NoLostWakeup for one vbucket: someone will look at its stack again.
Watched(v) ==
    \/ list[v] = <<>>
    \/ scheduled[v]
    \/ \E t \in IOThreads : iopc[t] \in {"count", "arm"} /\ Head(touched[t]) = v
    \/ \E w \in Workers : wpc[w] \in {"recheck", "rearm"} /\ wvb[w] = v

\* What a step must leave alone to keep v watched.
LEMMA WatchedUnchanged ==
    ASSUME NEW v \in VB, Watched(v), list'[v] = list[v], scheduled'[v] = scheduled[v],
           \A t \in IOThreads : iopc[t] \in {"count", "arm"} =>
               iopc'[t] \in {"count", "arm"} /\ Head(touched'[t]) = Head(touched[t]),
           \A w \in Workers : wpc[w] \in {"recheck", "rearm"} =>
               wpc'[w] \in {"recheck", "rearm"} /\ wvb'[w] = wvb[w]
    PROVE  Watched(v)'
  BY DEF Watched

\* Steps of the IO threads: the pusher watches the stack until it has tried the
\* flag, and whoever wins or loses the exchange leaves it up.
LEMMA IOWatched ==
    ASSUME TypeInv, NEW t \in IOThreads, NEW v \in VB, Watched(v)
    PROVE  (\E u \in VB, k \in Key : StageWrite(t, u, k)) \/ RefuseWrite(t) \/ IOStep(t)
             => Watched(v)'
<1>0. IOType /\ VBType
  BY DEF TypeInv, TypeOK
<1>1. ASSUME NEW u \in VB, NEW k \in Key, StageWrite(t, u, k) PROVE Watched(v)'
  BY <1>0, <1>1, WatchedUnchanged DEF StageWrite, IOType, vbVars, workerVars
<1>2. ASSUME RefuseWrite(t) PROVE Watched(v)'
  BY <1>2 DEF Watched, RefuseWrite, ioVars, vbVars, workerVars
<1>3. ASSUME FlushStaged(t) PROVE Watched(v)'
  BY <1>0, <1>3, WatchedUnchanged DEF FlushStaged, IOType, vbVars, workerVars
<1>4. ASSUME InsertChain(t) PROVE Watched(v)'
  <2>1. CASE Head(touched[t]) = v
    BY <1>0, <1>4, <2>1 DEF Watched, InsertChain, IOType
  <2>2. CASE Head(touched[t]) # v
    BY <1>0, <1>4, <2>2, WatchedUnchanged DEF InsertChain, IOType, VBType, workerVars
  <2> QED BY <2>1, <2>2
<1>5. ASSUME CountPushed(t) PROVE Watched(v)'
  BY <1>0, <1>5, WatchedUnchanged DEF CountPushed, IOType, workerVars
<1>6. ASSUME Arm(t) PROVE Watched(v)'
  <2>1. CASE Head(touched[t]) = v
    BY <1>0, <1>6, <2>1 DEF Watched, Arm, VBType
  <2>2. CASE Head(touched[t]) # v
    <3>1. ASSUME NEW u \in IOThreads, u # t
          PROVE  iopc'[u] = iopc[u] /\ touched'[u] = touched[u]
      BY <1>0, <1>6, <3>1 DEF Arm, NextTouched, IOType
    <3>2. list'[v] = list[v] /\ scheduled'[v] = scheduled[v] /\ UNCHANGED workerVars
      BY <1>0, <1>6, <2>2 DEF Arm, VBType
    <3> QED BY <2>2, <3>1, <3>2 DEF Watched, workerVars
  <2> QED BY <2>1, <2>2
<1>7. ASSUME Submit(t) PROVE Watched(v)'
  <2>1. iopc[t] = "submit" /\ UNCHANGED <<vbVars, workerVars>>
    BY <1>7 DEF Submit
  <2>2. ASSUME NEW u \in IOThreads, u # t
        PROVE  iopc'[u] = iopc[u] /\ touched'[u] = touched[u]
    BY <1>0, <1>7, <2>2 DEF Submit, NextTouched, IOType
  <2> QED BY <2>1, <2>2, WatchedUnchanged DEF vbVars, workerVars
<1> QED BY <1>1, <1>2, <1>3, <1>4, <1>5, <1>6, <1>7 DEF IOStep

\* Steps of a writer: it sweeps the stack, or releases the flag and looks again.
LEMMA WorkerWatched ==
    ASSUME TypeInv, NEW w \in Workers, NEW v \in VB, Watched(v)
    PROVE  WorkerStep(w) => Watched(v)'
<1>0. WorkerType /\ VBType
  BY DEF TypeInv, TypeOK
<1>1. ASSUME TakeTask(w) PROVE Watched(v)'
  BY <1>0, <1>1, WatchedUnchanged DEF TakeTask, WorkerType, ioVars, vbVars
<1>2. ASSUME Sweep(w) PROVE Watched(v)'
  <2>1. CASE wvb[w] = v
    BY <1>0, <1>2, <2>1 DEF Watched, Sweep, VBType
  <2>2. CASE wvb[w] # v
    BY <1>0, <1>2, <2>2, WatchedUnchanged DEF Sweep, WorkerType, VBType, ioVars
  <2> QED BY <2>1, <2>2
<1>3. ASSUME CountSwept(w) PROVE Watched(v)'
  BY <1>0, <1>3, WatchedUnchanged DEF CountSwept, WorkerType, ioVars
<1>4. ASSUME WriteDocs(w) PROVE Watched(v)'
  BY <1>0, <1>4, WatchedUnchanged DEF WriteDocs, WorkerType, ioVars, vbVars
<1>5. ASSUME Complete(w) PROVE Watched(v)'
  BY <1>0, <1>5, WatchedUnchanged DEF Complete, WorkerType, ioVars, vbVars
<1>6. ASSUME Release(w) PROVE Watched(v)'
  <2>1. CASE wvb[w] = v
    BY <1>0, <1>6, <2>1 DEF Watched, Release, WorkerType
  <2>2. CASE wvb[w] # v
    BY <1>0, <1>6, <2>2, WatchedUnchanged DEF Release, WorkerType, VBType, ioVars
  <2> QED BY <2>1, <2>2
<1>7. ASSUME Recheck(w) PROVE Watched(v)'
  <2>1. UNCHANGED <<ioVars, vbVars>>
    BY <1>7 DEF Recheck
  <2>2. ASSUME NEW u \in Workers, u # w PROVE wpc'[u] = wpc[u] /\ wvb'[u] = wvb[u]
    BY <1>0, <1>7, <2>2 DEF Recheck, Return, WorkerType
  <2>3. CASE list[wvb[w]] # <<>>
    BY <1>0, <1>7, <2>1, <2>3, WatchedUnchanged DEF Recheck, WorkerType, ioVars, vbVars
  <2>4. CASE list[wvb[w]] = <<>> /\ wvb[w] = v
    BY <2>1, <2>4 DEF Watched, vbVars
  <2>5. CASE wvb[w] # v
    BY <2>1, <2>2, <2>5 DEF Watched, ioVars, vbVars
  <2> QED BY <2>3, <2>4, <2>5
<1>8. ASSUME Rearm(w) PROVE Watched(v)'
  <2>1. UNCHANGED <<ioVars, list>>
    BY <1>8 DEF Rearm
  <2>2. ASSUME NEW u \in Workers, u # w PROVE wpc'[u] = wpc[u] /\ wvb'[u] = wvb[u]
    BY <1>0, <1>8, <2>2 DEF Rearm, Return, WorkerType
  <2>3. CASE wvb[w] = v
    BY <1>0, <1>8, <2>3 DEF Watched, Rearm, VBType
  <2>4. CASE wvb[w] # v
    <3>1. scheduled'[v] = scheduled[v]
      BY <1>0, <1>8, <2>4 DEF Rearm, VBType
    <3> QED BY <2>1, <2>2, <2>4, <3>1 DEF Watched, ioVars
  <2> QED BY <2>3, <2>4
<1>9. ASSUME Resubmit(w) PROVE Watched(v)'
  <2>1. wpc[w] = "resubmit" /\ UNCHANGED <<ioVars, vbVars>>
    BY <1>9 DEF Resubmit
  <2>2. ASSUME NEW u \in Workers, u # w PROVE wpc'[u] = wpc[u] /\ wvb'[u] = wvb[u]
    BY <1>0, <1>9, <2>2 DEF Resubmit, Return, WorkerType
  <2> QED BY <2>1, <2>2, WatchedUnchanged DEF ioVars, vbVars
<1> QED BY <1>1, <1>2, <1>3, <1>4, <1>5, <1>6, <1>7, <1>8, <1>9 DEF WorkerStep

\* The other threads touch neither the stacks nor the flags, and nobody is
\* waiting to look at a stack when the pool is joined.
LEMMA OtherWatched ==
    ASSUME TypeInv, NEW v \in VB, Watched(v)
    PROVE  DeferStep \/ (\E u \in Workers : Grow(u))
           \/ (\E n \in 1..Cardinality(Workers) : Shrink(n))
           \/ Reap \/ BeginClose \/ CloseStep \/ Closed \/ UNCHANGED vars => Watched(v)'
<1>0. WorkerType
  BY DEF TypeInv, TypeOK
<1>1. ASSUME DeferStep PROVE Watched(v)'
  BY <1>1 DEF Watched, DeferStep, DeferTake, DeferSubmit, DeferDrain, ioVars,
              vbVars, workerVars
<1>2. ASSUME NEW u \in Workers, Grow(u) PROVE Watched(v)'
  BY <1>0, <1>2, WatchedUnchanged DEF Grow, WorkerType, ioVars, vbVars
<1>3. ASSUME NEW n \in 1..Cardinality(Workers), Shrink(n) PROVE Watched(v)'
  BY <1>3 DEF Watched, Shrink, ioVars, vbVars, workerVars
<1>4. ASSUME Reap PROVE Watched(v)'
  BY <1>0, <1>4, WatchedUnchanged DEF Reap, WorkerType, ioVars, vbVars
<1>5. ASSUME BeginClose \/ DrainWrites \/ StopDefer \/ JoinDefer \/ StopWriters
      PROVE  Watched(v)'
  BY <1>5 DEF Watched, BeginClose, DrainWrites, StopDefer, JoinDefer, StopWriters,
              ioVars, vbVars, workerVars
<1>6. ASSUME JoinWriters PROVE Watched(v)'
  BY <1>0, <1>6, WatchedUnchanged DEF JoinWriters, Joinable, WorkerType, ioVars, vbVars
<1>7. ASSUME Closed \/ UNCHANGED vars PROVE Watched(v)'
  BY <1>7 DEF Watched, Closed, vars, ioVars, vbVars, workerVars
<1> QED BY <1>1, <1>2, <1>3, <1>4, <1>5, <1>6, <1>7 DEF CloseStep

\* No write is ever stranded: in every reachable state a non-empty stack has an
\* owner for its vbucket, a pusher that has yet to try the flag, or a releasing
\* writer that has yet to look again (FlushStaged, releaseVBQueue and
\* releaseVBQueueAfterWrite in any interleaving, with any pool size).
THEOREM WakeupNeverLost == Spec => []NoLostWakeup
<1>1. Init => \A v \in VB : Watched(v)
  BY DEF Init, Watched
<1>2. TypeInv /\ (\A v \in VB : Watched(v)) /\ [Next]_vars => \A v \in VB : Watched(v)'
  <2> SUFFICES ASSUME TypeInv, [Next]_vars, NEW v \in VB, Watched(v) PROVE Watched(v)'
    OBVIOUS
  <2> QED BY IOWatched, WorkerWatched, OtherWatched DEF Next
<1>3. (\A v \in VB : Watched(v)) => NoLostWakeup
  BY DEF Watched, NoLostWakeup
<1> DEFINE AllWatched == \A v \in VB : Watched(v)
<1>4. Init => TypeInv /\ AllWatched
  BY <1>1, InitTypeInv
<1>5. TypeInv /\ AllWatched /\ [Next]_vars => (TypeInv /\ AllWatched)'
  BY <1>2, NextTypeInv
<1> HIDE DEF AllWatched
<1> QED BY <1>3, <1>4, <1>5, PTL DEF Spec, AllWatched

-----------------------------------------------------------------------------
(* One owner per vbucket *)

\* Where a value sits in a queue.
Pos(s, x) == {i \in DOMAIN s : s[i] = x}

AtMostOne(S) == \A x, y \in S : x = y

\* Appending a task for u adds a place of v exactly when u is v.
LEMMA PosAppend ==
    ASSUME NEW S, NEW s \in Seq(S), NEW e \in S, NEW x
    PROVE  /\ e # x => Pos(Append(s, e), x) = Pos(s, x)
           /\ e = x /\ Pos(s, x) = {} => Pos(Append(s, e), x) = {Len(s) + 1}
<1>1. /\ Len(s) \in Nat /\ DOMAIN s = 1..Len(s)
      /\ DOMAIN Append(s, e) = 1..(Len(s) + 1)
      /\ \A i \in 1..Len(s) : Append(s, e)[i] = s[i]
      /\ Append(s, e)[Len(s) + 1] = e
  BY AppendProperties, LenProperties
<1> QED BY <1>1 DEF Pos

\* What submitting u's task does to the places of v.
LEMMA PosSubmit ==
    ASSUME QueueType, NEW u \in VB, NEW v \in VB
    PROVE  /\ u # v => /\ Pos(Append(taskQueue, u), v) = Pos(taskQueue, v)
                       /\ Pos(Append(deferQueue, u), v) = Pos(deferQueue, v)
           /\ Pos(taskQueue, v) = {} =>
                \E i : Pos(Append(taskQueue, v), v) = {i}
           /\ Pos(deferQueue, v) = {} =>
                \E i : Pos(Append(deferQueue, v), v) = {i}
<1> DEFINE S == VB \cup {Sentinel}
<1>1. taskQueue \in Seq(S) /\ deferQueue \in Seq(S) /\ u \in S /\ v \in S
  BY DEF QueueType
<1> HIDE DEF S
<1>2. u # v => /\ Pos(Append(taskQueue, u), v) = Pos(taskQueue, v)
               /\ Pos(Append(deferQueue, u), v) = Pos(deferQueue, v)
  BY <1>1, PosAppend
<1>3. Pos(taskQueue, v) = {} =>
        Pos(Append(taskQueue, v), v) = {Len(taskQueue) + 1}
  BY <1>1, PosAppend
<1>4. Pos(deferQueue, v) = {} =>
        Pos(Append(deferQueue, v), v) = {Len(deferQueue) + 1}
  BY <1>1, PosAppend
<1> QED BY <1>2, <1>3, <1>4

\* Taking the head of a queue removes its place and shifts the others.
LEMMA PosTail ==
    ASSUME NEW S, NEW s \in Seq(S), s # <<>>, NEW x, AtMostOne(Pos(s, x))
    PROVE  /\ AtMostOne(Pos(Tail(s), x))
           /\ Head(s) # x => (Pos(Tail(s), x) = {} <=> Pos(s, x) = {})
           /\ Head(s) = x => Pos(s, x) # {} /\ Pos(Tail(s), x) = {}
<1>1. /\ Len(s) \in Nat /\ Len(s) > 0 /\ DOMAIN s = 1..Len(s)
      /\ Head(s) = s[1]
  BY EmptySeq, LenProperties, HeadTailProperties
<1>2. /\ DOMAIN Tail(s) = 1..(Len(s) - 1)
      /\ \A i \in 1..(Len(s) - 1) : Tail(s)[i] = s[i + 1]
  BY <1>1, HeadTailProperties, LenProperties
<1>3. \A i \in Pos(Tail(s), x) : i + 1 \in Pos(s, x) /\ i \in Nat \ {0}
  BY <1>1, <1>2 DEF Pos
<1>4. \A i \in Pos(s, x) : i = 1 \/ i - 1 \in Pos(Tail(s), x)
  BY <1>1, <1>2 DEF Pos
<1>5. 1 \in Pos(s, x) <=> Head(s) = x
  BY <1>1 DEF Pos
<1>6. AtMostOne(Pos(Tail(s), x))
  <2> SUFFICES ASSUME NEW i \in Pos(Tail(s), x), NEW j \in Pos(Tail(s), x) PROVE i = j
    BY DEF AtMostOne
  <2>1. i + 1 = j + 1 /\ i \in Nat /\ j \in Nat
    BY <1>3 DEF AtMostOne
  <2> QED BY <2>1
<1>7. ASSUME Head(s) # x PROVE Pos(Tail(s), x) = {} <=> Pos(s, x) = {}
  BY <1>3, <1>4, <1>5, <1>7
<1>8. ASSUME Head(s) = x PROVE Pos(s, x) # {} /\ Pos(Tail(s), x) = {}
  <2>1. ASSUME NEW i \in Pos(Tail(s), x) PROVE FALSE
    <3>1. i + 1 = 1 /\ i \in Nat \ {0}
      BY <1>3, <1>5, <1>8, <2>1 DEF AtMostOne
    <3> QED BY <3>1
  <2> QED BY <1>5, <1>8, <2>1
<1> QED BY <1>6, <1>7, <1>8

\* Queueing sentinels adds no place of a vbucket.
LEMMA PosSentinels ==
    ASSUME NEW S, NEW s \in Seq(S), Sentinel \in S, NEW n \in Nat, NEW x, x # Sentinel
    PROVE  Pos(s \o Sentinels(n), x) = Pos(s, x)
<1>1. Sentinels(n) \in Seq(S) /\ Len(Sentinels(n)) = n
  BY SentinelsType, SeqMonotonic
<1>2. /\ Len(s) \in Nat /\ DOMAIN s = 1..Len(s)
      /\ Len(s \o Sentinels(n)) = Len(s) + n
      /\ DOMAIN (s \o Sentinels(n)) = 1..(Len(s) + n)
  <2>1. s \o Sentinels(n) \in Seq(S) /\ Len(s \o Sentinels(n)) = Len(s) + n
    BY <1>1, ConcatProperties
  <2>2. DOMAIN (s \o Sentinels(n)) = 1..Len(s \o Sentinels(n))
    BY <2>1, LenProperties
  <2> QED BY <2>1, <2>2, LenProperties
<1>3. \A i \in 1..Len(s) : (s \o Sentinels(n))[i] = s[i]
  BY <1>1, <1>2, ConcatProperties
<1>4. \A i \in 1..(Len(s) + n) : i > Len(s) => (s \o Sentinels(n))[i] = Sentinel
  BY <1>1, <1>2, ConcatProperties DEF Sentinels
<1> QED BY <1>2, <1>3, <1>4 DEF Pos

\* The five places a vbucket's task can be in.
Tasks(v)   == Pos(taskQueue, v)
Defers(v)  == Pos(deferQueue, v)
Arming(v)  == {t \in IOThreads : iopc[t] = "submit" /\ Head(touched[t]) = v}
Running(v) == {w \in Workers : wpc[w] \in OwningPc /\ wvb[w] = v}

\* Every place holds at most one task of v, at most one of the places holds
\* one, and the flag says whether one does.
Own(v) ==
    /\ AtMostOne(Tasks(v)) /\ AtMostOne(Defers(v))
    /\ AtMostOne(Arming(v)) /\ AtMostOne(Running(v))
    /\ Tasks(v) # {} => /\ Defers(v) = {} /\ deferHeld # v
                        /\ Arming(v) = {} /\ Running(v) = {}
    /\ Defers(v) # {} => deferHeld # v /\ Arming(v) = {} /\ Running(v) = {}
    /\ deferHeld = v => Arming(v) = {} /\ Running(v) = {}
    /\ Arming(v) # {} => Running(v) = {}
    /\ scheduled[v] <=> \/ Tasks(v) # {} \/ Defers(v) # {} \/ deferHeld = v
                        \/ Arming(v) # {} \/ Running(v) # {}

\* A step that leaves v's places and flag alone.
LEMMA OwnSame ==
    ASSUME NEW v \in VB, Own(v), Tasks(v)' = Tasks(v), Defers(v)' = Defers(v),
           Arming(v)' = Arming(v), Running(v)' = Running(v),
           deferHeld' = v <=> deferHeld = v, scheduled'[v] = scheduled[v]
    PROVE  Own(v)'
  BY DEF Own, AtMostOne

\* A step that moves v's task to the end of a queue.
LEMMA OwnQueued ==
    ASSUME NEW v \in VB, Own(v), scheduled[v], scheduled'[v] = scheduled[v],
           Arming(v)' = {}, Running(v)' = {}, deferHeld' # v,
           \/ (\E i : Tasks(v)' = {i}) /\ Defers(v)' = {}
           \/ (\E i : Defers(v)' = {i}) /\ Tasks(v)' = {}
    PROVE  Own(v)'
  BY DEF Own, AtMostOne

\* Steps of an IO thread: only the one that wins the flag becomes an owner, and
\* submitting hands the ownership to a queue.
LEMMA IOOwn ==
    ASSUME TypeInv, NEW t \in IOThreads, NEW v \in VB, Own(v)
    PROVE  (\E u \in VB, k \in Key : StageWrite(t, u, k)) \/ RefuseWrite(t) \/ IOStep(t)
             => Own(v)'
<1>0. IOType /\ VBType /\ QueueType
  BY DEF TypeInv, TypeOK
<1>1. ASSUME NEW u \in VB, NEW k \in Key, StageWrite(t, u, k) PROVE Own(v)'
  <2>1. Arming(v)' = Arming(v)
    BY <1>0, <1>1 DEF StageWrite, Arming, IOType
  <2> QED BY <1>1, <2>1, OwnSame DEF StageWrite, Tasks, Defers, Running, vbVars,
                                     queueVars, deferVars, workerVars
<1>2. ASSUME RefuseWrite(t) PROVE Own(v)'
  BY <1>2, OwnSame DEF RefuseWrite, Tasks, Defers, Arming, Running, ioVars, vbVars,
                       queueVars, deferVars, workerVars
<1>3. ASSUME FlushStaged(t) \/ InsertChain(t) \/ CountPushed(t) PROVE Own(v)'
  <2>1. Arming(v)' = Arming(v)
    BY <1>0, <1>3 DEF FlushStaged, InsertChain, CountPushed, Arming, IOType
  <2> QED BY <1>3, <2>1, OwnSame DEF FlushStaged, InsertChain, CountPushed, Tasks,
                          Defers, Running, vbVars, queueVars, deferVars, workerVars
<1>4. ASSUME Arm(t) PROVE Own(v)'
  <2>1. UNCHANGED <<queueVars, deferVars, workerVars>>
    BY <1>4 DEF Arm
  <2>2. /\ Tasks(v)' = Tasks(v) /\ Defers(v)' = Defers(v)
        /\ Running(v)' = Running(v) /\ deferHeld' = deferHeld
    BY <2>1 DEF queueVars, deferVars, workerVars, Tasks, Defers, Running
  <2>3. CASE Head(touched[t]) = v /\ ~scheduled[v]
    <3>1. Arming(v) = {} /\ Tasks(v) = {} /\ Defers(v) = {} /\ Running(v) = {}
          /\ deferHeld # v
      BY <2>3 DEF Own
    <3>2. Arming(v)' = {t}
      BY <1>0, <1>4, <2>3, <3>1 DEF Arm, Arming, IOType
    <3>3. scheduled'[v]
      BY <1>0, <1>4, <2>3 DEF Arm, VBType
    <3> QED BY <2>2, <3>1, <3>2, <3>3 DEF Own, AtMostOne
  <2>4. CASE Head(touched[t]) # v \/ scheduled[v]
    <3>1. scheduled'[v] = scheduled[v]
      BY <1>0, <1>4, <2>4 DEF Arm, VBType
    <3>2. Arming(v)' = Arming(v)
      BY <1>0, <1>4, <2>4 DEF Arm, NextTouched, Arming, IOType
    <3> QED BY <2>2, <3>1, <3>2, OwnSame
  <2> QED BY <2>3, <2>4
<1>5. ASSUME Submit(t) PROVE Own(v)'
  <2> DEFINE u == Head(touched[t])
  <2>1. u \in VB
    BY <1>5, FlushHead DEF Submit
  <2>2. Running(v)' = Running(v) /\ deferHeld' = deferHeld /\ scheduled' = scheduled
    BY <1>5 DEF Submit, Running, vbVars, deferVars, workerVars
  <2>3. \/ taskQueue' = Append(taskQueue, u) /\ deferQueue' = deferQueue
        \/ deferQueue' = Append(deferQueue, u) /\ taskQueue' = taskQueue
    BY <1>5 DEF Submit, SubmitOrDefer, BlockingWrite
  <2>4. t \in Arming(u)
    BY <1>5 DEF Submit, Arming
  <2>5. ASSUME NEW i \in IOThreads
        PROVE  /\ i # t => iopc'[i] = iopc[i] /\ touched'[i] = touched[i]
               /\ i = t => iopc'[i] # "submit"
    BY <1>0, <1>5 DEF Submit, NextTouched, IOType
  <2> HIDE DEF u
  <2>6. CASE u # v
    <3>1. Tasks(v)' = Tasks(v) /\ Defers(v)' = Defers(v)
      BY <1>0, <2>1, <2>3, <2>6, PosSubmit DEF Tasks, Defers
    <3>2. Arming(v)' = Arming(v)
      BY <1>5, <2>5, <2>6 DEF Arming, Submit, u
    <3> QED BY <2>2, <3>1, <3>2, OwnSame
  <2>7. CASE u = v
    <3>1. Tasks(v) = {} /\ Defers(v) = {} /\ Running(v) = {} /\ deferHeld # v
          /\ scheduled[v]
      BY <2>4, <2>7 DEF Own
    <3>2. Arming(v)' = {}
      BY <2>4, <2>5, <2>7 DEF Own, AtMostOne, Arming
    <3>3. \/ (\E i : Tasks(v)' = {i}) /\ Defers(v)' = {}
          \/ (\E i : Defers(v)' = {i}) /\ Tasks(v)' = {}
      BY <1>0, <2>3, <2>7, <3>1, PosSubmit DEF Tasks, Defers
    <3> QED BY <2>2, <3>1, <3>2, <3>3, OwnQueued
  <2> QED BY <2>6, <2>7
<1> QED BY <1>1, <1>2, <1>3, <1>4, <1>5 DEF IOStep

\* Steps of the coalescing thread move a task from queue to hand to queue.
LEMMA DeferOwn ==
    ASSUME TypeInv, NEW v \in VB, Own(v)
    PROVE  DeferStep => Own(v)'
<1>0. QueueType /\ DeferType /\ v # Sentinel /\ v # NoVB
  BY Sets DEF TypeInv, TypeOK
<1>1. deferQueue # <<>> =>
        /\ AtMostOne(Pos(Tail(deferQueue), v))
        /\ Head(deferQueue) # v => (Pos(Tail(deferQueue), v) = {} <=> Defers(v) = {})
        /\ Head(deferQueue) = v => Defers(v) # {} /\ Pos(Tail(deferQueue), v) = {}
  BY <1>0, PosTail DEF QueueType, Own, Defers
<1>2. ASSUME DeferTake \/ DeferDrain PROVE Own(v)'
  <2>1. /\ Tasks(v)' = Tasks(v) /\ Arming(v)' = Arming(v) /\ Running(v)' = Running(v)
        /\ scheduled' = scheduled /\ deferHeld = NoVB
    BY <1>2 DEF DeferTake, DeferDrain, Tasks, Arming, Running, ioVars, vbVars, workerVars
  <2>2. CASE deferQueue = <<>>
    <3>1. deferHeld' = deferHeld /\ deferQueue' = deferQueue
      BY <1>2, <2>2 DEF DeferTake, DeferDrain
    <3> QED BY <2>1, <3>1, OwnSame DEF Defers
  <2>3. CASE deferQueue # <<>> /\ Head(deferQueue) # v
    <3>1. deferHeld' # v /\ deferQueue' = Tail(deferQueue)
      BY <1>0, <1>2, <2>1, <2>3 DEF DeferTake, DeferDrain
    <3>2. AtMostOne(Defers(v)') /\ (Defers(v)' = {} <=> Defers(v) = {})
      BY <1>1, <2>3, <3>1 DEF Defers
    <3> QED BY <1>0, <2>1, <3>1, <3>2 DEF Own
  <2>4. CASE deferQueue # <<>> /\ Head(deferQueue) = v
    <3>1. deferHeld' = v /\ deferQueue' = Tail(deferQueue)
      BY <1>0, <1>2, <2>4 DEF DeferTake, DeferDrain
    <3>2. Defers(v)' = {} /\ Defers(v) # {}
      BY <1>1, <2>4, <3>1 DEF Defers
    <3> QED BY <2>1, <3>1, <3>2 DEF Own, AtMostOne
  <2> QED BY <2>2, <2>3, <2>4
<1>3. ASSUME DeferSubmit PROVE Own(v)'
  <2>1. /\ Defers(v)' = Defers(v) /\ Arming(v)' = Arming(v) /\ Running(v)' = Running(v)
        /\ scheduled' = scheduled /\ deferHeld' # v /\ deferHeld \in VB
        /\ taskQueue' = Append(taskQueue, deferHeld)
    BY <1>0, <1>3 DEF DeferSubmit, DeferType, Defers, Arming, Running, ioVars, vbVars,
                      workerVars
  <2>2. CASE deferHeld # v
    <3>1. Tasks(v)' = Tasks(v)
      BY <1>0, <2>1, <2>2, PosSubmit DEF Tasks
    <3> QED BY <2>1, <2>2, <3>1, OwnSame
  <2>3. CASE deferHeld = v
    <3>1. Tasks(v) = {} /\ Defers(v) = {} /\ Arming(v) = {} /\ Running(v) = {}
          /\ scheduled[v]
      BY <2>3 DEF Own
    <3>2. \E i : Tasks(v)' = {i}
      BY <1>0, <2>1, <2>3, <3>1, PosSubmit DEF Tasks
    <3> QED BY <2>1, <3>1, <3>2, OwnQueued
  <2> QED BY <2>2, <2>3
<1> QED BY <1>2, <1>3 DEF DeferStep

\* Steps of a writer: it takes a task over, gives the flag back, or wins it again
\* and resubmits.
LEMMA WorkerOwn ==
    ASSUME TypeInv, NEW w \in Workers, NEW v \in VB, Own(v)
    PROVE  WorkerStep(w) => Own(v)'
<1>0. QueueType /\ WorkerType /\ VBType /\ v # Sentinel /\ v # NoVB
  BY Sets DEF TypeInv, TypeOK
<1>1. ASSUME TakeTask(w) PROVE Own(v)'
  <2>1. /\ Defers(v)' = Defers(v) /\ Arming(v)' = Arming(v) /\ scheduled' = scheduled
        /\ deferHeld' = deferHeld /\ taskQueue' = Tail(taskQueue) /\ taskQueue # <<>>
        /\ wpc[w] = "idle"
    BY <1>1 DEF TakeTask, Defers, Arming, ioVars, vbVars, deferVars
  <2>2. /\ AtMostOne(Pos(Tail(taskQueue), v))
        /\ Head(taskQueue) # v => (Pos(Tail(taskQueue), v) = {} <=> Tasks(v) = {})
        /\ Head(taskQueue) = v => Tasks(v) # {} /\ Pos(Tail(taskQueue), v) = {}
    BY <1>0, <2>1, PosTail DEF QueueType, Own, Tasks
  <2>3. CASE Head(taskQueue) # v
    <3>1. Running(v)' = Running(v)
      <4>1. ASSUME NEW u \in Workers
            PROVE  /\ u # w => wpc'[u] = wpc[u] /\ wvb'[u] = wvb[u]
                   /\ u = w => ~(wpc'[u] \in OwningPc /\ wvb'[u] = v)
        BY <1>0, <1>1, <2>3 DEF TakeTask, WorkerType, OwningPc
      <4> QED BY <2>1, <4>1 DEF Running, OwningPc
    <3> QED BY <2>1, <2>2, <2>3, <3>1 DEF Own, Tasks
  <2>4. CASE Head(taskQueue) = v
    <3>1. Running(v) = {} /\ Arming(v) = {} /\ Defers(v) = {} /\ deferHeld # v
          /\ scheduled[v]
      BY <2>2, <2>4 DEF Own
    <3>2. Running(v)' = {w}
      <4>1. wpc'[w] = "sweep" /\ wvb'[w] = v
        BY <1>0, <1>1, <2>4 DEF TakeTask, WorkerType
      <4>2. ASSUME NEW u \in Workers, u # w
            PROVE  wpc'[u] = wpc[u] /\ wvb'[u] = wvb[u]
        BY <1>0, <1>1, <4>2 DEF TakeTask, WorkerType
      <4> QED BY <3>1, <4>1, <4>2 DEF Running, OwningPc
    <3>3. Tasks(v)' = {}
      BY <2>1, <2>2, <2>4 DEF Tasks
    <3> QED BY <2>1, <3>1, <3>2, <3>3 DEF Own, AtMostOne
  <2> QED BY <2>3, <2>4
<1>2. ASSUME Sweep(w) \/ CountSwept(w) \/ WriteDocs(w) \/ Complete(w) PROVE Own(v)'
  <2>1. Running(v)' = Running(v)
    <3>1. /\ wpc[w] \in OwningPc /\ wpc'[w] \in OwningPc /\ wvb' = wvb
          /\ \A u \in Workers : u # w => wpc'[u] = wpc[u]
      BY <1>0, <1>2 DEF Sweep, CountSwept, WriteDocs, Complete, WorkerType, OwningPc
    <3> QED BY <3>1 DEF Running
  <2> QED BY <1>2, <2>1, OwnSame DEF Sweep, CountSwept, WriteDocs, Complete, Tasks,
                         Defers, Arming, ioVars, vbVars, queueVars, deferVars
<1>3. ASSUME Release(w) PROVE Own(v)'
  <2>1. /\ Tasks(v)' = Tasks(v) /\ Defers(v)' = Defers(v) /\ Arming(v)' = Arming(v)
        /\ deferHeld' = deferHeld
    BY <1>3 DEF Release, Tasks, Defers, Arming, ioVars, queueVars, deferVars
  <2>2. /\ wpc[w] \in OwningPc /\ wpc'[w] \notin OwningPc /\ wvb' = wvb
        /\ \A u \in Workers : u # w => wpc'[u] = wpc[u]
    BY <1>0, <1>3 DEF Release, WorkerType, OwningPc
  <2>3. CASE wvb[w] # v
    <3>1. Running(v)' = Running(v)
      BY <2>2, <2>3 DEF Running
    <3>2. scheduled'[v] = scheduled[v]
      BY <1>0, <1>3, <2>3 DEF Release, VBType
    <3> QED BY <2>1, <3>1, <3>2, OwnSame
  <2>4. CASE wvb[w] = v
    <3>1. w \in Running(v)
      BY <2>2, <2>4 DEF Running
    <3>2. Tasks(v) = {} /\ Defers(v) = {} /\ Arming(v) = {} /\ deferHeld # v
      BY <3>1 DEF Own
    <3>3. Running(v)' = {}
      BY <2>2, <3>1 DEF Own, AtMostOne, Running
    <3>4. ~scheduled'[v]
      BY <1>0, <1>3, <2>4 DEF Release, VBType
    <3> QED BY <2>1, <3>2, <3>3, <3>4 DEF Own, AtMostOne
  <2> QED BY <2>3, <2>4
<1>4. ASSUME Recheck(w) PROVE Own(v)'
  <2>1. Running(v)' = Running(v)
    <3>1. /\ wpc[w] \notin OwningPc /\ wpc'[w] \notin OwningPc
          /\ \A u \in Workers : u # w => wpc'[u] = wpc[u] /\ wvb'[u] = wvb[u]
      BY <1>0, <1>4 DEF Recheck, Return, WorkerType, OwningPc
    <3> QED BY <3>1 DEF Running
  <2> QED BY <1>4, <2>1, OwnSame DEF Recheck, Tasks, Defers, Arming, ioVars, vbVars,
                                     queueVars, deferVars
<1>5. ASSUME Rearm(w) PROVE Own(v)'
  <2>1. /\ Tasks(v)' = Tasks(v) /\ Defers(v)' = Defers(v) /\ Arming(v)' = Arming(v)
        /\ deferHeld' = deferHeld
    BY <1>5 DEF Rearm, Tasks, Defers, Arming, ioVars, queueVars, deferVars
  <2>2. /\ wpc[w] \notin OwningPc
        /\ \A u \in Workers : u # w => wpc'[u] = wpc[u] /\ wvb'[u] = wvb[u]
    BY <1>0, <1>5 DEF Rearm, Return, WorkerType, OwningPc
  <2>3. CASE wvb[w] = v /\ ~scheduled[v]
    <3>1. Tasks(v) = {} /\ Defers(v) = {} /\ Arming(v) = {} /\ Running(v) = {}
          /\ deferHeld # v
      BY <2>3 DEF Own
    <3>2. wpc'[w] = "resubmit" /\ wvb'[w] = v /\ scheduled'[v]
      BY <1>0, <1>5, <2>3 DEF Rearm, WorkerType, VBType
    <3>3. Running(v)' = {w}
      BY <2>2, <3>1, <3>2 DEF Running, OwningPc
    <3> QED BY <2>1, <3>1, <3>2, <3>3 DEF Own, AtMostOne
  <2>4. CASE wvb[w] # v \/ scheduled[v]
    <3>1. scheduled'[v] = scheduled[v]
      BY <1>0, <1>5, <2>4 DEF Rearm, VBType
    <3>2. ~(wpc'[w] \in OwningPc /\ wvb'[w] = v)
      BY <1>0, <1>5, <2>4 DEF Rearm, Return, WorkerType, OwningPc
    <3>3. Running(v)' = Running(v)
      BY <2>2, <3>2 DEF Running
    <3> QED BY <2>1, <3>1, <3>3, OwnSame
  <2> QED BY <2>3, <2>4
<1>6. ASSUME Resubmit(w) PROVE Own(v)'
  <2> DEFINE u == wvb[w]
  <2>1. u \in VB
    BY <1>6 DEF Resubmit, TypeInv, MidCall, InCall
  <2>2. Arming(v)' = Arming(v) /\ deferHeld' = deferHeld /\ scheduled' = scheduled
    BY <1>6 DEF Resubmit, Arming, ioVars, vbVars, deferVars
  <2>3. \/ taskQueue' = Append(taskQueue, u) /\ deferQueue' = deferQueue
        \/ deferQueue' = Append(deferQueue, u) /\ taskQueue' = taskQueue
    <3>1. CASE batch[w] = <<>>
      BY <1>6, <3>1 DEF Resubmit, BlockingWrite
    <3>2. CASE batch[w] # <<>>
      BY <1>6, <3>2 DEF Resubmit, SubmitOrDefer, BlockingWrite
    <3> QED BY <3>1, <3>2
  <2>4. /\ wpc[w] \in OwningPc /\ wpc'[w] \notin OwningPc
        /\ \A x \in Workers : x # w => wpc'[x] = wpc[x] /\ wvb'[x] = wvb[x]
    BY <1>0, <1>6 DEF Resubmit, Return, WorkerType, OwningPc
  <2>5. CASE u # v
    <3>1. Tasks(v)' = Tasks(v) /\ Defers(v)' = Defers(v)
      <4> HIDE DEF u
      <4> QED BY <1>0, <2>1, <2>3, <2>5, PosSubmit DEF Tasks, Defers
    <3>2. Running(v)' = Running(v)
      BY <2>4, <2>5 DEF Running
    <3> QED BY <2>2, <3>1, <3>2, OwnSame
  <2>6. CASE u = v
    <3>1. w \in Running(v)
      BY <2>4, <2>6 DEF Running
    <3>2. Tasks(v) = {} /\ Defers(v) = {} /\ Arming(v) = {} /\ deferHeld # v
          /\ scheduled[v]
      BY <3>1 DEF Own
    <3>3. Running(v)' = {}
      BY <2>4, <3>1 DEF Own, AtMostOne, Running
    <3>4. \/ (\E i : Tasks(v)' = {i}) /\ Defers(v)' = {}
          \/ (\E i : Defers(v)' = {i}) /\ Tasks(v)' = {}
      BY <1>0, <2>3, <2>6, <3>2, PosSubmit DEF Tasks, Defers
    <3> QED BY <2>2, <3>2, <3>3, <3>4, OwnQueued
  <2> QED BY <2>5, <2>6
<1> QED BY <1>1, <1>2, <1>3, <1>4, <1>5, <1>6 DEF WorkerStep

\* Resizes and the steps of Bucket::Close move no task of a vbucket.
LEMMA OtherOwn ==
    ASSUME TypeInv, NEW v \in VB, Own(v)
    PROVE  (\E u \in Workers : Grow(u))
           \/ (\E n \in 1..Cardinality(Workers) : Shrink(n))
           \/ Reap \/ BeginClose \/ CloseStep \/ Closed \/ UNCHANGED vars => Own(v)'
<1>0. QueueType /\ WorkerType /\ CountType /\ v # Sentinel
  BY Sets DEF TypeInv, TypeOK
<1>1. ASSUME (\E u \in Workers : Grow(u)) \/ Reap \/ JoinWriters PROVE Own(v)'
  <2>1. Running(v)' = Running(v)
    <3>1. CASE \E u \in Workers : Grow(u)
      BY <1>0, <3>1 DEF Grow, Running, WorkerType, OwningPc
    <3>2. CASE Reap
      BY <1>0, <3>2 DEF Reap, Running, WorkerType, OwningPc
    <3>3. CASE JoinWriters
      BY <1>0, <3>3 DEF JoinWriters, Joinable, Running, WorkerType, OwningPc
    <3> QED BY <1>1, <3>1, <3>2, <3>3
  <2> QED BY <1>1, <2>1, OwnSame DEF Grow, Reap, JoinWriters, Tasks, Defers, Arming,
                                     ioVars, vbVars, queueVars, deferVars
<1>2. ASSUME NEW n \in Nat, taskQueue' = taskQueue \o Sentinels(n),
             UNCHANGED <<ioVars, vbVars, deferQueue, deferVars, workerVars>>
      PROVE  Own(v)'
  <2>1. Tasks(v)' = Tasks(v)
    BY <1>0, <1>2, PosSentinels DEF Tasks, QueueType
  <2> QED BY <1>2, <2>1, OwnSame DEF Defers, Arming, Running, ioVars, vbVars,
                                     deferVars, workerVars
<1>3. ASSUME NEW n \in 1..Cardinality(Workers), Shrink(n) PROVE Own(v)'
  <2>1. ShrinkBy(n) \in Nat
    BY <1>0 DEF ShrinkBy, CountType
  <2> QED BY <1>2, <1>3, <2>1 DEF Shrink
<1>4. ASSUME StopWriters PROVE Own(v)'
  <2>1. Cardinality(Joinable) \in Nat
    BY Sets, FS_Subset, FS_CardinalityType DEF Joinable
  <2> QED BY <1>2, <1>4, <2>1 DEF StopWriters
<1>5. ASSUME StopDefer PROVE Own(v)'
  <2>1. Defers(v)' = Defers(v)
    <3>1. Pos(Append(deferQueue, Sentinel), v) = Pos(deferQueue, v)
      BY <1>0, PosAppend DEF QueueType
    <3> QED BY <1>5, <3>1 DEF StopDefer, Defers
  <2> QED BY <1>5, <2>1, OwnSame DEF StopDefer, Tasks, Arming, Running, ioVars, vbVars,
                                     deferVars, workerVars
<1>6. ASSUME BeginClose \/ DrainWrites \/ JoinDefer \/ Closed \/ UNCHANGED vars
      PROVE  Own(v)'
  <2>1. UNCHANGED <<ioVars, vbVars, queueVars, deferVars, workerVars>>
    BY <1>6 DEF BeginClose, DrainWrites, JoinDefer, Closed, vars
  <2> QED BY <2>1, OwnSame DEF Tasks, Defers, Arming, Running, ioVars, vbVars,
                               queueVars, deferVars, workerVars
<1> QED BY <1>1, <1>3, <1>4, <1>5, <1>6 DEF CloseStep

\* Own(v) is what SingleOwner says of v.
LEMMA OwnIsSingleOwner ==
    ASSUME NEW v \in VB, Own(v)
    PROVE  /\ Cardinality(Holders(v)) <= 1
           /\ scheduled[v] <=> Holders(v) # {}
<1>1. ASSUME NEW x \in Holders(v), NEW y \in Holders(v) PROVE x = y
  BY DEF Holders, Own, AtMostOne, Tasks, Defers, Arming, Running, Pos
<1>2. scheduled[v] <=> Holders(v) # {}
  BY DEF Holders, Own, Tasks, Defers, Arming, Running, Pos
<1>3. CASE Holders(v) = {}
  BY <1>2, <1>3, FS_EmptySet
<1>4. CASE Holders(v) # {}
  <2>1. PICK x : Holders(v) = {x}
    BY <1>1, <1>4
  <2> QED BY <1>2, <2>1, FS_Singleton
<1> QED BY <1>3, <1>4

\* Whatever the interleaving of IO threads, coalescing thread, writers, resizes
\* and shutdown, a vbucket never has two tasks, so no two writers ever run
\* executePersist on one vbucket, and its flag is up exactly while it has one.
THEOREM OneOwner == Spec => []SingleOwner
<1> DEFINE AllOwn == \A v \in VB : Own(v)
<1>1. Init => AllOwn
  BY Sets DEF Init, Own, AtMostOne, Tasks, Defers, Arming, Running, Pos, OwningPc
<1>2. TypeInv /\ AllOwn /\ [Next]_vars => AllOwn'
  <2> SUFFICES ASSUME TypeInv, [Next]_vars, NEW v \in VB, Own(v) PROVE Own(v)'
    OBVIOUS
  <2> QED BY IOOwn, DeferOwn, WorkerOwn, OtherOwn DEF Next
<1>3. AllOwn => SingleOwner
  BY OwnIsSingleOwner DEF SingleOwner
<1>4. Init => TypeInv /\ AllOwn
  BY <1>1, InitTypeInv
<1>5. TypeInv /\ AllOwn /\ [Next]_vars => (TypeInv /\ AllOwn)'
  BY <1>2, NextTypeInv
<1> HIDE DEF AllOwn
<1> QED BY <1>3, <1>4, <1>5, PTL DEF Spec

-----------------------------------------------------------------------------
(* The refinement: under the mapping Store every step of WriteQueue is a   *)
(* step of the ordered per-vbucket store VBucketStore, or leaves it alone. *)

\* Reversing a chain pushed on a stack puts the chain after the stack.
LEMMA ReverseConcat ==
    ASSUME NEW S, NEW s \in Seq(S), NEW t \in Seq(S)
    PROVE  Reverse(s \o t) = Reverse(t) \o Reverse(s)
<1>1. s \o t \in Seq(S) /\ Len(s \o t) = Len(s) + Len(t)
  BY ConcatProperties
<1>2. /\ Reverse(s) \in Seq(S) /\ Len(Reverse(s)) = Len(s)
      /\ Reverse(t) \in Seq(S) /\ Len(Reverse(t)) = Len(t)
      /\ Reverse(s \o t) \in Seq(S) /\ Len(Reverse(s \o t)) = Len(s) + Len(t)
  BY <1>1, ReverseType
<1>3. /\ Reverse(t) \o Reverse(s) \in Seq(S)
      /\ Len(Reverse(t) \o Reverse(s)) = Len(t) + Len(s)
  BY <1>2, ConcatProperties
<1>4. Len(s) \in Nat /\ Len(t) \in Nat
  BY LenProperties
<1>5. ASSUME NEW i \in 1..(Len(s) + Len(t))
      PROVE  Reverse(s \o t)[i] = (Reverse(t) \o Reverse(s))[i]
  <2> DEFINE j == (Len(s) + Len(t) - i) + 1
  <2>1. j \in 1..(Len(s) + Len(t))
    BY <1>4
  <2>2. Reverse(s \o t)[i] = (s \o t)[j]
    BY <1>1, <1>4 DEF Reverse
  <2>3. (s \o t)[j] = IF j <= Len(s) THEN s[j] ELSE t[j - Len(s)]
    BY <2>1, ConcatProperties
  <2>4. (Reverse(t) \o Reverse(s))[i] =
           IF i <= Len(t) THEN Reverse(t)[i] ELSE Reverse(s)[i - Len(t)]
    BY <1>2, <1>4, ConcatProperties
  <2>5. CASE i <= Len(t)
    <3>1. Reverse(t)[i] = t[(Len(t) - i) + 1]
      BY <1>4, <2>5 DEF Reverse
    <3>2. ~(j <= Len(s)) /\ j - Len(s) = (Len(t) - i) + 1
      BY <1>4, <2>5
    <3> QED BY <2>2, <2>3, <2>4, <2>5, <3>1, <3>2
  <2>6. CASE ~(i <= Len(t))
    <3>1. i - Len(t) \in 1..Len(s)
      BY <1>4, <2>6
    <3>2. Reverse(s)[i - Len(t)] = s[(Len(s) - (i - Len(t))) + 1]
      BY <3>1 DEF Reverse
    <3>3. j <= Len(s) /\ j = (Len(s) - (i - Len(t))) + 1
      BY <1>4, <2>6
    <3> QED BY <2>2, <2>3, <2>4, <2>6, <3>2, <3>3
  <2> QED BY <2>5, <2>6
<1> HIDE DEF Reverse
<1> QED BY <1>2, <1>3, <1>4, <1>5, SeqEqual

\* The empty chain reversed.
LEMMA ReverseEmpty == Reverse(<<>>) = <<>>
<1>1. <<>> \in Seq({}) /\ Len(<<>>) = 0
  BY EmptySeq
<1>2. Reverse(<<>>) \in Seq({}) /\ Len(Reverse(<<>>)) = 0
  BY <1>1, ReverseType
<1> QED BY <1>2, EmptySeq

-----------------------------------------------------------------------------
(* The invariant behind the refinement *)

\* A writer hands magma no empty batch.
NonEmptyWrite == \A w \in Workers : wpc[w] = "write" => batch[w] # <<>>

\* The documents of a vbucket have different seqnos, none above the highest
\* one handed out.
SeqnosFresh ==
    \A v \in VB : \A k \in Key :
        /\ disk[v][k].seqno <= seqno[v]
        /\ \A l \in Key : disk[v][k].seqno = disk[v][l].seqno
                            => k = l \/ disk[v][k].seqno = 0

AllOwn == \A v \in VB : Own(v)

RInv == TypeInv /\ AllOwn /\ NonEmptyWrite /\ SeqnosFresh

\* Seqnos of a batch: every operation has its own, above the ones before it.
LEMMA RankProperties ==
    ASSUME NEW b \in Seq(Request), NEW doSort \in BOOLEAN
    PROVE  /\ NumOps(b, doSort) \in Nat
           /\ \A k \in KeysOf(b) :
                /\ OpRank(b, doSort, Newest(b, k)) \in 1..NumOps(b, doSort)
                /\ \A l \in KeysOf(b) : OpRank(b, doSort, Newest(b, k))
                                          = OpRank(b, doSort, Newest(b, l)) => k = l
<1>1. Len(b) \in Nat /\ DOMAIN b = 1..Len(b)
  BY LenProperties
<1>2. IsFiniteSet(KeysOf(b)) /\ KeysOf(b) \subseteq Nat
  <2>1. KeysOf(b) \subseteq Key
    BY KeysOfFinite
  <2> QED BY <2>1, Sets, FS_Subset
<1>3. CASE ~doSort
  BY <1>1, <1>3, NewestExists DEF NumOps, OpRank
<1>4. CASE doSort
  <2> DEFINE upTo(k) == {x \in KeysOf(b) : x <= k}
  <2>1. \A k \in KeysOf(b) : OpRank(b, doSort, Newest(b, k)) = Cardinality(upTo(k))
    BY <1>4, NewestExists DEF OpRank
  <2>2. ASSUME NEW k \in KeysOf(b)
        PROVE  Cardinality(upTo(k)) \in 1..Cardinality(KeysOf(b))
    <3>1. IsFiniteSet(upTo(k)) /\ Cardinality(upTo(k)) <= Cardinality(KeysOf(b))
      BY <1>2, FS_Subset
    <3>2. upTo(k) # {}
      BY <1>2
    <3>3. Cardinality(upTo(k)) \in Nat /\ Cardinality(KeysOf(b)) \in Nat
      BY <1>2, <3>1, FS_CardinalityType
    <3>4. Cardinality(upTo(k)) # 0
      <4> HIDE DEF upTo
      <4> QED BY <3>1, <3>2, FS_EmptySet
    <3> HIDE DEF upTo
    <3> QED BY <3>1, <3>3, <3>4
  <2>3. ASSUME NEW k \in KeysOf(b), NEW l \in KeysOf(b), k < l
        PROVE  Cardinality(upTo(k)) # Cardinality(upTo(l))
    <3>1. IsFiniteSet(upTo(l))
      BY <1>2, FS_Subset
    <3>2. upTo(k) \subseteq upTo(l) /\ l \in upTo(l) /\ l \notin upTo(k)
      BY <1>2, <2>3
    <3> HIDE DEF upTo
    <3> QED BY <3>1, <3>2, FS_Subset
  <2>4. \A k, l \in KeysOf(b) : Cardinality(upTo(k)) = Cardinality(upTo(l)) => k = l
    <3> HIDE DEF upTo
    <3>1. \A k, l \in KeysOf(b) : k < l \/ l < k \/ k = l
      BY <1>2
    <3> QED BY <2>3, <3>1
  <2>5. NumOps(b, doSort) = Cardinality(KeysOf(b)) /\ Cardinality(KeysOf(b)) \in Nat
    BY <1>2, <1>4, FS_CardinalityType DEF NumOps
  <2> HIDE DEF upTo
  <2> QED BY <2>1, <2>2, <2>4, <2>5
<1> QED BY <1>3, <1>4

\* What one successful WriteDocs leaves behind for a key.
LEMMA AppliedProperties ==
    ASSUME TypeOK, NEW v \in VB, NEW b \in Seq(Request), NEW doSort \in BOOLEAN,
           WriteBatch(v, b, doSort, TRUE), NEW k \in Key
    PROVE  /\ k \in KeysOf(b) =>
                /\ disk'[v][k].id = b[Newest(b, k)].id
                /\ disk'[v][k].seqno = seqno[v] + OpRank(b, doSort, Newest(b, k))
           /\ k \notin KeysOf(b) => disk'[v][k] = disk[v][k]
<1> DEFINE row == [x \in Key |-> IF x \in KeysOf(b) THEN Applied(v, b, doSort, x)
                                 ELSE disk[v][x]]
<1>1. disk' = [disk EXCEPT ![v] = row]
  BY DEF WriteBatch
<1>2. disk'[v] = row
  <2> HIDE DEF row
  <2> QED BY <1>1 DEF TypeOK, StoreType
<1>3. disk'[v][k] = IF k \in KeysOf(b) THEN Applied(v, b, doSort, k) ELSE disk[v][k]
  BY <1>2
<1>4. /\ Applied(v, b, doSort, k).id = b[Newest(b, k)].id
      /\ Applied(v, b, doSort, k).seqno = seqno[v] + OpRank(b, doSort, Newest(b, k))
  BY DEF Applied
<1> QED BY <1>3, <1>4

\* WriteDocs keeps the seqnos of a vbucket's documents fresh.
LEMMA WriteKeepsFresh ==
    ASSUME TypeOK, SeqnosFresh, NEW u \in VB, NEW b \in Seq(Request),
           NEW doSort \in BOOLEAN, NEW ok \in BOOLEAN, WriteBatch(u, b, doSort, ok)
    PROVE  SeqnosFresh'
<1> SUFFICES ASSUME NEW v \in VB, NEW k \in Key
             PROVE  /\ disk'[v][k].seqno <= seqno'[v]
                    /\ \A l \in Key : disk'[v][k].seqno = disk'[v][l].seqno
                                        => k = l \/ disk'[v][k].seqno = 0
  BY DEF SeqnosFresh
<1>0. /\ seqno[v] \in Nat /\ \A x \in Key : disk[v][x].seqno \in Nat
      /\ NumOps(b, doSort) \in Nat
  BY RankProperties DEF TypeOK, StoreType, Doc
<1>1. /\ seqno'[v] = IF v = u THEN seqno[v] + NumOps(b, doSort) ELSE seqno[v]
      /\ v # u \/ ~ok => disk'[v] = disk[v]
  BY DEF WriteBatch, TypeOK, StoreType
<1>2. CASE v # u \/ ~ok
  BY <1>0, <1>1, <1>2 DEF SeqnosFresh
<1>3. CASE v = u /\ ok
  <2>1. WriteBatch(v, b, doSort, TRUE)
    <3>1. ok = TRUE
      BY <1>3
    <3> QED BY <1>3, <3>1
  <2>2. ASSUME NEW x \in Key
        PROVE  /\ x \in KeysOf(b) => disk'[v][x].seqno =
                                     seqno[v] + OpRank(b, doSort, Newest(b, x))
               /\ x \notin KeysOf(b) => disk'[v][x] = disk[v][x]
    BY <2>1, AppliedProperties
  <2>3. \A x \in KeysOf(b) :
           /\ OpRank(b, doSort, Newest(b, x)) \in 1..NumOps(b, doSort)
           /\ \A y \in KeysOf(b) : OpRank(b, doSort, Newest(b, x))
                                     = OpRank(b, doSort, Newest(b, y)) => x = y
    BY RankProperties
  <2>4. disk'[v][k].seqno <= seqno'[v]
    BY <1>0, <1>1, <1>3, <2>2, <2>3 DEF SeqnosFresh
  <2>5. ASSUME NEW l \in Key, disk'[v][k].seqno = disk'[v][l].seqno
        PROVE  k = l \/ disk'[v][k].seqno = 0
    <3>1. CASE k \in KeysOf(b) /\ l \in KeysOf(b)
      BY <1>0, <2>2, <2>3, <2>5, <3>1
    <3>2. CASE k \in KeysOf(b) /\ l \notin KeysOf(b)
      BY <1>0, <2>2, <2>3, <2>5, <3>2 DEF SeqnosFresh
    <3>3. CASE k \notin KeysOf(b) /\ l \in KeysOf(b)
      BY <1>0, <2>2, <2>3, <2>5, <3>3 DEF SeqnosFresh
    <3>4. CASE k \notin KeysOf(b) /\ l \notin KeysOf(b)
      BY <2>2, <2>5, <3>4 DEF SeqnosFresh
    <3> QED BY <3>1, <3>2, <3>3, <3>4
  <2> QED BY <2>4, <2>5
<1> QED BY <1>2, <1>3

-----------------------------------------------------------------------------
(* What the steps do to the queue of the abstract store *)

\* Writers with a batch that magma has not seen.
Sweeping(v) == {w \in Workers : wpc[w] \in {"count", "write"} /\ wvb[w] = v}

\* A vbucket's batches are with one writer at a time.
LEMMA OneSweeping ==
    ASSUME NEW v \in VB, Own(v), NEW w \in Workers, wpc[w] \in OwningPc, wvb[w] = v
    PROVE  Sweeping(v) \subseteq {w}
  BY DEF Own, AtMostOne, Running, Sweeping, OwningPc

\* What is swept is that writer's batch, in arrival order.
LEMMA SweptBatch ==
    /\ \A v : Sweeping(v) = {} => Swept(v) = <<>>
    /\ \A v : \A w : Sweeping(v) = {w} =>
          Swept(v) = IF wpc[w] = "count" THEN Reverse(batch[w]) ELSE batch[w]
<1>1. ASSUME NEW v, Sweeping(v) = {} PROVE Swept(v) = <<>>
  BY <1>1 DEF Sweeping, Swept
<1>2. ASSUME NEW v, NEW w, Sweeping(v) = {w}
      PROVE  Swept(v) = IF wpc[w] = "count" THEN Reverse(batch[w]) ELSE batch[w]
  <2>1. (CHOOSE u \in Sweeping(v) : TRUE) = w
    BY <1>2
  <2> QED BY <1>2, <2>1 DEF Sweeping, Swept
<1> QED BY <1>1, <1>2

\* The same of the state after a step.
LEMMA SweptBatchNext ==
    /\ \A v : Sweeping(v)' = {} => Swept(v)' = <<>>
    /\ \A v : \A w : Sweeping(v)' = {w} =>
          Swept(v)' = IF wpc'[w] = "count" THEN Reverse(batch'[w]) ELSE batch'[w]
<1>1. ASSUME NEW v, Sweeping(v)' = {} PROVE Swept(v)' = <<>>
  BY <1>1 DEF Sweeping, Swept
<1>2. ASSUME NEW v, NEW w, Sweeping(v)' = {w}
      PROVE  Swept(v)' = IF wpc'[w] = "count" THEN Reverse(batch'[w]) ELSE batch'[w]
  <2>1. (CHOOSE u \in Sweeping(v)' : TRUE) = w
    BY <1>2
  <2> QED BY <1>2, <2>1 DEF Sweeping, Swept
<1> QED BY <1>1, <1>2

\* A step that leaves the writers with a batch of v alone.
LEMMA SweptSame ==
    ASSUME NEW v, \A w \in Workers :
             \/ /\ wpc'[w] = wpc[w] /\ wvb'[w] = wvb[w] /\ batch'[w] = batch[w]
             \/ /\ ~(wpc[w] \in {"count", "write"} /\ wvb[w] = v)
                /\ ~(wpc'[w] \in {"count", "write"} /\ wvb'[w] = v)
    PROVE  Swept(v)' = Swept(v) /\ Sweeping(v)' = Sweeping(v)
<1>1. Sweeping(v)' = Sweeping(v)
  BY DEF Sweeping
<1>2. CASE Sweeping(v) = {}
  BY <1>1, <1>2, SweptBatch, SweptBatchNext
<1>3. CASE Sweeping(v) # {}
  <2>1. PICK w : w = CHOOSE u \in Sweeping(v) : TRUE
    OBVIOUS
  <2>2. w \in Sweeping(v)
    BY <1>3, <2>1
  <2>3. wpc'[w] = wpc[w] /\ batch'[w] = batch[w]
    BY <2>2 DEF Sweeping
  <2>4. Swept(v) = IF wpc[w] = "count" THEN Reverse(batch[w]) ELSE batch[w]
    BY <1>3, <2>1 DEF Sweeping, Swept
  <2>5. w = CHOOSE u \in Sweeping(v)' : TRUE
    BY <1>1, <2>1
  <2>6. Swept(v)' = IF wpc'[w] = "count" THEN Reverse(batch'[w]) ELSE batch'[w]
    BY <1>1, <1>3, <2>5 DEF Sweeping, Swept
  <2> QED BY <1>1, <2>3, <2>4, <2>6
<1> QED BY <1>2, <1>3

\* The queue of the abstract store.
AbsQueue(v) == Swept(v) \o Reverse(list[v])

\* Both parts of it are sequences of requests.
LEMMA AbsQueueType ==
    ASSUME TypeInv, AllOwn, NEW v \in VB
    PROVE  Swept(v) \in Seq(Request) /\ Reverse(list[v]) \in Seq(Request)
<1>1. Reverse(list[v]) \in Seq(Request)
  BY ReverseType DEF TypeInv, TypeOK, VBType
<1>2. CASE Sweeping(v) = {}
  <2>1. Swept(v) = <<>> /\ <<>> \in Seq(Request)
    BY <1>2, SweptBatch, EmptySeq
  <2> QED BY <1>1, <2>1
<1>3. CASE Sweeping(v) # {}
  <2>1. PICK w \in Workers : w \in Sweeping(v)
    BY <1>3 DEF Sweeping
  <2>2. Sweeping(v) = {w}
    BY <2>1, OneSweeping DEF AllOwn, Sweeping, OwningPc
  <2>3. batch[w] \in Seq(Request) /\ Reverse(batch[w]) \in Seq(Request)
    BY ReverseType DEF TypeInv, TypeOK, WorkerType
  <2> QED BY <1>1, <2>2, <2>3, SweptBatch
<1> QED BY <1>1, <1>2, <1>3

\* A step that changes no queue, no document and no fate stutters in the store.
LEMMA Stutters ==
    ASSUME \A v \in VB : AbsQueue(v)' = AbsQueue(v), UNCHANGED storeVars
    PROVE  UNCHANGED Store!absVars
  BY DEF Store!absVars, AbsQueue, storeVars

\* The steps that have nothing to do with the store: everything but pushing,
\* sweeping, ordering and writing a batch.
QuietWorker(w) ==
    TakeTask(w) \/ Complete(w) \/ Release(w) \/ Recheck(w) \/ Rearm(w) \/ Resubmit(w)

QuietIO(t) == RefuseWrite(t) \/ FlushStaged(t) \/ CountPushed(t) \/ Arm(t) \/ Submit(t)

QuietPool ==
    \/ \E w \in Workers : Grow(w)
    \/ \E n \in 1..Cardinality(Workers) : Shrink(n)
    \/ Reap \/ BeginClose \/ CloseStep \/ Closed \/ UNCHANGED vars

Quiet ==
    \/ \E t \in IOThreads, v \in VB, k \in Key : StageWrite(t, v, k)
    \/ \E t \in IOThreads : QuietIO(t)
    \/ DeferStep
    \/ \E w \in Workers : QuietWorker(w)
    \/ QuietPool

\* They touch no stack, no document and no batch that is still to be written.
LEMMA QuietSteps ==
    ASSUME TypeInv, Quiet
    PROVE  UNCHANGED <<list, storeVars>> /\ \A w \in Workers :
             \/ wpc'[w] = wpc[w] /\ wvb'[w] = wvb[w] /\ batch'[w] = batch[w]
             \/ wpc[w] \notin {"count", "write"} /\ wpc'[w] \notin {"count", "write"}
<1>0. wpc \in [Workers -> Wpc] /\ wvb \in [Workers -> VB \cup {NoVB}]
      /\ batch \in [Workers -> Seq(Request)]
  BY DEF TypeInv, TypeOK, WorkerType
<1>1. CASE \/ \E t \in IOThreads, v \in VB, k \in Key : StageWrite(t, v, k)
           \/ \E t \in IOThreads : QuietIO(t)
  BY <1>1 DEF StageWrite, QuietIO, RefuseWrite, FlushStaged, CountPushed, Arm, Submit,
              NextTouched, workerVars, vbVars
<1>2. CASE DeferStep
  BY <1>2 DEF DeferStep, DeferTake, DeferSubmit, DeferDrain, workerVars, vbVars
<1>3. ASSUME NEW w \in Workers, QuietWorker(w)
      PROVE  /\ UNCHANGED <<list, storeVars>>
             /\ wpc[w] \notin {"count", "write"} /\ wpc'[w] \notin {"count", "write"}
             /\ \A u \in Workers \ {w} :
                  wpc'[u] = wpc[u] /\ wvb'[u] = wvb[u] /\ batch'[u] = batch[u]
  <2>1. CASE TakeTask(w) \/ Complete(w) \/ Release(w)
    BY <1>0, <2>1 DEF TakeTask, Complete, Release, vbVars
  <2>2. CASE Recheck(w) \/ Rearm(w) \/ Resubmit(w)
    BY <1>0, <2>2 DEF Recheck, Rearm, Resubmit, Return, vbVars
  <2> QED BY <1>3, <2>1, <2>2 DEF QuietWorker
<1>4. CASE QuietPool
  <2>1. CASE \E w \in Workers : Grow(w)
    BY <1>0, <2>1 DEF Grow, vbVars
  <2>2. CASE Reap \/ JoinWriters
    BY <1>0, <2>2 DEF Reap, JoinWriters, Joinable, vbVars
  <2>3. CASE \/ \E n \in 1..Cardinality(Workers) : Shrink(n)
             \/ BeginClose \/ DrainWrites \/ StopDefer \/ JoinDefer \/ StopWriters
             \/ Closed \/ UNCHANGED vars
    BY <2>3 DEF Shrink, BeginClose, DrainWrites, StopDefer, JoinDefer, StopWriters,
                Closed, vars, workerVars, vbVars
  <2> QED BY <1>4, <2>1, <2>2, <2>3 DEF QuietPool, CloseStep
<1> QED BY <1>1, <1>2, <1>3, <1>4 DEF Quiet

\* The steps are the quiet ones and four others.
LEMMA StoreStepKinds ==
    [Next]_vars => \/ Quiet \/ \E t \in IOThreads : InsertChain(t)
                   \/ \E w \in Workers : Sweep(w) \/ CountSwept(w) \/ WriteDocs(w)
  BY DEF Next, IOStep, WorkerStep, Quiet, QuietIO, QuietWorker, QuietPool

\* The invariant holds at the start.
LEMMA InitRInv == Init => RInv
<1> SUFFICES ASSUME Init PROVE RInv
  OBVIOUS
<1>1. AllOwn
  BY Sets DEF AllOwn, Init, Own, AtMostOne, Tasks, Defers, Arming, Running, Pos, OwningPc
<1>2. NonEmptyWrite /\ SeqnosFresh
  BY DEF Init, NonEmptyWrite, SeqnosFresh
<1> QED BY <1>1, <1>2, InitTypeInv DEF RInv

\* Every step keeps the invariant.
LEMMA NextRInv == RInv /\ [Next]_vars => RInv'
<1> SUFFICES ASSUME RInv, [Next]_vars PROVE RInv'
  OBVIOUS
<1> USE DEF RInv
<1>1. TypeInv'
  BY NextTypeInv
<1>2. AllOwn'
  <2> SUFFICES ASSUME NEW v \in VB, Own(v) PROVE Own(v)'
    BY DEF AllOwn
  <2> QED BY IOOwn, DeferOwn, WorkerOwn, OtherOwn DEF Next
<1>0. wpc \in [Workers -> Wpc] /\ batch \in [Workers -> Seq(Request)]
  BY DEF TypeInv, TypeOK, WorkerType
<1>3. CASE Quiet
  <2>1. NonEmptyWrite'
    BY <1>3, QuietSteps DEF NonEmptyWrite
  <2>2. SeqnosFresh'
    BY <1>3, QuietSteps DEF SeqnosFresh, storeVars
  <2> QED BY <1>1, <1>2, <2>1, <2>2
<1>4. ASSUME NEW t \in IOThreads, InsertChain(t) PROVE RInv'
  <2>1. NonEmptyWrite' /\ SeqnosFresh'
    BY <1>4 DEF InsertChain, NonEmptyWrite, SeqnosFresh, storeVars, workerVars
  <2> QED BY <1>1, <1>2, <2>1
<1>5. ASSUME NEW w \in Workers, Sweep(w) PROVE RInv'
  <2>1. NonEmptyWrite' /\ SeqnosFresh'
    BY <1>0, <1>5 DEF Sweep, NonEmptyWrite, SeqnosFresh, storeVars
  <2> QED BY <1>1, <1>2, <2>1
<1>6. ASSUME NEW w \in Workers, CountSwept(w) PROVE RInv'
  <2>1. Reverse(batch[w]) = <<>> => batch[w] = <<>>
    <3>1. batch[w] \in Seq(Request) /\ Reverse(batch[w]) \in Seq(Request)
          /\ Len(Reverse(batch[w])) = Len(batch[w])
      BY <1>0, ReverseType
    <3> QED BY <3>1, EmptySeq
  <2>2. NonEmptyWrite' /\ SeqnosFresh'
    BY <1>0, <1>6, <2>1 DEF CountSwept, NonEmptyWrite, SeqnosFresh, storeVars
  <2> QED BY <1>1, <1>2, <2>2
<1>7. ASSUME NEW w \in Workers, WriteDocs(w) PROVE RInv'
  <2>1. NonEmptyWrite'
    BY <1>0, <1>7 DEF WriteDocs, NonEmptyWrite
  <2>2. wvb[w] \in VB /\ batch[w] \in Seq(Request)
    BY <1>0, <1>7 DEF WriteDocs, TypeInv, MidCall, InCall
  <2>3. PICK doSort, ok \in BOOLEAN : WriteBatch(wvb[w], batch[w], doSort, ok)
    BY <1>7 DEF WriteDocs
  <2>4. SeqnosFresh'
    BY <2>2, <2>3, WriteKeepsFresh DEF TypeInv
  <2> QED BY <1>1, <1>2, <2>1, <2>4
<1> QED BY <1>3, <1>4, <1>5, <1>6, <1>7, StoreStepKinds

-----------------------------------------------------------------------------
(* The refinement *)

\* The store starts empty.
LEMMA InitStore == Init => Store!Init
<1> SUFFICES ASSUME Init PROVE Store!Init
  OBVIOUS
<1>1. ASSUME NEW v \in VB PROVE Swept(v) \o Reverse(list[v]) = <<>>
  <2>1. Sweeping(v) = {}
    BY DEF Init, Sweeping
  <2>2. Swept(v) = <<>> /\ Reverse(list[v]) = <<>>
    BY <2>1, SweptBatch, ReverseEmpty DEF Init
  <2> QED BY <2>2
<1>2. [v \in VB |-> Swept(v) \o Reverse(list[v])] = [v \in VB |-> <<>>]
  BY <1>1
<1> QED BY <1>2 DEF Init, Store!Init, Id

\* Staging, counting, arming, queueing, completing, resizing and closing are
\* invisible.
LEMMA QuietStutters ==
    ASSUME RInv, Quiet
    PROVE  UNCHANGED Store!absVars
<1>1. /\ UNCHANGED <<list, storeVars>>
      /\ \A w \in Workers :
             \/ wpc'[w] = wpc[w] /\ wvb'[w] = wvb[w] /\ batch'[w] = batch[w]
             \/ wpc[w] \notin {"count", "write"} /\ wpc'[w] \notin {"count", "write"}
  BY QuietSteps DEF RInv
<1>2. ASSUME NEW v \in VB PROVE AbsQueue(v)' = AbsQueue(v)
  <2>1. Swept(v)' = Swept(v)
    BY <1>1, SweptSame
  <2> QED BY <1>1, <2>1 DEF AbsQueue
<1> QED BY <1>1, <1>2, Stutters

\* Sweeping moves the stack to the writer, which is the head of the queue.
LEMMA SweepStutters ==
    ASSUME RInv, NEW w \in Workers, Sweep(w)
    PROVE  UNCHANGED Store!absVars
<1> USE DEF RInv
<1>1. PICK v \in VB : v = wvb[w]
  BY DEF Sweep, TypeInv, MidCall, InCall
<1>0. /\ wpc \in [Workers -> Wpc] /\ batch \in [Workers -> Seq(Request)]
      /\ list \in [VB -> Seq(Request)]
  BY DEF TypeInv, TypeOK, WorkerType, VBType
<1>2. /\ wpc'[w] = "count" /\ batch'[w] = list[v] /\ list'[v] = <<>>
      /\ UNCHANGED <<wvb, storeVars>>
      /\ \A x \in VB \ {v} : list'[x] = list[x]
      /\ \A x \in Workers \ {w} : wpc'[x] = wpc[x] /\ batch'[x] = batch[x]
  BY <1>0, <1>1 DEF Sweep
<1>3. AbsQueue(v)' = AbsQueue(v)
  <2>1. Sweeping(v) = {} /\ Sweeping(v)' = {w}
    <3>1. Sweeping(v) \subseteq {w}
      BY <1>1, OneSweeping DEF Sweep, AllOwn, OwningPc
    <3> QED BY <1>1, <1>2, <3>1 DEF Sweeping, Sweep
  <2>2. Swept(v) = <<>> /\ Swept(v)' = Reverse(list[v])
    BY <1>2, <2>1, SweptBatch, SweptBatchNext
  <2>3. Reverse(list'[v]) = <<>> /\ Reverse(list[v]) \in Seq(Request)
    BY <1>0, <1>2, ReverseEmpty, ReverseType
  <2> QED BY <2>2, <2>3, ConcatEmptySeq DEF AbsQueue
<1>4. ASSUME NEW x \in VB \ {v} PROVE AbsQueue(x)' = AbsQueue(x)
  <2>1. Swept(x)' = Swept(x)
    BY <1>1, <1>2, <1>4, SweptSame
  <2> QED BY <1>2, <1>4, <2>1 DEF AbsQueue
<1> QED BY <1>2, <1>3, <1>4, Stutters

\* Putting the batch in arrival order leaves the queue as it is.
LEMMA CountStutters ==
    ASSUME RInv, NEW w \in Workers, CountSwept(w)
    PROVE  UNCHANGED Store!absVars
<1> USE DEF RInv
<1>1. PICK v \in VB : v = wvb[w]
  BY DEF CountSwept, TypeInv, MidCall, InCall
<1>0. /\ wpc \in [Workers -> Wpc] /\ batch \in [Workers -> Seq(Request)]
  BY DEF TypeInv, TypeOK, WorkerType
<1>2. /\ wpc'[w] = (IF batch[w] = <<>> THEN "release" ELSE "write")
      /\ batch'[w] = Reverse(batch[w])
      /\ UNCHANGED <<wvb, list, storeVars>>
      /\ \A x \in Workers \ {w} : wpc'[x] = wpc[x] /\ batch'[x] = batch[x]
  BY <1>0 DEF CountSwept
<1>3. Sweeping(v) = {w}
  BY <1>1, OneSweeping DEF CountSwept, AllOwn, OwningPc, Sweeping
<1>4. Swept(v) = Reverse(batch[w])
  BY <1>3, SweptBatch DEF CountSwept
<1>5. Swept(v)' = Swept(v)
  <2>1. CASE batch[w] = <<>>
    <3>1. Sweeping(v)' = {}
      BY <1>2, <1>3, <2>1 DEF Sweeping
    <3> QED BY <1>4, <2>1, <3>1, ReverseEmpty, SweptBatchNext
  <2>2. CASE batch[w] # <<>>
    <3>1. Sweeping(v)' = {w}
      BY <1>1, <1>2, <1>3, <2>2 DEF Sweeping
    <3> QED BY <1>2, <1>4, <2>2, <3>1, SweptBatchNext
  <2> QED BY <2>1, <2>2
<1>6. ASSUME NEW x \in VB PROVE AbsQueue(x)' = AbsQueue(x)
  <2>1. CASE x = v
    BY <1>2, <1>5, <2>1 DEF AbsQueue
  <2>2. CASE x # v
    <3>1. Swept(x)' = Swept(x)
      BY <1>1, <1>2, <2>2, SweptSame
    <3> QED BY <1>2, <3>1 DEF AbsQueue
  <2> QED BY <2>1, <2>2
<1> QED BY <1>2, <1>6, Stutters
\* The queues of the abstract store, as Store substitutes them.
absQueue == [v \in VB |-> Swept(v) \o Reverse(list[v])]

\* Appending c to a queue: c is what the queue ends with.
LEMMA AppendedChain ==
    ASSUME NEW S, NEW q \in Seq(S), NEW c \in Seq(S)
    PROVE  /\ SubSeq(q \o c, Len(q) + 1, Len(q \o c)) = c
           /\ c # <<>> => Len(q \o c) > Len(q)
<1>1. /\ q \o c \in Seq(S) /\ Len(q \o c) = Len(q) + Len(c)
      /\ Len(q) \in Nat /\ Len(c) \in Nat
      /\ \A i \in 1 .. Len(q) + Len(c) :
            (q \o c)[i] = IF i <= Len(q) THEN q[i] ELSE c[i - Len(q)]
  BY ConcatProperties, LenProperties
<1> DEFINE z == SubSeq(q \o c, Len(q) + 1, Len(q) + Len(c))
<1>2. \A i \in Len(q) + 1 .. Len(q) + Len(c) : (q \o c)[i] \in S
  <2>1. \A i \in 1..Len(q \o c) : (q \o c)[i] \in S
    BY <1>1, ElementOfSeq
  <2> QED BY <1>1, <2>1
<1>3. /\ z \in Seq(S)
      /\ Len(z) = (IF Len(q) + 1 <= Len(q) + Len(c) THEN Len(q) + Len(c) - (Len(q) + 1) + 1
                  ELSE 0)
      /\ \A i \in 1 .. (Len(q) + Len(c)) - (Len(q) + 1) + 1 :
            z[i] = (q \o c)[(Len(q) + 1) + i - 1]
  <2>1. Len(q) + 1 \in Int /\ Len(q) + Len(c) \in Int
    BY <1>1
  <2> QED BY <1>2, <2>1, SubSeqProperties
<1>4. Len(z) = Len(c) /\ \A i \in 1..Len(c) : z[i] = c[i]
  <2> HIDE DEF z
  <2>1. Len(z) = Len(c)
    BY <1>1, <1>3
  <2>2. ASSUME NEW i \in 1..Len(c) PROVE z[i] = c[i]
    <3>1. z[i] = (q \o c)[Len(q) + i]
      BY <1>1, <1>3
    <3>2. (q \o c)[Len(q) + i] = c[i]
      BY <1>1
    <3> QED BY <3>1, <3>2
  <2> QED BY <2>1, <2>2
<1>5. z = c
  <2> HIDE DEF z
  <2> QED BY <1>3, <1>4, SeqEqual
<1>6. c # <<>> => Len(c) > 0
  BY <1>1, EmptySeq
<1> QED BY <1>1, <1>5, <1>6

\* Pushing a chain appends it to the vbucket's queue.
LEMMA InsertAccepts ==
    ASSUME RInv, NEW t \in IOThreads, InsertChain(t)
    PROVE  UNCHANGED Store!absVars \/ \E v \in VB : Store!Accept(v)
<1> USE DEF RInv
<1>1. PICK v \in VB : v = Head(touched[t])
  BY FlushHead DEF InsertChain
<1>2. PICK c \in Seq(Request) : c = staged[t][v]
  BY DEF TypeInv, TypeOK, IOType
<1>3. /\ list \in [VB -> Seq(Request)]
      /\ list' = [list EXCEPT ![v] = c \o list[v]]
      /\ UNCHANGED <<workerVars, storeVars>>
  BY <1>1, <1>2 DEF InsertChain, TypeInv, TypeOK, VBType
<1>4. \A x : Swept(x)' = Swept(x)
  BY <1>3 DEF Swept, workerVars
<1>5. /\ list'[v] = c \o list[v] /\ \A x \in VB \ {v} : list'[x] = list[x]
  BY <1>3
<1>6. CASE c = <<>>
  <2>1. list'[v] = list[v]
    BY <1>3, <1>5, <1>6, ConcatEmptySeq
  <2>2. \A x \in VB : AbsQueue(x)' = AbsQueue(x)
    BY <1>4, <1>5, <2>1 DEF AbsQueue
  <2> QED BY <1>3, <2>2, Stutters
<1>7. CASE c # <<>>
  <2>1. /\ Swept(v) \in Seq(Request) /\ Reverse(list[v]) \in Seq(Request)
        /\ Reverse(c) \in Seq(Request) /\ Len(Reverse(c)) = Len(c)
    BY AbsQueueType, ReverseType
  <2>2. absQueue'[v] = absQueue[v] \o Reverse(c)
    <3>1. Reverse(list'[v]) = Reverse(list[v]) \o Reverse(c)
      BY <1>3, <1>5, ReverseConcat
    <3>2. absQueue'[v] = Swept(v) \o (Reverse(list[v]) \o Reverse(c))
      BY <1>4, <3>1 DEF absQueue
    <3>3. absQueue[v] = Swept(v) \o Reverse(list[v])
      BY DEF absQueue
    <3>4. Swept(v) \o (Reverse(list[v]) \o Reverse(c))
            = (Swept(v) \o Reverse(list[v])) \o Reverse(c)
      <4>1. \A x, y, z \in Seq(Request) : x \o (y \o z) = (x \o y) \o z
        BY ConcatAssociative
      <4> QED BY <2>1, <4>1, Zenon
    <3> QED BY <3>2, <3>3, <3>4
  <2>3. absQueue[v] \in Seq(Request)
    BY <2>1, ConcatProperties DEF absQueue
  <2>4. Reverse(c) # <<>>
    BY <1>7, <2>1, EmptySeq
  <2>5. /\ Len(absQueue'[v]) > Len(absQueue[v])
        /\ SubSeq(absQueue'[v], Len(absQueue[v]) + 1, Len(absQueue'[v])) = Reverse(c)
    BY <2>1, <2>2, <2>3, <2>4, AppendedChain
  <2>6. absQueue' = [absQueue EXCEPT ![v] = absQueue[v] \o Reverse(c)]
    <3>1. \A x \in VB \ {v} : absQueue'[x] = absQueue[x]
      BY <1>4, <1>5 DEF absQueue
    <3>2. absQueue = [x \in VB |-> absQueue[x]] /\ absQueue' = [x \in VB |-> absQueue'[x]]
      BY DEF absQueue
    <3> HIDE DEF absQueue
    <3> QED BY <2>2, <3>1, <3>2
  <2>7. absQueue' = [absQueue EXCEPT ![v] = @ \o
                       SubSeq(absQueue'[v], Len(@) + 1, Len(absQueue'[v]))]
    BY <2>5, <2>6
  <2>8. UNCHANGED <<disk, seqno, fate>>
    BY <1>3 DEF storeVars
  <2>9. Store!Accept(v)
    BY <2>5, <2>7, <2>8 DEF Store!Accept, absQueue
  <2> QED BY <2>9
<1> QED BY <1>6, <1>7
\* WriteDocs takes the batch off the front of the queue: the writes leave with
\* one fate, and each key keeps its newest write under a seqno of its own.
LEMMA WriteLeaves ==
    ASSUME RInv, NEW w \in Workers, WriteDocs(w)
    PROVE  \E v \in VB : \E n \in 1..Len(absQueue[v]) :
             Store!Apply(v, n) \/ Store!Fail(v, n)
<1> USE DEF RInv
<1>1. PICK v \in VB : v = wvb[w]
  BY DEF WriteDocs, TypeInv, MidCall, InCall
<1>2. PICK b \in Seq(Request) : b = batch[w]
  BY DEF TypeInv, TypeOK, WorkerType
<1>3. PICK doSort, ok \in BOOLEAN : WriteBatch(v, b, doSort, ok)
  BY <1>1, <1>2 DEF WriteDocs
<1>4. PICK r \in Seq(Request) : r = Reverse(list[v])
  BY AbsQueueType
<1>5. PICK n \in Nat : n = Len(b)
  BY LenProperties
<1>6. n > 0 /\ DOMAIN b = 1..n
  BY <1>2, <1>5, EmptySeq, LenProperties DEF WriteDocs, NonEmptyWrite
<1>7. /\ wpc' = [wpc EXCEPT ![w] = "complete"] /\ wpc \in [Workers -> Wpc]
      /\ UNCHANGED <<list, wvb, batch>>
  BY DEF WriteDocs, vbVars, TypeInv, TypeOK, WorkerType
<1>8. absQueue[v] = b \o r /\ absQueue'[v] = r
  <2>1. Sweeping(v) = {w}
    BY <1>1, OneSweeping DEF WriteDocs, AllOwn, OwningPc, Sweeping
  <2>2. Sweeping(v)' = {}
    BY <1>7, <2>1 DEF Sweeping
  <2>3. Swept(v) = b /\ Swept(v)' = <<>>
    BY <1>2, <2>1, <2>2, SweptBatch, SweptBatchNext DEF WriteDocs
  <2>4. absQueue[v] = b \o r /\ absQueue'[v] = <<>> \o r
    BY <1>4, <1>7, <2>3 DEF absQueue
  <2> QED BY <2>4, ConcatEmptySeq
<1>9. /\ n \in 1..Len(absQueue[v])
      /\ \A j \in 1..n : absQueue[v][j] = b[j]
      /\ SubSeq(absQueue[v], n + 1, Len(absQueue[v])) = r
  <2>1. Len(b \o r) = n + Len(r) /\ Len(r) \in Nat
    BY <1>5, ConcatProperties, LenProperties
  <2>2. \A j \in 1..n : (b \o r)[j] = b[j]
    BY <1>5, <2>1, ConcatProperties
  <2>3. SubSeq(b \o r, n + 1, Len(b \o r)) = r
    BY <1>5, AppendedChain
  <2> QED BY <1>6, <1>8, <2>1, <2>2, <2>3
<1>10. absQueue' = [absQueue EXCEPT ![v] = SubSeq(@, n + 1, Len(@))]
  <2>1. \A x \in VB \ {v} : absQueue'[x] = absQueue[x]
    <3>1. ASSUME NEW x \in VB \ {v} PROVE Swept(x)' = Swept(x)
      BY <1>1, <1>7, <3>1, SweptSame
    <3> QED BY <1>7, <3>1 DEF absQueue
  <2>2. absQueue = [x \in VB |-> absQueue[x]] /\ absQueue' = [x \in VB |-> absQueue'[x]]
    BY DEF absQueue
  <2> HIDE DEF absQueue
  <2> QED BY <1>8, <1>9, <2>1, <2>2
<1>11. fate' = [i \in 1..MaxWrites |->
          IF \E j \in 1..n : absQueue[v][j].id = i
            THEN IF ok THEN "stored" ELSE "failed" ELSE fate[i]]
  BY <1>3, <1>6, <1>9 DEF WriteBatch, Id
<1>12. /\ seqno[v] \in Nat /\ NumOps(b, doSort) \in Nat
       /\ seqno'[v] = seqno[v] + NumOps(b, doSort)
       /\ \A u \in VB \ {v} : seqno'[u] = seqno[u]
  BY <1>3, RankProperties DEF WriteBatch, TypeInv, TypeOK, StoreType
<1>13. seqno'[v] >= seqno[v]
  BY <1>12
<1>14. CASE ~ok
  <2>1. disk' = disk
    BY <1>3, <1>14 DEF WriteBatch
  <2>2. fate' = [i \in 1..MaxWrites |-> IF \E j \in 1..n : absQueue[v][j].id = i
                                          THEN "failed" ELSE fate[i]]
    BY <1>11, <1>14
  <2>3. Store!Fail(v, n)
    BY <1>10, <1>12, <1>13, <2>1, <2>2 DEF Store!Fail, Store!Leave, absQueue
  <2> QED BY <1>9, <2>3
<1>15. CASE ok
  <2>0. WriteBatch(v, b, doSort, TRUE) /\ TypeOK
    <3>1. ok = TRUE
      BY <1>15
    <3> QED BY <1>3, <3>1 DEF TypeInv
  <2>1. fate' = [i \in 1..MaxWrites |-> IF \E j \in 1..n : absQueue[v][j].id = i
                                          THEN "stored" ELSE fate[i]]
    BY <1>11, <1>15
  <2>2. Store!Leave(v, n, "stored")
    BY <1>10, <1>12, <1>13, <2>1 DEF Store!Leave, absQueue
  <2>3. \A u \in VB \ {v} : disk'[u] = disk[u]
    BY <2>0 DEF WriteBatch, TypeOK, StoreType
  <2>4. \A k, l \in Key : disk'[v][k].seqno = disk'[v][l].seqno
                             => k = l \/ disk'[v][k].seqno = 0
    <3>1. SeqnosFresh'
      BY <1>3, <2>0, WriteKeepsFresh
    <3> QED BY <3>1 DEF SeqnosFresh
  <2>5. ASSUME NEW k \in Key, {j \in 1..n : absQueue[v][j].key = k} = {}
        PROVE  disk'[v][k] = disk[v][k]
    <3>1. k \notin KeysOf(b)
      BY <1>6, <1>9, <2>5 DEF KeysOf
    <3> QED BY <2>0, <3>1, AppliedProperties
  <2>6. ASSUME NEW k \in Key, {j \in 1..n : absQueue[v][j].key = k} # {}
        PROVE  /\ \E j \in {i \in 1..n : absQueue[v][i].key = k} :
                     /\ \A i \in {x \in 1..n : absQueue[v][x].key = k} : i <= j
                     /\ disk'[v][k].id = absQueue[v][j].id
               /\ seqno[v] < disk'[v][k].seqno /\ disk'[v][k].seqno <= seqno'[v]
    <3>1. k \in KeysOf(b)
      BY <1>6, <1>9, <2>6 DEF KeysOf
    <3>2. PICK j : j = Newest(b, k)
      OBVIOUS
    <3>3. /\ j \in 1..n /\ b[j].key = k
          /\ \A i \in 1..n : b[i].key = k => i <= j
      BY <1>6, <3>1, <3>2, NewestExists
    <3>4. /\ disk'[v][k].id = b[j].id
          /\ disk'[v][k].seqno = seqno[v] + OpRank(b, doSort, j)
      BY <2>0, <3>1, <3>2, AppliedProperties
    <3>5. OpRank(b, doSort, j) \in 1..NumOps(b, doSort)
      BY <3>1, <3>2, RankProperties
    <3>6. seqno[v] < disk'[v][k].seqno /\ disk'[v][k].seqno <= seqno'[v]
      BY <1>12, <3>4, <3>5
    <3> QED BY <1>9, <3>3, <3>4, <3>6
  <2>7. Store!Apply(v, n)
    BY <2>2, <2>3, <2>4, <2>5, <2>6 DEF Store!Apply, absQueue
  <2> QED BY <1>9, <2>7
<1> QED BY <1>14, <1>15

\* The write path implements the ordered per-vbucket store: whatever the
\* interleaving of IO threads, coalescing thread, writers, resizes and
\* shutdown, accepted writes of a vbucket are applied in order, each once, the
\* newest write to a key winning and every document getting a fresh seqno.
THEOREM ImplementsOrderedStore == Spec => ImplementsStore
<1>1. RInv /\ [Next]_vars => [Store!Next]_(Store!absVars)
  <2> SUFFICES ASSUME RInv, [Next]_vars
               PROVE  Store!Next \/ UNCHANGED Store!absVars
    OBVIOUS
  <2>1. CASE Quiet
    BY <2>1, QuietStutters
  <2>2. ASSUME NEW t \in IOThreads, InsertChain(t)
        PROVE  Store!Next \/ UNCHANGED Store!absVars
    BY <2>2, InsertAccepts DEF Store!Next
  <2>3. ASSUME NEW w \in Workers, WriteDocs(w) PROVE Store!Next
    <3>1. PICK v \in VB : \E n \in 1..Len(absQueue[v]) :
             Store!Apply(v, n) \/ Store!Fail(v, n)
      BY <2>3, WriteLeaves
    <3> QED BY <3>1 DEF Store!Next, absQueue
  <2> QED BY <2>1, <2>2, <2>3, StoreStepKinds, SweepStutters, CountStutters
<1> QED BY <1>1, InitRInv, NextRInv, InitStore, PTL DEF Spec, ImplementsStore, Store!Spec

-----------------------------------------------------------------------------
(* What becomes of a request: it is in one place at a time, from StageWrite *)
(* to completeRequests, so the bytes it was charged are returned once,      *)
(* nothing is lost by a shutdown and a durable write is acknowledged for    *)
(* what magma said of it.  The last part counts the pool's workers and      *)
(* sentinels the same way.                                                  *)

\* The requests t has staged.
Staged(t) == UNION {Unpushed(t, v) : v \in VB}

\* A request that was accepted and not completed.
InPlace(i) ==
    \/ \E t \in IOThreads, v \in VB : i \in Unpushed(t, v)
    \/ \E v \in VB : i \in Ids(list[v])
    \/ \E w \in Workers : i \in Held(w)

\* A request is in one place.
OnePlace ==
    /\ \A t, u \in IOThreads : \A v, x \in VB :
          Unpushed(t, v) \cap Unpushed(u, x) # {} => t = u /\ v = x
    /\ \A v, x \in VB : Ids(list[v]) \cap Ids(list[x]) # {} => v = x
    /\ \A w, y \in Workers : Held(w) \cap Held(y) # {} => w = y
    /\ \A t \in IOThreads : \A v, x \in VB : Unpushed(t, v) \cap Ids(list[x]) = {}
    /\ \A t \in IOThreads : \A v \in VB : \A w \in Workers :
          Unpushed(t, v) \cap Held(w) = {}
    /\ \A v \in VB : \A w \in Workers : Ids(list[v]) \cap Held(w) = {}

\* It is there once.
Distinct(s) == \A j, k \in DOMAIN s : s[j].id = s[k].id => j = k

AllDistinct ==
    /\ \A t \in IOThreads : \A v \in VB : Distinct(staged[t][v])
    /\ \A v \in VB : Distinct(list[v])
    /\ \A w \in Workers : Distinct(batch[w])

\* Only requests that were received are anywhere.
Received ==
    /\ \A i \in Id : InPlace(i) => i <= issued
    /\ \A t \in IOThreads : \A v \in VB : \A i \in Ids(staged[t][v]) : i <= issued

\* FlushStaged finds every chain of its thread through `touched`, and leaves
\* none behind.
AllTouched ==
    \A t \in IOThreads : \A v \in VB :
        /\ staged[t][v] # <<>> => \E j \in DOMAIN touched[t] : touched[t][j] = v
        /\ iopc[t] \in {"arm", "submit"} /\ v = Head(touched[t]) => staged[t][v] = <<>>

\* The charge: what is flushed is in queuedBytes_, what is not is in bytes.
Charged ==
    /\ queuedBytes = Cardinality(Outstanding)
    /\ \A t \in IOThreads :
         bytes[t] = IF iopc[t] = "read" THEN Cardinality(Staged(t)) ELSE 0
    /\ BoundedOvershoot

\* A request whose batch magma has not answered.
Unanswered(i) ==
    \/ \E t \in IOThreads, v \in VB : i \in Unpushed(t, v)
    \/ \E v \in VB : i \in Ids(list[v])
    \/ \E w \in Workers : wpc[w] # "complete" /\ i \in Held(w)

\* After WriteDocs a request has an outcome; before it, in durable mode, no
\* acknowledgement.
Outcomes ==
    /\ \A w \in Workers : wpc[w] = "complete" => \A i \in Held(w) : fate[i] # "new"
    /\ \A i \in Id : issued < i => answer[i] = "none"
    /\ Durable => \A i \in Id : Unanswered(i) => answer[i] # "success"
    /\ DurableAck

\* An accepted write is in its place or has been through WriteDocs.
NotLost == \A i \in Id : Accepted(i) => InPlace(i) \/ fate[i] # "new"

\* Bucket::Close finds the IO threads done, and a drain that did not time out
\* finds nothing outstanding.
Closing ==
    /\ phase # "run" => \A t \in IOThreads : iopc[t] = "read" /\ touched[t] = <<>>
    /\ phase \notin {"run", "drain"} /\ ~timedOut => Outstanding = {}

AInv ==
    /\ TypeInv /\ OnePlace /\ AllDistinct /\ Received /\ AllTouched /\ Charged
    /\ Outcomes /\ NotLost /\ Closing

-----------------------------------------------------------------------------
(* Requests of a sequence *)

\* The requests of a chain are numbered requests; reversing it keeps them, and
\* joining two chains joins them.
LEMMA IdsProperties ==
    /\ Ids(<<>>) = {}
    /\ \A s \in Seq(Request) :
         /\ Ids(s) \subseteq Id
         /\ Ids(s) = {} => s = <<>>
         /\ Ids(Reverse(s)) = Ids(s)
         /\ \A r \in Seq(Request) : Ids(s \o r) = Ids(s) \cup Ids(r)
<1>1. Ids(<<>>) = {}
  BY DEF Ids
<1>2. ASSUME NEW s \in Seq(Request)
      PROVE  Ids(s) \subseteq Id /\ (Ids(s) = {} => s = <<>>)
  <2>1. DOMAIN s = 1..Len(s) /\ Len(s) \in Nat /\ \A j \in 1..Len(s) : s[j] \in Request
    BY LenProperties, ElementOfSeq
  <2>2. Ids(s) \subseteq Id
    BY <2>1 DEF Ids, Request
  <2>3. ASSUME Ids(s) = {} PROVE s = <<>>
    <3>1. DOMAIN s = {}
      BY <2>3 DEF Ids
    <3>2. Len(s) = 0
      BY <2>1, <3>1
    <3> QED BY <3>2, EmptySeq
  <2> QED BY <2>2, <2>3
<1>3. ASSUME NEW s \in Seq(Request) PROVE Ids(Reverse(s)) = Ids(s)
  <2>1. /\ DOMAIN s = 1..Len(s) /\ Len(s) \in Nat
        /\ Reverse(s) = [i \in 1..Len(s) |-> s[(Len(s) - i) + 1]]
    BY LenProperties DEF Reverse
  <2>2. ASSUME NEW i \in 1..Len(s)
        PROVE  /\ (Len(s) - i) + 1 \in 1..Len(s) /\ Reverse(s)[i] = s[(Len(s) - i) + 1]
               /\ Reverse(s)[(Len(s) - i) + 1] = s[i]
    <3>1. (Len(s) - i) + 1 \in 1..Len(s) /\ (Len(s) - ((Len(s) - i) + 1)) + 1 = i
      BY <2>1
    <3> QED BY <2>1, <3>1
  <2>3. DOMAIN Reverse(s) = 1..Len(s)
    BY <2>1
  <2>4. ASSUME NEW x \in Ids(s) PROVE x \in Ids(Reverse(s))
    <3>1. PICK j \in 1..Len(s) : x = s[j].id
      BY <2>1 DEF Ids
    <3>2. (Len(s) - j) + 1 \in DOMAIN Reverse(s) /\ x = Reverse(s)[(Len(s) - j) + 1].id
      BY <2>2, <2>3, <3>1
    <3> QED BY <3>2 DEF Ids
  <2>5. ASSUME NEW x \in Ids(Reverse(s)) PROVE x \in Ids(s)
    <3>1. PICK j \in 1..Len(s) : x = Reverse(s)[j].id
      BY <2>3 DEF Ids
    <3>2. (Len(s) - j) + 1 \in DOMAIN s /\ x = s[(Len(s) - j) + 1].id
      BY <2>1, <2>2, <3>1
    <3> QED BY <3>2 DEF Ids
  <2> QED BY <2>4, <2>5
<1>4. ASSUME NEW s \in Seq(Request), NEW r \in Seq(Request)
      PROVE  Ids(s \o r) = Ids(s) \cup Ids(r)
  <2>1. /\ DOMAIN s = 1..Len(s) /\ Len(s) \in Nat /\ DOMAIN r = 1..Len(r) /\ Len(r) \in Nat
        /\ DOMAIN (s \o r) = 1..(Len(s) + Len(r))
        /\ \A i \in 1..(Len(s) + Len(r)) :
             (s \o r)[i] = IF i <= Len(s) THEN s[i] ELSE r[i - Len(s)]
    <3>1. s \o r \in Seq(Request) /\ Len(s \o r) = Len(s) + Len(r)
      BY ConcatProperties
    <3> QED BY <3>1, ConcatProperties, LenProperties
  <2>2. ASSUME NEW i \in 1..Len(r) PROVE (s \o r)[Len(s) + i] = r[i]
    BY <2>1
  <2>3. Ids(s) \subseteq Ids(s \o r)
    BY <2>1 DEF Ids
  <2>4. Ids(r) \subseteq Ids(s \o r)
    <3> SUFFICES ASSUME NEW i \in 1..Len(r) PROVE r[i].id \in Ids(s \o r)
      BY <2>1 DEF Ids
    <3>1. Len(s) + i \in DOMAIN (s \o r) /\ (s \o r)[Len(s) + i] = r[i]
      BY <2>1, <2>2
    <3> QED BY <3>1 DEF Ids
  <2>5. Ids(s \o r) \subseteq Ids(s) \cup Ids(r)
    BY <2>1 DEF Ids
  <2> QED BY <2>3, <2>4, <2>5
<1> QED BY <1>1, <1>2, <1>3, <1>4

\* So does no request show up twice.
LEMMA DistinctProperties ==
    /\ Distinct(<<>>)
    /\ \A s \in Seq(Request) : Distinct(s) =>
         /\ Cardinality(Ids(s)) = Len(s)
         /\ Distinct(Reverse(s))
         /\ \A r \in Seq(Request) :
              Distinct(r) /\ Ids(s) \cap Ids(r) = {} => Distinct(s \o r)
<1>1. Distinct(<<>>)
  BY DEF Distinct
<1>2. ASSUME NEW s \in Seq(Request), Distinct(s) PROVE Cardinality(Ids(s)) = Len(s)
  <2>1. Len(s) \in Nat /\ DOMAIN s = 1..Len(s)
    BY LenProperties
  <2> DEFINE f == [j \in 1..Len(s) |-> s[j].id]
  <2>2. f \in Bijection(1..Len(s), Ids(s))
    <3>1. f \in [1..Len(s) -> Ids(s)]
      BY <2>1 DEF Ids
    <3>2. \A j, k \in 1..Len(s) : f[j] = f[k] => j = k
      BY <1>2, <2>1 DEF Distinct
    <3>3. \A x \in Ids(s) : \E j \in 1..Len(s) : f[j] = x
      BY <2>1 DEF Ids
    <3> HIDE DEF f
    <3> QED BY <3>1, <3>2, <3>3, Fun_IsBij
  <2>3. IsFiniteSet(1..Len(s)) /\ Cardinality(1..Len(s)) = Len(s)
    BY <2>1, FS_Interval
  <2> HIDE DEF f
  <2> QED BY <2>2, <2>3, FS_Bijection DEF ExistsBijection
<1>3. ASSUME NEW s \in Seq(Request), Distinct(s) PROVE Distinct(Reverse(s))
  <2>1. /\ DOMAIN s = 1..Len(s) /\ Len(s) \in Nat
        /\ DOMAIN Reverse(s) = 1..Len(s)
        /\ \A i \in 1..Len(s) : Reverse(s)[i] = s[(Len(s) - i) + 1]
    BY LenProperties DEF Reverse
  <2>2. ASSUME NEW j \in 1..Len(s), NEW k \in 1..Len(s),
               Reverse(s)[j].id = Reverse(s)[k].id
        PROVE  j = k
    <3>1. (Len(s) - j) + 1 \in 1..Len(s) /\ (Len(s) - k) + 1 \in 1..Len(s)
      BY <2>1
    <3>2. (Len(s) - j) + 1 = (Len(s) - k) + 1
      BY <1>3, <2>1, <2>2, <3>1 DEF Distinct
    <3> QED BY <2>1, <3>2
  <2> QED BY <2>1, <2>2 DEF Distinct
<1>4. ASSUME NEW s \in Seq(Request), NEW r \in Seq(Request), Distinct(s), Distinct(r),
             Ids(s) \cap Ids(r) = {}
      PROVE  Distinct(s \o r)
  <2>1. /\ DOMAIN s = 1..Len(s) /\ Len(s) \in Nat /\ DOMAIN r = 1..Len(r) /\ Len(r) \in Nat
        /\ DOMAIN (s \o r) = 1..(Len(s) + Len(r))
        /\ \A i \in 1..(Len(s) + Len(r)) :
             (s \o r)[i] = IF i <= Len(s) THEN s[i] ELSE r[i - Len(s)]
    <3>1. s \o r \in Seq(Request) /\ Len(s \o r) = Len(s) + Len(r)
      BY ConcatProperties
    <3> QED BY <3>1, ConcatProperties, LenProperties
  <2>2. ASSUME NEW i \in 1..(Len(s) + Len(r))
        PROVE  \/ i <= Len(s) /\ (s \o r)[i].id \in Ids(s) /\ (s \o r)[i] = s[i]
               \/ /\ i > Len(s) /\ (s \o r)[i].id \in Ids(r)
                  /\ i - Len(s) \in DOMAIN r /\ (s \o r)[i] = r[i - Len(s)]
    BY <2>1 DEF Ids
  <2>3. ASSUME NEW j \in 1..(Len(s) + Len(r)), NEW k \in 1..(Len(s) + Len(r)),
               (s \o r)[j].id = (s \o r)[k].id
        PROVE  j = k
    <3>1. CASE j <= Len(s) /\ k <= Len(s)
      BY <1>4, <2>1, <2>3, <3>1 DEF Distinct
    <3>2. CASE j > Len(s) /\ k > Len(s)
      <4>1. j - Len(s) = k - Len(s)
        BY <1>4, <2>1, <2>2, <2>3, <3>2 DEF Distinct
      <4> QED BY <2>1, <4>1
    <3>3. CASE ~(j <= Len(s) <=> k <= Len(s))
      BY <1>4, <2>1, <2>2, <2>3, <3>3
    <3> QED BY <2>1, <3>1, <3>2, <3>3
  <2> QED BY <2>1, <2>3 DEF Distinct
<1> QED BY <1>1, <1>2, <1>3, <1>4

-----------------------------------------------------------------------------
(* Steps and places *)

\* A step that moves no request.
SamePlaces ==
    /\ \A t \in IOThreads : \A v \in VB : Unpushed(t, v)' = Unpushed(t, v)
    /\ \A v \in VB : Ids(list'[v]) = Ids(list[v])
    /\ \A w \in Workers : Held(w)' = Held(w)

\* It leaves the places as they are.
LEMMA SameKeeps ==
    ASSUME OnePlace, SamePlaces
    PROVE  /\ OnePlace'
           /\ \A i : InPlace(i)' <=> InPlace(i)
           /\ \A t \in IOThreads : Staged(t)' = Staged(t)
<1>1. OnePlace'
  BY DEF OnePlace, SamePlaces
<1>2. \A i : InPlace(i)' <=> InPlace(i)
  BY DEF InPlace, SamePlaces
<1>3. \A t \in IOThreads : Staged(t)' = Staged(t)
  BY DEF Staged, SamePlaces
<1> QED BY <1>1, <1>2, <1>3

\* What a step leaves alone keeps its places.
LEMMA UnchangedPlaces ==
    /\ UNCHANGED ioVars => \A t, v : Unpushed(t, v)' = Unpushed(t, v)
    /\ UNCHANGED list => \A v \in VB : Ids(list'[v]) = Ids(list[v])
    /\ UNCHANGED workerVars => \A w : Held(w)' = Held(w)
<1>1. UNCHANGED ioVars => \A t, v : Unpushed(t, v)' = Unpushed(t, v)
  BY DEF Unpushed, ioVars
<1>2. UNCHANGED workerVars => \A w : Held(w)' = Held(w)
  BY DEF Held, workerVars
<1> QED BY <1>1, <1>2

\* StageWrite puts the request it accepts in its thread's chain.
LEMMA StagePlaces ==
    ASSUME TypeInv, NEW t \in IOThreads, NEW v \in VB, NEW k \in Key, StageWrite(t, v, k)
    PROVE  /\ Unpushed(t, v)' = Unpushed(t, v) \cup {issued + 1}
           /\ \A u \in IOThreads : \A x \in VB :
                u # t \/ x # v => Unpushed(u, x)' = Unpushed(u, x)
           /\ \A x \in VB : Ids(list'[x]) = Ids(list[x])
           /\ \A w \in Workers : Held(w)' = Held(w)
           /\ staged'[t][v] = <<[vb |-> v, key |-> k, id |-> issued + 1]>> \o staged[t][v]
           /\ Ids(staged'[t][v]) = Ids(staged[t][v]) \cup {issued + 1}
           /\ \A u \in IOThreads : \A x \in VB :
                u # t \/ x # v => staged'[u][x] = staged[u][x]
           /\ issued + 1 \in Id
<1>1. PICK r \in Request : r = [vb |-> v, key |-> k, id |-> issued + 1]
  BY Numbers DEF StageWrite, TypeInv, TypeOK, CountType, Request, Id
<1>2. <<r>> \in Seq(Request) /\ Ids(<<r>>) = {issued + 1}
  BY <1>1 DEF Ids
<1>3. /\ staged'[t][v] = <<r>> \o staged[t][v]
      /\ \A u \in IOThreads : \A x \in VB : u # t \/ x # v => staged'[u][x] = staged[u][x]
  BY <1>1 DEF StageWrite, TypeInv, TypeOK, IOType
<1>4. Ids(staged'[t][v]) = Ids(staged[t][v]) \cup {issued + 1}
  <2>1. staged[t][v] \in Seq(Request)
    BY DEF TypeInv, TypeOK, IOType
  <2>2. Ids(<<r>> \o staged[t][v]) = Ids(<<r>>) \cup Ids(staged[t][v])
    BY <1>2, <2>1, IdsProperties
  <2> QED BY <1>2, <1>3, <2>2
<1>5. iopc[t] = "read" /\ UNCHANGED <<iopc, list, workerVars>>
      /\ \A u \in IOThreads \ {t} : touched'[u] = touched[u]
  BY DEF StageWrite, vbVars, TypeInv, TypeOK, IOType
<1>6. \A x \in VB : Unpushed(t, x) = Ids(staged[t][x]) /\ Unpushed(t, x)' = Ids(staged'[t][x])
  BY <1>5 DEF Unpushed
<1>7. \A u \in IOThreads \ {t} : \A x \in VB : Unpushed(u, x)' = Unpushed(u, x)
  BY <1>3, <1>5 DEF Unpushed
<1>8. issued + 1 \in Id
  BY <1>1 DEF Request
<1> QED BY <1>1, <1>3, <1>4, <1>5, <1>6, <1>7, <1>8, UnchangedPlaces

\* insertChain moves the chain of v from its thread to v's stack.
LEMMA InsertPlaces ==
    ASSUME TypeInv, NEW t \in IOThreads, InsertChain(t)
    PROVE  \E v \in VB :
           /\ v = Head(touched[t]) /\ Unpushed(t, v) = Ids(staged[t][v])
           /\ Unpushed(t, v)' = {}
           /\ Ids(list'[v]) = Ids(list[v]) \cup Unpushed(t, v)
           /\ list'[v] = staged[t][v] \o list[v]
           /\ \A u \in IOThreads : \A x \in VB :
                u # t \/ x # v => Unpushed(u, x)' = Unpushed(u, x)
           /\ \A x \in VB \ {v} : list'[x] = list[x]
           /\ \A w \in Workers : Held(w)' = Held(w)
<1>1. PICK v \in VB : v = Head(touched[t])
  BY FlushHead DEF InsertChain
<1>2. /\ iopc[t] = "insert" /\ iopc'[t] = "count" /\ UNCHANGED <<staged, touched, workerVars>>
      /\ \A u \in IOThreads \ {t} : iopc'[u] = iopc[u]
      /\ list'[v] = staged[t][v] \o list[v]
      /\ \A x \in VB \ {v} : list'[x] = list[x]
  BY <1>1 DEF InsertChain, TypeInv, TypeOK, IOType, VBType
<1>3. Unpushed(t, v) = Ids(staged[t][v]) /\ Unpushed(t, v)' = {}
  BY <1>1, <1>2 DEF Unpushed
<1>4. ASSUME NEW u \in IOThreads, NEW x \in VB, u # t \/ x # v
      PROVE  Unpushed(u, x)' = Unpushed(u, x)
  BY <1>1, <1>2, <1>4 DEF Unpushed
<1>5. Ids(list'[v]) = Ids(list[v]) \cup Ids(staged[t][v])
  BY <1>2, IdsProperties DEF TypeInv, TypeOK, IOType, VBType
<1> QED BY <1>1, <1>2, <1>3, <1>4, <1>5, UnchangedPlaces

\* The other steps of an IO thread move no request.
LEMMA IOPlaces ==
    ASSUME TypeInv, NEW t \in IOThreads,
           RefuseWrite(t) \/ FlushStaged(t) \/ CountPushed(t) \/ Arm(t) \/ Submit(t)
    PROVE  SamePlaces
<1>1. UNCHANGED <<list, workerVars>>
  BY DEF RefuseWrite, FlushStaged, CountPushed, Arm, Submit, vbVars
<1>2. CASE RefuseWrite(t)
  BY <1>1, <1>2, UnchangedPlaces DEF RefuseWrite, SamePlaces
<1>3. CASE FlushStaged(t) \/ Arm(t) \/ Submit(t)
  <2>1. /\ iopc[t] # "count" /\ iopc'[t] # "count" /\ UNCHANGED staged
        /\ \A u \in IOThreads \ {t} : iopc'[u] = iopc[u] /\ touched'[u] = touched[u]
    BY <1>3 DEF FlushStaged, Arm, Submit, NextTouched, TypeInv, TypeOK, IOType
  <2>2. \A u \in IOThreads : \A x \in VB : Unpushed(u, x)' = Unpushed(u, x)
    BY <2>1 DEF Unpushed
  <2> QED BY <1>1, <2>2, UnchangedPlaces DEF SamePlaces
<1>4. CASE CountPushed(t)
  <2>1. PICK v \in VB : v = Head(touched[t])
    BY <1>4, FlushHead DEF CountPushed
  <2>2. /\ iopc[t] = "count" /\ iopc'[t] = "arm" /\ UNCHANGED touched
        /\ \A u \in IOThreads \ {t} : iopc'[u] = iopc[u]
        /\ staged'[t][v] = <<>>
        /\ \A u \in IOThreads : \A x \in VB : u # t \/ x # v => staged'[u][x] = staged[u][x]
    BY <1>4, <2>1 DEF CountPushed, TypeInv, TypeOK, IOType
  <2>3. Unpushed(t, v) = {} /\ Unpushed(t, v)' = {}
    BY <2>1, <2>2, IdsProperties DEF Unpushed
  <2>4. ASSUME NEW u \in IOThreads, NEW x \in VB, u # t \/ x # v
        PROVE  Unpushed(u, x)' = Unpushed(u, x)
    BY <2>1, <2>2, <2>4 DEF Unpushed
  <2> QED BY <1>1, <2>3, <2>4, UnchangedPlaces DEF SamePlaces
<1> QED BY <1>2, <1>3, <1>4

\* Sweeping moves the requests of the stack to the writer.
LEMMA SweepPlaces ==
    ASSUME TypeInv, NEW w \in Workers, Sweep(w)
    PROVE  \E v \in VB :
           /\ Held(w) = {} /\ Held(w)' = Ids(list[v])
           /\ Ids(list'[v]) = {} /\ list'[v] = <<>> /\ batch'[w] = list[v]
           /\ \A t \in IOThreads : \A x \in VB : Unpushed(t, x)' = Unpushed(t, x)
           /\ \A x \in VB \ {v} : list'[x] = list[x]
           /\ \A y \in Workers \ {w} : Held(y)' = Held(y) /\ batch'[y] = batch[y]
<1>1. PICK v \in VB : v = wvb[w]
  BY DEF Sweep, TypeInv, MidCall, InCall
<1>2. /\ wpc[w] = "sweep" /\ wpc'[w] = "count" /\ batch'[w] = list[v] /\ list'[v] = <<>>
      /\ \A x \in VB \ {v} : list'[x] = list[x]
      /\ \A y \in Workers \ {w} : wpc'[y] = wpc[y] /\ batch'[y] = batch[y]
      /\ UNCHANGED ioVars
  BY <1>1 DEF Sweep, TypeInv, TypeOK, WorkerType, VBType
<1>3. Held(w) = {} /\ Held(w)' = Ids(list[v])
  BY <1>2 DEF Held
<1>4. \A y \in Workers \ {w} : Held(y)' = Held(y)
  BY <1>2 DEF Held
<1> QED BY <1>2, <1>3, <1>4, UnchangedPlaces, IdsProperties

\* Completing a batch is the end of its requests.
LEMMA CompletePlaces ==
    ASSUME TypeInv, NEW w \in Workers, Complete(w)
    PROVE  /\ Held(w) = Ids(batch[w]) /\ Held(w)' = {}
           /\ \A t \in IOThreads : \A x \in VB : Unpushed(t, x)' = Unpushed(t, x)
           /\ \A x \in VB : Ids(list'[x]) = Ids(list[x])
           /\ \A y \in Workers \ {w} : Held(y)' = Held(y)
<1>1. /\ wpc[w] = "complete" /\ wpc'[w] = "release" /\ UNCHANGED <<ioVars, list, batch>>
      /\ \A y \in Workers \ {w} : wpc'[y] = wpc[y]
  BY DEF Complete, TypeInv, TypeOK, WorkerType, vbVars
<1>2. Held(w) = Ids(batch[w]) /\ Held(w)' = {} /\ \A y \in Workers \ {w} : Held(y)' = Held(y)
  BY <1>1 DEF Held
<1> QED BY <1>1, <1>2, UnchangedPlaces

\* The other steps of a writer move no request.
LEMMA WorkerPlaces ==
    ASSUME TypeInv, NEW w \in Workers,
           \/ TakeTask(w) \/ CountSwept(w) \/ WriteDocs(w) \/ Release(w)
           \/ Recheck(w) \/ Rearm(w) \/ Resubmit(w)
    PROVE  SamePlaces
<1>1. UNCHANGED <<ioVars, list>>
  BY DEF TakeTask, CountSwept, WriteDocs, Release, Recheck, Rearm, Resubmit, vbVars
<1>0. wpc \in [Workers -> Wpc] /\ batch \in [Workers -> Seq(Request)]
  BY DEF TypeInv, TypeOK, WorkerType
<1>2. \A y \in Workers \ {w} : wpc'[y] = wpc[y] /\ batch'[y] = batch[y]
  BY <1>0 DEF TakeTask, CountSwept, WriteDocs, Release, Recheck, Rearm, Resubmit, Return
<1>3. Held(w)' = Held(w)
  <2>1. CASE CountSwept(w)
    <3>1. Ids(Reverse(batch[w])) = Ids(batch[w])
      BY <1>0, IdsProperties
    <3>2. /\ wpc[w] = "count" /\ batch'[w] = Reverse(batch[w])
          /\ wpc'[w] = (IF batch[w] = <<>> THEN "release" ELSE "write")
      BY <1>0, <2>1 DEF CountSwept
    <3>3. batch[w] = <<>> => Ids(batch[w]) = {}
      BY IdsProperties
    <3> QED BY <3>1, <3>2, <3>3 DEF Held
  <2>2. CASE WriteDocs(w)
    <3>1. /\ wpc[w] = "write" /\ wpc'[w] = "complete" /\ batch'[w] = batch[w]
      BY <1>0, <2>2 DEF WriteDocs
    <3> QED BY <3>1 DEF Held
  <2>3. CASE TakeTask(w) \/ Release(w) \/ Recheck(w) \/ Rearm(w) \/ Resubmit(w)
    <3>1. /\ wpc[w] \notin {"count", "write", "complete"}
          /\ wpc'[w] \notin {"count", "write", "complete"}
      BY <1>0, <2>3 DEF TakeTask, Release, Recheck, Rearm, Resubmit, Return
    <3> QED BY <3>1 DEF Held
  <2> QED BY <2>1, <2>2, <2>3
<1>4. \A y \in Workers : Held(y)' = Held(y)
  BY <1>2, <1>3 DEF Held
<1> QED BY <1>1, <1>4, UnchangedPlaces DEF SamePlaces

\* Nor do the coalescing thread, the tuner and Bucket::Close.
OtherStep ==
    \/ DeferStep \/ (\E w \in Workers : Grow(w))
    \/ (\E n \in 1..Cardinality(Workers) : Shrink(n))
    \/ Reap \/ BeginClose \/ CloseStep \/ Closed \/ UNCHANGED vars

\* They touch nothing of the IO threads, the stacks, the batches or the store.
LEMMA OtherPlaces ==
    ASSUME TypeInv, OtherStep
    PROVE  /\ SamePlaces
           /\ UNCHANGED <<ioVars, list, batch, storeVars, queuedBytes, issued, answer>>
           /\ \A w \in Workers : \/ wpc'[w] = wpc[w]
                                 \/ /\ wpc[w] \notin {"count", "write", "complete"}
                                    /\ wpc'[w] \notin {"count", "write", "complete"}
<1>0. wpc \in [Workers -> Wpc]
  BY DEF TypeInv, TypeOK, WorkerType
<1>1. /\ UNCHANGED <<ioVars, list, batch, storeVars, queuedBytes, issued, answer>>
      /\ \A w \in Workers : \/ wpc'[w] = wpc[w]
                            \/ /\ wpc[w] \notin {"count", "write", "complete"}
                               /\ wpc'[w] \notin {"count", "write", "complete"}
  <2>1. CASE DeferStep
    BY <2>1 DEF DeferStep, DeferTake, DeferSubmit, DeferDrain, workerVars, vbVars
  <2>2. CASE \E w \in Workers : Grow(w)
    BY <1>0, <2>2 DEF Grow, vbVars
  <2>3. CASE Reap \/ JoinWriters
    BY <1>0, <2>3 DEF Reap, JoinWriters, Joinable, vbVars
  <2>4. CASE \/ \E n \in 1..Cardinality(Workers) : Shrink(n)
             \/ BeginClose \/ DrainWrites \/ StopDefer \/ JoinDefer \/ StopWriters
             \/ Closed \/ UNCHANGED vars
    BY <2>4 DEF Shrink, BeginClose, DrainWrites, StopDefer, JoinDefer, StopWriters,
                Closed, vars, workerVars, vbVars
  <2> QED BY <2>1, <2>2, <2>3, <2>4 DEF OtherStep, CloseStep
<1>2. \A w \in Workers : Held(w)' = Held(w)
  BY <1>1 DEF Held
<1> QED BY <1>1, <1>2, UnchangedPlaces DEF SamePlaces

-----------------------------------------------------------------------------
(* One place, once *)

\* Who takes a step: the five that move a request, and the rest.
MovesNothing ==
    \/ \E t \in IOThreads :
          RefuseWrite(t) \/ FlushStaged(t) \/ CountPushed(t) \/ Arm(t) \/ Submit(t)
    \/ \E w \in Workers :
          \/ TakeTask(w) \/ CountSwept(w) \/ WriteDocs(w) \/ Release(w)
          \/ Recheck(w) \/ Rearm(w) \/ Resubmit(w)
    \/ OtherStep

\* There are no other steps.
LEMMA StepKinds ==
    [Next]_vars =>
        \/ \E t \in IOThreads, v \in VB, k \in Key : StageWrite(t, v, k)
        \/ \E t \in IOThreads : InsertChain(t)
        \/ \E w \in Workers : Sweep(w) \/ Complete(w)
        \/ MovesNothing
  BY DEF Next, IOStep, WorkerStep, OtherStep, MovesNothing

\* The rest moves nothing.
LEMMA MovesNothingSame == TypeInv /\ MovesNothing => SamePlaces
  BY IOPlaces, WorkerPlaces, OtherPlaces DEF MovesNothing

\* A request stays in one place.
LEMMA OnePlaceNext ==
    ASSUME AInv, [Next]_vars PROVE OnePlace'
<1> USE DEF AInv
<1>1. ASSUME NEW t \in IOThreads, NEW v \in VB, NEW k \in Key, StageWrite(t, v, k)
      PROVE  OnePlace'
  <2>1. /\ Unpushed(t, v)' = Unpushed(t, v) \cup {issued + 1}
        /\ \A u \in IOThreads : \A x \in VB :
                u # t \/ x # v => Unpushed(u, x)' = Unpushed(u, x)
        /\ \A x \in VB : Ids(list'[x]) = Ids(list[x])
        /\ \A w \in Workers : Held(w)' = Held(w)
        /\ issued + 1 \in Id
    BY <1>1, StagePlaces
  <2>2. ~InPlace(issued + 1)
    <3>1. issued \in Int
      BY DEF TypeInv, TypeOK, CountType
    <3> QED BY <2>1, <3>1 DEF Received
  <2>3. /\ \A u \in IOThreads : \A x \in VB : issued + 1 \notin Unpushed(u, x)
        /\ \A x \in VB : issued + 1 \notin Ids(list[x])
        /\ \A w \in Workers : issued + 1 \notin Held(w)
    BY <2>2 DEF InPlace
  <2> QED BY <2>1, <2>3 DEF OnePlace
<1>2. ASSUME NEW t \in IOThreads, InsertChain(t) PROVE OnePlace'
  <2>1. PICK v \in VB :
           /\ Unpushed(t, v)' = {}
           /\ Ids(list'[v]) = Ids(list[v]) \cup Unpushed(t, v)
           /\ \A u \in IOThreads : \A x \in VB :
                u # t \/ x # v => Unpushed(u, x)' = Unpushed(u, x)
           /\ \A x \in VB \ {v} : list'[x] = list[x]
           /\ \A w \in Workers : Held(w)' = Held(w)
    BY <1>2, InsertPlaces
  <2>2. \A x \in VB \ {v} : Ids(list'[x]) = Ids(list[x])
    BY <2>1
  <2> QED BY <2>1, <2>2 DEF OnePlace
<1>3. ASSUME NEW w \in Workers, Sweep(w) PROVE OnePlace'
  <2>1. PICK v \in VB :
           /\ Held(w) = {} /\ Held(w)' = Ids(list[v]) /\ Ids(list'[v]) = {}
           /\ \A t \in IOThreads : \A x \in VB : Unpushed(t, x)' = Unpushed(t, x)
           /\ \A x \in VB \ {v} : list'[x] = list[x]
           /\ \A y \in Workers \ {w} : Held(y)' = Held(y)
    BY <1>3, SweepPlaces
  <2>2. \A x \in VB \ {v} : Ids(list'[x]) = Ids(list[x])
    BY <2>1
  <2> QED BY <2>1, <2>2 DEF OnePlace
<1>4. ASSUME NEW w \in Workers, Complete(w) PROVE OnePlace'
  <2>1. /\ Held(w)' = {}
        /\ \A t \in IOThreads : \A x \in VB : Unpushed(t, x)' = Unpushed(t, x)
        /\ \A x \in VB : Ids(list'[x]) = Ids(list[x])
        /\ \A y \in Workers \ {w} : Held(y)' = Held(y)
    BY <1>4, CompletePlaces
  <2> QED BY <2>1 DEF OnePlace
<1>5. CASE MovesNothing
  BY <1>5, MovesNothingSame, SameKeeps
<1> QED BY <1>1, <1>2, <1>3, <1>4, <1>5, StepKinds

\* And no request is twice in a chain or a batch.
LEMMA AllDistinctNext ==
    ASSUME AInv, [Next]_vars PROVE AllDistinct'
<1> USE DEF AInv
<1>0. /\ \A t \in IOThreads : \A v \in VB : staged[t][v] \in Seq(Request)
      /\ \A v \in VB : list[v] \in Seq(Request)
      /\ \A w \in Workers : batch[w] \in Seq(Request)
  BY DEF TypeInv, TypeOK, IOType, VBType, WorkerType
<1>1. ASSUME NEW t \in IOThreads, NEW v \in VB, NEW k \in Key, StageWrite(t, v, k)
      PROVE  AllDistinct'
  <2>1. PICK r : r = [vb |-> v, key |-> k, id |-> issued + 1]
    OBVIOUS
  <2>2. /\ staged'[t][v] = <<r>> \o staged[t][v]
        /\ \A u \in IOThreads : \A x \in VB : u # t \/ x # v => staged'[u][x] = staged[u][x]
        /\ issued + 1 \in Id
    BY <1>1, <2>1, StagePlaces
  <2>3. <<r>> \in Seq(Request) /\ Distinct(<<r>>) /\ Ids(<<r>>) = {issued + 1}
    BY <2>1, <2>2 DEF Request, Distinct, Ids
  <2>4. issued + 1 \notin Ids(staged[t][v])
    <3>1. issued \in Int
      BY DEF TypeInv, TypeOK, CountType
    <3> QED BY <3>1 DEF Received
  <2>5. Distinct(staged'[t][v])
    BY <1>0, <2>2, <2>3, <2>4, DistinctProperties DEF AllDistinct
  <2>6. UNCHANGED <<list, batch>>
    BY <1>1 DEF StageWrite, vbVars, workerVars
  <2>7. \A u \in IOThreads : \A x \in VB : Distinct(staged'[u][x])
    BY <2>2, <2>5 DEF AllDistinct
  <2> QED BY <2>6, <2>7 DEF AllDistinct
<1>2. ASSUME NEW t \in IOThreads, InsertChain(t) PROVE AllDistinct'
  <2>1. PICK v \in VB :
           /\ Unpushed(t, v) = Ids(staged[t][v])
           /\ list'[v] = staged[t][v] \o list[v]
           /\ \A x \in VB \ {v} : list'[x] = list[x]
    BY <1>2, InsertPlaces
  <2>2. Distinct(list'[v])
    BY <1>0, <2>1, DistinctProperties DEF AllDistinct, OnePlace
  <2>3. UNCHANGED <<staged, batch>>
    BY <1>2 DEF InsertChain, workerVars
  <2>4. \A x \in VB : Distinct(list'[x])
    BY <2>1, <2>2 DEF AllDistinct
  <2> QED BY <2>3, <2>4 DEF AllDistinct
<1>3. ASSUME NEW t \in IOThreads, RefuseWrite(t) \/ FlushStaged(t) \/ Arm(t) \/ Submit(t)
      PROVE  AllDistinct'
  <2>1. UNCHANGED <<staged, list, batch>>
    BY <1>3 DEF RefuseWrite, FlushStaged, Arm, Submit, ioVars, vbVars, workerVars
  <2> QED BY <2>1 DEF AllDistinct
<1>4. ASSUME NEW t \in IOThreads, CountPushed(t) PROVE AllDistinct'
  <2>1. UNCHANGED <<list, batch>> /\ \A u \in IOThreads : \A x \in VB :
           staged'[u][x] = staged[u][x] \/ staged'[u][x] = <<>>
    BY <1>4, FlushHead DEF CountPushed, workerVars, TypeInv, TypeOK, IOType
  <2>2. \A u \in IOThreads : \A x \in VB : Distinct(staged'[u][x])
    BY <2>1, DistinctProperties DEF AllDistinct
  <2> QED BY <2>1, <2>2 DEF AllDistinct
<1>5. ASSUME NEW w \in Workers, WorkerStep(w) PROVE AllDistinct'
  <2>0. UNCHANGED staged /\ wpc \in [Workers -> Wpc] /\ batch \in [Workers -> Seq(Request)]
    BY <1>5 DEF WorkerStep, TakeTask, Sweep, CountSwept, WriteDocs, Complete, Release,
                Recheck, Rearm, Resubmit, ioVars, TypeInv, TypeOK, WorkerType
  <2>1. CASE Sweep(w)
    <3>1. PICK v \in VB :
           /\ list'[v] = <<>> /\ batch'[w] = list[v]
           /\ \A x \in VB \ {v} : list'[x] = list[x]
           /\ \A y \in Workers \ {w} : batch'[y] = batch[y]
      BY <2>1, SweepPlaces
    <3>2. (\A x \in VB : Distinct(list'[x])) /\ \A y \in Workers : Distinct(batch'[y])
      BY <3>1, DistinctProperties DEF AllDistinct
    <3> QED BY <2>0, <3>2 DEF AllDistinct
  <2>2. CASE ~Sweep(w)
    <3>1. /\ UNCHANGED list
          /\ \A y \in Workers : batch'[y] \in {batch[y], Reverse(batch[y]), <<>>}
      BY <1>5, <2>0, <2>2 DEF WorkerStep, TakeTask, CountSwept, WriteDocs, Complete,
                 Release, Recheck, Rearm, Resubmit, Return, vbVars
    <3>2. \A y \in Workers : Distinct(batch'[y])
      BY <2>0, <3>1, DistinctProperties DEF AllDistinct
    <3> QED BY <2>0, <3>1, <3>2 DEF AllDistinct
  <2> QED BY <2>1, <2>2
<1>6. CASE OtherStep
  <2>1. UNCHANGED <<staged, list, batch>>
    BY <1>6, OtherPlaces DEF ioVars
  <2> QED BY <2>1 DEF AllDistinct
<1> QED BY <1>1, <1>2, <1>3, <1>4, <1>5, <1>6 DEF Next, IOStep, OtherStep

-----------------------------------------------------------------------------
(* What IO threads hold *)

\* A request enters the system through StageWrite only.
LEMMA InPlaceNext ==
    ASSUME AInv, [Next]_vars
    PROVE  \A i : InPlace(i)' => InPlace(i) \/ (i = issued + 1 /\ issued' = issued + 1)
<1> SUFFICES ASSUME NEW i
             PROVE  InPlace(i)' => InPlace(i) \/ (i = issued + 1 /\ issued' = issued + 1)
  OBVIOUS
<1> USE DEF AInv
<1>1. ASSUME NEW t \in IOThreads, NEW v \in VB, NEW k \in Key, StageWrite(t, v, k)
      PROVE  InPlace(i)' => InPlace(i) \/ (i = issued + 1 /\ issued' = issued + 1)
  <2>1. /\ Unpushed(t, v)' = Unpushed(t, v) \cup {issued + 1}
        /\ \A u \in IOThreads : \A x \in VB :
                u # t \/ x # v => Unpushed(u, x)' = Unpushed(u, x)
        /\ \A x \in VB : Ids(list'[x]) = Ids(list[x])
        /\ \A w \in Workers : Held(w)' = Held(w)
    BY <1>1, StagePlaces
  <2>2. issued' = issued + 1
    BY <1>1 DEF StageWrite
  <2> QED BY <2>1, <2>2 DEF InPlace
<1>2. ASSUME NEW t \in IOThreads, InsertChain(t) PROVE InPlace(i)' => InPlace(i)
  <2>1. PICK v \in VB :
           /\ Unpushed(t, v)' = {}
           /\ Ids(list'[v]) = Ids(list[v]) \cup Unpushed(t, v)
           /\ \A u \in IOThreads : \A x \in VB :
                u # t \/ x # v => Unpushed(u, x)' = Unpushed(u, x)
           /\ \A x \in VB \ {v} : list'[x] = list[x]
           /\ \A w \in Workers : Held(w)' = Held(w)
    BY <1>2, InsertPlaces
  <2> QED BY <2>1 DEF InPlace
<1>3. ASSUME NEW w \in Workers, Sweep(w) PROVE InPlace(i)' => InPlace(i)
  <2>1. PICK v \in VB :
           /\ Held(w)' = Ids(list[v]) /\ Ids(list'[v]) = {}
           /\ \A t \in IOThreads : \A x \in VB : Unpushed(t, x)' = Unpushed(t, x)
           /\ \A x \in VB \ {v} : list'[x] = list[x]
           /\ \A y \in Workers \ {w} : Held(y)' = Held(y)
    BY <1>3, SweepPlaces
  <2> QED BY <2>1 DEF InPlace
<1>4. ASSUME NEW w \in Workers, Complete(w) PROVE InPlace(i)' => InPlace(i)
  <2>1. /\ Held(w)' = {}
        /\ \A t \in IOThreads : \A x \in VB : Unpushed(t, x)' = Unpushed(t, x)
        /\ \A x \in VB : Ids(list'[x]) = Ids(list[x])
        /\ \A y \in Workers \ {w} : Held(y)' = Held(y)
    BY <1>4, CompletePlaces
  <2> QED BY <2>1 DEF InPlace
<1>5. CASE MovesNothing
  <2>1. SamePlaces
    BY <1>5, MovesNothingSame
  <2>2. \A j : InPlace(j)' <=> InPlace(j)
    BY <2>1, SameKeeps
  <2> QED BY <2>2
<1> QED BY <1>1, <1>2, <1>3, <1>4, <1>5, StepKinds

\* Writers, the coalescing thread and the pool leave the IO threads alone.
LEMMA IOFrame ==
    ASSUME AInv, (\E w \in Workers : WorkerStep(w)) \/ OtherStep
    PROVE  UNCHANGED <<ioVars, issued>>
<1>1. CASE \E w \in Workers : WorkerStep(w)
  BY <1>1 DEF WorkerStep, TakeTask, Sweep, CountSwept, WriteDocs, Complete, Release,
              Recheck, Rearm, Resubmit
<1> QED BY <1>1, OtherPlaces DEF AInv

\* Every request anywhere was received.
LEMMA ReceivedNext ==
    ASSUME AInv, [Next]_vars PROVE Received'
<1> USE DEF AInv
<1>0. issued \in Int /\ issued' \in Int
  BY NextTypeInv DEF TypeInv, TypeOK, CountType
<1>1. issued <= issued' /\ \A u \in IOThreads : \A x \in VB : \A i \in Ids(staged'[u][x]) :
         i \in Ids(staged[u][x]) \/ (i = issued + 1 /\ issued' = issued + 1)
  <2>1. ASSUME NEW t \in IOThreads, NEW v \in VB, NEW k \in Key, StageWrite(t, v, k)
        PROVE  <1>1!1 /\ <1>1!2
    <3>1. /\ Ids(staged'[t][v]) = Ids(staged[t][v]) \cup {issued + 1}
          /\ \A u \in IOThreads : \A x \in VB : u # t \/ x # v => staged'[u][x] = staged[u][x]
      BY <2>1, StagePlaces
    <3>2. issued' = issued + 1
      BY <2>1 DEF StageWrite
    <3> QED BY <1>0, <3>1, <3>2
  <2>2. ASSUME NEW t \in IOThreads, RefuseWrite(t) \/ FlushStaged(t) \/ InsertChain(t)
                 \/ Arm(t) \/ Submit(t)
        PROVE  <1>1!1 /\ <1>1!2
    <3>1. UNCHANGED staged /\ (issued' = issued \/ issued' = issued + 1)
      BY <2>2 DEF RefuseWrite, FlushStaged, InsertChain, Arm, Submit, ioVars
    <3> QED BY <1>0, <3>1
  <2>3. ASSUME NEW t \in IOThreads, CountPushed(t) PROVE <1>1!1 /\ <1>1!2
    <3>1. UNCHANGED issued /\ \A u \in IOThreads : \A x \in VB :
             staged'[u][x] = staged[u][x] \/ staged'[u][x] = <<>>
      BY <2>3, FlushHead DEF CountPushed, TypeInv, TypeOK, IOType
    <3> QED BY <1>0, <3>1, IdsProperties
  <2>4. CASE (\E w \in Workers : WorkerStep(w)) \/ OtherStep
    <3>1. UNCHANGED <<staged, issued>>
      BY <2>4, IOFrame DEF ioVars
    <3> QED BY <1>0, <3>1
  <2> QED BY <2>1, <2>2, <2>3, <2>4 DEF Next, IOStep, OtherStep
<1>2. ASSUME NEW i \in Id, InPlace(i)' PROVE i <= issued'
  <2>1. i \in Int
    BY DEF Id
  <2>2. i <= issued \/ (i = issued + 1 /\ issued' = issued + 1)
    BY <1>2, InPlaceNext DEF Received
  <2> QED BY <1>0, <1>1, <2>1, <2>2
<1>3. ASSUME NEW u \in IOThreads, NEW x \in VB, NEW i \in Ids(staged'[u][x]) PROVE i <= issued'
  <2>1. i \in Id
    <3>1. staged'[u][x] \in Seq(Request)
      BY NextTypeInv DEF TypeInv, TypeOK, IOType
    <3> QED BY <3>1, IdsProperties
  <2>2. i <= issued \/ (i = issued + 1 /\ issued' = issued + 1)
    BY <1>1, <1>3 DEF Received
  <2> QED BY <1>0, <1>1, <2>1, <2>2 DEF Id
<1> QED BY <1>2, <1>3 DEF Received

\* A chain is found again through `touched`.
LEMMA AllTouchedNext ==
    ASSUME AInv, [Next]_vars PROVE AllTouched'
<1> USE DEF AInv
<1> DEFINE Found(t, x) == \E j \in DOMAIN touched[t] : touched[t][j] = x
<1>0. /\ \A t \in IOThreads : touched[t] \in Seq(VB)
      /\ iopc \in [IOThreads -> IOpc] /\ touched \in [IOThreads -> Seq(VB)]
      /\ staged \in [IOThreads -> [VB -> Seq(Request)]]
  BY DEF TypeInv, TypeOK, IOType
<1>1. ASSUME NEW t \in IOThreads, NEW v \in VB, NEW k \in Key, StageWrite(t, v, k)
      PROVE  AllTouched'
  <2>1. /\ \A u \in IOThreads : \A x \in VB : u # t \/ x # v => staged'[u][x] = staged[u][x]
        /\ iopc[t] = "read" /\ UNCHANGED iopc
        /\ \A u \in IOThreads \ {t} : touched'[u] = touched[u]
        /\ touched'[t] = IF staged[t][v] = <<>> THEN Append(touched[t], v) ELSE touched[t]
    BY <1>0, <1>1, StagePlaces DEF StageWrite
  <2>2. /\ DOMAIN touched[t] \subseteq DOMAIN Append(touched[t], v)
        /\ \A j \in DOMAIN touched[t] : Append(touched[t], v)[j] = touched[t][j]
        /\ \E j \in DOMAIN Append(touched[t], v) : Append(touched[t], v)[j] = v
    <3>1. /\ DOMAIN touched[t] = 1..Len(touched[t]) /\ Len(touched[t]) \in Nat
          /\ DOMAIN Append(touched[t], v) = 1..(Len(touched[t]) + 1)
          /\ \A j \in 1..Len(touched[t]) : Append(touched[t], v)[j] = touched[t][j]
          /\ Append(touched[t], v)[Len(touched[t]) + 1] = v
      BY <1>0, AppendProperties, LenProperties
    <3> QED BY <3>1
  <2>3. \A x \in VB : Found(t, x) => Found(t, x)'
    BY <2>1, <2>2
  <2>4. Found(t, v)'
    BY <2>1, <2>2 DEF AllTouched
  <2>5. \A u \in IOThreads \ {t} : \A x \in VB : Found(u, x) => Found(u, x)'
    BY <2>1
  <2>6. \A u \in IOThreads \ {t} : Head(touched'[u]) = Head(touched[u])
    BY <2>1
  <2>7. \A u \in IOThreads : \A x \in VB : staged'[u][x] # <<>> => Found(u, x)'
    <3> SUFFICES ASSUME NEW u \in IOThreads, NEW x \in VB, staged'[u][x] # <<>>
                 PROVE  Found(u, x)'
      OBVIOUS
    <3>1. CASE u = t /\ x = v
      BY <2>4, <3>1
    <3>2. CASE ~(u = t /\ x = v)
      <4>1. Found(u, x)
        BY <2>1, <3>2 DEF AllTouched
      <4> QED BY <2>3, <2>5, <4>1
    <3> QED BY <3>1, <3>2
  <2>8. \A u \in IOThreads : \A x \in VB :
           iopc'[u] \in {"arm", "submit"} /\ x = Head(touched'[u]) => staged'[u][x] = <<>>
    BY <2>1, <2>6 DEF AllTouched
  <2> QED BY <2>7, <2>8 DEF AllTouched
<1>2. ASSUME NEW t \in IOThreads, RefuseWrite(t) \/ FlushStaged(t) \/ InsertChain(t)
      PROVE  AllTouched'
  <2>1. /\ UNCHANGED <<staged, touched>>
        /\ \A u \in IOThreads : iopc'[u] = iopc[u] \/ iopc'[u] \notin {"arm", "submit"}
    BY <1>0, <1>2 DEF RefuseWrite, FlushStaged, InsertChain, ioVars
  <2> QED BY <2>1 DEF AllTouched
<1>3. ASSUME NEW t \in IOThreads, CountPushed(t) PROVE AllTouched'
  <2>1. /\ UNCHANGED touched /\ \A u \in IOThreads \ {t} : iopc'[u] = iopc[u]
        /\ \A u \in IOThreads : \A x \in VB :
             staged'[u][x] = IF u = t /\ x = Head(touched[t]) THEN <<>> ELSE staged[u][x]
    BY <1>0, <1>3, FlushHead DEF CountPushed
  <2> QED BY <2>1 DEF AllTouched
<1>4. ASSUME NEW t \in IOThreads, Arm(t) \/ Submit(t) PROVE AllTouched'
  <2>1. /\ UNCHANGED staged /\ iopc[t] \in {"arm", "submit"}
        /\ \A u \in IOThreads \ {t} : iopc'[u] = iopc[u] /\ touched'[u] = touched[u]
        /\ \/ touched'[t] = touched[t]
           \/ touched'[t] = Tail(touched[t]) /\ iopc'[t] \in {"read", "insert"}
    BY <1>0, <1>4 DEF Arm, Submit, NextTouched
  <2>2. \A x \in VB : x # Head(touched[t]) /\ Found(t, x) =>
             \E j \in DOMAIN Tail(touched[t]) : Tail(touched[t])[j] = x
    <3>1. /\ DOMAIN touched[t] = 1..Len(touched[t]) /\ Len(touched[t]) \in Nat
          /\ DOMAIN Tail(touched[t]) = 1..(Len(touched[t]) - 1)
          /\ \A i \in 1..(Len(touched[t]) - 1) : Tail(touched[t])[i] = touched[t][i + 1]
          /\ Head(touched[t]) = touched[t][1]
      <4>1. touched[t] # <<>>
        BY <2>1 DEF TypeInv, MidCall
      <4> QED BY <1>0, <4>1, HeadTailProperties, LenProperties
    <3>2. ASSUME NEW x \in VB, x # Head(touched[t]), NEW j \in DOMAIN touched[t],
                 touched[t][j] = x
          PROVE  \E i \in DOMAIN Tail(touched[t]) : Tail(touched[t])[i] = x
      <4>1. j - 1 \in DOMAIN Tail(touched[t]) /\ Tail(touched[t])[j - 1] = x
        BY <3>1, <3>2
      <4> QED BY <4>1
    <3> QED BY <3>2
  <2>3. \A x \in VB : staged[t][x] # <<>> => x # Head(touched[t]) /\ Found(t, x)
    BY <2>1 DEF AllTouched
  <2>4. \A u \in IOThreads : \A x \in VB : staged'[u][x] # <<>> => Found(u, x)'
    <3> SUFFICES ASSUME NEW u \in IOThreads, NEW x \in VB, staged'[u][x] # <<>>
                 PROVE  Found(u, x)'
      OBVIOUS
    <3>1. Found(u, x)
      BY <2>1 DEF AllTouched
    <3>2. CASE touched'[u] = touched[u]
      BY <3>1, <3>2
    <3>3. CASE u = t /\ touched'[t] = Tail(touched[t])
      BY <2>1, <2>2, <2>3, <3>3
    <3> QED BY <2>1, <3>2, <3>3
  <2>5. \A u \in IOThreads : \A x \in VB :
           iopc'[u] \in {"arm", "submit"} /\ x = Head(touched'[u]) => staged'[u][x] = <<>>
    BY <2>1 DEF AllTouched
  <2> QED BY <2>4, <2>5 DEF AllTouched
<1>5. CASE (\E w \in Workers : WorkerStep(w)) \/ OtherStep
  BY <1>5, IOFrame DEF AllTouched, ioVars
<1> QED BY <1>1, <1>2, <1>3, <1>4, <1>5 DEF Next, IOStep, OtherStep

-----------------------------------------------------------------------------
(* The charge *)

\* What is counted is finite.
LEMMA CountedFinite ==
    ASSUME TypeInv
    PROVE  /\ IsFiniteSet(Outstanding) /\ Cardinality(Outstanding) \in Nat
           /\ \A t \in IOThreads : IsFiniteSet(Staged(t)) /\ Cardinality(Staged(t)) \in Nat
           /\ \A w \in Workers : IsFiniteSet(Held(w)) /\ Held(w) \subseteq Id
           /\ \A t \in IOThreads : Staged(t) \subseteq Id
<1>1. IsFiniteSet(Id)
  BY Numbers, FS_Interval DEF Id
<1>2. Outstanding \subseteq Id
  BY DEF Outstanding
<1>3. \A t \in IOThreads : \A v \in VB : Unpushed(t, v) \subseteq Id
  <2>1. \A t \in IOThreads : \A v \in VB : staged[t][v] \in Seq(Request)
    BY DEF TypeInv, TypeOK, IOType
  <2> QED BY <2>1, IdsProperties DEF Unpushed
<1>4. \A t \in IOThreads : Staged(t) \subseteq Id
  BY <1>3 DEF Staged
<1>5. \A w \in Workers : Held(w) \subseteq Id
  <2>1. \A w \in Workers : batch[w] \in Seq(Request)
    BY DEF TypeInv, TypeOK, WorkerType
  <2> QED BY <2>1, IdsProperties DEF Held
<1>6. \A S : S \subseteq Id => IsFiniteSet(S) /\ Cardinality(S) \in Nat
  BY <1>1, FS_Subset, FS_CardinalityType
<1> QED BY <1>2, <1>4, <1>5, <1>6

\* Nothing else is charged or staged by a step that moves no request and takes
\* no thread with a staged chain in or out of FlushStaged.
LEMMA SameCharge ==
    ASSUME AInv, SamePlaces, UNCHANGED <<bytes, queuedBytes>>,
           \A t \in IOThreads : \/ iopc'[t] = "read" <=> iopc[t] = "read"
                                \/ Staged(t) = {}
    PROVE  Charged' /\ Outstanding' = Outstanding
<1> USE DEF AInv
<1>1. \A t \in IOThreads : Staged(t)' = Staged(t)
  BY SameKeeps
<1>2. \A t \in IOThreads : Staged(t) = {} =>
         \A v \in VB : Unpushed(t, v) = {} /\ Unpushed(t, v)' = {}
  BY DEF Staged, SamePlaces
<1>3. Outstanding' = Outstanding
  <2>1. ASSUME NEW i \in Id
        PROVE  (\E t \in IOThreads, v \in VB : iopc[t] # "read" /\ i \in Unpushed(t, v))'
               <=> \E t \in IOThreads, v \in VB : iopc[t] # "read" /\ i \in Unpushed(t, v)
    BY <1>2 DEF SamePlaces
  <2>2. ASSUME NEW i \in Id PROVE i \in Outstanding' <=> i \in Outstanding
    BY <2>1 DEF Outstanding, SamePlaces
  <2>3. Outstanding \subseteq Id /\ Outstanding' \subseteq Id
    BY DEF Outstanding
  <2> QED BY <2>2, <2>3
<1>4. ASSUME NEW t \in IOThreads
      PROVE  bytes'[t] = IF iopc'[t] = "read" THEN Cardinality(Staged(t)') ELSE 0
  <2>1. CASE iopc'[t] = "read" <=> iopc[t] = "read"
    BY <1>1, <2>1 DEF Charged
  <2>2. CASE Staged(t) = {}
    <3>1. bytes[t] = 0
      BY <2>2, FS_EmptySet DEF Charged
    <3>2. Cardinality(Staged(t)') = 0
      BY <1>1, <2>2, FS_EmptySet
    <3> QED BY <3>1, <3>2
  <2> QED BY <2>1, <2>2
<1>5. BoundedOvershoot'
  BY DEF Charged, BoundedOvershoot
<1> QED BY <1>3, <1>4, <1>5 DEF Charged

\* A thread whose `touched` is empty has nothing staged.
LEMMA NothingStaged ==
    ASSUME TypeInv, AllTouched, NEW t \in IOThreads, touched[t] = <<>>
    PROVE  Staged(t) = {}
<1>1. \A v \in VB : staged[t][v] = <<>>
  BY DEF AllTouched
<1>2. \A v \in VB : Unpushed(t, v) = {}
  BY <1>1, IdsProperties DEF Unpushed
<1> QED BY <1>2 DEF Staged

\* The same before the last vbucket of `touched` is left.
LEMMA LastTouched ==
    ASSUME TypeInv, AllTouched, NEW t \in IOThreads, iopc[t] \in {"arm", "submit"},
           Len(touched[t]) = 1
    PROVE  Staged(t) = {}
<1>1. touched[t] \in Seq(VB) /\ DOMAIN touched[t] = {1} /\ Head(touched[t]) = touched[t][1]
  <2>1. touched[t] \in Seq(VB) /\ touched[t] # <<>>
    BY DEF TypeInv, TypeOK, IOType, MidCall
  <2> QED BY <2>1, LenProperties, HeadTailProperties
<1>2. \A v \in VB : staged[t][v] = <<>>
  BY <1>1 DEF AllTouched
<1>3. \A v \in VB : Unpushed(t, v) = {}
  BY <1>2, IdsProperties DEF Unpushed
<1> QED BY <1>3 DEF Staged

\* Admission: the request is staged, not charged yet, and within the limit.
LEMMA StageCharge ==
    ASSUME AInv, NEW t \in IOThreads, NEW v \in VB, NEW k \in Key, StageWrite(t, v, k)
    PROVE  Charged' /\ Outstanding' = Outstanding
<1> USE DEF AInv
<1>1. /\ Unpushed(t, v)' = Unpushed(t, v) \cup {issued + 1}
      /\ \A u \in IOThreads : \A x \in VB :
              u # t \/ x # v => Unpushed(u, x)' = Unpushed(u, x)
      /\ \A x \in VB : Ids(list'[x]) = Ids(list[x])
      /\ \A w \in Workers : Held(w)' = Held(w)
      /\ issued + 1 \in Id
  BY StagePlaces
<1>2. /\ iopc[t] = "read" /\ UNCHANGED <<iopc, queuedBytes>> /\ Admits(t)
      /\ bytes'[t] = bytes[t] + 1 /\ \A u \in IOThreads \ {t} : bytes'[u] = bytes[u]
      /\ bytes[t] \in Nat /\ issued \in Int
  BY DEF StageWrite, TypeInv, TypeOK, IOType, CountType
<1>3. Outstanding' = Outstanding
  <2>1. ASSUME NEW u \in IOThreads, iopc[u] # "read", NEW x \in VB
        PROVE  Unpushed(u, x)' = Unpushed(u, x)
    BY <1>1, <1>2, <2>1
  <2> QED BY <1>1, <1>2, <2>1 DEF Outstanding
<1>4. ~InPlace(issued + 1)
  BY <1>1, <1>2 DEF Received
<1>5. Cardinality(Staged(t)') = Cardinality(Staged(t)) + 1
  <2>1. Staged(t)' = Staged(t) \cup {issued + 1}
    BY <1>1 DEF Staged
  <2>2. issued + 1 \notin Staged(t)
    BY <1>4 DEF InPlace, Staged
  <2>3. IsFiniteSet(Staged(t))
    BY CountedFinite
  <2> QED BY <2>1, <2>2, <2>3, FS_AddElement
<1>6. \A u \in IOThreads \ {t} : Staged(u)' = Staged(u)
  BY <1>1 DEF Staged
<1>7. ASSUME NEW u \in IOThreads
      PROVE  bytes'[u] = IF iopc'[u] = "read" THEN Cardinality(Staged(u)') ELSE 0
  BY <1>2, <1>5, <1>6 DEF Charged
<1>8. BoundedOvershoot'
  <2>1. queuedBytes \in Nat
    BY CountedFinite DEF Charged
  <2>2. bytes'[t] <= Limit
    BY <1>2, <2>1, Numbers DEF Admits
  <2> QED BY <1>2, <2>2 DEF BoundedOvershoot, Charged
<1> QED BY <1>2, <1>3, <1>7, <1>8 DEF Charged

\* FlushStaged charges what its thread has staged.
LEMMA FlushCharge ==
    ASSUME AInv, NEW t \in IOThreads, FlushStaged(t)
    PROVE  Charged'
<1> USE DEF AInv
<1>1. SamePlaces
  BY IOPlaces
<1>2. /\ iopc[t] = "read" /\ iopc'[t] = "insert"
      /\ \A u \in IOThreads \ {t} : iopc'[u] = iopc[u] /\ bytes'[u] = bytes[u]
      /\ bytes'[t] = 0 /\ queuedBytes' = queuedBytes + bytes[t]
      /\ queuedBytes \in Int /\ bytes[t] \in Nat
  BY DEF FlushStaged, TypeInv, TypeOK, IOType, CountType
<1>3. \A u \in IOThreads : Staged(u)' = Staged(u)
  BY <1>1, SameKeeps
<1>4. Outstanding' = Outstanding \cup Staged(t)
  <2>1. Staged(t) \subseteq Id
    BY CountedFinite
  <2>2. ASSUME NEW i \in Id
        PROVE  (\E u \in IOThreads, v \in VB : iopc[u] # "read" /\ i \in Unpushed(u, v))'
               <=> \/ \E u \in IOThreads, v \in VB : iopc[u] # "read" /\ i \in Unpushed(u, v)
                   \/ i \in Staged(t)
    BY <1>1, <1>2 DEF SamePlaces, Staged
  <2>3. ASSUME NEW i \in Id PROVE i \in Outstanding' <=> i \in Outstanding \cup Staged(t)
    BY <1>1, <2>2 DEF Outstanding, SamePlaces
  <2>4. Outstanding \subseteq Id /\ Outstanding' \subseteq Id
    BY DEF Outstanding
  <2> QED BY <2>1, <2>3, <2>4
<1>5. Outstanding \cap Staged(t) = {}
  BY <1>2 DEF Outstanding, Staged, OnePlace
<1>6. Cardinality(Outstanding') = Cardinality(Outstanding) + Cardinality(Staged(t))
  <2>1. IsFiniteSet(Outstanding) /\ IsFiniteSet(Staged(t)) /\ Cardinality(Outstanding) \in Nat
        /\ Cardinality(Staged(t)) \in Nat
    BY CountedFinite
  <2>2. Cardinality(Outstanding \cup Staged(t)) =
           Cardinality(Outstanding) + Cardinality(Staged(t))
             - Cardinality(Outstanding \cap Staged(t))
    BY <2>1, FS_Union
  <2>3. Cardinality(Outstanding \cap Staged(t)) = 0
    BY <1>5, FS_EmptySet
  <2> QED BY <1>4, <2>1, <2>2, <2>3
<1>7. queuedBytes' = Cardinality(Outstanding')
  BY <1>2, <1>6 DEF Charged
<1>8. ASSUME NEW u \in IOThreads
      PROVE  bytes'[u] = IF iopc'[u] = "read" THEN Cardinality(Staged(u)') ELSE 0
  BY <1>2, <1>3 DEF Charged
<1>9. BoundedOvershoot'
  BY <1>2, Numbers DEF BoundedOvershoot, Charged
<1> QED BY <1>7, <1>8, <1>9 DEF Charged
\* Pushing and sweeping move requests that are charged already.
LEMMA MoveCharge ==
    ASSUME AInv, (\E t \in IOThreads : InsertChain(t)) \/ (\E w \in Workers : Sweep(w))
    PROVE  Charged' /\ Outstanding' = Outstanding
<1> USE DEF AInv
<1>1. ASSUME NEW t \in IOThreads, InsertChain(t)
      PROVE  Charged' /\ Outstanding' = Outstanding
  <2>1. PICK v \in VB :
           /\ Unpushed(t, v)' = {}
           /\ Ids(list'[v]) = Ids(list[v]) \cup Unpushed(t, v)
           /\ \A u \in IOThreads : \A x \in VB :
                u # t \/ x # v => Unpushed(u, x)' = Unpushed(u, x)
           /\ \A x \in VB \ {v} : list'[x] = list[x]
           /\ \A w \in Workers : Held(w)' = Held(w)
    BY <1>1, InsertPlaces
  <2>2. /\ iopc[t] = "insert" /\ iopc'[t] = "count" /\ UNCHANGED <<bytes, queuedBytes>>
        /\ \A u \in IOThreads \ {t} : iopc'[u] = iopc[u]
    BY <1>1 DEF InsertChain, TypeInv, TypeOK, IOType
  <2>3. ASSUME NEW i \in Id PROVE i \in Outstanding' <=> i \in Outstanding
    BY <2>1, <2>2 DEF Outstanding
  <2>4. Outstanding' = Outstanding
    <3>1. Outstanding \subseteq Id /\ Outstanding' \subseteq Id
      BY DEF Outstanding
    <3> QED BY <2>3, <3>1
  <2>5. \A u \in IOThreads \ {t} : Staged(u)' = Staged(u)
    BY <2>1 DEF Staged
  <2>6. ASSUME NEW u \in IOThreads
        PROVE  bytes'[u] = IF iopc'[u] = "read" THEN Cardinality(Staged(u)') ELSE 0
    BY <2>2, <2>5 DEF Charged
  <2>7. BoundedOvershoot'
    BY <2>2 DEF BoundedOvershoot, Charged
  <2> QED BY <2>2, <2>4, <2>6, <2>7 DEF Charged
<1>2. ASSUME NEW w \in Workers, Sweep(w)
      PROVE  Charged' /\ Outstanding' = Outstanding
  <2>1. PICK v \in VB :
           /\ Held(w) = {} /\ Held(w)' = Ids(list[v]) /\ Ids(list'[v]) = {}
           /\ \A t \in IOThreads : \A x \in VB : Unpushed(t, x)' = Unpushed(t, x)
           /\ \A x \in VB \ {v} : list'[x] = list[x]
           /\ \A y \in Workers \ {w} : Held(y)' = Held(y)
    BY <1>2, SweepPlaces
  <2>2. UNCHANGED <<iopc, bytes, queuedBytes>>
    BY <1>2 DEF Sweep, ioVars
  <2>3. ASSUME NEW i \in Id PROVE i \in Outstanding' <=> i \in Outstanding
    BY <2>1, <2>2 DEF Outstanding
  <2>4. Outstanding' = Outstanding
    <3>1. Outstanding \subseteq Id /\ Outstanding' \subseteq Id
      BY DEF Outstanding
    <3> QED BY <2>3, <3>1
  <2>5. \A u \in IOThreads : Staged(u)' = Staged(u)
    BY <2>1 DEF Staged
  <2>6. BoundedOvershoot'
    BY <2>2 DEF BoundedOvershoot, Charged
  <2> QED BY <2>2, <2>4, <2>5, <2>6 DEF Charged
<1> QED BY <1>1, <1>2

\* completeRequests returns what the batch was charged, dropped duplicates
\* included.
LEMMA CompleteCharge ==
    ASSUME AInv, NEW w \in Workers, Complete(w)
    PROVE  Charged' /\ Outstanding' = Outstanding \ Held(w)
<1> USE DEF AInv
<1>1. /\ Held(w) = Ids(batch[w]) /\ Held(w)' = {}
      /\ \A t \in IOThreads : \A x \in VB : Unpushed(t, x)' = Unpushed(t, x)
      /\ \A x \in VB : Ids(list'[x]) = Ids(list[x])
      /\ \A y \in Workers \ {w} : Held(y)' = Held(y)
  BY CompletePlaces
<1>2. /\ UNCHANGED <<iopc, bytes>> /\ queuedBytes' = queuedBytes - Len(batch[w])
      /\ batch[w] \in Seq(Request)
  BY DEF Complete, BatchBytes, ioVars, TypeInv, TypeOK, WorkerType
<1>3. ASSUME NEW i \in Held(w)
      PROVE  /\ \A t \in IOThreads : \A x \in VB : i \notin Unpushed(t, x)
             /\ \A x \in VB : i \notin Ids(list[x])
             /\ \A y \in Workers \ {w} : i \notin Held(y)
  BY DEF OnePlace
<1>4. ASSUME NEW i \in Id PROVE i \in Outstanding' <=> i \in Outstanding \ Held(w)
  BY <1>1, <1>2, <1>3 DEF Outstanding
<1>5. Outstanding' = Outstanding \ Held(w)
  <2>1. Outstanding \subseteq Id /\ Outstanding' \subseteq Id
    BY DEF Outstanding
  <2> QED BY <1>4, <2>1
<1>6. Held(w) \subseteq Outstanding
  <2>1. Held(w) \subseteq Id
    BY CountedFinite
  <2> QED BY <2>1 DEF Outstanding
<1>7. Cardinality(Held(w)) = Len(batch[w])
  BY <1>1, <1>2, DistinctProperties DEF AllDistinct
<1>8. queuedBytes' = Cardinality(Outstanding')
  <2>1. IsFiniteSet(Outstanding)
    BY CountedFinite
  <2>2. Cardinality(Outstanding \ Held(w)) =
           Cardinality(Outstanding) - Cardinality(Outstanding \cap Held(w))
    BY <2>1, FS_Difference
  <2>3. Outstanding \cap Held(w) = Held(w)
    BY <1>6
  <2> QED BY <1>2, <1>5, <1>7, <2>2, <2>3 DEF Charged
<1>9. \A u \in IOThreads : Staged(u)' = Staged(u)
  BY <1>1 DEF Staged
<1>10. BoundedOvershoot'
  BY <1>2 DEF BoundedOvershoot, Charged
<1> QED BY <1>2, <1>5, <1>8, <1>9, <1>10 DEF Charged

\* No other step charges or returns anything.
LEMMA OtherCharge ==
    ASSUME AInv, MovesNothing, ~ \E t \in IOThreads : FlushStaged(t)
    PROVE  Charged' /\ Outstanding' = Outstanding
<1> USE DEF AInv
<1>1. SamePlaces
  BY MovesNothingSame
<1>2. ASSUME NEW t \in IOThreads, RefuseWrite(t) \/ CountPushed(t) \/ Arm(t) \/ Submit(t)
      PROVE  /\ UNCHANGED <<bytes, queuedBytes>>
             /\ \A u \in IOThreads : \/ iopc'[u] = "read" <=> iopc[u] = "read"
                                     \/ Staged(u) = {}
  <2>1. UNCHANGED <<bytes, queuedBytes>>
    BY <1>2 DEF RefuseWrite, CountPushed, Arm, Submit, ioVars
  <2>2. CASE RefuseWrite(t) \/ CountPushed(t)
    BY <2>1, <2>2 DEF RefuseWrite, CountPushed, ioVars, TypeInv, TypeOK, IOType
  <2>3. CASE Arm(t) \/ Submit(t)
    <3>1. /\ iopc[t] \in {"arm", "submit"} /\ \A u \in IOThreads \ {t} : iopc'[u] = iopc[u]
          /\ iopc'[t] # "read" \/ Len(touched[t]) = 1
      BY <2>3 DEF Arm, Submit, NextTouched, TypeInv, TypeOK, IOType
    <3>2. iopc'[t] # "read" \/ Staged(t) = {}
      BY <3>1, LastTouched
    <3> QED BY <2>1, <3>1, <3>2
  <2> QED BY <1>2, <2>1, <2>2, <2>3
<1>3. CASE \E w \in Workers :
             \/ TakeTask(w) \/ CountSwept(w) \/ WriteDocs(w) \/ Release(w)
             \/ Recheck(w) \/ Rearm(w) \/ Resubmit(w)
  <2>1. UNCHANGED <<iopc, bytes, queuedBytes>>
    BY <1>3 DEF TakeTask, CountSwept, WriteDocs, Release, Recheck, Rearm, Resubmit, ioVars
  <2> QED BY <1>1, <2>1, SameCharge
<1>4. CASE OtherStep
  <2>1. UNCHANGED <<iopc, bytes, queuedBytes>>
    BY <1>4, OtherPlaces DEF ioVars
  <2> QED BY <1>1, <2>1, SameCharge
<1> QED BY <1>1, <1>2, <1>3, <1>4, SameCharge DEF MovesNothing

\* queuedBytes_ stays exact.
LEMMA ChargedNext ==
    ASSUME AInv, [Next]_vars PROVE Charged'
  BY StageCharge, FlushCharge, MoveCharge, CompleteCharge, OtherCharge, StepKinds

-----------------------------------------------------------------------------
(* Outcomes *)

\* A request stays in the system until it is completed.
LEMMA InPlaceStays ==
    ASSUME AInv, [Next]_vars, NEW i, InPlace(i)
    PROVE  InPlace(i)' \/ \E w \in Workers : Complete(w) /\ i \in Held(w)
<1> USE DEF AInv
<1>1. ASSUME NEW t \in IOThreads, NEW v \in VB, NEW k \in Key, StageWrite(t, v, k)
      PROVE  InPlace(i)'
  <2>1. /\ Unpushed(t, v)' = Unpushed(t, v) \cup {issued + 1}
        /\ \A u \in IOThreads : \A x \in VB :
                u # t \/ x # v => Unpushed(u, x)' = Unpushed(u, x)
        /\ \A x \in VB : Ids(list'[x]) = Ids(list[x])
        /\ \A w \in Workers : Held(w)' = Held(w)
    BY <1>1, StagePlaces
  <2> QED BY <2>1 DEF InPlace
<1>2. ASSUME NEW t \in IOThreads, InsertChain(t) PROVE InPlace(i)'
  <2>1. PICK v \in VB :
           /\ Ids(list'[v]) = Ids(list[v]) \cup Unpushed(t, v)
           /\ \A u \in IOThreads : \A x \in VB :
                u # t \/ x # v => Unpushed(u, x)' = Unpushed(u, x)
           /\ \A x \in VB \ {v} : list'[x] = list[x]
           /\ \A w \in Workers : Held(w)' = Held(w)
    BY <1>2, InsertPlaces
  <2> QED BY <2>1 DEF InPlace
<1>3. ASSUME NEW w \in Workers, Sweep(w) PROVE InPlace(i)'
  <2>1. PICK v \in VB :
           /\ Held(w) = {} /\ Held(w)' = Ids(list[v])
           /\ \A t \in IOThreads : \A x \in VB : Unpushed(t, x)' = Unpushed(t, x)
           /\ \A x \in VB \ {v} : list'[x] = list[x]
           /\ \A y \in Workers \ {w} : Held(y)' = Held(y)
    BY <1>3, SweepPlaces
  <2> QED BY <2>1 DEF InPlace
<1>4. ASSUME NEW w \in Workers, Complete(w) PROVE InPlace(i)' \/ i \in Held(w)
  <2>1. /\ \A t \in IOThreads : \A x \in VB : Unpushed(t, x)' = Unpushed(t, x)
        /\ \A x \in VB : Ids(list'[x]) = Ids(list[x])
        /\ \A y \in Workers \ {w} : Held(y)' = Held(y)
    BY <1>4, CompletePlaces
  <2> QED BY <2>1 DEF InPlace
<1>5. CASE MovesNothing
  BY <1>5, MovesNothingSame, SameKeeps
<1> QED BY <1>1, <1>2, <1>3, <1>4, <1>5, StepKinds

\* Only Complete ends a writer's "complete".
LEMMA NotYetComplete ==
    ASSUME AInv, MovesNothing, NEW w \in Workers
    PROVE  /\ wpc[w] = "complete" => wpc'[w] = "complete"
           /\ wpc'[w] = "complete" => wpc[w] = "complete" \/ WriteDocs(w)
<1>0. wpc \in [Workers -> Wpc]
  BY DEF AInv, TypeInv, TypeOK, WorkerType
<1>1. CASE \E t \in IOThreads :
             RefuseWrite(t) \/ FlushStaged(t) \/ CountPushed(t) \/ Arm(t) \/ Submit(t)
  BY <1>1 DEF RefuseWrite, FlushStaged, CountPushed, Arm, Submit, workerVars
<1>2. ASSUME NEW y \in Workers,
             \/ TakeTask(y) \/ CountSwept(y) \/ WriteDocs(y) \/ Release(y)
             \/ Recheck(y) \/ Rearm(y) \/ Resubmit(y)
      PROVE  /\ wpc[w] = "complete" => wpc'[w] = "complete"
             /\ wpc'[w] = "complete" => wpc[w] = "complete" \/ WriteDocs(w)
  BY <1>0, <1>2 DEF TakeTask, CountSwept, WriteDocs, Release, Recheck, Rearm, Resubmit,
                    Return
<1>3. CASE OtherStep
  BY <1>3, OtherPlaces DEF AInv
<1> QED BY <1>1, <1>2, <1>3 DEF MovesNothing

\* A request is unanswered from StageWrite on, and no longer once it is not.
LEMMA UnansweredNext ==
    ASSUME AInv, [Next]_vars, NEW i, Unanswered(i)'
    PROVE  Unanswered(i) \/ i = issued + 1
<1> USE DEF AInv
<1>1. ASSUME NEW t \in IOThreads, NEW v \in VB, NEW k \in Key, StageWrite(t, v, k)
      PROVE  Unanswered(i) \/ i = issued + 1
  <2>1. /\ Unpushed(t, v)' = Unpushed(t, v) \cup {issued + 1}
        /\ \A u \in IOThreads : \A x \in VB :
                u # t \/ x # v => Unpushed(u, x)' = Unpushed(u, x)
        /\ \A x \in VB : Ids(list'[x]) = Ids(list[x])
        /\ \A w \in Workers : Held(w)' = Held(w)
    BY <1>1, StagePlaces
  <2>2. UNCHANGED wpc
    BY <1>1 DEF StageWrite, workerVars
  <2> QED BY <2>1, <2>2 DEF Unanswered
<1>2. ASSUME NEW t \in IOThreads, InsertChain(t) PROVE Unanswered(i)
  <2>1. PICK v \in VB :
           /\ Unpushed(t, v)' = {}
           /\ Ids(list'[v]) = Ids(list[v]) \cup Unpushed(t, v)
           /\ \A u \in IOThreads : \A x \in VB :
                u # t \/ x # v => Unpushed(u, x)' = Unpushed(u, x)
           /\ \A x \in VB \ {v} : list'[x] = list[x]
           /\ \A w \in Workers : Held(w)' = Held(w)
    BY <1>2, InsertPlaces
  <2>2. UNCHANGED wpc
    BY <1>2 DEF InsertChain, workerVars
  <2> QED BY <2>1, <2>2 DEF Unanswered
<1>3. ASSUME NEW w \in Workers, Sweep(w) PROVE Unanswered(i)
  <2>1. PICK v \in VB :
           /\ Held(w)' = Ids(list[v]) /\ Ids(list'[v]) = {}
           /\ \A t \in IOThreads : \A x \in VB : Unpushed(t, x)' = Unpushed(t, x)
           /\ \A x \in VB \ {v} : list'[x] = list[x]
           /\ \A y \in Workers \ {w} : Held(y)' = Held(y)
    BY <1>3, SweepPlaces
  <2>2. \A y \in Workers \ {w} : wpc'[y] = wpc[y]
    BY <1>3 DEF Sweep, TypeInv, TypeOK, WorkerType
  <2> QED BY <2>1, <2>2 DEF Unanswered
<1>4. ASSUME NEW w \in Workers, Complete(w) PROVE Unanswered(i)
  <2>1. /\ Held(w)' = {}
        /\ \A t \in IOThreads : \A x \in VB : Unpushed(t, x)' = Unpushed(t, x)
        /\ \A x \in VB : Ids(list'[x]) = Ids(list[x])
        /\ \A y \in Workers \ {w} : Held(y)' = Held(y)
    BY <1>4, CompletePlaces
  <2>2. \A y \in Workers \ {w} : wpc'[y] = wpc[y]
    BY <1>4 DEF Complete, TypeInv, TypeOK, WorkerType
  <2> QED BY <2>1, <2>2 DEF Unanswered
<1>5. CASE MovesNothing
  <2>1. SamePlaces /\ \A w \in Workers : wpc[w] = "complete" => wpc'[w] = "complete"
    BY <1>5, MovesNothingSame, NotYetComplete
  <2> QED BY <2>1 DEF Unanswered, SamePlaces
<1> QED BY <1>1, <1>2, <1>3, <1>4, <1>5, StepKinds

\* A batch that is completed holds no unanswered request.
LEMMA AnsweredOnce ==
    ASSUME AInv, NEW w \in Workers, Complete(w), NEW i \in Held(w)
    PROVE  ~Unanswered(i)
<1>1. wpc[w] = "complete"
  BY DEF Complete
<1> QED BY <1>1 DEF AInv, Unanswered, OnePlace

\* A writer at "complete" has just written its batch or has not moved.
LEMMA WasComplete ==
    ASSUME AInv, [Next]_vars, NEW w \in Workers, wpc'[w] = "complete"
    PROVE  Held(w)' = Held(w) /\ (wpc[w] = "complete" \/ WriteDocs(w))
<1> USE DEF AInv
<1>1. ASSUME NEW t \in IOThreads, NEW v \in VB, NEW k \in Key, StageWrite(t, v, k)
      PROVE  UNCHANGED workerVars
  BY <1>1 DEF StageWrite
<1>2. ASSUME NEW t \in IOThreads, InsertChain(t) PROVE UNCHANGED workerVars
  BY <1>2 DEF InsertChain
<1>3. ASSUME NEW y \in Workers, Sweep(y) \/ Complete(y)
      PROVE  wpc[w] = "complete" /\ Held(w)' = Held(w)
  <2>1. w # y /\ wpc'[w] = wpc[w]
    BY <1>3 DEF Sweep, Complete, TypeInv, TypeOK, WorkerType
  <2>2. \A x \in Workers \ {y} : Held(x)' = Held(x)
    BY <1>3, SweepPlaces, CompletePlaces
  <2> QED BY <2>1, <2>2
<1>4. CASE MovesNothing
  BY <1>4, MovesNothingSame, NotYetComplete DEF SamePlaces
<1>5. UNCHANGED workerVars => wpc'[w] = wpc[w] /\ Held(w)' = Held(w)
  BY UnchangedPlaces DEF workerVars
<1> QED BY <1>1, <1>2, <1>3, <1>4, <1>5, StepKinds

\* Who changes an outcome or an answer.
LEMMA OutcomeKinds ==
    ASSUME AInv, [Next]_vars
    PROVE  \/ \E t \in IOThreads, v \in VB, k \in Key : StageWrite(t, v, k)
           \/ \E t \in IOThreads : RefuseWrite(t)
           \/ \E w \in Workers : WriteDocs(w) \/ Complete(w)
           \/ UNCHANGED <<fate, answer, issued>>
<1>1. ASSUME NEW t \in IOThreads, IOStep(t) PROVE UNCHANGED <<fate, answer, issued>>
  BY <1>1 DEF IOStep, FlushStaged, InsertChain, CountPushed, Arm, Submit, storeVars
<1>2. ASSUME NEW w \in Workers, \/ TakeTask(w) \/ Sweep(w) \/ CountSwept(w) \/ Release(w)
                                \/ Recheck(w) \/ Rearm(w) \/ Resubmit(w)
      PROVE  UNCHANGED <<fate, answer, issued>>
  BY <1>2 DEF TakeTask, Sweep, CountSwept, Release, Recheck, Rearm, Resubmit, storeVars
<1>3. OtherStep => UNCHANGED <<fate, answer, issued>>
  BY OtherPlaces DEF AInv, storeVars
<1> QED BY <1>1, <1>2, <1>3 DEF Next, WorkerStep, OtherStep

\* An accepted request is in its place; in durable mode it has no answer yet.
LEMMA StageOutcome ==
    ASSUME AInv, NEW t \in IOThreads, NEW v \in VB, NEW k \in Key,
           StageWrite(t, v, k)
    PROVE  /\ issued' = issued + 1 /\ issued + 1 \in Id /\ UNCHANGED fate
           /\ \A i \in Id \ {issued + 1} : answer'[i] = answer[i]
           /\ Durable => UNCHANGED answer
           /\ \A i \in Id : i = issued + 1 => InPlace(i)'
<1>1. /\ Unpushed(t, v)' = Unpushed(t, v) \cup {issued + 1} /\ issued + 1 \in Id
  BY StagePlaces DEF AInv
<1>2. answer \in [Id -> {"none", "success", "tmpfail", "error"}]
  BY DEF AInv, TypeInv, TypeOK, CountType
<1>3. \A i \in Id : i = issued + 1 => InPlace(i)'
  BY <1>1 DEF InPlace
<1> QED BY <1>1, <1>2, <1>3 DEF StageWrite, storeVars

\* A refused request is answered and goes nowhere.
LEMMA RefuseOutcome ==
    ASSUME AInv, NEW t \in IOThreads, RefuseWrite(t)
    PROVE  /\ issued' = issued + 1 /\ issued + 1 \in Id /\ UNCHANGED fate
           /\ \A i \in Id \ {issued + 1} : answer'[i] = answer[i]
           /\ answer'[issued + 1] = IF Durable THEN "error" ELSE "tmpfail"
<1>1. /\ answer \in [Id -> {"none", "success", "tmpfail", "error"}]
      /\ issued \in 0..MaxWrites
  BY DEF AInv, TypeInv, TypeOK, CountType
<1>2. issued + 1 \in Id
  BY <1>1, Numbers DEF RefuseWrite, Id
<1> QED BY <1>1, <1>2 DEF RefuseWrite, storeVars

\* WriteDocs gives every request of its batch the outcome of the batch.
LEMMA WriteOutcome ==
    ASSUME AInv, NEW w \in Workers, WriteDocs(w)
    PROVE  /\ UNCHANGED <<answer, issued>>
           /\ Held(w) \subseteq Id
           /\ \A i \in Held(w) : fate'[i] # "new" /\ Unanswered(i)
           /\ \A i \in Id \ Held(w) : fate'[i] = fate[i]
<1>1. wpc[w] = "write" /\ UNCHANGED <<answer, issued>>
  BY DEF WriteDocs
<1>2. Held(w) = Ids(batch[w]) /\ Held(w) \subseteq Id
  BY <1>1, CountedFinite DEF Held, AInv
<1>3. PICK ok \in BOOLEAN : fate' = [i \in Id |-> IF \E j \in DOMAIN batch[w] : batch[w][j].id = i
                                THEN IF ok THEN "stored" ELSE "failed" ELSE fate[i]]
  BY DEF WriteDocs, WriteBatch
<1>4. \A i : i \in Held(w) <=> \E j \in DOMAIN batch[w] : batch[w][j].id = i
  BY <1>2 DEF Ids
<1>5. \A i \in Held(w) : Unanswered(i)
  BY <1>1 DEF Unanswered
<1> QED BY <1>1, <1>2, <1>3, <1>4, <1>5

\* completeRequests answers them accordingly.
LEMMA CompleteOutcome ==
    ASSUME AInv, NEW w \in Workers, Complete(w)
    PROVE  /\ UNCHANGED <<fate, issued>> /\ Held(w) \subseteq Id
           /\ \A i \in Held(w) : fate[i] # "new"
           /\ \A i \in Held(w) : Durable =>
                answer'[i] = IF fate[i] = "stored" THEN "success" ELSE "error"
           /\ ~Durable => UNCHANGED answer
           /\ \A i \in Id \ Held(w) : answer'[i] = answer[i]
<1>1. wpc[w] = "complete" /\ UNCHANGED <<fate, issued>>
  BY DEF Complete, storeVars
<1>2. Held(w) = Ids(batch[w]) /\ Held(w) \subseteq Id
  BY <1>1, CountedFinite DEF Held, AInv
<1>3. \A i : i \in Held(w) <=> \E j \in DOMAIN batch[w] : batch[w][j].id = i
  BY <1>2 DEF Ids
<1>4. \A i \in Held(w) : fate[i] # "new"
  BY <1>1 DEF AInv, Outcomes
<1> QED BY <1>1, <1>2, <1>3, <1>4 DEF Complete

\* After WriteDocs a request has an outcome.
LEMMA WrittenHasFate ==
    ASSUME AInv, [Next]_vars, NEW w \in Workers, wpc'[w] = "complete", NEW i \in Held(w)'
    PROVE  fate'[i] # "new"
<1>1. Held(w)' = Held(w) /\ (wpc[w] = "complete" \/ WriteDocs(w))
  BY WasComplete
<1>2. i \in Id
  BY <1>1, CountedFinite DEF AInv
<1>3. CASE WriteDocs(w)
  BY <1>1, <1>3, WriteOutcome
<1>4. CASE wpc[w] = "complete"
  <2>1. fate[i] # "new"
    BY <1>1, <1>4 DEF AInv, Outcomes
  <2>2. fate'[i] = fate[i] \/ fate'[i] # "new"
    BY <1>2, OutcomeKinds, StageOutcome, RefuseOutcome, WriteOutcome, CompleteOutcome
  <2> QED BY <2>1, <2>2
<1> QED BY <1>1, <1>3, <1>4

\* Answers follow outcomes.
LEMMA OutcomesNext ==
    ASSUME AInv, [Next]_vars PROVE Outcomes'
<1> DEFINE Late == \A i \in Id : issued < i => answer[i] = "none"
           Early == Durable => \A i \in Id : Unanswered(i) => answer[i] # "success"
<1>0. issued \in Int /\ Id \subseteq Int
  BY DEF AInv, TypeInv, TypeOK, CountType, Id
<1>1. Late /\ Early /\ DurableAck /\ Received
  BY DEF AInv, Outcomes
<1>2. ASSUME NEW i \in Id, Unanswered(i)' PROVE Unanswered(i) \/ i = issued + 1
  BY <1>2, UnansweredNext
<1>3. issued + 1 \in Id => answer[issued + 1] = "none"
  BY <1>0, <1>1
<1> SUFFICES Late' /\ Early' /\ DurableAck'
  BY WrittenHasFate DEF Outcomes
<1>4. ASSUME NEW t \in IOThreads, NEW v \in VB, NEW k \in Key, StageWrite(t, v, k)
      PROVE  Late' /\ Early' /\ DurableAck'
  <2>1. /\ issued' = issued + 1 /\ issued + 1 \in Id /\ UNCHANGED fate
        /\ \A i \in Id \ {issued + 1} : answer'[i] = answer[i]
        /\ Durable => UNCHANGED answer
    BY <1>4, StageOutcome
  <2>2. Late'
    BY <1>0, <1>1, <2>1
  <2>3. Early'
    BY <1>1, <1>2, <1>3, <2>1
  <2> QED BY <1>1, <2>1, <2>2, <2>3 DEF DurableAck
<1>5. ASSUME NEW t \in IOThreads, RefuseWrite(t) PROVE Late' /\ Early' /\ DurableAck'
  <2>1. /\ issued' = issued + 1 /\ issued + 1 \in Id /\ UNCHANGED fate
        /\ \A i \in Id \ {issued + 1} : answer'[i] = answer[i]
        /\ answer'[issued + 1] # "success"
    BY <1>5, RefuseOutcome
  <2>2. Late'
    BY <1>0, <1>1, <2>1
  <2>3. Early'
    BY <1>1, <1>2, <2>1
  <2> QED BY <1>1, <2>1, <2>2, <2>3 DEF DurableAck
<1>6. ASSUME NEW w \in Workers, WriteDocs(w) PROVE Late' /\ Early' /\ DurableAck'
  <2>1. /\ UNCHANGED <<answer, issued>>
        /\ \A i \in Held(w) : Unanswered(i)
        /\ \A i \in Id \ Held(w) : fate'[i] = fate[i]
    BY <1>6, WriteOutcome
  <2>2. Late'
    BY <1>1, <2>1
  <2>3. Early'
    BY <1>1, <1>2, <1>3, <2>1
  <2> QED BY <1>1, <2>1, <2>2, <2>3 DEF DurableAck
<1>7. ASSUME NEW w \in Workers, Complete(w) PROVE Late' /\ Early' /\ DurableAck'
  <2>1. /\ UNCHANGED <<fate, issued>> /\ Held(w) \subseteq Id
        /\ \A i \in Held(w) : Durable =>
             answer'[i] = IF fate[i] = "stored" THEN "success" ELSE "error"
        /\ ~Durable => UNCHANGED answer
        /\ \A i \in Id \ Held(w) : answer'[i] = answer[i]
    BY <1>7, CompleteOutcome
  <2>2. \A i \in Held(w) : i <= issued /\ ~Unanswered(i)
    BY <1>1, <1>7, <2>1, AnsweredOnce DEF Received, InPlace
  <2>3. Late'
    BY <1>0, <1>1, <2>1, <2>2
  <2>4. Early'
    <3> SUFFICES ASSUME Durable, NEW i \in Id, Unanswered(i)' PROVE answer'[i] # "success"
      OBVIOUS
    <3>1. i \notin Held(w)
      BY <1>0, <1>2, <2>2
    <3> QED BY <1>1, <1>2, <1>3, <2>1, <3>1
  <2>5. DurableAck'
    BY <1>1, <2>1 DEF DurableAck
  <2> QED BY <2>3, <2>4, <2>5
<1>8. CASE UNCHANGED <<fate, answer, issued>>
  <2>1. Late' /\ DurableAck'
    BY <1>1, <1>8 DEF DurableAck
  <2>2. Early'
    BY <1>1, <1>2, <1>3, <1>8
  <2> QED BY <2>1, <2>2
<1> QED BY <1>4, <1>5, <1>6, <1>7, <1>8, OutcomeKinds

\* An accepted write stays in its place until it has been through WriteDocs.
LEMMA NotLostNext ==
    ASSUME AInv, [Next]_vars PROVE NotLost'
<1> SUFFICES ASSUME NEW i \in Id, Accepted(i)', fate'[i] = "new" PROVE InPlace(i)'
  BY DEF NotLost
<1>0. i \in Int /\ issued \in Int
  BY DEF AInv, TypeInv, TypeOK, CountType, Id
<1>1. InPlace(i) /\ fate[i] = "new" => InPlace(i)'
  <2>1. ASSUME NEW w \in Workers, Complete(w), i \in Held(w) PROVE fate[i] # "new"
    BY <2>1, CompleteOutcome
  <2> QED BY <2>1, InPlaceStays
<1>2. Accepted(i) /\ fate[i] = "new" => InPlace(i)'
  BY <1>1 DEF AInv, NotLost
<1>3. ASSUME NEW t \in IOThreads, NEW v \in VB, NEW k \in Key, StageWrite(t, v, k)
      PROVE  InPlace(i)'
  <2>1. /\ issued' = issued + 1 /\ UNCHANGED fate
        /\ \A j \in Id \ {issued + 1} : answer'[j] = answer[j]
        /\ i = issued + 1 => InPlace(i)'
    BY <1>3, StageOutcome
  <2>2. CASE i = issued + 1
    BY <2>1, <2>2
  <2>3. CASE i # issued + 1
    BY <1>0, <1>2, <2>1, <2>3 DEF Accepted
  <2> QED BY <2>2, <2>3
<1>4. ASSUME NEW t \in IOThreads, RefuseWrite(t) PROVE InPlace(i)'
  <2>1. /\ issued' = issued + 1 /\ UNCHANGED fate
        /\ \A j \in Id \ {issued + 1} : answer'[j] = answer[j]
        /\ answer'[issued + 1] = IF Durable THEN "error" ELSE "tmpfail"
    BY <1>4, RefuseOutcome
  <2>2. i # issued + 1
    BY <2>1 DEF Accepted
  <2> QED BY <1>0, <1>2, <2>1, <2>2 DEF Accepted
<1>5. ASSUME NEW w \in Workers, WriteDocs(w) PROVE InPlace(i)'
  <2>1. /\ UNCHANGED <<answer, issued>>
        /\ \A j \in Held(w) : fate'[j] # "new"
        /\ \A j \in Id \ Held(w) : fate'[j] = fate[j]
    BY <1>5, WriteOutcome
  <2> QED BY <1>2, <2>1 DEF Accepted
<1>6. ASSUME NEW w \in Workers, Complete(w) PROVE InPlace(i)'
  <2>1. /\ UNCHANGED <<fate, issued>>
        /\ \A j \in Held(w) : fate[j] # "new"
        /\ \A j \in Id \ Held(w) : answer'[j] = answer[j]
    BY <1>6, CompleteOutcome
  <2> QED BY <1>2, <2>1 DEF Accepted
<1>7. CASE UNCHANGED <<fate, answer, issued>>
  BY <1>2, <1>7 DEF Accepted
<1> QED BY <1>3, <1>4, <1>5, <1>6, <1>7, OutcomeKinds

-----------------------------------------------------------------------------
(* Shutdown *)

\* Only Bucket::Close moves `phase`.
LEMMA PhaseKinds ==
    ASSUME [Next]_vars
    PROVE  UNCHANGED <<phase, timedOut>> \/ BeginClose \/ CloseStep
<1>1. ASSUME NEW t \in IOThreads, NEW v \in VB, NEW k \in Key, StageWrite(t, v, k)
      PROVE  UNCHANGED closeVars
  BY <1>1 DEF StageWrite
<1>2. ASSUME NEW t \in IOThreads, RefuseWrite(t) \/ IOStep(t) PROVE UNCHANGED closeVars
  BY <1>2 DEF RefuseWrite, IOStep, FlushStaged, InsertChain, CountPushed, Arm, Submit
<1>3. ASSUME NEW w \in Workers, WorkerStep(w) \/ Grow(w) PROVE UNCHANGED closeVars
  BY <1>3 DEF WorkerStep, TakeTask, Sweep, CountSwept, WriteDocs, Complete, Release,
              Recheck, Rearm, Resubmit, Grow
<1>4. CASE DeferStep \/ (\E n \in 1..Cardinality(Workers) : Shrink(n)) \/ Reap
  BY <1>4 DEF DeferStep, DeferTake, DeferSubmit, DeferDrain, Shrink, Reap, closeVars
<1>5. CASE Closed \/ UNCHANGED vars
  BY <1>5 DEF Closed, vars, closeVars
<1> QED BY <1>1, <1>2, <1>3, <1>4, <1>5 DEF Next, closeVars

\* Once Bucket::Close has begun, no IO thread takes a step.
LEMMA IODone ==
    ASSUME AInv, [Next]_vars, phase # "run"
    PROVE  (\E w \in Workers : WorkerStep(w)) \/ OtherStep
<1>1. \A t \in IOThreads : iopc[t] = "read" /\ touched[t] = <<>>
  BY DEF AInv, Closing
<1>2. \A t \in IOThreads : ~RefuseWrite(t) /\ ~IOStep(t)
  BY <1>1 DEF RefuseWrite, IOStep, FlushStaged, InsertChain, CountPushed, Arm, Submit
<1>3. \A t \in IOThreads, v \in VB, k \in Key : ~StageWrite(t, v, k)
  BY DEF StageWrite
<1> QED BY <1>2, <1>3 DEF Next, OtherStep

\* A drained bucket stays drained.
LEMMA ClosingNext ==
    ASSUME AInv, [Next]_vars PROVE Closing'
<1>1. ASSUME phase' # "run", NEW t \in IOThreads PROVE iopc'[t] = "read" /\ touched'[t] = <<>>
  <2>1. CASE phase # "run"
    <3>1. UNCHANGED ioVars
      BY <2>1, IODone, IOFrame
    <3> QED BY <2>1, <3>1 DEF AInv, Closing, ioVars
  <2>2. CASE phase = "run"
    <3>1. BeginClose
      BY <1>1, <2>2, PhaseKinds DEF CloseStep, DrainWrites, StopDefer, JoinDefer,
                                    StopWriters, JoinWriters
    <3> QED BY <3>1 DEF BeginClose, ioVars
  <2> QED BY <2>1, <2>2
<1>2. ASSUME phase' \notin {"run", "drain"}, ~timedOut' PROVE Outstanding' = {}
  <2>1. phase # "run" /\ ~timedOut
    BY <1>2, PhaseKinds DEF BeginClose, CloseStep, DrainWrites, StopDefer, JoinDefer,
                            StopWriters, JoinWriters, AInv, TypeInv, TypeOK, CountType
  <2>2. ~ \E t \in IOThreads : FlushStaged(t)
    BY <2>1 DEF AInv, Closing, FlushStaged
  <2>3. Outstanding = {}
    <3>1. CASE phase # "drain"
      BY <2>1, <3>1 DEF AInv, Closing
    <3>2. CASE phase = "drain"
      <4>1. DrainWrites
        BY <1>2, <3>2, PhaseKinds DEF BeginClose, CloseStep, StopDefer, JoinDefer,
                                      StopWriters, JoinWriters
      <4>2. queuedBytes = 0
        BY <1>2, <4>1 DEF DrainWrites
      <4>3. IsFiniteSet(Outstanding) /\ Cardinality(Outstanding) = 0
        BY <4>2, CountedFinite DEF AInv, Charged
      <4> QED BY <4>3, FS_EmptySet
    <3> QED BY <3>1, <3>2
  <2>4. Outstanding' \subseteq Outstanding
    <3>1. CASE \E w \in Workers : WorkerStep(w)
      <4>1. PICK w \in Workers : WorkerStep(w)
        BY <3>1
      <4>2. CASE Sweep(w)
        BY <4>2, MoveCharge
      <4>3. CASE Complete(w)
        BY <4>3, CompleteCharge
      <4>4. CASE ~Sweep(w) /\ ~Complete(w)
        BY <2>2, <4>1, <4>4, OtherCharge DEF WorkerStep, MovesNothing
      <4> QED BY <4>2, <4>3, <4>4
    <3>2. CASE OtherStep
      BY <2>2, <3>2, OtherCharge DEF MovesNothing
    <3> QED BY <2>1, <3>1, <3>2, IODone
  <2> QED BY <2>3, <2>4
<1> QED BY <1>1, <1>2 DEF Closing

-----------------------------------------------------------------------------
(* The theorems *)

\* The bucket starts empty.
LEMMA InitAInv == Init => AInv
<1> SUFFICES ASSUME Init PROVE AInv
  OBVIOUS
<1>1. TypeInv
  BY InitTypeInv
<1>2. /\ \A t \in IOThreads : touched[t] = <<>> /\ iopc[t] = "read" /\ bytes[t] = 0
      /\ \A t \in IOThreads : \A v \in VB : staged[t][v] = <<>>
      /\ \A v \in VB : list[v] = <<>>
      /\ \A w \in Workers : batch[w] = <<>>
      /\ \A w \in Workers : wpc[w] \in {"idle", "off"}
  BY DEF Init
<1>3. /\ \A t \in IOThreads : \A v \in VB : Unpushed(t, v) = {} /\ Ids(staged[t][v]) = {}
      /\ \A v \in VB : Ids(list[v]) = {}
      /\ \A w \in Workers : Held(w) = {}
  BY <1>2, IdsProperties DEF Unpushed, Held
<1>4. Outstanding = {} /\ \A t \in IOThreads : Staged(t) = {}
  BY <1>3 DEF Outstanding, Staged
<1>5. \A i : ~InPlace(i) /\ ~Unanswered(i)
  BY <1>3 DEF InPlace, Unanswered
<1>6. OnePlace
  BY <1>3 DEF OnePlace
<1>7. AllDistinct
  BY <1>2 DEF AllDistinct, Distinct
<1>8. Received /\ AllTouched
  BY <1>2, <1>3, <1>5 DEF Received, AllTouched
<1>9. Charged
  <2>1. Cardinality(Outstanding) = 0 /\ \A t \in IOThreads : Cardinality(Staged(t)) = 0
    BY <1>4, FS_EmptySet
  <2>2. BoundedOvershoot
    BY <1>2, Numbers DEF BoundedOvershoot
  <2>3. queuedBytes = 0
    BY DEF Init
  <2> QED BY <1>2, <2>1, <2>2, <2>3 DEF Charged
<1>10. \A i \in Id : answer[i] = "none" /\ fate[i] = "new"
  BY DEF Init
<1>11. Outcomes
  BY <1>2, <1>10 DEF Outcomes, DurableAck
<1>12. NotLost
  <2>1. issued = 0 /\ \A i \in Id : i \in Nat /\ i > 0
    BY DEF Init, Id
  <2> QED BY <2>1 DEF NotLost, Accepted
<1>13. Closing
  BY <1>2, <1>4 DEF Closing
<1> QED BY <1>1, <1>6, <1>7, <1>8, <1>9, <1>11, <1>12, <1>13 DEF AInv

\* Every step keeps the invariant.
LEMMA NextAInv == AInv /\ [Next]_vars => AInv'
<1> SUFFICES ASSUME AInv, [Next]_vars PROVE AInv'
  OBVIOUS
<1>1. TypeInv'
  BY NextTypeInv DEF AInv
<1> QED BY <1>1, OnePlaceNext, AllDistinctNext, ReceivedNext, AllTouchedNext, ChargedNext,
           OutcomesNext, NotLostNext, ClosingNext DEF AInv

\* A request is in one place at a time, is charged while it is flushed and not
\* completed, and is accounted for until WriteDocs has had it.
THEOREM Accounting == Spec => []AInv
  BY InitAInv, NextAInv, PTL DEF Spec

\* In durable mode no write is acknowledged before magma has taken its batch,
\* for any number of threads, vbuckets and requests.
THEOREM AcksAreStored == Spec => []DurableAck
<1>1. AInv => DurableAck
  BY DEF AInv, Outcomes
<1> QED BY <1>1, Accounting, PTL

\* A shutdown that did not time out has written every accepted write.
THEOREM ShutdownIsClean == Spec => []CleanShutdown
<1>1. ASSUME AInv PROVE CleanShutdown
  <2> SUFFICES ASSUME phase = "closed", ~timedOut
               PROVE  /\ \A i \in Id : Accepted(i) => fate[i] # "new"
                      /\ \A v \in VB : list[v] = <<>>
    BY DEF CleanShutdown
  <2>1. Outstanding = {} /\ \A t \in IOThreads : touched[t] = <<>>
    BY <1>1 DEF AInv, Closing
  <2>2. \A t \in IOThreads : Staged(t) = {}
    BY <1>1, <2>1, NothingStaged DEF AInv
  <2>3. \A i \in Id : ~InPlace(i)
    BY <2>1, <2>2 DEF InPlace, Outstanding, Staged
  <2>4. \A v \in VB : Ids(list[v]) \subseteq Id /\ list[v] \in Seq(Request)
    <3>1. \A v \in VB : list[v] \in Seq(Request)
      BY <1>1 DEF AInv, TypeInv, TypeOK, VBType
    <3> QED BY <3>1, IdsProperties
  <2>5. \A v \in VB : Ids(list[v]) = {}
    BY <2>3, <2>4 DEF InPlace
  <2>6. \A v \in VB : list[v] = <<>>
    BY <2>4, <2>5, IdsProperties
  <2> QED BY <1>1, <2>3, <2>6 DEF AInv, NotLost
<1> QED BY <1>1, Accounting, PTL

-----------------------------------------------------------------------------
(* VBQueue::pending *)

\* Requests of v that are pushed and not counted in, and swept and not counted
\* out; pending is off by them, and by a multiple of its width.
Pushed(v) ==
    {i \in Id : \E t \in IOThreads :
        iopc[t] = "count" /\ Head(touched[t]) = v /\ i \in Ids(staged[t][v])}
Uncounted(v) ==
    {i \in Id : \E w \in Workers :
        wpc[w] = "count" /\ wvb[w] = v /\ i \in Ids(batch[w])}

Settled(v) == (Len(list[v]) - Cardinality(Pushed(v))) + Cardinality(Uncounted(v))

Balanced == \A v \in VB : \E q \in Int : pending[v] = Settled(v) + Word * q

\* Two threads never have one request in their chains.
Apart ==
    \A t, u \in IOThreads : \A v, x \in VB :
        Ids(staged[t][v]) \cap Ids(staged[u][x]) # {} => t = u

PInv == AInv /\ Apart /\ Balanced

\* A uint32_t sum is the true sum less a multiple of the width.
LEMMA Wraps ==
    ASSUME NEW n \in Int PROVE \E q \in Int : n % Word = n + Word * q
<1>1. n \div Word \in Int /\ n = Word * (n \div Word) + (n % Word) /\ n % Word \in Int
  BY Numbers
<1>2. PICK d \in Int : d = n \div Word
  BY <1>1
<1>3. Word * (0 - d) = 0 - Word * d
  BY Numbers
<1>4. n % Word = n + Word * (0 - d) /\ 0 - d \in Int
  BY <1>1, <1>2, <1>3, Numbers
<1> QED BY <1>4

\* Multiples add up.
LEMMA Multiples ==
    ASSUME NEW p \in Int, NEW q \in Int
    PROVE  /\ p + q \in Int /\ Word * p + Word * q = Word * (p + q)
           /\ Word * p \in Int /\ Word * q \in Int
  BY Numbers

\* A number below the width that is n up to a multiple of it is n % Word.
LEMMA Remainder ==
    ASSUME NEW a \in 0..Word-1, NEW n \in Int, NEW q \in Int, a = n + Word * q
    PROVE  a = n % Word
<1>1. PICK p \in Int : n % Word = n + Word * p
  BY Wraps
<1>2. PICK r \in 0..Word-1 : r = n % Word
  BY WordType
<1>3. PICK k \in Int : k = q + (0 - p)
  OBVIOUS
<1>4. a - r = Word * k
  <2>1. Word * q + Word * (0 - p) = Word * k /\ Word * (0 - p) = 0 - Word * p
        /\ Word * p \in Int /\ Word * q \in Int
    BY <1>3, Multiples, Numbers
  <2> QED BY <1>1, <1>2, <2>1, Numbers
<1>5. k >= 1 => Word * k >= Word
  BY Numbers
<1>6. k <= -1 => Word * k <= 0 - Word
  BY Numbers
<1>7. k = 0
  BY <1>4, <1>5, <1>6, Numbers
<1>8. Word * k = 0
  BY <1>7, Numbers
<1> QED BY <1>2, <1>4, <1>8, Numbers

\* What is being counted is finite.
LEMMA WindowFinite ==
    \A v : /\ IsFiniteSet(Pushed(v)) /\ Cardinality(Pushed(v)) \in Nat
           /\ IsFiniteSet(Uncounted(v)) /\ Cardinality(Uncounted(v)) \in Nat
<1>1. IsFiniteSet(Id)
  BY Numbers, FS_Interval DEF Id
<1>2. \A S : S \subseteq Id => IsFiniteSet(S) /\ Cardinality(S) \in Nat
  BY <1>1, FS_Subset, FS_CardinalityType
<1> QED BY <1>2 DEF Pushed, Uncounted

\* Staging uses a new number, and CountPushed empties a chain.
LEMMA ApartNext ==
    ASSUME PInv, [Next]_vars PROVE Apart'
<1> USE DEF PInv, AInv
<1>0. issued \in Int /\ Id \subseteq Int
  BY DEF TypeInv, TypeOK, CountType, Id
<1>1. ASSUME NEW t \in IOThreads, NEW v \in VB, NEW k \in Key, StageWrite(t, v, k)
      PROVE  Apart'
  <2>1. /\ Ids(staged'[t][v]) = Ids(staged[t][v]) \cup {issued + 1}
        /\ \A u \in IOThreads : \A x \in VB :
             u # t \/ x # v => staged'[u][x] = staged[u][x]
        /\ issued + 1 \in Id
    BY <1>1, StagePlaces
  <2>2. \A u \in IOThreads : \A x \in VB : issued + 1 \notin Ids(staged[u][x])
    BY <1>0 DEF Received
  <2>3. ASSUME NEW u \in IOThreads, u # t, NEW x \in VB, NEW y \in VB
        PROVE  /\ Ids(staged'[t][y]) \cap Ids(staged'[u][x]) = {}
    <3>1. /\ Ids(staged'[u][x]) = Ids(staged[u][x])
          /\ Ids(staged'[t][y]) \subseteq Ids(staged[t][y]) \cup {issued + 1}
      BY <2>1, <2>3
    <3> QED BY <2>2, <2>3, <3>1 DEF Apart
  <2>4. ASSUME NEW r \in IOThreads, NEW u \in IOThreads, NEW x \in VB, NEW y \in VB,
               Ids(staged'[r][x]) \cap Ids(staged'[u][y]) # {}
        PROVE  r = u
    <3>1. CASE r = t \/ u = t
      BY <2>3, <2>4, <3>1
    <3>2. CASE r # t /\ u # t
      BY <2>1, <2>4, <3>2 DEF Apart
    <3> QED BY <3>1, <3>2
  <2> QED BY <2>4 DEF Apart
<1>2. ASSUME \A u \in IOThreads : \A x \in VB :
               staged'[u][x] = staged[u][x] \/ staged'[u][x] = <<>>
      PROVE  Apart'
  <2>1. \A u \in IOThreads : \A x \in VB : Ids(staged'[u][x]) \subseteq Ids(staged[u][x])
    BY <1>2, IdsProperties
  <2> QED BY <2>1 DEF Apart
<1>3. ASSUME NEW t \in IOThreads, RefuseWrite(t) \/ FlushStaged(t) \/ InsertChain(t)
               \/ Arm(t) \/ Submit(t)
      PROVE  Apart'
  BY <1>2, <1>3 DEF RefuseWrite, FlushStaged, InsertChain, Arm, Submit, ioVars
<1>4. ASSUME NEW t \in IOThreads, CountPushed(t) PROVE Apart'
  <2>1. \A u \in IOThreads : \A x \in VB : staged'[u][x] = staged[u][x] \/ staged'[u][x] = <<>>
    BY <1>4, FlushHead DEF CountPushed, TypeInv, TypeOK, IOType
  <2> QED BY <1>2, <2>1
<1>5. CASE (\E w \in Workers : WorkerStep(w)) \/ OtherStep
  BY <1>2, <1>5, IOFrame DEF ioVars
<1> QED BY <1>1, <1>3, <1>4, <1>5 DEF Next, IOStep, OtherStep

\* Pushing: the stack grows by what is not counted yet.
LEMMA InsertBalance ==
    ASSUME PInv, NEW t \in IOThreads, InsertChain(t)
    PROVE  \A v \in VB : pending'[v] = pending[v] /\ Settled(v)' = Settled(v)
<1> USE DEF PInv, AInv
<1>1. PICK v \in VB :
         /\ v = Head(touched[t]) /\ list'[v] = staged[t][v] \o list[v]
         /\ \A x \in VB \ {v} : list'[x] = list[x]
  BY InsertPlaces
<1>2. /\ iopc[t] = "insert" /\ iopc'[t] = "count"
      /\ UNCHANGED <<staged, touched, workerVars, pending>>
      /\ \A u \in IOThreads \ {t} : iopc'[u] = iopc[u]
  BY DEF InsertChain, TypeInv, TypeOK, IOType
<1>3. /\ staged[t][v] \in Seq(Request) /\ list[v] \in Seq(Request)
      /\ Len(staged[t][v]) \in Nat /\ Len(list[v]) \in Nat
  BY LenProperties DEF TypeInv, TypeOK, IOType, VBType
<1>4. Len(list'[v]) = Len(list[v]) + Len(staged[t][v])
  <2>1. PICK s \in Seq(Request), r \in Seq(Request) : s = staged[t][v] /\ r = list[v]
    BY <1>3
  <2>2. Len(s \o r) = Len(s) + Len(r) /\ Len(s) \in Nat /\ Len(r) \in Nat
    BY ConcatProperties, LenProperties
  <2>3. list'[v] = s \o r
    BY <1>1, <2>1
  <2>4. Len(list'[v]) = Len(s) + Len(r)
    BY <2>2, <2>3
  <2>5. Len(s) + Len(r) = Len(r) + Len(s)
    BY <2>2
  <2>6. Len(list'[v]) = Len(r) + Len(s)
    BY <2>4, <2>5
  <2> QED BY <2>1, <2>6
<1>5. \A x \in VB : Uncounted(x)' = Uncounted(x)
  BY <1>2 DEF Uncounted, workerVars
<1>6. \A x \in VB \ {v} : Pushed(x)' = Pushed(x)
  BY <1>1, <1>2 DEF Pushed
<1>7. PICK S : S = Ids(staged[t][v])
  OBVIOUS
<1>8. S \subseteq Id /\ Cardinality(S) = Len(staged[t][v])
  BY <1>3, <1>7, IdsProperties, DistinctProperties DEF AllDistinct
<1>9. Pushed(v)' = Pushed(v) \cup S
  <2>1. ASSUME NEW i \in Id PROVE i \in Pushed(v)' <=> i \in Pushed(v) \cup S
    BY <1>1, <1>2, <1>7 DEF Pushed
  <2>2. Pushed(v) \subseteq Id /\ Pushed(v)' \subseteq Id
    BY DEF Pushed
  <2> QED BY <1>8, <2>1, <2>2
<1>10. Pushed(v) \cap S = {}
  BY <1>2, <1>7 DEF Pushed, Apart
<1>11. Cardinality(Pushed(v)') = Cardinality(Pushed(v)) + Cardinality(S)
  <2>1. IsFiniteSet(Pushed(v)) /\ IsFiniteSet(S)
    <3>1. IsFiniteSet(Id)
      BY Numbers, FS_Interval DEF Id
    <3> QED BY <1>8, <3>1, WindowFinite, FS_Subset
  <2>2. Cardinality(Pushed(v) \cup S) =
          Cardinality(Pushed(v)) + Cardinality(S) - Cardinality(Pushed(v) \cap S)
    BY <2>1, FS_Union
  <2>3. Cardinality(Pushed(v) \cap S) = 0
    BY <1>10, FS_EmptySet
  <2>4. Cardinality(Pushed(v)) \in Nat /\ Cardinality(S) \in Nat
    BY <2>1, FS_CardinalityType
  <2> QED BY <1>9, <2>2, <2>3, <2>4
<1>12. Settled(v)' = Settled(v)
  <2>1. Cardinality(Pushed(v)) \in Nat /\ Cardinality(Uncounted(v)) \in Nat
    BY WindowFinite
  <2>2. Settled(v)' = (Len(list'[v]) - Cardinality(Pushed(v)')) + Cardinality(Uncounted(v)')
    BY DEF Settled
  <2>3. Settled(v)' = ((Len(list[v]) + Len(staged[t][v]))
                        - (Cardinality(Pushed(v)) + Len(staged[t][v])))
                      + Cardinality(Uncounted(v))
    BY <1>4, <1>5, <1>8, <1>11, <2>2
  <2>4. PICK a \in Nat, b \in Nat, c \in Nat, d \in Nat :
          /\ a = Len(list[v]) /\ b = Len(staged[t][v])
          /\ c = Cardinality(Pushed(v)) /\ d = Cardinality(Uncounted(v))
    BY <1>3, <2>1
  <2>5. Settled(v)' = ((a + b) - (c + b)) + d
    BY <2>3, <2>4
  <2>6. Settled(v) = (a - c) + d
    BY <2>4 DEF Settled
  <2> QED BY <2>5, <2>6
<1>13. \A x \in VB \ {v} : Settled(x)' = Settled(x)
  BY <1>1, <1>5, <1>6 DEF Settled
<1> QED BY <1>2, <1>12, <1>13

\* Counting them in: pending grows by what was not counted.
LEMMA CountBalance ==
    ASSUME PInv, NEW t \in IOThreads, CountPushed(t)
    PROVE  Balanced'
<1> USE DEF PInv, AInv
<1>1. PICK v \in VB : v = Head(touched[t])
  BY FlushHead DEF CountPushed
<1>2. /\ iopc[t] = "count" /\ iopc'[t] = "arm" /\ UNCHANGED <<touched, list, workerVars>>
      /\ \A u \in IOThreads \ {t} : iopc'[u] = iopc[u]
      /\ \A u \in IOThreads \ {t} : staged'[u] = staged[u]
      /\ pending'[v] = (pending[v] + Len(staged[t][v])) % Word
      /\ \A x \in VB \ {v} : pending'[x] = pending[x]
  BY <1>1 DEF CountPushed, TypeInv, TypeOK, IOType, VBType
<1>3. /\ staged[t][v] \in Seq(Request) /\ Len(staged[t][v]) \in Nat /\ Len(list[v]) \in Nat
      /\ pending[v] \in Int
  BY LenProperties, Numbers DEF TypeInv, TypeOK, IOType, VBType
<1>5. \A x \in VB : Uncounted(x)' = Uncounted(x)
  BY <1>2 DEF Uncounted, workerVars
<1>6. \A x \in VB \ {v} : Pushed(x)' = Pushed(x)
  BY <1>1, <1>2 DEF Pushed
<1>7. PICK S : S = Ids(staged[t][v])
  OBVIOUS
<1>8. S \subseteq Id /\ Cardinality(S) = Len(staged[t][v])
  BY <1>3, <1>7, IdsProperties, DistinctProperties DEF AllDistinct
<1>9. Pushed(v)' = Pushed(v) \ S
  <2>1. ASSUME NEW i \in Id PROVE i \in Pushed(v)' <=> i \in Pushed(v) \ S
    BY <1>1, <1>2, <1>7 DEF Pushed, Apart
  <2>2. Pushed(v) \subseteq Id /\ Pushed(v)' \subseteq Id
    BY DEF Pushed
  <2> QED BY <2>1, <2>2
<1>10. S \subseteq Pushed(v)
  BY <1>1, <1>2, <1>7, <1>8 DEF Pushed
<1>11. Cardinality(Pushed(v)') = Cardinality(Pushed(v)) - Len(staged[t][v])
  <2>1. IsFiniteSet(Pushed(v))
    BY WindowFinite
  <2>2. Cardinality(Pushed(v) \ S) = Cardinality(Pushed(v)) - Cardinality(Pushed(v) \cap S)
    BY <2>1, FS_Difference
  <2>3. Pushed(v) \cap S = S
    BY <1>10
  <2> QED BY <1>8, <1>9, <2>2, <2>3
<1>12. Settled(v) \in Int /\ Settled(v)' = Settled(v) + Len(staged[t][v])
  <2>1. Cardinality(Pushed(v)) \in Nat /\ Cardinality(Uncounted(v)) \in Nat
    BY WindowFinite
  <2> QED BY <1>2, <1>3, <1>5, <1>11, <2>1 DEF Settled
<1>13. \A x \in VB \ {v} : Settled(x)' = Settled(x)
  BY <1>2, <1>5, <1>6 DEF Settled
<1>14. \E q \in Int : pending'[v] = Settled(v)' + Word * q
  <2>1. PICK q \in Int : pending[v] = Settled(v) + Word * q
    BY DEF Balanced
  <2>2. PICK p \in Int : pending'[v] = (pending[v] + Len(staged[t][v])) + Word * p
    BY <1>2, <1>3, Wraps
  <2>3. /\ q + p \in Int /\ Word * q + Word * p = Word * (q + p)
        /\ Word * p \in Int /\ Word * q \in Int
    BY Multiples
  <2>4. pending'[v] = Settled(v)' + Word * (q + p)
    BY <1>3, <1>12, <2>1, <2>2, <2>3
  <2> QED BY <2>3, <2>4
<1>15. ASSUME NEW x \in VB \ {v} PROVE \E q \in Int : pending'[x] = Settled(x)' + Word * q
  BY <1>2, <1>13 DEF Balanced
<1> QED BY <1>14, <1>15 DEF Balanced

\* Sweeping: the stack shrinks by what is not counted out yet.
LEMMA SweepBalance ==
    ASSUME PInv, NEW w \in Workers, Sweep(w)
    PROVE  \A v \in VB : pending'[v] = pending[v] /\ Settled(v)' = Settled(v)
<1> USE DEF PInv, AInv
<1>1. PICK v \in VB : v = wvb[w]
  BY DEF Sweep, TypeInv, MidCall, InCall
<1>2. /\ wpc[w] = "sweep" /\ wpc'[w] = "count" /\ UNCHANGED <<ioVars, wvb, pending>>
      /\ \A y \in Workers \ {w} : wpc'[y] = wpc[y] /\ batch'[y] = batch[y]
      /\ batch'[w] = list[v] /\ list'[v] = <<>>
      /\ \A x \in VB \ {v} : list'[x] = list[x]
  BY <1>1 DEF Sweep, TypeInv, TypeOK, WorkerType, VBType
<1>3. list[v] \in Seq(Request) /\ Len(list[v]) \in Nat /\ Len(list'[v]) = 0
  BY <1>2, LenProperties DEF TypeInv, TypeOK, VBType
<1>5. \A x \in VB : Pushed(x)' = Pushed(x)
  BY <1>2 DEF Pushed, ioVars
<1>6. \A x \in VB \ {v} : Uncounted(x)' = Uncounted(x)
  BY <1>1, <1>2 DEF Uncounted
<1>7. PICK S : S = Ids(list[v])
  OBVIOUS
<1>8. S \subseteq Id /\ Cardinality(S) = Len(list[v])
  BY <1>3, <1>7, IdsProperties, DistinctProperties DEF AllDistinct
<1>9. Uncounted(v)' = Uncounted(v) \cup S
  <2>1. ASSUME NEW i \in Id PROVE i \in Uncounted(v)' <=> i \in Uncounted(v) \cup S
    BY <1>1, <1>2, <1>7 DEF Uncounted
  <2>2. Uncounted(v) \subseteq Id /\ Uncounted(v)' \subseteq Id
    BY DEF Uncounted
  <2> QED BY <1>8, <2>1, <2>2
<1>10. Uncounted(v) \cap S = {}
  <2>1. ASSUME NEW y \in Workers, wpc[y] = "count" PROVE Ids(batch[y]) \cap S = {}
    BY <1>7, <2>1 DEF OnePlace, Held
  <2> QED BY <2>1 DEF Uncounted
<1>11. Cardinality(Uncounted(v)') = Cardinality(Uncounted(v)) + Cardinality(S)
  <2>1. IsFiniteSet(Uncounted(v)) /\ IsFiniteSet(S)
    <3>1. IsFiniteSet(Id)
      BY Numbers, FS_Interval DEF Id
    <3> QED BY <1>8, <3>1, WindowFinite, FS_Subset
  <2>2. Cardinality(Uncounted(v) \cup S) =
          Cardinality(Uncounted(v)) + Cardinality(S) - Cardinality(Uncounted(v) \cap S)
    BY <2>1, FS_Union
  <2>3. Cardinality(Uncounted(v) \cap S) = 0
    BY <1>10, FS_EmptySet
  <2>4. Cardinality(Uncounted(v)) \in Nat /\ Cardinality(S) \in Nat
    BY <2>1, FS_CardinalityType
  <2> QED BY <1>9, <2>2, <2>3, <2>4
<1>12. Settled(v)' = Settled(v)
  <2>1. Cardinality(Pushed(v)) \in Nat /\ Cardinality(Uncounted(v)) \in Nat
    BY WindowFinite
  <2> QED BY <1>3, <1>5, <1>8, <1>11, <2>1 DEF Settled
<1>13. \A x \in VB \ {v} : Settled(x)' = Settled(x)
  BY <1>2, <1>5, <1>6 DEF Settled
<1> QED BY <1>2, <1>12, <1>13

\* Counting them out, below zero if they were swept before they were counted in.
LEMMA SweptBalance ==
    ASSUME PInv, NEW w \in Workers, CountSwept(w)
    PROVE  Balanced'
<1> USE DEF PInv, AInv
<1>1. PICK v \in VB : v = wvb[w]
  BY DEF CountSwept, TypeInv, MidCall, InCall
<1>2. /\ wpc[w] = "count" /\ wpc'[w] # "count" /\ UNCHANGED <<ioVars, list, wvb>>
      /\ \A y \in Workers \ {w} : wpc'[y] = wpc[y] /\ batch'[y] = batch[y]
      /\ pending'[v] = (pending[v] - Len(batch[w])) % Word
      /\ \A x \in VB \ {v} : pending'[x] = pending[x]
  BY <1>1 DEF CountSwept, TypeInv, TypeOK, WorkerType, VBType
<1>3. /\ batch[w] \in Seq(Request) /\ Len(batch[w]) \in Nat /\ Len(list[v]) \in Nat
      /\ pending[v] \in Int
  BY LenProperties, Numbers DEF TypeInv, TypeOK, WorkerType, VBType
<1>5. \A x \in VB : Pushed(x)' = Pushed(x)
  BY <1>2 DEF Pushed, ioVars
<1>6. \A x \in VB \ {v} : Uncounted(x)' = Uncounted(x)
  BY <1>1, <1>2 DEF Uncounted
<1>7. PICK S : S = Ids(batch[w])
  OBVIOUS
<1>8. S \subseteq Id /\ Cardinality(S) = Len(batch[w])
  BY <1>3, <1>7, IdsProperties, DistinctProperties DEF AllDistinct
<1>9. Uncounted(v)' = Uncounted(v) \ S
  <2>1. ASSUME NEW y \in Workers \ {w}, wpc[y] = "count" PROVE Ids(batch[y]) \cap S = {}
    BY <1>2, <1>7, <2>1 DEF OnePlace, Held
  <2>2. ASSUME NEW i \in Id PROVE i \in Uncounted(v)' <=> i \in Uncounted(v) \ S
    BY <1>1, <1>2, <1>7, <2>1 DEF Uncounted
  <2>3. Uncounted(v) \subseteq Id /\ Uncounted(v)' \subseteq Id
    BY DEF Uncounted
  <2> QED BY <2>2, <2>3
<1>10. S \subseteq Uncounted(v)
  BY <1>1, <1>2, <1>7, <1>8 DEF Uncounted
<1>11. Cardinality(Uncounted(v)') = Cardinality(Uncounted(v)) - Len(batch[w])
  <2>1. IsFiniteSet(Uncounted(v))
    BY WindowFinite
  <2>2. Cardinality(Uncounted(v) \ S)
          = Cardinality(Uncounted(v)) - Cardinality(Uncounted(v) \cap S)
    BY <2>1, FS_Difference
  <2>3. Uncounted(v) \cap S = S
    BY <1>10
  <2> QED BY <1>8, <1>9, <2>2, <2>3
<1>12. Settled(v) \in Int /\ Settled(v)' = Settled(v) - Len(batch[w])
  <2>1. Cardinality(Pushed(v)) \in Nat /\ Cardinality(Uncounted(v)) \in Nat
    BY WindowFinite
  <2> QED BY <1>2, <1>3, <1>5, <1>11, <2>1 DEF Settled
<1>13. \A x \in VB \ {v} : Settled(x)' = Settled(x)
  BY <1>2, <1>5, <1>6 DEF Settled
<1>14. \E q \in Int : pending'[v] = Settled(v)' + Word * q
  <2>1. PICK q \in Int : pending[v] = Settled(v) + Word * q
    BY DEF Balanced
  <2>2. PICK p \in Int : pending'[v] = (pending[v] - Len(batch[w])) + Word * p
    BY <1>2, <1>3, Wraps
  <2>3. /\ q + p \in Int /\ Word * q + Word * p = Word * (q + p)
        /\ Word * p \in Int /\ Word * q \in Int
    BY Multiples
  <2>4. pending'[v] = Settled(v)' + Word * (q + p)
    BY <1>3, <1>12, <2>1, <2>2, <2>3
  <2> QED BY <2>3, <2>4
<1>15. ASSUME NEW x \in VB \ {v} PROVE \E q \in Int : pending'[x] = Settled(x)' + Word * q
  BY <1>2, <1>13 DEF Balanced
<1> QED BY <1>14, <1>15 DEF Balanced

\* No other step touches the counter, a stack or a thread at "count".
LEMMA OtherBalance ==
    ASSUME PInv, \/ \E t \in IOThreads, v \in VB, k \in Key : StageWrite(t, v, k)
                 \/ \E t \in IOThreads : \/ RefuseWrite(t) \/ FlushStaged(t)
                                         \/ Arm(t) \/ Submit(t)
                 \/ \E w \in Workers : \/ TakeTask(w) \/ WriteDocs(w) \/ Complete(w)
                                       \/ Release(w) \/ Recheck(w) \/ Rearm(w)
                                       \/ Resubmit(w)
                 \/ OtherStep
    PROVE  \A v \in VB : pending'[v] = pending[v] /\ Settled(v)' = Settled(v)
<1> USE DEF PInv, AInv
<1>0. /\ iopc \in [IOThreads -> IOpc] /\ wpc \in [Workers -> Wpc]
      /\ touched \in [IOThreads -> Seq(VB)] /\ staged \in [IOThreads -> [VB -> Seq(Request)]]
      /\ batch \in [Workers -> Seq(Request)] /\ wvb \in [Workers -> VB \cup {NoVB}]
  BY DEF TypeInv, TypeOK, IOType, WorkerType
<1> DEFINE SameIO(u) == \/ iopc[u] # "count" /\ iopc'[u] # "count"
                        \/ /\ iopc'[u] = iopc[u] /\ touched'[u] = touched[u]
                           /\ staged'[u] = staged[u]
           SameWorker(y) == \/ wpc[y] # "count" /\ wpc'[y] # "count"
                            \/ /\ wpc'[y] = wpc[y] /\ wvb'[y] = wvb[y]
                               /\ batch'[y] = batch[y]
           Same == /\ \A u \in IOThreads : SameIO(u)
                   /\ \A y \in Workers : SameWorker(y)
                   /\ UNCHANGED <<list, pending>>
<1>1. ASSUME NEW t \in IOThreads, NEW v \in VB, NEW k \in Key, StageWrite(t, v, k)
      PROVE  Same
  BY <1>0, <1>1 DEF StageWrite, vbVars, workerVars
<1>2. ASSUME NEW t \in IOThreads, RefuseWrite(t) \/ FlushStaged(t) \/ Arm(t) \/ Submit(t)
      PROVE  Same
  <2>1. UNCHANGED <<list, pending, workerVars>>
    BY <1>2 DEF RefuseWrite, FlushStaged, Arm, Submit, vbVars
  <2>2. \A u \in IOThreads : SameIO(u)
    BY <1>0, <1>2 DEF RefuseWrite, FlushStaged, Arm, Submit, NextTouched, ioVars
  <2> QED BY <2>1, <2>2 DEF workerVars
<1>3. ASSUME NEW w \in Workers, \/ TakeTask(w) \/ WriteDocs(w) \/ Complete(w) \/ Release(w)
                                \/ Recheck(w) \/ Rearm(w) \/ Resubmit(w)
      PROVE  Same
  <2>1. UNCHANGED <<list, pending, ioVars>>
    BY <1>3 DEF TakeTask, WriteDocs, Complete, Release, Recheck, Rearm, Resubmit, vbVars
  <2>2. \A y \in Workers : SameWorker(y)
    BY <1>0, <1>3 DEF TakeTask, WriteDocs, Complete, Release, Recheck, Rearm, Resubmit,
                      Return
  <2> QED BY <2>1, <2>2 DEF ioVars
<1>4. ASSUME OtherStep PROVE Same
  <2>1. /\ UNCHANGED <<ioVars, list, batch>>
        /\ \A w \in Workers : \/ wpc'[w] = wpc[w]
                              \/ wpc[w] # "count" /\ wpc'[w] # "count"
    BY <1>4, OtherPlaces
  <2>2. UNCHANGED <<pending, wvb>>
    BY <1>4 DEF OtherStep, DeferStep, DeferTake, DeferSubmit, DeferDrain, Grow, Shrink, Reap,
                BeginClose, CloseStep, DrainWrites, StopDefer, JoinDefer, StopWriters,
                JoinWriters, Closed, vars, workerVars, vbVars
  <2>3. \A u \in IOThreads : SameIO(u)
    BY <2>1 DEF ioVars
  <2>4. \A y \in Workers : SameWorker(y)
    BY <2>1, <2>2
  <2> QED BY <2>1, <2>2, <2>3, <2>4
<1> HIDE DEF Same
<1>5. Same
  BY <1>1, <1>2, <1>3, <1>4
<1> USE DEF Same
<1>6. ASSUME NEW v \in VB PROVE Pushed(v)' = Pushed(v)
  BY <1>5 DEF Pushed
<1>7. ASSUME NEW v \in VB PROVE Uncounted(v)' = Uncounted(v)
  BY <1>5 DEF Uncounted
<1> QED BY <1>5, <1>6, <1>7 DEF Settled

\* The counter stays balanced.
LEMMA BalancedNext ==
    ASSUME PInv, [Next]_vars PROVE Balanced'
<1>1. (\A v \in VB : pending'[v] = pending[v] /\ Settled(v)' = Settled(v)) => Balanced'
  BY DEF PInv, Balanced
<1> QED BY <1>1, InsertBalance, CountBalance, SweepBalance, SweptBalance, OtherBalance
        DEF Next, IOStep, WorkerStep, OtherStep

\* queuedBytes_ is the number of requests flushed and not completed, no thread
\* stages more than the limit, and pending is exact, modulo the width of its
\* word, whenever no push or sweep is half done.
THEOREM AccountingIsExact == Spec => []ExactAccounting
<1>1. Init => PInv
  <2> SUFFICES ASSUME Init PROVE PInv
    OBVIOUS
  <2>1. /\ \A t \in IOThreads : iopc[t] = "read" /\ \A v \in VB : staged[t][v] = <<>>
        /\ \A w \in Workers : wpc[w] \in {"idle", "off"}
        /\ \A v \in VB : list[v] = <<>> /\ pending[v] = 0
    BY DEF Init
  <2>2. Apart
    BY <2>1, IdsProperties DEF Apart
  <2>3. \A v \in VB : Pushed(v) = {} /\ Uncounted(v) = {}
    BY <2>1 DEF Pushed, Uncounted
  <2>4. \A v \in VB : pending[v] = Settled(v) + Word * 0 /\ 0 \in Int
    <3>1. Cardinality({}) = 0 /\ Len(<<>>) = 0
      BY FS_EmptySet
    <3>2. ASSUME NEW v \in VB PROVE Settled(v) = 0
      <4>1. Settled(v) = (Len(<<>>) - Cardinality({})) + Cardinality({})
        BY <2>1, <2>3 DEF Settled
      <4>2. Settled(v) = (0 - 0) + 0
        BY <3>1, <4>1
      <4> QED BY <4>2
    <3>3. 0 = 0 + Word * 0
      BY Numbers
    <3> QED BY <2>1, <3>2, <3>3
  <2>5. Balanced
    BY <2>4 DEF Balanced
  <2> QED BY <2>2, <2>5, InitAInv DEF PInv
<1>2. PInv /\ [Next]_vars => PInv'
  BY NextAInv, ApartNext, BalancedNext DEF PInv
<1>3. ASSUME PInv PROVE PendingSettles
  <2> SUFFICES ASSUME NEW v \in VB,
                      \A t \in IOThreads : ~(iopc[t] = "count" /\ Head(touched[t]) = v),
                      \A w \in Workers : ~(wpc[w] = "count" /\ wvb[w] = v)
               PROVE  pending[v] = Len(list[v]) % Word
    BY DEF PendingSettles
  <2>1. Pushed(v) = {} /\ Uncounted(v) = {}
    BY DEF Pushed, Uncounted
  <2>2. Len(list[v]) \in Int /\ pending[v] \in 0..Word-1
    BY <1>3, LenProperties DEF PInv, AInv, TypeInv, TypeOK, VBType
  <2>3. Settled(v) = Len(list[v])
    <3>1. Cardinality(Pushed(v)) = 0 /\ Cardinality(Uncounted(v)) = 0
      BY <2>1, FS_EmptySet
    <3> QED BY <2>2, <3>1 DEF Settled
  <2>4. PICK q \in Int : pending[v] = Len(list[v]) + Word * q
    BY <1>3, <2>3 DEF PInv, Balanced
  <2> QED BY <2>2, <2>4, Remainder
<1>4. PInv => ExactAccounting
  BY <1>3 DEF PInv, AInv, Charged, ExactAccounting
<1> QED BY <1>1, <1>2, <1>4, PTL DEF Spec

-----------------------------------------------------------------------------
(* The pool *)

\* The workers that run, and the sentinels that wait for them.
Active == {w \in Workers : wpc[w] \notin {"off", "done"}}
Stops  == Pos(taskQueue, Sentinel)

\* live_ is what will run when the sentinels are taken; Shutdown adds one
\* sentinel per worker and one for the coalescing thread.
PoolExact ==
    /\ phase \notin {"join", "closed"} =>
          live \in Nat \ {0} /\ Cardinality(Active) = Cardinality(Stops) + live
    /\ Cardinality(Stops) <= 2 * Cardinality(Workers)
    /\ AtMostOne(Pos(deferQueue, Sentinel))
    /\ phase \in {"run", "drain", "stopDefer"} => Pos(deferQueue, Sentinel) = {}

\* The places of a value in a queue are finitely many.
LEMMA PosFinite ==
    ASSUME NEW S, NEW s \in Seq(S), NEW x
    PROVE  IsFiniteSet(Pos(s, x)) /\ Cardinality(Pos(s, x)) \in Nat
<1>1. Len(s) \in Nat /\ DOMAIN s = 1..Len(s)
  BY LenProperties
<1>2. IsFiniteSet(1..Len(s))
  BY <1>1, FS_Interval
<1>3. Pos(s, x) \subseteq 1..Len(s)
  BY <1>1 DEF Pos
<1> QED BY <1>2, <1>3, FS_Subset, FS_CardinalityType

\* Taking the head of a queue removes one place of the head and no other.
LEMMA PosTailCount ==
    ASSUME NEW S, NEW q \in Seq(S), q # <<>>, NEW x
    PROVE  Cardinality(Pos(q, x)) = IF Head(q) = x
                                      THEN Cardinality(Pos(Tail(q), x)) + 1
                                      ELSE Cardinality(Pos(Tail(q), x))
<1>1. /\ Len(q) \in Nat /\ Len(q) > 0 /\ DOMAIN q = 1..Len(q)
      /\ Head(q) = q[1]
  BY EmptySeq, LenProperties, HeadTailProperties
<1>2. /\ Tail(q) \in Seq(S) /\ DOMAIN Tail(q) = 1..(Len(q) - 1)
      /\ \A i \in 1..(Len(q) - 1) : Tail(q)[i] = q[i + 1]
  BY <1>1, HeadTailProperties, LenProperties
<1> DEFINE P == Pos(q, x) \ {1}
           N == Pos(Tail(q), x)
           f == [i \in N |-> i + 1]
<1>3. IsFiniteSet(N) /\ Cardinality(N) \in Nat /\ IsFiniteSet(Pos(q, x))
  BY <1>2, PosFinite
<1>4. \A i \in N : i \in Nat /\ i + 1 \in P
  BY <1>1, <1>2 DEF Pos
<1>5. \A j \in P : j - 1 \in N /\ f[j - 1] = j
  BY <1>1, <1>2 DEF Pos
<1>6. f \in Bijection(N, P)
  <2>1. f \in [N -> P]
    BY <1>4
  <2>2. \A i, j \in N : f[i] = f[j] => i = j
    BY <1>4
  <2> QED BY <1>5, <2>1, <2>2, Fun_IsBij
<1>7. ExistsBijection(N, P)
  BY <1>6 DEF ExistsBijection
<1>8. Cardinality(P) = Cardinality(N)
  BY <1>3, <1>7, FS_Bijection
<1>9. 1 \in Pos(q, x) <=> Head(q) = x
  BY <1>1 DEF Pos
<1>10. /\ Cardinality(Pos(q, x)) \in Nat
       /\ Cardinality(P) = IF 1 \in Pos(q, x) THEN Cardinality(Pos(q, x)) - 1
                           ELSE Cardinality(Pos(q, x))
  BY <1>3, FS_RemoveElement, FS_CardinalityType
<1> QED BY <1>3, <1>8, <1>9, <1>10

\* Queueing n sentinels adds n places of them.
LEMMA StopsAdded ==
    ASSUME NEW S, NEW q \in Seq(S), Sentinel \in S, NEW n \in Nat
    PROVE  Cardinality(Pos(q \o Sentinels(n), Sentinel))
             = Cardinality(Pos(q, Sentinel)) + n
<1>1. Sentinels(n) \in Seq(S) /\ Len(Sentinels(n)) = n
  BY SentinelsType, SeqMonotonic
<1>2. /\ Len(q) \in Nat /\ DOMAIN q = 1..Len(q)
      /\ DOMAIN (q \o Sentinels(n)) = 1..(Len(q) + n)
  <2>1. q \o Sentinels(n) \in Seq(S) /\ Len(q \o Sentinels(n)) = Len(q) + n
    BY <1>1, ConcatProperties
  <2>2. DOMAIN (q \o Sentinels(n)) = 1..Len(q \o Sentinels(n))
    BY <2>1, LenProperties
  <2> QED BY <2>1, <2>2, LenProperties
<1>3. \A i \in 1..Len(q) : (q \o Sentinels(n))[i] = q[i]
  BY <1>1, <1>2, ConcatProperties
<1>4. \A i \in 1..(Len(q) + n) : i > Len(q) => (q \o Sentinels(n))[i] = Sentinel
  BY <1>1, <1>2, ConcatProperties DEF Sentinels
<1>5. PICK a \in Int, b \in Int : a = Len(q) + 1 /\ b = Len(q) + n
  BY <1>2
<1> DEFINE P == Pos(q, Sentinel)
           K == a..b
<1>6. Pos(q \o Sentinels(n), Sentinel) = P \cup K
  BY <1>2, <1>3, <1>4, <1>5 DEF Pos
<1>7. IsFiniteSet(K) /\ Cardinality(K) = n
  <2>1. IsFiniteSet(K) /\ Cardinality(K) = IF a > b THEN 0 ELSE b - a + 1
    BY FS_Interval
  <2> QED BY <1>2, <1>5, <2>1
<1>8. P \cap K = {}
  BY <1>2, <1>5 DEF Pos
<1>9. IsFiniteSet(P) /\ Cardinality(P) \in Nat
  BY PosFinite
<1>10. Cardinality(P \cap K) = 0
  BY <1>8, FS_EmptySet
<1> HIDE DEF P, K
<1>11. Cardinality(P \cup K) = Cardinality(P) + n
  <2>1. Cardinality(P \cup K) = Cardinality(P) + Cardinality(K) - Cardinality(P \cap K)
    BY <1>7, <1>9, FS_Union
  <2> QED BY <1>7, <1>9, <1>10, <2>1
<1> QED BY <1>6, <1>11 DEF P

\* A queue with at most one task per vbucket and none of v is no longer than
\* the other vbuckets and its sentinels.
LEMMA QueueFits ==
    ASSUME NEW q \in Seq(VB \cup {Sentinel}), NEW v \in VB, Pos(q, v) = {},
           \A u \in VB : AtMostOne(Pos(q, u))
    PROVE  Len(q) < Cardinality(VB) + Cardinality(Pos(q, Sentinel))
<1>1. /\ Len(q) \in Nat /\ DOMAIN q = 1..Len(q)
      /\ \A i \in 1..Len(q) : q[i] \in VB \cup {Sentinel}
  BY LenProperties, ElementOfSeq
<1> DEFINE P == Pos(q, Sentinel)
           T == (1..Len(q)) \ P
           R == VB \ {v}
           f == [i \in T |-> q[i]]
<1>2. IsFiniteSet(1..Len(q)) /\ Cardinality(1..Len(q)) = Len(q)
  <2>1. /\ IsFiniteSet(1..Len(q))
        /\ Cardinality(1..Len(q)) = IF 1 > Len(q) THEN 0 ELSE Len(q) - 1 + 1
    BY <1>1, FS_Interval
  <2> QED BY <1>1, <2>1
<1>3. IsFiniteSet(P) /\ Cardinality(P) \in Nat /\ P \subseteq 1..Len(q)
  BY <1>1, PosFinite DEF Pos
<1>4. IsFiniteSet(T) /\ Cardinality(T) = Len(q) - Cardinality(P)
  <2>1. /\ IsFiniteSet(T)
        /\ Cardinality(T) = Cardinality(1..Len(q)) - Cardinality((1..Len(q)) \cap P)
    BY <1>2, FS_Difference
  <2>2. (1..Len(q)) \cap P = P
    BY <1>3
  <2> QED BY <1>2, <2>1, <2>2
<1>5. /\ IsFiniteSet(R) /\ Cardinality(R) = Cardinality(VB) - 1
      /\ Cardinality(VB) \in Nat
  BY Sets, FS_RemoveElement, FS_CardinalityType
<1>6. \A i \in T : q[i] \in R
  BY <1>1 DEF Pos
<1>7. \A i, j \in T : q[i] = q[j] => i = j
  <2> SUFFICES ASSUME NEW i \in T, NEW j \in T, q[i] = q[j] PROVE i = j
    OBVIOUS
  <2>1. q[i] \in VB
    BY <1>6
  <2>2. i \in Pos(q, q[i]) /\ j \in Pos(q, q[i])
    BY <1>1 DEF Pos
  <2> QED BY <2>1, <2>2 DEF AtMostOne
<1>8. f \in Injection(T, R)
  BY <1>6, <1>7, Fun_IsInj
<1> HIDE DEF P, T, R, f
<1>9. Cardinality(T) <= Cardinality(R)
  BY <1>5, <1>8, FS_Injection
<1> QED BY <1>1, <1>3, <1>4, <1>5, <1>9 DEF P

\* What the pool's invariant says of the queues.
LEMMA NothingBlocks ==
    TypeInv /\ (\A v \in VB : Own(v)) /\ PoolExact => NeverBlocks
<1> SUFFICES ASSUME TypeInv, \A u \in VB : Own(u), PoolExact,
                    Capacity >= Cardinality(VB) + 2 * Cardinality(Workers),
                    NEW v \in VB,
                    Holders(v) \cap ({"io", "worker", "held"} \X
                          (IOThreads \cup Workers \cup {0})) # {}
             PROVE  Len(taskQueue) < Capacity /\ Len(deferQueue) < Capacity
  BY DEF NeverBlocks
<1>1. taskQueue \in Seq(VB \cup {Sentinel}) /\ deferQueue \in Seq(VB \cup {Sentinel})
  BY DEF TypeInv, TypeOK, QueueType
<1>2. deferHeld = v \/ Arming(v) # {} \/ Running(v) # {}
  BY DEF Holders, Arming, Running
<1>3. Pos(taskQueue, v) = {} /\ Pos(deferQueue, v) = {}
  BY <1>2 DEF Own, Tasks, Defers
<1>4. \A u \in VB : AtMostOne(Pos(taskQueue, u)) /\ AtMostOne(Pos(deferQueue, u))
  BY DEF Own, Tasks, Defers
<1>5. /\ Len(taskQueue) < Cardinality(VB) + Cardinality(Stops)
      /\ Len(deferQueue) < Cardinality(VB) + Cardinality(Pos(deferQueue, Sentinel))
  BY <1>1, <1>3, <1>4, QueueFits DEF Stops
<1>6. /\ Cardinality(Stops) \in Nat
      /\ Cardinality(Pos(deferQueue, Sentinel)) \in Nat
  BY <1>1, PosFinite DEF Stops
<1>7. Cardinality(Pos(deferQueue, Sentinel)) <= 1
  <2> DEFINE D == Pos(deferQueue, Sentinel)
  <2>1. CASE D = {}
    BY <2>1, FS_EmptySet
  <2>2. CASE D # {}
    <3>1. PICK x : D = {x}
      BY <2>2 DEF PoolExact, AtMostOne
    <3>2. Cardinality(D) = 1
      BY <3>1, FS_Singleton
    <3> QED BY <3>2
  <2> QED BY <2>1, <2>2
<1>8. Cardinality(Workers) \in Nat \ {0} /\ Cardinality(VB) \in Nat
  BY Sets, FS_EmptySet, FS_CardinalityType
<1>9. Len(taskQueue) \in Nat /\ Len(deferQueue) \in Nat /\ Capacity \in Nat
  BY <1>1, LenProperties, Numbers
<1>10. Cardinality(Stops) <= 2 * Cardinality(Workers)
  BY DEF PoolExact
<1> QED BY <1>5, <1>6, <1>7, <1>8, <1>9, <1>10

\* A step that leaves the workers, the sentinels and the phase alone.
LEMMA PoolSame ==
    ASSUME PoolExact, Active' = Active, Cardinality(Stops') = Cardinality(Stops),
           live' = live, phase' = phase, AtMostOne(Pos(deferQueue', Sentinel)),
           Pos(deferQueue, Sentinel) = {} => Pos(deferQueue', Sentinel) = {}
    PROVE  PoolExact'
BY DEF PoolExact

\* The same for one that does not touch the queues either.
LEMMA PoolQuiet ==
    ASSUME PoolExact, Active' = Active,
           UNCHANGED <<taskQueue, deferQueue, live, phase>>
    PROVE  PoolExact'
<1>1. Stops' = Stops /\ Pos(deferQueue', Sentinel) = Pos(deferQueue, Sentinel)
  BY DEF Stops, Pos
<1> QED BY <1>1, PoolSame DEF PoolExact

\* A vbucket's task is no sentinel.
LEMMA TaskNoSentinel ==
    ASSUME TypeInv, NEW u \in VB
    PROVE  /\ Pos(Append(taskQueue, u), Sentinel) = Pos(taskQueue, Sentinel)
           /\ Pos(Append(deferQueue, u), Sentinel) = Pos(deferQueue, Sentinel)
<1> DEFINE S == VB \cup {Sentinel}
<1>1. taskQueue \in Seq(S) /\ deferQueue \in Seq(S) /\ u \in S /\ u # Sentinel
  BY Sets DEF TypeInv, TypeOK, QueueType
<1> HIDE DEF S
<1> QED BY <1>1, PosAppend

\* Submitting a task, to either queue.
LEMMA PoolSubmit ==
    ASSUME TypeInv, PoolExact, NEW u \in VB, Active' = Active,
           UNCHANGED <<live, phase>>,
           \/ taskQueue' = Append(taskQueue, u) /\ deferQueue' = deferQueue
           \/ deferQueue' = Append(deferQueue, u) /\ taskQueue' = taskQueue
    PROVE  PoolExact'
<1>0. /\ Pos(Append(taskQueue, u), Sentinel) = Pos(taskQueue, Sentinel)
      /\ Pos(Append(deferQueue, u), Sentinel) = Pos(deferQueue, Sentinel)
  BY TaskNoSentinel
<1>1. Stops' = Stops /\ Pos(deferQueue', Sentinel) = Pos(deferQueue, Sentinel)
  <2>1. CASE taskQueue' = Append(taskQueue, u) /\ deferQueue' = deferQueue
    BY <1>0, <2>1 DEF Stops
  <2>2. CASE deferQueue' = Append(deferQueue, u) /\ taskQueue' = taskQueue
    BY <1>0, <2>2 DEF Stops
  <2> QED BY <2>1, <2>2
<1> QED BY <1>1, PoolSame DEF PoolExact

\* IO threads submit vbuckets only.
LEMMA SubmitPool ==
    ASSUME TypeInv, PoolExact
    PROVE  /\ \A t \in IOThreads, v \in VB, k \in Key :
                 StageWrite(t, v, k) => PoolExact'
           /\ \A t \in IOThreads : RefuseWrite(t) \/ IOStep(t) => PoolExact'
<1>1. ASSUME UNCHANGED <<queueVars, workerVars, live, closeVars>> PROVE PoolExact'
  <2>1. Active' = Active /\ UNCHANGED <<taskQueue, deferQueue, live, phase>>
    BY <1>1 DEF Active, queueVars, workerVars, closeVars
  <2> QED BY <2>1, PoolQuiet
<1>2. ASSUME NEW t \in IOThreads, Submit(t) PROVE PoolExact'
  <2>1. Head(touched[t]) \in VB
    BY <1>2, FlushHead DEF Submit
  <2>2. Active' = Active /\ UNCHANGED <<live, phase>>
    BY <1>2 DEF Submit, Active, workerVars, closeVars
  <2> QED BY <1>2, <2>1, <2>2, PoolSubmit DEF Submit, SubmitOrDefer, BlockingWrite
<1>3. ASSUME NEW t \in IOThreads, RefuseWrite(t) PROVE PoolExact'
  BY <1>1, <1>3 DEF RefuseWrite
<1>4. ASSUME NEW t \in IOThreads, IOStep(t) PROVE PoolExact'
  BY <1>1, <1>2, <1>4 DEF IOStep, FlushStaged, InsertChain, CountPushed, Arm
<1>5. ASSUME NEW t \in IOThreads, NEW v \in VB, NEW k \in Key, StageWrite(t, v, k)
      PROVE  PoolExact'
  BY <1>1, <1>5 DEF StageWrite
<1> QED BY <1>3, <1>4, <1>5

\* The coalescing thread takes tasks and its sentinel from its own queue and
\* passes on the tasks only.
LEMMA DeferPool ==
    ASSUME TypeInv, PoolExact, DeferStep
    PROVE  PoolExact'
<1>0. /\ deferQueue \in Seq(VB \cup {Sentinel}) /\ deferHeld \in VB \cup {NoVB}
  BY DEF TypeInv, TypeOK, QueueType, DeferType
<1>1. ASSUME deferQueue # <<>>, deferQueue' = Tail(deferQueue),
             UNCHANGED <<taskQueue, workerVars, live, closeVars>>
      PROVE  PoolExact'
  <2>1. Active' = Active /\ Stops' = Stops /\ UNCHANGED <<live, phase>>
    BY <1>1 DEF Active, Stops, workerVars, closeVars
  <2>2. AtMostOne(Pos(deferQueue, Sentinel))
    BY DEF PoolExact
  <2>3. /\ AtMostOne(Pos(Tail(deferQueue), Sentinel))
        /\ Pos(deferQueue, Sentinel) = {} => Pos(Tail(deferQueue), Sentinel) = {}
    BY <1>0, <1>1, <2>2, PosTail
  <2> QED BY <1>1, <2>1, <2>3, PoolSame
<1>2. CASE DeferTake
  BY <1>1, <1>2 DEF DeferTake
<1>3. CASE DeferSubmit
  <2>1. deferHeld \in VB /\ Active' = Active /\ UNCHANGED <<live, phase>>
    BY <1>0, <1>3 DEF DeferSubmit, Active, workerVars, closeVars
  <2> QED BY <1>3, <2>1, PoolSubmit DEF DeferSubmit
<1>4. CASE DeferDrain
  <2>1. CASE deferQueue = <<>>
    <3>1. Active' = Active /\ UNCHANGED <<taskQueue, deferQueue, live, phase>>
      BY <1>4, <2>1 DEF DeferDrain, Active, workerVars, closeVars
    <3> QED BY <3>1, PoolQuiet
  <2>2. CASE deferQueue # <<>>
    BY <1>1, <1>4, <2>2 DEF DeferDrain
  <2> QED BY <2>1, <2>2
<1> QED BY <1>2, <1>3, <1>4 DEF DeferStep

\* The running workers are finitely many, one less when w ends and one more
\* when it starts.
LEMMA ActiveCount ==
    /\ IsFiniteSet(Active) /\ Cardinality(Active) \in Nat
    /\ Cardinality(Active) <= Cardinality(Workers)
    /\ \A w \in Active : Cardinality(Active \ {w}) = Cardinality(Active) - 1
    /\ \A w \in Workers \ Active :
          Cardinality(Active \cup {w}) = Cardinality(Active) + 1
<1>1. Active \in SUBSET Workers /\ IsFiniteSet(Workers)
  BY Sets DEF Active
<1>2. IsFiniteSet(Active) /\ Cardinality(Active) <= Cardinality(Workers)
  BY <1>1, FS_Subset
<1> HIDE DEF Active
<1> QED BY <1>2, FS_CardinalityType, FS_RemoveElement, FS_AddElement

\* A worker ends by taking a sentinel; otherwise the same workers run on.
LEMMA WorkerPool ==
    ASSUME TypeInv, PoolExact, NEW w \in Workers, WorkerStep(w)
    PROVE  PoolExact'
<1>0. /\ taskQueue \in Seq(VB \cup {Sentinel}) /\ WorkerType
      /\ Cardinality(Stops) \in Nat
  BY PosFinite DEF TypeInv, TypeOK, QueueType, Stops
<1>1. CASE TakeTask(w)
  <2>1. /\ taskQueue # <<>> /\ taskQueue' = Tail(taskQueue) /\ deferQueue' = deferQueue
        /\ w \in Active /\ UNCHANGED <<live, phase>>
    BY <1>1 DEF TakeTask, Active, closeVars
  <2>2. Cardinality(Stops) = IF Head(taskQueue) = Sentinel
                               THEN Cardinality(Stops') + 1 ELSE Cardinality(Stops')
    BY <1>0, <2>1, PosTailCount DEF Stops
  <2>3. Pos(deferQueue', Sentinel) = Pos(deferQueue, Sentinel)
    BY <2>1
  <2>4. Cardinality(Stops') \in Nat
    <3>1. Tail(taskQueue) \in Seq(VB \cup {Sentinel})
      BY <1>0, <2>1, HeadTailProperties
    <3> QED BY <2>1, <3>1, PosFinite DEF Stops
  <2>5. CASE Head(taskQueue) = Sentinel
    <3>1. Active' = Active \ {w}
      BY <1>0, <1>1, <2>5 DEF TakeTask, Active, WorkerType
    <3>2. Cardinality(Active') = Cardinality(Active) - 1
      BY <2>1, <3>1, ActiveCount
    <3>3. /\ Cardinality(Stops') = Cardinality(Stops) - 1
          /\ Cardinality(Active) \in Nat /\ Cardinality(Workers) \in Nat
      BY <1>0, <2>2, <2>4, <2>5, ActiveCount, Sets, FS_CardinalityType
    <3> QED BY <1>0, <2>1, <2>3, <2>4, <3>2, <3>3 DEF PoolExact
  <2>6. CASE Head(taskQueue) # Sentinel
    <3>1. Active' = Active
      BY <1>0, <1>1, <2>6 DEF TakeTask, Active, WorkerType
    <3> QED BY <2>1, <2>2, <2>3, <2>6, <3>1, PoolSame DEF PoolExact
  <2> QED BY <2>5, <2>6
<1>2. CASE Resubmit(w)
  <2>1. wvb[w] \in VB
    BY <1>2 DEF Resubmit, TypeInv, MidCall, InCall
  <2>2. Active' = Active /\ UNCHANGED <<live, phase>>
    BY <1>0, <1>2 DEF Resubmit, Return, Active, closeVars, WorkerType
  <2> QED BY <1>2, <2>1, <2>2, PoolSubmit DEF Resubmit, SubmitOrDefer, BlockingWrite
<1>3. ASSUME Sweep(w) \/ CountSwept(w) \/ WriteDocs(w) \/ Complete(w) \/ Release(w)
             \/ Recheck(w) \/ Rearm(w)
      PROVE  PoolExact'
  <2>1. UNCHANGED <<taskQueue, deferQueue, live, phase>>
    BY <1>3 DEF Sweep, CountSwept, WriteDocs, Complete, Release, Recheck, Rearm,
                queueVars, closeVars
  <2>2. w \in Active
    BY <1>3 DEF Sweep, CountSwept, WriteDocs, Complete, Release, Recheck, Rearm, Active
  <2>3. \E c \in {"count", "release", "write", "complete", "recheck", "rearm",
                  "resubmit", "idle"} : wpc' = [wpc EXCEPT ![w] = c]
    <3>1. CASE Sweep(w)
      BY <3>1 DEF Sweep
    <3>2. CASE CountSwept(w)
      BY <3>2 DEF CountSwept
    <3>3. CASE WriteDocs(w)
      BY <3>3 DEF WriteDocs
    <3>4. CASE Complete(w)
      BY <3>4 DEF Complete
    <3>5. CASE Release(w)
      BY <3>5 DEF Release
    <3>6. CASE Recheck(w)
      BY <3>6 DEF Recheck, Return
    <3>7. CASE Rearm(w)
      BY <3>7 DEF Rearm, Return
    <3> QED BY <1>3, <3>1, <3>2, <3>3, <3>4, <3>5, <3>6, <3>7
  <2>4. Active' = Active
    BY <1>0, <2>2, <2>3 DEF Active, WorkerType
  <2> QED BY <2>1, <2>4, PoolQuiet
<1> QED BY <1>1, <1>2, <1>3 DEF WorkerStep

\* Resizes and shutdown.
LEMMA ResizePool ==
    ASSUME TypeInv, PoolExact
    PROVE  (\E u \in Workers : Grow(u))
           \/ (\E n \in 1..Cardinality(Workers) : Shrink(n))
           \/ Reap \/ BeginClose \/ CloseStep \/ Closed \/ UNCHANGED vars => PoolExact'
<1>0. /\ taskQueue \in Seq(VB \cup {Sentinel}) /\ deferQueue \in Seq(VB \cup {Sentinel})
      /\ WorkerType /\ live \in Int
      /\ Cardinality(Stops) \in Nat /\ Cardinality(Workers) \in Nat
  BY PosFinite, Sets, FS_CardinalityType
     DEF TypeInv, TypeOK, QueueType, CountType, Stops
<1>1. ASSUME NEW w \in Workers, Grow(w) PROVE PoolExact'
  <2>1. Active' = Active \cup {w} /\ w \in Workers \ Active
    BY <1>0, <1>1 DEF Grow, Active, WorkerType
  <2>2. Cardinality(Active') = Cardinality(Active) + 1 /\ Cardinality(Active) \in Nat
    BY <2>1, ActiveCount
  <2>3. /\ Stops' = Stops /\ Pos(deferQueue', Sentinel) = Pos(deferQueue, Sentinel)
        /\ phase = "run" /\ phase' = "run" /\ live' = live + 1
    BY <1>1 DEF Grow, Stops, queueVars, closeVars
  <2> QED BY <1>0, <2>2, <2>3 DEF PoolExact
<1>2. ASSUME NEW n \in 1..Cardinality(Workers), Shrink(n) PROVE PoolExact'
  <2> DEFINE k == ShrinkBy(n)
  <2>1. /\ phase = "run" /\ phase' = "run" /\ live' = live - k
        /\ taskQueue' = taskQueue \o Sentinels(k) /\ deferQueue' = deferQueue
        /\ Active' = Active
    BY <1>2 DEF Shrink, closeVars, workerVars, Active
  <2>2. /\ live \in Nat \ {0} /\ Cardinality(Active) = Cardinality(Stops) + live
    BY <2>1 DEF PoolExact
  <2>3. k \in Nat /\ k <= live - 1
    BY <2>2, <1>0 DEF ShrinkBy
  <2> HIDE DEF k
  <2>4. Cardinality(Stops') = Cardinality(Stops) + k
    BY <1>0, <2>1, <2>3, StopsAdded DEF Stops
  <2>5. live' \in Nat \ {0} /\ Cardinality(Active') = Cardinality(Stops') + live'
    BY <1>0, <2>1, <2>2, <2>3, <2>4
  <2>6. Cardinality(Stops') <= 2 * Cardinality(Workers)
    <3>1. Cardinality(Active) \in Nat /\ Cardinality(Active) <= Cardinality(Workers)
      BY ActiveCount
    <3> QED BY <1>0, <2>2, <2>3, <2>4, <3>1
  <2>7. Pos(deferQueue', Sentinel) = Pos(deferQueue, Sentinel)
    BY <2>1
  <2> QED BY <2>1, <2>5, <2>6, <2>7 DEF PoolExact
<1>3. ASSUME Reap PROVE PoolExact'
  <2>1. Active' = Active
    BY <1>0, <1>3 DEF Reap, Active, WorkerType
  <2> QED BY <1>3, <2>1, PoolQuiet DEF Reap, queueVars, closeVars
<1>4. ASSUME BeginClose \/ DrainWrites \/ JoinDefer PROVE PoolExact'
  <2>1. /\ Active' = Active /\ Stops' = Stops /\ live' = live
        /\ Pos(deferQueue', Sentinel) = Pos(deferQueue, Sentinel)
    BY <1>4 DEF BeginClose, DrainWrites, JoinDefer, Active, Stops, queueVars, workerVars
  <2>2. /\ phase \notin {"join", "closed"}
        /\ phase' \in {"run", "drain", "stopDefer"} =>
              phase \in {"run", "drain", "stopDefer"}
    BY <1>4 DEF BeginClose, DrainWrites, JoinDefer
  <2> QED BY <2>1, <2>2 DEF PoolExact
<1>5. ASSUME StopDefer PROVE PoolExact'
  <2>1. /\ Active' = Active /\ Stops' = Stops /\ live' = live
        /\ phase = "stopDefer" /\ phase' \in {"joinDefer", "stopWriters"}
        /\ deferQueue' \in {deferQueue, Append(deferQueue, Sentinel)}
    BY <1>5 DEF StopDefer, Active, Stops, workerVars
  <2>2. Pos(deferQueue, Sentinel) = {}
    BY <2>1 DEF PoolExact
  <2> DEFINE S == VB \cup {Sentinel}
  <2>3. deferQueue \in Seq(S) /\ Sentinel \in S
    BY <1>0
  <2> HIDE DEF S
  <2>4. Pos(Append(deferQueue, Sentinel), Sentinel) = {Len(deferQueue) + 1}
    BY <2>2, <2>3, PosAppend
  <2>5. AtMostOne(Pos(deferQueue', Sentinel))
    <3>1. CASE deferQueue' = deferQueue
      BY <2>2, <3>1 DEF AtMostOne
    <3>2. CASE deferQueue' = Append(deferQueue, Sentinel)
      BY <2>4, <3>2 DEF AtMostOne
    <3> QED BY <2>1, <3>1, <3>2
  <2> QED BY <2>1, <2>5 DEF PoolExact
<1>6. ASSUME StopWriters PROVE PoolExact'
  <2> DEFINE k == Cardinality(Joinable)
  <2>1. /\ phase = "stopWriters" /\ phase' = "join"
        /\ taskQueue' = taskQueue \o Sentinels(k) /\ deferQueue' = deferQueue
    BY <1>6 DEF StopWriters
  <2>2. /\ live \in Nat \ {0} /\ Cardinality(Active) = Cardinality(Stops) + live
    BY <2>1 DEF PoolExact
  <2>3. k \in Nat /\ k <= Cardinality(Workers)
    <3>1. Joinable \in SUBSET Workers /\ IsFiniteSet(Workers)
      BY Sets DEF Joinable
    <3>2. IsFiniteSet(Joinable) /\ Cardinality(Joinable) <= Cardinality(Workers)
      BY <3>1, FS_Subset
    <3> QED BY <3>2, FS_CardinalityType
  <2> HIDE DEF k
  <2>4. Cardinality(Stops') = Cardinality(Stops) + k
    BY <1>0, <2>1, <2>3, StopsAdded DEF Stops
  <2>5. Cardinality(Stops') <= 2 * Cardinality(Workers)
    <3>1. Cardinality(Active) \in Nat /\ Cardinality(Active) <= Cardinality(Workers)
      BY ActiveCount
    <3> QED BY <1>0, <2>2, <2>3, <2>4, <3>1
  <2>6. Pos(deferQueue', Sentinel) = Pos(deferQueue, Sentinel)
    BY <2>1
  <2> QED BY <2>1, <2>5, <2>6 DEF PoolExact
<1>7. ASSUME JoinWriters PROVE PoolExact'
  <2>1. /\ Stops' = Stops /\ Pos(deferQueue', Sentinel) = Pos(deferQueue, Sentinel)
        /\ phase' = "closed"
    BY <1>7 DEF JoinWriters, Stops, queueVars
  <2> QED BY <2>1 DEF PoolExact
<1>8. ASSUME Closed \/ UNCHANGED vars PROVE PoolExact'
  <2>1. Active' = Active /\ UNCHANGED <<taskQueue, deferQueue, live, phase>>
    BY <1>8 DEF Closed, vars, Active, workerVars, queueVars, closeVars
  <2> QED BY <2>1, PoolQuiet
<1> QED BY <1>1, <1>2, <1>3, <1>4, <1>5, <1>6, <1>7, <1>8 DEF CloseStep

\* The tuner never retires the last writer, in any sequence of resizes and
\* ends of workers, and a queue with a slot per vbucket and two per worker
\* never blocks the threads that write to it (Shrink, Reap, Shutdown).
THEOREM WriterAlwaysRemains == Spec => []WriterRemains
<1> DEFINE Owned  == \A v \in VB : Own(v)
           Pooled == TypeInv /\ Owned /\ PoolExact
<1>1. Init => Pooled
  <2> SUFFICES ASSUME Init PROVE Pooled
    OBVIOUS
  <2>1. TypeInv
    BY InitTypeInv
  <2>2. Owned
    BY Sets DEF Init, Own, AtMostOne, Tasks, Defers, Arming, Running, Pos, OwningPc
  <2>3. Active = InitWorkers /\ Stops = {} /\ Pos(deferQueue, Sentinel) = {}
    BY Sets DEF Init, Active, Stops, Pos
  <2>4. Cardinality(InitWorkers) \in Nat \ {0} /\ Cardinality(Workers) \in Nat
    BY Sets, FS_Subset, FS_EmptySet, FS_CardinalityType
  <2>5. Cardinality(Stops) = 0
    BY <2>3, FS_EmptySet
  <2>6. live = Cardinality(InitWorkers) /\ phase = "run"
    BY DEF Init
  <2>7. PoolExact
    BY <2>3, <2>4, <2>5, <2>6 DEF PoolExact, AtMostOne
  <2> QED BY <2>1, <2>2, <2>7
<1>2. Pooled /\ [Next]_vars => Pooled'
  <2> SUFFICES ASSUME TypeInv, Owned, PoolExact, [Next]_vars PROVE Pooled'
    OBVIOUS
  <2>1. TypeInv'
    BY NextTypeInv
  <2>2. ASSUME NEW v \in VB PROVE Own(v)'
    <3>1. Own(v)
      OBVIOUS
    <3> QED BY <3>1, IOOwn, DeferOwn, WorkerOwn, OtherOwn DEF Next
  <2>3. PoolExact'
    BY SubmitPool, DeferPool, WorkerPool, ResizePool DEF Next
  <2> QED BY <2>1, <2>2, <2>3
<1>3. Pooled => WriterRemains
  <2> SUFFICES ASSUME TypeInv, Owned, PoolExact PROVE WriterRemains
    OBVIOUS
  <2>1. NeverBlocks
    BY NothingBlocks
  <2>2. ASSUME phase = "run" PROVE Cardinality(Active) > Cardinality(Stops)
    <3>1. Cardinality(Stops) \in Nat
      BY PosFinite DEF TypeInv, TypeOK, QueueType, Stops
    <3> QED BY <2>2, <3>1 DEF PoolExact
  <2>3. {i \in DOMAIN taskQueue : taskQueue[i] = Sentinel} = Stops
    BY DEF Stops, Pos
  <2> QED BY <2>1, <2>2, <2>3 DEF WriterRemains, Active
<1> HIDE DEF Pooled
<1> QED BY <1>1, <1>2, <1>3, PTL DEF Spec
=============================================================================
