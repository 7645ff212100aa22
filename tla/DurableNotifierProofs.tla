------------------------- MODULE DurableNotifierProofs -------------------------
(***************************************************************************)
(* Theorems about DurableNotifier, for every set of writers and loops and  *)
(* every number of batches.                                                *)
(***************************************************************************)
EXTENDS DurableNotifier, TLAPS, FiniteSetTheorems, SequenceTheorems

-----------------------------------------------------------------------------
(* The inductive invariant *)

\* A writer whose batch's bytes are not in the ledger yet.
Holds(w) == writer[w].pc \notin {"idle", "gen"}

\* The requests parked on loop t, and the batches parked there whose writer
\* has not counted them yet.
Waiting(t)  == parkedHead[t] \cup parkedLocal[t]
CountsOn(t) == {w \in Writers : writer[w].pc = "count" /\ writer[w].t = t}
Counting(t) == {writer[w].batch : w \in CountsOn(t)}

\* The log holds no more records than batches were swept.
LogOrder ==
    /\ tail <= Len(batches)
    /\ \A b \in DOMAIN batches : batches[b].rec <= tail

\* A writer in executePersist has a batch of its own.
MidPersist ==
    /\ \A w \in Writers :
        /\ writer[w].pc # "idle" => writer[w].batch \in DOMAIN batches
        /\ writer[w].pc \in {"idle", "tail", "gen"} => writer[w].todo = {}
        /\ writer[w].pc \in {"count", "register"} =>
              writer[w].t \in writer[w].todo \cap Loops
    /\ \A v, w \in Writers :
        Holds(v) /\ Holds(w) /\ writer[v].batch = writer[w].batch => v = w

\* A batch that has left its writer is stamped with its record or a later one.
Stamped(b) == b \in DOMAIN batches /\ batches[b].rec <= batches[b].lsn

AllStamped ==
    /\ \A w \in Writers : writer[w].pc \notin {"idle", "tail"} =>
                              Stamped(writer[w].batch)
    /\ \A b \in ledger : Stamped(b)
    /\ \A t \in Loops : \A r \in Waiting(t) : Stamped(r[1]) /\ r[2] = t
    /\ \A i \in DOMAIN durableQueue : Stamped(durableQueue[i])
    /\ \A r \in answered : r[1] \in DOMAIN batches

\* The notifier has seen no more than there was to see.
SeenBefore ==
    /\ notifier.d <= durable /\ notifier.lastD <= durable
    /\ notifier.g <= parkGen /\ notifier.lastG <= parkGen
    /\ notifier.last => stop
    /\ notifier.pc = "await" =>
          notifier.d = notifier.lastD /\ notifier.g = notifier.lastG
    /\ notifier.pc # "wake" => notifier.todo = {}

\* The budget: a batch is with its writer, or in the ledger, or on disk.
Budget ==
    /\ queuedBytes = Cardinality(InHand) + Cardinality(ledger)
    /\ InHand \cap ledger = {}
    /\ \A b \in DOMAIN batches \ (InHand \cup ledger) :
          batches[b].rec <= durable

\* A request is parked once: not before its writer has come to it.
ToPark(w, t) ==
    \/ writer[w].pc = "tail"
    \/ /\ t \in writer[w].todo
       /\ ~(writer[w].pc \in {"count", "register"} /\ writer[w].t = t)

ParkedOnce ==
    \A t \in Loops :
        /\ parkedHead[t] \cap parkedLocal[t] = {}
        /\ \A w \in Writers : ToPark(w, t) => <<writer[w].batch, t>> \notin Waiting(t)

\* parkedCount lags behind the lists by what writers have still to add and the
\* loop has still to subtract.
CountLag ==
    \A t \in Loops :
        /\ parkedCount[t] = Cardinality(Waiting(t)) - Cardinality(Counting(t))
                              + drain[t].done
        /\ drain[t].pc # "count" => drain[t].done = 0

\* A loop with parked requests is registered or about to be, and a wake that
\* is queued is in the loop's mailbox.
Registered ==
    \A t \in Loops :
        /\ Waiting(t) # {} =>
             \/ t \in loops
             \/ \E w \in Writers :
                   writer[w].pc \in {"count", "register"} /\ writer[w].t = t
        /\ wakeQueued[t] => mail[t] > 0

Consistent ==
    /\ TypeOK /\ LogOrder /\ MidPersist /\ AllStamped /\ SeenBefore
    /\ AckIsDurable /\ Budget /\ ParkedOnce /\ CountLag /\ Registered

IInv == Consistent /\ WakeNotLost

-----------------------------------------------------------------------------
(* Types *)

\* What a step leaves alone keeps its type.
LEMMA SameTypes ==
    /\ LogType /\ UNCHANGED <<logVars, batches>> => LogType'
    /\ BudgetType /\ UNCHANGED <<queuedBytes, ledger, parkGen>> => BudgetType'
    /\ ParkType /\ UNCHANGED parkVars => ParkType'
    /\ WakeType /\ UNCHANGED wakeVars => WakeType'
    /\ AnswerType /\ UNCHANGED <<durableQueue, answered>> => AnswerType'
<1>1. LogType /\ UNCHANGED <<logVars, batches>> => LogType'
  BY DEF LogType, logVars
<1>2. BudgetType /\ UNCHANGED <<queuedBytes, ledger, parkGen>> => BudgetType'
  BY DEF BudgetType
<1>3. ParkType /\ UNCHANGED parkVars => ParkType'
  BY DEF ParkType, parkVars
<1>4. WakeType /\ UNCHANGED wakeVars => WakeType'
  BY DEF WakeType, wakeVars
<1>5. AnswerType /\ UNCHANGED <<durableQueue, answered>> => AnswerType'
  BY DEF AnswerType
<1> QED BY <1>1, <1>2, <1>3, <1>4, <1>5

\* The batch of a writer in executePersist is one that was swept.
LEMMA OwnBatch ==
    ASSUME TypeOK, MidPersist, NEW w \in Writers, writer[w].pc # "idle"
    PROVE  /\ writer[w].batch \in Batch /\ writer[w].batch \in DOMAIN batches
           /\ batches[writer[w].batch] \in BatchState
           /\ batches[writer[w].batch].share \subseteq Owner
<1>1. writer[w].batch \in DOMAIN batches
  BY DEF MidPersist
<1>2. batches[writer[w].batch] \in BatchState
  BY <1>1, ElementOfSeq DEF TypeOK, LogType
<1>3. writer[w].batch \in Batch
  BY <1>1, Domain DEF TypeOK, LogType, Batch
<1>4. batches[writer[w].batch].share \subseteq Owner
  BY <1>2, Domain DEF Owner, BatchState
<1> QED BY <1>1, <1>2, <1>3, <1>4

\* Records and stamps are numbers.
LEMMA Lsns ==
    ASSUME LogType
    PROVE  /\ tail \in Nat /\ durable \in Nat /\ durable <= tail
           /\ \A b \in DOMAIN batches :
                 /\ batches[b] \in BatchState
                 /\ batches[b].rec \in Nat /\ batches[b].lsn \in Nat
<1>1. tail \in Nat /\ durable \in Nat /\ durable <= tail
  BY Domain DEF LogType, Lsn
<1>2. ASSUME NEW b \in DOMAIN batches
      PROVE  /\ batches[b] \in BatchState
             /\ batches[b].rec \in Nat /\ batches[b].lsn \in Nat
  <2>1. batches[b] \in BatchState
    BY ElementOfSeq DEF LogType
  <2> QED BY <2>1, Domain DEF BatchState, Lsn
<1> QED BY <1>1, <1>2

\* Sweeping a batch leaves the earlier ones as they are.
LEMMA Swept ==
    ASSUME LogType, NEW b \in BatchState, batches' = Append(batches, b)
    PROVE  /\ batches' \in Seq(BatchState)
           /\ Len(batches) \in Nat /\ Len(batches') = Len(batches) + 1
           /\ DOMAIN batches = 1..Len(batches)
           /\ DOMAIN batches' = (DOMAIN batches) \cup {Len(batches) + 1}
           /\ \A c \in DOMAIN batches : batches'[c] = batches[c]
           /\ batches'[Len(batches) + 1] = b
  BY DEF LogType

\* Stamping a batch changes its durableLsn and no other batch.
LEMMA Stamping ==
    ASSUME TypeOK, MidPersist, NEW w \in Writers, GetWALTailLSN(w)
    PROVE  /\ batches' \in Seq(BatchState) /\ DOMAIN batches' = DOMAIN batches
           /\ Len(batches') = Len(batches)
           /\ \A b \in DOMAIN batches :
                 /\ batches'[b].rec = batches[b].rec
                 /\ batches'[b].share = batches[b].share
                 /\ batches'[b].lsn = IF b = writer[w].batch THEN tail
                                      ELSE batches[b].lsn
<1> DEFINE c == writer[w].batch
           e == [batches[c] EXCEPT !.lsn = tail]
<1>1. c \in DOMAIN batches /\ batches[c] \in BatchState
  BY OwnBatch DEF GetWALTailLSN, At
<1>2. e \in BatchState /\ e.rec = batches[c].rec /\ e.lsn = tail
      /\ e.share = batches[c].share
  BY <1>1 DEF TypeOK, LogType, BatchState
<1>3. batches' = [batches EXCEPT ![c] = e]
  BY DEF GetWALTailLSN
<1>4. batches \in Seq(BatchState) /\ DOMAIN batches = 1..Len(batches)
  BY DEF TypeOK, LogType
<1> HIDE DEF c, e
<1>5. /\ batches' \in Seq(BatchState) /\ Len(batches') = Len(batches)
      /\ \A b \in 1..Len(batches) : batches'[b] = IF b = c THEN e ELSE batches[b]
  BY <1>1, <1>2, <1>3, <1>4, ExceptSeq
<1> QED BY <1>2, <1>4, <1>5 DEF c

\* The steps of a writer keep the types: the log grows by at most one record
\* per batch, so a record is a number of Lsn.
LEMMA WriterTypes ==
    ASSUME TypeOK, LogOrder, MidPersist, NEW w \in Writers
    PROVE  WriteDocs(w) \/ WriteFails(w) \/ WriterStep(w) => TypeOK'
<1> USE DEF TypeOK
<1>1. ASSUME WriteDocs(w) PROVE TypeOK'
  <2>1. /\ Len(batches) \in Nat /\ Len(batches) < MaxBatches /\ MaxBatches \in Nat
        /\ tail' = tail + 1 /\ tail' \in Lsn /\ 0 \in Lsn
    BY <1>1, Domain DEF WriteDocs, SweepBatch, LogOrder, LogType, Lsn
  <2>2. PICK share \in Shares :
          batches' = Append(batches, [share |-> share, rec |-> tail', lsn |-> 0])
    BY <1>1 DEF WriteDocs
  <2>a. [share |-> share, rec |-> tail', lsn |-> 0] \in BatchState
    BY <2>1 DEF BatchState
  <2>b. /\ batches' \in Seq(BatchState)
        /\ Len(batches') = Len(batches) + 1
    BY <2>2, <2>a, Swept
  <2>3. LogType'
    BY <1>1, <2>1, <2>b DEF WriteDocs, LogType, Lsn
  <2>4. BudgetType'
    BY <1>1 DEF WriteDocs, BudgetType
  <2>5. writer' \in [Writers -> WriterState]
    <3>1. Len(batches') \in Lsn
      BY <2>1, <2>b DEF Lsn
    <3> QED BY <1>1, <3>1 DEF WriteDocs, WriterState
  <2> QED BY <1>1, <2>3, <2>4, <2>5, SameTypes DEF WriteDocs
<1>2. ASSUME WriteFails(w) PROVE TypeOK'
  <2>1. /\ Len(batches) \in Nat /\ Len(batches) < MaxBatches /\ MaxBatches \in Nat
        /\ 0 \in Lsn
    BY <1>2, Domain DEF WriteFails, SweepBatch, LogType, Lsn
  <2>2. PICK share \in Shares :
          /\ batches' = Append(batches, [share |-> share, rec |-> 0, lsn |-> 0])
          /\ answered' = answered \cup ({Len(batches')} \X share)
    BY <1>2 DEF WriteFails
  <2>a. [share |-> share, rec |-> 0, lsn |-> 0] \in BatchState
    BY <2>1 DEF BatchState
  <2>3. /\ batches' \in Seq(BatchState)
        /\ Len(batches') = Len(batches) + 1
    BY <2>2, <2>a, Swept
  <2>4. LogType'
    BY <1>2, <2>1, <2>3 DEF WriteFails, logVars, LogType
  <2>5. AnswerType'
    BY <1>2, <2>1, <2>2, <2>3, Domain
       DEF WriteFails, AnswerType, Request, Batch, Owner
  <2> QED BY <1>2, <2>4, <2>5, SameTypes DEF WriteFails
<1>3. ASSUME GetWALTailLSN(w) PROVE TypeOK'
  <2>1. /\ writer[w].batch \in DOMAIN batches
        /\ batches[writer[w].batch].share \subseteq Owner
    BY <1>3, OwnBatch DEF GetWALTailLSN, At
  <2>2. LogType'
    <3>1. batches' \in Seq(BatchState) /\ Len(batches') = Len(batches)
      BY <1>3, Stamping
    <3> QED BY <1>3, <3>1 DEF GetWALTailLSN, LogType, logVars
  <2>3. writer' \in [Writers -> WriterState]
    BY <1>3, <2>1 DEF GetWALTailLSN, WriterState
  <2> QED BY <1>3, <2>2, <2>3, SameTypes DEF GetWALTailLSN
<1>4. ASSUME NEW t \in Loops, ParkPush(w, t) PROVE TypeOK'
  <2>1. writer[w].batch \in Batch
    BY <1>4, OwnBatch DEF ParkPush, At
  <2>2. ParkType'
    BY <1>4, <2>1 DEF ParkPush, ParkType, Request, Owner
  <2>3. writer' \in [Writers -> WriterState]
    BY <1>4 DEF ParkPush, WriterState, Owner
  <2> QED BY <1>4, <2>2, <2>3, SameTypes DEF ParkPush
<1>5. ASSUME ParkCount(w) PROVE TypeOK'
  <2>1. ParkType'
    BY <1>5 DEF ParkCount, ParkType, MidPersist, At
  <2>2. writer' \in [Writers -> WriterState]
    BY <1>5 DEF ParkCount, Parked, Goto, WriterState, Owner
  <2> QED BY <1>5, <2>1, <2>2, SameTypes DEF ParkCount
<1>6. ASSUME ParkRegister(w) PROVE TypeOK'
  <2>1. writer' \in [Writers -> WriterState]
    BY <1>6 DEF ParkRegister, Parked, WriterState, Owner
  <2>2. loops' \subseteq Loops
    BY <1>6 DEF ParkRegister, MidPersist, At
  <2> QED BY <1>6, <2>1, <2>2, SameTypes DEF ParkRegister
<1>7. ASSUME AwaitDurable(w) PROVE TypeOK'
  <2>1. writer[w].batch \in Batch
    BY <1>7, OwnBatch DEF AwaitDurable, At
  <2>2. AnswerType'
    BY <1>7, <2>1 DEF AwaitDurable, AnswerType
  <2>3. writer' \in [Writers -> WriterState]
    BY <1>7 DEF AwaitDurable, WriterState
  <2> QED BY <1>7, <2>2, <2>3, SameTypes DEF AwaitDurable
<1>8. ASSUME AddBytes(w) PROVE TypeOK'
  <2>1. writer[w].batch \in Batch
    BY <1>8, OwnBatch DEF AddBytes, At
  <2>2. BudgetType'
    BY <1>8, <2>1 DEF AddBytes, BudgetType
  <2>3. writer' \in [Writers -> WriterState]
    BY <1>8 DEF AddBytes, Goto, WriterState
  <2> QED BY <1>8, <2>2, <2>3, SameTypes DEF AddBytes
<1>9. ASSUME BumpGen(w) PROVE TypeOK'
  <2>1. BudgetType'
    BY <1>9 DEF BumpGen, BudgetType
  <2>2. writer' \in [Writers -> WriterState]
    <3>1. 0 \in Lsn
      BY Domain DEF Lsn
    <3> QED BY <1>9, <3>1 DEF BumpGen, WriterState
  <2> QED BY <1>9, <2>1, <2>2, SameTypes DEF BumpGen
<1> QED BY <1>1, <1>2, <1>3, <1>4, <1>5, <1>6, <1>7, <1>8, <1>9 DEF WriterStep

\* So do the steps of the log, the notifier, the loops, the completion thread
\* and Bucket::Close.
LEMMA NotifierTypes == ASSUME TypeOK PROVE NotifierStep => TypeOK'
<1> USE DEF TypeOK
<1>1. ASSUME ReadGen PROVE TypeOK'
  <2>1. notifier' \in NotifierState
    BY <1>1 DEF ReadGen, NotifierState, BudgetType
  <2> QED BY <1>1, <2>1, SameTypes DEF ReadGen
<1>2. ASSUME ReadDurable PROVE TypeOK'
  <2>1. durable \in Lsn
    BY Domain DEF LogType, Lsn
  <2>2. notifier' \in NotifierState
    BY <1>2, <2>1 DEF ReadDurable, NotifierState
  <2> QED BY <1>2, <2>2, SameTypes DEF ReadDurable
<1>3. ASSUME Release PROVE TypeOK'
  <2> DEFINE covered == {b \in ledger : batches[b].lsn <= notifier.d}
  <2>1. covered \subseteq ledger /\ ledger \subseteq Batch
    BY DEF BudgetType
  <2>2. IsFiniteSet(covered)
    <3>1. IsFiniteSet(Batch)
      BY Domain, FS_Interval DEF Batch
    <3> HIDE DEF covered
    <3> QED BY <2>1, <3>1, FS_Subset
  <2>3. Cardinality(covered) \in Nat
    BY <2>2, FS_CardinalityType
  <2>4. queuedBytes' = queuedBytes - Cardinality(covered) /\ ledger' = ledger \ covered
    BY <1>3 DEF Release
  <2> HIDE DEF covered
  <2>5. BudgetType'
    BY <1>3, <2>1, <2>3, <2>4 DEF Release, BudgetType
  <2>6. notifier' \in NotifierState
    BY <1>3 DEF Release, NotifierState
  <2> QED BY <1>3, <2>5, <2>6, SameTypes DEF Release
<1>4. ASSUME NEW t \in Loops, Wake(t) PROVE TypeOK'
  <2>1. WakeType'
    <3> DEFINE post == parkedCount[t] > 0 /\ ~wakeQueued[t]
    <3>1. /\ wakeQueued' = [wakeQueued EXCEPT ![t] = wakeQueued[t] \/ post]
          /\ mail' = [mail EXCEPT ![t] = IF post THEN mail[t] + 1 ELSE mail[t]]
          /\ drain' = drain
      BY <1>4 DEF Wake
    <3> HIDE DEF post
    <3>2. mail' \in [Loops -> Nat]
      BY <3>1 DEF WakeType
    <3>3. wakeQueued' \in [Loops -> BOOLEAN]
      BY <3>1, Zenon DEF WakeType
    <3> QED BY <3>1, <3>2, <3>3 DEF WakeType
  <2>2. notifier' \in NotifierState
    BY <1>4 DEF Wake, NotifierState
  <2> QED BY <1>4, <2>1, <2>2, SameTypes DEF Wake
<1>5. ASSUME Await PROVE TypeOK'
  <2>1. 0 \in Lsn
    BY Domain DEF Lsn
  <2>2. notifier' \in NotifierState
    BY <1>5, <2>1 DEF Await, NotifierState
  <2> QED BY <1>5, <2>2, SameTypes DEF Await
<1> QED BY <1>1, <1>2, <1>3, <1>4, <1>5 DEF NotifierStep

\* The requests a loop answers are finitely many.
LEMMA CoveredFinite ==
    ASSUME TypeOK, AllStamped, NEW t \in Loops
    PROVE  /\ Covered(t) \subseteq parkedLocal[t]
           /\ IsFiniteSet(Waiting(t)) /\ IsFiniteSet(Covered(t))
           /\ Cardinality(Waiting(t)) \in Nat /\ Cardinality(Covered(t)) \in Nat
<1>1. Waiting(t) \subseteq Batch \X {t}
  <2>1. ASSUME NEW r \in Waiting(t) PROVE r \in Batch \X {t}
    BY <2>1 DEF TypeOK, ParkType, Waiting, Request, AllStamped
  <2> QED BY <2>1
<1>2. IsFiniteSet(Batch \X {t})
  <2>1. IsFiniteSet(Batch)
    BY Domain, FS_Interval DEF Batch
  <2>2. IsFiniteSet({t})
    BY FS_Singleton
  <2> QED BY <2>1, <2>2, FS_Product
<1>3. Covered(t) \subseteq parkedLocal[t] /\ Covered(t) \subseteq Waiting(t)
  BY DEF Covered, Waiting
<1>4. IsFiniteSet(Waiting(t))
  BY <1>1, <1>2, FS_Subset
<1>5. IsFiniteSet(Covered(t))
  BY <1>3, <1>4, FS_Subset
<1> QED BY <1>3, <1>4, <1>5, FS_CardinalityType

\* The steps of a loop keep the types.
LEMMA LoopTypes ==
    ASSUME TypeOK, AllStamped, NEW t \in Loops PROVE LoopStep(t) => TypeOK'
<1> USE DEF TypeOK
<1>1. ASSUME DrainStart(t) PROVE TypeOK'
  <2>1. WakeType'
    BY <1>1 DEF DrainStart, WakeType
  <2> QED BY <1>1, <2>1, SameTypes DEF DrainStart
<1>2. ASSUME DrainTake(t) PROVE TypeOK'
  <2>1. WakeType'
    BY <1>2 DEF DrainTake, WakeType
  <2>2. ParkType'
    BY <1>2 DEF DrainTake, ParkType
  <2> QED BY <1>2, <2>1, <2>2, SameTypes DEF DrainTake
<1>3. ASSUME DrainAnswer(t) PROVE TypeOK'
  <2>1. Covered(t) \subseteq parkedLocal[t] /\ Cardinality(Covered(t)) \in Nat
    BY CoveredFinite
  <2>2. WakeType'
    BY <1>3, <2>1 DEF DrainAnswer, WakeType
  <2>3. ParkType'
    BY <1>3 DEF DrainAnswer, ParkType
  <2>4. AnswerType'
    BY <1>3, <2>1 DEF DrainAnswer, AnswerType, ParkType
  <2> QED BY <1>3, <2>2, <2>3, <2>4, SameTypes DEF DrainAnswer
<1>4. ASSUME DrainCount(t) PROVE TypeOK'
  <2>1. WakeType'
    BY <1>4 DEF DrainCount, WakeType
  <2>2. ParkType'
    BY <1>4 DEF DrainCount, ParkType, WakeType
  <2> QED BY <1>4, <2>1, <2>2, SameTypes DEF DrainCount
<1> QED BY <1>1, <1>2, <1>3, <1>4 DEF LoopStep

\* The ready prefix of the completion thread's queue is its first elements, as
\* many as the thread takes.
LEMMA PrefixLength ==
    ASSUME NEW n \in Nat, NEW S \in SUBSET (1..n),
           \A i \in S : \A j \in 1..i : j \in S
    PROVE  Cardinality(S) \in Nat /\ Cardinality(S) <= n /\ S = 1..Cardinality(S)
<1>1. CASE S = {}
  <2>1. Cardinality(S) = 0
    BY <1>1, FS_EmptySet
  <2> QED BY <1>1, <2>1
<1>2. CASE S # {}
  <2> DEFINE D == {d \in Nat : \E i \in S : d = n - i}
  <2>1. PICK i0 \in S : TRUE
    BY <1>2
  <2>2. n - i0 \in D
    BY <2>1
  <2>3. PICK d \in D : \A e \in D : <<e, d>> \notin OpToRel(<, Nat)
    <3>1. D \subseteq Nat /\ D # {}
      BY <2>2
    <3> HIDE DEF D
    <3> QED BY <3>1, NatLessThanWellFounded, WFMin
  <2>4. PICK m \in S : d = n - m
    BY <2>3
  <2>5. ASSUME NEW j \in S PROVE j <= m
    <3>1. n - j \in D
      BY <2>5
    <3>2. ~(n - j < d)
      BY <2>3, <3>1 DEF OpToRel
    <3> QED BY <2>4, <3>2
  <2>6. S = 1..m
    <3>1. m \in 1..n /\ \A j \in 1..m : j \in S
      BY <2>4
    <3>2. \A j \in S : j \in 1..m
      BY <2>5, <3>1
    <3> QED BY <3>1, <3>2
  <2>7. Cardinality(S) = m
    BY <2>4, <2>6, FS_Interval
  <2> QED BY <2>4, <2>6, <2>7
<1> QED BY <1>1, <1>2

\* What CompleteReady takes is covered by the log.
LEMMA ReadyAreCovered ==
    ASSUME AnswerType
    PROVE  LET ready == Cardinality(ReadyPrefix(durableQueue)) IN
           /\ ready \in Nat /\ ready <= Len(durableQueue)
           /\ \A i \in 1..ready : batches[durableQueue[i]].lsn <= durable
<1> DEFINE S == ReadyPrefix(durableQueue)
<1>1. Len(durableQueue) \in Nat /\ DOMAIN durableQueue = 1..Len(durableQueue)
  BY LenProperties DEF AnswerType
<1>2. S \in SUBSET (1..Len(durableQueue))
  BY <1>1 DEF ReadyPrefix
<1>3. \A i \in S : \A j \in 1..i : j \in S
  BY <1>1 DEF ReadyPrefix
<1>4. /\ Cardinality(S) \in Nat /\ Cardinality(S) <= Len(durableQueue)
      /\ S = 1..Cardinality(S)
  <2> HIDE DEF S
  <2> QED BY <1>1, <1>2, <1>3, PrefixLength
<1>5. \A i \in S : batches[durableQueue[i]].lsn <= durable
  BY <1>1 DEF ReadyPrefix
<1> QED BY <1>4, <1>5

\* The other steps keep the types.
LEMMA OtherTypes ==
    ASSUME TypeOK
    PROVE  Flush \/ CompleteReady \/ Close \/ Closed \/ UNCHANGED vars => TypeOK'
<1> USE DEF TypeOK
<1>1. ASSUME Flush PROVE TypeOK'
  <2>1. LogType'
    BY <1>1, Domain DEF Flush, LogType, Lsn
  <2> QED BY <1>1, <2>1, SameTypes DEF Flush
<1>2. ASSUME CompleteReady PROVE TypeOK'
  <2> DEFINE ready == Cardinality(ReadyPrefix(durableQueue))
  <2>1. ready \in Nat /\ ready <= Len(durableQueue) /\ Len(durableQueue) \in Nat
    BY ReadyAreCovered, LenProperties DEF AnswerType
  <2>2. /\ answered' = answered \cup {<<durableQueue[i], NoLoop>> : i \in 1..ready}
        /\ durableQueue' = SubSeq(durableQueue, ready + 1, Len(durableQueue))
    BY <1>2 DEF CompleteReady
  <2> HIDE DEF ready
  <2>3. durableQueue' \in Seq(Batch)
    BY <2>1, <2>2 DEF AnswerType
  <2>4. \A i \in 1..ready : <<durableQueue[i], NoLoop>> \in Request
    BY <2>1, ElementOfSeq DEF AnswerType, Request, Owner
  <2>5. AnswerType'
    BY <2>2, <2>3, <2>4 DEF AnswerType
  <2> QED BY <1>2, <2>5, SameTypes DEF CompleteReady
<1>3. ASSUME Close PROVE TypeOK'
  BY <1>3, SameTypes DEF Close
<1>4. ASSUME UNCHANGED vars PROVE TypeOK'
  BY <1>4, SameTypes DEF vars
<1> QED BY <1>1, <1>2, <1>3, <1>4 DEF Closed

-----------------------------------------------------------------------------
(* What a step leaves alone *)

\* The parts of the invariant that depend on few variables.
LEMMA SameParts ==
    /\ LogOrder /\ UNCHANGED <<tail, batches>> => LogOrder'
    /\ MidPersist /\ UNCHANGED <<writer, batches>> => MidPersist'
    /\ AllStamped /\ UNCHANGED <<batches, writer, ledger, parkedHead, parkedLocal,
                                 durableQueue, answered>> => AllStamped'
    /\ SeenBefore /\ UNCHANGED <<durable, notifier, parkGen, stop>> => SeenBefore'
    /\ AckIsDurable /\ UNCHANGED <<answered, batches, durable>> => AckIsDurable'
    /\ Budget /\ UNCHANGED <<queuedBytes, ledger, writer, batches, durable>> => Budget'
    /\ ParkedOnce /\ UNCHANGED <<parkedHead, parkedLocal, writer>> => ParkedOnce'
    /\ CountLag /\ UNCHANGED <<parkVars, writer, drain>> => CountLag'
    /\ Registered /\ UNCHANGED <<parkVars, loops, writer, wakeQueued, mail>>
         => Registered'
<1>1. LogOrder /\ UNCHANGED <<tail, batches>> => LogOrder'
  BY DEF LogOrder
<1>2. MidPersist /\ UNCHANGED <<writer, batches>> => MidPersist'
  BY DEF MidPersist, Holds
<1>3. AllStamped /\ UNCHANGED <<batches, writer, ledger, parkedHead, parkedLocal,
                                durableQueue, answered>> => AllStamped'
  BY DEF AllStamped, Stamped, Waiting
<1>4. SeenBefore /\ UNCHANGED <<durable, notifier, parkGen, stop>> => SeenBefore'
  BY DEF SeenBefore
<1>5. AckIsDurable /\ UNCHANGED <<answered, batches, durable>> => AckIsDurable'
  BY DEF AckIsDurable
<1>6. Budget /\ UNCHANGED <<queuedBytes, ledger, writer, batches, durable>> => Budget'
  BY DEF Budget, InHand
<1>7. ParkedOnce /\ UNCHANGED <<parkedHead, parkedLocal, writer>> => ParkedOnce'
  BY DEF ParkedOnce, ToPark, Waiting
<1>8. CountLag /\ UNCHANGED <<parkVars, writer, drain>> => CountLag'
  BY DEF CountLag, Waiting, Counting, CountsOn, parkVars
<1>9. Registered /\ UNCHANGED <<parkVars, loops, writer, wakeQueued, mail>>
         => Registered'
  BY DEF Registered, Waiting, parkVars
<1> QED BY <1>1, <1>2, <1>3, <1>4, <1>5, <1>6, <1>7, <1>8, <1>9

\* The batches in hand and the uncounted ones are finitely many.
LEMMA HeldFinite ==
    ASSUME TypeOK, MidPersist
    PROVE  /\ InHand \subseteq DOMAIN batches /\ IsFiniteSet(InHand)
           /\ \A t \in Loops : /\ Counting(t) \subseteq InHand
                               /\ IsFiniteSet(Counting(t))
           /\ IsFiniteSet(ledger) /\ IsFiniteSet(DOMAIN batches)
<1>1. InHand \subseteq DOMAIN batches
  BY DEF InHand, MidPersist
<1>2. IsFiniteSet(DOMAIN batches) /\ IsFiniteSet(Batch)
  BY Domain, FS_Interval, LenProperties DEF TypeOK, LogType, Batch
<1>3. IsFiniteSet(InHand) /\ IsFiniteSet(ledger)
  BY <1>1, <1>2, FS_Subset DEF TypeOK, BudgetType
<1>4. ASSUME NEW t \in Loops PROVE Counting(t) \subseteq InHand
  BY DEF Counting, CountsOn, InHand
<1> QED BY <1>1, <1>2, <1>3, <1>4, FS_Subset

\* A step that moves no writer in or out of the batch it holds.
LEMMA SameInHand ==
    ASSUME \A w \in Writers : Holds(w)' <=> Holds(w),
           \A w \in Writers : Holds(w) => writer'[w].batch = writer[w].batch
    PROVE  InHand' = InHand
  BY DEF Holds, InHand

\* A step that moves no writer in or out of Park's fetch_add on loop t.
LEMMA SameCounting ==
    ASSUME NEW t \in Loops,
           \A w \in Writers : w \in CountsOn(t)' <=> w \in CountsOn(t),
           \A w \in CountsOn(t) : writer'[w].batch = writer[w].batch
    PROVE  Counting(t)' = Counting(t)
  BY DEF CountsOn, Counting

-----------------------------------------------------------------------------
(* The writers *)

\* Sweeping a batch and handing it to magma.
LEMMA SweepKeeps ==
    ASSUME Consistent, NEW w \in Writers, WriteDocs(w) PROVE Consistent'
<1> USE DEF Consistent
<1> DEFINE b == Len(batches) + 1
<1>1. TypeOK'
  BY WriterTypes
<1>2. /\ At(w, "idle") /\ tail' = tail + 1 /\ queuedBytes' = queuedBytes + 1
      /\ UNCHANGED <<durable, ledger, parkGen, loops, parkVars, wakeVars,
                     notifier, stop, durableQueue, answered>>
  BY DEF WriteDocs, SweepBatch
<1>3. /\ Len(batches) \in Nat /\ Len(batches') = b
      /\ DOMAIN batches = 1..Len(batches) /\ DOMAIN batches' = (DOMAIN batches) \cup {b}
      /\ \A c \in DOMAIN batches : batches'[c] = batches[c]
      /\ batches'[b].rec = tail' /\ b \notin DOMAIN batches
  <2>1. PICK share \in Shares :
          batches' = Append(batches, [share |-> share, rec |-> tail', lsn |-> 0])
    BY DEF WriteDocs
  <2>2. [share |-> share, rec |-> tail', lsn |-> 0] \in BatchState
    BY <1>1, Domain DEF BatchState, TypeOK, LogType, Lsn
  <2>3. LogType
    BY DEF TypeOK
  <2>4. b \notin 1..Len(batches)
    BY <2>3 DEF LogType
  <2> QED BY <2>1, <2>2, <2>3, <2>4, Swept
<1>4. /\ writer'[w].pc = "tail" /\ writer'[w].batch = b /\ writer'[w].todo = {}
      /\ \A v \in Writers \ {w} : writer'[v] = writer[v]
  BY <1>2, <1>3 DEF WriteDocs, TypeOK, WriterState, MidPersist, At
<1> HIDE DEF b
<1>5. LogOrder'
  BY <1>2, <1>3, Lsns DEF LogOrder, TypeOK, b
<1>6. MidPersist'
  BY <1>2, <1>3, <1>4 DEF MidPersist, Holds, At
<1>7. AllStamped'
  BY <1>2, <1>3, <1>4 DEF AllStamped, Stamped, Waiting, parkVars, At
<1>8. AckIsDurable'
  BY <1>2, <1>3 DEF AckIsDurable, AllStamped
<1>9. Budget'
  <2>1. InHand' = InHand \cup {b}
    BY <1>2, <1>4 DEF InHand, At
  <2>2. b \notin InHand /\ b \notin ledger
    BY <1>3, HeldFinite DEF AllStamped, Stamped
  <2>3. Cardinality(InHand') = Cardinality(InHand) + 1
    BY <2>1, <2>2, HeldFinite, FS_AddElement
  <2>4. Cardinality(InHand) \in Nat /\ Cardinality(ledger) \in Nat
    BY HeldFinite, FS_CardinalityType
  <2>5. queuedBytes' = Cardinality(InHand') + Cardinality(ledger')
    BY <1>2, <2>3, <2>4 DEF Budget
  <2> QED BY <1>2, <1>3, <2>1, <2>2, <2>5 DEF Budget
<1>10. ParkedOnce'
  <2>1. ASSUME NEW t \in Loops PROVE <<b, t>> \notin Waiting(t)
    BY <1>3 DEF AllStamped, Stamped
  <2> QED BY <1>2, <1>4, <2>1 DEF ParkedOnce, ToPark, Waiting, parkVars
<1>11. CountLag'
  <2>1. ASSUME NEW t \in Loops PROVE Counting(t)' = Counting(t)
    BY <1>2, <1>4, SameCounting DEF CountsOn, At
  <2> QED BY <1>2, <2>1 DEF CountLag, Waiting, parkVars, wakeVars
<1>12. Registered'
  BY <1>2, <1>4 DEF Registered, Waiting, parkVars, wakeVars, At
<1> QED BY <1>1, <1>2, <1>5, <1>6, <1>7, <1>8, <1>9, <1>10, <1>11, <1>12, SameParts

\* A batch that magma refused.
LEMMA RefusedKeeps ==
    ASSUME Consistent, NEW w \in Writers, WriteFails(w) PROVE Consistent'
<1> USE DEF Consistent
<1> DEFINE b == Len(batches) + 1
<1>1. TypeOK'
  BY WriterTypes
<1>2. UNCHANGED <<logVars, writer, queuedBytes, ledger, parkGen, loops,
                  parkVars, wakeVars, notifier, stop, durableQueue>>
  BY DEF WriteFails
<1>3. /\ Len(batches) \in Nat /\ Len(batches') = b
      /\ DOMAIN batches = 1..Len(batches) /\ DOMAIN batches' = (DOMAIN batches) \cup {b}
      /\ \A c \in DOMAIN batches : batches'[c] = batches[c]
      /\ batches'[b].rec = 0 /\ b \notin DOMAIN batches
      /\ \A r \in answered' \ answered : r[1] = b
  <2>1. PICK share \in Shares :
          /\ batches' = Append(batches, [share |-> share, rec |-> 0, lsn |-> 0])
          /\ answered' = answered \cup ({Len(batches')} \X share)
    BY DEF WriteFails
  <2>2. [share |-> share, rec |-> 0, lsn |-> 0] \in BatchState
    BY <1>1, Domain DEF BatchState, TypeOK, LogType, Lsn
  <2>3. LogType
    BY DEF TypeOK
  <2>4. b \notin 1..Len(batches)
    BY <2>3 DEF LogType
  <2> QED BY <2>1, <2>2, <2>3, <2>4, Swept
<1>4. durable \in Nat /\ tail \in Nat
  BY Domain DEF TypeOK, LogType, Lsn
<1> HIDE DEF b
<1>5. LogOrder'
  BY <1>2, <1>3, <1>4 DEF LogOrder, logVars, b
<1>6. MidPersist'
  BY <1>2, <1>3 DEF MidPersist, Holds
<1>7. AllStamped'
  BY <1>2, <1>3 DEF AllStamped, Stamped, Waiting, parkVars
<1>8. AckIsDurable'
  BY <1>2, <1>3, <1>4 DEF AckIsDurable, AllStamped, logVars
<1>9. Budget'
  BY <1>2, <1>3, <1>4 DEF Budget, InHand, logVars
<1> QED BY <1>1, <1>2, <1>5, <1>6, <1>7, <1>8, <1>9, SameParts
         DEF logVars, parkVars, wakeVars

\* Stamping the batch with the tail.
LEMMA StampKeeps ==
    ASSUME Consistent, NEW w \in Writers, GetWALTailLSN(w) PROVE Consistent'
<1> USE DEF Consistent
<1>0. PICK b : b = writer[w].batch
  OBVIOUS
<1>1. TypeOK'
  BY WriterTypes DEF WriterStep
<1>2. /\ At(w, "tail")
      /\ UNCHANGED <<logVars, queuedBytes, ledger, parkGen, loops, parkVars,
                     wakeVars, notifier, stop, durableQueue, answered>>
  BY DEF GetWALTailLSN
<1>3. /\ DOMAIN batches' = DOMAIN batches /\ Len(batches') = Len(batches)
      /\ b \in DOMAIN batches
      /\ \A c \in DOMAIN batches :
            /\ batches'[c].rec = batches[c].rec
            /\ batches'[c].lsn = IF c = b THEN tail ELSE batches[c].lsn
  BY <1>0, <1>2, Stamping, OwnBatch DEF At
<1>4. /\ writer'[w].pc = "push" /\ writer'[w].batch = b
      /\ \A v \in Writers \ {w} : writer'[v] = writer[v]
  BY <1>0, <1>2 DEF GetWALTailLSN, TypeOK, WriterState
<1>5. LogOrder'
  BY <1>0, <1>2, <1>3 DEF LogOrder, logVars
<1>6. MidPersist'
  BY <1>0, <1>2, <1>3, <1>4 DEF MidPersist, Holds, At
<1>7. ASSUME NEW c, Stamped(c) PROVE Stamped(c)'
  BY <1>3, <1>7 DEF Stamped, LogOrder
<1>8. Stamped(b)'
  BY <1>0, <1>3 DEF Stamped, LogOrder
<1>9. AllStamped'
  BY <1>0, <1>2, <1>3, <1>4, <1>7, <1>8 DEF AllStamped, Stamped, Waiting, parkVars
<1>10. AckIsDurable'
  BY <1>0, <1>2, <1>3 DEF AckIsDurable, AllStamped, logVars
<1>11. Budget'
  <2>1. InHand' = InHand
    BY <1>0, <1>2, <1>4, SameInHand DEF Holds, At
  <2> QED BY <1>0, <1>2, <1>3, <2>1 DEF Budget, logVars
<1>12. ParkedOnce'
  BY <1>0, <1>2, <1>4 DEF ParkedOnce, ToPark, Waiting, parkVars, At
<1>13. CountLag'
  <2>1. ASSUME NEW t \in Loops PROVE Counting(t)' = Counting(t)
    BY <1>0, <1>2, <1>4, SameCounting DEF CountsOn, At
  <2> QED BY <1>0, <1>2, <2>1 DEF CountLag, Waiting, parkVars, wakeVars
<1>14. Registered'
  BY <1>0, <1>2, <1>4 DEF Registered, Waiting, parkVars, wakeVars, At
<1> QED BY <1>0, <1>1, <1>2, <1>5, <1>6, <1>9, <1>10, <1>11, <1>12, <1>13, <1>14,
           SameParts DEF logVars

\* Park: the requests of one loop are pushed, then counted ...
LEMMA ParkPushKeeps ==
    ASSUME Consistent, NEW w \in Writers, NEW t \in Loops, ParkPush(w, t)
    PROVE  Consistent'
<1> USE DEF Consistent
<1>0. PICK b : b = writer[w].batch
  OBVIOUS
<1>1. TypeOK'
  BY WriterTypes DEF WriterStep
<1>2. /\ At(w, "push") /\ t \in writer[w].todo /\ t \in Loops
      /\ UNCHANGED <<logVars, batches, queuedBytes, ledger, parkGen, loops,
                     parkedLocal, parkedCount, wakeVars, notifier, stop,
                     durableQueue, answered>>
  BY DEF ParkPush
<1>3. /\ parkedHead'[t] = parkedHead[t] \cup {<<b, t>>}
      /\ \A u \in Loops \ {t} : parkedHead'[u] = parkedHead[u]
  BY <1>0 DEF ParkPush, TypeOK, ParkType
<1>4. /\ writer'[w].pc = "count" /\ writer'[w].batch = b /\ writer'[w].t = t
      /\ writer'[w].todo = writer[w].todo
      /\ \A v \in Writers \ {w} : writer'[v] = writer[v]
  BY <1>0, <1>2 DEF ParkPush, TypeOK, WriterState
<1>5. /\ <<b, t>> \notin Waiting(t) /\ Waiting(t)' = Waiting(t) \cup {<<b, t>>}
      /\ \A u \in Loops \ {t} : Waiting(u)' = Waiting(u)
  BY <1>0, <1>2, <1>3 DEF ParkedOnce, ToPark, At, Waiting
<1>6. MidPersist'
  BY <1>0, <1>2, <1>4 DEF MidPersist, Holds, At
<1>7. AllStamped'
  <2>1. Stamped(b)
    BY <1>0, <1>2 DEF AllStamped, At
  <2> QED BY <1>0, <1>2, <1>4, <1>5, <2>1 DEF AllStamped, Stamped, At
<1>8. Budget'
  <2>1. InHand' = InHand
    BY <1>0, <1>2, <1>4, SameInHand DEF Holds, At
  <2> QED BY <1>0, <1>2, <2>1 DEF Budget, logVars
<1>9. ParkedOnce'
  <2>1. \A u \in Loops : parkedHead'[u] \cap parkedLocal'[u] = {}
    BY <1>0, <1>2, <1>3, <1>5 DEF ParkedOnce, Waiting
  <2>2. ASSUME NEW u \in Loops, NEW v \in Writers, ToPark(v, u)'
        PROVE  <<writer'[v].batch, u>> \notin Waiting(u)'
    <3>1. ToPark(v, u) /\ writer'[v].batch = writer[v].batch
      BY <1>0, <1>2, <1>4, <2>2 DEF ToPark, At
    <3>2. v # w /\ u = t => writer[v].batch # b
      BY <1>0, <1>2, <3>1 DEF ToPark, MidPersist, Holds, At
    <3>3. v = w => u # t
      BY <1>0, <1>4, <2>2 DEF ToPark
    <3> QED BY <1>0, <1>5, <3>1, <3>2, <3>3 DEF ParkedOnce
  <2> QED BY <2>1, <2>2 DEF ParkedOnce
<1>10. CountLag'
  <2>1. Counting(t)' = Counting(t) \cup {b}
    BY <1>0, <1>2, <1>4 DEF Counting, CountsOn, At
  <2>2. b \notin Counting(t)
    BY <1>0, <1>2 DEF Counting, CountsOn, MidPersist, Holds, At
  <2>3. Cardinality(Counting(t)') = Cardinality(Counting(t)) + 1
    BY <2>1, <2>2, HeldFinite, FS_AddElement
  <2>4. Cardinality(Waiting(t)') = Cardinality(Waiting(t)) + 1
    <3>1. IsFiniteSet(Waiting(t))
      BY CoveredFinite
    <3>2. PICK r : r = <<b, t>>
      OBVIOUS
    <3> QED BY <1>5, <3>1, <3>2, FS_AddElement
  <2>5. /\ Cardinality(Counting(t)) \in Nat /\ Cardinality(Waiting(t)) \in Nat
        /\ drain[t].done \in Nat
    BY HeldFinite, CoveredFinite, FS_CardinalityType DEF TypeOK, WakeType
  <2>6. ASSUME NEW u \in Loops \ {t} PROVE Counting(u)' = Counting(u)
    BY <1>0, <1>2, <1>4, SameCounting DEF CountsOn, At
  <2>7. /\ parkedCount'[t] = Cardinality(Waiting(t)') - Cardinality(Counting(t)')
                               + drain'[t].done
        /\ drain'[t].pc # "count" => drain'[t].done = 0
    BY <1>2, <2>3, <2>4, <2>5 DEF CountLag, wakeVars
  <2> QED BY <1>2, <1>5, <2>6, <2>7 DEF CountLag, wakeVars
<1>11. Registered'
  BY <1>0, <1>2, <1>4, <1>5 DEF Registered, wakeVars, At
<1> QED BY <1>0, <1>1, <1>2, <1>6, <1>7, <1>8, <1>9, <1>10, <1>11, SameParts DEF logVars


\* ... and the loop is registered if it is new.
LEMMA ParkCountKeeps ==
    ASSUME Consistent, NEW w \in Writers, ParkCount(w) PROVE Consistent'
<1> USE DEF Consistent
<1>0. PICK b, t : b = writer[w].batch /\ t = writer[w].t
  OBVIOUS
<1>1. TypeOK'
  BY WriterTypes DEF WriterStep
<1>2. /\ At(w, "count")
      /\ UNCHANGED <<logVars, batches, queuedBytes, ledger, parkGen, loops,
                     parkedHead, parkedLocal, wakeVars, notifier, stop,
                     durableQueue, answered>>
  BY DEF ParkCount
<1>3. t \in Loops /\ t \in writer[w].todo
  BY <1>0, <1>2 DEF MidPersist, At
<1>4. /\ parkedCount'[t] = parkedCount[t] + 1
      /\ \A u \in Loops \ {t} : parkedCount'[u] = parkedCount[u]
  BY <1>0, <1>3 DEF ParkCount, TypeOK, ParkType
<1>5. /\ writer'[w].batch = b
      /\ \/ /\ t \in loops /\ writer'[w].pc = "push"
            /\ writer'[w].todo = writer[w].todo \ {t}
         \/ /\ writer'[w].pc = "register" /\ writer'[w].t = t
            /\ writer'[w].todo = writer[w].todo
      /\ \A v \in Writers \ {w} : writer'[v] = writer[v]
  BY <1>0, <1>2 DEF ParkCount, Parked, Goto, TypeOK, WriterState
<1>6. MidPersist'
  BY <1>0, <1>2, <1>3, <1>5 DEF MidPersist, Holds, At
<1>7. AllStamped'
  BY <1>0, <1>2, <1>5 DEF AllStamped, Stamped, Waiting, At
<1>8. Budget'
  <2>1. InHand' = InHand
    BY <1>0, <1>2, <1>5, SameInHand DEF Holds, At
  <2> QED BY <1>2, <2>1 DEF Budget, logVars
<1>9. ParkedOnce'
  BY <1>0, <1>2, <1>5 DEF ParkedOnce, ToPark, Waiting, At
<1>10. CountLag'
  <2>1. Counting(t)' = Counting(t) \ {b} /\ b \in Counting(t)
    <3>1. CountsOn(t)' = CountsOn(t) \ {w} /\ w \in CountsOn(t)
      BY <1>0, <1>2, <1>5 DEF CountsOn, At
    <3>2. \A v \in CountsOn(t) \ {w} : writer[v].batch # b
      BY <1>0, <1>2 DEF CountsOn, MidPersist, Holds, At
    <3>3. \A v \in CountsOn(t) \ {w} : writer'[v].batch = writer[v].batch
      BY <1>5 DEF CountsOn
    <3> QED BY <1>0, <3>1, <3>2, <3>3 DEF Counting
  <2>2. Cardinality(Counting(t)') = Cardinality(Counting(t)) - 1
    BY <1>3, <2>1, HeldFinite, FS_RemoveElement
  <2>3. /\ Cardinality(Counting(t)) \in Nat /\ Cardinality(Waiting(t)) \in Nat
        /\ drain[t].done \in Nat
    BY <1>3, HeldFinite, CoveredFinite, FS_CardinalityType DEF TypeOK, WakeType
  <2>4. ASSUME NEW u \in Loops \ {t} PROVE Counting(u)' = Counting(u)
    BY <1>0, <1>2, <1>5, SameCounting DEF CountsOn, At
  <2>5. \A u \in Loops : Waiting(u)' = Waiting(u)
    BY <1>2 DEF Waiting
  <2>6. /\ parkedCount'[t] = Cardinality(Waiting(t)') - Cardinality(Counting(t)')
                               + drain'[t].done
        /\ drain'[t].pc # "count" => drain'[t].done = 0
    BY <1>2, <1>3, <1>4, <2>2, <2>3, <2>5 DEF CountLag, wakeVars
  <2> QED BY <1>2, <1>4, <2>4, <2>5, <2>6 DEF CountLag, wakeVars
<1>11. Registered'
  BY <1>0, <1>2, <1>3, <1>5 DEF Registered, Waiting, wakeVars, At
<1> QED BY <1>1, <1>2, <1>6, <1>7, <1>8, <1>9, <1>10, <1>11, SameParts DEF logVars

\* ParkRegister: the loop is one the notifier wakes from here on.
LEMMA ParkRegisterKeeps ==
    ASSUME Consistent, NEW w \in Writers, ParkRegister(w) PROVE Consistent'
<1> USE DEF Consistent
<1>0. PICK b, t : b = writer[w].batch /\ t = writer[w].t
  OBVIOUS
<1>1. TypeOK'
  BY WriterTypes DEF WriterStep
<1>2. /\ At(w, "register") /\ loops' = loops \cup {t}
      /\ UNCHANGED <<logVars, batches, queuedBytes, ledger, parkGen, parkVars,
                     wakeVars, notifier, stop, durableQueue, answered>>
  BY <1>0 DEF ParkRegister
<1>3. t \in Loops /\ t \in writer[w].todo
  BY <1>0, <1>2 DEF MidPersist, At
<1>4. /\ writer'[w].batch = b /\ writer'[w].pc = "push"
      /\ writer'[w].todo = writer[w].todo \ {t}
      /\ \A v \in Writers \ {w} : writer'[v] = writer[v]
  BY <1>0, <1>2 DEF ParkRegister, Parked, TypeOK, WriterState
<1>5. MidPersist'
  BY <1>0, <1>2, <1>3, <1>4 DEF MidPersist, Holds, At
<1>6. AllStamped'
  BY <1>0, <1>2, <1>4 DEF AllStamped, Stamped, Waiting, At, parkVars
<1>7. Budget'
  <2>1. InHand' = InHand
    BY <1>0, <1>2, <1>4, SameInHand DEF Holds, At
  <2> QED BY <1>2, <2>1 DEF Budget, logVars
<1>8. ParkedOnce'
  BY <1>0, <1>2, <1>4 DEF ParkedOnce, ToPark, Waiting, At, parkVars
<1>9. CountLag'
  <2>1. ASSUME NEW u \in Loops PROVE Counting(u)' = Counting(u)
    BY <1>0, <1>2, <1>4, SameCounting DEF CountsOn, At
  <2> QED BY <1>2, <2>1 DEF CountLag, Waiting, parkVars, wakeVars
<1>10. Registered'
  BY <1>0, <1>2, <1>3, <1>4 DEF Registered, Waiting, parkVars, wakeVars, At
<1> QED BY <1>1, <1>2, <1>5, <1>6, <1>7, <1>8, <1>9, <1>10, SameParts DEF logVars

\* Requests without a loop go to the completion thread.
LEMMA AwaitDurableKeeps ==
    ASSUME Consistent, NEW w \in Writers, AwaitDurable(w) PROVE Consistent'
<1> USE DEF Consistent
<1>0. PICK b : b = writer[w].batch
  OBVIOUS
<1>1. TypeOK'
  BY WriterTypes DEF WriterStep
<1>2. /\ At(w, "push") /\ durableQueue' = Append(durableQueue, b)
      /\ UNCHANGED <<logVars, batches, queuedBytes, ledger, parkGen, loops,
                     parkVars, wakeVars, notifier, stop, answered>>
  BY <1>0 DEF AwaitDurable
<1>3. /\ writer'[w].batch = b /\ writer'[w].pc = "push" /\ writer'[w].todo = {}
      /\ \A v \in Writers \ {w} : writer'[v] = writer[v]
  BY <1>0, <1>2 DEF AwaitDurable, TypeOK, WriterState, At
<1>4. MidPersist'
  BY <1>0, <1>2, <1>3 DEF MidPersist, Holds, At
<1>5. AllStamped'
  <2>1. Stamped(b)
    BY <1>0, <1>2 DEF AllStamped, At
  <2>2. b \in Batch
    BY <1>0, <1>2, OwnBatch DEF At
  <2>3. \A i \in DOMAIN durableQueue' :
           \/ i \in DOMAIN durableQueue /\ durableQueue'[i] = durableQueue[i]
           \/ durableQueue'[i] = b
    BY <1>2, <2>2 DEF TypeOK, AnswerType
  <2>4. \A i \in DOMAIN durableQueue' : Stamped(durableQueue'[i])
    BY <2>1, <2>3 DEF AllStamped
  <2> QED BY <1>0, <1>2, <1>3, <2>1, <2>4 DEF AllStamped, Stamped, Waiting, parkVars
<1>6. Budget'
  <2>1. InHand' = InHand
    BY <1>0, <1>2, <1>3, SameInHand DEF Holds, At
  <2> QED BY <1>2, <2>1 DEF Budget, logVars
<1>7. ParkedOnce'
  BY <1>0, <1>2, <1>3 DEF ParkedOnce, ToPark, Waiting, At, parkVars
<1>8. CountLag'
  <2>1. ASSUME NEW u \in Loops PROVE Counting(u)' = Counting(u)
    BY <1>0, <1>2, <1>3, SameCounting DEF CountsOn, At
  <2> QED BY <1>2, <2>1 DEF CountLag, Waiting, parkVars, wakeVars
<1>9. Registered'
  BY <1>0, <1>2, <1>3 DEF Registered, Waiting, parkVars, wakeVars, At
<1> QED BY <1>1, <1>2, <1>4, <1>5, <1>6, <1>7, <1>8, <1>9, SameParts DEF logVars

\* The batch's bytes go from the writer to the ledger.
LEMMA AddBytesKeeps ==
    ASSUME Consistent, NEW w \in Writers, AddBytes(w) PROVE Consistent'
<1> USE DEF Consistent
<1>0. PICK b : b = writer[w].batch
  OBVIOUS
<1>1. TypeOK'
  BY WriterTypes DEF WriterStep
<1>2. /\ At(w, "push") /\ writer[w].todo = {} /\ ledger' = ledger \cup {b}
      /\ UNCHANGED <<logVars, batches, queuedBytes, parkGen, loops, parkVars,
                     wakeVars, notifier, stop, durableQueue, answered>>
  BY <1>0 DEF AddBytes
<1>3. /\ writer'[w].batch = b /\ writer'[w].pc = "gen" /\ writer'[w].todo = {}
      /\ \A v \in Writers \ {w} : writer'[v] = writer[v]
  BY <1>0, <1>2 DEF AddBytes, Goto, TypeOK, WriterState, At
<1>4. MidPersist'
  BY <1>0, <1>2, <1>3 DEF MidPersist, Holds, At
<1>5. AllStamped'
  <2>1. Stamped(b)
    BY <1>0, <1>2 DEF AllStamped, At
  <2> QED BY <1>0, <1>2, <1>3, <2>1 DEF AllStamped, Stamped, Waiting, parkVars
<1>6. Budget'
  <2>1. InHand' = InHand \ {b} /\ b \in InHand
    <3>1. \A v \in Writers \ {w} : Holds(v) => writer[v].batch # b
      BY <1>0, <1>2 DEF MidPersist, Holds, At
    <3> QED BY <1>0, <1>2, <1>3, <3>1 DEF InHand, Holds, At
  <2>2. b \notin ledger
    BY <2>1 DEF Budget
  <2>3. /\ Cardinality(InHand') = Cardinality(InHand) - 1
        /\ Cardinality(ledger') = Cardinality(ledger) + 1
    BY <1>2, <2>1, <2>2, HeldFinite, FS_AddElement, FS_RemoveElement
  <2>4. Cardinality(InHand) \in Nat /\ Cardinality(ledger) \in Nat
    BY HeldFinite, FS_CardinalityType
  <2>5. queuedBytes' = Cardinality(InHand') + Cardinality(ledger')
    BY <1>2, <2>3, <2>4 DEF Budget
  <2> QED BY <1>2, <2>1, <2>2, <2>5 DEF Budget, logVars
<1>7. ParkedOnce'
  BY <1>0, <1>2, <1>3 DEF ParkedOnce, ToPark, Waiting, At, parkVars
<1>8. CountLag'
  <2>1. ASSUME NEW u \in Loops PROVE Counting(u)' = Counting(u)
    BY <1>0, <1>2, <1>3, SameCounting DEF CountsOn, At
  <2> QED BY <1>2, <2>1 DEF CountLag, Waiting, parkVars, wakeVars
<1>9. Registered'
  BY <1>0, <1>2, <1>3 DEF Registered, Waiting, parkVars, wakeVars, At
<1> QED BY <1>1, <1>2, <1>4, <1>5, <1>6, <1>7, <1>8, <1>9, SameParts DEF logVars

\* The notifier is told.
LEMMA BumpGenKeeps ==
    ASSUME Consistent, NEW w \in Writers, BumpGen(w) PROVE Consistent'
<1> USE DEF Consistent
<1>1. TypeOK'
  BY WriterTypes DEF WriterStep
<1>2. /\ At(w, "gen") /\ parkGen' = parkGen + 1
      /\ UNCHANGED <<logVars, batches, queuedBytes, ledger, loops, parkVars,
                     wakeVars, notifier, stop, durableQueue, answered>>
  BY DEF BumpGen
<1>3. /\ writer'[w].pc = "idle" /\ writer'[w].todo = {}
      /\ \A v \in Writers \ {w} : writer'[v] = writer[v]
  BY <1>2 DEF BumpGen, TypeOK, WriterState, At, MidPersist
<1>4. MidPersist'
  BY <1>2, <1>3 DEF MidPersist, Holds, At
<1>5. AllStamped'
  BY <1>2, <1>3 DEF AllStamped, Stamped, Waiting, parkVars
<1>6. SeenBefore'
  BY <1>2 DEF SeenBefore, TypeOK, NotifierState, BudgetType, logVars
<1>7. Budget'
  <2>1. InHand' = InHand
    BY <1>2, <1>3, SameInHand DEF Holds, At
  <2> QED BY <1>2, <2>1 DEF Budget, logVars
<1>8. ParkedOnce'
  BY <1>2, <1>3 DEF ParkedOnce, ToPark, Waiting, At, parkVars
<1>9. CountLag'
  <2>1. ASSUME NEW u \in Loops PROVE Counting(u)' = Counting(u)
    BY <1>2, <1>3, SameCounting DEF CountsOn, At
  <2> QED BY <1>2, <2>1 DEF CountLag, Waiting, parkVars, wakeVars
<1>10. Registered'
  BY <1>2, <1>3 DEF Registered, Waiting, parkVars, wakeVars, At
<1> QED BY <1>1, <1>2, <1>4, <1>5, <1>6, <1>7, <1>8, <1>9, <1>10, SameParts
         DEF logVars

-----------------------------------------------------------------------------
(* The notifier *)

\* What the notifier reads was there, and stays so: both counters only grow.
LEMMA NotifierReads ==
    ASSUME Consistent, ReadGen \/ ReadDurable \/ Await PROVE Consistent'
<1> USE DEF Consistent
<1>1. TypeOK'
  BY NotifierTypes DEF NotifierStep
<1>2. UNCHANGED <<logVars, batches, writer, queuedBytes, ledger, parkGen, loops,
                  parkVars, wakeVars, stop, durableQueue, answered>>
  BY DEF ReadGen, ReadDurable, Await
<1>3. durable \in Nat /\ parkGen \in Nat
  BY Lsns DEF TypeOK, BudgetType
<1>4. SeenBefore'
  <2>1. CASE ReadGen
    BY <1>2, <1>3, <2>1 DEF ReadGen, SeenBefore, TypeOK, NotifierState, logVars
  <2>2. CASE ReadDurable
    BY <1>2, <1>3, <2>2
       DEF ReadDurable, Unchanged, SeenBefore, TypeOK, NotifierState, logVars
  <2>3. CASE Await
    <3>1. /\ notifier'.d = 0 /\ notifier'.g = 0 /\ notifier'.last = notifier.last
          /\ notifier'.lastD = notifier.d /\ notifier'.lastG = notifier.g
          /\ notifier'.pc \in {"gen", "done"} /\ notifier'.todo = {}
      BY <2>3 DEF Await, TypeOK, NotifierState
    <3> QED BY <1>2, <1>3, <3>1 DEF SeenBefore, logVars
  <2> QED BY <2>1, <2>2, <2>3
<1> QED BY <1>1, <1>2, <1>4, SameParts DEF logVars, parkVars, wakeVars

\* The bytes the notifier gives back are of batches that are on disk.
LEMMA ReleaseKeeps ==
    ASSUME Consistent, Release PROVE Consistent'
<1> USE DEF Consistent
<1> DEFINE covered == {b \in ledger : batches[b].lsn <= notifier.d}
<1>1. TypeOK'
  BY NotifierTypes DEF NotifierStep
<1>2. /\ ledger' = ledger \ covered
      /\ queuedBytes' = queuedBytes - Cardinality(covered)
      /\ UNCHANGED <<logVars, batches, writer, parkGen, loops, parkVars,
                     wakeVars, stop, durableQueue, answered>>
  BY DEF Release
<1>3. \A b \in covered : batches[b].rec <= durable
  BY Lsns DEF AllStamped, Stamped, SeenBefore, TypeOK, NotifierState, Lsn
<1>4. covered \subseteq ledger
  OBVIOUS
<1> HIDE DEF covered
<1>5. AllStamped'
  BY <1>2 DEF AllStamped, Stamped, Waiting, parkVars
<1>6. SeenBefore'
  BY <1>2 DEF Release, SeenBefore, TypeOK, NotifierState, logVars
<1>7. Budget'
  <2>1. IsFiniteSet(ledger) /\ IsFiniteSet(covered)
    BY <1>4, HeldFinite, FS_Subset
  <2>2. ledger \cap covered = covered
    BY <1>4
  <2>3. Cardinality(ledger') = Cardinality(ledger) - Cardinality(covered)
    <3>1. Cardinality(ledger \ covered)
            = Cardinality(ledger) - Cardinality(ledger \cap covered)
      BY <2>1, FS_Difference
    <3> QED BY <1>2, <2>2, <3>1
  <2>4. /\ Cardinality(InHand) \in Nat /\ Cardinality(ledger) \in Nat
        /\ Cardinality(covered) \in Nat
    BY <2>1, HeldFinite, FS_CardinalityType
  <2>5. InHand' = InHand
    BY <1>2 DEF InHand
  <2>6. queuedBytes' = Cardinality(InHand') + Cardinality(ledger')
    BY <1>2, <2>3, <2>4, <2>5 DEF Budget
  <2> QED BY <1>2, <1>3, <1>4, <2>5, <2>6 DEF Budget, logVars
<1> QED BY <1>1, <1>2, <1>5, <1>6, <1>7, SameParts DEF logVars, parkVars, wakeVars

\* A wake that is queued is in the mailbox.
LEMMA WakeKeeps ==
    ASSUME Consistent, NEW t \in Loops, Wake(t) PROVE Consistent'
<1> USE DEF Consistent
<1>1. TypeOK'
  BY NotifierTypes DEF NotifierStep
<1>2. UNCHANGED <<logVars, batches, writer, queuedBytes, ledger, parkGen,
                  loops, parkVars, drain, stop, durableQueue, answered>>
  BY DEF Wake
<1>3. SeenBefore'
  BY <1>2 DEF Wake, SeenBefore, TypeOK, NotifierState, logVars
<1>4. Registered'
  BY <1>2 DEF Wake, Registered, Waiting, TypeOK, WakeType, parkVars
<1> QED BY <1>1, <1>2, <1>3, <1>4, SameParts DEF logVars, parkVars

-----------------------------------------------------------------------------
(* The loops, the completion thread, the log and Bucket::Close *)

\* DrainDurable starts, and takes the writers' list over.
LEMMA DrainTakes ==
    ASSUME Consistent, NEW t \in Loops, DrainStart(t) \/ DrainTake(t)
    PROVE  Consistent'
<1> USE DEF Consistent
<1>1. TypeOK'
  BY LoopTypes DEF LoopStep
<1>2. UNCHANGED <<logVars, batches, writer, queuedBytes, ledger, parkGen,
                  loops, parkedCount, notifier, stop, durableQueue, answered>>
  BY DEF DrainStart, DrainTake, parkVars
<1>3. \A u \in Loops : Waiting(u)' = Waiting(u)
  BY DEF DrainStart, DrainTake, parkVars, Waiting, TypeOK, ParkType
<1>4. \A u \in Loops : drain'[u].done = drain[u].done
                       /\ (drain'[u].pc = "count" <=> drain[u].pc = "count")
  BY DEF DrainStart, DrainTake, TypeOK, WakeType
<1>5. AllStamped'
  BY <1>2, <1>3 DEF AllStamped, Stamped
<1>6. ParkedOnce'
  <2>1. \A u \in Loops : parkedHead'[u] \cap parkedLocal'[u] = {}
    BY DEF DrainStart, DrainTake, parkVars, ParkedOnce, TypeOK, ParkType
  <2> QED BY <1>2, <1>3, <2>1 DEF ParkedOnce, ToPark
<1>7. CountLag'
  <2>1. \A u \in Loops : Counting(u)' = Counting(u)
    BY <1>2 DEF Counting, CountsOn
  <2> QED BY <1>2, <1>3, <1>4, <2>1 DEF CountLag
<1>8. Registered'
  <2>1. \A u \in Loops : wakeQueued'[u] => mail'[u] > 0
    BY DEF DrainStart, DrainTake, Registered, TypeOK, WakeType
  <2> QED BY <1>2, <1>3, <2>1 DEF Registered
<1> QED BY <1>1, <1>2, <1>5, <1>6, <1>7, <1>8, SameParts DEF logVars

\* What the loop answers is on disk.
LEMMA DrainAnswers ==
    ASSUME Consistent, NEW t \in Loops, DrainAnswer(t) PROVE Consistent'
<1> USE DEF Consistent
<1>1. TypeOK'
  BY LoopTypes DEF LoopStep
<1>0. PICK C : C = Covered(t)
  OBVIOUS
<1>2. /\ drain[t].pc = "answer" /\ answered' = answered \cup C
      /\ UNCHANGED <<logVars, batches, writer, queuedBytes, ledger, parkGen,
                     loops, parkedHead, parkedCount, wakeQueued, mail, notifier,
                     stop, durableQueue>>
  BY <1>0 DEF DrainAnswer
<1>3. /\ C \subseteq parkedLocal[t]
      /\ \A r \in C : batches[r[1]].lsn <= durable
  BY <1>0 DEF Covered
<1>4. /\ parkedLocal'[t] = parkedLocal[t] \ C
      /\ \A u \in Loops \ {t} : parkedLocal'[u] = parkedLocal[u]
  BY <1>0 DEF DrainAnswer, TypeOK, ParkType
<1>5. /\ drain'[t].pc = "count" /\ drain'[t].done = Cardinality(C)
      /\ \A u \in Loops \ {t} : drain'[u] = drain[u]
  BY <1>0 DEF DrainAnswer, TypeOK, WakeType
<1>6. /\ Waiting(t)' = Waiting(t) \ C /\ C \subseteq Waiting(t)
      /\ \A u \in Loops \ {t} : Waiting(u)' = Waiting(u)
  BY <1>2, <1>3, <1>4 DEF Waiting, ParkedOnce
<1>7. AllStamped'
  BY <1>2, <1>6 DEF AllStamped, Stamped
<1>8. AckIsDurable'
  <2>1. \A r \in C : batches[r[1]].rec <= durable
    BY <1>3, <1>6, Lsns DEF AllStamped, Stamped, TypeOK
  <2> QED BY <1>2, <2>1 DEF AckIsDurable, logVars
<1>9. ParkedOnce'
  BY <1>2, <1>4, <1>6 DEF ParkedOnce, ToPark
<1>10. CountLag'
  <2>1. \A u \in Loops : Counting(u)' = Counting(u)
    BY <1>2 DEF Counting, CountsOn
  <2>2. Waiting(t) \cap C = C
    BY <1>6
  <2>3. Cardinality(Waiting(t)') = Cardinality(Waiting(t)) - Cardinality(C)
    BY <1>6, <2>2, CoveredFinite, FS_Difference
  <2>4. /\ Cardinality(Counting(t)) \in Nat /\ Cardinality(Waiting(t)) \in Nat
        /\ Cardinality(C) \in Nat
    BY <1>0, HeldFinite, CoveredFinite, FS_CardinalityType
  <2>5. parkedCount'[t] = Cardinality(Waiting(t)') - Cardinality(Counting(t)')
                            + drain'[t].done
    BY <1>2, <1>5, <2>1, <2>3, <2>4 DEF CountLag
  <2> QED BY <1>2, <1>5, <1>6, <2>1, <2>5 DEF CountLag
<1>11. Registered'
  BY <1>2, <1>6 DEF Registered
<1> QED BY <1>1, <1>2, <1>7, <1>8, <1>9, <1>10, <1>11, SameParts DEF logVars

\* parkedCount is lowered by what was answered.
LEMMA DrainCounts ==
    ASSUME Consistent, NEW t \in Loops, DrainCount(t) PROVE Consistent'
<1> USE DEF Consistent
<1>1. TypeOK'
  BY LoopTypes DEF LoopStep
<1>2. /\ drain[t].pc = "count"
      /\ UNCHANGED <<logVars, batches, writer, queuedBytes, ledger, parkGen,
                     loops, parkedHead, parkedLocal, wakeQueued, mail, notifier,
                     stop, durableQueue, answered>>
  BY DEF DrainCount
<1>3. /\ parkedCount'[t] = parkedCount[t] - drain[t].done
      /\ drain'[t].pc = "idle" /\ drain'[t].done = 0
      /\ \A u \in Loops \ {t} : /\ parkedCount'[u] = parkedCount[u]
                                /\ drain'[u] = drain[u]
  BY DEF DrainCount, TypeOK, ParkType, WakeType
<1>4. CountLag'
  <2>1. \A u \in Loops : Counting(u)' = Counting(u) /\ Waiting(u)' = Waiting(u)
    BY <1>2 DEF Counting, CountsOn, Waiting
  <2>2. /\ Cardinality(Counting(t)) \in Nat /\ Cardinality(Waiting(t)) \in Nat
        /\ drain[t].done \in Nat
    BY HeldFinite, CoveredFinite, FS_CardinalityType DEF TypeOK, WakeType
  <2>3. parkedCount'[t] = Cardinality(Waiting(t)') - Cardinality(Counting(t)')
                            + drain'[t].done
    BY <1>3, <2>1, <2>2 DEF CountLag
  <2> QED BY <1>3, <2>1, <2>3 DEF CountLag
<1>5. Registered'
  BY <1>2 DEF Registered, Waiting
<1> QED BY <1>1, <1>2, <1>4, <1>5, SameParts DEF logVars

\* The completion thread answers what the log covers.
LEMMA CompleteReadyKeeps ==
    ASSUME Consistent, CompleteReady PROVE Consistent'
<1> USE DEF Consistent
<1>1. TypeOK'
  BY OtherTypes
<1>0. PICK n : n = Cardinality(ReadyPrefix(durableQueue))
  OBVIOUS
<1>2. /\ answered' = answered \cup {<<durableQueue[i], NoLoop>> : i \in 1..n}
      /\ durableQueue' = SubSeq(durableQueue, n + 1, Len(durableQueue))
      /\ UNCHANGED <<logVars, batches, writer, queuedBytes, ledger, parkGen,
                     loops, parkVars, wakeVars, notifier, stop>>
  BY <1>0 DEF CompleteReady
<1>3. /\ n \in Nat /\ n <= Len(durableQueue) /\ Len(durableQueue) \in Nat
      /\ \A i \in 1..n : /\ batches[durableQueue[i]].lsn <= durable
                         /\ Stamped(durableQueue[i])
  <2>1. AnswerType
    BY DEF TypeOK
  <2>2. Len(durableQueue) \in Nat /\ DOMAIN durableQueue = 1..Len(durableQueue)
    BY <2>1, LenProperties DEF AnswerType
  <2>3. /\ n \in Nat /\ n <= Len(durableQueue)
        /\ \A i \in 1..n : batches[durableQueue[i]].lsn <= durable
    BY <1>0, <2>1, ReadyAreCovered
  <2> QED BY <2>2, <2>3 DEF AllStamped
<1>4. AllStamped'
  <2>1. \A i \in DOMAIN durableQueue' :
           n + i \in DOMAIN durableQueue /\ durableQueue'[i] = durableQueue[n + i]
    BY <1>2, <1>3 DEF TypeOK, AnswerType
  <2>2. \A i \in DOMAIN durableQueue' : Stamped(durableQueue'[i])
    BY <2>1 DEF AllStamped
  <2>3. \A r \in answered' : r[1] \in DOMAIN batches
    BY <1>2, <1>3 DEF AllStamped, Stamped
  <2> QED BY <1>2, <2>2, <2>3 DEF AllStamped, Stamped, Waiting, parkVars
<1>5. AckIsDurable'
  <2>1. \A i \in 1..n : batches[durableQueue[i]].rec <= durable
    BY <1>3, Lsns DEF Stamped, TypeOK
  <2> QED BY <1>2, <2>1 DEF AckIsDurable, logVars
<1> QED BY <1>1, <1>2, <1>4, <1>5, SameParts DEF logVars, parkVars, wakeVars

\* The watermark only moves forward.
LEMMA FlushKeeps ==
    ASSUME Consistent, Flush PROVE Consistent'
<1> USE DEF Consistent
<1>1. TypeOK'
  BY OtherTypes
<1>2. /\ durable' \in Nat /\ durable \in Nat /\ durable < durable'
      /\ UNCHANGED <<tail, batches, writer, queuedBytes, ledger, parkGen, loops,
                     parkVars, wakeVars, notifier, stop, durableQueue, answered>>
  BY Lsns DEF Flush, TypeOK
<1>3. SeenBefore'
  BY <1>2, Domain DEF SeenBefore, TypeOK, NotifierState, Lsn
<1>4. AckIsDurable'
  BY <1>2, Lsns DEF AckIsDurable, AllStamped, TypeOK
<1>5. Budget'
  BY <1>2, Lsns DEF Budget, InHand, TypeOK
<1> QED BY <1>1, <1>2, <1>3, <1>4, <1>5, SameParts DEF parkVars, wakeVars

\* Close only raises stop_.
LEMMA CloseKeeps ==
    ASSUME Consistent, Close \/ Closed \/ UNCHANGED vars PROVE Consistent'
<1> USE DEF Consistent
<1>1. TypeOK'
  BY OtherTypes
<1>2. UNCHANGED <<logVars, batches, writer, queuedBytes, ledger, parkGen, loops,
                  parkVars, wakeVars, notifier, durableQueue, answered>>
  BY DEF Close, Closed, vars
<1>3. SeenBefore'
  BY <1>2 DEF Close, Closed, vars, SeenBefore, logVars
<1> QED BY <1>1, <1>2, <1>3, SameParts DEF logVars, parkVars, wakeVars

-----------------------------------------------------------------------------
(* No parked request is forgotten *)

\* The steps of a writer: one that moves parkGen_ makes the notifier look.
LEMMA WriterWakes ==
    ASSUME IInv, NEW w \in Writers, WriteDocs(w) \/ WriteFails(w) \/ WriterStep(w)
    PROVE  WakeNotLost'
<1> USE DEF IInv, Consistent
<1>1. CASE WriteDocs(w) \/ WriteFails(w)
  <2>1. /\ UNCHANGED <<durable, parkGen, parkVars, wakeVars, notifier, stop>>
        /\ \A v \in Writers : writer[v].pc \notin {"idle", "tail"}
                                => writer'[v].pc \notin {"idle", "tail"}
    BY <1>1 DEF WriteDocs, WriteFails, SweepBatch, At, logVars, TypeOK
  <2>2. \A b \in DOMAIN batches : batches'[b] = batches[b]
    <3>1. batches \in Seq(BatchState)
      BY DEF TypeOK, LogType
    <3>2. PICK x : batches' = Append(batches, x)
      BY <1>1 DEF WriteDocs, WriteFails
    <3>3. batches \in Seq(BatchState \cup {x})
      BY <3>1
    <3> QED BY <3>2, <3>3
  <2>3. \A t \in Loops : \A r \in Waiting(t) : batches'[r[1]] = batches[r[1]]
    BY <2>2 DEF AllStamped, Stamped
  <2> QED BY <2>1, <2>3 DEF WakeNotLost, Waiting, Seen, parkVars, wakeVars
<1>2. CASE BumpGen(w)
  <2>1. /\ parkGen' = parkGen + 1 /\ UNCHANGED notifier
        /\ parkGen \in Nat /\ notifier.g \in Nat /\ notifier.lastG \in Nat
    BY <1>2 DEF BumpGen, TypeOK, BudgetType, NotifierState
  <2>2. Seen'[2] # parkGen'
    BY <2>1 DEF Seen, SeenBefore
  <2>3. Seen' # <<durable, parkGen>>'
    BY <2>2
  <2> QED BY <2>3 DEF WakeNotLost
<1>3. CASE \/ GetWALTailLSN(w) \/ (\E t \in Loops : ParkPush(w, t)) \/ ParkCount(w)
           \/ ParkRegister(w) \/ AwaitDurable(w) \/ AddBytes(w)
  <2>1. writer'[w].pc \notin {"idle", "tail"}
    BY <1>3 DEF GetWALTailLSN, ParkPush, ParkCount, ParkRegister, AwaitDurable,
                AddBytes, Parked, Goto, At, TypeOK, WriterState
  <2> QED BY <2>1 DEF WakeNotLost
<1> QED BY <1>1, <1>2, <1>3 DEF WriterStep

\* The steps of the notifier.
LEMMA NotifierWakes ==
    ASSUME IInv, NotifierStep PROVE WakeNotLost'
<1> USE DEF IInv, Consistent
<1>0. UNCHANGED <<durable, batches, writer, parkGen, loops, parkedHead, parkedLocal,
                  parkedCount, drain, stop>>
  BY DEF NotifierStep, ReadGen, ReadDurable, Release, Wake, Await, logVars,
         parkVars, wakeVars
<1>1. CASE ReadGen \/ ReadDurable
  <2>1. \/ notifier'.pc = "release"
        \/ /\ Seen' = Seen /\ notifier.pc \notin {"release", "wake"}
    BY <1>1 DEF ReadGen, ReadDurable, Seen, TypeOK, NotifierState
  <2>2. UNCHANGED mail
    BY <1>1 DEF ReadGen, ReadDurable, wakeVars
  <2> QED BY <1>0, <2>1, <2>2 DEF WakeNotLost
<1>2. CASE Release
  <2>1. notifier'.pc = "wake" /\ notifier'.todo = loops
    BY <1>2 DEF Release, TypeOK, NotifierState
  <2>2. ASSUME NEW t \in Loops, Waiting(t) # {}
        PROVE  t \in loops \/ \E w \in Writers : writer[w].pc \notin {"idle", "tail"}
    BY <2>2 DEF Registered
  <2> QED BY <1>0, <2>1, <2>2 DEF WakeNotLost, Waiting
<1>3. ASSUME NEW t \in Loops, Wake(t) PROVE WakeNotLost'
  <2>1. /\ notifier'.pc = "wake" /\ notifier.pc = "wake" /\ t \in notifier.todo
        /\ notifier'.todo = notifier.todo \ {t} /\ Seen' = Seen
    BY <1>3 DEF Wake, Seen, TypeOK, NotifierState
  <2>2. \A u \in Loops : mail[u] > 0 => mail'[u] > 0
    BY <1>3 DEF Wake, TypeOK, WakeType
  <2>3. ASSUME Waiting(t) # {}
        PROVE  mail'[t] > 0 \/ \E w \in Writers : writer[w].pc \notin {"idle", "tail"}
    <3>1. CASE Counting(t) = {}
      <4>1. Cardinality(Counting(t)) = 0
        BY <3>1, FS_EmptySet
      <4>2. Cardinality(Waiting(t)) \in Nat /\ Cardinality(Waiting(t)) # 0
        BY <2>3, CoveredFinite, FS_EmptySet
      <4>3. parkedCount[t] > 0
        BY <4>1, <4>2 DEF CountLag, TypeOK, WakeType
      <4> QED BY <1>3, <4>3 DEF Wake, Registered, TypeOK, WakeType
    <3>2. CASE Counting(t) # {}
      BY <3>2 DEF Counting, CountsOn
    <3> QED BY <3>1, <3>2
  <2> QED BY <1>0, <2>1, <2>2, <2>3 DEF WakeNotLost, Waiting
<1>4. CASE Await
  <2>1. /\ notifier'.pc \notin {"release", "wake"} /\ notifier.todo = {}
        /\ notifier'.lastD = notifier.d /\ notifier'.lastG = notifier.g
        /\ notifier.pc \in {"wake", "await"}
    BY <1>4 DEF Await, TypeOK, NotifierState
  <2>2. Seen' = Seen
    BY <2>1 DEF Seen, SeenBefore
  <2>3. UNCHANGED mail
    BY <1>4 DEF Await, wakeVars
  <2> QED BY <1>0, <2>1, <2>2, <2>3 DEF WakeNotLost
<1> QED BY <1>1, <1>2, <1>3, <1>4 DEF NotifierStep

\* The steps of a loop: what it leaves parked is not covered by the log.
LEMMA LoopWakes ==
    ASSUME IInv, NEW t \in Loops, LoopStep(t) PROVE WakeNotLost'
<1> USE DEF IInv, Consistent
<1>0. UNCHANGED <<durable, batches, writer, parkGen, notifier, stop>>
  BY DEF LoopStep, DrainStart, DrainTake, DrainAnswer, DrainCount, logVars
<1>1. Seen' = Seen
  BY <1>0 DEF Seen
<1>2. CASE DrainStart(t)
  <2>1. /\ drain'[t].pc = "take" /\ \A u \in Loops \ {t} : drain'[u] = drain[u]
        /\ \A u \in Loops \ {t} : mail'[u] = mail[u]
        /\ UNCHANGED parkVars
    BY <1>2 DEF DrainStart, TypeOK, WakeType
  <2> QED BY <1>0, <1>1, <2>1 DEF WakeNotLost, parkVars
<1>3. CASE DrainTake(t)
  <2>1. /\ drain[t].pc = "take" /\ drain'[t].pc = "answer" /\ UNCHANGED mail
        /\ \A u \in Loops \ {t} : drain'[u] = drain[u]
        /\ parkedHead'[t] = {} /\ parkedLocal'[t] = Waiting(t)
        /\ \A u \in Loops \ {t} : /\ parkedHead'[u] = parkedHead[u]
                                  /\ parkedLocal'[u] = parkedLocal[u]
    BY <1>3 DEF DrainTake, TypeOK, WakeType, ParkType, Waiting
  <2> QED BY <1>0, <1>1, <2>1 DEF WakeNotLost
<1>4. CASE DrainAnswer(t)
  <2>1. /\ drain[t].pc = "answer" /\ drain'[t].pc = "count"
        /\ UNCHANGED <<mail, parkedHead>>
        /\ \A u \in Loops \ {t} : drain'[u] = drain[u]
        /\ parkedLocal'[t] = parkedLocal[t] \ Covered(t)
        /\ \A u \in Loops \ {t} : parkedLocal'[u] = parkedLocal[u]
    BY <1>4 DEF DrainAnswer, TypeOK, WakeType, ParkType
  <2>2. \A r \in parkedLocal'[t] : ~(batches[r[1]].lsn <= durable)
    BY <2>1 DEF Covered
  <2>3. \A r \in parkedHead[t] : r \notin parkedLocal[t]
    BY DEF ParkedOnce
  <2> QED BY <1>0, <1>1, <2>1, <2>2, <2>3 DEF WakeNotLost
<1>5. CASE DrainCount(t)
  <2>1. /\ drain[t].pc = "count" /\ drain'[t].pc = "idle"
        /\ UNCHANGED <<mail, parkedHead, parkedLocal>>
        /\ \A u \in Loops \ {t} : drain'[u] = drain[u]
    BY <1>5 DEF DrainCount, TypeOK, WakeType
  <2> QED BY <1>0, <1>1, <2>1 DEF WakeNotLost
<1> QED BY <1>2, <1>3, <1>4, <1>5 DEF LoopStep

\* The other steps: when the watermark moves, the notifier has not seen it.
LEMMA OtherWakes ==
    ASSUME IInv, Flush \/ CompleteReady \/ Close \/ Closed \/ UNCHANGED vars
    PROVE  WakeNotLost'
<1> USE DEF IInv, Consistent
<1>1. CASE Flush
  <2>1. /\ durable \in Nat /\ durable < durable' /\ durable' \in Nat
        /\ UNCHANGED notifier
    BY <1>1, Lsns DEF Flush, TypeOK
  <2>2. notifier.d \in Nat /\ notifier.lastD \in Nat
    BY Domain DEF TypeOK, NotifierState, Lsn
  <2>3. Seen'[1] # durable'
    BY <2>1, <2>2 DEF Seen, SeenBefore
  <2>4. Seen' # <<durable, parkGen>>'
    BY <2>3
  <2> QED BY <2>4 DEF WakeNotLost
<1>2. CASE CompleteReady
  BY <1>2 DEF CompleteReady, WakeNotLost, Seen, logVars, parkVars, wakeVars
<1>3. CASE Close
  BY <1>3 DEF Close, WakeNotLost
<1>4. CASE UNCHANGED vars
  BY <1>4 DEF vars, WakeNotLost, Seen, logVars, parkVars, wakeVars
<1> QED BY <1>1, <1>2, <1>3, <1>4 DEF Closed

-----------------------------------------------------------------------------
(* Theorems *)

\* The notifier starts with nothing to follow.
LEMMA InitIInv == Init => IInv
<1> SUFFICES ASSUME Init PROVE IInv
  OBVIOUS
<1> USE DEF Init
<1>0. 0 \in Lsn
  BY Domain DEF Lsn
<1>1. LogType /\ LogOrder
  BY <1>0, Domain DEF LogType, LogOrder, Lsn
<1>2. BudgetType /\ ParkType /\ WakeType /\ AnswerType
  BY DEF BudgetType, ParkType, WakeType, AnswerType
<1>3. writer \in [Writers -> WriterState] /\ notifier \in NotifierState
  BY <1>0 DEF WriterState, NotifierState, Owner
<1>4. TypeOK
  BY <1>1, <1>2, <1>3 DEF TypeOK
<1>5. MidPersist /\ AllStamped /\ SeenBefore /\ AckIsDurable
  BY DEF MidPersist, Holds, AllStamped, Waiting, SeenBefore, AckIsDurable
<1>6. InHand = {} /\ \A t \in Loops : Waiting(t) = {} /\ Counting(t) = {}
  BY DEF InHand, Waiting, Counting, CountsOn
<1>7. Budget
  BY <1>6, FS_EmptySet DEF Budget
<1>8. ParkedOnce /\ Registered /\ WakeNotLost
  BY <1>6 DEF ParkedOnce, Registered, WakeNotLost, Waiting
<1>9. CountLag
  <2>1. Cardinality({}) = 0
    BY FS_EmptySet
  <2>2. ASSUME NEW t \in Loops
        PROVE  parkedCount[t] = 0 /\ drain[t].done = 0
    OBVIOUS
  <2> HIDE DEF Init
  <2> QED BY <1>6, <2>1, <2>2 DEF CountLag
<1> QED BY <1>1, <1>4, <1>5, <1>7, <1>8, <1>9 DEF IInv, Consistent

\* Every step keeps the invariant.
LEMMA NextIInv == IInv /\ [Next]_vars => IInv'
<1> SUFFICES ASSUME IInv, [Next]_vars PROVE IInv'
  OBVIOUS
<1> USE DEF IInv
<1>1. ASSUME NEW w \in Writers, WriteDocs(w) \/ WriteFails(w) \/ WriterStep(w)
      PROVE  IInv'
  <2>1. WakeNotLost'
    BY <1>1, WriterWakes
  <2>2. Consistent'
    BY <1>1, SweepKeeps, RefusedKeeps, StampKeeps, ParkPushKeeps, ParkCountKeeps,
       ParkRegisterKeeps, AwaitDurableKeeps, AddBytesKeeps, BumpGenKeeps
       DEF WriterStep
  <2> QED BY <2>1, <2>2
<1>2. ASSUME NotifierStep PROVE IInv'
  BY <1>2, NotifierWakes, NotifierReads, ReleaseKeeps, WakeKeeps DEF NotifierStep
<1>3. ASSUME NEW t \in Loops, LoopStep(t) PROVE IInv'
  BY <1>3, LoopWakes, DrainTakes, DrainAnswers, DrainCounts DEF LoopStep
<1>4. ASSUME Flush \/ CompleteReady \/ Close \/ Closed \/ UNCHANGED vars PROVE IInv'
  BY <1>4, OtherWakes, FlushKeeps, CompleteReadyKeeps, CloseKeeps
<1> QED BY <1>1, <1>2, <1>3, <1>4 DEF Next

\* The invariant holds in every reachable state.
THEOREM Invariant == Spec => []IInv
  BY InitIInv, NextIInv, PTL DEF Spec

\* A durable write is acknowledged only when its record is on disk, whichever
\* thread answers it (executePersist, DrainDurable, durableLoop).
THEOREM AcksAreDurable == Spec => []AckIsDurable
<1>1. IInv => AckIsDurable
  BY DEF IInv, Consistent
<1> QED BY <1>1, Invariant, PTL

\* queuedBytes_ is the batches whose records the log has still to cover, and
\* nothing else (executePersist, AddBytes, release).
THEOREM BudgetIsExact == Spec => []BudgetBoundsLog
<1>1. IInv => BudgetBoundsLog
  BY DEF IInv, Consistent, Budget, BudgetBoundsLog
<1> QED BY <1>1, Invariant, PTL

\* No parked request is forgotten between Park, wake and DrainDurable.
THEOREM ParkedNotForgotten == Spec => []WakeNotLost
<1>1. IInv => WakeNotLost
  BY DEF IInv
<1> QED BY <1>1, Invariant, PTL
=============================================================================
