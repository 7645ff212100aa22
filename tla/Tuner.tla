-------------------------------- MODULE Tuner ---------------------------------
(***************************************************************************)
(* The thread tuner: once per decision window it may change the size of    *)
(* one pool, waits for the change to take effect, measures, and keeps the  *)
(* change or undoes it; a direction that failed is retried with a smaller  *)
(* step and then backs off.  The pools of one role are one per shard, and  *)
(* the tuner sees them as a single pool (ShardedPoolGroup).                *)
(* (src/server/tuner.cc, src/server/tuner.h, src/server/main.cc)           *)
(*                                                                         *)
(* Throughput, noise and busy fractions are inputs: a step takes whether   *)
(* there is load, which band a busy fraction is in, and how a comparison   *)
(* of measurements comes out, in every combination the code's formulas     *)
(* allow.  Sizes, steps, caps, back-offs and window counts are exact.      *)
(***************************************************************************)
EXTENDS Integers, Sequences, FiniteSets, FiniteSetsExt

CONSTANTS
    Threads,        \* per pool: the threads asked for (--readers, --writers)
    Shards,         \* per pool: how many pools it is made of
    Bounds,         \* per pool: [min, max]
    KeepsOne,       \* pools whose Shrink keeps a thread (WriterPool, IOPool)
    Async,          \* pools whose changes take effect later (IOPool)
    SettleWindows, MaxSettleWindows,        \* windows of TunerConfig
    MeasureWindows,                         \* lengths a measurement may have
    FirstBackoff, MaxBackoff, RampAfterKept,
    LevelWindows    \* kLevelWindows

ASSUME TunerNumbers ==
    /\ {SettleWindows, MaxSettleWindows, LevelWindows} \subseteq Nat
    /\ FirstBackoff \in Nat \ {0} /\ MaxBackoff \in Nat /\ FirstBackoff <= MaxBackoff
    /\ MeasureWindows \subseteq Nat \ {0} /\ RampAfterKept \in Nat
    /\ \E m \in MeasureWindows : \A n \in MeasureWindows : m >= n

Pool == DOMAIN Threads
ASSUME TunerPools ==
    /\ Threads \in Seq(Nat) /\ Threads # <<>>
    /\ DOMAIN Shards = Pool /\ DOMAIN Bounds = Pool
    /\ \A p \in Pool : Shards[p] \in Nat \ {0}
    /\ KeepsOne \subseteq Pool /\ Async \subseteq Pool

\* The bucket's constructor gives each shard a thread at least.
Made(p) == Max({Threads[p], Shards[p]})

\* main: a pool is limited from below by one thread per shard, or by what was
\* asked for when it is not to be tuned.
ASSUME TunerBounds ==
    \A p \in Pool : /\ Bounds[p].min \in Nat /\ Bounds[p].max \in Nat
                    /\ Bounds[p].min <= Made(p)

VARIABLES
    size,           \* pool -> shard -> threads (live_)
    ps,             \* pool -> PoolState
    levels,         \* windows in steadyRecent_, up to LevelWindows
    nextPool        \* nextPool_, whose turn it is

vars == <<size, ps, levels, nextPool>>

Way == {"grow", "shrink"}
Direction == [cap : Nat, backoff : 0..MaxBackoff, next : 0..MaxBackoff,
              kept : 0..RampAfterKept + 1, gained : BOOLEAN]
PoolState == [trial : Way \cup {"none"}, before : Nat,
              measure : MeasureWindows, measured : Nat, since : Nat,
              settled : Nat, grew : BOOLEAN, dir : [Way -> Direction]]

TypeOK ==
    /\ \A p \in Pool : size[p] \in [1..Shards[p] -> Nat]
    /\ ps \in [Pool -> PoolState]
    /\ levels \in 0..LevelWindows /\ nextPool \in Pool

\* The bucket's constructor divides the threads among the shards.
Split(n, s) == [i \in 1..s |-> Max({1, n \div s})
                               + (IF n > s /\ i <= n % s THEN 1 ELSE 0)]

Fresh == [cap |-> 0, backoff |-> 0, next |-> 0, kept |-> 0, gained |-> FALSE]
Init ==
    /\ size = [p \in Pool |-> Split(Threads[p], Shards[p])]
    /\ ps = [p \in Pool |->
               [trial |-> "none", before |-> 0, measured |-> 0, since |-> 0,
                measure |-> Min(MeasureWindows), settled |-> 0,
                grew |-> FALSE, dir |-> [w \in Way |-> Fresh]]]
    /\ levels = 0 /\ nextPool = 1

Total(q) == LET sum[i \in 0..Len(q)] == IF i = 0 THEN 0 ELSE sum[i-1] + q[i]
            IN  sum[Len(q)]
Size(p)  == Total(size[p])
Step(p)  == Shards[p]
RoundToStep(n, p) == (n \div Step(p)) * Step(p)

---------------------------------------------------------------------------
(* ShardedPoolGroup, over ReaderPool, WriterPool and IOPool.               *)

Share(p, n) == Max({1, n \div Shards[p]})

GrowPool(p, n) == [i \in 1..Shards[p] |-> size[p][i] + Share(p, n)]

\* What a pool of one shard gives up: WriterPool and IOPool keep a thread,
\* ReaderPool does not.
ShrinkBy(p, n, i) ==
    Min({Share(p, n), IF p \in KeepsOne THEN size[p][i] - 1 ELSE size[p][i]})

ShrinkPool(p, n) == [i \in 1..Shards[p] |-> size[p][i] - ShrinkBy(p, n, i)]

\* Mutant: an undone change is undone by one step.
UndoStep(p) == IF ps[p].trial = "grow" THEN ShrinkPool(p, Step(p))
               ELSE GrowPool(p, Step(p))

\* A change that is not kept is undone.
Undo(p) == IF ps[p].trial = "grow" THEN ShrinkPool(p, Size(p) - ps[p].before)
           ELSE GrowPool(p, ps[p].before - Size(p))

---------------------------------------------------------------------------
(* The end of a window: decide and closeWindow.                            *)

Steady == \A p \in Pool : ps[p].trial = "none"

\* The longest a trial may take: it waits for the pool to settle or for load
\* up to maxSettleWindows, and is then settled and measured without a gap.
\* (windowsSinceChange counts on; above these values nobody tells.)
LongestTrial == MaxSettleWindows + SettleWindows + Max(MeasureWindows)

\* closeWindow: back-offs count down, and end early when the load has moved.
CloseWindow(p, moved) ==
    LET since == Min({ps[p].since + 1,
                      IF ps[p].trial = "none" THEN 2 ELSE LongestTrial + 1})
        Down(d, w) ==
            IF d.backoff > 0 /\ Steady /\ since >= 2 /\ <<p, w>> \in moved
              THEN [d EXCEPT !.backoff = 0, !.next = 0]
              ELSE [d EXCEPT !.backoff = Max({0, @ - 1})]
    IN  [ps[p] EXCEPT !.since = since,
                      !.dir = [w \in Way |-> Down(ps[p].dir[w], w)]]

Waiting == {d \in Pool \X Way : ps[d[1]].dir[d[2]].backoff > 0}

\* The history of steady windows: a window without load clears it, a step
\* down of the load starts it again.
Recent(load) ==
    IF ~Steady THEN {levels}
    ELSE IF ~load THEN {0}
    ELSE {Min({levels + 1, LevelWindows}), Min({1, LevelWindows})}

\* A window that changes no pool: nothing is tried while the history is short
\* or throughput moves, or no pool has a step to try.
Rest ==
    /\ Steady
    /\ \E load \in BOOLEAN, moved \in SUBSET Waiting :
         /\ levels' \in Recent(load)
         /\ ps' = [p \in Pool |-> CloseWindow(p, moved)]
    /\ UNCHANGED <<size, nextPool>>

\* A window of the trial of p, which ends in state s.
TrialWindow(p, s) ==
    /\ ps' = [[q \in Pool |-> CloseWindow(q, {})] EXCEPT ![p] = s]
    /\ UNCHANGED <<levels, nextPool>>

\* The pool has not settled yet.
NotSettled(p) ==
    LET s == CloseWindow(p, {}) IN
    /\ s.trial # "none" /\ p \in Async
    /\ s.settled = 0 /\ s.since < MaxSettleWindows
    /\ TrialWindow(p, s)
    /\ UNCHANGED size

\* Mutant: a trial without load is measured again for ever.
NoLoadWaits(p) ==
    LET s == CloseWindow(p, {}) IN
    /\ s.trial # "none"
    /\ TrialWindow(p, [s EXCEPT !.measured = 0, !.settled = 0])
    /\ UNCHANGED size

\* The state of a pool whose trial is over.  (What only the next trial sets
\* again and nobody reads before is cleared here.)
Closed(s) == [s EXCEPT !.trial = "none", !.before = 0, !.measured = 0,
                       !.since = 0, !.settled = 0]

\* No load: measure again when it returns, or undo the change.
NoLoad(p) ==
    LET s == CloseWindow(p, {})
        cleared == [s EXCEPT !.measured = 0, !.settled = 0]
    IN
    /\ s.trial # "none"
    /\ IF s.since > MaxSettleWindows
         THEN /\ size' = [size EXCEPT ![p] = Undo(p)]
              /\ TrialWindow(p, Closed(cleared))
         ELSE TrialWindow(p, cleared) /\ UNCHANGED size

Measured(s) == [s EXCEPT !.settled = Min({@ + 1, SettleWindows + 1}),
                         !.measured = @ + (IF s.settled >= SettleWindows
                                           THEN 1 ELSE 0)]

Measure(p) ==
    LET s == Measured(CloseWindow(p, {})) IN
    /\ s.trial # "none" /\ s.measured < s.measure
    /\ TrialWindow(p, s)
    /\ UNCHANGED size

\* judge: keep the change, or undo it and retry at half the step; once the
\* smallest step has failed, back off.  A kept change may have gained.
Kept(d, gained) ==
    [d EXCEPT !.cap = 0, !.next = 0, !.gained = gained,
              !.kept = Min({@ + 1, RampAfterKept + 1})]

Reverted(d, p, delta) ==
    LET next == IF d.next = 0 THEN FirstBackoff ELSE d.next IN
    IF delta > Step(p)
      THEN [d EXCEPT !.kept = 0, !.gained = FALSE,
                     !.cap = Max({Step(p), RoundToStep(delta \div 2, p)})]
      ELSE [d EXCEPT !.kept = 0, !.gained = FALSE, !.cap = Step(p),
                     !.backoff = next, !.next = Min({2 * next, MaxBackoff})]

\* The verdicts on a change, over every throughput it may have measured: a
\* grow is kept only for a gain, a shrink also without one.
Verdicts(w) == IF w = "grow" THEN {"gained", "reverted"}
               ELSE {"gained", "held", "reverted"}

Judge(p) ==
    LET s == Measured(CloseWindow(p, {}))
        w == s.trial
        delta == IF w = "grow" THEN Size(p) - s.before ELSE s.before - Size(p)
        done(d) == [Closed(s) EXCEPT !.grew = (w = "grow"), !.dir[w] = d]
    IN
    /\ s.trial # "none" /\ s.measured >= s.measure
    /\ \E v \in Verdicts(w) :
         IF v = "reverted"
           THEN /\ TrialWindow(p, done(Reverted(s.dir[w], p, delta)))
                /\ size' = [size EXCEPT ![p] = Undo(p)]
           ELSE /\ TrialWindow(p, done(Kept(s.dir[w], v = "gained")))
                /\ UNCHANGED size

---------------------------------------------------------------------------
(* startTrial: which way, how far, and which pool.                         *)

\* Bands of the busy fraction: below idleBusy and up to highBusy, rampBusy,
\* peggedBusy and 1.  (Below idleBusy is no case of its own here: it only
\* lets judge keep a shrink.)
Band == {"low", "high", "ramp", "pegged"}

Probes(s, p, busy) ==
    /\ busy # "low" /\ s.grew /\ ~s.dir["grow"].gained
    /\ s.dir["shrink"].backoff = 0 /\ Size(p) > Bounds[p].min
WantGrow(s, p, busy) ==
    /\ ~Probes(s, p, busy) /\ busy # "low"
    /\ s.dir["grow"].backoff = 0 /\ Size(p) < Bounds[p].max
WantShrink(s, p, busy) ==
    /\ ~WantGrow(s, p, busy)
    /\ s.dir["shrink"].backoff = 0 /\ Size(p) > Bounds[p].min
    /\ busy = "low" \/ s.dir["grow"].backoff > 0 \/ Probes(s, p, busy)

\* A quarter of the pool, more while every step is kept, less after a failure.
Quarter(p) == Size(p) \div 4
Wanted(s, p, w, busy) ==
    LET d == s.dir[w]
        first == Max({Step(p), RoundToStep(Quarter(p), p)})
        ramps == /\ d.kept >= RampAfterKept
                 /\ IF w = "grow" THEN busy \in {"ramp", "pegged"} ELSE d.gained
        mult == IF w = "grow" /\ d.kept >= RampAfterKept + 1 THEN 4 ELSE 2
        n == IF ramps THEN Max({first, RoundToStep(Quarter(p) * mult, p)})
             ELSE first
    IN  IF d.cap > 0 THEN Min({n, d.cap}) ELSE n

\* Mutant: the ramp does not stop at the bound of the pool.
GrowUnbounded(s, p, busy) == {Wanted(s, p, "grow", busy)}

GrowSizes(s, p, busy) ==
    {Min({Wanted(s, p, "grow", busy), Bounds[p].max - Size(p)})}

\* A shrink that could ask to grow again is cut step by step, or not tried.
ShrinkSizes(s, p, busy) ==
    LET d == s.dir["shrink"]
        m == Min({Wanted(s, p, "shrink", busy), Size(p) - Bounds[p].min})
        n == IF busy = "pegged" /\ ~d.gained
               THEN Min({m, RoundToStep(Quarter(p), p)}) ELSE m
        guarded == /\ s.dir["grow"].backoff = 0 /\ ~d.gained
                   /\ ~Probes(s, p, busy)
    IN  IF guarded THEN {k \in 0..n : k = 0 \/ (n - k) % Step(p) = 0}
                   ELSE {n}

\* What startTrial can make of pool p in this window, over the busy fractions
\* it may have: a way and a number of threads, 0 for no trial.
Trials(s, p) ==
    UNION {CASE WantGrow(s, p, busy) -> {"grow"} \X GrowSizes(s, p, busy)
             [] WantShrink(s, p, busy) -> {"shrink"} \X ShrinkSizes(s, p, busy)
             [] OTHER -> {<<"none", 0>>} : busy \in Band}

\* hasMomentum: the last trial gained and there is room to go on.
Momentum(s, p) ==
    IF s.grew
      THEN /\ s.dir["grow"].gained /\ s.dir["grow"].backoff = 0
           /\ Size(p) < Bounds[p].max
      ELSE /\ s.dir["shrink"].gained /\ s.dir["shrink"].backoff = 0
           /\ Size(p) > Bounds[p].min

Rank(p) == (p - nextPool) % Cardinality(Pool)

\* The state of a pool with a trial of way w, to be measured over m windows.
Opened(s, p, w, m) == [s EXCEPT !.trial = w, !.before = Size(p), !.measure = m,
                                !.measured = 0, !.since = 0, !.settled = 0]

\* Pool p has a step to try, and takes it.
Try(s, p) ==
    \E t \in Trials(s[p], p), m \in MeasureWindows :
        /\ t[2] > 0
        /\ ps' = [s EXCEPT ![p] = Opened(s[p], p, t[1], m)]
        /\ size' = [size EXCEPT ![p] = IF t[1] = "grow" THEN GrowPool(p, t[2])
                                                        ELSE ShrinkPool(p, t[2])]

\* A trial starts: on the first pool with momentum, else on the first in turn;
\* the pools before it have nothing to try.
StartTrial ==
    /\ Steady
    /\ levels' \in Recent(TRUE) /\ levels' = LevelWindows
    /\ \E moved \in SUBSET Waiting, p \in Pool :
         LET s == [q \in Pool |-> CloseWindow(q, moved)]
             eager(q)  == Momentum(s[q], q) /\ s[q].since >= 1
             passes(q) == \E t \in Trials(s[q], q) : t[2] = 0
         IN
         /\ \/ /\ eager(p)
               /\ \A q \in 1..p-1 : eager(q) => passes(q)
               /\ UNCHANGED nextPool
            \/ /\ ~eager(p) /\ s[p].since >= 2
               /\ \A q \in Pool : eager(q) => passes(q)
               /\ \A q \in Pool : s[q].since >= 2 /\ Rank(q) < Rank(p) =>
                                     passes(q)
               /\ nextPool' = (p % Cardinality(Pool)) + 1
         /\ Try(s, p)

InTrial == \E p \in Pool : NotSettled(p) \/ NoLoad(p) \/ Measure(p) \/ Judge(p)

Next == Rest \/ StartTrial \/ InTrial

Spec == Init /\ [][Next]_vars

----
(* Properties.                                                             *)

\* A pool stays within its bounds but for the rounding of ShardedPoolGroup,
\* with every step, ramp, undone and abandoned change: a change is at least a
\* thread per shard, so a size that is no whole number of threads per shard
\* passes a bound, by less than that below and by no more than that above (and
\* a shard of readers may lose its last thread).  No shard of a pool has two
\* threads more than another, and every writer shard keeps a thread.
WithinBounds ==
    /\ TypeOK
    /\ \A p \in Pool :
        /\ Size(p) > Bounds[p].min - Step(p)
        /\ Size(p) <= Max({Bounds[p].max, Made(p)}) + Step(p)
        /\ \A i, j \in 1..Shards[p] : size[p][i] <= size[p][j] + 1
        /\ p \in KeepsOne => \A i \in 1..Shards[p] : size[p][i] > 0

\* A change that is not kept is undone (judge, and decide without load): a
\* grow exactly, and a shrink exactly when it found equal shards and took
\* threads from them.  Otherwise it took less than it asked for and leaves the
\* size it found rounded to threads per shard, down or up.
UndoRestores ==
    [][\A p \in Pool : ps[p].trial # "none" /\ ps'[p].trial = "none" =>
         LET before == ps[p].before
             after  == Total(size'[p])
             rough  == /\ ps[p].trial = "shrink"
                       /\ before % Step(p) # 0 \/ Size(p) = before
         IN  \/ after \in {Size(p), before}
             \/ rough /\ after - RoundToStep(before, p) \in {0, Step(p)}]_vars

\* A trial ends within a bounded number of windows, whatever the load does and
\* however long the pool takes to settle; only one is under way (decide).
TrialBounded ==
    /\ \A p \in Pool : ps[p].trial # "none" => ps[p].since < LongestTrial
    /\ \A p, q \in Pool : ps[p].trial # "none" /\ ps[q].trial # "none" => p = q
=============================================================================
