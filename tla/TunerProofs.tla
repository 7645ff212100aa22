----------------------------- MODULE TunerProofs -----------------------------
(***************************************************************************)
(* Theorems about Tuner, for every choice of pools, shards, bounds, window *)
(* lengths and back-offs: one trial at a time, every trial ends, sizes     *)
(* stay within their bounds but for a thread per shard, and a change that  *)
(* is not kept is undone but for the rounding to threads per shard.        *)
(***************************************************************************)
EXTENDS Tuner, FiniteSetTheorems, FunctionTheorems, TLAPS

-----------------------------------------------------------------------------
(* The inductive invariant *)

\* A PoolState has its fields, and its window counts are numbers.
Fields(s) ==
    s \in [trial : {s.trial}, before : {s.before}, measure : {s.measure},
           measured : Nat, since : Nat, settled : Nat, grew : {s.grew},
           dir : {s.dir}]

\* The windows since load was last missing: they are counted by settled until
\* the pool has settled and by measured from then on.
Progress(s) == IF s.measured = 0 THEN s.settled ELSE SettleWindows + s.measured

\* A trial counts its windows without a gap from a window that came no later
\* than maxSettleWindows, and is judged when it has measured enough.
OnTime(s) ==
    /\ s.measured = 0 => s.settled <= SettleWindows
    /\ s.measured # 0 => s.settled = SettleWindows + 1
    /\ s.measure \in MeasureWindows /\ s.measured < s.measure
    /\ s.since <= MaxSettleWindows + Progress(s)

Running(p) == ps[p].trial # "none"

TrialInv ==
    /\ ps = [p \in Pool |-> ps[p]]
    /\ \A p \in Pool : Fields(ps[p]) /\ (Running(p) => OnTime(ps[p]))
    /\ \A p, q \in Pool : Running(p) /\ Running(q) => p = q

-----------------------------------------------------------------------------
(* Numbers *)

\* The larger of two numbers.
LEMMA MaxOfTwo ==
    ASSUME NEW a \in Int, NEW b \in Int
    PROVE  Max({a, b}) = IF a >= b THEN a ELSE b
BY DEF Max

\* The smaller of two numbers.
LEMMA MinOfTwo ==
    ASSUME NEW a \in Int, NEW b \in Int
    PROVE  Min({a, b}) = IF a <= b THEN a ELSE b
BY DEF Min

\* The longest measurement is one of them, and none is longer.
LEMMA LongestMeasurement ==
    /\ Max(MeasureWindows) \in Nat \ {0}
    /\ \A n \in MeasureWindows : n <= Max(MeasureWindows)
<1>1. PICK m \in MeasureWindows : \A n \in MeasureWindows : m >= n
  BY TunerNumbers
<1>2. Max(MeasureWindows) \in MeasureWindows
      /\ \A n \in MeasureWindows : Max(MeasureWindows) >= n
  BY <1>1 DEF Max
<1> QED BY <1>2, TunerNumbers

\* The bound on a trial is a number of windows.
LEMMA LongestIsNumber == LongestTrial \in Nat
BY LongestMeasurement, TunerNumbers DEF LongestTrial

-----------------------------------------------------------------------------
(* Windows *)

\* closeWindow counts the window and touches neither the trial nor its
\* measurement.
LEMMA CloseWindowKeeps ==
    ASSUME TrialInv, NEW p \in Pool, NEW moved
    PROVE  LET s == CloseWindow(p, moved) IN
           /\ Fields(s)
           /\ s.trial = ps[p].trial /\ s.measure = ps[p].measure
           /\ s.measured = ps[p].measured /\ s.settled = ps[p].settled
           /\ s.since <= ps[p].since + 1
<1>0. Fields(ps[p])
  BY DEF TrialInv
<1>1. PICK c : c = Min({ps[p].since + 1,
                        IF ps[p].trial = "none" THEN 2 ELSE LongestTrial + 1})
  OBVIOUS
<1>2. ps[p].since \in Nat
  BY <1>0 DEF Fields
<1>3. c \in Nat /\ c <= ps[p].since + 1
  BY <1>1, <1>2, MinOfTwo, LongestIsNumber
<1>4. PICK x : CloseWindow(p, moved) = [ps[p] EXCEPT !.since = c, !.dir = x]
  BY <1>1 DEF CloseWindow
<1> QED BY <1>0, <1>3, <1>4 DEF Fields

\* A window that counts: settle first, then measure.
LEMMA MeasuredCounts ==
    ASSUME NEW s, Fields(s)
    PROVE  LET m == Measured(s) IN
           /\ Fields(m)
           /\ m.trial = s.trial /\ m.measure = s.measure /\ m.since = s.since
           /\ m.settled = IF s.settled + 1 <= SettleWindows + 1
                            THEN s.settled + 1 ELSE SettleWindows + 1
           /\ m.measured = IF s.settled >= SettleWindows
                             THEN s.measured + 1 ELSE s.measured
<1>1. s.settled \in Nat /\ s.measured \in Nat
  BY DEF Fields
<1>2. PICK c : c = Min({s.settled + 1, SettleWindows + 1})
  OBVIOUS
<1>3. c = IF s.settled + 1 <= SettleWindows + 1
            THEN s.settled + 1 ELSE SettleWindows + 1
  BY <1>1, <1>2, MinOfTwo, TunerNumbers
<1>4. PICK k : k = s.measured + (IF s.settled >= SettleWindows THEN 1 ELSE 0)
  OBVIOUS
<1>5. Measured(s) = [s EXCEPT !.settled = c, !.measured = k]
  BY <1>2, <1>4 DEF Measured, Fields
<1>6. c \in Nat /\ k \in Nat
  BY <1>1, <1>3, <1>4, TunerNumbers
<1>7. LET m == Measured(s) IN
      /\ Fields(m) /\ m.trial = s.trial /\ m.measure = s.measure
      /\ m.since = s.since /\ m.settled = c /\ m.measured = k
  BY <1>5, <1>6 DEF Fields
<1>8. k = IF s.settled >= SettleWindows THEN s.measured + 1 ELSE s.measured
  BY <1>1, <1>4
<1> QED BY <1>3, <1>7, <1>8

\* A trial that ends or starts changes fields only.
LEMMA ClearedFields ==
    ASSUME NEW s, Fields(s)
    PROVE  LET c == [s EXCEPT !.measured = 0, !.settled = 0] IN
           /\ Fields(c) /\ c.trial = s.trial /\ c.measure = s.measure
           /\ c.measured = 0 /\ c.settled = 0 /\ c.since = s.since
           /\ Fields(Closed(s)) /\ Closed(s).trial = "none"
BY DEF Fields, Closed

\* A window that no trial of another pool is in: the others only close it, and
\* p ends it in state s.
LEMMA TrialWindowKeeps ==
    ASSUME TrialInv, NEW p \in Pool, Running(p), NEW s, TrialWindow(p, s),
           Fields(s), s.trial # "none" => OnTime(s)
    PROVE  TrialInv'
<1> DEFINE f == [q \in Pool |-> CloseWindow(q, {})]
<1>1. ps' = [f EXCEPT ![p] = s]
  BY DEF TrialWindow
<1>2. ps' = [q \in Pool |-> IF q = p THEN s ELSE CloseWindow(q, {})]
  BY <1>1
<1>3. ASSUME NEW q \in Pool, q # p
      PROVE  Fields(ps'[q]) /\ ps'[q].trial = "none"
  <2>1. ps[q].trial = "none"
    BY <1>3 DEF TrialInv, Running
  <2> QED BY <1>2, <1>3, <2>1, CloseWindowKeeps
<1>4. ps'[p] = s
  BY <1>2
<1>5. ps' = [q \in Pool |-> ps'[q]]
  BY <1>2
<1>6. \A q \in Pool : Fields(ps'[q]) /\ (ps'[q].trial # "none" => OnTime(ps'[q]))
  BY <1>3, <1>4
<1>7. \A q, r \in Pool : ps'[q].trial # "none" /\ ps'[r].trial # "none" => q = r
  BY <1>3
<1> QED BY <1>5, <1>6, <1>7 DEF TrialInv, Running, OnTime, Fields, Progress

-----------------------------------------------------------------------------
(* Steps *)

\* Waiting for the pool ends before maxSettleWindows (decide).
LEMMA NotSettledKeeps ==
    ASSUME TrialInv, NEW p \in Pool, NotSettled(p)
    PROVE  TrialInv'
<1> DEFINE s == CloseWindow(p, {})
<1>1. /\ s.trial # "none" /\ s.settled = 0 /\ s.since < MaxSettleWindows
      /\ TrialWindow(p, s)
  BY DEF NotSettled
<1>2. /\ Fields(s) /\ s.trial = ps[p].trial /\ s.measure = ps[p].measure
      /\ s.measured = ps[p].measured /\ s.settled = ps[p].settled
  BY CloseWindowKeeps
<1>3. Running(p) /\ OnTime(ps[p])
  BY <1>1, <1>2 DEF Running, TrialInv
<1>4. s.measured = 0
  BY <1>1, <1>2, <1>3, TunerNumbers DEF OnTime
<1>5. OnTime(s)
  BY <1>1, <1>2, <1>3, <1>4, TunerNumbers DEF OnTime, Progress, Fields
<1> HIDE DEF s
<1> QED BY <1>1, <1>2, <1>3, <1>5, TrialWindowKeeps

\* A window without load starts the count again, or ends the trial (decide).
LEMMA NoLoadKeeps ==
    ASSUME TrialInv, NEW p \in Pool, NoLoad(p)
    PROVE  TrialInv'
<1> DEFINE s == CloseWindow(p, {})
           c == [s EXCEPT !.measured = 0, !.settled = 0]
           e == Closed(c)
<1>1. /\ s.trial # "none"
      /\ \/ s.since > MaxSettleWindows /\ TrialWindow(p, e)
         \/ ~(s.since > MaxSettleWindows) /\ TrialWindow(p, c)
  BY DEF NoLoad
<1>2. /\ Fields(s) /\ s.trial = ps[p].trial /\ s.measure = ps[p].measure
  BY CloseWindowKeeps
<1>3. Running(p) /\ OnTime(ps[p])
  BY <1>1, <1>2 DEF Running, TrialInv
<1> HIDE DEF s
<1>4. /\ Fields(c) /\ c.trial = s.trial /\ c.measure = s.measure
      /\ c.measured = 0 /\ c.settled = 0 /\ c.since = s.since
  BY <1>2, ClearedFields
<1> HIDE DEF c
<1>5. Fields(e) /\ e.trial = "none"
  BY <1>4, ClearedFields
<1> HIDE DEF e
<1>6. CASE s.since > MaxSettleWindows
  BY <1>1, <1>3, <1>5, <1>6, TrialWindowKeeps
<1>7. CASE ~(s.since > MaxSettleWindows)
  <2>1. c.measure \in Nat \ {0} /\ c.measure \in MeasureWindows
    BY <1>2, <1>3, <1>4, TunerNumbers DEF OnTime
  <2>2. s.since \in Nat
    BY <1>2 DEF Fields
  <2>3. OnTime(c)
    BY <1>4, <1>7, <2>1, <2>2, TunerNumbers DEF OnTime, Progress
  <2> QED BY <1>1, <1>3, <1>4, <1>7, <2>3, TrialWindowKeeps
<1> QED BY <1>6, <1>7

\* A window that settles or measures adds one to both sides of the bound.
LEMMA MeasuredOnTime ==
    ASSUME TrialInv, NEW p \in Pool, NEW m, m = Measured(CloseWindow(p, {})),
           m.trial # "none"
    PROVE  /\ Running(p) /\ Fields(m)
           /\ m.measured < m.measure => OnTime(m)
<1> DEFINE s == CloseWindow(p, {})
<1>1. /\ Fields(s) /\ s.trial = ps[p].trial /\ s.measure = ps[p].measure
      /\ s.measured = ps[p].measured /\ s.settled = ps[p].settled
      /\ s.since <= ps[p].since + 1
  BY CloseWindowKeeps
<1> HIDE DEF s
<1>2. /\ Fields(m)
      /\ m.trial = s.trial /\ m.measure = s.measure /\ m.since = s.since
      /\ m.settled = IF s.settled + 1 <= SettleWindows + 1
                       THEN s.settled + 1 ELSE SettleWindows + 1
      /\ m.measured = IF s.settled >= SettleWindows
                        THEN s.measured + 1 ELSE s.measured
  BY <1>1, MeasuredCounts DEF s
<1>3. Running(p) /\ OnTime(ps[p]) /\ Fields(ps[p])
  BY <1>1, <1>2 DEF Running, TrialInv
<1>4. m.measured < m.measure => OnTime(m)
  BY <1>1, <1>2, <1>3, TunerNumbers DEF OnTime, Progress, Fields
<1> QED BY <1>2, <1>3, <1>4

\* A measurement goes on while it is too short.
LEMMA MeasureKeeps ==
    ASSUME TrialInv, NEW p \in Pool, Measure(p)
    PROVE  TrialInv'
<1> DEFINE m == Measured(CloseWindow(p, {}))
<1>1. m.trial # "none" /\ m.measured < m.measure /\ TrialWindow(p, m)
  BY DEF Measure
<1>2. Running(p) /\ Fields(m) /\ OnTime(m)
  BY <1>1, MeasuredOnTime
<1> HIDE DEF m
<1> QED BY <1>1, <1>2, TrialWindowKeeps

\* judge ends the trial.
LEMMA JudgeKeeps ==
    ASSUME TrialInv, NEW p \in Pool, Judge(p)
    PROVE  TrialInv'
<1> DEFINE m == Measured(CloseWindow(p, {}))
           Done(d) == [Closed(m) EXCEPT !.grew = (m.trial = "grow"),
                                        !.dir[m.trial] = d]
<1>1. m.trial # "none" /\ \E d : TrialWindow(p, Done(d))
  BY DEF Judge
<1>2. Running(p) /\ Fields(m)
  BY <1>1, MeasuredOnTime
<1>3. PICK d : TrialWindow(p, Done(d))
  BY <1>1
<1> HIDE DEF m
<1>4. PICK c : c = Closed(m) /\ Fields(c) /\ c.trial = "none"
  BY <1>2, ClearedFields
<1>5. PICK z : Done(d) = [c EXCEPT !.grew = (m.trial = "grow"), !.dir = z]
  BY <1>4 DEF Fields
<1>6. Fields(Done(d)) /\ Done(d).trial = "none"
  BY <1>4, <1>5 DEF Fields
<1> HIDE DEF Done
<1> QED BY <1>2, <1>3, <1>6, TrialWindowKeeps

\* A window without a trial: nothing but counts.
LEMMA RestKeeps ==
    ASSUME TrialInv, Rest
    PROVE  TrialInv'
<1>1. PICK moved : ps' = [p \in Pool |-> CloseWindow(p, moved)]
  BY DEF Rest
<1>2. \A p \in Pool : Fields(ps'[p]) /\ ps'[p].trial = "none"
  <2> TAKE p \in Pool
  <2>1. ps[p].trial = "none"
    BY DEF Rest, Steady
  <2> QED BY <1>1, <2>1, CloseWindowKeeps
<1>3. ps' = [p \in Pool |-> ps'[p]]
  BY <1>1
<1> QED BY <1>2, <1>3 DEF TrialInv, Running, OnTime, Fields, Progress

\* A trial starts only when none is under way.
LEMMA StartTrialKeeps ==
    ASSUME TrialInv, StartTrial
    PROVE  TrialInv'
<1> DEFINE F(moved) == [q \in Pool |-> CloseWindow(q, moved)]
<1>0. PICK moved \in SUBSET Waiting, p \in Pool : Try(F(moved), p)
  BY Zenon DEF StartTrial
<1>1. PICK t \in Trials(F(moved)[p], p), m \in MeasureWindows :
          ps' = [F(moved) EXCEPT ![p] = Opened(F(moved)[p], p, t[1], m)]
  BY <1>0 DEF Try
<1> DEFINE s == CloseWindow(p, moved)
           o == Opened(s, p, t[1], m)
<1>2. ps' = [q \in Pool |-> IF q = p THEN o ELSE CloseWindow(q, moved)]
  BY <1>1
<1>3. ASSUME NEW q \in Pool, q # p
      PROVE  Fields(ps'[q]) /\ ps'[q].trial = "none"
  <2>1. ps[q].trial = "none"
    BY DEF StartTrial, Steady
  <2> QED BY <1>2, <1>3, <2>1, CloseWindowKeeps
<1>4. Fields(s)
  BY CloseWindowKeeps
<1> HIDE DEF s
<1>6. /\ Fields(o) /\ o.trial = t[1] /\ o.measure = m
      /\ o.measured = 0 /\ o.since = 0 /\ o.settled = 0
  BY <1>4 DEF Opened, Fields
<1>7. ps'[p] = o
  BY <1>2
<1> HIDE DEF o
<1>8. Fields(o) /\ OnTime(o)
  BY <1>6, TunerNumbers DEF Fields, OnTime, Progress
<1>9. ps' = [q \in Pool |-> ps'[q]]
  BY <1>2
<1>10. \A q \in Pool : Fields(ps'[q]) /\ (ps'[q].trial # "none" => OnTime(ps'[q]))
  BY <1>3, <1>7, <1>8
<1>11. \A q, r2 \in Pool : ps'[q].trial # "none" /\ ps'[r2].trial # "none" => q = r2
  BY <1>3
<1> QED BY <1>9, <1>10, <1>11 DEF TrialInv, Running, OnTime, Fields, Progress

-----------------------------------------------------------------------------
(* Theorems *)

\* The tuner keeps count of a trial's windows without a gap, through waiting,
\* missing load and measuring (decide, closeWindow).
THEOREM TrialInvariant == Spec => []TrialInv
<1>1. Init => TrialInv
  <2> SUFFICES ASSUME Init PROVE TrialInv
    OBVIOUS
  <2>1. ps = [p \in Pool |->
               [trial |-> "none", before |-> 0, measured |-> 0, since |-> 0,
                measure |-> Min(MeasureWindows), settled |-> 0,
                grew |-> FALSE, dir |-> [w \in Way |-> Fresh]]]
    BY DEF Init
  <2>2. \A p \in Pool : Fields(ps[p]) /\ ps[p].trial = "none"
    BY <2>1 DEF Fields
  <2> QED BY <2>1, <2>2 DEF TrialInv, Running
<1>2. TrialInv /\ [Next]_vars => TrialInv'
  <2> SUFFICES ASSUME TrialInv, [Next]_vars PROVE TrialInv'
    OBVIOUS
  <2>1. CASE Rest
    BY <2>1, RestKeeps
  <2>2. CASE StartTrial
    BY <2>2, StartTrialKeeps
  <2>3. CASE InTrial
    BY <2>3, NotSettledKeeps, NoLoadKeeps, MeasureKeeps, JudgeKeeps DEF InTrial
  <2>4. CASE UNCHANGED vars
    BY <2>4 DEF vars, TrialInv, Running, OnTime, Fields, Progress
  <2> QED BY <2>1, <2>2, <2>3, <2>4 DEF Next
<1> QED BY <1>1, <1>2, PTL DEF Spec

\* Only one trial is under way, and it ends after a bounded number of windows
\* even when the pool settles late and the load comes and goes (decide).
THEOREM TrialsEnd == Spec => []TrialBounded
<1>1. TrialInv => TrialBounded
  <2> SUFFICES ASSUME TrialInv PROVE TrialBounded
    OBVIOUS
  <2>1. ASSUME NEW p \in Pool, Running(p)
        PROVE  ps[p].since < LongestTrial
    <3>1. Fields(ps[p]) /\ OnTime(ps[p])
      BY <2>1 DEF TrialInv
    <3>2. ps[p].measure <= Max(MeasureWindows) /\ ps[p].measure \in Nat
      BY <3>1, LongestMeasurement, TunerNumbers DEF OnTime
    <3> QED BY <3>1, <3>2, LongestMeasurement, TunerNumbers
            DEF OnTime, Fields, Progress, LongestTrial
  <2> QED BY <2>1 DEF TrialBounded, TrialInv, Running
<1> QED BY <1>1, TrialInvariant, PTL

-----------------------------------------------------------------------------
(* Sizes: the inductive invariant *)

\* What a pool of s shards looks like: r of them have one thread more.
Spread(c, r, s) == [i \in 1..s |-> c + (IF i <= r THEN 1 ELSE 0)]

\* What a shard cannot lose (WriterPool, IOPool).
Floor(p) == IF p \in KeepsOne THEN 1 ELSE 0

\* The threads q of a pool's shards are spread evenly, and none is below its
\* floor.
Shape(p, q) ==
    \E c, r \in Nat : /\ r < Shards[p] /\ c >= Floor(p)
                      /\ q = Spread(c, r, Shards[p])

Ceiling(p) == Max({Bounds[p].max, Made(p)}) + Shards[p]

\* A size that is within bounds but for a thread per shard.
InBounds(p, n) == n \in Nat /\ n > Bounds[p].min - Shards[p] /\ n <= Ceiling(p)

\* A grow left a pool of size n with threads q.
Grown(p, q, n) ==
    \E c, r, k \in Nat :
        /\ r < Shards[p] /\ c >= Floor(p) /\ k > 0
        /\ n = Shards[p] * c + r /\ q = Spread(c + k, r, Shards[p])

\* A shrink left a pool of size n with threads q: it took as many from each
\* shard, or all that there was to take.
Shrunk(p, q, n) ==
    \E c, r, m \in Nat :
        /\ r < Shards[p] /\ c >= Floor(p) /\ n = Shards[p] * (c + m) + r
        /\ \/ m > 0 /\ q = Spread(c, r, Shards[p])
           \/ c = Floor(p) /\ q = Spread(c, 0, Shards[p])

Level(p) == Shape(p, size[p]) /\ InBounds(p, Total(size[p]))

\* The size a trial found is within bounds, and can be told from what the trial
\* made of it.
Undoable(p) ==
    /\ InBounds(p, ps[p].before)
    /\ ps[p].trial = "grow" => Grown(p, size[p], ps[p].before)
    /\ ps[p].trial = "shrink" => Shrunk(p, size[p], ps[p].before)

BoundInv ==
    /\ size = [p \in Pool |-> size[p]]
    /\ ps \in [Pool -> PoolState]
    /\ levels \in 0..LevelWindows /\ nextPool \in Pool
    /\ \A p \in Pool : Level(p) /\ (Running(p) => Undoable(p))

-----------------------------------------------------------------------------
(* Numbers of threads *)

\* What the constants of a pool are.
LEMMA PoolNumbers ==
    ASSUME NEW p \in Pool
    PROVE  /\ Shards[p] \in Nat \ {0} /\ Threads[p] \in Nat
           /\ Bounds[p].min \in Nat /\ Bounds[p].max \in Nat
           /\ Made(p) \in Nat /\ Bounds[p].min <= Made(p) /\ Shards[p] <= Made(p)
           /\ Ceiling(p) \in Nat /\ Ceiling(p) >= Bounds[p].max + Shards[p]
           /\ Ceiling(p) >= Made(p) + Shards[p]
           /\ Floor(p) \in 0..1
<1>1. Shards[p] \in Nat \ {0} /\ Threads[p] \in Nat
  BY TunerPools DEF Pool
<1>2. PICK m \in Nat : m = Made(p) /\ Shards[p] <= m
  BY <1>1, MaxOfTwo DEF Made
<1>3. Bounds[p].min \in Nat /\ Bounds[p].max \in Nat /\ Bounds[p].min <= m
  BY <1>2, TunerBounds
<1>4. PICK c \in Nat : c = Max({Bounds[p].max, m}) /\ c >= Bounds[p].max /\ c >= m
  BY <1>2, <1>3, MaxOfTwo
<1>5. Ceiling(p) = c + Shards[p]
  BY <1>2, <1>4 DEF Ceiling
<1> QED BY <1>1, <1>2, <1>3, <1>4, <1>5 DEF Floor

\* Quotient and remainder are unique.
LEMMA Quotient ==
    ASSUME NEW s \in Nat \ {0}, NEW a \in Nat, NEW b \in Nat, NEW c \in Nat,
           NEW r \in Nat, b < s, r < s, s * a + b = s * c + r
    PROVE  a = c /\ b = r
<1>1. ASSUME a < c PROVE FALSE
  <2>1. PICK d \in Nat \ {0} : c = a + d
    BY <1>1, c - a \in Nat \ {0}, c = a + (c - a)
  <2>2. s * c = s * a + s * d /\ s * d >= s
    BY <2>1
  <2>3. s * a \in Nat /\ s * d \in Nat
    OBVIOUS
  <2> QED BY <2>2, <2>3
<1>2. ASSUME c < a PROVE FALSE
  <2>1. PICK d \in Nat \ {0} : a = c + d
    BY <1>2, a - c \in Nat \ {0}, a = c + (a - c)
  <2>2. s * a = s * c + s * d /\ s * d >= s
    BY <2>1
  <2>3. s * c \in Nat /\ s * d \in Nat
    OBVIOUS
  <2> QED BY <2>2, <2>3
<1>3. a = c
  BY <1>1, <1>2
<1> QED BY <1>3

\* Division of a number given as whole shards and a rest.
LEMMA DivMod ==
    ASSUME NEW s \in Nat \ {0}, NEW c \in Nat, NEW r \in Nat, r < s
    PROVE  (s * c + r) \div s = c /\ (s * c + r) % s = r
<1>1. PICK n \in Nat : n = s * c + r
  OBVIOUS
<1>2. /\ n \div s \in Nat /\ n % s \in Nat /\ n % s < s
      /\ n = (s * (n \div s)) + (n % s)
  BY <1>1
<1>3. PICK a \in Nat, b \in Nat : a = n \div s /\ b = n % s /\ b < s /\ n = s * a + b
  BY <1>2
<1> QED BY <1>1, <1>3, Quotient

\* The share of a change: a thread per shard, or no more than was asked for.
LEMMA ShareOf ==
    ASSUME NEW p \in Pool, NEW n \in Nat
    PROVE  /\ Share(p, n) \in Nat \ {0}
           /\ Share(p, n) = 1 \/ Shards[p] * Share(p, n) <= n
           /\ \A m, r \in Nat : n = Shards[p] * m + r /\ r < Shards[p] =>
                 Share(p, n) = IF m > 0 THEN m ELSE 1
<1>1. PICK s \in Nat \ {0} : s = Shards[p]
  BY PoolNumbers
<1>2. PICK a \in Nat, b \in Nat : a = n \div s /\ b < s /\ n = s * a + b
  <2>1. n \div s \in Nat /\ n % s \in Nat /\ n % s < s
        /\ n = (s * (n \div s)) + (n % s)
    OBVIOUS
  <2> QED BY <2>1
<1>3. Share(p, n) = IF a > 0 THEN a ELSE 1
  <2>1. Share(p, n) = Max({1, a})
    BY <1>1, <1>2, Zenon DEF Share
  <2>2. Max({1, a}) = IF 1 >= a THEN 1 ELSE a
    BY MaxOfTwo
  <2> QED BY <2>1, <2>2
<1>4. \A m, r \in Nat : n = s * m + r /\ r < s => a = m
  <2> SUFFICES ASSUME NEW m \in Nat, NEW r \in Nat, n = s * m + r, r < s
               PROVE  a = m
    OBVIOUS
  <2>1. s * a + b = s * m + r
    BY <1>2
  <2> QED BY <1>2, <2>1, Quotient
<1>5. s * a <= n
  BY <1>2
<1> QED BY <1>1, <1>3, <1>4, <1>5

\* A step is a thread per shard, and rounding to steps gives a number.
LEMMA StepNumbers ==
    ASSUME NEW p \in Pool
    PROVE  Step(p) \in Nat /\ \A n \in Nat : RoundToStep(n, p) \in Nat
<1>1. PICK s \in Nat \ {0} : s = Step(p)
  BY PoolNumbers DEF Step
<1>2. \A n \in Nat : n \div s \in Nat
  OBVIOUS
<1>3. \A n \in Nat : (n \div s) * s \in Nat
  BY <1>2
<1> QED BY <1>1, <1>3 DEF RoundToStep

\* A set with zero and with the successor of each of its numbers has them all.
LEMMA NatSetInduction ==
    ASSUME NEW S, 0 \in S, \A n \in Nat : n \in S => n + 1 \in S
    PROVE  Nat \subseteq S
<1> SUFFICES ASSUME NEW n \in Nat, n \notin S PROVE FALSE
  OBVIOUS
<1> DEFINE T == {i \in 0..n : i \in S}
           f == [i \in T |-> i + 1]
<1>1. IsFiniteSet(T)
  BY FS_Interval, FS_Subset, T \in SUBSET (0..n), 0 \in Int, n \in Int
<1>2. 0 \in T
  OBVIOUS
<1>3. IsFiniteSet(T \ {0}) /\ Cardinality(T \ {0}) = Cardinality(T) - 1
  BY <1>1, <1>2, FS_RemoveElement
<1>4. \A i \in T : i + 1 \in T \ {0}
  <2> TAKE i \in T
  <2>1. i \in Nat /\ i \in S /\ i # n /\ i <= n
    OBVIOUS
  <2>2. i + 1 \in S /\ i + 1 \in 0..n /\ i + 1 # 0
    BY <2>1
  <2> QED BY <2>2
<1>5. f \in Injection(T, T \ {0})
  <2>1. f \in [T -> T \ {0}]
    BY <1>4
  <2>2. \A i, j \in T : f[i] = f[j] => i = j
    OBVIOUS
  <2> HIDE DEF f, T
  <2> QED BY <2>1, <2>2 DEF Injection, IsInjective
<1>6. Cardinality(T) <= Cardinality(T \ {0})
  BY <1>3, <1>5, FS_Injection
<1>7. Cardinality(T) \in Nat
  BY <1>1, FS_CardinalityType
<1> QED BY <1>3, <1>6, <1>7

\* What Size adds up over a spread.  The sum is a recursive function: it exists
\* because the closed form is one, and it is that by induction.
LEMMA TotalOfSpread ==
    ASSUME NEW s \in Nat, NEW c \in Nat, NEW r \in Nat, r <= s
    PROVE  Total(Spread(c, r, s)) = s * c + r
<1> DEFINE q == Spread(c, r, s)
           Extra(i) == IF i <= r THEN i ELSE r
           F(g) == [i \in 0..s |-> IF i = 0 THEN 0 ELSE g[i-1] + q[i]]
           sum == CHOOSE g : g = F(g)
           h == [i \in 0..s |-> i * c + Extra(i)]
<1>1. Len(q) = s
  BY DEF Spread
<1>2. Total(q) = sum[s]
  BY <1>1, Zenon DEF Total
<1>3. \A i \in 1..s : /\ q[i] = c + (IF i <= r THEN 1 ELSE 0)
                      /\ (i-1) * c + Extra(i-1) + q[i] = i * c + Extra(i)
  <2> TAKE i \in 1..s
  <2>1. q[i] = c + (IF i <= r THEN 1 ELSE 0)
    BY DEF Spread
  <2>2. (i-1) * c + c = i * c
    OBVIOUS
  <2>3. PICK a \in Nat, b \in Nat : a = (i-1) * c /\ b = i * c
    <3>1. (i-1) * c \in Nat /\ i * c \in Nat
      OBVIOUS
    <3> QED BY <3>1
  <2>4. Extra(i-1) + (IF i <= r THEN 1 ELSE 0) = Extra(i)
        /\ Extra(i) \in Nat /\ Extra(i-1) \in Nat
    OBVIOUS
  <2> HIDE DEF Extra, q
  <2>5. a + c = b
    BY <2>2, <2>3
  <2>6. a + Extra(i-1) + q[i] = b + Extra(i)
    BY <2>1, <2>4, <2>5
  <2> QED BY <2>1, <2>3, <2>6
<1> HIDE DEF q
<1>4. h = F(h)
  <2>1. \A i \in 0..s : h[i] = IF i = 0 THEN 0 ELSE h[i-1] + q[i]
    <3> TAKE i \in 0..s
    <3>1. CASE i = 0
      BY <3>1
    <3>2. CASE i # 0
      <4>1. i - 1 \in 0..s /\ i \in 1..s
        BY <3>2
      <4>2. h[i-1] = (i-1) * c + Extra(i-1) /\ h[i] = i * c + Extra(i)
        BY <4>1
      <4> HIDE DEF h
      <4> QED BY <1>3, <3>2, <4>1, <4>2
    <3> QED BY <3>1, <3>2
  <2> HIDE DEF Extra
  <2> QED BY <2>1
<1>5. sum = F(sum)
  <2> HIDE DEF F
  <2> QED BY <1>4
<1> HIDE DEF sum
<1> DEFINE S == {i \in Nat : i <= s => sum[i] = i * c + Extra(i)}
<1>6. 0 \in S
  BY <1>5
<1>7. \A n \in Nat : n \in S => n + 1 \in S
  <2> SUFFICES ASSUME NEW n \in Nat, n \in S, n + 1 <= s
               PROVE  sum[n+1] = (n+1) * c + Extra(n+1)
    OBVIOUS
  <2>1. sum[n] = n * c + Extra(n)
    OBVIOUS
  <2>2. sum[n+1] = sum[(n+1)-1] + q[n+1]
    BY <1>5, n + 1 \in 0..s, n + 1 # 0
  <2>3. ((n+1)-1) * c + Extra((n+1)-1) + q[n+1] = (n+1) * c + Extra(n+1)
    BY <1>3, n + 1 \in 1..s
  <2>4. (n+1)-1 = n
    OBVIOUS
  <2> HIDE DEF S, Extra
  <2> QED BY <2>1, <2>2, <2>3, <2>4
<1>8. s \in S
  <2> HIDE DEF S
  <2> QED BY <1>6, <1>7, NatSetInduction
<1>9. Extra(s) = r
  OBVIOUS
<1> HIDE DEF Extra
<1> QED BY <1>2, <1>8, <1>9 DEF q

-----------------------------------------------------------------------------
(* What ShardedPoolGroup makes of a spread *)

\* The size of a pool is a whole number of threads per shard and a rest.
LEMMA SizeOfLevel ==
    ASSUME BoundInv, NEW p \in Pool
    PROVE  /\ Size(p) \in Nat /\ InBounds(p, Size(p))
           /\ \E c, r \in Nat : /\ r < Shards[p] /\ c >= Floor(p)
                                /\ size[p] = Spread(c, r, Shards[p])
                                /\ Size(p) = Shards[p] * c + r
<1>1. Shape(p, size[p]) /\ InBounds(p, Size(p))
  BY DEF BoundInv, Level, Size
<1>2. PICK c \in Nat, r \in Nat : /\ r < Shards[p] /\ c >= Floor(p)
                                  /\ size[p] = Spread(c, r, Shards[p])
  BY <1>1 DEF Shape
<1>3. PICK s \in Nat : s = Shards[p] /\ r <= s
  BY <1>2, PoolNumbers
<1>4. Total(Spread(c, r, s)) = s * c + r
  BY <1>3, TotalOfSpread
<1>5. Size(p) = Shards[p] * c + r
  BY <1>2, <1>3, <1>4 DEF Size
<1> QED BY <1>1, <1>2, <1>5 DEF InBounds

\* Grow adds its share to every shard.
LEMMA GrowSpread ==
    ASSUME NEW p \in Pool, NEW c \in Nat, NEW r \in Nat, NEW n \in Nat,
           size[p] = Spread(c, r, Shards[p])
    PROVE  GrowPool(p, n) = Spread(c + Share(p, n), r, Shards[p])
<1>1. PICK k \in Nat : k = Share(p, n)
  BY ShareOf
<1>2. PICK s \in Nat : s = Shards[p]
  BY PoolNumbers
<1>3. \A i \in 1..s : size[p][i] + k = (c + k) + (IF i <= r THEN 1 ELSE 0)
  <2> TAKE i \in 1..s
  <2>1. size[p][i] = c + (IF i <= r THEN 1 ELSE 0)
    BY <1>2 DEF Spread
  <2> QED BY <2>1
<1> QED BY <1>1, <1>2, <1>3 DEF GrowPool, Spread

\* Shrink takes its share from every shard, or leaves every shard at its floor.
LEMMA ShrinkSpread ==
    ASSUME NEW p \in Pool, NEW c \in Nat, NEW r \in Nat, NEW n \in Nat,
           c >= Floor(p), size[p] = Spread(c, r, Shards[p])
    PROVE  LET k == Share(p, n) IN
           /\ c >= Floor(p) + k => ShrinkPool(p, n) = Spread(c - k, r, Shards[p])
           /\ c < Floor(p) + k => ShrinkPool(p, n) = Spread(Floor(p), 0, Shards[p])
<1>1. PICK k \in Nat \ {0} : k = Share(p, n)
  BY ShareOf
<1>2. PICK f \in 0..1 : f = Floor(p) /\ c >= f
  BY PoolNumbers
<1>3. ASSUME NEW i \in 1..Shards[p]
      PROVE  LET z == c + (IF i <= r THEN 1 ELSE 0) IN
             size[p][i] - ShrinkBy(p, n, i) = IF z - k >= f THEN z - k ELSE f
  <2>1. PICK z \in Nat : z = c + (IF i <= r THEN 1 ELSE 0)
    BY <1>3, PoolNumbers
  <2>2. size[p][i] = z
    BY <2>1 DEF Spread
  <2>3. ShrinkBy(p, n, i) = Min({k, z - f})
    <3>1. CASE p \in KeepsOne
      BY <1>1, <1>2, <2>2, <3>1 DEF ShrinkBy, Floor
    <3>2. CASE p \notin KeepsOne
      BY <1>1, <1>2, <2>2, <3>2 DEF ShrinkBy, Floor
    <3> QED BY <3>1, <3>2
  <2>4. Min({k, z - f}) = IF k <= z - f THEN k ELSE z - f
    BY MinOfTwo
  <2> QED BY <2>1, <2>2, <2>3, <2>4
<1>4. ASSUME c >= f + k PROVE ShrinkPool(p, n) = Spread(c - k, r, Shards[p])
  <2>1. \A i \in 1..Shards[p] : size[p][i] - ShrinkBy(p, n, i)
                                  = (c - k) + (IF i <= r THEN 1 ELSE 0)
    BY <1>3, <1>4, PoolNumbers
  <2> QED BY <2>1 DEF ShrinkPool, Spread
<1>5. ASSUME c < f + k PROVE ShrinkPool(p, n) = Spread(f, 0, Shards[p])
  <2>1. \A i \in 1..Shards[p] : size[p][i] - ShrinkBy(p, n, i)
                                  = f + (IF i <= 0 THEN 1 ELSE 0)
    BY <1>3, <1>5, PoolNumbers
  <2> QED BY <2>1 DEF ShrinkPool, Spread
<1> QED BY <1>1, <1>2, <1>4, <1>5

\* A grow that starts below the ceiling passes it by less than a thread per
\* shard (startTrial).
LEMMA GrowLevel ==
    ASSUME BoundInv, NEW p \in Pool, NEW n \in Nat \ {0},
           n <= Bounds[p].max - Size(p)
    PROVE  /\ Shape(p, GrowPool(p, n)) /\ InBounds(p, Total(GrowPool(p, n)))
           /\ Grown(p, GrowPool(p, n), Size(p))
<1>1. PICK s \in Nat \ {0} : s = Shards[p]
  BY PoolNumbers
<1>2. PICK c \in Nat, r \in Nat : /\ r < s /\ c >= Floor(p)
                                  /\ size[p] = Spread(c, r, s) /\ Size(p) = s * c + r
  BY <1>1, SizeOfLevel
<1>3. PICK k \in Nat \ {0} : k = Share(p, n) /\ (k = 1 \/ s * k <= n)
  BY <1>1, ShareOf
<1>4. GrowPool(p, n) = Spread(c + k, r, s)
  BY <1>1, <1>2, <1>3, GrowSpread
<1>5. PICK a \in Nat, b \in Nat : a = s * c /\ b = s * k /\ s * (c + k) = a + b
  <2>1. s * c \in Nat /\ s * k \in Nat /\ s * (c + k) = s * c + s * k
    OBVIOUS
  <2> QED BY <2>1
<1>6. Total(GrowPool(p, n)) = a + b + r
  BY <1>2, <1>4, <1>5, TotalOfSpread, c + k \in Nat
<1>7. b = s \/ b <= n
  BY <1>3, <1>5
<1>8. InBounds(p, a + b + r)
  <2>1. Size(p) = a + r /\ InBounds(p, Size(p))
    BY <1>2, <1>5, SizeOfLevel
  <2>2. a + b + r > Bounds[p].min - s
    BY <1>1, <2>1, PoolNumbers DEF InBounds
  <2>3. PICK m \in Nat, z \in Nat : m = Bounds[p].max /\ z = Ceiling(p) /\ z >= m + s
    BY <1>1, PoolNumbers
  <2>4. a + b + r <= z
    BY <1>7, <2>1, <2>3
  <2> QED BY <1>1, <2>2, <2>3, <2>4 DEF InBounds
<1>9. Shape(p, GrowPool(p, n))
  <2>1. c + k \in Nat /\ c + k >= Floor(p)
    BY <1>2, PoolNumbers
  <2> QED BY <1>1, <1>2, <1>4, <2>1 DEF Shape
<1>10. Grown(p, GrowPool(p, n), Size(p))
  BY <1>1, <1>2, <1>4, k > 0 DEF Grown
<1> QED BY <1>6, <1>8, <1>9, <1>10

\* A shrink that starts above the floor passes it by less than a thread per
\* shard (startTrial).
LEMMA ShrinkLevel ==
    ASSUME BoundInv, NEW p \in Pool, NEW n \in Nat \ {0},
           n <= Size(p) - Bounds[p].min
    PROVE  /\ Shape(p, ShrinkPool(p, n)) /\ InBounds(p, Total(ShrinkPool(p, n)))
           /\ Shrunk(p, ShrinkPool(p, n), Size(p))
<1>1. PICK s \in Nat \ {0} : s = Shards[p]
  BY PoolNumbers
<1>2. PICK c \in Nat, r \in Nat : /\ r < s /\ c >= Floor(p)
                                  /\ size[p] = Spread(c, r, s) /\ Size(p) = s * c + r
  BY <1>1, SizeOfLevel
<1>3. PICK k \in Nat \ {0} : k = Share(p, n) /\ (k = 1 \/ s * k <= n)
  BY <1>1, ShareOf
<1>4. PICK f \in 0..1 : f = Floor(p) /\ c >= f
  BY <1>2, PoolNumbers
<1>5. /\ c >= f + k => ShrinkPool(p, n) = Spread(c - k, r, s)
      /\ c < f + k => ShrinkPool(p, n) = Spread(f, 0, s)
  BY <1>1, <1>2, <1>3, <1>4, ShrinkSpread
<1>6. PICK a \in Nat, b \in Nat, m \in Nat, z \in Nat :
        /\ a = s * c /\ b = s * k /\ (b = s \/ b <= n)
        /\ m = Bounds[p].min /\ z = Ceiling(p)
  <2>1. s * c \in Nat /\ s * k \in Nat
    OBVIOUS
  <2> QED BY <1>3, <2>1, PoolNumbers
<1>7. Size(p) = a + r /\ a + r <= z /\ n <= a + r - m
  BY <1>2, <1>6, SizeOfLevel DEF InBounds
<1>8. CASE c >= f + k
  <2>1. PICK d \in Nat : d = c - k /\ d >= f /\ c = d + k
    BY <1>8
  <2>2. s * (d + k) = s * d + s * k /\ s * d \in Nat
    OBVIOUS
  <2>3. PICK e \in Nat : e = s * d /\ a = e + b
    BY <1>6, <2>1, <2>2
  <2>4. Total(ShrinkPool(p, n)) = e + r
    <3>1. ShrinkPool(p, n) = Spread(d, r, s) /\ r <= s
      BY <1>2, <1>5, <1>8, <2>1
    <3>2. Total(Spread(d, r, s)) = s * d + r
      BY <3>1, TotalOfSpread
    <3> QED BY <2>3, <3>1, <3>2
  <2>5. e + r > m - s /\ e + r <= z
    BY <1>6, <1>7, <2>3
  <2>6. InBounds(p, e + r)
    BY <1>1, <1>6, <2>5 DEF InBounds
  <2>7. Shape(p, ShrinkPool(p, n))
    BY <1>1, <1>2, <1>4, <1>5, <1>8, <2>1 DEF Shape
  <2>8. Shrunk(p, ShrinkPool(p, n), Size(p))
    BY <1>1, <1>2, <1>4, <1>5, <1>8, <2>1, k > 0 DEF Shrunk
  <2> QED BY <2>4, <2>6, <2>7, <2>8
<1>9. CASE c < f + k
  <2>1. PICK d \in Nat : c = f + d /\ d < k
    BY <1>4, <1>9, c - f \in Nat, c = f + (c - f)
  <2>2. s * (f + d) = s * f + s * d /\ s * d <= s * k /\ s * d \in Nat /\ s * f \in Nat
    BY <2>1
  <2>3. PICK e \in Nat, g \in Nat : e = s * f /\ a = e + g /\ g <= b
    BY <1>6, <2>1, <2>2
  <2>4. Total(ShrinkPool(p, n)) = e
    BY <1>5, <1>9, <2>3, TotalOfSpread
  <2>5. e > m - s /\ e <= z
    <3>1. CASE k = 1
      <4>1. d = 0
        BY <2>1, <3>1
      <4>2. a = e
        BY <1>6, <2>1, <2>3, <4>1
      <4> QED BY <1>2, <1>7, <4>2
    <3>2. CASE k # 1
      <4>1. k >= 2 /\ b <= n
        BY <1>3, <1>6, <3>2
      <4>2. s * d + s <= s * k
        <5>1. s * (d + 1) = s * d + s /\ s * (d + 1) <= s * k
          BY <2>1
        <5> QED BY <5>1
      <4>3. g + s <= b
        BY <1>6, <2>1, <2>2, <2>3, <4>2
      <4> QED BY <1>2, <1>7, <2>3, <4>1, <4>3
    <3> QED BY <3>1, <3>2
  <2>6. InBounds(p, e)
    BY <1>1, <1>6, <2>5 DEF InBounds
  <2>7. Shape(p, ShrinkPool(p, n))
    BY <1>1, <1>4, <1>5, <1>9, 0 < s DEF Shape
  <2>8. Shrunk(p, ShrinkPool(p, n), Size(p))
    BY <1>1, <1>2, <1>4, <1>5, <1>9, <2>1 DEF Shrunk
  <2> QED BY <2>4, <2>6, <2>7, <2>8
<1> QED BY <1>4, <1>8, <1>9

\* What a grow has changed can be read off the sizes, and undone exactly.
LEMMA UndoGrow ==
    ASSUME BoundInv, NEW p \in Pool, ps[p].trial = "grow", Undoable(p)
    PROVE  /\ Size(p) - ps[p].before \in Nat
           /\ Shape(p, Undo(p)) /\ Total(Undo(p)) = ps[p].before
<1>1. PICK s \in Nat \ {0} : s = Shards[p]
  BY PoolNumbers
<1>2. PICK c \in Nat, r \in Nat, k \in Nat :
        /\ r < s /\ c >= Floor(p) /\ k > 0
        /\ ps[p].before = s * c + r /\ size[p] = Spread(c + k, r, s)
  BY <1>1 DEF Undoable, Grown
<1>3. PICK a \in Nat, b \in Nat : a = s * c /\ b = s * k /\ s * (c + k) = a + b
  <2>1. s * c \in Nat /\ s * k \in Nat /\ s * (c + k) = s * c + s * k
    OBVIOUS
  <2> QED BY <2>1
<1>4. Total(Spread(c + k, r, s)) = s * (c + k) + r /\ Total(Spread(c, r, s)) = s * c + r
  BY <1>2, c + k \in Nat, r <= s, TotalOfSpread
<1>5. Size(p) = a + b + r /\ ps[p].before = a + r
  BY <1>2, <1>3, <1>4 DEF Size
<1>6. Size(p) - ps[p].before = b
  BY <1>5
<1>7. Share(p, b) = k
  <2>1. b = s * k + 0 /\ 0 < s
    BY <1>3
  <2> QED BY <1>1, <1>2, <2>1, ShareOf
<1>8. Undo(p) = ShrinkPool(p, b)
  BY <1>6 DEF Undo
<1>9. ShrinkPool(p, b) = Spread(c, r, s)
  <2>1. /\ c + k \in Nat /\ c + k >= Floor(p) + k /\ c + k >= Floor(p)
        /\ (c + k) - k = c
    BY <1>2, PoolNumbers
  <2> QED BY <1>1, <1>2, <1>7, <2>1, ShrinkSpread
<1>10. Shape(p, Undo(p))
  BY <1>1, <1>2, <1>8, <1>9 DEF Shape
<1> QED BY <1>2, <1>4, <1>6, <1>8, <1>9, <1>10

\* What an undone trial may leave: the size it found, or that size rounded when
\* a shrink could not take as much from every shard.
UndoneTo(p, n) ==
    \/ n = ps[p].before
    \/ /\ ps[p].trial = "shrink"
       /\ ps[p].before % Step(p) # 0 \/ Size(p) = ps[p].before
       /\ n - RoundToStep(ps[p].before, p) \in {0, Step(p)}

\* What a shrink has changed can be undone but for the rounding.
LEMMA UndoShrink ==
    ASSUME BoundInv, NEW p \in Pool, ps[p].trial = "shrink", Undoable(p)
    PROVE  /\ ps[p].before - Size(p) \in Nat
           /\ Shape(p, Undo(p)) /\ InBounds(p, Total(Undo(p)))
           /\ UndoneTo(p, Total(Undo(p)))
<1>1. PICK s \in Nat \ {0} : s = Shards[p]
  BY PoolNumbers
<1>2. PICK c \in Nat, r \in Nat, m \in Nat :
        /\ r < s /\ c >= Floor(p) /\ ps[p].before = s * (c + m) + r
        /\ \/ m > 0 /\ size[p] = Spread(c, r, s)
           \/ c = Floor(p) /\ size[p] = Spread(c, 0, s)
  BY <1>1 DEF Undoable, Shrunk
<1>3. PICK a \in Nat, b \in Nat : a = s * c /\ b = s * m /\ s * (c + m) = a + b
  <2>1. s * c \in Nat /\ s * m \in Nat /\ s * (c + m) = s * c + s * m
    OBVIOUS
  <2> QED BY <2>1
<1>4. /\ InBounds(p, Size(p)) /\ InBounds(p, ps[p].before)
      /\ ps[p].before = a + b + r
  BY <1>2, <1>3, SizeOfLevel DEF Undoable
<1>5. ps[p].trial # "grow"
  OBVIOUS
<1>6. CASE m > 0 /\ size[p] = Spread(c, r, s)
  <2>1. Size(p) = a + r
    <3>1. Total(Spread(c, r, s)) = s * c + r
      BY <1>2, r <= s, TotalOfSpread
    <3> QED BY <1>3, <1>6, <3>1 DEF Size
  <2>2. ps[p].before - Size(p) = b
    BY <1>4, <2>1
  <2>3. Share(p, b) = m
    <3>1. b = s * m + 0 /\ 0 < s
      BY <1>3
    <3> QED BY <1>1, <1>6, <3>1, ShareOf
  <2>4. Undo(p) = Spread(c + m, r, s)
    <3>1. Undo(p) = GrowPool(p, b)
      BY <1>5, <2>2 DEF Undo
    <3> QED BY <1>1, <1>6, <2>3, <3>1, GrowSpread
  <2>5. Total(Undo(p)) = ps[p].before
    <3>1. Total(Spread(c + m, r, s)) = s * (c + m) + r
      BY <1>2, c + m \in Nat, r <= s, TotalOfSpread
    <3> QED BY <1>2, <2>4, <3>1
  <2>6. Shape(p, Undo(p))
    <3>1. c + m \in Nat /\ c + m >= Floor(p)
      BY <1>2, PoolNumbers
    <3> QED BY <1>1, <1>2, <2>4, <3>1 DEF Shape
  <2> QED BY <1>4, <2>2, <2>5, <2>6 DEF UndoneTo
<1>7. CASE c = Floor(p) /\ size[p] = Spread(c, 0, s)
  <2>1. Size(p) = a
    <3>1. Total(Spread(c, 0, s)) = s * c + 0
      BY 0 <= s, TotalOfSpread
    <3> QED BY <1>3, <1>7, <3>1 DEF Size
  <2>2. ps[p].before - Size(p) = b + r
    BY <1>4, <2>1
  <2>3. PICK k \in Nat \ {0} : k = Share(p, b + r) /\ k = IF m > 0 THEN m ELSE 1
    <3>1. b + r = s * m + r /\ b + r \in Nat
      BY <1>3
    <3> QED BY <1>1, <1>2, <3>1, ShareOf
  <2>4. Undo(p) = Spread(c + k, 0, s)
    <3>1. Undo(p) = GrowPool(p, b + r)
      BY <1>5, <2>2 DEF Undo
    <3> QED BY <1>1, <1>7, <2>3, <3>1, GrowSpread
  <2>5. Total(Undo(p)) = s * (c + k)
    <3>1. Total(Spread(c + k, 0, s)) = s * (c + k) + 0
      BY c + k \in Nat, 0 <= s, TotalOfSpread
    <3> QED BY <2>4, <3>1
  <2>6. Total(Undo(p)) = IF m > 0 THEN a + b ELSE a + s
    <3>1. s * (c + 1) = s * c + s
      OBVIOUS
    <3>2. CASE m > 0
      BY <1>3, <2>3, <2>5, <3>2
    <3>3. CASE ~(m > 0)
      <4>1. k = 1
        BY <2>3, <3>3
      <4> QED BY <1>3, <2>5, <3>1, <3>3, <4>1
    <3> QED BY <3>2, <3>3
  <2>7. Shape(p, Undo(p))
    <3>1. c + k \in Nat /\ c + k >= Floor(p) /\ 0 < s
      BY <1>2, PoolNumbers
    <3> QED BY <1>1, <2>4, <3>1 DEF Shape
  <2>8. m = 0 => b = 0
    BY <1>3
  <2>9. InBounds(p, Total(Undo(p)))
    <3>1. PICK z \in Nat, l \in Nat, q \in Nat :
            /\ z = Ceiling(p) /\ l = Bounds[p].min /\ q = Made(p)
            /\ s <= q /\ q + s <= z
      BY <1>1, PoolNumbers
    <3>2. a > l - s /\ a + b + r <= z
      BY <1>1, <1>4, <2>1, <3>1 DEF InBounds
    <3>3. a <= s
      <4>1. c \in 0..1
        BY <1>7, PoolNumbers
      <4>2. c = 0 \/ c = 1
        BY <4>1
      <4>3. s * 0 = 0 /\ s * 1 = s
        OBVIOUS
      <4> QED BY <1>3, <4>2, <4>3
    <3>4. CASE m > 0
      BY <1>1, <2>6, <3>1, <3>2, <3>4 DEF InBounds
    <3>5. CASE ~(m > 0)
      BY <1>1, <2>6, <3>1, <3>2, <3>3, <3>5 DEF InBounds
    <3> QED BY <3>4, <3>5
  <2>10. ps[p].before % Step(p) = r /\ RoundToStep(ps[p].before, p) = a + b
    <3>1. ps[p].before \div s = c + m /\ ps[p].before % s = r
      BY <1>2, c + m \in Nat, DivMod
    <3>2. (c + m) * s = s * (c + m)
      OBVIOUS
    <3> QED BY <1>1, <1>3, <3>1, <3>2 DEF Step, RoundToStep
  <2>11. UndoneTo(p, Total(Undo(p)))
    <3>1. Step(p) = s
      BY <1>1 DEF Step
    <3>2. CASE m > 0
      <4>1. (a + b) - RoundToStep(ps[p].before, p) = 0
        BY <2>10
      <4>2. r = 0 => a + b = ps[p].before
        BY <1>4
      <4> QED BY <2>6, <2>10, <3>2, <4>1, <4>2 DEF UndoneTo
    <3>3. CASE m = 0
      <4>1. (a + s) - RoundToStep(ps[p].before, p) = s
        BY <2>8, <2>10, <3>3
      <4>2. r = 0 => Size(p) = ps[p].before
        BY <1>4, <2>1, <2>8, <3>3
      <4>3. Total(Undo(p)) = a + s
        BY <2>6, <3>3
      <4> QED BY <2>10, <3>1, <4>1, <4>2, <4>3 DEF UndoneTo
    <3> QED BY <3>2, <3>3
  <2>12. b + r \in Nat
    OBVIOUS
  <2> QED BY <2>2, <2>7, <2>9, <2>11, <2>12
<1> QED BY <1>2, <1>6, <1>7

\* An undone change leads back to the size the trial found, but for the
\* rounding (judge, decide).
LEMMA UndoLevel ==
    ASSUME BoundInv, NEW p \in Pool, Running(p)
    PROVE  /\ Shape(p, Undo(p)) /\ InBounds(p, Total(Undo(p)))
           /\ UndoneTo(p, Total(Undo(p)))
           /\ ps[p].trial = "grow" => Size(p) - ps[p].before \in Nat
           /\ ps[p].trial # "grow" => ps[p].before - Size(p) \in Nat
<1>1. Undoable(p) /\ ps[p].trial \in Way
  BY DEF BoundInv, Running, PoolState
<1>2. CASE ps[p].trial = "grow"
  <2>1. InBounds(p, ps[p].before)
    BY <1>1 DEF Undoable
  <2> QED BY <1>1, <1>2, <2>1, UndoGrow DEF UndoneTo
<1>3. CASE ps[p].trial = "shrink"
  BY <1>1, <1>3, UndoShrink
<1> QED BY <1>1, <1>2, <1>3 DEF Way
-----------------------------------------------------------------------------
(* States of a pool *)

\* The step of closeWindow: it counts, and leaves the sizes a trial needs.
LEMMA CloseWindowTyped ==
    ASSUME BoundInv, NEW p \in Pool, NEW moved
    PROVE  LET s == CloseWindow(p, moved) IN
           /\ s \in PoolState
           /\ s.trial = ps[p].trial /\ s.before = ps[p].before
<1>1. ps[p] \in PoolState
  BY DEF BoundInv
<1>2. PICK c : c = Min({ps[p].since + 1,
                        IF ps[p].trial = "none" THEN 2 ELSE LongestTrial + 1})
  OBVIOUS
<1>3. ps[p].since \in Nat
  BY <1>1 DEF PoolState
<1>4. c \in Nat
  BY <1>2, <1>3, MinOfTwo, LongestIsNumber
<1> DEFINE Down(d, w) ==
            IF d.backoff > 0 /\ Steady /\ c >= 2 /\ <<p, w>> \in moved
              THEN [d EXCEPT !.backoff = 0, !.next = 0]
              ELSE [d EXCEPT !.backoff = Max({0, @ - 1})]
           x == [w \in Way |-> Down(ps[p].dir[w], w)]
<1>5. CloseWindow(p, moved) = [ps[p] EXCEPT !.since = c, !.dir = x]
  BY <1>2, Zenon DEF CloseWindow
<1>6. \A d \in Direction : \A w \in Way :
         Down(d, w) \in Direction
  <2> TAKE d \in Direction
  <2> TAKE w \in Way
  <2>1. d.backoff \in 0..MaxBackoff /\ MaxBackoff \in Nat
    BY TunerNumbers DEF Direction
  <2>2. PICK b \in 0..MaxBackoff : b = Max({0, d.backoff - 1})
    BY <2>1, MaxOfTwo
  <2>3. 0 \in 0..MaxBackoff
    BY <2>1
  <2>4. Down(d, w) = [d EXCEPT !.backoff = 0, !.next = 0]
        \/ Down(d, w) = [d EXCEPT !.backoff = b]
    BY <2>2
  <2> HIDE DEF Down
  <2> QED BY <2>2, <2>3, <2>4 DEF Direction
<1>7. \A w \in Way : ps[p].dir[w] \in Direction
  BY <1>1 DEF PoolState
<1>8. x \in [Way -> Direction]
  <2> HIDE DEF Down
  <2> QED BY <1>6, <1>7
<1> HIDE DEF x
<1>9. /\ [ps[p] EXCEPT !.since = c, !.dir = x] \in PoolState
      /\ [ps[p] EXCEPT !.since = c, !.dir = x].trial = ps[p].trial
      /\ [ps[p] EXCEPT !.since = c, !.dir = x].before = ps[p].before
  BY <1>1, <1>4, <1>8 DEF PoolState
<1> QED BY <1>5, <1>9

\* A window that counts leaves the sizes alone.
LEMMA MeasuredTyped ==
    ASSUME NEW s \in PoolState
    PROVE  LET m == Measured(s) IN
           m \in PoolState /\ m.trial = s.trial /\ m.before = s.before
<1>1. s.settled \in Nat /\ s.measured \in Nat
  BY DEF PoolState
<1>2. PICK c \in Nat : c = Min({s.settled + 1, SettleWindows + 1})
  BY <1>1, MinOfTwo, TunerNumbers
<1>3. PICK k \in Nat : k = s.measured + (IF s.settled >= SettleWindows THEN 1 ELSE 0)
  BY <1>1
<1>4. Measured(s) = [s EXCEPT !.settled = c, !.measured = k]
  BY <1>2, <1>3 DEF Measured, PoolState
<1> QED BY <1>4 DEF PoolState

\* A trial that is over.
LEMMA ClosedTyped ==
    ASSUME NEW s \in PoolState
    PROVE  Closed(s) \in PoolState /\ Closed(s).trial = "none"
BY DEF PoolState, Closed

\* Windows of a trial: the state of p and the size of p change, and both are
\* as the invariant has them.
LEMMA TrialWindowBound ==
    ASSUME BoundInv, NEW p \in Pool, NEW s \in PoolState, TrialWindow(p, s),
           \/ UNCHANGED size /\ s.trial = ps[p].trial /\ s.before = ps[p].before
           \/ UNCHANGED size /\ s.trial = "none"
           \/ size' = [size EXCEPT ![p] = Undo(p)] /\ s.trial = "none" /\ Running(p)
    PROVE  BoundInv'
<1> DEFINE f == [q \in Pool |-> CloseWindow(q, {})]
<1>1. ps' = [q \in Pool |-> IF q = p THEN s ELSE CloseWindow(q, {})]
      /\ UNCHANGED <<levels, nextPool>>
  BY DEF TrialWindow
<1>2. ps' \in [Pool -> PoolState]
  BY <1>1, CloseWindowTyped
<1>3. \A q \in Pool \ {p} : /\ ps'[q].trial = ps[q].trial
                            /\ ps'[q].before = ps[q].before
  BY <1>1, CloseWindowTyped
<1>4. ps'[p] = s
  BY <1>1
<1>5. \/ UNCHANGED size
      \/ /\ size' = [size EXCEPT ![p] = Undo(p)] /\ Running(p) /\ s.trial = "none"
  OBVIOUS
<1>6. size' = [q \in Pool |-> size'[q]] /\ \A q \in Pool \ {p} : size'[q] = size[q]
  BY <1>5 DEF BoundInv
<1>7. Level(p)' /\ (s.trial # "none" => Undoable(p)')
  <2>1. CASE UNCHANGED size
    <3>1. Level(p)'
      BY <2>1 DEF BoundInv, Level
    <3>2. s.trial # "none" => s.trial = ps[p].trial /\ s.before = ps[p].before
      OBVIOUS
    <3>3. s.trial # "none" => Undoable(p)'
      BY <2>1, <3>2, <1>4 DEF BoundInv, Undoable, Running
    <3> QED BY <3>1, <3>3
  <2>2. CASE size' = [size EXCEPT ![p] = Undo(p)] /\ Running(p) /\ s.trial = "none"
    <3>1. Shape(p, Undo(p)) /\ InBounds(p, Total(Undo(p)))
      BY <2>2, UndoLevel
    <3>2. size'[p] = Undo(p)
      BY <2>2 DEF BoundInv
    <3> QED BY <2>2, <3>1, <3>2 DEF Level
  <2> QED BY <1>5, <2>1, <2>2
<1>8. \A q \in Pool \ {p} : Level(q)' /\ (Running(q)' => Undoable(q)')
  BY <1>3, <1>6 DEF BoundInv, Level, Undoable, Running
<1>9. \A q \in Pool : Level(q)' /\ (Running(q)' => Undoable(q)')
  BY <1>4, <1>7, <1>8 DEF Running
<1>10. levels' \in 0..LevelWindows /\ nextPool' \in Pool
  BY <1>1 DEF BoundInv
<1> QED BY <1>2, <1>6, <1>9, <1>10 DEF BoundInv

-----------------------------------------------------------------------------
(* Steps of a trial *)

\* Waiting for the pool changes no size (decide).
LEMMA NotSettledBound ==
    ASSUME BoundInv, NEW p \in Pool, NotSettled(p)
    PROVE  BoundInv'
<1> DEFINE s == CloseWindow(p, {})
<1>1. TrialWindow(p, s) /\ UNCHANGED size
  BY DEF NotSettled
<1>2. /\ s \in PoolState /\ s.trial = ps[p].trial /\ s.before = ps[p].before
  BY CloseWindowTyped
<1> HIDE DEF s
<1> QED BY <1>1, <1>2, TrialWindowBound

\* A trial without load is undone after maxSettleWindows (decide).
LEMMA NoLoadBound ==
    ASSUME BoundInv, NEW p \in Pool, NoLoad(p)
    PROVE  BoundInv'
<1> DEFINE s == CloseWindow(p, {})
           c == [s EXCEPT !.measured = 0, !.settled = 0]
           e == Closed(c)
<1>1. /\ s.trial # "none"
      /\ \/ TrialWindow(p, e) /\ size' = [size EXCEPT ![p] = Undo(p)]
         \/ TrialWindow(p, c) /\ UNCHANGED size
  BY DEF NoLoad
<1>2. /\ s \in PoolState /\ s.trial = ps[p].trial /\ s.before = ps[p].before
  BY CloseWindowTyped
<1> HIDE DEF s
<1>3. /\ c \in PoolState /\ c.trial = s.trial /\ c.before = s.before
  BY <1>2 DEF PoolState
<1>4. Running(p)
  BY <1>1, <1>2 DEF Running
<1> HIDE DEF c
<1>5. e \in PoolState /\ e.trial = "none"
  BY <1>3, ClosedTyped
<1> HIDE DEF e
<1>6. CASE TrialWindow(p, e) /\ size' = [size EXCEPT ![p] = Undo(p)]
  BY <1>4, <1>5, <1>6, TrialWindowBound
<1>7. CASE TrialWindow(p, c) /\ UNCHANGED size
  BY <1>2, <1>3, <1>7, TrialWindowBound
<1> QED BY <1>1, <1>6, <1>7

\* Measuring changes no size (decide).
LEMMA MeasureBound ==
    ASSUME BoundInv, NEW p \in Pool, Measure(p)
    PROVE  BoundInv'
<1> DEFINE s == CloseWindow(p, {})
           m == Measured(s)
<1>1. TrialWindow(p, m) /\ UNCHANGED size
  BY DEF Measure
<1>2. /\ s \in PoolState /\ s.trial = ps[p].trial /\ s.before = ps[p].before
  BY CloseWindowTyped
<1> HIDE DEF s
<1>3. m \in PoolState /\ m.trial = s.trial /\ m.before = s.before
  BY <1>2, MeasuredTyped
<1> HIDE DEF m
<1> QED BY <1>1, <1>2, <1>3, TrialWindowBound

\* What judge makes of a direction: numbers of windows within their limits, and
\* a cap.
LEMMA JudgedDirection ==
    ASSUME NEW p \in Pool, NEW d \in Direction, NEW delta \in Nat, NEW g \in BOOLEAN
    PROVE  Kept(d, g) \in Direction /\ Reverted(d, p, delta) \in Direction
<1>1. /\ d.kept \in 0..RampAfterKept + 1 /\ d.next \in 0..MaxBackoff
      /\ RampAfterKept \in Nat /\ MaxBackoff \in Nat
      /\ FirstBackoff \in 0..MaxBackoff
  BY TunerNumbers DEF Direction
<1>2. PICK k \in 0..RampAfterKept + 1 : k = Min({d.kept + 1, RampAfterKept + 1})
  BY <1>1, MinOfTwo
<1>3. Kept(d, g) = [d EXCEPT !.cap = 0, !.next = 0, !.gained = g, !.kept = k]
  BY <1>2 DEF Kept, Direction
<1>4. 0 \in 0..MaxBackoff /\ 0 \in 0..RampAfterKept + 1 /\ 0 \in Nat
  BY <1>1
<1>5. Kept(d, g) \in Direction
  BY <1>2, <1>3, <1>4 DEF Direction
<1>6. PICK next \in 0..MaxBackoff : next = IF d.next = 0 THEN FirstBackoff ELSE d.next
  BY <1>1
<1>7. PICK nn \in 0..MaxBackoff : nn = Min({2 * next, MaxBackoff})
  BY <1>1, MinOfTwo
<1>8. PICK r \in Nat : r = Max({Step(p), RoundToStep(delta \div 2, p)})
  BY StepNumbers, delta \div 2 \in Nat, MaxOfTwo
<1>9. \/ Reverted(d, p, delta) = [d EXCEPT !.kept = 0, !.gained = FALSE, !.cap = r]
      \/ Reverted(d, p, delta) = [d EXCEPT !.kept = 0, !.gained = FALSE,
                             !.cap = Step(p), !.backoff = next, !.next = nn]
  BY <1>6, <1>7, <1>8 DEF Reverted
<1>10. Step(p) \in Nat
  BY StepNumbers
<1>11. Reverted(d, p, delta) \in Direction
  BY <1>4, <1>9, <1>10 DEF Direction
<1> QED BY <1>5, <1>11

\* judge keeps the size or undoes the change, and caps the next step.
LEMMA JudgeBound ==
    ASSUME BoundInv, NEW p \in Pool, Judge(p)
    PROVE  BoundInv'
<1> DEFINE s == CloseWindow(p, {})
           m == Measured(s)
           w == m.trial
           delta == IF w = "grow" THEN Size(p) - m.before ELSE m.before - Size(p)
           Done(d) == [Closed(m) EXCEPT !.grew = (w = "grow"), !.dir[w] = d]
<1>1. /\ w # "none"
      /\ \/ TrialWindow(p, Done(Reverted(m.dir[w], p, delta)))
            /\ size' = [size EXCEPT ![p] = Undo(p)]
         \/ \E g \in BOOLEAN : TrialWindow(p, Done(Kept(m.dir[w], g)))
            /\ UNCHANGED size
  BY DEF Judge
<1>2. /\ s \in PoolState /\ s.trial = ps[p].trial /\ s.before = ps[p].before
  BY CloseWindowTyped
<1> HIDE DEF s
<1>3. m \in PoolState /\ m.trial = s.trial /\ m.before = s.before
  BY <1>2, MeasuredTyped
<1> HIDE DEF m
<1>4. Running(p) /\ w \in Way
  BY <1>1, <1>2, <1>3 DEF Running, PoolState
<1>5. delta \in Nat
  BY <1>2, <1>3, <1>4, UndoLevel
<1> HIDE DEF delta
<1>6. ASSUME NEW d \in Direction
      PROVE  Done(d) \in PoolState /\ Done(d).trial = "none"
  <2>1. PICK c : c = Closed(m) /\ c \in PoolState /\ c.trial = "none"
    BY <1>3, ClosedTyped
  <2> DEFINE x == [c.dir EXCEPT ![w] = d]
  <2>2. x \in [Way -> Direction]
    BY <2>1, <1>4, <1>6 DEF PoolState
  <2>3. Done(d) = [c EXCEPT !.grew = (w = "grow"), !.dir = x]
    BY <2>1 DEF PoolState
  <2> HIDE DEF x, Done
  <2>4. PICK g \in BOOLEAN : Done(d) = [c EXCEPT !.grew = g, !.dir = x]
    BY <2>3, Zenon
  <2> QED BY <2>1, <2>2, <2>4 DEF PoolState
<1>7. m.dir[w] \in Direction
  BY <1>3, <1>4 DEF PoolState
<1> HIDE DEF Done
<1>8. CASE TrialWindow(p, Done(Reverted(m.dir[w], p, delta)))
           /\ size' = [size EXCEPT ![p] = Undo(p)]
  <2>1. PICK d \in Direction : d = Reverted(m.dir[w], p, delta)
    BY <1>5, <1>7, JudgedDirection
  <2> QED BY <1>4, <1>6, <1>8, <2>1, TrialWindowBound
<1>9. CASE \E g \in BOOLEAN : TrialWindow(p, Done(Kept(m.dir[w], g)))
           /\ UNCHANGED size
  <2>1. PICK g \in BOOLEAN : TrialWindow(p, Done(Kept(m.dir[w], g)))
    BY <1>9
  <2>2. PICK d \in Direction : d = Kept(m.dir[w], g)
    BY <1>5, <1>7, JudgedDirection
  <2> QED BY <1>6, <1>9, <2>1, <2>2, TrialWindowBound
<1> QED BY <1>1, <1>8, <1>9

-----------------------------------------------------------------------------
(* Starting a trial *)

\* What startTrial wants is a number of threads.
LEMMA WantedNumber ==
    ASSUME BoundInv, NEW p \in Pool, NEW s, NEW w \in Way, NEW busy,
           s.dir[w].cap \in Nat
    PROVE  Wanted(s, p, w, busy) \in Nat
<1>1. Size(p) \in Nat
  BY SizeOfLevel
<1>2. Quarter(p) \in Nat /\ Quarter(p) * 4 \in Nat /\ Quarter(p) * 2 \in Nat
  BY <1>1 DEF Quarter
<1> DEFINE first == Max({Step(p), RoundToStep(Quarter(p), p)})
           Ramp(mult) == Max({first, RoundToStep(Quarter(p) * mult, p)})
<1>3. first \in Nat
  BY <1>2, StepNumbers, MaxOfTwo
<1> HIDE DEF first
<1>4. Ramp(4) \in Nat /\ Ramp(2) \in Nat
  <2>1. PICK a \in Nat, b \in Nat : /\ a = RoundToStep(Quarter(p) * 4, p)
                                   /\ b = RoundToStep(Quarter(p) * 2, p)
    BY <1>2, StepNumbers
  <2>2. Max({first, a}) \in Nat /\ Max({first, b}) \in Nat
    BY <1>3, MaxOfTwo
  <2> QED BY <2>1, <2>2
<1> HIDE DEF Ramp
<1>5. PICK n \in Nat :
        Wanted(s, p, w, busy) = IF s.dir[w].cap > 0 THEN Min({n, s.dir[w].cap}) ELSE n
  <2>1. \E n \in {first, Ramp(4), Ramp(2)} :
           Wanted(s, p, w, busy) = IF s.dir[w].cap > 0 THEN Min({n, s.dir[w].cap}) ELSE n
    BY Zenon DEF Wanted, first, Ramp
  <2> QED BY <1>3, <1>4, <2>1
<1> QED BY <1>5, MinOfTwo

\* A grow asks for no more than the ceiling leaves (startTrial).
LEMMA GrowSizesFit ==
    ASSUME BoundInv, NEW p \in Pool, NEW s, NEW busy, WantGrow(s, p, busy),
           s.dir["grow"].cap \in Nat, NEW n \in GrowSizes(s, p, busy)
    PROVE  n \in Nat /\ n <= Bounds[p].max - Size(p)
<1>1. Wanted(s, p, "grow", busy) \in Nat
  BY WantedNumber DEF Way
<1>2. PICK room \in Nat : room = Bounds[p].max - Size(p)
  <2>1. Size(p) \in Nat /\ Bounds[p].max \in Nat /\ Size(p) < Bounds[p].max
    BY SizeOfLevel, PoolNumbers DEF WantGrow
  <2> QED BY <2>1
<1>3. n = Min({Wanted(s, p, "grow", busy), room})
  BY <1>2 DEF GrowSizes
<1> QED BY <1>1, <1>2, <1>3, MinOfTwo

\* A shrink asks for no more than there is above the floor, also when it is cut
\* step by step (startTrial).
LEMMA ShrinkSizesFit ==
    ASSUME BoundInv, NEW p \in Pool, NEW s, NEW busy, WantShrink(s, p, busy),
           s.dir["shrink"].cap \in Nat, NEW k \in ShrinkSizes(s, p, busy)
    PROVE  k \in Nat /\ k <= Size(p) - Bounds[p].min
<1>1. PICK room \in Nat : room = Size(p) - Bounds[p].min
  <2>1. Size(p) \in Nat /\ Bounds[p].min \in Nat /\ Size(p) > Bounds[p].min
    BY SizeOfLevel, PoolNumbers DEF WantShrink
  <2> QED BY <2>1
<1> DEFINE m == Min({Wanted(s, p, "shrink", busy), Size(p) - Bounds[p].min})
           n == IF busy = "pegged" /\ ~s.dir["shrink"].gained
                  THEN Min({m, RoundToStep(Quarter(p), p)}) ELSE m
<1>2. k = n \/ k \in 0..n
  BY DEF ShrinkSizes
<1>3. Wanted(s, p, "shrink", busy) \in Nat
  BY WantedNumber DEF Way
<1>4. m \in Nat /\ m <= room
  BY <1>1, <1>3, MinOfTwo
<1> HIDE DEF m
<1>5. RoundToStep(Quarter(p), p) \in Nat
  <2>1. Quarter(p) \in Nat
    BY SizeOfLevel DEF Quarter
  <2> QED BY <2>1, StepNumbers
<1>6. n \in Nat /\ n <= m
  BY <1>4, <1>5, MinOfTwo
<1> HIDE DEF n
<1> QED BY <1>1, <1>2, <1>4, <1>6

\* What startTrial asks for stays within the bounds.
LEMMA TrialsFit ==
    ASSUME BoundInv, NEW p \in Pool, NEW s \in PoolState,
           NEW t \in Trials(s, p), t[2] > 0
    PROVE  /\ t[2] \in Nat /\ t[1] \in Way
           /\ t[1] = "grow" => t[2] <= Bounds[p].max - Size(p)
           /\ t[1] = "shrink" => t[2] <= Size(p) - Bounds[p].min
<1>1. PICK busy \in Band :
        \/ WantGrow(s, p, busy) /\ t \in {"grow"} \X GrowSizes(s, p, busy)
        \/ WantShrink(s, p, busy) /\ t \in {"shrink"} \X ShrinkSizes(s, p, busy)
        \/ t = <<"none", 0>>
  <2>1. PICK busy \in Band :
        t \in CASE WantGrow(s, p, busy) -> {"grow"} \X GrowSizes(s, p, busy)
             [] WantShrink(s, p, busy) -> {"shrink"} \X ShrinkSizes(s, p, busy)
             [] OTHER -> {<<"none", 0>>}
    BY Zenon DEF Trials
  <2> QED BY <2>1
<1>2. s.dir["grow"].cap \in Nat /\ s.dir["shrink"].cap \in Nat
  BY DEF PoolState, Direction, Way
<1>3. CASE WantGrow(s, p, busy) /\ t \in {"grow"} \X GrowSizes(s, p, busy)
  <2>1. t[1] = "grow" /\ t[2] \in GrowSizes(s, p, busy)
    BY <1>3
  <2> QED BY <1>2, <1>3, <2>1, GrowSizesFit DEF Way
<1>4. CASE WantShrink(s, p, busy) /\ t \in {"shrink"} \X ShrinkSizes(s, p, busy)
  <2>1. t[1] = "shrink" /\ t[2] \in ShrinkSizes(s, p, busy)
    BY <1>4
  <2> QED BY <1>2, <1>4, <2>1, ShrinkSizesFit DEF Way
<1>5. CASE t = <<"none", 0>>
  BY <1>5
<1> QED BY <1>1, <1>3, <1>4, <1>5

\* The pools are numbered, and the turn goes round.
LEMMA TurnIsPool ==
    /\ 1 \in Pool
    /\ \A p \in Pool : (p % Cardinality(Pool)) + 1 \in Pool
<1>1. PICK n \in Nat : Pool = 1..n /\ n # 0
  <2>1. Len(Threads) \in Nat /\ Pool = 1..Len(Threads) /\ Len(Threads) # 0
    BY TunerPools DEF Pool
  <2> QED BY <2>1
<1>2. Cardinality(Pool) = n
  BY <1>1, FS_Interval, 1 \in Int, n \in Int
<1>3. \A p \in 1..n : (p % n) + 1 \in 1..n
  BY <1>1
<1> QED BY <1>1, <1>2, <1>3

\* The history of steady windows has its length.
LEMMA RecentTyped ==
    ASSUME BoundInv, NEW load \in BOOLEAN, NEW v \in Recent(load)
    PROVE  v \in 0..LevelWindows
<1>1. levels \in 0..LevelWindows /\ LevelWindows \in Nat
  BY TunerNumbers DEF BoundInv
<1>2. Min({levels + 1, LevelWindows}) \in 0..LevelWindows
      /\ Min({1, LevelWindows}) \in 0..LevelWindows
  BY <1>1, MinOfTwo
<1> QED BY <1>1, <1>2 DEF Recent

\* A window without a trial changes no size (decide).
LEMMA RestBound ==
    ASSUME BoundInv, Rest
    PROVE  BoundInv'
<1>1. PICK moved : ps' = [p \in Pool |-> CloseWindow(p, moved)]
  BY DEF Rest
<1>2. levels' \in 0..LevelWindows /\ UNCHANGED <<size, nextPool>>
  BY RecentTyped DEF Rest
<1>3. \A p \in Pool : /\ ps'[p] \in PoolState
                      /\ ps'[p].trial = ps[p].trial /\ ps'[p].before = ps[p].before
  BY <1>1, CloseWindowTyped
<1>4. ps' \in [Pool -> PoolState]
  BY <1>1, <1>3
<1>5. \A p \in Pool : Level(p)' /\ (Running(p)' => Undoable(p)')
  BY <1>2, <1>3 DEF BoundInv, Level, Undoable, Running
<1>6. size' = [p \in Pool |-> size'[p]] /\ nextPool' \in Pool
  BY <1>2 DEF BoundInv
<1> QED BY <1>2, <1>4, <1>5, <1>6 DEF BoundInv

\* A trial starts with a step that stays within the bounds (startTrial).
LEMMA StartTrialBound ==
    ASSUME BoundInv, StartTrial
    PROVE  BoundInv'
<1> DEFINE F(moved) == [q \in Pool |-> CloseWindow(q, moved)]
<1>0. PICK moved \in SUBSET Waiting, p \in Pool :
        /\ Try(F(moved), p)
        /\ nextPool' = nextPool \/ nextPool' = (p % Cardinality(Pool)) + 1
  BY Zenon DEF StartTrial
<1> DEFINE s == CloseWindow(p, moved)
<1>1. PICK t \in Trials(F(moved)[p], p), m \in MeasureWindows :
        /\ t[2] > 0
        /\ ps' = [F(moved) EXCEPT ![p] = Opened(F(moved)[p], p, t[1], m)]
        /\ size' = [size EXCEPT ![p] = IF t[1] = "grow" THEN GrowPool(p, t[2])
                                                        ELSE ShrinkPool(p, t[2])]
  BY <1>0 DEF Try
<1> DEFINE o == Opened(s, p, t[1], m)
<1>2. ps' = [q \in Pool |-> IF q = p THEN o ELSE CloseWindow(q, moved)]
  BY <1>1
<1>3. \A q \in Pool : LET c == CloseWindow(q, moved) IN
                      /\ c \in PoolState
                      /\ c.trial = ps[q].trial /\ c.before = ps[q].before
  BY CloseWindowTyped
<1>4. s \in PoolState /\ t \in Trials(s, p)
  BY <1>1, <1>3
<1> HIDE DEF s
<1>5. /\ t[2] \in Nat /\ t[1] \in Way
      /\ t[1] = "grow" => t[2] <= Bounds[p].max - Size(p)
      /\ t[1] = "shrink" => t[2] <= Size(p) - Bounds[p].min
  BY <1>1, <1>4, TrialsFit
<1>6. PICK n \in Nat \ {0} : n = t[2]
  BY <1>1, <1>5
<1>7. Size(p) \in Nat /\ InBounds(p, Size(p))
  BY SizeOfLevel
<1>8. o \in PoolState /\ o.trial = t[1] /\ o.before = Size(p)
  BY <1>4, <1>5, <1>7 DEF Opened, PoolState
<1>9. ps'[p] = o /\ \A q \in Pool \ {p} : ps'[q] = CloseWindow(q, moved)
  BY <1>2
<1> HIDE DEF o
<1>10. ps' \in [Pool -> PoolState]
  BY <1>2, <1>3, <1>8
<1>11. /\ size' = [q \in Pool |-> size'[q]]
       /\ \A q \in Pool \ {p} : size'[q] = size[q]
       /\ size'[p] = IF t[1] = "grow" THEN GrowPool(p, n) ELSE ShrinkPool(p, n)
  BY <1>1, <1>6 DEF BoundInv
<1>12. Level(p)' /\ Undoable(p)'
  <2>1. CASE t[1] = "grow"
    <3>1. /\ Shape(p, GrowPool(p, n)) /\ InBounds(p, Total(GrowPool(p, n)))
          /\ Grown(p, GrowPool(p, n), Size(p))
      BY <1>5, <1>6, <2>1, GrowLevel
    <3>2. size'[p] = GrowPool(p, n)
      BY <1>11, <2>1
    <3>3. Level(p)'
      BY <3>1, <3>2 DEF Level
    <3>4. Undoable(p)'
      BY <1>7, <1>8, <1>9, <2>1, <3>1, <3>2 DEF Undoable
    <3> QED BY <3>3, <3>4
  <2>2. CASE t[1] = "shrink"
    <3>1. /\ Shape(p, ShrinkPool(p, n)) /\ InBounds(p, Total(ShrinkPool(p, n)))
          /\ Shrunk(p, ShrinkPool(p, n), Size(p))
      BY <1>5, <1>6, <2>2, ShrinkLevel
    <3>2. size'[p] = ShrinkPool(p, n)
      BY <1>11, <2>2
    <3>3. Level(p)'
      BY <3>1, <3>2 DEF Level
    <3>4. Undoable(p)'
      BY <1>7, <1>8, <1>9, <2>2, <3>1, <3>2 DEF Undoable
    <3> QED BY <3>3, <3>4
  <2> QED BY <1>5, <2>1, <2>2 DEF Way
<1>13. \A q \in Pool \ {p} : Level(q)' /\ (Running(q)' => Undoable(q)')
  BY <1>3, <1>9, <1>11 DEF BoundInv, Level, Undoable, Running
<1>14. /\ nextPool' \in Pool /\ levels' \in 0..LevelWindows
  BY <1>0, TurnIsPool, RecentTyped DEF BoundInv, StartTrial
<1> QED BY <1>10, <1>11, <1>12, <1>13, <1>14 DEF BoundInv

-----------------------------------------------------------------------------
(* Theorems about sizes *)

\* The threads asked for are spread evenly, with one per shard at least.
LEMMA SplitSpread ==
    ASSUME NEW p \in Pool
    PROVE  \E c, r \in Nat : /\ r < Shards[p] /\ c >= 1
                             /\ Split(Threads[p], Shards[p]) = Spread(c, r, Shards[p])
                             /\ Shards[p] * c + r = Made(p)
<1>1. PICK s \in Nat \ {0}, n \in Nat : s = Shards[p] /\ n = Threads[p]
  BY PoolNumbers
<1>2. Made(p) = IF n >= s THEN n ELSE s
  BY <1>1, MaxOfTwo DEF Made
<1>3. PICK a \in Nat, b \in Nat : /\ a = n \div s /\ b = n % s /\ b < s
                                  /\ n = s * a + b
  <2>1. n \div s \in Nat /\ n % s \in Nat /\ n % s < s
        /\ n = (s * (n \div s)) + (n % s)
    OBVIOUS
  <2> QED BY <2>1
<1>4. Split(n, s) = [i \in 1..s |-> Max({1, a}) + (IF n > s /\ i <= b THEN 1 ELSE 0)]
  BY <1>3 DEF Split
<1>5. Max({1, a}) = IF 1 >= a THEN 1 ELSE a
  BY MaxOfTwo
<1>6. CASE n > s
  <2>1. a # 0
    BY <1>3, <1>6
  <2>2. Max({1, a}) = a /\ a >= 1
    BY <1>5, <2>1
  <2>3. Split(n, s) = Spread(a, b, s)
    BY <1>4, <1>6, <2>2 DEF Spread
  <2>4. Made(p) = s * a + b
    BY <1>2, <1>3, <1>6
  <2> QED BY <1>1, <1>3, <2>2, <2>3, <2>4
<1>7. CASE ~(n > s)
  <2>1. a = 0 \/ a = 1
    <3>1. ASSUME a >= 2 PROVE FALSE
      <4>1. s * a >= s * 2 /\ s * a \in Nat
        BY <3>1
      <4> QED BY <1>3, <1>7, <4>1
    <3> QED BY <3>1
  <2>2. Max({1, a}) = 1
    BY <1>5, <2>1
  <2>3. Split(n, s) = Spread(1, 0, s)
    BY <1>4, <1>7, <2>2 DEF Spread
  <2>4. Made(p) = s * 1 + 0 /\ 0 < s
    BY <1>2, <1>7
  <2> QED BY <1>1, <2>3, <2>4
<1> QED BY <1>6, <1>7

\* The shortest measurement is one of them.
LEMMA ShortestMeasurement == Min(MeasureWindows) \in MeasureWindows
<1> DEFINE Small(n) == \A m \in MeasureWindows : n <= m
           S == {n \in Nat : Small(n)}
<1>0. PICK m0 \in MeasureWindows : m0 \in Nat
  BY TunerNumbers
<1>1. SUFFICES \E n \in MeasureWindows : Small(n)
  BY DEF Min
<1>2. SUFFICES ASSUME ~\E n \in MeasureWindows : Small(n) PROVE FALSE
  OBVIOUS
<1>3. 0 \in S
  BY TunerNumbers
<1>4. \A n \in Nat : n \in S => n + 1 \in S
  BY <1>2, TunerNumbers
<1>5. m0 + 1 \in S
  <2> HIDE DEF S
  <2> QED BY <1>0, <1>3, <1>4, NatSetInduction
<1> QED BY <1>0, <1>5

\* In every window the shards of a pool differ by a thread at most, its size is
\* within its bounds but for a thread per shard, and what a trial found can be
\* told from what it made (decide, startTrial, judge).
THEOREM BoundInvariant == Spec => []BoundInv
<1>1. Init => BoundInv
  <2> SUFFICES ASSUME Init PROVE BoundInv
    OBVIOUS
  <2> DEFINE o == [trial |-> "none", before |-> 0, measured |-> 0, since |-> 0,
                measure |-> Min(MeasureWindows), settled |-> 0,
                grew |-> FALSE, dir |-> [w \in Way |-> Fresh]]
  <2>1. ps = [p \in Pool |-> o]
        /\ size = [p \in Pool |-> Split(Threads[p], Shards[p])]
        /\ levels = 0 /\ nextPool = 1
    BY DEF Init
  <2>2. Fresh \in Direction
    BY TunerNumbers DEF Fresh, Direction
  <2>3. [w \in Way |-> Fresh] \in [Way -> Direction]
    BY <2>2
  <2>4. o \in PoolState /\ o.trial = "none"
    BY <2>2, <2>3, ShortestMeasurement DEF PoolState
  <2> HIDE DEF o
  <2>5. ps \in [Pool -> PoolState] /\ \A p \in Pool : ps[p] = o
    BY <2>1, <2>4
  <2>6. ASSUME NEW p \in Pool
        PROVE  Level(p) /\ ~Running(p)
    <3>1. PICK t \in Nat : t = Shards[p]
      BY PoolNumbers
    <3>2. PICK c \in Nat, r \in Nat : /\ r < t /\ c >= 1
                                      /\ size[p] = Spread(c, r, t)
                                      /\ t * c + r = Made(p)
      BY <2>1, <3>1, SplitSpread
    <3>3. Total(size[p]) = Made(p)
      BY <3>2, r <= t, TotalOfSpread
    <3>4. InBounds(p, Made(p))
      BY PoolNumbers DEF InBounds
    <3>5. c >= Floor(p)
      BY <3>2, PoolNumbers
    <3>6. Shape(p, size[p])
      BY <3>1, <3>2, <3>5 DEF Shape
    <3> QED BY <2>4, <2>5, <3>3, <3>4, <3>6 DEF Running, Level
  <2>7. levels \in 0..LevelWindows /\ nextPool \in Pool
        /\ size = [p \in Pool |-> size[p]]
    BY <2>1, TurnIsPool, TunerNumbers
  <2> QED BY <2>5, <2>6, <2>7 DEF BoundInv
<1>2. BoundInv /\ [Next]_vars => BoundInv'
  <2> SUFFICES ASSUME BoundInv, [Next]_vars PROVE BoundInv'
    OBVIOUS
  <2>1. CASE Rest
    BY <2>1, RestBound
  <2>2. CASE StartTrial
    BY <2>2, StartTrialBound
  <2>3. CASE InTrial
    BY <2>3, NotSettledBound, NoLoadBound, MeasureBound, JudgeBound DEF InTrial
  <2>4. CASE UNCHANGED vars
    BY <2>4 DEF vars, BoundInv, Level, Undoable, Running
  <2> QED BY <2>1, <2>2, <2>3, <2>4 DEF Next
<1> QED BY <1>1, <1>2, PTL DEF Spec

\* For every number of threads, shards and bounds: a pool's shards differ by a
\* thread at most, a shard of writers keeps one, and the size of the pool stays
\* within its bounds but for a thread per shard, through every ramp, retry,
\* undone and abandoned trial (startTrial, judge, ShardedPoolGroup).
THEOREM PoolsStayWithinBounds == Spec => []WithinBounds
<1>1. BoundInv => WithinBounds
  <2> SUFFICES ASSUME BoundInv PROVE WithinBounds
    OBVIOUS
  <2>1. ASSUME NEW p \in Pool
        PROVE  /\ size[p] \in [1..Shards[p] -> Nat]
               /\ \A i, j \in 1..Shards[p] : size[p][i] <= size[p][j] + 1
               /\ p \in KeepsOne => \A i \in 1..Shards[p] : size[p][i] > 0
    <3>1. PICK s \in Nat : s = Shards[p]
      BY PoolNumbers
    <3>2. PICK c \in Nat, r \in Nat : c >= Floor(p) /\ size[p] = Spread(c, r, s)
      BY <3>1 DEF BoundInv, Level, Shape
    <3>3. \A i \in 1..s : size[p][i] = c + (IF i <= r THEN 1 ELSE 0)
      BY <3>2 DEF Spread
    <3>4. size[p] \in [1..s -> Nat]
      BY <3>2 DEF Spread
    <3>5. p \in KeepsOne => c >= 1
      BY <3>2 DEF Floor
    <3> QED BY <3>1, <3>3, <3>4, <3>5
  <2>2. TypeOK
    BY <2>1 DEF BoundInv, TypeOK
  <2>3. ASSUME NEW p \in Pool
        PROVE  /\ Size(p) > Bounds[p].min - Step(p)
               /\ Size(p) <= Max({Bounds[p].max, Made(p)}) + Step(p)
    BY SizeOfLevel DEF InBounds, Ceiling, Step
  <2> QED BY <2>1, <2>2, <2>3 DEF WithinBounds
<1> QED BY <1>1, BoundInvariant, PTL

\* A trial that ends keeps its size or leaves what Undo makes of it.
LEMMA TrialEnds ==
    ASSUME BoundInv, TrialInv, Next, NEW p \in Pool, Running(p)
    PROVE  Total(size'[p]) = Size(p) \/ UndoneTo(p, Total(size'[p]))
<1>0. UNCHANGED size => Total(size'[p]) = Size(p)
  BY DEF Size
<1>1. size' = [size EXCEPT ![p] = Undo(p)] => UndoneTo(p, Total(size'[p]))
  <2> SUFFICES ASSUME size' = [size EXCEPT ![p] = Undo(p)]
               PROVE  UndoneTo(p, Total(size'[p]))
    OBVIOUS
  <2>1. size'[p] = Undo(p)
    BY DEF BoundInv
  <2>2. UndoneTo(p, Total(Undo(p)))
    BY UndoLevel
  <2> QED BY <2>1, <2>2
<1>2. CASE Rest
  BY <1>0, <1>2 DEF Rest
<1>3. CASE StartTrial
  BY <1>3 DEF StartTrial, Steady, Running
<1>4. ASSUME NEW q \in Pool, NotSettled(q) \/ Measure(q)
      PROVE  Total(size'[p]) = Size(p)
  BY <1>0, <1>4 DEF NotSettled, Measure
<1>5. ASSUME NEW q \in Pool, NoLoad(q)
      PROVE  UNCHANGED size \/ size' = [size EXCEPT ![p] = Undo(p)]
  <2>1. CloseWindow(q, {}).trial # "none" /\ CloseWindow(q, {}).trial = ps[q].trial
    BY <1>5, CloseWindowTyped DEF NoLoad
  <2>2. p = q
    BY <2>1 DEF TrialInv, Running
  <2> QED BY <1>5, <2>2 DEF NoLoad
<1>6. ASSUME NEW q \in Pool, Judge(q)
      PROVE  UNCHANGED size \/ size' = [size EXCEPT ![p] = Undo(p)]
  <2>1. Measured(CloseWindow(q, {})).trial # "none"
    BY <1>6 DEF Judge
  <2>2. CloseWindow(q, {}) \in PoolState /\ CloseWindow(q, {}).trial = ps[q].trial
    BY CloseWindowTyped
  <2>3. p = q
    BY <2>1, <2>2, MeasuredTyped DEF TrialInv, Running
  <2> QED BY <1>6, <2>3 DEF Judge
<1> QED BY <1>0, <1>1, <1>2, <1>3, <1>4, <1>5, <1>6 DEF Next, InTrial

\* For every number of threads, shards and bounds: a trial ends with the size it
\* made or the size it found; only a shrink that found uneven shards, or had
\* nothing to take, ends with the size it found rounded to threads per shard
\* (judge, decide).
THEOREM UndoIsExact == Spec => UndoRestores
<1>1. BoundInv /\ TrialInv /\ [Next]_vars =>
       [\A p \in Pool : ps[p].trial # "none" /\ ps'[p].trial = "none" =>
         LET before == ps[p].before
             after  == Total(size'[p])
             rough  == /\ ps[p].trial = "shrink"
                       /\ before % Step(p) # 0 \/ Size(p) = before
         IN  \/ after \in {Size(p), before}
             \/ rough /\ after - RoundToStep(before, p) \in {0, Step(p)}]_vars
  <2> SUFFICES ASSUME BoundInv, TrialInv, Next, NEW p \in Pool, Running(p)
               PROVE  LET before == ps[p].before
                          after  == Total(size'[p])
                          rough  == /\ ps[p].trial = "shrink"
                                    /\ before % Step(p) # 0 \/ Size(p) = before
                      IN  \/ after \in {Size(p), before}
                          \/ rough /\ after - RoundToStep(before, p) \in {0, Step(p)}
    BY Zenon DEF Running
  <2>1. Total(size'[p]) = Size(p) \/ UndoneTo(p, Total(size'[p]))
    BY TrialEnds
  <2> QED BY <2>1 DEF UndoneTo
<1> QED BY <1>1, BoundInvariant, TrialInvariant, PTL DEF Spec, UndoRestores

=============================================================================
