-------------------------- MODULE Scheduler_proofs --------------------------
(***************************************************************************)
(* The scheduler's safety properties, for every set of tasks and           *)
(* priorities, every tick width and every program.  SchedInv is the        *)
(* inductive invariant: Sound says what holds of the lists between two     *)
(* critical sections, Placed where the tasks are inside the API, Chosen    *)
(* what is known of the task that runs, and Counted ties the timeouts to   *)
(* the ticks.  TaskLists_proofs proves what each kernel operation does to  *)
(* the lists; here each action puts its operations together.               *)
(***************************************************************************)
EXTENDS Scheduler, TaskLists_proofs

Labels == {"run", "delay", "block", "heap", "resume", "yield", "deleted"}
Suspending == {"delay", "block", "heap", "resume"}

\* Where the tasks are inside the API: only the running one can be where the
\* scheduler is suspended.
Placed ==
    /\ pc \in [Tasks -> [at : Labels, ticks : Ticks]]
    /\ \A t \in Tasks : pc[t].at \in {"delay", "block"} => pc[t].ticks \in Delays
    /\ \A t \in Tasks \ {cur} : pc[t].at \notin Suspending
    /\ k.suspended = IF pc[cur].at \in Suspending THEN 1 ELSE 0
    /\ \A t \in Tasks : pc[t].at = "deleted" <=> t \notin ReadyTasks(k) \cup DelayedTasks(k)

Chosen ==
    /\ Idle \in ReadyTasks(k) /\ pc[Idle].at \notin {"delay", "block"}
    /\ pc[cur].at \in {"run", "heap", "delay", "block"} => cur \in ReadyTasks(k)
    /\ pc[cur].at \in {"run", "heap"} => NoneAbove(k)

Counted ==
    /\ k.pendedTicks <= MaxPended
    /\ k.suspended = 0 => k.pending = <<>> /\ k.pendedTicks = 0
    /\ taken = (k.tick + k.pendedTicks) % TickMod
    /\ left \in [Tasks -> Nat] /\ Clocked(k, left)

SchedInv ==
    /\ program \in Programs /\ Sound(k) /\ k.base = k.prio
    /\ Placed /\ Chosen /\ Counted

-----------------------------------------------------------------------------

LEMMA Known ==
    ASSUME SchedInv
    PROVE  /\ k \in KState /\ WellFormed(k) /\ Separate(k) /\ Timely(k)
           /\ cur \in Tasks /\ Idle \in Tasks /\ Priorities \subseteq Int
           /\ k.prio \in [Tasks -> Priorities] /\ k.suspended \in Nat /\ k.pendedTicks \in Nat
           /\ DelayedTasks(k) \subseteq Tasks /\ ReadyTasks(k) \subseteq Tasks
           /\ QueueList \in EventLists /\ Delays \subseteq Ticks \ {0} /\ 0 \in Ticks
<1>1. k \in KState /\ WellFormed(k) /\ Separate(k) /\ Timely(k)
  BY DEF SchedInv, Sound, WellFormed
<1>2. DelayedTasks(k) \subseteq Tasks
  BY <1>1, KernelFields, ToSetIn DEF DelayedTasks
<1>3. ReadyTasks(k) \subseteq Tasks
  BY <1>1, ToSetIn DEF WellFormed, ListOK, ReadyTasks
<1>4. /\ QueueList \in EventLists /\ Delays \subseteq Ticks \ {0} /\ Idle \in Tasks
      /\ 0 \in Ticks /\ Priorities \subseteq Int
  BY SchedulerAssumption, TaskListsAssumption DEF QueueList, Ticks
<1>. QED
  BY <1>1, <1>2, <1>3, <1>4, KernelFields DEF cur

LEMMA StillNoneAbove ==
    ASSUME NEW a, NEW b, SameSets(a, b), b.cur = a.cur, b.yieldPending = a.yieldPending,
           NoneAbove(a)
    PROVE  NoneAbove(b)
  BY DEF NoneAbove, SameSets

\* The running task goes on at p, no task is created or deleted.
LEMMA PlacedAs ==
    ASSUME SchedInv, NEW p \in [at : Labels, ticks : Ticks], pc' = [pc EXCEPT ![cur] = p],
           p.at \in {"delay", "block"} => p.ticks \in Delays,
           k'.cur \in Tasks, p.at \in Suspending => k'.cur = k.cur,
           k'.suspended = IF p.at \in Suspending THEN 1 ELSE 0,
           ReadyTasks(k') \cup DelayedTasks(k') = ReadyTasks(k) \cup DelayedTasks(k),
           p.at = "deleted" <=> pc[cur].at = "deleted"
    PROVE  Placed'
<1>1. cur \in Tasks /\ cur = k.cur /\ pc \in [Tasks -> [at : Labels, ticks : Ticks]]
  BY Known DEF SchedInv, Placed, cur
<1>2. pc' \in [Tasks -> [at : Labels, ticks : Ticks]]
  BY <1>1
<1>3. \A t \in Tasks : pc'[t] = IF t = cur THEN p ELSE pc[t]
  BY <1>1
<1>4. \A t \in Tasks : pc'[t].at \in {"delay", "block"} => pc'[t].ticks \in Delays
  BY <1>3 DEF SchedInv, Placed
<1>5. \A t \in Tasks \ {k'.cur} : pc'[t].at \notin Suspending
  BY <1>1, <1>3 DEF SchedInv, Placed
<1>6. k'.suspended = IF pc'[k'.cur].at \in Suspending THEN 1 ELSE 0
  BY <1>1, <1>3 DEF SchedInv, Placed
<1>7. \A t \in Tasks : pc'[t].at = "deleted" <=> t \notin ReadyTasks(k') \cup DelayedTasks(k')
  BY <1>1, <1>3 DEF SchedInv, Placed
<1>. QED
  BY <1>2, <1>4, <1>5, <1>6, <1>7 DEF Placed, cur

LEMMA PlacedStill ==
    ASSUME SchedInv, pc' = pc, k'.cur \in Tasks,
           pc[cur].at \in Suspending => k'.cur = k.cur, k'.suspended = k.suspended,
           ReadyTasks(k') \cup DelayedTasks(k') = ReadyTasks(k) \cup DelayedTasks(k)
    PROVE  Placed'
<1>1. cur \in Tasks /\ pc \in [Tasks -> [at : Labels, ticks : Ticks]]
  BY Known DEF SchedInv, Placed
<1>2. pc' = [pc EXCEPT ![cur] = pc[cur]] /\ pc[cur] \in [at : Labels, ticks : Ticks]
  BY <1>1
<1>3. /\ pc[cur].at \in {"delay", "block"} => pc[cur].ticks \in Delays
      /\ k'.suspended = IF pc[cur].at \in Suspending THEN 1 ELSE 0
  BY <1>1 DEF SchedInv, Placed
<1>. QED
  BY <1>2, <1>3, PlacedAs

-----------------------------------------------------------------------------
(* Suspending, blocking and resuming *)

LEMMA SuspendKeeps ==
    ASSUME SchedInv, UNCHANGED <<program, left, taken>>, pc[cur].at = "run", k' = SuspendAll(k),
           NEW p \in [at : {"heap", "delay", "block"}, ticks : Ticks], Goto(p),
           p.at # "heap" => p.ticks \in Delays /\ cur # Idle
    PROVE  SchedInv'
<1>1. /\ Sound(k') /\ SameSets(k, k') /\ k'.cur = k.cur /\ k'.suspended = k.suspended + 1
      /\ k'.pendedTicks = k.pendedTicks /\ k'.yieldPending = k.yieldPending
  BY SuspendAllIs DEF SchedInv
<1>2. /\ DelayedTasks(k') = DelayedTasks(k) /\ ReadyTasks(k') = ReadyTasks(k)
      /\ NoneAbove(k) => NoneAbove(k')
      /\ Clocked(k, left) => Clocked(k', left)
  <2>1. WellFormed(k')
    BY <1>1 DEF Sound
  <2>. QED
    BY <1>1, <2>1, StillNoneAbove, SameSetsSound DEF SchedInv
<1>3. pc' = [pc EXCEPT ![cur] = p] /\ p.at \in {"heap", "delay", "block"} /\ left' = left /\ taken' = taken
  BY DEF Goto
<1>4. cur \in Tasks /\ cur = k.cur /\ pc \in [Tasks -> [at : Labels, ticks : Ticks]] /\ Idle \in Tasks
  BY Known DEF SchedInv, Placed, cur
<1>5. k.suspended = 0
  BY DEF SchedInv, Placed, Suspending
<1>6. Placed'
  <2>1. p \in [at : Labels, ticks : Ticks]
    BY DEF Labels
  <2>2. p.at \in Suspending /\ p.at # "deleted" /\ pc[cur].at # "deleted"
    BY <1>3 DEF Suspending
  <2>3. p.at \in {"delay", "block"} => p.ticks \in Delays
    OBVIOUS
  <2>4. k'.suspended = 1 /\ k'.cur \in Tasks
    BY <1>1, <1>4, <1>5
  <2>. QED
    BY <1>1, <1>2, <1>3, <2>1, <2>2, <2>3, <2>4, PlacedAs
<1>7. Chosen'
  <2>1. \A t \in Tasks : pc'[t] = IF t = cur THEN p ELSE pc[t]
    BY <1>3, <1>4
  <2>2. cur \in ReadyTasks(k) /\ NoneAbove(k) /\ Idle \in ReadyTasks(k)
    BY DEF SchedInv, Chosen
  <2>3. pc'[Idle].at \notin {"delay", "block"}
    BY <1>3, <1>4, <2>1 DEF SchedInv, Chosen
  <2>. QED
    BY <1>1, <1>2, <1>4, <2>2, <2>3 DEF Chosen, cur
<1>8. Counted'
  BY <1>1, <1>2, <1>3, <1>5 DEF SchedInv, Counted, SameSets
<1>. QED
  BY <1>1, <1>6, <1>7, <1>8 DEF SchedInv, SameSets

LEMMA SleepKeeps ==
    ASSUME SchedInv, UNCHANGED <<program, taken>>, pc[cur].at \in {"delay", "block"},
           Sleeps(k, pc[cur].ticks, k'), left' = [left EXCEPT ![cur] = pc[cur].ticks],
           Goto(At("resume", 0))
    PROVE  SchedInv'
<1>. DEFINE n == pc[cur].ticks
<1>1. cur \in Tasks /\ cur = k.cur /\ Idle \in Tasks /\ 0 \in Ticks /\ n \in Delays /\ n \in Nat
  BY Known DEF SchedInv, Placed, cur, Ticks
<1>2. /\ Sound(k') /\ SameRest(k, k') /\ k'.pending = k.pending
      /\ DelayedTasks(k') = DelayedTasks(k) \cup {cur}
      /\ ReadyTasks(k') = ReadyTasks(k) \ {cur}
  BY <1>1, SMTT(30) DEF Sleeps, ReadyTasks
<1>3. pc' = [pc EXCEPT ![cur] = At("resume", 0)] /\ At("resume", 0) \in [at : Labels, ticks : Ticks]
      /\ At("resume", 0).at = "resume"
  BY <1>1 DEF Goto, At, Labels
<1>4. k.suspended = 1 /\ cur \in ReadyTasks(k) /\ cur # Idle
  BY <1>1 DEF SchedInv, Placed, Chosen, Suspending
<1>5. Placed'
  BY <1>1, <1>2, <1>3, <1>4, PlacedAs DEF SameRest, Suspending
<1>6. Chosen'
  <2>1. pc'[cur].at = "resume" /\ pc'[Idle] = pc[Idle] /\ k'.cur = cur
    BY <1>1, <1>2, <1>3, <1>4 DEF SchedInv, Placed, SameRest
  <2>. QED
    BY <1>2, <1>4, <2>1 DEF SchedInv, Chosen, cur
<1>7. Counted'
  <2>1. left \in [Tasks -> Nat] /\ Clocked(k, left)
    BY DEF SchedInv, Counted
  <2>2. left' \in [Tasks -> Nat] /\ Clocked(k', left')
    BY <1>1, <2>1 DEF Sleeps
  <2>. QED
    BY <1>2, <1>4, <2>2 DEF SchedInv, Counted, SameRest
<1>. QED
  BY <1>2, <1>5, <1>6, <1>7 DEF SchedInv, SameRest


-----------------------------------------------------------------------------
(* Between the calls that suspend the scheduler *)

\* The scheduler runs, with nothing kept for later.
Quiet(r, p, l) ==
    /\ Sound(r) /\ r.base = r.prio
    /\ r.suspended = 0 /\ r.pendedTicks = 0 /\ r.pending = <<>>
    /\ Idle \in ReadyTasks(r)
    /\ p \in [Tasks -> [at : Labels, ticks : Ticks]]
    /\ \A t \in Tasks : p[t].at \notin Suspending
    /\ \A t \in Tasks : p[t].at = "deleted" <=> t \notin ReadyTasks(r) \cup DelayedTasks(r)
    /\ l \in [Tasks -> Nat] /\ Clocked(r, l)

LEMMA IsQuiet ==
    ASSUME SchedInv, pc[cur].at \notin Suspending
    PROVE  Quiet(k, pc, left) /\ taken = k.tick % TickMod
<1>1. cur \in Tasks /\ k.tick \in Nat
  BY Known, KernelFields
<1>2. k.suspended = 0
  BY DEF SchedInv, Placed
<1>3. \A t \in Tasks : pc[t].at \notin Suspending
  BY <1>1 DEF SchedInv, Placed
<1>4. k.pending = <<>> /\ k.pendedTicks = 0
  BY <1>2 DEF SchedInv, Counted
<1>5. taken = k.tick % TickMod
  <2>1. k.tick + 0 = k.tick
    BY <1>1
  <2>. QED
    BY <1>4, <2>1 DEF SchedInv, Counted
<1>. QED
  BY <1>2, <1>3, <1>4, <1>5 DEF SchedInv, Placed, Chosen, Counted, Quiet

LEMMA QuietStay ==
    ASSUME program \in Programs, program' = program, Quiet(k', pc', left'),
           taken' = k'.tick % TickMod,
           pc'[cur'].at \in {"run"} => cur' \in ReadyTasks(k') /\ NoneAbove(k')
    PROVE  SchedInv'
<1>1. k' \in KState /\ MaxPended \in Nat /\ Idle \in Tasks
  BY SchedulerAssumption DEF Quiet, Sound, WellFormed
<1>2. cur' \in Tasks /\ k'.tick \in Nat
  BY <1>1, KernelFields DEF cur
<1>3. Placed'
  BY <1>2 DEF Placed, Quiet, Suspending, cur
<1>4. Chosen'
  BY <1>1, <1>2 DEF Chosen, Quiet, Suspending
<1>5. Counted'
  <2>1. k'.tick + k'.pendedTicks = k'.tick
    BY <1>2 DEF Quiet
  <2>. QED
    BY <1>1, <2>1 DEF Counted, Quiet
<1>. QED
  BY <1>3, <1>4, <1>5 DEF SchedInv, Quiet

LEMMA QuietSwitch ==
    ASSUME program \in Programs, program' = program, NEW r, Quiet(r, pc', left'),
           taken' = r.tick % TickMod, k' = SwitchContext(r)
    PROVE  SchedInv'
<1>1. Selected(r, k')
  BY SwitchContextIs DEF Quiet
<1>2. /\ Sound(k') /\ DelayedTasks(k') = DelayedTasks(r) /\ ReadyTasks(k') = ReadyTasks(r)
      /\ \A l : Clocked(r, l) => Clocked(k', l)
  BY <1>1, SameSetsSound DEF Selected, Sound, Quiet
<1>3. k'.suspended = 0 /\ k'.pendedTicks = 0 /\ k'.cur \in ReadyTasks(r) /\ NoneAbove(k')
  BY <1>1 DEF Selected, Quiet
<1>4. Quiet(k', pc', left') /\ taken' = k'.tick % TickMod
  BY <1>1, <1>2, <1>3 DEF Quiet, Selected, SameSets
<1>. QED
  BY <1>2, <1>3, <1>4, QuietStay DEF cur

LEMMA SwitchKeeps ==
    ASSUME SchedInv, UNCHANGED <<program, left, taken>>, pc[cur].at \notin Suspending,
           k' = SwitchContext(k),
           pc' = pc \/ (pc[cur].at # "deleted" /\ Goto(Running))
    PROVE  SchedInv'
<1>1. Quiet(k, pc, left) /\ taken = k.tick % TickMod /\ cur \in Tasks /\ 0 \in Ticks
  BY IsQuiet, Known
<1>2. Quiet(k, pc', left')
  <2>1. CASE pc' = pc
    BY <1>1, <2>1
  <2>2. CASE pc[cur].at # "deleted" /\ Goto(Running)
    <3>1. /\ pc' = [pc EXCEPT ![cur] = Running] /\ Running \in [at : Labels, ticks : Ticks]
          /\ Running.at = "run"
      BY <1>1, <2>2 DEF Goto, Running, At, Labels
    <3>2. \A t \in Tasks : pc'[t] = IF t = cur THEN Running ELSE pc[t]
      BY <1>1, <3>1 DEF Quiet
    <3>3. /\ pc' \in [Tasks -> [at : Labels, ticks : Ticks]]
          /\ \A t \in Tasks : pc'[t].at \notin Suspending
          /\ \A t \in Tasks : pc'[t].at = "deleted" <=> pc[t].at = "deleted"
      BY <1>1, <2>2, <3>1, <3>2 DEF Quiet, Suspending
    <3>4. left' = left
      OBVIOUS
    <3>. QED
      BY <1>1, <3>3, <3>4 DEF Quiet
  <2>. QED
    BY <2>1, <2>2
<1>. QED
  BY <1>1, <1>2, QuietSwitch DEF SchedInv

-----------------------------------------------------------------------------
(* Waking a task that waits on the event list *)

LEMMA QuietGiven ==
    ASSUME Quiet(k, pc, left), NEW t, NEW r, Given(k, t, r)
    PROVE  Quiet(r, pc, [left EXCEPT ![t] = 0]) /\ r.tick = k.tick
<1>1. /\ Sound(r) /\ t \in Tasks /\ t \in DelayedTasks(k)
      /\ r.base = r.prio /\ r.suspended = 0 /\ r.pendedTicks = 0
      /\ DelayedTasks(r) = DelayedTasks(k) \ {t} /\ r.tick = k.tick
      /\ \A p \in Priorities : ToSet(r.ready[p].items) =
            ToSet(k.ready[p].items) \cup (IF k.prio[t] = p THEN {t} ELSE {})
      /\ ToSet(r.pending) = ToSet(k.pending)
  BY DEF Quiet, Given
<1>2. ReadyTasks(r) = ReadyTasks(k) \cup {t}
  <2>1. k.prio[t] \in Priorities
    BY <1>1, KernelFields DEF Quiet, Sound, WellFormed
  <2>2. ReadyTasks(r) \subseteq ReadyTasks(k) \cup {t}
    BY <1>1 DEF ReadyTasks
  <2>3. ReadyTasks(k) \subseteq ReadyTasks(r)
    BY <1>1 DEF ReadyTasks
  <2>4. t \in ToSet(r.ready[k.prio[t]].items)
    BY <1>1, <2>1
  <2>5. t \in ReadyTasks(r)
    BY <2>1, <2>4 DEF ReadyTasks
  <2>. QED
    BY <2>2, <2>3, <2>5
<1>3. r.pending = <<>>
  <2>1. ToSet(k.pending) = {} /\ r.pending \in Seq(Tasks)
    BY <1>1, KernelFields DEF Quiet, ToSet, Sound, WellFormed
  <2>. QED
    BY <1>1, <2>1, NoPending
<1>4. [left EXCEPT ![t] = 0] \in [Tasks -> Nat] /\ Clocked(r, [left EXCEPT ![t] = 0])
  BY <1>1 DEF Quiet, Given
<1>. QED
  BY <1>1, <1>2, <1>3, <1>4 DEF Quiet


\* What k' is when Signal, SignalSuspended or SignalFromIsr took t off its event list
LEMMA SignalKeeps ==
    ASSUME SchedInv, UNCHANGED <<program, pc, taken>>,
           NEW t, NEW r, Given(k, t, r), left' = [left EXCEPT ![t] = 0],
           k' = r \/ k' = SwitchContext(r)
    PROVE  SchedInv'
<1>1. /\ Sound(r) /\ t \in Tasks /\ t \in DelayedTasks(k) /\ r.base = r.prio
      /\ r.cur = k.cur /\ r.tick = k.tick /\ r.suspended = k.suspended
      /\ r.pendedTicks = k.pendedTicks /\ r.prio = k.prio
      /\ \A p \in Priorities : ToSet(r.ready[p].items) =
            ToSet(k.ready[p].items) \cup (IF k.suspended = 0 /\ k.prio[t] = p THEN {t} ELSE {})
  BY DEF Given, SchedInv
<1>2. ReadyTasks(k) \subseteq ReadyTasks(r)
  BY <1>1 DEF ReadyTasks
<1>3. CASE pc[cur].at \notin Suspending
  <2>1. Quiet(k, pc, left) /\ taken = k.tick % TickMod
    BY <1>3, IsQuiet
  <2>2. Quiet(r, pc', left') /\ taken' = r.tick % TickMod
    BY <2>1, QuietGiven
  <2>3. CASE k' = SwitchContext(r)
    BY <2>2, <2>3, QuietSwitch DEF SchedInv
  <2>4. CASE k' = r
    <3>1. pc[cur].at = "run" => cur \in ReadyTasks(k) /\ NoneAbove(k)
      BY DEF SchedInv, Chosen
    <3>2. cur' = cur
      BY <1>1, <2>4 DEF cur
    <3>3. NoneAbove(k) => NoneAbove(r)
      BY DEF Given
    <3>. QED
      BY <1>2, <2>2, <2>4, <3>1, <3>2, <3>3, QuietStay DEF SchedInv
  <2>. QED
    BY <2>3, <2>4
<1>4. CASE pc[cur].at \in Suspending
  <2>1. k.suspended = 1 /\ cur \in Tasks
    BY <1>4, Known DEF SchedInv, Placed
  <2>2. /\ DelayedTasks(r) = DelayedTasks(k)
        /\ \A p \in Priorities : ToSet(r.ready[p].items) = ToSet(k.ready[p].items)
        /\ [left EXCEPT ![t] = 0] \in [Tasks -> Nat] /\ Clocked(r, [left EXCEPT ![t] = 0])
    <3>1. left \in [Tasks -> Nat] /\ Clocked(k, left)
      BY DEF SchedInv, Counted
    <3>2. \A l \in [Tasks -> Nat] : Clocked(k, l) => Clocked(r, [l EXCEPT ![t] = 0])
      BY DEF Given
    <3>4. DelayedTasks(r) = DelayedTasks(k)
      BY <2>1 DEF Given
    <3>3. \A p \in Priorities : ToSet(r.ready[p].items) = ToSet(k.ready[p].items)
      BY <1>1, <2>1
    <3>5. [left EXCEPT ![t] = 0] \in [Tasks -> Nat]
      BY <3>1
    <3>. QED
      BY <3>1, <3>2, <3>3, <3>4, <3>5, Zenon
  <2>3. ReadyTasks(r) = ReadyTasks(k) /\ Idle \in ReadyTasks(r)
    BY <2>2 DEF ReadyTasks, SchedInv, Chosen
  <2>4. Selected(r, SwitchContext(r))
    BY <1>1, <2>3, SwitchContextIs
  <2>5. /\ Sound(k') /\ k'.cur = k.cur /\ k'.suspended = 1 /\ k'.pendedTicks = k.pendedTicks
        /\ k'.base = k'.prio /\ k'.tick = k.tick
        /\ DelayedTasks(k') = DelayedTasks(k) /\ ReadyTasks(k') = ReadyTasks(k)
        /\ Clocked(k', left') /\ (NoneAbove(k) => NoneAbove(k'))
    <3>1. CASE k' = r
      BY <1>1, <2>1, <2>2, <2>3, <3>1 DEF Given
    <3>2. CASE k' = SwitchContext(r)
      <4>1. /\ Sound(k') /\ SameSets(r, k') /\ k'.cur = k.cur /\ k'.suspended = 1
            /\ k'.pendedTicks = k.pendedTicks /\ NoneAbove(k')
        BY <1>1, <2>1, <2>4, <3>2 DEF Selected, NoneAbove
      <4>2. /\ DelayedTasks(k') = DelayedTasks(r) /\ ReadyTasks(k') = ReadyTasks(r)
            /\ Clocked(r, left') => Clocked(k', left')
        BY <1>1, <4>1, SameSetsSound DEF Sound
      <4>. QED
        BY <1>1, <2>2, <2>3, <4>1, <4>2 DEF SameSets
    <3>. QED
      BY <3>1, <3>2
  <2>6. Placed'
    BY <1>4, <2>1, <2>5, PlacedStill DEF cur
  <2>7. Chosen'
    BY <2>5 DEF SchedInv, Chosen, cur
  <2>8. Counted'
    BY <2>1, <2>2, <2>5 DEF SchedInv, Counted
  <2>. QED
    BY <2>5, <2>6, <2>7, <2>8 DEF SchedInv
<1>. QED
  BY <1>3, <1>4

\* The task that waits first is given, its caller yields or not
LEMMA HeadGiven ==
    ASSUME SchedInv, k.events[QueueList] # <<>>
    PROVE  /\ Given(k, Unblocked, RemoveFromEventList(k, QueueList))
           /\ RemoveFromEventList(k, QueueList).yieldPending
                 = (k.yieldPending \/ WakesHigher(k, QueueList))
<1>1. QueueList \in EventLists /\ (k.suspended = 0 => k.pending = <<>>)
  BY Known DEF SchedInv, Counted
<1>2. Given(k, Unblocked, RemoveFromEventList(k, QueueList))
  BY <1>1, RemoveFromEventListIs DEF Unblocked, SchedInv
<1>. QED
  BY <1>2 DEF Given, WakesHigher, Unblocked

\* The yield flag is raised by RemoveFromEventList already.
LEMMA FlagAgain ==
    ASSUME SchedInv, k.events[QueueList] # <<>>,
           NEW r, r = RemoveFromEventList(k, QueueList)
    PROVE  [r EXCEPT !.yieldPending = @ \/ WakesHigher(k, QueueList)] = r
<1>1. Given(k, Unblocked, r) /\ r.yieldPending = (k.yieldPending \/ WakesHigher(k, QueueList))
  BY HeadGiven
<1>2. r \in KState
  BY <1>1 DEF Given, Sound, WellFormed
<1>3. (r.yieldPending \/ WakesHigher(k, QueueList)) = r.yieldPending
  BY <1>1
<1>4. r = [r EXCEPT !.yieldPending = r.yieldPending]
  BY <1>2 DEF KState
<1>. QED
  BY <1>3, <1>4


\* The tasks that are woken join the ready ones.
LEMMA WokenReady ==
    ASSUME NEW a, a \in KState, NEW W, W \subseteq DelayedTasks(a), NEW r,
           \A p \in Priorities : ToSet(r.ready[p].items) =
              ToSet(a.ready[p].items) \cup {t \in W : a.prio[t] = p}
    PROVE  ReadyTasks(r) = ReadyTasks(a) \cup W
<1>1. DelayedTasks(a) \subseteq Tasks /\ a.prio \in [Tasks -> Priorities]
  BY KernelFields, ToSetIn DEF DelayedTasks
<1>2. ReadyTasks(r) \subseteq ReadyTasks(a) \cup W
  BY DEF ReadyTasks
<1>3. ReadyTasks(a) \subseteq ReadyTasks(r)
  BY DEF ReadyTasks
<1>4. ASSUME NEW t \in W PROVE t \in ReadyTasks(r)
  <2>1. a.prio[t] \in Priorities
    BY <1>1
  <2>2. t \in ToSet(r.ready[a.prio[t]].items)
    BY <2>1
  <2>. QED
    BY <2>1, <2>2 DEF ReadyTasks
<1>. QED
  BY <1>2, <1>3, <1>4

-----------------------------------------------------------------------------
(* The tick, and the end of a suspension *)

LEMMA TickKeeps ==
    ASSUME SchedInv, TickIsr, UNCHANGED program
    PROVE  SchedInv'
<1>1. /\ k \in KState /\ cur \in Tasks /\ k.suspended \in Nat /\ k.pendedTicks \in Nat
      /\ k.tick \in Nat /\ TickMod \in Nat \ {0} /\ left \in [Tasks -> Nat] /\ Clocked(k, left)
  BY Known, KernelFields DEF SchedInv, Counted
<1>2. pc' = pc /\ taken' = (taken + 1) % TickMod /\ k' = SwitchContext(IncrementTick(k))
  BY DEF TickIsr
<1>3. taken = (k.tick + k.pendedTicks) % TickMod
  BY DEF SchedInv, Counted
<1>4. CASE k.suspended = 0
  <2>. DEFINE r == AdvanceTick(k)
  <2>1. k.pending = <<>> /\ k.pendedTicks = 0 /\ pc[cur].at \notin Suspending
    BY <1>4 DEF SchedInv, Counted, Placed
  <2>2. Quiet(k, pc, left)
    BY <2>1, IsQuiet
  <2>3. PICK W \in SUBSET DelayedTasks(k) : Advances(k, W, 1, r)
    BY <2>1, AdvanceTickIs DEF SchedInv
  <2>4. k' = SwitchContext(r) /\ left' = CountedDown(left, 1)
    BY <1>2, <1>4 DEF IncrementTick, TickIsr, CountTicks, CountedDown
  <2>. HIDE DEF r
  <2>5. /\ Sound(r) /\ r.base = r.prio /\ r.suspended = 0 /\ r.pendedTicks = 0
        /\ r.tick = (k.tick + 1) % TickMod
        /\ DelayedTasks(r) = DelayedTasks(k) \ W
        /\ ToSet(r.pending) = ToSet(k.pending) \ W
        /\ \A p \in Priorities : ToSet(r.ready[p].items) =
              ToSet(k.ready[p].items) \cup {t \in W : k.prio[t] = p}
    BY <2>2, <2>3 DEF Advances, Awakened, Quiet
  <2>6. Clocked(r, left') /\ left' \in [Tasks -> Nat]
    BY <1>1, <2>3, <2>4 DEF Advances, CountedDown
  <2>7. r.pending = <<>>
    <3>1. r.pending \in Seq(Tasks)
      BY <2>5, KernelFields DEF Sound, WellFormed
    <3>2. ToSet(k.pending) = {}
      BY <2>1 DEF ToSet
    <3>. QED
      BY <2>5, <3>1, <3>2, NoPending
  <2>8. ReadyTasks(r) = ReadyTasks(k) \cup W
    BY <1>1, <2>3, <2>5, WokenReady
  <2>9. taken' = r.tick % TickMod
    <3>1. k.tick + k.pendedTicks = k.tick
      BY <1>1, <2>1
    <3>2. taken' = (k.tick + 1) % TickMod
      BY <1>1, <1>2, <1>3, <3>1, ModNext
    <3>3. r.tick \in Nat /\ r.tick < TickMod
      BY <1>1, <2>5, KernelFields, SMTT(30) DEF Sound, WellFormed
    <3>4. r.tick % TickMod = r.tick
      BY <1>1, <3>3
    <3>. QED
      BY <2>5, <3>2, <3>4
  <2>10. Quiet(r, pc', left')
    BY <1>2, <2>2, <2>3, <2>5, <2>6, <2>7, <2>8 DEF Quiet
  <2>. QED
    BY <2>4, <2>9, <2>10, QuietSwitch DEF SchedInv
<1>5. CASE k.suspended # 0
  <2>1. pc[cur].at \in Suspending /\ k.suspended = 1
    BY <1>5 DEF SchedInv, Placed
  <2>3. /\ WellFormed(k') /\ SameSets(k, k') /\ k'.cur = k.cur /\ k'.suspended = 1
        /\ k'.pendedTicks = k.pendedTicks + 1 /\ k'.yieldPending
    BY <1>1, <1>2, <1>5, <2>1, TickPends DEF SchedInv, Sound
  <2>4. /\ Sound(k') /\ DelayedTasks(k') = DelayedTasks(k) /\ ReadyTasks(k') = ReadyTasks(k)
        /\ Clocked(k', left)
    BY <1>1, <2>3, SameSetsSound DEF SchedInv
  <2>5. Placed'
    BY <1>1, <1>2, <2>1, <2>3, <2>4, PlacedStill DEF cur
  <2>6. Chosen'
    BY <1>2, <2>3, <2>4 DEF SchedInv, Chosen, NoneAbove, cur
  <2>7. Counted'
    <3>1. k.pendedTicks < MaxPended /\ left' = left /\ MaxPended \in Nat
      BY <2>1, SchedulerAssumption DEF TickIsr
    <3>2. k'.tick + k'.pendedTicks = (k.tick + k.pendedTicks) + 1
      BY <1>1, <2>3 DEF SameSets
    <3>3. taken' = (k'.tick + k'.pendedTicks) % TickMod
      <4>1. k.tick + k.pendedTicks \in Nat
        BY <1>1
      <4>2. ((k.tick + k.pendedTicks) + 1) % TickMod
               = (((k.tick + k.pendedTicks) % TickMod) + 1) % TickMod
        BY <1>1, <4>1, ModNext
      <4>. QED
        BY <1>2, <1>3, <3>2, <4>2
    <3>. QED
      BY <1>1, <2>3, <2>4, <3>1, <3>3 DEF Counted
  <2>. QED
    BY <2>3, <2>4, <2>5, <2>6, <2>7 DEF SchedInv, SameSets
<1>. QED
  BY <1>4, <1>5

LEMMA ResumeKeeps ==
    ASSUME SchedInv, Resume, UNCHANGED program
    PROVE  SchedInv'
<1>1. /\ k \in KState /\ cur \in Tasks /\ cur = k.cur /\ 0 \in Ticks
      /\ k.suspended = 1 /\ k.pendedTicks \in Nat /\ k.tick \in Nat /\ TickMod \in Nat \ {0}
      /\ left \in [Tasks -> Nat] /\ Clocked(k, left) /\ pc[cur].at \in {"resume", "heap"}
  BY Known, KernelFields DEF SchedInv, Counted, Resume, Is, Placed, Suspending, cur
<1>. DEFINE r == Resumed(k)
<1>2. PICK W : Resumes(k, W, r)
  BY ResumedIs DEF SchedInv
<1>3. /\ left' = CountedDown(left, k.pendedTicks) /\ taken' = taken
      /\ k' = IF r.yieldPending THEN SwitchContext(r) ELSE r
      /\ Goto(IF pc[cur].at = "heap" \/ r.yieldPending THEN Running ELSE At("yield", 0))
  BY <1>1 DEF Resume, CountTicks, CountedDown, ResumeAll, AlreadyYielded, Is
<1>. HIDE DEF r
<1>4. /\ Sound(r) /\ W \subseteq DelayedTasks(k) /\ r.base = r.prio /\ r.cur = k.cur
      /\ r.suspended = 0 /\ r.pendedTicks = 0 /\ r.pending = <<>>
      /\ r.tick = (k.tick + k.pendedTicks) % TickMod
      /\ DelayedTasks(r) = DelayedTasks(k) \ W
      /\ \A p \in Priorities : ToSet(r.ready[p].items) =
            ToSet(k.ready[p].items) \cup {t \in W : k.prio[t] = p}
      /\ NoneAbove(k) => NoneAbove(r)
  BY <1>2 DEF Resumes, SchedInv
<1>5. Clocked(r, left') /\ left' \in [Tasks -> Nat]
  BY <1>1, <1>2, <1>3, SMTT(30) DEF Resumes, CountedDown
<1>6. ReadyTasks(r) = ReadyTasks(k) \cup W
  BY <1>1, <1>4, WokenReady
<1>7. taken' = r.tick % TickMod
  <2>1. taken' = r.tick
    BY <1>3, <1>4 DEF SchedInv, Counted
  <2>2. r.tick \in Nat /\ r.tick < TickMod
    BY <1>1, <1>4, KernelFields DEF Sound, WellFormed
  <2>. QED
    BY <1>1, <2>1, <2>2
<1>8. PICK p \in {Running, At("yield", 0)} :
        /\ pc' = [pc EXCEPT ![cur] = p]
        /\ p = IF pc[cur].at = "heap" \/ r.yieldPending THEN Running ELSE At("yield", 0)
  BY <1>3 DEF Goto
<1>9. p \in [at : Labels, ticks : Ticks] /\ p.at \in {"run", "yield"}
  BY <1>1 DEF Running, At, Labels
<1>10. \A t \in Tasks : pc'[t] = IF t = cur THEN p ELSE pc[t]
  BY <1>1, <1>8 DEF SchedInv, Placed
<1>11. /\ pc' \in [Tasks -> [at : Labels, ticks : Ticks]]
       /\ \A t \in Tasks : pc'[t].at \notin Suspending
       /\ \A t \in Tasks : pc'[t].at = "deleted" <=> pc[t].at = "deleted"
  BY <1>1, <1>8, <1>9, <1>10 DEF SchedInv, Placed, Suspending
<1>12. Quiet(r, pc', left')
  <2>1. \A t \in Tasks : pc'[t].at = "deleted" <=> t \notin ReadyTasks(r) \cup DelayedTasks(r)
    BY <1>4, <1>6, <1>11 DEF SchedInv, Placed
  <2>2. Idle \in ReadyTasks(r)
    BY <1>6 DEF SchedInv, Chosen
  <2>. QED
    BY <1>4, <1>5, <1>11, <2>1, <2>2 DEF Quiet
<1>13. CASE r.yieldPending
  BY <1>3, <1>7, <1>12, <1>13, QuietSwitch DEF SchedInv
<1>14. CASE ~r.yieldPending
  <2>1. k' = r /\ cur' = cur
    BY <1>1, <1>3, <1>4, <1>14 DEF cur
  <2>2. pc'[cur].at = "run" => cur \in ReadyTasks(k) /\ NoneAbove(k)
    <3>1. pc'[cur] = p
      BY <1>1, <1>10
    <3>2. pc'[cur].at = "run" => pc[cur].at = "heap"
      BY <1>8, <1>14, <3>1 DEF Running, At
    <3>. QED
      BY <3>2 DEF SchedInv, Chosen
  <2>3. pc'[cur'].at \in {"run"} => cur' \in ReadyTasks(k') /\ NoneAbove(k')
    BY <1>4, <1>6, <2>1, <2>2
  <2>. QED
    BY <1>7, <1>12, <2>1, <2>3, QuietStay DEF SchedInv
<1>. QED
  BY <1>13, <1>14


-----------------------------------------------------------------------------
(* Priorities, creation and deletion *)

\* A task that is on no list takes priority new and becomes ready.
Joined(a, t, new, r) ==
    /\ Sound(r) /\ r.base = r.prio /\ r.cur = a.cur
    /\ r.prio = [a.prio EXCEPT ![t] = new]
    /\ r.suspended = a.suspended /\ r.pendedTicks = a.pendedTicks /\ r.pending = a.pending
    /\ r.tick = a.tick /\ r.yieldPending = a.yieldPending
    /\ DelayedTasks(r) = DelayedTasks(a)
    /\ \A p \in Priorities : ToSet(r.ready[p].items) =
          (ToSet(a.ready[p].items) \ {t}) \cup (IF p = new THEN {t} ELSE {})
    /\ \A l : Clocked(a, l) => Clocked(r, l)

\* Priorities differ, and if b lacks the task on its ready list, so do its lists.
Retitled(a, t, new, b) ==
    /\ WellFormed(b) /\ b.prio = [a.prio EXCEPT ![t] = new] /\ b.base = b.prio
    /\ b.cur = a.cur /\ b.ready = a.ready /\ b.delayed = a.delayed /\ b.overflow = a.overflow
    /\ b.terminating = a.terminating /\ b.pending = a.pending /\ b.events = a.events
    /\ b.wake = a.wake /\ b.tick = a.tick /\ b.nextUnblock = a.nextUnblock
    /\ b.suspended = a.suspended /\ b.pendedTicks = a.pendedTicks
    /\ b.yieldPending = a.yieldPending

LEMMA RetitledIs ==
    ASSUME NEW a, WellFormed(a), a.base = a.prio, NEW t \in Tasks, NEW new \in Priorities,
           NEW b, b = [a EXCEPT !.prio[t] = new, !.base[t] = new,
                                !.evValue[t] = Highest(Priorities) + 1 - new]
    PROVE  Retitled(a, t, new, b)
<1>1. a \in KState /\ Highest(Priorities) + 1 - new \in Int
  BY TaskListsAssumption DEF WellFormed
<1>2. /\ a.prio \in [Tasks -> Priorities] /\ a.base \in [Tasks -> Priorities]
      /\ a.evValue \in [Tasks -> Int]
  BY <1>1, KernelFields
<1>3. /\ [a.prio EXCEPT ![t] = new] \in [Tasks -> Priorities]
      /\ [a.base EXCEPT ![t] = new] \in [Tasks -> Priorities]
      /\ [a.evValue EXCEPT ![t] = Highest(Priorities) + 1 - new] \in [Tasks -> Int]
  BY <1>1, <1>2
<1>4. b = [a EXCEPT !.prio = [a.prio EXCEPT ![t] = new], !.base = [a.base EXCEPT ![t] = new],
                    !.evValue = [a.evValue EXCEPT ![t] = Highest(Priorities) + 1 - new]]
  OBVIOUS
<1>5. b \in KState
  BY <1>1, <1>3, <1>4, ZenonT(60) DEF KState
<1>6. /\ b.prio = [a.prio EXCEPT ![t] = new] /\ b.base = [a.base EXCEPT ![t] = new]
      /\ b.cur = a.cur /\ b.ready = a.ready /\ b.delayed = a.delayed /\ b.overflow = a.overflow
      /\ b.terminating = a.terminating /\ b.pending = a.pending /\ b.events = a.events
      /\ b.wake = a.wake /\ b.tick = a.tick /\ b.nextUnblock = a.nextUnblock
      /\ b.suspended = a.suspended /\ b.pendedTicks = a.pendedTicks
      /\ b.yieldPending = a.yieldPending
  BY <1>1, <1>4, ZenonT(60) DEF KState
<1>7. WellFormed(b)
  BY <1>5, <1>6 DEF WellFormed
<1>. QED
  BY <1>6, <1>7 DEF Retitled

\* Only a task on no ready list can be given another priority with the lists sound.
LEMMA RetitledSound ==
    ASSUME NEW a, Sound(a), NEW t \in Tasks \ ReadyTasks(a), NEW new \in Priorities,
           NEW b, Retitled(a, t, new, b)
    PROVE  /\ Sound(b) /\ DelayedTasks(b) = DelayedTasks(a) /\ ReadyTasks(b) = ReadyTasks(a)
           /\ \A l : Clocked(a, l) => Clocked(b, l)
<1>1. a.prio \in [Tasks -> Priorities]
  BY KernelFields DEF Sound, WellFormed
<1>2. DelayedTasks(b) = DelayedTasks(a) /\ ReadyTasks(b) = ReadyTasks(a)
  BY DEF Retitled, DelayedTasks, ReadyTasks
<1>3. \A p \in Priorities : \A u \in ToSet(b.ready[p].items) : b.prio[u] = p
  <2>1. SUFFICES ASSUME NEW p \in Priorities, NEW u \in ToSet(a.ready[p].items)
                 PROVE  b.prio[u] = p
    BY DEF Retitled
  <2>2. u # t /\ u \in Tasks /\ a.prio[u] = p
    BY ToSetIn DEF ReadyTasks, Sound, Separate, WellFormed, ListOK
  <2>. QED
    BY <1>1, <2>2 DEF Retitled
<1>4. Separate(b)
  BY <1>2, <1>3 DEF Retitled, Sound, Separate
<1>5. Timely(b)
  BY DEF Retitled, Sound, Timely, UnblocksInTime
<1>6. \A l : Clocked(a, l) => Clocked(b, l)
  BY <1>2 DEF Clocked, Retitled
<1>. QED
  BY <1>2, <1>4, <1>5, <1>6 DEF Sound, Retitled

\* b is as a but for t, on no list, that AddToReady then makes ready.
LEMMA JoinedIs ==
    ASSUME NEW b, Sound(b), b.base = b.prio, NEW t \in Tasks,
           t \notin ReadyTasks(b) \cup DelayedTasks(b) \cup ToSet(b.terminating)
    PROVE  Joined(b, t, b.prio[t], AddToReady(b, t))
<1>. DEFINE r == AddToReady(b, t)
<1>1. b.prio \in [Tasks -> Priorities] /\ b.prio[t] \in Priorities /\ WellFormed(b)
  BY KernelFields DEF Sound, WellFormed
<1>2. \A p \in Priorities : t \notin ToSet(b.ready[p].items)
  BY DEF ReadyTasks
<1>3. ReadyAdded(b, t, r)
  BY <1>1, <1>2, AddToReadyIs
<1>. HIDE DEF r
<1>4. \A p \in Priorities : ToSet(r.ready[p].items) =
         ToSet(b.ready[p].items) \cup (IF p = b.prio[t] THEN {t} ELSE {})
  BY <1>3 DEF ReadyAdded
<1>5. DelayedTasks(r) = DelayedTasks(b) /\ r.prio = b.prio
  BY <1>3 DEF ReadyAdded, DelayedTasks, SameRest
<1>6. ReadyTasks(r) \subseteq ReadyTasks(b) \cup {t}
  BY <1>4 DEF ReadyTasks
<1>7. \A p \in Priorities : \A u \in ToSet(r.ready[p].items) : r.prio[u] = p
  BY <1>4, <1>5 DEF Sound, Separate
<1>8. Separate(r)
  BY <1>3, <1>5, <1>6, <1>7 DEF ReadyAdded, Sound, Separate
<1>9. Timely(r)
  BY <1>3 DEF ReadyAdded, SameRest, Sound, Timely, UnblocksInTime
<1>10. \A l : Clocked(b, l) => Clocked(r, l)
  BY <1>3, <1>5 DEF Clocked, ReadyAdded, SameRest
<1>11. r.prio = [b.prio EXCEPT ![t] = b.prio[t]]
  BY <1>1, <1>5
<1>12. \A p \in Priorities : ToSet(r.ready[p].items) =
          (ToSet(b.ready[p].items) \ {t}) \cup (IF p = b.prio[t] THEN {t} ELSE {})
  BY <1>2, <1>4
<1>13. /\ r.base = r.prio /\ r.cur = b.cur /\ r.suspended = b.suspended
       /\ r.pendedTicks = b.pendedTicks /\ r.pending = b.pending
       /\ r.tick = b.tick /\ r.yieldPending = b.yieldPending
  BY <1>3 DEF ReadyAdded, SameRest
<1>14. Sound(r)
  BY <1>3, <1>8, <1>9 DEF Sound, ReadyAdded
<1>. QED
  BY <1>5, <1>10, <1>11, <1>12, <1>13, <1>14 DEF Joined, r


\* A ready task leaves its list when its priority changes.
LEMMA LiftedSound ==
    ASSUME NEW a, Sound(a), NEW t \in Tasks, t \in ReadyTasks(a), NEW new \in Priorities,
           NEW c, Retitled(a, t, new, c), NEW b, StateRemoved(c, t, b)
    PROVE  /\ Sound(b) /\ b.base = b.prio /\ b.prio = [a.prio EXCEPT ![t] = new]
           /\ \A p \in Priorities : ToSet(b.ready[p].items) = ToSet(a.ready[p].items) \ {t}
           /\ DelayedTasks(b) = DelayedTasks(a)
           /\ t \notin ReadyTasks(b) \cup DelayedTasks(b) \cup ToSet(b.terminating)
           /\ b.cur = a.cur /\ b.suspended = a.suspended /\ b.pendedTicks = a.pendedTicks
           /\ b.pending = a.pending /\ b.tick = a.tick /\ b.yieldPending = a.yieldPending
           /\ \A l : Clocked(a, l) => Clocked(b, l)
<1>1. /\ b.prio = [a.prio EXCEPT ![t] = new] /\ b.base = b.prio /\ b.events = a.events
      /\ b.cur = a.cur /\ b.suspended = a.suspended /\ b.pendedTicks = a.pendedTicks
      /\ b.pending = a.pending /\ b.tick = a.tick /\ b.yieldPending = a.yieldPending
      /\ b.nextUnblock = a.nextUnblock
  BY DEF StateRemoved, SameRest, Retitled
<1>2. /\ \A p \in Priorities : ToSet(b.ready[p].items) = ToSet(a.ready[p].items) \ {t}
      /\ ToSet(b.delayed) = ToSet(a.delayed) \ {t} /\ ToSet(b.overflow) = ToSet(a.overflow) \ {t}
      /\ ToSet(b.terminating) = ToSet(a.terminating) \ {t}
      /\ \A u \in Tasks \ {t} : b.wake[u] = a.wake[u]
  BY DEF StateRemoved, Retitled
<1>3. t \notin DelayedTasks(a)
  BY DEF Sound, Separate
<1>4. ToSet(b.delayed) = ToSet(a.delayed) /\ ToSet(b.overflow) = ToSet(a.overflow)
  BY <1>2, <1>3 DEF DelayedTasks
<1>5. DelayedTasks(b) = DelayedTasks(a)
  BY <1>4 DEF DelayedTasks
<1>6. DelayedTasks(a) \subseteq Tasks /\ a.prio \in [Tasks -> Priorities]
  BY KernelFields, ToSetIn DEF DelayedTasks, Sound, WellFormed
<1>7. \A u \in DelayedTasks(a) : b.wake[u] = a.wake[u]
  BY <1>2, <1>3, <1>6
<1>8. ReadyTasks(b) \subseteq ReadyTasks(a) \ {t}
  BY <1>2 DEF ReadyTasks
<1>9. \A p \in Priorities : \A u \in ToSet(b.ready[p].items) : b.prio[u] = p
  <2>1. SUFFICES ASSUME NEW p \in Priorities, NEW u \in ToSet(a.ready[p].items), u # t
                 PROVE  b.prio[u] = p
    BY <1>2
  <2>2. u \in Tasks /\ a.prio[u] = p
    BY ToSetIn DEF Sound, Separate, WellFormed, ListOK
  <2>. QED
    BY <1>1, <1>6, <2>1, <2>2
<1>10. Separate(b)
  BY <1>1, <1>2, <1>4, <1>5, <1>8, <1>9 DEF Sound, Separate
<1>11. Timely(b)
  <2>1. Sorted(b.delayed, b.wake) /\ Sorted(b.overflow, b.wake)
    BY DEF StateRemoved, Retitled, Sound, Timely
  <2>. QED
    BY <1>1, <1>4, <1>7, <2>1 DEF Sound, Timely, UnblocksInTime, DelayedTasks
<1>12. \A l : Clocked(a, l) => Clocked(b, l)
  BY <1>1, <1>4, <1>5, <1>7 DEF Clocked
<1>13. Sound(b)
  BY <1>10, <1>11 DEF Sound, StateRemoved
<1>14. t \notin ReadyTasks(b) \cup DelayedTasks(b) \cup ToSet(b.terminating)
  BY <1>2, <1>3, <1>5, <1>8
<1>. QED
  BY <1>1, <1>2, <1>5, <1>12, <1>13, <1>14

\* The task is on none of the lists any more.
Gone(a, t, r) ==
    /\ Sound(r)
    /\ \A p \in Priorities : ToSet(r.ready[p].items) = ToSet(a.ready[p].items) \ {t}
    /\ DelayedTasks(r) = DelayedTasks(a) \ {t}
    /\ ToSet(r.terminating) = ToSet(a.terminating) \ {t}
    /\ ToSet(r.pending) = ToSet(a.pending) \ {t}
    /\ SameRest(a, r)
    /\ \A l : Clocked(a, l) => Clocked(r, l)

LEMMA GoneIs ==
    ASSUME NEW a, Sound(a), NEW t \in Tasks
    PROVE  Gone(a, t, RemoveEvent(RemoveState(a, t), t))
<1>. DEFINE b == RemoveState(a, t)
            r == RemoveEvent(b, t)
<1>1. StateRemoved(a, t, b)
  BY RemoveStateIs DEF Sound
<1>. HIDE DEF b
<1>2. EventRemoved(b, t, r)
  BY <1>1, RemoveEventIs DEF StateRemoved
<1>. HIDE DEF r
<1>3. /\ \A p \in Priorities : ToSet(r.ready[p].items) = ToSet(a.ready[p].items) \ {t}
      /\ ToSet(r.delayed) = ToSet(a.delayed) \ {t} /\ ToSet(r.overflow) = ToSet(a.overflow) \ {t}
      /\ ToSet(r.terminating) = ToSet(a.terminating) \ {t}
      /\ ToSet(r.pending) = ToSet(a.pending) \ {t}
      /\ \A e \in EventLists : ToSet(r.events[e]) = ToSet(a.events[e]) \ {t}
      /\ \A u \in Tasks \ {t} : r.wake[u] = a.wake[u]
      /\ SameRest(a, r) /\ r.nextUnblock = a.nextUnblock
  BY <1>1, <1>2 DEF StateRemoved, EventRemoved, SameRest
<1>4. DelayedTasks(r) = DelayedTasks(a) \ {t}
  BY <1>3 DEF DelayedTasks
<1>5. ReadyTasks(r) \subseteq ReadyTasks(a) \ {t}
  BY <1>3 DEF ReadyTasks
<1>6. DelayedTasks(a) \subseteq Tasks
  BY KernelFields, ToSetIn DEF DelayedTasks, Sound, WellFormed
<1>7. \A u \in DelayedTasks(r) : r.wake[u] = a.wake[u]
  BY <1>3, <1>4, <1>6
<1>8. Separate(r)
  <2>1. \A p \in Priorities : \A u \in ToSet(r.ready[p].items) : r.prio[u] = p
    BY <1>3 DEF Sound, Separate, SameRest
  <2>2. \A e \in EventLists : ToSet(r.events[e]) \subseteq DelayedTasks(r) \ ToSet(r.pending)
    BY <1>3, <1>4 DEF Sound, Separate
  <2>. QED
    BY <1>3, <1>4, <1>5, <2>1, <2>2 DEF Sound, Separate
<1>9. Timely(r)
  <2>1. Sorted(r.delayed, r.wake) /\ Sorted(r.overflow, r.wake)
    BY <1>1, <1>2 DEF StateRemoved, EventRemoved, Sound, Timely
  <2>. QED
    BY <1>3, <1>7, <2>1 DEF Sound, Timely, UnblocksInTime, DelayedTasks, SameRest
<1>10. \A l : Clocked(a, l) => Clocked(r, l)
  BY <1>3, <1>4, <1>7 DEF Clocked, SameRest
<1>11. Gone(a, t, r)
  BY <1>2, <1>3, <1>4, <1>8, <1>9, <1>10 DEF Gone, Sound, EventRemoved
<1>. QED
  BY <1>11 DEF r, b

LEMMA GoneReady ==
    ASSUME NEW a, NEW t, NEW r,
           \A p \in Priorities : ToSet(r.ready[p].items) = ToSet(a.ready[p].items) \ {t}
    PROVE  ReadyTasks(r) = ReadyTasks(a) \ {t}
  BY DEF ReadyTasks

\* A task that is on no list waits for the idle task, or one of those is let go.
Terminating(a, s, r) == r = [a EXCEPT !.terminating = s]

LEMMA TerminatingSound ==
    ASSUME NEW a, Sound(a), NEW s \in Seq(Tasks), IsInjective(s),
           ToSet(s) \cap (ReadyTasks(a) \cup DelayedTasks(a)) = {},
           NEW r, Terminating(a, s, r)
    PROVE  /\ Sound(r) /\ r.ready = a.ready /\ r.delayed = a.delayed /\ r.overflow = a.overflow
           /\ r.pending = a.pending /\ r.events = a.events /\ r.wake = a.wake
           /\ SameRest(a, r) /\ r.terminating = s
<1>1. a \in KState
  BY DEF Sound, WellFormed
<1>2. r \in KState
  BY <1>1 DEF KState, Terminating
<1>3. /\ r.ready = a.ready /\ r.delayed = a.delayed /\ r.overflow = a.overflow
      /\ r.pending = a.pending /\ r.events = a.events /\ r.wake = a.wake
      /\ r.terminating = s /\ r.nextUnblock = a.nextUnblock
  BY <1>1 DEF KState, Terminating
<1>4. SameRest(a, r)
  BY <1>1 DEF KState, Terminating, SameRest
<1>5. ReadyTasks(r) = ReadyTasks(a) /\ DelayedTasks(r) = DelayedTasks(a)
  BY <1>3 DEF ReadyTasks, DelayedTasks
<1>6. WellFormed(r)
  BY <1>2, <1>3 DEF Sound, WellFormed
<1>7. Separate(r)
  BY <1>3, <1>4, <1>5 DEF Sound, Separate, SameRest
<1>8. Timely(r)
  BY <1>3, <1>4 DEF Sound, Timely, UnblocksInTime, SameRest
<1>. QED
  BY <1>3, <1>4, <1>6, <1>7, <1>8 DEF Sound


\* vTaskPrioritySet of t: only the ready list it is on may change.
Moved(a, t, new, r) ==
    /\ Sound(r) /\ r.base = r.prio /\ r.prio = [a.prio EXCEPT ![t] = new] /\ r.cur = a.cur
    /\ ReadyTasks(r) = ReadyTasks(a) /\ DelayedTasks(r) = DelayedTasks(a)
    /\ \A p \in Priorities : ToSet(r.ready[p].items) \subseteq
          ToSet(a.ready[p].items) \cup (IF p = new /\ t \in ReadyTasks(a) THEN {t} ELSE {})
    /\ r.suspended = a.suspended /\ r.pendedTicks = a.pendedTicks /\ r.pending = a.pending
    /\ r.tick = a.tick /\ r.yieldPending = a.yieldPending
    /\ \A l : Clocked(a, l) => Clocked(r, l)

LEMMA ReprioritisedIs ==
    ASSUME SchedInv, NEW t \in Tasks, NEW new \in Priorities
    PROVE  Moved(k, t, new, Reprioritised(t, new))
<1>. DEFINE set == [k EXCEPT !.prio[t] = NewPriority(t, new), !.base[t] = new,
                             !.evValue[t] = Highest(Priorities) + 1 - new]
<1>1. Sound(k) /\ WellFormed(k) /\ k.base = k.prio /\ k.prio \in [Tasks -> Priorities]
  BY Known DEF SchedInv
<1>2. NewPriority(t, new) = new
  BY <1>1 DEF NewPriority
<1>3. Retitled(k, t, new, set)
  BY <1>1, <1>2, RetitledIs
<1>4. Reprioritised(t, new)
        = IF t \in ReadyTasks(k) THEN AddToReady(RemoveState(set, t), t) ELSE set
  BY DEF Reprioritised
<1>. HIDE DEF set
<1>5. CASE t \notin ReadyTasks(k)
  <2>1. /\ Sound(set) /\ DelayedTasks(set) = DelayedTasks(k) /\ ReadyTasks(set) = ReadyTasks(k)
        /\ \A l : Clocked(k, l) => Clocked(set, l)
    BY <1>1, <1>3, <1>5, RetitledSound
  <2>2. Moved(k, t, new, set)
    BY <1>3, <2>1 DEF Retitled, Moved
  <2>. QED
    BY <1>4, <1>5, <2>2
<1>6. CASE t \in ReadyTasks(k)
  <2>. DEFINE b == RemoveState(set, t)
              r == AddToReady(b, t)
  <2>1. StateRemoved(set, t, b)
    BY <1>3, RemoveStateIs DEF Retitled
  <2>. HIDE DEF b
  <2>2. /\ Sound(b) /\ b.base = b.prio /\ b.prio = [k.prio EXCEPT ![t] = new]
        /\ \A p \in Priorities : ToSet(b.ready[p].items) = ToSet(k.ready[p].items) \ {t}
        /\ DelayedTasks(b) = DelayedTasks(k)
        /\ t \notin ReadyTasks(b) \cup DelayedTasks(b) \cup ToSet(b.terminating)
        /\ b.cur = k.cur /\ b.suspended = k.suspended /\ b.pendedTicks = k.pendedTicks
        /\ b.pending = k.pending /\ b.tick = k.tick /\ b.yieldPending = k.yieldPending
        /\ \A l : Clocked(k, l) => Clocked(b, l)
    BY <1>1, <1>3, <1>6, <2>1, LiftedSound
  <2>3. b.prio[t] = new
    BY <1>1, <2>2
  <2>4. Joined(b, t, new, r)
    BY <2>2, <2>3, JoinedIs
  <2>. HIDE DEF r
  <2>5. \A p \in Priorities : ToSet(r.ready[p].items) =
           (ToSet(k.ready[p].items) \ {t}) \cup (IF p = new THEN {t} ELSE {})
    BY <2>2, <2>4 DEF Joined
  <2>6. ReadyTasks(r) = ReadyTasks(k)
    <3>1. ReadyTasks(r) \subseteq ReadyTasks(k)
      BY <1>6, <2>5 DEF ReadyTasks
    <3>2. ReadyTasks(k) \ {t} \subseteq ReadyTasks(r)
      BY <2>5 DEF ReadyTasks
    <3>3. t \in ReadyTasks(r)
      BY <2>5 DEF ReadyTasks
    <3>. QED
      BY <3>1, <3>2, <3>3
  <2>7. /\ Sound(r) /\ r.base = r.prio /\ r.cur = k.cur /\ DelayedTasks(r) = DelayedTasks(k)
        /\ r.suspended = k.suspended /\ r.pendedTicks = k.pendedTicks /\ r.pending = k.pending
        /\ r.tick = k.tick /\ r.yieldPending = k.yieldPending
        /\ \A l : Clocked(k, l) => Clocked(r, l)
    BY <2>2, <2>4 DEF Joined
  <2>8. r.prio = [k.prio EXCEPT ![t] = new]
    BY <1>1, <2>2, <2>4 DEF Joined
  <2>9. Moved(k, t, new, r)
    BY <1>6, <2>5, <2>6, <2>7, <2>8 DEF Moved
  <2>. QED
    BY <1>4, <1>6, <2>9 DEF r, b
<1>. QED
  BY <1>5, <1>6

LEMMA PriorityKeeps ==
    ASSUME SchedInv, NEW t \in Tasks, NEW new \in Priorities, PrioritySet(t, new),
           UNCHANGED program
    PROVE  SchedInv'
<1>. DEFINE r == Reprioritised(t, new)
            yield == IF new > k.base[t] THEN t # cur /\ new >= k.prio[cur] ELSE t = cur
<1>1. /\ cur \in Tasks /\ cur = k.cur /\ k.prio \in [Tasks -> Priorities] /\ k.base = k.prio
      /\ Priorities \subseteq Int /\ Separate(k)
  BY Known DEF SchedInv, cur
<1>2. pc[cur].at = "run" /\ pc' = pc /\ left' = left /\ taken' = taken
  BY DEF PrioritySet, Is
<1>3. k' = IF yield THEN SwitchContext(r) ELSE r
  BY DEF PrioritySet
<1>4. Moved(k, t, new, r)
  BY ReprioritisedIs
<1>. HIDE DEF r
<1>5. Quiet(k, pc, left) /\ taken = k.tick % TickMod
  BY <1>2, IsQuiet DEF Suspending
<1>6. Quiet(r, pc', left') /\ taken' = r.tick % TickMod
  BY <1>2, <1>4, <1>5 DEF Quiet, Moved
<1>7. CASE yield
  BY <1>3, <1>6, <1>7, QuietSwitch DEF SchedInv
<1>8. CASE ~yield
  <2>1. k' = r /\ cur' = cur
    BY <1>1, <1>3, <1>4, <1>8 DEF Moved, cur
  <2>2. cur \in ReadyTasks(k) /\ NoneAbove(k)
    BY <1>2 DEF SchedInv, Chosen
  <2>3. NoneAbove(r)
    <3>1. SUFFICES ASSUME ~k.yieldPending, NEW p \in Priorities, p > r.prio[cur]
                   PROVE  ToSet(r.ready[p].items) = {}
      BY <1>1, <1>4 DEF NoneAbove, Moved
    <3>2. \A q \in Priorities : q > k.prio[cur] => ToSet(k.ready[q].items) = {}
      BY <1>1, <2>2, <3>1 DEF NoneAbove
    <3>3. r.prio[cur] = IF t = cur THEN new ELSE k.prio[cur]
      BY <1>1, <1>4 DEF Moved
    <3>4. t \in ReadyTasks(k) => t \in ToSet(k.ready[k.prio[t]].items)
      BY <1>1 DEF Separate, ReadyTasks
    <3>5. k.prio[t] \in Int /\ k.prio[cur] \in Int /\ new \in Int /\ p \in Int /\ k.base[t] = k.prio[t]
      BY <1>1
    <3>6. p > k.prio[cur]
      BY <1>8, <3>1, <3>3, <3>5
    <3>7. ToSet(k.ready[p].items) = {}
      BY <3>2, <3>6
    <3>8. ~(p = new /\ t \in ReadyTasks(k))
      <4>1. SUFFICES ASSUME p = new, t \in ReadyTasks(k) PROVE FALSE
        OBVIOUS
      <4>2. t # cur
        BY <3>1, <3>3, <3>5, <4>1
      <4>3. k.prio[t] > k.prio[cur]
        BY <1>8, <3>5, <3>6, <4>1, <4>2
      <4>4. ToSet(k.ready[k.prio[t]].items) = {}
        BY <1>1, <3>2, <4>3
      <4>. QED
        BY <3>4, <4>1, <4>4
    <3>. QED
      BY <1>4, <3>7, <3>8 DEF Moved
  <2>. QED
    BY <1>4, <1>6, <2>1, <2>2, <2>3, QuietStay DEF SchedInv, Moved
<1>. QED
  BY <1>7, <1>8


LEMMA CreateKeeps ==
    ASSUME SchedInv, NEW t \in Tasks, NEW new \in Priorities, Create(t, new), UNCHANGED program
    PROVE  SchedInv'
<1>. DEFINE set == [k EXCEPT !.prio[t] = new, !.base[t] = new,
                             !.evValue[t] = Highest(Priorities) + 1 - new]
            r == AddToReady(set, t)
            p == IF k.prio[cur] < new THEN At("yield", 0) ELSE pc[cur]
<1>1. /\ cur \in Tasks /\ cur = k.cur /\ k.prio \in [Tasks -> Priorities] /\ k.base = k.prio
      /\ Priorities \subseteq Int /\ Sound(k) /\ WellFormed(k) /\ Idle \in Tasks /\ 0 \in Ticks
  BY Known DEF SchedInv, cur
<1>2. /\ pc[cur].at = "run" /\ left' = left /\ taken' = taken /\ k' = r
      /\ t \notin ReadyTasks(k) \cup DelayedTasks(k) \cup ToSet(k.terminating)
      /\ pc' = [pc EXCEPT ![t] = Running, ![cur] = IF k.prio[cur] < new THEN At("yield", 0) ELSE @]
  BY DEF Create, Is, Exists
<1>3. Quiet(k, pc, left) /\ taken = k.tick % TickMod
  BY <1>2, IsQuiet DEF Suspending
<1>4. cur \in ReadyTasks(k) /\ NoneAbove(k)
  BY <1>2 DEF SchedInv, Chosen
<1>5. t # cur
  BY <1>2, <1>4
<1>6. Retitled(k, t, new, set)
  BY <1>1, RetitledIs
<1>. HIDE DEF set
<1>7. /\ Sound(set) /\ DelayedTasks(set) = DelayedTasks(k) /\ ReadyTasks(set) = ReadyTasks(k)
      /\ \A l : Clocked(k, l) => Clocked(set, l)
  BY <1>1, <1>2, <1>6, RetitledSound
<1>8. /\ set.base = set.prio /\ set.prio = [k.prio EXCEPT ![t] = new]
      /\ set.cur = k.cur /\ set.suspended = k.suspended /\ set.pendedTicks = k.pendedTicks
      /\ set.pending = k.pending /\ set.tick = k.tick /\ set.yieldPending = k.yieldPending
      /\ set.ready = k.ready /\ set.terminating = k.terminating
  BY <1>6 DEF Retitled
<1>9. Joined(set, t, new, r)
  <2>1. set.prio[t] = new
    BY <1>1, <1>8
  <2>. QED
    BY <1>2, <1>7, <1>8, <2>1, JoinedIs
<1>. HIDE DEF r
<1>10. \A q \in Priorities : ToSet(r.ready[q].items) =
          (ToSet(k.ready[q].items) \ {t}) \cup (IF q = new THEN {t} ELSE {})
  BY <1>8, <1>9 DEF Joined
<1>11. ReadyTasks(r) = ReadyTasks(k) \cup {t}
  <2>1. ReadyTasks(r) \subseteq ReadyTasks(k) \cup {t}
    BY <1>10 DEF ReadyTasks
  <2>2. ReadyTasks(k) \subseteq ReadyTasks(r)
    BY <1>2, <1>10 DEF ReadyTasks
  <2>3. t \in ReadyTasks(r)
    BY <1>10 DEF ReadyTasks
  <2>. QED
    BY <2>1, <2>2, <2>3
<1>12. \A u \in Tasks : pc'[u] = IF u = t THEN Running ELSE IF u = cur THEN p ELSE pc[u]
  BY <1>1, <1>2, <1>3, <1>5 DEF Quiet
<1>13. /\ Running \in [at : Labels, ticks : Ticks] /\ Running.at = "run"
       /\ p \in [at : Labels, ticks : Ticks] /\ p.at \in {"run", "yield"}
  BY <1>1, <1>2, <1>3 DEF Running, At, Labels, Quiet
<1>. HIDE DEF p
<1>14. pc' \in [Tasks -> [at : Labels, ticks : Ticks]]
  <2>1. DOMAIN pc' = Tasks /\ pc' = [u \in Tasks |-> pc'[u]]
    BY <1>2, <1>3 DEF Quiet
  <2>2. \A u \in Tasks : pc'[u] \in [at : Labels, ticks : Ticks]
    BY <1>3, <1>12, <1>13 DEF Quiet
  <2>. QED
    BY <2>1, <2>2
<1>15. \A u \in Tasks : pc'[u].at \notin Suspending
  BY <1>3, <1>12, <1>13 DEF Quiet, Suspending
<1>16. \A u \in Tasks : pc'[u].at = "deleted" <=> u \notin ReadyTasks(r) \cup DelayedTasks(r)
  <2>1. DelayedTasks(r) = DelayedTasks(k)
    BY <1>7, <1>9 DEF Joined
  <2>. QED
    BY <1>1, <1>3, <1>4, <1>11, <1>12, <1>13, <2>1 DEF Quiet
<1>17. /\ Sound(r) /\ r.base = r.prio /\ r.suspended = 0 /\ r.pendedTicks = 0 /\ r.pending = <<>>
       /\ r.cur = k.cur /\ r.tick = k.tick /\ r.yieldPending = k.yieldPending
       /\ r.prio = [k.prio EXCEPT ![t] = new]
       /\ \A l : Clocked(k, l) => Clocked(r, l)
  <2>1. r.prio = [k.prio EXCEPT ![t] = new]
    BY <1>1, <1>8, <1>9 DEF Joined
  <2>. QED
    BY <1>3, <1>7, <1>8, <1>9, <2>1 DEF Joined, Quiet
<1>18. Quiet(r, pc', left')
  BY <1>2, <1>3, <1>11, <1>14, <1>15, <1>16, <1>17 DEF Quiet
<1>19. pc'[cur].at = "run" => NoneAbove(r)
  <2>1. SUFFICES ASSUME pc'[cur].at = "run" PROVE NoneAbove(r)
    OBVIOUS
  <2>2. ~(k.prio[cur] < new)
    BY <1>1, <1>5, <1>12, <2>1 DEF p, At
  <2>3. r.prio[cur] = k.prio[cur] /\ k.prio[cur] \in Int /\ new \in Int
    BY <1>1, <1>5, <1>17
  <2>4. \A q \in Priorities : q > r.prio[cur] =>
           q # new /\ ToSet(r.ready[q].items) \subseteq ToSet(k.ready[q].items)
    BY <1>1, <1>10, <2>2, <2>3
  <2>. QED
    BY <1>1, <1>4, <1>17, <2>3, <2>4 DEF NoneAbove
<1>. QED
  BY <1>1, <1>2, <1>3, <1>4, <1>11, <1>17, <1>18, <1>19, QuietStay DEF SchedInv, cur

LEMMA StillAboveNone ==
    ASSUME NEW a, NEW r, NoneAbove(a), r.yieldPending = a.yieldPending, r.prio = a.prio,
           r.cur = a.cur,
           \A p \in Priorities : ToSet(r.ready[p].items) \subseteq ToSet(a.ready[p].items)
    PROVE  NoneAbove(r)
  BY DEF NoneAbove

\* Task t gone, the task that runs stays or is t itself.
LEMMA QuietGone ==
    ASSUME Quiet(k, pc, left), NEW t \in Tasks \ {Idle}, NEW r, Sound(r), SameRest(k, r),
           \A p \in Priorities : ToSet(r.ready[p].items) = ToSet(k.ready[p].items) \ {t},
           DelayedTasks(r) = DelayedTasks(k) \ {t}, ToSet(r.pending) = ToSet(k.pending) \ {t},
           NEW l \in [Tasks -> Nat], Clocked(r, l),
           NEW q, q = [pc EXCEPT ![t] = At("deleted", 0)]
    PROVE  Quiet(r, q, l)
<1>1. At("deleted", 0) \in [at : Labels, ticks : Ticks] /\ At("deleted", 0).at = "deleted"
  BY SchedulerAssumption, TaskListsAssumption DEF At, Labels, Ticks
<1>2. \A u \in Tasks : q[u] = IF u = t THEN At("deleted", 0) ELSE pc[u]
  BY DEF Quiet
<1>3. q \in [Tasks -> [at : Labels, ticks : Ticks]]
  BY <1>1 DEF Quiet
<1>4. ReadyTasks(r) = ReadyTasks(k) \ {t}
  BY GoneReady
<1>5. r.pending = <<>>
  <2>1. r.pending \in Seq(Tasks)
    BY KernelFields DEF Sound, WellFormed
  <2>2. ToSet(k.pending) = {}
    BY DEF Quiet, ToSet
  <2>. QED
    BY <2>1, <2>2, NoPending
<1>6. \A u \in Tasks : q[u].at \notin Suspending
  BY <1>1, <1>2 DEF Quiet, Suspending
<1>7. \A u \in Tasks : q[u].at = "deleted" <=> u \notin ReadyTasks(r) \cup DelayedTasks(r)
  BY <1>1, <1>2, <1>4 DEF Quiet
<1>. QED
  BY <1>3, <1>4, <1>5, <1>6, <1>7 DEF Quiet, SameRest

LEMMA DeleteOtherKeeps ==
    ASSUME SchedInv, NEW t \in Tasks, DeleteOther(t), UNCHANGED program
    PROVE  SchedInv'
<1>. DEFINE c == RemoveEvent(RemoveState(k, t), t)
            r == ResetNextUnblock(c)
<1>1. cur \in Tasks /\ cur = k.cur /\ Sound(k)
  BY Known DEF SchedInv, cur
<1>2. /\ pc[cur].at = "run" /\ left' = [left EXCEPT ![t] = 0] /\ taken' = taken /\ k' = r
      /\ pc' = [pc EXCEPT ![t] = At("deleted", 0)] /\ t \notin {cur, Idle}
  BY DEF DeleteOther, Is, Forget
<1>3. Quiet(k, pc, left) /\ taken = k.tick % TickMod
  BY <1>2, IsQuiet DEF Suspending
<1>4. cur \in ReadyTasks(k) /\ NoneAbove(k)
  BY <1>2 DEF SchedInv, Chosen
<1>5. Gone(k, t, c)
  BY <1>1, GoneIs
<1>. HIDE DEF c
<1>6. MadeReady(c, {}, r) /\ UnblocksInTime(r)
  BY <1>5, ResetNextUnblockIs DEF Gone, Sound, Timely
<1>. HIDE DEF r
<1>7. Sound(r) /\ Awakened(c, {}, r) /\ SameRest(c, r) /\ \A l : Clocked(c, l) => Clocked(r, l)
  BY <1>5, <1>6, MadeReadySound DEF Gone, MadeReady
<1>8. /\ \A p \in Priorities : ToSet(r.ready[p].items) = ToSet(k.ready[p].items) \ {t}
      /\ DelayedTasks(r) = DelayedTasks(k) \ {t}
      /\ ToSet(r.pending) = ToSet(k.pending) \ {t} /\ SameRest(k, r)
  BY <1>5, <1>7 DEF Gone, Awakened, SameRest
<1>9. left' \in [Tasks -> Nat] /\ Clocked(r, left')
  <2>1. left \in [Tasks -> Nat] /\ Clocked(r, left)
    BY <1>3, <1>5, <1>7 DEF Quiet, Gone
  <2>2. \A u \in DelayedTasks(r) : left'[u] = left[u]
    <3>1. DelayedTasks(r) \subseteq Tasks \ {t}
      BY <1>7, <1>8, KernelFields, ToSetIn DEF DelayedTasks, Sound, WellFormed
    <3>. QED
      BY <1>2, <2>1, <3>1
  <2>. QED
    BY <1>2, <2>1, <2>2 DEF Clocked
<1>10. Quiet(r, pc', left')
  BY <1>2, <1>3, <1>7, <1>8, <1>9, QuietGone
<1>11. cur \in ReadyTasks(r) /\ NoneAbove(r)
  <2>1. ReadyTasks(r) = ReadyTasks(k) \ {t}
    BY <1>8, GoneReady
  <2>2. r.yieldPending = k.yieldPending /\ r.prio = k.prio /\ r.cur = k.cur
    BY <1>8 DEF SameRest
  <2>3. \A p \in Priorities : ToSet(r.ready[p].items) \subseteq ToSet(k.ready[p].items)
    BY <1>8
  <2>. QED
    BY <1>2, <1>4, <2>1, <2>2, <2>3, StillAboveNone
<1>. QED
  BY <1>1, <1>2, <1>3, <1>8, <1>10, <1>11, QuietStay DEF SchedInv, SameRest, cur

LEMMA DeleteSelfKeeps ==
    ASSUME SchedInv, DeleteSelf, UNCHANGED program
    PROVE  SchedInv'
<1>. DEFINE c == RemoveEvent(RemoveState(k, cur), cur)
            r == [c EXCEPT !.terminating = Append(@, cur)]
<1>1. cur \in Tasks /\ cur = k.cur /\ Sound(k)
  BY Known DEF SchedInv, cur
<1>2. /\ pc[cur].at = "run" /\ left' = left /\ taken' = taken /\ k' = r
      /\ pc' = [pc EXCEPT ![cur] = At("deleted", 0)] /\ cur # Idle
  BY DEF DeleteSelf, Is, Goto
<1>3. Quiet(k, pc, left) /\ taken = k.tick % TickMod
  BY <1>2, IsQuiet DEF Suspending
<1>4. Gone(k, cur, c)
  BY <1>1, GoneIs
<1>. HIDE DEF c
<1>5. ReadyTasks(c) = ReadyTasks(k) \ {cur}
  BY <1>4, GoneReady DEF Gone
<1>6. /\ Append(c.terminating, cur) \in Seq(Tasks) /\ IsInjective(Append(c.terminating, cur))
      /\ ToSet(Append(c.terminating, cur)) = ToSet(c.terminating) \cup {cur}
  <2>1. c.terminating \in Seq(Tasks) /\ IsInjective(c.terminating)
    BY <1>4, KernelFields DEF Gone, Sound, WellFormed
  <2>2. cur \notin ToSet(c.terminating)
    BY <1>4 DEF Gone
  <2>. QED
    BY <1>1, <2>1, <2>2, AppendIs
<1>7. ToSet(Append(c.terminating, cur)) \cap (ReadyTasks(c) \cup DelayedTasks(c)) = {}
  BY <1>4, <1>5, <1>6 DEF Gone, Sound, Separate
<1>8. /\ Sound(r) /\ r.ready = c.ready /\ r.delayed = c.delayed /\ r.overflow = c.overflow
      /\ r.pending = c.pending /\ r.wake = c.wake /\ SameRest(c, r)
  <2>1. Sound(c) /\ Terminating(c, Append(c.terminating, cur), r)
    BY <1>4 DEF Gone, Terminating
  <2>. HIDE DEF r
  <2>. DEFINE s == Append(c.terminating, cur)
  <2>2. /\ s \in Seq(Tasks) /\ IsInjective(s) /\ Terminating(c, s, r)
        /\ ToSet(s) \cap (ReadyTasks(c) \cup DelayedTasks(c)) = {}
    BY <1>6, <1>7, <2>1
  <2>. HIDE DEF s
  <2>. QED
    BY <2>1, <2>2, TerminatingSound
<1>. HIDE DEF r
<1>9. /\ \A p \in Priorities : ToSet(r.ready[p].items) = ToSet(k.ready[p].items) \ {cur}
      /\ DelayedTasks(r) = DelayedTasks(k) \ {cur}
      /\ ToSet(r.pending) = ToSet(k.pending) \ {cur} /\ SameRest(k, r)
  BY <1>4, <1>8 DEF Gone, SameRest, DelayedTasks
<1>10. left' \in [Tasks -> Nat] /\ Clocked(r, left')
  <2>1. left \in [Tasks -> Nat] /\ Clocked(c, left)
    BY <1>3, <1>4 DEF Quiet, Gone
  <2>. QED
    BY <1>2, <1>8, <2>1 DEF Clocked, DelayedTasks, SameRest
<1>11. Quiet(r, pc', left')
  BY <1>1, <1>2, <1>3, <1>8, <1>9, <1>10, QuietGone
<1>12. pc'[cur].at = "deleted"
  BY <1>1, <1>2, <1>3 DEF Quiet, At
<1>. QED
  BY <1>1, <1>2, <1>3, <1>9, <1>11, <1>12, QuietStay DEF SchedInv, SameRest, cur

LEMMA CleanUpKeeps ==
    ASSUME SchedInv, IdleCleanUp, UNCHANGED program
    PROVE  SchedInv'
<1>1. cur \in Tasks /\ cur = k.cur /\ Sound(k)
  BY Known DEF SchedInv, cur
<1>2. /\ pc[cur].at = "run" /\ left' = left /\ taken' = taken /\ pc' = pc
      /\ k' = [k EXCEPT !.terminating = Tail(k.terminating)] /\ k.terminating # <<>>
  BY DEF IdleCleanUp, Is
<1>3. Quiet(k, pc, left) /\ taken = k.tick % TickMod
  BY <1>2, IsQuiet DEF Suspending
<1>4. cur \in ReadyTasks(k) /\ NoneAbove(k)
  BY <1>2 DEF SchedInv, Chosen
<1>5. /\ Tail(k.terminating) \in Seq(Tasks) /\ IsInjective(Tail(k.terminating))
      /\ ToSet(Tail(k.terminating)) \subseteq ToSet(k.terminating)
  <2>1. k.terminating \in Seq(Tasks) /\ IsInjective(k.terminating)
    BY <1>1, KernelFields DEF Sound, WellFormed
  <2>. QED
    BY <1>2, <2>1, TailIs
<1>6. /\ Sound(k') /\ k'.ready = k.ready /\ k'.delayed = k.delayed /\ k'.overflow = k.overflow
      /\ k'.pending = k.pending /\ k'.wake = k.wake /\ SameRest(k, k')
  <2>1. ToSet(Tail(k.terminating)) \cap (ReadyTasks(k) \cup DelayedTasks(k)) = {}
    BY <1>1, <1>5 DEF Sound, Separate
  <2>2. Terminating(k, Tail(k.terminating), k')
    BY <1>2 DEF Terminating
  <2>. DEFINE s == Tail(k.terminating)
  <2>3. /\ s \in Seq(Tasks) /\ IsInjective(s) /\ Terminating(k, s, k')
        /\ ToSet(s) \cap (ReadyTasks(k) \cup DelayedTasks(k)) = {}
    BY <1>5, <2>1, <2>2
  <2>. HIDE DEF s
  <2>. QED
    BY <1>1, <2>3, TerminatingSound
<1>7. ReadyTasks(k') = ReadyTasks(k) /\ DelayedTasks(k') = DelayedTasks(k)
  BY <1>6 DEF ReadyTasks, DelayedTasks
<1>8. Quiet(k', pc', left')
  <2>1. Clocked(k', left)
    BY <1>3, <1>6, <1>7 DEF Quiet, SameRest, Clocked
  <2>2. /\ k'.base = k'.prio /\ k'.suspended = 0 /\ k'.pendedTicks = 0 /\ k'.pending = <<>>
        /\ k'.tick = k.tick
    BY <1>3, <1>6 DEF Quiet, SameRest
  <2>. QED
    BY <1>2, <1>3, <1>6, <1>7, <2>1, <2>2 DEF Quiet
<1>9. NoneAbove(k')
  BY <1>4, <1>6, StillAboveNone DEF SameRest
<1>. QED
  BY <1>1, <1>2, <1>3, <1>4, <1>6, <1>7, <1>8, <1>9, QuietStay DEF SchedInv, SameRest, cur

-----------------------------------------------------------------------------
(* The invariant *)

LEMMA NextKeeps ==
    ASSUME SchedInv, [Next]_vars
    PROVE  SchedInv'
<1>1. CASE UNCHANGED vars
  BY <1>1 DEF vars, SchedInv, Placed, Chosen, Counted, cur
<1>2. ASSUME NEW n \in Delays, NEW l \in {"delay", "block"}, BeginBlocking(l, n), UNCHANGED program
      PROVE  SchedInv'
  <2>1. At(l, n) \in [at : {"heap", "delay", "block"}, ticks : Ticks] /\ At(l, n).ticks = n
    BY Known DEF At
  <2>. QED
    BY <1>2, <2>1, SuspendKeeps DEF BeginBlocking, Is
<1>3. ASSUME BeginHeapCall, UNCHANGED program PROVE SchedInv'
  <2>1. At("heap", 0) \in [at : {"heap", "delay", "block"}, ticks : Ticks] /\ At("heap", 0).at = "heap"
    BY Known DEF At
  <2>. QED
    BY <1>3, <2>1, SuspendKeeps DEF BeginHeapCall, Is
<1>4. ASSUME PlaceDelayed \/ PlaceOnQueue, UNCHANGED program PROVE SchedInv'
  <2>1. pc[cur].ticks \in Ticks \ {0} /\ k.cur \in ReadyTasks(k) /\ QueueList \in EventLists
    BY <1>4, Known DEF SchedInv, Placed, Chosen, PlaceDelayed, PlaceOnQueue, Is, cur
  <2>2. Sleeps(k, pc[cur].ticks, k')
    BY <1>4, <2>1, DelaySleeps, PlaceSleeps DEF SchedInv, PlaceDelayed, PlaceOnQueue
  <2>. QED
    BY <1>4, <2>2, SleepKeeps DEF PlaceDelayed, PlaceOnQueue, Is
<1>5. ASSUME YieldWithinApi \/ YieldDeleted \/ Yield, UNCHANGED program PROVE SchedInv'
  <2>1. /\ UNCHANGED <<program, left, taken>> /\ k' = SwitchContext(k)
        /\ pc[cur].at \in {"run", "yield", "deleted"}
        /\ pc' = pc \/ (pc[cur].at # "deleted" /\ Goto(Running))
    <3>1. CASE YieldWithinApi
      BY <1>5, <3>1 DEF YieldWithinApi, Is
    <3>2. CASE YieldDeleted
      BY <1>5, <3>2 DEF YieldDeleted, Is
    <3>3. CASE Yield
      BY <1>5, <3>3 DEF Yield, Is
    <3>. QED
      BY <1>5, <3>1, <3>2, <3>3
  <2>2. pc[cur].at \notin Suspending
    BY <2>1 DEF Suspending
  <2>. QED
    BY <2>1, <2>2, SwitchKeeps
<1>6. ASSUME Signal \/ SignalSuspended \/ SignalFromIsr, UNCHANGED program PROVE SchedInv'
  <2>. DEFINE t == Unblocked
              r == RemoveFromEventList(k, QueueList)
  <2>1. k.events[QueueList] # <<>> /\ left' = [left EXCEPT ![t] = 0] /\ UNCHANGED <<pc, taken>>
    BY <1>6 DEF Signal, SignalSuspended, SignalFromIsr, Forget
  <2>2. Given(k, t, r)
    BY <2>1, HeadGiven
  <2>3. k' = r \/ k' = SwitchContext(r)
    BY <1>6, <2>1, FlagAgain DEF Signal, SignalSuspended, SignalFromIsr
  <2>. HIDE DEF t, r
  <2>. QED
    BY <1>6, <2>1, <2>2, <2>3, SignalKeeps
<1>. QED
  BY <1>1, <1>2, <1>3, <1>4, <1>5, <1>6, TickKeeps, ResumeKeeps, PriorityKeeps, CreateKeeps,
     DeleteOtherKeeps, DeleteSelfKeeps, CleanUpKeeps DEF Next, ApiStep

LEMMA InitHolds == Init => SchedInv
<1>. SUFFICES ASSUME Init PROVE SchedInv
  OBVIOUS
<1>1. PICK order \in SetToSeqs(program.tasks \ {Idle}) :
         k = StartedWith(Append(order, Idle), InitPrio)
  BY DEF Init
<1>2. /\ Idle \in Tasks /\ InitPrio \in [Tasks -> Priorities] /\ program \in Programs
      /\ program.tasks \in SUBSET Tasks /\ Idle \in program.tasks
      /\ IsFiniteSet(Tasks) /\ TickMod \in Nat \ {0, 1} /\ InitPrio[Idle] = 0
      /\ MaxPended \in Nat /\ Priorities \subseteq Int
  BY SchedulerAssumption, TaskListsAssumption DEF Init
<1>3. /\ order \in Seq(Tasks) /\ IsInjective(order)
      /\ ToSet(order) = program.tasks \ {Idle}
  BY <1>2, OrderIs
<1>4. /\ Append(order, Idle) \in Seq(Tasks) /\ IsInjective(Append(order, Idle))
      /\ ToSet(Append(order, Idle)) = program.tasks
  <2>1. Idle \notin ToSet(order) /\ ToSet(order) \cup {Idle} = program.tasks
    BY <1>2, <1>3
  <2>2. /\ Append(order, Idle) \in Seq(Tasks) /\ IsInjective(Append(order, Idle))
        /\ ToSet(Append(order, Idle)) = ToSet(order) \cup {Idle}
    <3>1. Idle \in Tasks /\ order \in Seq(Tasks) /\ IsInjective(order) /\ Idle \notin ToSet(order)
      BY <1>2, <1>3, <2>1
    <3>. QED
      BY <3>1, AppendIs
  <2>. QED
    BY <2>1, <2>2
<1>5. Started(program.tasks, InitPrio, k)
  <2>. DEFINE s == Append(order, Idle)
  <2>1. s \in Seq(Tasks) /\ IsInjective(s) /\ ToSet(s) = program.tasks /\ k = StartedWith(s, InitPrio)
    BY <1>1, <1>4
  <2>2. s # <<>>
    BY <1>2, <2>1 DEF ToSet
  <2>. HIDE DEF s
  <2>. QED
    BY <1>2, <2>1, <2>2, StartedWithIs
<1>6. /\ WellFormed(k) /\ k.delayed = <<>> /\ k.overflow = <<>> /\ k.terminating = <<>>
      /\ k.pending = <<>> /\ k.prio = InitPrio /\ k.base = InitPrio
      /\ k.tick = 0 /\ k.suspended = 0 /\ k.pendedTicks = 0 /\ k.cur \in program.tasks
      /\ \A t \in program.tasks : k.prio[t] <= k.prio[k.cur]
      /\ \A e \in EventLists : k.events[e] = <<>>
      /\ \A p \in Priorities : ToSet(k.ready[p].items) = {t \in program.tasks : InitPrio[t] = p}
  BY <1>2, <1>5 DEF Started
<1>7. ToSet(k.delayed) = {} /\ ToSet(k.overflow) = {} /\ ToSet(k.terminating) = {}
      /\ ToSet(k.pending) = {} /\ \A e \in EventLists : ToSet(k.events[e]) = {}
  BY <1>6 DEF ToSet
<1>8. DelayedTasks(k) = {}
  BY <1>7 DEF DelayedTasks
<1>9. ReadyTasks(k) = program.tasks
  <2>1. ReadyTasks(k) \subseteq program.tasks
    BY <1>6 DEF ReadyTasks
  <2>2. ASSUME NEW t \in program.tasks PROVE t \in ReadyTasks(k)
    <3>1. InitPrio[t] \in Priorities
      BY <1>2
    <3>2. t \in ToSet(k.ready[InitPrio[t]].items)
      BY <1>6, <3>1
    <3>. QED
      BY <3>1, <3>2 DEF ReadyTasks
  <2>. QED
    BY <2>1, <2>2
<1>10. Separate(k)
  BY <1>6, <1>7, <1>8 DEF Separate
<1>11. Timely(k)
  BY <1>6, <1>7 DEF Timely, Sorted, UnblocksInTime
<1>12. NoneAbove(k)
  <2>1. \A p \in Priorities : p > k.prio[k.cur] => ToSet(k.ready[p].items) = {}
    <3>1. SUFFICES ASSUME NEW p \in Priorities, p > k.prio[k.cur],
                          NEW t \in ToSet(k.ready[p].items)
                   PROVE  FALSE
      OBVIOUS
    <3>2. t \in program.tasks /\ k.prio[t] = p /\ k.prio[t] <= k.prio[k.cur]
      BY <1>6
    <3>3. k.prio[k.cur] \in Int /\ p \in Int
      BY <1>2, <1>6
    <3>. QED
      BY <3>1, <3>2, <3>3
  <2>. QED
    BY <2>1 DEF NoneAbove
<1>13. \A t \in Tasks : pc[t] = IF t \in program.tasks THEN Running ELSE At("deleted", 0)
  BY DEF Init
<1>14. pc \in [Tasks -> [at : Labels, ticks : Ticks]]
  <2>1. 0 \in Ticks
    BY <1>2 DEF Ticks
  <2>. QED
    BY <2>1 DEF Init, Running, At, Labels
<1>15. \A t \in Tasks : pc[t].at = IF t \in program.tasks THEN "run" ELSE "deleted"
  BY <1>13 DEF Running, At
<1>16. cur \in Tasks
  BY <1>2, <1>6 DEF cur
<1>17. Placed
  BY <1>6, <1>8, <1>9, <1>14, <1>15, <1>16 DEF Placed, Suspending
<1>18. Chosen
  BY <1>2, <1>6, <1>9, <1>12, <1>15 DEF Chosen, cur
<1>19. Counted
  <2>1. 0 + 0 = 0 /\ 0 % TickMod = 0 /\ taken = 0
    BY <1>2 DEF Init
  <2>2. left \in [Tasks -> Nat]
    BY DEF Init
  <2>3. Clocked(k, left)
    BY <1>8 DEF Clocked
  <2>. QED
    BY <1>2, <1>6, <2>1, <2>2, <2>3 DEF Counted
<1>. QED
  BY <1>2, <1>6, <1>10, <1>11, <1>17, <1>18, <1>19 DEF SchedInv, Sound


\* SchedInv is an invariant: what TaskLists' operations do to the lists agrees, after
\* every step of tasks and interrupts, with where each task is inside the API, the
\* yield flag and the ticks.
THEOREM SchedInvariant == Spec => []SchedInv
<1>1. SchedInv /\ [Next]_vars => SchedInv'
  BY NextKeeps
<1>. QED
  BY <1>1, InitHolds, PTL DEF Spec

-----------------------------------------------------------------------------
(* What follows from it in every state *)

LEMMA InvTypeOK == SchedInv => TypeOK
<1>. SUFFICES ASSUME SchedInv PROVE TypeOK
  OBVIOUS
<1>1. /\ k \in KState /\ WellFormed(k) /\ k.base = k.prio /\ k.prio \in [Tasks -> Priorities]
      /\ k.cur \in Tasks /\ k.tick \in Ticks /\ k.nextUnblock \in Ticks /\ k.pendedTicks \in Nat
  BY Known, KernelFields DEF SchedInv, Ticks, cur
<1>2. k.pendedTicks \in 0..MaxPended
  BY <1>1, SchedulerAssumption DEF SchedInv, Counted
<1>3. k.suspended \in 0..2
  BY DEF SchedInv, Placed
<1>4. \A p \in Priorities : k.ready[p].index \in 0..Len(k.ready[p].items)
  <2>1. ASSUME NEW p \in Priorities PROVE k.ready[p].index \in 0..Len(k.ready[p].items)
    <3>1. /\ k.ready[p].index \in Nat /\ k.ready[p].items \in Seq(Tasks)
          /\ k.ready[p].index <= Len(k.ready[p].items)
      BY <1>1 DEF WellFormed, ListOK
    <3>. QED
      BY <3>1
  <2>. QED
    BY <2>1
<1>5. \A t \in Tasks : pc[t].at \in {"run", "delay", "block", "heap", "resume", "yield", "deleted"}
  BY DEF SchedInv, Placed, Labels
<1>. QED
  BY <1>1, <1>2, <1>3, <1>4, <1>5 DEF TypeOK

LEMMA InvListsIntact == SchedInv => ListsIntact
<1>. SUFFICES ASSUME SchedInv PROVE ListsIntact
  OBVIOUS
<1>1. WellFormed(k) /\ Separate(k)
  BY Known
<1>2. ASSUME NEW t \in Tasks
      PROVE  /\ IF pc[t].at = "deleted" THEN StatesOf(t) \in {{}, {4}}
                                        ELSE StatesOf(t) \in {{1}, {2}, {3}}
             /\ ~(OnEvent(t) /\ OnPending(t))
             /\ OnEvent(t) \/ OnPending(t) => t \in DelayedTasks(k)
  <2>. DEFINE S == StateSets
  <2>1. /\ S[1] = ReadyTasks(k) /\ S[2] = ToSet(k.delayed) /\ S[3] = ToSet(k.overflow)
        /\ S[4] = ToSet(k.terminating)
    BY DEF StateSets
  <2>. HIDE DEF S
  <2>2. \A i \in 1..4 : i \in StatesOf(t) <=> t \in S[i]
    BY DEF StatesOf, S
  <2>3. StatesOf(t) \subseteq 1..4
    BY DEF StatesOf
  <2>4. pc[t].at = "deleted" <=> t \notin S[1] \cup S[2] \cup S[3]
    BY <2>1 DEF SchedInv, Placed, DelayedTasks
  <2>5. /\ S[1] \cap S[2] = {} /\ S[1] \cap S[3] = {} /\ S[2] \cap S[3] = {}
        /\ S[1] \cap S[4] = {} /\ S[2] \cap S[4] = {} /\ S[3] \cap S[4] = {}
    BY <1>1, <2>1 DEF Separate, DelayedTasks
  <2>6. CASE pc[t].at = "deleted"
    <3>1. t \notin S[1] /\ t \notin S[2] /\ t \notin S[3]
      BY <2>4, <2>6
    <3>2. StatesOf(t) = {} \/ StatesOf(t) = {4}
      BY <2>2, <2>3, <3>1
    <3>. QED
      BY <1>1, <2>6, <3>2 DEF Separate, OnEvent, OnPending
  <2>7. CASE pc[t].at # "deleted"
    <3>1. t \in S[1] \/ t \in S[2] \/ t \in S[3]
      BY <2>4, <2>7
    <3>2. CASE t \in S[1]
      <4>1. StatesOf(t) = {1}
        BY <2>2, <2>3, <2>5, <3>2
      <4>. QED
        BY <1>1, <2>7, <4>1 DEF Separate, OnEvent, OnPending
    <3>3. CASE t \in S[2]
      <4>1. StatesOf(t) = {2}
        BY <2>2, <2>3, <2>5, <3>3
      <4>. QED
        BY <1>1, <2>7, <4>1 DEF Separate, OnEvent, OnPending
    <3>4. CASE t \in S[3]
      <4>1. StatesOf(t) = {3}
        BY <2>2, <2>3, <2>5, <3>4
      <4>. QED
        BY <1>1, <2>7, <4>1 DEF Separate, OnEvent, OnPending
    <3>. QED
      BY <3>1, <3>2, <3>3, <3>4
  <2>. QED
    BY <2>6, <2>7
<1>3. \A s \in StateLists \cup {k.pending, k.events[QueueList]} : IsInjective(s)
  <2>1. QueueList \in EventLists
    BY Known
  <2>2. \A p \in Priorities : IsInjective(k.ready[p].items)
    BY <1>1 DEF WellFormed, ListOK
  <2>3. /\ IsInjective(k.delayed) /\ IsInjective(k.overflow) /\ IsInjective(k.terminating)
        /\ IsInjective(k.pending) /\ IsInjective(k.events[QueueList])
    BY <1>1, <2>1 DEF WellFormed
  <2>. QED
    BY <2>2, <2>3 DEF StateLists
<1>4. \A p \in Priorities : \A t \in ToSet(k.ready[p].items) : k.prio[t] = p
  BY <1>1 DEF Separate
<1>. QED
  BY <1>2, <1>3, <1>4, InvTypeOK DEF ListsIntact

LEMMA InvHighestRuns == SchedInv => HighestRuns
<1>. SUFFICES ASSUME SchedInv, ~k.yieldPending, Is("run")
              PROVE  cur \in ToSet(k.ready[TopReady(k)].items)
  BY DEF HighestRuns
<1>1. cur \in ReadyTasks(k) /\ NoneAbove(k) /\ cur = k.cur
  BY DEF SchedInv, Chosen, Is, cur
<1>2. WellFormed(k) /\ Separate(k) /\ k.prio \in [Tasks -> Priorities] /\ Priorities \subseteq Int
      /\ cur \in Tasks
  BY Known
<1>. DEFINE q == k.prio[cur]
            S == {p \in Priorities : k.ready[p].items # <<>>}
<1>3. q \in Priorities /\ cur \in ToSet(k.ready[q].items)
  BY <1>1, <1>2 DEF ReadyTasks, Separate
<1>4. k.ready[q].items # <<>>
  BY <1>3 DEF ToSet
<1>5. TopReady(k) \in S /\ \A p \in S : p <= TopReady(k)
  <2>1. S \subseteq Priorities /\ S # {} /\ TopReady(k) = Highest(S)
    BY <1>3, <1>4 DEF TopReady
  <2>. HIDE DEF S
  <2>. QED
    BY <2>1, HighestIs
<1>6. ~(TopReady(k) > q)
  <2>1. SUFFICES ASSUME TopReady(k) > q PROVE FALSE
    OBVIOUS
  <2>2. ToSet(k.ready[TopReady(k)].items) = {}
    BY <1>1, <1>5, <2>1 DEF NoneAbove
  <2>3. k.ready[TopReady(k)].items \in Seq(Tasks)
    BY <1>2, <1>5 DEF WellFormed, ListOK
  <2>. QED
    BY <1>5, <2>2, <2>3, NoPending
<1>7. TopReady(k) = q
  <2>1. q <= TopReady(k) /\ TopReady(k) \in Int /\ q \in Int
    BY <1>2, <1>3, <1>4, <1>5
  <2>. QED
    BY <1>6, <2>1
<1>. QED
  BY <1>3, <1>7

LEMMA InvTimeoutsKept == SchedInv => TimeoutsKept
<1>. SUFFICES ASSUME SchedInv PROVE TimeoutsKept
  OBVIOUS
<1>1. /\ Separate(k) /\ Timely(k) /\ k.wake \in [Tasks -> Int]
      /\ k.wake \in [Tasks -> Ticks] /\ k.tick \in 0..(TickMod - 1) /\ TickMod \in Nat \ {0, 1}
      /\ k.delayed \in Seq(Tasks) /\ k.overflow \in Seq(Tasks) /\ DelayedTasks(k) \subseteq Tasks
  BY Known, KernelFields
<1>2. taken = (k.tick + k.pendedTicks) % TickMod
  BY DEF SchedInv, Counted
<1>3. ASSUME NEW t \in DelayedTasks(k) \ ToSet(k.pending)
      PROVE  /\ left[t] > 0
             /\ k.wake[t] = (k.tick + left[t]) % TickMod
             /\ Contains(k.overflow, t) <=> k.tick + left[t] >= TickMod
  <2>1. left[t] = k.wake[t] - k.tick + (IF t \in ToSet(k.overflow) THEN TickMod ELSE 0)
    BY DEF SchedInv, Counted, Clocked
  <2>2. k.wake[t] \in 0..(TickMod - 1)
    BY <1>1 DEF Ticks
  <2>3. Contains(k.overflow, t) <=> t \in ToSet(k.overflow)
    BY <1>1 DEF Contains, ToSet
  <2>4. CASE t \in ToSet(k.overflow)
    <3>1. left[t] = k.wake[t] - k.tick + TickMod
      BY <2>1, <2>4
    <3>2. left[t] > 0
      BY <1>1, <2>2, <3>1
    <3>3. k.tick + left[t] = TickMod * 1 + k.wake[t]
      BY <1>1, <2>2, <3>1
    <3>4. (k.tick + left[t]) % TickMod = k.wake[t]
      <4>1. TickMod \in Nat \ {0} /\ 1 \in Nat
        BY <1>1
      <4>2. (TickMod * 1 + k.wake[t]) % TickMod = k.wake[t]
        BY <2>2, <4>1, ModUnique, Zenon
      <4>. QED
        BY <3>3, <4>2, Zenon
    <3>5. k.tick + left[t] >= TickMod
      BY <1>1, <2>2, <3>3
    <3>. QED
      BY <2>3, <2>4, <3>2, <3>4, <3>5
  <2>5. CASE t \notin ToSet(k.overflow)
    <3>1. left[t] = k.wake[t] - k.tick
      BY <1>1, <2>1, <2>2, <2>5
    <3>2. k.wake[t] > k.tick
      BY <1>1, <2>5 DEF DelayedTasks, Timely
    <3>3. left[t] > 0 /\ k.tick + left[t] = k.wake[t]
      BY <1>1, <2>2, <3>1, <3>2
    <3>4. k.tick + left[t] = TickMod * 0 + k.wake[t]
      BY <1>1, <2>2, <3>3
    <3>5. (k.tick + left[t]) % TickMod = k.wake[t]
      BY <1>1, <2>2, <3>4, ModUnique
    <3>6. ~(k.tick + left[t] >= TickMod)
      BY <1>1, <2>2, <3>3
    <3>. QED
      BY <2>3, <2>5, <3>3, <3>5, <3>6
  <2>. QED
    BY <2>4, <2>5
<1>4. k.delayed # <<>> => k.nextUnblock <= k.wake[Head(k.delayed)]
  BY <1>1, HeadIsLeast DEF Timely, UnblocksInTime
<1>. QED
  BY <1>2, <1>3, <1>4 DEF TimeoutsKept


-----------------------------------------------------------------------------
(* What follows from it in every step *)

\* vTaskSwitchContext moves no task from list to list, and selects none while the
\* scheduler is suspended.
LEMMA SwitchStays ==
    ASSUME NEW r, Sound(r), ReadyTasks(r) # {}
    PROVE  /\ DelayedTasks(SwitchContext(r)) = DelayedTasks(r)
           /\ SwitchContext(r).tick = r.tick /\ SwitchContext(r).suspended = r.suspended
           /\ r.suspended > 0 => SwitchContext(r).cur = r.cur
<1>1. Selected(r, SwitchContext(r))
  BY SwitchContextIs
<1>. QED
  BY <1>1, SameSetsSound DEF Selected, Sound, SameSets

\* Which tasks leave the delayed lists in a step, and why
Leaves ==
    \A t \in DelayedTasks(k) \ DelayedTasks(k') :
        (~OnEvent(t) /\ ~OnPending(t) /\ pc'[t].at # "deleted") => left'[t] = 0

Held == (k.suspended > 0 /\ k'.suspended > 0) => k'.cur = k.cur /\ k'.tick = k.tick

LEMMA SignalLeaves ==
    ASSUME SchedInv, Signal \/ SignalSuspended \/ SignalFromIsr
    PROVE  Leaves /\ Held
<1>. DEFINE t == Unblocked
            r == RemoveFromEventList(k, QueueList)
<1>1. k.events[QueueList] # <<>>
  BY DEF Signal, SignalSuspended, SignalFromIsr
<1>2. Given(k, t, r)
  BY <1>1, HeadGiven
<1>3. k' = r \/ k' = SwitchContext(r)
  BY <1>1, FlagAgain DEF Signal, SignalSuspended, SignalFromIsr
<1>4. OnEvent(t)
  <2>1. QueueList \in EventLists /\ k.events[QueueList] \in Seq(Tasks)
    BY Known, KernelFields
  <2>2. Head(k.events[QueueList]) \in ToSet(k.events[QueueList])
    BY <1>1, <2>1 DEF ToSet
  <2>. QED
    BY <2>1, <2>2 DEF OnEvent, Unblocked
<1>. HIDE DEF t, r
<1>5. /\ Sound(r) /\ r.cur = k.cur /\ r.tick = k.tick /\ r.suspended = k.suspended
      /\ DelayedTasks(k) \ {t} \subseteq DelayedTasks(r)
      /\ \A p \in Priorities : ToSet(k.ready[p].items) \subseteq ToSet(r.ready[p].items)
  BY <1>2 DEF Given
<1>6. ReadyTasks(r) # {}
  <2>1. Idle \in ReadyTasks(k)
    BY DEF SchedInv, Chosen
  <2>. QED
    BY <1>5, <2>1 DEF ReadyTasks
<1>7. /\ DelayedTasks(k') = DelayedTasks(r) /\ k'.tick = k.tick
      /\ k.suspended > 0 => k'.cur = k.cur
  BY <1>3, <1>5, <1>6, SwitchStays
<1>. QED
  BY <1>4, <1>5, <1>7 DEF Leaves, Held

LEMMA TickLeaves ==
    ASSUME SchedInv, TickIsr
    PROVE  Leaves /\ Held
<1>1. /\ k \in KState /\ k.suspended \in Nat /\ left \in [Tasks -> Nat] /\ Clocked(k, left)
      /\ Idle \in ReadyTasks(k)
  BY Known DEF SchedInv, Counted, Chosen
<1>2. k' = SwitchContext(IncrementTick(k))
  BY DEF TickIsr
<1>3. CASE k.suspended = 0
  <2>. DEFINE r == AdvanceTick(k)
  <2>1. PICK W \in SUBSET DelayedTasks(k) : Advances(k, W, 1, r)
    BY <1>3, AdvanceTickIs DEF SchedInv, Counted
  <2>2. k' = SwitchContext(r) /\ left' = CountedDown(left, 1)
    BY <1>2, <1>3 DEF IncrementTick, TickIsr, CountTicks, CountedDown
  <2>. HIDE DEF r
  <2>3. /\ Sound(r) /\ DelayedTasks(r) = DelayedTasks(k) \ W /\ \A t \in W : left'[t] = 0
        /\ \A p \in Priorities : ToSet(r.ready[p].items) =
              ToSet(k.ready[p].items) \cup {t \in W : k.prio[t] = p}
    BY <1>1, <2>1, <2>2 DEF Advances, Awakened
  <2>4. ReadyTasks(r) # {}
    BY <1>1, <2>3, WokenReady
  <2>5. DelayedTasks(k') = DelayedTasks(k) \ W
    BY <2>2, <2>3, <2>4, SwitchStays
  <2>. QED
    BY <1>3, <2>3, <2>5 DEF Leaves, Held
<1>4. CASE k.suspended # 0
  <2>1. k.suspended > 0
    BY <1>1, <1>4
  <2>2. /\ k'.delayed = k.delayed /\ k'.overflow = k.overflow
        /\ k'.cur = k.cur /\ k'.tick = k.tick
    BY <1>1, <1>2, <1>4, <2>1 DEF IncrementTick, SwitchContext, KState
  <2>. QED
    BY <2>2 DEF Leaves, Held, DelayedTasks
<1>. QED
  BY <1>3, <1>4

LEMMA ResumeLeaves ==
    ASSUME SchedInv, Resume
    PROVE  Leaves /\ Held
<1>1. /\ k \in KState /\ k.suspended = 1 /\ Idle \in ReadyTasks(k)
      /\ left \in [Tasks -> Nat] /\ Clocked(k, left)
  BY Known DEF SchedInv, Counted, Chosen, Resume, Is, Placed, Suspending
<1>. DEFINE r == Resumed(k)
<1>2. PICK W : Resumes(k, W, r)
  BY ResumedIs DEF SchedInv
<1>3. /\ left' = CountedDown(left, k.pendedTicks)
      /\ k' = IF r.yieldPending THEN SwitchContext(r) ELSE r
  BY <1>1 DEF Resume, CountTicks, CountedDown, ResumeAll
<1>. HIDE DEF r
<1>4. /\ Sound(r) /\ W \subseteq DelayedTasks(k) /\ r.suspended = 0
      /\ DelayedTasks(r) = DelayedTasks(k) \ W
      /\ \A p \in Priorities : ToSet(r.ready[p].items) =
            ToSet(k.ready[p].items) \cup {t \in W : k.prio[t] = p}
      /\ \A t \in W \ ToSet(k.pending) : left'[t] = 0
  BY <1>1, <1>2, <1>3 DEF Resumes
<1>5. ReadyTasks(r) # {}
  <2>1. ReadyTasks(r) = ReadyTasks(k) \cup W
    BY <1>1, <1>4, WokenReady
  <2>. QED
    BY <1>1, <2>1
<1>6. DelayedTasks(k') = DelayedTasks(k) \ W /\ k'.suspended = 0
  BY <1>3, <1>4, <1>5, SwitchStays
<1>. QED
  BY <1>4, <1>6 DEF Leaves, Held, OnPending

LEMMA OthersLeave ==
    ASSUME SchedInv, NEW t \in Tasks, NEW p \in Priorities,
           \/ PrioritySet(t, p) \/ Create(t, p) \/ DeleteOther(t) \/ DeleteSelf \/ IdleCleanUp
           \/ YieldWithinApi \/ YieldDeleted \/ Yield
    PROVE  Leaves /\ Held
<1>1. /\ k \in KState /\ Sound(k) /\ Idle \in ReadyTasks(k) /\ cur \in Tasks /\ cur = k.cur
      /\ k.base = k.prio /\ pc \in [Tasks -> [at : Labels, ticks : Ticks]]
  BY Known DEF SchedInv, Chosen, Placed, cur
<1>2. pc[cur].at \in {"run", "yield", "deleted"}
  BY DEF PrioritySet, Create, DeleteOther, DeleteSelf, IdleCleanUp, YieldWithinApi, YieldDeleted,
         Yield, Is
<1>3. k.suspended = 0 /\ Held
  BY <1>2 DEF SchedInv, Placed, Suspending, Held
<1>4. CASE PrioritySet(t, p)
  <2>1. Moved(k, t, p, Reprioritised(t, p))
    BY ReprioritisedIs
  <2>2. k' = Reprioritised(t, p) \/ k' = SwitchContext(Reprioritised(t, p))
    BY <1>4 DEF PrioritySet
  <2>3. ReadyTasks(Reprioritised(t, p)) # {} /\ Sound(Reprioritised(t, p))
        /\ DelayedTasks(Reprioritised(t, p)) = DelayedTasks(k)
    BY <1>1, <2>1 DEF Moved
  <2>4. DelayedTasks(k') = DelayedTasks(k)
    BY <2>2, <2>3, SwitchStays
  <2>. QED
    BY <1>3, <2>4 DEF Leaves
<1>5. CASE Create(t, p)
  <2>1. k'.delayed = k.delayed /\ k'.overflow = k.overflow
    BY <1>1, <1>5 DEF Create, AddToReady, KState
  <2>. QED
    BY <1>3, <2>1 DEF Leaves, DelayedTasks
<1>6. CASE DeleteOther(t)
  <2>. DEFINE c == RemoveEvent(RemoveState(k, t), t)
  <2>1. Gone(k, t, c) /\ k' = ResetNextUnblock(c)
    BY <1>1, <1>6, GoneIs DEF DeleteOther
  <2>. HIDE DEF c
  <2>2. k'.delayed = c.delayed /\ k'.overflow = c.overflow
    BY <2>1 DEF ResetNextUnblock, Gone, Sound, WellFormed, KState
  <2>3. DelayedTasks(k') = DelayedTasks(k) \ {t}
    BY <2>1, <2>2 DEF Gone, DelayedTasks
  <2>4. pc'[t].at = "deleted"
    BY <1>1, <1>6 DEF DeleteOther, At
  <2>. QED
    BY <1>3, <2>3, <2>4 DEF Leaves
<1>7. CASE DeleteSelf
  <2>. DEFINE c == RemoveEvent(RemoveState(k, cur), cur)
  <2>1. Gone(k, cur, c) /\ k' = [c EXCEPT !.terminating = Append(@, cur)]
    BY <1>1, <1>7, GoneIs DEF DeleteSelf
  <2>. HIDE DEF c
  <2>2. k'.delayed = c.delayed /\ k'.overflow = c.overflow
    BY <2>1 DEF Gone, Sound, WellFormed, KState
  <2>3. DelayedTasks(k') = DelayedTasks(k) \ {cur}
    BY <2>1, <2>2 DEF Gone, DelayedTasks
  <2>4. pc'[cur].at = "deleted"
    BY <1>1, <1>7 DEF DeleteSelf, Goto, At
  <2>. QED
    BY <1>3, <2>3, <2>4 DEF Leaves
<1>8. CASE IdleCleanUp
  <2>1. k'.delayed = k.delayed /\ k'.overflow = k.overflow
    BY <1>1, <1>8 DEF IdleCleanUp, KState
  <2>. QED
    BY <1>3, <2>1 DEF Leaves, DelayedTasks
<1>9. CASE YieldWithinApi \/ YieldDeleted \/ Yield
  <2>1. k' = SwitchContext(k)
    BY <1>9 DEF YieldWithinApi, YieldDeleted, Yield
  <2>2. DelayedTasks(k') = DelayedTasks(k)
    BY <1>1, <2>1, SwitchStays
  <2>. QED
    BY <1>3, <2>2 DEF Leaves
<1>. QED
  BY <1>4, <1>5, <1>6, <1>7, <1>8, <1>9

LEMMA StepLeaves ==
    ASSUME SchedInv, [Next]_vars
    PROVE  Leaves /\ Held
<1>1. CASE UNCHANGED vars
  BY <1>1 DEF vars, Leaves, Held
<1>2. ASSUME \/ \E n \in Delays, l \in {"delay", "block"} : BeginBlocking(l, n)
             \/ BeginHeapCall
      PROVE  Leaves /\ Held
  <2>1. k' = SuspendAll(k) /\ pc[cur].at = "run"
    BY <1>2 DEF BeginBlocking, BeginHeapCall, Is
  <2>2. k'.delayed = k.delayed /\ k'.overflow = k.overflow /\ k.suspended = 0
    <3>1. SameSets(k, k')
      BY <2>1, SuspendAllIs DEF SchedInv
    <3>. QED
      BY <2>1, <3>1 DEF SameSets, SchedInv, Placed, Suspending
  <2>. QED
    BY <2>2 DEF Leaves, Held, DelayedTasks
<1>3. ASSUME PlaceDelayed \/ PlaceOnQueue PROVE Leaves /\ Held
  <2>1. pc[cur].ticks \in Ticks \ {0} /\ k.cur \in ReadyTasks(k) /\ QueueList \in EventLists
    BY <1>3, Known DEF SchedInv, Placed, Chosen, PlaceDelayed, PlaceOnQueue, Is, cur
  <2>2. Sleeps(k, pc[cur].ticks, k')
    BY <1>3, <2>1, DelaySleeps, PlaceSleeps DEF SchedInv, PlaceDelayed, PlaceOnQueue
  <2>3. DelayedTasks(k) \subseteq DelayedTasks(k') /\ k'.cur = k.cur /\ k'.tick = k.tick
    BY <2>2 DEF Sleeps, SameRest
  <2>. QED
    BY <2>3 DEF Leaves, Held
<1>4. ASSUME DeleteSelf \/ IdleCleanUp \/ YieldWithinApi \/ YieldDeleted \/ Yield
             \/ \E t \in Tasks : DeleteOther(t)
      PROVE  Leaves /\ Held
  <2>1. 0 \in Priorities /\ Idle \in Tasks
    BY SchedulerAssumption
  <2>. QED
    BY <1>4, <2>1, OthersLeave
<1>. QED
  BY <1>1, <1>2, <1>3, <1>4, SignalLeaves, TickLeaves, ResumeLeaves, OthersLeave DEF Next, ApiStep

-----------------------------------------------------------------------------
(* The properties *)

\* The kernel's lists stay intact, whichever of tasks, interrupts, priority changes and
\* deletions moved a task last (list.c and every function of tasks.c modelled).
THEOREM SchedListsIntact == Spec => []ListsIntact
  BY SchedInvariant, InvListsIntact, PTL

\* While the scheduler is not suspended and no yield is pending, the running task is a
\* ready one of the highest priority: no call or interrupt that makes a task ready
\* forgets to yield to it (taskSELECT_HIGHEST_PRIORITY_TASK and xYieldPending).
THEOREM SchedHighestRuns == Spec => []HighestRuns
  BY SchedInvariant, InvHighestRuns, PTL

\* No tick is lost and no timeout misplaced, across suspensions and the wrap of the tick
\* count (xTaskIncrementTick, xTaskResumeAll, prvAddCurrentTaskToDelayedList).
THEOREM SchedTimeoutsKept == Spec => []TimeoutsKept
  BY SchedInvariant, InvTimeoutsKept, PTL

\* A task that waits on no event is not made ready before its ticks are over.
THEOREM SchedNeverEarly == Spec => NeverEarly
<1>1. SchedInv /\ [Next]_vars =>
        [\A t \in DelayedTasks(k) \ DelayedTasks(k)' :
            (~OnEvent(t) /\ ~OnPending(t) /\ pc'[t].at # "deleted") => left'[t] = 0]_vars
  <2>1. DelayedTasks(k)' = DelayedTasks(k')
    BY DEF DelayedTasks
  <2>. QED
    BY <2>1, StepLeaves DEF Leaves
<1>. QED
  BY <1>1, SchedInvariant, PTL DEF Spec, NeverEarly

\* vTaskSuspendAll keeps its promise: until xTaskResumeAll no other task runs and the
\* tick count stands still, whatever interrupts come.
THEOREM SchedSuspensionKept == Spec => SuspensionKept
<1>1. SchedInv /\ [Next]_vars =>
        [(k.suspended > 0 /\ k'.suspended > 0) => k'.cur = k.cur /\ k'.tick = k.tick]_vars
  BY StepLeaves DEF Held
<1>. QED
  BY <1>1, SchedInvariant, PTL DEF Spec, SuspensionKept
=============================================================================
