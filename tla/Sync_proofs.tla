---------------------------- MODULE Sync_proofs ----------------------------
(***************************************************************************)
(* Mutexes, event groups and notifications: safety properties for every    *)
(* set of tasks and mutexes, every tick width and every program.  SyncInv  *)
(* is the inductive invariant, a conjunction of a part for the kernel, for *)
(* where the tasks are inside their calls, and for each kind of object.    *)
(* The kernel operations are those of TaskLists_proofs; here the list of   *)
(* pending tasks may also hold tasks that are ready, since an interrupt    *)
(* may notify a task whose wait has ended and that has not run yet.        *)
(***************************************************************************)
EXTENDS Sync, TaskLists_proofs

-----------------------------------------------------------------------------
(* The kernel while tasks that are pending may be ready *)

\* As Separate, but for the pending tasks, which may be anywhere
Apart(r) ==
    /\ \A p \in Priorities : \A t \in ToSet(r.ready[p].items) : r.prio[t] = p
    /\ ReadyTasks(r) \cap (DelayedTasks(r) \cup ToSet(r.terminating)) = {}
    /\ DelayedTasks(r) \cap ToSet(r.terminating) = {}
    /\ ToSet(r.delayed) \cap ToSet(r.overflow) = {}
    /\ \A e \in EventLists : ToSet(r.events[e]) \subseteq DelayedTasks(r)

Loose(r) == WellFormed(r) /\ Apart(r) /\ Timely(r)

\* The tasks that run their call again, once it is their turn
AwakeIn(r) == ReadyTasks(r) \cup ToSet(r.pending)

\* Only the tasks of S join event lists, those of E.
Joins(a, S, E, r) ==
    \A e \in EventLists :
        ToSet(r.events[e]) \subseteq ToSet(a.events[e]) \cup (IF e \in E THEN S ELSE {})

\* Nobody falls asleep but the tasks of S, which wait on the lists of E, if at all.
Kept(a, S, E, r) == AwakeIn(a) \ S \subseteq AwakeIn(r) /\ Joins(a, S, E, r)

LEMMA SoundLoose ==
    ASSUME NEW r, Sound(r)
    PROVE  Loose(r)
  BY DEF Sound, Separate, Loose, Apart

LEMMA LooseSound ==
    ASSUME NEW r, Loose(r), r.pending = <<>>
    PROVE  Sound(r) /\ AwakeIn(r) = ReadyTasks(r)
<1>1. ToSet(r.pending) = {}
  BY DEF ToSet
<1>. QED
  BY <1>1 DEF Sound, Separate, Loose, Apart, AwakeIn

LEMMA KeptBoth ==
    ASSUME NEW a, NEW S, NEW E, NEW b, Kept(a, S, E, b), NEW r, Kept(b, {}, {}, r)
    PROVE  Kept(a, S, E, r)
  BY DEF Kept, Joins

LEMMA KeptThen ==
    ASSUME NEW a, NEW b, Kept(a, {}, {}, b), NEW S, NEW E, NEW r, Kept(b, S, E, r)
    PROVE  Kept(a, S, E, r)
  BY DEF Kept, Joins

LEMMA KeptSame ==
    ASSUME NEW a
    PROVE  Kept(a, {}, {}, a)
  BY DEF Kept, Joins

LEMMA TasksOf ==
    ASSUME NEW r, WellFormed(r)
    PROVE  /\ ReadyTasks(r) \subseteq Tasks /\ DelayedTasks(r) \subseteq Tasks
           /\ ToSet(r.pending) \subseteq Tasks /\ r.cur \in Tasks
           /\ \A e \in EventLists : ToSet(r.events[e]) \subseteq Tasks
           /\ r.prio \in [Tasks -> Priorities] /\ r.base \in [Tasks -> Priorities]
           /\ Priorities \subseteq Int
<1>1. r \in KState
  BY DEF WellFormed
<1>2. ReadyTasks(r) \subseteq Tasks
  BY ToSetIn DEF WellFormed, ListOK, ReadyTasks
<1>3. DelayedTasks(r) \subseteq Tasks
  BY <1>1, KernelFields, ToSetIn DEF DelayedTasks
<1>4. ToSet(r.pending) \subseteq Tasks /\ \A e \in EventLists : ToSet(r.events[e]) \subseteq Tasks
  BY <1>1, KernelFields, ToSetIn
<1>5. Priorities \subseteq Int
  BY TaskListsAssumption
<1>. QED
  BY <1>1, <1>2, <1>3, <1>4, <1>5, KernelFields

LEMMA SameSetsLoose ==
    ASSUME NEW a, Loose(a), NEW r, WellFormed(r), SameSets(a, r)
    PROVE  /\ Loose(r) /\ Kept(a, {}, {}, r) /\ AwakeIn(r) = AwakeIn(a)
           /\ ReadyTasks(r) = ReadyTasks(a) /\ DelayedTasks(r) = DelayedTasks(a)
<1>1. DelayedTasks(r) = DelayedTasks(a) /\ ReadyTasks(r) = ReadyTasks(a)
  BY DEF SameSets, DelayedTasks, ReadyTasks
<1>2. \A p \in Priorities : \A t \in ToSet(r.ready[p].items) : r.prio[t] = p
  BY DEF Loose, Apart, SameSets
<1>3. Apart(r)
  BY <1>1, <1>2 DEF Loose, Apart, SameSets
<1>4. Timely(r)
  BY DEF Loose, Timely, UnblocksInTime, SameSets
<1>5. AwakeIn(r) = AwakeIn(a) /\ r.events = a.events
  BY <1>1 DEF AwakeIn, SameSets
<1>. QED
  BY <1>1, <1>3, <1>4, <1>5 DEF Loose, Kept, Joins

\* Tasks that are ready already may be made ready.
LEMMA MadeReadyLoose ==
    ASSUME NEW a, Loose(a), NEW W, W \subseteq Tasks,
           NEW r, MadeReady(a, W, r), r.nextUnblock = a.nextUnblock \/ UnblocksInTime(r)
    PROVE  /\ Loose(r) /\ ReadyTasks(r) = ReadyTasks(a) \cup W
           /\ DelayedTasks(r) = DelayedTasks(a) \ W /\ Kept(a, {}, {}, r)
           /\ ToSet(r.pending) = ToSet(a.pending) \ W
<1>1. WellFormed(r) /\ SameRest(a, r) /\ WellFormed(a)
  BY DEF MadeReady, Loose
<1>2. /\ ToSet(r.delayed) = ToSet(a.delayed) \ W /\ ToSet(r.overflow) = ToSet(a.overflow) \ W
      /\ DelayedTasks(r) = DelayedTasks(a) \ W /\ ToSet(r.pending) = ToSet(a.pending) \ W
      /\ ToSet(r.terminating) = ToSet(a.terminating) \ W
      /\ \A e \in EventLists : ToSet(r.events[e]) = ToSet(a.events[e]) \ W
  BY DEF MadeReady, DelayedTasks
<1>3. W \subseteq Tasks /\ DelayedTasks(a) \subseteq Tasks /\ a.prio \in [Tasks -> Priorities]
  BY <1>1, TasksOf
<1>4. \A p \in Priorities : ToSet(r.ready[p].items) =
          (ToSet(a.ready[p].items) \ W) \cup {t \in W : a.prio[t] = p}
  BY DEF MadeReady
<1>5. ReadyTasks(r) = ReadyTasks(a) \cup W
  <2>1. ReadyTasks(r) \subseteq ReadyTasks(a) \cup W
    BY <1>4 DEF ReadyTasks
  <2>2. ReadyTasks(a) \ W \subseteq ReadyTasks(r)
    BY <1>4 DEF ReadyTasks
  <2>3. \A t \in W : t \in ReadyTasks(r)
    <3>. TAKE t \in W
    <3>1. a.prio[t] \in Priorities
      BY <1>3
    <3>2. t \in ToSet(r.ready[a.prio[t]].items)
      BY <1>4, <3>1
    <3>. QED
      BY <3>1, <3>2 DEF ReadyTasks
  <2>. QED
    BY <2>1, <2>2, <2>3
<1>6. Apart(r)
  <2>1. \A p \in Priorities : \A t \in ToSet(r.ready[p].items) : r.prio[t] = p
    BY <1>1, <1>4 DEF Loose, Apart, SameRest
  <2>2. ReadyTasks(r) \cap (DelayedTasks(r) \cup ToSet(r.terminating)) = {}
    BY <1>2, <1>5 DEF Loose, Apart
  <2>. QED
    BY <1>2, <1>5, <2>1, <2>2 DEF Loose, Apart
<1>7. \A t \in DelayedTasks(r) : r.wake[t] = a.wake[t]
  BY <1>2, <1>3 DEF MadeReady
<1>8. Timely(r)
  <2>1. Sorted(r.delayed, r.wake) /\ Sorted(r.overflow, r.wake)
    BY DEF MadeReady, Loose, Timely
  <2>2. /\ \A t \in ToSet(r.delayed) : r.wake[t] > r.tick
        /\ \A t \in ToSet(r.overflow) : r.wake[t] < r.tick
    BY <1>1, <1>2, <1>7 DEF Loose, Timely, SameRest, DelayedTasks
  <2>3. UnblocksInTime(r)
    BY <1>2, <1>7 DEF Loose, Timely, UnblocksInTime, DelayedTasks
  <2>. QED
    BY <2>1, <2>2, <2>3 DEF Timely
<1>9. Kept(a, {}, {}, r)
  <2>1. AwakeIn(a) \subseteq AwakeIn(r)
    BY <1>2, <1>5 DEF AwakeIn
  <2>. QED
    BY <1>2, <2>1 DEF Kept, Joins
<1>. QED
  BY <1>1, <1>2, <1>5, <1>6, <1>8, <1>9 DEF Loose

\* What xTaskResumeAll leaves, before it looks whether to yield
Running(a, r) ==
    /\ Sound(r) /\ Kept(a, {}, {}, r) /\ r.prio = a.prio /\ r.base = a.base
    /\ r.suspended = 0 /\ r.pending = <<>> /\ r.pendedTicks = 0

LEMMA FlagLoose ==
    ASSUME NEW a, WellFormed(a), NEW y \in BOOLEAN, NEW r, r = [a EXCEPT !.yieldPending = y]
    PROVE  WellFormed(r) /\ SameSets(a, r) /\ r.cur = a.cur /\ r.suspended = a.suspended
           /\ r.pendedTicks = a.pendedTicks
<1>1. a \in KState
  BY DEF WellFormed
<1>2. r \in KState
  BY <1>1 DEF KState
<1>3. /\ r.ready = a.ready /\ SameSets(a, r) /\ r.cur = a.cur /\ r.suspended = a.suspended
      /\ r.pendedTicks = a.pendedTicks
  BY <1>1 DEF KState, SameSets
<1>. QED
  BY <1>2, <1>3 DEF WellFormed, SameSets

LEMMA DrainedLoose ==
    ASSUME NEW a, Loose(a)
    PROVE  /\ Sound(DrainPending(a)) /\ Kept(a, {}, {}, DrainPending(a))
           /\ DrainPending(a).pending = <<>>
           /\ DrainPending(a).prio = a.prio /\ DrainPending(a).base = a.base
           /\ DrainPending(a).cur = a.cur /\ DrainPending(a).suspended = a.suspended
<1>. DEFINE y == DrainedYield(a)
<1>1. WellFormed(a) /\ y \in BOOLEAN
  <2>1. WellFormed(a)
    BY DEF Loose
  <2>2. a.yieldPending \in BOOLEAN
    BY <2>1 DEF WellFormed, KState
  <2>. QED
    BY <2>1, <2>2 DEF DrainedYield
<1>. HIDE DEF y
<1>2. PICK b : /\ MadeReady(a, ToSet(a.pending), b) /\ b.nextUnblock = a.nextUnblock
               /\ DrainPending(a) = IF a.pending = <<>> THEN a
                                    ELSE ResetNextUnblock([b EXCEPT !.yieldPending = y])
  BY <1>1, DrainedIs DEF y
<1>3. CASE a.pending = <<>>
  BY <1>2, <1>3, LooseSound, KeptSame
<1>4. CASE a.pending # <<>>
  <2>. DEFINE c == [b EXCEPT !.yieldPending = y]  r == ResetNextUnblock(c)
  <2>1. /\ Loose(b) /\ Kept(a, {}, {}, b) /\ ToSet(b.pending) = {}
        /\ b.prio = a.prio /\ b.base = a.base /\ b.cur = a.cur /\ b.suspended = a.suspended
    <3>1. ToSet(a.pending) \subseteq Tasks
      BY <1>1, TasksOf
    <3>. DEFINE P == ToSet(a.pending)
    <3>3. P \subseteq Tasks /\ MadeReady(a, P, b)
          /\ b.nextUnblock = a.nextUnblock
      BY <1>2, <3>1
    <3>. HIDE DEF P
    <3>2. Loose(b) /\ Kept(a, {}, {}, b) /\ ToSet(b.pending) = ToSet(a.pending) \ P
      BY <3>3, MadeReadyLoose
    <3>. QED
      BY <1>2, <3>2 DEF MadeReady, SameRest, P
  <2>2. /\ WellFormed(c) /\ SameSets(b, c) /\ c.cur = b.cur /\ c.suspended = b.suspended
        /\ c.prio = b.prio /\ c.base = b.base
    <3>1. WellFormed(b)
      BY <2>1 DEF Loose
    <3>. QED
      BY <1>1, <3>1, FlagLoose DEF SameSets
  <2>. HIDE DEF c
  <2>3. Loose(c) /\ Kept(b, {}, {}, c) /\ ToSet(c.pending) = {}
    BY <2>1, <2>2, SameSetsLoose DEF SameSets
  <2>4. MadeReady(c, {}, r) /\ UnblocksInTime(r)
    BY <2>3, ResetNextUnblockIs DEF Loose, Timely
  <2>. HIDE DEF r
  <2>5. Loose(r) /\ Kept(c, {}, {}, r) /\ ToSet(r.pending) = {}
    <3>1. {} \subseteq Tasks
      OBVIOUS
    <3>. QED
      BY <2>3, <2>4, <3>1, MadeReadyLoose
  <2>6. r.pending = <<>>
    BY <2>5, NoPending, KernelFields DEF Loose, WellFormed
  <2>7. /\ r.prio = a.prio /\ r.base = a.base /\ r.cur = a.cur /\ r.suspended = a.suspended
    BY <2>1, <2>2, <2>4 DEF MadeReady, SameRest
  <2>8. Kept(a, {}, {}, r)
    BY <2>1, <2>3, <2>5, KeptBoth
  <2>9. DrainPending(a) = r
    BY <1>2, <1>4 DEF r, c
  <2>. QED
    BY <2>5, <2>6, <2>7, <2>8, <2>9, LooseSound
<1>. QED
  BY <1>3, <1>4

LEMMA ResumedLoose ==
    ASSUME NEW a, Loose(a)
    PROVE  Running(a, Resumed(a)) /\ Resumed(a).cur = a.cur
<1>. DEFINE b == [a EXCEPT !.suspended = 0]  d == DrainPending(b)  r == ProcessPended(d)
<1>1. a \in KState
  BY DEF Loose, WellFormed
<1>2. /\ b \in KState /\ b.ready = a.ready /\ SameSets(a, b) /\ b.cur = a.cur
      /\ b.suspended = 0
  BY <1>1 DEF KState, SameSets
<1>3. Resumed(a) = r
  BY DEF Resumed
<1>. HIDE DEF b
<1>4. WellFormed(b)
  BY <1>2 DEF Loose, WellFormed, SameSets
<1>5. Loose(b) /\ Kept(a, {}, {}, b)
  BY <1>2, <1>4, SameSetsLoose
<1>6. /\ Sound(d) /\ Kept(b, {}, {}, d) /\ d.pending = <<>>
      /\ d.prio = b.prio /\ d.base = b.base /\ d.cur = b.cur /\ d.suspended = b.suspended
  BY <1>5, DrainedLoose
<1>. HIDE DEF d
<1>7. PICK W \in SUBSET DelayedTasks(d) :
         /\ Sound(r) /\ Awakened(d, W, r) /\ r.pendedTicks = 0 /\ r.pending = <<>>
  BY <1>6, ProcessPendedIs
<1>. HIDE DEF r
<1>8. Kept(d, {}, {}, r)
  <2>2. \A p \in Priorities : ToSet(d.ready[p].items) \subseteq ToSet(r.ready[p].items)
    BY <1>7 DEF Awakened
  <2>3. ReadyTasks(d) \subseteq ReadyTasks(r)
    BY <2>2 DEF ReadyTasks
  <2>4. AwakeIn(d) = ReadyTasks(d)
    BY <1>6, LooseSound, SoundLoose
  <2>1. ReadyTasks(d) \subseteq ReadyTasks(r) /\ AwakeIn(d) = ReadyTasks(d)
    BY <2>3, <2>4
  <2>. QED
    BY <1>7, <2>1 DEF Awakened, Kept, Joins, AwakeIn
<1>9. /\ r.prio = a.prio /\ r.base = a.base /\ r.cur = a.cur /\ r.suspended = 0
  BY <1>2, <1>6, <1>7 DEF Awakened, SameSets
<1>10. Kept(a, {}, {}, r)
  BY <1>5, <1>6, <1>8, KeptBoth
<1>. QED
  BY <1>3, <1>7, <1>9, <1>10 DEF Running

-----------------------------------------------------------------------------
(* What the calls do to the kernel *)

\* Between two critical sections
Fit(r) ==
    /\ Loose(r) /\ Idle \in ReadyTasks(r)
    /\ r.suspended \in 0..1 /\ r.pendedTicks <= MaxPended
    /\ r.suspended = 0 => r.pending = <<>> /\ r.pendedTicks = 0

\* The kernel goes from a to r.
Moves(a, S, E, r) ==
    Fit(r) /\ Kept(a, S, E, r) /\ ToSet(r.pending) \subseteq ToSet(a.pending)

\* So it does, and the priorities stay.
Steps(a, S, E, r) == Moves(a, S, E, r) /\ r.prio = a.prio /\ r.base = a.base

LEMMA StepsBoth ==
    ASSUME NEW a, NEW S, NEW E, NEW b, Steps(a, S, E, b), NEW r, Steps(b, {}, {}, r)
    PROVE  Steps(a, S, E, r)
  BY KeptBoth DEF Steps, Moves

LEMMA StepsThen ==
    ASSUME NEW a, NEW b, Steps(a, {}, {}, b), NEW S, NEW E, NEW r, Steps(b, S, E, r)
    PROVE  Steps(a, S, E, r)
  BY KeptThen DEF Steps, Moves

LEMMA StepsSame ==
    ASSUME NEW a, Fit(a)
    PROVE  Steps(a, {}, {}, a)
  BY KeptSame DEF Steps, Moves

\* While the scheduler runs nothing is pending.
LEMMA FitRuns ==
    ASSUME NEW a, Fit(a), a.suspended = 0
    PROVE  /\ Sound(a) /\ a.pending = <<>> /\ a.pendedTicks = 0
           /\ AwakeIn(a) = ReadyTasks(a) /\ ToSet(a.pending) = {}
<1>1. ToSet(a.pending) = {}
  BY DEF Fit, ToSet
<1>. QED
  BY <1>1, LooseSound DEF Fit

\* A sound state in which the idle task is ready, and nothing waits for xTaskResumeAll
LEMMA FitSound ==
    ASSUME NEW a, Sound(a), Idle \in ReadyTasks(a), a.pendedTicks = 0, a.pending = <<>>,
           a.suspended \in 0..1
    PROVE  Fit(a)
<1>1. 0 <= MaxPended
  BY KernelCallsAssumption
<1>. QED
  BY <1>1, SoundLoose DEF Fit

LEMMA IdleStays ==
    ASSUME NEW a, Fit(a), NEW S, Idle \notin S, NEW E, NEW r, Kept(a, S, E, r), r.pending = <<>>
    PROVE  Idle \in ReadyTasks(r)
<1>1. ToSet(r.pending) = {}
  BY DEF ToSet
<1>. QED
  BY <1>1 DEF Fit, Kept, Joins, AwakeIn

LEMMA SuspendSteps ==
    ASSUME NEW a, Fit(a), a.suspended = 0, NEW r, r = SuspendAll(a)
    PROVE  /\ Steps(a, {}, {}, r) /\ Sound(r) /\ r.suspended = 1 /\ r.cur = a.cur
           /\ ReadyTasks(r) = ReadyTasks(a) /\ r.pending = <<>> /\ r.pendedTicks = 0
           /\ r.events = a.events /\ r.prio = a.prio /\ r.evValue = a.evValue
<1>1. Sound(a) /\ a.pending = <<>> /\ a.pendedTicks = 0 /\ Loose(a)
  BY FitRuns, SoundLoose
<1>2. /\ Sound(r) /\ SameSets(a, r) /\ r.cur = a.cur /\ r.suspended = a.suspended + 1
      /\ r.pendedTicks = a.pendedTicks
  BY <1>1, SuspendAllIs
<1>3. WellFormed(r)
  BY <1>2 DEF Sound
<1>4. Kept(a, {}, {}, r) /\ ReadyTasks(r) = ReadyTasks(a)
  BY <1>1, <1>2, <1>3, SameSetsLoose
<1>5. Fit(r)
  BY <1>1, <1>2, <1>4, FitSound DEF Fit, SameSets
<1>. QED
  BY <1>1, <1>2, <1>4, <1>5 DEF Steps, Moves, SameSets

LEMMA SwitchSteps ==
    ASSUME NEW a, Fit(a), NEW r, r = SwitchContext(a)
    PROVE  /\ Steps(a, {}, {}, r) /\ r.suspended = a.suspended /\ r.events = a.events
           /\ ReadyTasks(r) = ReadyTasks(a) /\ r.pending = a.pending /\ r.pendedTicks = a.pendedTicks
           /\ IF a.suspended = 1 THEN r.cur = a.cur ELSE r.cur \in ReadyTasks(r)
<1>1. CASE a.suspended = 0
  <2>1. Sound(a) /\ a.pending = <<>> /\ a.pendedTicks = 0 /\ Loose(a) /\ Idle \in ReadyTasks(a)
    BY <1>1, FitRuns, SoundLoose DEF Fit
  <2>2. Selected(a, r)
    BY <2>1, SwitchContextIs
  <2>3. WellFormed(r) /\ SameSets(a, r) /\ Sound(r)
    BY <2>2 DEF Selected, Sound
  <2>4. Kept(a, {}, {}, r) /\ ReadyTasks(r) = ReadyTasks(a)
    BY <2>1, <2>3, SameSetsLoose
  <2>5. Fit(r)
    BY <1>1, <2>1, <2>2, <2>3, <2>4, FitSound DEF Selected, SameSets
  <2>. QED
    BY <1>1, <2>2, <2>4, <2>5 DEF Steps, Moves, SameSets, Selected
<1>2. CASE a.suspended = 1
  <2>1. r = [a EXCEPT !.yieldPending = TRUE] /\ Loose(a) /\ WellFormed(a)
    BY <1>2 DEF SwitchContext, Fit, Loose
  <2>2. /\ WellFormed(r) /\ SameSets(a, r) /\ r.cur = a.cur /\ r.suspended = a.suspended
        /\ r.pendedTicks = a.pendedTicks
    BY <2>1, FlagLoose
  <2>3. Kept(a, {}, {}, r) /\ ReadyTasks(r) = ReadyTasks(a) /\ Loose(r)
    BY <2>1, <2>2, SameSetsLoose
  <2>4. Fit(r)
    BY <2>2, <2>3 DEF Fit, SameSets
  <2>. QED
    BY <1>2, <2>2, <2>3, <2>4 DEF Steps, Moves, SameSets
<1>. QED
  BY <1>1, <1>2 DEF Fit

LEMMA ResumeSteps ==
    ASSUME NEW a, Fit(a), a.suspended = 1, NEW r, r = ResumeAll(a)
    PROVE  /\ Steps(a, {}, {}, r) /\ r.suspended = 0
           /\ AlreadyYielded(a) \/ a.cur \in ReadyTasks(a) => r.cur \in ReadyTasks(r)
           /\ ~AlreadyYielded(a) => r.cur = a.cur
<1>. DEFINE b == Resumed(a)
<1>1. Running(a, b) /\ b.cur = a.cur
  BY ResumedLoose DEF Fit
<1>2. r = IF b.yieldPending THEN SwitchContext(b) ELSE b
  BY DEF ResumeAll
<1>3. AlreadyYielded(a) <=> b.yieldPending
  BY DEF AlreadyYielded
<1>. HIDE DEF b
<1>4. Idle \in ReadyTasks(b)
  BY <1>1, IdleStays DEF Running
<1>5. Fit(b) /\ ToSet(b.pending) = {}
  BY <1>1, <1>4, FitSound DEF Running, ToSet
<1>6. Steps(a, {}, {}, b) /\ b.suspended = 0
  BY <1>1, <1>5 DEF Running, Steps, Moves
<1>7. CASE b.yieldPending
  <2>1. Steps(b, {}, {}, r) /\ r.suspended = 0 /\ r.cur \in ReadyTasks(r)
    BY <1>2, <1>5, <1>6, <1>7, SwitchSteps
  <2>. QED
    BY <1>3, <1>6, <1>7, <2>1, StepsBoth
<1>8. CASE ~b.yieldPending
  <2>1. r = b /\ r.cur = a.cur
    BY <1>1, <1>2, <1>8
  <2>2. ReadyTasks(a) \subseteq ReadyTasks(b)
    BY <1>1, <1>5 DEF Running, Kept, Joins, AwakeIn
  <2>. QED
    BY <1>3, <1>6, <1>8, <2>1, <2>2
<1>. QED
  BY <1>7, <1>8

LEMMA TickSteps ==
    ASSUME NEW a, Fit(a), a.pendedTicks < MaxPended, NEW r, r = SwitchContext(IncrementTick(a))
    PROVE  /\ Steps(a, {}, {}, r) /\ r.suspended = a.suspended
           /\ IF a.suspended = 1 THEN r.cur = a.cur /\ ReadyTasks(r) = ReadyTasks(a)
                                 ELSE r.cur \in ReadyTasks(r)
<1>1. CASE a.suspended = 0
  <2>. DEFINE b == AdvanceTick(a)
  <2>1. Sound(a) /\ a.pending = <<>> /\ a.pendedTicks = 0 /\ Loose(a)
    BY <1>1, FitRuns, SoundLoose
  <2>2. PICK W \in SUBSET DelayedTasks(a) : Advances(a, W, 1, b)
    BY <2>1, AdvanceTickIs
  <2>3. r = SwitchContext(b)
    BY <1>1 DEF IncrementTick
  <2>. HIDE DEF b
  <2>4. Sound(b) /\ Awakened(a, W, b) /\ b.pendedTicks = 0
    BY <2>1, <2>2 DEF Advances
  <2>5. ToSet(b.pending) = {}
    <3>1. ToSet(a.pending) = {} /\ ToSet(b.pending) = ToSet(a.pending) \ W
      BY <1>1, <2>4, FitRuns DEF Awakened
    <3>. QED
      BY <3>1
  <2>6. b.pending = <<>>
    BY <2>4, <2>5, NoPending, KernelFields DEF Sound, WellFormed
  <2>7. ReadyTasks(a) \subseteq ReadyTasks(b)
    <3>1. \A p \in Priorities : ToSet(a.ready[p].items) \subseteq ToSet(b.ready[p].items)
      BY <2>4 DEF Awakened
    <3>. QED
      BY <3>1 DEF ReadyTasks
  <2>8. Kept(a, {}, {}, b)
    <3>1. AwakeIn(a) = ReadyTasks(a)
      BY <2>1, LooseSound
    <3>. QED
      BY <2>4, <2>7, <3>1 DEF Kept, Joins, AwakeIn, Awakened
  <2>9. b.suspended = 0 /\ b.prio = a.prio /\ b.base = a.base
    BY <1>1, <2>4 DEF Awakened
  <2>10. Fit(b)
    BY <2>4, <2>6, <2>8, <2>9, IdleStays, FitSound
  <2>11. Steps(a, {}, {}, b)
    BY <2>5, <2>8, <2>9, <2>10 DEF Steps, Moves
  <2>12. Steps(b, {}, {}, r) /\ r.suspended = 0 /\ r.cur \in ReadyTasks(r)
    BY <2>3, <2>9, <2>10, SwitchSteps
  <2>. QED
    BY <1>1, <2>11, <2>12, StepsBoth
<1>2. CASE a.suspended = 1
  <2>. DEFINE b == [a EXCEPT !.pendedTicks = @ + 1]
  <2>1. r = SwitchContext(b) /\ a \in KState /\ Loose(a)
    BY <1>2 DEF IncrementTick, Fit, Loose, WellFormed
  <2>2. a.pendedTicks \in Nat
    BY <2>1, KernelFields
  <2>3. /\ b \in KState /\ b.ready = a.ready /\ SameSets(a, b) /\ b.cur = a.cur
        /\ b.suspended = a.suspended /\ b.pendedTicks = a.pendedTicks + 1
    <3>1. b = [a EXCEPT !.pendedTicks = a.pendedTicks + 1] /\ a.pendedTicks + 1 \in Nat
      BY <2>2
    <3>2. b \in KState
      BY <2>1, <3>1 DEF KState
    <3>3. /\ b.ready = a.ready /\ b.cur = a.cur
          /\ b.suspended = a.suspended /\ b.pendedTicks = a.pendedTicks + 1
      BY <2>1, <3>1 DEF KState
    <3>4. SameSets(a, b)
      BY <2>1, <3>1 DEF KState, SameSets
    <3>. QED
      BY <3>2, <3>3, <3>4
  <2>. HIDE DEF b
  <2>4. WellFormed(b)
    BY <2>1, <2>3 DEF Loose, WellFormed, SameSets
  <2>5. Loose(b) /\ Kept(a, {}, {}, b) /\ ReadyTasks(b) = ReadyTasks(a)
    BY <2>1, <2>3, <2>4, SameSetsLoose
  <2>6. Fit(b)
    <3>1. b.pendedTicks <= MaxPended
      BY <2>2, <2>3, KernelCallsAssumption
    <3>. QED
      BY <1>2, <2>3, <2>5, <3>1 DEF Fit, SameSets
  <2>7. Steps(a, {}, {}, b)
    BY <2>3, <2>5, <2>6 DEF Steps, Moves, SameSets
  <2>8. Steps(b, {}, {}, r) /\ r.suspended = b.suspended /\ r.cur = b.cur /\ ReadyTasks(r) = ReadyTasks(b)
    BY <1>2, <2>1, <2>3, <2>6, SwitchSteps
  <2>. QED
    BY <1>2, <2>3, <2>5, <2>7, <2>8, StepsBoth
<1>. QED
  BY <1>1, <1>2 DEF Fit

LEMMA ReadyWithout ==
    ASSUME NEW a, NEW t, NEW r,
           \A p \in Priorities : ToSet(r.ready[p].items) = ToSet(a.ready[p].items) \ {t}
    PROVE  ReadyTasks(r) = ReadyTasks(a) \ {t}
  BY DEF ReadyTasks

\* The running task enters a delayed list, and perhaps an event list of E.
LEMMA SleepSteps ==
    ASSUME NEW a, Fit(a), a.pending = <<>>, a.cur # Idle, NEW n, NEW E,
           NEW r, Sleeps(a, n, r), Joins(a, {a.cur}, E, r)
    PROVE  /\ Steps(a, {a.cur}, E, r) /\ r.suspended = a.suspended /\ r.cur = a.cur
           /\ r.pending = <<>>
<1>1. /\ Sound(r) /\ r.pending = a.pending /\ SameRest(a, r)
      /\ \A p \in Priorities : ToSet(r.ready[p].items) = ToSet(a.ready[p].items) \ {a.cur}
  BY DEF Sleeps
<1>2. ReadyTasks(r) = ReadyTasks(a) \ {a.cur}
  BY <1>1, ReadyWithout
<1>3. Kept(a, {a.cur}, E, r)
  BY <1>1, <1>2 DEF Kept, Joins, AwakeIn
<1>4. Fit(r)
  <2>1. Loose(r) /\ Idle \in ReadyTasks(r)
    BY <1>1, <1>2, SoundLoose DEF Fit
  <2>. QED
    BY <1>1, <2>1 DEF Fit, SameRest
<1>. QED
  BY <1>1, <1>3, <1>4 DEF Steps, Moves, SameRest

\* vTaskPlaceOnUnorderedEventList
LEMMA UnorderedSleeps ==
    ASSUME NEW a, Sound(a), a.cur \in ReadyTasks(a), NEW n \in Ticks \ {0}, NEW e \in EventLists
    PROVE  /\ Sleeps(a, n, PlaceOnUnorderedEventList(a, e, n))
           /\ \A d \in EventLists : ToSet(PlaceOnUnorderedEventList(a, e, n).events[d]) =
                 IF d = e THEN ToSet(a.events[d]) \cup {a.cur} ELSE ToSet(a.events[d])
<1>. DEFINE s == Append(a.events[e], a.cur)
            b == [a EXCEPT !.events[e] = s]
<1>1. a \in KState /\ IsInjective(a.events[e]) /\ a.cur \notin ToSet(a.events[e])
  BY DEF Sound, WellFormed, Separate
<1>2. a.events[e] \in Seq(Tasks) /\ a.cur \in Tasks
  BY <1>1, KernelFields
<1>3. s \in Seq(Tasks) /\ IsInjective(s) /\ ToSet(s) = ToSet(a.events[e]) \cup {a.cur}
  BY <1>1, <1>2, AppendIs
<1>4. PlaceOnUnorderedEventList(a, e, n) = AddCurrentToDelayed(b, n)
  BY DEF PlaceOnUnorderedEventList
<1>. HIDE DEF s
<1>5. b.events = [a.events EXCEPT ![e] = s] /\ a.events \in [EventLists -> Seq(Tasks)]
  BY <1>1 DEF KState
<1>6. /\ b.ready = a.ready /\ b.delayed = a.delayed /\ b.overflow = a.overflow
      /\ b.terminating = a.terminating /\ b.pending = a.pending /\ b.wake = a.wake
      /\ SameRest(a, b) /\ b.nextUnblock = a.nextUnblock
  BY <1>1 DEF KState, SameRest
<1>7. b \in KState
  BY <1>1, <1>3 DEF KState
<1>. HIDE DEF b
<1>8. \A d \in EventLists : /\ IsInjective(b.events[d])
                            /\ ToSet(b.events[d]) \subseteq ToSet(a.events[d]) \cup {a.cur}
  BY <1>3, <1>5 DEF Sound, WellFormed
<1>9. WellFormed(b)
  BY <1>6, <1>7, <1>8 DEF Sound, WellFormed
<1>10. /\ Sleeps(a, n, AddCurrentToDelayed(b, n))
       /\ AddCurrentToDelayed(b, n).events = b.events
  BY <1>6, <1>8, <1>9, BlockedSound
<1>11. \A d \in EventLists : ToSet(b.events[d]) =
          IF d = e THEN ToSet(a.events[d]) \cup {a.cur} ELSE ToSet(a.events[d])
  BY <1>3, <1>5
<1>. QED
  BY <1>4, <1>10, <1>11

\* Only values of event list items differ.
LEMMA RetoldIs ==
    ASSUME NEW a, WellFormed(a), NEW t \in Tasks, NEW x \in Int,
           NEW r, r = [a EXCEPT !.evValue[t] = x]
    PROVE  /\ WellFormed(r) /\ r.ready = a.ready /\ r.delayed = a.delayed
           /\ r.overflow = a.overflow /\ r.pending = a.pending /\ r.terminating = a.terminating
           /\ r.events = a.events /\ r.wake = a.wake /\ r.prio = a.prio /\ r.base = a.base
           /\ r.cur = a.cur /\ r.tick = a.tick /\ r.nextUnblock = a.nextUnblock
           /\ r.suspended = a.suspended /\ r.pendedTicks = a.pendedTicks
<1>1. a \in KState /\ a.evValue \in [Tasks -> Int]
  BY KernelFields DEF WellFormed
<1>2. r = [a EXCEPT !.evValue = [a.evValue EXCEPT ![t] = x]]
      /\ [a.evValue EXCEPT ![t] = x] \in [Tasks -> Int]
  BY <1>1
<1>3. r \in KState
  BY <1>1, <1>2 DEF KState
<1>4. /\ r.ready = a.ready /\ r.delayed = a.delayed
      /\ r.overflow = a.overflow /\ r.pending = a.pending /\ r.terminating = a.terminating
      /\ r.events = a.events /\ r.wake = a.wake /\ r.prio = a.prio /\ r.base = a.base
      /\ r.cur = a.cur /\ r.tick = a.tick /\ r.nextUnblock = a.nextUnblock
      /\ r.suspended = a.suspended /\ r.pendedTicks = a.pendedTicks
  BY <1>1, <1>2 DEF KState
<1>. QED
  BY <1>3, <1>4 DEF WellFormed

LEMMA RetoldSteps ==
    ASSUME NEW a, Fit(a), NEW t \in Tasks, NEW x \in Int,
           NEW r, r = [a EXCEPT !.evValue[t] = x]
    PROVE  /\ Steps(a, {}, {}, r) /\ r.suspended = a.suspended /\ r.cur = a.cur
           /\ r.events = a.events /\ ReadyTasks(r) = ReadyTasks(a)
<1>1. WellFormed(a)
  BY DEF Fit, Loose
<1>2. /\ WellFormed(r) /\ r.ready = a.ready /\ r.delayed = a.delayed
      /\ r.overflow = a.overflow /\ r.pending = a.pending /\ r.terminating = a.terminating
      /\ r.events = a.events /\ r.wake = a.wake /\ r.prio = a.prio /\ r.base = a.base
      /\ r.cur = a.cur /\ r.tick = a.tick /\ r.nextUnblock = a.nextUnblock
      /\ r.suspended = a.suspended /\ r.pendedTicks = a.pendedTicks
  BY <1>1, RetoldIs
<1>3. ReadyTasks(r) = ReadyTasks(a) /\ DelayedTasks(r) = DelayedTasks(a)
  BY <1>2 DEF ReadyTasks, DelayedTasks
<1>4. Apart(r)
  BY <1>2, <1>3 DEF Fit, Loose, Apart
<1>5. Timely(r)
  BY <1>2 DEF Fit, Loose, Timely, UnblocksInTime
<1>6. Fit(r)
  BY <1>2, <1>3, <1>4, <1>5 DEF Fit, Loose
<1>7. Kept(a, {}, {}, r)
  BY <1>2, <1>3 DEF Kept, Joins, AwakeIn
<1>. QED
  BY <1>2, <1>3, <1>6, <1>7 DEF Steps, Moves

LEMMA FlagSteps ==
    ASSUME NEW a, Fit(a), NEW y \in BOOLEAN, NEW r, r = [a EXCEPT !.yieldPending = y]
    PROVE  /\ Steps(a, {}, {}, r) /\ r.suspended = a.suspended /\ r.cur = a.cur
           /\ r.events = a.events /\ r.pending = a.pending /\ ReadyTasks(r) = ReadyTasks(a)
<1>1. WellFormed(a) /\ Loose(a)
  BY DEF Fit, Loose
<1>2. /\ WellFormed(r) /\ SameSets(a, r) /\ r.cur = a.cur /\ r.suspended = a.suspended
      /\ r.pendedTicks = a.pendedTicks
  BY <1>1, FlagLoose
<1>3. Kept(a, {}, {}, r) /\ ReadyTasks(r) = ReadyTasks(a) /\ Loose(r)
  BY <1>1, <1>2, SameSetsLoose
<1>4. Fit(r)
  BY <1>2, <1>3 DEF Fit, SameSets
<1>. QED
  BY <1>2, <1>3, <1>4 DEF Steps, Moves, SameSets

\* A task that waits for a notification is on no event list: of the three calls that
\* unblock a task the first finds nothing to do.
LEMMA NoEvent ==
    ASSUME NEW a, WellFormed(a), NEW t, t \notin ToSet(a.pending),
           \A e \in EventLists : t \notin ToSet(a.events[e])
    PROVE  RemoveEvent(a, t) = a
<1>1. a \in KState
  BY DEF WellFormed
<1>2. a.pending \in Seq(Tasks) /\ a.events \in [EventLists -> Seq(Tasks)]
  BY <1>1 DEF KState
<1>3. \A e \in EventLists : Without(a.events[e], t) = a.events[e]
  BY DEF Without, Contains, ToSet
<1>4. Without(a.pending, t) = a.pending
  BY DEF Without, Contains, ToSet
<1>5. [e \in EventLists |-> Without(a.events[e], t)] = a.events
  BY <1>2, <1>3
<1>6. RemoveEvent(a, t) = [a EXCEPT !.events = a.events, !.pending = a.pending]
  BY <1>4, <1>5 DEF RemoveEvent
<1>. QED
  BY <1>1, <1>6 DEF KState

LEMMA UnblockedSteps ==
    ASSUME NEW a, Fit(a), a.suspended = 0, NEW t \in Tasks,
           \A e \in EventLists : t \notin ToSet(a.events[e]),
           NEW r, r = Unblocked(a, t)
    PROVE  /\ Steps(a, {}, {}, r) /\ r.suspended = 0 /\ r.cur = a.cur /\ r.pending = <<>>
           /\ ReadyTasks(r) = ReadyTasks(a) \cup {t}
<1>1. WellFormed(a) /\ ToSet(a.pending) = {} /\ Loose(a) /\ {t} \subseteq Tasks /\ Idle \in ReadyTasks(a)
  BY FitRuns DEF Fit, Loose
<1>2. r = MakeReady(a, t)
  BY <1>1, NoEvent DEF Unblocked, MakeReady
<1>3. MadeReady(a, {t}, r) /\ r.nextUnblock = a.nextUnblock
  BY <1>1, <1>2, MakeReadyIs
<1>4. /\ Loose(r) /\ ReadyTasks(r) = ReadyTasks(a) \cup {t} /\ Kept(a, {}, {}, r)
      /\ ToSet(r.pending) = ToSet(a.pending) \ {t}
  BY <1>1, <1>3, MadeReadyLoose
<1>5. SameRest(a, r) /\ a.pendedTicks = 0
  BY <1>3, FitRuns DEF MadeReady
<1>6. r.pending = <<>>
  BY <1>1, <1>4, NoPending, KernelFields DEF Loose, WellFormed
<1>7. Fit(r)
  BY <1>1, <1>4, <1>5, <1>6 DEF Fit, SameRest
<1>. QED
  BY <1>1, <1>4, <1>5, <1>6, <1>7 DEF Steps, Moves, SameRest

\* While the scheduler is suspended an interrupt only appends the task it notifies.
Pends(a, t, r) == r = [a EXCEPT !.pending = Append(@, t)]

LEMMA PendedIs ==
    ASSUME NEW a, Fit(a), a.suspended = 1, NEW t \in Tasks, t \notin ToSet(a.pending),
           NEW r, Pends(a, t, r)
    PROVE  /\ Fit(r) /\ Kept(a, {}, {}, r) /\ r.prio = a.prio /\ r.base = a.base
           /\ ToSet(r.pending) = ToSet(a.pending) \cup {t} /\ r.suspended = 1 /\ r.cur = a.cur
           /\ ReadyTasks(r) = ReadyTasks(a) /\ r.events = a.events
<1>1. WellFormed(a) /\ a \in KState /\ IsInjective(a.pending)
  BY DEF Fit, Loose, WellFormed
<1>2. a.pending \in Seq(Tasks)
  BY <1>1, KernelFields
<1>. DEFINE s == Append(a.pending, t)
<1>3. s \in Seq(Tasks) /\ IsInjective(s) /\ ToSet(s) = ToSet(a.pending) \cup {t}
  BY <1>1, <1>2, AppendIs
<1>4. r = [a EXCEPT !.pending = s]
  BY DEF Pends
<1>. HIDE DEF s
<1>5. r \in KState
  BY <1>1, <1>3, <1>4 DEF KState
<1>6. /\ r.ready = a.ready /\ r.delayed = a.delayed
      /\ r.overflow = a.overflow /\ r.pending = s /\ r.terminating = a.terminating
      /\ r.events = a.events /\ r.wake = a.wake /\ r.prio = a.prio /\ r.base = a.base
      /\ r.cur = a.cur /\ r.tick = a.tick /\ r.nextUnblock = a.nextUnblock
      /\ r.suspended = a.suspended /\ r.pendedTicks = a.pendedTicks
  BY <1>1, <1>4 DEF KState
<1>7. WellFormed(r)
  BY <1>1, <1>3, <1>5, <1>6 DEF WellFormed
<1>8. ReadyTasks(r) = ReadyTasks(a) /\ DelayedTasks(r) = DelayedTasks(a)
  BY <1>6 DEF ReadyTasks, DelayedTasks
<1>9. Apart(r)
  <2>1. Apart(a) /\ r.ready = a.ready /\ r.prio = a.prio
    BY <1>6 DEF Fit, Loose
  <2>2. \A p \in Priorities : \A u \in ToSet(r.ready[p].items) : r.prio[u] = p
    BY <2>1 DEF Apart
  <2>. QED
    BY <1>6, <1>8, <2>1, <2>2 DEF Apart
<1>10. Timely(r)
  BY <1>6 DEF Fit, Loose, Timely, UnblocksInTime
<1>11. Kept(a, {}, {}, r)
  BY <1>3, <1>6, <1>8 DEF Kept, Joins, AwakeIn
<1>12. Fit(r)
  BY <1>6, <1>7, <1>8, <1>9, <1>10 DEF Fit, Loose
<1>. QED
  BY <1>3, <1>6, <1>8, <1>11, <1>12

\* xTaskRemoveFromEventList while the scheduler runs
LEMMA GiveSteps ==
    ASSUME NEW a, Fit(a), a.suspended = 0, NEW e \in EventLists, a.events[e] # <<>>,
           NEW r, r = RemoveFromEventList(a, e)
    PROVE  /\ Steps(a, {}, {}, r) /\ r.suspended = 0 /\ r.cur = a.cur /\ r.pending = <<>>
           /\ ReadyTasks(a) \subseteq ReadyTasks(r)
           /\ Head(a.events[e]) \in ReadyTasks(r) \cap ToSet(a.events[e])
<1>. DEFINE t == Head(a.events[e])
<1>1. Sound(a) /\ a.pending = <<>> /\ ToSet(a.pending) = {} /\ a.pendedTicks = 0
      /\ AwakeIn(a) = ReadyTasks(a) /\ Idle \in ReadyTasks(a)
  BY FitRuns DEF Fit
<1>2. Given(a, t, r)
  BY <1>1, RemoveFromEventListIs
<1>3. t \in ToSet(a.events[e])
  <2>1. a.events[e] \in Seq(Tasks) /\ IsInjective(a.events[e])
    BY <1>1, KernelFields DEF Sound, WellFormed
  <2>. QED
    BY <2>1, TailIs
<1>. HIDE DEF t
<1>4. /\ \A p \in Priorities : ToSet(r.ready[p].items) =
            ToSet(a.ready[p].items) \cup (IF a.prio[t] = p THEN {t} ELSE {})
      /\ ToSet(r.pending) = {} /\ r.suspended = 0 /\ r.pendedTicks = 0 /\ Sound(r) /\ t \in Tasks
      /\ r.prio = a.prio /\ r.base = a.base /\ r.cur = a.cur
      /\ \A d \in EventLists : ToSet(r.events[d]) = ToSet(a.events[d]) \ {t}
  BY <1>1, <1>2 DEF Given
<1>5. r.pending = <<>>
  BY <1>4, NoPending, KernelFields DEF Sound, WellFormed
<1>6. ReadyTasks(a) \subseteq ReadyTasks(r)
  BY <1>4 DEF ReadyTasks
<1>7. t \in ReadyTasks(r)
  <2>1. a.prio[t] \in Priorities
    BY <1>1, <1>4, KernelFields DEF Sound, WellFormed
  <2>2. t \in ToSet(r.ready[a.prio[t]].items)
    BY <1>4, <2>1
  <2>. QED
    BY <2>1, <2>2 DEF ReadyTasks
<1>8. Kept(a, {}, {}, r)
  BY <1>1, <1>4, <1>6 DEF Kept, Joins, AwakeIn
<1>9. Fit(r)
  BY <1>1, <1>4, <1>5, <1>6, FitSound
<1>. QED
  BY <1>3, <1>4, <1>5, <1>6, <1>7, <1>8, <1>9 DEF Steps, Moves, t

-----------------------------------------------------------------------------
(* Priorities that are inherited, and given back *)

\* Only the value of the task's event list item may differ.
Alike(a, b) ==
    /\ WellFormed(b) /\ b.ready = a.ready /\ b.delayed = a.delayed
    /\ b.overflow = a.overflow /\ b.pending = a.pending /\ b.terminating = a.terminating
    /\ b.events = a.events /\ b.wake = a.wake /\ b.prio = a.prio /\ b.base = a.base
    /\ b.cur = a.cur /\ b.tick = a.tick /\ b.nextUnblock = a.nextUnblock
    /\ b.suspended = a.suspended /\ b.pendedTicks = a.pendedTicks

LEMMA EventPriorityIs ==
    ASSUME NEW a, WellFormed(a), NEW t \in Tasks, NEW new \in Priorities
    PROVE  Alike(a, WithEventPriority(t, new, a))
<1>1. Highest(Priorities) + 1 - new \in Int
  BY TaskListsAssumption
<1>2. CASE item[t].inUse
  BY <1>2 DEF WithEventPriority, Alike
<1>3. CASE ~item[t].inUse
  BY <1>1, <1>3, RetoldIs DEF WithEventPriority, Alike
<1>. QED
  BY <1>2, <1>3

\* The task t has priority new, and is on the ready list of new if it was ready.
Repriced(a, t, new, r) ==
    /\ Sound(r) /\ r.prio = [a.prio EXCEPT ![t] = new] /\ r.base = a.base
    /\ ReadyTasks(r) = ReadyTasks(a) /\ DelayedTasks(r) = DelayedTasks(a)
    /\ r.pending = a.pending /\ r.events = a.events /\ r.cur = a.cur
    /\ r.suspended = a.suspended /\ r.pendedTicks = a.pendedTicks

\* A task that is not ready
LEMMA RepricedBlocked ==
    ASSUME NEW a, Sound(a), NEW b, Alike(a, b), NEW t \in Tasks, t \notin ReadyTasks(a),
           NEW new \in Priorities, NEW r, r = [b EXCEPT !.prio[t] = new]
    PROVE  Repriced(a, t, new, r)
<1>1. b \in KState /\ WellFormed(b) /\ b.prio \in [Tasks -> Priorities]
  BY KernelFields DEF Alike, WellFormed
<1>. DEFINE q == [b.prio EXCEPT ![t] = new]
<1>2. r = [b EXCEPT !.prio = q] /\ q \in [Tasks -> Priorities]
  BY <1>1
<1>3. \A u \in Tasks \ {t} : q[u] = b.prio[u]
  BY <1>1
<1>4. q = [a.prio EXCEPT ![t] = new]
  BY DEF Alike
<1>. HIDE DEF q
<1>5. r \in KState
  BY <1>1, <1>2 DEF KState
<1>6. /\ r.ready = b.ready /\ r.delayed = b.delayed
      /\ r.overflow = b.overflow /\ r.pending = b.pending /\ r.terminating = b.terminating
      /\ r.events = b.events /\ r.wake = b.wake /\ r.prio = q /\ r.base = b.base
      /\ r.cur = b.cur /\ r.tick = b.tick /\ r.nextUnblock = b.nextUnblock
      /\ r.suspended = b.suspended /\ r.pendedTicks = b.pendedTicks
  BY <1>1, <1>2 DEF KState
<1>7. /\ r.ready = a.ready /\ r.delayed = a.delayed
      /\ r.overflow = a.overflow /\ r.pending = a.pending /\ r.terminating = a.terminating
      /\ r.events = a.events /\ r.wake = a.wake /\ r.base = a.base
      /\ r.cur = a.cur /\ r.tick = a.tick /\ r.nextUnblock = a.nextUnblock
      /\ r.suspended = a.suspended /\ r.pendedTicks = a.pendedTicks
  BY <1>6 DEF Alike
<1>8. WellFormed(r)
  BY <1>1, <1>5, <1>6 DEF WellFormed
<1>9. ReadyTasks(r) = ReadyTasks(a) /\ DelayedTasks(r) = DelayedTasks(a)
  BY <1>7 DEF ReadyTasks, DelayedTasks
<1>10. \A p \in Priorities : \A u \in ToSet(r.ready[p].items) : r.prio[u] = p
  <2>. TAKE p \in Priorities
  <2>. TAKE u \in ToSet(r.ready[p].items)
  <2>1. u \in ToSet(a.ready[p].items)
    BY <1>7
  <2>2. u # t /\ u \in Tasks /\ a.prio[u] = p
    BY <2>1, ToSetIn DEF ReadyTasks, Sound, Separate, WellFormed, ListOK
  <2>3. r.prio[u] = q[u]
    BY <1>6
  <2>. QED
    BY <1>3, <2>2, <2>3 DEF Alike
<1>11. Separate(r)
  BY <1>7, <1>9, <1>10 DEF Sound, Separate
<1>12. Timely(r)
  BY <1>7 DEF Sound, Timely, UnblocksInTime
<1>. QED
  BY <1>4, <1>6, <1>7, <1>8, <1>9, <1>11, <1>12 DEF Sound, Repriced

\* A ready task changes lists.
LEMMA RepricedReady ==
    ASSUME NEW a, Sound(a), NEW b, Alike(a, b), NEW t \in Tasks, t \in ReadyTasks(a),
           NEW new \in Priorities,
           NEW r, r = AddToReady([b EXCEPT !.ready[b.prio[t]] = ListRemove(@, t),
                                           !.prio[t] = new], t)
    PROVE  Repriced(a, t, new, r)
<1>. DEFINE old == b.prio[t]
            q == [b.prio EXCEPT ![t] = new]
            l == ListRemove(b.ready[old], t)
            lists == [b.ready EXCEPT ![old] = l]
            c == [b EXCEPT !.ready = lists, !.prio = q]
<1>1. /\ b \in KState /\ WellFormed(b) /\ b.prio \in [Tasks -> Priorities] /\ old \in Priorities
      /\ b.ready \in [Priorities -> [items : Seq(Tasks), index : Nat]]
  <2>1. b \in KState /\ WellFormed(b)
    BY DEF Alike, WellFormed
  <2>. QED
    BY <2>1, KernelFields DEF KState
<1>2. q \in [Tasks -> Priorities] /\ q[t] = new /\ \A u \in Tasks \ {t} : q[u] = b.prio[u]
  BY <1>1
<1>3. ListOK(l) /\ ToSet(l.items) = ToSet(b.ready[old].items) \ {t}
  BY <1>1, ListRemoveIs DEF WellFormed
<1>4. /\ lists \in [Priorities -> [items : Seq(Tasks), index : Nat]]
      /\ \A p \in Priorities : lists[p] = IF p = old THEN l ELSE b.ready[p]
  BY <1>1, <1>3 DEF ListOK
<1>5. r = AddToReady(c, t)
  OBVIOUS
<1>6. q = [a.prio EXCEPT ![t] = new]
  BY DEF Alike
<1>. HIDE DEF q, l, lists
<1>7. c \in KState
  BY <1>1, <1>2, <1>4 DEF KState
<1>8. /\ c.ready = lists /\ c.delayed = b.delayed
      /\ c.overflow = b.overflow /\ c.pending = b.pending /\ c.terminating = b.terminating
      /\ c.events = b.events /\ c.wake = b.wake /\ c.prio = q /\ c.base = b.base
      /\ c.cur = b.cur /\ c.tick = b.tick /\ c.nextUnblock = b.nextUnblock
      /\ c.suspended = b.suspended /\ c.pendedTicks = b.pendedTicks
  BY <1>1 DEF KState
<1>. HIDE DEF c
<1>9. WellFormed(c)
  <2>1. \A p \in Priorities : ListOK(c.ready[p])
    BY <1>1, <1>3, <1>4, <1>8 DEF WellFormed
  <2>. QED
    BY <1>1, <1>7, <1>8, <2>1 DEF WellFormed
<1>10. \A p \in Priorities : \A u \in ToSet(a.ready[p].items) : u \in Tasks /\ a.prio[u] = p
  BY ToSetIn DEF Sound, Separate, WellFormed, ListOK
<1>11. \A p \in Priorities : ToSet(c.ready[p].items) = ToSet(a.ready[p].items) \ {t}
  <2>. TAKE p \in Priorities
  <2>0. b.ready = a.ready /\ b.prio = a.prio
    BY DEF Alike
  <2>1. CASE p = old
    BY <1>3, <1>4, <1>8, <2>0, <2>1
  <2>2. CASE p # old
    <3>1. t \notin ToSet(a.ready[p].items)
      BY <1>10, <2>0, <2>2
    <3>. QED
      BY <1>4, <1>8, <2>0, <2>2, <3>1
  <2>. QED
    BY <2>1, <2>2
<1>12. ReadyAdded(c, t, r)
  <2>1. c.prio[t] \in Priorities
    BY <1>2, <1>8
  <2>2. t \notin ToSet(c.ready[c.prio[t]].items)
    BY <1>11, <2>1
  <2>. QED
    BY <1>5, <1>9, <2>2, AddToReadyIs
<1>. HIDE DEF old
<1>13. \A p \in Priorities : ToSet(r.ready[p].items) =
          (ToSet(a.ready[p].items) \ {t}) \cup (IF p = new THEN {t} ELSE {})
  <2>1. c.prio[t] = new
    BY <1>2, <1>8
  <2>2. \A p \in Priorities : ToSet(r.ready[p].items) =
           IF p = new THEN ToSet(c.ready[p].items) \cup {t} ELSE ToSet(c.ready[p].items)
    BY <1>12, <2>1 DEF ReadyAdded
  <2>. QED
    BY <1>11, <2>2
<1>14. /\ r.delayed = a.delayed
       /\ r.overflow = a.overflow /\ r.pending = a.pending /\ r.terminating = a.terminating
       /\ r.events = a.events /\ r.wake = a.wake /\ r.base = a.base /\ r.prio = q
       /\ r.cur = a.cur /\ r.tick = a.tick /\ r.nextUnblock = a.nextUnblock
       /\ r.suspended = a.suspended /\ r.pendedTicks = a.pendedTicks
  BY <1>8, <1>12 DEF ReadyAdded, SameRest, Alike
<1>15. ReadyTasks(r) = ReadyTasks(a)
  <2>1. ReadyTasks(r) \subseteq ReadyTasks(a)
    BY <1>13 DEF ReadyTasks
  <2>2. ReadyTasks(a) \ {t} \subseteq ReadyTasks(r)
    BY <1>13 DEF ReadyTasks
  <2>3. t \in ToSet(r.ready[new].items)
    BY <1>13
  <2>4. t \in ReadyTasks(r)
    BY <2>3 DEF ReadyTasks
  <2>. QED
    BY <2>1, <2>2, <2>4
<1>16. DelayedTasks(r) = DelayedTasks(a)
  BY <1>14 DEF DelayedTasks
<1>17. \A p \in Priorities : \A u \in ToSet(r.ready[p].items) : r.prio[u] = p
  <2>. TAKE p \in Priorities
  <2>. TAKE u \in ToSet(r.ready[p].items)
  <2>1. CASE u = t
    BY <1>2, <1>13, <1>14, <2>1
  <2>2. CASE u # t
    <3>1. u \in ToSet(a.ready[p].items)
      BY <1>13, <2>2
    <3>2. u \in Tasks /\ a.prio[u] = p
      BY <1>10, <3>1
    <3>. QED
      BY <1>2, <1>14, <2>2, <3>2 DEF Alike
  <2>. QED
    BY <2>1, <2>2
<1>18. Separate(r)
  BY <1>14, <1>15, <1>16, <1>17 DEF Sound, Separate
<1>19. Timely(r)
  BY <1>14 DEF Sound, Timely, UnblocksInTime
<1>20. WellFormed(r)
  BY <1>12 DEF ReadyAdded
<1>. QED
  BY <1>6, <1>14, <1>15, <1>16, <1>18, <1>19, <1>20 DEF Sound, Repriced

LEMMA RepricedIs ==
    ASSUME NEW a, Sound(a), NEW t \in Tasks, NEW new \in Priorities,
           NEW r, r = WithPriority(WithEventPriority(t, new, a), t, new)
    PROVE  Repriced(a, t, new, r)
<1>. DEFINE b == WithEventPriority(t, new, a)
<1>1. Alike(a, b)
  BY EventPriorityIs DEF Sound
<1>2. r = WithPriority(b, t, new)
  OBVIOUS
<1>. HIDE DEF b
<1>3. b.ready = a.ready /\ b.prio = a.prio /\ a.prio \in [Tasks -> Priorities]
  BY <1>1, KernelFields DEF Alike, Sound, WellFormed
<1>4. Contains(b.ready[b.prio[t]].items, t) <=> t \in ReadyTasks(a)
  <2>1. Contains(b.ready[b.prio[t]].items, t) <=> t \in ToSet(a.ready[a.prio[t]].items)
    <3>1. a.prio[t] \in Priorities
      BY <1>3
    <3>2. a.ready[a.prio[t]].items \in Seq(Tasks)
      BY <3>1 DEF Sound, WellFormed, ListOK
    <3>. QED
      BY <1>3, <3>2 DEF Contains, ToSet
  <2>2. t \in ReadyTasks(a) => t \in ToSet(a.ready[a.prio[t]].items)
    BY DEF ReadyTasks, Sound, Separate
  <2>3. t \in ToSet(a.ready[a.prio[t]].items) => t \in ReadyTasks(a)
    BY <1>3 DEF ReadyTasks
  <2>. QED
    BY <2>1, <2>2, <2>3
<1>5. CASE t \in ReadyTasks(a)
  <2>1. r = AddToReady([b EXCEPT !.ready[b.prio[t]] = ListRemove(@, t), !.prio[t] = new], t)
    BY <1>2, <1>4, <1>5 DEF WithPriority
  <2>. QED
    BY <1>1, <1>5, <2>1, RepricedReady
<1>6. CASE t \notin ReadyTasks(a)
  <2>1. r = [b EXCEPT !.prio[t] = new]
    BY <1>2, <1>4, <1>6 DEF WithPriority
  <2>. QED
    BY <1>1, <1>6, <2>1, RepricedBlocked
<1>. QED
  BY <1>5, <1>6

\* The kernel but for the priorities
LEMMA RepricedMoves ==
    ASSUME NEW a, Fit(a), Sound(a), NEW t, NEW new, NEW r, Repriced(a, t, new, r)
    PROVE  Moves(a, {}, {}, r)
<1>1. Fit(r)
  BY SoundLoose DEF Repriced, Fit
<1>2. Kept(a, {}, {}, r) /\ ToSet(r.pending) = ToSet(a.pending)
  BY DEF Repriced, Kept, Joins, AwakeIn
<1>. QED
  BY <1>1, <1>2 DEF Moves

-----------------------------------------------------------------------------
(* The loop of xEventGroupSetBits *)

\* The tasks of W are made ready, one after the other.
Unblocks(a, W, r) ==
    /\ Loose(r) /\ ReadyTasks(r) = ReadyTasks(a) \cup W
    /\ \A e \in EventLists : ToSet(r.events[e]) = ToSet(a.events[e]) \ W
    /\ ToSet(r.pending) = ToSet(a.pending) \ W
    /\ r.prio = a.prio /\ r.base = a.base /\ r.cur = a.cur
    /\ r.suspended = a.suspended /\ r.pendedTicks = a.pendedTicks

LEMMA UnblocksNone ==
    ASSUME NEW a, Loose(a)
    PROVE  Unblocks(a, {}, a)
  BY DEF Unblocks

LEMMA UnblocksBoth ==
    ASSUME NEW a, NEW V, NEW b, Unblocks(a, V, b), NEW W, NEW r, Unblocks(b, W, r)
    PROVE  Unblocks(a, V \cup W, r)
<1>1. ReadyTasks(r) = ReadyTasks(a) \cup (V \cup W)
  BY DEF Unblocks
<1>2. \A e \in EventLists : ToSet(r.events[e]) = ToSet(a.events[e]) \ (V \cup W)
  BY DEF Unblocks
<1>3. ToSet(r.pending) = ToSet(a.pending) \ (V \cup W)
  BY DEF Unblocks
<1>. QED
  BY <1>1, <1>2, <1>3 DEF Unblocks

LEMMA UnblockOne ==
    ASSUME NEW a, Loose(a), NEW t \in Tasks
    PROVE  Unblocks(a, {t}, RemoveFromUnorderedEventList(a, t))
<1>. DEFINE b == MakeReady(a, t)
            y == b.yieldPending \/ a.prio[t] > a.prio[a.cur]
            r == [b EXCEPT !.yieldPending = y]
<1>1. MadeReady(a, {t}, b) /\ b.nextUnblock = a.nextUnblock /\ {t} \subseteq Tasks
  BY MakeReadyIs DEF Loose
<1>2. RemoveFromUnorderedEventList(a, t) = r
  BY DEF RemoveFromUnorderedEventList
<1>. HIDE DEF b
<1>3. /\ Loose(b) /\ ReadyTasks(b) = ReadyTasks(a) \cup {t}
      /\ ToSet(b.pending) = ToSet(a.pending) \ {t}
      /\ \A e \in EventLists : ToSet(b.events[e]) = ToSet(a.events[e]) \ {t}
      /\ SameRest(a, b)
  BY <1>1, MadeReadyLoose DEF MadeReady
<1>4. y \in BOOLEAN
  BY <1>3 DEF Loose, WellFormed, KState
<1>. HIDE DEF y
<1>5. /\ WellFormed(r) /\ SameSets(b, r) /\ r.cur = b.cur /\ r.suspended = b.suspended
      /\ r.pendedTicks = b.pendedTicks
  BY <1>3, <1>4, FlagLoose DEF Loose
<1>. HIDE DEF r
<1>6. Loose(r) /\ ReadyTasks(r) = ReadyTasks(b)
  BY <1>3, <1>5, SameSetsLoose
<1>. QED
  BY <1>2, <1>3, <1>5, <1>6 DEF Unblocks, SameSets, SameRest

LEMMA UnblockIs ==
    ASSUME NEW a, Loose(a), NEW met
    PROVE  Unblocks(a, ToSet(Waiting(a)) \cap met, Unblock(a, met))
<1>. DEFINE P == Waiting(a)
            n == Len(P)
            K == {r \in KState : Loose(r)}
            Make(i, r) == IF i \in 1..n /\ P[i] \in met
                          THEN RemoveFromUnorderedEventList(r, P[i]) ELSE r
            step == [i \in Nat |-> [r \in K |-> Make(i, r)]]
<1>1. a \in KState /\ P \in Seq(Tasks) /\ n \in Nat /\ a \in K
      /\ \A i \in 1..n : P[i] \in Tasks /\ P[i] \in ToSet(P)
  <2>1. a \in KState /\ P \in Seq(Tasks)
    BY EventGroupAssumption, KernelFields DEF Loose, WellFormed, Waiting
  <2>. HIDE DEF P
  <2>. QED
    BY <2>1 DEF ToSet
<1>. HIDE DEF P
<1>2. step \in [Nat -> [K -> K]]
  <2>1. \A i \in Nat : \A r \in K : Make(i, r) \in K
    <3>. TAKE i \in Nat
    <3>. TAKE r \in K
    <3>1. CASE i \in 1..n /\ P[i] \in met
      <4>1. Unblocks(r, {P[i]}, RemoveFromUnorderedEventList(r, P[i]))
        BY <1>1, <3>1, UnblockOne
      <4>. QED
        BY <3>1, <4>1 DEF Unblocks, Loose, WellFormed
    <3>2. CASE ~(i \in 1..n /\ P[i] \in met)
      BY <3>2
    <3>. QED
      BY <3>1, <3>2
  <2>. HIDE DEF Make, K
  <2>. QED
    BY <2>1
<1>3. \E f \in [0..n -> K] : Iterated(f, a, step, n)
  <2>. HIDE DEF n, K, step
  <2>. QED
    BY <1>1, <1>2, Iterates
<1>4. PICK f \in [0..n -> K] :
         \A i \in 0..n : f[i] = IF i = 0 THEN a
                                ELSE IF P[i] \in met THEN RemoveFromUnorderedEventList(f[i - 1], P[i])
                                ELSE f[i - 1]
  <2>1. PICK f \in [0..n -> K] : \A i \in 0..n : f[i] = IF i = 0 THEN a ELSE step[i][f[i - 1]]
    BY <1>3 DEF Iterated
  <2>2. \A i \in 0..n : i # 0 => f[i - 1] \in K /\ i \in Nat /\ i \in 1..n
    BY <1>1, <2>1
  <2>3. \A i \in 0..n : f[i] = IF i = 0 THEN a
                               ELSE IF P[i] \in met THEN RemoveFromUnorderedEventList(f[i - 1], P[i])
                               ELSE f[i - 1]
    BY <2>1, <2>2
  <2>. QED
    BY <2>1, <2>3
<1>5. f = [i \in 0..n |-> IF i = 0 THEN a
                          ELSE IF P[i] \in met THEN RemoveFromUnorderedEventList(f[i - 1], P[i])
                          ELSE f[i - 1]]
  <2>. DEFINE g == [i \in 0..n |-> IF i = 0 THEN a
                          ELSE IF P[i] \in met THEN RemoveFromUnorderedEventList(f[i - 1], P[i])
                          ELSE f[i - 1]]
  <2>1. \A i \in 0..n : f[i] = g[i]
    BY <1>4
  <2>. QED
    BY <1>4, <2>1, Zenon
<1>. DEFINE after[i \in 0..n] == IF i = 0 THEN a
                          ELSE IF P[i] \in met THEN RemoveFromUnorderedEventList(after[i - 1], P[i])
                          ELSE after[i - 1]
<1>6. after = [i \in 0..n |-> IF i = 0 THEN a
                          ELSE IF P[i] \in met THEN RemoveFromUnorderedEventList(after[i - 1], P[i])
                          ELSE after[i - 1]]
  BY <1>5, Zenon
<1>7. Unblock(a, met) = after[n]
  BY DEF Unblock, P
<1>. DEFINE Firsts(i) == {P[j] : j \in 1..i}
            T == {i \in Nat : i <= n => Unblocks(a, Firsts(i) \cap met, after[i])}
<1>11. \A i \in 0..n : after[i] = IF i = 0 THEN a
                          ELSE IF P[i] \in met THEN RemoveFromUnorderedEventList(after[i - 1], P[i])
                          ELSE after[i - 1]
  <2>. HIDE DEF after
  <2>. QED
    BY <1>6
<1>. HIDE DEF after
<1>12. 0 \in T
  <2>1. after[0] = a /\ Firsts(0) \cap met = {}
    BY <1>1, <1>11
  <2>. QED
    BY <1>1, <2>1, UnblocksNone
<1>13. ASSUME NEW i \in T PROVE i + 1 \in T
  <2>. SUFFICES ASSUME i + 1 <= n
                PROVE  Unblocks(a, Firsts(i + 1) \cap met, after[i + 1])
    OBVIOUS
  <2>. DEFINE c == after[i]  t == P[i + 1]
  <2>1. /\ i \in Nat /\ i <= n /\ i + 1 \in 1..n
        /\ after[i + 1] = IF t \in met THEN RemoveFromUnorderedEventList(c, t) ELSE c
        /\ Unblocks(a, Firsts(i) \cap met, c)
    <3>1. i \in Nat /\ i <= n /\ i + 1 \in 1..n /\ i + 1 \in 0..n /\ i + 1 # 0 /\ (i + 1) - 1 = i
      <4>1. i \in Nat
        BY <1>13
      <4>. QED
        BY <1>1, <4>1
    <3>2. after[i + 1] = IF P[i + 1] \in met THEN RemoveFromUnorderedEventList(after[(i + 1) - 1], P[i + 1])
                         ELSE after[(i + 1) - 1]
      BY <1>11, <3>1
    <3>3. Unblocks(a, Firsts(i) \cap met, c)
      BY <1>13, <3>1
    <3>. QED
      BY <3>1, <3>2, <3>3
  <2>2. Firsts(i + 1) = Firsts(i) \cup {t}
    <3>1. \A j \in 1..(i + 1) : j \in 1..i \/ j = i + 1
      BY <2>1
    <3>. QED
      BY <2>1, <3>1
  <2>3. t \in Tasks
    BY <1>1, <2>1
  <2>. HIDE DEF c, t, Firsts
  <2>4. CASE t \in met
    <3>1. Unblocks(c, {t}, RemoveFromUnorderedEventList(c, t))
      BY <2>1, <2>3, UnblockOne DEF Unblocks
    <3>2. Unblocks(a, (Firsts(i) \cap met) \cup {t}, RemoveFromUnorderedEventList(c, t))
      BY <2>1, <3>1, UnblocksBoth
    <3>3. Firsts(i + 1) \cap met = (Firsts(i) \cap met) \cup {t}
      BY <2>2, <2>4
    <3>. QED
      BY <2>1, <2>4, <3>2, <3>3
  <2>5. CASE t \notin met
    <3>1. Firsts(i + 1) \cap met = Firsts(i) \cap met
      BY <2>2, <2>5
    <3>. QED
      BY <2>1, <2>5, <3>1
  <2>. QED
    BY <2>4, <2>5
<1>14. T = Nat
  <2>. HIDE DEF T
  <2>1. T \subseteq Nat
    BY DEF T
  <2>. QED
    BY <1>12, <1>13, <2>1, Induction
<1>15. Firsts(n) = ToSet(P)
  BY <1>1 DEF ToSet
<1>16. Unblocks(a, ToSet(P) \cap met, after[n])
  <2>1. n \in T /\ n <= n
    <3>. HIDE DEF T
    <3>. QED
      BY <1>1, <1>14
  <2>. HIDE DEF Firsts
  <2>. QED
    BY <1>15, <2>1
<1>. QED
  BY <1>7, <1>16 DEF P

\* Seen as a step of the kernel
LEMMA UnblocksSteps ==
    ASSUME NEW a, Fit(a), a.pending = <<>>, NEW W, NEW r, Unblocks(a, W, r)
    PROVE  /\ Steps(a, {}, {}, r) /\ Sound(r) /\ r.pending = <<>>
           /\ ReadyTasks(r) = ReadyTasks(a) \cup W
<1>1. ToSet(r.pending) = {}
  <2>1. ToSet(a.pending) = {}
    BY DEF ToSet
  <2>. QED
    BY <2>1 DEF Unblocks
<1>2. r.pending = <<>>
  BY <1>1, NoPending, KernelFields DEF Unblocks, Loose, WellFormed
<1>3. Kept(a, {}, {}, r)
  BY <1>1, <1>2 DEF Unblocks, Kept, Joins, AwakeIn, ToSet
<1>4. Fit(r)
  BY <1>2 DEF Fit, Unblocks
<1>5. Sound(r)
  BY <1>2, LooseSound DEF Unblocks
<1>. QED
  BY <1>1, <1>2, <1>3, <1>4, <1>5 DEF Steps, Moves, Unblocks

-----------------------------------------------------------------------------
(* The inductive invariant *)

\* The labels at which a task may be on an event list, and those at which it has
\* suspended the scheduler
Waits == {"blocked", "yield", "awake"}
Suspending == {"expired", "retry", "blocked", "return", "suspended"}
Labels == Waits \cup Suspending \cup {"user", "wait", "recheck", "second"}

Calls == [at : Labels, op : {"none", "mutex", "events", "take", "wait", "malloc"},
          arg : Mutex \cup Conditions \cup {"none"}, wait : Ticks,
          timeOut : [overflows : Nat, entering : Int]]

CallOK(c) ==
    /\ c \in Calls
    /\ c.at \in Waits => c.op \in {"mutex", "events"}
    /\ c.at \in {"wait", "expired", "retry", "recheck"} => c.op = "mutex"
    /\ c.op = "mutex" => c.arg \in Mutex
    /\ c.at = "return" => c.op = "events"
    /\ c.op = "events" => c.at \in Waits \cup {"return"}
    /\ c.op = "events" /\ c.at \in Waits => c.arg \in Conditions
    /\ c.at = "user" => c.op = "none"

CallsFit ==
    /\ pc \in [Tasks -> Calls] /\ \A t \in Tasks : CallOK(pc[t])
    /\ pc[Idle].at = "user"

\* Only the running task may have suspended the scheduler, and unless it is on its way
\* to sleep it is ready.
Placed ==
    /\ \A t \in Tasks \ {cur} : pc[t].at \notin Suspending
    /\ k.suspended = IF pc[cur].at \in Suspending THEN 1 ELSE 0
    /\ pc[cur].at \notin {"blocked", "yield"} => cur \in ReadyTasks(k)

\* A task is on the list of the object its call is about.
OnList(c, e) ==
    /\ c.at \in Waits
    /\ e \in Mutex => c.op = "mutex" /\ c.arg = e
    /\ e = Group => c.op = "events"

Listed == \A e \in EventLists : \A t \in ToSet(k.events[e]) : OnList(pc[t], e)

MutexFit ==
    /\ held \in [Tasks -> Nat] /\ MutexTypeOK
    /\ \A t \in Tasks : (held[t] = 0 => k.prio[t] = k.base[t]) /\ k.prio[t] >= k.base[t]

\* As FreeMutexTried: the task is inside the wait, or about to try again after it.
Tries(c, m) == c.op = "mutex" /\ c.arg = m /\ c.at \in Waits

FreeAt(m) ==
    (holder[m] = NoTask /\ k.events[m] # <<>>) =>
        \E t \in Tasks : Tries(pc[t], m) /\ t \in AwakeIn(k)

FreeFit == \A m \in Mutex : FreeAt(m)

Items == [for : SUBSET Bits, all : BOOLEAN, clear : BOOLEAN, unblocked : BOOLEAN,
          inUse : BOOLEAN]

\* The item of a task that waits holds its condition until the bits that wake it
\* replace it.
ItemFit(t) ==
    /\ item[t].inUse = InWait(t)
    /\ item[t].unblocked => /\ InWait(t) /\ t \in AwakeIn(k) /\ t \notin ToSet(Waiting(k))
                            /\ alive => Met(item[t].for, pc[t].arg)
    /\ InWait(t) /\ ~item[t].unblocked => item[t] = InItem(pc[t].arg)

GroupFit ==
    /\ item \in [Tasks -> Items] /\ bits \subseteq Bits /\ alive \in BOOLEAN
    /\ \A t \in Tasks : ItemFit(t)
    /\ alive => \A t \in ToSet(Waiting(k)) : ~Met(bits, item[t])

NotifyFit ==
    /\ value \in [Tasks -> Values] /\ nstate \in [Tasks -> NotifyStates]
    /\ \A t \in Tasks : /\ nstate[t] = "waiting" => pc[t].at = "second"
                        /\ pc[t].at = "second" /\ nstate[t] # "waiting" => t \in AwakeIn(k)
    /\ \A t \in ToSet(k.pending) : pc[t].at = "second" /\ nstate[t] # "waiting"

SyncInv ==
    /\ program \in Programs /\ Fit(k) /\ CallsFit /\ Placed /\ Listed
    /\ MutexFit /\ FreeFit /\ GroupFit /\ NotifyFit

-----------------------------------------------------------------------------
(* What a step keeps that goes on at p in the call of the running task *)

Goes(S, E, p) ==
    /\ program' = program /\ Fit(k') /\ Kept(k, S, E, k') /\ S \subseteq {cur}
    /\ CallOK(p) /\ pc' = [pc EXCEPT ![cur] = p] /\ (cur = Idle => p.at = "user")
    /\ cur \in ReadyTasks(k) \/ (p.at \in Waits /\ p.op = me.op /\ p.arg = me.arg)
    /\ \A e \in E : OnList(p, e)
    /\ \/ k'.suspended = 0 /\ p.at \notin Suspending /\ cur' \in ReadyTasks(k')
       \/ /\ cur' = cur /\ k'.suspended = (IF p.at \in Suspending THEN 1 ELSE 0)
          /\ p.at \notin {"blocked", "yield"} => cur \in ReadyTasks(k')

\* A task on an event list is not ready.
LEMMA ListedAsleep ==
    ASSUME NEW a, Loose(a), NEW e \in EventLists, NEW t \in ToSet(a.events[e])
    PROVE  t \notin ReadyTasks(a) /\ t \in Tasks
  BY TasksOf DEF Loose, Apart

LEMMA CurIs ==
    ASSUME SyncInv
    PROVE  /\ cur \in Tasks /\ me = pc[cur] /\ CallOK(me) /\ WellFormed(k) /\ Loose(k)
           /\ DOMAIN pc = Tasks
<1>1. WellFormed(k) /\ Loose(k)
  BY DEF SyncInv, Fit, Loose
<1>2. cur \in Tasks
  BY <1>1, TasksOf DEF cur
<1>. QED
  BY <1>1, <1>2 DEF SyncInv, CallsFit, me

LEMMA GoesCalls ==
    ASSUME SyncInv, NEW S, NEW E, NEW p, Goes(S, E, p)
    PROVE  /\ pc'[cur] = p /\ \A t \in Tasks \ {cur} : pc'[t] = pc[t]
           /\ CallsFit' /\ Placed' /\ Listed'
<1>1. cur \in Tasks /\ me = pc[cur] /\ CallOK(me) /\ Loose(k) /\ pc \in [Tasks -> Calls]
  BY CurIs DEF SyncInv, CallsFit
<1>2. pc'[cur] = p /\ \A t \in Tasks \ {cur} : pc'[t] = pc[t]
  BY <1>1 DEF Goes
<1>3. CallsFit'
  <2>1. p \in Calls /\ CallOK(p)
    BY DEF Goes, CallOK
  <2>2. pc' \in [Tasks -> Calls]
    BY <1>1, <2>1 DEF Goes
  <2>3. \A t \in Tasks : CallOK(pc'[t])
    BY <1>2, <2>1 DEF SyncInv, CallsFit
  <2>4. pc'[Idle].at = "user"
    BY <1>2, KernelCallsAssumption DEF SyncInv, CallsFit, Goes
  <2>. QED
    BY <2>2, <2>3, <2>4 DEF CallsFit
<1>4. Placed'
  <2>1. \A t \in Tasks \ {cur} : pc'[t].at \notin Suspending
    BY <1>2 DEF SyncInv, Placed
  <2>2. CASE k'.suspended = 0 /\ p.at \notin Suspending /\ cur' \in ReadyTasks(k')
    <3>1. \A t \in Tasks : pc'[t].at \notin Suspending
      BY <1>2, <2>1, <2>2
    <3>2. cur' \in Tasks
      BY TasksOf DEF Goes, Fit, Loose, cur
    <3>. QED
      BY <2>2, <3>1, <3>2 DEF Placed
  <2>3. CASE /\ cur' = cur /\ k'.suspended = (IF p.at \in Suspending THEN 1 ELSE 0)
             /\ p.at \notin {"blocked", "yield"} => cur \in ReadyTasks(k')
    BY <1>2, <2>1, <2>3 DEF Placed
  <2>. QED
    BY <2>2, <2>3 DEF Goes
<1>5. Listed'
  <2>1. SUFFICES ASSUME NEW e \in EventLists, NEW t \in ToSet(k'.events[e])
                 PROVE  OnList(pc'[t], e)
    BY DEF Listed
  <2>2. CASE t \in ToSet(k.events[e])
    <3>1. OnList(pc[t], e) /\ t \notin ReadyTasks(k) /\ t \in Tasks
      BY <1>1, <2>2, ListedAsleep DEF SyncInv, Listed
    <3>2. CASE t = cur
      <4>1. p.at \in Waits /\ p.op = me.op /\ p.arg = me.arg
        BY <3>1, <3>2 DEF Goes
      <4>. QED
        BY <1>1, <1>2, <3>1, <3>2, <4>1 DEF OnList
    <3>3. CASE t # cur
      BY <1>2, <3>1, <3>3
    <3>. QED
      BY <3>2, <3>3
  <2>3. CASE t \notin ToSet(k.events[e])
    <3>1. e \in E /\ t = cur
      BY <2>3 DEF Goes, Kept, Joins
    <3>. QED
      BY <1>2, <3>1 DEF Goes
  <2>. QED
    BY <2>2, <2>3
<1>. QED
  BY <1>2, <1>3, <1>4, <1>5

LEMMA GoesMutex ==
    ASSUME SyncInv, holder' = holder, held' = held, k'.prio = k.prio, k'.base = k.base
    PROVE  MutexFit'
  BY DEF SyncInv, MutexFit, MutexTypeOK

\* The task about to try a free mutex still is, and nobody new sleeps on a free one.
LEMMA GoesFreeAt ==
    ASSUME SyncInv, NEW m \in Mutex, holder'[m] = NoTask => holder[m] = NoTask,
           NEW S, NEW E, NEW p, Goes(S, E, p), m \notin E \/ holder'[m] # NoTask,
           Tries(me, m) /\ holder'[m] = NoTask => Tries(p, m) /\ S = {}
    PROVE  FreeAt(m)'
<1>1. pc'[cur] = p /\ \A t \in Tasks \ {cur} : pc'[t] = pc[t]
  BY GoesCalls
<1>2. SUFFICES ASSUME holder'[m] = NoTask, k'.events[m] # <<>>
               PROVE  \E t \in Tasks : Tries(pc'[t], m) /\ t \in AwakeIn(k')
  BY DEF FreeAt
<1>3. m \in EventLists /\ m \notin E
  BY <1>2, MutexAssumption
<1>4. ToSet(k'.events[m]) \subseteq ToSet(k.events[m]) /\ AwakeIn(k) \ S \subseteq AwakeIn(k')
      /\ S \subseteq {cur}
  BY <1>3 DEF Goes, Kept, Joins
<1>5. k.events[m] # <<>>
  <2>1. ToSet(k'.events[m]) # {}
    <3>1. k'.events[m] \in Seq(Tasks)
      BY <1>3, KernelFields DEF Goes, Fit, Loose, WellFormed
    <3>. QED
      BY <1>2, <3>1, NoPending
  <2>2. ToSet(k.events[m]) # {}
    BY <1>4, <2>1
  <2>. QED
    BY <2>2 DEF ToSet
<1>6. PICK t \in Tasks : Tries(pc[t], m) /\ t \in AwakeIn(k)
  BY <1>2, <1>5 DEF SyncInv, FreeFit, FreeAt
<1>7. CASE t = cur
  <2>1. Tries(me, m)
    BY <1>6, <1>7 DEF me
  <2>2. Tries(p, m) /\ S = {}
    BY <1>2, <2>1
  <2>. QED
    BY <1>1, <1>4, <1>6, <1>7, <2>2
<1>8. CASE t # cur
  BY <1>1, <1>4, <1>6, <1>8
<1>. QED
  BY <1>7, <1>8

LEMMA GoesFree ==
    ASSUME SyncInv, holder' = holder, NEW S, NEW E, NEW p, Goes(S, E, p),
           \A m \in E \cap Mutex : holder[m] # NoTask,
           \A m \in Mutex : Tries(me, m) /\ holder[m] = NoTask => Tries(p, m) /\ S = {}
    PROVE  FreeFit'
<1>1. \A m \in Mutex : FreeAt(m)'
  <2>. TAKE m \in Mutex
  <2>1. m \notin E \/ holder'[m] # NoTask
    OBVIOUS
  <2>2. Tries(me, m) /\ holder'[m] = NoTask => Tries(p, m) /\ S = {}
    OBVIOUS
  <2>. QED
    BY <2>1, <2>2, GoesFreeAt
<1>. QED
  BY <1>1 DEF FreeFit

\* The group may lose bits.
LEMMA MetLess ==
    ASSUME NEW b, NEW d, d \subseteq b, NEW c, Met(d, c)
    PROVE  Met(b, c)
  BY DEF Met

LEMMA GoesGroup ==
    ASSUME SyncInv, item' = item, bits' \subseteq bits, alive' = alive,
           NEW S, NEW E, NEW p, Goes(S, E, p), Group \notin E,
           InWait(cur) <=> (p.op = "events" /\ p.at \in Waits),
           InWait(cur) => p.arg = me.arg /\ S = {}
    PROVE  GroupFit'
<1>1. pc'[cur] = p /\ (\A t \in Tasks \ {cur} : pc'[t] = pc[t]) /\ me = pc[cur] /\ cur \in Tasks
  BY GoesCalls, CurIs
<1>2. ToSet(Waiting(k)') \subseteq ToSet(Waiting(k)) /\ AwakeIn(k) \ S \subseteq AwakeIn(k')
      /\ S \subseteq {cur}
  BY EventGroupAssumption DEF Goes, Kept, Joins, Waiting
<1>3. \A t \in Tasks : InWait(t)' = InWait(t) /\ (InWait(t) => pc'[t].arg = pc[t].arg /\ t \notin S)
  <2>. TAKE t \in Tasks
  <2>1. CASE t = cur
    BY <1>1, <2>1 DEF InWait, Waits
  <2>2. CASE t # cur
    BY <1>1, <1>2, <2>2 DEF InWait
  <2>. QED
    BY <2>1, <2>2
<1>4. \A t \in Tasks : ItemFit(t)'
  <2>. TAKE t \in Tasks
  <2>1. ItemFit(t)
    BY DEF SyncInv, GroupFit
  <2>. QED
    BY <1>2, <1>3, <2>1 DEF ItemFit
<1>5. alive' => \A t \in ToSet(Waiting(k)') : ~Met(bits', item'[t])
  BY <1>2, MetLess DEF SyncInv, GroupFit
<1>. QED
  BY <1>4, <1>5 DEF SyncInv, GroupFit

LEMMA GoesNotify ==
    ASSUME SyncInv, value' = value, nstate' = nstate, NEW S, NEW E, NEW p, Goes(S, E, p),
           ToSet(k'.pending) \subseteq ToSet(k.pending),
           p.at = "second" <=> me.at = "second", me.at = "second" => S = {}
    PROVE  NotifyFit'
<1>1. pc'[cur] = p /\ (\A t \in Tasks \ {cur} : pc'[t] = pc[t]) /\ me = pc[cur] /\ cur \in Tasks
      /\ AwakeIn(k) \ S \subseteq AwakeIn(k') /\ S \subseteq {cur} /\ ToSet(k.pending) \subseteq Tasks
  BY GoesCalls, CurIs, TasksOf DEF Goes, Kept, Joins
<1>2. \A t \in Tasks : (pc'[t].at = "second" <=> pc[t].at = "second")
                       /\ (pc[t].at = "second" => t \notin S)
  BY <1>1
<1>. QED
  BY <1>1, <1>2 DEF SyncInv, NotifyFit

\* Steps that change only the kernel and where the running task is
LEMMA QuietKeeps ==
    ASSUME SyncInv, NEW S, NEW p, Goes(S, {}, p), k'.prio = k.prio, k'.base = k.base,
           ToSet(k'.pending) \subseteq ToSet(k.pending),
           UNCHANGED <<item, holder, held, bits, alive, value, nstate>>,
           \A m \in Mutex : Tries(me, m) /\ holder[m] = NoTask => Tries(p, m) /\ S = {},
           InWait(cur) <=> (p.op = "events" /\ p.at \in Waits),
           InWait(cur) => p.arg = me.arg /\ S = {},
           p.at = "second" <=> me.at = "second", me.at = "second" => S = {}
    PROVE  SyncInv'
<1>1. CallsFit' /\ Placed' /\ Listed'
  BY GoesCalls
<1>2. MutexFit'
  BY GoesMutex
<1>3. FreeFit'
  BY GoesFree
<1>4. GroupFit'
  BY GoesGroup
<1>5. NotifyFit'
  BY GoesNotify
<1>6. Fit(k') /\ program' \in Programs
  BY DEF Goes, SyncInv
<1>. QED
  BY <1>1, <1>2, <1>3, <1>4, <1>5, <1>6 DEF SyncInv

-----------------------------------------------------------------------------
(* The kernel at each label *)

LEMMA AtRun ==
    ASSUME SyncInv, me.at \notin Suspending
    PROVE  /\ k.suspended = 0 /\ Sound(k) /\ k.pending = <<>> /\ ToSet(k.pending) = {}
           /\ k.pendedTicks = 0 /\ AwakeIn(k) = ReadyTasks(k) /\ Fit(k)
           /\ me.at \notin {"blocked", "yield"} => cur \in ReadyTasks(k)
<1>1. Fit(k) /\ me = pc[cur] /\ k.suspended = 0
  BY CurIs DEF SyncInv, Placed
<1>. QED
  BY <1>1, FitRuns DEF SyncInv, Placed

LEMMA AtSuspended ==
    ASSUME SyncInv, me.at \in Suspending
    PROVE  /\ k.suspended = 1 /\ Fit(k)
           /\ me.at # "blocked" => cur \in ReadyTasks(k)
<1>1. Fit(k) /\ me = pc[cur]
  BY CurIs DEF SyncInv
<1>. QED
  BY <1>1 DEF SyncInv, Placed, Suspending

LEMMA UserIs ==
    /\ CallOK(User) /\ User.at = "user" /\ User.op = "none" /\ User.arg = "none"
    /\ User \in Calls
<1>1. 0 \in Ticks /\ 0 \in Nat /\ -1 \in Int
  BY TaskListsAssumption DEF Ticks
<1>2. NoTimeOut \in [overflows : Nat, entering : Int]
  BY <1>1 DEF NoTimeOut
<1>3. User \in Calls /\ User.at = "user" /\ User.op = "none" /\ User.arg = "none"
  BY <1>1, <1>2 DEF User, Calls, Labels, Waits
<1>. QED
  BY <1>3 DEF CallOK, Waits

\* The idle task makes no calls.
LEMMA NotIdle ==
    ASSUME SyncInv
    PROVE  /\ me.at # "user" => cur # Idle
           /\ program.delays[cur] # {} \/ program.mutexes[cur] # {} \/ program.conditions[cur] # {}
              \/ program.syncs[cur] # {} \/ program.sets[cur] # {}
              \/ cur \in program.notifiable \cup program.deleters \cup program.notifiers
                 => cur # Idle
  BY SyncAssumption, CurIs DEF SyncInv, CallsFit

-----------------------------------------------------------------------------
(* The tick, and vTaskDelay *)

LEMMA TickKeeps ==
    ASSUME SyncInv, TickISR,
           UNCHANGED <<program, holder, held, bits, alive, value, nstate>>
    PROVE  SyncInv'
<1>1. /\ k.pendedTicks < MaxPended /\ k' = SwitchContext(IncrementTick(k)) /\ pc' = pc
      /\ item' = item
  BY DEF TickISR
<1>2. Fit(k) /\ me = pc[cur] /\ CallOK(me) /\ cur \in Tasks /\ DOMAIN pc = Tasks
  BY CurIs DEF SyncInv
<1>3. /\ Steps(k, {}, {}, k') /\ k'.suspended = k.suspended
      /\ IF k.suspended = 1 THEN k'.cur = k.cur /\ ReadyTasks(k') = ReadyTasks(k)
                            ELSE k'.cur \in ReadyTasks(k')
  BY <1>1, <1>2, TickSteps
<1>4. pc' = [pc EXCEPT ![cur] = me]
  BY <1>1, <1>2 DEF SyncInv, CallsFit
<1>5. cur = Idle => me.at = "user"
  BY NotIdle
<1>6. cur \in ReadyTasks(k) \/ me.at \in Waits
  BY <1>2 DEF SyncInv, Placed, Waits
<1>7. \/ k'.suspended = 0 /\ me.at \notin Suspending /\ cur' \in ReadyTasks(k')
      \/ /\ cur' = cur /\ k'.suspended = (IF me.at \in Suspending THEN 1 ELSE 0)
         /\ me.at \notin {"blocked", "yield"} => cur \in ReadyTasks(k')
  <2>1. CASE me.at \in Suspending
    BY <1>2, <1>3, <2>1 DEF SyncInv, Placed, cur
  <2>2. CASE me.at \notin Suspending
    BY <1>3, <2>2, AtRun DEF cur
  <2>. QED
    BY <2>1, <2>2
<1>8. Goes({}, {}, me)
  BY <1>2, <1>3, <1>4, <1>5, <1>6, <1>7 DEF Goes, Steps, Moves
<1>9. InWait(cur) <=> (me.op = "events" /\ me.at \in Waits)
  BY <1>2 DEF InWait, Waits
<1>. QED
  BY <1>1, <1>3, <1>8, <1>9, QuietKeeps DEF Steps, Moves

LEMMA DelayKeeps ==
    ASSUME SyncInv, NEW n \in Ticks, Delay(n),
           UNCHANGED <<program, holder, held, bits, alive, value, nstate>>
    PROVE  SyncInv'
<1>. DEFINE a == SuspendAll(k)  b == AddCurrentToDelayed(a, n)  c == ResumeAll(b)
<1>1. /\ me.at = "user" /\ n \in program.delays[cur] /\ k' = SwitchContext(c) /\ pc' = pc
      /\ item' = item
  BY DEF Delay, Is
<1>2. Fit(k) /\ me = pc[cur] /\ CallOK(me) /\ cur \in Tasks /\ DOMAIN pc = Tasks
  BY CurIs DEF SyncInv
<1>3. k.suspended = 0 /\ cur \in ReadyTasks(k)
  BY <1>1, AtRun DEF Suspending
<1>4. n \in Ticks \ {0} /\ cur # Idle
  BY <1>1, <1>2, NotIdle, SyncAssumption DEF SyncInv
<1>5. /\ Steps(k, {}, {}, a) /\ Sound(a) /\ a.suspended = 1 /\ a.cur = cur
      /\ ReadyTasks(a) = ReadyTasks(k) /\ a.pending = <<>> /\ Fit(a)
  BY <1>2, <1>3, SuspendSteps DEF cur, Steps, Moves
<1>. HIDE DEF a
<1>6. Sleeps(a, n, b) /\ b.events = a.events
  BY <1>3, <1>4, <1>5, BlockedSound DEF Sound, SameRest
<1>. HIDE DEF b
<1>7. Steps(a, {cur}, {}, b) /\ b.suspended = 1 /\ Fit(b)
  <2>1. Joins(a, {a.cur}, {}, b)
    BY <1>6 DEF Joins
  <2>2. Steps(a, {a.cur}, {}, b) /\ b.suspended = 1
    <3>1. Fit(a) /\ a.suspended = 1 /\ a.pending = <<>> /\ a.cur # Idle /\ Sleeps(a, n, b)
      BY <1>4, <1>5, <1>6
    <3>. QED
      BY <2>1, <3>1, SleepSteps
  <2>. QED
    BY <1>5, <2>2 DEF Steps, Moves
<1>8. Steps(b, {}, {}, c) /\ c.suspended = 0 /\ Fit(c)
  BY <1>7, ResumeSteps DEF Steps, Moves
<1>. HIDE DEF c
<1>9. Steps(c, {}, {}, k') /\ k'.suspended = 0 /\ k'.cur \in ReadyTasks(k')
  BY <1>1, <1>8, SwitchSteps
<1>10. Steps(k, {cur}, {}, k')
  BY <1>5, <1>7, <1>8, <1>9, StepsBoth, StepsThen
<1>11. pc' = [pc EXCEPT ![cur] = me]
  BY <1>1, <1>2 DEF SyncInv, CallsFit
<1>12. Goes({cur}, {}, me)
  BY <1>1, <1>2, <1>3, <1>4, <1>9, <1>10, <1>11 DEF Goes, Steps, Moves, Suspending, cur
<1>13. me.op = "none" /\ me.at \notin Waits
  BY <1>1, <1>2 DEF CallOK, Waits
<1>. QED
  BY <1>1, <1>2, <1>10, <1>12, <1>13, QuietKeeps DEF Steps, Moves, InWait, Tries

-----------------------------------------------------------------------------
(* The ways a step goes on *)

LEMMA StayGoes ==
    ASSUME SyncInv, k' = k, program' = program, NEW p, CallOK(p), pc' = [pc EXCEPT ![cur] = p],
           me.at \notin Suspending \cup {"blocked", "yield"}, p.at \notin Suspending,
           cur = Idle => p.at = "user"
    PROVE  Goes({}, {}, p)
<1>1. k.suspended = 0 /\ cur \in ReadyTasks(k) /\ Fit(k)
  BY AtRun
<1>2. Kept(k, {}, {}, k')
  BY KeptSame
<1>. QED
  BY <1>1, <1>2 DEF Goes, cur

LEMMA SuspendGoes ==
    ASSUME SyncInv, k' = SuspendAll(k), program' = program, NEW p, CallOK(p),
           pc' = [pc EXCEPT ![cur] = p], me.at \notin Suspending \cup {"blocked", "yield"},
           p.at \in Suspending \ {"blocked"}, cur # Idle
    PROVE  /\ Goes({}, {}, p) /\ k'.prio = k.prio /\ k'.base = k.base
           /\ ToSet(k'.pending) \subseteq ToSet(k.pending)
<1>1. k.suspended = 0 /\ cur \in ReadyTasks(k) /\ Fit(k)
  BY AtRun
<1>2. /\ Steps(k, {}, {}, k') /\ k'.suspended = 1 /\ k'.cur = k.cur
      /\ ReadyTasks(k') = ReadyTasks(k)
  BY <1>1, SuspendSteps
<1>. QED
  BY <1>1, <1>2 DEF Goes, Steps, Moves, cur

LEMMA ResumeGoes ==
    ASSUME SyncInv, k' = ResumeAll(k), program' = program, NEW p, CallOK(p),
           pc' = [pc EXCEPT ![cur] = p], me.at \in Suspending, p.at \notin Suspending,
           me.at = "blocked" => /\ p.at = IF AlreadyYielded(k) THEN "awake" ELSE "yield"
                                /\ p.op = me.op /\ p.arg = me.arg
    PROVE  /\ Goes({}, {}, p) /\ k'.prio = k.prio /\ k'.base = k.base
           /\ ToSet(k'.pending) \subseteq ToSet(k.pending)
<1>1. k.suspended = 1 /\ Fit(k) /\ (me.at # "blocked" => cur \in ReadyTasks(k))
  BY AtSuspended
<1>2. /\ Steps(k, {}, {}, k') /\ k'.suspended = 0
      /\ AlreadyYielded(k) \/ cur \in ReadyTasks(k) => cur' \in ReadyTasks(k')
      /\ ~AlreadyYielded(k) => cur' = cur
  BY <1>1, ResumeSteps DEF cur
<1>3. cur # Idle
  BY NotIdle DEF Suspending
<1>4. me.at = "blocked" => p.at \in Waits /\ (~AlreadyYielded(k) => p.at = "yield")
  BY DEF Waits
<1>. QED
  BY <1>1, <1>2, <1>3, <1>4 DEF Goes, Steps, Moves

LEMMA RelabelIs ==
    ASSUME NEW c \in Calls, NEW x \in Labels, NEW d, d = [c EXCEPT !.at = x]
    PROVE  /\ d \in Calls /\ d.at = x /\ d.op = c.op /\ d.arg = c.arg /\ d.wait = c.wait
           /\ d.timeOut = c.timeOut
  BY DEF Calls

LEMMA TimeOutStateIs ==
    ASSUME NEW a, WellFormed(a)
    PROVE  TimeOutState(a) \in [overflows : Nat, entering : Int]
<1>1. a \in KState
  BY DEF WellFormed
<1>2. a.overflows \in Nat
  BY <1>1 DEF KState
<1>3. a.tick \in Int
  BY <1>1, KernelFields
<1>. QED
  BY <1>2, <1>3 DEF TimeOutState

\* A call whose time is not over has ticks left to wait.
LEMMA TicksLeft ==
    ASSUME NEW a, WellFormed(a), NEW to \in [overflows : Nat, entering : Int], NEW w \in Ticks,
           ~TimedOut(a, to, w)
    PROVE  w - Elapsed(a, to) \in Ticks \ {0}
<1>1. a.tick \in Int /\ TickMod \in Nat \ {0} /\ to.entering \in Int
  BY KernelFields, TaskListsAssumption DEF WellFormed
<1>2. Elapsed(a, to) < w
  <2>1. Elapsed(a, to) \in Int
    BY <1>1 DEF Elapsed
  <2>. QED
    BY <1>1, <2>1 DEF TimedOut, Ticks
<1>3. Elapsed(a, to) \in 0..(TickMod - 1)
  <2>. DEFINE d == a.tick - to.entering
  <2>1. d \in Int
    BY <1>1
  <2>. HIDE DEF d
  <2>2. d % TickMod \in 0..(TickMod - 1)
    BY <1>1, <2>1
  <2>. QED
    BY <2>2 DEF Elapsed, d
<1>. QED
  BY <1>1, <1>2, <1>3 DEF Ticks

-----------------------------------------------------------------------------
(* Mutexes: the steps that leave them alone *)

LEMMA CallTakeKeeps ==
    ASSUME SyncInv, NEW m \in Mutex, NEW n \in program.waits, CallTake(m, n),
           UNCHANGED <<program, bits, alive, value, nstate>>
    PROVE  SyncInv'
<1>. DEFINE p == [User EXCEPT !.at = "awake", !.op = "mutex", !.arg = m, !.wait = n]
<1>1. /\ me.at = "user" /\ m \in program.mutexes[cur] /\ pc' = [pc EXCEPT ![cur] = p]
      /\ UNCHANGED <<k, item, holder, held>>
  BY DEF CallTake, Is, Goto
<1>2. n \in Ticks /\ cur # Idle /\ CallOK(me)
  BY <1>1, NotIdle, CurIs, SyncAssumption DEF SyncInv
<1>3. p \in Calls /\ p.at = "awake" /\ p.op = "mutex" /\ p.arg = m
  BY <1>2, UserIs DEF Calls, Labels, Waits
<1>. HIDE DEF p
<1>4. CallOK(p)
  BY <1>3 DEF CallOK, Waits
<1>5. Goes({}, {}, p)
  BY <1>1, <1>2, <1>3, <1>4, StayGoes DEF Suspending
<1>6. me.op = "none" /\ me.at \notin Waits
  BY <1>1, <1>2 DEF CallOK, Waits
<1>. QED
  BY <1>1, <1>3, <1>5, <1>6, CurIs, QuietKeeps DEF InWait, Tries

LEMMA NotTakenKeeps ==
    ASSUME SyncInv, NotTaken, UNCHANGED <<program, bits, alive, value, nstate>>
    PROVE  SyncInv'
<1>. DEFINE p == IF me.wait = 0 THEN User
                 ELSE IF me.timeOut = NoTimeOut
                      THEN [me EXCEPT !.at = "wait", !.timeOut = TimeOutState(k)]
                      ELSE [me EXCEPT !.at = "wait"]
<1>1. /\ me.op = "mutex" /\ me.at = "awake" /\ holder[me.arg] # NoTask
      /\ pc' = [pc EXCEPT ![cur] = p] /\ UNCHANGED <<k, item, holder, held>>
  BY DEF NotTaken, IsIn, Goto
<1>2. CallOK(me) /\ me \in Calls /\ me.arg \in Mutex /\ cur # Idle
  BY <1>1, NotIdle, CurIs DEF CallOK
<1>3. p = User \/ /\ p \in Calls /\ p.at = "wait" /\ p.op = "mutex" /\ p.arg = me.arg
  <2>1. TimeOutState(k) \in [overflows : Nat, entering : Int]
    BY TimeOutStateIs, CurIs
  <2>. QED
    BY <1>1, <1>2, <2>1 DEF Calls, Labels
<1>. HIDE DEF p
<1>4. CallOK(p) /\ p.at \in {"user", "wait"} /\ p.op # "events"
  BY <1>2, <1>3, UserIs DEF CallOK, Waits
<1>5. Goes({}, {}, p)
  BY <1>1, <1>2, <1>4, StayGoes DEF Suspending
<1>. QED
  BY <1>1, <1>4, <1>5, CurIs, QuietKeeps DEF InWait, Tries, Waits

LEMMA ExpireKeeps ==
    ASSUME SyncInv, Expire, UNCHANGED <<program, bits, alive, value, nstate>>
    PROVE  SyncInv'
<1>. DEFINE p == [me EXCEPT !.at = "expired"]
<1>1. /\ me.op = "mutex" /\ me.at = "wait" /\ k' = SuspendAll(k)
      /\ pc' = [pc EXCEPT ![cur] = p] /\ UNCHANGED <<item, holder, held>>
  BY DEF Expire, IsIn, Goto, GotoLabel
<1>2. CallOK(me) /\ me \in Calls /\ me.arg \in Mutex /\ cur # Idle
  BY <1>1, NotIdle, CurIs DEF CallOK
<1>3. p \in Calls /\ p.at = "expired" /\ p.op = me.op /\ p.arg = me.arg
  BY <1>2, RelabelIs DEF Labels, Suspending
<1>. HIDE DEF p
<1>4. CallOK(p)
  BY <1>1, <1>2, <1>3 DEF CallOK, Waits
<1>5. /\ Goes({}, {}, p) /\ k'.prio = k.prio /\ k'.base = k.base
      /\ ToSet(k'.pending) \subseteq ToSet(k.pending)
  BY <1>1, <1>2, <1>3, <1>4, SuspendGoes DEF Suspending
<1>. QED
  BY <1>1, <1>3, <1>5, CurIs, QuietKeeps DEF InWait, Tries, Waits

LEMMA TryAgainKeeps ==
    ASSUME SyncInv, TryAgain, UNCHANGED <<program, bits, alive, value, nstate>>
    PROVE  SyncInv'
<1>. DEFINE p == [me EXCEPT !.at = "retry", !.timeOut = TimeOutState(k),
                            !.wait = @ - Elapsed(k, me.timeOut)]
<1>1. /\ me.op = "mutex" /\ me.at = "wait" /\ k' = SuspendAll(k)
      /\ ~TimedOut(k, me.timeOut, me.wait)
      /\ pc' = [pc EXCEPT ![cur] = p] /\ UNCHANGED <<item, holder, held>>
  BY DEF TryAgain, IsIn, Goto
<1>2. CallOK(me) /\ me \in Calls /\ me.arg \in Mutex /\ cur # Idle /\ WellFormed(k)
  BY <1>1, NotIdle, CurIs DEF CallOK
<1>3. p \in Calls /\ p.at = "retry" /\ p.op = me.op /\ p.arg = me.arg
  <2>1. TimeOutState(k) \in [overflows : Nat, entering : Int]
    BY <1>2, TimeOutStateIs
  <2>2. me.wait \in Ticks /\ me.timeOut \in [overflows : Nat, entering : Int]
    BY <1>2 DEF Calls
  <2>3. me.wait - Elapsed(k, me.timeOut) \in Ticks
    BY <1>1, <1>2, <2>2, TicksLeft
  <2>. QED
    BY <1>2, <2>1, <2>3 DEF Calls, Labels, Suspending
<1>. HIDE DEF p
<1>4. CallOK(p)
  BY <1>1, <1>2, <1>3 DEF CallOK, Waits
<1>5. /\ Goes({}, {}, p) /\ k'.prio = k.prio /\ k'.base = k.base
      /\ ToSet(k'.pending) \subseteq ToSet(k.pending)
  BY <1>1, <1>2, <1>3, <1>4, SuspendGoes DEF Suspending
<1>. QED
  BY <1>1, <1>3, <1>5, CurIs, QuietKeeps DEF InWait, Tries, Waits

LEMMA ResumeUnblockedKeeps ==
    ASSUME SyncInv, ResumeUnblocked, UNCHANGED <<program, bits, alive, value, nstate>>
    PROVE  SyncInv'
<1>. DEFINE x == IF Is("expired") THEN "recheck" ELSE "awake"
            p == [me EXCEPT !.at = x]
<1>1. /\ me.op = "mutex" /\ me.at \in {"expired", "retry"} /\ k' = ResumeAll(k)
      /\ pc' = [pc EXCEPT ![cur] = p] /\ UNCHANGED <<item, holder, held>>
  BY DEF ResumeUnblocked, IsIn, Goto, GotoLabel
<1>2. CallOK(me) /\ me \in Calls /\ me.arg \in Mutex
  BY <1>1, CurIs DEF CallOK
<1>3. p \in Calls /\ p.at \in {"recheck", "awake"} /\ p.op = me.op /\ p.arg = me.arg
  <2>1. x \in {"recheck", "awake"}
    OBVIOUS
  <2>. HIDE DEF x
  <2>. QED
    BY <1>2, <2>1, RelabelIs DEF Labels, Waits
<1>. HIDE DEF p
<1>4. CallOK(p)
  BY <1>1, <1>2, <1>3 DEF CallOK, Waits
<1>5. /\ Goes({}, {}, p) /\ k'.prio = k.prio /\ k'.base = k.base
      /\ ToSet(k'.pending) \subseteq ToSet(k.pending)
  BY <1>1, <1>2, <1>3, <1>4, ResumeGoes DEF Suspending
<1>. QED
  BY <1>1, <1>3, <1>5, CurIs, QuietKeeps DEF InWait, Tries, Waits

LEMMA RecheckKeeps ==
    ASSUME SyncInv, Recheck, UNCHANGED <<program, bits, alive, value, nstate>>
    PROVE  SyncInv'
<1>. DEFINE p == IF holder[me.arg] # NoTask THEN User ELSE [me EXCEPT !.at = "awake"]
<1>1. /\ me.op = "mutex" /\ me.at = "recheck"
      /\ pc' = [pc EXCEPT ![cur] = p] /\ UNCHANGED <<k, item, holder, held>>
  BY DEF Recheck, IsIn, Goto
<1>2. CallOK(me) /\ me \in Calls /\ me.arg \in Mutex /\ cur # Idle
  BY <1>1, NotIdle, CurIs DEF CallOK
<1>3. p = User \/ /\ p \in Calls /\ p.at = "awake" /\ p.op = "mutex" /\ p.arg = me.arg
  BY <1>1, <1>2, RelabelIs DEF Labels, Waits
<1>. HIDE DEF p
<1>4. CallOK(p) /\ p.at \in {"user", "awake"} /\ p.op # "events"
  BY <1>2, <1>3, UserIs DEF CallOK, Waits
<1>5. Goes({}, {}, p)
  BY <1>1, <1>2, <1>4, StayGoes DEF Suspending
<1>. QED
  BY <1>1, <1>4, <1>5, CurIs, QuietKeeps DEF InWait, Tries, Waits

\* xTaskResumeAll and the yield of a task that was put to sleep
LEMMA ResumeBlockedKeeps ==
    ASSUME SyncInv, NEW op \in {"mutex", "events"}, ResumeBlocked(op),
           UNCHANGED <<program, holder, held, bits, alive, value, nstate>>
    PROVE  SyncInv'
<1>. DEFINE x == IF AlreadyYielded(k) THEN "awake" ELSE "yield"
            p == [me EXCEPT !.at = x]
<1>1. /\ me.at = "blocked" /\ k' = ResumeAll(k)
      /\ pc' = [pc EXCEPT ![cur] = p] /\ UNCHANGED item
  BY DEF ResumeBlocked, IsIn, Goto, GotoLabel
<1>2. CallOK(me) /\ me \in Calls
  BY CurIs DEF CallOK
<1>3. p \in Calls /\ p.at = x /\ p.op = me.op /\ p.arg = me.arg /\ x \in {"yield", "awake"}
  BY <1>2, RelabelIs DEF Labels, Waits
<1>. HIDE DEF p
<1>4. CallOK(p)
  BY <1>1, <1>2, <1>3 DEF CallOK, Waits
<1>5. /\ Goes({}, {}, p) /\ k'.prio = k.prio /\ k'.base = k.base
      /\ ToSet(k'.pending) \subseteq ToSet(k.pending)
  BY <1>1, <1>2, <1>3, <1>4, ResumeGoes DEF Suspending
<1>. QED
  BY <1>1, <1>3, <1>5, CurIs, QuietKeeps DEF InWait, Tries, Waits

LEMMA YieldWithinApiKeeps ==
    ASSUME SyncInv, NEW op \in {"mutex", "events"}, YieldWithinApi(op),
           UNCHANGED <<program, holder, held, bits, alive, value, nstate>>
    PROVE  SyncInv'
<1>. DEFINE p == [me EXCEPT !.at = "awake"]
<1>1. /\ me.at = "yield" /\ k' = SwitchContext(k)
      /\ pc' = [pc EXCEPT ![cur] = p] /\ UNCHANGED item
  BY DEF YieldWithinApi, IsIn, Goto, GotoLabel
<1>2. CallOK(me) /\ me \in Calls /\ cur # Idle
  BY <1>1, CurIs, NotIdle DEF CallOK
<1>3. p \in Calls /\ p.at = "awake" /\ p.op = me.op /\ p.arg = me.arg
  BY <1>2, RelabelIs DEF Labels, Waits
<1>. HIDE DEF p
<1>4. CallOK(p)
  BY <1>1, <1>2, <1>3 DEF CallOK, Waits
<1>5. k.suspended = 0 /\ Fit(k)
  BY <1>1, AtRun DEF Suspending
<1>6. Steps(k, {}, {}, k') /\ k'.suspended = 0 /\ cur' \in ReadyTasks(k')
  BY <1>1, <1>5, SwitchSteps DEF cur
<1>7. Goes({}, {}, p)
  BY <1>1, <1>2, <1>3, <1>4, <1>6 DEF Goes, Steps, Moves, Waits, Suspending
<1>. QED
  BY <1>1, <1>3, <1>6, <1>7, CurIs, QuietKeeps DEF InWait, Tries, Waits, Steps, Moves

-----------------------------------------------------------------------------
(* Mutexes: taking, waiting and giving *)

\* uxMutexesHeld counts the mutexes a task holds.
Owned(h, t) == {m \in Mutex : h[m] = t}

LEMMA OwnedFinite ==
    ASSUME NEW h, NEW t
    PROVE  IsFiniteSet(Owned(h, t)) /\ Cardinality(Owned(h, t)) \in Nat
<1>1. Owned(h, t) \subseteq Mutex
  BY DEF Owned
<1>2. IsFiniteSet(Owned(h, t))
  BY <1>1, MutexAssumption, FS_Subset
<1>. QED
  BY <1>2, FS_CardinalityType

\* The mutex m goes from the holder x to the holder y.
Passes(h, m, x, y, g) ==
    /\ h \in [Mutex -> Tasks \cup {NoTask}] /\ m \in Mutex /\ h[m] = x /\ x # y
    /\ g = [h EXCEPT ![m] = y]

LEMMA OwnedTaken ==
    ASSUME NEW h, NEW m, NEW c, NEW g, Passes(h, m, NoTask, c, g), NEW t \in Tasks
    PROVE  Cardinality(Owned(g, t)) =
              IF t = c THEN Cardinality(Owned(h, t)) + 1 ELSE Cardinality(Owned(h, t))
<1>1. CASE t = c
  <2>1. Owned(g, t) = Owned(h, t) \cup {m} /\ m \notin Owned(h, t)
    BY <1>1, MutexAssumption DEF Owned, Passes
  <2>. QED
    BY <1>1, <2>1, OwnedFinite, FS_AddElement
<1>2. CASE t # c
  <2>1. Owned(g, t) = Owned(h, t)
    BY <1>2, MutexAssumption DEF Owned, Passes
  <2>. QED
    BY <1>2, <2>1
<1>. QED
  BY <1>1, <1>2

LEMMA OwnedGiven ==
    ASSUME NEW h, NEW m, NEW c, NEW g, Passes(h, m, c, NoTask, g), NEW t \in Tasks
    PROVE  Cardinality(Owned(g, t)) =
              IF t = c THEN Cardinality(Owned(h, t)) - 1 ELSE Cardinality(Owned(h, t))
<1>1. CASE t = c
  <2>1. Owned(g, t) = Owned(h, t) \ {m} /\ m \in Owned(h, t)
    BY <1>1, MutexAssumption DEF Owned, Passes
  <2>2. IsFiniteSet(Owned(h, t))
    BY OwnedFinite
  <2>3. Cardinality(Owned(h, t) \ {m}) = Cardinality(Owned(h, t)) - 1
    BY <2>1, <2>2, FS_RemoveElement
  <2>. QED
    BY <1>1, <2>1, <2>3
<1>2. CASE t # c
  <2>1. Owned(g, t) = Owned(h, t)
    BY <1>2, MutexAssumption DEF Owned, Passes
  <2>. QED
    BY <1>2, <2>1
<1>. QED
  BY <1>1, <1>2

LEMMA OwnedSome ==
    ASSUME NEW h, NEW m \in Mutex
    PROVE  Cardinality(Owned(h, h[m])) \in Nat \ {0}
<1>1. Owned(h, h[m]) # {}
  BY DEF Owned
<1>. QED
  BY <1>1, OwnedFinite, FS_EmptySet

LEMMA HeldIs ==
    ASSUME SyncInv
    PROVE  /\ holder \in [Mutex -> Tasks \cup {NoTask}] /\ held \in [Tasks -> Nat]
           /\ \A t \in Tasks : held[t] = Cardinality(Owned(holder, t))
           /\ \A m \in Mutex : holder[m] # NoTask => holder[m] \in Tasks /\ held[holder[m]] # 0
<1>1. /\ holder \in [Mutex -> Tasks \cup {NoTask}] /\ held \in [Tasks -> Nat]
      /\ \A t \in Tasks : held[t] = Cardinality(Owned(holder, t))
  BY DEF SyncInv, MutexFit, MutexTypeOK, Owned
<1>2. \A m \in Mutex : holder[m] # NoTask => holder[m] \in Tasks /\ held[holder[m]] # 0
  BY <1>1, OwnedSome
<1>. QED
  BY <1>1, <1>2

LEMMA TakeKeeps ==
    ASSUME SyncInv, Take, UNCHANGED <<program, bits, alive, value, nstate>>
    PROVE  SyncInv'
<1>1. /\ me.op = "mutex" /\ me.at = "awake" /\ holder[me.arg] = NoTask
      /\ holder' = [holder EXCEPT ![me.arg] = cur] /\ held' = [held EXCEPT ![cur] = @ + 1]
      /\ pc' = [pc EXCEPT ![cur] = User] /\ UNCHANGED <<k, item>>
  BY DEF Take, IsIn, Goto
<1>2. CallOK(me) /\ me.arg \in Mutex /\ cur # Idle /\ cur \in Tasks
  BY <1>1, NotIdle, CurIs DEF CallOK
<1>3. Goes({}, {}, User)
  BY <1>1, <1>2, UserIs, StayGoes DEF Suspending
<1>4. CallsFit' /\ Placed' /\ Listed'
  BY <1>3, GoesCalls
<1>5. ~InWait(cur) /\ ~(User.op = "events" /\ User.at \in Waits) /\ User.at # "second"
      /\ me.at # "second" /\ me = pc[cur]
  BY <1>1, UserIs, CurIs DEF InWait
<1>6. GroupFit'
  BY <1>1, <1>3, <1>5, GoesGroup
<1>7. NotifyFit'
  BY <1>1, <1>3, <1>5, GoesNotify
<1>8. FreeFit'
  <2>1. \A m \in Mutex : FreeAt(m)'
    <3>. TAKE m \in Mutex
    <3>1. CASE m = me.arg
      <4>1. holder'[m] = cur
        BY <1>1, <1>2, <3>1, HeldIs
      <4>. QED
        BY <1>2, <4>1, MutexAssumption DEF FreeAt
    <3>2. CASE m # me.arg
      <4>1. holder'[m] = holder[m]
        BY <1>1, <3>2, HeldIs
      <4>2. ~Tries(me, m)
        BY <3>2 DEF Tries
      <4>3. m \notin {}
        OBVIOUS
      <4>. QED
        BY <1>3, <4>1, <4>2, <4>3, GoesFreeAt
    <3>. QED
      BY <3>1, <3>2
  <2>. QED
    BY <2>1 DEF FreeFit
<1>9. MutexFit'
  <2>1. \A t \in Tasks : Cardinality(Owned(holder', t)) =
           IF t = cur THEN Cardinality(Owned(holder, t)) + 1 ELSE Cardinality(Owned(holder, t))
    <3>. TAKE t \in Tasks
    <3>1. Passes(holder, me.arg, NoTask, cur, holder')
      BY <1>1, <1>2, HeldIs, MutexAssumption DEF Passes
    <3>. QED
      BY <3>1, OwnedTaken
  <2>2. \A t \in Tasks : held'[t] = IF t = cur THEN held[t] + 1 ELSE held[t]
    BY <1>1, HeldIs
  <2>3. \A t \in Tasks : held'[t] = Cardinality(Owned(holder', t))
    BY <2>1, <2>2, HeldIs
  <2>4. holder' \in [Mutex -> Tasks \cup {NoTask}] /\ held' \in [Tasks -> Nat]
    BY <1>1, <1>2, HeldIs
  <2>5. \A t \in Tasks : held'[t] = 0 => held[t] = 0
    BY <2>2, HeldIs
  <2>6. \A t \in Tasks : (held'[t] = 0 => k'.prio[t] = k'.base[t]) /\ k'.prio[t] >= k'.base[t]
    BY <1>1, <2>5 DEF SyncInv, MutexFit
  <2>. QED
    BY <2>3, <2>4, <2>6 DEF MutexFit, MutexTypeOK, Owned
<1>10. Fit(k') /\ program' \in Programs
  BY <1>3 DEF Goes, SyncInv
<1>. QED
  BY <1>4, <1>6, <1>7, <1>8, <1>9, <1>10 DEF SyncInv

\* vTaskPriorityInherit with the scheduler suspended
LEMMA InheritIs ==
    ASSUME NEW a, Fit(a), Sound(a), a.pending = <<>>, NEW h \in Tasks,
           NEW b, b = PriorityInherit(a, h)
    PROVE  /\ Moves(a, {}, {}, b) /\ Sound(b) /\ ReadyTasks(b) = ReadyTasks(a)
           /\ b.cur = a.cur /\ b.suspended = a.suspended /\ b.pending = <<>> /\ b.base = a.base
           /\ b.events = a.events
           /\ \A t \in Tasks : b.prio[t] >= a.prio[t] /\ (t # h => b.prio[t] = a.prio[t])
<1>1. /\ a.prio \in [Tasks -> Priorities] /\ Priorities \subseteq Int /\ a.cur \in Tasks
      /\ \A t \in Tasks : a.prio[t] \in Int
  <2>1. a.prio \in [Tasks -> Priorities] /\ Priorities \subseteq Int /\ a.cur \in Tasks
    BY TasksOf DEF Sound
  <2>2. \A t \in Tasks : a.prio[t] \in Priorities
    BY <2>1
  <2>. QED
    BY <2>1, <2>2
<1>2. CASE a.prio[h] >= a.prio[a.cur]
  <2>1. b = a
    BY <1>2, MutexAssumption DEF PriorityInherit
  <2>2. Moves(a, {}, {}, a)
    BY KeptSame DEF Moves
  <2>3. \A t \in Tasks : a.prio[t] >= a.prio[t]
    BY <1>1
  <2>. QED
    BY <2>1, <2>2, <2>3
<1>3. CASE ~(a.prio[h] >= a.prio[a.cur])
  <2>. DEFINE new == a.prio[a.cur]
  <2>1. b = WithPriority(WithEventPriority(h, new, a), h, new)
    BY <1>3, MutexAssumption DEF PriorityInherit
  <2>2. new \in Priorities /\ new > a.prio[h]
    BY <1>1, <1>3
  <2>. HIDE DEF new
  <2>3. Repriced(a, h, new, b)
    BY <2>1, <2>2, RepricedIs
  <2>4. Moves(a, {}, {}, b)
    BY <2>3, RepricedMoves
  <2>5. b.prio = [a.prio EXCEPT ![h] = new]
    BY <2>3 DEF Repriced
  <2>6. \A t \in Tasks : b.prio[t] = IF t = h THEN new ELSE a.prio[t]
    BY <1>1, <2>5
  <2>7. new >= a.prio[h]
    <3>1. new \in Int /\ a.prio[h] \in Int
      BY <1>1, <2>2
    <3>. QED
      BY <2>2, <3>1
  <2>8. \A t \in Tasks : b.prio[t] >= a.prio[t] /\ (t # h => b.prio[t] = a.prio[t])
    BY <1>1, <2>6, <2>7
  <2>. QED
    BY <2>3, <2>4, <2>8 DEF Repriced
<1>. QED
  BY <1>2, <1>3

LEMMA BlockKeeps ==
    ASSUME SyncInv, Block, UNCHANGED <<program, bits, alive, value, nstate>>
    PROVE  SyncInv'
<1>. DEFINE left == me.wait - Elapsed(k, me.timeOut)
            p == [me EXCEPT !.at = "blocked", !.timeOut = TimeOutState(k), !.wait = left]
            m == me.arg
            h == holder[m]
            a == SuspendAll(k)
            b == PriorityInherit(a, h)
<1>1. /\ me.op = "mutex" /\ me.at = "wait" /\ ~TimedOut(k, me.timeOut, me.wait) /\ h # NoTask
      /\ k' = PlaceOnEventList(b, m, left)
      /\ pc' = [pc EXCEPT ![cur] = p] /\ UNCHANGED <<item, holder, held>>
  BY DEF Block, IsIn, Goto
<1>2. CallOK(me) /\ me \in Calls /\ m \in Mutex /\ cur # Idle /\ WellFormed(k) /\ cur \in Tasks
  BY <1>1, NotIdle, CurIs DEF CallOK
<1>3. left \in Ticks \ {0}
  <2>1. me.wait \in Ticks /\ me.timeOut \in [overflows : Nat, entering : Int]
    BY <1>2 DEF Calls
  <2>. QED
    BY <1>1, <1>2, <2>1, TicksLeft
<1>4. k.suspended = 0 /\ cur \in ReadyTasks(k) /\ Fit(k)
  BY <1>1, AtRun DEF Suspending
<1>5. /\ Steps(k, {}, {}, a) /\ Fit(a) /\ Sound(a) /\ a.suspended = 1 /\ a.cur = cur
      /\ ReadyTasks(a) = ReadyTasks(k) /\ a.pending = <<>> /\ a.prio = k.prio /\ a.base = k.base
  BY <1>4, SuspendSteps DEF cur, Steps, Moves
<1>6. h \in Tasks /\ held[h] # 0
  BY <1>1, <1>2, HeldIs
<1>7. p \in Calls /\ p.at = "blocked" /\ p.op = "mutex" /\ p.arg = m
  <2>1. TimeOutState(k) \in [overflows : Nat, entering : Int]
    BY <1>2, TimeOutStateIs
  <2>. HIDE DEF left
  <2>. QED
    BY <1>1, <1>2, <1>3, <2>1 DEF Calls, Labels, Waits
<1>. HIDE DEF a, p, left
<1>8. /\ Moves(a, {}, {}, b) /\ Fit(b) /\ Sound(b) /\ ReadyTasks(b) = ReadyTasks(a)
      /\ b.cur = cur /\ b.suspended = 1 /\ b.pending = <<>> /\ b.base = k.base
      /\ \A t \in Tasks : b.prio[t] >= k.prio[t] /\ (t # h => b.prio[t] = k.prio[t])
  <2>. HIDE DEF h
  <2>. QED
    BY <1>5, <1>6, InheritIs DEF Moves
<1>. HIDE DEF b
<1>9. m \in EventLists
  BY <1>2, MutexAssumption
<1>. HIDE DEF m, h
<1>10. /\ Sleeps(b, left, k')
       /\ \A d \in EventLists : ToSet(k'.events[d]) =
             IF d = m THEN ToSet(b.events[d]) \cup {cur} ELSE ToSet(b.events[d])
  <2>1. Sound(b) /\ b.cur \in ReadyTasks(b) /\ k' = PlaceOnEventList(b, m, left) /\ b.cur = cur
    BY <1>1, <1>4, <1>5, <1>8
  <2>. QED
    BY <1>3, <1>9, <2>1, PlaceSleeps
<1>11. Steps(b, {cur}, {m}, k') /\ k'.suspended = 1 /\ cur' = cur /\ k'.pending = <<>>
  <2>1. Joins(b, {b.cur}, {m}, k')
    BY <1>8, <1>10 DEF Joins
  <2>2. Fit(b) /\ b.pending = <<>> /\ b.cur # Idle
    BY <1>2, <1>8
  <2>3. /\ Steps(b, {b.cur}, {m}, k') /\ k'.suspended = b.suspended /\ k'.cur = b.cur
        /\ k'.pending = <<>>
    BY <1>10, <2>1, <2>2, SleepSteps
  <2>. QED
    BY <1>8, <2>3 DEF cur
<1>12. Kept(k, {cur}, {m}, k') /\ Fit(k')
  BY <1>5, <1>8, <1>11, KeptThen DEF Steps, Moves
<1>13. CallOK(p) /\ OnList(p, m)
  <2>1. CallOK(p)
    BY <1>2, <1>7 DEF CallOK, Waits, m
  <2>2. OnList(p, m)
    BY <1>2, <1>7, SyncAssumption DEF OnList, Waits, m
  <2>. QED
    BY <2>1, <2>2
<1>14. Goes({cur}, {m}, p)
  BY <1>1, <1>2, <1>4, <1>7, <1>11, <1>12, <1>13 DEF Goes, Suspending
<1>15. CallsFit' /\ Placed' /\ Listed'
  BY <1>14, GoesCalls
<1>16. FreeFit'
  <2>1. \A d \in {m} \cap Mutex : holder[d] # NoTask
    BY <1>1 DEF h
  <2>2. \A d \in Mutex : ~Tries(me, d)
    BY <1>1 DEF Tries, Waits
  <2>. QED
    BY <1>1, <1>14, <2>1, <2>2, GoesFree
<1>17. ~InWait(cur) /\ p.op # "events" /\ p.at # "second" /\ me.at # "second"
  BY <1>1, <1>7, CurIs DEF InWait
<1>18. GroupFit'
  <2>1. Group \notin {m}
    BY <1>2, SyncAssumption DEF m
  <2>. QED
    BY <1>1, <1>14, <1>17, <2>1, GoesGroup
<1>19. NotifyFit'
  <2>1. ToSet(k'.pending) = {}
    BY <1>11 DEF ToSet
  <2>. QED
    BY <1>14, <1>17, <2>1, GoesNotify
<1>20. MutexFit'
  <2>1. k'.prio = b.prio /\ k'.base = k.base
    BY <1>8, <1>11 DEF Steps
  <2>2. b.prio \in [Tasks -> Priorities] /\ k.prio \in [Tasks -> Priorities]
        /\ k.base \in [Tasks -> Priorities] /\ Priorities \subseteq Int
    BY <1>2, <1>8, TasksOf DEF Sound
  <2>3. \A t \in Tasks : (held[t] = 0 => k.prio[t] = k.base[t]) /\ k.prio[t] >= k.base[t]
    BY DEF SyncInv, MutexFit
  <2>4. \A t \in Tasks : held[t] = 0 => b.prio[t] = k.base[t]
    BY <1>6, <1>8, <2>3
  <2>5. \A t \in Tasks : b.prio[t] >= k.base[t]
    <3>. TAKE t \in Tasks
    <3>1. b.prio[t] \in Int /\ k.prio[t] \in Int /\ k.base[t] \in Int
      BY <2>2
    <3>. QED
      BY <1>8, <2>3, <3>1
  <2>6. MutexTypeOK' /\ held' \in [Tasks -> Nat]
    BY <1>1 DEF SyncInv, MutexFit, MutexTypeOK
  <2>. QED
    BY <1>1, <2>1, <2>4, <2>5, <2>6 DEF MutexFit
<1>21. Fit(k') /\ program' \in Programs
  BY <1>12 DEF SyncInv
<1>. QED
  BY <1>15, <1>16, <1>18, <1>19, <1>20, <1>21 DEF SyncInv

\* xTaskPriorityDisinherit; the mutex is the last one when the priority changes.
LEMMA DisinheritIs ==
    ASSUME SyncInv, Fit(k), Sound(k), NEW c \in Tasks, NEW b, b = PriorityDisinherit(c)
    PROVE  /\ Moves(k, {}, {}, b) /\ Sound(b) /\ ReadyTasks(b) = ReadyTasks(k)
           /\ b.cur = k.cur /\ b.suspended = k.suspended /\ b.pending = k.pending
           /\ b.base = k.base /\ b.events = k.events
           /\ \A t \in Tasks : b.prio[t] = IF t = c /\ held[c] = 1 THEN k.base[c] ELSE k.prio[t]
<1>1. k.prio \in [Tasks -> Priorities] /\ k.base \in [Tasks -> Priorities]
  BY TasksOf DEF Sound
<1>2. CASE ~Disinherits(c)
  <2>1. b = k
    BY <1>2 DEF PriorityDisinherit
  <2>2. Moves(k, {}, {}, k)
    BY KeptSame DEF Moves
  <2>3. held[c] = 1 => k.prio[c] = k.base[c]
    BY <1>2 DEF Disinherits
  <2>. QED
    BY <2>1, <2>2, <2>3
<1>3. CASE Disinherits(c)
  <2>. DEFINE new == k.base[c]
  <2>1. b = WithPriority(WithEventPriority(c, new, k), c, new) /\ held[c] = 1
    BY <1>3 DEF PriorityDisinherit, Disinherits
  <2>2. new \in Priorities
    BY <1>1
  <2>3. Repriced(k, c, new, b)
    BY <2>1, <2>2, RepricedIs
  <2>4. Moves(k, {}, {}, b)
    BY <2>3, RepricedMoves
  <2>5. b.prio = [k.prio EXCEPT ![c] = new]
    BY <2>3 DEF Repriced
  <2>6. \A t \in Tasks : b.prio[t] = IF t = c THEN new ELSE k.prio[t]
    BY <1>1, <2>5
  <2>. QED
    BY <2>1, <2>3, <2>4, <2>6 DEF Repriced
<1>. QED
  BY <1>2, <1>3

LEMMA GiveKeeps ==
    ASSUME SyncInv, NEW m \in Mutex, Give(m), UNCHANGED <<program, bits, alive, value, nstate>>
    PROVE  SyncInv'
<1>. DEFINE b == PriorityDisinherit(cur)
            w == RemoveFromEventList(b, m)
<1>1. /\ me.at = "user" /\ holder[m] = cur /\ m \in program.mutexes[cur]
      /\ holder' = [holder EXCEPT ![m] = NoTask] /\ held' = [held EXCEPT ![cur] = @ - 1]
      /\ k' = IF b.events[m] # <<>>
              THEN IF WakesHigher(b, m) THEN SwitchContext(w) ELSE w
              ELSE IF Disinherits(cur) THEN SwitchContext(b) ELSE b
      /\ UNCHANGED <<pc, item>>
  BY DEF Give, Is
<1>2. /\ CallOK(me) /\ cur # Idle /\ cur \in Tasks /\ me = pc[cur] /\ m \in EventLists
      /\ cur # NoTask /\ pc \in [Tasks -> Calls]
  BY <1>1, NotIdle, CurIs, MutexAssumption DEF SyncInv, CallsFit
<1>3. k.suspended = 0 /\ cur \in ReadyTasks(k) /\ Fit(k) /\ Sound(k) /\ k.pending = <<>>
  BY <1>1, AtRun DEF Suspending
<1>4. /\ Moves(k, {}, {}, b) /\ Fit(b) /\ ReadyTasks(b) = ReadyTasks(k)
      /\ b.cur = cur /\ b.suspended = 0 /\ b.base = k.base /\ b.events = k.events
      /\ \A t \in Tasks : b.prio[t] = IF t = cur /\ held[cur] = 1 THEN k.base[cur] ELSE k.prio[t]
  BY <1>2, <1>3, DisinheritIs DEF Moves, cur
<1>. HIDE DEF b
<1>5. ASSUME k.events[m] # <<>>
      PROVE  /\ Steps(b, {}, {}, w) /\ w.suspended = 0 /\ w.cur = cur /\ ReadyTasks(b) \subseteq ReadyTasks(w)
             /\ Head(k.events[m]) \in ReadyTasks(w) \cap ToSet(k.events[m])
  BY <1>2, <1>4, <1>5, GiveSteps
<1>. HIDE DEF w
<1>6. PICK d : /\ Steps(b, {}, {}, d) /\ d.suspended = 0 /\ d.cur = cur /\ cur \in ReadyTasks(d)
               /\ k.events[m] # <<>> => Head(k.events[m]) \in ReadyTasks(d) \cap ToSet(k.events[m])
               /\ k' = d \/ k' = SwitchContext(d)
  <2>1. CASE k.events[m] # <<>>
    <3>1. k' = w \/ k' = SwitchContext(w)
      BY <1>1, <1>4, <2>1
    <3>2. cur \in ReadyTasks(w)
      BY <1>3, <1>4, <1>5, <2>1
    <3>. QED
      BY <1>5, <2>1, <3>1, <3>2
  <2>2. CASE ~(k.events[m] # <<>>)
    <3>1. k' = b \/ k' = SwitchContext(b)
      BY <1>1, <1>4, <2>2
    <3>2. Steps(b, {}, {}, b) /\ cur \in ReadyTasks(b)
      BY <1>3, <1>4, StepsSame
    <3>. QED
      BY <1>4, <2>2, <3>1, <3>2
  <2>. QED
    BY <2>1, <2>2
<1>7. /\ Steps(b, {}, {}, k') /\ k'.suspended = 0 /\ cur' \in ReadyTasks(k')
      /\ k.events[m] # <<>> => Head(k.events[m]) \in ReadyTasks(k') \cap ToSet(k.events[m])
  <2>1. CASE k' = d
    BY <1>6, <2>1 DEF cur
  <2>2. CASE k' = SwitchContext(d)
    <3>1. /\ Steps(d, {}, {}, k') /\ k'.suspended = 0 /\ k'.cur \in ReadyTasks(k')
          /\ ReadyTasks(k') = ReadyTasks(d)
      BY <1>6, <2>2, SwitchSteps DEF Steps, Moves
    <3>2. Steps(b, {}, {}, k')
      BY <1>6, <3>1, StepsBoth
    <3>. QED
      BY <1>6, <3>1, <3>2 DEF cur
  <2>. QED
    BY <1>6, <2>1, <2>2
<1>8. Kept(k, {}, {}, k') /\ Fit(k') /\ ToSet(k'.pending) \subseteq ToSet(k.pending)
  BY <1>4, <1>7, KeptThen DEF Steps, Moves
<1>9. pc' = [pc EXCEPT ![cur] = me]
  BY <1>1, <1>2
<1>10. Goes({}, {}, me)
  BY <1>1, <1>2, <1>3, <1>7, <1>8, <1>9 DEF Goes, Suspending
<1>11. CallsFit' /\ Placed' /\ Listed'
  BY <1>10, GoesCalls
<1>12. me.op = "none" /\ me.at \notin Waits /\ ~InWait(cur)
  BY <1>1, <1>2 DEF CallOK, Waits, InWait
<1>13. GroupFit'
  BY <1>1, <1>10, <1>12, GoesGroup
<1>14. NotifyFit'
  BY <1>8, <1>10, GoesNotify
<1>15. FreeFit'
  <2>1. \A e \in Mutex : FreeAt(e)'
    <3>. TAKE e \in Mutex
    <3>1. CASE e = m
      <4>1. SUFFICES ASSUME k'.events[m] # <<>>
                     PROVE  \E t \in Tasks : Tries(pc'[t], m) /\ t \in AwakeIn(k')
        BY <3>1 DEF FreeAt
      <4>2. k.events[m] # <<>>
        <5>1. ToSet(k'.events[m]) # {}
          <6>1. k'.events[m] \in Seq(Tasks)
            BY <1>2, <1>8, KernelFields DEF Fit, Loose, WellFormed
          <6>. QED
            BY <4>1, <6>1, NoPending
        <5>2. ToSet(k'.events[m]) \subseteq ToSet(k.events[m])
          BY <1>2, <1>8 DEF Kept, Joins
        <5>3. ToSet(k.events[m]) # {}
          BY <5>1, <5>2
        <5>. QED
          BY <5>3 DEF ToSet
      <4>. DEFINE t == Head(k.events[m])
      <4>3. t \in ReadyTasks(k') /\ t \in ToSet(k.events[m])
        BY <1>7, <4>2
      <4>. HIDE DEF t
      <4>4. t \in Tasks /\ OnList(pc[t], m)
        BY <1>2, <4>3, CurIs, TasksOf DEF SyncInv, Listed
      <4>5. Tries(pc'[t], m) /\ t \in AwakeIn(k')
        BY <1>1, <4>3, <4>4 DEF OnList, Tries, AwakeIn
      <4>. QED
        BY <4>4, <4>5
    <3>2. CASE e # m
      <4>1. holder'[e] = holder[e]
        BY <1>1, <3>2, HeldIs
      <4>2. ~Tries(me, e) /\ e \notin {}
        BY <1>12 DEF Tries
      <4>. QED
        BY <1>10, <4>1, <4>2, GoesFreeAt
    <3>. QED
      BY <3>1, <3>2
  <2>. QED
    BY <2>1 DEF FreeFit
<1>16. MutexFit'
  <2>1. Passes(holder, m, cur, NoTask, holder')
    BY <1>1, <1>2, HeldIs DEF Passes
  <2>2. \A t \in Tasks : Cardinality(Owned(holder', t)) =
           IF t = cur THEN Cardinality(Owned(holder, t)) - 1 ELSE Cardinality(Owned(holder, t))
    BY <2>1, OwnedGiven
  <2>3. \A t \in Tasks : held'[t] = IF t = cur THEN held[t] - 1 ELSE held[t]
    BY <1>1, HeldIs
  <2>4. \A t \in Tasks : held'[t] = Cardinality(Owned(holder', t))
    BY <2>2, <2>3, HeldIs
  <2>5. held[cur] \in Nat \ {0}
    BY <1>1, <1>2, HeldIs
  <2>6. holder' \in [Mutex -> Tasks \cup {NoTask}] /\ held' \in [Tasks -> Nat]
    <3>1. held[cur] - 1 \in Nat
      BY <2>5
    <3>. QED
      BY <1>1, <1>2, <3>1, HeldIs
  <2>7. k'.prio = b.prio /\ k'.base = k.base
    BY <1>4, <1>7 DEF Steps
  <2>8. k.base \in [Tasks -> Priorities] /\ Priorities \subseteq Int
    BY <1>3, TasksOf DEF Sound
  <2>9. \A t \in Tasks : (held[t] = 0 => k.prio[t] = k.base[t]) /\ k.prio[t] >= k.base[t]
    BY DEF SyncInv, MutexFit
  <2>10. \A t \in Tasks : held'[t] = 0 => k'.prio[t] = k'.base[t]
    <3>. TAKE t \in Tasks
    <3>1. CASE t = cur
      <4>1. held'[t] = 0 => held[cur] = 1
        BY <2>3, <2>5, <3>1
      <4>. QED
        BY <1>4, <2>7, <3>1, <4>1
    <3>2. CASE t # cur
      BY <1>4, <2>3, <2>7, <2>9, <3>2
    <3>. QED
      BY <3>1, <3>2
  <2>11. \A t \in Tasks : k'.prio[t] >= k'.base[t]
    <3>. TAKE t \in Tasks
    <3>1. k.base[t] \in Int
      BY <2>8
    <3>2. k.base[t] >= k.base[t]
      BY <3>1
    <3>. QED
      BY <1>4, <2>7, <2>9, <3>2
  <2>. QED
    BY <2>4, <2>6, <2>10, <2>11 DEF MutexFit, MutexTypeOK, Owned
<1>17. Fit(k') /\ program' \in Programs
  BY <1>8 DEF SyncInv
<1>. QED
  BY <1>11, <1>13, <1>14, <1>15, <1>16, <1>17 DEF SyncInv

-----------------------------------------------------------------------------
(* Event groups *)

\* The task at the head of a call is on no event list.
LEMMA UserListed ==
    ASSUME SyncInv, me.at \notin Waits
    PROVE  \A e \in EventLists : cur \notin ToSet(k.events[e])
  BY CurIs DEF SyncInv, Listed, OnList

LEMMA GroupWaiters ==
    ASSUME SyncInv, NEW t \in ToSet(Waiting(k))
    PROVE  t \in Tasks /\ InWait(t) /\ ~item[t].unblocked /\ item[t] = InItem(pc[t].arg)
<1>1. Group \in EventLists /\ t \in ToSet(k.events[Group])
  BY EventGroupAssumption DEF Waiting
<1>2. t \in Tasks
  BY <1>1, CurIs, TasksOf
<1>3. InWait(t)
  BY <1>1 DEF SyncInv, Listed, OnList, InWait, Waits
<1>4. ItemFit(t)
  BY <1>2 DEF SyncInv, GroupFit
<1>. QED
  BY <1>2, <1>3, <1>4 DEF ItemFit

\* The calls that wake waiters, and may put the running task to sleep
Reaches(W, b, S, p) ==
    /\ W \subseteq ToSet(Waiting(k)) /\ b \subseteq Bits /\ bits' \subseteq Bits
    /\ alive' \in BOOLEAN /\ (alive' => alive)
    /\ alive' => /\ bits' \subseteq b /\ \A t \in W : Met(b, item[t])
                 /\ \A t \in ToSet(Waiting(k)) \ W : ~Met(b, item[t])
    /\ ToSet(Waiting(k')) \subseteq (ToSet(Waiting(k)) \ W) \cup S /\ W \subseteq AwakeIn(k')
    /\ \/ S = {} /\ item' = WakeItems(W, b) /\ ~(p.op = "events" /\ p.at \in Waits)
       \/ /\ item' = [WakeItems(W, b) EXCEPT ![cur] = InItem(p.arg)]
          /\ p.op = "events" /\ p.at = "blocked" /\ p.arg \in Conditions /\ ~Met(bits', p.arg)

LEMMA ItemsAre ==
    /\ NotInUse \in Items
    /\ \A c \in Conditions : InItem(c) \in Items
    /\ \A b \in SUBSET Bits : UnblockedBy(b) \in Items
  BY DEF NotInUse, InItem, UnblockedBy, Items, Conditions

LEMMA ReachesGroup ==
    ASSUME SyncInv, me.at = "user", NEW S, NEW E, NEW p, Goes(S, E, p), NEW W, NEW b,
           Reaches(W, b, S, p)
    PROVE  GroupFit'
<1>1. pc'[cur] = p /\ (\A t \in Tasks \ {cur} : pc'[t] = pc[t]) /\ me = pc[cur] /\ cur \in Tasks
      /\ AwakeIn(k) \ S \subseteq AwakeIn(k') /\ S \subseteq {cur}
  BY GoesCalls, CurIs DEF Goes, Kept
<1>2. ~InWait(cur) /\ cur \notin ToSet(Waiting(k)) /\ cur \notin W
  <2>1. ~InWait(cur)
    BY <1>1 DEF InWait
  <2>. QED
    BY <2>1, GroupWaiters DEF Reaches
<1>3. /\ item \in [Tasks -> Items] /\ bits \subseteq Bits
      /\ \A t \in Tasks : ItemFit(t)
  BY DEF SyncInv, GroupFit
<1>4. \A t \in Tasks \ {cur} : item'[t] = IF t \in W THEN UnblockedBy(b) ELSE item[t]
  BY <1>1 DEF Reaches, WakeItems
<1>5. \/ S = {} /\ item'[cur] = item[cur] /\ ~(p.op = "events" /\ p.at \in Waits)
      \/ /\ item'[cur] = InItem(p.arg)
         /\ p.op = "events" /\ p.at = "blocked" /\ p.arg \in Conditions /\ ~Met(bits', p.arg)
  BY <1>1, <1>2 DEF Reaches, WakeItems
<1>6. item' \in [Tasks -> Items]
  <2>1. WakeItems(W, b) \in [Tasks -> Items]
    BY <1>3, ItemsAre DEF WakeItems, Reaches
  <2>. QED
    BY <2>1, ItemsAre DEF Reaches
<1>7. \A t \in Tasks \ {cur} : InWait(t)' = InWait(t) /\ pc'[t].arg = pc[t].arg
  BY <1>1 DEF InWait
<1>8. ASSUME NEW t \in Tasks PROVE ItemFit(t)'
  <2>1. CASE t = cur
    <3>1. CASE S = {} /\ item'[cur] = item[cur] /\ ~(p.op = "events" /\ p.at \in Waits)
      <4>1. InWait(t)' = FALSE
        BY <1>1, <2>1, <3>1 DEF InWait, Waits
      <4>2. item'[t].inUse = FALSE /\ ~item'[t].unblocked
        <5>1. ItemFit(cur) /\ item[cur].inUse \in BOOLEAN /\ item[cur].unblocked \in BOOLEAN
          BY <1>1, <1>3 DEF Items
        <5>2. item[cur].inUse = FALSE /\ ~item[cur].unblocked
          BY <1>2, <5>1 DEF ItemFit
        <5>. QED
          BY <2>1, <3>1, <5>2
      <4>. QED
        BY <4>1, <4>2 DEF ItemFit
    <3>2. CASE item'[cur] = InItem(p.arg) /\ p.op = "events" /\ p.at = "blocked"
      <4>1. InWait(t)' = TRUE /\ ~item'[t].unblocked /\ item'[t].inUse = TRUE
            /\ pc'[t].arg = p.arg
        BY <1>1, <2>1, <3>2 DEF InWait, InItem
      <4>. QED
        BY <1>1, <2>1, <3>2, <4>1 DEF ItemFit, InItem
    <3>. QED
      BY <1>5, <3>1, <3>2
  <2>2. CASE t \in W
    <3>1. InWait(t) /\ item[t] = InItem(pc[t].arg)
      BY <2>2, GroupWaiters DEF Reaches
    <3>2. t # cur /\ InWait(t)' /\ pc'[t].arg = pc[t].arg /\ item'[t] = UnblockedBy(b)
      BY <1>2, <1>4, <1>7, <2>2, <3>1
    <3>3. t \in AwakeIn(k') /\ t \notin ToSet(Waiting(k'))
      BY <1>1, <2>2, <3>2 DEF Reaches
    <3>4. alive' => Met(b, pc[t].arg)
      <4>1. alive' => Met(b, item[t])
        BY <2>2 DEF Reaches
      <4>. QED
        BY <3>1, <4>1 DEF Met, InItem
    <3>5. item'[t].inUse = TRUE /\ item'[t].unblocked /\ item'[t].for = b
      BY <3>2 DEF UnblockedBy
    <3>6. InWait(t)' = TRUE
      BY <3>2 DEF InWait
    <3>. QED
      BY <3>2, <3>3, <3>4, <3>5, <3>6 DEF ItemFit
  <2>3. CASE t # cur /\ t \notin W
    <3>1. ItemFit(t) /\ item'[t] = item[t] /\ InWait(t)' = InWait(t) /\ pc'[t].arg = pc[t].arg
      BY <1>3, <1>4, <1>7, <2>3
    <3>2. t \notin ToSet(Waiting(k)) => t \notin ToSet(Waiting(k'))
      BY <1>1, <2>3 DEF Reaches
    <3>3. t \in AwakeIn(k) => t \in AwakeIn(k')
      BY <1>1, <2>3
    <3>4. alive' => alive
      BY DEF Reaches
    <3>. QED
      BY <3>1, <3>2, <3>3, <3>4 DEF ItemFit
  <2>. QED
    BY <2>1, <2>2, <2>3
<1>9. ASSUME alive', NEW t \in ToSet(Waiting(k')) PROVE ~Met(bits', item'[t])
  <2>1. CASE t = cur
    <3>1. item'[cur] = InItem(p.arg) /\ ~Met(bits', p.arg)
      BY <1>2, <1>5, <1>9, <2>1 DEF Reaches
    <3>. QED
      BY <2>1, <3>1 DEF Met, InItem
  <2>2. CASE t # cur
    <3>1. t \in ToSet(Waiting(k)) \ W /\ t \in Tasks
      BY <1>1, <1>9, <2>2, GroupWaiters DEF Reaches
    <3>2. item'[t] = item[t] /\ ~Met(b, item[t])
      BY <1>4, <1>9, <2>2, <3>1 DEF Reaches
    <3>. QED
      BY <1>9, <3>2, MetLess DEF Reaches
  <2>. QED
    BY <2>1, <2>2
<1>10. bits' \subseteq Bits /\ alive' \in BOOLEAN
  BY DEF Reaches
<1>. QED
  BY <1>6, <1>8, <1>9, <1>10 DEF GroupFit, Waiting

\* Where a call goes on that does not block, and where one that does
Returning == [User EXCEPT !.at = "return", !.op = "events"]
Waiter(c, n) == [User EXCEPT !.at = "blocked", !.op = "events", !.arg = c, !.wait = n]

LEMMA ReturningIs ==
    CallOK(Returning) /\ Returning.at = "return" /\ Returning.op = "events"
<1>1. Returning \in Calls /\ Returning.at = "return" /\ Returning.op = "events"
  BY UserIs DEF Returning, Calls, Labels, Suspending
<1>. QED
  BY <1>1 DEF CallOK, Waits

LEMMA WaiterIs ==
    ASSUME NEW c \in Conditions, NEW n \in Ticks, NEW p, p = Waiter(c, n)
    PROVE  CallOK(p) /\ p.at = "blocked" /\ p.op = "events" /\ p.arg = c /\ OnList(p, Group)
<1>1. p \in Calls /\ p.at = "blocked" /\ p.op = "events" /\ p.arg = c
  BY UserIs DEF Waiter, Calls, Labels, Waits
<1>2. CallOK(p)
  BY <1>1 DEF CallOK, Waits
<1>. QED
  BY <1>1, <1>2, SyncAssumption DEF OnList, Waits

LEMMA GroupCallKeeps ==
    ASSUME SyncInv, me.at = "user", NEW S, NEW E, E \subseteq {Group}, NEW p, Goes(S, E, p),
           Steps(k, S, E, k'), p.at # "second", GroupFit', UNCHANGED <<holder, held, value, nstate>>
    PROVE  SyncInv'
<1>1. CallsFit' /\ Placed' /\ Listed'
  BY GoesCalls
<1>2. MutexFit'
  BY GoesMutex DEF Steps
<1>3. me.op = "none" /\ me.at # "second"
  BY CurIs DEF CallOK
<1>4. FreeFit'
  <2>1. \A m \in E \cap Mutex : holder[m] # NoTask
    BY SyncAssumption
  <2>2. \A m \in Mutex : ~Tries(me, m)
    BY <1>3 DEF Tries
  <2>. QED
    BY <2>1, <2>2, GoesFree
<1>5. NotifyFit'
  BY <1>3, GoesNotify DEF Steps, Moves
<1>6. Fit(k') /\ program' \in Programs
  BY DEF Goes, SyncInv
<1>. QED
  BY <1>1, <1>2, <1>4, <1>5, <1>6 DEF SyncInv

\* The kernel after the loop of xEventGroupSetBits that has woken the tasks of W
Woke(W, r) ==
    /\ Steps(k, {}, {}, r) /\ Fit(r) /\ Sound(r) /\ r.suspended = 1 /\ r.pending = <<>>
    /\ r.cur = cur /\ cur \in ReadyTasks(r) /\ W \subseteq ReadyTasks(r)
    /\ \A e \in EventLists : ToSet(r.events[e]) = ToSet(k.events[e]) \ W

LEMMA UnblockWakes ==
    ASSUME SyncInv, me.at = "user", NEW W, W \subseteq ToSet(Waiting(k))
    PROVE  Woke(W, Unblock(SuspendAll(k), W))
<1>. DEFINE a == SuspendAll(k)  r == Unblock(a, W)
<1>1. k.suspended = 0 /\ cur \in ReadyTasks(k) /\ Fit(k)
  BY AtRun DEF Suspending
<1>2. /\ Steps(k, {}, {}, a) /\ Fit(a) /\ a.suspended = 1 /\ a.cur = cur
      /\ ReadyTasks(a) = ReadyTasks(k) /\ a.pending = <<>> /\ a.events = k.events
  BY <1>1, SuspendSteps DEF cur, Steps, Moves
<1>. HIDE DEF a
<1>3. ToSet(Waiting(a)) \cap W = W /\ Loose(a)
  BY <1>2 DEF Waiting, Fit
<1>4. Unblocks(a, W, r)
  BY <1>3, UnblockIs
<1>. HIDE DEF r
<1>5. Steps(a, {}, {}, r) /\ Sound(r) /\ r.pending = <<>> /\ ReadyTasks(r) = ReadyTasks(a) \cup W
  BY <1>2, <1>4, UnblocksSteps
<1>6. Steps(k, {}, {}, r)
  BY <1>2, <1>5, StepsBoth
<1>7. \A e \in EventLists : ToSet(r.events[e]) = ToSet(k.events[e]) \ W
  BY <1>2, <1>4 DEF Unblocks
<1>8. r.suspended = 1 /\ r.cur = cur
  BY <1>2, <1>4 DEF Unblocks
<1>9. Woke(W, r)
  BY <1>1, <1>2, <1>5, <1>6, <1>7, <1>8 DEF Woke, Steps, Moves
<1>. QED
  BY <1>9 DEF r, a

LEMMA SuspendWakes ==
    ASSUME SyncInv, me.at = "user"
    PROVE  Woke({}, SuspendAll(k))
<1>1. k.suspended = 0 /\ cur \in ReadyTasks(k) /\ Fit(k)
  BY AtRun DEF Suspending
<1>. QED
  BY <1>1, SuspendSteps DEF cur, Steps, Moves, Woke

LEMMA ReturnGoes ==
    ASSUME SyncInv, me.at = "user", cur # Idle, program' = program, NEW W, Woke(W, k'),
           pc' = [pc EXCEPT ![cur] = Returning]
    PROVE  /\ Goes({}, {}, Returning) /\ Steps(k, {}, {}, k') /\ W \subseteq AwakeIn(k')
           /\ ToSet(Waiting(k')) = ToSet(Waiting(k)) \ W
<1>1. cur \in ReadyTasks(k)
  BY AtRun DEF Suspending
<1>2. W \subseteq AwakeIn(k') /\ ToSet(Waiting(k')) = ToSet(Waiting(k)) \ W
  BY EventGroupAssumption DEF Woke, AwakeIn, Waiting
<1>. QED
  BY <1>1, <1>2, ReturningIs DEF Goes, Woke, Steps, Moves, Suspending, cur

LEMMA PlaceGoes ==
    ASSUME SyncInv, me.at = "user", cur # Idle, program' = program, NEW W, NEW r, Woke(W, r),
           NEW c \in Conditions, NEW n \in Ticks \ {0}, PlaceWaiter(r, c, n),
           W \subseteq ToSet(Waiting(k))
    PROVE  /\ Goes({cur}, {Group}, Waiter(c, n)) /\ Steps(k, {cur}, {Group}, k')
           /\ W \subseteq AwakeIn(k')
           /\ ToSet(Waiting(k')) \subseteq (ToSet(Waiting(k)) \ W) \cup {cur}
<1>. DEFINE p == Waiter(c, n)
<1>1. k' = PlaceOnUnorderedEventList(r, Group, n) /\ pc' = [pc EXCEPT ![cur] = p]
  BY DEF PlaceWaiter, Goto, Waiter
<1>2. CallOK(p) /\ p.at = "blocked" /\ p.op = "events" /\ p.arg = c /\ OnList(p, Group)
  BY WaiterIs
<1>. HIDE DEF p
<1>3. Sound(r) /\ r.cur \in ReadyTasks(r) /\ Group \in EventLists /\ r.cur = cur
  BY EventGroupAssumption DEF Woke
<1>4. /\ Sleeps(r, n, k')
      /\ \A d \in EventLists : ToSet(k'.events[d]) =
             IF d = Group THEN ToSet(r.events[d]) \cup {cur} ELSE ToSet(r.events[d])
  <2>1. /\ Sleeps(r, n, PlaceOnUnorderedEventList(r, Group, n))
        /\ \A d \in EventLists : ToSet(PlaceOnUnorderedEventList(r, Group, n).events[d]) =
               IF d = Group THEN ToSet(r.events[d]) \cup {r.cur} ELSE ToSet(r.events[d])
    BY <1>3, UnorderedSleeps
  <2>. QED
    BY <1>1, <1>3, <2>1
<1>5. /\ Steps(r, {cur}, {Group}, k') /\ k'.suspended = 1 /\ k'.cur = cur /\ k'.pending = <<>>
  <2>1. Joins(r, {r.cur}, {Group}, k')
    BY <1>3, <1>4 DEF Joins
  <2>2. Fit(r) /\ r.pending = <<>> /\ r.cur # Idle /\ r.suspended = 1
    BY <1>3 DEF Woke
  <2>3. /\ Steps(r, {r.cur}, {Group}, k') /\ k'.suspended = r.suspended /\ k'.cur = r.cur
        /\ k'.pending = <<>>
    BY <1>4, <2>1, <2>2, SleepSteps
  <2>. QED
    BY <1>3, <2>2, <2>3
<1>6. Steps(k, {cur}, {Group}, k')
  BY <1>5, StepsThen DEF Woke
<1>7. cur \in ReadyTasks(k)
  BY AtRun DEF Suspending
<1>8. Goes({cur}, {Group}, p)
  BY <1>1, <1>2, <1>5, <1>6, <1>7 DEF Goes, Steps, Moves, Suspending, cur
<1>9. cur \notin ToSet(Waiting(k))
  BY UserListed, EventGroupAssumption DEF Waiting, Waits
<1>10. W \subseteq AwakeIn(k')
  BY <1>5, <1>9 DEF Woke, Steps, Moves, Kept, AwakeIn
<1>11. ToSet(Waiting(k')) \subseteq (ToSet(Waiting(k)) \ W) \cup {cur}
  BY <1>3, <1>4 DEF Woke, Waiting
<1>. QED
  BY <1>6, <1>8, <1>10, <1>11 DEF p

\* xTaskResumeAll of a call that did not block
LEMMA ResumeReturnKeeps ==
    ASSUME SyncInv, ResumeReturn, UNCHANGED <<program, holder, held, value, nstate>>
    PROVE  SyncInv'
<1>1. /\ me.op = "events" /\ me.at = "return" /\ k' = ResumeAll(k)
      /\ pc' = [pc EXCEPT ![cur] = User] /\ UNCHANGED <<item, bits, alive>>
  BY DEF ResumeReturn, IsIn, Goto
<1>2. /\ Goes({}, {}, User) /\ k'.prio = k.prio /\ k'.base = k.base
      /\ ToSet(k'.pending) \subseteq ToSet(k.pending)
  BY <1>1, UserIs, ResumeGoes DEF Suspending
<1>. QED
  BY <1>1, <1>2, UserIs, CurIs, QuietKeeps DEF InWait, Tries, Waits

\* The task is awake, and its item holds its priority again.
LEMMA ResetItemKeeps ==
    ASSUME SyncInv, me.op = "events", me.at = "awake", ResetItem, pc' = [pc EXCEPT ![cur] = User],
           bits' \subseteq bits, UNCHANGED <<program, holder, held, alive, value, nstate>>
    PROVE  SyncInv'
<1>1. /\ item' = [item EXCEPT ![cur] = NotInUse]
      /\ k' = [k EXCEPT !.evValue[cur] = Highest(Priorities) + 1 - k.prio[cur]]
  BY DEF ResetItem
<1>2. /\ cur \in Tasks /\ me = pc[cur] /\ Loose(k) /\ k.suspended = 0 /\ Fit(k)
      /\ cur \in ReadyTasks(k)
  BY CurIs, AtRun DEF Suspending
<1>3. /\ Steps(k, {}, {}, k') /\ k'.suspended = k.suspended /\ k'.cur = k.cur
      /\ k'.events = k.events /\ ReadyTasks(k') = ReadyTasks(k)
  <2>. DEFINE x == Highest(Priorities) + 1 - k.prio[cur]
  <2>1. x \in Int
    <3>1. k.prio[cur] \in Int /\ Highest(Priorities) \in Int
      <4>1. k.prio[cur] \in Priorities /\ Priorities \subseteq Int
        BY <1>2, TasksOf DEF Loose
      <4>. QED
        BY <4>1, TaskListsAssumption
    <3>. QED
      BY <3>1
  <2>2. k' = [k EXCEPT !.evValue[cur] = x]
    BY <1>1
  <2>. HIDE DEF x
  <2>. QED
    BY <1>2, <2>1, <2>2, RetoldSteps
<1>4. Goes({}, {}, User)
  BY <1>2, <1>3, UserIs DEF Goes, Steps, Moves, Suspending, cur
<1>5. pc'[cur] = User /\ (\A t \in Tasks \ {cur} : pc'[t] = pc[t])
      /\ CallsFit' /\ Placed' /\ Listed'
  BY <1>4, GoesCalls
<1>6. MutexFit'
  BY <1>3, GoesMutex DEF Steps
<1>7. FreeFit'
  <2>1. \A m \in Mutex : ~Tries(me, m)
    BY DEF Tries
  <2>. QED
    BY <1>4, <2>1, GoesFree
<1>8. NotifyFit'
  BY <1>3, <1>4, UserIs, GoesNotify DEF Steps, Moves
<1>9. GroupFit'
  <2>1. /\ item \in [Tasks -> Items] /\ bits \subseteq Bits /\ alive \in BOOLEAN
        /\ \A t \in Tasks : ItemFit(t)
        /\ alive => \A t \in ToSet(Waiting(k)) : ~Met(bits, item[t])
    BY DEF SyncInv, GroupFit
  <2>2. cur \notin ToSet(Waiting(k)) /\ Waiting(k') = Waiting(k) /\ AwakeIn(k) \subseteq AwakeIn(k')
        /\ ToSet(Waiting(k)) \subseteq Tasks
    BY <1>2, <1>3, ListedAsleep, EventGroupAssumption DEF Waiting, Steps, Moves, Kept
  <2>3. item' \in [Tasks -> Items]
    BY <1>1, <2>1, ItemsAre
  <2>4. \A t \in Tasks : ItemFit(t)'
    <3>. TAKE t \in Tasks
    <3>1. CASE t = cur
      <4>1. item'[t].inUse = FALSE /\ ~item'[t].unblocked /\ InWait(t)' = FALSE
        BY <1>1, <1>2, <1>5, <2>1, <3>1, UserIs DEF NotInUse, InWait
      <4>. QED
        BY <4>1 DEF ItemFit
    <3>2. CASE t # cur
      <4>1. ItemFit(t) /\ item'[t] = item[t] /\ pc'[t] = pc[t]
        BY <1>1, <1>5, <2>1, <3>2
      <4>. QED
        BY <2>2, <4>1 DEF ItemFit, InWait
    <3>. QED
      BY <3>1, <3>2
  <2>5. alive' => \A t \in ToSet(Waiting(k')) : ~Met(bits', item'[t])
    BY <1>1, <2>1, <2>2, MetLess
  <2>. QED
    BY <2>1, <2>3, <2>4, <2>5 DEF GroupFit, Waiting
<1>10. Fit(k') /\ program' \in Programs
  BY <1>3 DEF Steps, Moves, SyncInv
<1>. QED
  BY <1>5, <1>6, <1>7, <1>8, <1>9, <1>10 DEF SyncInv

LEMMA WokenByBitsKeeps ==
    ASSUME SyncInv, WokenByBits, UNCHANGED <<program, holder, held, value, nstate>>
    PROVE  SyncInv'
  BY ResetItemKeeps DEF WokenByBits, IsIn, Goto

LEMMA WokenByTimeoutKeeps ==
    ASSUME SyncInv, WokenByTimeout, UNCHANGED <<program, holder, held, value, nstate>>
    PROVE  SyncInv'
<1>1. bits' \subseteq bits
  BY DEF WokenByTimeout, ReadBits, Store
<1>. QED
  BY <1>1, ResetItemKeeps DEF WokenByTimeout, IsIn, Goto

LEMMA ClearBitsKeeps ==
    ASSUME SyncInv, NEW s \in SUBSET Bits, ClearBits(s),
           UNCHANGED <<program, holder, held, value, nstate>>
    PROVE  SyncInv'
<1>1. /\ me.at = "user" /\ s \in program.clears[cur] /\ bits' \subseteq bits
      /\ UNCHANGED <<k, pc, item, alive>>
  BY DEF ClearBits, Is
<1>2. CallOK(me) /\ cur \in Tasks /\ pc \in [Tasks -> Calls] /\ me = pc[cur]
  BY CurIs DEF SyncInv, CallsFit
<1>3. pc' = [pc EXCEPT ![cur] = me]
  BY <1>1, <1>2
<1>4. Goes({}, {}, me)
  BY <1>1, <1>2, <1>3, StayGoes DEF Suspending
<1>5. ~InWait(cur) /\ me.at \notin Waits
  BY <1>1, <1>2 DEF InWait, Waits
<1>6. GroupFit'
  BY <1>1, <1>4, <1>5, GoesGroup
<1>7. Steps(k, {}, {}, k')
  BY <1>1, StepsSame DEF SyncInv
<1>. QED
  BY <1>1, <1>4, <1>6, <1>7, GroupCallKeeps

LEMMA DeleteGroupKeeps ==
    ASSUME SyncInv, DeleteGroup, UNCHANGED <<program, holder, held, value, nstate>>
    PROVE  SyncInv'
<1>. DEFINE W == ToSet(Waiting(k))
<1>1. /\ me.at = "user" /\ cur \in program.deleters /\ alive' = FALSE /\ UNCHANGED bits
      /\ k' = Unblock(SuspendAll(k), W) /\ item' = WakeItems(W, {})
      /\ pc' = [pc EXCEPT ![cur] = Returning]
  BY DEF DeleteGroup, Is, ReturnAtOnce, Goto, Returning
<1>2. cur # Idle
  BY <1>1, NotIdle
<1>3. Woke(W, k')
  BY <1>1, UnblockWakes
<1>4. /\ Goes({}, {}, Returning) /\ Steps(k, {}, {}, k') /\ W \subseteq AwakeIn(k')
      /\ ToSet(Waiting(k')) = ToSet(Waiting(k)) \ W
  BY <1>1, <1>2, <1>3, ReturnGoes
<1>5. Reaches(W, {}, {}, Returning)
  <2>1. bits \subseteq Bits
    BY DEF SyncInv, GroupFit
  <2>. QED
    BY <1>1, <1>4, <2>1, ReturningIs DEF Reaches, Waits
<1>. QED
  BY <1>1, <1>4, <1>5, ReturningIs, ReachesGroup, GroupCallKeeps

\* What xEventGroupSetBits does inside its suspension
LEMMA SetsBits ==
    ASSUME SyncInv, me.at = "user", alive, NEW b, b \subseteq Bits, NEW W, W = Matched(k, b)
    PROVE  /\ W \subseteq ToSet(Waiting(k)) /\ Woke(W, Unblock(SuspendAll(k), W))
           /\ \A t \in W : Met(b, item[t])
           /\ \A t \in ToSet(Waiting(k)) \ W : ~Met(b, item[t])
           /\ ClearAfter(W, b) \subseteq b
<1>1. W \subseteq ToSet(Waiting(k))
  BY DEF Matched
<1>2. Woke(W, Unblock(SuspendAll(k), W))
  BY <1>1, UnblockWakes
<1>. QED
  BY <1>1, <1>2 DEF Matched, ClearAfter

LEMMA SetBitsKeeps ==
    ASSUME SyncInv, NEW s \in SUBSET Bits, SetBits(s),
           UNCHANGED <<program, holder, held, value, nstate>>
    PROVE  SyncInv'
<1>. DEFINE b == bits \cup s
            W == Matched(k, b)
<1>1. /\ me.at = "user" /\ s \in program.sets[cur] /\ alive /\ alive' = alive
      /\ k' = Unblock(SuspendAll(k), W) /\ item' = WakeItems(W, b) /\ bits' = ClearAfter(W, b)
      /\ pc' = [pc EXCEPT ![cur] = Returning]
  BY DEF SetBits, Is, ReturnAtOnce, Goto, Returning
<1>2. cur # Idle
  BY <1>1, NotIdle
<1>3. b \subseteq Bits /\ alive \in BOOLEAN
  BY DEF SyncInv, GroupFit
<1>. HIDE DEF b, W
<1>4. /\ W \subseteq ToSet(Waiting(k)) /\ Woke(W, k')
      /\ \A t \in W : Met(b, item[t])
      /\ \A t \in ToSet(Waiting(k)) \ W : ~Met(b, item[t])
      /\ bits' \subseteq b
  BY <1>1, <1>3, SetsBits DEF W
<1>5. /\ Goes({}, {}, Returning) /\ Steps(k, {}, {}, k') /\ W \subseteq AwakeIn(k')
      /\ ToSet(Waiting(k')) = ToSet(Waiting(k)) \ W
  BY <1>1, <1>2, <1>4, ReturnGoes
<1>6. Reaches(W, b, {}, Returning)
  BY <1>1, <1>3, <1>4, <1>5, ReturningIs DEF Reaches, Waits
<1>. QED
  BY <1>1, <1>5, <1>6, ReturningIs, ReachesGroup, GroupCallKeeps

LEMMA WaitBitsKeeps ==
    ASSUME SyncInv, NEW c \in Conditions, NEW n \in program.waits, WaitBits(c, n),
           UNCHANGED <<program, holder, held, value, nstate>>
    PROVE  SyncInv'
<1>1. /\ me.at = "user" /\ c \in program.conditions[cur] /\ alive /\ alive' = alive
  BY DEF WaitBits, Is
<1>2. cur # Idle /\ n \in Ticks
  BY <1>1, NotIdle, SyncAssumption DEF SyncInv
<1>3. ~InWait(cur)
  BY <1>1, CurIs DEF InWait
<1>4. ASSUME ReturnAtOnce, k' = SuspendAll(k), bits' \subseteq bits, item' = item
      PROVE  SyncInv'
  <2>1. pc' = [pc EXCEPT ![cur] = Returning]
    BY <1>4 DEF ReturnAtOnce, Goto, Returning
  <2>2. Woke({}, k')
    BY <1>1, <1>4, SuspendWakes
  <2>3. Goes({}, {}, Returning) /\ Steps(k, {}, {}, k')
    BY <1>1, <1>2, <2>1, <2>2, ReturnGoes
  <2>4. Returning.at \notin Waits
    BY ReturningIs DEF Waits
  <2>5. GroupFit'
    BY <1>1, <1>3, <1>4, <2>3, <2>4, GoesGroup
  <2>. QED
    BY <1>1, <2>3, <2>5, ReturningIs, GroupCallKeeps
<1>5. CASE Met(bits, c)
  <2>1. bits' \subseteq bits
    BY <1>5 DEF WaitBits
  <2>. QED
    BY <1>4, <1>5, <2>1 DEF WaitBits
<1>6. CASE ~Met(bits, c) /\ n = 0
  BY <1>4, <1>6 DEF WaitBits
<1>7. CASE ~Met(bits, c) /\ n # 0
  <2>. DEFINE r == SuspendAll(k)
              p == Waiter(c, n)
  <2>1. /\ PlaceWaiter(r, c, n) /\ item' = [item EXCEPT ![cur] = InItem(c)] /\ bits' = bits
    BY <1>7 DEF WaitBits
  <2>2. Woke({}, r) /\ n \in Ticks \ {0} /\ {} \subseteq ToSet(Waiting(k))
    BY <1>1, <1>2, <1>7, SuspendWakes
  <2>. HIDE DEF r
  <2>3. /\ Goes({cur}, {Group}, p) /\ Steps(k, {cur}, {Group}, k')
        /\ ToSet(Waiting(k')) \subseteq (ToSet(Waiting(k)) \ {}) \cup {cur}
    <3>. DEFINE W == {}
    <3>1. Woke(W, r) /\ W \subseteq ToSet(Waiting(k))
      BY <2>2
    <3>. HIDE DEF W
    <3>2. /\ Goes({cur}, {Group}, p) /\ Steps(k, {cur}, {Group}, k')
          /\ ToSet(Waiting(k')) \subseteq (ToSet(Waiting(k)) \ W) \cup {cur}
      BY <1>1, <1>2, <2>1, <2>2, <3>1, PlaceGoes
    <3>. QED
      BY <3>2 DEF W
  <2>4. p.at = "blocked" /\ p.op = "events" /\ p.arg = c
    BY <1>2, WaiterIs
  <2>. HIDE DEF p
  <2>5. /\ item \in [Tasks -> Items] /\ bits \subseteq Bits
        /\ \A t \in ToSet(Waiting(k)) : ~Met(bits, item[t])
    BY <1>1 DEF SyncInv, GroupFit
  <2>6. WakeItems({}, bits) = item
    BY <2>5 DEF WakeItems
  <2>7. Reaches({}, bits, {cur}, p)
    BY <1>1, <1>7, <2>1, <2>3, <2>4, <2>5, <2>6 DEF Reaches
  <2>8. GroupFit'
    BY <1>1, <2>3, <2>7, ReachesGroup
  <2>. QED
    BY <1>1, <2>3, <2>4, <2>8, GroupCallKeeps
<1>. QED
  BY <1>5, <1>6, <1>7

LEMMA GroupSyncKeeps ==
    ASSUME SyncInv, NEW s \in SUBSET Bits, NEW f \in SUBSET Bits, NEW n \in program.waits,
           GroupSync(s, f, n), UNCHANGED <<program, holder, held, value, nstate>>
    PROVE  SyncInv'
<1>. DEFINE b == bits \cup s
            W == Matched(k, b)
            after == ClearAfter(W, b)
            r == Unblock(SuspendAll(k), W)
            c == Rendezvous(f)
<1>1. /\ me.at = "user" /\ <<s, f>> \in program.syncs[cur] /\ alive /\ alive' = alive
  BY DEF GroupSync, Is
<1>2. cur # Idle /\ n \in Ticks
  BY <1>1, NotIdle, SyncAssumption DEF SyncInv
<1>3. \/ /\ ReturnAtOnce /\ k' = r /\ bits' \subseteq after /\ item' = WakeItems(W, b)
      \/ /\ ~(f \subseteq b) /\ n # 0 /\ PlaceWaiter(r, c, n) /\ bits' = after
         /\ item' = [WakeItems(W, b) EXCEPT ![cur] = InItem(c)]
  <2>1. CASE f \subseteq b
    BY <2>1 DEF GroupSync
  <2>2. CASE ~(f \subseteq b)
    BY <2>2 DEF GroupSync
  <2>. QED
    BY <2>1, <2>2
<1>4. b \subseteq Bits /\ alive \in BOOLEAN
  BY DEF SyncInv, GroupFit
<1>5. /\ W \subseteq ToSet(Waiting(k)) /\ Woke(W, r)
      /\ \A t \in W : Met(b, item[t])
      /\ \A t \in ToSet(Waiting(k)) \ W : ~Met(b, item[t])
      /\ after \subseteq b
  <2>. HIDE DEF b
  <2>. QED
    BY <1>1, <1>4, SetsBits
<1>6. ASSUME ~(f \subseteq b) PROVE c \in Conditions /\ ~Met(b, c)
  <2>. HIDE DEF b
  <2>1. f \in (SUBSET Bits) \ {{}}
    BY <1>6
  <2>2. c \in Conditions /\ c.all /\ c.for = f
    BY <2>1 DEF Rendezvous, Conditions
  <2>. QED
    BY <1>6, <2>2 DEF Met
<1>. HIDE DEF b, W, after, r, c
<1>7. CASE ReturnAtOnce /\ k' = r /\ bits' \subseteq after /\ item' = WakeItems(W, b)
  <2>1. pc' = [pc EXCEPT ![cur] = Returning]
    BY <1>7 DEF ReturnAtOnce, Goto, Returning
  <2>2. /\ Goes({}, {}, Returning) /\ Steps(k, {}, {}, k') /\ W \subseteq AwakeIn(k')
        /\ ToSet(Waiting(k')) = ToSet(Waiting(k)) \ W
    BY <1>1, <1>2, <1>5, <1>7, <2>1, ReturnGoes
  <2>3. Reaches(W, b, {}, Returning)
    BY <1>1, <1>4, <1>5, <1>7, <2>2, ReturningIs DEF Reaches, Waits
  <2>. QED
    BY <1>1, <2>2, <2>3, ReturningIs, ReachesGroup, GroupCallKeeps
<1>8. CASE /\ ~(f \subseteq b) /\ n # 0 /\ PlaceWaiter(r, c, n) /\ bits' = after
           /\ item' = [WakeItems(W, b) EXCEPT ![cur] = InItem(c)]
  <2>. DEFINE p == Waiter(c, n)
  <2>1. c \in Conditions /\ n \in Ticks \ {0} /\ ~Met(bits', c)
    BY <1>2, <1>5, <1>6, <1>8, MetLess
  <2>2. /\ Goes({cur}, {Group}, p) /\ Steps(k, {cur}, {Group}, k')
        /\ W \subseteq AwakeIn(k')
        /\ ToSet(Waiting(k')) \subseteq (ToSet(Waiting(k)) \ W) \cup {cur}
    BY <1>1, <1>2, <1>5, <1>8, <2>1, PlaceGoes
  <2>3. p.at = "blocked" /\ p.op = "events" /\ p.arg = c
    BY <2>1, WaiterIs
  <2>. HIDE DEF p
  <2>4. Reaches(W, b, {cur}, p)
    BY <1>1, <1>4, <1>5, <1>8, <2>1, <2>2, <2>3 DEF Reaches
  <2>5. GroupFit'
    BY <1>1, <2>2, <2>4, ReachesGroup
  <2>. QED
    BY <1>1, <2>2, <2>3, <2>5, GroupCallKeeps
<1>. QED
  BY <1>3, <1>7, <1>8

-----------------------------------------------------------------------------
(* Notifications *)

LEMMA QuietNotifyKeeps ==
    ASSUME SyncInv, NEW S, NEW p, Goes(S, {}, p), k'.prio = k.prio, k'.base = k.base,
           UNCHANGED <<item, holder, held, bits, alive>>, NotifyFit',
           \A m \in Mutex : Tries(me, m) /\ holder[m] = NoTask => Tries(p, m) /\ S = {},
           InWait(cur) <=> (p.op = "events" /\ p.at \in Waits),
           InWait(cur) => p.arg = me.arg /\ S = {}
    PROVE  SyncInv'
<1>1. CallsFit' /\ Placed' /\ Listed'
  BY GoesCalls
<1>2. MutexFit'
  BY GoesMutex
<1>3. FreeFit'
  BY GoesFree
<1>4. GroupFit'
  BY GoesGroup
<1>5. Fit(k') /\ program' \in Programs
  BY DEF Goes, SyncInv
<1>. QED
  BY <1>1, <1>2, <1>3, <1>4, <1>5 DEF SyncInv

\* A call about notifications goes on at p.
LEMMA NotifyCallKeeps ==
    ASSUME SyncInv, me.at \in {"user", "second"}, NEW S, NEW p, p.at \in {"user", "second"},
           Goes(S, {}, p), Steps(k, S, {}, k'), UNCHANGED <<item, holder, held, bits, alive>>,
           NotifyFit'
    PROVE  SyncInv'
<1>1. me.at \notin Waits /\ p.at \notin Waits
  BY DEF Waits
<1>2. ~InWait(cur) /\ \A m \in Mutex : ~Tries(me, m)
  BY <1>1, CurIs DEF InWait, Tries, Waits
<1>. QED
  BY <1>1, <1>2, QuietNotifyKeeps DEF Steps

LEMMA SecondIs ==
    ASSUME NEW op \in {"take", "wait"}
    PROVE  CallOK(Second(op)) /\ Second(op).at = "second"
<1>1. Second(op) \in Calls /\ Second(op).at = "second" /\ Second(op).op = op
  BY UserIs DEF Second, Calls, Labels
<1>. QED
  BY <1>1 DEF CallOK, Waits

\* The first critical section of a wait that finds no notification
LEMMA MayDelaySteps ==
    ASSUME SyncInv, me.at = "user", cur # Idle, NEW n \in Ticks,
           k' = IF n > 0 THEN SwitchContext(AddCurrentToDelayed(k, n)) ELSE k
    PROVE  /\ Steps(k, {cur}, {}, k') /\ k'.suspended = 0 /\ cur' \in ReadyTasks(k')
           /\ ToSet(k'.pending) = {}
<1>1. /\ k.suspended = 0 /\ cur \in ReadyTasks(k) /\ Fit(k) /\ Sound(k) /\ k.pending = <<>>
      /\ ToSet(k.pending) = {}
  BY AtRun DEF Suspending
<1>2. CASE n > 0
  <2>. DEFINE b == AddCurrentToDelayed(k, n)
  <2>1. n \in Ticks \ {0} /\ k' = SwitchContext(b)
    BY <1>2
  <2>2. Sleeps(k, n, b) /\ b.events = k.events
    BY <1>1, <2>1, BlockedSound DEF Sound, SameRest, cur
  <2>. HIDE DEF b
  <2>3. Steps(k, {cur}, {}, b) /\ b.suspended = 0 /\ Fit(b)
    <3>1. Joins(k, {k.cur}, {}, b)
      BY <2>2 DEF Joins
    <3>2. k.cur # Idle
      BY DEF cur
    <3>3. Steps(k, {k.cur}, {}, b) /\ b.suspended = k.suspended
      BY <1>1, <2>2, <3>1, <3>2, SleepSteps
    <3>. QED
      BY <1>1, <3>3 DEF cur, Steps, Moves
  <2>4. Steps(b, {}, {}, k') /\ k'.suspended = 0 /\ k'.cur \in ReadyTasks(k')
    BY <2>1, <2>3, SwitchSteps
  <2>5. Steps(k, {cur}, {}, k')
    BY <2>3, <2>4, StepsBoth
  <2>. QED
    BY <1>1, <2>4, <2>5 DEF cur, Steps, Moves
<1>3. CASE ~(n > 0)
  <2>1. Kept(k, {cur}, {}, k')
    BY <1>3 DEF Kept, Joins
  <2>. QED
    BY <1>1, <1>3, <2>1 DEF Steps, Moves, cur
<1>. QED
  BY <1>2, <1>3

\* ulTaskNotifyTake and xTaskNotifyWait, first part
LEMMA FirstPartKeeps ==
    ASSUME SyncInv, me.at = "user", cur \in program.notifiable, NEW n \in program.waits,
           NEW op \in {"take", "wait"},
           WaitForNotification(Second(op), n) \/ (Goto(Second(op)) /\ UNCHANGED <<k, nstate>>),
           value' \in [Tasks -> Values],
           UNCHANGED <<program, item, holder, held, bits, alive>>
    PROVE  SyncInv'
<1>. DEFINE p == Second(op)
<1>1. cur # Idle /\ n \in Ticks /\ cur \in Tasks /\ me = pc[cur]
  BY NotIdle, SyncAssumption, CurIs DEF SyncInv
<1>2. CallOK(p) /\ p.at = "second" /\ pc' = [pc EXCEPT ![cur] = p]
  BY SecondIs DEF WaitForNotification, Goto
<1>. HIDE DEF p
<1>3. /\ nstate \in [Tasks -> NotifyStates] /\ nstate[cur] # "waiting"
      /\ \A t \in Tasks : /\ nstate[t] = "waiting" => pc[t].at = "second"
                          /\ pc[t].at = "second" /\ nstate[t] # "waiting" => t \in AwakeIn(k)
  BY <1>1 DEF SyncInv, NotifyFit
<1>4. k.suspended = 0 /\ cur \in ReadyTasks(k) /\ Fit(k) /\ ToSet(k.pending) = {}
  BY AtRun DEF Suspending
<1>5. CASE WaitForNotification(Second(op), n)
  <2>1. /\ nstate' = [nstate EXCEPT ![cur] = "waiting"]
        /\ k' = IF n > 0 THEN SwitchContext(AddCurrentToDelayed(k, n)) ELSE k
    BY <1>5 DEF WaitForNotification
  <2>2. /\ Steps(k, {cur}, {}, k') /\ k'.suspended = 0 /\ cur' \in ReadyTasks(k')
        /\ ToSet(k'.pending) = {}
    BY <1>1, <2>1, MayDelaySteps
  <2>3. Goes({cur}, {}, p)
    BY <1>1, <1>2, <1>4, <2>2 DEF Goes, Steps, Moves, Suspending
  <2>4. pc'[cur] = p /\ (\A t \in Tasks \ {cur} : pc'[t] = pc[t])
        /\ AwakeIn(k) \ {cur} \subseteq AwakeIn(k')
    <3>1. AwakeIn(k) \ {cur} \subseteq AwakeIn(k')
      BY <2>2 DEF Steps, Moves, Kept
    <3>. QED
      BY <2>3, <3>1, GoesCalls
  <2>5. /\ nstate' \in [Tasks -> NotifyStates] /\ nstate'[cur] = "waiting"
        /\ \A t \in Tasks \ {cur} : nstate'[t] = nstate[t]
    BY <1>1, <1>3, <2>1 DEF NotifyStates
  <2>6. NotifyFit'
    BY <1>2, <1>3, <2>2, <2>4, <2>5 DEF NotifyFit
  <2>. QED
    BY <1>2, <2>2, <2>3, <2>6, NotifyCallKeeps
<1>6. CASE Goto(Second(op)) /\ UNCHANGED <<k, nstate>>
  <2>1. Goes({}, {}, p) /\ Steps(k, {}, {}, k')
    BY <1>1, <1>2, <1>4, <1>6, StayGoes, StepsSame DEF Suspending
  <2>2. pc'[cur] = p /\ (\A t \in Tasks \ {cur} : pc'[t] = pc[t])
    BY <2>1, GoesCalls
  <2>3. NotifyFit'
    BY <1>2, <1>3, <1>4, <1>6, <2>2 DEF NotifyFit, AwakeIn
  <2>. QED
    BY <1>2, <2>1, <2>3, NotifyCallKeeps
<1>. QED
  BY <1>5, <1>6

LEMMA ValuesAre ==
    /\ 0 \in Values /\ \A x \in Values : x # 0 => x - 1 \in Values
    /\ \A x \in Values : x < MaxValue => x + 1 \in Values
  BY NotifyAssumption DEF Values

LEMMA NotifyTakeKeeps ==
    ASSUME SyncInv, NEW n \in program.waits, NotifyTake(n),
           UNCHANGED <<program, holder, held, bits, alive>>
    PROVE  SyncInv'
<1>1. /\ me.at = "user" /\ cur \in program.notifiable /\ UNCHANGED <<value, item>>
      /\ WaitForNotification(Second("take"), n) \/ (Goto(Second("take")) /\ UNCHANGED <<k, nstate>>)
  <2>1. me.at = "user" /\ cur \in program.notifiable /\ UNCHANGED <<value, item>>
    BY DEF NotifyTake, Notifiable, Is
  <2>2. CASE value[cur] = 0
    BY <2>1, <2>2 DEF NotifyTake
  <2>3. CASE value[cur] # 0
    BY <2>1, <2>3 DEF NotifyTake
  <2>. QED
    BY <2>1, <2>2, <2>3
<1>2. value' \in [Tasks -> Values]
  BY <1>1 DEF SyncInv, NotifyFit
<1>. QED
  BY <1>1, <1>2, FirstPartKeeps

LEMMA NotifyWaitKeeps ==
    ASSUME SyncInv, NEW n \in program.waits, NEW b, NotifyWait(n, b),
           UNCHANGED <<program, holder, held, bits, alive>>
    PROVE  SyncInv'
<1>1. /\ me.at = "user" /\ cur \in program.notifiable /\ UNCHANGED item
      /\ WaitForNotification(Second("wait"), n) \/ (Goto(Second("wait")) /\ UNCHANGED <<k, nstate>>)
      /\ value' = [value EXCEPT ![cur] = IF b THEN 0 ELSE @] \/ value' = value
  <2>1. me.at = "user" /\ cur \in program.notifiable /\ UNCHANGED item
    BY DEF NotifyWait, Notifiable, Is
  <2>2. CASE nstate[cur] # "received"
    BY <2>1, <2>2 DEF NotifyWait
  <2>3. CASE nstate[cur] = "received"
    BY <2>1, <2>3 DEF NotifyWait
  <2>. QED
    BY <2>1, <2>2, <2>3
<1>2. value' \in [Tasks -> Values]
  <2>1. value \in [Tasks -> Values] /\ cur \in Tasks
    BY CurIs DEF SyncInv, NotifyFit
  <2>. QED
    BY <1>1, <2>1, ValuesAre
<1>. QED
  BY <1>1, <1>2, FirstPartKeeps

\* The second part
LEMMA SecondPartKeeps ==
    ASSUME SyncInv, me.at = "second", Goto(User), value' \in [Tasks -> Values],
           nstate' = [nstate EXCEPT ![cur] = "notWaiting"],
           UNCHANGED <<program, k, item, holder, held, bits, alive>>
    PROVE  SyncInv'
<1>1. cur # Idle /\ cur \in Tasks /\ me = pc[cur]
  BY NotIdle, CurIs
<1>2. k.suspended = 0 /\ cur \in ReadyTasks(k) /\ Fit(k) /\ ToSet(k.pending) = {}
  BY AtRun DEF Suspending
<1>3. Goes({}, {}, User) /\ Steps(k, {}, {}, k')
  BY <1>1, <1>2, UserIs, StayGoes, StepsSame DEF Suspending, Goto
<1>4. pc'[cur] = User /\ (\A t \in Tasks \ {cur} : pc'[t] = pc[t])
  BY <1>3, GoesCalls
<1>5. /\ nstate' \in [Tasks -> NotifyStates] /\ nstate'[cur] = "notWaiting"
      /\ \A t \in Tasks \ {cur} : nstate'[t] = nstate[t]
  BY <1>1 DEF SyncInv, NotifyFit, NotifyStates
<1>6. NotifyFit'
  BY <1>2, <1>4, <1>5, UserIs DEF SyncInv, NotifyFit
<1>. DEFINE p == User
<1>7. /\ me.at \in {"user", "second"} /\ p.at \in {"user", "second"} /\ Goes({}, {}, p)
      /\ Steps(k, {}, {}, k') /\ UNCHANGED <<item, holder, held, bits, alive>>
  BY <1>3, UserIs
<1>. HIDE DEF p
<1>. QED
  BY <1>6, <1>7, NotifyCallKeeps

LEMMA NotifyTakenKeeps ==
    ASSUME SyncInv, NEW b, NotifyTaken(b), UNCHANGED <<program, holder, held, bits, alive>>
    PROVE  SyncInv'
<1>1. /\ me.at = "second" /\ Goto(User) /\ nstate' = [nstate EXCEPT ![cur] = "notWaiting"]
      /\ value' = [value EXCEPT ![cur] = IF b \/ @ = 0 THEN 0 ELSE @ - 1]
      /\ UNCHANGED <<k, item>>
  BY DEF NotifyTaken, IsIn
<1>2. value' \in [Tasks -> Values]
  <2>1. value \in [Tasks -> Values] /\ cur \in Tasks
    BY CurIs DEF SyncInv, NotifyFit
  <2>2. (IF b \/ value[cur] = 0 THEN 0 ELSE value[cur] - 1) \in Values
    BY <2>1, ValuesAre
  <2>. QED
    BY <1>1, <2>1, <2>2
<1>. QED
  BY <1>1, <1>2, SecondPartKeeps

LEMMA NotifyWaitedKeeps ==
    ASSUME SyncInv, NEW b, NotifyWaited(b), UNCHANGED <<program, holder, held, bits, alive>>
    PROVE  SyncInv'
<1>1. /\ me.at = "second" /\ Goto(User) /\ nstate' = [nstate EXCEPT ![cur] = "notWaiting"]
      /\ value' = [value EXCEPT ![cur] = IF b /\ nstate[cur] # "waiting" THEN 0 ELSE @]
      /\ UNCHANGED <<k, item>>
  BY DEF NotifyWaited, IsIn
<1>2. value' \in [Tasks -> Values]
  <2>1. value \in [Tasks -> Values] /\ cur \in Tasks
    BY CurIs DEF SyncInv, NotifyFit
  <2>. QED
    BY <1>1, <2>1, ValuesAre
<1>. QED
  BY <1>1, <1>2, SecondPartKeeps

LEMMA NotifyStateClearKeeps ==
    ASSUME SyncInv, NEW t \in Tasks, NotifyStateClear(t),
           UNCHANGED <<program, holder, held, bits, alive>>
    PROVE  SyncInv'
<1>1. /\ me.at = "user" /\ UNCHANGED <<k, pc, item, value>>
      /\ nstate' = [nstate EXCEPT ![t] = IF @ = "received" THEN "notWaiting" ELSE @]
  BY DEF NotifyStateClear, Is
<1>2. CallOK(me) /\ cur \in Tasks /\ pc \in [Tasks -> Calls] /\ me = pc[cur]
  BY CurIs DEF SyncInv, CallsFit
<1>3. pc' = [pc EXCEPT ![cur] = me]
  BY <1>1, <1>2
<1>4. ToSet(k.pending) = {} /\ Fit(k)
  BY <1>1, AtRun DEF Suspending
<1>5. Goes({}, {}, me) /\ Steps(k, {}, {}, k')
  BY <1>1, <1>2, <1>3, <1>4, StayGoes, StepsSame DEF Suspending
<1>6. nstate' \in [Tasks -> NotifyStates] /\ \A u \in Tasks : nstate'[u] = "waiting" <=> nstate[u] = "waiting"
  BY <1>1 DEF SyncInv, NotifyFit, NotifyStates
<1>7. NotifyFit'
  BY <1>1, <1>4, <1>6 DEF SyncInv, NotifyFit
<1>. DEFINE p == me
<1>8. /\ me.at \in {"user", "second"} /\ p.at \in {"user", "second"} /\ Goes({}, {}, p)
      /\ Steps(k, {}, {}, k') /\ UNCHANGED <<item, holder, held, bits, alive>>
  BY <1>1, <1>5
<1>. HIDE DEF p
<1>. QED
  BY <1>7, <1>8, NotifyCallKeeps

\* What a notification writes
LEMMA UpdateIs ==
    ASSUME SyncInv, NEW t \in Tasks, NEW action \in program.actions, NEW x \in Values,
           Update(t, action, x)
    PROVE  /\ value' \in [Tasks -> Values] /\ nstate' \in [Tasks -> NotifyStates]
           /\ nstate'[t] = "received" /\ \A u \in Tasks \ {t} : nstate'[u] = nstate[u]
<1>1. /\ action \in {"eNoAction", "eIncrement", "eSetValueWithOverwrite",
                     "eSetValueWithoutOverwrite"}
      /\ value \in [Tasks -> Values] /\ nstate \in [Tasks -> NotifyStates]
  BY SyncAssumption DEF SyncInv, NotifyFit
<1>2. nstate' = [nstate EXCEPT ![t] = "received"]
  BY DEF Update
<1>3. \E v \in Values : value' = [value EXCEPT ![t] = v]
  <2>1. CASE action = "eNoAction"
    BY <1>1, <2>1 DEF Update
  <2>2. CASE action = "eIncrement"
    <3>1. value[t] < MaxValue /\ value' = [value EXCEPT ![t] = value[t] + 1]
      BY <2>2 DEF Update
    <3>2. value[t] + 1 \in Values
      BY <1>1, <3>1, ValuesAre
    <3>. QED
      BY <3>1, <3>2
  <2>3. CASE action = "eSetValueWithOverwrite"
    BY <1>1, <2>3 DEF Update
  <2>4. CASE action = "eSetValueWithoutOverwrite"
    BY <1>1, <2>4 DEF Update
  <2>. QED
    BY <1>1, <2>1, <2>2, <2>3, <2>4
<1>. QED
  BY <1>1, <1>2, <1>3 DEF NotifyStates

\* The kernel after a notification: the task it was for is awake if it waited.
LEMMA NotifiedFit ==
    ASSUME SyncInv, NEW t \in Tasks, NEW action \in program.actions, NEW x \in Values,
           Update(t, action, x), pc' = pc, Kept(k, {}, {}, k'),
           nstate[t] = "waiting" => t \in AwakeIn(k'),
           \A u \in ToSet(k'.pending) : u \in ToSet(k.pending) \/ (u = t /\ nstate[t] = "waiting")
    PROVE  NotifyFit'
<1>1. /\ value' \in [Tasks -> Values] /\ nstate' \in [Tasks -> NotifyStates]
      /\ nstate'[t] = "received" /\ \A u \in Tasks \ {t} : nstate'[u] = nstate[u]
  BY UpdateIs
<1>2. /\ \A u \in Tasks : /\ nstate[u] = "waiting" => pc[u].at = "second"
                          /\ pc[u].at = "second" /\ nstate[u] # "waiting" => u \in AwakeIn(k)
      /\ \A u \in ToSet(k.pending) : pc[u].at = "second" /\ nstate[u] # "waiting"
      /\ ToSet(k.pending) \subseteq Tasks /\ AwakeIn(k) \subseteq AwakeIn(k')
  BY CurIs, TasksOf DEF SyncInv, NotifyFit, Kept
<1>3. \A u \in Tasks : /\ nstate'[u] = "waiting" => pc'[u].at = "second"
                       /\ pc'[u].at = "second" /\ nstate'[u] # "waiting" => u \in AwakeIn(k')
  <2>. TAKE u \in Tasks
  <2>1. CASE u = t
    BY <1>1, <1>2, <2>1
  <2>2. CASE u # t
    BY <1>1, <1>2, <2>2
  <2>. QED
    BY <2>1, <2>2
<1>4. \A u \in ToSet(k'.pending) : pc'[u].at = "second" /\ nstate'[u] # "waiting"
  <2>. TAKE u \in ToSet(k'.pending)
  <2>1. CASE u = t
    BY <1>1, <1>2, <2>1
  <2>2. CASE u # t
    BY <1>1, <1>2, <2>2
  <2>. QED
    BY <2>1, <2>2
<1>. QED
  BY <1>1, <1>3, <1>4 DEF NotifyFit

\* A task that waits for a notification waits for nothing else.
LEMMA WaitingIs ==
    ASSUME SyncInv, NEW t \in Tasks, nstate[t] = "waiting"
    PROVE  /\ \A e \in EventLists : t \notin ToSet(k.events[e])
           /\ t \notin ToSet(k.pending) /\ pc[t].at = "second"
<1>1. pc[t].at = "second" /\ t \notin ToSet(k.pending)
  BY DEF SyncInv, NotifyFit
<1>. QED
  BY <1>1 DEF SyncInv, Listed, OnList, Waits

\* What a notification does to the kernel, seen from any label
LEMMA NotifiedKeeps ==
    ASSUME SyncInv, NEW t \in Tasks, NEW action \in program.actions, NEW x \in Values,
           Update(t, action, x), pc' = pc, Fit(k'), Kept(k, {}, {}, k'),
           k'.prio = k.prio, k'.base = k.base,
           nstate[t] = "waiting" => t \in AwakeIn(k'),
           \A u \in ToSet(k'.pending) : u \in ToSet(k.pending) \/ (u = t /\ nstate[t] = "waiting"),
           k'.suspended = k.suspended,
           IF k.suspended = 1 THEN cur' = cur /\ ReadyTasks(k') = ReadyTasks(k)
                              ELSE cur' \in ReadyTasks(k') \/ cur' = cur,
           UNCHANGED <<program, item, holder, held, bits, alive>>
    PROVE  SyncInv'
<1>1. NotifyFit'
  BY NotifiedFit
<1>2. CallOK(me) /\ cur \in Tasks /\ pc \in [Tasks -> Calls] /\ me = pc[cur] /\ Fit(k)
  BY CurIs DEF SyncInv, CallsFit
<1>3. pc' = [pc EXCEPT ![cur] = me]
  BY <1>2
<1>4. cur = Idle => me.at = "user"
  BY NotIdle
<1>5. cur \in ReadyTasks(k) \/ me.at \in Waits
  BY <1>2 DEF SyncInv, Placed, Waits
<1>6. \/ k'.suspended = 0 /\ me.at \notin Suspending /\ cur' \in ReadyTasks(k')
      \/ /\ cur' = cur /\ k'.suspended = (IF me.at \in Suspending THEN 1 ELSE 0)
         /\ me.at \notin {"blocked", "yield"} => cur \in ReadyTasks(k')
  <2>1. CASE me.at \in Suspending
    BY <1>2, <2>1 DEF SyncInv, Placed
  <2>2. CASE me.at \notin Suspending
    <3>1. k.suspended = 0 /\ AwakeIn(k) = ReadyTasks(k) /\ (me.at \notin {"blocked", "yield"} => cur \in ReadyTasks(k))
      BY <2>2, AtRun
    <3>2. AwakeIn(k') = ReadyTasks(k')
      BY <3>1, FitRuns
    <3>. QED
      BY <2>2, <3>1, <3>2 DEF Kept
  <2>. QED
    BY <2>1, <2>2
<1>7. Goes({}, {}, me)
  BY <1>2, <1>3, <1>4, <1>5, <1>6 DEF Goes
<1>8. InWait(cur) <=> (me.op = "events" /\ me.at \in Waits)
  BY <1>2 DEF InWait, Waits
<1>. QED
  BY <1>1, <1>7, <1>8, QuietNotifyKeeps

\* xTaskGenericNotify
LEMMA NotifyKeeps ==
    ASSUME SyncInv, NEW t \in Tasks, NEW action \in program.actions, NEW x \in Values,
           Notify(t, action, x), UNCHANGED <<program, holder, held, bits, alive>>
    PROVE  SyncInv'
<1>. DEFINE r == Unblocked(k, t)
<1>1. /\ me.at = "user" /\ Update(t, action, x) /\ UNCHANGED <<pc, item>>
      /\ k' = IF nstate[t] # "waiting" THEN k
              ELSE IF k.prio[t] > k.prio[cur] THEN SwitchContext(r) ELSE r
  BY DEF Notify, Is
<1>2. k.suspended = 0 /\ Fit(k) /\ ToSet(k.pending) = {}
  BY <1>1, AtRun DEF Suspending
<1>3. CASE nstate[t] # "waiting"
  <2>1. k' = k /\ Kept(k, {}, {}, k)
    BY <1>1, <1>3, KeptSame
  <2>. QED
    BY <1>1, <1>2, <1>3, <2>1, NotifiedKeeps DEF cur
<1>4. CASE nstate[t] = "waiting"
  <2>1. /\ Steps(k, {}, {}, r) /\ r.suspended = 0 /\ r.cur = k.cur /\ t \in ReadyTasks(r)
    BY <1>2, <1>4, WaitingIs, UnblockedSteps
  <2>2. k' = r \/ k' = SwitchContext(r)
    BY <1>1, <1>4
  <2>. HIDE DEF r
  <2>3. /\ Steps(k, {}, {}, k') /\ k'.suspended = 0 /\ t \in ReadyTasks(k')
        /\ cur' \in ReadyTasks(k') \/ cur' = cur
    <3>1. CASE k' = r
      BY <2>1, <3>1 DEF cur
    <3>2. CASE k' = SwitchContext(r)
      <4>1. /\ Steps(r, {}, {}, k') /\ k'.suspended = 0 /\ ReadyTasks(k') = ReadyTasks(r)
            /\ k'.cur \in ReadyTasks(k')
        BY <2>1, <3>2, SwitchSteps DEF Steps, Moves
      <4>2. Steps(k, {}, {}, k')
        BY <2>1, <4>1, StepsBoth
      <4>. QED
        BY <2>1, <4>1, <4>2 DEF cur
    <3>. QED
      BY <2>2, <3>1, <3>2
  <2>4. /\ Fit(k') /\ Kept(k, {}, {}, k') /\ k'.prio = k.prio /\ k'.base = k.base
        /\ t \in AwakeIn(k') /\ ToSet(k'.pending) = {} /\ k'.suspended = k.suspended
    BY <1>2, <2>3 DEF Steps, Moves, AwakeIn
  <2>. QED
    BY <1>1, <1>2, <2>3, <2>4, NotifiedKeeps
<1>. QED
  BY <1>3, <1>4

\* xTaskGenericNotifyFromISR, vTaskNotifyGiveFromISR
LEMMA NotifyFromISRKeeps ==
    ASSUME SyncInv, NEW t \in Tasks, NEW action \in program.actions, NEW x \in Values,
           NotifyFromISR(t, action, x), UNCHANGED <<program, holder, held, bits, alive>>
    PROVE  SyncInv'
<1>. DEFINE r == IF k.suspended = 0 THEN Unblocked(k, t)
                 ELSE [k EXCEPT !.pending = Append(@, t)]
            y == [r EXCEPT !.yieldPending = TRUE]
<1>1. /\ Update(t, action, x) /\ UNCHANGED <<pc, item>>
      /\ nstate[t] # "waiting" => k' = k
      /\ nstate[t] = "waiting" => k' = r \/ k' = y \/ k' = SwitchContext(r)
  <2>1. Update(t, action, x) /\ UNCHANGED <<pc, item>>
    BY DEF NotifyFromISR
  <2>2. CASE nstate[t] # "waiting"
    BY <2>1, <2>2 DEF NotifyFromISR
  <2>3. CASE nstate[t] = "waiting"
    BY <2>1, <2>3 DEF NotifyFromISR
  <2>. QED
    BY <2>1, <2>2, <2>3
<1>2. Fit(k) /\ k.suspended \in 0..1
  BY DEF SyncInv, Fit
<1>3. CASE nstate[t] # "waiting"
  <2>1. k' = k /\ Kept(k, {}, {}, k)
    BY <1>1, <1>3, KeptSame
  <2>. QED
    BY <1>1, <1>2, <1>3, <2>1, NotifiedKeeps DEF cur
<1>4. CASE nstate[t] = "waiting"
  <2>1. /\ Fit(r) /\ Kept(k, {}, {}, r) /\ r.prio = k.prio /\ r.base = k.base
        /\ t \in AwakeIn(r) /\ ToSet(r.pending) \subseteq ToSet(k.pending) \cup {t}
        /\ r.suspended = k.suspended /\ r.cur = k.cur
        /\ k.suspended = 1 => ReadyTasks(r) = ReadyTasks(k)
    <3>1. CASE k.suspended = 0
      <4>1. r = Unblocked(k, t)
        BY <3>1
      <4>. HIDE DEF r
      <4>2. /\ Steps(k, {}, {}, r) /\ r.suspended = 0 /\ r.cur = k.cur /\ t \in ReadyTasks(r)
        BY <1>2, <1>4, <3>1, <4>1, WaitingIs, UnblockedSteps
      <4>. QED
        BY <3>1, <4>2 DEF Steps, Moves, AwakeIn
    <3>2. CASE k.suspended = 1
      <4>1. Pends(k, t, r)
        BY <3>2 DEF Pends
      <4>3. t \notin ToSet(k.pending) /\ Fit(k) /\ k.suspended = 1
        BY <1>2, <1>4, <3>2, WaitingIs
      <4>. HIDE DEF r
      <4>2. /\ Fit(r) /\ Kept(k, {}, {}, r) /\ r.prio = k.prio /\ r.base = k.base
            /\ ToSet(r.pending) = ToSet(k.pending) \cup {t} /\ r.suspended = 1 /\ r.cur = k.cur
            /\ ReadyTasks(r) = ReadyTasks(k)
        BY <4>1, <4>3, PendedIs
      <4>. QED
        BY <3>2, <4>2 DEF AwakeIn
    <3>. QED
      BY <1>2, <3>1, <3>2
  <2>2. k' = r \/ k' = y \/ k' = SwitchContext(r)
    BY <1>1, <1>4
  <2>3. y = [r EXCEPT !.yieldPending = TRUE]
    OBVIOUS
  <2>. HIDE DEF r, y
  <2>4. /\ Steps(r, {}, {}, k') /\ k'.suspended = r.suspended
        /\ IF r.suspended = 1 THEN k'.cur = r.cur /\ ReadyTasks(k') = ReadyTasks(r)
                              ELSE k'.cur \in ReadyTasks(k') \/ k'.cur = r.cur
        /\ ReadyTasks(k') = ReadyTasks(r) /\ ToSet(k'.pending) = ToSet(r.pending)
    <3>1. CASE k' = r
      BY <2>1, <3>1, StepsSame
    <3>2. CASE k' = y
      <4>1. /\ Steps(r, {}, {}, y) /\ y.suspended = r.suspended /\ y.cur = r.cur
            /\ y.pending = r.pending /\ ReadyTasks(y) = ReadyTasks(r)
        BY <2>1, <2>3, FlagSteps
      <4>. QED
        BY <3>2, <4>1
    <3>3. CASE k' = SwitchContext(r)
      BY <2>1, <3>3, SwitchSteps
    <3>. QED
      BY <2>2, <3>1, <3>2, <3>3
  <2>5. Kept(k, {}, {}, k')
    BY <2>1, <2>4, KeptBoth DEF Steps, Moves
  <2>6. /\ Fit(k') /\ k'.prio = k.prio /\ k'.base = k.base /\ t \in AwakeIn(k')
        /\ k'.suspended = k.suspended
    BY <2>1, <2>4 DEF Steps, Moves, AwakeIn
  <2>7. \A u \in ToSet(k'.pending) : u \in ToSet(k.pending) \/ (u = t /\ nstate[t] = "waiting")
    BY <1>4, <2>1, <2>4
  <2>8. IF k.suspended = 1 THEN cur' = cur /\ ReadyTasks(k') = ReadyTasks(k)
                           ELSE cur' \in ReadyTasks(k') \/ cur' = cur
    BY <2>1, <2>4 DEF cur
  <2>. QED
    BY <1>1, <2>5, <2>6, <2>7, <2>8, NotifiedKeeps
<1>. QED
  BY <1>3, <1>4

\* malloc() and free()
LEMMA SuspendedKeeps ==
    ASSUME SyncInv, Suspended, UNCHANGED <<program, holder, held, bits, alive>>
    PROVE  SyncInv'
<1>. DEFINE p == [User EXCEPT !.at = "suspended", !.op = "malloc"]
<1>1. /\ me.at = "user" /\ cur \in program.notifiers /\ k' = SuspendAll(k)
      /\ pc' = [pc EXCEPT ![cur] = p] /\ UNCHANGED <<item, value, nstate>>
  BY DEF Suspended, Is, Goto
<1>2. p \in Calls /\ p.at = "suspended" /\ p.op = "malloc"
  BY UserIs DEF Calls, Labels, Suspending
<1>. HIDE DEF p
<1>3. CallOK(p) /\ cur # Idle
  BY <1>1, <1>2, NotIdle DEF CallOK, Waits
<1>4. /\ Goes({}, {}, p) /\ k'.prio = k.prio /\ k'.base = k.base
      /\ ToSet(k'.pending) \subseteq ToSet(k.pending)
  BY <1>1, <1>2, <1>3, SuspendGoes DEF Suspending
<1>5. me.at \notin Waits /\ ~InWait(cur)
  BY <1>1, CurIs DEF InWait, Waits
<1>. QED
  BY <1>1, <1>2, <1>4, <1>5, QuietKeeps DEF Tries

LEMMA ResumeSuspendedKeeps ==
    ASSUME SyncInv, ResumeSuspended, UNCHANGED <<program, holder, held, bits, alive>>
    PROVE  SyncInv'
<1>1. /\ me.at = "suspended" /\ k' = ResumeAll(k)
      /\ pc' = [pc EXCEPT ![cur] = User] /\ UNCHANGED <<item, value, nstate>>
  BY DEF ResumeSuspended, Is, Goto
<1>2. /\ Goes({}, {}, User) /\ k'.prio = k.prio /\ k'.base = k.base
      /\ ToSet(k'.pending) \subseteq ToSet(k.pending)
  BY <1>1, UserIs, ResumeGoes DEF Suspending
<1>. QED
  BY <1>1, <1>2, UserIs, CurIs, QuietKeeps DEF InWait, Tries, Waits

-----------------------------------------------------------------------------
(* The invariant *)

LEMMA InitHolds == Init => SyncInv
<1>. SUFFICES ASSUME Init PROVE SyncInv
  OBVIOUS
<1>1. PICK order \in SetToSeqs(Tasks \ {Idle}) : k = StartedWith(Append(order, Idle), InitPrio)
  BY DEF Init, InitKernel
<1>2. /\ Idle \in Tasks /\ InitPrio \in [Tasks -> Priorities] /\ IsFiniteSet(Tasks)
      /\ MaxPended \in Nat /\ Priorities \subseteq Int /\ Tasks \ {Idle} \in SUBSET Tasks
  BY KernelCallsAssumption, TaskListsAssumption
<1>3. order \in Seq(Tasks) /\ IsInjective(order) /\ ToSet(order) = Tasks \ {Idle}
  BY <1>2, OrderIs
<1>. DEFINE s == Append(order, Idle)
<1>4. s \in Seq(Tasks) /\ IsInjective(s) /\ ToSet(s) = Tasks
  <2>1. Idle \notin ToSet(order)
    BY <1>3
  <2>2. s \in Seq(Tasks) /\ IsInjective(s) /\ ToSet(s) = ToSet(order) \cup {Idle}
    BY <1>2, <1>3, <2>1, AppendIs
  <2>. QED
    BY <1>2, <1>3, <2>2
<1>5. Started(Tasks, InitPrio, k)
  <2>1. s # <<>> /\ k = StartedWith(s, InitPrio)
    BY <1>1, <1>2, <1>4 DEF ToSet
  <2>. HIDE DEF s
  <2>. QED
    BY <1>2, <1>4, <2>1, StartedWithIs
<1>6. Sound(k) /\ DelayedTasks(k) = {} /\ ReadyTasks(k) = Tasks
  BY <1>2, <1>5, StartedSound
<1>7. /\ k.pending = <<>> /\ k.suspended = 0 /\ k.pendedTicks = 0 /\ k.prio = InitPrio
      /\ k.base = InitPrio /\ \A e \in EventLists : k.events[e] = <<>>
  BY <1>5 DEF Started
<1>8. ToSet(k.pending) = {} /\ \A e \in EventLists : ToSet(k.events[e]) = {}
  BY <1>7 DEF ToSet
<1>9. Fit(k)
  BY <1>2, <1>6, <1>7, SoundLoose DEF Fit
<1>10. cur \in Tasks /\ pc = [t \in Tasks |-> User] /\ item = [t \in Tasks |-> NotInUse]
  <2>1. Loose(k)
    BY <1>9 DEF Fit
  <2>. QED
    BY <2>1, TasksOf DEF Init, InitKernel, Loose, cur
<1>11. CallsFit /\ Placed /\ Listed
  <2>1. User \in Calls /\ CallOK(User) /\ User.at = "user"
    BY UserIs
  <2>2. CallsFit
    BY <1>2, <1>10, <2>1 DEF CallsFit
  <2>3. Placed
    BY <1>6, <1>7, <1>10, <2>1 DEF Placed, Suspending
  <2>4. Listed
    BY <1>8 DEF Listed
  <2>. QED
    BY <2>2, <2>3, <2>4
<1>12. MutexFit
  <2>1. holder = [m \in Mutex |-> NoTask] /\ held = [t \in Tasks |-> 0]
    BY DEF Init, InitMutexes
  <2>2. \A t \in Tasks : {m \in Mutex : holder[m] = t} = {}
    BY <2>1, MutexAssumption
  <2>3. \A t \in Tasks : held[t] = Cardinality({m \in Mutex : holder[m] = t})
    BY <2>1, <2>2, FS_EmptySet
  <2>4. \A t \in Tasks : k.prio[t] \in Int
    BY <1>2, <1>7
  <2>. QED
    BY <1>7, <2>1, <2>3, <2>4 DEF MutexFit, MutexTypeOK
<1>13. FreeFit
  BY <1>7, MutexAssumption DEF FreeFit, FreeAt
<1>14. GroupFit
  <2>1. bits = {} /\ alive = TRUE /\ ToSet(Waiting(k)) = {}
    BY <1>8, EventGroupAssumption DEF Init, InitEvents, Waiting
  <2>2. NotInUse \in Items
    BY DEF NotInUse, Items
  <2>3. \A t \in Tasks : ItemFit(t)
    BY <1>10, UserIs DEF ItemFit, InWait, NotInUse
  <2>. QED
    BY <1>10, <2>1, <2>2, <2>3 DEF GroupFit
<1>15. NotifyFit
  <2>1. 0 \in Values
    BY NotifyAssumption DEF Values
  <2>. QED
    BY <1>8, <1>10, <2>1, UserIs DEF NotifyFit, Init, InitNotify, NotifyStates
<1>16. program \in Programs
  BY DEF Init, InitKernel
<1>. QED
  BY <1>9, <1>11, <1>12, <1>13, <1>14, <1>15, <1>16 DEF SyncInv

LEMMA MutexStepKeeps ==
    ASSUME SyncInv, MutexStep, UNCHANGED <<program, bits, alive, value, nstate>>
    PROVE  SyncInv'
<1>1. CASE \E m \in Mutex, n \in program.waits : CallTake(m, n)
  BY <1>1, CallTakeKeeps
<1>2. CASE Take
  BY <1>2, TakeKeeps
<1>3. CASE NotTaken
  BY <1>3, NotTakenKeeps
<1>4. CASE Expire
  BY <1>4, ExpireKeeps
<1>5. CASE TryAgain
  BY <1>5, TryAgainKeeps
<1>6. CASE Block
  BY <1>6, BlockKeeps
<1>7. CASE (ResumeBlocked("mutex") \/ YieldWithinApi("mutex")) /\ UNCHANGED mutexVars
  BY <1>7, ResumeBlockedKeeps, YieldWithinApiKeeps DEF mutexVars
<1>8. CASE ResumeUnblocked
  BY <1>8, ResumeUnblockedKeeps
<1>9. CASE Recheck
  BY <1>9, RecheckKeeps
<1>10. CASE \E m \in Mutex : Give(m)
  BY <1>10, GiveKeeps
<1>. QED
  BY <1>1, <1>2, <1>3, <1>4, <1>5, <1>6, <1>7, <1>8, <1>9, <1>10 DEF MutexStep

LEMMA EventStepKeeps ==
    ASSUME SyncInv, EventStep, UNCHANGED <<program, holder, held, value, nstate>>
    PROVE  SyncInv'
<1>1. CASE \E s \in SUBSET Bits : SetBits(s) \/ ClearBits(s)
  BY <1>1, SetBitsKeeps, ClearBitsKeeps
<1>2. CASE \E c \in Conditions, n \in program.waits : WaitBits(c, n)
  BY <1>2, WaitBitsKeeps
<1>3. CASE \E s, f \in SUBSET Bits, n \in program.waits : GroupSync(s, f, n)
  BY <1>3, GroupSyncKeeps
<1>4. CASE ResumeReturn
  BY <1>4, ResumeReturnKeeps
<1>5. CASE WokenByBits
  BY <1>5, WokenByBitsKeeps
<1>6. CASE WokenByTimeout
  BY <1>6, WokenByTimeoutKeeps
<1>7. CASE DeleteGroup
  BY <1>7, DeleteGroupKeeps
<1>8. CASE (ResumeBlocked("events") \/ YieldWithinApi("events")) /\ UNCHANGED eventVars
  BY <1>8, ResumeBlockedKeeps, YieldWithinApiKeeps DEF eventVars
<1>. QED
  BY <1>1, <1>2, <1>3, <1>4, <1>5, <1>6, <1>7, <1>8 DEF EventStep

LEMMA NotifyStepKeeps ==
    ASSUME SyncInv, NotifyStep \/ NotifyInterrupt, UNCHANGED <<program, holder, held, bits, alive>>
    PROVE  SyncInv'
<1>1. CASE \E n \in program.waits : NotifyTake(n)
  BY <1>1, NotifyTakeKeeps
<1>2. CASE \E n \in program.waits : \E b \in program.clearing : NotifyWait(n, b)
  BY <1>2, NotifyWaitKeeps
<1>3. CASE \E b \in program.clearing : NotifyTaken(b) \/ NotifyWaited(b)
  BY <1>3, NotifyTakenKeeps, NotifyWaitedKeeps
<1>4. CASE \E t \in Tasks : NotifyStateClear(t)
  BY <1>4, NotifyStateClearKeeps
<1>5. CASE \E t \in Tasks, action \in program.actions, x \in Values : Notify(t, action, x)
  BY <1>5, NotifyKeeps
<1>6. CASE Suspended \/ ResumeSuspended
  BY <1>6, SuspendedKeeps, ResumeSuspendedKeeps
<1>7. CASE NotifyInterrupt
  BY <1>7, NotifyFromISRKeeps DEF NotifyInterrupt
<1>. QED
  BY <1>1, <1>2, <1>3, <1>4, <1>5, <1>6, <1>7 DEF NotifyStep

\* When nothing changes
LEMMA StutterKeeps ==
    ASSUME SyncInv, UNCHANGED vars
    PROVE  SyncInv'
<1>1. /\ k' = k /\ pc' = pc /\ item' = item /\ holder' = holder /\ held' = held
      /\ bits' = bits /\ alive' = alive /\ value' = value /\ nstate' = nstate
      /\ program' = program
  BY DEF vars
<1>2. CallsFit' /\ Placed' /\ Listed'
  BY <1>1 DEF SyncInv, CallsFit, Placed, Listed, cur
<1>3. MutexFit' /\ FreeFit'
  BY <1>1 DEF SyncInv, MutexFit, MutexTypeOK, FreeFit, FreeAt
<1>4. GroupFit'
  BY <1>1 DEF SyncInv, GroupFit, ItemFit, InWait, Waiting
<1>5. NotifyFit'
  BY <1>1 DEF SyncInv, NotifyFit
<1>6. Fit(k') /\ program' \in Programs
  BY <1>1 DEF SyncInv
<1>. QED
  BY <1>2, <1>3, <1>4, <1>5, <1>6 DEF SyncInv

LEMMA NextKeeps ==
    ASSUME SyncInv, [Next]_vars
    PROVE  SyncInv'
<1>1. CASE MutexStep /\ UNCHANGED <<bits, alive, value, nstate>> /\ UNCHANGED program
  BY <1>1, MutexStepKeeps
<1>2. CASE EventStep /\ UNCHANGED <<holder, held, value, nstate>> /\ UNCHANGED program
  BY <1>2, EventStepKeeps
<1>3. CASE (NotifyStep \/ NotifyInterrupt) /\ UNCHANGED <<holder, held, bits, alive>>
           /\ UNCHANGED program
  BY <1>3, NotifyStepKeeps
<1>4. CASE /\ TickISR \/ \E n \in Ticks : Delay(n)
           /\ UNCHANGED <<holder, held, bits, alive, value, nstate>> /\ UNCHANGED program
  BY <1>4, TickKeeps, DelayKeeps
<1>5. CASE UNCHANGED vars
  BY <1>5, StutterKeeps
<1>. QED
  BY <1>1, <1>2, <1>3, <1>4, <1>5 DEF Next

\* SyncInv is an invariant: the lists of the kernel, the priorities, the mutexes, the
\* event list items and the notification states agree with where each task is inside
\* its call, after every step of tasks, interrupts and ticks.
THEOREM SyncInvariant == Spec => []SyncInv
<1>1. SyncInv /\ [Next]_vars => SyncInv'
  BY NextKeeps
<1>. QED
  BY <1>1, InitHolds, PTL DEF Spec

-----------------------------------------------------------------------------
(* What follows from it in every state *)

LEMMA InvBoostEnds == SyncInv => BoostEnds
<1>. SUFFICES ASSUME SyncInv PROVE BoostEnds
  OBVIOUS
<1>1. Loose(k) /\ MutexFit
  BY DEF SyncInv, Fit
<1>2. \A p \in Priorities : \A t \in ToSet(k.ready[p].items) : k.prio[t] = p
  BY <1>1 DEF Loose, Apart
<1>. QED
  BY <1>1, <1>2 DEF BoostEnds, MutexFit

LEMMA InvFreeMutexTried == SyncInv => FreeMutexTried
<1>. SUFFICES ASSUME SyncInv, NEW m \in Mutex, holder[m] = NoTask, k.events[m] # <<>>
              PROVE  \E t \in Tasks : /\ pc[t].op = "mutex" /\ pc[t].arg = m
                                      /\ pc[t].at \notin {"expired", "recheck"} /\ Awake(t)
  BY DEF FreeMutexTried
<1>1. PICK t \in Tasks : Tries(pc[t], m) /\ t \in AwakeIn(k)
  BY DEF SyncInv, FreeFit, FreeAt
<1>. QED
  BY <1>1 DEF Tries, Waits, AwakeIn, Awake

LEMMA InvNoneSleeps == SyncInv => NoneSleepsOnMetCondition
<1>. SUFFICES ASSUME SyncInv PROVE NoneSleepsOnMetCondition
  OBVIOUS
<1>1. alive => \A t \in ToSet(Waiting(k)) : ~Met(bits, item[t])
  BY DEF SyncInv, GroupFit
<1>2. ASSUME NEW t \in Tasks, InWait(t)
      PROVE  /\ item[t].inUse
             /\ item[t].unblocked => (alive => Met(item[t].for, pc[t].arg))
             /\ item[t].unblocked => Awake(t) /\ t \notin ToSet(Waiting(k))
  <2>1. ItemFit(t) /\ item[t] \in Items
    BY DEF SyncInv, GroupFit
  <2>. QED
    BY <1>2, <2>1 DEF ItemFit, Awake, AwakeIn
<1>. QED
  BY <1>1, <1>2 DEF NoneSleepsOnMetCondition

LEMMA InvNotifiedAwake == SyncInv => NotifiedAwake
<1>. SUFFICES ASSUME SyncInv PROVE NotifiedAwake
  OBVIOUS
<1>1. Loose(k) /\ WellFormed(k) /\ cur \in Tasks /\ Fit(k)
  BY CurIs DEF SyncInv
<1>2. KernelTypeOK
  <2>1. k.suspended \in 0..1 /\ k.pendedTicks \in 0..MaxPended
    <3>1. k.pendedTicks \in Nat /\ MaxPended \in Nat
      BY <1>1, KernelFields, KernelCallsAssumption DEF WellFormed
    <3>. QED
      BY <1>1, <3>1 DEF Fit
  <2>2. ASSUME NEW e \in EventLists PROVE ToSet(k.events[e]) \subseteq Tasks \ {Idle}
    BY <1>1, ListedAsleep DEF Fit
  <2>3. ASSUME NEW t \in Tasks, item[t].inUse PROVE pc[t].op = "events"
    <3>1. ItemFit(t)
      BY DEF SyncInv, GroupFit
    <3>. QED
      BY <2>3, <3>1 DEF ItemFit, InWait
  <2>. QED
    BY <1>1, <2>1, <2>2, <2>3 DEF KernelTypeOK, SyncInv
<1>3. NotifyTypeOK
  BY DEF NotifyTypeOK, SyncInv, NotifyFit
<1>4. PendedOnce
  <2>1. IsInjective(k.pending) /\ k.pending \in Seq(Tasks)
    BY <1>1, KernelFields DEF WellFormed
  <2>. SUFFICES ASSUME NEW i \in DOMAIN k.pending, NEW j \in DOMAIN k.pending
                PROVE  /\ k.pending[i] = k.pending[j] => i = j
                       /\ k.suspended > 0 /\ pc[k.pending[i]].at = "second"
    BY DEF PendedOnce
  <2>2. k.pending[i] = k.pending[j] => i = j
    BY <2>1 DEF IsInjective
  <2>3. k.pending[i] \in ToSet(k.pending)
    BY <2>1 DEF ToSet
  <2>4. pc[k.pending[i]].at = "second"
    BY <2>3 DEF SyncInv, NotifyFit
  <2>5. k.suspended > 0
    <3>1. k.pending # <<>>
      BY <2>1
    <3>. QED
      BY <1>1, <3>1 DEF Fit
  <2>. QED
    BY <2>2, <2>4, <2>5
<1>5. \A t \in Tasks : (pc[t].at = "second" /\ nstate[t] # "waiting") => Awake(t)
  BY DEF SyncInv, NotifyFit, Awake, AwakeIn
<1>. QED
  BY <1>2, <1>3, <1>4, <1>5 DEF NotifiedAwake

\* BoostEnds: a task that holds no mutex runs at its own priority, one that does at no
\* lower one, and a ready task is in the list of the priority it runs at, which is what
\* uxMutexesHeld and the moves of vTaskPriorityInherit and xTaskPriorityDisinherit are for.
THEOREM MutexBoostEnds == Spec => []BoostEnds
  BY SyncInvariant, InvBoostEnds, PTL

\* FreeMutexTried: while tasks wait for a mutex that is free, an awake task is inside
\* its wait for it, or about to try again: xQueueGenericSend wakes one of them, and
\* whoever finds the mutex taken again gives it up only with a further wake-up.
THEOREM MutexFreeTried == Spec => []FreeMutexTried
  BY SyncInvariant, InvFreeMutexTried, PTL

\* NoneSleepsOnMetCondition: no task sleeps in xEventGroupWaitBits or xEventGroupSync
\* while the group's bits meet its condition, and one that was woken by bits is awake
\* and finds in its item bits that meet it.
THEOREM EventsNoneSleeps == Spec => []NoneSleepsOnMetCondition
  BY SyncInvariant, InvNoneSleeps, PTL

\* NotifiedAwake: a task that is notified inside ulTaskNotifyTake or xTaskNotifyWait is
\* ready, or on xPendingReadyList, where it is once, while the scheduler is suspended.
THEOREM NotifyKeepsAwake == Spec => []NotifiedAwake
  BY SyncInvariant, InvNotifiedAwake, PTL

-----------------------------------------------------------------------------
(* One xEventGroupSetBits serves all waiters alike *)

\* What the waiter u is told about its bits holds for every other waiter, t.
Served(t, u) ==
    (alive' /\ item'[u].unblocked /\ Met(item'[u].for, item[t])) => t \notin ToSet(Waiting(k'))

LEMMA WokenServes ==
    ASSUME SyncInv, NEW t \in ToSet(Waiting(k)), NEW u \in ToSet(Waiting(k)),
           NEW b, NEW W, W = Matched(k, b), item'[u] = WakeItems(W, b)[u],
           ToSet(Waiting(k')) \subseteq (ToSet(Waiting(k)) \ W) \cup {cur},
           cur \notin ToSet(Waiting(k))
    PROVE  Served(t, u)
<1>. SUFFICES ASSUME item'[u].unblocked, Met(item'[u].for, item[t])
              PROVE  t \notin ToSet(Waiting(k'))
  BY DEF Served
<1>1. u \in Tasks /\ item[u].unblocked = FALSE
  <2>1. u \in Tasks /\ ~item[u].unblocked /\ item[u] = InItem(pc[u].arg)
    BY GroupWaiters
  <2>. QED
    BY <2>1 DEF InItem
<1>2. item'[u] = IF u \in W THEN UnblockedBy(b) ELSE item[u]
  BY <1>1 DEF WakeItems
<1>3. item'[u] = UnblockedBy(b)
  BY <1>1, <1>2
<1>4. Met(b, item[t])
  BY <1>3 DEF UnblockedBy
<1>5. t \in W
  BY <1>4 DEF Matched
<1>. QED
  BY <1>5

\* An action that tells nobody anything
LEMMA QuietServes ==
    ASSUME SyncInv, NEW t \in ToSet(Waiting(k)), NEW u \in ToSet(Waiting(k)),
           item'[u] = item[u] \/ item'[u].unblocked = FALSE
    PROVE  Served(t, u)
  BY GroupWaiters DEF Served

LEMMA MutexStepQuiet == MutexStep => item' = item
  BY DEF MutexStep, CallTake, Take, NotTaken, Expire, TryAgain, Block, ResumeBlocked,
         YieldWithinApi, ResumeUnblocked, Recheck, Give

LEMMA NotifyStepQuiet == NotifyStep \/ NotifyInterrupt => item' = item
  BY DEF NotifyStep, NotifyInterrupt, NotifyTake, NotifyWait, NotifyTaken, NotifyWaited,
         NotifyStateClear, Notify, NotifyFromISR, Suspended, ResumeSuspended

LEMMA SetBitsServes ==
    ASSUME SyncInv, NEW s \in SUBSET Bits, SetBits(s), program' = program,
           NEW t \in ToSet(Waiting(k)), NEW u \in ToSet(Waiting(k))
    PROVE  Served(t, u)
<1>. DEFINE b == bits \cup s
            W == Matched(k, b)
<1>1. /\ me.at = "user" /\ alive /\ k' = Unblock(SuspendAll(k), W) /\ item' = WakeItems(W, b)
  BY DEF SetBits, Is
<1>2. b \subseteq Bits /\ cur \notin ToSet(Waiting(k))
  BY <1>1, UserListed, EventGroupAssumption DEF SyncInv, GroupFit, Waits, Waiting
<1>3. Woke(W, k')
  <2>. HIDE DEF b
  <2>. QED
    BY <1>1, <1>2, SetsBits
<1>4. ToSet(Waiting(k')) = ToSet(Waiting(k)) \ W
  BY <1>3, EventGroupAssumption DEF Woke, Waiting
<1>5. W = Matched(k, b) /\ item'[u] = WakeItems(W, b)[u]
  BY <1>1
<1>. HIDE DEF b, W
<1>. QED
  BY <1>2, <1>4, <1>5, WokenServes

LEMMA GroupSyncServes ==
    ASSUME SyncInv, NEW s \in SUBSET Bits, NEW f \in SUBSET Bits, NEW n \in program.waits,
           GroupSync(s, f, n), program' = program,
           NEW t \in ToSet(Waiting(k)), NEW u \in ToSet(Waiting(k))
    PROVE  Served(t, u)
<1>. DEFINE b == bits \cup s
            W == Matched(k, b)
            r == Unblock(SuspendAll(k), W)
            c == Rendezvous(f)
<1>1. /\ me.at = "user" /\ alive /\ <<s, f>> \in program.syncs[cur]
  BY DEF GroupSync, Is
<1>2. /\ b \subseteq Bits /\ cur \notin ToSet(Waiting(k)) /\ cur # Idle /\ n \in Ticks
      /\ item \in [Tasks -> Items]
  BY <1>1, UserListed, EventGroupAssumption, NotIdle, SyncAssumption
  DEF SyncInv, GroupFit, Waits, Waiting
<1>3. \/ k' = r /\ item' = WakeItems(W, b)
      \/ /\ ~(f \subseteq b) /\ n # 0 /\ PlaceWaiter(r, c, n)
         /\ item' = [WakeItems(W, b) EXCEPT ![cur] = InItem(c)]
  <2>1. CASE f \subseteq b
    BY <2>1 DEF GroupSync
  <2>2. CASE ~(f \subseteq b)
    BY <2>2 DEF GroupSync
  <2>. QED
    BY <2>1, <2>2
<1>4. W \subseteq ToSet(Waiting(k)) /\ Woke(W, r)
  <2>. HIDE DEF b
  <2>. QED
    BY <1>1, <1>2, SetsBits
<1>5. item'[u] = WakeItems(W, b)[u]
  <2>1. u \in Tasks /\ u # cur
    BY <1>2, GroupWaiters
  <2>2. DOMAIN WakeItems(W, b) = Tasks
    BY DEF WakeItems
  <2>. HIDE DEF W, b, r, c
  <2>. QED
    BY <1>3, <2>1, <2>2
<1>6. ~(f \subseteq b) => c \in Conditions
  <2>. HIDE DEF b
  <2>1. ASSUME ~(f \subseteq b) PROVE f \in (SUBSET Bits) \ {{}}
    BY <2>1
  <2>. QED
    BY <2>1 DEF Rendezvous, Conditions
<1>7. W = Matched(k, b)
  OBVIOUS
<1>. HIDE DEF b, W, r, c
<1>8. ToSet(Waiting(k')) \subseteq (ToSet(Waiting(k)) \ W) \cup {cur}
  <2>1. CASE k' = r
    BY <1>4, <2>1, EventGroupAssumption DEF Woke, Waiting
  <2>2. CASE ~(f \subseteq b) /\ n # 0 /\ PlaceWaiter(r, c, n)
    <3>1. c \in Conditions /\ n \in Ticks \ {0}
      BY <1>2, <1>6, <2>2
    <3>. QED
      BY <1>1, <1>2, <1>4, <2>2, <3>1, PlaceGoes
  <2>. QED
    BY <1>3, <2>1, <2>2
<1>. QED
  BY <1>2, <1>5, <1>7, <1>8, WokenServes

LEMMA EventStepServes ==
    ASSUME SyncInv, EventStep, program' = program,
           NEW t \in ToSet(Waiting(k)), NEW u \in ToSet(Waiting(k))
    PROVE  Served(t, u)
<1>1. u \in Tasks /\ item \in [Tasks -> Items]
  BY GroupWaiters DEF SyncInv, GroupFit
<1>2. CASE \E s \in SUBSET Bits : SetBits(s)
  BY <1>2, SetBitsServes
<1>3. CASE \E s, f \in SUBSET Bits, n \in program.waits : GroupSync(s, f, n)
  BY <1>3, GroupSyncServes
<1>4. ASSUME NEW x, item' = item \/ item' = [item EXCEPT ![cur] = x], x.unblocked = FALSE
      PROVE  Served(t, u)
  <2>1. item'[u] = item[u] \/ item'[u] = x
    BY <1>1, <1>4
  <2>. QED
    BY <1>4, <2>1, QuietServes
<1>5. NotInUse.unblocked = FALSE /\ \A c : InItem(c).unblocked = FALSE
  BY DEF NotInUse, InItem
<1>6. CASE \E s \in SUBSET Bits : ClearBits(s)
  BY <1>4, <1>5, <1>6 DEF ClearBits
<1>7. CASE \E c \in Conditions, n \in program.waits : WaitBits(c, n)
  <2>1. PICK c \in Conditions, n \in program.waits : WaitBits(c, n)
    BY <1>7
  <2>2. item' = item \/ item' = [item EXCEPT ![cur] = InItem(c)]
    BY <2>1 DEF WaitBits
  <2>. QED
    BY <1>4, <1>5, <2>2
<1>8. CASE ResumeReturn \/ ResumeBlocked("events") \/ YieldWithinApi("events")
  BY <1>4, <1>5, <1>8 DEF ResumeReturn, ResumeBlocked, YieldWithinApi
<1>9. CASE WokenByBits \/ WokenByTimeout
  BY <1>4, <1>5, <1>9 DEF WokenByBits, WokenByTimeout, ResetItem
<1>10. CASE DeleteGroup
  BY <1>10 DEF DeleteGroup, Served
<1>. QED
  BY <1>2, <1>3, <1>6, <1>7, <1>8, <1>9, <1>10 DEF EventStep

LEMMA NextServes ==
    ASSUME SyncInv, [Next]_vars, NEW t \in ToSet(Waiting(k)), NEW u \in ToSet(Waiting(k))
    PROVE  Served(t, u)
<1>1. CASE item' = item
  BY <1>1, QuietServes
<1>2. CASE MutexStep \/ NotifyStep \/ NotifyInterrupt
  BY <1>1, <1>2, MutexStepQuiet, NotifyStepQuiet
<1>3. CASE EventStep /\ UNCHANGED program
  BY <1>3, EventStepServes
<1>4. CASE TickISR \/ \E n \in Ticks : Delay(n)
  BY <1>1, <1>4 DEF TickISR, Delay
<1>5. CASE UNCHANGED vars
  BY <1>1, <1>5 DEF vars
<1>. QED
  BY <1>2, <1>3, <1>4, <1>5 DEF Next

\* SetReachesAll: a call of xEventGroupSetBits or xEventGroupSync that wakes one task
\* wakes every task whose condition the bits it passes on meet, since the bits to clear
\* are cleared only after the loop over the waiting tasks.
THEOREM EventsReachAll == Spec => SetReachesAll
<1>1. SyncInv /\ [Next]_vars =>
        [\A t, u \in ToSet(Waiting(k)) :
            (alive' /\ item'[u].unblocked /\ Met(item'[u].for, item[t]))
                => t \notin ToSet(Waiting(k'))]_<<k, alive, item>>
  BY NextServes DEF Served
<1>. QED
  BY <1>1, SyncInvariant, PTL DEF Spec, SetReachesAll

=============================================================================
