---------------------------- MODULE PortCritical ----------------------------
(***************************************************************************)
(* The critical sections and the context switch of the Raspberry Pi port   *)
(* (portable/GCC/RaspberryPi/portisr.c, portmacro.h, port.c) together with *)
(* the second, independent critical section of the USB library             *)
(* (lan9514/lib/synchronize.c), which wraps malloc() and free().           *)
(*                                                                         *)
(* Each task runs an arbitrary well-bracketed sequence of kernel sections  *)
(* and heap calls, in one another or not; `frames' is its stack of open    *)
(* brackets.  The USB interrupt calls free() itself.  The processor's I    *)
(* bit is `irqMasked': an interrupt (the 1 kHz tick, whose handler always  *)
(* switches context, or the USB interrupt) strikes between any two steps   *)
(* taken with the bit clear.  vPortEnterCritical() is modelled at the      *)
(* granularity at which its global s_bWereEnabled can be overwritten.      *)
(***************************************************************************)
EXTENDS Naturals, Sequences, FiniteSets

CONSTANTS
    PortTasks,    \* the tasks created by main()
    MaxFrames     \* bound: how deep a task nests sections and heap calls

ASSUME PortTasksAssumption == PortTasks # {}
ASSUME FramesAssumption == MaxFrames \in Nat \ {0}

VARIABLES
    running,           \* pxCurrentTCB
    irqMasked,         \* I bit of the CPSR while it runs
    ulCriticalNesting, \* the global counter, swapped with the context
    s_bWereEnabled,    \* portisr.c: one global for every task
    ctx,               \* what portSAVE_CONTEXT left on each task's stack
    portPc,            \* where each task is inside vPortEnter/ExitCritical
    nFlags,            \* vPortEnterCritical's local copy of the I bit
    frames,            \* the brackets each task has open, innermost last
    uspi               \* synchronize.c: s_nCriticalLevel, s_bWereEnabled

portVars == <<running, irqMasked, ulCriticalNesting, s_bWereEnabled, ctx,
              portPc, nFlags, frames, uspi>>

Labels == {"run", "store", "test", "mask", "exit"}
Kinds == {"port", "uspi"}

\* portisr.c, portmacro.h: the variables keep their ranges.  No section is ever
\* counted twice: vPortEnterCritical counts only what it masks.
PortTypeOK ==
    /\ running \in PortTasks
    /\ irqMasked \in BOOLEAN
    /\ ulCriticalNesting \in 0..1
    /\ s_bWereEnabled \in BOOLEAN
    /\ ctx \in [PortTasks -> [masked : BOOLEAN, nesting : 0..1]]
    /\ portPc \in [PortTasks -> Labels]
    /\ nFlags \in [PortTasks -> BOOLEAN]
    /\ frames \in [PortTasks -> Seq(Kinds)]
    /\ uspi \in [level : Nat, wereEnabled : BOOLEAN]

(***************************************************************************)
(* pxPortInitialiseStack gives every task a context with interrupts        *)
(* enabled and a nesting count of zero; vPortISRStartFirstTask restores    *)
(* the first one.                                                          *)
(***************************************************************************)
InitialContext == [masked |-> FALSE, nesting |-> 0]

PortInit ==
    /\ running \in PortTasks
    /\ irqMasked = FALSE
    /\ ulCriticalNesting = 0
    /\ s_bWereEnabled = FALSE
    /\ ctx = [t \in PortTasks |-> InitialContext]
    /\ portPc = [t \in PortTasks |-> "run"]
    /\ nFlags = [t \in PortTasks |-> FALSE]
    /\ frames = [t \in PortTasks |-> <<>>]
    /\ uspi = [level |-> 0, wereEnabled |-> FALSE]

Innermost(t) == frames[t][Len(frames[t])]
Count(t, kind) == Cardinality({i \in DOMAIN frames[t] : frames[t][i] = kind})
PortFrames(t) == Count(t, "port")
UspiFrames(t) == Count(t, "uspi")
Open(t, kind) == frames' = [frames EXCEPT ![t] = Append(@, kind)]
Close(t) == frames' = [frames EXCEPT ![t] = SubSeq(@, 1, Len(@) - 1)]
Reach(t, l) == portPc' = [portPc EXCEPT ![t] = l]

-----------------------------------------------------------------------------
(* vPortEnterCritical *)

\* mrs nFlags, cpsr: called by the kernel functions a task uses, and inside
\* malloc()/free() by xTaskResumeAll()
ReadCpsr(t) ==
    /\ portPc[t] = "run"
    /\ Len(frames[t]) < MaxFrames
    /\ nFlags' = [nFlags EXCEPT ![t] = irqMasked]
    /\ Reach(t, "store")
    /\ UNCHANGED <<running, irqMasked, ulCriticalNesting, s_bWereEnabled, ctx,
                   frames, uspi>>

\* s_bWereEnabled = nFlags & 0x80 ? 0 : 1
StoreWereEnabled(t) ==
    /\ portPc[t] = "store"
    /\ s_bWereEnabled' = ~nFlags[t]
    /\ Reach(t, "test")
    /\ UNCHANGED <<running, irqMasked, ulCriticalNesting, ctx, nFlags, frames,
                   uspi>>

\* if(!s_bWereEnabled) return: the section is entered without counting it
TestWereEnabled(t) ==
    /\ portPc[t] = "test"
    /\ IF s_bWereEnabled
       THEN Reach(t, "mask") /\ UNCHANGED frames
       ELSE Reach(t, "run") /\ Open(t, "port")
    /\ UNCHANGED <<running, irqMasked, ulCriticalNesting, s_bWereEnabled, ctx,
                   nFlags, uspi>>

\* MSR CPSR with the I bit set, then ulCriticalNesting++
MaskAndCount(t) ==
    /\ portPc[t] = "mask"
    /\ irqMasked' = TRUE
    /\ ulCriticalNesting' = ulCriticalNesting + 1
    /\ Open(t, "port")
    /\ Reach(t, "run")
    /\ UNCHANGED <<running, s_bWereEnabled, ctx, nFlags, uspi>>

EnterSteps(t) ==
    StoreWereEnabled(t) \/ TestWereEnabled(t) \/ MaskAndCount(t)

-----------------------------------------------------------------------------
(* vPortExitCritical *)

\* if(!s_bWereEnabled) return: nothing is counted down, nothing unmasked
ExitTest(t) ==
    /\ portPc[t] = "run"
    /\ frames[t] # <<>> /\ Innermost(t) = "port"
    /\ IF s_bWereEnabled
       THEN Reach(t, "exit") /\ UNCHANGED frames
       ELSE Close(t) /\ UNCHANGED portPc
    /\ UNCHANGED <<running, irqMasked, ulCriticalNesting, s_bWereEnabled, ctx,
                   nFlags, uspi>>

\* Mutants of CountDown: the count is not written back; the test for zero
\* is made before the decrement.
CountDownForgotten(t) ==
    /\ portPc[t] = "exit"
    /\ irqMasked' = (irqMasked /\ ulCriticalNesting = 0)
    /\ Close(t)
    /\ Reach(t, "run")
    /\ UNCHANGED <<running, ulCriticalNesting, s_bWereEnabled, ctx, nFlags, uspi>>

CountDownLate(t) ==
    /\ portPc[t] = "exit"
    /\ ulCriticalNesting' = ulCriticalNesting - 1
    /\ irqMasked' = (irqMasked /\ ulCriticalNesting # 0)
    /\ Close(t)
    /\ Reach(t, "run")
    /\ UNCHANGED <<running, s_bWereEnabled, ctx, nFlags, uspi>>

\* count down; unmask when the count reaches portNO_CRITICAL_NESTING
CountDown(t) ==
    /\ portPc[t] = "exit"
    /\ IF ulCriticalNesting > 0
       THEN /\ ulCriticalNesting' = ulCriticalNesting - 1
            /\ irqMasked' = (irqMasked /\ ulCriticalNesting # 1)
       ELSE UNCHANGED <<ulCriticalNesting, irqMasked>>
    /\ Close(t)
    /\ Reach(t, "run")
    /\ UNCHANGED <<running, s_bWereEnabled, ctx, nFlags, uspi>>

-----------------------------------------------------------------------------
(* uspi_EnterCritical / uspi_LeaveCritical, around every malloc and free.  *)
(* The mask precedes every access to the globals, so each is one step.     *)

\* Mutant of UspiEnter: the flag is saved at every level, not at the first.
UspiEnterSavesAlways(t) ==
    /\ portPc[t] = "run"
    /\ Len(frames[t]) < MaxFrames
    /\ irqMasked' = TRUE
    /\ uspi' = [level |-> uspi.level + 1, wereEnabled |-> ~irqMasked]
    /\ Open(t, "uspi")
    /\ UNCHANGED <<running, ulCriticalNesting, s_bWereEnabled, ctx, portPc, nFlags>>

UspiEnter(t) ==
    /\ portPc[t] = "run"
    /\ Len(frames[t]) < MaxFrames
    /\ irqMasked' = TRUE
    /\ uspi' = [level |-> uspi.level + 1,
                wereEnabled |-> IF uspi.level = 0 THEN ~irqMasked
                                                  ELSE uspi.wereEnabled]
    /\ Open(t, "uspi")
    /\ UNCHANGED <<running, ulCriticalNesting, s_bWereEnabled, ctx, portPc, nFlags>>

UspiLeave(t) ==
    /\ portPc[t] = "run"
    /\ frames[t] # <<>> /\ Innermost(t) = "uspi"
    /\ uspi.level > 0
    /\ uspi' = [uspi EXCEPT !.level = @ - 1]
    /\ irqMasked' = IF uspi.level = 1 THEN ~uspi.wereEnabled ELSE irqMasked
    /\ Close(t)
    /\ UNCHANGED <<running, ulCriticalNesting, s_bWereEnabled, ctx, portPc, nFlags>>

-----------------------------------------------------------------------------
(* portSAVE_CONTEXT; vTaskSwapContext; portRESTORE_CONTEXT.  The choice   *)
(* of the next task belongs to the scheduler's model: here it is any task. *)

\* Mutants of SwapContext: the handler's CPSR is saved in place of the SPSR;
\* ulCriticalNesting is not reloaded.
SwitchSavingCpsr(u) ==
    /\ ctx' = [ctx EXCEPT ![running] = [masked |-> TRUE,
                                    nesting |-> ulCriticalNesting]]
    /\ running' = u
    /\ irqMasked' = ctx'[u].masked
    /\ ulCriticalNesting' = ctx'[u].nesting

SwitchWithoutNesting(u) ==
    /\ ctx' = [ctx EXCEPT ![running] = [masked |-> irqMasked,
                                    nesting |-> ulCriticalNesting]]
    /\ running' = u
    /\ irqMasked' = ctx'[u].masked
    /\ UNCHANGED ulCriticalNesting

SwapContext(u) ==
    LET saved == [ctx EXCEPT ![running] = [masked |-> irqMasked,
                                       nesting |-> ulCriticalNesting]]
    IN /\ ctx' = saved
       /\ running' = u
       /\ irqMasked' = saved[u].masked
       /\ ulCriticalNesting' = saved[u].nesting

\* portYIELD(): SWI 0, taken by the running task itself, masked or not.  The
\* xTaskResumeAll() of a heap call finds no tick and no yield pending, because
\* nothing can pend one after the mask: it does not yield.
PortYield(t, u) ==
    /\ portPc[t] = "run"
    /\ UspiFrames(t) = 0
    /\ SwapContext(u)
    /\ UNCHANGED <<s_bWereEnabled, portPc, nFlags, frames, uspi>>

\* vFreeRTOS_ISR with vTickISR: taken between any two unmasked steps
TickInterrupt(u) ==
    /\ ~irqMasked
    /\ SwapContext(u)
    /\ UNCHANGED <<s_bWereEnabled, portPc, nFlags, frames, uspi>>

\* The USB interrupt frees a block: uspi_EnterCritical, vPortFree with the
\* vPortEnterCritical/vPortExitCritical pair of its xTaskResumeAll run with
\* the I bit set, uspi_LeaveCritical; then the interrupted task goes on.
UsbInterrupt ==
    /\ ~irqMasked
    /\ s_bWereEnabled' = FALSE
    /\ uspi' = [uspi EXCEPT !.wereEnabled = IF uspi.level = 0 THEN FALSE ELSE @]
    /\ UNCHANGED <<running, irqMasked, ulCriticalNesting, ctx, portPc, nFlags, frames>>

-----------------------------------------------------------------------------
TaskStep(t) ==
    \/ ReadCpsr(t)
    \/ StoreWereEnabled(t)
    \/ TestWereEnabled(t)
    \/ MaskAndCount(t)
    \/ ExitTest(t)
    \/ CountDown(t)
    \/ UspiEnter(t)
    \/ UspiLeave(t)
    \/ \E u \in PortTasks : PortYield(t, u)

PortNext ==
    \/ TaskStep(running)
    \/ \E u \in PortTasks : TickInterrupt(u)
    \/ UsbInterrupt

\* The processor goes on: a call of vPortEnterCritical() that the running task
\* has begun takes its next step, and a bracket that is its innermost one again
\* and again, with others opened and closed inside it, is closed at last.
Closing(n) ==
    /\ Len(frames[running]) = n
    /\ ExitTest(running) \/ CountDown(running) \/ UspiLeave(running)

PortFairness ==
    /\ WF_portVars(EnterSteps(running))
    /\ \A n \in 1..MaxFrames : SF_portVars(Closing(n))

PortSpec == PortInit /\ [][PortNext]_portVars

-----------------------------------------------------------------------------
(* Properties *)

\* portisr.c:204: "Increment ulCriticalNesting to keep a count of how many times
\* portENTER_CRITICAL() has been called": of what vPortEnterCritical() did to a
\* task the count is the only record, and it is swapped with the mask.  Whatever
\* the other tasks, the tick and the USB interrupt did to the shared flag, a
\* task outside a heap call is masked exactly if its count is not zero, and so
\* are the contexts of the others.
MaskCounted ==
    /\ uspi.level = 0 => (irqMasked <=> ulCriticalNesting = 1)
    /\ \A t \in PortTasks \ {running} : ctx[t].masked <=> ctx[t].nesting = 1

\* uspibind.c:139: a task inside malloc() or free() has the processor to itself,
\* also while xTaskResumeAll() enters and leaves a section of the port there; the
\* level that all tasks share is that of its own brackets; and the last
\* uspi_LeaveCritical() will find saved what the mask was at the first enter.
HeapCallsMasked ==
    /\ uspi.level = UspiFrames(running)
    /\ \A t \in PortTasks \ {running} : UspiFrames(t) = 0
    /\ uspi.level > 0 => irqMasked /\ (uspi.wereEnabled <=> ulCriticalNesting = 0)

\* Interrupts that only a heap call has masked (no section is counted) are
\* served again later on (synchronize.c:53).
HeapCallsReopen == (irqMasked /\ ulCriticalNesting = 0) ~> ~irqMasked

\* task.h:208: "Preemptive context switches cannot occur when in a critical
\* region": whenever the running task is inside a bracket, interrupts are
\* masked, so no tick can take the processor from it.
CriticalSectionMasked == frames[running] # <<>> => irqMasked
=============================================================================
