----------------------- MODULE PortUsb_proofs -----------------------
(***************************************************************************)
(* Proofs about the two parts of the system that interrupts reach first.   *)
(*                                                                         *)
(* The critical sections of the port share their flag with every task and  *)
(* with the USB interrupt, and so a section need not be masked (the run    *)
(* port_shared).  What holds for every set of tasks and every nesting of   *)
(* sections and heap calls is proved here: the count of a task says        *)
(* whether it is masked, and a heap call has the processor to itself.      *)
(*                                                                         *)
(* The USB host's task, interrupt handler and controller agree on the      *)
(* channels, whatever their number, the devices and the lengths of the     *)
(* transfers: StagesOwned and TogglesAgree, from an invariant that says of *)
(* each stage what the registers of its channel may hold.                  *)
(***************************************************************************)
EXTENDS PortCritical, UsbHost, FiniteSetTheorems, WellFoundedInduction, TLAPS

-----------------------------------------------------------------------------
(* The critical sections *)

\* What a task knows where it stands in the two functions of portisr.c.  It can
\* lose the processor there only while it is not masked, so the mask it comes
\* back to is the one it read.
Positions ==
    /\ portPc[running] = "store" => (nFlags[running] <=> irqMasked)
    /\ (portPc[running] = "test" /\ irqMasked) => ~s_bWereEnabled
    /\ portPc[running] = "mask" => ~irqMasked
    /\ portPc[running] = "exit" => uspi.level = 0
    /\ \A t \in PortTasks \ {running} :
          /\ portPc[t] # "run" => ~ctx[t].masked
          /\ portPc[t] = "store" => ~nFlags[t]
    /\ \A t \in PortTasks : portPc[t] = "exit" => frames[t] # <<>> /\ Innermost(t) = "port"

\* s has a kernel section that was entered inside a heap call.
PortOverUspi(s) ==
    \E i, j \in DOMAIN s : i < j /\ s[i] = "uspi" /\ s[j] = "port"

\* Inside a heap call every vPortEnterCritical() stores FALSE, and nobody else
\* runs to store anything else.
FlagInHeapCall == PortOverUspi(frames[running]) => ~s_bWereEnabled

PortInv ==
    PortTypeOK /\ MaskCounted /\ HeapCallsMasked /\ Positions /\ FlagInHeapCall

-----------------------------------------------------------------------------
(* Brackets that are opened and closed *)

Of(s, k) == Cardinality({i \in DOMAIN s : s[i] = k})

LEMMA CountIsNat ==
    ASSUME NEW s \in Seq(Kinds), NEW k
    PROVE  /\ Of(s, k) \in Nat
           /\ Of(s, k) = 0 <=> \A i \in DOMAIN s : s[i] # k
<1> DEFINE S == {i \in DOMAIN s : s[i] = k}
<1>1. IsFiniteSet(1..Len(s))
  BY FS_Interval
<1>2. S \subseteq 1..Len(s)
  OBVIOUS
<1>3. IsFiniteSet(S)
  BY <1>1, <1>2, FS_Subset
<1>4. Cardinality(S) \in Nat /\ (Cardinality(S) = 0 <=> S = {})
  BY <1>3, FS_CardinalityType, FS_EmptySet
<1> QED
  BY <1>4 DEF Of

LEMMA OpenCounts ==
    ASSUME NEW s \in Seq(Kinds), NEW e \in Kinds, NEW k
    PROVE  /\ Append(s, e) \in Seq(Kinds)
           /\ Of(Append(s, e), k) = IF e = k THEN Of(s, k) + 1 ELSE Of(s, k)
<1> DEFINE S == {i \in DOMAIN s : s[i] = k}
           n == Len(s) + 1
           T == {i \in DOMAIN Append(s, e) : Append(s, e)[i] = k}
<1>1. IsFiniteSet(S)
  <2>1. IsFiniteSet(1..Len(s)) /\ S \subseteq 1..Len(s)
    BY FS_Interval
  <2> QED
    BY <2>1, FS_Subset
<1>2. T = IF e = k THEN S \cup {n} ELSE S
  OBVIOUS
<1>3. n \notin S
  OBVIOUS
<1>4. Cardinality(S \cup {n}) = Cardinality(S) + 1
  BY <1>1, <1>3, FS_AddElement
<1>5. Cardinality(T) = IF e = k THEN Cardinality(S) + 1 ELSE Cardinality(S)
  BY <1>2, <1>4
<1>6. Of(Append(s, e), k) = Cardinality(T) /\ Of(s, k) = Cardinality(S)
  BY DEF Of
<1>7. Append(s, e) \in Seq(Kinds)
  OBVIOUS
<1> HIDE DEF S, T, n
<1> QED
  BY <1>5, <1>6, <1>7

LEMMA CloseCounts ==
    ASSUME NEW s \in Seq(Kinds), s # <<>>, NEW k
    PROVE  LET p == SubSeq(s, 1, Len(s) - 1)
           IN  /\ p \in Seq(Kinds)
               /\ Of(s, k) = IF s[Len(s)] = k THEN Of(p, k) + 1 ELSE Of(p, k)
<1> DEFINE p == SubSeq(s, 1, Len(s) - 1)
           e == s[Len(s)]
<1>1. Len(s) \in Nat \ {0} /\ e \in Kinds
  OBVIOUS
<1>2. p \in Seq(Kinds)
  BY <1>1
<1>3. Append(p, e) = s
  BY <1>1
<1>4. Of(Append(p, e), k) = IF e = k THEN Of(p, k) + 1 ELSE Of(p, k)
  BY <1>1, <1>2, OpenCounts
<1> QED
  BY <1>2, <1>3, <1>4

LEMMA OverAfterOpen ==
    ASSUME NEW s \in Seq(Kinds), NEW e \in Kinds, PortOverUspi(Append(s, e))
    PROVE  PortOverUspi(s) \/ (e = "port" /\ Of(s, "uspi") # 0)
<1>1. PICK i, j \in DOMAIN Append(s, e) :
           i < j /\ Append(s, e)[i] = "uspi" /\ Append(s, e)[j] = "port"
  BY DEF PortOverUspi
<1>2. i \in DOMAIN s /\ s[i] = "uspi"
  BY <1>1
<1>3. Of(s, "uspi") # 0
  BY <1>2, CountIsNat
<1>4. CASE j \in DOMAIN s
  BY <1>1, <1>2, <1>4 DEF PortOverUspi
<1>5. CASE j \notin DOMAIN s
  BY <1>1, <1>3, <1>5
<1> QED
  BY <1>4, <1>5

LEMMA OverAfterClose ==
    ASSUME NEW s \in Seq(Kinds), s # <<>>, PortOverUspi(SubSeq(s, 1, Len(s) - 1))
    PROVE  PortOverUspi(s)
<1> DEFINE p == SubSeq(s, 1, Len(s) - 1)
<1>1. PICK i, j \in DOMAIN p : i < j /\ p[i] = "uspi" /\ p[j] = "port"
  BY DEF PortOverUspi
<1>2. i \in DOMAIN s /\ j \in DOMAIN s /\ s[i] = "uspi" /\ s[j] = "port"
  BY <1>1
<1> QED
  BY <1>1, <1>2 DEF PortOverUspi

\* A section whose enter was made inside a heap call is over its bracket.
LEMMA InnermostOver ==
    ASSUME NEW s \in Seq(Kinds), s # <<>>, s[Len(s)] = "port", Of(s, "uspi") # 0
    PROVE  PortOverUspi(s)
<1>1. PICK i \in DOMAIN s : s[i] = "uspi"
  BY CountIsNat
<1>2. i < Len(s) /\ Len(s) \in DOMAIN s
  BY <1>1
<1> QED
  BY <1>1, <1>2 DEF PortOverUspi

-----------------------------------------------------------------------------
(* The invariant *)

LEMMA PortInitInv == PortInit => PortInv
<1> SUFFICES ASSUME PortInit PROVE PortInv
  OBVIOUS
<1>1. \A t \in PortTasks : frames[t] = <<>> /\ ctx[t] = InitialContext /\ portPc[t] = "run"
  BY DEF PortInit
<1>2. running \in PortTasks
  BY DEF PortInit
<1>3. <<>> \in Seq(Kinds) /\ \A k : Of(<<>>, k) = 0
  <2>1. <<>> \in Seq(Kinds)
    OBVIOUS
  <2>2. \A k : \A i \in DOMAIN <<>> : <<>>[i] # k
    OBVIOUS
  <2> QED
    BY <2>1, <2>2, CountIsNat
<1>4. PortTypeOK
  <2>1. InitialContext \in [masked : BOOLEAN, nesting : 0..1]
    BY DEF InitialContext
  <2>2. ctx \in [PortTasks -> [masked : BOOLEAN, nesting : 0..1]]
    BY <2>1 DEF PortInit
  <2>3. frames \in [PortTasks -> Seq(Kinds)]
    BY <1>3 DEF PortInit
  <2>4. uspi \in [level : Nat, wereEnabled : BOOLEAN]
    BY DEF PortInit
  <2>5. portPc \in [PortTasks -> Labels] /\ nFlags \in [PortTasks -> BOOLEAN]
    BY DEF PortInit, Labels
  <2>6. ulCriticalNesting \in 0..1
    BY DEF PortInit
  <2>7. irqMasked \in BOOLEAN /\ s_bWereEnabled \in BOOLEAN
    BY Zenon DEF PortInit
  <2> QED
    BY <1>2, <2>2, <2>3, <2>4, <2>5, <2>6, <2>7 DEF PortTypeOK
<1>5. MaskCounted
  BY <1>1 DEF PortInit, MaskCounted, InitialContext
<1>6. HeapCallsMasked
  <2>1. \A t \in PortTasks : UspiFrames(t) = 0
    BY <1>1, <1>3 DEF UspiFrames, Count, Of
  <2>2. uspi.level = 0
    BY DEF PortInit
  <2> QED
    BY <1>2, <2>1, <2>2 DEF HeapCallsMasked
<1>7. Positions
  BY <1>1, <1>2 DEF Positions, InitialContext
<1>8. FlagInHeapCall
  BY DEF PortInit, FlagInHeapCall
<1> QED
  BY <1>4, <1>5, <1>6, <1>7, <1>8 DEF PortInv

\* The brackets of the running task after it opened or closed one.
LEMMA FramesOpened ==
    ASSUME PortInv, NEW e \in Kinds, Open(running, e)
    PROVE  /\ frames' \in [PortTasks -> Seq(Kinds)]
           /\ frames'[running] = Append(frames[running], e)
           /\ frames'[running] # <<>>
           /\ frames'[running][Len(frames'[running])] = e
           /\ \A t \in PortTasks \ {running} : frames'[t] = frames[t]
           /\ Of(frames'[running], "uspi")
                 = IF e = "uspi" THEN Of(frames[running], "uspi") + 1
                                 ELSE Of(frames[running], "uspi")
<1>1. running \in PortTasks /\ frames \in [PortTasks -> Seq(Kinds)]
  BY DEF PortInv, PortTypeOK
<1>2. frames' = [frames EXCEPT ![running] = Append(frames[running], e)]
  BY DEF Open
<1>3. frames'[running] = Append(frames[running], e)
  BY <1>1, <1>2
<1>4. /\ Append(frames[running], e) \in Seq(Kinds)
      /\ Of(Append(frames[running], e), "uspi")
            = IF e = "uspi" THEN Of(frames[running], "uspi") + 1
                            ELSE Of(frames[running], "uspi")
  BY <1>1, OpenCounts
<1>5. frames' \in [PortTasks -> Seq(Kinds)]
  BY <1>1, <1>2, <1>4
<1>6. \A t \in PortTasks \ {running} : frames'[t] = frames[t]
  BY <1>1, <1>2
<1>7. LET s == Append(frames[running], e) IN s # <<>> /\ s[Len(s)] = e
  BY <1>1
<1> QED
  BY <1>3, <1>4, <1>5, <1>6, <1>7

LEMMA FramesClosed ==
    ASSUME PortInv, frames[running] # <<>>, Close(running)
    PROVE  /\ frames' \in [PortTasks -> Seq(Kinds)]
           /\ frames'[running] = SubSeq(frames[running], 1, Len(frames[running]) - 1)
           /\ \A t \in PortTasks \ {running} : frames'[t] = frames[t]
           /\ Of(frames[running], "uspi")
                 = IF Innermost(running) = "uspi" THEN Of(frames'[running], "uspi") + 1
                                                  ELSE Of(frames'[running], "uspi")
           /\ Of(frames'[running], "uspi") \in Nat
<1> DEFINE p == SubSeq(frames[running], 1, Len(frames[running]) - 1)
<1>1. running \in PortTasks /\ frames \in [PortTasks -> Seq(Kinds)]
  BY DEF PortInv, PortTypeOK
<1>2. frames' = [frames EXCEPT ![running] = p]
  BY DEF Close
<1>3. frames'[running] = p
  BY <1>1, <1>2
<1>4. /\ p \in Seq(Kinds)
      /\ Of(frames[running], "uspi")
            = IF frames[running][Len(frames[running])] = "uspi" THEN Of(p, "uspi") + 1
                                                                ELSE Of(p, "uspi")
  BY <1>1, CloseCounts
<1>5. frames' \in [PortTasks -> Seq(Kinds)]
  BY <1>1, <1>2, <1>4
<1>6. \A t \in PortTasks \ {running} : frames'[t] = frames[t]
  BY <1>1, <1>2
<1>7. Of(p, "uspi") \in Nat
  BY <1>4, CountIsNat
<1> QED
  BY <1>3, <1>4, <1>5, <1>6, <1>7 DEF Innermost

LEMMA PortStepInv == PortInv /\ [PortNext]_portVars => PortInv'
<1> SUFFICES ASSUME PortInv, [PortNext]_portVars PROVE PortInv'
  OBVIOUS
<1>0. /\ running \in PortTasks /\ irqMasked \in BOOLEAN /\ ulCriticalNesting \in 0..1
      /\ s_bWereEnabled \in BOOLEAN
      /\ ctx \in [PortTasks -> [masked : BOOLEAN, nesting : 0..1]]
      /\ portPc \in [PortTasks -> Labels] /\ nFlags \in [PortTasks -> BOOLEAN]
      /\ frames \in [PortTasks -> Seq(Kinds)]
      /\ uspi \in [level : Nat, wereEnabled : BOOLEAN]
  BY DEF PortInv, PortTypeOK
<1>m. /\ uspi.level = 0 => (irqMasked <=> ulCriticalNesting = 1)
      /\ \A t \in PortTasks \ {running} : ctx[t].masked <=> ctx[t].nesting = 1
  BY DEF PortInv, MaskCounted
<1>h. /\ uspi.level = Of(frames[running], "uspi")
      /\ \A t \in PortTasks \ {running} : Of(frames[t], "uspi") = 0
      /\ uspi.level > 0 => irqMasked /\ (uspi.wereEnabled <=> ulCriticalNesting = 0)
  BY DEF PortInv, HeapCallsMasked, UspiFrames, Count, Of
<1>p. /\ portPc[running] = "store" => (nFlags[running] <=> irqMasked)
      /\ (portPc[running] = "test" /\ irqMasked) => ~s_bWereEnabled
      /\ portPc[running] = "mask" => ~irqMasked
      /\ portPc[running] = "exit" => uspi.level = 0
      /\ \A t \in PortTasks \ {running} :
            /\ portPc[t] # "run" => ~ctx[t].masked
            /\ portPc[t] = "store" => ~nFlags[t]
      /\ \A t \in PortTasks :
            portPc[t] = "exit"
               => frames[t] # <<>> /\ frames[t][Len(frames[t])] = "port"
  BY DEF PortInv, Positions, Innermost
<1>f. PortOverUspi(frames[running]) => ~s_bWereEnabled
  BY DEF PortInv, FlagInHeapCall
<1>k. "port" \in Kinds /\ "uspi" \in Kinds
  BY DEF Kinds
\* Where the running task goes on to the label l.
<1>g. ASSUME NEW l \in Labels, Reach(running, l)
      PROVE  /\ portPc' \in [PortTasks -> Labels] /\ portPc'[running] = l
             /\ \A t \in PortTasks \ {running} : portPc'[t] = portPc[t]
  BY <1>0, <1>g DEF Reach
<1>q. HeapCallsMasked' <=>
         /\ uspi'.level = Of(frames'[running'], "uspi")
         /\ \A t \in PortTasks \ {running'} : Of(frames'[t], "uspi") = 0
         /\ uspi'.level > 0 => irqMasked' /\ (uspi'.wereEnabled <=> ulCriticalNesting' = 0)
  BY DEF HeapCallsMasked, UspiFrames, Count, Of
<1>1. CASE ReadCpsr(running)
  <2>1. /\ UNCHANGED <<running, irqMasked, ulCriticalNesting, s_bWereEnabled, ctx, frames, uspi>>
        /\ nFlags' = [nFlags EXCEPT ![running] = irqMasked] /\ Reach(running, "store")
    BY <1>1 DEF ReadCpsr
  <2>2. /\ portPc' \in [PortTasks -> Labels] /\ portPc'[running] = "store"
        /\ \A t \in PortTasks \ {running} : portPc'[t] = portPc[t]
    BY <2>1, <1>g DEF Labels
  <2>3. /\ nFlags' \in [PortTasks -> BOOLEAN] /\ nFlags'[running] = irqMasked
        /\ \A t \in PortTasks \ {running} : nFlags'[t] = nFlags[t]
    BY <1>0, <2>1
  <2>4. PortTypeOK'
    BY <1>0, <2>1, <2>2, <2>3 DEF PortTypeOK
  <2>5. MaskCounted' /\ HeapCallsMasked' /\ FlagInHeapCall'
    BY <1>m, <1>h, <1>f, <2>1
    DEF MaskCounted, HeapCallsMasked, UspiFrames, Count, Of, FlagInHeapCall
  <2>6. Positions'
    BY <1>0, <1>p, <2>1, <2>2, <2>3 DEF Positions, Innermost
  <2> QED
    BY <2>4, <2>5, <2>6 DEF PortInv
<1>2. CASE StoreWereEnabled(running)
  <2>1. /\ UNCHANGED <<running, irqMasked, ulCriticalNesting, ctx, nFlags, frames, uspi>>
        /\ portPc[running] = "store" /\ s_bWereEnabled' = ~nFlags[running]
        /\ Reach(running, "test")
    BY <1>2 DEF StoreWereEnabled
  <2>2. /\ portPc' \in [PortTasks -> Labels] /\ portPc'[running] = "test"
        /\ \A t \in PortTasks \ {running} : portPc'[t] = portPc[t]
    BY <2>1, <1>g DEF Labels
  <2>3. s_bWereEnabled' \in BOOLEAN /\ (irqMasked => ~s_bWereEnabled')
    BY <1>0, <1>p, <2>1
  <2>4. PortTypeOK'
    BY <1>0, <2>1, <2>2, <2>3 DEF PortTypeOK
  <2>5. MaskCounted' /\ HeapCallsMasked'
    BY <1>m, <1>h, <2>1 DEF MaskCounted, HeapCallsMasked, UspiFrames, Count, Of
  <2>6. FlagInHeapCall'
    <3>1. SUFFICES ASSUME PortOverUspi(frames[running]) PROVE ~s_bWereEnabled'
      BY <2>1 DEF FlagInHeapCall
    <3>2. Of(frames[running], "uspi") # 0
      BY <1>0, <3>1, CountIsNat DEF PortOverUspi
    <3>3. uspi.level > 0
      BY <1>0, <1>h, <3>2
    <3> QED
      BY <1>h, <2>3, <3>3
  <2>7. Positions'
    BY <1>0, <1>p, <2>1, <2>2, <2>3 DEF Positions, Innermost
  <2> QED
    BY <2>4, <2>5, <2>6, <2>7 DEF PortInv
<1>3. CASE TestWereEnabled(running)
  <2>1. /\ UNCHANGED <<running, irqMasked, ulCriticalNesting, s_bWereEnabled, ctx, nFlags, uspi>>
        /\ portPc[running] = "test"
    BY <1>3 DEF TestWereEnabled
  <2>2. CASE s_bWereEnabled
    <3>1. UNCHANGED frames /\ Reach(running, "mask") /\ ~irqMasked
      BY <1>3, <1>p, <2>1, <2>2 DEF TestWereEnabled
    <3>2. /\ portPc' \in [PortTasks -> Labels] /\ portPc'[running] = "mask"
          /\ \A t \in PortTasks \ {running} : portPc'[t] = portPc[t]
      BY <3>1, <1>g DEF Labels
    <3>3. PortTypeOK'
      BY <1>0, <2>1, <3>1, <3>2 DEF PortTypeOK
    <3>4. MaskCounted' /\ HeapCallsMasked' /\ FlagInHeapCall'
      BY <1>m, <1>h, <1>f, <2>1, <3>1
      DEF MaskCounted, HeapCallsMasked, UspiFrames, Count, Of, FlagInHeapCall
    <3>5. Positions'
      BY <1>0, <1>p, <2>1, <3>1, <3>2 DEF Positions, Innermost
    <3> QED
      BY <3>3, <3>4, <3>5 DEF PortInv
  <2>3. CASE ~s_bWereEnabled
    <3>1. Open(running, "port") /\ Reach(running, "run")
      BY <1>3, <2>3 DEF TestWereEnabled
    <3>2. /\ portPc' \in [PortTasks -> Labels] /\ portPc'[running] = "run"
          /\ \A t \in PortTasks \ {running} : portPc'[t] = portPc[t]
      BY <3>1, <1>g DEF Labels
    <3>3. /\ frames' \in [PortTasks -> Seq(Kinds)]
          /\ \A t \in PortTasks \ {running} : frames'[t] = frames[t]
          /\ Of(frames'[running], "uspi") = Of(frames[running], "uspi")
      BY <3>1, <1>k, FramesOpened
    <3>4. PortTypeOK'
      BY <1>0, <2>1, <3>2, <3>3 DEF PortTypeOK
    <3>5. MaskCounted' /\ FlagInHeapCall'
      BY <1>m, <2>1, <2>3 DEF MaskCounted, FlagInHeapCall
    <3>6. HeapCallsMasked'
      <4>1. \A t \in PortTasks : Of(frames'[t], "uspi") = Of(frames[t], "uspi")
        BY <3>3
      <4> QED
        BY <1>0, <1>h, <2>1, <4>1, <1>q
    <3>7. Positions'
      BY <1>0, <1>p, <2>1, <3>2, <3>3 DEF Positions, Innermost
    <3> QED
      BY <3>4, <3>5, <3>6, <3>7 DEF PortInv
  <2> QED
    BY <2>2, <2>3
<1>4. CASE MaskAndCount(running)
  <2>1. /\ UNCHANGED <<running, s_bWereEnabled, ctx, nFlags, uspi>>
        /\ portPc[running] = "mask" /\ irqMasked' = TRUE
        /\ ulCriticalNesting' = ulCriticalNesting + 1
        /\ Open(running, "port") /\ Reach(running, "run")
    BY <1>4 DEF MaskAndCount
  <2>2. uspi.level = 0 /\ ulCriticalNesting' = 1
    <3>1. ~irqMasked /\ uspi.level \in Nat
      BY <1>0, <1>p, <2>1
    <3>2. uspi.level = 0
      BY <1>h, <3>1
    <3>3. ulCriticalNesting = 0
      BY <1>0, <1>m, <3>1, <3>2
    <3> QED
      BY <2>1, <3>2, <3>3
  <2>3. /\ portPc' \in [PortTasks -> Labels] /\ portPc'[running] = "run"
        /\ \A t \in PortTasks \ {running} : portPc'[t] = portPc[t]
    BY <2>1, <1>g DEF Labels
  <2>4. /\ frames' \in [PortTasks -> Seq(Kinds)]
        /\ \A t \in PortTasks \ {running} : frames'[t] = frames[t]
        /\ Of(frames'[running], "uspi") = Of(frames[running], "uspi")
    BY <2>1, <1>k, FramesOpened
  <2>5. PortTypeOK'
    BY <1>0, <2>1, <2>2, <2>3, <2>4 DEF PortTypeOK
  <2>6. MaskCounted'
    BY <1>m, <2>1, <2>2 DEF MaskCounted
  <2>7. HeapCallsMasked'
    <3>1. \A t \in PortTasks : Of(frames'[t], "uspi") = Of(frames[t], "uspi")
      BY <2>4
    <3> QED
      BY <1>0, <1>h, <2>1, <2>2, <3>1, <1>q
  <2>8. FlagInHeapCall'
    <3>1. Of(frames'[running], "uspi") = 0
      BY <1>h, <2>2, <2>4
    <3>2. ~PortOverUspi(frames'[running])
      BY <1>0, <2>4, <3>1, CountIsNat DEF PortOverUspi
    <3> QED
      BY <2>1, <3>2 DEF FlagInHeapCall
  <2>9. Positions'
    BY <1>0, <1>p, <2>1, <2>3, <2>4 DEF Positions, Innermost
  <2> QED
    BY <2>5, <2>6, <2>7, <2>8, <2>9 DEF PortInv
<1>5. CASE ExitTest(running)
  <2>1. /\ UNCHANGED <<running, irqMasked, ulCriticalNesting, s_bWereEnabled, ctx, nFlags, uspi>>
        /\ portPc[running] = "run" /\ frames[running] # <<>>
        /\ frames[running][Len(frames[running])] = "port"
    BY <1>5 DEF ExitTest, Innermost
  <2>2. CASE s_bWereEnabled
    <3>1. UNCHANGED frames /\ Reach(running, "exit")
      BY <1>5, <2>2 DEF ExitTest
    <3>2. /\ portPc' \in [PortTasks -> Labels] /\ portPc'[running] = "exit"
          /\ \A t \in PortTasks \ {running} : portPc'[t] = portPc[t]
      BY <3>1, <1>g DEF Labels
    <3>3. uspi.level = 0
      <4>1. ~PortOverUspi(frames[running])
        BY <1>f, <2>2
      <4> QED
        BY <1>0, <1>h, <2>1, <4>1, InnermostOver
    <3>4. PortTypeOK'
      BY <1>0, <2>1, <3>1, <3>2 DEF PortTypeOK
    <3>5. MaskCounted' /\ HeapCallsMasked' /\ FlagInHeapCall'
      BY <1>m, <1>h, <1>f, <2>1, <3>1
      DEF MaskCounted, HeapCallsMasked, UspiFrames, Count, Of, FlagInHeapCall
    <3>6. Positions'
      BY <1>0, <1>p, <2>1, <3>1, <3>2, <3>3 DEF Positions, Innermost
    <3> QED
      BY <3>4, <3>5, <3>6 DEF PortInv
  <2>3. CASE ~s_bWereEnabled
    <3>1. Close(running) /\ UNCHANGED portPc
      BY <1>5, <2>3 DEF ExitTest
    <3>2. /\ frames' \in [PortTasks -> Seq(Kinds)]
          /\ \A t \in PortTasks \ {running} : frames'[t] = frames[t]
          /\ Of(frames'[running], "uspi") = Of(frames[running], "uspi")
      BY <2>1, <3>1, FramesClosed DEF Innermost
    <3>3. PortTypeOK'
      BY <1>0, <2>1, <3>1, <3>2 DEF PortTypeOK
    <3>4. MaskCounted' /\ FlagInHeapCall'
      BY <1>m, <2>1, <2>3 DEF MaskCounted, FlagInHeapCall
    <3>5. HeapCallsMasked'
      <4>1. \A t \in PortTasks : Of(frames'[t], "uspi") = Of(frames[t], "uspi")
        BY <3>2
      <4> QED
        BY <1>0, <1>h, <2>1, <4>1, <1>q
    <3>6. Positions'
      BY <1>0, <1>p, <2>1, <3>1, <3>2 DEF Positions, Innermost
    <3> QED
      BY <3>3, <3>4, <3>5, <3>6 DEF PortInv
  <2> QED
    BY <2>2, <2>3
<1>6. CASE CountDown(running)
  <2>1. /\ UNCHANGED <<running, s_bWereEnabled, ctx, nFlags, uspi>>
        /\ portPc[running] = "exit" /\ Close(running) /\ Reach(running, "run")
    BY <1>6 DEF CountDown
  <2>2. uspi.level = 0 /\ frames[running] # <<>> /\ frames[running][Len(frames[running])] = "port"
    BY <1>0, <1>p, <2>1
  <2>3. irqMasked <=> ulCriticalNesting = 1
    BY <1>m, <2>2
  <2>4. ulCriticalNesting' = 0 /\ irqMasked' = FALSE
    <3>1. CASE ulCriticalNesting = 1
      <4>1. ulCriticalNesting > 0 /\ ~(ulCriticalNesting # 1)
        BY <3>1
      <4>2. ulCriticalNesting' = ulCriticalNesting - 1 /\ ~irqMasked' /\ irqMasked' \in BOOLEAN
        BY <1>6, <4>1, Zenon DEF CountDown
      <4> QED
        BY <3>1, <4>2
    <3>2. CASE ulCriticalNesting = 0
      <4>1. ~irqMasked /\ irqMasked' = irqMasked /\ ulCriticalNesting' = 0
        BY <1>6, <2>3, <3>2 DEF CountDown
      <4> QED
        BY <1>0, <4>1
    <3> QED
      <4>1. ulCriticalNesting = 0 \/ ulCriticalNesting = 1
        BY <1>0
      <4> QED
        BY <3>1, <3>2, <4>1
  <2>5. /\ portPc' \in [PortTasks -> Labels] /\ portPc'[running] = "run"
        /\ \A t \in PortTasks \ {running} : portPc'[t] = portPc[t]
    BY <2>1, <1>g DEF Labels
  <2>6. /\ frames' \in [PortTasks -> Seq(Kinds)]
        /\ \A t \in PortTasks \ {running} : frames'[t] = frames[t]
        /\ Of(frames'[running], "uspi") = Of(frames[running], "uspi")
    BY <2>1, <2>2, FramesClosed DEF Innermost
  <2>7. PortTypeOK'
    <3>1. ulCriticalNesting' \in 0..1
      BY <2>4
    <3>2. irqMasked' \in BOOLEAN
      BY <2>4, Zenon
    <3> QED
      BY <1>0, <2>1, <3>1, <3>2, <2>5, <2>6 DEF PortTypeOK
  <2>8. MaskCounted'
    BY <1>m, <2>1, <2>4 DEF MaskCounted
  <2>9. HeapCallsMasked'
    <3>1. \A t \in PortTasks : Of(frames'[t], "uspi") = Of(frames[t], "uspi")
      BY <2>6
    <3> QED
      BY <1>0, <1>h, <2>1, <2>2, <3>1, <1>q
  <2>10. FlagInHeapCall'
    <3>1. Of(frames'[running], "uspi") = 0
      BY <1>h, <2>2, <2>6
    <3>2. ~PortOverUspi(frames'[running])
      BY <1>0, <2>6, <3>1, CountIsNat DEF PortOverUspi
    <3> QED
      BY <2>1, <3>2 DEF FlagInHeapCall
  <2>11. Positions'
    BY <1>0, <1>p, <2>1, <2>5, <2>6 DEF Positions, Innermost
  <2> QED
    BY <2>7, <2>8, <2>9, <2>10, <2>11 DEF PortInv
<1>7. CASE UspiEnter(running)
  <2>1. /\ UNCHANGED <<running, ulCriticalNesting, s_bWereEnabled, ctx, portPc, nFlags>>
        /\ portPc[running] = "run" /\ irqMasked' = TRUE /\ Open(running, "uspi")
        /\ uspi' = [level |-> uspi.level + 1,
                    wereEnabled |-> IF uspi.level = 0 THEN ~irqMasked ELSE uspi.wereEnabled]
    BY <1>7 DEF UspiEnter
  <2>2. /\ uspi'.level = uspi.level + 1 /\ uspi'.level \in Nat /\ uspi'.level > 0
        /\ uspi'.wereEnabled = IF uspi.level = 0 THEN ~irqMasked ELSE uspi.wereEnabled
        /\ uspi' \in [level : Nat, wereEnabled : BOOLEAN]
    <3>1. uspi.level \in Nat /\ uspi.wereEnabled \in BOOLEAN
      BY <1>0
    <3>2. /\ uspi'.level = uspi.level + 1
          /\ uspi'.wereEnabled = IF uspi.level = 0 THEN ~irqMasked ELSE uspi.wereEnabled
      BY <2>1, Zenon
    <3>3. uspi.level + 1 \in Nat /\ uspi.level + 1 > 0
      BY <3>1
    <3>4. (IF uspi.level = 0 THEN ~irqMasked ELSE uspi.wereEnabled) \in BOOLEAN
      BY <3>1
    <3>5. uspi' \in [level : Nat, wereEnabled : BOOLEAN]
      BY <2>1, <3>3, <3>4, Zenon
    <3> QED
      BY <3>2, <3>3, <3>5
  <2>3. uspi'.wereEnabled <=> ulCriticalNesting = 0
    <3>1. CASE uspi.level = 0
      BY <1>0, <1>m, <2>2, <3>1
    <3>2. CASE uspi.level # 0
      <4>1. uspi.level > 0
        BY <1>0, <3>2
      <4> QED
        BY <1>h, <2>2, <3>2, <4>1
    <3> QED
      BY <3>1, <3>2
  <2>4. /\ frames' \in [PortTasks -> Seq(Kinds)]
        /\ frames'[running] = Append(frames[running], "uspi")
        /\ \A t \in PortTasks \ {running} : frames'[t] = frames[t]
        /\ Of(frames'[running], "uspi") = Of(frames[running], "uspi") + 1
    BY <2>1, <1>k, FramesOpened
  <2>5. PortTypeOK'
    BY <1>0, <2>1, <2>2, <2>4 DEF PortTypeOK
  <2>6. MaskCounted'
    BY <1>m, <2>1, <2>2 DEF MaskCounted
  <2>7. HeapCallsMasked'
    BY <1>0, <1>h, <2>1, <2>2, <2>3, <2>4, <1>q
  <2>8. FlagInHeapCall'
    <3>1. SUFFICES ASSUME PortOverUspi(frames'[running]) PROVE ~s_bWereEnabled
      BY <2>1 DEF FlagInHeapCall
    <3>2. PortOverUspi(frames[running])
      BY <1>0, <1>k, <2>4, <3>1, OverAfterOpen
    <3> QED
      BY <1>f, <3>2
  <2>9. Positions'
    BY <1>0, <1>p, <2>1, <2>4 DEF Positions, Innermost
  <2> QED
    BY <2>5, <2>6, <2>7, <2>8, <2>9 DEF PortInv
<1>8. CASE UspiLeave(running)
  <2>1. /\ UNCHANGED <<running, ulCriticalNesting, s_bWereEnabled, ctx, portPc, nFlags>>
        /\ portPc[running] = "run" /\ frames[running] # <<>> /\ Innermost(running) = "uspi"
        /\ uspi.level > 0 /\ Close(running)
        /\ uspi' = [uspi EXCEPT !.level = @ - 1]
        /\ irqMasked' = IF uspi.level = 1 THEN ~uspi.wereEnabled ELSE irqMasked
    BY <1>8 DEF UspiLeave
  <2>2. /\ uspi'.level = uspi.level - 1 /\ uspi'.level \in Nat
        /\ uspi'.wereEnabled = uspi.wereEnabled
        /\ uspi' \in [level : Nat, wereEnabled : BOOLEAN]
    <3>1. uspi.level \in Nat /\ uspi.wereEnabled \in BOOLEAN
      BY <1>0
    <3>2. uspi' = [level |-> uspi.level - 1, wereEnabled |-> uspi.wereEnabled]
      BY <1>0, <2>1
    <3>3. uspi.level - 1 \in Nat
      BY <2>1, <3>1
    <3> QED
      BY <3>1, <3>2, <3>3
  <2>3. irqMasked /\ (uspi.wereEnabled <=> ulCriticalNesting = 0)
    BY <1>h, <2>1
  <2>4. /\ frames' \in [PortTasks -> Seq(Kinds)]
        /\ frames'[running] = SubSeq(frames[running], 1, Len(frames[running]) - 1)
        /\ \A t \in PortTasks \ {running} : frames'[t] = frames[t]
        /\ Of(frames[running], "uspi") = Of(frames'[running], "uspi") + 1
        /\ Of(frames'[running], "uspi") \in Nat
    BY <2>1, FramesClosed
  <2>5. irqMasked' \in BOOLEAN
    BY <1>0, <2>1
  <2>6. PortTypeOK'
    BY <1>0, <2>1, <2>2, <2>4, <2>5 DEF PortTypeOK
  <2>7. MaskCounted'
    <3>1. ASSUME uspi'.level = 0 PROVE irqMasked' <=> ulCriticalNesting = 1
      <4>1. uspi.level = 1
        BY <1>0, <2>2, <3>1
      <4>2. irqMasked' = ~uspi.wereEnabled
        BY <2>1, <4>1
      <4>3. ulCriticalNesting = 0 <=> ulCriticalNesting # 1
        BY <1>0
      <4> QED
        BY <1>0, <2>3, <4>2, <4>3
    <3> QED
      BY <1>m, <2>1, <3>1 DEF MaskCounted
  <2>8. HeapCallsMasked'
    <3>1. uspi'.level = Of(frames'[running], "uspi")
      BY <1>0, <1>h, <2>2, <2>4
    <3>2. uspi'.level > 0 => irqMasked'
      BY <1>0, <2>1, <2>2, <2>3
    <3>3. \A t \in PortTasks \ {running} : Of(frames'[t], "uspi") = 0
      BY <1>h, <2>4
    <3> QED
      BY <2>1, <2>2, <2>3, <3>1, <3>2, <3>3, <1>q
  <2>9. FlagInHeapCall'
    <3>1. PortOverUspi(frames'[running]) => PortOverUspi(frames[running])
      BY <1>0, <2>1, <2>4, OverAfterClose
    <3> QED
      BY <1>f, <2>1, <3>1 DEF FlagInHeapCall
  <2>10. Positions'
    BY <1>0, <1>p, <2>1, <2>4 DEF Positions, Innermost
  <2> QED
    BY <2>6, <2>7, <2>8, <2>9, <2>10 DEF PortInv
\* A switch, which the running task asked for or which found it unmasked
<1>9. ASSUME NEW u \in PortTasks, SwapContext(u),
             UNCHANGED <<s_bWereEnabled, portPc, nFlags, frames, uspi>>,
             uspi.level = 0, portPc[running] = "run" \/ ~irqMasked
      PROVE  PortInv'
  <2>1. /\ running' = u
        /\ irqMasked' = IF u = running THEN irqMasked ELSE ctx[u].masked
        /\ ulCriticalNesting' = IF u = running THEN ulCriticalNesting ELSE ctx[u].nesting
        /\ ctx' \in [PortTasks -> [masked : BOOLEAN, nesting : 0..1]]
    BY <1>0, <1>9 DEF SwapContext
  <2>2. \A t \in PortTasks :
           /\ ctx'[t].masked = IF t = running THEN irqMasked ELSE ctx[t].masked
           /\ ctx'[t].nesting = IF t = running THEN ulCriticalNesting ELSE ctx[t].nesting
    BY <1>0, <1>9 DEF SwapContext
  <2>3. \A t \in PortTasks : Of(frames[t], "uspi") = 0
    BY <1>0, <1>h, <1>9
  <2>4. irqMasked <=> ulCriticalNesting = 1
    BY <1>m, <1>9
  <2>5. PortTypeOK'
    <3>1. irqMasked' \in BOOLEAN /\ ulCriticalNesting' \in 0..1
      BY <1>0, <2>1
    <3> QED
      BY <1>0, <1>9, <2>1, <3>1 DEF PortTypeOK
  <2>6. MaskCounted'
    <3>1. irqMasked' <=> ulCriticalNesting' = 1
      BY <1>0, <1>9, <1>m, <2>1, <2>4
    <3>2. \A t \in PortTasks \ {u} : ctx'[t].masked <=> ctx'[t].nesting = 1
      BY <1>m, <2>2, <2>4
    <3> QED
      BY <2>1, <3>1, <3>2 DEF MaskCounted
  <2>7. HeapCallsMasked'
    BY <1>0, <1>9, <2>1, <2>3, <1>q
  <2>8. FlagInHeapCall'
    <3>1. ~PortOverUspi(frames[u])
      BY <1>0, <1>9, <2>3, CountIsNat DEF PortOverUspi
    <3> QED
      BY <1>9, <2>1, <3>1 DEF FlagInHeapCall
  <2>9. Positions'
    <3>1. /\ portPc[u] = "store" => (nFlags[u] <=> irqMasked')
          /\ (portPc[u] = "test" /\ irqMasked') => ~s_bWereEnabled
          /\ portPc[u] = "mask" => ~irqMasked'
      <4>1. CASE u = running
        BY <1>p, <2>1, <4>1
      <4>2. CASE u # running
        BY <1>0, <1>9, <1>p, <2>1, <4>2
      <4> QED
        BY <4>1, <4>2
    <3>2. ASSUME NEW t \in PortTasks \ {u}
          PROVE  /\ portPc[t] # "run" => ~ctx'[t].masked
                 /\ portPc[t] = "store" => ~nFlags[t]
      <4>1. CASE t = running
        BY <1>9, <1>p, <2>2, <4>1
      <4>2. CASE t # running
        BY <1>p, <2>2, <4>2
      <4> QED
        BY <4>1, <4>2
    <3> QED
      BY <1>9, <1>p, <2>1, <3>1, <3>2 DEF Positions, Innermost
  <2> QED
    BY <2>5, <2>6, <2>7, <2>8, <2>9 DEF PortInv
<1>10. ASSUME NEW u \in PortTasks, PortYield(running, u) PROVE PortInv'
  <2>1. /\ portPc[running] = "run" /\ UspiFrames(running) = 0 /\ SwapContext(u)
        /\ UNCHANGED <<s_bWereEnabled, portPc, nFlags, frames, uspi>>
    BY <1>10 DEF PortYield
  <2>2. uspi.level = 0
    BY <1>h, <2>1 DEF UspiFrames, Count, Of
  <2> QED
    BY <1>9, <2>1, <2>2
<1>11. ASSUME NEW u \in PortTasks, TickInterrupt(u) PROVE PortInv'
  <2>1. /\ ~irqMasked /\ SwapContext(u)
        /\ UNCHANGED <<s_bWereEnabled, portPc, nFlags, frames, uspi>>
    BY <1>11 DEF TickInterrupt
  <2>2. uspi.level = 0
    BY <1>0, <1>h, <2>1
  <2> QED
    BY <1>9, <2>1, <2>2
<1>12. CASE UsbInterrupt
  <2>1. /\ ~irqMasked /\ s_bWereEnabled' = FALSE
        /\ uspi' = [uspi EXCEPT !.wereEnabled = IF uspi.level = 0 THEN FALSE ELSE @]
        /\ UNCHANGED <<running, irqMasked, ulCriticalNesting, ctx, portPc, nFlags, frames>>
    BY <1>12 DEF UsbInterrupt
  <2>2. uspi.level = 0
    BY <1>0, <1>h, <2>1
  <2>3. uspi'.level = uspi.level /\ uspi' \in [level : Nat, wereEnabled : BOOLEAN]
    BY <1>0, <2>1
  <2>4. PortTypeOK'
    BY <1>0, <2>1, <2>3 DEF PortTypeOK
  <2>5. MaskCounted' /\ FlagInHeapCall'
    BY <1>m, <2>1, <2>3 DEF MaskCounted, FlagInHeapCall
  <2>6. HeapCallsMasked'
    BY <1>0, <1>h, <2>1, <2>2, <2>3, <1>q
  <2>7. Positions'
    BY <1>0, <1>p, <2>1, <2>3 DEF Positions, Innermost
  <2> QED
    BY <2>4, <2>5, <2>6, <2>7 DEF PortInv
<1>13. CASE UNCHANGED portVars
  <2>1. /\ UNCHANGED <<running, irqMasked, ulCriticalNesting, s_bWereEnabled, ctx>>
        /\ UNCHANGED <<portPc, nFlags, frames, uspi>>
    BY <1>13 DEF portVars
  <2>2. PortTypeOK' /\ FlagInHeapCall' /\ MaskCounted'
    BY <1>0, <1>m, <1>f, <2>1 DEF PortTypeOK, FlagInHeapCall, MaskCounted
  <2>3. HeapCallsMasked'
    BY <1>h, <2>1, <1>q
  <2>4. Positions'
    BY <1>p, <2>1 DEF Positions, Innermost
  <2> QED
    BY <2>2, <2>3, <2>4 DEF PortInv
<1> QED
  BY <1>1, <1>2, <1>3, <1>4, <1>5, <1>6, <1>7, <1>8, <1>10, <1>11, <1>12, <1>13
  DEF PortNext, TaskStep

-----------------------------------------------------------------------------
LEMMA PortInvariant == PortSpec => []PortInv
  BY PortInitInv, PortStepInv, PTL DEF PortSpec

\* portisr.c, portmacro.h: the variables keep their ranges, for every set of tasks
\* and every nesting; in particular no section is counted twice.
THEOREM PortTypeCorrect == PortSpec => []PortTypeOK
<1>1. PortInv => PortTypeOK
  BY DEF PortInv
<1> QED
  BY <1>1, PortInvariant, PTL

\* portisr.c:204, portmacro.h:119: whatever other tasks, ticks and the USB
\* interrupt do to the flag, the count that is swapped with a task's context says
\* whether that task is masked.
THEOREM PortMaskCounted == PortSpec => []MaskCounted
<1>1. PortInv => MaskCounted
  BY DEF PortInv
<1> QED
  BY <1>1, PortInvariant, PTL

\* uspibind.c:139, synchronize.h:33: malloc() and free() have the processor to
\* themselves, inside a section or not, and the outermost leave restores the mask.
THEOREM PortHeapCallsMasked == PortSpec => []HeapCallsMasked
<1>1. PortInv => HeapCallsMasked
  BY DEF PortInv
<1> QED
  BY <1>1, PortInvariant, PTL

-----------------------------------------------------------------------------
(* The USB host *)

-----------------------------------------------------------------------------
(* The invariant *)

Bits == {"complete", "halted", "error", "ack", "nak", "nyet"}
PIDs == {"setup", "data0", "data1"}
StagesUsed == [ep : Endpoints, in : BOOLEAN, isStatus : BOOLEAN, packets : 0..MaxPackets,
               state : {"no split", "start", "complete", "delay"},
               waitsFor : {"none", "transaction", "disable", "timer"}, retries : 0..Tries]
Registers == [is : {"off", "on", "ended"}, ints : SUBSET Bits, mask : SUBSET Bits,
              packets : 0..MaxPackets, left : 0..MaxPackets]
HostState ==
    [channels : 1..MaxChannels, endpoints : SUBSET Endpoints, allocated : SUBSET Channels,
     enabled : SUBSET Channels, waiting : BOOLEAN,
     stage : [Channels -> StagesUsed \cup {NoStage}],
     pid : [Endpoints -> PIDs], status : BOOLEAN, channel : [Channels -> Registers],
     listening : SUBSET Keyboards]

InState(g) == g.state # "delay" /\ (g.state = "no split" <=> g.ep \notin ViaHub)

\* What a stage g and the registers x of its channel have in common
Fits(g, x) ==
    /\ g.packets >= 1
    /\ g.state = "delay" <=> g.waitsFor = "timer"
    /\ g.waitsFor # "timer" => InState(g)
    /\ g.waitsFor \in {"none", "timer"} => x.mask = {}
    /\ x.is = "on" => g.waitsFor = "transaction" /\ x.ints = {} /\ x.left = x.packets
    /\ g.waitsFor = "transaction" =>
          /\ x.packets = (IF IsSplit(g) THEN 1 ELSE g.packets) /\ x.left <= x.packets
          /\ g.state = "start" => x.left = x.packets
          /\ g.state = "complete" /\ "complete" \notin x.ints => x.left = x.packets

\* The handler will count the packets of a transaction that has ended.
Counts(g, x) ==
    /\ g.waitsFor = "transaction" /\ x.ints \notin {{}, {"halted"}}
    /\ ~WasRefused(x.ints) /\ g.state # "start"

Used(s) == {c \in Channels : s.stage[c] # NoStage}
Serves(s, ep) == \E c \in Used(s) : s.stage[c].ep = ep

\* What holds of the host while the handler works on the channel c
HostBut(s, c) ==
    /\ s \in HostState
    /\ \A d \in Used(s) \ {c} : Fits(s.stage[d], s.channel[d])
    /\ \A d \in Channels \ Used(s) : s.channel[d].mask = {} /\ s.channel[d].is # "on"
    /\ s.enabled = Used(s) /\ Used(s) \subseteq s.allocated
    /\ \A d, e \in Used(s) : s.stage[d].ep = s.stage[e].ep => d = e
    /\ \A d \in Used(s) : s.stage[d].ep \in Keyboards => s.stage[d].ep \in s.listening

Host(s) ==
    /\ s \in HostState
    /\ \A c \in Used(s) : Fits(s.stage[c], s.channel[c])
    /\ \A c \in Channels \ Used(s) : s.channel[c].mask = {} /\ s.channel[c].is # "on"
    /\ s.enabled = Used(s) /\ Used(s) \subseteq s.allocated
    /\ \A c, d \in Used(s) : s.stage[c].ep = s.stage[d].ep => c = d
    /\ \A c \in Used(s) : s.stage[c].ep \in Keyboards => s.stage[c].ep \in s.listening

\* The packet that a device in step expects on the endpoint of channel c
Expected(s, c) ==
    LET g == s.stage[c]
        x == s.channel[c]
    IN  IF Counts(g, x) THEN SkipPID(s.pid[g.ep], x.packets - x.left, g.isStatus) ELSE s.pid[g.ep]

Devices == [Endpoints -> [expects : PIDs, inStep : BOOLEAN]]

InStep(s, dev) ==
    /\ dev \in Devices
    /\ \A ep \in Endpoints : dev[ep].inStep /\ ~Serves(s, ep) => dev[ep].expects = s.pid[ep]
    /\ \A c \in Used(s) : dev[s.stage[c].ep].inStep => dev[s.stage[c].ep].expects = Expected(s, c)

\* The handler has counted the packets of channel c.
InStepBut(s, dev, c) ==
    /\ dev \in Devices
    /\ \A ep \in Endpoints : dev[ep].inStep /\ ~Serves(s, ep) => dev[ep].expects = s.pid[ep]
    /\ \A d \in Used(s) \ {c} :
          dev[s.stage[d].ep].inStep => dev[s.stage[d].ep].expects = Expected(s, d)
    /\ dev[s.stage[c].ep].inStep => dev[s.stage[c].ep].expects = s.pid[s.stage[c].ep]

StagesToDo == [in : BOOLEAN, isStatus : BOOLEAN, packets : 0..MaxPackets]
Submitting == {"stage", "attach", "start", "wait", "failed"}
Holding(t) == IF t.at \in {"attach", "failed"} THEN {t.channel} ELSE {}
TaskFits == [at : Submitting \cup {"idle"}, ep : Endpoints \cup {"none"}, todo : Seq(StagesToDo),
          channel : Channels]

\* What the task knows of its request
Submitted(s, t) ==
    /\ t \in TaskFits
    /\ s.allocated = Used(s) \cup Holding(t)
    /\ t.at \in {"attach", "failed"} => t.channel \notin Used(s)
    /\ t.at = "start" => /\ t.channel \in Used(s) /\ s.stage[t.channel].ep = t.ep
                         /\ s.stage[t.channel].waitsFor = "none"
    /\ t.at \in {"stage", "attach", "failed"} => ~Serves(s, t.ep)
    /\ t.at \in Submitting => /\ t.ep \in Endpoints /\ t.todo # <<>>
                              /\ t.ep \in Keyboards => t.ep \in s.listening
    /\ s.waiting => t.at \in {"attach", "start", "wait", "failed"}
    /\ t.at \in {"attach", "start", "failed"} => (s.waiting <=> t.ep \notin Keyboards)
    /\ t.at = "wait" => t.ep \notin Keyboards /\ (s.waiting <=> Serves(s, t.ep))
    /\ \A c \in Used(s) : s.stage[c].ep \notin Keyboards
                             => t.ep = s.stage[c].ep /\ t.at \in {"start", "wait"}

Agreed(s, dev, t) == Host(s) /\ InStep(s, dev) /\ Submitted(s, t)

UsbInv == Agreed(usb, device, task)

\* The handler has taken the interrupt of channel c.
Handling(s, dev, t, c) ==
    /\ c \in Used(s) /\ HostBut(s, c) /\ InStepBut(s, dev, c) /\ Submitted(s, t)
    /\ s.channel[c].is # "on" /\ s.channel[c].mask = {} /\ InState(s.stage[c])
    /\ t.at = "start" => t.channel # c

\* The stage and the registers of channel c are these.
Put(s, c, g, x) == [s EXCEPT !.stage[c] = g, !.channel[c] = x]



-----------------------------------------------------------------------------
(* Fields and records *)

LEMMA MinIs ==
    ASSUME NEW T, T \subseteq Nat, T # {}
    PROVE  Min(T) \in T
<1>1. IsWellFoundedOn(OpToRel(<, Nat), Nat)
  BY NatLessThanWellFounded, Zenon
<1>2. PICK x \in T : \A y \in T : ~ (<<y, x>> \in OpToRel(<, Nat))
  BY <1>1, WFMin, Zenon
<1>3. \A y \in T : ~(y < x)
  BY <1>2 DEF OpToRel
<1>4. \A y \in T : x <= y
  BY <1>3
<1>. QED
  BY <1>4 DEF Min

LEMMA StageIsOne ==
    ASSUME NEW g \in StagesUsed
    PROVE  g # NoStage
<1>1. "packets" \in DOMAIN g /\ DOMAIN NoStage = {"ep"}
  BY DEF StagesUsed, NoStage
<1>. QED
  BY <1>1

LEMMA HostFields ==
    ASSUME NEW s \in HostState
    PROVE  /\ s.channels \in 1..MaxChannels /\ s.endpoints \in SUBSET Endpoints
           /\ s.allocated \in SUBSET Channels /\ s.enabled \in SUBSET Channels
           /\ s.waiting \in BOOLEAN /\ s.stage \in [Channels -> StagesUsed \cup {NoStage}]
           /\ s.pid \in [Endpoints -> PIDs] /\ s.status \in BOOLEAN
           /\ s.channel \in [Channels -> Registers] /\ s.listening \in SUBSET Keyboards
           /\ \A c \in Used(s) : s.stage[c] \in StagesUsed /\ s.stage[c].ep \in Endpoints
<1>1. s.stage \in [Channels -> StagesUsed \cup {NoStage}]
  BY DEF HostState
<1>2. \A c \in Used(s) : s.stage[c] \in StagesUsed
  BY <1>1 DEF Used
<1>. QED
  BY <1>2 DEF HostState, StagesUsed

\* A state in which only these fields have changed
LEMMA Updated ==
    ASSUME NEW s \in HostState,
           NEW A \in SUBSET Channels, NEW E \in SUBSET Channels,
           NEW S \in [Channels -> StagesUsed \cup {NoStage}],
           NEW P \in [Endpoints -> PIDs], NEW X \in [Channels -> Registers]
    PROVE  LET r == [s EXCEPT !.allocated = A, !.enabled = E, !.stage = S, !.pid = P,
                              !.channel = X]
           IN  /\ r \in HostState
               /\ r.allocated = A /\ r.enabled = E /\ r.stage = S /\ r.pid = P /\ r.channel = X
               /\ r.channels = s.channels /\ r.endpoints = s.endpoints
               /\ r.waiting = s.waiting /\ r.status = s.status /\ r.listening = s.listening
  BY DEF HostState

\* The fields of a state and of the one in which a channel's stage and registers
\* are others
PutFields(s, c, g, x, r) ==
    /\ r \in HostState
    /\ r.stage = [s.stage EXCEPT ![c] = g] /\ r.channel = [s.channel EXCEPT ![c] = x]
    /\ r.pid = s.pid /\ r.allocated = s.allocated /\ r.enabled = s.enabled
    /\ r.channels = s.channels /\ r.waiting = s.waiting /\ r.listening = s.listening

LEMMA PutIs ==
    ASSUME NEW s \in HostState, NEW c \in Channels, NEW g \in StagesUsed, NEW x \in Registers
    PROVE  PutFields(s, c, g, x, Put(s, c, g, x))
<1>1. /\ [s.stage EXCEPT ![c] = g] \in [Channels -> StagesUsed \cup {NoStage}]
      /\ [s.channel EXCEPT ![c] = x] \in [Channels -> Registers]
  BY HostFields
<1>2. Put(s, c, g, x) = [s EXCEPT !.stage = [s.stage EXCEPT ![c] = g],
                                  !.channel = [s.channel EXCEPT ![c] = x]]
  BY DEF Put
<1>. QED
  BY <1>1, <1>2 DEF PutFields, HostState

\* The host and the task, in a state in which channel c has another stage of the
\* same endpoint
LEMMA PutKeeps ==
    ASSUME NEW s, NEW c \in Used(s), HostBut(s, c), NEW g \in StagesUsed,
           g.ep = s.stage[c].ep, NEW x \in Registers,
           NEW r, PutFields(s, c, g, x, r)
    PROVE  /\ Used(r) = Used(s) /\ \A ep : Serves(r, ep) <=> Serves(s, ep)
           /\ HostBut(r, c) /\ r.stage[c] = g /\ r.channel[c] = x
           /\ \A d \in Channels \ {c} : r.stage[d] = s.stage[d] /\ r.channel[d] = s.channel[d]
           /\ \A d \in Used(s) : r.stage[d].ep = s.stage[d].ep
<1>0. s \in HostState /\ c \in Channels
  BY DEF HostBut, Used
<1>1. /\ r.stage[c] = g /\ r.channel[c] = x
      /\ \A d \in Channels \ {c} : r.stage[d] = s.stage[d] /\ r.channel[d] = s.channel[d]
  BY <1>0, HostFields DEF PutFields
<1>2. Used(r) = Used(s)
  BY <1>0, <1>1, StageIsOne DEF Used
<1>3. \A d \in Used(s) : r.stage[d].ep = s.stage[d].ep
  BY <1>0, <1>1 DEF Used
<1>4. \A ep : Serves(r, ep) <=> Serves(s, ep)
  BY <1>2, <1>3 DEF Serves
<1>5. HostBut(r, c)
  <2>1. r \in HostState /\ r.enabled = Used(r) /\ Used(r) \subseteq r.allocated
    BY <1>2 DEF HostBut, PutFields
  <2>2. \A d \in Used(r) \ {c} : Fits(r.stage[d], r.channel[d])
    BY <1>1, <1>2 DEF HostBut, Used
  <2>3. \A d \in Channels \ Used(r) : r.channel[d].mask = {} /\ r.channel[d].is # "on"
    BY <1>1, <1>2 DEF HostBut
  <2>4. \A d, e \in Used(r) : r.stage[d].ep = r.stage[e].ep => d = e
    BY <1>2, <1>3 DEF HostBut
  <2>5. \A d \in Used(r) : r.stage[d].ep \in Keyboards => r.stage[d].ep \in r.listening
    BY <1>2, <1>3 DEF HostBut, PutFields
  <2>. QED
    BY <2>1, <2>2, <2>3, <2>4, <2>5 DEF HostBut
<1>. QED
  BY <1>1, <1>2, <1>3, <1>4, <1>5

LEMMA TaskKept ==
    ASSUME NEW s, s \in HostState, NEW t, Submitted(s, t), NEW r, Used(r) \subseteq Channels,
           r.waiting = s.waiting, r.listening = s.listening,
           \A ep : Serves(r, ep) => Serves(s, ep),
           \A ep \in Endpoints \ Keyboards : Serves(s, ep) => Serves(r, ep),
           r.allocated = Used(r) \cup Holding(t),
           t.at \in {"attach", "failed"} => t.channel \notin Used(r),
           t.at = "start" => t.channel \in Used(r) /\ r.stage[t.channel] = s.stage[t.channel]
    PROVE  Submitted(r, t)
<1>1. \A c \in Used(r) : r.stage[c].ep \notin Keyboards
          => t.ep = r.stage[c].ep /\ t.at \in {"start", "wait"}
  BY DEF Submitted, Serves
<1>2. t.at = "wait" => t.ep \notin Keyboards /\ (r.waiting <=> Serves(r, t.ep))
  BY DEF Submitted, Submitting
<1>. QED
  BY <1>1, <1>2 DEF Submitted


-----------------------------------------------------------------------------
(* What the handler leaves behind *)

LEMMA UsedIn == ASSUME NEW s PROVE Used(s) \subseteq Channels
  BY DEF Used

\* The stage of channel c goes on, with no packets left to count.
LEMMA GoesOn ==
    ASSUME NEW s, NEW dev, NEW t, NEW c, Handling(s, dev, t, c),
           NEW g \in StagesUsed, g.ep = s.stage[c].ep, NEW x \in Registers,
           Fits(g, x), ~Counts(g, x)
    PROVE  Agreed(Put(s, c, g, x), dev, t)
<1>. DEFINE r == Put(s, c, g, x)
<1>0. c \in Used(s) /\ c \in Channels /\ s \in HostState /\ HostBut(s, c) /\ Submitted(s, t)
  BY UsedIn DEF Handling, HostBut
<1>1. PutFields(s, c, g, x, r)
  BY <1>0, PutIs
<1>. HIDE DEF r
<1>2. /\ Used(r) = Used(s) /\ \A ep : Serves(r, ep) <=> Serves(s, ep)
      /\ HostBut(r, c) /\ r.stage[c] = g /\ r.channel[c] = x
      /\ \A d \in Channels \ {c} : r.stage[d] = s.stage[d] /\ r.channel[d] = s.channel[d]
      /\ \A d \in Used(s) : r.stage[d].ep = s.stage[d].ep
  BY <1>0, <1>1, PutKeeps
<1>3. Host(r)
  BY <1>2 DEF HostBut, Host
<1>4. InStep(r, dev)
  <2>1. r.pid = s.pid /\ InStepBut(s, dev, c)
    BY <1>1 DEF PutFields, Handling
  <2>2. \A d \in Used(s) \ {c} : Expected(r, d) = Expected(s, d)
    BY <1>2, <2>1, UsedIn DEF Expected
  <2>3. Expected(r, c) = s.pid[s.stage[c].ep]
    BY <1>2, <2>1 DEF Expected
  <2>. QED
    BY <1>0, <1>2, <2>1, <2>2, <2>3 DEF InStep, InStepBut
<1>5. Submitted(r, t)
  <2>1. r.waiting = s.waiting /\ r.listening = s.listening /\ r.allocated = s.allocated
    BY <1>1 DEF PutFields
  <2>2. t.at = "start" => t.channel \in Used(r) /\ r.stage[t.channel] = s.stage[t.channel]
    BY <1>0, <1>2, UsedIn DEF Submitted, Handling
  <2>. QED
    BY <1>0, <1>2, <2>1, <2>2, TaskKept, UsedIn DEF Submitted
<1>. QED
  BY <1>3, <1>4, <1>5 DEF Agreed, r

\* The handler changes the stage of channel c, and goes on with it.
LEMMA StillHandling ==
    ASSUME NEW s, NEW dev, NEW t, NEW c, Handling(s, dev, t, c),
           NEW g \in StagesUsed, g.ep = s.stage[c].ep, InState(g)
    PROVE  Handling(Put(s, c, g, s.channel[c]), dev, t, c)
<1>. DEFINE x == s.channel[c]   r == Put(s, c, g, x)
<1>0. c \in Used(s) /\ c \in Channels /\ s \in HostState /\ HostBut(s, c) /\ Submitted(s, t)
  BY UsedIn DEF Handling, HostBut
<1>1. x \in Registers
  BY <1>0, HostFields
<1>2. PutFields(s, c, g, x, r)
  BY <1>0, <1>1, PutIs
<1>3. x.is # "on" /\ x.mask = {}
  BY DEF Handling
<1>. HIDE DEF r, x
<1>4. /\ Used(r) = Used(s) /\ \A ep : Serves(r, ep) <=> Serves(s, ep)
      /\ HostBut(r, c) /\ r.stage[c] = g /\ r.channel[c] = x
      /\ \A d \in Channels \ {c} : r.stage[d] = s.stage[d] /\ r.channel[d] = s.channel[d]
      /\ \A d \in Used(s) : r.stage[d].ep = s.stage[d].ep
  BY <1>0, <1>1, <1>2, PutKeeps
<1>5. InStepBut(r, dev, c)
  <2>1. r.pid = s.pid /\ InStepBut(s, dev, c)
    BY <1>2 DEF PutFields, Handling
  <2>2. \A d \in Used(s) \ {c} : Expected(r, d) = Expected(s, d)
    BY <1>4, <2>1, UsedIn DEF Expected
  <2>. QED
    BY <1>0, <1>4, <2>1, <2>2 DEF InStepBut
<1>6. Submitted(r, t)
  <2>1. r.waiting = s.waiting /\ r.listening = s.listening /\ r.allocated = s.allocated
    BY <1>2 DEF PutFields
  <2>2. t.at = "start" => t.channel \in Used(r) /\ r.stage[t.channel] = s.stage[t.channel]
    BY <1>0, <1>4, UsedIn DEF Submitted, Handling
  <2>. QED
    BY <1>0, <1>4, <2>1, <2>2, TaskKept, UsedIn DEF Submitted
<1>. QED
  BY <1>0, <1>3, <1>4, <1>5, <1>6 DEF Handling, r, x

LEMMA StartChannelIs ==
    ASSUME NEW s \in HostState, NEW c \in Used(s), InState(s.stage[c]), s.stage[c].packets >= 1
    PROVE  \E g \in StagesUsed, x \in Registers :
              /\ StartChannel(s, c) = Put(s, c, g, x)
              /\ g.ep = s.stage[c].ep /\ Fits(g, x) /\ ~Counts(g, x)
<1>. DEFINE n == IF IsSplit(s.stage[c]) THEN 1 ELSE s.stage[c].packets
            g == [s.stage[c] EXCEPT !.waitsFor = "transaction"]
            x == [is |-> "on", ints |-> {}, mask |-> StatusMask(s.stage[c]),
                  packets |-> n, left |-> n]
<1>0. s.stage[c] \in StagesUsed /\ c \in Channels
  BY HostFields, UsedIn
<1>1. /\ g \in StagesUsed /\ g.ep = s.stage[c].ep /\ g.packets = s.stage[c].packets
      /\ g.state = s.stage[c].state /\ g.waitsFor = "transaction"
  BY <1>0 DEF StagesUsed
<1>2. n \in 0..MaxPackets /\ n = (IF IsSplit(g) THEN 1 ELSE g.packets)
  <2>1. s.stage[c].packets \in 0..MaxPackets /\ MaxPackets \in Nat \ {0}
    BY <1>0, UsbAssumption DEF StagesUsed
  <2>. QED
    BY <1>1, <2>1 DEF IsSplit
<1>3. x \in Registers
  BY <1>2 DEF Registers, Bits, StatusMask
<1>4. StartChannel(s, c) = Put(s, c, g, x)
  BY DEF StartChannel, Put
<1>5. Fits(g, x)
  <2>1. /\ x.is = "on" /\ x.ints = {} /\ x.packets = n /\ x.left = n /\ n <= n
    BY <1>2
  <2>2. InState(g) /\ g.state # "delay" /\ g.packets >= 1
    BY <1>1 DEF InState
  <2>. HIDE DEF g, x, n
  <2>. QED
    BY <1>1, <1>2, <2>1, <2>2 DEF Fits
<1>6. ~Counts(g, x)
  BY DEF Counts
<1>. HIDE DEF g, x
<1>. QED
  BY <1>1, <1>3, <1>4, <1>5, <1>6

LEMMA StartTransactionIs ==
    ASSUME NEW s \in HostState, NEW c \in Used(s), InState(s.stage[c]), s.stage[c].packets >= 1,
           s.channel[c].is # "on"
    PROVE  \E g \in StagesUsed, x \in Registers :
              /\ StartTransaction(s, c) = Put(s, c, g, x)
              /\ g.ep = s.stage[c].ep /\ Fits(g, x) /\ ~Counts(g, x)
<1>1. CASE s.channel[c].is = "off"
  BY <1>1, StartChannelIs DEF StartTransaction
<1>2. CASE s.channel[c].is # "off"
  <2>. DEFINE g == [s.stage[c] EXCEPT !.waitsFor = "disable"]
              x == [s.channel[c] EXCEPT !.mask = {"halted"}]
  <2>0. s.stage[c] \in StagesUsed /\ c \in Channels /\ s.channel[c] \in Registers
    BY HostFields, UsedIn
  <2>1. /\ g \in StagesUsed /\ g.ep = s.stage[c].ep /\ g.packets = s.stage[c].packets
        /\ g.state = s.stage[c].state /\ g.waitsFor = "disable"
    BY <2>0 DEF StagesUsed
  <2>2. x \in Registers /\ x.is = s.channel[c].is
    BY <2>0 DEF Registers, Bits
  <2>3. StartTransaction(s, c) = Put(s, c, g, x)
    BY <1>2 DEF StartTransaction, Put
  <2>. HIDE DEF g, x
  <2>4. Fits(g, x) /\ ~Counts(g, x)
    BY <2>1, <2>2 DEF Fits, Counts, InState
  <2>. QED
    BY <2>1, <2>2, <2>3, <2>4
<1>. QED
  BY <1>1, <1>2

\* The handler starts the next transaction of channel c, or disables it to do so.
LEMMA Restarts ==
    ASSUME NEW s, NEW dev, NEW t, NEW c, Handling(s, dev, t, c), s.stage[c].packets >= 1
    PROVE  Agreed(StartChannel(s, c), dev, t) /\ Agreed(StartTransaction(s, c), dev, t)
<1>1. s \in HostState /\ c \in Used(s) /\ InState(s.stage[c]) /\ s.channel[c].is # "on"
  BY DEF Handling, HostBut
<1>2. Agreed(StartChannel(s, c), dev, t)
  <2>1. PICK g \in StagesUsed, x \in Registers :
              /\ StartChannel(s, c) = Put(s, c, g, x)
              /\ g.ep = s.stage[c].ep /\ Fits(g, x) /\ ~Counts(g, x)
    BY <1>1, StartChannelIs
  <2>. QED
    BY <2>1, GoesOn
<1>3. Agreed(StartTransaction(s, c), dev, t)
  <2>1. PICK g \in StagesUsed, x \in Registers :
              /\ StartTransaction(s, c) = Put(s, c, g, x)
              /\ g.ep = s.stage[c].ep /\ Fits(g, x) /\ ~Counts(g, x)
    BY <1>1, StartTransactionIs
  <2>. QED
    BY <2>1, GoesOn
<1>. QED
  BY <1>2, <1>3

\* The timer that a keyboard's stage waits for is never started.
LEMMA Delays ==
    ASSUME NEW s, NEW dev, NEW t, NEW c, Handling(s, dev, t, c), s.stage[c].packets >= 1
    PROVE  Agreed(Delay(s, c), dev, t)
<1>. DEFINE g == [s.stage[c] EXCEPT !.state = "delay", !.waitsFor = "timer"]
            x == s.channel[c]
<1>0. /\ s \in HostState /\ c \in Channels /\ s.stage[c] \in StagesUsed /\ x \in Registers
      /\ x.is # "on" /\ x.mask = {}
  BY HostFields, UsedIn DEF Handling, HostBut
<1>1. /\ g \in StagesUsed /\ g.ep = s.stage[c].ep /\ g.packets = s.stage[c].packets
      /\ g.state = "delay" /\ g.waitsFor = "timer"
  BY <1>0 DEF StagesUsed
<1>2. Delay(s, c) = Put(s, c, g, x)
  <2>1. [s.channel EXCEPT ![c] = x] = s.channel
    BY <1>0, HostFields
  <2>2. Put(s, c, g, x) = [s EXCEPT !.stage[c] = g]
    BY <1>0, <2>1 DEF Put, HostState
  <2>. QED
    BY <2>2, ZenonT(60) DEF Delay
<1>. HIDE DEF g, x
<1>3. Fits(g, x) /\ ~Counts(g, x)
  BY <1>0, <1>1 DEF Fits, Counts, InState
<1>. QED
  BY <1>0, <1>1, <1>2, <1>3, GoesOn


-----------------------------------------------------------------------------
(* Stages that begin and end *)

\* The stage data of a stage that has a packet, on a channel that is free
LEMMA StageDataIs ==
    ASSUME NEW s, NEW ep \in Endpoints, NEW g \in StagesToDo, PacketsOf(s, ep, g) # 0
    PROVE  LET d == StageData(s, ep, g)
           IN  /\ d \in StagesUsed /\ d.ep = ep /\ d.packets >= 1 /\ d.waitsFor = "none"
               /\ InState(d)
<1>1. PacketsOf(s, ep, g) \in 0..MaxPackets /\ PacketsOf(s, ep, g) >= 1
  BY UsbAssumption DEF PacketsOf, StagesToDo
<1>2. g.in \in BOOLEAN /\ g.isStatus \in BOOLEAN /\ Tries \in Nat
  BY UsbAssumption DEF StagesToDo
<1>. QED
  BY <1>1, <1>2 DEF StageData, StagesUsed, InState

Reserved(s, c, a) == a = [s EXCEPT !.allocated = s.allocated \cup {c}]

LEMMA Attaches ==
    ASSUME NEW s, Host(s), NEW dev, InStep(s, dev), NEW c \in Channels \ Used(s),
           NEW ep \in Endpoints, ~Serves(s, ep), ep \in Keyboards => ep \in s.listening,
           NEW g \in StagesToDo, PacketsOf(s, ep, g) # 0,
           NEW a \in HostState, Reserved(s, c, a)
    PROVE  LET r == Attach(a, c, ep, g)
           IN  /\ Host(r) /\ InStep(r, dev) /\ Used(r) = Used(s) \cup {c}
               /\ r.stage = [s.stage EXCEPT ![c] = StageData(s, ep, g)]
               /\ r.allocated = s.allocated \cup {c} /\ r.waiting = s.waiting
               /\ r.listening = s.listening /\ r.channel = s.channel
<1>. DEFINE d == StageData(s, ep, g)   r == Attach(a, c, ep, g)
<1>0. s \in HostState /\ c \in Channels
  BY DEF Host
<1>1. /\ d \in StagesUsed /\ d.ep = ep /\ d.packets >= 1 /\ d.waitsFor = "none" /\ InState(d)
  BY StageDataIs
<1>2. /\ a.allocated = s.allocated \cup {c} /\ a.stage = s.stage /\ a.enabled = s.enabled
      /\ a.pid = s.pid /\ a.channel = s.channel /\ a.waiting = s.waiting
      /\ a.listening = s.listening
  BY <1>0 DEF HostState, Reserved
<1>3. StageData(a, ep, g) = d
  BY <1>2 DEF StageData, PacketsOf
<1>. HIDE DEF d
<1>4. /\ r \in HostState
      /\ r.stage = [s.stage EXCEPT ![c] = d] /\ r.enabled = s.enabled \cup {c}
      /\ r.allocated = s.allocated \cup {c} /\ r.pid = s.pid /\ r.channel = s.channel
      /\ r.waiting = s.waiting /\ r.listening = s.listening
  <2>1. /\ [s.stage EXCEPT ![c] = d] \in [Channels -> StagesUsed \cup {NoStage}]
        /\ s.enabled \cup {c} \in SUBSET Channels
    BY <1>0, <1>1, HostFields
  <2>2. r = [a EXCEPT !.stage = [s.stage EXCEPT ![c] = d], !.enabled = s.enabled \cup {c}]
    BY <1>2, <1>3 DEF Attach
  <2>. QED
    BY <1>2, <2>1, <2>2 DEF HostState
<1>. HIDE DEF r
<1>5. /\ r.stage[c] = d
      /\ \A e \in Channels \ {c} : r.stage[e] = s.stage[e]
  BY <1>0, <1>4, HostFields
<1>6. Used(r) = Used(s) \cup {c}
  BY <1>0, <1>1, <1>5, StageIsOne DEF Used
<1>7. Host(r)
  <2>1. r.enabled = Used(r) /\ Used(r) \subseteq r.allocated
    BY <1>4, <1>6 DEF Host
  <2>2. Fits(d, s.channel[c])
    <3>1. s.channel[c].mask = {} /\ s.channel[c].is # "on"
      BY DEF Host
    <3>. QED
      BY <1>1, <3>1 DEF Fits, InState
  <2>3. \A e \in Used(r) : Fits(r.stage[e], r.channel[e])
    BY <1>4, <1>5, <1>6, <2>2, UsedIn DEF Host
  <2>4. \A e \in Channels \ Used(r) : r.channel[e].mask = {} /\ r.channel[e].is # "on"
    BY <1>4, <1>6 DEF Host
  <2>5. \A e, f \in Used(r) : r.stage[e].ep = r.stage[f].ep => e = f
    BY <1>1, <1>5, <1>6, UsedIn DEF Host, Serves
  <2>6. \A e \in Used(r) : r.stage[e].ep \in Keyboards => r.stage[e].ep \in r.listening
    BY <1>1, <1>4, <1>5, <1>6, UsedIn DEF Host
  <2>. QED
    BY <1>4, <2>1, <2>3, <2>4, <2>5, <2>6 DEF Host
<1>8. InStep(r, dev)
  <2>1. Expected(r, c) = s.pid[ep] /\ r.stage[c].ep = ep
    BY <1>1, <1>4, <1>5 DEF Expected, Counts
  <2>2. \A e \in Used(s) : Expected(r, e) = Expected(s, e) /\ r.stage[e].ep = s.stage[e].ep
    BY <1>4, <1>5, UsedIn DEF Expected
  <2>3. \A e \in Used(r) :
           dev[r.stage[e].ep].inStep => dev[r.stage[e].ep].expects = Expected(r, e)
    BY <1>6, <2>1, <2>2 DEF InStep
  <2>4. \A e \in Endpoints : dev[e].inStep /\ ~Serves(r, e) => dev[e].expects = r.pid[e]
    BY <1>4, <1>6, <2>2 DEF InStep, Serves
  <2>. QED
    BY <2>3, <2>4 DEF InStep
<1>. QED
  BY <1>4, <1>6, <1>7, <1>8 DEF d, r

\* The channel and its stage are given up.
LEMMA Detaches ==
    ASSUME NEW s, NEW dev, NEW t, NEW c, Handling(s, dev, t, c)
    PROVE  LET r == Detached(s, c)
           IN  /\ Host(r) /\ InStep(r, dev) /\ Used(r) = Used(s) \ {c}
               /\ \A d \in Used(r) : r.stage[d] = s.stage[d]
               /\ r.allocated = s.allocated \ {c} /\ r.waiting = s.waiting
               /\ r.listening = s.listening
<1>. DEFINE x == [Off EXCEPT !.is = s.channel[c].is]   r == Detached(s, c)
<1>0. /\ c \in Used(s) /\ c \in Channels /\ s \in HostState /\ HostBut(s, c)
      /\ s.channel[c] \in Registers /\ s.channel[c].is # "on"
  BY UsedIn, HostFields DEF Handling, HostBut
<1>1. x \in Registers /\ x.mask = {} /\ x.is # "on"
  BY <1>0, UsbAssumption DEF Registers, Off
<1>. HIDE DEF x
<1>2. /\ r \in HostState
      /\ r.stage = [s.stage EXCEPT ![c] = NoStage] /\ r.channel = [s.channel EXCEPT ![c] = x]
      /\ r.enabled = s.enabled \ {c} /\ r.allocated = s.allocated \ {c} /\ r.pid = s.pid
      /\ r.waiting = s.waiting /\ r.listening = s.listening
  <2>1. /\ [s.stage EXCEPT ![c] = NoStage] \in [Channels -> StagesUsed \cup {NoStage}]
        /\ [s.channel EXCEPT ![c] = x] \in [Channels -> Registers]
        /\ s.enabled \ {c} \in SUBSET Channels /\ s.allocated \ {c} \in SUBSET Channels
    BY <1>0, <1>1, HostFields
  <2>2. r = [s EXCEPT !.enabled = s.enabled \ {c}, !.stage = [s.stage EXCEPT ![c] = NoStage],
                      !.allocated = s.allocated \ {c}, !.channel = [s.channel EXCEPT ![c] = x]]
    BY DEF Detached, x
  <2>. QED
    BY <1>0, <2>1, <2>2 DEF HostState
<1>. HIDE DEF r
<1>3. /\ r.stage[c] = NoStage /\ r.channel[c] = x
      /\ \A d \in Channels \ {c} : r.stage[d] = s.stage[d] /\ r.channel[d] = s.channel[d]
  BY <1>0, <1>2, HostFields
<1>4. Used(r) = Used(s) \ {c}
  BY <1>3 DEF Used
<1>5. \A d \in Used(r) : r.stage[d] = s.stage[d] /\ r.channel[d] = s.channel[d]
  BY <1>3, <1>4, UsedIn
<1>6. Host(r)
  <2>1. r.enabled = Used(r) /\ Used(r) \subseteq r.allocated
    BY <1>0, <1>2, <1>4 DEF HostBut
  <2>2. \A d \in Used(r) : Fits(r.stage[d], r.channel[d])
    BY <1>0, <1>4, <1>5 DEF HostBut
  <2>3. \A d \in Channels \ Used(r) : r.channel[d].mask = {} /\ r.channel[d].is # "on"
    BY <1>0, <1>1, <1>3, <1>4 DEF HostBut
  <2>4. /\ \A d, e \in Used(r) : r.stage[d].ep = r.stage[e].ep => d = e
        /\ \A d \in Used(r) : r.stage[d].ep \in Keyboards => r.stage[d].ep \in r.listening
    BY <1>0, <1>2, <1>4, <1>5 DEF HostBut
  <2>. QED
    BY <1>2, <2>1, <2>2, <2>3, <2>4 DEF Host
<1>7. InStep(r, dev)
  <2>0. InStepBut(s, dev, c)
    BY DEF Handling
  <2>1. \A d \in Used(r) : Expected(r, d) = Expected(s, d)
    BY <1>2, <1>5 DEF Expected
  <2>2. \A d \in Used(r) :
           dev[r.stage[d].ep].inStep => dev[r.stage[d].ep].expects = Expected(r, d)
    BY <1>4, <1>5, <2>0, <2>1 DEF InStepBut
  <2>3. \A ep \in Endpoints : ~Serves(r, ep) => ~Serves(s, ep) \/ ep = s.stage[c].ep
    BY <1>4, <1>5 DEF Serves
  <2>. QED
    BY <1>2, <2>0, <2>2, <2>3 DEF InStep, InStepBut
<1>. QED
  BY <1>2, <1>4, <1>5, <1>6, <1>7 DEF r

\* The end of a stage of a task's request: the task no longer waits for it.
LEMMA FinishesTask ==
    ASSUME NEW s, NEW dev, NEW t, NEW c, Handling(s, dev, t, c), NEW ok \in BOOLEAN,
           s.stage[c].ep \notin Keyboards
    PROVE  Agreed(Finish(s, c, ok), dev, t)
<1>. DEFINE a == Detached(s, c)   r == [a EXCEPT !.status = ok, !.waiting = FALSE]
<1>1. /\ Host(a) /\ InStep(a, dev) /\ Used(a) = Used(s) \ {c}
      /\ \A d \in Used(a) : a.stage[d] = s.stage[d]
      /\ a.allocated = s.allocated \ {c} /\ a.waiting = s.waiting
      /\ a.listening = s.listening
  BY Detaches
<1>2. Finish(s, c, ok) = r
  BY DEF Finish, Completed
<1>. HIDE DEF a
<1>3. /\ r \in HostState
      /\ r.stage = a.stage /\ r.channel = a.channel /\ r.enabled = a.enabled
      /\ r.allocated = a.allocated /\ r.pid = a.pid /\ r.listening = a.listening
      /\ r.waiting = FALSE
  BY <1>1 DEF Host, HostState
<1>. HIDE DEF r
<1>4. Used(r) = Used(a) /\ \A ep : Serves(r, ep) <=> Serves(a, ep)
  BY <1>3 DEF Used, Serves
<1>5. Host(r)
  BY <1>1, <1>3, <1>4 DEF Host
<1>6. InStep(r, dev)
  <2>1. \A d \in Used(r) : Expected(r, d) = Expected(a, d)
    BY <1>3 DEF Expected
  <2>. QED
    BY <1>1, <1>3, <1>4, <2>1 DEF InStep
<1>7. c \in Used(s) /\ Submitted(s, t) /\ HostBut(s, c) /\ (t.at = "start" => t.channel # c)
  BY DEF Handling
<1>8. t.ep = s.stage[c].ep /\ t.at = "wait"
  <2>1. t.ep = s.stage[c].ep /\ t.at \in {"start", "wait"}
    BY <1>7 DEF Submitted
  <2>2. t.at # "start"
    BY <1>7, <2>1 DEF Submitted, HostBut
  <2>. QED
    BY <2>1, <2>2
<1>9. \A d \in Used(r) : r.stage[d].ep = s.stage[d].ep /\ r.stage[d].ep # t.ep
  BY <1>1, <1>3, <1>4, <1>7, <1>8 DEF HostBut
<1>10. Submitted(r, t)
  <2>1. ~Serves(r, t.ep)
    BY <1>9 DEF Serves
  <2>2. \A d \in Used(r) : r.stage[d].ep \in Keyboards
    BY <1>1, <1>4, <1>7, <1>9 DEF Submitted
  <2>3. r.allocated = Used(r) \cup Holding(t)
    BY <1>1, <1>3, <1>4, <1>7, <1>8 DEF Submitted, Holding
  <2>. QED
    BY <1>1, <1>3, <1>7, <1>8, <2>1, <2>2, <2>3 DEF Submitted
<1>. QED
  BY <1>2, <1>5, <1>6, <1>10 DEF Agreed


\* The end of a keyboard's request: its completion routine submits it again, if a
\* channel is free.
LEMMA FinishesKeyboard ==
    ASSUME NEW s, NEW dev, NEW t, NEW c, Handling(s, dev, t, c), NEW ok \in BOOLEAN,
           s.stage[c].ep \in Keyboards
    PROVE  Agreed(Finish(s, c, ok), dev, t)
<1>. DEFINE ep == s.stage[c].ep   a == Detached(s, c)
<1>1. /\ Host(a) /\ InStep(a, dev) /\ Used(a) = Used(s) \ {c}
      /\ \A d \in Used(a) : a.stage[d] = s.stage[d]
      /\ a.allocated = s.allocated \ {c} /\ a.waiting = s.waiting
      /\ a.listening = s.listening
  BY Detaches
<1>2. Finish(s, c, ok) = Listen(a, ep)
  BY DEF Finish, Completed
<1>. HIDE DEF a
<1>3. /\ c \in Used(s) /\ Submitted(s, t) /\ HostBut(s, c) /\ (t.at = "start" => t.channel # c)
      /\ s \in HostState /\ a \in HostState /\ Used(a) \subseteq Channels
      /\ t.at \in {"attach", "failed"} => t.channel # c
  BY <1>1, UsedIn DEF Handling, HostBut, Host, Submitted
<1>4. /\ ~Serves(a, ep) /\ ep \in a.listening /\ ep \in Endpoints
      /\ \A e : Serves(a, e) => Serves(s, e)
      /\ \A e \in Endpoints \ Keyboards : Serves(s, e) => Serves(a, e)
  <2>1. ~Serves(a, ep) /\ ep \in a.listening
    BY <1>1, <1>3 DEF Serves, HostBut
  <2>2. \A e : Serves(a, e) => Serves(s, e)
    BY <1>1 DEF Serves
  <2>3. \A e \in Endpoints \ Keyboards : Serves(s, e) => Serves(a, e)
    BY <1>1 DEF Serves
  <2>. QED
    BY <2>1, <2>2, <2>3 DEF Endpoints
<1>5. a.allocated = Used(a) \cup Holding(t)
  BY <1>1, <1>3 DEF Submitted, Holding
<1>6. CASE Free(a) = {}
  <2>1. Listen(a, ep) = a
    BY <1>6 DEF Listen
  <2>2. t.at = "start" => t.channel \in Used(a) /\ a.stage[t.channel] = s.stage[t.channel]
    BY <1>1, <1>3 DEF Submitted
  <2>3. Submitted(a, t)
    BY <1>1, <1>3, <1>4, <1>5, <2>2, TaskKept DEF Submitted
  <2>. QED
    BY <1>1, <1>2, <2>1, <2>3 DEF Agreed
<1>7. CASE Free(a) # {}
  <2>. DEFINE f == Min(Free(a))   g == Stage(TRUE, FALSE, 1)
              b == [a EXCEPT !.allocated = a.allocated \cup {f}]
              r == Attach(b, f, ep, g)
  <2>1. f \in Free(a) /\ f \in Channels /\ f \notin a.allocated
    <3>1. a.channels \in 1..MaxChannels /\ MaxChannels \in Nat \ {0}
      BY <1>3, HostFields, UsbAssumption
    <3>2. Free(a) \subseteq Nat
      BY <3>1 DEF Free
    <3>3. f \in Free(a)
      BY <1>7, <3>2, MinIs
    <3>. QED
      BY <3>1, <3>3 DEF Free, Channels
  <2>2. Listen(a, ep) = StartTransaction(r, f)
    BY <1>7 DEF Listen
  <2>. HIDE DEF f
  <2>3. b \in HostState
    BY <1>3, <2>1 DEF HostState
  <2>4. g \in StagesToDo /\ PacketsOf(a, ep, g) = 1
    BY UsbAssumption DEF Stage, StagesToDo, PacketsOf
  <2>5. f \in Channels \ Used(a)
    BY <1>5, <2>1
  <2>6. Reserved(a, f, b)
    BY DEF Reserved
  <2>. HIDE DEF g, b
  <2>7. /\ Host(r) /\ InStep(r, dev) /\ Used(r) = Used(a) \cup {f}
        /\ r.stage = [a.stage EXCEPT ![f] = StageData(a, ep, g)]
        /\ r.allocated = a.allocated \cup {f} /\ r.waiting = a.waiting
        /\ r.listening = a.listening /\ r.channel = a.channel
    <3>1. Host(a) /\ InStep(a, dev)
      BY <1>1
    <3>2. ep \in Endpoints /\ ~Serves(a, ep) /\ ep \in a.listening
      BY <1>4
    <3>3. PacketsOf(a, ep, g) # 0
      BY <2>4
    <3>. HIDE DEF ep
    <3>. QED
      BY <2>3, <2>4, <2>5, <2>6, <3>1, <3>2, <3>3, Attaches
  <2>. DEFINE d == StageData(a, ep, g)
  <2>8. /\ d \in StagesUsed /\ d.ep = ep /\ d.packets >= 1 /\ d.waitsFor = "none" /\ InState(d)
    BY <1>4, <2>4, StageDataIs
  <2>. HIDE DEF r, d
  <2>9. r.stage[f] = d /\ \A e \in Used(a) : r.stage[e] = a.stage[e]
    <3>1. a.stage \in [Channels -> StagesUsed \cup {NoStage}]
      BY <1>3, HostFields
    <3>. QED
      BY <1>3, <2>5, <2>7, <3>1 DEF d
  <2>10. r.channel[f].is # "on" /\ r.channel[f].mask = {}
    BY <1>1, <2>5, <2>7 DEF Host
  <2>11. HostBut(r, f) /\ InStepBut(r, dev, f)
    <3>1. Expected(r, f) = r.pid[r.stage[f].ep]
      BY <2>8, <2>9 DEF Expected, Counts
    <3>. QED
      BY <2>7, <3>1 DEF HostBut, Host, InStepBut, InStep
  <2>12. Submitted(r, t)
    <3>1. \A e : Serves(r, e) => Serves(s, e)
      <4>1. \A e : Serves(r, e) => Serves(a, e) \/ e = ep
        BY <2>7, <2>8, <2>9 DEF Serves
      <4>2. Serves(s, ep)
        BY <1>3 DEF Serves
      <4>. QED
        BY <1>4, <4>1, <4>2
    <3>2. \A e \in Endpoints \ Keyboards : Serves(s, e) => Serves(r, e)
      <4>1. \A e : Serves(a, e) => Serves(r, e)
        BY <2>7, <2>9 DEF Serves
      <4>. QED
        BY <1>4, <4>1
    <3>3. r.allocated = Used(r) \cup Holding(t)
      BY <1>5, <2>7
    <3>4. t.at \in {"attach", "failed"} => t.channel \notin Used(r)
      BY <1>1, <1>3, <1>5, <2>1, <2>7 DEF Submitted, Holding
    <3>5. t.at = "start" => t.channel \in Used(r) /\ r.stage[t.channel] = s.stage[t.channel]
      BY <1>1, <1>3, <2>7, <2>9 DEF Submitted
    <3>6. r.waiting = s.waiting /\ r.listening = s.listening /\ Used(r) \subseteq Channels
      BY <1>1, <2>7, UsedIn
    <3>. QED
      BY <1>3, <3>1, <3>2, <3>3, <3>4, <3>5, <3>6, TaskKept
  <2>13. t.at = "start" => t.channel # f
    BY <1>1, <1>3, <1>5, <2>1 DEF Submitted
  <2>14. Handling(r, dev, t, f)
    BY <2>7, <2>8, <2>9, <2>10, <2>11, <2>12, <2>13 DEF Handling
  <2>. QED
    BY <1>2, <2>2, <2>8, <2>9, <2>14, Restarts
<1>. QED
  BY <1>6, <1>7

LEMMA Finishes ==
    ASSUME NEW s, NEW dev, NEW t, NEW c, Handling(s, dev, t, c), NEW ok \in BOOLEAN
    PROVE  Agreed(Finish(s, c, ok), dev, t)
  BY FinishesTask, FinishesKeyboard

-----------------------------------------------------------------------------
(* The interrupt handler *)

\* The registers after a transaction: with packets left of a complete-split, it
\* was not completed.
Answer(s, c) ==
    /\ s.stage[c].state = "complete" /\ "complete" \notin s.channel[c].ints
          => s.stage[c].packets >= 1
    /\ s.stage[c].state # "complete" /\ WasRefused(s.channel[c].ints) => s.stage[c].packets >= 1
    /\ s.stage[c].state = "start" => s.stage[c].packets >= 1

LEMMA TransactionDoneKeeps ==
    ASSUME NEW s, NEW dev, NEW t, NEW c, Handling(s, dev, t, c), Answer(s, c)
    PROVE  Agreed(TransactionDone(s, c), dev, t)
<1>0. /\ s \in HostState /\ c \in Channels /\ s.stage[c] \in StagesUsed
      /\ InState(s.stage[c]) /\ c \in Used(s) /\ Tries \in Nat
      /\ s.stage[c].packets \in 0..MaxPackets /\ s.stage[c].retries \in 0..Tries
      /\ s.stage[c].state \in {"no split", "start", "complete", "delay"}
  BY HostFields, UsedIn, UsbAssumption DEF Handling, HostBut, StagesUsed
<1>1. /\ [s.channel EXCEPT ![c] = s.channel[c]] = s.channel
      /\ \A g : Put(s, c, g, s.channel[c]) = [s EXCEPT !.stage[c] = g]
  <2>1. [s.channel EXCEPT ![c] = s.channel[c]] = s.channel
    BY <1>0, HostFields
  <2>. QED
    BY <1>0, <2>1 DEF Put, HostState
<1>2. /\ s.stage[c].packets \in Nat
      /\ Tries \in Nat /\ 0 \in 0..Tries
  <2>1. s.stage[c] \in StagesUsed
    BY <1>0
  <2>2. MaxPackets \in Nat /\ Tries \in Nat
    BY UsbAssumption
  <2>3. s.stage[c].packets \in 0..MaxPackets
    BY <2>1 DEF StagesUsed
  <2>4. \A n \in 0..MaxPackets : n \in Nat
    BY <2>2
  <2>. QED
    BY <2>2, <2>3, <2>4
\* The stage with another state and number of retries
<1>. DEFINE Now(st, n) == [s.stage[c] EXCEPT !.state = st, !.retries = n]
            To(st, n) == [s EXCEPT !.stage[c] = Now(st, n)]
<1>3. ASSUME NEW st \in {"start", "complete"}, NEW n \in 0..Tries,
             s.stage[c].packets >= 1, s.stage[c].state # "no split"
      PROVE  Agreed(StartTransaction(To(st, n), c), dev, t)
  <2>1. /\ Now(st, n) \in StagesUsed /\ Now(st, n).ep = s.stage[c].ep
        /\ Now(st, n).packets = s.stage[c].packets /\ Now(st, n).state = st
    BY <1>0 DEF StagesUsed
  <2>2. InState(Now(st, n))
    BY <1>0, <1>3, <2>1 DEF InState
  <2>3. Handling(To(st, n), dev, t, c)
    <3>1. Put(s, c, Now(st, n), s.channel[c]) = To(st, n)
      BY <1>1
    <3>. HIDE DEF To, Now
    <3>. QED
      BY <2>1, <2>2, <3>1, StillHandling
  <2>4. To(st, n).stage[c] = Now(st, n)
    BY <1>0, HostFields DEF HostState
  <2>. HIDE DEF To, Now
  <2>. QED
    BY <1>3, <2>1, <2>3, <2>4, Restarts
<1>4. CASE s.stage[c].state = "no split"
  <2>1. TransactionDone(s, c) = NoSplitDone(s, c)
    BY <1>4 DEF TransactionDone
  <2>2. /\ s.channel[c].ints \cap {"nak", "nyet"} # {} => s.stage[c].packets >= 1
    BY <1>4 DEF Answer, WasRefused
  <2>3. Agreed(Finish(s, c, TRUE), dev, t) /\ Agreed(Finish(s, c, FALSE), dev, t)
    BY Finishes
  <2>. QED
    BY <2>1, <2>2, <2>3, Delays DEF NoSplitDone
<1>5. CASE s.stage[c].state = "start"
  <2>1. TransactionDone(s, c) = StartSplitDone(s, c)
    BY <1>5 DEF TransactionDone
  <2>2. StartSplitDone(s, c) = IF WasRefused(s.channel[c].ints) THEN Finish(s, c, FALSE)
                               ELSE StartTransaction(To("complete", Tries), c)
    BY <1>0 DEF StartSplitDone, HostState
  <2>3. s.stage[c].packets >= 1 /\ Tries \in 0..Tries
    BY <1>0, <1>5 DEF Answer
  <2>. HIDE DEF To
  <2>. QED
    BY <1>3, <1>5, <2>1, <2>2, <2>3, Finishes
<1>6. CASE s.stage[c].state = "complete"
  <2>1. TransactionDone(s, c) = CompleteSplitDone(s, c)
    BY <1>6 DEF TransactionDone
  <2>2. [s EXCEPT !.stage[c].state = "start", !.stage[c].retries = 0] = To("start", 0)
    BY <1>0 DEF HostState
  <2>3. Agreed(NextSplit(s, c), dev, t)
    <3>1. CASE s.stage[c].packets = 0
      BY <3>1, Finishes DEF NextSplit
    <3>2. CASE s.stage[c].packets >= 1
      <4>1. Agreed(Delay(s, c), dev, t)
        BY <3>2, Delays
      <4>2. 0 \in 0..Tries /\ s.stage[c].packets # 0
        BY <1>2, <3>2
      <4>. HIDE DEF To
      <4>3. Agreed(StartTransaction(To("start", 0), c), dev, t)
        BY <1>3, <1>6, <3>2, <4>2
      <4>. QED
        BY <2>2, <4>1, <4>2, <4>3 DEF NextSplit
    <3>. QED
      BY <1>2, <3>1, <3>2
  <2>4. ASSUME "complete" \notin s.channel[c].ints, s.stage[c].retries > 0
        PROVE  Agreed(StartTransaction([s EXCEPT !.stage[c].retries = @ - 1], c), dev, t)
    <3>. DEFINE n == s.stage[c].retries - 1
    <3>1. n \in 0..Tries /\ s.stage[c].packets >= 1
      BY <1>0, <1>6, <2>4 DEF Answer
    <3>2. [s EXCEPT !.stage[c].retries = @ - 1] = To("complete", n)
      <4>1. [s.stage[c] EXCEPT !.retries = n] = Now("complete", n)
        BY <1>0, <1>6 DEF StagesUsed
      <4>. QED
        BY <4>1
    <3>. HIDE DEF To, n
    <3>. QED
      BY <1>3, <1>6, <3>1, <3>2
  <2>5. Agreed(Finish(s, c, FALSE), dev, t)
    BY Finishes
  <2>. QED
    BY <2>1, <2>3, <2>4, <2>5 DEF CompleteSplitDone
<1>. QED
  BY <1>0, <1>4, <1>5, <1>6 DEF InState


\* The handler has the channel c, but may have its packets to count.
Taken(s, dev, t, c) ==
    /\ c \in Used(s) /\ HostBut(s, c) /\ Submitted(s, t)
    /\ dev \in Devices
    /\ \A ep \in Endpoints : dev[ep].inStep /\ ~Serves(s, ep) => dev[ep].expects = s.pid[ep]
    /\ \A d \in Used(s) \ {c} :
          dev[s.stage[d].ep].inStep => dev[s.stage[d].ep].expects = Expected(s, d)
    /\ s.channel[c].is # "on" /\ s.channel[c].mask = {} /\ InState(s.stage[c])
    /\ t.at = "start" => t.channel # c

Counted(s, c, g, p, r) ==
    r = [s EXCEPT !.stage = [s.stage EXCEPT ![c] = g], !.pid = [s.pid EXCEPT ![g.ep] = p]]

LEMMA CountedIs ==
    ASSUME NEW s, NEW dev, NEW t, NEW c, Taken(s, dev, t, c),
           NEW g \in StagesUsed, g.ep = s.stage[c].ep, InState(g),
           NEW p \in PIDs, dev[g.ep].inStep => dev[g.ep].expects = p,
           NEW r, Counted(s, c, g, p, r)
    PROVE  Handling(r, dev, t, c) /\ r.stage[c] = g /\ r.channel = s.channel
<1>0. /\ c \in Used(s) /\ c \in Channels /\ s \in HostState /\ HostBut(s, c) /\ Submitted(s, t)
      /\ g.ep \in Endpoints
  BY UsedIn DEF Taken, HostBut, StagesUsed
<1>1. /\ r \in HostState
      /\ r.stage = [s.stage EXCEPT ![c] = g] /\ r.pid = [s.pid EXCEPT ![g.ep] = p]
      /\ r.channel = s.channel /\ r.enabled = s.enabled /\ r.allocated = s.allocated
      /\ r.waiting = s.waiting /\ r.listening = s.listening
  <2>1. /\ [s.stage EXCEPT ![c] = g] \in [Channels -> StagesUsed \cup {NoStage}]
        /\ [s.pid EXCEPT ![g.ep] = p] \in [Endpoints -> PIDs]
    BY <1>0, HostFields
  <2>. QED
    BY <1>0, <2>1 DEF HostState, Counted
<1>2. /\ r.stage[c] = g
      /\ \A d \in Channels \ {c} : r.stage[d] = s.stage[d]
      /\ \A ep \in Endpoints : r.pid[ep] = IF ep = g.ep THEN p ELSE s.pid[ep]
  BY <1>0, <1>1, HostFields
<1>3. Used(r) = Used(s) /\ \A d \in Used(s) : r.stage[d].ep = s.stage[d].ep
  BY <1>0, <1>2, StageIsOne DEF Used
<1>4. \A ep : Serves(r, ep) <=> Serves(s, ep)
  BY <1>3 DEF Serves
<1>5. HostBut(r, c)
  <2>1. r.enabled = Used(r) /\ Used(r) \subseteq r.allocated
    BY <1>0, <1>1, <1>3 DEF HostBut
  <2>2. \A d \in Used(r) \ {c} : Fits(r.stage[d], r.channel[d])
    BY <1>0, <1>1, <1>2, <1>3, UsedIn DEF HostBut
  <2>3. \A d \in Channels \ Used(r) : r.channel[d].mask = {} /\ r.channel[d].is # "on"
    BY <1>0, <1>1, <1>3 DEF HostBut
  <2>4. /\ \A d, e \in Used(r) : r.stage[d].ep = r.stage[e].ep => d = e
        /\ \A d \in Used(r) : r.stage[d].ep \in Keyboards => r.stage[d].ep \in r.listening
    BY <1>0, <1>1, <1>3 DEF HostBut
  <2>. QED
    BY <1>1, <2>1, <2>2, <2>3, <2>4 DEF HostBut
<1>6. InStepBut(r, dev, c)
  <2>1. \A d \in Used(s) \ {c} : s.stage[d].ep # g.ep /\ s.stage[d].ep \in Endpoints
    BY <1>0, HostFields DEF HostBut
  <2>2. \A d \in Used(s) \ {c} : Expected(r, d) = Expected(s, d)
    BY <1>1, <1>2, <2>1, UsedIn DEF Expected
  <2>3. \A d \in Used(r) \ {c} :
           dev[r.stage[d].ep].inStep => dev[r.stage[d].ep].expects = Expected(r, d)
    BY <1>3, <2>2 DEF Taken
  <2>4. Serves(s, g.ep)
    BY <1>0 DEF Serves
  <2>5. \A ep \in Endpoints : dev[ep].inStep /\ ~Serves(r, ep) => dev[ep].expects = r.pid[ep]
    BY <1>2, <1>4, <2>4 DEF Taken
  <2>6. dev[r.stage[c].ep].inStep => dev[r.stage[c].ep].expects = r.pid[r.stage[c].ep]
    BY <1>0, <1>2
  <2>7. dev \in Devices
    BY DEF Taken
  <2>. QED
    BY <2>3, <2>5, <2>6, <2>7 DEF InStepBut
<1>7. Submitted(r, t)
  <2>1. t.at = "start" => t.channel \in Used(r) /\ r.stage[t.channel] = s.stage[t.channel]
    BY <1>0, <1>2, <1>3, UsedIn DEF Submitted, Taken
  <2>. QED
    BY <1>0, <1>1, <1>3, <1>4, <2>1, TaskKept, UsedIn DEF Submitted
<1>. QED
  BY <1>0, <1>1, <1>2, <1>3, <1>5, <1>6, <1>7 DEF Handling, Taken

\* A transaction that has ended, of a stage that goes on with it
LEMMA CountPacketsIs ==
    ASSUME NEW s, NEW dev, NEW t, NEW c, Taken(s, dev, t, c),
           dev[s.stage[c].ep].inStep => dev[s.stage[c].ep].expects = Expected(s, c),
           Fits(s.stage[c], s.channel[c]), s.stage[c].waitsFor = "transaction",
           s.channel[c].ints \notin {{}, {"halted"}}
    PROVE  /\ Handling(CountPackets(s, c), dev, t, c)
           /\ Answer(CountPackets(s, c), c)
<1>. DEFINE g == s.stage[c]  x == s.channel[c]  n == x.packets - x.left
            r == CountPackets(s, c)
<1>0. /\ c \in Used(s) /\ c \in Channels /\ s \in HostState /\ g \in StagesUsed
      /\ x \in Registers /\ g.ep \in Endpoints /\ s.pid[g.ep] \in PIDs
      /\ InState(g)
  BY UsedIn, HostFields DEF Taken, HostBut
<1>1. CASE WasRefused(x.ints)
  <2>1. r = s
    BY <1>1 DEF CountPackets
  <2>2. Expected(s, c) = s.pid[g.ep]
    BY <1>1 DEF Expected, Counts
  <2>3. Handling(s, dev, t, c)
    BY <2>2 DEF Handling, Taken, InStepBut
  <2>4. Answer(s, c)
    BY DEF Answer, Fits
  <2>. QED
    BY <2>1, <2>3, <2>4
<1>2. CASE ~WasRefused(x.ints)
  <2>. DEFINE h == [g EXCEPT !.packets = g.packets - n]
              p == IF g.state = "start" THEN s.pid[g.ep]
                   ELSE SkipPID(s.pid[g.ep], n, g.isStatus)
  <2>1. /\ n \in Nat /\ n <= g.packets /\ g.packets \in 0..MaxPackets
        /\ x.left \in Nat /\ x.packets \in Nat /\ MaxPackets \in Nat
        /\ g.state = "start" => n = 0
        /\ g.state = "complete" /\ "complete" \notin x.ints => n = 0
        /\ g.packets >= 1
    <3>1. x.left \in 0..MaxPackets /\ x.packets \in 0..MaxPackets /\ g.packets \in 0..MaxPackets
      BY <1>0 DEF Registers, StagesUsed
    <3>2. MaxPackets \in Nat
      BY UsbAssumption
    <3>3. /\ x.packets = (IF IsSplit(g) THEN 1 ELSE g.packets) /\ x.left <= x.packets
          /\ g.state = "start" => x.left = x.packets
          /\ g.state = "complete" /\ "complete" \notin x.ints => x.left = x.packets
          /\ g.packets >= 1
      BY DEF Fits
    <3>. HIDE DEF g, x
    <3>. QED
      BY <3>1, <3>2, <3>3
  <2>2. g.packets - n \in 0..MaxPackets
    <3>. HIDE DEF g, n
    <3>. QED
      BY <2>1
  <2>3. /\ h \in StagesUsed /\ h.ep = g.ep /\ h.packets = g.packets - n /\ h.state = g.state
        /\ InState(h)
    <3>. HIDE DEF n
    <3>1. h \in StagesUsed /\ h.ep = g.ep /\ h.packets = g.packets - n /\ h.state = g.state
      BY <1>0, <2>2 DEF StagesUsed
    <3>. HIDE DEF h
    <3>. QED
      BY <1>0, <3>1 DEF InState
  <2>4. p \in PIDs /\ p = Expected(s, c)
    <3>1. SkipPID(s.pid[g.ep], n, g.isStatus) \in PIDs
      BY <1>0 DEF SkipPID, Toggled, PIDs
    <3>2. p = Expected(s, c)
      BY <1>2 DEF Expected, Counts
    <3>. QED
      BY <1>0, <3>1, <3>2
  <2>5. Counted(s, c, h, p, r)
    <3>1. h.ep = g.ep
      BY <2>3
    <3>. QED
      BY <1>2, <3>1 DEF CountPackets, Counted
  <2>6. Handling(r, dev, t, c) /\ r.stage[c] = h /\ r.channel = s.channel
    <3>1. dev[h.ep].inStep => dev[h.ep].expects = p
      BY <2>3, <2>4
    <3>. HIDE DEF r, h, p, g
    <3>2. h.ep = s.stage[c].ep
      BY <2>3 DEF g
    <3>. QED
      BY <2>3, <2>4, <2>5, <3>1, <3>2, CountedIs
  <2>7. Answer(r, c)
    <3>. HIDE DEF r, h, g, n
    <3>. QED
      BY <1>2, <2>1, <2>3, <2>6 DEF Answer
  <2>. QED
    BY <2>6, <2>7
<1>. QED
  BY <1>1, <1>2

LEMMA HandlerKeeps ==
    ASSUME NEW u, NEW dev, NEW t, Agreed(u, dev, t), NEW c \in Channels, u.stage[c] # NoStage,
           u.channel[c].ints \cap u.channel[c].mask # {}
    PROVE  Agreed(Handled([u EXCEPT !.channel[c].mask = {}], c), dev, t)
<1>. DEFINE g == u.stage[c]   x == [u.channel[c] EXCEPT !.mask = {}]
            s == [u EXCEPT !.channel[c].mask = {}]
<1>0. /\ u \in HostState /\ c \in Used(u) /\ g \in StagesUsed /\ u.channel[c] \in Registers
      /\ Fits(g, u.channel[c]) /\ Host(u) /\ InStep(u, dev) /\ Submitted(u, t) /\ HostBut(u, c)
  <2>1. Host(u) /\ InStep(u, dev) /\ Submitted(u, t) /\ u \in HostState /\ c \in Used(u)
    BY DEF Agreed, Host, Used
  <2>. QED
    BY <2>1, HostFields DEF Host, HostBut
<1>1. /\ x \in Registers /\ x.mask = {} /\ x.is = u.channel[c].is /\ x.ints = u.channel[c].ints
      /\ x.packets = u.channel[c].packets /\ x.left = u.channel[c].left
  BY <1>0 DEF Registers
<1>2. /\ g.waitsFor \in {"transaction", "disable"} /\ x.is # "on" /\ InState(g)
      /\ g.packets >= 1 /\ Fits(g, x)
  <2>1. g.waitsFor \in {"none", "transaction", "disable", "timer"}
    BY <1>0 DEF StagesUsed
  <2>. HIDE DEF g, x
  <2>. QED
    BY <1>0, <1>1, <2>1 DEF Fits
<1>3. s = Put(u, c, g, x)
  <2>1. [u.stage EXCEPT ![c] = g] = u.stage
    BY <1>0, HostFields
  <2>2. s = [u EXCEPT !.channel = [u.channel EXCEPT ![c] = x]]
    OBVIOUS
  <2>. HIDE DEF x, s
  <2>. QED
    BY <1>0, <2>1, <2>2 DEF Put, HostState
<1>. HIDE DEF s, x
<1>4. PutFields(u, c, g, x, s)
  BY <1>0, <1>1, <1>3, PutIs
<1>5. /\ Used(s) = Used(u) /\ \A ep : Serves(s, ep) <=> Serves(u, ep)
      /\ HostBut(s, c) /\ s.stage[c] = g /\ s.channel[c] = x
      /\ \A d \in Channels \ {c} : s.stage[d] = u.stage[d] /\ s.channel[d] = u.channel[d]
      /\ \A d \in Used(u) : s.stage[d].ep = u.stage[d].ep
  BY <1>0, <1>1, <1>4, PutKeeps
<1>6. Expected(s, c) = Expected(u, c) /\ \A d \in Used(u) \ {c} : Expected(s, d) = Expected(u, d)
  <2>1. s.pid = u.pid
    BY <1>4 DEF PutFields
  <2>2. Expected(s, c) = Expected(u, c)
    BY <1>1, <1>5, <2>1 DEF Expected, Counts
  <2>3. \A d \in Used(u) \ {c} : Expected(s, d) = Expected(u, d)
    BY <1>5, <2>1, UsedIn DEF Expected
  <2>. QED
    BY <2>2, <2>3
<1>7. Submitted(s, t) /\ (t.at = "start" => t.channel # c)
  <2>1. t.at = "start" => t.channel # c
    BY <1>0, <1>2 DEF Submitted
  <2>2. t.at = "start" => t.channel \in Used(s) /\ s.stage[t.channel] = u.stage[t.channel]
    BY <1>0, <1>5, <2>1, UsedIn DEF Submitted
  <2>3. s.waiting = u.waiting /\ s.listening = u.listening /\ s.allocated = u.allocated
    BY <1>4 DEF PutFields
  <2>. QED
    BY <1>0, <1>5, <2>1, <2>2, <2>3, TaskKept, UsedIn DEF Submitted
<1>8. /\ Taken(s, dev, t, c)
      /\ dev[s.stage[c].ep].inStep => dev[s.stage[c].ep].expects = Expected(s, c)
  <2>1. s.pid = u.pid
    BY <1>4 DEF PutFields
  <2>2. InState(s.stage[c]) /\ s.channel[c].is # "on" /\ s.channel[c].mask = {}
    BY <1>1, <1>2, <1>5
  <2>3. dev[s.stage[c].ep].inStep => dev[s.stage[c].ep].expects = Expected(s, c)
    BY <1>0, <1>5, <1>6 DEF InStep
  <2>. HIDE DEF g
  <2>. QED
    BY <1>0, <1>5, <1>6, <1>7, <2>1, <2>2, <2>3 DEF Taken, InStep
<1>9. ASSUME g.waitsFor = "disable" \/ x.ints = {"halted"}
      PROVE  Agreed(Handled(s, c), dev, t)
  <2>1. Handled(s, c) = IF g.waitsFor = "disable" THEN StartChannel(s, c)
                        ELSE StartTransaction(s, c)
    BY <1>5, <1>9 DEF Handled
  <2>2. Expected(s, c) = s.pid[s.stage[c].ep]
    BY <1>5, <1>9 DEF Expected, Counts
  <2>3. Handling(s, dev, t, c)
    BY <1>8, <2>2 DEF Handling, Taken, InStepBut
  <2>4. s.stage[c].packets >= 1
    BY <1>2, <1>5
  <2>. QED
    BY <2>1, <2>3, <2>4, Restarts
<1>10. ASSUME g.waitsFor # "disable", x.ints # {"halted"}
       PROVE  Agreed(Handled(s, c), dev, t)
  <2>1. Handled(s, c) = TransactionDone(CountPackets(s, c), c)
    BY <1>5, <1>10 DEF Handled
  <2>2. s.channel[c].ints \notin {{}, {"halted"}} /\ s.stage[c].waitsFor = "transaction"
    BY <1>1, <1>2, <1>5, <1>10
  <2>3. Fits(s.stage[c], s.channel[c])
    BY <1>2, <1>5
  <2>4. Handling(CountPackets(s, c), dev, t, c) /\ Answer(CountPackets(s, c), c)
    BY <1>8, <2>2, <2>3, CountPacketsIs
  <2>. QED
    BY <2>1, <2>4, TransactionDoneKeeps
<1>. QED
  BY <1>9, <1>10 DEF s


-----------------------------------------------------------------------------
(* The task *)

\* Only what no stage depends on has changed.
SameStages(s, r) ==
    /\ r \in HostState
    /\ r.stage = s.stage /\ r.channel = s.channel /\ r.pid = s.pid /\ r.enabled = s.enabled
    /\ s.listening \subseteq r.listening /\ s.allocated \subseteq r.allocated

LEMMA SameStagesKeep ==
    ASSUME NEW s, Host(s), NEW dev, InStep(s, dev), NEW r, SameStages(s, r)
    PROVE  /\ Host(r) /\ InStep(r, dev)
           /\ Used(r) = Used(s) /\ \A ep : Serves(r, ep) <=> Serves(s, ep)
<1>1. Used(r) = Used(s)
  BY DEF SameStages, Used
<1>2. \A ep : Serves(r, ep) <=> Serves(s, ep)
  BY <1>1 DEF SameStages, Serves
<1>3. Host(r)
  BY <1>1 DEF SameStages, Host
<1>4. InStep(r, dev)
  <2>1. \A c \in Used(s) : Expected(r, c) = Expected(s, c)
    BY DEF Expected, SameStages
  <2>. QED
    BY <1>1, <1>2, <2>1 DEF InStep, SameStages
<1>. QED
  BY <1>1, <1>2, <1>3, <1>4

LEMMA StagesIs ==
    ASSUME NEW ep \in Endpoints, NEW in \in BOOLEAN, NEW n \in 0..MaxPackets
    PROVE  Stages(ep, in, n) \in Seq(StagesToDo) /\ Stages(ep, in, n) # <<>>
<1>1. \A i, j \in BOOLEAN : \A m \in {0, n} : Stage(i, j, m) \in StagesToDo
  <2>1. n \in 0..MaxPackets /\ 0 \in 0..MaxPackets
    BY UsbAssumption
  <2>. QED
    BY <2>1 DEF Stage, StagesToDo
<1>2. \A a, b, c \in StagesToDo : /\ <<a>> \in Seq(StagesToDo) /\ <<a>> # <<>>
                                 /\ <<a, b>> \in Seq(StagesToDo) /\ <<a, b>> # <<>>
                                 /\ <<a, b, c>> \in Seq(StagesToDo) /\ <<a, b, c>> # <<>>
  OBVIOUS
<1>. DEFINE a == Stage(FALSE, FALSE, n)  b == Stage(TRUE, FALSE, n)  c == Stage(FALSE, TRUE, n)
            d == Stage(FALSE, FALSE, 0)  e == Stage(TRUE, TRUE, 0)   f == Stage(TRUE, TRUE, n)
            g == Stage(in, FALSE, n)
<1>3. {a, b, c, d, e, f, g} \subseteq StagesToDo
  BY <1>1
<1>4. Stages(ep, in, n) \in {<<g>>, <<a, b, c>>, <<d, e>>, <<a, a, f>>}
  BY DEF Stages
<1>. HIDE DEF a, b, c, d, e, f, g
<1>. QED
  BY <1>2, <1>3, <1>4, ZenonT(60)

LEMMA NoTaskIs ==
    NoTask \in TaskFits /\ NoTask.at = "idle" /\ NoTask.ep = "none" /\ NoTask.channel = 0
  BY UsbAssumption DEF NoTask, TaskFits, Channels

\* A request begins with its first stage.
LEMMA Begins ==
    ASSUME NEW ep \in Endpoints, NEW todo \in Seq(StagesToDo)
    PROVE  LET t == [NoTask EXCEPT !.at = "stage", !.ep = ep, !.todo = todo]
           IN  t \in TaskFits /\ t.at = "stage" /\ t.ep = ep /\ t.todo = todo
  BY NoTaskIs DEF TaskFits, Submitting

LEMMA SubmitKeeps ==
    ASSUME NEW ep \in usb.endpoints, NEW in \in BOOLEAN, NEW n \in 0..MaxPackets,
           UsbInv, Submit(ep, in, n)
    PROVE  UsbInv'
<1>. DEFINE t == [NoTask EXCEPT !.at = "stage", !.ep = ep, !.todo = Stages(ep, in, n)]
<1>0. /\ Host(usb) /\ InStep(usb, device) /\ Submitted(usb, task) /\ usb \in HostState
      /\ task.at = "idle" /\ ep \notin Keyboards /\ ep \in Endpoints
      /\ usb' = usb /\ device' = device /\ task' = t
  BY HostFields DEF UsbInv, Agreed, Submit, Host
<1>1. t \in TaskFits /\ t.at = "stage" /\ t.ep = ep /\ t.todo = Stages(ep, in, n)
  BY <1>0, StagesIs, Begins, ZenonT(60)
<1>2. Submitted(usb, t)
  <2>1. \A c \in Used(usb) : usb.stage[c].ep \in Keyboards
    BY <1>0 DEF Submitted
  <2>2. ~usb.waiting /\ ~Serves(usb, ep) /\ usb.allocated = Used(usb)
    BY <1>0, <2>1 DEF Submitted, Serves, Holding
  <2>3. Stages(ep, in, n) # <<>>
    BY <1>0, StagesIs
  <2>. HIDE DEF t
  <2>. QED
    BY <1>0, <1>1, <2>1, <2>2, <2>3 DEF Submitted, Holding
<1>. HIDE DEF t
<1>. QED
  BY <1>0, <1>2 DEF UsbInv, Agreed

LEMMA SubmitFirstKeeps ==
    ASSUME NEW ep \in Keyboards, UsbInv, SubmitFirst(ep)
    PROVE  UsbInv'
<1>. DEFINE g == Stage(TRUE, FALSE, 1)
            t == [NoTask EXCEPT !.at = "stage", !.ep = ep, !.todo = <<g>>]
            r == [usb EXCEPT !.listening = usb.listening \cup {ep}]
<1>0. /\ Host(usb) /\ InStep(usb, device) /\ Submitted(usb, task) /\ usb \in HostState
      /\ task.at = "idle" /\ ep \notin usb.listening /\ ep \in Endpoints
      /\ usb' = r /\ device' = device /\ task' = t
  BY DEF UsbInv, Agreed, SubmitFirst, Host, Endpoints
<1>1. /\ t \in TaskFits /\ t.at = "stage" /\ t.ep = ep /\ t.todo # <<>>
  <2>1. g \in StagesToDo
    BY UsbAssumption DEF Stage, StagesToDo
  <2>. HIDE DEF g
  <2>2. <<g>> \in Seq(StagesToDo) /\ <<g>> # <<>>
    BY <2>1
  <2>. DEFINE q == <<g>>
  <2>3. q \in Seq(StagesToDo) /\ q # <<>> /\ t = [NoTask EXCEPT !.at = "stage", !.ep = ep, !.todo = q]
    BY <2>2
  <2>. HIDE DEF q, t
  <2>4. LET b == [NoTask EXCEPT !.at = "stage", !.ep = ep, !.todo = q]
        IN  b \in TaskFits /\ b.at = "stage" /\ b.ep = ep /\ b.todo = q
    BY <1>0, <2>3, Begins, ZenonT(60)
  <2>. QED
    BY <2>3, <2>4
<1>. HIDE DEF t
<1>2. /\ r.listening = usb.listening \cup {ep} /\ r.allocated = usb.allocated
      /\ r.waiting = usb.waiting /\ r.stage = usb.stage /\ SameStages(usb, r)
  BY <1>0 DEF HostState, SameStages
<1>. HIDE DEF r
<1>3. /\ Host(r) /\ InStep(r, device)
      /\ Used(r) = Used(usb) /\ \A e : Serves(r, e) <=> Serves(usb, e)
  BY <1>0, <1>2, SameStagesKeep
<1>4. Submitted(r, t)
  <2>1. \A c \in Used(usb) : usb.stage[c].ep \in Keyboards
    BY <1>0 DEF Submitted
  <2>2. ~usb.waiting /\ ~Serves(usb, ep) /\ usb.allocated = Used(usb)
    BY <1>0 DEF Submitted, Serves, Holding, Host
  <2>. QED
    BY <1>0, <1>1, <1>2, <1>3, <2>1, <2>2 DEF Submitted, Holding
<1>. QED
  BY <1>0, <1>3, <1>4 DEF UsbInv, Agreed

LEMMA AllocateChannelKeeps ==
    ASSUME UsbInv, AllocateChannel
    PROVE  UsbInv'
<1>. DEFINE f == Min(Free(usb))
            t == [task EXCEPT !.at = "attach", !.channel = f]
            r == [usb EXCEPT !.allocated = usb.allocated \cup {f},
                             !.waiting = task.ep \notin Keyboards]
<1>0. /\ Host(usb) /\ InStep(usb, device) /\ Submitted(usb, task) /\ usb \in HostState
      /\ task.at = "stage" /\ Free(usb) # {} /\ task \in TaskFits
      /\ usb' = r /\ device' = device /\ task' = t
  BY DEF UsbInv, Agreed, AllocateChannel, Host, Submitted
<1>1. f \in Channels /\ f \notin usb.allocated
  <2>1. usb.channels \in 1..MaxChannels /\ MaxChannels \in Nat \ {0}
    BY <1>0, HostFields, UsbAssumption
  <2>2. Free(usb) \subseteq Nat
    BY <2>1 DEF Free
  <2>3. f \in Free(usb)
    BY <1>0, <2>2, MinIs
  <2>. QED
    BY <2>1, <2>3 DEF Free, Channels
<1>. HIDE DEF f
<1>2. /\ t \in TaskFits /\ t.at = "attach" /\ t.ep = task.ep /\ t.todo = task.todo /\ t.channel = f
  BY <1>0, <1>1 DEF TaskFits, Submitting
<1>3. /\ r.allocated = usb.allocated \cup {f} /\ (r.waiting <=> task.ep \notin Keyboards)
      /\ r.stage = usb.stage /\ r.listening = usb.listening /\ SameStages(usb, r)
  BY <1>0, <1>1 DEF HostState, SameStages
<1>. HIDE DEF r, t
<1>4. /\ Host(r) /\ InStep(r, device)
      /\ Used(r) = Used(usb) /\ \A e : Serves(r, e) <=> Serves(usb, e)
  BY <1>0, <1>3, SameStagesKeep
<1>5. Submitted(r, t)
  <2>1. /\ usb.allocated = Used(usb) /\ ~Serves(usb, task.ep) /\ task.ep \in Endpoints
        /\ task.todo # <<>>
        /\ task.ep \in Keyboards => task.ep \in usb.listening
        /\ \A c \in Used(usb) : usb.stage[c].ep \in Keyboards
    BY <1>0 DEF Submitted, Holding, Submitting
  <2>2. r.allocated = Used(r) \cup Holding(t) /\ t.channel \notin Used(r)
    BY <1>1, <1>2, <1>3, <1>4, <2>1 DEF Holding
  <2>3. ~Serves(r, t.ep)
    BY <1>2, <1>4, <2>1
  <2>4. \A c \in Used(r) : r.stage[c].ep \in Keyboards
    BY <1>3, <1>4, <2>1
  <2>5. /\ t.ep \in Endpoints /\ t.todo # <<>>
        /\ t.ep \in Keyboards => t.ep \in r.listening
    BY <1>2, <1>3, <2>1
  <2>6. r.waiting <=> t.ep \notin Keyboards
    BY <1>2, <1>3
  <2>. QED
    BY <1>2, <2>2, <2>3, <2>4, <2>5, <2>6 DEF Submitted
<1>. QED
  BY <1>0, <1>4, <1>5 DEF UsbInv, Agreed

\* The request is over, or was never begun, and its status is read.
LEMMA LeavesIdle ==
    ASSUME NEW s, NEW dev, NEW t, Agreed(s, dev, t), ~s.waiting,
           t.at = "stage" \/ t.at = "wait"
    PROVE  Agreed([s EXCEPT !.status = FALSE], dev, NoTask)
<1>. DEFINE r == [s EXCEPT !.status = FALSE]
<1>0. Host(s) /\ InStep(s, dev) /\ Submitted(s, t) /\ s \in HostState
  BY DEF Agreed, Host
<1>1. /\ r.allocated = s.allocated /\ r.waiting = s.waiting /\ r.stage = s.stage
      /\ SameStages(s, r)
  BY <1>0 DEF HostState, SameStages
<1>. HIDE DEF r
<1>2. Host(r) /\ InStep(r, dev) /\ Used(r) = Used(s)
  BY <1>0, <1>1, SameStagesKeep
<1>3. \A c \in Used(s) : s.stage[c].ep \in Keyboards
  BY <1>0 DEF Submitted, Serves
<1>4. s.allocated = Used(s)
  BY <1>0 DEF Submitted, Holding
<1>5. Submitted(r, NoTask)
  BY <1>1, <1>2, <1>3, <1>4, NoTaskIs DEF Submitted, Holding, Submitting
<1>. QED
  BY <1>2, <1>5 DEF Agreed, r

LEMMA NoChannelKeeps ==
    ASSUME UsbInv, NoChannel
    PROVE  UsbInv'
<1>1. ~usb.waiting /\ task.at = "stage"
  BY DEF UsbInv, Agreed, Submitted, NoChannel
<1>. QED
  BY <1>1, LeavesIdle DEF UsbInv, NoChannel

LEMMA WaitOverKeeps ==
    ASSUME UsbInv, WaitOver
    PROVE  UsbInv'
<1>0. ~usb.waiting /\ task.at = "wait" /\ task \in TaskFits /\ Submitted(usb, task)
  BY DEF UsbInv, Agreed, Submitted, WaitOver
<1>1. CASE usb.status /\ Len(task.todo) > 1
  <2>. DEFINE t == [task EXCEPT !.at = "stage", !.todo = Tail(task.todo)]
  <2>0. task' = t /\ usb' = usb /\ device' = device
    BY <1>1 DEF WaitOver
  <2>1. Tail(task.todo) \in Seq(StagesToDo) /\ Tail(task.todo) # <<>>
    <3>1. task.todo \in Seq(StagesToDo)
      BY <1>0 DEF TaskFits
    <3>. DEFINE td == task.todo
    <3>. HIDE DEF td
    <3>2. td \in Seq(StagesToDo) /\ Len(td) > 1
      BY <1>1, <3>1 DEF td
    <3>. DEFINE tl == Tail(td)
    <3>3. tl \in Seq(StagesToDo) /\ Len(tl) = Len(td) - 1 /\ Len(td) \in Nat
      BY <3>2
    <3>. HIDE DEF tl
    <3>4. Len(tl) >= 1
      BY <3>2, <3>3
    <3>5. tl # <<>>
      BY <3>3, <3>4
    <3>. QED
      BY <3>3, <3>5 DEF tl, td
  <2>2. t \in TaskFits /\ t.at = "stage" /\ t.ep = task.ep /\ t.todo # <<>>
    BY <1>0, <2>1 DEF TaskFits, Submitting
  <2>. HIDE DEF t
  <2>3. Submitted(usb, t)
    BY <1>0, <2>2 DEF Submitted, Serves, Holding, Submitting
  <2>. QED
    BY <2>0, <2>3 DEF UsbInv, Agreed
<1>2. CASE ~(usb.status /\ Len(task.todo) > 1)
  BY <1>0, <1>2, LeavesIdle DEF UsbInv, WaitOver
<1>. QED
  BY <1>1, <1>2


LEMMA AttachStageKeeps ==
    ASSUME UsbInv, AttachStage
    PROVE  UsbInv'
<1>. DEFINE c == task.channel   ep == task.ep   g == Head(task.todo)
<1>0. /\ Host(usb) /\ InStep(usb, device) /\ Submitted(usb, task) /\ usb \in HostState
      /\ task.at = "attach" /\ task \in TaskFits /\ device' = device
  BY DEF UsbInv, Agreed, AttachStage, Host, Submitted
<1>1. /\ c \in Channels /\ c \notin Used(usb) /\ usb.allocated = Used(usb) \cup {c}
      /\ ~Serves(usb, ep) /\ ep \in Endpoints /\ task.todo # <<>>
      /\ (usb.waiting <=> ep \notin Keyboards)
  BY <1>0 DEF Submitted, Holding, Submitting, TaskFits
<1>2. /\ ep \in Keyboards => ep \in usb.listening
      /\ \A d \in Used(usb) : usb.stage[d].ep \in Keyboards
  BY <1>0 DEF Submitted, Submitting
<1>3. CASE NoBuffer
  <2>. DEFINE t == [task EXCEPT !.at = "failed"]
  <2>1. task' = t /\ usb' = usb
    BY <1>3 DEF AttachStage
  <2>2. /\ t \in TaskFits /\ t.at = "failed" /\ t.ep = ep /\ t.todo = task.todo /\ t.channel = c
    BY <1>0 DEF TaskFits, Submitting
  <2>. HIDE DEF t
  <2>3. Submitted(usb, t)
    BY <1>1, <1>2, <2>2 DEF Submitted, Holding
  <2>. QED
    BY <1>0, <2>1, <2>3 DEF UsbInv, Agreed
<1>4. CASE ~NoBuffer
  <2>. DEFINE t == [task EXCEPT !.at = "start"]   r == Attach(usb, c, ep, g)
  <2>1. task' = t /\ usb' = r
    BY <1>4 DEF AttachStage
  <2>2. /\ t \in TaskFits /\ t.at = "start" /\ t.ep = ep /\ t.todo = task.todo /\ t.channel = c
    BY <1>0 DEF TaskFits, Submitting
  <2>3. g \in StagesToDo /\ PacketsOf(usb, ep, g) # 0
    <3>1. task.todo \in Seq(StagesToDo)
      BY <1>0 DEF TaskFits
    <3>2. \A q \in Seq(StagesToDo) : q # <<>> => Head(q) \in StagesToDo
      OBVIOUS
    <3>. QED
      BY <1>1, <1>4, <3>1, <3>2 DEF NoBuffer
  <2>4. Reserved(usb, c, usb)
    BY <1>0, <1>1 DEF Reserved, HostState
  <2>. HIDE DEF t, c, ep, g
  <2>5. /\ Host(r) /\ InStep(r, device) /\ Used(r) = Used(usb) \cup {c}
        /\ r.stage = [usb.stage EXCEPT ![c] = StageData(usb, ep, g)]
        /\ r.allocated = usb.allocated \cup {c} /\ r.waiting = usb.waiting
        /\ r.listening = usb.listening /\ r.channel = usb.channel
    BY <1>0, <1>1, <1>2, <2>3, <2>4, Attaches
  <2>. DEFINE d == StageData(usb, ep, g)
  <2>6. d \in StagesUsed /\ d.ep = ep /\ d.waitsFor = "none"
    BY <1>1, <2>3, StageDataIs
  <2>. HIDE DEF r, d
  <2>7. r.stage[c] = d /\ \A e \in Used(usb) : r.stage[e] = usb.stage[e]
    <3>1. usb.stage \in [Channels -> StagesUsed \cup {NoStage}]
      BY <1>0, HostFields
    <3>. QED
      BY <1>1, <2>5, <3>1, UsedIn DEF d
  <2>8. Submitted(r, t)
    <3>1. r.allocated = Used(r) \cup Holding(t)
      BY <1>1, <2>2, <2>5 DEF Holding
    <3>2. \A e \in Used(r) : r.stage[e].ep \notin Keyboards => r.stage[e].ep = ep
      BY <1>2, <2>5, <2>6, <2>7
    <3>3. /\ t.ep \in Endpoints /\ t.todo # <<>>
          /\ t.ep \in Keyboards => t.ep \in r.listening
          /\ r.waiting <=> t.ep \notin Keyboards
          /\ c \in Used(r) /\ r.stage[c].ep = t.ep /\ r.stage[c].waitsFor = "none"
      BY <1>1, <1>2, <2>2, <2>5, <2>6, <2>7
    <3>. QED
      BY <2>2, <3>1, <3>2, <3>3 DEF Submitted
  <2>. QED
    BY <1>0, <2>1, <2>5, <2>8 DEF UsbInv, Agreed
<1>. QED
  BY <1>3, <1>4

LEMMA StartStageKeeps ==
    ASSUME UsbInv, StartStage
    PROVE  UsbInv'
<1>. DEFINE c == task.channel
            t == IF task.ep \in Keyboards THEN NoTask ELSE [task EXCEPT !.at = "wait"]
<1>0. /\ Host(usb) /\ InStep(usb, device) /\ Submitted(usb, task) /\ usb \in HostState
      /\ task.at = "start" /\ task \in TaskFits /\ device' = device /\ task' = t
      /\ usb' = StartTransaction(usb, c)
  BY DEF UsbInv, Agreed, StartStage, Host, Submitted
<1>1. /\ c \in Used(usb) /\ usb.stage[c].ep = task.ep /\ usb.stage[c].waitsFor = "none"
      /\ usb.allocated = Used(usb) /\ task.ep \in Endpoints /\ task.todo # <<>>
      /\ (usb.waiting <=> task.ep \notin Keyboards)
      /\ \A d \in Used(usb) : usb.stage[d].ep \notin Keyboards => task.ep = usb.stage[d].ep
  BY <1>0 DEF Submitted, Holding, Submitting
<1>2. /\ usb.stage[c].packets >= 1 /\ InState(usb.stage[c])
      /\ usb.channel[c].is # "on" /\ usb.channel[c].mask = {}
  BY <1>0, <1>1 DEF Host, Fits
<1>3. Submitted(usb, t) /\ t.at # "start"
  <2>1. CASE task.ep \in Keyboards
    <3>1. t = NoTask /\ ~usb.waiting /\ \A d \in Used(usb) : usb.stage[d].ep \in Keyboards
      BY <1>1, <2>1
    <3>. QED
      BY <1>1, <3>1, NoTaskIs DEF Submitted, Holding, Submitting
  <2>2. CASE task.ep \notin Keyboards
    <3>1. /\ t \in TaskFits /\ t.at = "wait" /\ t.ep = task.ep /\ t.todo = task.todo
      BY <1>0, <2>2 DEF TaskFits, Submitting
    <3>2. usb.waiting /\ Serves(usb, task.ep)
      BY <1>1, <2>2 DEF Serves
    <3>. HIDE DEF t
    <3>. QED
      BY <1>1, <2>2, <3>1, <3>2 DEF Submitted, Holding
  <2>. QED
    BY <2>1, <2>2
<1>. HIDE DEF t
<1>4. InStepBut(usb, device, c)
  <2>1. Expected(usb, c) = usb.pid[usb.stage[c].ep]
    BY <1>1 DEF Expected, Counts
  <2>. QED
    BY <1>0, <1>1, <2>1 DEF InStep, InStepBut
<1>5. Handling(usb, device, t, c)
  BY <1>0, <1>1, <1>2, <1>3, <1>4 DEF Handling, HostBut, Host
<1>6. Agreed(StartTransaction(usb, c), device, t)
  BY <1>2, <1>5, Restarts
<1>. QED
  BY <1>0, <1>6 DEF UsbInv

LEMMA ChannelInterruptKeeps ==
    ASSUME NEW c \in Channels, UsbInv, ChannelInterrupt(c)
    PROVE  UsbInv'
<1>1. /\ usb.stage[c] # NoStage /\ usb.channel[c].ints \cap usb.channel[c].mask # {}
      /\ usb' = Handled([usb EXCEPT !.channel[c].mask = {}], c)
      /\ task' = task /\ device' = device
  BY DEF ChannelInterrupt, Raised
<1>2. Agreed(Handled([usb EXCEPT !.channel[c].mask = {}], c), device, task)
  BY <1>1, HandlerKeeps DEF UsbInv
<1>. QED
  BY <1>1, <1>2 DEF UsbInv

-----------------------------------------------------------------------------
(* The controller *)

\* The registers of a channel in use change, and the device, with them, its mind.
LEMMA RegistersChange ==
    ASSUME NEW s, NEW dev, NEW t, Agreed(s, dev, t), NEW c \in Used(s),
           NEW x \in Registers, Fits(s.stage[c], x), x.mask = s.channel[c].mask,
           NEW e, e \in Devices, NEW r, PutFields(s, c, s.stage[c], x, r),
           \A ep \in Endpoints \ {s.stage[c].ep} : e[ep] = dev[ep],
           e[s.stage[c].ep].inStep => e[s.stage[c].ep].expects = Expected(r, c)
    PROVE  Agreed(r, e, t)
<1>. DEFINE g == s.stage[c]
<1>0. /\ Host(s) /\ InStep(s, dev) /\ Submitted(s, t) /\ s \in HostState /\ c \in Channels
      /\ g \in StagesUsed /\ g.ep \in Endpoints /\ HostBut(s, c)
  <2>1. Host(s) /\ InStep(s, dev) /\ Submitted(s, t) /\ s \in HostState /\ c \in Channels
    BY UsedIn DEF Agreed, Host
  <2>. QED
    BY <2>1, HostFields DEF Host, HostBut
<1>1. /\ Used(r) = Used(s) /\ \A ep : Serves(r, ep) <=> Serves(s, ep)
      /\ HostBut(r, c) /\ r.stage[c] = g /\ r.channel[c] = x
      /\ \A d \in Channels \ {c} : r.stage[d] = s.stage[d] /\ r.channel[d] = s.channel[d]
      /\ \A d \in Used(s) : r.stage[d].ep = s.stage[d].ep
  BY <1>0, PutKeeps
<1>2. Host(r)
  BY <1>1 DEF HostBut, Host
<1>3. InStep(r, e)
  <2>1. r.pid = s.pid
    BY DEF PutFields
  <2>2. \A d \in Used(s) \ {c} : s.stage[d].ep \in Endpoints \ {g.ep}
    BY <1>0, HostFields DEF Host
  <2>3. \A d \in Used(s) \ {c} : Expected(r, d) = Expected(s, d)
    BY <1>1, <2>1, UsedIn DEF Expected
  <2>4. \A d \in Used(r) : e[r.stage[d].ep].inStep => e[r.stage[d].ep].expects = Expected(r, d)
    BY <1>0, <1>1, <2>2, <2>3 DEF InStep
  <2>5. Serves(s, g.ep)
    BY DEF Serves
  <2>6. \A ep \in Endpoints : e[ep].inStep /\ ~Serves(r, ep) => e[ep].expects = r.pid[ep]
    BY <1>0, <1>1, <2>1, <2>5 DEF InStep
  <2>. QED
    BY <2>4, <2>6 DEF InStep
<1>4. Submitted(r, t)
  <2>1. r.waiting = s.waiting /\ r.listening = s.listening /\ r.allocated = s.allocated
    BY DEF PutFields
  <2>2. t.at = "start" => t.channel \in Used(r) /\ r.stage[t.channel] = s.stage[t.channel]
    BY <1>0, <1>1, UsedIn DEF Submitted
  <2>. QED
    BY <1>0, <1>1, <2>1, <2>2, TaskKept, UsedIn DEF Submitted
<1>. QED
  BY <1>2, <1>3, <1>4 DEF Agreed


\* How a transaction may end
Ending(g, ints, n) ==
    /\ ints \subseteq Bits /\ ints # {}
    /\ g.state = "start" => n = 0
    /\ g.state = "complete" /\ "complete" \notin ints => n = 0
    /\ "error" \notin ints /\ n > 0 => ints \in Complete /\ g.state # "start"
    /\ "error" \notin ints /\ n = 0 => \/ ints = {"halted"} \/ WasRefused(ints)
                                       \/ g.state = "start"

\* What is on has a stage, which waits for it, and all of its packets.
LEMMA OnIs ==
    ASSUME NEW s, Host(s), NEW c \in Channels, s.channel[c].is = "on"
    PROVE  /\ c \in Used(s) /\ s.stage[c] \in StagesUsed /\ s.channel[c] \in Registers
           /\ InState(s.stage[c]) /\ s.stage[c].waitsFor = "transaction"
           /\ s.channel[c].ints = {} /\ s.channel[c].left = s.channel[c].packets
           /\ s.channel[c].packets \in 0..MaxPackets /\ s.channel[c].packets >= 1
           /\ s.channel[c].packets = (IF IsSplit(s.stage[c]) THEN 1 ELSE s.stage[c].packets)
<1>1. c \in Used(s) /\ s \in HostState
  BY DEF Host
<1>2. s.stage[c] \in StagesUsed /\ s.channel[c] \in Registers /\ Fits(s.stage[c], s.channel[c])
  BY <1>1, HostFields DEF Host
<1>3. s.channel[c].packets \in 0..MaxPackets
  BY <1>2 DEF Registers
<1>. DEFINE g == s.stage[c]   x == s.channel[c]
<1>4. g.packets >= 1 /\ g.waitsFor = "transaction" /\ InState(g)
      /\ x.ints = {} /\ x.left = x.packets /\ x.packets = (IF IsSplit(g) THEN 1 ELSE g.packets)
  <2>1. x.is = "on" /\ Fits(g, x)
    BY <1>2
  <2>. HIDE DEF g, x
  <2>. QED
    BY <2>1 DEF Fits
<1>. QED
  BY <1>1, <1>2, <1>3, <1>4

LEMMA EndsKeeps ==
    ASSUME NEW c \in Channels, UsbInv, NEW ints, NEW n \in 0..usb.channel[c].packets,
           Ending(usb.stage[c], ints, n), Ends(c, ints, n)
    PROVE  UsbInv'
<1>. DEFINE g == usb.stage[c]   y == usb.channel[c]   d == device[g.ep]
            x == [y EXCEPT !.is = IF "halted" \in ints THEN "off" ELSE "ended",
                           !.ints = ints, !.left = y.left - n]
            o == IF "error" \in ints THEN [expects |-> FirstPID(g.ep), inStep |-> FALSE]
                 ELSE IF n > 0 /\ d.inStep
                      THEN [d EXCEPT !.expects =
                               IF g.isStatus THEN "setup"
                               ELSE IF d.expects = "setup" THEN "data1"
                               ELSE Toggled(d.expects, n)]
                 ELSE d
            r == Put(usb, c, g, x)
            e == [device EXCEPT ![g.ep] = o]
<1>0. /\ Agreed(usb, device, task) /\ Host(usb) /\ InStep(usb, device) /\ usb \in HostState
      /\ y.is = "on" /\ task' = task
  BY DEF UsbInv, Agreed, Host, Ends
<1>1. /\ c \in Used(usb) /\ g \in StagesUsed /\ y \in Registers
      /\ InState(g) /\ g.waitsFor = "transaction" /\ y.ints = {} /\ y.left = y.packets
      /\ y.packets \in 0..MaxPackets /\ y.packets >= 1
      /\ y.packets = (IF IsSplit(g) THEN 1 ELSE g.packets)
      /\ MaxPackets \in Nat /\ g.ep \in Endpoints
  BY <1>0, OnIs, UsbAssumption, ZenonT(60) DEF StagesUsed
<1>2. usb' = r /\ device' = e
  <2>1. [usb.stage EXCEPT ![c] = g] = usb.stage
    BY <1>0, HostFields
  <2>2. usb' = [usb EXCEPT !.channel = [usb.channel EXCEPT ![c] = x]]
    BY ZenonT(60) DEF Ends
  <2>3. device' = e
    BY DEF Ends
  <2>. HIDE DEF x, g, e
  <2>. QED
    BY <1>0, <2>1, <2>2, <2>3 DEF Put, HostState
<1>3. /\ x \in Registers /\ x.is # "on" /\ x.ints = ints /\ x.mask = y.mask
      /\ x.packets = y.packets /\ x.left = y.packets - n
  <2>1. y.left - n \in 0..MaxPackets /\ y.left - n = y.packets - n
    <3>. HIDE DEF y
    <3>1. n \in 0..y.packets
      BY DEF y
    <3>. QED
      BY <1>1, <3>1
  <2>. DEFINE m == y.left - n   is == IF "halted" \in ints THEN "off" ELSE "ended"
  <2>2. is \in {"off", "on", "ended"} /\ is # "on" /\ ints \in SUBSET Bits
    BY DEF Ending
  <2>. HIDE DEF m, is
  <2>3. x = [y EXCEPT !.is = is, !.ints = ints, !.left = m]
    BY DEF m, is
  <2>4. m \in 0..MaxPackets /\ m = y.packets - n
    BY <2>1 DEF m
  <2>. HIDE DEF x, y
  <2>. QED
    BY <1>1, <2>2, <2>3, <2>4 DEF Registers
<1>4. n \in Nat /\ n <= y.packets /\ y.packets \in Nat
  <2>. HIDE DEF y
  <2>1. n \in 0..y.packets /\ y.packets \in 0..MaxPackets /\ MaxPackets \in Nat
    BY <1>1 DEF y
  <2>. QED
    BY <2>1
<1>5. Fits(g, x)
  <2>1. Fits(g, y)
    BY <1>0, <1>1 DEF Host
  <2>2. /\ g.state = "start" => n = 0
        /\ g.state = "complete" /\ "complete" \notin ints => n = 0
    BY DEF Ending
  <2>. HIDE DEF x, y, g
  <2>3. x.left <= x.packets /\ (n = 0 => x.left = x.packets)
    BY <1>3, <1>4
  <2>. QED
    BY <1>1, <1>3, <2>1, <2>2, <2>3 DEF Fits
<1>6. PutFields(usb, c, g, x, r)
  <2>. HIDE DEF x, g
  <2>. QED
    BY <1>0, <1>1, <1>3, PutIs
<1>7. r.stage[c] = g /\ r.channel[c] = x /\ r.pid = usb.pid
  BY <1>0, <1>6, HostFields DEF PutFields
<1>8. d \in [expects : PIDs, inStep : BOOLEAN] /\ (d.inStep => d.expects = usb.pid[g.ep])
  <2>1. Expected(usb, c) = usb.pid[g.ep]
    BY <1>1 DEF Expected, Counts
  <2>. QED
    BY <1>0, <1>1, <2>1 DEF InStep, Devices
<1>9. /\ o \in [expects : PIDs, inStep : BOOLEAN]
      /\ o.inStep => d.inStep /\ "error" \notin ints
      /\ o.inStep => o.expects = IF n > 0 THEN SkipPID(d.expects, n, g.isStatus) ELSE d.expects
  <2>1. CASE "error" \in ints
    <3>1. o = [expects |-> FirstPID(g.ep), inStep |-> FALSE]
      BY <2>1
    <3>. HIDE DEF o
    <3>. QED
      BY <2>1, <3>1 DEF FirstPID, PIDs
  <2>2. CASE "error" \notin ints /\ n > 0 /\ d.inStep
    <3>1. o = [d EXCEPT !.expects = SkipPID(d.expects, n, g.isStatus)]
      BY <2>2 DEF SkipPID
    <3>2. SkipPID(d.expects, n, g.isStatus) \in PIDs
      BY <1>8 DEF SkipPID, Toggled, PIDs
    <3>. HIDE DEF o, d
    <3>. QED
      BY <1>8, <2>2, <3>1, <3>2
  <2>3. CASE "error" \notin ints /\ ~(n > 0 /\ d.inStep)
    <3>1. o = d
      BY <2>3
    <3>. HIDE DEF o, d
    <3>. QED
      BY <1>8, <2>3, <3>1
  <2>. QED
    BY <2>1, <2>2, <2>3
<1>10. o.inStep => o.expects = Expected(r, c)
  <2>. SUFFICES ASSUME o.inStep PROVE o.expects = Expected(r, c)
    OBVIOUS
  <2>. HIDE DEF o, d, x, y
  <2>1. /\ o.expects = IF n > 0 THEN SkipPID(usb.pid[g.ep], n, g.isStatus) ELSE usb.pid[g.ep]
        /\ "error" \notin ints
    BY <1>8, <1>9
  <2>2. x.packets - x.left = n
    BY <1>3, <1>4
  <2>3. Counts(g, x) <=> n > 0
    <3>1. CASE n > 0
      <4>1. ints \in Complete /\ g.state # "start"
        BY <2>1, <3>1 DEF Ending
      <4>. QED
        BY <1>1, <1>3, <3>1, <4>1 DEF Counts, Complete, WasRefused
    <3>2. CASE n = 0
      <4>1. ints = {"halted"} \/ WasRefused(ints) \/ g.state = "start"
        BY <2>1, <3>2 DEF Ending
      <4>. QED
        BY <1>3, <3>2, <4>1 DEF Counts
    <3>. QED
      BY <1>4, <3>1, <3>2
  <2>4. Expected(r, c) = IF Counts(g, x) THEN SkipPID(usb.pid[g.ep], x.packets - x.left, g.isStatus)
                         ELSE usb.pid[g.ep]
    BY <1>7 DEF Expected
  <2>. QED
    BY <2>1, <2>2, <2>3, <2>4
<1>11. /\ e \in Devices /\ e[g.ep] = o /\ \A ep \in Endpoints \ {g.ep} : e[ep] = device[ep]
  <2>1. device \in Devices
    BY <1>0 DEF InStep
  <2>. HIDE DEF o, g
  <2>. QED
    BY <1>1, <1>9, <2>1 DEF Devices
<1>. HIDE DEF r, e, o, d, x
<1>12. Agreed(r, e, task)
  BY <1>0, <1>1, <1>3, <1>5, <1>6, <1>10, <1>11, RegistersChange
<1>. QED
  BY <1>0, <1>2, <1>12 DEF UsbInv

LEMMA HaltsKeeps ==
    ASSUME NEW c \in Channels, UsbInv, Halts(c)
    PROVE  UsbInv'
<1>. DEFINE g == usb.stage[c]   y == usb.channel[c]
            x == [y EXCEPT !.is = "off", !.ints = y.ints \cup {"halted"}]
            r == [usb EXCEPT !.channel = [usb.channel EXCEPT ![c] = x]]
<1>0. /\ Agreed(usb, device, task) /\ Host(usb) /\ InStep(usb, device) /\ Submitted(usb, task)
      /\ usb \in HostState /\ y.is = "ended" /\ task' = task /\ device' = device
      /\ usb' = r /\ y \in Registers
  BY HostFields DEF UsbInv, Agreed, Host, Halts
<1>1. /\ x \in Registers /\ x.is = "off" /\ x.ints = y.ints \cup {"halted"} /\ x.mask = y.mask
      /\ x.packets = y.packets /\ x.left = y.left
  BY <1>0 DEF Registers, Bits
<1>. HIDE DEF x
<1>2. CASE c \in Used(usb)
  <2>1. g \in StagesUsed /\ Fits(g, y) /\ g.ep \in Endpoints
    BY <1>0, <1>2, HostFields DEF Host
  <2>2. r = Put(usb, c, g, x)
    <3>1. [usb.stage EXCEPT ![c] = g] = usb.stage
      BY <1>0, HostFields
    <3>. HIDE DEF g
    <3>. QED
      BY <1>0, <3>1 DEF Put, HostState
  <2>3. Fits(g, x)
    <3>. HIDE DEF g, y
    <3>. QED
      BY <1>0, <1>1, <2>1 DEF Fits
  <2>4. PutFields(usb, c, g, x, r)
    <3>. HIDE DEF r, g
    <3>. QED
      BY <1>0, <1>1, <2>1, <2>2, PutIs
  <2>. HIDE DEF r
  <2>5. Expected(r, c) = Expected(usb, c)
    <3>1. r.stage[c] = g /\ r.channel[c] = x /\ r.pid = usb.pid
      BY <1>0, <2>4, HostFields DEF PutFields
    <3>2. Counts(g, x) <=> Counts(g, y)
      <4>1. x.ints \notin {{}, {"halted"}} <=> y.ints \notin {{}, {"halted"}}
        BY <1>1
      <4>2. WasRefused(x.ints) <=> WasRefused(y.ints)
        BY <1>1 DEF WasRefused
      <4>. QED
        BY <4>1, <4>2 DEF Counts
    <3>. QED
      BY <1>1, <3>1, <3>2 DEF Expected
  <2>6. device \in Devices /\ (device[g.ep].inStep => device[g.ep].expects = Expected(r, c))
    BY <1>0, <1>2, <2>5 DEF InStep
  <2>7. Agreed(r, device, task)
    BY <1>0, <1>1, <1>2, <2>3, <2>4, <2>6, RegistersChange
  <2>. QED
    BY <1>0, <2>7 DEF UsbInv
<1>3. CASE c \notin Used(usb)
  <2>1. /\ r \in HostState /\ r.stage = usb.stage /\ r.channel = [usb.channel EXCEPT ![c] = x]
        /\ r.pid = usb.pid /\ r.enabled = usb.enabled /\ r.allocated = usb.allocated
        /\ r.waiting = usb.waiting /\ r.listening = usb.listening
    <3>1. [usb.channel EXCEPT ![c] = x] \in [Channels -> Registers]
      BY <1>0, <1>1, HostFields
    <3>. QED
      BY <1>0, <3>1 DEF HostState
  <2>. HIDE DEF r
  <2>2. Used(r) = Used(usb) /\ \A ep : Serves(r, ep) <=> Serves(usb, ep)
    BY <2>1 DEF Used, Serves
  <2>3. r.channel[c] = x /\ \A d \in Channels \ {c} : r.channel[d] = usb.channel[d]
    BY <1>0, <2>1, HostFields
  <2>4. \A d \in Used(usb) : r.channel[d] = usb.channel[d]
    BY <1>3, <2>3, UsedIn
  <2>5. Host(r)
    <3>1. x.mask = {} /\ x.is # "on"
      BY <1>0, <1>1, <1>3 DEF Host
    <3>. QED
      BY <1>0, <2>1, <2>2, <2>3, <2>4, <3>1 DEF Host
  <2>6. InStep(r, device)
    <3>1. \A d \in Used(usb) : Expected(r, d) = Expected(usb, d)
      BY <2>1, <2>4 DEF Expected
    <3>. QED
      BY <1>0, <2>1, <2>2, <3>1 DEF InStep
  <2>7. Submitted(r, task)
    BY <1>0, <2>1, <2>2 DEF Submitted
  <2>. QED
    BY <1>0, <2>5, <2>6, <2>7 DEF UsbInv, Agreed
<1>. QED
  BY <1>2, <1>3


LEMMA ControllerKeeps ==
    ASSUME NEW c \in Channels, UsbInv, Controller(c)
    PROVE  UsbInv'
<1>. DEFINE g == usb.stage[c]   y == usb.channel[c]
<1>1. CASE Halts(c)
  BY <1>1, HaltsKeeps
<1>2. CASE ~Halts(c)
  <2>0. y.is = "on" /\ Host(usb)
    BY <1>2 DEF Controller, Succeeds, StartSucceeds, CompleteSucceeds, IsRefused, Fails, OnlyHalts,
                IsOn, Ends, UsbInv, Agreed
  <2>1. /\ InState(g) /\ y.packets \in 0..MaxPackets /\ y.packets >= 1 /\ MaxPackets \in Nat
        /\ y.packets = (IF IsSplit(g) THEN 1 ELSE g.packets)
    BY <2>0, OnIs, UsbAssumption
  <2>2. (g.state = "no split" <=> ~IsSplit(g)) /\ y.packets \in Nat
    <3>1. g.state = "no split" <=> ~IsSplit(g)
      BY <2>1 DEF InState, IsSplit
    <3>2. y.packets \in 0..MaxPackets /\ MaxPackets \in Nat
      BY <2>1
    <3>3. \A n \in 0..MaxPackets : n \in Nat
      BY <2>1
    <3>. QED
      BY <3>1, <3>2, <3>3
  <2>. DEFINE N == y.packets
  <2>3. N \in Nat /\ N >= 1
    BY <2>1, <2>2
  <2>. HIDE DEF y, g, N
  <2>4. CASE Succeeds(c)
    <3>1. \E ints \in Complete, n \in 1..N : Ends(c, ints, n) /\ g.state = "no split"
      BY <2>4 DEF Succeeds, IsOn, y, g, N
    <3>2. PICK ints \in Complete : \E n \in 1..N : Ends(c, ints, n) /\ g.state = "no split"
      BY <3>1
    <3>3. PICK n \in 1..N : Ends(c, ints, n) /\ g.state = "no split"
      BY <3>2
    <3>4. \A m \in 1..N : m \in 0..N /\ m > 0 /\ m # 0
      BY <2>3
    <3>5. ints \in Complete /\ n \in 1..N
      OBVIOUS
    <3>6. n \in 0..N /\ n > 0 /\ n # 0
      BY <3>4, <3>5
    <3>7. ints \subseteq Bits /\ ints # {} /\ "error" \notin ints
      BY <3>5 DEF Complete, Bits
    <3>8. Ending(g, ints, n)
      <4>1. g.state = "no split"
        BY <3>3
      <4>. HIDE DEF g
      <4>2. "error" \notin ints /\ n > 0 => ints \in Complete /\ g.state # "start"
        BY <3>5, <4>1
      <4>3. "error" \notin ints /\ n = 0 => \/ ints = {"halted"} \/ WasRefused(ints)
                                            \/ g.state = "start"
        BY <3>6
      <4>. QED
        BY <3>7, <4>1, <4>2, <4>3 DEF Ending
    <3>. QED
      BY <3>3, <3>6, <3>8, EndsKeeps DEF y, g, N
  <2>5. CASE StartSucceeds(c)
    <3>1. Ends(c, {"ack", "halted"}, 0) /\ g.state = "start" /\ 0 \in 0..N
      BY <2>5, <2>3 DEF StartSucceeds, IsOn, g
    <3>2. Ending(g, {"ack", "halted"}, 0)
      BY <3>1 DEF Ending, Bits
    <3>. QED
      BY <3>1, <3>2, EndsKeeps DEF y, g, N
  <2>6. CASE CompleteSucceeds(c)
    <3>1. PICK ints \in Complete : Ends(c, ints, 1) /\ g.state = "complete"
      BY <2>6 DEF CompleteSucceeds, IsOn, g
    <3>2. 1 \in 0..N
      BY <2>3
    <3>3. Ending(g, ints, 1)
      BY <3>1 DEF Ending, Complete, Bits
    <3>. QED
      BY <3>1, <3>2, <3>3, EndsKeeps DEF y, g, N
  <2>7. CASE IsRefused(c)
    <3>1. PICK b \in {"nak", "nyet"} : Ends(c, {b, "halted"}, 0)
      BY <2>7 DEF IsRefused
    <3>2. WasRefused({b, "halted"}) /\ {b, "halted"} \subseteq Bits
      BY <3>1 DEF Bits, WasRefused
    <3>3. Ending(g, {b, "halted"}, 0)
      BY <3>2 DEF Ending
    <3>4. 0 \in 0..N
      BY <2>3
    <3>. QED
      BY <3>1, <3>3, <3>4, EndsKeeps DEF y, g, N
  <2>8. CASE Fails(c)
    <3>1. PICK n \in 0..(N - 1) :
             (IsSplit(g) => n = 0) /\ Ends(c, {"error", "halted"}, n)
      BY <2>8 DEF Fails, y, g, N
    <3>2. n \in 0..N
      BY <2>3, <3>1
    <3>3. Ending(g, {"error", "halted"}, n)
      BY <2>2, <3>1 DEF Ending, Bits
    <3>. QED
      BY <3>1, <3>2, <3>3, EndsKeeps DEF y, g, N
  <2>9. CASE OnlyHalts(c)
    <3>1. Ends(c, {"halted"}, 0) /\ 0 \in 0..N
      BY <2>9, <2>3 DEF OnlyHalts
    <3>2. Ending(g, {"halted"}, 0)
      BY DEF Ending, Bits
    <3>. QED
      BY <3>1, <3>2, EndsKeeps DEF y, g, N
  <2>. QED
    BY <1>2, <2>4, <2>5, <2>6, <2>7, <2>8, <2>9 DEF Controller
<1>. QED
  BY <1>1, <1>2

-----------------------------------------------------------------------------
(* The theorems *)

LEMMA UsbInvInit ==
    ASSUME UsbInit
    PROVE  UsbInv
<1>. DEFINE stage == [c \in Channels |-> NoStage]   channel == [c \in Channels |-> Off]
            pid == [ep \in Endpoints |-> FirstPID(ep)]
<1>1. PICK n \in 1..MaxChannels, eps \in Plugged :
         usb = [channels |-> n, endpoints |-> eps,
                allocated |-> {}, enabled |-> {}, waiting |-> FALSE, stage |-> stage,
                pid |-> pid, status |-> FALSE, channel |-> channel, listening |-> {}]
  BY DEF UsbInit
<1>2. /\ task = NoTask
      /\ device = [ep \in Endpoints |-> [expects |-> FirstPID(ep), inStep |-> TRUE]]
  BY DEF UsbInit
<1>3. Off \in Registers
  BY UsbAssumption DEF Off, Registers
<1>4. eps \in SUBSET Endpoints /\ \A ep \in Endpoints : FirstPID(ep) \in PIDs
  BY UsbAssumption DEF FirstPID, PIDs
<1>5. /\ stage \in [Channels -> StagesUsed \cup {NoStage}]
      /\ channel \in [Channels -> Registers] /\ pid \in [Endpoints -> PIDs]
  BY <1>3, <1>4
<1>6. /\ \A c \in Channels : stage[c] = NoStage /\ channel[c].mask = {} /\ channel[c].is # "on"
      /\ \A ep \in Endpoints : pid[ep] = FirstPID(ep)
  BY DEF Off
<1>. HIDE DEF stage, channel, pid
<1>7. /\ usb \in HostState /\ usb.stage = stage /\ usb.channel = channel /\ usb.pid = pid
      /\ usb.enabled = {} /\ usb.allocated = {} /\ ~usb.waiting
  BY <1>1, <1>4, <1>5 DEF HostState
<1>8. Used(usb) = {} /\ \A ep : ~Serves(usb, ep)
  BY <1>6, <1>7 DEF Used, Serves
<1>9. Host(usb)
  BY <1>6, <1>7, <1>8 DEF Host
<1>10. InStep(usb, device)
  <2>1. device \in Devices
    BY <1>2, <1>4 DEF Devices
  <2>2. \A ep \in Endpoints : device[ep].expects = usb.pid[ep]
    BY <1>2, <1>6, <1>7
  <2>. QED
    BY <1>8, <2>1, <2>2 DEF InStep
<1>11. Submitted(usb, task)
  BY <1>2, <1>7, <1>8, NoTaskIs DEF Submitted, Holding, Submitting
<1>. QED
  BY <1>9, <1>10, <1>11 DEF UsbInv, Agreed

LEMMA UsbInvNext ==
    ASSUME UsbInv, [UsbNext]_usbVars
    PROVE  UsbInv'
<1>1. CASE \E ep \in usb.endpoints, in \in BOOLEAN, n \in 0..MaxPackets : Submit(ep, in, n)
  BY <1>1, SubmitKeeps
<1>2. CASE \E ep \in Keyboards \cap usb.endpoints : SubmitFirst(ep)
  BY <1>2, SubmitFirstKeeps
<1>3. CASE TaskGoesOn
  BY <1>3, AllocateChannelKeeps, NoChannelKeeps, AttachStageKeeps, StartStageKeeps, WaitOverKeeps
     DEF TaskGoesOn
<1>4. CASE Hangs \/ UNCHANGED usbVars
  BY <1>4 DEF Hangs, usbVars, UsbInv
<1>5. CASE \E c \in Channels : ChannelInterrupt(c) \/ Controller(c)
  BY <1>5, ChannelInterruptKeeps, ControllerKeeps
<1>. QED
  BY <1>1, <1>2, <1>3, <1>4, <1>5 DEF UsbNext

LEMMA UsbInvAlways == UsbSpec => []UsbInv
  BY UsbInvInit, UsbInvNext, PTL DEF UsbSpec

\* Task, interrupt handler and completion routine never disagree on whose channel
\* is whose (DWHCIDeviceAllocateChannel, DWHCIDeviceFreeChannel and m_pStageData in
\* dwhcidevice.c): a channel is allocated and enabled exactly as long as a stage or
\* the task that attaches one has it, no request has two, and m_bWaiting is set as
\* long as the stage that will clear it exists.
THEOREM UsbStagesOwned == UsbSpec => []StagesOwned
<1>1. UsbInv => StagesOwned
  <2>. SUFFICES ASSUME UsbInv PROVE StagesOwned
    OBVIOUS
  <2>0. Host(usb) /\ Submitted(usb, task) /\ usb \in HostState /\ InUse = Used(usb)
        /\ task \in TaskFits
    BY DEF UsbInv, Agreed, Host, InUse, Used, Submitted
  <2>1. UsbTypeOK
    <3>1. \A c \in Channels : /\ usb.stage[c] = NoStage \/ usb.stage[c].packets \in 0..MaxPackets
                              /\ usb.channel[c].left \in 0..MaxPackets
      <4>. TAKE c \in Channels
      <4>1. usb.stage[c] \in StagesUsed \cup {NoStage} /\ usb.channel[c] \in Registers
        BY <2>0, HostFields
      <4>. QED
        BY <4>1 DEF StagesUsed, Registers
    <3>2. task.at \in {"idle", "stage", "attach", "start", "wait", "failed"}
      BY <2>0 DEF TaskFits, Submitting
    <3>. QED
      BY <2>0, <3>1, <3>2, HostFields DEF UsbTypeOK, PIDs
  <2>2. ChannelsOwned
    <3>1. \A ep \in Endpoints : Cardinality(StagesOf(ep)) <= 1
      <4>. TAKE ep \in Endpoints
      <4>1. CASE StagesOf(ep) = {}
        BY <4>1, FS_EmptySet
      <4>2. CASE StagesOf(ep) # {}
        <5>1. PICK c \in StagesOf(ep) : StagesOf(ep) = {c}
          BY <2>0, <4>2 DEF StagesOf, Host
        <5>2. Cardinality({c}) = 1
          BY FS_Singleton
        <5>. QED
          BY <5>1, <5>2
      <4>. QED
        BY <4>1, <4>2
    <3>. QED
      BY <2>0, <3>1 DEF ChannelsOwned, Submitted, Holding, Host
  <2>3. WaiterServed
    <3>1. \A ep : StagesOf(ep) # {} <=> Serves(usb, ep)
      BY <2>0 DEF StagesOf, Serves
    <3>2. \A ep \in Endpoints \ Keyboards :
             Serves(usb, ep) => task.ep = ep /\ task.at \in {"start", "wait"}
      BY <2>0 DEF Submitted, Serves
    <3>. QED
      BY <2>0, <3>1, <3>2 DEF WaiterServed, Submitted
  <2>. QED
    BY <2>1, <2>2, <2>3 DEF StagesOwned
<1>. QED
  BY <1>1, UsbInvAlways, PTL

\* Between two stages of an endpoint that has had no error, the data toggle that the
\* host keeps for it (TUSBEndpoint.m_NextPID, moved by USBEndpointSkipPID) is the one
\* that the device expects, however long the transfers were, however often one was
\* refused, split or started again.
THEOREM UsbTogglesAgree == UsbSpec => []TogglesAgree
<1>1. UsbInv => TogglesAgree
  <2>. SUFFICES ASSUME UsbInv, NEW ep \in Endpoints, device[ep].inStep, StagesOf(ep) = {}
                PROVE  usb.pid[ep] = device[ep].expects
    BY DEF TogglesAgree
  <2>1. ~Serves(usb, ep)
    BY DEF Serves, StagesOf, InUse, Used
  <2>. QED
    BY <2>1 DEF UsbInv, Agreed, InStep
<1>. QED
  BY <1>1, UsbInvAlways, PTL
=============================================================================
