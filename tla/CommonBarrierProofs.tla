------------------------- MODULE CommonBarrierProofs -------------------------
(* Proofs about CommonBarrier, for every set of images and every width of   *)
(* the counters.                                                            *)
EXTENDS CommonBarrier, SequenceTheorems, TLAPS

(* The inductive invariant: the typing, the table facts configure()         *)
(* established, and the properties themselves, which support each other.    *)
IInv == /\ TypeOK /\ TableOK /\ CursorAgrees /\ CheckedIsHeld
        /\ ClockBalance /\ CompletedIsVisible /\ GenerationsAgree
        /\ NoMissedBarrier

(* The part of it that speaks of the controller's own registers.            *)
ControlInv == /\ TableOK /\ CursorAgrees /\ CheckedIsHeld

LEMMA IncrementType ==
  ASSUME NEW n \in Counter
  PROVE  /\ Increment(n) \in Counter
         /\ Increment(n) = n + 1 \/ (n + 1 = CounterModulus /\ Increment(n) = 0)
  BY ConstantsAssumption DEF Counter, Increment

LEMMA ResetType ==
  ASSUME ResetControl
  PROVE  /\ configured' \in BOOLEAN /\ started' \in BOOLEAN /\ checked' \in BOOLEAN
         /\ generation' \in Nat
         /\ entries' \in Seq([stop : 0 .. LastCycle, event : Nat])
         /\ DOMAIN events' = {}
         /\ completed' = {} /\ Owned' = {}
         /\ next' \in 0 .. Len(entries')
         /\ phase' \in Phases
         /\ logical' \in Counter /\ physical' \in Counter /\ waits' \in Counter
         /\ ControlInv' /\ ClockBalance' /\ CompletedIsVisible' /\ GenerationsAgree'
<1>1. /\ DOMAIN events' = {} /\ entries' = <<>> /\ Len(entries') = 0 /\ ~configured'
      /\ completed' = {} /\ next' = 0 /\ ~checked' /\ logical' = 0 /\ physical' = 0 /\ waits' = 0
  BY DEF ResetControl, NoEvents
<1>2. Owned' = {}
  BY <1>1 DEF Owned
<1>3. entries' \in Seq([stop : 0 .. LastCycle, event : Nat])
  BY <1>1
<1>4. ControlInv'
  BY <1>1 DEF ControlInv, TableOK, CursorAgrees, CheckedIsHeld
<1>5. ClockBalance' /\ CompletedIsVisible' /\ GenerationsAgree'
  BY <1>1, ConstantsAssumption DEF ClockBalance, CompletedIsVisible, GenerationsAgree
<1>6. /\ logical' \in Counter /\ physical' \in Counter /\ waits' \in Counter
  BY <1>1, ConstantsAssumption DEF Counter
<1>7. next' \in 0 .. Len(entries')
  BY <1>1
<1>8. /\ configured' \in BOOLEAN /\ started' \in BOOLEAN /\ checked' \in BOOLEAN
      /\ generation' \in Nat /\ phase' \in Phases
  BY DEF ResetControl, Phases
<1> QED
  BY <1>1, <1>2, <1>3, <1>4, <1>5, <1>6, <1>7, <1>8

(* An action that leaves the controller alone keeps what is said of it.     *)
LEMMA ControlFrame ==
  ASSUME IInv, UNCHANGED controlVars
  PROVE  ControlInv' /\ Owned' = Owned
  BY DEF IInv, ControlInv, controlVars, tableVars, clockVars, TableOK, CursorAgrees,
         CheckedIsHeld, AtStop, HasCurrent, Current, Owned

LEMMA InitInv == Init => IInv
<1> SUFFICES ASSUME Init PROVE IInv
  OBVIOUS
<1>1. /\ DOMAIN events = {} /\ entries = <<>> /\ Len(entries) = 0
      /\ entries \in Seq([stop : 0 .. LastCycle, event : Nat])
  BY DEF Init, InitControl, NoEvents
<1>2. Owned = {}
  BY <1>1 DEF Owned
<1>3. TypeOK
  <2>1. /\ completed \subseteq Owned /\ \A e \in DOMAIN events : events[e] \subseteq Nat
        /\ DOMAIN events \subseteq Nat
    BY <1>1, <1>2 DEF Init, InitControl
  <2>2. next \in 0 .. Len(entries)
    BY <1>1 DEF Init, InitControl
  <2>3. /\ logical \in Counter /\ physical \in Counter /\ waits \in Counter
        /\ phase \in Phases /\ fault \in Faults
    BY ConstantsAssumption DEF Init, InitControl, Counter, Phases, Faults
  <2> QED
    BY <1>1, <2>1, <2>2, <2>3 DEF TypeOK, Init, InitControl
<1>4. TableOK /\ CursorAgrees /\ CheckedIsHeld /\ ClockBalance
  BY <1>1 DEF TableOK, CursorAgrees, CheckedIsHeld, ClockBalance, Init, InitControl
<1>5. CompletedIsVisible /\ GenerationsAgree /\ NoMissedBarrier
  BY DEF CompletedIsVisible, GenerationsAgree, NoMissedBarrier, Init, InitControl
<1> QED
  BY <1>3, <1>4, <1>5 DEF IInv
----------------------------------------------------------------------------
(* One lemma per action.                                                    *)

LEMMA ConfigureInv ==
  ASSUME IInv, NEW t \in Images, Configure(t)
  PROVE  IInv'
<1>1. CASE ~Admissible(t)
  <2>1. /\ UNCHANGED controlVars /\ fault' = "rejected"
        /\ UNCHANGED <<programGeneration, lastTask, icuVars, chipVars, visible>>
    BY <1>1 DEF Configure, Throw, icuVars
  <2>2. ControlInv' /\ Owned' = Owned
    BY <2>1, ControlFrame
  <2>3. TypeOK'
    BY <2>1, <2>2 DEF IInv, TypeOK, controlVars, tableVars, clockVars, icuVars, chipVars, Faults
  <2> QED
    BY <2>1, <2>2, <2>3 DEF IInv, ControlInv, ClockBalance, CompletedIsVisible,
       GenerationsAgree, NoMissedBarrier, controlVars, tableVars, clockVars, Configure
<1>2. CASE Admissible(t)
  <2> DEFINE E == t.entries
             B == t.bindings
  <2>1. /\ t.generation \in Nat
        /\ E \in Seq([stop : 0 .. LastCycle, event : Nat])
        /\ B \in Seq([event : Nat, instances : Seq(Nat)])
    BY ConstantsAssumption DEF ImageType
  <2>2. ValidTable(t)
    BY <1>2 DEF Admissible
  <2>3. /\ entries' = E /\ events' = BoundEvents(B) /\ configured' = TRUE
        /\ completed' = {} /\ next' = 0 /\ checked' = FALSE /\ phase' = "init"
        /\ generation' = t.generation /\ logical' = 0 /\ physical' = 0 /\ waits' = 0
        /\ programGeneration' = t.generation /\ lastTask' = t.generation
        /\ fault' = "none" /\ UNCHANGED <<started, cold, loading, issue, overlap, chipVars, visible>>
    BY <1>2 DEF Configure
  <2>4. DOMAIN events' = {B[b].event : b \in DOMAIN B}
    BY <2>3 DEF BoundEvents
  <2>5. \A b \in DOMAIN B : B[b].event \in Nat /\ B[b].instances \in Seq(Nat)
    <3>1. \A b \in DOMAIN B : B[b] \in [event : Nat, instances : Seq(Nat)]
      <4>1. DOMAIN B = 1 .. Len(B)
        BY <2>1
      <4>2. ASSUME NEW b \in 1 .. Len(B) PROVE B[b] \in [event : Nat, instances : Seq(Nat)]
        <5> HIDE DEF B
        <5> QED
          BY <2>1, ElementOfSeq
      <4> QED
        BY <4>1, <4>2
    <3> QED
      BY <3>1
  <2>6. DOMAIN events' \subseteq Nat /\ \A e \in DOMAIN events' : events'[e] \subseteq Nat
    <3>1. \A b \in DOMAIN B : InstancesOf(B[b]) \subseteq Nat
      BY <2>5 DEF InstancesOf
    <3> HIDE DEF B
    <3> QED
      BY <2>3, <2>4, <2>5, <3>1 DEF BoundEvents
  <2>7. TypeOK'
    <3>1. /\ logical' \in Counter /\ physical' \in Counter /\ waits' \in Counter
          /\ phase' \in Phases /\ fault' \in Faults
      BY <2>3, ConstantsAssumption DEF Counter, Phases, Faults
    <3>2. next' \in 0 .. Len(entries')
      BY <2>1, <2>3
    <3>3. completed' \subseteq Owned'
      BY <2>3
    <3> HIDE DEF E, B
    <3> QED
      BY <2>1, <2>3, <2>6, <3>1, <3>2, <3>3 DEF IInv, TypeOK, chipVars
  <2>8. TableOK'
    <3>1. DOMAIN E = 1 .. Len(E) /\ DOMAIN B = 1 .. Len(B)
      BY <2>1
    <3>2. \A i, j \in 1 .. Len(E) : i < j => E[i].stop < E[j].stop
      BY <2>2, <3>1 DEF ValidTable
    <3>3. \A i \in 1 .. Len(E) : E[i].event \in {B[b].event : b \in DOMAIN B}
      <4>1. \A i \in DOMAIN E : \E b \in DOMAIN B : B[b].event = E[i].event
        BY <2>2 DEF ValidTable
      <4> HIDE DEF E, B
      <4> QED
        BY <3>1, <4>1
    <3>4. \A e \in {B[b].event : b \in DOMAIN B} : \E i \in 1 .. Len(E) : E[i].event = e
      <4>1. \A b \in DOMAIN B : \E i \in DOMAIN E : E[i].event = B[b].event
        BY <2>2 DEF ValidTable
      <4> HIDE DEF E, B
      <4> QED
        BY <3>1, <4>1
    <3> HIDE DEF E, B
    <3> QED
      BY <2>3, <2>4, <3>2, <3>3, <3>4, ConstantsAssumption DEF TableOK
  <2>9. CursorAgrees' /\ CheckedIsHeld'
    <3>1. \A i \in 1 .. Len(E) : E[i] \in [stop : 0 .. LastCycle, event : Nat]
      <4> HIDE DEF E
      <4> QED
        BY <2>1, ElementOfSeq
    <3>2. \A i \in 1 .. Len(E) : E[i].stop >= 0
      BY <3>1, ConstantsAssumption
    <3> HIDE DEF E, B
    <3> QED
      BY <2>1, <2>3, <3>2 DEF CursorAgrees, CheckedIsHeld
  <2> QED
    BY <2>3, <2>7, <2>8, <2>9
    DEF IInv, ClockBalance, CompletedIsVisible, GenerationsAgree, NoMissedBarrier
<1> QED
  BY <1>1, <1>2

LEMMA NotifyInv ==
  ASSUME IInv, NEW g \in Nat, NEW i \in Nat, NotifyMemCommit(g, i)
  PROVE  IInv'
<1>1. /\ UNCHANGED <<tableVars, started, next, checked, phase, clockVars>>
      /\ UNCHANGED <<icuVars, chipVars, visible, lastTask>>
      /\ fault' = NotifyFault(g, i) /\ <<g, i>> \in visible
      /\ completed' = IF Accepted(g, i) THEN completed \cup {i} ELSE completed
  BY DEF NotifyMemCommit, Throw
<1>2. Owned' = Owned
  BY <1>1 DEF Owned, tableVars
<1>3. fault' \in Faults \ {"missed", "overflow"}
  BY <1>1 DEF NotifyFault, Faults
<1>4. TypeOK'
  BY <1>1, <1>2, <1>3
  DEF IInv, TypeOK, Accepted, tableVars, clockVars, icuVars, chipVars
<1>5. TableOK' /\ CheckedIsHeld' /\ GenerationsAgree'
  BY <1>1 DEF IInv, TableOK, CheckedIsHeld, GenerationsAgree, AtStop, HasCurrent, Current,
     tableVars, clockVars, icuVars
<1>6. CursorAgrees'
  BY <1>1 DEF IInv, CursorAgrees, tableVars, clockVars
<1>7. CompletedIsVisible'
  BY <1>1 DEF IInv, CompletedIsVisible, Accepted, tableVars
<1>8. ClockBalance' /\ NoMissedBarrier'
  <2>1. fault = "none"
    BY DEF NotifyMemCommit
  <2> QED
    BY <1>1, <1>3, <2>1 DEF IInv, ClockBalance, NoMissedBarrier, clockVars
<1> QED
  BY <1>4, <1>5, <1>6, <1>7, <1>8 DEF IInv

LEMMA PageVisibleInv ==
  ASSUME IInv, NEW g \in Nat, NEW i \in Nat, PageVisible(g, i)
  PROVE  IInv'
<1>1. /\ UNCHANGED controlVars /\ visible' = visible \cup {<<g, i>>}
      /\ UNCHANGED <<icuVars, chipVars, lastTask, fault>>
  BY DEF PageVisible
<1>2. ControlInv' /\ Owned' = Owned
  BY <1>1, ControlFrame
<1>3. TypeOK'
  BY <1>1, <1>2 DEF IInv, TypeOK, controlVars, tableVars, clockVars, icuVars, chipVars
<1> QED
  BY <1>1, <1>2, <1>3
  DEF IInv, ControlInv, ClockBalance, CompletedIsVisible, GenerationsAgree, NoMissedBarrier,
      controlVars, tableVars, clockVars, icuVars

(* The actions that touch neither the controller, the generation filter nor *)
(* the visible pages.                                                        *)
RuntimeStep ==
  /\ UNCHANGED <<controlVars, programGeneration, visible, lastTask>>
  /\ cold' \in BOOLEAN /\ loading' \in BOOLEAN /\ issue' \in BOOLEAN /\ overlap' \in BOOLEAN
  /\ computing' \in BOOLEAN /\ transporting' \in BOOLEAN
  /\ fault' = fault \/ (fault' = "unsafe" /\ fault = "none")

LEMMA RuntimeFrame ==
  ASSUME IInv, RuntimeStep
  PROVE  IInv'
<1>1. ControlInv' /\ Owned' = Owned
  BY ControlFrame DEF RuntimeStep
<1>2. TypeOK'
  BY <1>1 DEF RuntimeStep, IInv, TypeOK, controlVars, tableVars, clockVars, Faults
<1> QED
  BY <1>1, <1>2
  DEF RuntimeStep, IInv, ControlInv, ClockBalance, CompletedIsVisible, GenerationsAgree,
      NoMissedBarrier, controlVars, tableVars, clockVars

LEMMA IdleActionsInv ==
  ASSUME IInv,
         \/ UnsafeBoundary \/ DispatchWhileLoading \/ StartProgram
         \/ \E b \in BOOLEAN : SetIssueEnabled(b) \/ SetTransportOverlap(b)
  PROVE  IInv'
<1> SUFFICES RuntimeStep
  BY RuntimeFrame
<1>0. /\ cold \in BOOLEAN /\ loading \in BOOLEAN /\ issue \in BOOLEAN /\ overlap \in BOOLEAN
      /\ computing \in BOOLEAN /\ transporting \in BOOLEAN
  BY DEF IInv, TypeOK
<1>1. CASE UnsafeBoundary
  BY <1>0, <1>1 DEF UnsafeBoundary, Throw, RuntimeStep, icuVars, chipVars
<1>2. CASE DispatchWhileLoading
  <2>1. computing' \in {computing, FALSE} /\ transporting' \in BOOLEAN
    BY <1>2 DEF DispatchWhileLoading, FunctionalUnits
  <2>2. /\ cold' = FALSE /\ UNCHANGED <<loading, issue, overlap, fault>>
        /\ UNCHANGED <<controlVars, programGeneration, visible, lastTask>>
    BY <1>2 DEF DispatchWhileLoading
  <2> QED
    BY <1>0, <2>1, <2>2 DEF RuntimeStep
<1>3. CASE StartProgram
  BY <1>0, <1>3 DEF StartProgram, RuntimeStep, chipVars
<1>4. CASE \E b \in BOOLEAN : SetIssueEnabled(b) \/ SetTransportOverlap(b)
  BY <1>0, <1>4 DEF SetIssueEnabled, SetTransportOverlap, RuntimeStep, chipVars
<1> QED
  BY <1>1, <1>2, <1>3, <1>4

LEMMA ResetsInv ==
  ASSUME IInv, \/ \E g \in Generations : ResetProgram(g)
               \/ ResetComputeProgram \/ Reset
  PROVE  IInv'
<1>1. \A g \in Generations : g \in Nat
  BY ConstantsAssumption DEF Generations, ImageType
<1>2. ResetControl /\ fault' \in {"none"}
  BY DEF ResetProgram, ResetComputeProgram, Reset
<1>3. /\ cold' \in BOOLEAN /\ loading' \in BOOLEAN /\ issue' \in BOOLEAN /\ overlap' \in BOOLEAN
      /\ programGeneration' \in Nat /\ lastTask' \in Nat
      /\ computing' \in BOOLEAN /\ transporting' \in BOOLEAN
      /\ visible' \subseteq Nat \X Nat
  <2>0. /\ cold \in BOOLEAN /\ programGeneration \in Nat /\ lastTask \in Nat
        /\ computing \in BOOLEAN /\ transporting \in BOOLEAN /\ visible \subseteq Nat \X Nat
    BY DEF IInv, TypeOK
  <2>1. CASE \E g \in Generations : ResetProgram(g)
    BY <1>1, <2>0, <2>1 DEF ResetProgram, chipVars
  <2>2. CASE ResetComputeProgram
    BY <2>0, <2>2 DEF ResetComputeProgram, chipVars
  <2>3. CASE Reset
    BY <2>3 DEF Reset
  <2> QED
    BY <2>1, <2>2, <2>3
<1>4. TypeOK'
  BY <1>2, <1>3, ResetType DEF TypeOK, Faults
<1> QED
  BY <1>2, <1>4, ResetType DEF IInv, ControlInv, NoMissedBarrier

(* The part of a dispatch that ends in end_cycle(): the clocks stay in      *)
(* balance, and the logical clock moves by one or not at all.               *)
LEMMA EndCycleClock ==
  ASSUME IInv, NEW en \in BOOLEAN, EndCycle(en), fault = "none", UNCHANGED tableVars
  PROVE  /\ logical' \in Counter /\ physical' \in Counter /\ waits' \in Counter
         /\ fault' \in {"none", "overflow"}
         /\ ClockBalance'
         /\ configured => logical' <= LastCycle
         /\ ~en => logical' = logical
         /\ configured => logical' \in {logical, logical + 1}
<1>1. /\ logical \in Counter /\ physical \in Counter /\ waits \in Counter
      /\ configured \in BOOLEAN
      /\ configured => logical <= LastCycle
      /\ physical = logical + waits \/ physical + CounterModulus = logical + waits
  BY DEF IInv, TypeOK, TableOK, ClockBalance
<1>2. physical' = Increment(physical) /\ physical' \in Counter
  BY <1>1, IncrementType DEF EndCycle
<1>3. CASE ~en
  <2>1. waits' = Increment(waits) /\ logical' = logical /\ fault' = "none"
    BY <1>3 DEF EndCycle
  <2> QED
    BY <1>1, <1>2, <1>3, <2>1, ConstantsAssumption DEF ClockBalance, Increment, Counter
<1>4. CASE en /\ configured /\ logical = LastCycle
  BY <1>1, <1>2, <1>4 DEF EndCycle, Throw, ClockBalance
<1>5. CASE en /\ ~(configured /\ logical = LastCycle)
  <2>1. waits' = waits /\ logical' = Increment(logical) /\ fault' = "none"
    BY <1>5 DEF EndCycle
  <2> QED
    BY <1>1, <1>2, <1>5, <2>1, ConstantsAssumption DEF ClockBalance, Increment, Counter
<1> QED
  BY <1>3, <1>4, <1>5

LEMMA TickedType ==
  ASSUME IInv, NEW en \in BOOLEAN, Ticked(en), phase' \in Phases, checked' \in BOOLEAN,
         next' \in 0 .. Len(entries)
  PROVE  /\ TypeOK' /\ ClockBalance' /\ CompletedIsVisible' /\ GenerationsAgree'
         /\ NoMissedBarrier' /\ UNCHANGED <<entries, events, completed, configured>>
         /\ configured => logical' <= LastCycle
         /\ ~en => logical' = logical
         /\ configured => logical' \in {logical, logical + 1}
<1>1. /\ fault = "none" /\ started' = TRUE /\ cold' = FALSE
      /\ EndCycle(en) /\ FunctionalUnits(en)
      /\ UNCHANGED <<configured, generation, entries, events, completed>>
      /\ UNCHANGED <<loading, issue, overlap, programGeneration, visible, lastTask>>
      /\ UNCHANGED tableVars
  BY DEF Ticked, DispatchGuard, tableVars
<1>2. /\ logical' \in Counter /\ physical' \in Counter /\ waits' \in Counter
      /\ fault' \in {"none", "overflow"} /\ ClockBalance'
      /\ configured => logical' <= LastCycle
      /\ ~en => logical' = logical
      /\ configured => logical' \in {logical, logical + 1}
  BY <1>1, EndCycleClock
<1>3. computing' \in BOOLEAN /\ transporting' \in BOOLEAN
  <2>1. computing \in BOOLEAN
    BY DEF IInv, TypeOK
  <2>2. computing' \in (IF en THEN BOOLEAN ELSE {computing, FALSE}) /\ transporting' \in BOOLEAN
    BY <1>1 DEF FunctionalUnits
  <2> QED
    BY <2>1, <2>2
<1>4. Owned' = Owned
  BY <1>1 DEF Owned
<1>5. fault' \in Faults /\ NoMissedBarrier'
  BY <1>2 DEF Faults, NoMissedBarrier
<1>6. TypeOK'
  BY <1>1, <1>2, <1>3, <1>4, <1>5 DEF IInv, TypeOK
<1> QED
  BY <1>1, <1>2, <1>5, <1>6 DEF IInv, CompletedIsVisible, GenerationsAgree

LEMMA HoldInv ==
  ASSUME IInv, DispatchHold
  PROVE  IInv'
<1>1. /\ AtStop /\ checked' = TRUE /\ phase' = "hold" /\ next' = next /\ Ticked(FALSE)
  BY DEF DispatchHold
<1>2. next' \in 0 .. Len(entries) /\ phase' \in Phases /\ checked' \in BOOLEAN
  BY <1>1 DEF IInv, TypeOK, Phases
<1>3. /\ TypeOK' /\ ClockBalance' /\ CompletedIsVisible' /\ GenerationsAgree'
      /\ NoMissedBarrier' /\ UNCHANGED <<entries, events, completed, configured>>
      /\ logical' = logical
  BY <1>1, <1>2, TickedType
<1>4. TableOK' /\ CursorAgrees'
  BY <1>1, <1>3 DEF IInv, TableOK, CursorAgrees
<1>5. CheckedIsHeld'
  BY <1>1, <1>3 DEF CheckedIsHeld, AtStop, HasCurrent, Current
<1> QED
  BY <1>3, <1>4, <1>5 DEF IInv

LEMMA StopsTyped ==
  ASSUME IInv
  PROVE  /\ \A i \in 1 .. Len(entries) : entries[i].stop \in 0 .. LastCycle
         /\ Len(entries) \in Nat /\ next \in Nat /\ logical \in Nat
        /\ \A i, j \in 1 .. Len(entries) : i < j => entries[i].stop < entries[j].stop
<1>1. entries \in Seq([stop : 0 .. LastCycle, event : Nat]) /\ next \in 0 .. Len(entries)
      /\ logical \in Counter
  BY DEF IInv, TypeOK
<1>2. ASSUME NEW i \in 1 .. Len(entries)
      PROVE  entries[i] \in [stop : 0 .. LastCycle, event : Nat]
  BY <1>1, ElementOfSeq
<1>3. \A i, j \in 1 .. Len(entries) : i < j => entries[i].stop < entries[j].stop
  BY DEF IInv, TableOK
<1>4. Len(entries) \in Nat
  BY <1>1
<1> QED
  BY <1>1, <1>2, <1>3, <1>4, ConstantsAssumption DEF Counter

LEMMA ReleaseInv ==
  ASSUME IInv, DispatchRelease
  PROVE  IInv'
<1>1. /\ HasCurrent /\ Current.stop = logical /\ CurrentReady
      /\ checked' = FALSE /\ next' = next + 1 /\ Ticked(issue)
      /\ phase' = (IF issue THEN "run" ELSE "hold")
  BY DEF DispatchRelease, AtStop
<1>2. /\ next' \in 0 .. Len(entries) /\ phase' \in Phases /\ checked' \in BOOLEAN
      /\ issue \in BOOLEAN /\ configured
  <2>1. next' \in 0 .. Len(entries)
    BY <1>1, StopsTyped DEF HasCurrent
  <2>2. configured
    <3>1. Len(entries) # 0
      BY <1>1, StopsTyped DEF HasCurrent
    <3>2. Len(<<>>) = 0
      OBVIOUS
    <3> QED
      BY <3>1, <3>2 DEF IInv, TypeOK, TableOK
  <2> QED
    BY <1>1, <2>1, <2>2 DEF IInv, TypeOK, Phases
<1>3. /\ TypeOK' /\ ClockBalance' /\ CompletedIsVisible' /\ GenerationsAgree'
      /\ NoMissedBarrier' /\ UNCHANGED <<entries, events, completed, configured>>
      /\ logical' \in {logical, logical + 1} /\ logical' <= LastCycle
  BY <1>1, <1>2, TickedType
<1>4. TableOK'
  BY <1>2, <1>3 DEF IInv, TableOK
<1>5. CursorAgrees'
  <2>1. /\ next + 1 \in 1 .. Len(entries) /\ entries[next + 1].stop = logical
        /\ events[entries[next + 1].event] \subseteq completed
    BY <1>1, StopsTyped DEF HasCurrent, Current, CurrentReady
  <2>2. ASSUME NEW i \in 1 .. next + 1
        PROVE  entries[i].stop <= logical /\ events[entries[i].event] \subseteq completed
    BY <2>1, StopsTyped DEF IInv, CursorAgrees
  <2>3. ASSUME NEW i \in next + 2 .. Len(entries)
        PROVE  entries[i].stop >= logical + 1
    <3>1. i \in 1 .. Len(entries) /\ next + 1 < i
      BY StopsTyped
    <3>2. entries[next + 1].stop < entries[i].stop
      BY <2>1, <3>1, StopsTyped
    <3> QED
      BY <2>1, <3>1, <3>2, StopsTyped
  <2>4. \A i \in 1 .. next' :
          entries'[i].stop <= logical' /\ events'[entries'[i].event] \subseteq completed'
    <3>1. ASSUME NEW i \in 1 .. next + 1
          PROVE  entries[i].stop <= logical'
      <4>1. i \in 1 .. Len(entries) /\ entries[i].stop <= logical
        BY <2>1, <2>2, StopsTyped
      <4> QED
        BY <1>3, <4>1, StopsTyped
    <3> QED
      BY <1>1, <1>3, <2>2, <3>1
  <2>5. \A i \in next' + 1 .. Len(entries') : entries'[i].stop >= logical'
    <3>1. ASSUME NEW i \in next + 2 .. Len(entries)
          PROVE  entries[i].stop >= logical'
      <4>1. i \in 1 .. Len(entries)
        BY StopsTyped
      <4> QED
        BY <1>3, <2>3, <4>1, StopsTyped
    <3>2. next' + 1 = next + 2
      BY <1>1, StopsTyped
    <3> QED
      BY <1>3, <3>1, <3>2
  <2> QED
    BY <2>4, <2>5 DEF CursorAgrees
<1>6. CheckedIsHeld'
  BY <1>1 DEF CheckedIsHeld
<1> QED
  BY <1>3, <1>4, <1>5, <1>6 DEF IInv

(* A stop cycle that was not passed and is not due lies strictly ahead.     *)
LEMMA NotMissed ==
  ASSUME IInv
  PROVE  /\ ~Missed
         /\ ~AtStop => \A i \in next + 1 .. Len(entries) : entries[i].stop >= logical + 1
<1>1. CASE ~HasCurrent
  BY <1>1, StopsTyped DEF Missed, HasCurrent
<1>2. CASE HasCurrent
  <2>1. next + 1 \in 1 .. Len(entries) /\ entries[next + 1].stop >= logical
    BY <1>2, StopsTyped DEF HasCurrent, IInv, CursorAgrees
  <2>2. ~Missed
    BY <2>1, StopsTyped DEF Missed, Current
  <2>3. ASSUME ~AtStop, NEW i \in next + 1 .. Len(entries)
        PROVE  entries[i].stop >= logical + 1
    <3>1. entries[next + 1].stop # logical
      BY <1>2, <2>3 DEF AtStop, Current
    <3>2. i \in 1 .. Len(entries)
      BY StopsTyped
    <3>3. CASE i = next + 1
      BY <2>1, <3>1, <3>3, StopsTyped
    <3>4. CASE i # next + 1
      <4>1. next + 1 < i
        BY <3>4, StopsTyped
      <4>2. entries[next + 1].stop < entries[i].stop
        BY <2>1, <3>2, <4>1, StopsTyped
      <4> QED
        BY <2>1, <3>2, <4>2, StopsTyped
    <3> QED
      BY <3>3, <3>4
  <2> QED
    BY <2>2, <2>3
<1> QED
  BY <1>1, <1>2

LEMMA RunInv ==
  ASSUME IInv, DispatchRun
  PROVE  IInv'
<1>1. /\ ~AtStop /\ UNCHANGED <<next, checked>> /\ Ticked(issue)
      /\ phase' = (IF issue THEN "run" ELSE "hold")
  BY NotMissed DEF DispatchRun
<1>2. /\ next' \in 0 .. Len(entries) /\ phase' \in Phases /\ checked' \in BOOLEAN
      /\ issue \in BOOLEAN
  BY <1>1 DEF IInv, TypeOK, Phases
<1>3. /\ TypeOK' /\ ClockBalance' /\ CompletedIsVisible' /\ GenerationsAgree'
      /\ NoMissedBarrier' /\ UNCHANGED <<entries, events, completed, configured>>
      /\ configured => logical' \in {logical, logical + 1} /\ logical' <= LastCycle
  BY <1>1, <1>2, TickedType
<1>4. TableOK'
  BY <1>1, <1>3 DEF IInv, TableOK
<1>5. CursorAgrees'
  <2>1. CASE ~configured
    BY <1>1, <1>3, <2>1 DEF IInv, TableOK, CursorAgrees
  <2>2. CASE configured
    <3>1. logical' \in {logical, logical + 1}
      BY <1>3, <2>2
    <3>2. ASSUME NEW i \in 1 .. next
          PROVE  entries[i].stop <= logical' /\ events[entries[i].event] \subseteq completed
      <4>1. entries[i].stop <= logical /\ events[entries[i].event] \subseteq completed
        BY DEF IInv, CursorAgrees
      <4>2. i \in 1 .. Len(entries)
        BY DEF IInv, TypeOK
      <4> QED
        BY <3>1, <4>1, <4>2, StopsTyped
    <3>3. ASSUME NEW i \in next + 1 .. Len(entries)
          PROVE  entries[i].stop >= logical'
      <4>1. entries[i].stop >= logical + 1
        BY <1>1, NotMissed
      <4> QED
        BY <3>1, <4>1, StopsTyped
    <3> QED
      BY <1>1, <1>3, <3>2, <3>3 DEF CursorAgrees
  <2> QED
    BY <2>1, <2>2, <1>2 DEF IInv, TypeOK
<1>6. CheckedIsHeld'
  BY <1>1 DEF IInv, CheckedIsHeld
<1> QED
  BY <1>3, <1>4, <1>5, <1>6 DEF IInv
----------------------------------------------------------------------------
(* Every step keeps the invariant.                                          *)

LEMMA LoadsTyped == \A l \in Loads : l[1] \in Nat /\ l[2] \in Nat
<1> SUFFICES ASSUME NEW t \in Images,
                    NEW l \in {t.generation} \X UNION {InstancesOf(t.bindings[b]) : b \in DOMAIN t.bindings}
             PROVE  l[1] \in Nat /\ l[2] \in Nat
  BY DEF Loads
<1> DEFINE B == t.bindings
<1>1. t.generation \in Nat /\ B \in Seq([event : Nat, instances : Seq(Nat)])
  BY ConstantsAssumption DEF ImageType
<1>2. ASSUME NEW b \in DOMAIN B PROVE InstancesOf(B[b]) \subseteq Nat
  <2>1. B[b] \in [event : Nat, instances : Seq(Nat)]
    <3>1. DOMAIN B = 1 .. Len(B)
      BY <1>1
    <3> HIDE DEF B
    <3> QED
      BY <1>1, <3>1, ElementOfSeq
  <2>2. B[b].instances \in Seq(Nat)
    BY <2>1
  <2>3. ASSUME NEW k \in DOMAIN B[b].instances PROVE B[b].instances[k] \in Nat
    <3> DEFINE I == B[b].instances
    <3>1. I \in Seq(Nat) /\ k \in DOMAIN I
      BY <2>2, <2>3
    <3> HIDE DEF I
    <3>2. k \in 1 .. Len(I)
      BY <3>1
    <3>3. I[k] \in Nat
      BY <3>1, <3>2, ElementOfSeq
    <3> QED
      BY <3>3 DEF I
  <2> QED
    BY <2>3 DEF InstancesOf
<1>3. l[1] = t.generation /\ l[2] \in UNION {InstancesOf(B[b]) : b \in DOMAIN B}
  OBVIOUS
<1> QED
  BY <1>1, <1>2, <1>3

LEMMA StepInv == IInv /\ [Next]_vars => IInv'
<1> SUFFICES ASSUME IInv, [Next]_vars PROVE IInv'
  OBVIOUS
<1>1. CASE \E t \in Images : Configure(t)
  BY <1>1, ConfigureInv
<1>2. CASE \E l \in Loads : PageVisible(l[1], l[2]) \/ NotifyMemCommit(l[1], l[2])
  BY <1>2, LoadsTyped, PageVisibleInv, NotifyInv
<1>3. CASE Dispatch
  BY <1>3, IdleActionsInv, HoldInv, ReleaseInv, RunInv DEF Dispatch
<1>4. CASE StartProgram \/ \E b \in BOOLEAN : SetIssueEnabled(b) \/ SetTransportOverlap(b)
  BY <1>4, IdleActionsInv
<1>5. CASE ResetComputeProgram \/ Reset \/ \E g \in Generations : ResetProgram(g)
  BY <1>5, ResetsInv
<1>6. CASE UNCHANGED vars
  <2>1. UNCHANGED <<controlVars, icuVars, chipVars, visible, lastTask, fault>>
    BY <1>6 DEF vars
  <2>2. ControlInv' /\ Owned' = Owned
    BY <2>1, ControlFrame
  <2>3. TypeOK'
    BY <2>1, <2>2 DEF IInv, TypeOK, controlVars, tableVars, clockVars, icuVars, chipVars
  <2> QED
    BY <2>1, <2>2, <2>3
    DEF IInv, ControlInv, ClockBalance, CompletedIsVisible, GenerationsAgree, NoMissedBarrier,
        controlVars, tableVars, clockVars, icuVars
<1> QED
  BY <1>1, <1>2, <1>3, <1>4, <1>5, <1>6 DEF Next

(* The strengthened invariant holds in every reachable state.               *)
THEOREM Invariance == Spec => []IInv
  BY InitInv, StepInv, PTL DEF Spec

(* Every register keeps its type: in particular the cursor never runs past   *)
(* the table and only instances some event waits for are ever completed.     *)
THEOREM TypeCorrect == Spec => []TypeOK
<1>1. IInv => TypeOK
  BY DEF IInv
<1> QED
  BY <1>1, Invariance, PTL

(* HOLD neither loses nor invents computation cycles: physical time is       *)
(* logical time plus wait time, modulo the width of the counters.            *)
THEOREM ClocksBalance == Spec => []ClockBalance
<1>1. IInv => ClockBalance
  BY DEF IInv
<1> QED
  BY <1>1, Invariance, PTL

(* A passed barrier lies behind the clock with all of its pages committed,   *)
(* and no barrier that was not passed is ever overtaken by the clock.        *)
THEOREM CursorCorrect == Spec => []CursorAgrees
<1>1. IInv => CursorAgrees
  BY DEF IInv
<1> QED
  BY <1>1, Invariance, PTL

(* "common barrier stop cycle was missed" is never thrown by begin_cycle().  *)
THEOREM DeadlineNeverMissed == Spec => []NoMissedBarrier
<1>1. IInv => NoMissedBarrier
  BY DEF IInv
<1> QED
  BY <1>1, Invariance, PTL

(* No early, late, repeated or retired report completes a page of the        *)
(* running task whose writes are not in SRAM.                                *)
THEOREM CompletionsReal == Spec => []CompletedIsVisible
<1>1. IInv => CompletedIsVisible
  BY DEF IInv
<1> QED
  BY <1>1, Invariance, PTL

(* The ICU filters reports by the generation the controller runs.            *)
THEOREM FilterAgrees == Spec => []GenerationsAgree
<1>1. IInv => GenerationsAgree
  BY DEF IInv
<1> QED
  BY <1>1, Invariance, PTL
----------------------------------------------------------------------------
(* The drain check of the dispatch phase.                                   *)

(* Only a release moves the cursor forwards.                                 *)
LEMMA OnlyReleaseAdvances ==
  ASSUME IInv, [Next]_vars, next' = next + 1
  PROVE  DispatchRelease
<1>1. next \in Nat
  BY StopsTyped
<1>2. ASSUME next' = next PROVE FALSE
  BY <1>1, <1>2
<1>3. ASSUME next' = 0 PROVE FALSE
  BY <1>1, <1>3
<1>4. ASSUME UNCHANGED controlVars PROVE FALSE
  BY <1>2, <1>4 DEF controlVars
<1>5. ASSUME \E t \in Images : Configure(t) PROVE FALSE
  BY <1>3, <1>4, <1>5 DEF Configure
<1>6. ASSUME \E l \in Loads : PageVisible(l[1], l[2]) \/ NotifyMemCommit(l[1], l[2])
      PROVE  FALSE
  BY <1>2, <1>4, <1>6 DEF PageVisible, NotifyMemCommit
<1>7. ASSUME StartProgram \/ \E b \in BOOLEAN : SetIssueEnabled(b) \/ SetTransportOverlap(b)
      PROVE  FALSE
  BY <1>4, <1>7 DEF StartProgram, SetIssueEnabled, SetTransportOverlap
<1>8. ASSUME ResetComputeProgram \/ Reset \/ \E g \in Generations : ResetProgram(g)
      PROVE  FALSE
  BY <1>3, <1>8 DEF ResetComputeProgram, Reset, ResetProgram, ResetControl
<1>9. ASSUME UnsafeBoundary \/ DispatchWhileLoading \/ DispatchHold \/ DispatchRun
      PROVE  FALSE
  BY <1>2, <1>4, <1>9 DEF UnsafeBoundary, DispatchWhileLoading, DispatchHold, DispatchRun
<1>10. ASSUME UNCHANGED vars PROVE FALSE
  BY <1>4, <1>10 DEF vars
<1> QED
  BY <1>5, <1>6, <1>7, <1>8, <1>9, <1>10 DEF Next, Dispatch

(* No barrier is consumed unless the chip was seen drained in the same       *)
(* dispatch: a boundary checked before is one the controller holds at, so    *)
(* barrier_due() reports it again once its event is complete.                *)
THEOREM ReleaseOnlyDrained == Spec => ReleaseIsDrained
<1>1. IInv /\ [Next]_vars => [next' = next + 1 => Drained]_vars
  <2> SUFFICES ASSUME IInv, [Next]_vars, next' = next + 1 PROVE Drained
    OBVIOUS
  <2>1. DispatchRelease
    BY OnlyReleaseAdvances
  <2>2. AtStop /\ CurrentReady /\ DispatchGuard
    BY <2>1 DEF DispatchRelease, Ticked
  <2>3. Due
    BY <2>2 DEF Due, IInv, CheckedIsHeld
  <2> QED
    BY <2>2, <2>3 DEF DispatchGuard
<1> QED
  BY <1>1, Invariance, PTL DEF Spec, ReleaseIsDrained
----------------------------------------------------------------------------
(* The controller implements the page gate.                                 *)

LEMMA StopsInRange ==
  ASSUME NEW s \in Seq([stop : 0 .. LastCycle, event : Nat])
  PROVE  \A i \in 1 .. Len(s) : s[i].stop \in 0 .. CounterModulus - 1
<1>1. ASSUME NEW i \in 1 .. Len(s) PROVE s[i] \in [stop : 0 .. LastCycle, event : Nat]
  BY ElementOfSeq
<1> QED
  BY <1>1, ConstantsAssumption

(* A task that is accepted, and a reset, start the gate over.                *)
LEMMA LoadsGate ==
  ASSUME IInv', logical' = 0, completed' = {}
  PROVE  Gate!Load
<1>1. entries' \in Seq([stop : 0 .. LastCycle, event : Nat])
  BY DEF IInv, TypeOK
<1>2. \A i \in 1 .. Len(entries') : entries'[i].stop \in 0 .. CounterModulus - 1
  BY <1>1, StopsInRange
<1>3. \A g \in Gates' : g.at \in Gate!Clock
  BY <1>2 DEF Gates, Gate!Clock
<1> QED
  BY <1>3 DEF Gate!Load

(* An accepted report is an arrival: the page belongs to some gate.          *)
LEMMA NotifyArrives ==
  ASSUME IInv, NEW g \in Nat, NEW i \in Nat, NotifyMemCommit(g, i)
  PROVE  Gate!Arrive \/ UNCHANGED Gate!gateVars
<1>1. UNCHANGED <<entries, events, logical>>
  BY DEF NotifyMemCommit, tableVars, clockVars
<1>2. UNCHANGED Gates
  BY <1>1 DEF Gates
<1>3. CASE ~Accepted(g, i)
  BY <1>1, <1>2, <1>3 DEF NotifyMemCommit, Gate!gateVars
<1>4. CASE Accepted(g, i)
  <2>1. PICK e \in DOMAIN events : i \in events[e]
    BY <1>4 DEF Accepted, Owned
  <2>2. PICK j \in 1 .. Len(entries) : entries[j].event = e
    BY <2>1 DEF IInv, TableOK
  <2>3. [at |-> entries[j].stop, pages |-> events[entries[j].event]] \in Gates
    BY <2>2 DEF Gates
  <2>4. i \in UNION {h.pages : h \in Gates}
    BY <2>1, <2>2, <2>3
  <2>5. completed' = completed \cup {i}
    BY <1>4 DEF NotifyMemCommit
  <2> QED
    BY <1>1, <1>2, <2>4, <2>5 DEF Gate!Arrive
<1> QED
  BY <1>3, <1>4

(* A dispatch that ends in end_cycle() advances the gate or leaves it alone. *)
LEMMA TickedAdvances ==
  ASSUME IInv, NEW en \in BOOLEAN, Ticked(en),
         en => \A i \in 1 .. Len(entries) :
                 entries[i].stop <= logical => events[entries[i].event] \subseteq completed
  PROVE  Gate!Advance \/ UNCHANGED Gate!gateVars
<1>1. UNCHANGED <<entries, events, completed>> /\ EndCycle(en)
  BY DEF Ticked, tableVars
<1>2. UNCHANGED Gates
  BY <1>1 DEF Gates
<1>3. CASE logical' = logical
  BY <1>1, <1>2, <1>3 DEF Gate!gateVars
<1>4. CASE en /\ logical' = Increment(logical)
  <2>1. \A g \in Gates : g.at <= logical => Gate!Open(g)
    BY <1>4 DEF Gates, Gate!Open
  <2> QED
    BY <1>1, <1>2, <1>4, <2>1 DEF Gate!Advance, Increment
<1> QED
  BY <1>1, <1>3, <1>4 DEF EndCycle

(* Behind and at the clock, everything the cursor passed is complete.        *)
LEMMA DispatchRefines ==
  ASSUME IInv, Dispatch
  PROVE  Gate!Advance \/ UNCHANGED Gate!gateVars
<1>0. /\ issue \in BOOLEAN
      /\ \A i \in 1 .. next : events[entries[i].event] \subseteq completed
  BY DEF IInv, TypeOK, CursorAgrees
<1>1. CASE UnsafeBoundary \/ DispatchWhileLoading
  BY <1>1 DEF UnsafeBoundary, DispatchWhileLoading, controlVars, tableVars, clockVars,
     Gate!gateVars, Gates
<1>2. CASE DispatchHold
  BY <1>2, TickedAdvances DEF DispatchHold
<1>3. CASE DispatchRelease
  <2>1. /\ HasCurrent /\ Current.stop = logical /\ CurrentReady /\ Ticked(issue)
    BY <1>3 DEF DispatchRelease, AtStop
  <2>2. /\ next + 1 \in 1 .. Len(entries) /\ entries[next + 1].stop = logical
        /\ events[entries[next + 1].event] \subseteq completed
    BY <2>1, StopsTyped DEF HasCurrent, Current, CurrentReady
  <2>3. ASSUME NEW i \in 1 .. Len(entries), entries[i].stop <= logical
        PROVE  events[entries[i].event] \subseteq completed
    <3>1. CASE i \in 1 .. next
      BY <1>0, <3>1
    <3>2. CASE i = next + 1
      BY <2>2, <3>2
    <3>3. CASE next + 1 < i
      <4>1. entries[next + 1].stop < entries[i].stop
        BY <2>2, <3>3, StopsTyped
      <4> QED
        BY <2>2, <2>3, <4>1, StopsTyped
    <3> QED
      BY <3>1, <3>2, <3>3, StopsTyped
  <2> QED
    BY <1>0, <2>1, <2>3, TickedAdvances
<1>4. CASE DispatchRun
  <2>1. ~AtStop /\ Ticked(issue)
    BY <1>4, NotMissed DEF DispatchRun
  <2>2. ASSUME NEW i \in 1 .. Len(entries), entries[i].stop <= logical
        PROVE  events[entries[i].event] \subseteq completed
    <3>1. CASE i \in 1 .. next
      BY <1>0, <3>1
    <3>2. CASE i \in next + 1 .. Len(entries)
      <4>1. entries[i].stop >= logical + 1
        BY <2>1, <3>2, NotMissed
      <4> QED
        BY <2>2, <4>1, StopsTyped
    <3> QED
      BY <3>1, <3>2, StopsTyped
  <2> QED
    BY <1>0, <2>1, <2>2, TickedAdvances
<1> QED
  BY <1>1, <1>2, <1>3, <1>4 DEF Dispatch

(* Every behaviour of the controller is a behaviour of the page gate: the    *)
(* computation clock never leaves a cycle before the pages that some barrier *)
(* up to it waits for are in SRAM.                                           *)
THEOREM ImplementsGate == Spec => GateSpec
<1>1. Init => Gate!Init
  <2> SUFFICES ASSUME Init PROVE Gate!Init
    OBVIOUS
  <2>1. Len(entries) = 0 /\ logical = 0 /\ completed = {}
    BY DEF Init, InitControl
  <2> QED
    BY <2>1 DEF Gate!Init, Gates
<1>2. IInv /\ IInv' /\ [Next]_vars => [Gate!Next]_Gate!gateVars
  <2> SUFFICES ASSUME IInv, IInv', [Next]_vars
               PROVE  Gate!Next \/ UNCHANGED Gate!gateVars
    OBVIOUS
  <2>1. ASSUME UNCHANGED controlVars
        PROVE  UNCHANGED Gate!gateVars
    BY <2>1 DEF controlVars, tableVars, clockVars, Gate!gateVars, Gates
  <2>2. CASE \E t \in Images : Configure(t)
    BY <2>1, <2>2, LoadsGate DEF Configure, Gate!Next
  <2>3. CASE \E l \in Loads : PageVisible(l[1], l[2]) \/ NotifyMemCommit(l[1], l[2])
    <3>1. PICK l \in Loads : PageVisible(l[1], l[2]) \/ NotifyMemCommit(l[1], l[2])
      BY <2>3
    <3>2. l[1] \in Nat /\ l[2] \in Nat
      BY LoadsTyped
    <3>3. CASE PageVisible(l[1], l[2])
      BY <2>1, <3>3 DEF PageVisible
    <3>4. CASE NotifyMemCommit(l[1], l[2])
      BY <3>2, <3>4, NotifyArrives DEF Gate!Next
    <3> QED
      BY <3>1, <3>3, <3>4
  <2>4. CASE Dispatch
    BY <2>4, DispatchRefines DEF Gate!Next
  <2>5. CASE StartProgram \/ \E b \in BOOLEAN : SetIssueEnabled(b) \/ SetTransportOverlap(b)
    BY <2>1, <2>5 DEF StartProgram, SetIssueEnabled, SetTransportOverlap
  <2>6. CASE ResetComputeProgram \/ Reset \/ \E g \in Generations : ResetProgram(g)
    BY <2>6, LoadsGate DEF ResetComputeProgram, Reset, ResetProgram, ResetControl, Gate!Next
  <2>7. CASE UNCHANGED vars
    BY <2>1, <2>7 DEF vars
  <2> QED
    BY <2>2, <2>3, <2>4, <2>5, <2>6, <2>7 DEF Next
<1> QED
  BY <1>1, <1>2, Invariance, PTL DEF Spec, GateSpec, Gate!Spec
=============================================================================
