--------------------------- MODULE CommonBarrier ---------------------------
(***************************************************************************)
(* The common barrier controller of an instruction control unit            *)
(* (icu/common_barrier.hpp) inside the two callers that give it its        *)
(* meaning: the dispatch phase of the chip (system/tsp_slice_system.hpp,   *)
(* system/icu.hpp), which ticks it once per physical cycle, and the        *)
(* runtime, which configures a task, reports pages whose MEM writes are    *)
(* visible and switches tasks.                                             *)
(*                                                                         *)
(* One step is one call of the API or one physical dispatch cycle.  A      *)
(* thrown exception is a fault: it ends the run until the chip is reset.   *)
(* The computation and the transport traffic are reduced to whether any is *)
(* in flight, since the controller asks nothing else of them.              *)
(***************************************************************************)
EXTENDS Integers, Sequences, FiniteSets

CONSTANTS
  Images,                  \* the barrier images a compiler may hand over
  BarrierCapacity,         \* hw::kCommonBarrierCapacity
  MaxCompletionInstances,  \* kMaxCompletionInstances
  LastCycle,               \* UINT32_MAX, the last serializable logical cycle
  CounterModulus           \* 2^64, the width of the cycle counters

(* An image: a generation, a table of stop cycles and the events they wait *)
(* for, and for each event the page loads that complete it.                *)
ImageType ==
  [ generation : Nat,
    entries    : Seq([stop : 0 .. LastCycle, event : Nat]),
    bindings   : Seq([event : Nat, instances : Seq(Nat)]) ]

ASSUME ConstantsAssumption ==
  /\ Images \subseteq ImageType
  /\ BarrierCapacity \in Nat
  /\ MaxCompletionInstances \in Nat
  /\ LastCycle \in Nat
  /\ CounterModulus \in Nat
  /\ LastCycle + 1 < CounterModulus

VARIABLES
  (* IcuCommonBarrierController *)
  configured, started, generation,
  entries,           \* the preloaded table
  events,            \* event -> set of completion instances
  completed,         \* instances whose MEM commit was reported
  next,              \* number of barriers already passed
  checked,           \* current_checked_: the due boundary was seen before
  phase,             \* "init", "run" or "hold"
  logical, physical, waits,
  (* InstructionControlUnit *)
  cold,              \* cycle_ = 0: nothing dispatched since the last full reset
  loading,           \* program_loading_
  issue,             \* program_issue_enabled_
  overlap,           \* transport_overlap_enabled_
  programGeneration, \* program_generation_
  (* the rest of the chip, and the runtime *)
  computing,         \* computation in flight in VXM, MXM, MEM, SXM or SR
  transporting,      \* C2C transport traffic in flight in MEM or SR
  visible,           \* <<generation, instance>> whose MEM writes are all in SRAM
  lastTask,          \* the generation of the last task the runtime configured
  fault              \* "none", or the exception that was thrown

clockVars   == <<logical, physical, waits>>
tableVars   == <<configured, generation, entries, events>>
controlVars == <<tableVars, started, completed, next, checked, phase, clockVars>>
icuVars     == <<cold, loading, issue, overlap, programGeneration>>
chipVars    == <<computing, transporting>>
vars == <<controlVars, icuVars, chipVars, visible, lastTask, fault>>

Counter == 0 .. CounterModulus - 1
Phases  == {"init", "run", "hold"}
Faults  == {"none", "rejected", "uninitialized", "future", "unlinked",
            "missed", "overflow", "unsafe"}

(* Mutant: a wide counter that is taken never to wrap.                     *)
IncrementUnbounded(n) == n + 1

(* Unsigned increment of a cycle counter.                                  *)
Increment(n) == IF n + 1 = CounterModulus THEN 0 ELSE n + 1
----------------------------------------------------------------------------
(* The tables.                                                             *)

(* Positions of the completion instances in a list of bindings.            *)
Slots(bindings) ==
  UNION {{b} \X DOMAIN bindings[b].instances : b \in DOMAIN bindings}
InstanceAt(bindings, slot) == bindings[slot[1]].instances[slot[2]]
InstancesOf(binding) == {binding.instances[k] : k \in DOMAIN binding.instances}

(* Every check configure() makes before it touches its state.              *)
ValidTable(t) ==
  LET E == t.entries
      B == t.bindings
  IN /\ t.generation # 0
     /\ Len(E) <= BarrierCapacity
     /\ Len(B) = Len(E)
     /\ Cardinality(Slots(B)) <= MaxCompletionInstances
     /\ \A b \in DOMAIN B : B[b].event # 0 /\ B[b].instances # <<>>
     /\ \A a, b \in DOMAIN B : B[a].event = B[b].event => a = b
     /\ \A s, r \in Slots(B) : InstanceAt(B, s) = InstanceAt(B, r) => s = r
     /\ \A i, j \in DOMAIN E : i < j => E[i].stop < E[j].stop
     /\ \A i \in DOMAIN E : \E b \in DOMAIN B : B[b].event = E[i].event
     /\ \A i, j \in DOMAIN E : E[i].event = E[j].event => i = j
     /\ \A b \in DOMAIN B : \E i \in DOMAIN E : E[i].event = B[b].event

BoundEvents(bindings) ==
  [ e \in {bindings[b].event : b \in DOMAIN bindings} |->
      UNION {InstancesOf(bindings[b]) : b \in {c \in DOMAIN bindings : bindings[c].event = e}} ]

NoEvents == [e \in {} |-> {}]

(* The keys of instance_owners_: all the instances some event waits for.   *)
Owned == UNION {events[e] : e \in DOMAIN events}

(* The current table entry (current_), whether its event is complete, and  *)
(* whether the controller stands at its stop cycle.                        *)
HasCurrent   == next < Len(entries)
Current      == entries[next + 1]
(* Mutant: the first committed page of an event completes it.              *)
AnyPageReady == HasCurrent /\ events[Current.event] \cap completed # {}

CurrentReady == HasCurrent /\ events[Current.event] \subseteq completed
AtStop       == HasCurrent /\ Current.stop = logical

(* Mutant: the drain is proved at the first visit only, not after a HOLD.  *)
DueOnce == AtStop /\ ~checked

(* barrier_due(): the chip must prove it is drained before this dispatch.  *)
Due == AtStop /\ (~checked \/ (phase = "hold" /\ CurrentReady))

(* The drain test of the dispatch phase; with transport overlap, page      *)
(* traffic may stay in MEM and in the stream registers.                    *)
Drained == ~computing /\ (overlap \/ ~transporting)
----------------------------------------------------------------------------
InitControl ==
  /\ configured = FALSE /\ started = FALSE /\ generation = 0
  /\ entries = <<>> /\ events = NoEvents /\ completed = {}
  /\ next = 0 /\ checked = FALSE /\ phase = "init"
  /\ logical = 0 /\ physical = 0 /\ waits = 0

Init ==
  /\ InitControl
  /\ cold = TRUE /\ loading = FALSE /\ issue = TRUE /\ overlap = FALSE
  /\ programGeneration = 0
  /\ computing = FALSE /\ transporting = FALSE
  /\ visible = {} /\ lastTask = 0 /\ fault = "none"

(* Mutant: a reset that rewinds the controller and keeps its table.        *)
RewindControl ==
  /\ started' = FALSE /\ completed' = {}
  /\ next' = 0 /\ checked' = FALSE /\ phase' = "init"
  /\ logical' = 0 /\ physical' = 0 /\ waits' = 0
  /\ UNCHANGED tableVars

(* reset() of the controller: a default-constructed one takes its place.   *)
ResetControl ==
  /\ configured' = FALSE /\ started' = FALSE /\ generation' = 0
  /\ entries' = <<>> /\ events' = NoEvents /\ completed' = {}
  /\ next' = 0 /\ checked' = FALSE /\ phase' = "init"
  /\ logical' = 0 /\ physical' = 0 /\ waits' = 0

Throw(f) == fault' = f

(* configure_common_barriers(): the ICU admits it before execution only,   *)
(* the controller only for a valid, fresh image; a refusal changes nothing.*)
Admissible(t) ==
  /\ cold \/ loading
  /\ ~started
  /\ configured => t.generation > generation
  /\ ValidTable(t)

Configure(t) ==
  /\ fault = "none"
  (* The runtime numbers its tasks upwards; after a kernel switch nothing  *)
  (* in the controller remembers the previous number.                      *)
  /\ configured \/ t.generation > lastTask
  /\ IF Admissible(t)
     THEN /\ configured' = TRUE /\ generation' = t.generation
          /\ entries' = t.entries /\ events' = BoundEvents(t.bindings)
          /\ completed' = {} /\ next' = 0 /\ checked' = FALSE /\ phase' = "init"
          /\ logical' = 0 /\ physical' = 0 /\ waits' = 0
          /\ programGeneration' = t.generation
          /\ lastTask' = t.generation
          /\ UNCHANGED <<started, fault>>
     ELSE Throw("rejected") /\ UNCHANGED <<controlVars, programGeneration, lastTask>>
  /\ UNCHANGED <<cold, loading, issue, overlap, chipVars, visible>>

(* notify_common_mem_commit(): a retired generation is dropped by the ICU   *)
(* before the controller sees it; the controller drops an older one itself,*)
(* and takes a repeated instance once.                                     *)
NotifyFault(g, i) ==
  IF g < programGeneration THEN "none"
  ELSE IF ~configured THEN "uninitialized"
  ELSE IF g < generation THEN "none"
  ELSE IF g > generation THEN "future"
  ELSE IF i \notin Owned THEN "unlinked" ELSE "none"

(* Mutants: reports are matched by instance alone; reports that arrive     *)
(* while the controller holds are lost.                                    *)
AcceptedAnyGeneration(g, i) == configured /\ i \in Owned
AcceptedUnlessHeld(g, i) ==
  configured /\ g >= programGeneration /\ g = generation /\ i \in Owned /\ ~checked

Accepted(g, i) ==
  configured /\ g >= programGeneration /\ g = generation /\ i \in Owned

(* The runtime may report a page whose writes are visible at any time      *)
(* after that, in any order, and more than once.                           *)
NotifyMemCommit(g, i) ==
  /\ fault = "none"
  /\ <<g, i>> \in visible
  /\ Throw(NotifyFault(g, i))
  /\ completed' = IF Accepted(g, i) THEN completed \cup {i} ELSE completed
  /\ UNCHANGED <<tableVars, started, next, checked, phase, clockVars,
                 icuVars, chipVars, visible, lastTask>>

(* The last SRAM write of a page load of an accepted task; computation and *)
(* HOLD have no say in it.                                                 *)
PageVisible(g, i) ==
  /\ fault = "none"
  /\ g <= programGeneration
  /\ <<g, i>> \notin visible
  /\ visible' = visible \cup {<<g, i>>}
  /\ UNCHANGED <<controlVars, icuVars, chipVars, lastTask, fault>>
----------------------------------------------------------------------------
(* The dispatch phase.                                                     *)

(* After dispatch the functional units move: only an issued cycle puts new *)
(* computation in flight, transport comes and goes on its own.             *)
FunctionalUnits(enabled) ==
  /\ computing' \in (IF enabled THEN BOOLEAN ELSE {computing, FALSE})
  /\ transporting' \in BOOLEAN

(* Mutant: a HOLD stops the physical clock too.                            *)
EndCycleGated(enabled) ==
  /\ physical' = (IF enabled THEN Increment(physical) ELSE physical)
  /\ IF enabled
     THEN /\ waits' = waits
          /\ IF configured /\ logical = LastCycle
             THEN Throw("overflow") /\ logical' = logical
             ELSE logical' = Increment(logical) /\ fault' = fault
     ELSE waits' = Increment(waits) /\ UNCHANGED <<logical, fault>>

(* end_cycle(): physical time always advances, logical time only when the  *)
(* cycle was issued.                                                       *)
EndCycle(enabled) ==
  /\ physical' = Increment(physical)
  /\ IF enabled
     THEN /\ waits' = waits
          /\ IF configured /\ logical = LastCycle
             THEN Throw("overflow") /\ logical' = logical
             ELSE logical' = Increment(logical) /\ fault' = fault
     ELSE waits' = Increment(waits) /\ UNCHANGED <<logical, fault>>

(* The boundary is refused before the controller consumes anything.        *)
UnsafeBoundary ==
  /\ fault = "none" /\ Due /\ ~Drained
  /\ Throw("unsafe")
  /\ UNCHANGED <<controlVars, icuVars, chipVars, visible, lastTask>>

DispatchGuard == fault = "none" /\ ~(Due /\ ~Drained)

(* While i-MEM is being written the barrier clock stands still.            *)
DispatchWhileLoading ==
  /\ DispatchGuard /\ loading
  /\ cold' = FALSE
  /\ FunctionalUnits(FALSE)
  /\ UNCHANGED <<controlVars, loading, issue, overlap, programGeneration,
                 visible, lastTask, fault>>

(* What every dispatch that reaches end_cycle() does.                      *)
Ticked(enabled) ==
  /\ DispatchGuard /\ ~loading
  /\ started' = TRUE
  /\ cold' = FALSE
  /\ EndCycle(enabled)
  /\ FunctionalUnits(enabled)
  /\ UNCHANGED <<tableVars, completed, loading, issue, overlap,
                 programGeneration, visible, lastTask>>

(* Mutant: a HOLD that does not stop issue.                                *)
DispatchHoldIssuing ==
  /\ AtStop /\ ~CurrentReady
  /\ checked' = TRUE /\ phase' = "hold" /\ next' = next
  /\ Ticked(issue)

(* At the stop cycle of an incomplete event nothing is issued.             *)
DispatchHold ==
  /\ AtStop /\ ~CurrentReady
  /\ checked' = TRUE /\ phase' = "hold" /\ next' = next
  /\ Ticked(FALSE)

(* At the stop cycle of a complete one the barrier is consumed and the     *)
(* cycle is issued, unless the runtime holds issue.                        *)
DispatchRelease ==
  /\ AtStop /\ CurrentReady
  /\ next' = next + 1 /\ checked' = FALSE
  /\ phase' = (IF issue THEN "run" ELSE "hold")
  /\ Ticked(issue)

(* Between barriers the cycle is issued; a stop cycle already behind the    *)
(* clock would be a missed deadline.                                       *)
Missed == HasCurrent /\ Current.stop < logical

DispatchRun ==
  /\ ~AtStop
  /\ UNCHANGED <<next, checked>>
  /\ IF Missed
     THEN /\ DispatchGuard /\ ~loading
          /\ started' = TRUE
          /\ Throw("missed")
          /\ UNCHANGED <<tableVars, completed, phase, clockVars, icuVars,
                         chipVars, visible, lastTask>>
     ELSE /\ phase' = (IF issue THEN "run" ELSE "hold")
          /\ Ticked(issue)

Dispatch == \/ UnsafeBoundary \/ DispatchWhileLoading
            \/ DispatchHold \/ DispatchRelease \/ DispatchRun
----------------------------------------------------------------------------
(* The runtime.                                                            *)

SetIssueEnabled(b) ==
  /\ fault = "none" /\ issue' = b
  /\ UNCHANGED <<controlVars, cold, loading, overlap, programGeneration,
                 chipVars, visible, lastTask, fault>>

(* Overlap is chosen while the task is prepared.                           *)
SetTransportOverlap(b) ==
  /\ fault = "none" /\ (cold \/ loading) /\ overlap' = b
  /\ UNCHANGED <<controlVars, cold, loading, issue, programGeneration,
                 chipVars, visible, lastTask, fault>>

StartProgram ==
  /\ fault = "none" /\ loading
  /\ loading' = FALSE /\ issue' = TRUE
  /\ UNCHANGED <<controlVars, cold, overlap, programGeneration,
                 chipVars, visible, lastTask, fault>>

(* reset_program() of a loaded chip whose task is over, followed by the    *)
(* new generation watermark.                                               *)
ResetProgram(g) ==
  /\ fault = "none" /\ ~loading
  /\ next = Len(entries) /\ ~computing /\ ~transporting
  /\ g > programGeneration
  /\ ResetControl
  /\ loading' = TRUE /\ issue' = FALSE /\ overlap' = FALSE
  /\ programGeneration' = g
  /\ UNCHANGED <<cold, chipVars, visible, lastTask, fault>>

(* reset_compute_program(): a kernel switch that leaves transport, DDR and *)
(* physical time alone.                                                    *)
ResetComputeProgram ==
  /\ fault = "none"
  /\ ResetControl
  /\ loading' = TRUE /\ issue' = FALSE /\ overlap' = FALSE
  /\ UNCHANGED <<cold, programGeneration, chipVars, visible, lastTask, fault>>

(* reset_execution_state() of the chip.                                    *)
Reset ==
  /\ ResetControl
  /\ cold' = TRUE /\ loading' = FALSE /\ issue' = TRUE /\ overlap' = FALSE
  /\ programGeneration' = 0
  /\ computing' = FALSE /\ transporting' = FALSE
  /\ visible' = {} /\ lastTask' = 0 /\ fault' = "none"

Generations == {t.generation : t \in Images}

(* The page loads some image waits for.                                    *)
Loads == UNION {{t.generation} \X UNION {InstancesOf(t.bindings[b]) : b \in DOMAIN t.bindings}
                : t \in Images}

Next ==
  \/ \E t \in Images : Configure(t)
  \/ \E l \in Loads : PageVisible(l[1], l[2]) \/ NotifyMemCommit(l[1], l[2])
  \/ Dispatch
  \/ \E b \in BOOLEAN : SetIssueEnabled(b) \/ SetTransportOverlap(b)
  \/ StartProgram
  \/ \E g \in Generations : ResetProgram(g)
  \/ ResetComputeProgram
  \/ Reset

Spec == Init /\ [][Next]_vars

(* The chip is ticked forever, transport commits every launched page, and  *)
(* the runtime reports every page of the running task it sees committed:   *)
(* the weak fairness of PageVisible and NotifyMemCommit, written without   *)
(* ENABLED.                                                                *)
Unwritten(g, i) == fault = "none" /\ g <= programGeneration /\ <<g, i>> \notin visible

Unreported(g, i) ==
  /\ fault = "none" /\ g = generation /\ <<g, i>> \in visible
  /\ NotifyFault(g, i) # "none" \/ (Accepted(g, i) /\ i \notin completed)

Fairness ==
  /\ WF_vars(Dispatch)
  /\ \A l \in Loads : []<>~Unwritten(l[1], l[2])
  /\ \A l \in Loads : []<>~Unreported(l[1], l[2])

FairSpec == Spec /\ Fairness
----------------------------------------------------------------------------
TypeOK ==
  /\ configured \in BOOLEAN /\ started \in BOOLEAN /\ checked \in BOOLEAN
  /\ generation \in Nat
  /\ entries \in Seq([stop : 0 .. LastCycle, event : Nat])
  /\ DOMAIN events \subseteq Nat
  /\ \A e \in DOMAIN events : events[e] \subseteq Nat
  /\ completed \subseteq Owned
  /\ next \in 0 .. Len(entries)
  /\ phase \in Phases
  /\ logical \in Counter /\ physical \in Counter /\ waits \in Counter
  /\ cold \in BOOLEAN /\ loading \in BOOLEAN /\ issue \in BOOLEAN /\ overlap \in BOOLEAN
  /\ programGeneration \in Nat /\ lastTask \in Nat
  /\ computing \in BOOLEAN /\ transporting \in BOOLEAN
  /\ visible \subseteq Nat \X Nat
  /\ fault \in Faults

(* Every physical cycle the controller ran is either a logical cycle or a   *)
(* wait cycle: HOLD neither loses nor invents computation time, whatever    *)
(* the order of releases, pauses and counter wrap-around.                   *)
ClockBalance ==
  fault # "overflow" =>
    \/ physical = logical + waits
    \/ physical + CounterModulus = logical + waits

(* What configure() guarantees of the table for the rest of the task.       *)
TableOK ==
  /\ \A i, j \in 1 .. Len(entries) : i < j => entries[i].stop < entries[j].stop
  /\ \A i \in 1 .. Len(entries) : entries[i].event \in DOMAIN events
  /\ \A e \in DOMAIN events : \E i \in 1 .. Len(entries) : entries[i].event = e
  /\ ~configured => entries = <<>> /\ next = 0
  /\ configured => logical <= LastCycle

(* The cursor, the table and the clock agree: what was passed lies behind   *)
(* the clock with all its pages committed, what was not passed lies ahead.  *)
CursorAgrees ==
  /\ \A i \in 1 .. next : /\ entries[i].stop <= logical
                          /\ events[entries[i].event] \subseteq completed
  /\ \A i \in next + 1 .. Len(entries) : entries[i].stop >= logical

(* The check of begin_cycle() for a passed deadline never fires.            *)
NoMissedBarrier == fault # "missed"

(* A page counts for the running task only when its own writes are visible: *)
(* early, late, repeated and retired reports never complete another load.   *)
CompletedIsVisible == \A i \in completed : <<generation, i>> \in visible

(* The generation that filters reports in the ICU is the one the controller *)
(* was configured with, across loads and kernel switches.                   *)
GenerationsAgree == configured => programGeneration = generation

(* No barrier is consumed, at its first visit or after a HOLD, unless the   *)
(* chip was checked to be drained in that same dispatch.                    *)
ReleaseIsDrained == [][next' = next + 1 => Drained]_vars

(* A boundary seen before is one the controller holds at.                   *)
CheckedIsHeld == checked => phase = "hold" /\ AtStop

(* The controller implements the page gate: the computation clock leaves a  *)
(* cycle only when every page some barrier up to it waits for is in SRAM.   *)
Gates == {[at |-> entries[i].stop, pages |-> events[entries[i].event]]
          : i \in 1 .. Len(entries)}

Gate == INSTANCE PageGate WITH
          ClockModulus <- CounterModulus, gates <- Gates, clock <- logical,
          arrived <- completed

GateSpec == Gate!Spec

(* HOLD ends: transport is not stopped by it, so a barrier the clock has    *)
(* reached is eventually passed, unless issue is held, the task is replaced *)
(* or an exception ends the run.                                            *)
BarrierReleased ==
  \A k \in 0 .. BarrierCapacity - 1 :
    (configured /\ ~loading /\ next = k /\ HasCurrent)
      ~> (next # k \/ ~configured \/ loading \/ ~issue \/ fault # "none")
=============================================================================
