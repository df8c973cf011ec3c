------------------------- MODULE QueueControlProofs -------------------------
(* Proofs about QueueControl, for every set of tasks, any number of queues, *)
(* any cache depth, and any latency and interval of the control RAM.        *)
EXTENDS QueueControl, SequenceTheorems, FiniteSetTheorems, TLAPS

(* The task in force passed the checks of its loading.                      *)
TaskValid == task = NoTask \/ ValidTask(task)

(* Responses keep the distance of their requests, and the last request is   *)
(* as old as the port has cooled down: the pipeline cannot be full while    *)
(* the port is free.                                                        *)
Spaced ==
  /\ \A m, n \in DOMAIN pending :
       m <= n => pending[n].wait >= pending[m].wait + (n - m) * ReadInterval
  /\ pending # <<>> => pending[Len(pending)].wait + ReadInterval <= ReadLatency + cooldown
  /\ stage \in {"dispatch", "end"} /\ pending # <<>> => pending[1].wait > 0

(* A fetched record has its credit.                                         *)
Credited == \A q \in Queues : Len(cache[q]) + inflight[q] <= CacheDepth

(* The distance to the cursor bounds the grants a request still waits for.  *)
Patient ==
  /\ cooldown < ReadInterval
  /\ \A q \in requesting :
       waited[q] + Distance(q) * ReadInterval + cooldown < NumQueues * ReadInterval

(* Page reports, counted down events and notifications of this task.        *)
PagesCounted ==
  /\ \A e \in EventsOf(task) : remaining[e] = Cardinality(task.pages[e] \ completed)
  /\ \A i \in completed : <<task.generation, i>> \in visible
  /\ \A e \in released : task.pages[e] \subseteq completed
  /\ \A q \in Queues, e \in EventsOf(task) : tags[q][e] > 0 => e \in released
  /\ \A q \in Queues : \A i \in Obeyed(q, "wait") : List(q)[i].tag \in released

Conserved == IsFiniteSet(Notified) /\ NotifyConserved

(* A queue emits one NOTIFY a cycle, in its turn.                           *)
EmittedOnce ==
  /\ stage \in {"idle", "begin"} => emitted = {}
  /\ stage = "dispatch" => \A q \in emitted : q < turn

IInv == /\ TypeOK /\ TaskValid /\ InOrder /\ Credited /\ Spaced
        /\ Patient /\ BoundaryRespected /\ PagesCounted /\ Conserved /\ EmittedOnce
----------------------------------------------------------------------------
(* Tasks.                                                                   *)

LEMMA ConstantFacts ==
  /\ NumQueues \in Nat \ {0} /\ CacheDepth \in Nat \ {0} /\ ReadLatency \in Nat \ {0}
  /\ ReadInterval \in Nat \ {0} /\ Horizon \in Nat \ {0} /\ BarrierLatency \in Nat
  BY QueueAssumption

LEMMA TaskType ==
  ASSUME TypeOK
  PROVE  /\ task.generation \in Nat
         /\ \A q \in Queues : List(q) \in Seq(Record) /\ Count(q) \in Nat
         /\ \A q \in Queues : \A i \in 1 .. Count(q) : List(q)[i] \in Record
         /\ EventsOf(task) \subseteq Nat
         /\ \A e \in EventsOf(task) : task.pages[e] \subseteq Nat /\ IsFiniteSet(task.pages[e])
         /\ \A q \in Queues : \A i \in 1 .. Count(q) :
              List(q)[i].op = "wait" => List(q)[i].tag \in EventsOf(task)
<1>1. CASE task = NoTask
  <2>1. /\ task.generation = 0 /\ EventsOf(task) = {}
        /\ \A q \in Queues : List(q) = <<>> /\ Count(q) = 0
    BY <1>1 DEF NoTask, EventsOf, List, Count
  <2>2. <<>> \in Seq(Record)
    OBVIOUS
  <2>3. \A q \in Queues : \A i \in 1 .. Count(q) : FALSE
    BY <2>1
  <2>4. \A q \in Queues : List(q) \in Seq(Record)
    BY <2>1, <2>2, Zenon
  <2> QED
    BY <2>1, <2>3, <2>4
<1>2. CASE task \in Tasks
  <2>1. IsTask(task)
    BY <1>2, QueueAssumption
  <2>2. \A q \in Queues : List(q) \in Seq(Record)
    BY <2>1 DEF IsTask, List
  <2>3. \A q \in Queues : Count(q) \in Nat /\ DOMAIN List(q) = 1 .. Count(q)
    BY <2>2 DEF Count
  <2>4. ASSUME NEW q \in Queues, NEW i \in 1 .. Count(q) PROVE List(q)[i] \in Record
    BY <2>2, ElementOfSeq DEF Count
  <2>5. ASSUME NEW q \in Queues, NEW i \in 1 .. Count(q), List(q)[i].op = "wait"
        PROVE  List(q)[i].tag \in EventsOf(task)
    BY <2>1, <2>3, <2>5 DEF IsTask, List, EventsOf
  <2> QED
    BY <2>1, <2>2, <2>3, <2>4, <2>5 DEF IsTask, EventsOf
<1> QED
  BY <1>1, <1>2 DEF TypeOK

(* Records of a queue are ordered by their cycles.                          *)
LEMMA ListOrdered ==
  ASSUME TypeOK, TaskValid, NEW q \in Queues, NEW i \in 1 .. Count(q), NEW j \in 1 .. Count(q),
         i <= j
  PROVE  List(q)[i].cycle <= List(q)[j].cycle
<1>1. List(q)[i] \in Record /\ List(q)[j] \in Record /\ DOMAIN List(q) = 1 .. Count(q)
  BY TaskType DEF Count
<1>2. CASE i = j
  BY <1>1, <1>2, QueueAssumption DEF Record
<1>3. CASE i < j
  <2>1. task # NoTask
    BY <1>3 DEF NoTask, Count, List
  <2> QED
    BY <1>1, <1>3, <2>1 DEF TaskValid, ValidTask, List
<1> QED
  BY <1>2, <1>3, TaskType
----------------------------------------------------------------------------
(* What a step that leaves the variables of a part alone keeps of it.       *)

LEMMA OrderFrame ==
  ASSUME InOrder, Credited, UNCHANGED <<fetch, inflight, cache, pending, retired>>,
         fault' \in {fault, "none", "underflow", "missed"}
  PROVE  InOrder' /\ Credited'
<1>1. \A q \in Queues : Coming(q)' = Coming(q)
  BY DEF Coming
<1> QED
  BY <1>1 DEF InOrder, Credited

LEMMA PatientFrame ==
  ASSUME Patient, UNCHANGED <<requesting, waited, cursor, cooldown>>
  PROVE  Patient'
  BY DEF Patient, Distance

LEMMA SpacedFrame ==
  ASSUME Spaced, UNCHANGED <<pending, cooldown>>,
         stage' \in {"dispatch", "end"} => stage \in {"dispatch", "end"}
  PROVE  Spaced'
  BY DEF Spaced

LEMMA BoundaryFrame ==
  ASSUME BoundaryRespected, UNCHANGED <<task, retired, clock>>
  PROVE  BoundaryRespected'
  BY DEF BoundaryRespected, List, Count

LEMMA PagesFrame ==
  ASSUME PagesCounted, UNCHANGED <<task, remaining, completed, visible, released, tags, retired>>
  PROVE  PagesCounted'
  BY DEF PagesCounted, Obeyed, List, EventsOf

LEMMA ConservedFrame ==
  ASSUME Conserved, UNCHANGED <<task, retired, tokens, barrierEvents, emitted>>
  PROVE  Conserved'
<1>1. \A q \in Queues, o \in Opcodes : Obeyed(q, o)' = Obeyed(q, o)
  BY DEF Obeyed, List
<1>2. "sync" \in Opcodes /\ "notify" \in Opcodes
  BY DEF Opcodes
<1>3. Notified' = Notified
  BY <1>1, <1>2 DEF Notified
<1> QED
  BY <1>1, <1>2, <1>3 DEF Conserved, NotifyConserved

LEMMA EmittedFrame ==
  ASSUME EmittedOnce, UNCHANGED <<emitted, turn>>,
         stage' = stage \/ (stage = "idle" /\ stage' = "begin")
  PROVE  EmittedOnce'
  BY DEF EmittedOnce

LEMMA TaskFrame ==
  ASSUME TaskValid, UNCHANGED task
  PROVE  TaskValid'
  BY DEF TaskValid
----------------------------------------------------------------------------
(* A task that has just been loaded, and Init.                              *)

(* Nothing is fetched, obeyed or reported.                                  *)
Fresh(t) ==
  /\ fetch = Zero /\ inflight = Zero /\ cache = Empty /\ pending = <<>>
  /\ requesting = {} /\ waited = Zero /\ cursor = 0 /\ cooldown = 0
  /\ retired = Zero /\ clock = Zero /\ tags = NoTags(t) /\ tokens = Zero
  /\ emitted = {} /\ barrierEvents = <<>>
  /\ remaining = AllPages(t) /\ completed = {} /\ released = {}
  /\ task = t /\ fault = "none"

LEMMA FreshInv ==
  ASSUME NEW t, t \in Tasks \cup {NoTask}, Fresh(t), t = NoTask \/ ValidTask(t),
         running \in BOOLEAN, issue \in BOOLEAN, stage = "idle", turn \in 0 .. NumQueues,
         visible \subseteq Nat \X Nat
  PROVE  IInv
<1> USE DEF Fresh
<1>1. /\ EventsOf(task) \subseteq Nat
      /\ \A e \in EventsOf(task) : task.pages[e] \subseteq Nat /\ IsFiniteSet(task.pages[e])
      /\ \A q \in Queues : Count(q) \in Nat
  <2>1. CASE t = NoTask
    BY <2>1 DEF NoTask, EventsOf, Count, List
  <2>2. CASE t \in Tasks
    BY <2>2, QueueAssumption DEF IsTask, EventsOf, Count, List
  <2> QED
    BY <2>1, <2>2
<1>2. /\ \A q \in Queues : fetch[q] = 0 /\ inflight[q] = 0 /\ cache[q] = <<>> /\ retired[q] = 0
      /\ \A q \in Queues : clock[q] = 0 /\ tokens[q] = 0
      /\ \A q \in Queues, e \in EventsOf(task) : tags[q][e] = 0
      /\ \A q \in Queues : Len(cache[q]) = 0
  BY DEF Zero, Empty, NoTags
<1>3. \A e \in EventsOf(task) : Cardinality(task.pages[e]) \in Nat
  BY <1>1, FS_CardinalityType
<1>4. TypeOK
  <2>1. /\ fetch \in [Queues -> Nat] /\ \A q \in Queues : fetch[q] <= Count(q)
        /\ inflight \in [Queues -> 0 .. CacheDepth] /\ waited \in [Queues -> Nat]
        /\ retired \in [Queues -> Nat] /\ \A q \in Queues : retired[q] <= Count(q)
        /\ clock \in [Queues -> 0 .. Horizon] /\ tokens \in [Queues -> Nat]
        /\ cursor \in Queues /\ cooldown \in 0 .. ReadInterval
    BY <1>1, <1>2, QueueAssumption DEF Zero, Queues
  <2>2. /\ cache \in [Queues -> Seq(Nat \ {0})]
        /\ pending \in Seq([queue : Queues, at : Nat \ {0}, wait : 0 .. ReadLatency])
        /\ barrierEvents \in Seq(0 .. BarrierLatency)
    <3>1. <<>> \in Seq(Nat \ {0})
      OBVIOUS
    <3> QED
      BY <3>1 DEF Empty
  <2>3. tags \in [Queues -> [EventsOf(task) -> Nat]] /\ remaining \in [EventsOf(task) -> Nat]
    BY <1>3 DEF NoTags, AllPages
  <2> QED
    BY <2>1, <2>2, <2>3 DEF TypeOK, Stages, Faults
<1>5. InOrder /\ Credited
  <2>1. DOMAIN pending = {} /\ \A q \in Queues : Coming(q) = {}
    BY DEF Coming
  <2>2. \A q \in Queues : (retired[q] + Len(cache[q]) + 1) .. fetch[q] = {}
    BY <1>2
  <2>3. \A q \in Queues : /\ \A k \in 1 .. Len(cache[q]) : cache[q][k] = retired[q] + k
                          /\ inflight[q] = fetch[q] - retired[q] - Len(cache[q])
    BY <1>2
  <2>4. InOrder
    <3>1. fault = "none"
      OBVIOUS
    <3>2. \A q \in Queues : Coming(q) = (retired[q] + Len(cache[q]) + 1) .. fetch[q]
      BY <2>1, <2>2
    <3>3. fault \notin {"lost credit", "pipeline"}
      BY <3>1
    <3>4. \A m, n \in DOMAIN pending :
            pending[m].queue = pending[n].queue /\ m < n => pending[m].at < pending[n].at
      <4> HIDE DEF Fresh
      <4> QED
        BY <2>1
    <3> HIDE DEF Fresh
    <3> QED
      BY <2>3, <3>2, <3>3, <3>4 DEF InOrder
  <2> QED
    BY <1>2, <2>4, QueueAssumption DEF Credited
<1>6. Spaced /\ Patient /\ TaskValid /\ EmittedOnce
  BY QueueAssumption DEF Spaced, Patient, TaskValid, EmittedOnce
<1>7. \A q \in Queues, o \in Opcodes : Obeyed(q, o) = {}
  BY <1>2 DEF Obeyed
<1>8. BoundaryRespected
  <2>1. \A q \in Queues : \A i \in 1 .. Count(q) : List(q)[i].cycle \in Nat
    BY <1>4, TaskType, QueueAssumption DEF Record
  <2> QED
    BY <1>2, <2>1 DEF BoundaryRespected
<1>9. PagesCounted
  <2>1. \A e \in EventsOf(task) : task.pages[e] \ {} = task.pages[e]
    OBVIOUS
  <2>2. \A e \in EventsOf(task) : remaining[e] = Cardinality(task.pages[e])
    BY DEF AllPages, EventsOf
  <2> QED
    BY <1>2, <1>7, <2>1, <2>2 DEF PagesCounted, Opcodes
<1>10. Conserved
  <2>1. Notified = {}
    BY <1>7 DEF Notified, Opcodes
  <2>2. \A q \in Queues : Obeyed(q, "sync") = {}
    BY <1>7 DEF Opcodes
  <2>3. Len(barrierEvents) = 0 /\ Cardinality(emitted) = 0 /\ Cardinality({}) = 0 /\ IsFiniteSet({})
    BY FS_EmptySet
  <2>4. \A q \in Queues : tokens[q] = 0 /\ Cardinality(Obeyed(q, "sync")) = 0
    BY <1>2, <2>2, <2>3
  <2>5. IsFiniteSet(Notified) /\ Cardinality(Notified) = 0
    BY <2>1, <2>3
  <2> HIDE DEF Fresh
  <2> QED
    BY <2>3, <2>4, <2>5 DEF Conserved, NotifyConserved
<1> QED
  BY <1>4, <1>5, <1>6, <1>8, <1>9, <1>10 DEF IInv

FreshIsGood ==
  \A t \in Tasks \cup {NoTask} :
    /\ Fresh(t) /\ (t = NoTask \/ ValidTask(t))
    /\ running \in BOOLEAN /\ issue \in BOOLEAN /\ stage = "idle" /\ turn \in 0 .. NumQueues
    /\ visible \subseteq Nat \X Nat
    => IInv

LEMMA FreshAfterStep == FreshIsGood'
<1>1. FreshIsGood
  BY FreshInv DEF FreshIsGood
<1> QED
  BY <1>1, PTL

LEMMA InitInv == Init => IInv
<1> SUFFICES ASSUME Init PROVE IInv
  OBVIOUS
<1>1. Fresh(NoTask)
  BY DEF Init, Fresh
<1>2. 0 \in 0 .. NumQueues
  BY QueueAssumption
<1> QED
  BY <1>1, <1>2, FreshInv DEF Init

LEMMA LoadInv ==
  ASSUME IInv, NEW t \in Tasks, Load(t)
  PROVE  IInv'
<1>1. Fresh(t)'
  BY DEF Load, Fresh
<1>2. /\ running' \in BOOLEAN /\ issue' \in BOOLEAN /\ stage' = "idle" /\ turn' \in 0 .. NumQueues
      /\ visible' \subseteq Nat \X Nat /\ ValidTask(t)
  BY DEF Load, IInv, TypeOK
<1> QED
  BY <1>1, <1>2, FreshAfterStep DEF FreshIsGood
----------------------------------------------------------------------------
(* One lemma per action: first those that change no more than the mode.     *)

LEMMA StartInv ==
  ASSUME IInv, Start
  PROVE  IInv'
<1>1. UNCHANGED <<task, stage, turn, poolVars, queueVars, pageVars, fault>>
      /\ running' = TRUE /\ issue' = TRUE
  BY DEF Start
<1>2. TypeOK'
  BY <1>1 DEF IInv, TypeOK, poolVars, queueVars, pageVars, List, Count, EventsOf
<1> QED
  BY <1>1, <1>2, TaskFrame, OrderFrame, SpacedFrame, PatientFrame, BoundaryFrame, PagesFrame,
     ConservedFrame, EmittedFrame DEF IInv, poolVars, queueVars, pageVars

LEMMA SetIssueEnabledInv ==
  ASSUME IInv, NEW b \in BOOLEAN, SetIssueEnabled(b)
  PROVE  IInv'
<1>1. UNCHANGED <<task, running, stage, turn, poolVars, queueVars, pageVars, fault>>
      /\ issue' \in BOOLEAN
  BY DEF SetIssueEnabled
<1>2. TypeOK'
  BY <1>1 DEF IInv, TypeOK, poolVars, queueVars, pageVars, List, Count, EventsOf
<1> QED
  BY <1>1, <1>2, TaskFrame, OrderFrame, SpacedFrame, PatientFrame, BoundaryFrame, PagesFrame,
     ConservedFrame, EmittedFrame DEF IInv, poolVars, queueVars, pageVars

LEMMA BeginCycleInv ==
  ASSUME IInv, BeginCycle
  PROVE  IInv'
<1>1. UNCHANGED <<task, running, issue, turn, poolVars, queueVars, pageVars, fault>>
      /\ stage = "idle" /\ stage' = "begin"
  BY DEF BeginCycle
<1>2. TypeOK'
  BY <1>1 DEF IInv, TypeOK, poolVars, queueVars, pageVars, List, Count, EventsOf, Stages
<1> QED
  BY <1>1, <1>2, TaskFrame, OrderFrame, SpacedFrame, PatientFrame, BoundaryFrame, PagesFrame,
     ConservedFrame, EmittedFrame DEF IInv, poolVars, queueVars, pageVars

LEMMA DeliveredInv ==
  ASSUME IInv, Delivered
  PROVE  IInv'
<1>1. /\ UNCHANGED <<task, running, issue, poolVars, queueVars, pageVars, fault>>
      /\ stage' \in {"dispatch", "end"} /\ turn' = 0 /\ ~ResponseReady
  BY DEF Delivered
<1>2. TypeOK'
  <2>1. stage' \in Stages /\ turn' \in 0 .. NumQueues
    BY <1>1, QueueAssumption DEF Stages
  <2> QED
    BY <1>1, <2>1 DEF IInv, TypeOK, poolVars, queueVars, pageVars, List, Count, EventsOf
<1>3. Spaced'
  <2>1. pending # <<>> => pending[1].wait > 0
    <3> SUFFICES ASSUME pending # <<>> PROVE pending[1].wait > 0
      OBVIOUS
    <3>1. pending \in Seq([queue : Queues, at : Nat \ {0}, wait : 0 .. ReadLatency])
      BY DEF IInv, TypeOK
    <3>2. Head(pending) = pending[1] /\ 1 \in 1 .. Len(pending)
      BY <3>1
    <3>3. pending[1] \in [queue : Queues, at : Nat \ {0}, wait : 0 .. ReadLatency]
      BY <3>1, <3>2, ElementOfSeq
    <3> QED
      BY <1>1, <3>2, <3>3, QueueAssumption DEF ResponseReady
  <2> QED
    BY <1>1, <2>1 DEF IInv, Spaced, poolVars
<1>4. EmittedOnce'
  BY <1>1 DEF IInv, EmittedOnce, Delivered, queueVars
<1> QED
  BY <1>1, <1>2, <1>3, <1>4, TaskFrame, OrderFrame, PatientFrame, BoundaryFrame, PagesFrame,
     ConservedFrame DEF IInv, poolVars, queueVars, pageVars

LEMMA RefuseBoundaryInv ==
  ASSUME IInv, NEW q \in Queues, RefuseBoundary(q)
  PROVE  IInv'
<1>1. /\ UNCHANGED <<modeVars, poolVars, queueVars, pageVars>>
      /\ fault' \in {"underflow", "missed"}
  BY DEF RefuseBoundary, Throw
<1>2. TypeOK'
  BY <1>1 DEF IInv, TypeOK, modeVars, poolVars, queueVars, pageVars, List, Count, EventsOf, Faults
<1> QED
  BY <1>1, <1>2, TaskFrame, OrderFrame, SpacedFrame, PatientFrame, BoundaryFrame, PagesFrame,
     ConservedFrame, EmittedFrame DEF IInv, modeVars, poolVars, queueVars, pageVars
----------------------------------------------------------------------------
(* Pages.                                                                   *)

LEMMA PageVisibleInv ==
  ASSUME IInv, NEW g \in Nat, NEW i \in Nat, PageVisible(g, i)
  PROVE  IInv'
<1>1. /\ UNCHANGED <<modeVars, poolVars, queueVars, remaining, completed, released, fault>>
      /\ visible' = visible \cup {<<g, i>>}
  BY DEF PageVisible
<1>2. TypeOK'
  <2>1. visible' \subseteq Nat \X Nat
    BY <1>1 DEF IInv, TypeOK
  <2> QED
    BY <1>1, <2>1 DEF IInv, TypeOK, modeVars, poolVars, queueVars, List, Count, EventsOf
<1>3. PagesCounted'
  <2>1. \A q \in Queues, o \in Opcodes : Obeyed(q, o)' = Obeyed(q, o)
    BY <1>1 DEF Obeyed, List, modeVars, queueVars
  <2> QED
    BY <1>1, <2>1 DEF IInv, PagesCounted, Opcodes, List, EventsOf, modeVars, queueVars
<1> QED
  BY <1>1, <1>2, <1>3, TaskFrame, OrderFrame, SpacedFrame, PatientFrame, BoundaryFrame,
     ConservedFrame, EmittedFrame DEF IInv, modeVars, poolVars, queueVars

LEMMA NotifyMemCommitInv ==
  ASSUME IInv, NEW g \in Nat, NEW i \in Nat, NotifyMemCommit(g, i)
  PROVE  IInv'
<1>1. UNCHANGED <<modeVars, poolVars, queueVars, released, visible, fault>>
  BY DEF NotifyMemCommit
<1>2. TypeOK
  BY DEF IInv
<1>3. \A q \in Queues, o \in Opcodes : Obeyed(q, o)' = Obeyed(q, o)
  BY <1>1 DEF Obeyed, List, modeVars, queueVars
<1>4. CASE ~Counted(g, i)
  <2>1. UNCHANGED <<completed, remaining>>
    BY <1>4 DEF NotifyMemCommit
  <2>2. TypeOK'
    BY <1>1, <2>1 DEF IInv, TypeOK, modeVars, poolVars, queueVars, List, Count, EventsOf
  <2> QED
    BY <1>1, <2>1, <2>2, TaskFrame, OrderFrame, SpacedFrame, PatientFrame, BoundaryFrame,
       PagesFrame, ConservedFrame, EmittedFrame DEF IInv, modeVars, poolVars, queueVars
<1>5. CASE Counted(g, i)
  <2>1. /\ completed' = completed \cup {i} /\ i \notin completed /\ g = task.generation
        /\ <<g, i>> \in visible
        /\ remaining' = [e \in EventsOf(task) |->
               IF i \in task.pages[e] THEN remaining[e] - 1 ELSE remaining[e]]
    BY <1>5 DEF NotifyMemCommit, Counted
  <2>2. ASSUME NEW e \in EventsOf(task)
        PROVE  /\ remaining'[e] = Cardinality(task.pages[e] \ completed')
               /\ remaining'[e] \in Nat
    <3> DEFINE left == task.pages[e] \ completed
    <3>1. IsFiniteSet(task.pages[e])
      BY <1>2, TaskType
    <3>2. IsFiniteSet(left) /\ Cardinality(left) \in Nat
      BY <3>1, FS_Difference, FS_CardinalityType
    <3>3. /\ IsFiniteSet(left \ {i})
          /\ Cardinality(left \ {i}) = IF i \in left THEN Cardinality(left) - 1 ELSE Cardinality(left)
      BY <3>2, FS_RemoveElement
    <3>4. Cardinality(left \ {i}) \in Nat
      BY <3>3, FS_CardinalityType
    <3>5. task.pages[e] \ completed' = left \ {i} /\ (i \in left <=> i \in task.pages[e])
      BY <2>1
    <3>6. remaining[e] = Cardinality(left)
      BY DEF IInv, PagesCounted
    <3>7. remaining'[e] = IF i \in task.pages[e] THEN remaining[e] - 1 ELSE remaining[e]
      BY <2>1
    <3> HIDE DEF left
    <3> QED
      BY <3>3, <3>4, <3>5, <3>6, <3>7
  <2>3. TypeOK'
    <3>1. remaining' \in [EventsOf(task) -> Nat]
      <4>1. remaining' = [e \in EventsOf(task) |-> remaining'[e]]
        BY <2>1
      <4> QED
        BY <2>2, <4>1
    <3> QED
      BY <1>1, <2>1, <3>1 DEF IInv, TypeOK, modeVars, poolVars, queueVars, List, Count, EventsOf
  <2>4. PagesCounted'
    <3>1. task' = task /\ EventsOf(task)' = EventsOf(task) /\ UNCHANGED <<released, tags, visible>>
      BY <1>1 DEF modeVars, queueVars, EventsOf
    <3>2. \A e \in EventsOf(task)' : remaining'[e] = Cardinality(task'.pages[e] \ completed')
      BY <2>2, <3>1
    <3>3. \A j \in completed' : <<task'.generation, j>> \in visible'
      BY <2>1, <3>1 DEF IInv, PagesCounted
    <3>4. \A e \in released' : task'.pages[e] \subseteq completed'
      BY <2>1, <3>1 DEF IInv, PagesCounted
    <3>5. \A q \in Queues : \A j \in Obeyed(q, "wait")' : List(q)'[j].tag \in released'
      BY <1>3, <3>1 DEF IInv, PagesCounted, Opcodes, List
    <3> QED
      BY <3>1, <3>2, <3>3, <3>4, <3>5 DEF IInv, PagesCounted
  <2> QED
    BY <1>1, <2>3, <2>4, TaskFrame, OrderFrame, SpacedFrame, PatientFrame, BoundaryFrame,
       ConservedFrame, EmittedFrame DEF IInv, modeVars, poolVars, queueVars
<1> QED
  BY <1>4, <1>5

LEMMA ReleaseEventInv ==
  ASSUME IInv, NEW e, ReleaseEvent(e)
  PROVE  IInv'
<1>1. /\ UNCHANGED <<modeVars, poolVars, retired, clock, tokens, emitted, barrierEvents,
                     remaining, completed, visible, fault>>
      /\ e \in EventsOf(task) \ released /\ remaining[e] = 0
      /\ released' = released \cup {e}
      /\ tags' = [q \in Queues |-> [tags[q] EXCEPT ![e] = @ + 1]]
  BY DEF ReleaseEvent
<1>2. /\ tags' \in [Queues -> [EventsOf(task) -> Nat]]
      /\ \A q \in Queues, d \in EventsOf(task) : tags'[q][d] > 0 => d = e \/ tags[q][d] > 0
  <2>1. \A q \in Queues : tags[q] \in [EventsOf(task) -> Nat]
    BY DEF IInv, TypeOK
  <2> QED
    BY <1>1, <2>1
<1>3. TypeOK'
  BY <1>1, <1>2 DEF IInv, TypeOK, modeVars, poolVars, List, Count, EventsOf
<1>4. task.pages[e] \subseteq completed
  <2>1. IsFiniteSet(task.pages[e] \ completed)
    BY <1>1, TaskType, FS_Difference DEF IInv
  <2>2. Cardinality(task.pages[e] \ completed) = 0
    BY <1>1 DEF IInv, PagesCounted
  <2> QED
    BY <2>1, <2>2, FS_EmptySet
<1>5. PagesCounted'
  <2>1. \A q \in Queues, o \in Opcodes : Obeyed(q, o)' = Obeyed(q, o)
    BY <1>1 DEF Obeyed, List, modeVars
  <2>2. task' = task /\ EventsOf(task)' = EventsOf(task) /\ UNCHANGED <<remaining, completed, visible>>
    BY <1>1 DEF modeVars, EventsOf
  <2>3. \A d \in released' : task'.pages[d] \subseteq completed'
    BY <1>1, <1>4, <2>2 DEF IInv, PagesCounted
  <2>4. \A q \in Queues, d \in EventsOf(task)' : tags'[q][d] > 0 => d \in released'
    BY <1>1, <1>2, <2>2 DEF IInv, PagesCounted
  <2>5. \A q \in Queues : \A j \in Obeyed(q, "wait")' : List(q)'[j].tag \in released'
    BY <1>1, <2>1, <2>2 DEF IInv, PagesCounted, Opcodes, List
  <2> QED
    BY <2>2, <2>3, <2>4, <2>5 DEF IInv, PagesCounted
<1> QED
  BY <1>1, <1>3, <1>5, TaskFrame, OrderFrame, SpacedFrame, PatientFrame, BoundaryFrame,
     ConservedFrame, EmittedFrame DEF IInv, modeVars, poolVars
----------------------------------------------------------------------------
(* The queues.                                                              *)

LEMMA QueueFacts ==
  ASSUME TypeOK, InOrder, NEW q \in Queues
  PROVE  /\ cache[q] \in Seq(Nat \ {0}) /\ Len(cache[q]) \in Nat
         /\ retired[q] \in Nat /\ fetch[q] \in Nat /\ inflight[q] \in Nat
         /\ fetch[q] = retired[q] + Len(cache[q]) + inflight[q]
         /\ fetch[q] <= Count(q) /\ Count(q) \in Nat
<1>1. /\ cache[q] \in Seq(Nat \ {0})
      /\ retired[q] \in Nat /\ fetch[q] \in Nat /\ inflight[q] \in 0 .. CacheDepth
      /\ fetch[q] <= Count(q) /\ Count(q) \in Nat
  BY TaskType DEF TypeOK
<1>2. Len(cache[q]) \in Nat
  BY <1>1
<1>3. inflight[q] = fetch[q] - retired[q] - Len(cache[q])
  BY DEF InOrder
<1> QED
  BY <1>1, <1>2, <1>3, QueueAssumption

(* What a queue sees at the front of its cache is the next record of its    *)
(* list.                                                                    *)
LEMMA FrontIsNext ==
  ASSUME TypeOK, InOrder, NEW q \in Queues, cache[q] # <<>>
  PROVE  /\ Len(cache[q]) > 0 /\ Head(cache[q]) = retired[q] + 1
         /\ retired[q] + 1 \in 1 .. Count(q)
         /\ Front(q) = List(q)[retired[q] + 1] /\ Front(q) \in Record
<1>1. /\ cache[q] \in Seq(Nat \ {0}) /\ Len(cache[q]) \in Nat
      /\ retired[q] \in Nat /\ fetch[q] \in Nat /\ inflight[q] \in Nat
      /\ fetch[q] = retired[q] + Len(cache[q]) + inflight[q]
      /\ fetch[q] <= Count(q) /\ Count(q) \in Nat
  BY QueueFacts
<1>2. Len(cache[q]) > 0 /\ Head(cache[q]) = cache[q][1]
  BY <1>1
<1>3. cache[q][1] = retired[q] + 1
  <2>1. \A k \in 1 .. Len(cache[q]) : cache[q][k] = retired[q] + k
    BY DEF InOrder
  <2> QED
    BY <1>1, <1>2, <2>1
<1>4. retired[q] + 1 \in 1 .. Count(q)
  BY <1>1, <1>2
<1> QED
  BY <1>2, <1>3, <1>4, TaskType DEF Front

LEMMA ObeyedFacts ==
  ASSUME TypeOK, NEW q \in Queues, NEW o \in Opcodes
  PROVE  /\ IsFiniteSet(Obeyed(q, o)) /\ Cardinality(Obeyed(q, o)) \in Nat
         /\ Obeyed(q, o) \subseteq 1 .. retired[q]
<1>1. retired[q] \in Nat
  BY DEF TypeOK
<1>2. IsFiniteSet(1 .. retired[q])
  BY <1>1, FS_Interval
<1>3. Obeyed(q, o) \subseteq 1 .. retired[q]
  BY DEF Obeyed
<1> QED
  BY <1>2, <1>3, FS_Subset, FS_CardinalityType

(* Obeying a record.                                                        *)
LEMMA RetireKeeps ==
  ASSUME IInv, NEW q \in Queues, AtBoundary(q), Retire(q),
         UNCHANGED <<task, fetch, inflight, pending, clock, fault>>
  PROVE  /\ InOrder' /\ Credited' /\ BoundaryRespected'
         /\ cache' \in [Queues -> Seq(Nat \ {0})]
         /\ retired' \in [Queues -> Nat] /\ \A p \in Queues : retired'[p] <= Count(p)
         /\ \A p \in Queues, o \in Opcodes :
              Obeyed(p, o)' = IF p = q /\ Front(q).op = o THEN Obeyed(p, o) \cup {retired[q] + 1}
                             ELSE Obeyed(p, o)
         /\ \A o \in Opcodes : retired[q] + 1 \notin Obeyed(q, o)
<1>1. TypeOK /\ InOrder /\ cache[q] # <<>>
  BY DEF IInv, AtBoundary
<1>2. /\ Len(cache[q]) > 0 /\ retired[q] + 1 \in 1 .. Count(q)
      /\ Front(q) = List(q)[retired[q] + 1] /\ Front(q) \in Record
  BY <1>1, FrontIsNext
<1>3. /\ cache \in [Queues -> Seq(Nat \ {0})] /\ retired \in [Queues -> Nat]
      /\ \A p \in Queues : retired[p] <= Count(p)
      /\ \A p \in Queues : Count(p) \in Nat
  BY <1>1, TaskType DEF TypeOK
<1>4. /\ cache' = [cache EXCEPT ![q] = Tail(@)]
      /\ retired' = [retired EXCEPT ![q] = @ + 1]
  BY DEF Retire
<1>5. /\ Tail(cache[q]) \in Seq(Nat \ {0}) /\ Len(Tail(cache[q])) = Len(cache[q]) - 1
      /\ \A k \in 1 .. Len(cache[q]) - 1 : Tail(cache[q])[k] = cache[q][k + 1]
  BY <1>1, <1>3
<1>6. /\ cache' \in [Queues -> Seq(Nat \ {0})]
      /\ retired' \in [Queues -> Nat] /\ \A p \in Queues : retired'[p] <= Count(p)
  BY <1>2, <1>3, <1>4, <1>5
<1>7. /\ \A p \in Queues \ {q} : cache'[p] = cache[p] /\ retired'[p] = retired[p]
      /\ cache'[q] = Tail(cache[q]) /\ retired'[q] = retired[q] + 1
  BY <1>3, <1>4
<1>7a. /\ Len(cache'[q]) = Len(cache[q]) - 1 /\ Len(cache[q]) \in Nat
       /\ \A k \in 1 .. Len(cache[q]) - 1 : cache'[q][k] = cache[q][k + 1]
  <2>1. Len(cache[q]) \in Nat
    BY <1>3
  <2> QED
    BY <1>5, <1>7, <2>1
<1>8. InOrder'
  <2>1. \A p \in Queues : Coming(p)' = Coming(p)
    BY DEF Coming
  <2>2. ASSUME NEW p \in Queues
        PROVE  /\ Len(cache[p]) \in Nat /\ retired[p] \in Nat /\ Len(cache'[p]) \in Nat
               /\ retired'[p] \in Nat
               /\ retired'[p] + Len(cache'[p]) = retired[p] + Len(cache[p])
    <3>1. /\ cache[p] \in Seq(Nat \ {0}) /\ cache'[p] \in Seq(Nat \ {0})
          /\ retired[p] \in Nat /\ retired'[p] \in Nat
      BY <1>3, <1>6
    <3>2. Len(cache[p]) \in Nat /\ Len(cache'[p]) \in Nat
      BY <3>1
    <3>3. CASE p = q
      <4>1. retired[q] \in Nat /\ retired'[q] = retired[q] + 1
        BY <1>3, <1>7
      <4>2. retired'[q] + Len(cache'[q]) = retired[q] + Len(cache[q])
        <5>1. Len(cache'[q]) = Len(cache[q]) - 1 /\ Len(cache[q]) \in Nat
          BY <1>7a
        <5> QED
          BY <4>1, <5>1
      <4> QED
        BY <3>1, <3>2, <3>3, <4>2
    <3>4. CASE p # q
      BY <1>7, <3>1, <3>2, <3>4
    <3> QED
      BY <3>3, <3>4
  <2>3. \A p \in Queues : Coming(p)' = (retired'[p] + Len(cache'[p]) + 1) .. fetch'[p]
    BY <2>1, <2>2 DEF IInv, InOrder
  <2>4. ASSUME NEW p \in Queues
        PROVE  inflight'[p] = fetch'[p] - retired'[p] - Len(cache'[p])
    <3>1. inflight[p] = fetch[p] - retired[p] - Len(cache[p]) /\ fetch[p] \in Nat
      BY <1>1 DEF InOrder, TypeOK
    <3>2. inflight'[p] = inflight[p] /\ fetch'[p] = fetch[p]
      OBVIOUS
    <3>3. /\ Len(cache[p]) \in Nat /\ retired[p] \in Nat /\ Len(cache'[p]) \in Nat
          /\ retired'[p] \in Nat
          /\ retired'[p] + Len(cache'[p]) = retired[p] + Len(cache[p])
      BY <2>2
    <3> DEFINE r == retired[p]
               rr == retired'[p]
               l == Len(cache[p])
               ll == Len(cache'[p])
               f == fetch[p]
               i == inflight[p]
    <3>4. i = f - r - l /\ f \in Nat /\ l \in Nat /\ r \in Nat /\ ll \in Nat /\ rr \in Nat
          /\ rr + ll = r + l
      BY <3>1, <3>3
    <3> HIDE DEF r, rr, l, ll, f, i
    <3>5. i = f - rr - ll
      BY <3>4
    <3> QED
      BY <3>2, <3>5 DEF rr, ll, f, i
  <2>5. \A p \in Queues : \A k \in 1 .. Len(cache'[p]) : cache'[p][k] = retired'[p] + k
    <3>1. \A k \in 1 .. Len(cache[q]) : cache[q][k] = retired[q] + k
      BY <1>1 DEF InOrder
    <3>2. \A k \in 1 .. Len(cache'[q]) : cache'[q][k] = retired'[q] + k
      <4> SUFFICES ASSUME NEW k \in 1 .. Len(cache'[q]) PROVE cache'[q][k] = retired'[q] + k
        OBVIOUS
      <4>1. k \in 1 .. Len(cache[q]) - 1 /\ k + 1 \in 1 .. Len(cache[q])
        BY <1>7a
      <4>2. cache'[q][k] = cache[q][k + 1]
        BY <1>7a, <4>1
      <4>3. cache[q][k + 1] = retired[q] + (k + 1)
        BY <3>1, <4>1
      <4>4. retired[q] \in Nat /\ retired'[q] = retired[q] + 1 /\ k \in Nat
        BY <1>3, <1>7, <4>1
      <4> QED
        BY <4>2, <4>3, <4>4
    <3>3. \A p \in Queues \ {q} : \A k \in 1 .. Len(cache[p]) : cache[p][k] = retired[p] + k
      BY <1>1 DEF InOrder
    <3>4. ASSUME NEW p \in Queues, NEW k \in 1 .. Len(cache'[p])
          PROVE  cache'[p][k] = retired'[p] + k
      <4>1. CASE p = q
        BY <3>2, <4>1
      <4>2. CASE p # q
        <5>1. cache'[p] = cache[p] /\ retired'[p] = retired[p]
          BY <1>7, <4>2
        <5> QED
          BY <3>3, <4>2, <5>1
      <4> QED
        BY <4>1, <4>2
    <3> QED
      BY <3>4
  <2> QED
    BY <1>1, <2>3, <2>4, <2>5 DEF InOrder
<1>9. Credited'
  <2> SUFFICES ASSUME NEW p \in Queues PROVE Len(cache'[p]) + inflight'[p] <= CacheDepth
    BY DEF Credited
  <2>1. Len(cache'[p]) <= Len(cache[p]) /\ Len(cache'[p]) \in Nat /\ Len(cache[p]) \in Nat
    <3>1. cache[p] \in Seq(Nat \ {0}) /\ cache'[p] \in Seq(Nat \ {0})
      BY <1>3, <1>6
    <3>2. Len(cache[p]) \in Nat /\ Len(cache'[p]) \in Nat
      BY <3>1, LenProperties
    <3>3. CASE p = q
      BY <1>7a, <3>2, <3>3
    <3>4. CASE p # q
      <4>1. cache'[p] = cache[p]
        BY <1>7, <3>4
      <4> QED
        BY <3>2, <4>1
    <3> QED
      BY <3>2, <3>3, <3>4
  <2>2. inflight[p] \in Nat /\ inflight'[p] = inflight[p]
    BY <1>1, QueueFacts
  <2>3. Len(cache[p]) + inflight[p] <= CacheDepth
    BY DEF IInv, Credited
  <2> QED
    BY <2>1, <2>2, <2>3, ConstantFacts
<1>10. BoundaryRespected'
  <2>1. Front(q).cycle = clock[q]
    BY DEF AtBoundary
  <2>2. \A p \in Queues : List(p)' = List(p) /\ Count(p)' = Count(p)
    BY DEF List, Count
  <2>3. /\ \A p \in Queues : clock[p] \in Nat
        /\ \A p \in Queues : \A i \in 1 .. Count(p) : List(p)[i].cycle \in Nat
    <3>1. \A p \in Queues : clock[p] \in 0 .. Horizon
      BY <1>1 DEF TypeOK
    <3>2. \A p \in Queues : \A i \in 1 .. Count(p) : List(p)[i] \in Record
      BY <1>1, TaskType
    <3>3. \A r \in Record : r.cycle \in Nat
      BY ConstantFacts DEF Record
    <3> QED
      BY <3>1, <3>2, <3>3, ConstantFacts
  <2>4. ASSUME NEW p \in Queues, NEW i \in 1 .. Count(p)
        PROVE  /\ List(p)[i].cycle < clock[p] => i <= retired'[p]
               /\ i <= retired'[p] => List(p)[i].cycle <= clock[p]
    <3>1. /\ List(p)[i].cycle < clock[p] => i <= retired[p]
          /\ i <= retired[p] => List(p)[i].cycle <= clock[p]
      BY DEF IInv, BoundaryRespected
    <3>2. CASE p = q
      <4>1. i <= retired[q] + 1 /\ ~(i <= retired[q]) => i = retired[q] + 1
        BY <1>3
      <4> QED
        BY <1>2, <1>3, <1>7, <2>1, <2>3, <3>1, <3>2, <4>1
    <3> QED
      BY <1>7, <3>1, <3>2
  <2> QED
    BY <2>2, <2>4 DEF BoundaryRespected
<1>11. ASSUME NEW p \in Queues, NEW o \in Opcodes
       PROVE  Obeyed(p, o)' = IF p = q /\ Front(q).op = o THEN Obeyed(p, o) \cup {retired[q] + 1}
                             ELSE Obeyed(p, o)
  <2>1. List(p)' = List(p)
    BY DEF List
  <2>2. CASE p # q
    BY <1>7, <2>1, <2>2 DEF Obeyed
  <2>3. CASE p = q
    <3>1. 1 .. (retired[q] + 1) = (1 .. retired[q]) \cup {retired[q] + 1}
      BY <1>3
    <3>2. Obeyed(p, o)' = {i \in (1 .. retired[q]) \cup {retired[q] + 1} : List(q)[i].op = o}
      BY <1>7, <2>1, <2>3, <3>1 DEF Obeyed
    <3> QED
      BY <1>2, <2>3, <3>2 DEF Obeyed
  <2> QED
    BY <2>2, <2>3
<1>12. \A o \in Opcodes : retired[q] + 1 \notin Obeyed(q, o)
  BY <1>3 DEF Obeyed
<1> QED
  BY <1>6, <1>8, <1>9, <1>10, <1>11, <1>12

(* What every tick of a queue leaves alone.                                 *)
LEMMA TickFrame ==
  ASSUME IInv, NEW q \in Queues, Ticking(q), UNCHANGED controlFrame,
         (UNCHANGED <<stage, turn>>) \/ EndTick(q)
  PROVE  /\ TaskValid' /\ Spaced' /\ Patient'
         /\ stage' \in Stages /\ turn' \in 0 .. NumQueues
         /\ EventsOf(task)' = EventsOf(task)
         /\ \A p \in Queues : Count(p)' = Count(p) /\ List(p)' = List(p)
         /\ emitted' \subseteq emitted \cup {q} /\ (EndTick(q) \/ UNCHANGED emitted) => EmittedOnce'
<1>1. stage = "dispatch" /\ stage' \in {"dispatch", "end"}
  BY DEF Ticking, EndTick
<1>2. turn' \in 0 .. NumQueues
  <2>1. CASE turn' = turn
    BY <2>1 DEF IInv, TypeOK
  <2>2. CASE EndTick(q)
    BY <2>2, ConstantFacts DEF EndTick, Queues
  <2> QED
    BY <2>1, <2>2
<1>3. UNCHANGED <<task, pending, requesting, waited, cursor, cooldown>>
  BY DEF controlFrame
<1>4. TaskValid' /\ Spaced' /\ Patient'
  BY <1>1, <1>3, TaskFrame, SpacedFrame, PatientFrame DEF IInv
<1>5. emitted' \subseteq emitted \cup {q} /\ (EndTick(q) \/ UNCHANGED emitted) => EmittedOnce'
  <2>1. \A p \in emitted : p < q
    BY DEF IInv, EmittedOnce, Ticking
  <2>2. q \in Int /\ emitted \subseteq Int
    BY ConstantFacts DEF IInv, TypeOK, Queues
  <2>3. CASE EndTick(q)
    BY <1>1, <2>1, <2>2, <2>3 DEF EndTick, EmittedOnce
  <2>4. CASE ~EndTick(q)
    BY <2>1, <2>4, <1>1 DEF EmittedOnce, Ticking
  <2> QED
    BY <2>3, <2>4
<1> QED
  BY <1>1, <1>2, <1>3, <1>4, <1>5 DEF Stages, EventsOf, Count, List

LEMMA HoldInv ==
  ASSUME IInv, NEW q \in Queues, Hold(q)
  PROVE  IInv'
<1>1. /\ Ticking(q) /\ EndTick(q)
      /\ UNCHANGED <<controlFrame, cache, retired, clock, tags, tokens, emitted, fault>>
  BY DEF Hold
<1>2. UNCHANGED controlFrame
  BY <1>1
<1>3. /\ TaskValid' /\ Spaced' /\ Patient'
      /\ stage' \in Stages /\ turn' \in 0 .. NumQueues
      /\ EventsOf(task)' = EventsOf(task)
      /\ \A p \in Queues : Count(p)' = Count(p)
      /\ EmittedOnce'
  BY <1>1, <1>2, TickFrame
<1>4. TypeOK'
  BY <1>1, <1>3 DEF IInv, TypeOK, controlFrame, pageVars
<1> QED
  BY <1>1, <1>3, <1>4, OrderFrame, BoundaryFrame, PagesFrame, ConservedFrame
  DEF IInv, controlFrame, pageVars

LEMMA ReleaseWaitInv ==
  ASSUME IInv, NEW q \in Queues, ReleaseWait(q)
  PROVE  IInv'
<1> DEFINE e == Front(q).tag
<1>1. /\ Ticking(q) /\ AtBoundary(q) /\ Front(q).op = "wait" /\ tags[q][e] > 0
      /\ tags' = [tags EXCEPT ![q][e] = @ - 1] /\ Retire(q)
      /\ UNCHANGED <<controlFrame, stage, turn, clock, tokens, emitted, fault>>
  BY DEF ReleaseWait
<1>2. UNCHANGED controlFrame /\ UNCHANGED <<stage, turn>>
  BY <1>1
<1>3. /\ TaskValid' /\ Spaced' /\ Patient'
      /\ stage' \in Stages /\ turn' \in 0 .. NumQueues
      /\ EventsOf(task)' = EventsOf(task)
      /\ \A p \in Queues : Count(p)' = Count(p) /\ List(p)' = List(p)
      /\ EmittedOnce'
  BY <1>1, <1>2, TickFrame
<1>4. UNCHANGED <<task, fetch, inflight, pending, clock, fault>>
  BY <1>1 DEF controlFrame
<1>5. /\ InOrder' /\ Credited' /\ BoundaryRespected'
      /\ cache' \in [Queues -> Seq(Nat \ {0})]
      /\ retired' \in [Queues -> Nat] /\ \A p \in Queues : retired'[p] <= Count(p)
      /\ \A p \in Queues, o \in Opcodes :
           Obeyed(p, o)' = IF p = q /\ Front(q).op = o THEN Obeyed(p, o) \cup {retired[q] + 1}
                          ELSE Obeyed(p, o)
  BY <1>1, <1>4, RetireKeeps
<1>6. /\ retired[q] + 1 \in 1 .. Count(q) /\ Front(q) = List(q)[retired[q] + 1]
      /\ e \in EventsOf(task)
  <2>1. TypeOK /\ InOrder /\ cache[q] # <<>>
    BY <1>1 DEF IInv, AtBoundary
  <2>2. retired[q] + 1 \in 1 .. Count(q) /\ Front(q) = List(q)[retired[q] + 1]
    BY <2>1, FrontIsNext
  <2>3. List(q)[retired[q] + 1].op = "wait" => List(q)[retired[q] + 1].tag \in EventsOf(task)
    BY <2>1, <2>2, TaskType
  <2> QED
    BY <1>1, <2>2, <2>3
<1>7. /\ tags' \in [Queues -> [EventsOf(task) -> Nat]]
      /\ \A p \in Queues, d \in EventsOf(task) : tags'[p][d] > 0 => tags[p][d] > 0
  <2>1. tags \in [Queues -> [EventsOf(task) -> Nat]]
    BY DEF IInv, TypeOK
  <2>2. tags[q] \in [EventsOf(task) -> Nat] /\ tags[q][e] - 1 \in Nat
    BY <1>1, <1>6, <2>1
  <2>3. tags' = [tags EXCEPT ![q] = [tags[q] EXCEPT ![e] = tags[q][e] - 1]]
    BY <1>1
  <2> HIDE DEF e
  <2>4. [tags[q] EXCEPT ![e] = tags[q][e] - 1] \in [EventsOf(task) -> Nat]
    BY <2>2
  <2>5. \A d \in EventsOf(task) : [tags[q] EXCEPT ![e] = tags[q][e] - 1][d] > 0 => tags[q][d] > 0
    BY <1>1, <2>2
  <2> QED
    BY <2>1, <2>3, <2>4, <2>5
<1>8. TypeOK'
  BY <1>1, <1>3, <1>5, <1>7 DEF IInv, TypeOK, controlFrame, pageVars
<1>9. PagesCounted'
  <2>1. task' = task /\ UNCHANGED <<remaining, completed, released, visible>>
    BY <1>1 DEF controlFrame, pageVars
  <2>2. \A p \in Queues, d \in EventsOf(task)' : tags'[p][d] > 0 => d \in released'
    BY <1>3, <1>7, <2>1 DEF IInv, PagesCounted
  <2>3. e \in released
    BY <1>1, <1>6 DEF IInv, PagesCounted
  <2>4. ASSUME NEW p \in Queues, NEW i \in Obeyed(p, "wait")'
        PROVE  List(p)'[i].tag \in released'
    <3>1. CASE i \in Obeyed(p, "wait")
      BY <1>3, <2>1, <3>1 DEF IInv, PagesCounted
    <3>2. CASE p = q /\ i = retired[q] + 1
      BY <1>3, <1>6, <2>1, <2>3, <3>2
    <3> QED
      BY <1>5, <3>1, <3>2 DEF Opcodes
  <2> QED
    BY <1>3, <2>1, <2>2, <2>4 DEF IInv, PagesCounted
<1>10. Conserved'
  <2>1. \A p \in Queues : Obeyed(p, "sync")' = Obeyed(p, "sync") /\ Obeyed(p, "notify")' = Obeyed(p, "notify")
    BY <1>1, <1>5 DEF Opcodes
  <2>2. Notified' = Notified /\ UNCHANGED <<tokens, barrierEvents, emitted>>
    BY <1>1, <2>1 DEF Notified, controlFrame
  <2> QED
    BY <2>1, <2>2 DEF IInv, Conserved, NotifyConserved
<1> QED
  BY <1>3, <1>5, <1>8, <1>9, <1>10 DEF IInv

LEMMA ReleaseSyncInv ==
  ASSUME IInv, NEW q \in Queues, ReleaseSync(q)
  PROVE  IInv'
<1>1. /\ Ticking(q) /\ AtBoundary(q) /\ Front(q).op = "sync" /\ tokens[q] > 0
      /\ tokens' = [tokens EXCEPT ![q] = @ - 1] /\ Retire(q) /\ EndTick(q)
      /\ UNCHANGED <<controlFrame, clock, tags, emitted, fault>>
  BY DEF ReleaseSync
<1>2. UNCHANGED controlFrame
  BY <1>1
<1>3. /\ TaskValid' /\ Spaced' /\ Patient'
      /\ stage' \in Stages /\ turn' \in 0 .. NumQueues
      /\ EventsOf(task)' = EventsOf(task)
      /\ \A p \in Queues : Count(p)' = Count(p) /\ List(p)' = List(p)
      /\ EmittedOnce'
  BY <1>1, <1>2, TickFrame
<1>4. UNCHANGED <<task, fetch, inflight, pending, clock, fault>>
  BY <1>1 DEF controlFrame
<1>5. /\ InOrder' /\ Credited' /\ BoundaryRespected'
      /\ cache' \in [Queues -> Seq(Nat \ {0})]
      /\ retired' \in [Queues -> Nat] /\ \A p \in Queues : retired'[p] <= Count(p)
      /\ \A p \in Queues, o \in Opcodes :
           Obeyed(p, o)' = IF p = q /\ Front(q).op = o THEN Obeyed(p, o) \cup {retired[q] + 1}
                          ELSE Obeyed(p, o)
      /\ \A o \in Opcodes : retired[q] + 1 \notin Obeyed(q, o)
  BY <1>1, <1>4, RetireKeeps
<1>6. tokens \in [Queues -> Nat] /\ tokens' \in [Queues -> Nat]
  <2>1. tokens \in [Queues -> Nat]
    BY DEF IInv, TypeOK
  <2>2. tokens[q] - 1 \in Nat
    BY <1>1, <2>1
  <2> QED
    BY <1>1, <2>1, <2>2
<1>7. TypeOK'
  BY <1>1, <1>3, <1>5, <1>6 DEF IInv, TypeOK, controlFrame, pageVars
<1>8. PagesCounted'
  <2>1. UNCHANGED <<task, remaining, completed, released, visible, tags>>
    BY <1>1 DEF controlFrame, pageVars
  <2>2. \A p \in Queues : Obeyed(p, "wait")' = Obeyed(p, "wait")
    BY <1>1, <1>5 DEF Opcodes
  <2> QED
    BY <1>3, <2>1, <2>2 DEF IInv, PagesCounted
<1>9. Conserved'
  <2>1. Notified' = Notified /\ UNCHANGED <<barrierEvents, emitted>>
    <3>1. \A p \in Queues : Obeyed(p, "notify")' = Obeyed(p, "notify")
      BY <1>1, <1>5 DEF Opcodes
    <3> QED
      BY <1>1, <3>1 DEF Notified, controlFrame
  <2>2. \A p \in Queues \ {q} : Obeyed(p, "sync")' = Obeyed(p, "sync") /\ tokens'[p] = tokens[p]
    BY <1>1, <1>5, <1>6 DEF Opcodes
  <2>3. /\ Cardinality(Obeyed(q, "sync")') = Cardinality(Obeyed(q, "sync")) + 1
        /\ Cardinality(Obeyed(q, "sync")) \in Nat
    <3>1. Obeyed(q, "sync")' = Obeyed(q, "sync") \cup {retired[q] + 1}
          /\ retired[q] + 1 \notin Obeyed(q, "sync")
      BY <1>1, <1>5 DEF Opcodes
    <3>2. IsFiniteSet(Obeyed(q, "sync")) /\ Cardinality(Obeyed(q, "sync")) \in Nat
      BY ObeyedFacts DEF IInv, Opcodes
    <3> QED
      BY <3>1, <3>2, FS_AddElement
  <2>4. tokens'[q] = tokens[q] - 1 /\ tokens[q] \in Nat
    BY <1>1, <1>6
  <2>5. tokens'[q] + Cardinality(Obeyed(q, "sync")') = tokens[q] + Cardinality(Obeyed(q, "sync"))
    BY <2>3, <2>4
  <2> QED
    BY <2>1, <2>2, <2>5 DEF IInv, Conserved, NotifyConserved
<1> QED
  BY <1>3, <1>5, <1>7, <1>8, <1>9 DEF IInv

LEMMA NotifyInv ==
  ASSUME IInv, NEW q \in Queues, Notify(q)
  PROVE  IInv'
<1>1. /\ Ticking(q) /\ AtBoundary(q) /\ Front(q).op = "notify"
      /\ emitted' = emitted \cup {q} /\ Retire(q) /\ EndTick(q)
      /\ UNCHANGED <<controlFrame, clock, tags, tokens, fault>>
  BY DEF Notify
<1>2. UNCHANGED controlFrame
  BY <1>1
<1>3. /\ TaskValid' /\ Spaced' /\ Patient'
      /\ stage' \in Stages /\ turn' \in 0 .. NumQueues
      /\ EventsOf(task)' = EventsOf(task)
      /\ \A p \in Queues : Count(p)' = Count(p) /\ List(p)' = List(p)
      /\ EmittedOnce'
  BY <1>1, <1>2, TickFrame
<1>4. UNCHANGED <<task, fetch, inflight, pending, clock, fault>>
  BY <1>1 DEF controlFrame
<1>5. /\ InOrder' /\ Credited' /\ BoundaryRespected'
      /\ cache' \in [Queues -> Seq(Nat \ {0})]
      /\ retired' \in [Queues -> Nat] /\ \A p \in Queues : retired'[p] <= Count(p)
      /\ \A p \in Queues, o \in Opcodes :
           Obeyed(p, o)' = IF p = q /\ Front(q).op = o THEN Obeyed(p, o) \cup {retired[q] + 1}
                          ELSE Obeyed(p, o)
      /\ \A o \in Opcodes : retired[q] + 1 \notin Obeyed(q, o)
  BY <1>1, <1>4, RetireKeeps
<1>6. TypeOK'
  BY <1>1, <1>3, <1>5 DEF IInv, TypeOK, controlFrame, pageVars
<1>7. PagesCounted'
  <2>1. UNCHANGED <<task, remaining, completed, released, visible, tags>>
    BY <1>1 DEF controlFrame, pageVars
  <2>2. \A p \in Queues : Obeyed(p, "wait")' = Obeyed(p, "wait")
    BY <1>1, <1>5 DEF Opcodes
  <2> QED
    BY <1>3, <2>1, <2>2 DEF IInv, PagesCounted
<1>8. Conserved'
  <2>1. \A p \in Queues : Obeyed(p, "sync")' = Obeyed(p, "sync")
    BY <1>1, <1>5 DEF Opcodes
  <2>2. UNCHANGED <<tokens, barrierEvents>>
    BY <1>1 DEF controlFrame
  <2>3. Notified' = Notified \cup {<<q, retired[q] + 1>>} /\ <<q, retired[q] + 1>> \notin Notified
    <3>1. /\ Obeyed(q, "notify")' = Obeyed(q, "notify") \cup {retired[q] + 1}
          /\ retired[q] + 1 \notin Obeyed(q, "notify")
          /\ \A p \in Queues \ {q} : Obeyed(p, "notify")' = Obeyed(p, "notify")
      BY <1>1, <1>5 DEF Opcodes
    <3> QED
      BY <3>1 DEF Notified
  <2>4. /\ IsFiniteSet(Notified') /\ Cardinality(Notified') = Cardinality(Notified) + 1
        /\ Cardinality(Notified) \in Nat
    BY <2>3, FS_AddElement, FS_CardinalityType DEF IInv, Conserved
  <2>5. Cardinality(emitted') = Cardinality(emitted) + 1 /\ Cardinality(emitted) \in Nat
    <3>1. IsFiniteSet(emitted)
      <4>1. IsFiniteSet(Queues)
        BY FS_Interval, ConstantFacts DEF Queues
      <4> QED
        BY <4>1, FS_Subset DEF IInv, TypeOK
    <3>2. q \notin emitted
      <4>1. q \in Int
        BY ConstantFacts DEF Queues
      <4> QED
        BY <1>1, <4>1 DEF IInv, EmittedOnce, Ticking
    <3> QED
      BY <1>1, <3>1, <3>2, FS_AddElement, FS_CardinalityType
  <2>6. ASSUME NEW p \in Queues
        PROVE  /\ tokens[p] \in Nat /\ Cardinality(Obeyed(p, "sync")) \in Nat /\ Len(barrierEvents) \in Nat
               /\ tokens[p] + Cardinality(Obeyed(p, "sync")) + Len(barrierEvents) + Cardinality(emitted)
                    = Cardinality(Notified)
    <3>1. /\ TypeOK /\ NotifyConserved /\ tokens \in [Queues -> Nat]
          /\ barrierEvents \in Seq(0 .. BarrierLatency)
      BY DEF IInv, TypeOK, Conserved
    <3>2. Cardinality(Obeyed(p, "sync")) \in Nat
      BY <3>1, ObeyedFacts DEF Opcodes
    <3> QED
      BY <3>1, <3>2 DEF NotifyConserved
  <2>7. ASSUME NEW p \in Queues
        PROVE  tokens'[p] + Cardinality(Obeyed(p, "sync")') + Len(barrierEvents') + Cardinality(emitted')
                 = Cardinality(Notified')
    <3>1. tokens[p] + Cardinality(Obeyed(p, "sync")) + Len(barrierEvents) + (Cardinality(emitted) + 1)
            = Cardinality(Notified) + 1
      <4>1. Cardinality(emitted) \in Nat /\ Cardinality(Notified) \in Nat
        BY <2>4, <2>5
      <4>2. /\ tokens[p] \in Nat /\ Cardinality(Obeyed(p, "sync")) \in Nat /\ Len(barrierEvents) \in Nat
            /\ tokens[p] + Cardinality(Obeyed(p, "sync")) + Len(barrierEvents) + Cardinality(emitted)
                    = Cardinality(Notified)
        BY <2>6
      <4> QED
        BY <4>1, <4>2
    <3> QED
      BY <2>1, <2>2, <2>4, <2>5, <3>1
  <2> QED
    BY <2>4, <2>7 DEF Conserved, NotifyConserved
<1> QED
  BY <1>3, <1>5, <1>6, <1>7, <1>8 DEF IInv

LEMMA MovePacketInv ==
  ASSUME IInv, NEW q \in Queues, NEW complete \in BOOLEAN, MovePacket(q, complete)
  PROVE  IInv'
<1>1. /\ Ticking(q) /\ AtBoundary(q) /\ Front(q).op = "packet" /\ EndTick(q)
      /\ Retire(q) \/ UNCHANGED <<cache, retired>>
      /\ UNCHANGED <<controlFrame, clock, tags, tokens, emitted, fault>>
  BY DEF MovePacket
<1>2. UNCHANGED controlFrame
  BY <1>1
<1>3. /\ TaskValid' /\ Spaced' /\ Patient'
      /\ stage' \in Stages /\ turn' \in 0 .. NumQueues
      /\ EventsOf(task)' = EventsOf(task)
      /\ \A p \in Queues : Count(p)' = Count(p) /\ List(p)' = List(p)
      /\ EmittedOnce'
  BY <1>1, <1>2, TickFrame
<1>4. CASE UNCHANGED <<cache, retired>>
  <2>1. TypeOK'
    BY <1>1, <1>3, <1>4 DEF IInv, TypeOK, controlFrame, pageVars
  <2> QED
    BY <1>1, <1>3, <1>4, <2>1, OrderFrame, BoundaryFrame, PagesFrame, ConservedFrame
    DEF IInv, controlFrame, pageVars
<1>5. CASE Retire(q)
  <2>1. UNCHANGED <<task, fetch, inflight, pending, clock, fault>>
    BY <1>1 DEF controlFrame
  <2>2. /\ InOrder' /\ Credited' /\ BoundaryRespected'
        /\ cache' \in [Queues -> Seq(Nat \ {0})]
        /\ retired' \in [Queues -> Nat] /\ \A p \in Queues : retired'[p] <= Count(p)
        /\ \A p \in Queues, o \in Opcodes :
             Obeyed(p, o)' = IF p = q /\ Front(q).op = o THEN Obeyed(p, o) \cup {retired[q] + 1}
                            ELSE Obeyed(p, o)
    BY <1>1, <1>5, <2>1, RetireKeeps
  <2>3. \A p \in Queues : /\ Obeyed(p, "sync")' = Obeyed(p, "sync")
                          /\ Obeyed(p, "notify")' = Obeyed(p, "notify")
                          /\ Obeyed(p, "wait")' = Obeyed(p, "wait")
    BY <1>1, <2>2 DEF Opcodes
  <2>4. TypeOK'
    BY <1>1, <1>3, <2>2 DEF IInv, TypeOK, controlFrame, pageVars
  <2>5. PagesCounted'
    <3>1. UNCHANGED <<task, remaining, completed, released, visible, tags>>
      BY <1>1 DEF controlFrame, pageVars
    <3> QED
      BY <1>3, <2>3, <3>1 DEF IInv, PagesCounted
  <2>6. Conserved'
    <3>1. Notified' = Notified /\ UNCHANGED <<tokens, barrierEvents, emitted>>
      BY <1>1, <2>3 DEF Notified, controlFrame
    <3> QED
      BY <2>3, <3>1 DEF IInv, Conserved, NotifyConserved
  <2> QED
    BY <1>3, <2>2, <2>4, <2>5, <2>6 DEF IInv
<1> QED
  BY <1>1, <1>4, <1>5

LEMMA IssueInv ==
  ASSUME IInv, NEW q \in Queues, Issue(q)
  PROVE  IInv'
<1>1. /\ Ticking(q) /\ ~Underflow(q) /\ ~Missed(q) /\ ~AtBoundary(q) /\ EndTick(q)
      /\ clock' = [clock EXCEPT ![q] = IF @ < Horizon THEN @ + 1 ELSE @]
      /\ UNCHANGED <<controlFrame, cache, retired, tags, tokens, emitted, fault>>
  BY DEF Issue
<1>2. UNCHANGED controlFrame
  BY <1>1
<1>3. /\ TaskValid' /\ Spaced' /\ Patient'
      /\ stage' \in Stages /\ turn' \in 0 .. NumQueues
      /\ EventsOf(task)' = EventsOf(task)
      /\ \A p \in Queues : Count(p)' = Count(p) /\ List(p)' = List(p)
      /\ EmittedOnce'
  BY <1>1, <1>2, TickFrame
<1>4. clock \in [Queues -> 0 .. Horizon] /\ TypeOK /\ InOrder
  BY DEF IInv, TypeOK
<1>5. /\ clock[q] \in Nat /\ clock'[q] \in 0 .. Horizon /\ clock[q] <= clock'[q]
      /\ clock'[q] <= clock[q] + 1
      /\ \A p \in Queues \ {q} : clock'[p] = clock[p]
  BY <1>1, <1>4, ConstantFacts
<1>6. clock' \in [Queues -> 0 .. Horizon]
  BY <1>1, <1>4, <1>5
<1>7. TypeOK'
  BY <1>1, <1>3, <1>6 DEF IInv, TypeOK, controlFrame, pageVars
<1>8. ASSUME NEW i \in 1 .. Count(q), ~(i <= retired[q])
      PROVE  List(q)[i].cycle \in Nat /\ clock[q] + 1 <= List(q)[i].cycle
  <2>1. /\ retired[q] \in Nat /\ Count(q) \in Nat /\ retired[q] <= Count(q)
        /\ \A j \in 1 .. Count(q) : List(q)[j] \in Record
    BY <1>4, TaskType DEF TypeOK
  <2>2. ~Done(q)
    BY <1>8, <2>1 DEF Done
  <2>3. cache[q] # <<>>
    BY <1>1, <2>2 DEF Underflow
  <2>4. retired[q] + 1 \in 1 .. Count(q) /\ Front(q) = List(q)[retired[q] + 1] /\ Front(q) \in Record
    BY <1>4, <2>3, FrontIsNext
  <2>5. List(q)[retired[q] + 1].cycle <= List(q)[i].cycle
    <3>1. retired[q] + 1 <= i
      BY <1>8, <2>1
    <3> QED
      BY <2>4, <3>1, ListOrdered DEF IInv
  <2>6. ~(Front(q).cycle < clock[q]) /\ Front(q).cycle # clock[q]
    BY <1>1, <2>2, <2>3 DEF Missed, AtBoundary
  <2>7. Front(q).cycle \in Nat /\ List(q)[i].cycle \in Nat
    BY <2>1, <2>4, ConstantFacts DEF Record
  <2> QED
    BY <1>5, <2>4, <2>5, <2>6, <2>7
<1>9. BoundaryRespected'
  <2>1. ASSUME NEW p \in Queues, NEW i \in 1 .. Count(p)
        PROVE  /\ List(p)[i].cycle < clock'[p] => i <= retired[p]
               /\ i <= retired[p] => List(p)[i].cycle <= clock'[p]
    <3>1. /\ List(p)[i].cycle < clock[p] => i <= retired[p]
          /\ i <= retired[p] => List(p)[i].cycle <= clock[p]
      BY DEF IInv, BoundaryRespected
    <3>2. CASE p # q
      BY <1>5, <3>1, <3>2
    <3>3. CASE p = q
      <4>1. List(q)[i].cycle \in Nat
        <5>1. List(q)[i] \in Record
          BY <1>4, <3>3, TaskType
        <5> QED
          BY <5>1, ConstantFacts DEF Record
      <4>2. i <= retired[q] => List(q)[i].cycle <= clock'[q]
        BY <1>5, <3>1, <3>3, <4>1, ConstantFacts
      <4>3. List(q)[i].cycle < clock'[q] => i <= retired[q]
        <5>1. CASE ~(i <= retired[q])
          <6>1. clock[q] + 1 <= List(q)[i].cycle
            BY <1>8, <3>3, <5>1
          <6> QED
            BY <1>5, <4>1, <6>1, ConstantFacts
        <5> QED
          BY <5>1
      <4> QED
        BY <3>3, <4>2, <4>3
    <3> QED
      BY <3>2, <3>3
  <2> QED
    BY <1>1, <1>3, <2>1 DEF BoundaryRespected
<1> QED
  BY <1>1, <1>3, <1>7, <1>9, OrderFrame, PagesFrame, ConservedFrame
  DEF IInv, controlFrame, pageVars

LEMMA TickInv ==
  ASSUME IInv, NEW q \in Queues, Tick(q)
  PROVE  IInv'
  BY RefuseBoundaryInv, ReleaseWaitInv, HoldInv, ReleaseSyncInv, NotifyInv, MovePacketInv, IssueInv
  DEF Tick
----------------------------------------------------------------------------
(* The pool.                                                                *)

Response == [queue : Queues, at : Nat \ {0}, wait : 0 .. ReadLatency]

LEMMA PendingFacts ==
  ASSUME TypeOK
  PROVE  /\ pending \in Seq(Response) /\ Len(pending) \in Nat
         /\ DOMAIN pending = 1 .. Len(pending)
         /\ \A n \in 1 .. Len(pending) :
              pending[n].queue \in Queues /\ pending[n].at \in Nat /\ pending[n].wait \in Nat
<1>1. pending \in Seq(Response)
  BY DEF TypeOK, Response
<1>2. \A n \in 1 .. Len(pending) : pending[n] \in Response
  BY <1>1, ElementOfSeq
<1>3. \A r \in Response : r.queue \in Queues /\ r.at \in Nat /\ r.wait \in Nat
  BY ConstantFacts DEF Response
<1> QED
  BY <1>1, <1>2, <1>3

LEMMA ComingFacts ==
  ASSUME TypeOK, InOrder, NEW q \in Queues
  PROVE  /\ \A n \in 1 .. Len(pending) : pending[n].queue = q =>
              retired[q] + Len(cache[q]) < pending[n].at /\ pending[n].at <= fetch[q]
         /\ \A i \in (retired[q] + Len(cache[q]) + 1) .. fetch[q] :
              \E n \in 1 .. Len(pending) : pending[n].queue = q /\ pending[n].at = i
         /\ inflight[q] = fetch[q] - retired[q] - Len(cache[q])
         /\ inflight[q] \in Nat /\ fetch[q] \in Nat /\ retired[q] \in Nat /\ Len(cache[q]) \in Nat
<1>1. /\ Coming(q) = (retired[q] + Len(cache[q]) + 1) .. fetch[q]
      /\ inflight[q] = fetch[q] - retired[q] - Len(cache[q])
  BY DEF InOrder
<1>2. /\ fetch[q] \in Nat /\ retired[q] \in Nat /\ inflight[q] \in Nat
      /\ cache[q] \in Seq(Nat \ {0})
  BY ConstantFacts DEF TypeOK
<1>3. Len(cache[q]) \in Nat
  BY <1>2
<1>4. DOMAIN pending = 1 .. Len(pending)
  BY PendingFacts
<1>5. \A n \in 1 .. Len(pending) : pending[n].queue = q => pending[n].at \in Coming(q)
  BY <1>4 DEF Coming
<1>6. \A i \in Coming(q) : \E n \in 1 .. Len(pending) : pending[n].queue = q /\ pending[n].at = i
  BY <1>4 DEF Coming
<1>7. ASSUME NEW n \in 1 .. Len(pending), pending[n].queue = q
      PROVE  retired[q] + Len(cache[q]) < pending[n].at /\ pending[n].at <= fetch[q]
  <2>1. pending[n].at \in (retired[q] + Len(cache[q]) + 1) .. fetch[q]
    BY <1>1, <1>5, <1>7
  <2> QED
    BY <1>2, <1>3, <2>1
<1>8. \A i \in (retired[q] + Len(cache[q]) + 1) .. fetch[q] :
        \E n \in 1 .. Len(pending) : pending[n].queue = q /\ pending[n].at = i
  BY <1>1, <1>6
<1> QED
  BY <1>1, <1>2, <1>3, <1>7, <1>8

LEMMA DeliverInv ==
  ASSUME IInv, Deliver
  PROVE  IInv'
<1> DEFINE q == pending[1].queue
           a == pending[1].at
<1>1. TypeOK /\ InOrder /\ Credited /\ Spaced
  BY DEF IInv
<1>2. /\ fault = "none" /\ stage = "begin" /\ pending # <<>> /\ pending' = Tail(pending)
      /\ UNCHANGED <<modeVars, fetch, requesting, waited, cursor, cooldown, queueVars, pageVars>>
  BY DEF Deliver, ResponseReady
<1>3. /\ pending \in Seq(Response) /\ Len(pending) \in Nat \ {0}
      /\ 1 \in 1 .. Len(pending) /\ Head(pending) = pending[1]
      /\ q \in Queues /\ a \in Nat /\ q = pending[1].queue /\ a = pending[1].at
  <2>1. pending \in Seq(Response)
    BY <1>1, PendingFacts
  <2>2. Len(pending) \in Nat \ {0} /\ Head(pending) = pending[1]
    BY <1>2, <2>1
  <2> QED
    BY <1>1, <2>1, <2>2, PendingFacts
<1> HIDE DEF q, a
<1>4. /\ pending' \in Seq(Response) /\ Len(pending') = Len(pending) - 1
      /\ \A n \in 1 .. Len(pending') : pending'[n] = pending[n + 1]
      /\ DOMAIN pending' = 1 .. Len(pending')
  <2>1. pending' \in Seq(Response)
    BY <1>2, <1>3
  <2> QED
    BY <1>2, <1>3, <2>1, HeadTailProperties
<1>5. /\ retired[q] + Len(cache[q]) < a /\ a <= fetch[q]
      /\ inflight[q] = fetch[q] - retired[q] - Len(cache[q])
      /\ inflight[q] \in Nat /\ fetch[q] \in Nat /\ retired[q] \in Nat /\ Len(cache[q]) \in Nat
  BY <1>1, <1>3, ComingFacts
<1>6. inflight[q] >= 1
  BY <1>3, <1>5
<1>7. Len(cache[q]) + inflight[q] <= CacheDepth
  BY <1>1, <1>3 DEF Credited
<1>8. /\ inflight' = [inflight EXCEPT ![q] = @ - 1]
      /\ cache' = [cache EXCEPT ![q] = Append(@, a)]
      /\ fault' = fault
  <2>1. ~(inflight[q] = 0 \/ Len(cache[q]) >= CacheDepth)
    BY <1>5, <1>6, <1>7, ConstantFacts
  <2> QED
    BY <1>3, <2>1 DEF Deliver
<1>9. \A n \in 2 .. Len(pending) : pending[n].queue = q => a < pending[n].at
  <2>1. \A n \in DOMAIN pending : pending[1].queue = pending[n].queue /\ 1 < n => pending[1].at < pending[n].at
    <3>1. 1 \in DOMAIN pending
      BY <1>1, <1>3, PendingFacts
    <3> QED
      BY <1>1, <3>1 DEF InOrder
  <2>2. \A n \in 2 .. Len(pending) : n \in DOMAIN pending /\ 1 < n
    BY <1>1, <1>3, PendingFacts
  <2> QED
    BY <1>3, <2>1, <2>2
<1>10. a = retired[q] + Len(cache[q]) + 1
  <2> SUFFICES ASSUME a # retired[q] + Len(cache[q]) + 1 PROVE FALSE
    OBVIOUS
  <2> DEFINE b == retired[q] + Len(cache[q]) + 1
  <2>1. b < a /\ b \in (retired[q] + Len(cache[q]) + 1) .. fetch[q] /\ b \in Nat
    <3>1. a \in Nat
      BY <1>3
    <3>2. retired[q] + Len(cache[q]) \in Nat
      BY <1>5
    <3> QED
      BY <1>5, <3>1, <3>2
  <2>0. b = retired[q] + Len(cache[q]) + 1
    OBVIOUS
  <2> HIDE DEF b
  <2>2. PICK n \in 1 .. Len(pending) : pending[n].queue = q /\ pending[n].at = b
    <3>1. \A i \in (retired[q] + Len(cache[q]) + 1) .. fetch[q] :
            \E n \in 1 .. Len(pending) : pending[n].queue = q /\ pending[n].at = i
      BY <1>1, <1>3, ComingFacts
    <3> QED
      BY <2>1, <3>1
  <2>3. n # 1
    BY <2>1, <2>2, <1>3
  <2>4. n \in 2 .. Len(pending)
    BY <1>3, <2>3
  <2>5. a < b
    BY <1>9, <2>2, <2>4
  <2> QED
    BY <2>1, <2>5, <1>3, <1>5
<1>11. /\ \A p \in Queues : p # q => cache'[p] = cache[p] /\ inflight'[p] = inflight[p]
       /\ cache'[q] = Append(cache[q], a) /\ inflight'[q] = inflight[q] - 1
       /\ \A p \in Queues : cache[p] \in Seq(Nat \ {0})
  BY <1>1, <1>3, <1>8 DEF TypeOK
<1>12. /\ Len(cache'[q]) = Len(cache[q]) + 1 /\ cache'[q] \in Seq(Nat \ {0})
       /\ \A k \in 1 .. Len(cache[q]) : cache'[q][k] = cache[q][k]
       /\ cache'[q][Len(cache[q]) + 1] = a
  <2>1. cache[q] \in Seq(Nat \ {0}) /\ a \in Nat \ {0}
    BY <1>3, <1>5, <1>11
  <2> HIDE DEF a, q
  <2> QED
    BY <1>11, <2>1
<1>13. TypeOK'
  <2>1. inflight' \in [Queues -> 0 .. CacheDepth]
    <3>1. inflight \in [Queues -> 0 .. CacheDepth]
      BY <1>1 DEF TypeOK
    <3>2. inflight[q] - 1 \in 0 .. CacheDepth
      BY <1>3, <1>5, <1>6, <3>1, ConstantFacts
    <3> QED
      BY <1>8, <3>1, <3>2
  <2>2. cache' \in [Queues -> Seq(Nat \ {0})]
    BY <1>1, <1>8, <1>12, <1>11 DEF TypeOK
  <2>3. pending' \in Seq([queue : Queues, at : Nat \ {0}, wait : 0 .. ReadLatency])
    BY <1>4 DEF Response
  <2> QED
    BY <1>1, <1>2, <1>8, <2>1, <2>2, <2>3
    DEF TypeOK, modeVars, queueVars, pageVars, List, Count, EventsOf
<1>14. \A p \in Queues : Coming(p)' = IF p = q THEN Coming(p) \ {a} ELSE Coming(p)
  <2>1. ASSUME NEW p \in Queues, NEW i
        PROVE  i \in Coming(p)' <=> \E n \in 2 .. Len(pending) : pending[n].queue = p /\ pending[n].at = i
    <3>1. i \in Coming(p)' <=> \E n \in 1 .. Len(pending') : pending'[n].queue = p /\ pending'[n].at = i
      BY <1>4 DEF Coming
    <3>2. ASSUME NEW n \in 1 .. Len(pending'), pending'[n].queue = p, pending'[n].at = i
          PROVE  \E m \in 2 .. Len(pending) : pending[m].queue = p /\ pending[m].at = i
      <4>1. n + 1 \in 2 .. Len(pending)
        BY <1>3, <1>4
      <4>2. pending[n + 1].queue = p /\ pending[n + 1].at = i
        BY <1>4, <3>2
      <4> QED
        BY <4>1, <4>2
    <3>3. ASSUME NEW n \in 2 .. Len(pending), pending[n].queue = p, pending[n].at = i
          PROVE  \E m \in 1 .. Len(pending') : pending'[m].queue = p /\ pending'[m].at = i
      <4>1. n - 1 \in 1 .. Len(pending') /\ (n - 1) + 1 = n
        BY <1>3, <1>4
      <4>2. pending'[n - 1] = pending[n]
        BY <1>4, <4>1
      <4> QED
        BY <3>3, <4>1, <4>2
    <3> QED
      BY <3>1, <3>2, <3>3
  <2>2. ASSUME NEW p \in Queues, NEW i
        PROVE  i \in Coming(p) <=> \E n \in 1 .. Len(pending) : pending[n].queue = p /\ pending[n].at = i
    BY <1>1, PendingFacts DEF Coming
  <2>3. \A n \in 1 .. Len(pending) : n = 1 \/ n \in 2 .. Len(pending)
    BY <1>3
  <2>4. ASSUME NEW p \in Queues, NEW i
        PROVE  i \in Coming(p)' <=> i \in (IF p = q THEN Coming(p) \ {a} ELSE Coming(p))
    <3>0. 2 .. Len(pending) \subseteq 1 .. Len(pending)
      BY <1>3
    <3>1. CASE p # q
      <4>1. i \in Coming(p) <=> \E n \in 2 .. Len(pending) : pending[n].queue = p /\ pending[n].at = i
        BY <1>3, <2>2, <2>3, <3>0, <3>1
      <4> QED
        BY <2>1, <3>1, <4>1
    <3>2. CASE p = q
      <4>1. \A n \in 2 .. Len(pending) : pending[n].queue = q => pending[n].at # a
        <5>1. \A n \in 2 .. Len(pending) : pending[n].at \in Nat
          BY <1>1, <3>0, PendingFacts
        <5>2. a \in Nat
          BY <1>3
        <5> QED
          BY <1>9, <5>1, <5>2
      <4>2. i \in Coming(p) /\ i # a
              <=> \E n \in 2 .. Len(pending) : pending[n].queue = p /\ pending[n].at = i
        <5>1. pending[1].queue = p /\ pending[1].at = a
          BY <1>3, <3>2
        <5>2. i \in Coming(p) <=> \E n \in 1 .. Len(pending) : pending[n].queue = p /\ pending[n].at = i
          BY <2>2
        <5> QED
          BY <2>3, <3>0, <3>2, <4>1, <5>1, <5>2
      <4> QED
        BY <2>1, <3>2, <4>2
    <3> QED
      BY <3>1, <3>2
  <2> QED
    BY <2>4
<1>15. InOrder'
  <2>1. ASSUME NEW p \in Queues
        PROVE  /\ \A k \in 1 .. Len(cache'[p]) : cache'[p][k] = retired[p] + k
               /\ Coming(p)' = (retired[p] + Len(cache'[p]) + 1) .. fetch[p]
               /\ inflight'[p] = fetch[p] - retired[p] - Len(cache'[p])
    <3>0. /\ \A k \in 1 .. Len(cache[p]) : cache[p][k] = retired[p] + k
          /\ Coming(p) = (retired[p] + Len(cache[p]) + 1) .. fetch[p]
          /\ inflight[p] = fetch[p] - retired[p] - Len(cache[p])
      BY <1>1 DEF InOrder
    <3>1. CASE p # q
      BY <1>11, <1>14, <3>0, <3>1
    <3>2. CASE p = q
      <4>1. /\ Len(cache'[p]) = Len(cache[p]) + 1 /\ inflight'[p] = inflight[p] - 1
            /\ \A k \in 1 .. Len(cache[p]) : cache'[p][k] = cache[p][k]
            /\ cache'[p][Len(cache[p]) + 1] = a
        BY <1>11, <1>12, <3>2
      <4>2. /\ a = retired[p] + Len(cache[p]) + 1
            /\ inflight[p] \in Nat /\ fetch[p] \in Nat /\ retired[p] \in Nat /\ Len(cache[p]) \in Nat
        BY <1>5, <1>10, <3>2
      <4>3. \A k \in 1 .. Len(cache'[p]) : k \in 1 .. Len(cache[p]) \/ k = Len(cache[p]) + 1
        BY <4>1, <4>2
      <4>4. \A k \in 1 .. Len(cache'[p]) : cache'[p][k] = retired[p] + k
        <5> SUFFICES ASSUME NEW k \in 1 .. Len(cache'[p]) PROVE cache'[p][k] = retired[p] + k
          OBVIOUS
        <5>1. CASE k \in 1 .. Len(cache[p])
          BY <3>0, <4>1, <5>1
        <5>2. CASE k = Len(cache[p]) + 1
          <6>1. cache'[p][k] = a
            BY <4>1, <5>2
          <6> QED
            BY <4>2, <5>2, <6>1
        <5> QED
          BY <4>3, <5>1, <5>2
      <4>5. Coming(p)' = Coming(p) \ {a}
        BY <1>14, <3>2
      <4>6. Coming(p)' = (retired[p] + Len(cache'[p]) + 1) .. fetch[p]
        <5>1. Len(cache'[p]) = Len(cache[p]) + 1
          BY <4>1
        <5>2. Coming(p) = (retired[p] + Len(cache[p]) + 1) .. fetch[p]
          BY <3>0
        <5> QED
          BY <4>2, <4>5, <5>1, <5>2
      <4>7. inflight'[p] = fetch[p] - retired[p] - Len(cache'[p])
        <5>1. Len(cache'[p]) = Len(cache[p]) + 1 /\ inflight'[p] = inflight[p] - 1
          BY <4>1
        <5>2. inflight[p] = fetch[p] - retired[p] - Len(cache[p])
          BY <3>0
        <5> QED
          BY <4>2, <5>1, <5>2
      <4> QED
        BY <4>4, <4>6, <4>7
    <3> QED
      BY <3>1, <3>2
  <2>2. ASSUME NEW m \in 1 .. Len(pending'), NEW n \in 1 .. Len(pending'),
               pending'[m].queue = pending'[n].queue, m < n
        PROVE  pending'[m].at < pending'[n].at
    <3>1. m + 1 \in 1 .. Len(pending) /\ n + 1 \in 1 .. Len(pending) /\ m + 1 < n + 1
      BY <1>3, <1>4, <2>2
    <3>2. m + 1 \in DOMAIN pending /\ n + 1 \in DOMAIN pending
      BY <1>3, <3>1
    <3>3. pending'[m] = pending[m + 1] /\ pending'[n] = pending[n + 1]
      BY <1>4
    <3>4. pending[m + 1].queue = pending[n + 1].queue
      BY <2>2, <3>3
    <3>5. pending[m + 1].at < pending[n + 1].at
      BY <1>1, <3>1, <3>2, <3>4 DEF InOrder
    <3> QED
      BY <3>3, <3>5
  <2>3. fault' \notin {"lost credit", "pipeline"} /\ fetch' = fetch /\ retired' = retired
    BY <1>2, <1>8 DEF queueVars
  <2> QED
    BY <1>4, <2>1, <2>2, <2>3 DEF InOrder
<1>16. Credited'
  <2>1. ASSUME NEW p \in Queues PROVE Len(cache'[p]) + inflight'[p] <= CacheDepth
    <3>1. CASE p # q
      BY <1>1, <1>11, <3>1 DEF Credited
    <3>2. CASE p = q
      BY <1>5, <1>7, <1>11, <1>12, <3>2, ConstantFacts
    <3> QED
      BY <3>1, <3>2
  <2> QED
    BY <2>1 DEF Credited
<1>17. Spaced'
  <2>1. \A m, n \in 1 .. Len(pending') :
          m <= n => pending'[n].wait >= pending'[m].wait + (n - m) * ReadInterval
    <3> SUFFICES ASSUME NEW m \in 1 .. Len(pending'), NEW n \in 1 .. Len(pending'), m <= n
                 PROVE  pending'[n].wait >= pending'[m].wait + (n - m) * ReadInterval
      OBVIOUS
    <3>1. m + 1 \in 1 .. Len(pending) /\ n + 1 \in 1 .. Len(pending) /\ m + 1 <= n + 1
          /\ (n + 1) - (m + 1) = n - m
      BY <1>3, <1>4
    <3>2. m + 1 \in DOMAIN pending /\ n + 1 \in DOMAIN pending
      BY <1>3, <3>1
    <3>3. pending[n + 1].wait >= pending[m + 1].wait + ((n + 1) - (m + 1)) * ReadInterval
      BY <1>1, <3>1, <3>2 DEF Spaced
    <3> QED
      BY <1>4, <3>1, <3>3
  <2>2. pending' # <<>> => pending'[Len(pending')].wait + ReadInterval <= ReadLatency + cooldown
    <3> SUFFICES ASSUME pending' # <<>>
                 PROVE  pending'[Len(pending')].wait + ReadInterval <= ReadLatency + cooldown
      OBVIOUS
    <3>1. Len(pending') \in 1 .. Len(pending') /\ Len(pending') + 1 = Len(pending)
      BY <1>3, <1>4
    <3>2. pending'[Len(pending')] = pending[Len(pending)]
      BY <1>4, <3>1
    <3> QED
      BY <1>1, <1>2, <3>2 DEF Spaced
  <2> QED
    BY <1>2, <1>4, <2>1, <2>2 DEF Spaced, modeVars
<1> QED
  <2>1. /\ UNCHANGED task /\ UNCHANGED <<requesting, waited, cursor, cooldown>>
        /\ UNCHANGED <<task, retired, clock>>
        /\ UNCHANGED <<task, remaining, completed, visible, released, tags, retired>>
        /\ UNCHANGED <<task, retired, tokens, barrierEvents, emitted>>
        /\ UNCHANGED <<emitted, turn>> /\ stage' = stage
    BY <1>2 DEF modeVars, queueVars, pageVars
  <2> QED
    BY <1>13, <1>15, <1>16, <1>17, <2>1, TaskFrame, PatientFrame, BoundaryFrame, PagesFrame,
       ConservedFrame, EmittedFrame DEF IInv
----------------------------------------------------------------------------
(* The end of a cycle.  First the arithmetic it rests on.                   *)

LEMMA Minimum ==
  ASSUME NEW T, T \subseteq Nat, T # {}
  PROVE  \E x \in T : \A y \in T : x <= y
<1>1. IsWellFoundedOn(OpToRel(<, Nat), Nat)
  BY NatLessThanWellFounded
<1>2. PICK x \in T : \A y \in T : ~ (<<y, x>> \in OpToRel(<, Nat))
  BY <1>1, WFMin
<1>3. \A y \in T : ~(y < x)
  BY <1>2 DEF OpToRel
<1> QED
  BY <1>3

LEMMA Modulo ==
  ASSUME NEW N \in Nat \ {0}, NEW a \in 0 .. N - 1, NEW b \in 0 .. N - 1
  PROVE  (a - b) % N = (IF a >= b THEN a - b ELSE a - b + N)
  OBVIOUS

LEMMA ModuloNext ==
  ASSUME NEW N \in Nat \ {0}, NEW a \in 0 .. N - 1
  PROVE  (a + 1) % N = (IF a + 1 = N THEN 0 ELSE a + 1)
  OBVIOUS

LEMMA Distributes ==
  ASSUME NEW N \in Nat, NEW a \in Int, NEW b \in Int
  PROVE  (a + b) * N = a * N + b * N
  OBVIOUS

LEMMA Increases ==
  ASSUME NEW N \in Nat, NEW a \in Int, NEW b \in Int, a <= b
  PROVE  a * N <= b * N
  OBVIOUS

LEMMA Quotient ==
  ASSUME NEW N \in Nat \ {0}, NEW a \in Nat
  PROVE  (a \div N) * N <= a /\ a < (a \div N) * N + N /\ a \div N \in Nat
  OBVIOUS

LEMMA DistanceIs ==
  ASSUME TypeOK, NEW q \in Queues
  PROVE  /\ Distance(q) = (IF q >= cursor THEN q - cursor ELSE q - cursor + NumQueues)
         /\ Distance(q) \in 0 .. NumQueues - 1
         /\ q \in 0 .. NumQueues - 1 /\ cursor \in 0 .. NumQueues - 1
<1>1. q \in 0 .. NumQueues - 1 /\ cursor \in 0 .. NumQueues - 1
  BY DEF TypeOK, Queues
<1>2. Distance(q) = (IF q >= cursor THEN q - cursor ELSE q - cursor + NumQueues)
  BY <1>1, ConstantFacts, Modulo DEF Distance
<1> QED
  BY <1>1, <1>2, ConstantFacts

(* The port goes to a queue that wants it, and no other is nearer.          *)
LEMMA GrantedFacts ==
  ASSUME TypeOK, PortFree
  PROVE  /\ Granted \in Queues /\ WantsRead(Granted)
         /\ \A p \in Queues : WantsRead(p) => Distance(Granted) <= Distance(p)
<1> DEFINE D == {Distance(q) : q \in {p \in Queues : WantsRead(p)}}
<1>1. D \subseteq Nat
  BY DistanceIs, ConstantFacts
<1>2. D # {}
  BY DEF PortFree
<1>3. PICK d \in D : \A y \in D : d <= y
  BY <1>1, <1>2, Minimum
<1>4. PICK q \in Queues : WantsRead(q) /\ d = Distance(q)
  BY <1>3
<1>5. \A p \in Queues : WantsRead(p) => Distance(q) <= Distance(p)
  BY <1>3, <1>4
<1> QED
  BY <1>4, <1>5 DEF Granted

(* A grant brings the cursor nearer to everyone who goes on waiting.        *)
LEMMA CursorCloser ==
  ASSUME TypeOK, PortFree, NEW q \in Queues, WantsRead(q), q # Granted
  PROVE  /\ (Granted + 1) % NumQueues \in Queues
         /\ (q - ((Granted + 1) % NumQueues)) % NumQueues \in 0 .. Distance(q) - 1
<1> DEFINE c == (Granted + 1) % NumQueues
<1>1. Granted \in 0 .. NumQueues - 1 /\ Distance(Granted) <= Distance(q)
  BY GrantedFacts DEF Queues
<1>2. c = (IF Granted + 1 = NumQueues THEN 0 ELSE Granted + 1)
  BY <1>1, ConstantFacts, ModuloNext
<1>3. c \in 0 .. NumQueues - 1
  BY <1>1, <1>2, ConstantFacts
<1>4. q \in 0 .. NumQueues - 1 /\ cursor \in 0 .. NumQueues - 1
      /\ Distance(q) = (IF q >= cursor THEN q - cursor ELSE q - cursor + NumQueues)
  BY DistanceIs
<1>5. Distance(Granted) = (IF Granted >= cursor THEN Granted - cursor
                           ELSE Granted - cursor + NumQueues)
  BY GrantedFacts, DistanceIs
<1> HIDE DEF c
<1>6. (q - c) % NumQueues = (IF q >= c THEN q - c ELSE q - c + NumQueues)
  BY <1>3, <1>4, ConstantFacts, Modulo
<1>7. (q - c) % NumQueues \in 0 .. Distance(q) - 1
  BY <1>1, <1>2, <1>3, <1>4, <1>5, <1>6, ConstantFacts
<1>8. c \in Queues
  BY <1>3 DEF Queues
<1>9. c = (Granted + 1) % NumQueues
  BY DEF c
<1> QED
  BY <1>7, <1>8, <1>9, Zenon

(* Broadcasts: what is emitted sets out, what arrives becomes a token.      *)
LEMMA AdvanceFacts ==
  ASSUME TypeOK, AdvanceBarrierEvents
  PROVE  /\ emitted' = {} /\ IsFiniteSet(emitted) /\ Cardinality(emitted) \in Nat
         /\ barrierEvents' \in Seq(0 .. BarrierLatency)
         /\ tokens' \in [Queues -> Nat]
         /\ \A q \in Queues : tokens'[q] + Len(barrierEvents')
                                = tokens[q] + Len(barrierEvents) + Cardinality(emitted)
<1> DEFINE n == Cardinality(emitted)
           B == 0 .. BarrierLatency
           out == IF BarrierLatency = 0 THEN <<>> ELSE [k \in 1 .. n |-> BarrierLatency]
<1>1. IsFiniteSet(emitted) /\ n \in Nat
  <2>1. emitted \subseteq 0 .. NumQueues - 1 /\ IsFiniteSet(0 .. NumQueues - 1)
    BY ConstantFacts, FS_Interval DEF TypeOK, Queues
  <2> QED
    BY <2>1, FS_Subset, FS_CardinalityType
<1>2. barrierEvents \in Seq(B) /\ Len(barrierEvents) \in Nat
      /\ DOMAIN barrierEvents = 1 .. Len(barrierEvents)
  BY DEF TypeOK
<1>3. Approach \in Seq(B) /\ Len(Approach) = Len(barrierEvents)
  <2>1. \A k \in 1 .. Len(barrierEvents) : barrierEvents[k] \in B
    BY <1>2, ElementOfSeq
  <2>2. \A k \in 1 .. Len(barrierEvents) : Closer(barrierEvents[k]) \in B
    BY <2>1, ConstantFacts DEF Closer
  <2>3. Approach \in [1 .. Len(barrierEvents) -> B]
    BY <1>2, <2>2 DEF Approach
  <2> HIDE DEF B
  <2> QED
    BY <1>2, <2>3
<1>4. Arrived \in 0 .. Len(Approach)
  <2> DEFINE A == {k \in DOMAIN Approach : \A j \in 1 .. k : Approach[j] = 0}
  <2>1. DOMAIN Approach = 1 .. Len(Approach) /\ Len(Approach) \in Nat
    BY <1>2, <1>3
  <2>2. A \subseteq 1 .. Len(Approach)
    BY <2>1
  <2>4. IsFiniteSet(1 .. Len(Approach)) /\ Cardinality(1 .. Len(Approach)) = Len(Approach)
    <3>1. 1 \in Int /\ Len(Approach) \in Int
      BY <2>1
    <3>2. /\ IsFiniteSet(1 .. Len(Approach))
          /\ Cardinality(1 .. Len(Approach)) = (IF 1 > Len(Approach) THEN 0 ELSE Len(Approach) - 1 + 1)
      BY <3>1, FS_Interval
    <3> QED
      BY <2>1, <3>2
  <2> HIDE DEF A
  <2>3. IsFiniteSet(A) /\ Cardinality(A) <= Len(Approach) /\ Cardinality(A) \in Nat
    BY <2>2, <2>4, FS_Subset, FS_CardinalityType
  <2> QED
    BY <2>1, <2>3 DEF Arrived, A
<1> DEFINE left == SubSeq(Approach, Arrived + 1, Len(Approach))
<1>5. left \in Seq(B) /\ Len(left) = Len(barrierEvents) - Arrived
  <2>1. \A i \in (Arrived + 1) .. Len(Approach) : Approach[i] \in B
    <3>1. \A i \in 1 .. Len(Approach) : Approach[i] \in B
      BY <1>3, ElementOfSeq
    <3> HIDE DEF B
    <3> QED
      BY <1>2, <1>3, <1>4, <3>1
  <2>2. Arrived + 1 \in Int /\ Len(Approach) \in Int
    BY <1>2, <1>3, <1>4
  <2> HIDE DEF B
  <2>3. left \in Seq(B) /\ Len(left) = (IF Arrived + 1 <= Len(Approach)
                                       THEN Len(Approach) - (Arrived + 1) + 1 ELSE 0)
    BY <2>1, <2>2, SubSeqProperties
  <2> HIDE DEF left
  <2>4. Len(Approach) = Len(barrierEvents) /\ Len(barrierEvents) \in Nat
        /\ Arrived \in 0 .. Len(Approach)
    BY <1>2, <1>3, <1>4
  <2>5. Len(left) = Len(barrierEvents) - Arrived
    BY <2>3, <2>4
  <2> QED
    BY <2>3, <2>5
<1>6. out \in Seq(B) /\ Len(out) = (IF BarrierLatency = 0 THEN 0 ELSE n)
  <2>1. CASE BarrierLatency = 0
    BY <2>1
  <2>2. CASE BarrierLatency # 0
    <3>1. BarrierLatency \in B
      BY ConstantFacts
    <3>2. [k \in 1 .. n |-> BarrierLatency] \in [1 .. n -> B]
      BY <3>1
    <3> HIDE DEF B, n
    <3> QED
      BY <1>1, <2>2, <3>2
  <2> QED
    BY <2>1, <2>2
<1>7. /\ barrierEvents' = left \o out /\ emitted' = {}
      /\ tokens' = [q \in Queues |-> tokens[q] + Arrived + (IF BarrierLatency = 0 THEN n ELSE 0)]
  BY DEF AdvanceBarrierEvents
<1> HIDE DEF left, out, B, n
<1>8. barrierEvents' \in Seq(B) /\ Len(barrierEvents') = Len(left) + Len(out)
  BY <1>5, <1>6, <1>7, ConcatProperties
<1>9. \A q \in Queues : tokens[q] \in Nat
  BY DEF TypeOK
<1>10. tokens' \in [Queues -> Nat]
  BY <1>1, <1>2, <1>3, <1>4, <1>7, <1>9
<1>11. ASSUME NEW q \in Queues
       PROVE  tokens'[q] + Len(barrierEvents') = tokens[q] + Len(barrierEvents) + n
  <2>1. tokens'[q] = tokens[q] + Arrived + (IF BarrierLatency = 0 THEN n ELSE 0)
    BY <1>7
  <2>2. Arrived \in Nat /\ tokens[q] \in Nat /\ Len(barrierEvents) \in Nat
    BY <1>2, <1>3, <1>4, <1>9
  <2>3. Len(barrierEvents') = Len(barrierEvents) - Arrived + (IF BarrierLatency = 0 THEN 0 ELSE n)
    BY <1>5, <1>6, <1>8
  <2> QED
    BY <1>1, <2>1, <2>2, <2>3
<1> QED
  BY <1>1, <1>7, <1>8, <1>10, <1>11 DEF n, B

(* The responses after a grant, before they age.                            *)
Requested ==
  IF PortFree
  THEN Append(pending, [queue |-> Granted, at |-> fetch[Granted] + 1, wait |-> ReadLatency])
  ELSE pending

LEMMA RequestedFacts ==
  ASSUME TypeOK
  PROVE  /\ Requested \in Seq(Response) /\ DOMAIN Requested = 1 .. Len(Requested)
         /\ Len(Requested) = (IF PortFree THEN Len(pending) + 1 ELSE Len(pending))
         /\ \A n \in 1 .. Len(pending) : Requested[n] = pending[n]
         /\ PortFree => /\ Requested[Len(pending) + 1].queue = Granted
                        /\ Requested[Len(pending) + 1].at = fetch[Granted] + 1
                        /\ Requested[Len(pending) + 1].wait = ReadLatency
<1>1. pending \in Seq(Response) /\ Len(pending) \in Nat
  BY PendingFacts
<1>2. CASE PortFree
  <2> DEFINE r == [queue |-> Granted, at |-> fetch[Granted] + 1, wait |-> ReadLatency]
  <2>1. Granted \in Queues /\ fetch[Granted] \in Nat
    BY <1>2, GrantedFacts DEF TypeOK
  <2>2. r \in Response
    BY <2>1, ConstantFacts DEF Response
  <2>3. Requested = Append(pending, r)
    BY <1>2 DEF Requested
  <2>4. r.queue = Granted /\ r.at = fetch[Granted] + 1 /\ r.wait = ReadLatency
    OBVIOUS
  <2> HIDE DEF r
  <2> QED
    BY <1>1, <1>2, <2>2, <2>3, <2>4
<1>3. CASE ~PortFree
  BY <1>1, <1>3 DEF Requested
<1> QED
  BY <1>2, <1>3

(* The pipeline of the RAM has room for a request whenever the port is free. *)
LEMMA PipelineHasRoom ==
  ASSUME TypeOK, Spaced, stage = "end", PortFree
  PROVE  Len(pending) < PipelineDepth
<1> DEFINE L == Len(pending)
<1>1. L \in Nat /\ DOMAIN pending = 1 .. L
  BY PendingFacts
<1>2. ReadLatency \in Nat \ {0} /\ ReadInterval \in Nat \ {0} /\ PipelineDepth \in Nat
      /\ ReadLatency <= PipelineDepth * ReadInterval
  <2>1. ReadLatency \in Nat \ {0} /\ ReadInterval \in Nat \ {0}
    BY ConstantFacts
  <2>2. ReadLatency + ReadInterval - 1 \in Nat
    BY <2>1
  <2>3. /\ PipelineDepth \in Nat
        /\ ReadLatency + ReadInterval - 1 < PipelineDepth * ReadInterval + ReadInterval
    BY <2>1, <2>2, Quotient DEF PipelineDepth
  <2>4. PipelineDepth * ReadInterval \in Nat
    BY <2>1, <2>3
  <2> QED
    BY <2>1, <2>3, <2>4
<1>3. CASE L = 0
  <2>1. PipelineDepth # 0
    <3> SUFFICES ASSUME PipelineDepth = 0 PROVE FALSE
      OBVIOUS
    <3>1. PipelineDepth * ReadInterval = 0
      BY <1>2
    <3> QED
      BY <1>2, <3>1
  <2> QED
    BY <1>2, <1>3, <2>1
<1>4. CASE L # 0
  <2>1. pending # <<>> /\ 1 \in 1 .. L /\ L \in 1 .. L
    BY <1>1, <1>4
  <2>2. pending[1].wait \in Nat /\ pending[L].wait \in Nat
    BY <2>1, PendingFacts
  <2>3. pending[1].wait > 0 /\ pending[L].wait + ReadInterval <= ReadLatency + cooldown
        /\ cooldown = 0
    BY <2>1 DEF Spaced, PortFree
  <2>4. pending[L].wait >= pending[1].wait + (L - 1) * ReadInterval
    BY <1>1, <2>1 DEF Spaced
  <2>5. (L - 1) * ReadInterval + ReadInterval = L * ReadInterval
    <3>1. ReadInterval \in Nat /\ L - 1 \in Int /\ 1 \in Int /\ (L - 1) + 1 = L
      BY <1>1, <1>2
    <3>2. ((L - 1) + 1) * ReadInterval = (L - 1) * ReadInterval + 1 * ReadInterval
      BY <3>1, Distributes
    <3> QED
      BY <3>1, <3>2
  <2>6. L * ReadInterval \in Int /\ (L - 1) * ReadInterval \in Int
    BY <1>1, <1>2
  <2>7. L * ReadInterval < ReadLatency
    <3> HIDE DEF L
    <3> QED
      BY <1>2, <2>2, <2>3, <2>4, <2>5, <2>6
  <2>8. L * ReadInterval < PipelineDepth * ReadInterval
    <3>1. PipelineDepth * ReadInterval \in Int
      BY <1>2
    <3> QED
      BY <1>2, <2>6, <2>7, <3>1
  <2> SUFFICES ASSUME PipelineDepth <= L PROVE FALSE
    BY <1>1, <1>2
  <2>9. PipelineDepth * ReadInterval <= L * ReadInterval
    BY <1>1, <1>2, Increases
  <2>10. PipelineDepth * ReadInterval \in Int
    BY <1>2
  <2> QED
    BY <2>6, <2>8, <2>9, <2>10
<1> QED
  BY <1>3, <1>4

(* What end_cycle() does.                                                   *)
LEMMA EndCycleFacts ==
  ASSUME IInv, EndCycle
  PROVE  /\ stage = "end" /\ stage' = "idle" /\ fault = "none" /\ AdvanceBarrierEvents
         /\ UNCHANGED <<task, running, issue, turn, pageVars, cache, retired, clock, tags, fault>>
         /\ requesting' = {q \in Queues : WantsRead(q) /\ ~(PortFree /\ q = Granted)}
         /\ waited' = [q \in Queues |->
              IF q \in requesting' THEN (IF q \in requesting THEN waited[q] ELSE 0) + 1 ELSE 0]
         /\ fetch' = [q \in Queues |-> IF PortFree /\ q = Granted THEN fetch[q] + 1 ELSE fetch[q]]
         /\ inflight' = [q \in Queues |->
              IF PortFree /\ q = Granted THEN inflight[q] + 1 ELSE inflight[q]]
         /\ pending' = Aged(Requested)
         /\ cursor' = (IF PortFree THEN (Granted + 1) % NumQueues ELSE cursor)
         /\ cooldown' = Closer(IF PortFree THEN ReadInterval ELSE cooldown)
<1> DEFINE want == {q \in Queues : WantsRead(q)}
           grant == IF PortFree THEN {Granted} ELSE {}
<1>1. stage = "end" /\ fault = "none"
  BY DEF EndCycle
<1>2. ~(PortFree /\ Len(pending) >= PipelineDepth)
  <2>1. PortFree => Len(pending) < PipelineDepth
    BY <1>1, PipelineHasRoom DEF IInv
  <2>2. Len(pending) \in Nat
    BY PendingFacts DEF IInv
  <2>3. PipelineDepth \in Int
    <3>1. ReadLatency + ReadInterval - 1 \in Nat /\ ReadInterval \in Nat \ {0}
      BY ConstantFacts
    <3> QED
      BY <3>1, Quotient DEF PipelineDepth
  <2> QED
    BY <2>1, <2>2, <2>3
<1>3. /\ requesting' = want \ grant
      /\ waited' = [q \in Queues |->
           IF q \in want \ grant THEN (IF q \in requesting THEN waited[q] ELSE 0) + 1 ELSE 0]
      /\ fetch' = [q \in Queues |-> IF q \in grant THEN fetch[q] + 1 ELSE fetch[q]]
      /\ inflight' = [q \in Queues |-> IF q \in grant THEN inflight[q] + 1 ELSE inflight[q]]
      /\ pending' = Aged(Requested)
      /\ cursor' = (IF PortFree THEN (Granted + 1) % NumQueues ELSE cursor)
      /\ cooldown' = Closer(IF PortFree THEN ReadInterval ELSE cooldown)
      /\ stage' = "idle" /\ AdvanceBarrierEvents
      /\ UNCHANGED <<cache, retired, clock, tags, fault>>
      /\ UNCHANGED <<task, running, issue, turn, pageVars>>
  BY <1>2, Zenon DEF EndCycle, Requested
<1>4. \A q : q \in grant <=> PortFree /\ q = Granted
  OBVIOUS
<1>5. requesting' = {q \in Queues : WantsRead(q) /\ ~(PortFree /\ q = Granted)}
  BY <1>3, <1>4
<1> HIDE DEF want, grant
<1> QED
  BY <1>1, <1>3, <1>4, <1>5

(* Time passes for the responses and the port.                              *)
LEMMA RequestedSpaced ==
  ASSUME TypeOK, Spaced, stage = "end"
  PROVE  /\ \A n \in 1 .. Len(Requested) : Requested[n].wait \in Nat /\ Requested[n].wait > 0
         /\ \A m, n \in 1 .. Len(Requested) :
              m <= n => Requested[n].wait >= Requested[m].wait + (n - m) * ReadInterval
         /\ Len(Requested) # 0 =>
              Requested[Len(Requested)].wait + ReadInterval
                <= ReadLatency + (IF PortFree THEN ReadInterval ELSE cooldown)
<1> DEFINE L == Len(pending)
<1>1. /\ L \in Nat /\ DOMAIN pending = 1 .. L
      /\ \A n \in 1 .. L : pending[n].wait \in Nat
  BY PendingFacts
<1>2. ReadLatency \in Nat \ {0} /\ ReadInterval \in Nat \ {0}
  BY ConstantFacts
<1>3. \A m, n \in 1 .. L : m <= n => pending[n].wait >= pending[m].wait + (n - m) * ReadInterval
  BY <1>1 DEF Spaced
<1>4. L # 0 => /\ pending[L].wait + ReadInterval <= ReadLatency + cooldown
               /\ pending[1].wait > 0
  <2>1. L # 0 => pending # <<>>
    BY PendingFacts
  <2> QED
    BY <2>1 DEF Spaced
<1>5. /\ Len(Requested) = (IF PortFree THEN L + 1 ELSE L)
      /\ \A n \in 1 .. L : Requested[n] = pending[n]
      /\ PortFree => Requested[L + 1].wait = ReadLatency
  BY RequestedFacts
<1>6. PortFree => cooldown = 0
  BY DEF PortFree
<1>7. ASSUME NEW m \in Int, NEW n \in Int, m <= n
      PROVE  (n - m) * ReadInterval \in Nat
  <2>1. n - m \in Nat
    BY <1>7
  <2> QED
    BY <1>2, <2>1
<1> HIDE DEF L
<1>8. ASSUME NEW n \in 1 .. L
      PROVE  pending[n].wait \in Nat /\ pending[n].wait > 0
  <2>1. 1 \in 1 .. L /\ 1 <= n /\ L # 0
    BY <1>1
  <2>2. pending[n].wait >= pending[1].wait + (n - 1) * ReadInterval
    BY <1>3, <2>1
  <2>3. (n - 1) * ReadInterval \in Nat
    BY <1>7, <2>1
  <2>4. pending[n].wait \in Nat /\ pending[1].wait \in Nat /\ pending[1].wait > 0
    BY <1>1, <1>4, <2>1
  <2> QED
    BY <2>2, <2>3, <2>4
<1>9. ASSUME NEW n \in 1 .. L, PortFree
      PROVE  ReadLatency >= pending[n].wait + (L + 1 - n) * ReadInterval
  <2>1. L \in 1 .. L /\ n <= L /\ L # 0
    BY <1>1
  <2>2. pending[L].wait >= pending[n].wait + (L - n) * ReadInterval
    BY <1>3, <2>1
  <2>3. (L + 1 - n) * ReadInterval = (L - n) * ReadInterval + ReadInterval
    <3>1. L - n \in Int /\ 1 \in Int /\ ReadInterval \in Nat /\ (L - n) + 1 = L + 1 - n
      BY <1>1, <1>2
    <3>2. ((L - n) + 1) * ReadInterval = (L - n) * ReadInterval + 1 * ReadInterval
      BY <3>1, Distributes
    <3> QED
      BY <3>1, <3>2
  <2>4. (L - n) * ReadInterval \in Nat
    BY <1>1, <1>7, <2>1
  <2>5. pending[L].wait + ReadInterval <= ReadLatency
    BY <1>4, <1>6, <1>9, <1>2, <2>1
  <2>6. pending[L].wait \in Nat /\ pending[n].wait \in Nat
    BY <1>1, <2>1
  <2> QED
    BY <1>2, <2>2, <2>3, <2>4, <2>5, <2>6
<1>10. CASE PortFree
  <2>1. Len(Requested) = L + 1 /\ Requested[L + 1].wait = ReadLatency /\ cooldown = 0
    BY <1>5, <1>6, <1>10
  <2>2. \A n \in 1 .. (L + 1) : n \in 1 .. L \/ n = L + 1
    BY <1>1
  <2>3. \A n \in 1 .. (L + 1) : Requested[n].wait \in Nat /\ Requested[n].wait > 0
    <3> SUFFICES ASSUME NEW n \in 1 .. (L + 1)
                 PROVE  Requested[n].wait \in Nat /\ Requested[n].wait > 0
      OBVIOUS
    <3>1. CASE n \in 1 .. L
      BY <1>5, <1>8, <3>1
    <3>2. CASE n = L + 1
      BY <1>2, <2>1, <3>2
    <3> QED
      BY <2>2, <3>1, <3>2
  <2>4. ASSUME NEW m \in 1 .. (L + 1), NEW n \in 1 .. (L + 1), m <= n
        PROVE  Requested[n].wait >= Requested[m].wait + (n - m) * ReadInterval
    <3>1. CASE m = n
      <4>1. n - m = 0 /\ 0 * ReadInterval = 0
        BY <1>2, <2>4, <3>1
      <4>2. Requested[n].wait \in Nat
        BY <2>3
      <4> QED
        BY <3>1, <4>1, <4>2
    <3>2. CASE m < n /\ n = L + 1
      <4>1. m \in 1 .. L
        BY <1>1, <3>2
      <4>2. ReadLatency >= pending[m].wait + (L + 1 - m) * ReadInterval
        BY <1>9, <1>10, <4>1
      <4>3. Requested[m] = pending[m] /\ Requested[n].wait = ReadLatency
        BY <1>5, <2>1, <3>2, <4>1
      <4>4. n - m = L + 1 - m
        BY <1>1, <3>2
      <4> QED
        BY <4>2, <4>3, <4>4
    <3>3. CASE m < n /\ n \in 1 .. L
      <4>1. m \in 1 .. L
        BY <1>1, <3>3
      <4>2. pending[n].wait >= pending[m].wait + (n - m) * ReadInterval
        BY <1>3, <2>4, <3>3, <4>1
      <4> QED
        BY <1>5, <3>3, <4>1, <4>2
    <3> QED
      BY <1>1, <2>2, <2>4, <3>1, <3>2, <3>3
  <2> QED
    BY <1>2, <1>10, <2>1, <2>3, <2>4
<1>11. CASE ~PortFree
  <2>1. Len(Requested) = L /\ \A n \in 1 .. L : Requested[n] = pending[n]
    BY <1>5, <1>11
  <2>2. L # 0 => L \in 1 .. L
    BY <1>1
  <2>3. \A n \in 1 .. L : Requested[n].wait \in Nat /\ Requested[n].wait > 0
    BY <1>8, <2>1
  <2>4. \A m, n \in 1 .. L : m <= n => Requested[n].wait >= Requested[m].wait + (n - m) * ReadInterval
    BY <1>3, <2>1
  <2>5. L # 0 => Requested[L].wait + ReadInterval <= ReadLatency + cooldown
    BY <1>4, <2>1, <2>2
  <2> QED
    BY <1>11, <2>1, <2>3, <2>4, <2>5
<1> QED
  BY <1>10, <1>11

LEMMA AgedFacts ==
  ASSUME IInv, EndCycle
  PROVE  /\ pending' \in Seq(Response) /\ Len(pending') = Len(Requested)
         /\ DOMAIN pending' = 1 .. Len(Requested)
         /\ \A n \in 1 .. Len(Requested) :
              /\ pending'[n].queue = Requested[n].queue /\ pending'[n].at = Requested[n].at
              /\ pending'[n].wait = Requested[n].wait - 1
<1>1. Requested \in Seq(Response) /\ DOMAIN Requested = 1 .. Len(Requested)
      /\ Len(Requested) \in Nat
  <2>1. Requested \in Seq(Response) /\ DOMAIN Requested = 1 .. Len(Requested)
    BY RequestedFacts DEF IInv
  <2>2. Len(Requested) \in Nat
    BY <2>1, LenProperties
  <2> QED
    BY <2>1, <2>2
<1>2. pending' = [k \in 1 .. Len(Requested) |-> [Requested[k] EXCEPT !.wait = Closer(@)]]
  BY <1>1, EndCycleFacts DEF Aged
<1>3. \A n \in 1 .. Len(Requested) : Requested[n].wait \in Nat /\ Requested[n].wait > 0
  BY EndCycleFacts, RequestedSpaced DEF IInv
<1>4. ASSUME NEW n \in 1 .. Len(Requested)
      PROVE  /\ pending'[n] \in Response
             /\ pending'[n].queue = Requested[n].queue /\ pending'[n].at = Requested[n].at
             /\ pending'[n].wait = Requested[n].wait - 1
  <2>1. Requested[n] \in Response
    BY <1>1, ElementOfSeq
  <2>2. Requested[n].wait \in 0 .. ReadLatency /\ Requested[n].wait > 0
    BY <1>3, <2>1 DEF Response
  <2>3. Closer(Requested[n].wait) = Requested[n].wait - 1
        /\ Requested[n].wait - 1 \in 0 .. ReadLatency
    BY <2>2, ConstantFacts DEF Closer
  <2>4. pending'[n] = [Requested[n] EXCEPT !.wait = Closer(@)]
    BY <1>2
  <2> QED
    BY <2>1, <2>3, <2>4 DEF Response
<1>5. pending' \in [1 .. Len(Requested) -> Response]
  BY <1>2, <1>4
<1>6. pending' \in Seq(Response) /\ Len(pending') = Len(Requested)
  BY <1>1, <1>5
<1> QED
  BY <1>2, <1>4, <1>6

LEMMA EndCycleSpaced ==
  ASSUME IInv, EndCycle
  PROVE  Spaced'
<1> DEFINE L == Len(Requested)
<1>1. L \in Nat
  <2>1. Requested \in Seq(Response)
    BY RequestedFacts DEF IInv
  <2> QED
    BY <2>1, LenProperties
<1>2. /\ DOMAIN pending' = 1 .. L /\ Len(pending') = L /\ pending' \in Seq(Response)
      /\ \A n \in 1 .. L : pending'[n].wait = Requested[n].wait - 1
  BY AgedFacts
<1>3. /\ \A n \in 1 .. L : Requested[n].wait \in Nat /\ Requested[n].wait > 0
      /\ \A m, n \in 1 .. L :
           m <= n => Requested[n].wait >= Requested[m].wait + (n - m) * ReadInterval
      /\ L # 0 => Requested[L].wait + ReadInterval
                    <= ReadLatency + (IF PortFree THEN ReadInterval ELSE cooldown)
  BY EndCycleFacts, RequestedSpaced DEF IInv
<1> HIDE DEF L
<1>4. ASSUME NEW m \in 1 .. L, NEW n \in 1 .. L, m <= n
      PROVE  pending'[n].wait >= pending'[m].wait + (n - m) * ReadInterval
  <2>1. Requested[n].wait >= Requested[m].wait + (n - m) * ReadInterval
    BY <1>3, <1>4
  <2>2. (n - m) * ReadInterval \in Int
    BY ConstantFacts
  <2>3. Requested[n].wait \in Nat /\ Requested[m].wait \in Nat
    BY <1>3
  <2>4. pending'[n].wait = Requested[n].wait - 1 /\ pending'[m].wait = Requested[m].wait - 1
    BY <1>2
  <2> QED
    BY <2>1, <2>2, <2>3, <2>4
<1>5. ASSUME L # 0
      PROVE  pending'[L].wait + ReadInterval <= ReadLatency + cooldown'
  <2>1. L \in 1 .. L
    BY <1>1, <1>5
  <2>2. pending'[L].wait = Requested[L].wait - 1 /\ Requested[L].wait \in Nat
    BY <1>2, <1>3, <2>1
  <2>3. Requested[L].wait + ReadInterval
          <= ReadLatency + (IF PortFree THEN ReadInterval ELSE cooldown)
    BY <1>3, <1>5
  <2>4. cooldown' = Closer(IF PortFree THEN ReadInterval ELSE cooldown)
    BY EndCycleFacts
  <2>5. cooldown \in Nat
    BY ConstantFacts DEF IInv, TypeOK
  <2>6. cooldown' >= (IF PortFree THEN ReadInterval ELSE cooldown) - 1 /\ cooldown' \in Nat
    BY <2>4, <2>5, ConstantFacts DEF Closer
  <2> QED
    BY <2>2, <2>3, <2>5, <2>6, ConstantFacts
<1>6. stage' = "idle"
  BY EndCycleFacts
<1>7. pending' # <<>> => L # 0
  BY <1>2
<1> QED
  BY <1>2, <1>4, <1>5, <1>6, <1>7 DEF Spaced

LEMMA EndCyclePatient ==
  ASSUME IInv, EndCycle
  PROVE  Patient'
<1>1. TypeOK /\ Patient
  BY DEF IInv
<1>2. /\ requesting' = {q \in Queues : WantsRead(q) /\ ~(PortFree /\ q = Granted)}
      /\ waited' = [q \in Queues |->
           IF q \in requesting' THEN (IF q \in requesting THEN waited[q] ELSE 0) + 1 ELSE 0]
      /\ cursor' = (IF PortFree THEN (Granted + 1) % NumQueues ELSE cursor)
      /\ cooldown' = Closer(IF PortFree THEN ReadInterval ELSE cooldown)
  BY EndCycleFacts
<1>3. NumQueues \in Nat \ {0} /\ ReadInterval \in Nat \ {0} /\ cooldown \in Nat
      /\ cooldown < ReadInterval
  BY <1>1, ConstantFacts DEF TypeOK, Patient
<1>4. cooldown' < ReadInterval
  BY <1>2, <1>3 DEF Closer
<1>5. ASSUME NEW q \in requesting'
      PROVE  waited'[q] + Distance(q)' * ReadInterval + cooldown' < NumQueues * ReadInterval
  <2>1. q \in Queues /\ WantsRead(q) /\ ~(PortFree /\ q = Granted)
    BY <1>2
  <2> DEFINE d == Distance(q)
             w == IF q \in requesting THEN waited[q] ELSE 0
  <2>2. d \in Nat /\ d <= NumQueues - 1
    BY <1>1, <1>3, <2>1, DistanceIs
  <2>3. w \in Nat /\ waited'[q] = w + 1
    BY <1>1, <1>2, <2>1 DEF TypeOK
  <2>4. NumQueues * ReadInterval \in Nat /\ d * ReadInterval \in Nat
    BY <1>3, <2>2
  <2>5. d * ReadInterval + ReadInterval <= NumQueues * ReadInterval
    <3> HIDE DEF d
    <3>1. d * ReadInterval <= (NumQueues - 1) * ReadInterval
      BY <1>3, <2>2, Increases
    <3>2. ((NumQueues - 1) + 1) * ReadInterval = (NumQueues - 1) * ReadInterval + 1 * ReadInterval
      BY <1>3, Distributes
    <3>3. (NumQueues - 1) + 1 = NumQueues /\ (NumQueues - 1) * ReadInterval \in Int
      BY <1>3
    <3> QED
      BY <1>3, <2>4, <3>1, <3>2, <3>3
  <2>6. w + d * ReadInterval + cooldown < NumQueues * ReadInterval
    <3>1. CASE q \in requesting
      BY <1>1, <3>1 DEF Patient
    <3>2. CASE q \notin requesting
      <4>1. w = 0
        BY <3>2
      <4> HIDE DEF w, d
      <4> QED
        BY <1>3, <2>4, <2>5, <4>1
    <3> QED
      BY <3>1, <3>2
  <2>7. CASE PortFree
    <3> DEFINE e == Distance(q)'
    <3>1. e \in 0 .. d - 1
      BY <1>1, <1>2, <2>1, <2>7, CursorCloser DEF Distance
    <3>2. cooldown = 0 /\ cooldown' = ReadInterval - 1
      BY <1>2, <1>3, <2>7 DEF PortFree, Closer
    <3> HIDE DEF d, w, e
    <3>3. e \in Int /\ e + 1 <= d
      BY <2>2, <3>1
    <3>4. (e + 1) * ReadInterval <= d * ReadInterval
      BY <1>3, <2>2, <3>3, Increases
    <3>5. (e + 1) * ReadInterval = e * ReadInterval + 1 * ReadInterval
      BY <1>3, <3>3, Distributes
    <3>6. e * ReadInterval \in Int
      BY <1>3, <3>3
    <3>7. waited'[q] + e * ReadInterval + cooldown' < NumQueues * ReadInterval
      BY <1>3, <2>3, <2>4, <2>6, <3>2, <3>4, <3>5, <3>6
    <3> QED
      BY <3>7 DEF e
  <2>8. CASE ~PortFree
    <3>1. cooldown # 0
      BY <2>1, <2>8 DEF PortFree
    <3>2. cooldown' = cooldown - 1
      BY <1>2, <2>8, <3>1 DEF Closer
    <3>3. Distance(q)' = d
      BY <1>2, <2>8 DEF Distance
    <3> HIDE DEF d, w
    <3> QED
      BY <1>3, <2>3, <2>4, <2>6, <3>2, <3>3
  <2> QED
    BY <2>7, <2>8
<1> QED
  BY <1>4, <1>5 DEF Patient

LEMMA EndCycleOrder ==
  ASSUME IInv, EndCycle
  PROVE  InOrder' /\ Credited'
<1> DEFINE L == Len(pending)
           M == Len(Requested)
<1>1. TypeOK /\ InOrder /\ Credited
  BY DEF IInv
<1>2. /\ UNCHANGED <<cache, retired>> /\ fault = "none" /\ fault' = fault
      /\ fetch' = [q \in Queues |-> IF PortFree /\ q = Granted THEN fetch[q] + 1 ELSE fetch[q]]
      /\ inflight' = [q \in Queues |->
           IF PortFree /\ q = Granted THEN inflight[q] + 1 ELSE inflight[q]]
  BY EndCycleFacts
<1>3. /\ DOMAIN pending' = 1 .. M
      /\ \A n \in 1 .. M : pending'[n].queue = Requested[n].queue /\ pending'[n].at = Requested[n].at
  BY AgedFacts
<1>4. /\ M = (IF PortFree THEN L + 1 ELSE L) /\ L \in Nat
      /\ \A n \in 1 .. L : Requested[n] = pending[n]
      /\ PortFree => Requested[L + 1].queue = Granted /\ Requested[L + 1].at = fetch[Granted] + 1
  BY <1>1, RequestedFacts, PendingFacts
<1>5. DOMAIN pending = 1 .. L
  BY <1>1, PendingFacts
<1> HIDE DEF L, M
<1>6. ASSUME NEW p \in Queues
      PROVE  Coming(p)' = IF PortFree /\ p = Granted THEN Coming(p) \cup {fetch[p] + 1} ELSE Coming(p)
  <2>1. ASSUME NEW i
        PROVE  i \in Coming(p)' <=> \E n \in 1 .. M : Requested[n].queue = p /\ Requested[n].at = i
    BY <1>3 DEF Coming
  <2>2. ASSUME NEW i
        PROVE  i \in Coming(p) <=> \E n \in 1 .. L : Requested[n].queue = p /\ Requested[n].at = i
    BY <1>4, <1>5 DEF Coming
  <2>3. CASE PortFree
    <3>1. M = L + 1 /\ Requested[L + 1].queue = Granted /\ Requested[L + 1].at = fetch[Granted] + 1
      BY <1>4, <2>3
    <3>2. /\ \A n \in 1 .. M : n \in 1 .. L \/ n = L + 1
          /\ 1 .. L \subseteq 1 .. M /\ L + 1 \in 1 .. M
      BY <1>4, <3>1
    <3>3. ASSUME NEW i
          PROVE  i \in Coming(p)' <=> i \in Coming(p) \/ (p = Granted /\ i = fetch[p] + 1)
      <4>1. i \in Coming(p)' => i \in Coming(p) \/ (p = Granted /\ i = fetch[p] + 1)
        BY <2>1, <2>2, <3>1, <3>2
      <4>2. i \in Coming(p) => i \in Coming(p)'
        BY <2>1, <2>2, <3>2
      <4>3. p = Granted /\ i = fetch[p] + 1 => i \in Coming(p)'
        BY <2>1, <3>1, <3>2
      <4> QED
        BY <4>1, <4>2, <4>3
    <3> QED
      BY <2>3, <3>3
  <2>4. CASE ~PortFree
    <3>1. M = L
      BY <1>4, <2>4
    <3> QED
      BY <2>1, <2>2, <2>4, <3>1
  <2> QED
    BY <2>3, <2>4
<1>7. ASSUME NEW p \in Queues
      PROVE  /\ \A k \in 1 .. Len(cache[p]) : cache[p][k] = retired[p] + k
             /\ Coming(p)' = (retired[p] + Len(cache[p]) + 1) .. fetch'[p]
             /\ inflight'[p] = fetch'[p] - retired[p] - Len(cache[p])
             /\ Len(cache[p]) + inflight'[p] <= CacheDepth
  <2>1. /\ \A k \in 1 .. Len(cache[p]) : cache[p][k] = retired[p] + k
        /\ Coming(p) = (retired[p] + Len(cache[p]) + 1) .. fetch[p]
        /\ inflight[p] = fetch[p] - retired[p] - Len(cache[p])
    BY <1>1 DEF InOrder
  <2>2. Len(cache[p]) + inflight[p] <= CacheDepth
    BY <1>1 DEF Credited
  <2>3. inflight[p] \in Nat /\ fetch[p] \in Nat /\ retired[p] \in Nat /\ Len(cache[p]) \in Nat
    BY <1>1, ComingFacts
  <2>4. CASE PortFree /\ p = Granted
    <3>1. WantsRead(p)
      BY <1>1, <2>4, GrantedFacts
    <3>2. fetch'[p] = fetch[p] + 1 /\ inflight'[p] = inflight[p] + 1
      BY <1>2, <2>4
    <3>3. Coming(p)' = Coming(p) \cup {fetch[p] + 1}
      BY <1>6, <2>4
    <3>4. Len(cache[p]) + inflight[p] < CacheDepth
      BY <3>1 DEF WantsRead
    <3>5. retired[p] + Len(cache[p]) <= fetch[p]
      BY <2>1, <2>3
    <3>6. Coming(p)' = (retired[p] + Len(cache[p]) + 1) .. (fetch[p] + 1)
      <4>1. Coming(p) = (retired[p] + Len(cache[p]) + 1) .. fetch[p]
        BY <2>1
      <4> QED
        BY <2>3, <3>3, <3>5, <4>1
    <3>7. inflight'[p] = fetch'[p] - retired[p] - Len(cache[p])
      <4>1. inflight[p] = fetch[p] - retired[p] - Len(cache[p])
        BY <2>1
      <4> QED
        BY <2>3, <3>2, <4>1
    <3>8. Len(cache[p]) + inflight'[p] <= CacheDepth
      BY <2>3, <3>2, <3>4, ConstantFacts
    <3> QED
      BY <2>1, <3>2, <3>6, <3>7, <3>8
  <2>5. CASE ~(PortFree /\ p = Granted)
    <3>1. fetch'[p] = fetch[p] /\ inflight'[p] = inflight[p]
      BY <1>2, <2>5
    <3>2. Coming(p)' = Coming(p)
      BY <1>6, <2>5
    <3> QED
      BY <2>1, <2>2, <3>1, <3>2
  <2> QED
    BY <2>4, <2>5
<1>8. ASSUME NEW m \in 1 .. M, NEW n \in 1 .. M, Requested[m].queue = Requested[n].queue, m < n
      PROVE  Requested[m].at < Requested[n].at
  <2>1. CASE n \in 1 .. L
    <3>1. m \in 1 .. L
      BY <1>4, <1>8, <2>1
    <3>2. Requested[m] = pending[m] /\ Requested[n] = pending[n]
      BY <1>4, <2>1, <3>1
    <3>3. m \in DOMAIN pending /\ n \in DOMAIN pending
      BY <1>5, <2>1, <3>1
    <3> QED
      BY <1>1, <1>8, <3>2, <3>3 DEF InOrder
  <2>2. CASE n \notin 1 .. L
    <3>1. PortFree /\ n = L + 1 /\ m \in 1 .. L
      BY <1>4, <1>8, <2>2
    <3>2. Requested[n].queue = Granted /\ Requested[n].at = fetch[Granted] + 1
          /\ Requested[m] = pending[m]
      BY <1>4, <3>1
    <3>3. Granted \in Queues /\ pending[m].queue = Granted
      BY <1>1, <1>8, <3>1, <3>2, GrantedFacts
    <3>4. pending[m].at <= fetch[Granted] /\ fetch[Granted] \in Nat
      BY <1>1, <3>1, <3>3, ComingFacts DEF L
    <3>5. pending[m].at \in Nat
      BY <1>1, <3>1, PendingFacts DEF L
    <3> QED
      BY <3>2, <3>4, <3>5
  <2> QED
    BY <2>1, <2>2
<1>9. ASSUME NEW m \in 1 .. M, NEW n \in 1 .. M, pending'[m].queue = pending'[n].queue, m < n
      PROVE  pending'[m].at < pending'[n].at
  BY <1>3, <1>8, <1>9
<1>10. Credited'
  BY <1>2, <1>7 DEF Credited
<1>11. InOrder'
  BY <1>2, <1>3, <1>7, <1>9 DEF InOrder
<1> QED
  BY <1>10, <1>11

LEMMA EndCycleType ==
  ASSUME IInv, EndCycle
  PROVE  TypeOK'
<1>1. TypeOK
  BY DEF IInv
<1>2. /\ stage' = "idle"
      /\ UNCHANGED <<task, running, issue, turn, pageVars, cache, retired, clock, tags, fault>>
      /\ requesting' = {q \in Queues : WantsRead(q) /\ ~(PortFree /\ q = Granted)}
      /\ waited' = [q \in Queues |->
           IF q \in requesting' THEN (IF q \in requesting THEN waited[q] ELSE 0) + 1 ELSE 0]
      /\ fetch' = [q \in Queues |-> IF PortFree /\ q = Granted THEN fetch[q] + 1 ELSE fetch[q]]
      /\ inflight' = [q \in Queues |->
           IF PortFree /\ q = Granted THEN inflight[q] + 1 ELSE inflight[q]]
      /\ cursor' = (IF PortFree THEN (Granted + 1) % NumQueues ELSE cursor)
      /\ cooldown' = Closer(IF PortFree THEN ReadInterval ELSE cooldown)
      /\ AdvanceBarrierEvents
  BY EndCycleFacts
<1>3. \A q \in Queues : fetch[q] \in Nat /\ waited[q] \in Nat /\ inflight[q] \in 0 .. CacheDepth
      /\ fetch[q] <= Count(q) /\ Count(q) \in Nat /\ Len(cache[q]) \in Nat
  BY <1>1, TaskType, ComingFacts DEF TypeOK, IInv
<1>4. fetch' \in [Queues -> Nat] /\ waited' \in [Queues -> Nat]
  BY <1>2, <1>3
<1>5. ASSUME NEW q \in Queues
      PROVE  fetch'[q] <= Count(q) /\ inflight'[q] \in 0 .. CacheDepth
  <2>1. CASE PortFree /\ q = Granted
    <3>1. fetch[q] < Count(q) /\ Len(cache[q]) + inflight[q] < CacheDepth
      BY <1>1, <2>1, GrantedFacts DEF WantsRead
    <3>2. fetch'[q] = fetch[q] + 1 /\ inflight'[q] = inflight[q] + 1
      BY <1>2, <2>1
    <3> QED
      BY <1>3, <3>1, <3>2, ConstantFacts
  <2>2. CASE ~(PortFree /\ q = Granted)
    BY <1>2, <1>3, <2>2
  <2> QED
    BY <2>1, <2>2
<1>6. inflight' \in [Queues -> 0 .. CacheDepth]
  BY <1>2, <1>5
<1>7. cursor' \in Queues
  <2>1. CASE PortFree
    <3>1. Granted \in 0 .. NumQueues - 1
      BY <1>1, <2>1, GrantedFacts DEF Queues
    <3>2. (Granted + 1) % NumQueues \in 0 .. NumQueues - 1
      BY <3>1, ConstantFacts
    <3> QED
      BY <1>2, <2>1, <3>2 DEF Queues
  <2>2. CASE ~PortFree
    BY <1>1, <1>2, <2>2 DEF TypeOK
  <2> QED
    BY <2>1, <2>2
<1>8. cooldown' \in 0 .. ReadInterval
  <2>1. cooldown \in 0 .. ReadInterval
    BY <1>1 DEF TypeOK
  <2> QED
    BY <1>2, <2>1, ConstantFacts DEF Closer
<1>9. pending' \in Seq([queue : Queues, at : Nat \ {0}, wait : 0 .. ReadLatency])
  BY AgedFacts DEF Response
<1>10. /\ emitted' \subseteq Queues /\ barrierEvents' \in Seq(0 .. BarrierLatency)
       /\ tokens' \in [Queues -> Nat]
  BY <1>1, <1>2, AdvanceFacts
<1>11. requesting' \subseteq Queues /\ stage' \in Stages
  BY <1>2 DEF Stages
<1>12. \A q \in Queues : Count(q)' = Count(q)
  BY <1>2 DEF Count, List
<1> QED
  BY <1>1, <1>2, <1>4, <1>5, <1>6, <1>7, <1>8, <1>9, <1>10, <1>11, <1>12
  DEF TypeOK, EventsOf, pageVars

LEMMA EndCycleInv ==
  ASSUME IInv, EndCycle
  PROVE  IInv'
<1>1. /\ UNCHANGED <<task, running, issue, turn, pageVars, cache, retired, clock, tags, fault>>
      /\ stage' = "idle" /\ AdvanceBarrierEvents
  BY EndCycleFacts
<1>2. TypeOK' /\ InOrder' /\ Credited' /\ Spaced' /\ Patient'
  BY EndCycleType, EndCycleOrder, EndCycleSpaced, EndCyclePatient
<1>3. TaskValid' /\ BoundaryRespected' /\ PagesCounted'
  BY <1>1, TaskFrame, BoundaryFrame, PagesFrame DEF IInv, pageVars
<1>4. EmittedOnce'
  BY <1>1, AdvanceFacts DEF EmittedOnce, IInv
<1>5. Conserved'
  <2>1. \A q \in Queues, o \in Opcodes : Obeyed(q, o)' = Obeyed(q, o)
    BY <1>1 DEF Obeyed, List
  <2>2. "sync" \in Opcodes /\ "notify" \in Opcodes
    BY DEF Opcodes
  <2>3. Notified' = Notified
    BY <2>1, <2>2 DEF Notified
  <2>4. Cardinality(emitted') = 0
    BY <1>1, AdvanceFacts, FS_EmptySet DEF IInv
  <2>5. ASSUME NEW q \in Queues
        PROVE  tokens'[q] + Cardinality(Obeyed(q, "sync")) + Len(barrierEvents') + 0
                 = Cardinality(Notified)
    <3>1. tokens'[q] + Len(barrierEvents') = tokens[q] + Len(barrierEvents) + Cardinality(emitted)
      BY <1>1, AdvanceFacts DEF IInv
    <3>2. tokens[q] + Cardinality(Obeyed(q, "sync")) + Len(barrierEvents) + Cardinality(emitted)
            = Cardinality(Notified)
      BY DEF IInv, Conserved, NotifyConserved
    <3>3. tokens[q] \in Nat /\ tokens'[q] \in Nat /\ Len(barrierEvents) \in Nat
          /\ Len(barrierEvents') \in Nat /\ Cardinality(emitted) \in Nat
      <4>1. tokens[q] \in Nat /\ tokens'[q] \in Nat /\ Cardinality(emitted) \in Nat
            /\ barrierEvents \in Seq(0 .. BarrierLatency)
            /\ barrierEvents' \in Seq(0 .. BarrierLatency)
        BY <1>1, AdvanceFacts DEF IInv, TypeOK
      <4> QED
        BY <4>1, LenProperties
    <3>4. Cardinality(Obeyed(q, "sync")) \in Nat
      <4>1. retired[q] \in Nat
        BY DEF IInv, TypeOK
      <4>2. IsFiniteSet(1 .. retired[q]) /\ Obeyed(q, "sync") \subseteq 1 .. retired[q]
        BY <4>1, FS_Interval DEF Obeyed
      <4> QED
        BY <4>2, FS_Subset, FS_CardinalityType
    <3>5. tokens'[q] + Cardinality(Obeyed(q, "sync")) + Len(barrierEvents') + 0
            = tokens[q] + Cardinality(Obeyed(q, "sync")) + Len(barrierEvents) + Cardinality(emitted)
      <4> DEFINE t == tokens[q]
                 u == tokens'[q]
                 b == Len(barrierEvents)
                 c == Len(barrierEvents')
                 e == Cardinality(emitted)
                 n == Cardinality(Obeyed(q, "sync"))
      <4>1. t \in Nat /\ u \in Nat /\ b \in Nat /\ c \in Nat /\ e \in Nat /\ n \in Nat
        BY <3>3, <3>4
      <4>2. u + c = t + b + e
        BY <3>1
      <4> HIDE DEF t, u, b, c, e, n
      <4>3. u + n + c + 0 = t + n + b + e
        BY <4>1, <4>2
      <4> QED
        BY <4>3 DEF t, u, b, c, e, n
    <3> QED
      BY <3>2, <3>5
  <2> QED
    BY <2>1, <2>2, <2>3, <2>4, <2>5 DEF IInv, Conserved, NotifyConserved
<1> QED
  BY <1>2, <1>3, <1>4, <1>5 DEF IInv
----------------------------------------------------------------------------
(* Every step keeps the invariant.                                          *)

LEMMA PageLoadsType == PageLoads \subseteq Nat \X Nat
<1>1. ASSUME NEW l \in PageLoads PROVE l \in Nat \X Nat
  <2>1. PICK t \in Tasks : l \in {t.generation} \X UNION {t.pages[e] : e \in EventsOf(t)}
    BY DEF PageLoads
  <2>2. IsTask(t)
    BY QueueAssumption
  <2>3. t.generation \in Nat /\ \A e \in EventsOf(t) : t.pages[e] \subseteq Nat
    BY <2>2 DEF IsTask, EventsOf
  <2>4. UNION {t.pages[e] : e \in EventsOf(t)} \subseteq Nat
    BY <2>3
  <2> QED
    BY <2>1, <2>3, <2>4
<1> QED
  BY <1>1

LEMMA NextInv ==
  ASSUME IInv, [Next]_vars
  PROVE  IInv'
<1>1. CASE UNCHANGED vars
  <2>1. UNCHANGED <<modeVars, poolVars, queueVars, pageVars, fault>>
    BY <1>1 DEF vars
  <2>2. TypeOK'
    BY <2>1 DEF IInv, TypeOK, modeVars, poolVars, queueVars, pageVars, List, Count, EventsOf
  <2> QED
    BY <2>1, <2>2, TaskFrame, OrderFrame, SpacedFrame, PatientFrame, BoundaryFrame, PagesFrame,
       ConservedFrame, EmittedFrame DEF IInv, modeVars, poolVars, queueVars, pageVars
<1>2. ASSUME NEW t \in Tasks, Load(t) PROVE IInv'
  BY <1>2, LoadInv
<1>3. CASE Start
  BY <1>3, StartInv
<1>4. ASSUME NEW b \in BOOLEAN, SetIssueEnabled(b) PROVE IInv'
  BY <1>4, SetIssueEnabledInv
<1>5. CASE Cycle
  <2>1. ASSUME NEW q \in Queues, Tick(q) PROVE IInv'
    BY <2>1, TickInv
  <2> QED
    BY <1>5, <2>1, BeginCycleInv, DeliverInv, DeliveredInv, EndCycleInv DEF Cycle
<1>6. ASSUME NEW l \in PageLoads, PageVisible(l[1], l[2]) \/ NotifyMemCommit(l[1], l[2])
      PROVE  IInv'
  <2>1. l[1] \in Nat /\ l[2] \in Nat
    BY PageLoadsType
  <2> QED
    BY <1>6, <2>1, PageVisibleInv, NotifyMemCommitInv
<1>7. ASSUME NEW e \in UNION {EventsOf(t) : t \in Tasks}, ReleaseEvent(e) PROVE IInv'
  BY <1>7, ReleaseEventInv
<1> QED
  BY <1>1, <1>2, <1>3, <1>4, <1>5, <1>6, <1>7 DEF Next

(* The inductive invariant holds in every behaviour.                        *)
THEOREM Invariance == Spec => []IInv
<1>1. Init => IInv
  BY InitInv
<1>2. IInv /\ [Next]_vars => IInv'
  BY NextInv
<1> QED
  BY <1>1, <1>2, PTL DEF Spec
----------------------------------------------------------------------------
(* The theorems.                                                            *)

(* Every variable keeps its type.                                           *)
THEOREM TypeCorrect == Spec => []TypeOK
<1>1. IInv => TypeOK
  BY DEF IInv
<1> QED
  BY <1>1, Invariance, PTL

(* Whatever the number of queues, the depth of their caches and the latency *)
(* and interval of the control RAM, every queue is fed exactly its own      *)
(* records, once and in order, and the self-checks of the pool in           *)
(* begin_cycle() and end_cycle() never throw.                               *)
THEOREM RecordsInOrder == Spec => []InOrder
<1>1. IInv => InOrder
  BY DEF IInv
<1> QED
  BY <1>1, Invariance, PTL

(* tick_raw_macro() obeys every record at the very cycle it is bound to.    *)
THEOREM BoundariesKept == Spec => []BoundaryRespected
<1>1. IInv => BoundaryRespected
  BY DEF IInv
<1> QED
  BY <1>1, Invariance, PTL

(* The arbitration of end_cycle() lets a request wait no longer than all    *)
(* queues need for one read each.                                           *)
THEOREM NobodyStarves == Spec => []ArbitrationBounded
<1>1. IInv => ArbitrationBounded
  <2> SUFFICES ASSUME IInv, NEW q \in requesting
               PROVE  waited[q] < NumQueues * ReadInterval
    BY DEF ArbitrationBounded
  <2>1. q \in Queues /\ waited[q] \in Nat /\ cooldown \in Nat
    BY ConstantFacts DEF IInv, TypeOK
  <2>2. waited[q] + Distance(q) * ReadInterval + cooldown < NumQueues * ReadInterval
    BY DEF IInv, Patient
  <2>3. Distance(q) \in Nat
    BY <2>1, DistanceIs, ConstantFacts DEF IInv
  <2>4. Distance(q) * ReadInterval \in Nat /\ NumQueues * ReadInterval \in Nat
    BY <2>3, ConstantFacts
  <2> QED
    BY <2>1, <2>2, <2>4
<1> QED
  BY <1>1, Invariance, PTL

(* No NOTIFY of a queue is lost or taken twice, however many queues emit    *)
(* in one cycle and whatever the latency of the broadcast.                  *)
THEOREM NotifiesConserved == Spec => []NotifyConserved
<1>1. IInv => NotifyConserved
  BY DEF IInv, Conserved
<1> QED
  BY <1>1, Invariance, PTL

(* No WAIT_EVENT is passed before the pages of its event are in SRAM,       *)
(* whatever reports are repeated or belong to a replaced task.              *)
THEOREM PagesAwaited == Spec => []WaitsForPages
<1>1. IInv => WaitsForPages
  <2> SUFFICES ASSUME IInv, NEW q \in Queues, NEW i \in Obeyed(q, "wait"),
                      NEW p \in task.pages[List(q)[i].tag]
               PROVE  <<task.generation, p>> \in visible
    BY DEF WaitsForPages
  <2>1. List(q)[i].tag \in released
    BY DEF IInv, PagesCounted
  <2>2. p \in completed
    BY <2>1 DEF IInv, PagesCounted
  <2> QED
    BY <2>2 DEF IInv, PagesCounted
<1> QED
  BY <1>1, Invariance, PTL
=============================================================================
