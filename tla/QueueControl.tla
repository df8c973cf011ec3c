---------------------------- MODULE QueueControl ----------------------------
(***************************************************************************)
(* Queue controls (QCTL): every raw macro queue of the ICU carries a list  *)
(* of control records, each bound to a cycle of the queue's own clock.     *)
(* The records live in one RAM with a single read port for the whole chip  *)
(* (icu/queue_control_pool.hpp); each queue sees them through a small      *)
(* cache that is refilled under credit (icu/queue_control.hpp), obeys them *)
(* in tick_raw_macro() (icu/distributed_queue.hpp), and waits for pages    *)
(* whose completion is latched in icu/queue_completion.hpp.                *)
(*                                                                         *)
(* A physical cycle is begin_cycle() of the pool, the ticks of the queues  *)
(* in order, end_cycle() of the pool; the loops of the code are steps.     *)
(* The runtime acts between cycles.  Absolute times of the pool are kept   *)
(* as distances from its cycle_.  A thrown exception ends the run.         *)
(***************************************************************************)
EXTENDS Integers, Sequences, FiniteSets

CONSTANTS
  Tasks,          \* the control images a compiler may hand over
  NumQueues,      \* raw macro queues, one partition each
  CacheDepth,     \* hw::kQueueControlCacheDepth
  ReadLatency,    \* hw::kQueueControlReadLatency
  ReadInterval,   \* hw::kQueueControlPoolReadIi
  PoolCapacity,   \* hw::kQueueControlPoolCapacity
  QueueCapacity,  \* hw::kQueueControlCapacity
  BarrierLatency, \* barrier_latency_cycles_
  Horizon         \* bound: a queue clock stops counting here, beyond all records

Queues   == 0 .. NumQueues - 1
Opcodes  == {"wait", "sync", "notify", "packet"}
Record   == [cycle : 0 .. Horizon - 1, op : Opcodes, tag : Nat]

(* A task: its generation, a list of records per queue, and the page loads *)
(* each event waits for; a queue waits for events of the task only.        *)
IsTask(t) ==
  /\ t.generation \in Nat \ {0}
  /\ t.lists \in [Queues -> Seq(Record)]
  /\ DOMAIN t.pages \subseteq Nat
  /\ \A e \in DOMAIN t.pages : t.pages[e] \subseteq Nat /\ IsFiniteSet(t.pages[e])
  /\ \A q \in Queues : \A i \in DOMAIN t.lists[q] :
       t.lists[q][i].op = "wait" => t.lists[q][i].tag \in DOMAIN t.pages

ASSUME QueueAssumption ==
  /\ \A t \in Tasks : IsTask(t)
  /\ {NumQueues, CacheDepth, ReadLatency, ReadInterval, Horizon} \subseteq Nat \ {0}
  /\ {PoolCapacity, QueueCapacity, BarrierLatency} \subseteq Nat

VARIABLES
  (* the loaded task, the running mode, and where the cycle is             *)
  task, running, issue, stage, turn,
  (* IcuQueueControlPool *)
  fetch,          \* records of each partition already requested
  inflight,       \* reserved credits: requested, not yet in the cache
  cache,          \* per partition, the positions of the fetched records
  pending,        \* responses: [queue, at, wait], wait cycles until ready
  requesting,     \* partitions waiting for the read port
  waited,         \* cycle_ - request_since of those partitions
  cursor,         \* where round-robin arbitration starts
  cooldown,       \* cycles until the port accepts the next request
  (* the queues *)
  retired,        \* records obeyed
  clock,          \* cycle(): the queue's own issue clock
  tags,           \* tagged notifications held, per event
  tokens,         \* notification_tokens_
  emitted,        \* queues whose notify_emitted_ is set
  barrierEvents,  \* broadcasts under way: cycles until each arrives
  (* page completion *)
  remaining, completed,
  (* the runtime *)
  released,       \* events already broadcast to the queues
  visible,        \* <<generation, instance>> whose SRAM writes are all done
  fault

poolVars  == <<fetch, inflight, cache, pending, requesting, waited, cursor, cooldown>>
queueVars == <<retired, clock, tags, tokens, emitted, barrierEvents>>
pageVars  == <<remaining, completed, released, visible>>
modeVars  == <<task, running, issue, stage, turn>>
vars == <<modeVars, poolVars, queueVars, pageVars, fault>>

List(q)  == task.lists[q]
Count(q) == Len(List(q))
EventsOf(t) == DOMAIN t.pages
NoTask == [generation |-> 0, lists |-> [q \in Queues |-> <<>>], pages |-> [e \in {} |-> {}]]

Throw(f) == fault' = f
----------------------------------------------------------------------------
(* Loading.                                                                *)

(* Records are ordered, fit their queue, and all partitions fit the RAM.   *)
(* Used(q): the words of the RAM the partitions up to q take.              *)
Used[q \in -1 .. NumQueues - 1, t \in Tasks] ==
  IF q = -1 THEN 0 ELSE Used[q - 1, t] + Len(t.lists[q])

ValidTask(t) ==
  /\ Used[NumQueues - 1, t] <= PoolCapacity
  /\ \A q \in Queues :
       LET L == t.lists[q]
       IN /\ Len(L) <= QueueCapacity
          /\ \A i, j \in DOMAIN L : i < j => L[i].cycle <= L[j].cycle
          /\ \A i \in DOMAIN L : L[i].op \in {"sync", "notify"} => L[i].tag = 0
          /\ \A i \in DOMAIN L : L[i].op = "packet" => L[i].tag # 0
  /\ \A e \in EventsOf(t) : e # 0 /\ t.pages[e] # {}
  /\ \A d, e \in EventsOf(t) : t.pages[d] \cap t.pages[e] # {} => d = e

Zero       == [q \in Queues |-> 0]
Empty      == [q \in Queues |-> <<>>]
NoTags(t)  == [q \in Queues |-> [e \in EventsOf(t) |-> 0]]
AllPages(t) == [e \in EventsOf(t) |-> Cardinality(t.pages[e])]

Init ==
  /\ task = NoTask /\ running = FALSE /\ issue = FALSE /\ stage = "idle" /\ turn = 0
  /\ fetch = Zero /\ inflight = Zero /\ cache = Empty /\ pending = <<>>
  /\ requesting = {} /\ waited = Zero /\ cursor = 0 /\ cooldown = 0
  /\ retired = Zero /\ clock = Zero /\ tags = NoTags(NoTask) /\ tokens = Zero
  /\ emitted = {} /\ barrierEvents = <<>>
  /\ remaining = AllPages(NoTask) /\ completed = {} /\ released = {}
  /\ visible = {} /\ fault = "none"

(* A program switch: reset_program() or reset_compute_program(), the pool  *)
(* configured anew, one add_partition() per queue, and the page bindings.  *)
(* It may interrupt a running task; the runtime numbers tasks upwards.     *)
Load(t) ==
  /\ fault = "none" /\ stage = "idle"
  /\ t.generation > task.generation
  /\ ValidTask(t)
  /\ task' = t /\ running' = FALSE /\ issue' = FALSE
  /\ fetch' = Zero /\ inflight' = Zero /\ cache' = Empty /\ pending' = <<>>
  /\ requesting' = {} /\ waited' = Zero /\ cursor' = 0 /\ cooldown' = 0
  /\ retired' = Zero /\ clock' = Zero /\ tags' = NoTags(t) /\ tokens' = Zero
  /\ emitted' = {} /\ barrierEvents' = <<>>
  /\ remaining' = AllPages(t) /\ completed' = {} /\ released' = {}
  /\ UNCHANGED <<stage, turn, visible, fault>>

Primed(q) == Len(cache[q]) = (IF CacheDepth < Count(q) THEN CacheDepth ELSE Count(q))

(* start(): only when every frontend is primed.                            *)
Start ==
  /\ fault = "none" /\ stage = "idle" /\ ~running /\ task # NoTask
  /\ \A q \in Queues : Primed(q)
  /\ running' = TRUE /\ issue' = TRUE
  /\ UNCHANGED <<task, stage, turn, poolVars, queueVars, pageVars, fault>>

SetIssueEnabled(b) ==
  /\ fault = "none" /\ stage = "idle" /\ running /\ issue' = b
  /\ UNCHANGED <<task, running, stage, turn, poolVars, queueVars, pageVars, fault>>
----------------------------------------------------------------------------
(* The pool.                                                               *)

WantsRead(q) == fetch[q] < Count(q) /\ Len(cache[q]) + inflight[q] < CacheDepth

BeginCycle ==
  /\ fault = "none" /\ stage = "idle" /\ task # NoTask
  /\ stage' = "begin"
  /\ UNCHANGED <<task, running, issue, turn, poolVars, queueVars, pageVars, fault>>

ResponseReady == pending # <<>> /\ Head(pending).wait = 0

(* One response enters the cache slot that was reserved for it.            *)
Deliver ==
  /\ fault = "none" /\ stage = "begin" /\ ResponseReady
  /\ pending' = Tail(pending)
  /\ LET q == Head(pending).queue
     IN IF inflight[q] = 0 \/ Len(cache[q]) >= CacheDepth
        THEN Throw("lost credit") /\ UNCHANGED <<inflight, cache>>
        ELSE /\ inflight' = [inflight EXCEPT ![q] = @ - 1]
             /\ cache' = [cache EXCEPT ![q] = Append(@, Head(pending).at)]
             /\ UNCHANGED fault
  /\ UNCHANGED <<modeVars, fetch, requesting, waited, cursor, cooldown, queueVars, pageVars>>

(* All responses are in: the queues tick, unless the program is being      *)
(* primed or the runtime holds issue.                                      *)
Delivered ==
  /\ fault = "none" /\ stage = "begin" /\ ~ResponseReady
  /\ stage' = (IF running /\ issue THEN "dispatch" ELSE "end")
  /\ turn' = 0
  /\ UNCHANGED <<task, running, issue, poolVars, queueVars, pageVars, fault>>

(* Mutant: fixed priority.                                                 *)
Priority(q) == q

(* The first partition at or after the cursor, cyclically, that wants a    *)
(* read.                                                                   *)
Distance(q) == (q - cursor) % NumQueues
Granted == CHOOSE q \in Queues :
             WantsRead(q) /\ \A p \in Queues : WantsRead(p) => Distance(q) <= Distance(p)

PortFree == cooldown = 0 /\ \E q \in Queues : WantsRead(q)
PipelineDepth == (ReadLatency + ReadInterval - 1) \div ReadInterval

(* Mutant: a countdown that does not stop at zero.                         *)
Counting(n) == n - 1

Closer(n) == IF n = 0 THEN 0 ELSE n - 1
Aged(responses) == [k \in DOMAIN responses |-> [responses[k] EXCEPT !.wait = Closer(@)]]

(* advance_barrier_events(): broadcasts under way come closer, those that  *)
(* arrive give every queue a token, and this cycle's NOTIFYs set out.      *)
Approach == [k \in DOMAIN barrierEvents |-> Closer(barrierEvents[k])]
Arrived  == Cardinality({k \in DOMAIN Approach : \A j \in 1 .. k : Approach[j] = 0})

(* Mutant: NOTIFYs of one cycle merge into one broadcast.                  *)
AdvanceMergedEvents ==
  LET n == IF emitted = {} THEN 0 ELSE 1
  IN /\ emitted' = {}
     /\ barrierEvents' = SubSeq(Approach, Arrived + 1, Len(Approach)) \o
          (IF BarrierLatency = 0 THEN <<>> ELSE [k \in 1 .. n |-> BarrierLatency])
     /\ tokens' = [q \in Queues |->
          tokens[q] + Arrived + (IF BarrierLatency = 0 THEN n ELSE 0)]

AdvanceBarrierEvents ==
  LET n == Cardinality(emitted)
  IN /\ emitted' = {}
     /\ barrierEvents' = SubSeq(Approach, Arrived + 1, Len(Approach)) \o
          (IF BarrierLatency = 0 THEN <<>> ELSE [k \in 1 .. n |-> BarrierLatency])
     /\ tokens' = [q \in Queues |->
          tokens[q] + Arrived + (IF BarrierLatency = 0 THEN n ELSE 0)]

(* end_cycle() of the pool: partitions that want a read queue up, at most  *)
(* one is granted, and time passes; then the barrier events of the chip.   *)
EndCycle ==
  /\ fault = "none" /\ stage = "end"
  /\ LET want == {q \in Queues : WantsRead(q)}
         since(q) == IF q \in requesting THEN waited[q] ELSE 0
         grant == IF PortFree THEN {Granted} ELSE {}
     IN IF PortFree /\ Len(pending) >= PipelineDepth
        THEN /\ Throw("pipeline")
             /\ UNCHANGED <<stage, poolVars, queueVars>>
        ELSE /\ requesting' = want \ grant
             /\ waited' = [q \in Queues |-> IF q \in want \ grant THEN since(q) + 1 ELSE 0]
             /\ fetch' = [q \in Queues |-> IF q \in grant THEN fetch[q] + 1 ELSE fetch[q]]
             /\ inflight' = [q \in Queues |-> IF q \in grant THEN inflight[q] + 1 ELSE inflight[q]]
             /\ pending' = Aged(IF PortFree
                  THEN Append(pending, [queue |-> Granted, at |-> fetch[Granted] + 1,
                                        wait |-> ReadLatency])
                  ELSE pending)
             /\ cursor' = (IF PortFree THEN (Granted + 1) % NumQueues ELSE cursor)
             /\ cooldown' = Closer(IF PortFree THEN ReadInterval ELSE cooldown)
             /\ stage' = "idle"
             /\ AdvanceBarrierEvents
             /\ UNCHANGED <<cache, retired, clock, tags, fault>>
  /\ UNCHANGED <<task, running, issue, turn, pageVars>>
----------------------------------------------------------------------------
(* The queues, in tick_raw_macro().                                        *)

(* Mutant: an empty cache is taken for an empty list.                      *)
NoUnderflow(q) == FALSE

Done(q)       == retired[q] = Count(q)
Front(q)      == List(q)[Head(cache[q])]
Underflow(q)  == ~Done(q) /\ cache[q] = <<>>
Missed(q)     == ~Done(q) /\ cache[q] # <<>> /\ Front(q).cycle < clock[q]
AtBoundary(q) == ~Done(q) /\ cache[q] # <<>> /\ Front(q).cycle = clock[q]

Ticking(q) == fault = "none" /\ stage = "dispatch" /\ turn = q

EndTick(q) ==
  /\ turn' = q + 1
  /\ stage' = (IF q + 1 = NumQueues THEN "end" ELSE "dispatch")

(* Mutant: obeying a record flushes the records fetched after it.          *)
RetireAndFlush(q) ==
  /\ cache' = [cache EXCEPT ![q] = <<>>]
  /\ retired' = [retired EXCEPT ![q] = @ + 1]

Retire(q) ==
  /\ cache' = [cache EXCEPT ![q] = Tail(@)]
  /\ retired' = [retired EXCEPT ![q] = @ + 1]

controlFrame == <<task, running, issue, fetch, inflight, pending, requesting, waited,
                  cursor, cooldown, barrierEvents, pageVars>>

(* No record may be passed unseen.                                         *)
RefuseBoundary(q) ==
  /\ Ticking(q) /\ (Underflow(q) \/ Missed(q))
  /\ Throw(IF Underflow(q) THEN "underflow" ELSE "missed")
  /\ UNCHANGED <<modeVars, poolVars, queueVars, pageVars>>

(* WAIT_EVENT takes a matching notification and goes on in the same cycle. *)
ReleaseWait(q) ==
  /\ Ticking(q) /\ AtBoundary(q)
  /\ Front(q).op = "wait" /\ tags[q][Front(q).tag] > 0
  /\ tags' = [tags EXCEPT ![q][Front(q).tag] = @ - 1]
  /\ Retire(q)
  /\ UNCHANGED <<controlFrame, stage, turn, clock, tokens, emitted, fault>>

(* A missing notification holds this queue, and no other, for a cycle.     *)
Hold(q) ==
  /\ Ticking(q) /\ AtBoundary(q)
  /\ \/ Front(q).op = "wait" /\ tags[q][Front(q).tag] = 0
     \/ Front(q).op = "sync" /\ tokens[q] = 0
  /\ EndTick(q)
  /\ UNCHANGED <<controlFrame, cache, retired, clock, tags, tokens, emitted, fault>>

(* A released SYNC and a NOTIFY each take a physical cycle, and no cycle   *)
(* of the queue clock.                                                     *)
(* Mutant: a token is a level, not consumed by the SYNC it releases.       *)
ReleaseSyncKeepsToken(q) ==
  /\ Ticking(q) /\ AtBoundary(q) /\ Front(q).op = "sync" /\ tokens[q] > 0
  /\ Retire(q) /\ EndTick(q)
  /\ UNCHANGED <<controlFrame, clock, tags, tokens, emitted, fault>>

ReleaseSync(q) ==
  /\ Ticking(q) /\ AtBoundary(q) /\ Front(q).op = "sync" /\ tokens[q] > 0
  /\ tokens' = [tokens EXCEPT ![q] = @ - 1]
  /\ Retire(q) /\ EndTick(q)
  /\ UNCHANGED <<controlFrame, clock, tags, emitted, fault>>

Notify(q) ==
  /\ Ticking(q) /\ AtBoundary(q) /\ Front(q).op = "notify"
  /\ emitted' = emitted \cup {q}
  /\ Retire(q) /\ EndTick(q)
  /\ UNCHANGED <<controlFrame, clock, tags, tokens, fault>>

(* The transport store owns the queue until its packet completes.          *)
MovePacket(q, complete) ==
  /\ Ticking(q) /\ AtBoundary(q) /\ Front(q).op = "packet"
  /\ IF complete THEN Retire(q) ELSE UNCHANGED <<cache, retired>>
  /\ EndTick(q)
  /\ UNCHANGED <<controlFrame, clock, tags, tokens, emitted, fault>>

(* No record is due: the queue issues and its clock advances.              *)
Issue(q) ==
  /\ Ticking(q) /\ ~Underflow(q) /\ ~Missed(q) /\ ~AtBoundary(q)
  /\ clock' = [clock EXCEPT ![q] = IF @ < Horizon THEN @ + 1 ELSE @]
  /\ EndTick(q)
  /\ UNCHANGED <<controlFrame, cache, retired, tags, tokens, emitted, fault>>

Tick(q) == \/ RefuseBoundary(q) \/ ReleaseWait(q) \/ Hold(q) \/ ReleaseSync(q)
           \/ Notify(q) \/ (\E b \in BOOLEAN : MovePacket(q, b)) \/ Issue(q)
----------------------------------------------------------------------------
(* Pages, between cycles.                                                  *)

(* The last SRAM write of a page load of an accepted task.                 *)
PageVisible(g, i) ==
  /\ fault = "none" /\ stage = "idle"
  /\ g <= task.generation /\ <<g, i>> \notin visible
  /\ visible' = visible \cup {<<g, i>>}
  /\ UNCHANGED <<modeVars, poolVars, queueVars, remaining, completed, released, fault>>

(* notify_mem_commit(): retired generations and repeated instances are     *)
(* dropped, the first report of an instance counts its event down.         *)
(* Mutant: a repeated report counts again.                                 *)
CountedAgain(g, i) == g = task.generation

Counted(g, i) == g = task.generation /\ i \notin completed

NotifyMemCommit(g, i) ==
  /\ fault = "none" /\ stage = "idle"
  /\ <<g, i>> \in visible
  /\ IF Counted(g, i)
     THEN /\ completed' = completed \cup {i}
          /\ remaining' = [e \in EventsOf(task) |->
               IF i \in task.pages[e] THEN remaining[e] - 1 ELSE remaining[e]]
     ELSE UNCHANGED <<completed, remaining>>
  /\ UNCHANGED <<modeVars, poolVars, queueVars, released, visible, fault>>

(* The runtime polls ready() and broadcasts the event once.                *)
ReleaseEvent(e) ==
  /\ fault = "none" /\ stage = "idle"
  /\ e \in EventsOf(task) \ released /\ remaining[e] = 0
  /\ released' = released \cup {e}
  /\ tags' = [q \in Queues |-> [tags[q] EXCEPT ![e] = @ + 1]]
  /\ UNCHANGED <<modeVars, poolVars, retired, clock, tokens, emitted, barrierEvents,
                 remaining, completed, visible, fault>>

PageLoads == UNION {{t.generation} \X UNION {t.pages[e] : e \in EventsOf(t)} : t \in Tasks}

Cycle == BeginCycle \/ Deliver \/ Delivered \/ (\E q \in Queues : Tick(q)) \/ EndCycle

Next ==
  \/ \E t \in Tasks : Load(t)
  \/ Start
  \/ \E b \in BOOLEAN : SetIssueEnabled(b)
  \/ Cycle
  \/ \E l \in PageLoads : PageVisible(l[1], l[2]) \/ NotifyMemCommit(l[1], l[2])
  \/ \E e \in UNION {EventsOf(t) : t \in Tasks} : ReleaseEvent(e)

Spec == Init /\ [][Next]_vars

(* Each of these can happen only finitely often in a task.                 *)
RuntimeActs ==
  \/ Start
  \/ \E l \in PageLoads : \/ PageVisible(l[1], l[2])
                          \/ Counted(l[1], l[2]) /\ NotifyMemCommit(l[1], l[2])
  \/ \E e \in UNION {EventsOf(t) : t \in Tasks} : ReleaseEvent(e)

(* The chip is ticked forever.  The runtime, which only acts between two   *)
(* cycles, starts a primed program, reports every committed page of the    *)
(* task and releases every ready event; transport writes every page and    *)
(* completes every packet.                                                 *)
Fairness ==
  /\ WF_vars(Cycle)
  /\ SF_vars(RuntimeActs)
  /\ SF_vars(\E q \in Queues : MovePacket(q, TRUE))

FairSpec == Spec /\ Fairness
----------------------------------------------------------------------------
Stages == {"idle", "begin", "dispatch", "end"}
Faults == {"none", "lost credit", "pipeline", "underflow", "missed"}

TypeOK ==
  /\ task \in Tasks \cup {NoTask}
  /\ running \in BOOLEAN /\ issue \in BOOLEAN /\ stage \in Stages /\ turn \in 0 .. NumQueues
  /\ fetch \in [Queues -> Nat] /\ \A q \in Queues : fetch[q] <= Count(q)
  /\ inflight \in [Queues -> 0 .. CacheDepth]
  /\ cache \in [Queues -> Seq(Nat \ {0})]
  /\ pending \in Seq([queue : Queues, at : Nat \ {0}, wait : 0 .. ReadLatency])
  /\ requesting \subseteq Queues /\ waited \in [Queues -> Nat]
  /\ cursor \in Queues /\ cooldown \in 0 .. ReadInterval
  /\ retired \in [Queues -> Nat] /\ \A q \in Queues : retired[q] <= Count(q)
  /\ clock \in [Queues -> 0 .. Horizon]
  /\ tags \in [Queues -> [EventsOf(task) -> Nat]]
  /\ tokens \in [Queues -> Nat] /\ emitted \subseteq Queues
  /\ barrierEvents \in Seq(0 .. BarrierLatency)
  /\ remaining \in [EventsOf(task) -> Nat]
  /\ completed \subseteq Nat /\ released \subseteq EventsOf(task)
  /\ visible \subseteq Nat \X Nat
  /\ fault \in Faults

(* The records under way to a queue.                                        *)
Coming(q) == {pending[n].at : n \in {m \in DOMAIN pending : pending[m].queue = q}}

(* Through one port shared by all queues, every queue sees exactly its own  *)
(* records, each once and in order, and each under a reserved credit: the   *)
(* two self-checks of the pool never fire, whatever the latency, the        *)
(* request interval and the number of queues.                               *)
InOrder ==
  /\ fault \notin {"lost credit", "pipeline"}
  /\ \A q \in Queues :
       /\ \A k \in 1 .. Len(cache[q]) : cache[q][k] = retired[q] + k
       /\ Coming(q) = (retired[q] + Len(cache[q]) + 1) .. fetch[q]
       /\ inflight[q] = fetch[q] - retired[q] - Len(cache[q])
  /\ \A m, n \in DOMAIN pending :
       pending[m].queue = pending[n].queue /\ m < n => pending[m].at < pending[n].at

(* A queue clock never passes a record that was not obeyed, and no record   *)
(* is obeyed before its cycle.                                              *)
BoundaryRespected ==
  \A q \in Queues : \A i \in 1 .. Count(q) :
    /\ List(q)[i].cycle < clock[q] => i <= retired[q]
    /\ i <= retired[q] => List(q)[i].cycle <= clock[q]

(* Round-robin arbitration starves nobody: a request waits for the port to   *)
(* come free and for at most one grant of every other queue.                *)
ArbitrationBounded ==
  \A q \in requesting : waited[q] < NumQueues * ReadInterval

Obeyed(q, op) == {i \in 1 .. retired[q] : List(q)[i].op = op}
Notified == UNION {{q} \X Obeyed(q, "notify") : q \in Queues}

(* A NOTIFY of any queue reaches every queue exactly once: it is still      *)
(* local, on its way, held as a token, or was taken by one SYNC.            *)
NotifyConserved ==
  \A q \in Queues :
    tokens[q] + Cardinality(Obeyed(q, "sync")) + Len(barrierEvents) + Cardinality(emitted)
      = Cardinality(Notified)

(* A queue goes past the wait for a page only when all the writes of that   *)
(* page, in this task, are in SRAM.                                         *)
WaitsForPages ==
  \A q \in Queues : \A i \in Obeyed(q, "wait") :
    \A p \in task.pages[List(q)[i].tag] : <<task.generation, p>> \in visible

(* A task comes to its end: the shared port feeds every queue, and the      *)
(* queues, which wait for each other and for pages, do not block each other *)
(* for ever, unless issue is held, the task is replaced or a cache is found *)
(* empty.                                                                   *)
TaskCompletes ==
  \A t \in Tasks :
    (task = t) ~> \/ task # t \/ (running /\ ~issue) \/ fault # "none"
                  \/ \A q \in Queues : Done(q)
=============================================================================
