---------------------------- MODULE ProgramLoader ----------------------------
(***************************************************************************)
(* The program loader (system/program_loader.hpp): it brings the images of *)
(* a program from DDR through a DMA of its own, a routed bus and a         *)
(* reassembly buffer into the i-MEMs and control RAMs of the ICU           *)
(* (system/icu.hpp), seals them, primes the queue frontends and starts the *)
(* program, in the cycle of system/c2c_dma_system.hpp: the loader ticks,   *)
(* the chip ticks, DDR ticks.  The runtime acts between cycles.            *)
(*                                                                         *)
(* Bytes are counted in units of four, the width of an i-MEM lane, and     *)
(* carry their image and position.  Absolute cycles are kept as distances. *)
(* What else the chip, the data DMAs and DDR have under way is one bit.    *)
(***************************************************************************)
EXTENDS Integers, Sequences, FiniteSets

CONSTANTS
  Programs,        \* the programs a runtime may submit
  Configs,         \* the configurations it may choose
  VectorBytes,     \* hw::kPhysicalVectorBytes
  ReassemblyBytes, \* kReassemblyBytes
  FifoDepth,       \* fifo_depth of the loader's DMA
  QueueCapacity, PoolCapacity, \* kQueueControlCapacity, kQueueControlPoolCapacity
  BarrierCapacity, \* kCommonBarrierCapacity
  MaxInstances,    \* 65535
  MaxGeneration    \* UINT64_MAX

Stores == {"Imem", "TransportImem", "Qctl", "Barr", "QueueEvents", "BarrierEvents"}

(* A queue; those of kind Other have no packed Macro codec.                *)
Kinds == {"Mem", "MxmLoad", "MxmCompute", "MxmDequant", "Other"}
Queue == [kind : Kinds, index : Nat]

(* What the words of a control image say.  An event is bound to completion *)
(* instances by source 2; words that follow a record are its instances.    *)
Control == [cycle : Nat, opcode : {"Sync", "WaitEvent", "Notify", "MemPacket", "Invalid"},
            operand : Nat]
Barrier == [stop : Nat, event : Nat]
Binding == [event : Nat, source : Nat, instances : Seq(Nat)]

(* ProgramImage: a store of a queue, words of a physical width, and for a  *)
(* control image the records they hold, with the words left after the last *)
(* whole record.                                                           *)
Image == [store : Stores, queue : Queue, macro : BOOLEAN, width : 1 .. ReassemblyBytes,
          words : Nat, table : Seq(Control) \cup Seq(Barrier) \cup Seq(Binding), rest : Nat]

Slots(B) == UNION {{b} \X DOMAIN B[b].instances : b \in DOMAIN B}

(* The records an image of that many words can hold.                       *)
Holds(m) ==
  CASE m.store = "Qctl" -> m.table \in Seq(Control) /\ m.words = Len(m.table) /\ m.rest = 0
    [] m.store = "Barr" -> m.table \in Seq(Barrier) /\ m.words = Len(m.table) /\ m.rest = 0
    [] m.store = "QueueEvents" ->
         /\ m.table \in Seq(Binding)
         /\ m.words = 3 * Len(m.table) + Cardinality(Slots(m.table)) + m.rest
    [] m.store = "BarrierEvents" ->
         /\ m.table \in Seq(Binding) /\ \A b \in DOMAIN m.table : m.table[b].source = 2
         /\ m.words = 2 * Len(m.table) + Cardinality(Slots(m.table)) + m.rest
    [] OTHER -> m.table = <<>> /\ m.rest = 0

IsProgram(p) ==
  /\ p.images \in Seq(Image) /\ p.generation \in 0 .. MaxGeneration
  /\ \A i \in DOMAIN p.images : Holds(p.images[i])

(* ProgramLoadConfig::validate()                                           *)
Config == [bus : Nat \ {0}, route : Nat \ {0}, interval : Nat \ {0}, commit : Nat \ {0}]

ASSUME LoaderAssumption ==
  /\ \A p \in Programs : IsProgram(p)
  /\ Configs \subseteq Config /\ Configs # {}
  /\ {VectorBytes, ReassemblyBytes, FifoDepth, MaxGeneration} \subseteq Nat \ {0}
  /\ {QueueCapacity, PoolCapacity, BarrierCapacity, MaxInstances} \subseteq Nat

VARIABLES
  (* the loader                                                            *)
  state, config, images, generation,
  current,        \* current_, from 1
  startRequested, dependencies,
  kernelDone,     \* stats_.kernel_done_cycle has a value
  routed, offset, \* routed_bytes_, vector_offset_
  accepted,       \* accepted_words_
  cooldown,       \* cycles until next_write_cycle_
  route,          \* route_: a packet is its bytes, an empty stage <<>>
  reassembly,     \* the bytes of words not complete yet
  commits,        \* writes accepted: [address, bytes, wait]
  (* its DMA                                                               *)
  unrequested,    \* vectors of the image not requested yet
  outstanding,    \* requests under way, in order
  answered,       \* how many of the first of them DDR has answered
  inbound,        \* vectors received, each its image and number
  (* the ICU                                                               *)
  rams,           \* per image, the words written
  sealed,         \* the images sealed
  barriers,       \* the image in committed_barriers_, 0 for none
  loading, issue, \* program_loading_, program_issue_enabled_
  computing,      \* ~program_queues_done()
  (* the rest of the system                                                *)
  traffic,        \* something else is not drained: units, data DMA, DDR
  stage, fault

progVars  == <<images, generation, config>>
runVars   == <<startRequested, dependencies, kernelDone>>
feedVars  == <<routed, offset, route>>
wordVars  == <<accepted, cooldown, reassembly>>
dmaVars   == <<unrequested, outstanding, answered, inbound>>
ramVars   == <<rams, sealed, barriers>>
icuVars   == <<loading, issue, computing>>
vars == <<progVars, runVars, feedVars, wordVars, dmaVars, ramVars, icuVars,
          state, current, commits, traffic, stage, fault>>

CeilDiv(a, b) == (a + b - 1) \div b
ByteCount(i)  == images[i].words * images[i].width
Vectors(m)    == CeilDiv(m.words * m.width, VectorBytes)

Busy     == state \in {"LoadQueue", "WaitCommit", "AllCommitted", "Prime", "Ready"}
Started  == state \in {"Started", "Draining", "Completed"}
DmaIdle  == unrequested = 0 /\ outstanding = 0
Drained  == DmaIdle /\ inbound = <<>>

Init ==
  /\ state = "Idle" /\ config \in Configs /\ images = <<>> /\ generation = 0
  /\ current = 1 /\ startRequested = FALSE /\ dependencies = FALSE /\ kernelDone = FALSE
  /\ routed = 0 /\ offset = 0 /\ accepted = 0 /\ cooldown = 0
  /\ route = <<>> /\ reassembly = <<>> /\ commits = <<>>
  /\ unrequested = 0 /\ outstanding = 0 /\ answered = 0 /\ inbound = <<>>
  /\ rams = <<>> /\ sealed = {} /\ barriers = 0
  /\ loading = FALSE /\ issue = TRUE /\ computing = FALSE
  /\ traffic = FALSE /\ stage = "runtime" /\ fault = "none"
----------------------------------------------------------------------------
(* The runtime, between cycles.                                            *)

Runtime == fault = "none" /\ stage = "runtime"

(* configure()                                                             *)
Configure(c) ==
  /\ Runtime /\ ~Busy
  /\ config' = c
  /\ UNCHANGED <<images, generation, runVars, feedVars, wordVars, dmaVars, ramVars, icuVars,
                 state, current, commits, traffic, stage, fault>>

CanLoadProgram ==
  /\ ~Busy /\ (Started => kernelDone)
  /\ Drained /\ commits = <<>> /\ reassembly = <<>>
  /\ \A s \in DOMAIN route : route[s] = <<>>
  /\ ~computing /\ ~traffic

Has(p, store) == \E i \in DOMAIN p.images : p.images[i].store = store

(* Mutant: control RAMs may come before the i-MEMs.                        *)
AnyOrder(s) == 0

Group(s) == CASE s = "Imem" -> 0 [] s = "TransportImem" -> 1
              [] s \in {"Qctl", "Barr"} -> 2 [] OTHER -> 3

(* validate_program_image(): widths and lengths, never what is stored.     *)
Geometry(m) ==
  /\ m.store = "Imem" /\ m.macro => m.words > 0 /\ m.queue.kind # "Other"
  /\ m.store = "TransportImem" => ~m.macro /\ m.queue.kind = "Mem"
  /\ m.store = "Qctl" => m.width = 3 /\ m.words <= QueueCapacity /\ m.queue.kind # "Other"
  /\ m.store \in {"Barr", "QueueEvents", "BarrierEvents"} => m.queue = [kind |-> "Mem", index |-> 0]
  /\ m.store = "Barr" => m.width = 2 /\ m.words <= BarrierCapacity
  /\ m.store \in {"QueueEvents", "BarrierEvents"} => m.width = 1 /\ m.words <= 4 * MaxInstances

(* The checks of submit() before it changes anything.                      *)
ValidProgram(p) ==
  LET M == p.images
  IN /\ \A i, j \in DOMAIN M : i < j =>
          /\ Group(M[i].store) <= Group(M[j].store)
          /\ <<M[i].store, M[i].queue>> # <<M[j].store, M[j].queue>>
     /\ ~((Has(p, "Qctl") \/ Has(p, "QueueEvents")) /\ (Has(p, "Barr") \/ Has(p, "BarrierEvents")))
     /\ \A i \in DOMAIN M :
          /\ Geometry(M[i])
          /\ M[i].store = "Qctl" => \E j \in DOMAIN M :
               M[j].store = "Imem" /\ M[j].macro /\ M[j].queue = M[i].queue
     /\ Has(p, "Qctl") => Has(p, "QueueEvents")
     /\ Has(p, "Barr") \/ Has(p, "BarrierEvents") => Has(p, "Barr") /\ Has(p, "BarrierEvents")
     /\ p.generation = 0 => \A i \in DOMAIN M : M[i].store \in {"Imem", "TransportImem"}
     /\ IF p.generation = 0 THEN generation < MaxGeneration ELSE p.generation > generation

(* begin_queue()                                                           *)
BeginQueue(m) ==
  /\ state' = "LoadQueue"
  /\ unrequested' = Vectors(m)

(* submit(): the program reset, and the first image.                       *)
Submit(p) ==
  /\ Runtime /\ CanLoadProgram /\ ValidProgram(p)
  /\ images' = p.images
  /\ generation' = (IF p.generation # 0 THEN p.generation ELSE generation + 1)
  /\ rams' = [i \in DOMAIN p.images |-> <<>>] /\ sealed' = {} /\ barriers' = 0
  /\ loading' = TRUE /\ issue' = FALSE /\ computing' = FALSE
  /\ startRequested' = FALSE /\ dependencies' = FALSE /\ kernelDone' = FALSE
  /\ current' = 1 /\ routed' = 0 /\ offset' = 0 /\ accepted' = 0 /\ cooldown' = 0
  /\ route' = [s \in 1 .. config.route |-> <<>>]
  /\ reassembly' = <<>> /\ commits' = <<>>
  /\ IF p.images = <<>>
     THEN state' = "AllCommitted" /\ UNCHANGED unrequested
     ELSE BeginQueue(p.images[1])
  /\ UNCHANGED <<config, outstanding, answered, inbound, traffic, stage, fault>>

RequestStart ==
  /\ Runtime /\ ~startRequested /\ startRequested' = TRUE
  /\ UNCHANGED <<progVars, dependencies, kernelDone, feedVars, wordVars, dmaVars, ramVars,
                 icuVars, state, current, commits, traffic, stage, fault>>

SetDependenciesReady(b) ==
  /\ Runtime /\ dependencies' = b
  /\ UNCHANGED <<progVars, startRequested, kernelDone, feedVars, wordVars, dmaVars, ramVars,
                 icuVars, state, current, commits, traffic, stage, fault>>
----------------------------------------------------------------------------
(* tick()                                                                  *)

Ticking(s) == fault = "none" /\ stage = s

BeginCycle ==
  /\ Runtime
  /\ stage' = (CASE ~Busy -> "chip" [] state = "Ready" -> "start"
                 [] state \in {"AllCommitted", "Prime"} -> "prime" [] OTHER -> "commit")
  /\ issue' = (issue /\ ~Busy)
  /\ UNCHANGED <<progVars, runVars, feedVars, wordVars, dmaVars, ramVars, loading, computing,
                 state, current, commits, traffic, fault>>

(* A primed program starts when it was asked for and its data is there.    *)
TickReady ==
  /\ Ticking("start")
  /\ IF startRequested /\ dependencies
     THEN state' = "Started" /\ loading' = FALSE /\ issue' = TRUE
     ELSE UNCHANGED <<state, loading, issue>>
  /\ stage' = "chip"
  /\ UNCHANGED <<progVars, runVars, feedVars, wordVars, dmaVars, ramVars, computing,
                 current, commits, traffic, fault>>

(* The frontends prefetch one more cycle; ready: all of them are filled.   *)
TickPrime(ready) ==
  /\ Ticking("prime")
  /\ state' = (IF ready THEN "Ready" ELSE "Prime")
  /\ stage' = "chip"
  /\ UNCHANGED <<progVars, runVars, feedVars, wordVars, dmaVars, ramVars, icuVars,
                 current, commits, traffic, fault>>

(* The writes whose commit latency is over.                                *)
Due == Cardinality({k \in DOMAIN commits : commits[k].wait = 0})
Written == rams[current] \o [k \in 1 .. Due |-> commits[k].bytes]

(* write_program_word(): a control RAM refuses a word out of sequence.     *)
InSequence ==
  images[current].store \in {"Imem", "TransportImem"}
    \/ \A k \in 1 .. Due : commits[k].address = Len(rams[current]) + k - 1

(* validate_queue_control_entries(), and the width of an opcode.           *)
ControlsValid(T) ==
  \A k \in DOMAIN T :
    /\ \A j \in 1 .. k - 1 : T[j].cycle <= T[k].cycle
    /\ T[k].opcode # "Invalid"
    /\ T[k].operand # 0 => T[k].opcode \in {"WaitEvent", "MemPacket"}
    /\ T[k].opcode = "MemPacket" => T[k].operand # 0
HasPackets(T) == \E k \in DOMAIN T : T[k].opcode = "MemPacket"

(* The entries of the shared pool that images S of program M take.         *)
PoolEntries(M, S) ==
  {e \in S \X (1 .. QueueCapacity) : M[e[1]].store = "Qctl" /\ e[2] <= M[e[1]].words}

(* The records are read to the last word, and have a source.               *)
EventsWhole(m) ==
  /\ m.rest = 0
  /\ \A k \in DOMAIN m.table :
       /\ Len(m.table[k].instances) <= MaxInstances
       /\ m.table[k].source = 2 \/ (m.table[k].source = 1 /\ m.table[k].instances = <<>>)
Bindings(m) == SelectSeq(m.table, LAMBDA b : b.source = 2)

(* configure() of either event memory: an instance completes one event.    *)
BindingsValid(B) ==
  /\ \A b \in DOMAIN B : B[b].event # 0 /\ B[b].instances # <<>>
  /\ \A a, b \in DOMAIN B : a # b => B[a].event # B[b].event
  /\ \A x, y \in Slots(B) : x # y => B[x[1]].instances[x[2]] # B[y[1]].instances[y[2]]
  /\ Cardinality(Slots(B)) <= MaxInstances

(* The BARR table has a barrier for each bound event, at growing cycles.   *)
BarriersBound(T, B) ==
  /\ Len(B) = Len(T)
  /\ \A j, k \in DOMAIN T : j < k => T[j].stop < T[k].stop /\ T[j].event # T[k].event
  /\ \A k \in DOMAIN T : \E b \in DOMAIN B : B[b].event = T[k].event
  /\ \A b \in DOMAIN B : \E k \in DOMAIN T : B[b].event = T[k].event

(* seal_program_image(): what the ICU holds when image i is complete       *)
(* decides whether it can be put to use; otherwise it throws.  Generations *)
(* are fresh, submit() saw to that.                                        *)
InMacroMode(q) == \E j \in sealed : images[j].store = "Imem" /\ images[j].macro /\ images[j].queue = q
CommittedBarriers == IF barriers = 0 THEN <<>> ELSE images[barriers].table

Sealable(i) ==
  LET m == images[i]
  IN /\ m.store = "Qctl" =>
          /\ InMacroMode(m.queue)
          /\ Cardinality(PoolEntries(images, sealed \cup {i})) <= PoolCapacity
          /\ ControlsValid(m.table)
          /\ HasPackets(m.table) => InMacroMode([m.queue EXCEPT !.kind = "Mem"])
     /\ m.store \in {"QueueEvents", "BarrierEvents"} =>
          EventsWhole(m) /\ BindingsValid(Bindings(m))
     /\ m.store = "BarrierEvents" => BarriersBound(CommittedBarriers, Bindings(m))

Seal(i) ==
  /\ sealed' = sealed \cup {i}
  /\ barriers' = (IF images[i].store = "Barr" THEN i ELSE barriers)
  /\ computing' = (computing \/ (images[i].words > 0
                     /\ images[i].store \in {"Imem", "TransportImem", "BarrierEvents"}))

(* Mutant: the next image is begun before the last word is committed.      *)
NextQueueEarly == accepted = images[current].words

ImageWritten == Len(Written) = images[current].words

CommitWords ==
  /\ commits' = SubSeq(commits, Due + 1, Len(commits))
  /\ rams' = [rams EXCEPT ![current] = Written]

Throw(wrong) == fault' = (IF wrong THEN "exception" ELSE fault)

TickCommit ==
  /\ Ticking("commit") /\ ~ImageWritten
  /\ CommitWords
  /\ Throw(~InSequence)
  /\ stage' = "accept"
  /\ UNCHANGED <<progVars, runVars, feedVars, wordVars, dmaVars, sealed, barriers, icuVars,
                 state, current, traffic>>

(* The last word of an image: seal it and go on to the next one.           *)
TickImageCommitted ==
  /\ Ticking("commit") /\ ImageWritten /\ Sealable(current)
  /\ CommitWords
  /\ Throw(~InSequence)
  /\ Seal(current)
  /\ IF current = Len(images)
     THEN /\ state' = "AllCommitted"
          /\ UNCHANGED <<unrequested, routed, offset, accepted, cooldown>>
     ELSE /\ BeginQueue(images[current + 1])
          /\ routed' = 0 /\ offset' = 0 /\ accepted' = 0 /\ cooldown' = 0
  /\ current' = current + 1
  /\ stage' = "chip"
  /\ UNCHANGED <<progVars, runVars, route, reassembly, outstanding, answered, inbound,
                 loading, issue, traffic>>

(* It cannot be sealed: tick() throws, now and whenever it is called again *)
(* before a reset, and the loader stays busy with half a program.          *)
TickSealFails ==
  /\ Ticking("commit") /\ ImageWritten /\ ~Sealable(current)
  /\ CommitWords
  /\ fault' = "exception"
  /\ UNCHANGED <<progVars, runVars, feedVars, wordVars, dmaVars, sealed, barriers, icuVars,
                 state, current, traffic, stage>>

Width == images[current].width

(* Mutant: a word is accepted only when a byte of the next one is there.   *)
CanWriteLate == Len(reassembly) > Width /\ cooldown = 0 /\ Len(commits) <= config.commit

CanWrite == Len(reassembly) >= Width /\ cooldown = 0 /\ Len(commits) <= config.commit

(* A complete word is accepted: it becomes visible a commit latency later. *)
TickAccept ==
  /\ Ticking("accept")
  /\ IF CanWrite
     THEN /\ commits' = Append(commits, [address |-> accepted, wait |-> config.commit,
                                         bytes |-> SubSeq(reassembly, 1, Width)])
          /\ reassembly' = SubSeq(reassembly, Width + 1, Len(reassembly))
          /\ accepted' = accepted + 1 /\ cooldown' = config.interval
     ELSE UNCHANGED <<commits, wordVars>>
  /\ stage' = "route"
  /\ UNCHANGED <<progVars, runVars, feedVars, dmaVars, ramVars, icuVars, state, current,
                 traffic, fault>>

Least(S) == CHOOSE n \in S : \A m \in S : n <= m

(* Mutant: a packet takes no account of the end of the image.              *)
WholePacket == Least({config.bus, VectorBytes - offset})

PacketSize == Least({config.bus, VectorBytes - offset, ByteCount(current) - routed})

(* The bytes of the front vector from the offset on.                       *)
Packet == [b \in 1 .. PacketSize |->
             <<Head(inbound)[1], (Head(inbound)[2] - 1) * VectorBytes + offset + b>>]

Fits(p) == Len(reassembly) + Len(p) <= ReassemblyBytes

(* Route stages move from the end: each takes from a full stage before it  *)
(* if it is empty, or was just emptied.                                    *)
Delivered == route[config.route] # <<>> /\ Fits(route[config.route])
Moves[s \in 1 .. config.route] ==
  IF s = config.route THEN route[s] = <<>> \/ Delivered
                      ELSE route[s] = <<>> \/ Moves[s + 1]
Feeds == inbound # <<>> /\ routed < ByteCount(current) /\ Moves[1]
VectorDone == offset + PacketSize = VectorBytes \/ routed + PacketSize = ByteCount(current)

TickRoute ==
  /\ Ticking("route")
  /\ reassembly' = (IF Delivered THEN reassembly \o route[config.route] ELSE reassembly)
  /\ route' = [s \in 1 .. config.route |->
       IF ~Moves[s] THEN route[s]
       ELSE IF s > 1 THEN route[s - 1] ELSE IF Feeds THEN Packet ELSE <<>>]
  /\ IF Feeds
     THEN /\ routed' = routed + PacketSize
          /\ offset' = (IF VectorDone THEN 0 ELSE offset + PacketSize)
          /\ inbound' = (IF VectorDone THEN Tail(inbound) ELSE inbound)
     ELSE UNCHANGED <<routed, offset, inbound>>
  /\ stage' = "dma"
  /\ UNCHANGED <<progVars, runVars, accepted, cooldown, unrequested, outstanding, answered,
                 ramVars, icuVars, state, current, commits, traffic, fault>>

(* n: requests under way after this tick's answers were taken.             *)
HasCredit(n) == n + Len(inbound) + answered < FifoDepth

(* The DMA takes the vectors that were answered, in order, and sends one   *)
(* request if it has credit; free: DDR, which others use, can take it.     *)
TickDma(free) ==
  /\ Ticking("dma")
  /\ LET got == Vectors(images[current]) - unrequested - outstanding
         n   == outstanding - answered
         requests == unrequested > 0 /\ HasCredit(n) /\ free
     IN /\ inbound' = inbound \o [k \in 1 .. answered |-> <<current, got + k>>]
        /\ answered' = 0
        /\ unrequested' = (IF requests THEN unrequested - 1 ELSE unrequested)
        /\ outstanding' = (IF requests THEN n + 1 ELSE n)
        /\ state' = (IF unrequested = 0 /\ n = 0 THEN "WaitCommit" ELSE state)
  /\ stage' = "chip"
  /\ UNCHANGED <<progVars, runVars, feedVars, wordVars, ramVars, icuVars, current, commits,
                 traffic, fault>>

Closer(n) == IF n = 0 THEN 0 ELSE n - 1

(* The chip and DDR tick: queues that may issue may come to their end      *)
(* (done), other traffic comes and goes (other), DDR answers requests (n). *)
(* Then observe_completion().                                              *)
TickSystem(done, other, n) ==
  /\ Ticking("chip")
  /\ done => computing /\ issue /\ ~loading
  /\ n \in answered .. outstanding
  /\ computing' = (computing /\ ~done)
  /\ traffic' = other
  /\ answered' = n
  /\ commits' = [k \in DOMAIN commits |-> [commits[k] EXCEPT !.wait = Closer(@)]]
  /\ cooldown' = Closer(cooldown)
  /\ LET draining == state = "Draining" \/ (state = "Started" /\ ~computing')
         complete == draining /\ ~kernelDone /\ Drained /\ ~traffic'
     IN /\ kernelDone' = (kernelDone \/ complete)
        /\ state' = (IF complete THEN "Completed" ELSE IF draining THEN "Draining" ELSE state)
  /\ stage' = "runtime"
  /\ UNCHANGED <<progVars, startRequested, dependencies, feedVars, accepted, reassembly,
                 unrequested, outstanding, inbound, ramVars, loading, issue, current, fault>>

(* reset_execution_state() of the system resets every part, after an       *)
(* exception too.                                                          *)
ResetExecutionState ==
  /\ Runtime \/ fault # "none"
  /\ state' = "Idle" /\ images' = <<>> /\ generation' = 0
  /\ startRequested' = FALSE /\ dependencies' = FALSE /\ kernelDone' = FALSE
  /\ route' = <<>> /\ reassembly' = <<>> /\ commits' = <<>>
  /\ unrequested' = 0 /\ outstanding' = 0 /\ answered' = 0 /\ inbound' = <<>>
  /\ rams' = <<>> /\ sealed' = {} /\ barriers' = 0
  /\ loading' = FALSE /\ issue' = TRUE /\ computing' = FALSE /\ traffic' = FALSE
  /\ stage' = "runtime" /\ fault' = "none"
  /\ UNCHANGED <<config, current, routed, offset, accepted, cooldown>>

Cycle ==
  \/ BeginCycle \/ TickReady \/ (\E b \in BOOLEAN : TickPrime(b))
  \/ TickCommit \/ TickImageCommitted \/ TickSealFails \/ TickAccept \/ TickRoute
  \/ (\E b \in BOOLEAN : TickDma(b))
  \/ (\E d, o \in BOOLEAN, n \in 0 .. FifoDepth : TickSystem(d, o, n))

Next ==
  \/ \E c \in Configs : Configure(c)
  \/ \E p \in Programs : Submit(p)
  \/ RequestStart
  \/ \E b \in BOOLEAN : SetDependenciesReady(b)
  \/ Cycle
  \/ ResetExecutionState

Spec == Init /\ [][Next]_vars

(* The system is ticked forever; a frontend that is ticked is filled; DDR  *)
(* accepts a request again and again, and answers what it accepted.        *)
FairSpec ==
  /\ Spec /\ WF_vars(Cycle)
  /\ SF_vars(TickPrime(TRUE))
  /\ SF_vars(TickDma(TRUE))
  /\ SF_vars(answered < outstanding /\ \E d, o \in BOOLEAN : TickSystem(d, o, outstanding))
----------------------------------------------------------------------------
States == {"Idle", "LoadQueue", "WaitCommit", "AllCommitted", "Prime", "Ready", "Started",
           "Draining", "Completed"}
Bytes  == (DOMAIN images) \X (Nat \ {0})
Loading == state \in {"LoadQueue", "WaitCommit"}

TypeOK ==
  /\ state \in States /\ config \in Configs /\ generation \in 0 .. MaxGeneration
  /\ images \in Seq(Image) /\ current \in Nat \ {0} /\ (Loading => current \in DOMAIN images)
  /\ {startRequested, dependencies, kernelDone, loading, issue, computing, traffic} \subseteq BOOLEAN
  /\ {routed, offset, accepted, cooldown} \subseteq Nat
  /\ route \in Seq(Seq(Bytes)) /\ reassembly \in Seq(Bytes)
  /\ commits \in Seq([address : Nat, bytes : Seq(Bytes), wait : 0 .. config.commit])
  /\ {unrequested, outstanding} \subseteq Nat /\ answered \in 0 .. outstanding
  /\ inbound \in Seq(Bytes)
  /\ rams \in Seq(Seq(Seq(Bytes))) /\ DOMAIN rams = DOMAIN images
  /\ sealed \subseteq DOMAIN images /\ barriers \in {0} \cup DOMAIN images
  /\ stage \in {"runtime", "start", "prime", "commit", "accept", "route", "dma", "chip"}
  /\ fault \in {"none", "exception"}

WordOf(i, a) == [b \in 1 .. images[i].width |-> <<i, (a - 1) * images[i].width + b>>]

(* One destination at a time: all that is between DDR and the stores        *)
(* belongs to the image being loaded, within the credit of the FIFO and the *)
(* room of each buffer; between programs nothing is left.                   *)
OnlyCurrent(bytes) == \A k \in DOMAIN bytes : bytes[k][1] = current
OneImageInFlight ==
  /\ outstanding + Len(inbound) <= FifoDepth
  /\ Len(reassembly) <= ReassemblyBytes
  /\ Len(commits) <= config.commit + 1
  /\ OnlyCurrent(inbound) /\ OnlyCurrent(reassembly)
  /\ \A s \in DOMAIN route : OnlyCurrent(route[s])
  /\ ~Loading => /\ Drained /\ reassembly = <<>> /\ commits = <<>>
                 /\ \A s \in DOMAIN route : route[s] = <<>>

(* Whatever the widths of vectors, bus and words, each store gets the words *)
(* of its own image, whole and in order; an image is sealed only when all   *)
(* its words are visible, nothing is primed or issued before all images     *)
(* are, and no byte of one image is under way with those of another.        *)
ImagesIntact ==
  /\ OneImageInFlight
  /\ \A i \in DOMAIN images :
       /\ Len(rams[i]) <= images[i].words
       /\ \A a \in 1 .. Len(rams[i]) : rams[i][a] = WordOf(i, a)
       /\ i \in sealed => Len(rams[i]) = images[i].words
  /\ state \in {"AllCommitted", "Prime", "Ready"} \/ Started \/ (issue /\ ~loading)
       => sealed = DOMAIN images

(* A program that can be put to use, read as a whole and in no order: each  *)
(* control image makes sense, all queue controls fit in the pool, packets   *)
(* have a Macro queue of MEM, and the barriers are those of the events.     *)
WellFormed(M) ==
  /\ \A i \in DOMAIN M :
       /\ M[i].store = "Qctl" => ControlsValid(M[i].table)
       /\ M[i].store \in {"QueueEvents", "BarrierEvents"} =>
            EventsWhole(M[i]) /\ BindingsValid(Bindings(M[i]))
  /\ Cardinality(PoolEntries(M, DOMAIN M)) <= PoolCapacity
  /\ \A i \in DOMAIN M : M[i].store = "Qctl" /\ HasPackets(M[i].table) =>
       \E j \in DOMAIN M : /\ M[j].store = "Imem" /\ M[j].macro
                           /\ M[j].queue = [M[i].queue EXCEPT !.kind = "Mem"]
  /\ \A i, j \in DOMAIN M : M[i].store = "Barr" /\ M[j].store = "BarrierEvents" =>
       BarriersBound(M[i].table, Bindings(M[j]))

(* Of the programs that submit() accepted, tick() fails only for those that *)
(* are not well-formed, whatever was loaded before them, how their images   *)
(* are ordered and how their words arrive: every control RAM is written in  *)
(* sequence and sealed after all it refers to.  And for those it does fail, *)
(* after the old program was cleared: none of them is ever ready, or        *)
(* started.  (The comment at program_loader.hpp:153, "Validation precedes   *)
(* any mutation, including clearing the old program", is true of the form   *)
(* of the images only, not of what the control images say.)                 *)
FailsIffMalformed ==
  /\ fault # "none" => ~WellFormed(images)
  /\ state \in {"AllCommitted", "Prime", "Ready"} \/ Started => WellFormed(images)

(* Every load of a well-formed program that was accepted, in any            *)
(* configuration validate() accepts, comes to its end, unless the system is *)
(* reset.                                                                   *)
LoadCompletes == state = "LoadQueue" /\ WellFormed(images) ~> state \in {"Ready", "Idle"}
=============================================================================
