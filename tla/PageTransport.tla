---------------------------- MODULE PageTransport ----------------------------
(***************************************************************************)
(* How a page gets from the FIFOs of a DMA into SRAM: the shared C2C       *)
(* receiver (c2c/slice.hpp), the stream registers it writes                *)
(* (core/stream_fabric.hpp), the MEM queues whose MEM_WRITE_SYNC packets   *)
(* meet its vectors (icu/distributed_queue.hpp, system/icu.hpp) and the    *)
(* MEM slices with the commit scoreboard (mem/mem_array.hpp), for one      *)
(* hemisphere, in the cycle of system/tsp_slice_system.hpp.                *)
(*                                                                         *)
(* There is no buffer between the receiver and SRAM: a vector is in a      *)
(* given register in a given cycle only, and the Write that takes it must  *)
(* be issued in the one cycle that fits.                                   *)
(*                                                                         *)
(* A vector is its lane and number; a segment of it is the same on every   *)
(* tile.  The bank's queue in i-MEM is "native", the separate store for    *)
(* transport is "transport".  Streams run west, to lower columns.          *)
(***************************************************************************)
EXTENDS Integers, Sequences, FiniteSets, SequencesExt

CONSTANTS
  Tiles,         \* hw::kTileRows
  Edge,          \* the column of the receiver, the highest
  Banks,         \* the MEM queues
  Place,         \* the column a bank reads to; it writes from the one above
  Lanes,         \* transport lanes
  Programs,      \* without and with barriers, per store and bank, the program
  Receives,      \* per lane, the Receive instructions
  RowCount,      \* rows of a bank
  IqDepth, FetchLatency,
  MaxAge,        \* kMaxTaggedNotificationAge
  FifoDepth      \* of a lane's FIFO in the DMA

Stores == {"native", "transport"}
None   == <<>>

ASSUME TransportAssumption ==
  /\ {Tiles, Edge, RowCount, FetchLatency, MaxAge, FifoDepth} \subseteq Nat \ {0}
  /\ IqDepth \in Nat /\ IqDepth > 1
  /\ Place \in [Banks -> 0 .. Edge - 1]
  \* a page that may overlap a barrier is in the store for transport
  /\ \A b \in Banks : \A i \in DOMAIN Programs[TRUE]["native"][b] :
       Programs[TRUE]["native"][b][i].op # "sync"

(* An entry of a program: a packet with its synchronized header and Write, *)
(* a WAIT_EVENT for the page of a launch, or a Read.                       *)
Rows == 0 .. RowCount - 1
IsPacket(e) == e.op = "sync"

(* The words of a program: a packet has two, and is known by its entry:    *)
(* the words before an entry, and the entry that each word belongs to.      *)
Begin(p, i) == (i - 1) + Cardinality({j \in 1 .. i - 1 : IsPacket(p[j])})
WordsOf(p)  == [w \in 1 .. Begin(p, Len(p) + 1) |->
                  CHOOSE i \in DOMAIN p : Begin(p, i) < w /\ w <= Begin(p, i + 1)]
Queues    == Stores \X Banks
WordTable == [c \in BOOLEAN |-> [q \in Queues |-> WordsOf(Programs[c][q[1]][q[2]])]]

PacketTable == [c \in BOOLEAN |->
  UNION {{q} \X {i \in DOMAIN Programs[c][q[1]][q[2]] : IsPacket(Programs[c][q[1]][q[2]][i])}
         : q \in Queues}]
Entry(c, k) == Programs[c][k[1][1]][k[1][2]][k[2]]
Launches    == UNION {{Entry(c, k).launch : k \in PacketTable[c]} : c \in BOOLEAN}

(* The vectors a lane takes before its i-th Receive, and those it takes     *)
(* with a tag, for a bank.                                                 *)
VectorsBefore(l, i) == Cardinality(UNION {{j} \X (1 .. Receives[l][j].count) : j \in 1 .. i - 1})
TagsOf(l) == {<<r.bank, r.tag>> : r \in ToSet(Receives[l])}
VectorsOf == [x \in UNION {TagsOf(l) : l \in Lanes} |->
  LET l == CHOOSE m \in Lanes : x \in TagsOf(m)
      i == CHOOSE j \in DOMAIN Receives[l] : <<Receives[l][j].bank, Receives[l][j].tag>> = x
  IN [n \in 1 .. Receives[l][i].count |-> <<l, VectorsBefore(l, i) + n>>]]

(* What a schedule must observe, with and without barriers, since nothing   *)
(* checks it in advance.                                                   *)
BankOf(k)   == k[1][2]
RowOf(e, n) == e.row + (n - 1) * e.stride

(* The entries are what the encoders make, and the stores hold what is     *)
(* loaded into them: a bank has its packets in one store.                  *)
WellFormed(c) ==
  /\ \A q \in Queues : LET p == Programs[c][q[1]][q[2]] IN
       /\ p \in Seq(ToSet(p))
       /\ \A e \in ToSet(p) :
            \/ IsPacket(e) /\ {e.count, e.reserve} \subseteq Nat \ {0} /\ e.row \in Nat /\ e.stride \in Int
            \/ q[1] = "native" /\ e.op \in {"wait", "read"}
  /\ \A j, k \in PacketTable[c] : BankOf(j) = BankOf(k) => j[1] = k[1]

(* Every Receive has its packet, the only one of the bank with its tag.    *)
ReceivesMatched(c) ==
  /\ \A l \in Lanes : Receives[l] \in Seq(ToSet(Receives[l]))
  /\ \A l, m \in Lanes : \A i \in DOMAIN Receives[l], j \in DOMAIN Receives[m] :
       LET r == Receives[l][i]
           s == Receives[m][j]
       IN /\ r.bank = s.bank /\ r.tag = s.tag => l = m /\ i = j
          /\ r.stream = s.stream => l = m
  /\ \A l \in Lanes : \A r \in ToSet(Receives[l]) :
       \E k \in PacketTable[c] : LET e == Entry(c, k)
                               IN <<BankOf(k), e.tag, e.count, e.stream>> = <<r.bank, r.tag, r.count, r.stream>>
  /\ \A j, k \in PacketTable[c] : BankOf(j) = BankOf(k) /\ Entry(c, j).tag = Entry(c, k).tag => j = k
  /\ \A k \in PacketTable[c] : \E l \in Lanes : <<BankOf(k), Entry(c, k).tag>> \in TagsOf(l)

(* The delay of a packet is the columns its vectors travel; i-MEM answers  *)
(* in the next cycle, as in config/ftlpu-lpu32.json.                       *)
Timed(c) ==
  /\ FetchLatency = 1
  /\ \A k \in PacketTable[c] : /\ Entry(c, k).delay = Edge - Place[BankOf(k)] - 1
                               /\ Entry(c, k).delay < MaxAge

(* A row of a bank is written once, a launch has one packet in a bank.     *)
RowsApart(c) ==
  \A j, k \in PacketTable[c] :
    LET d == Entry(c, j)
        e == Entry(c, k)
    IN /\ \A n \in 1 .. e.count : RowOf(e, n) \in Rows
       /\ BankOf(j) = BankOf(k) =>
            /\ d.launch = e.launch => j = k
            /\ \A m \in 1 .. d.count, n \in 1 .. e.count : RowOf(d, m) = RowOf(e, n) => j = k /\ m = n

(* A Read comes after its page: behind the packet, or behind a WAIT_EVENT  *)
(* for its launch, and behind one for all that transport brings the bank.  *)
(* Its stream is no lane's and no other bank's.                            *)
Waited(c, b, i, launch) ==
  \E j \in 1 .. i - 1 : LET e == Programs[c]["native"][b][j] IN e.op = "wait" /\ e.launch = launch
ReadsOf(c, b) == {i \in DOMAIN Programs[c]["native"][b] : Programs[c]["native"][b][i].op = "read"}
ReadsAwait(c) ==
  \A b \in Banks : \A i \in ReadsOf(c, b) :
    LET r == Programs[c]["native"][b][i] IN
    /\ \E k \in PacketTable[c] :
         LET e == Entry(c, k)
         IN /\ BankOf(k) = b
            /\ (k[1] = <<"native", b>> /\ k[2] < i) \/ Waited(c, b, i, e.launch)
            /\ \E n \in 1 .. e.count : /\ r.row = RowOf(e, n)
                                     /\ r.sees = VectorsOf[<<b, e.tag>>][n]
    /\ \A k \in PacketTable[c] : k[1] = <<"transport", b>> => Waited(c, b, i, Entry(c, k).launch)
    /\ \A l \in Lanes : \A s \in ToSet(Receives[l]) : r.stream # s.stream
    /\ \A d \in Banks \ {b} : \A j \in ReadsOf(c, d) : r.stream # Programs[c]["native"][d][j].stream

(* An event of a queue stands for one launch, and is no packet's tag.      *)
EventsApart(c) ==
  \A b \in Banks : LET p == Programs[c]["native"][b] IN
    \A i \in DOMAIN p : p[i].op = "wait" =>
      /\ \A j \in DOMAIN p : p[j].op = "wait" /\ p[j].event = p[i].event => p[j].launch = p[i].launch
      /\ \A k \in PacketTable[c] : BankOf(k) = b => Entry(c, k).tag # p[i].event

Scheduled ==
  \A c \in BOOLEAN : /\ WellFormed(c) /\ ReceivesMatched(c) /\ Timed(c)
                     /\ RowsApart(c) /\ ReadsAwait(c) /\ EventsApart(c)

VARIABLES
  barriers,    \* the common barrier controller is configured
  held,        \* ~compute_enabled_ in this cycle
  fetched,     \* per queue, words fetched or being fetched
  pending,     \* per queue, the cycles until each fetch under way is over
  iq,          \* per queue, the words in the IQ
  active,      \* per queue, the packet under way: entry (0: none), left, elapsed
  tokens,      \* per queue, synchronized_notifications_: [tag, age]
  slots,       \* MEM instructions under way, each at its tile
  sram,        \* per bank, row and tile, the segment
  committed,   \* per launch and bank, segments committed
  arrived, popped,        \* per lane, vectors in and out of the DMA's FIFO
  receive, received,      \* per lane, its current instruction, vectors of it taken
  pipe,        \* the receiver's pipelines: vectors, each at its tile (0: ingress)
  cells,       \* the current bank of stream registers
  staged,      \* the next bank
  consumed,    \* current cells some unit consumed
  notified,    \* <<bank, launch>>: WAIT_EVENTs the runtime has released
  stage, fault

queueVars  == <<fetched, pending, iq, active>>
memVars    == <<slots, sram, committed>>
laneVars   == <<popped, receive, received, pipe>>
streamVars == <<cells, staged, consumed>>
vars == <<barriers, held, queueVars, tokens, memVars, arrived, laneVars, streamVars,
          notified, stage, fault>>

Idle == [entry |-> 0, left |-> 0, elapsed |-> 0]
Least(S) == CHOOSE n \in S : \A m \in S : n <= m

Program(q)  == Programs[barriers][q[1]][q[2]]
Words(q)    == WordTable[barriers][q]
Packets     == PacketTable[barriers]
PacketOf(k) == Entry(barriers, k)

(* The IQ is primed when a queue is launched: ensure_configured().         *)
Init ==
  /\ barriers \in BOOLEAN /\ held = FALSE
  /\ fetched = [q \in Queues |-> Least({IqDepth, Len(Words(q))})]
  /\ iq = [q \in Queues |-> SubSeq(Words(q), 1, fetched[q])]
  /\ pending = [q \in Queues |-> <<>>] /\ active = [q \in Queues |-> Idle]
  /\ tokens = [q \in Queues |-> <<>>]
  /\ slots = {} /\ sram = [b \in Banks |-> [x \in Rows \X (1 .. Tiles) |-> None]]
  /\ committed = [x \in Launches \X Banks |-> 0]
  /\ arrived = [l \in Lanes |-> 0] /\ popped = [l \in Lanes |-> 0]
  /\ receive = [l \in Lanes |-> 1] /\ received = [l \in Lanes |-> 0]
  /\ pipe = {} /\ cells = {} /\ staged = {} /\ consumed = {}
  /\ notified = {} /\ stage = "runtime" /\ fault = "none"
----------------------------------------------------------------------------
(* One cycle of a queue.  The operators take the queue as a record of its  *)
(* variables, out is the instruction it issues.                            *)

QueueAt(q) == [fetched |-> fetched[q], pending |-> pending[q], iq |-> iq[q],
               active |-> active[q], tokens |-> tokens[q], out |-> None]

(* commit_ready_fetch(): fetches end in order.                             *)
CommitReadyFetch(x, q) ==
  LET ready == Cardinality({k \in DOMAIN x.pending : x.pending[k] = 0})
      first == x.fetched - Len(x.pending)
  IN [x EXCEPT !.iq = @ \o SubSeq(Words(q), first + 1, first + ready),
               !.pending = SubSeq(@, ready + 1, Len(@))]

BeginFetch(x, q) ==
  IF x.fetched < Len(Words(q)) /\ Len(x.iq) + Len(x.pending) < IqDepth
  THEN [x EXCEPT !.fetched = @ + 1, !.pending = Append(@, FetchLatency)]
  ELSE x

AgeFetches(x) == [x EXCEPT !.pending = [k \in DOMAIN @ |-> IF @[k] > 0 THEN @[k] - 1 ELSE 0]]

AgedToken(t) == [t EXCEPT !.age = IF @ < MaxAge THEN @ + 1 ELSE @]
AgeTokens(x) == [x EXCEPT !.tokens = [k \in DOMAIN @ |-> AgedToken(@[k])]]

TokensFor(x, tag) == {k \in DOMAIN x.tokens : x.tokens[k].tag = tag}
Erase(x, tag) == [x EXCEPT !.tokens = RemoveAt(@, Least(TokensFor(x, tag)))]

(* try_activate_front_synchronized(): both words must be there.            *)
Activate(x, q) ==
  IF x.active.entry # 0 \/ Len(x.iq) < 2 THEN x
  ELSE [x EXCEPT !.iq = SubSeq(@, 3, Len(@)),
                 !.active = [entry |-> x.iq[1], left |-> Program(q)[x.iq[1]].count, elapsed |-> 0]]

(* finishReservationCycle; elapsed counts no further than is compared.     *)
FinishReservationCycle(x, q) ==
  LET reserve == Program(q)[x.active.entry].reserve
      elapsed == Least({x.active.elapsed + 1, reserve})
  IN [x EXCEPT !.active = IF @.left = 0 /\ elapsed = reserve THEN Idle
                                        ELSE [@ EXCEPT !.elapsed = elapsed]]

Due(x, e) == LET K == TokensFor(x, e.tag)
             IN K # {} /\ x.tokens[Least(K)].age >= e.delay + 1

(* Mutant: the stride is applied to the first vector too.                  *)
WriteNext(e, left) == [op |-> "write", row |-> RowOf(e, (e.count - left) + 2),
                       stream |-> e.stream, launch |-> e.launch, sees |-> None]

WriteOf(e, left) == [op |-> "write", row |-> RowOf(e, (e.count - left) + 1),
                     stream |-> e.stream, launch |-> e.launch, sees |-> None]

(* The packet under way in a cycle.                                        *)
TickPacket(x, q) ==
  LET e == Program(q)[x.active.entry]
  IN IF x.active.left > 0 /\ Due(x, e)
     THEN FinishReservationCycle(
            [Erase(x, e.tag) EXCEPT !.out = WriteOf(e, x.active.left),
                                    !.active.left = @ - 1], q)
     ELSE FinishReservationCycle(x, q)

(* tick_synchronized()                                                     *)
TickSynchronized(x, q) ==
  LET a == Activate(x, q)
  IN IF a.active.entry = 0 THEN a ELSE TickPacket(a, q)

AtPacket(x, q) == x.active.entry # 0 \/ (x.iq # <<>> /\ IsPacket(Program(q)[x.iq[1]]))

(* A WAIT_EVENT at the head whose token is there takes it, and lets the    *)
(* next entry go in the same cycle, which may be another one.              *)
ReleaseOne(x, q) ==
  LET e == Program(q)[x.iq[1]]
  IN IF x.iq # <<>> /\ e.op = "wait" /\ TokensFor(x, e.event) # {}
     THEN [Erase(x, e.event) EXCEPT !.iq = Tail(@)]
     ELSE x

Release(x, q) ==
  LET after[n \in 0 .. Len(x.iq)] == IF n = 0 THEN x ELSE ReleaseOne(after[n - 1], q)
  IN after[Len(x.iq)]

IssueRead(x, q) ==
  LET e == Program(q)[x.iq[1]]
  IN [x EXCEPT !.iq = Tail(@), !.out = [op |-> "read", row |-> e.row, stream |-> e.stream,
                                        launch |-> 0, sees |-> e.sees]]

(* dispatch_ready_raw_entry(), for what these programs hold.               *)
DispatchReady(x, q) ==
  LET w == IF x.active.entry # 0 THEN x ELSE Release(x, q)
  IN IF AtPacket(w, q) THEN TickSynchronized(w, q)
     ELSE IF w.iq = <<>> \/ Program(q)[w.iq[1]].op = "wait" THEN w ELSE IssueRead(w, q)

(* The queue has nothing though its program goes on.                       *)
Underflows(x, q) == /\ x.active.entry = 0 /\ x.iq = <<>>
                    /\ (x.fetched < Len(Words(q)) \/ x.pending # <<>>)

Tick(q) ==
  LET x == DispatchReady(CommitReadyFetch(QueueAt(q), q), q)
  IN AgeTokens(AgeFetches(BeginFetch(x, q)))

(* tick_transport_only(): only a packet at the head goes on.               *)
TickTransportOnly(q) ==
  LET x == CommitReadyFetch(QueueAt(q), q)
      y == IF AtPacket(x, q) THEN TickSynchronized(x, q) ELSE x
  IN AgeTokens(AgeFetches(BeginFetch(y, q)))

HoldComputeCycle(q) == AgeTokens(AgeFetches(CommitReadyFetch(QueueAt(q), q)))

TickQueue(q) ==
  IF q[1] = "transport" \/ ~held THEN Tick(q)
  ELSE IF barriers THEN HoldComputeCycle(q) ELSE TickTransportOnly(q)

UnderflowAt(q) == /\ q[1] = "transport" \/ ~held
                  /\ Underflows(CommitReadyFetch(QueueAt(q), q), q)
----------------------------------------------------------------------------
Running(s) == fault = "none" /\ stage = s

(* The cycle begins.  h: the program's issue is disabled, or a barrier     *)
(* holds; A: lanes to which DDR's answers bring a vector.                  *)
Expected == [l \in Lanes |-> VectorsBefore(l, Len(Receives[l]) + 1)]
MayArrive(l) == arrived[l] < Expected[l] /\ arrived[l] - popped[l] < FifoDepth

BeginCycle(h, A) ==
  /\ Running("runtime")
  /\ \A l \in A : MayArrive(l)
  /\ held' = h
  /\ arrived' = [l \in Lanes |-> IF l \in A THEN arrived[l] + 1 ELSE arrived[l]]
  /\ stage' = "dispatch"
  /\ UNCHANGED <<barriers, queueVars, tokens, memVars, laneVars, streamVars, notified, fault>>

(* The part of dispatch() on MEM queues: a bank has one issue port.        *)
Dispatch ==
  /\ Running("dispatch")
  /\ LET after == [q \in Queues |-> TickQueue(q)]
         issued == {q \in Queues : after[q].out # None}
     IN /\ fetched' = [q \in Queues |-> after[q].fetched]
        /\ pending' = [q \in Queues |-> after[q].pending]
        /\ iq' = [q \in Queues |-> after[q].iq]
        /\ active' = [q \in Queues |-> after[q].active]
        /\ tokens' = [q \in Queues |-> after[q].tokens]
        /\ slots' = slots \cup {[bank |-> q[2], tile |-> 1, instruction |-> after[q].out] : q \in issued}
        /\ fault' = (IF \E q \in Queues : UnderflowAt(q) THEN "underflow"
                     ELSE IF \E p, q \in issued : p # q /\ p[2] = q[2] THEN "contention"
                     ELSE fault)
  /\ stage' = "mem"
  /\ UNCHANGED <<barriers, held, sram, committed, arrived, laneVars, streamVars, notified>>

(* The register a Write takes its segment from, and what it finds there.   *)
Source(s) == {c \in cells : /\ c.column = Place[s.bank] + 1 /\ c.tile = s.tile
                            /\ c.stream = s.instruction.stream}
Writes == {s \in slots : s.instruction.op = "write"}
Reads  == {s \in slots : s.instruction.op = "read"}

(* Mutant: vectors are expected, not the segments of all tiles.            *)
VectorsExpected(l, b) == LET K == {k \in Packets : PacketOf(k).launch = l /\ BankOf(k) = b}
                         IN IF K = {} THEN 0 ELSE PacketOf(CHOOSE k \in K : TRUE).count

(* configure_transport_commit(): one owner for a launch and a bank.        *)
SegmentsExpected(l, b) ==
  LET K == {k \in Packets : PacketOf(k).launch = l /\ BankOf(k) = b}
  IN IF K = {} THEN 0 ELSE PacketOf(CHOOSE k \in K : TRUE).count * Tiles

(* The Writes that find a vector, the one of a segment of SRAM, and what it *)
(* writes.                                                                  *)
Good         == {s \in Writes : \E c \in Source(s) : c.transport}
Writer(b, x) == {s \in Good : s.bank = b /\ <<s.instruction.row, s.tile>> = x}
Payload(s)   == (CHOOSE c \in Source(s) : TRUE).data

(* execute_read() sees SRAM before execute_write() changes it; both for     *)
(* all tiles; advance_instructions().                                      *)
EvaluateMem ==
  /\ Running("mem")
  /\ sram' = [b \in Banks |-> [x \in DOMAIN sram[b] |->
                IF Writer(b, x) = {} THEN sram[b][x] ELSE Payload(CHOOSE s \in Writer(b, x) : TRUE)]]
  /\ committed' = [x \in DOMAIN committed |-> committed[x]
       + Cardinality({s \in Good : <<s.instruction.launch, s.bank>> = x})]
  /\ consumed' = UNION {Source(s) : s \in Writes}
  /\ staged' = {[column |-> Place[s.bank], tile |-> s.tile, stream |-> s.instruction.stream,
                 data |-> sram[s.bank][<<s.instruction.row, s.tile>>], transport |-> FALSE]
                : s \in Reads}
  /\ fault' = (IF \E s \in Writes : Source(s) = {} THEN "no payload"
               ELSE IF Good # Writes THEN "computation data" ELSE fault)
  /\ slots' = {[s EXCEPT !.tile = @ + 1] : s \in {r \in slots : r.tile < Tiles}}
  /\ stage' = "c2c"
  /\ UNCHANGED <<barriers, held, queueVars, tokens, arrived, laneVars, cells, notified>>

(* Mutant: a vector is taken as soon as it is there.                       *)
AcceptsAny(q, tag) == Program(q) # <<>> /\ \E k \in DOMAIN Program(q) :
                        IsPacket(Program(q)[k]) /\ Program(q)[k].tag = tag

(* accepts_synchronized_notification(): the packet is at the head, or open.*)
Accepts(q, tag) ==
  IF active[q].entry # 0 THEN Program(q)[active[q].entry].tag = tag
  ELSE /\ iq[q] # <<>> /\ IsPacket(Program(q)[iq[q][1]])
       /\ Program(q)[iq[q][1]].tag = tag

(* evaluate_shared(): the lanes that take a vector, and the queues told.   *)
Current(l) == Receives[l][receive[l]]
Takes(l) == /\ receive[l] \in DOMAIN Receives[l] /\ popped[l] < arrived[l]
            /\ \E s \in Stores : Accepts(<<s, Current(l).bank>>, Current(l).tag)
Told(l) == LET b == Current(l).bank
           IN IF Accepts(<<"transport", b>>, Current(l).tag) THEN <<"transport", b>> ELSE <<"native", b>>

(* Mutant: the receiver goes on to the next instruction a vector early.    *)
LastEarly(l) == received[l] + 2 >= Current(l).count

LastVector(l) == received[l] + 1 = Current(l).count

EvaluateC2c ==
  /\ Running("c2c")
  /\ LET T == {l \in Lanes : Takes(l)}
         advanced == {[p EXCEPT !.tile = @ + 1] : p \in {r \in pipe : r.tile < Tiles}}
     IN /\ popped' = [l \in Lanes |-> IF l \in T THEN popped[l] + 1 ELSE popped[l]]
        /\ received' = [l \in Lanes |-> IF l \notin T THEN received[l]
                                        ELSE IF LastVector(l) THEN 0 ELSE received[l] + 1]
        /\ receive' = [l \in Lanes |-> IF l \in T /\ LastVector(l) THEN receive[l] + 1 ELSE receive[l]]
        /\ tokens' = [q \in Queues |-> tokens[q] \o
             SetToSeq({[tag |-> Current(l).tag, age |-> 0] : l \in {k \in T : Told(k) = q}})]
        /\ pipe' = advanced \cup {[lane |-> l, tile |-> 0, stream |-> Current(l).stream,
                                   data |-> <<l, popped[l] + 1>>] : l \in T}
        /\ staged' = staged \cup {[column |-> Edge, tile |-> p.tile, stream |-> p.stream,
                                   data |-> p.data, transport |-> TRUE] : p \in advanced}
  /\ stage' = "commit"
  /\ UNCHANGED <<barriers, held, queueVars, memVars, arrived, cells, consumed, notified, fault>>

(* Passive links, then commit_cycle(): two writes of a register collide.   *)
SamePlace(c, d) == c.column = d.column /\ c.tile = d.tile /\ c.stream = d.stream

Commit ==
  /\ Running("commit")
  /\ LET passed == {[c EXCEPT !.column = @ - 1] : c \in {d \in cells \ consumed : d.column > 0}}
     IN /\ cells' = staged \cup passed
        /\ fault' = (IF \/ \E c \in passed, d \in staged : SamePlace(c, d)
                        \/ \E c, d \in staged : c # d /\ SamePlace(c, d)
                     THEN "collision" ELSE fault)
  /\ staged' = {} /\ consumed' = {}
  /\ stage' = "runtime"
  /\ UNCHANGED <<barriers, held, queueVars, tokens, memVars, arrived, laneVars, notified>>

Complete(l) == \A b \in Banks : committed[<<l, b>>] = SegmentsExpected(l, b)

(* The runtime finds a page complete and releases a bank that waits for it.*)
Notify(b, l) ==
  /\ Running("runtime") /\ Complete(l) /\ <<b, l>> \notin notified
  /\ \E i \in DOMAIN Program(<<"native", b>>) :
       LET e == Program(<<"native", b>>)[i]
       IN /\ e.op = "wait" /\ e.launch = l
          /\ tokens' = [tokens EXCEPT ![<<"native", b>>] = Append(@, [tag |-> e.event, age |-> 0])]
  /\ notified' = notified \cup {<<b, l>>}
  /\ UNCHANGED <<barriers, held, queueVars, memVars, arrived, laneVars, streamVars, stage, fault>>

Cycle ==
  \/ \E h \in BOOLEAN, A \in SUBSET Lanes : BeginCycle(h, A)
  \/ Dispatch \/ EvaluateMem \/ EvaluateC2c \/ Commit

Next == Cycle \/ \E b \in Banks, l \in Launches : Notify(b, l)

Spec == Init /\ [][Next]_vars

(* The chip is ticked as long as nothing failed, and DDR answers; nothing  *)
(* says that a hold ever ends.  These are the weak fairness of Cycle and   *)
(* of the answers, written without ENABLED: a cycle is possible until a    *)
(* fault, and a vector may arrive until it does.                           *)
FairSpec ==
  /\ Spec
  /\ []<>(stage = "runtime" \/ fault # "none") /\ []<>(stage = "commit" \/ fault # "none")
  /\ \A l \in Lanes : []<>(~MayArrive(l) \/ fault # "none")
----------------------------------------------------------------------------
(* Whenever vectors arrive and whenever the chip is held, each vector taken *)
(* from DDR is met by its Write in the one cycle in which it passes the     *)
(* bank, and no other data is: the engine never finds the register empty.   *)
PayloadMeetsWrite == fault = "none"

(* The scoreboard is exact: the segments it counts for a page are those of  *)
(* the page's vectors in the rows the packet names, and a complete page is  *)
(* there whole.                                                             *)
ScoreboardExact ==
  \A k \in Packets :
    LET e == PacketOf(k)
    IN committed[<<e.launch, BankOf(k)>>] =
         Cardinality({v \in (1 .. e.count) \X (1 .. Tiles) :
            sram[BankOf(k)][<<RowOf(e, v[1]), v[2]>>] = VectorsOf[<<BankOf(k), e.tag>>][v[1]]})

(* A Read after the WAIT_EVENT of a page, or after its packet, sees the     *)
(* page's vector on every tile, never what was there before.                *)
ReadsSeePages ==
  stage = "mem" => \A s \in Reads :
    sram[s.bank][<<s.instruction.row, s.tile>>] = s.instruction.sees

(* A packet that is open is completed even if the chip is held from then on *)
(* for ever.                                                                *)
OpenPacketCompletes ==
  \A k \in PacketTable[FALSE] \cup PacketTable[TRUE] :
    (k \in Packets /\ active[k[1]].entry = k[2])
      ~> (k \in Packets /\ committed[<<PacketOf(k).launch, BankOf(k)>>] = PacketOf(k).count * Tiles)
=============================================================================
