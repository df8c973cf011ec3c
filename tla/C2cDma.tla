------------------------------- MODULE C2cDma -------------------------------
(***************************************************************************)
(* The C2C DMA engine of a hemisphere (c2c/dma.hpp) between the DDR4 model *)
(* (c2c/ddr4.hpp), the TX and RX slices that fill and empty its FIFOs, and *)
(* the ICU queue that feeds it (system/icu.hpp) and waits for its          *)
(* completions (system/tsp_slice_system.hpp).                              *)
(*                                                                         *)
(* A physical cycle is: the ICU dispatches, the slices move vectors, the   *)
(* engine ticks each of its streams and announces one completion, the DDR  *)
(* ticks.  DDR latency, jitter and bandwidth are a choice of the requests  *)
(* that complete.  A vector is named by the command and the index it is    *)
(* meant for, and an address is a vector slot.  The compiler orders        *)
(* conflicting transfers of different streams by WAIT_EVENT, so a vector   *)
(* is never torn between a read and a write.  A thrown exception ends the  *)
(* run.                                                                    *)
(***************************************************************************)
EXTENDS Integers, Sequences, FiniteSets
Seqs == INSTANCE SequencesExt

CONSTANTS
  Program,       \* the DMA queue: loads, stores, SYNCs and WAIT_EVENTs
  Ends,          \* the commands after which the program is switched
  NumStreams,    \* stream_count_
  FifoDepth,     \* fifo_depth_vectors_
  RequestDepth,  \* Ddr4Config.request_queue_depth
  Channels       \* Ddr4Config.transfer_channels

Streams == 0 .. NumStreams - 1

(* rows[i] is vector_address(i - 1); SYNCs and waits have none.            *)
Command == [op : {"load", "store", "sync", "wait"}, stream : Streams,
            rows : Seq(Nat), tag : Nat]

Commands  == DOMAIN Program
Transfers == {c \in Commands : Program[c].op \in {"load", "store"}}
Count(c)  == Len(Program[c].rows)
Row(v)    == Program[v[1]].rows[v[2]]
Rows      == UNION {{Program[c].rows[i] : i \in 1 .. Count(c)} : c \in Transfers}
Tags      == {Program[c].tag : c \in Commands}

ASSUME DmaAssumption ==
  /\ Program \in Seq(Command) /\ Program # <<>>
  /\ \A c \in Transfers : Count(c) > 0
  /\ Ends \subseteq Commands
  /\ {NumStreams, FifoDepth, RequestDepth, Channels} \subseteq Nat \ {0}

(* The vectors of a stream's transfers of one kind, in program order.      *)
Slots ==
  [s \in Streams |-> [op \in {"load", "store"} |->
    Seqs!FlattenSeq([c \in Commands |->
      IF Program[c].op = op /\ Program[c].stream = s
      THEN [i \in 1 .. Count(c) |-> <<c, i>>] ELSE <<>>])]]

Initial == <<0, 0>>   \* what DDR holds before the program
Vectors == UNION {{c} \X (1 .. Count(c)) : c \in Transfers}

VARIABLES
  (* the ICU queue                                                         *)
  pc,          \* commands it has passed
  first,       \* commands of the programs before the one that is loaded
  tokens,      \* notification_tokens_
  tags,        \* synchronized_notifications_, how many of each tag
  (* the engine, per stream                                                *)
  queue,       \* queues_: commands issued, not started
  active,      \* active_: the command under way, 0 for none
  next, done,  \* next_vector_index, completed_vectors
  pending,     \* pending_requests_: the request ids in order
  inbound, outbound,
  (* the engine, and the runtime                                           *)
  completions, \* completions_: the commands completed
  announced,   \* pending_completion_sync_tags_, one per pending notification
  (* DDR                                                                   *)
  requests,    \* requests_ and active_, by id: [id, op, data]
  answers,     \* read_completions_ and write_completions_
  memory,
  (* the slices                                                            *)
  sent,        \* vectors C2C TX has handed to the engine
  received,    \* vectors C2C RX has taken from it
  stage, turn, fault

icuVars    == <<pc, first, tokens, tags>>
engineVars == <<queue, active, next, done, pending>>
fifoVars   == <<inbound, outbound, sent, received>>
noteVars   == <<completions, announced>>
ddrVars    == <<requests, answers, memory>>
vars == <<icuVars, engineVars, fifoVars, noteVars, ddrVars, stage, turn, fault>>

Init ==
  /\ pc = 0 /\ first = 0 /\ tokens = 0 /\ tags = [t \in Tags |-> 0]
  /\ queue = [s \in Streams |-> <<>>]
  /\ active = [s \in Streams |-> 0]
  /\ next = [s \in Streams |-> 0] /\ done = [s \in Streams |-> 0]
  /\ pending = [s \in Streams |-> <<>>]
  /\ inbound = [s \in Streams |-> <<>>] /\ outbound = [s \in Streams |-> <<>>]
  /\ sent = [s \in Streams |-> 0] /\ received = [s \in Streams |-> <<>>]
  /\ completions = <<>> /\ announced = <<>>
  /\ requests = {} /\ answers = {} /\ memory = [a \in Rows |-> Initial]
  /\ stage = "dispatch" /\ turn = 0 /\ fault = "none"
----------------------------------------------------------------------------
(* The ICU queue.                                                          *)

Dispatching == fault = "none" /\ stage = "dispatch"

(* The last command of the program that is loaded.                         *)
EndOfProgram ==
  CHOOSE e \in Ends \cup {Len(Program)} :
    e > first /\ \A d \in Ends : d > first => d >= e

At(op) == Dispatching /\ pc < EndOfProgram /\ Program[pc + 1].op = op
Pass   == pc' = pc + 1

(* One command a cycle; a WAIT_EVENT that is released leaves the cycle to  *)
(* the next command.                                                       *)
Issue ==
  /\ At("load") \/ At("store")
  /\ Pass
  /\ queue' = [queue EXCEPT ![Program[pc + 1].stream] = Append(@, pc + 1)]
  /\ stage' = "slices"
  /\ UNCHANGED <<first, tokens, tags, active, next, done, pending, fifoVars, noteVars,
                 ddrVars, turn, fault>>

ReleaseSync ==
  /\ At("sync") /\ tokens > 0
  /\ Pass /\ tokens' = tokens - 1
  /\ stage' = "slices"
  /\ UNCHANGED <<first, tags, engineVars, fifoVars, noteVars, ddrVars, turn, fault>>

(* Mutant: a WAIT_EVENT takes any notification.                            *)
ReleaseWaitAny ==
  /\ At("wait") /\ tokens > 0
  /\ Pass /\ tokens' = tokens - 1
  /\ UNCHANGED <<first, tags, engineVars, fifoVars, noteVars, ddrVars, stage, turn, fault>>

ReleaseWait ==
  /\ At("wait") /\ tags[Program[pc + 1].tag] > 0
  /\ Pass /\ tags' = [tags EXCEPT ![Program[pc + 1].tag] = @ - 1]
  /\ UNCHANGED <<first, tokens, engineVars, fifoVars, noteVars, ddrVars, stage, turn, fault>>

(* A missing notification, or a command not yet fetched from i-MEM.        *)
NoDispatch ==
  /\ Dispatching
  /\ stage' = "slices"
  /\ UNCHANGED <<icuVars, engineVars, fifoVars, noteVars, ddrVars, turn, fault>>
----------------------------------------------------------------------------
(* The slices.  MEM programs decide when TX has a vector and when RX may    *)
(* take one; the vectors of a store may come before its command is issued. *)

(* Mutant: TX does not look at the FIFO.                                   *)
Unlimited(s) == 2

Room(s) == FifoDepth - Len(outbound[s])

(* The vectors TX sends to a stream in the programs up to command e.       *)
StoresUpTo ==
  [s \in Streams |-> [e \in Ends \cup {Len(Program)} |->
    Cardinality({v \in Seqs!ToSet(Slots[s]["store"]) : v[1] <= e})]]

(* In a cycle TX may hand over a vector it had to keep and the one it      *)
(* gathers, RX may take one.                                               *)
Slices ==
  /\ fault = "none" /\ stage = "slices"
  /\ \E tx \in [Streams -> 0 .. 2], rx \in SUBSET {s \in Streams : inbound[s] # <<>>} :
       /\ \A s \in Streams : tx[s] <= Room(s) /\ sent[s] + tx[s] <= StoresUpTo[s][EndOfProgram]
       /\ outbound' = [s \in Streams |->
            outbound[s] \o SubSeq(Slots[s]["store"], sent[s] + 1, sent[s] + tx[s])]
       /\ sent' = [s \in Streams |-> sent[s] + tx[s]]
       /\ inbound' = [s \in Streams |-> IF s \in rx THEN Tail(inbound[s]) ELSE inbound[s]]
       /\ received' = [s \in Streams |->
            IF s \in rx THEN Append(received[s], Head(inbound[s])) ELSE received[s]]
  /\ stage' = "dma" /\ turn' = 0
  /\ UNCHANGED <<icuVars, engineVars, noteVars, ddrVars, fault>>
----------------------------------------------------------------------------
(* The engine.                                                             *)

Least(a, b) == IF a < b THEN a ELSE b

(* A stream that is free starts the next command queued for it.            *)
Starting(s) == IF active[s] = 0 /\ queue[s] # <<>> THEN Head(queue[s]) ELSE active[s]

Answer(id)  == CHOOSE r \in answers : r.id = id
Answered(s) ==
  CHOOSE n \in 0 .. Len(pending[s]) :
    /\ \A k \in 1 .. n : \E r \in answers : r.id = pending[s][k]
    /\ n < Len(pending[s]) => \A r \in answers : r.id # pending[s][n + 1]

(* Requests the DDR queue still takes.                                     *)
Credit == RequestDepth - Cardinality(requests)

(* Mutant: a transfer completes when its last request is accepted.         *)
PostedCompletion(c, requested, completed) == requested = Count(c)

(* finish_transfer_if_complete().                                          *)
Completes(c, requested, completed) == completed = Count(c)

Finish(s, c, requested, completed) ==
  IF Completes(c, requested, completed)
  THEN /\ active' = [active EXCEPT ![s] = 0]
       /\ next' = [next EXCEPT ![s] = 0] /\ done' = [done EXCEPT ![s] = 0]
       /\ completions' = Append(completions, c)
       /\ announced' = Append(announced, Program[c].tag)
  ELSE /\ active' = [active EXCEPT ![s] = c]
       /\ next' = [next EXCEPT ![s] = requested]
       /\ done' = [done EXCEPT ![s] = completed]
       /\ UNCHANGED noteVars

Ticking(s) == fault = "none" /\ stage = "dma" /\ turn = s

EndTick(s, c) ==
  /\ queue' = [queue EXCEPT ![s] = IF c # active[s] THEN Tail(@) ELSE @]
  /\ turn' = s + 1
  /\ stage' = (IF s + 1 = NumStreams THEN "announce" ELSE "dma")

IdleTick(s) ==
  /\ Ticking(s) /\ Starting(s) = 0
  /\ EndTick(s, 0)
  /\ UNCHANGED <<icuVars, active, next, done, pending, fifoVars, noteVars, ddrVars, fault>>

(* A read is requested only when its vector will find room.                *)
ReadCredit(s, waiting, arrived) ==
  waiting + Len(inbound[s]) + arrived < FifoDepth

(* tick_load(): answered reads enter the FIFO in order, as far as there is *)
(* room, each tagged by the command under way; then one read is requested. *)
TickLoad(s) ==
  LET c == Starting(s)
      n == Least(Answered(s), FifoDepth - Len(inbound[s]))
      got == [k \in 1 .. n |-> [cmd |-> c, index |-> pending[s][k][2],
                                data |-> Answer(pending[s][k]).data]]
      left == SubSeq(pending[s], n + 1, Len(pending[s]))
      ask == /\ next[s] < Count(c)
             /\ ReadCredit(s, Len(left), n)
             /\ Credit > 0
      id == <<c, next[s] + 1>>
  IN /\ Ticking(s) /\ c # 0 /\ Program[c].op = "load"
     /\ inbound' = [inbound EXCEPT ![s] = @ \o got]
     /\ answers' = {r \in answers : \A k \in 1 .. n : r.id # pending[s][k]}
     /\ pending' = [pending EXCEPT ![s] = IF ask THEN Append(left, id) ELSE left]
     /\ requests' = (IF ask THEN requests \cup {[id |-> id, op |-> "load", data |-> Initial]}
                     ELSE requests)
     /\ Finish(s, c, IF ask THEN next[s] + 1 ELSE next[s], done[s] + n)
     /\ EndTick(s, c)
     /\ UNCHANGED <<icuVars, outbound, sent, received, memory, fault>>

(* tick_store(): answered writes are retired in order; unless that ends    *)
(* the transfer, everything in the FIFO is written, as far as the DDR      *)
(* accepts it.  The index of a vector is never compared with the length of *)
(* the transfer: vector_address() throws past its end.                     *)
TickStore(s) ==
  LET c == Starting(s)
      n == Answered(s)
      left == SubSeq(pending[s], n + 1, Len(pending[s]))
      over == Completes(c, next[s], done[s] + n)
      m == IF over THEN 0
           ELSE Least(Len(outbound[s]), Least(FifoDepth - Len(left), Credit))
      id(k) == <<c, next[s] + k>>
  IN /\ Ticking(s) /\ c # 0 /\ Program[c].op = "store"
     /\ IF next[s] + m > Count(c)
        THEN /\ fault' = "outside"
             /\ UNCHANGED <<engineVars, outbound, noteVars, ddrVars, stage, turn>>
        ELSE /\ outbound' = [outbound EXCEPT ![s] = SubSeq(@, m + 1, Len(@))]
             /\ answers' = {r \in answers : \A k \in 1 .. n : r.id # pending[s][k]}
             /\ pending' = [pending EXCEPT ![s] = left \o [k \in 1 .. m |-> id(k)]]
             /\ requests' = requests \cup
                  {[id |-> id(k), op |-> "store", data |-> outbound[s][k]] : k \in 1 .. m}
             /\ Finish(s, c, next[s] + m, done[s] + n)
             /\ EndTick(s, c)
             /\ UNCHANGED <<memory, fault>>
     /\ UNCHANGED <<icuVars, inbound, sent, received>>

(* Mutant: completions of one cycle raise one notification.                *)
AnnounceOnce ==
  /\ fault = "none" /\ stage = "announce"
  /\ IF announced = <<>> THEN UNCHANGED <<tokens, tags, announced>>
     ELSE /\ announced' = <<>>
          /\ tokens' = tokens + 1
          /\ tags' = [tags EXCEPT ![Head(announced)] = @ + 1]
  /\ stage' = "ddr"
  /\ UNCHANGED <<pc, first, engineVars, fifoVars, completions, ddrVars, turn, fault>>

(* end_cycle_phase(): one completion a cycle reaches the ICU queue, as a   *)
(* tagged notification and as a plain token.                               *)
Announce ==
  /\ fault = "none" /\ stage = "announce"
  /\ IF announced = <<>> THEN UNCHANGED <<tokens, tags, announced>>
     ELSE /\ announced' = Tail(announced)
          /\ tokens' = tokens + 1
          /\ tags' = [tags EXCEPT ![Head(announced)] = @ + 1]
  /\ stage' = "ddr"
  /\ UNCHANGED <<pc, first, engineVars, fifoVars, completions, ddrVars, turn, fault>>
----------------------------------------------------------------------------
(* DDR: in a cycle each lane (a stream and a direction) moves one beat, so *)
(* at most one of its requests completes, in no particular order.          *)
Lane(r) == <<Program[r.id[1]].stream, r.op>>

DdrTick ==
  /\ fault = "none" /\ stage = "ddr"
  /\ \E finished \in SUBSET requests :
       /\ Cardinality(finished) <= Channels
       /\ \A p, q \in finished : Lane(p) = Lane(q) => p = q
       /\ requests' = requests \ finished
       /\ answers' = answers \cup
            {[r EXCEPT !.data = IF r.op = "load" THEN memory[Row(r.id)] ELSE @] : r \in finished}
       /\ memory' = [a \in Rows |->
            LET w == {r \in finished : r.op = "store" /\ Row(r.id) = a}
            IN IF w = {} THEN memory[a] ELSE (CHOOSE r \in w : TRUE).data]
  /\ stage' = "dispatch"
  /\ UNCHANGED <<icuVars, engineVars, fifoVars, noteVars, turn, fault>>

(* can_load_program(), between two cycles: the queue is at its end, TX has *)
(* sent what its own queue asked for, and the engine is drained.           *)
CanLoadProgram ==
  /\ Dispatching /\ pc = EndOfProgram /\ pc < Len(Program)
  /\ \A s \in Streams : /\ queue[s] = <<>> /\ active[s] = 0
                        /\ inbound[s] = <<>> /\ outbound[s] = <<>>
                        /\ sent[s] = StoresUpTo[s][EndOfProgram]

(* Mutant: only the queue is reset, not what the engine has to announce.   *)
ResetQueueOnly ==
  /\ CanLoadProgram
  /\ first' = pc /\ tokens' = 0 /\ tags' = [t \in Tags |-> 0]
  /\ UNCHANGED <<pc, engineVars, fifoVars, noteVars, ddrVars, stage, turn, fault>>

(* reset_program(): completions that were not announced are discarded, and *)
(* with the queue the notifications it did not use.                        *)
ResetProgram ==
  /\ CanLoadProgram
  /\ first' = pc /\ tokens' = 0 /\ tags' = [t \in Tags |-> 0]
  /\ announced' = <<>>
  /\ UNCHANGED <<pc, engineVars, fifoVars, completions, ddrVars, stage, turn, fault>>

Next ==
  \/ Issue \/ ReleaseSync \/ ReleaseWait \/ NoDispatch \/ ResetProgram
  \/ Slices
  \/ \E s \in Streams : IdleTick(s) \/ TickLoad(s) \/ TickStore(s)
  \/ Announce
  \/ DdrTick

Spec == Init /\ [][Next]_vars

(* The chip is ticked forever, i-MEM fetches end and the runtime loads the  *)
(* next program once it can; MEM programs take vectors of loads and produce *)
(* vectors of stores as long as there are any; DDR serves its requests.     *)
(* There are finitely many of each.                                         *)
Fairness ==
  /\ WF_vars(Next)
  /\ SF_vars(Issue \/ ReleaseSync \/ ReleaseWait \/ ResetProgram)
  /\ SF_vars(Slices /\ received' # received)
  /\ SF_vars(Slices /\ sent' # sent)
  /\ SF_vars(DdrTick /\ requests' # requests)

FairSpec == Spec /\ Fairness
----------------------------------------------------------------------------
TypeOK ==
  /\ pc \in 0 .. Len(Program) /\ first \in 0 .. pc /\ tokens \in Nat /\ tags \in [Tags -> Nat]
  /\ queue \in [Streams -> Seq(Transfers)]
  /\ active \in [Streams -> Transfers \cup {0}]
  /\ next \in [Streams -> Nat] /\ done \in [Streams -> Nat]
  /\ pending \in [Streams -> Seq(Vectors)]
  /\ inbound \in [Streams -> Seq([cmd : Transfers, index : Nat, data : Vectors \cup {Initial}])]
  /\ outbound \in [Streams -> Seq(Vectors)]
  /\ \A s \in Streams : Len(inbound[s]) <= FifoDepth /\ Len(outbound[s]) <= FifoDepth
  /\ sent \in [Streams -> Nat]
  /\ \A s \in Streams : DOMAIN received[s] = 1 .. Len(received[s])
  /\ completions \in Seq(Transfers) /\ announced \in Seq(Tags)
  /\ Cardinality(requests) <= RequestDepth
  /\ \A r \in requests \cup answers : r.id \in Vectors /\ r.op \in {"load", "store"}
  /\ memory \in [Rows -> Vectors \cup {Initial}]
  /\ stage \in {"dispatch", "slices", "dma", "announce", "ddr"}
  /\ turn \in 0 .. NumStreams
  /\ fault \in {"none", "outside"}

Taken(s) == received[s] \o inbound[s]

(* The requests of a stream that DDR holds or has answered.                 *)
Outstanding(s) == {r.id : r \in {q \in requests \cup answers : Program[q.id[1]].stream = s}}

(* Though DDR answers out of order and loads follow each other without a    *)
(* gap, RX sees each vector of each load once, in program order: engine and *)
(* DDR agree on what is outstanding, and each read has room reserved.       *)
LoadsInOrder ==
  \A s \in Streams :
    /\ Seqs!IsPrefix([k \in 1 .. Len(Taken(s)) |-> <<Taken(s)[k].cmd, Taken(s)[k].index>>],
                Slots[s]["load"])
    /\ Outstanding(s) = Seqs!ToSet(pending[s])
    /\ (active[s] # 0 /\ Program[active[s]].op = "load") =>
         Len(pending[s]) + Len(inbound[s]) <= FifoDepth

(* The last vector stored to an address before command c, in program order. *)
Earlier(c, a) == {v \in Vectors : v[1] < c /\ Program[v[1]].op = "store" /\ Row(v) = a}
LastStored(c, a) ==
  IF Earlier(c, a) = {} THEN Initial
  ELSE CHOOSE v \in Earlier(c, a) : \A w \in Earlier(c, a) : w[1] <= v[1]

(* Two transfers of different streams conflict on a row.                    *)
RowsOf(c) == {Program[c].rows[i] : i \in 1 .. Count(c)}
Conflict(c, d) ==
  /\ c < d /\ Program[c].stream # Program[d].stream
  /\ Program[c].op = "store" \/ Program[d].op = "store"
  /\ RowsOf(c) \cap RowsOf(d) # {}

(* Command w comes after command c in the same program.                     *)
SameProgram(c, w) == c < w /\ \A e \in Ends : ~(c <= e /\ e < w)

(* The WAIT_EVENT w is released when every transfer of the program before   *)
(* it with its tag has completed: no earlier WAIT_EVENT of the tag leaves a *)
(* completion over.                                                         *)
WaitsFor(w, c) ==
  LET t == Program[w].tag
  IN /\ Program[w].op = "wait" /\ Program[c].tag = t /\ SameProgram(c, w)
     /\ Cardinality({d \in Transfers : SameProgram(d, w) /\ Program[d].tag = t})
        <= Cardinality({d \in Commands : /\ d = w \/ SameProgram(d, w)
                                         /\ Program[d].op = "wait" /\ Program[d].tag = t})

(* What the compiler ensures: no store writes a row twice, and transfers    *)
(* that conflict are of different programs or ordered by a WAIT_EVENT.      *)
ConflictsOrdered ==
  /\ \A c \in Transfers : Program[c].op = "store" =>
       \A i, j \in 1 .. Count(c) : Program[c].rows[i] = Program[c].rows[j] => i = j
  /\ \A c, d \in Transfers : Conflict(c, d) =>
       ~SameProgram(c, d) \/ \E w \in Commands : w < d /\ WaitsFor(w, c)

(* A load returns what the last store before it in the program wrote: on   *)
(* its own stream by the order of the queue, on another one by WAIT_EVENT.  *)
LoadsSeeStores ==
  \A s \in Streams : \A k \in 1 .. Len(Taken(s)) :
    LET v == Taken(s)[k]
    IN v.data = LastStored(v.cmd, Row(<<v.cmd, v.index>>))

(* When a store completes, each of its rows holds its own vector, or that   *)
(* of a later store.                                                        *)
StoresLanded ==
  \A k \in 1 .. Len(completions) :
    LET c == completions[k]
    IN Program[c].op = "store" =>
         \A i \in 1 .. Count(c) :
           \/ memory[Row(<<c, i>>)] = <<c, i>>
           \/ memory[Row(<<c, i>>)][1] > c

Passed(op) == {c \in 1 .. pc : Program[c].op = op}

(* What has completed, and been passed, since the program was loaded.       *)
Completed == {completions[k] : k \in DOMAIN completions}
Own       == {c \in Completed : c > first}
Spent(op) == {c \in Passed(op) : c > first}
Tagged(C, t) == {c \in C : Program[c].tag = t}

(* Every completion notifies the ICU queue exactly once, as a token and as  *)
(* a tag, and is spent by at most one SYNC and one WAIT_EVENT of its own    *)
(* program: nothing is released that did not complete.                      *)
CompletionsNotified ==
  /\ tokens + Cardinality(Spent("sync")) + Len(announced) = Cardinality(Own)
  /\ \A t \in Tags :
       tags[t] + Cardinality(Tagged(Spent("wait"), t))
         + Cardinality({k \in 1 .. Len(announced) : announced[k] = t})
       = Cardinality(Tagged(Own, t))

(* vector_address() is only asked for vectors of the transfer              *)
(* (c2c/dma_instruction.hpp:67): a stream may queue several transfers, and  *)
(* TX may hand over vectors as long as the FIFO has room.                   *)
IndexInside == fault # "outside"

(* "DMA completion notifies its ICU queue so a following Sync releases only *)
(* after the last beat" (docs/architecture.md:60): when the queue has       *)
(* passed a SYNC, every transfer before it has completed.                   *)
SyncAfterLastBeat ==
  \A c \in Passed("sync") : \A d \in Transfers :
    d < c => \E k \in 1 .. Len(completions) : completions[k] = d

(* Every transfer of the program completes and every SYNC and WAIT_EVENT is *)
(* released, unless an exception ends the run.                              *)
ProgramCompletes ==
  <>(fault # "none" \/ (pc = Len(Program) /\ Len(completions) = Cardinality(Transfers)))
=============================================================================
