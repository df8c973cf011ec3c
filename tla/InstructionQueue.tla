-------------------------- MODULE InstructionQueue --------------------------
(***************************************************************************)
(* One physical instruction queue of the ICU, in its native-word form      *)
(* (icu/distributed_queue.hpp, role Mem): commands are appended to the     *)
(* local instruction memory, where absolute starts of old compilers become *)
(* NOPs; a frontend fetches words ahead into a short IQ; the dispatcher    *)
(* issues at most one instruction per cycle and unrolls repeats, loop      *)
(* packets and write/read packets.  A chip that holds compute freezes all  *)
(* of it but the fetches that are already under way.                       *)
(*                                                                         *)
(* An instruction is a row of the bank and a direction.  A command is a    *)
(* record; a packet of n words takes n entries of the memory.  A thrown    *)
(* exception ends the run (fault).  Cut and non-consecutive packets, which *)
(* only a hand-written descriptor produces, are left out.                  *)
(***************************************************************************)
EXTENDS Integers, Sequences, FiniteSets

CONSTANTS
  Commands,     \* what a compiler appends
  ImemDepth, IqDepth, FetchLatency,
  Tags,         \* tags of WAIT_EVENT
  MaxEvents     \* bound: notifications that arrive

Rd(row) == [op |-> "rd", row |-> row]
Wr(row) == [op |-> "wr", row |-> row]
None    == [op |-> "none", row |-> 0]
Move(value, delta) == [value EXCEPT !.row = @ + delta]

(* Commands: insn, nop, repeat, repeat2d, sync, wait, notify, loop (a 3-D  *)
(* loop packet), writeread (WRITE_READ_2D), and legacy (an absolute start  *)
(* in front of a loop).                                                    *)
Words(c) == IF c.k \in {"loop", "writeread"} THEN c.words ELSE 1

LoopOffset(c, x) == c.wait + x[1] * c.strides[1] + x[2] * c.strides[2] + x[3] * c.strides[3]

LoopValue(c, x) == Move(c.value, x[1] * c.rows[1] + x[2] * c.rows[2] + x[3] * c.rows[3])

(* Of a write/read packet, writes are side 1 and reads side 2.             *)
SideOffset(c, side, x) == c.wait + c.offsets[side] + x[1] * c.strides[side][1] + x[2] * c.strides[side][2]

SideValue(c, side, x) ==
  LET row == c.base + x[1] * c.rows[1] + x[2] * c.rows[2]
  IN  IF side = 1 THEN Wr(row) ELSE Rd(row)

(* What the encoders accept: no sweep comes back to a cycle, and a write   *)
(* and a read of one packet never share one.  (A repeat whose interval is  *)
(* 0 is accepted, and refused when it is dispatched: it is left out.)      *)
Swings(counts, strides, sum) ==
  /\ {counts[1], counts[2], strides[1], strides[2]} \subseteq Nat \ {0}
  /\ {sum[1], sum[2]} \subseteq Int
  /\ counts[2] > 1 => strides[2] > (counts[1] - 1) * strides[1]

Sound(c) ==
  CASE c.k = "insn"     -> c.value \in [op : {"rd", "wr"}, row : Nat]
    [] c.k = "nop"      -> c.count \in Nat
    [] c.k = "repeat"   -> {c.count, c.interval} \subseteq Nat \ {0} /\ c.row \in Int
    [] c.k = "repeat2d" -> /\ Swings(c.counts, c.intervals, c.rows)
                           /\ c.counts[1] > 1 \/ c.counts[2] > 1
    [] c.k = "loop" ->
         /\ c.words \in 1 .. IqDepth /\ c.wait \in Nat /\ c.value \in [op : {"rd", "wr"}, row : Nat]
         /\ Swings(c.counts, c.strides, c.rows)
         /\ {c.counts[3], c.strides[3]} \subseteq Nat \ {0} /\ c.rows[3] \in Int
         /\ c.counts[3] > 1 =>
              c.strides[3] > (c.counts[1] - 1) * c.strides[1] + (c.counts[2] - 1) * c.strides[2]
    [] c.k = "writeread" ->
         /\ c.words \in 1 .. IqDepth /\ c.wait \in Nat /\ c.base \in Nat
         /\ \A s \in {1, 2} : c.offsets[s] \in Nat /\ Swings(c.counts, c.strides[s], c.rows)
         /\ \A x, y \in (0 .. c.counts[1] - 1) \X (0 .. c.counts[2] - 1) :
              SideOffset(c, 1, x) # SideOffset(c, 2, y)
    [] c.k = "wait"   -> c.tag \in Tags
    [] c.k = "legacy" -> c.start \in Nat
    [] OTHER          -> c.k \in {"sync", "notify"}

ASSUME InstructionQueueAssumption ==
  /\ {ImemDepth, IqDepth, FetchLatency} \subseteq Nat \ {0}
  /\ MaxEvents \in Nat
  /\ \A c \in Commands : Sound(c) /\ (c.k = "legacy" => c.loop.k = "loop" /\ Sound(c.loop))

VARIABLES
  (* the program                                                           *)
  code,         \* commands appended, absolute starts lowered
  imem,         \* imem_: [cmd, part] per word
  cursor,       \* raw_compatibility_cycle_ and ..._known_
  (* the frontend                                                          *)
  mode,         \* "load", "prime" or "run"
  fetchPc, pending, iq,
  (* the dispatcher                                                        *)
  active,       \* what owns the issue port
  last,         \* last_dispatched_
  tokens, tags, \* notifications not yet consumed
  fault,        \* the exception that ended the run, or "none"
  (* history                                                               *)
  want,         \* the program unrolled: [at, value] per issue
  starts,       \* program time at which each command begins
  legacy,       \* [start, at, epoch] per lowered absolute start
  epoch,        \* SYNC and WAIT_EVENT commands appended
  time,         \* cycle_ less the cycles in which the queue waited
  late,         \* cycles in which it waited for words
  issued, at,   \* issues so far; the time of the last one
  events

programVars  == <<code, imem, cursor, want, starts, legacy, epoch>>
frontendVars == <<fetchPc, pending, iq>>
historyVars  == <<issued, at, time, late>>
eventVars    == <<tokens, tags, events>>
nativeVars == <<programVars, frontendVars, historyVars, eventVars,
          mode, active, last, fault>>

Idle == [k |-> "idle"]
NativeDone == mode = "run" /\ fetchPc > Len(imem) /\ pending = <<>> /\ iq = <<>> /\ active = Idle

NativeInit ==
  /\ code = <<>> /\ imem = <<>> /\ cursor = [known |-> TRUE, at |-> 0]
  /\ want = <<>> /\ starts = <<>> /\ legacy = <<>> /\ epoch = 0
  /\ mode = "load" /\ fetchPc = 1 /\ pending = <<>> /\ iq = <<>>
  /\ active = Idle /\ last = None /\ fault = "none"
  /\ tokens = 0 /\ tags = [t \in Tags |-> 0] /\ events = 0
  /\ issued = 0 /\ at = 0 /\ time = 0 /\ late = 0
-----------------------------------------------------------------------------
(* What a program means: every command takes over where the one before it  *)
(* ends.  Points(c, value) are its issues, at offsets from its start, when *)
(* value was issued last.                                                  *)
Rank(points, off) == Cardinality({p \in points : p.off < off})
ByOffset(points) ==
  [n \in 1 .. Cardinality(points) |-> CHOOSE p \in points : Rank(points, p.off) = n - 1]

Cells(counts) == (0 .. counts[1] - 1) \X (0 .. counts[2] - 1) \X (0 .. counts[3] - 1)

Points(c, value) ==
  CASE c.k = "insn" -> <<[off |-> 0, value |-> c.value]>>
    [] c.k = "repeat" ->
         [n \in 1 .. c.count |-> [off |-> n * c.interval - 1, value |-> Move(value, n * c.row)]]
    [] c.k = "repeat2d" ->
         ByOffset({[off |-> x[1] * c.intervals[1] + x[2] * c.intervals[2] - 1,
                    value |-> Move(value, x[1] * c.rows[1] + x[2] * c.rows[2])] :
                     x \in Cells(<<c.counts[1], c.counts[2], 1>>) \ {<<0, 0, 0>>}})
    [] c.k = "loop" ->
         ByOffset({[off |-> LoopOffset(c, x), value |-> LoopValue(c, x)] : x \in Cells(c.counts)})
    [] c.k = "writeread" ->
         ByOffset({[off |-> SideOffset(c, s, x), value |-> SideValue(c, s, x)] :
                     s \in {1, 2}, x \in Cells(<<c.counts[1], c.counts[2], 1>>)})
    [] OTHER -> <<>>

Span(c) ==
  CASE c.k = "nop" -> c.count
    [] c.k = "wait" -> 0
    [] c.k \in {"sync", "notify"} -> 1
    [] OTHER -> LET p == Points(c, None) IN p[Len(p)].off + 1

ProgramEnd == IF code = <<>> THEN 0 ELSE starts[Len(starts)] + Span(code[Len(code)])
LastWanted == IF want = <<>> THEN None ELSE want[Len(want)].value

(* A word's position in the program is also its address.                   *)
Command(pc) == code[imem[pc].cmd]
-----------------------------------------------------------------------------
(* The compatibility cursor: the program time the next command begins, as  *)
(* the appending code computes it.  Unknown after SYNC and WAIT_EVENT.     *)
(* Mutant: the offset of the last issue, not the cycle after it.           *)
LoopSpan(c) ==
  c.wait + (c.counts[1] - 1) * c.strides[1] + (c.counts[2] - 1) * c.strides[2] + (c.counts[3] - 1) * c.strides[3]

loop_duration(c) ==
  c.wait + (c.counts[1] - 1) * c.strides[1] + (c.counts[2] - 1) * c.strides[2]
         + (c.counts[3] - 1) * c.strides[3] + 1

repeat_2d_final_offset(c) ==
  (c.counts[1] - 1) * c.intervals[1] + (c.counts[2] - 1) * c.intervals[2]

last_issue_cycle(c) ==
  LET final(side) == SideOffset(c, side, <<c.counts[1] - 1, c.counts[2] - 1>>)
  IN  IF final(1) > final(2) THEN final(1) ELSE final(2)

control_cycles(c) ==
  CASE c.k = "nop" -> c.count
    [] c.k = "repeat" -> c.count * c.interval
    [] c.k = "repeat2d" -> repeat_2d_final_offset(c)
    [] c.k = "notify" -> 1

CursorAfter(c) ==
  IF ~cursor.known THEN cursor
  ELSE CASE c.k \in {"sync", "wait"} -> [cursor EXCEPT !.known = FALSE]
         [] c.k = "insn" -> [cursor EXCEPT !.at = @ + 1]
         [] c.k = "loop" -> [cursor EXCEPT !.at = @ + loop_duration(c)]
         [] c.k = "writeread" -> [cursor EXCEPT !.at = @ + last_issue_cycle(c) + 1]
         [] OTHER -> [cursor EXCEPT !.at = @ + control_cycles(c)]

Fits(c) == Len(imem) + Words(c) <= ImemDepth

(* What the memory and the history become when c is written behind a NOP   *)
(* of lead cycles; lead = 0 is no NOP.                                     *)
Nop(n) == [k |-> "nop", count |-> n]

Write(c, lead) ==
  LET new   == IF lead = 0 THEN <<c>> ELSE <<Nop(lead), c>>
      begin == ProgramEnd + lead
      moved == [p \in DOMAIN Points(c, LastWanted) |->
                  [at |-> begin + Points(c, LastWanted)[p].off, value |-> Points(c, LastWanted)[p].value]]
  IN  /\ code' = code \o new
      /\ imem' = imem \o (IF lead = 0 THEN <<>> ELSE <<[cmd |-> Len(code) + 1, part |-> 1]>>)
                      \o [p \in 1 .. Words(c) |-> [cmd |-> Len(code) + Len(new), part |-> p]]
      /\ starts' = starts \o (IF lead = 0 THEN <<begin>> ELSE <<ProgramEnd, begin>>)
      /\ want' = want \o moved
      /\ epoch' = IF c.k \in {"sync", "wait"} THEN epoch + 1 ELSE epoch

(* An append that throws; what it leaves behind is in AppendLegacy.        *)
Refuse == UNCHANGED programVars

(* push_nop, push_instruction, append_control, append_3d_packet,           *)
(* push_encoded_mem_write_read_2d_packet.                                  *)
AppendCommand(c) ==
  /\ c.k # "legacy" /\ (c.k = "nop" => c.count # 0)
  /\ \/ ~Fits(c) /\ Refuse
     \/ Fits(c) /\ Write(c, 0) /\ cursor' = CursorAfter(c) /\ UNCHANGED legacy

(* push_macro and push_mem_stream_nd: the absolute start becomes a NOP, or *)
(* the time of the first command after an event.  The NOP stays even when  *)
(* the packet does not fit.                                                *)
AppendLegacy(c) ==
  LET lead  == c.start - cursor.at
      loop  == c.loop
      ready == Len(imem) + 1 + Words(loop) <= ImemDepth
      noted == legacy' = Append(legacy, [start |-> c.start, at |-> starts'[Len(starts')], epoch |-> epoch])
  IN  /\ c.k = "legacy"
      /\ \/ /\ ~cursor.known /\ Fits(loop)
            /\ Write(loop, 0) /\ noted
            /\ cursor' = [known |-> TRUE, at |-> c.start + loop_duration(loop)]
         \/ /\ ~cursor.known /\ ~Fits(loop)
            /\ cursor' = [known |-> TRUE, at |-> c.start]
            /\ UNCHANGED <<code, imem, want, starts, legacy, epoch>>
         \/ /\ cursor.known /\ (lead < 0 \/ (lead = 0 /\ ~Fits(loop)) \/ (lead > 0 /\ ~Fits(Nop(lead))))
            /\ Refuse
         \/ /\ cursor.known /\ lead > 0 /\ Fits(Nop(lead)) /\ ~ready
            /\ Write(Nop(lead), 0)
            /\ cursor' = CursorAfter(Nop(lead))
            /\ UNCHANGED legacy
         \/ /\ cursor.known /\ lead >= 0 /\ (IF lead = 0 THEN Fits(loop) ELSE ready)
            /\ Write(loop, lead) /\ noted
            /\ cursor' = [cursor EXCEPT !.at = c.start + loop_duration(loop)]

AppendProgram(c) ==
  /\ mode = "load"
  /\ AppendCommand(c) \/ AppendLegacy(c)
  /\ UNCHANGED <<frontendVars, historyVars, eventVars, mode, active, last, fault>>
-----------------------------------------------------------------------------
(* The frontend.                                                           *)
Ready ==
  CHOOSE n \in 0 .. Len(pending) :
    /\ \A f \in 1 .. n : pending[f].left = 0
    /\ n < Len(pending) => pending[n + 1].left # 0
IqNow == iq \o [f \in 1 .. Ready |-> pending[f].pc]            \* after commit_ready_fetch
Waiting == SubSeq(pending, Ready + 1, Len(pending))
Aged(fetches) == [f \in DOMAIN fetches |-> [fetches[f] EXCEPT !.left = IF @ = 0 THEN 0 ELSE @ - 1]]

(* A cycle of the frontend in which the dispatcher takes n words.          *)
Frontend(n) ==
  LET left  == SubSeq(IqNow, n + 1, Len(IqNow))
      start == fetchPc <= Len(imem) /\ Len(left) + Len(Waiting) < IqDepth
      fresh == IF start THEN <<[pc |-> fetchPc, left |-> FetchLatency]>> ELSE <<>>
  IN  /\ iq' = left
      /\ pending' = Aged(Waiting \o fresh)
      /\ fetchPc' = IF start THEN fetchPc + 1 ELSE fetchPc

MoreWords == fetchPc <= Len(imem) \/ Waiting # <<>>

(* ensure_configured: a program enqueued by hand starts with a full IQ.    *)
Launch ==
  LET primed == IF Len(imem) < IqDepth THEN Len(imem) ELSE IqDepth
  IN  /\ mode = "load" /\ code # <<>>
      /\ mode' = "run"
      /\ iq' = [w \in 1 .. primed |-> w] /\ fetchPc' = primed + 1
      /\ UNCHANGED <<programVars, historyVars, eventVars, pending, active, last, fault>>

(* configure(): a loaded image starts empty and is primed cycle by cycle   *)
(* until every frontend is ready.                                          *)
NativeConfigure ==
  /\ mode = "load" /\ code # <<>> /\ mode' = "prime"
  /\ UNCHANGED <<programVars, frontendVars, historyVars, eventVars, active, last, fault>>

(* Mutant: a short program never fills the IQ.                             *)
full_iq == pending = <<>> /\ Len(iq) = IqDepth

frontend_ready == pending = <<>> /\ (fetchPc > Len(imem) \/ Len(iq) = IqDepth)

NativePrime ==
  /\ mode = "prime" /\ ~frontend_ready /\ Frontend(0)
  /\ UNCHANGED <<programVars, historyVars, eventVars, mode, active, last, fault>>

NativeStart ==
  /\ mode = "prime" /\ frontend_ready /\ mode' = "run"
  /\ UNCHANGED <<programVars, frontendVars, historyVars, eventVars, active, last, fault>>
-----------------------------------------------------------------------------
(* The dispatcher.  Each alternative of a cycle says how many words it     *)
(* takes, what then owns the port, and what it issues.                     *)
Issue(value) ==
  /\ last' = value /\ issued' = issued + 1 /\ at' = time /\ time' = time + 1
  /\ UNCHANGED <<late, fault>>

Silent == time' = time + 1 /\ UNCHANGED <<last, issued, at, late, fault>>

(* A cycle the schedule does not know of: for an event, or for words.      *)
Slip(forWords) ==
  /\ late' = IF forWords THEN late + 1 ELSE late
  /\ UNCHANGED <<last, issued, at, time, fault>>

Throw(what) == fault' = what /\ UNCHANGED <<last, issued, at, time, late>>

StepNop(a) ==
  /\ a.k = "nop"
  /\ active' = IF a.left > 1 THEN [a EXCEPT !.left = @ - 1] ELSE Idle
  /\ Silent

(* tick_repeat                                                             *)
StepRepeat(a) ==
  LET value == Move(a.base, a.index * a.cmd.row)
  IN  /\ a.k = "repeat"
      /\ \/ /\ a.cooldown > 0
            /\ active' = [a EXCEPT !.cooldown = @ - 1] /\ Silent
         \/ /\ a.cooldown = 0 /\ value.row < 0
            /\ Throw("row") /\ active' = a
         \/ /\ a.cooldown = 0 /\ value.row >= 0
            /\ Issue(value)
            /\ active' = IF a.index = a.cmd.count THEN Idle
                         ELSE [a EXCEPT !.index = @ + 1, !.cooldown = a.cmd.interval - 1]

(* tick_repeat_2d; repeat_2d_issue_offset is Offset2d.                     *)
Offset2d(c, x) == x[1] * c.intervals[1] + x[2] * c.intervals[2]

StepRepeat2d(a) ==
  LET c     == a.cmd
      value == Move(a.base, a.x[1] * c.rows[1] + a.x[2] * c.rows[2])
      next  == IF a.x[1] + 1 = c.counts[1] THEN <<0, a.x[2] + 1>> ELSE <<a.x[1] + 1, a.x[2]>>
  IN  /\ a.k = "repeat2d"
      /\ \/ /\ a.cooldown > 0
            /\ active' = [a EXCEPT !.cooldown = @ - 1] /\ Silent
         \/ /\ a.cooldown = 0 /\ value.row < 0
            /\ Throw("row") /\ active' = a
         \/ /\ a.cooldown = 0 /\ value.row >= 0
            /\ Issue(value)
            /\ active' = IF next[2] = c.counts[2] THEN Idle
                         ELSE [a EXCEPT !.x = next,
                                        !.cooldown = Offset2d(c, next) - Offset2d(c, a.x) - 1]

(* advance_icu_coordinate_3d: the digit that is incremented is the first   *)
(* one below its count; 4 when there is none.                              *)
Digit(c, x) ==
  CHOOSE d \in 1 .. 4 : /\ d = 4 \/ x[d] < c.counts[d] - 1
                        /\ \A e \in 1 .. d - 1 : x[e] = c.counts[e] - 1

(* Mutant: the lower digits are not reset.                                 *)
AdvanceKeepingDigits(c, x) == [d \in 1 .. 3 |-> IF d = Digit(c, x) THEN x[d] + 1 ELSE x[d]]

Advance(c, x) ==
  [d \in 1 .. 3 |-> IF d < Digit(c, x) THEN 0 ELSE IF d = Digit(c, x) THEN x[d] + 1 ELSE x[d]]

(* tick_3d once the packet is active.                                      *)
StepLoop(a) ==
  LET c == a.cmd
  IN  /\ a.k = "loop"
      /\ \/ /\ LoopOffset(c, a.x) > a.elapsed
            /\ active' = [a EXCEPT !.elapsed = @ + 1] /\ Silent
         \/ /\ LoopOffset(c, a.x) < a.elapsed
            /\ Throw("missed") /\ active' = a
         \/ /\ LoopOffset(c, a.x) = a.elapsed
            /\ Issue(LoopValue(c, a.x))
            /\ active' = IF Digit(c, a.x) = 4 THEN Idle
                         ELSE [a EXCEPT !.x = Advance(c, a.x), !.elapsed = @ + 1]

(* tick_mem_write_read_2d: two cursors share the port; the due one issues. *)
Swept(c, x) == x[2] = c.counts[2]
Next2d(c, x) == IF x[1] + 1 < c.counts[1] THEN <<x[1] + 1, x[2]>> ELSE <<0, x[2] + 1>>

StepWriteRead(a) ==
  LET c    == a.cmd
      open == {s \in {1, 2} : ~Swept(c, a.x[s])}
      Due(s) == SideOffset(c, s, a.x[s])
      side == CHOOSE s \in open : \A r \in open : Due(s) <= Due(r)
      next == [a EXCEPT !.x[side] = Next2d(c, @), !.elapsed = @ + 1]
  IN  /\ a.k = "writeread"
      /\ \/ /\ open = {1, 2} /\ Due(1) = Due(2)
            /\ Throw("port") /\ active' = a
         \/ /\ ~(open = {1, 2} /\ Due(1) = Due(2)) /\ Due(side) < a.elapsed
            /\ Throw("missed") /\ active' = a
         \/ /\ ~(open = {1, 2} /\ Due(1) = Due(2)) /\ Due(side) > a.elapsed
            /\ active' = [a EXCEPT !.elapsed = @ + 1] /\ Silent
         \/ /\ ~(open = {1, 2} /\ Due(1) = Due(2)) /\ Due(side) = a.elapsed
            /\ Issue(SideValue(c, side, a.x[side]))
            /\ active' = IF \A s \in {1, 2} : Swept(c, next.x[s]) THEN Idle ELSE next

Step(a) == StepNop(a) \/ StepRepeat(a) \/ StepRepeat2d(a) \/ StepLoop(a) \/ StepWriteRead(a)

(* What a command is when it gets the port.                                *)
Activated(c) ==
  CASE c.k = "nop"       -> [k |-> "nop", left |-> c.count]
    [] c.k = "repeat"    -> [k |-> "repeat", cmd |-> c, base |-> last, index |-> 1,
                             cooldown |-> c.interval - 1]
    [] c.k = "repeat2d"  -> LET x == IF c.counts[1] > 1 THEN <<1, 0>> ELSE <<0, 1>>
                            IN  [k |-> "repeat2d", cmd |-> c, base |-> last, x |-> x,
                                 cooldown |-> Offset2d(c, x) - 1]
    [] c.k = "loop"      -> [k |-> "loop", cmd |-> c, x |-> <<0, 0, 0>>, elapsed |-> 0]
    [] c.k = "writeread" -> [k |-> "writeread", cmd |-> c, x |-> <<<<0, 0>>, <<0, 0>>>>, elapsed |-> 0]

(* The WAIT_EVENTs at the head of the IQ whose tags have arrived: they pass *)
(* one after the other and the next command is dispatched in this cycle.   *)
Passes(n) ==
  \A w \in 1 .. n :
    LET c == Command(IqNow[w])
    IN  c.k = "wait" /\ Cardinality({v \in 1 .. w : Command(IqNow[v]) = c}) <= tags[c.tag]

Released ==
  CHOOSE n \in 0 .. Len(IqNow) : Passes(n) /\ (n < Len(IqNow) => ~Passes(n + 1))

Consume(n) ==
  tags' = [t \in Tags |-> tags[t] - Cardinality({w \in 1 .. n : Command(IqNow[w]).tag = t})]

(* dispatch_ready_raw_entry with n WAIT_EVENTs passed: nothing is left.    *)
DispatchNothing(n) ==
  /\ n = Len(IqNow)
  /\ \/ n = 0 /\ Throw("underflow")
     \/ n > 0 /\ Slip(MoreWords)
  /\ Frontend(n) /\ UNCHANGED <<active, tokens>>

(* ... the next command is c.                                              *)
DispatchControl(n, c) ==
  \/ c.k = "wait" /\ Slip(FALSE) /\ Frontend(n) /\ UNCHANGED <<active, tokens>>
  \/ /\ c.k = "sync" /\ tokens = 0
     /\ Slip(FALSE) /\ Frontend(n) /\ UNCHANGED <<active, tokens>>
  \/ /\ c.k = "sync" /\ tokens > 0
     /\ tokens' = tokens - 1
     /\ Silent /\ Frontend(n + 1) /\ UNCHANGED active
  \/ c.k = "notify" /\ Silent /\ Frontend(n + 1) /\ UNCHANGED <<active, tokens>>

DispatchInstruction(n, c) ==
  /\ c.k = "insn"
  /\ Issue(c.value) /\ Frontend(n + 1) /\ UNCHANGED <<active, tokens>>

(* NOP, REPEAT and packets own the port from this cycle on; a packet whose *)
(* words are not all in the IQ waits for them.                             *)
DispatchOwner(n, c) ==
  /\ c.k \in {"nop", "repeat", "repeat2d", "loop", "writeread"}
  /\ \/ /\ c.k \in {"repeat", "repeat2d"} /\ last = None
        /\ Throw("base") /\ Frontend(n) /\ UNCHANGED active
     \/ /\ Len(IqNow) - n < Words(c)
        /\ Slip(TRUE) /\ Frontend(n) /\ UNCHANGED active
     \/ /\ Len(IqNow) - n >= Words(c)
        /\ c.k \in {"repeat", "repeat2d"} => last # None
        /\ Step(Activated(c)) /\ Frontend(n + Words(c))
  /\ UNCHANGED tokens

Dispatch ==
  LET n == Released
  IN  /\ Consume(n)
      /\ \/ DispatchNothing(n)
         \/ /\ n < Len(IqNow)
            /\ LET c == Command(IqNow[n + 1])
               IN  DispatchControl(n, c) \/ DispatchInstruction(n, c) \/ DispatchOwner(n, c)
-----------------------------------------------------------------------------
NativeRunning == mode = "run" /\ fault = "none"

(* tick()                                                                  *)
NativeTick ==
  /\ NativeRunning /\ ~NativeDone
  /\ \/ active # Idle /\ Step(active) /\ Frontend(0) /\ UNCHANGED <<tokens, tags>>
     \/ active = Idle /\ Dispatch
  /\ UNCHANGED <<programVars, mode, events>>

(* hold_compute_cycle(): responses are taken, nothing is fetched.          *)
NativeHold ==
  /\ NativeRunning
  /\ iq' = IqNow /\ pending' = Aged(Waiting)
  /\ UNCHANGED <<programVars, historyVars, eventVars, fetchPc, mode, active, last, fault>>

(* notify() and notify(tag), by other queues and by transport.             *)
NativeNotify ==
  /\ NativeRunning /\ ~NativeDone /\ events < MaxEvents
  /\ events' = events + 1
  /\ \/ tokens' = tokens + 1 /\ UNCHANGED tags
     \/ \E t \in Tags : tags' = [tags EXCEPT ![t] = @ + 1] /\ UNCHANGED tokens
  /\ UNCHANGED <<programVars, frontendVars, historyVars, mode, active, last, fault>>
-----------------------------------------------------------------------------
NativeTypeOK ==
  /\ Len(imem) <= ImemDepth /\ Len(starts) = Len(code)
  /\ \A w \in DOMAIN imem : imem[w].cmd \in DOMAIN code /\ imem[w].part \in 1 .. Words(Command(w))
  /\ cursor \in [known : BOOLEAN, at : Nat]
  /\ mode \in {"load", "prime", "run"} /\ fetchPc \in 1 .. Len(imem) + 1
  /\ Len(iq) + Len(pending) <= IqDepth
  /\ \A w \in DOMAIN iq : iq[w] = fetchPc - Len(pending) - Len(iq) + w - 1
  /\ \A f \in DOMAIN pending : /\ pending[f].pc = fetchPc - Len(pending) + f - 1
                              /\ pending[f].left < FetchLatency
  /\ last.op \in {"rd", "wr", "none"} /\ last.row \in Nat /\ {time, late, at, issued} \subseteq Nat
  /\ tokens \in 0 .. MaxEvents /\ tags \in [Tags -> 0 .. MaxEvents]
  /\ events \in 0 .. MaxEvents
  /\ fault \in {"none", "underflow", "base", "row", "missed", "port"}

(* Every instruction of the unrolled program is issued once, in order, with *)
(* the row its loops give it, and in its cycle, counting those in which the *)
(* queue did not wait for an event or a word.  Nothing else moves an issue, *)
(* in particular no hold of compute and no prefetch.                       *)
IssuesOnSchedule ==
  /\ issued <= Len(want)
  /\ issued > 0 => [at |-> at, value |-> last] = want[issued]
  /\ NativeDone /\ mode = "run" => issued = Len(want) /\ time = ProgramEnd
  /\ fault \notin {"missed", "port"}

(* The absolute starts of an old compiler keep their distances: those      *)
(* before the first event are the cycles in which the loops begin, later   *)
(* ones are relative to the first of their event.                          *)
LegacyStartsKept ==
  \A i, j \in DOMAIN legacy :
    /\ legacy[i].epoch = 0 => legacy[i].at = legacy[i].start
    /\ legacy[i].epoch = legacy[j].epoch =>
         legacy[i].at - legacy[j].at = legacy[i].start - legacy[j].start

(* What a compiler has to see to: word w can be fetched once the word that *)
(* is IqDepth before it has been taken and one fetch begins per cycle.     *)
TakenAt(w) == starts[imem[w].cmd]
FetchAt[w \in Nat] ==
  IF w <= IqDepth THEN -FetchLatency
  ELSE LET last0 == IF w = IqDepth + 1 THEN -1 ELSE FetchAt[w - 1]
       IN  IF last0 + 1 > TakenAt(w - IqDepth) THEN last0 + 1 ELSE TakenAt(w - IqDepth)

Sustained == \A w \in DOMAIN imem : FetchAt[w] + FetchLatency <= TakenAt(w)

(* A program that fetching can sustain never waits for a word: no holds,   *)
(* late events or long packets bring the frontend behind.                  *)
NeverStarves == Sustained => late = 0 /\ fault # "underflow"
=============================================================================
