----------------------------- MODULE Encodings -----------------------------
(***************************************************************************)
(* One instruction on its way through an instruction queue's encodings:    *)
(* the host encodes it for a queue's role, in full or in its shortest      *)
(* form, may relocate the packet in place, and the queue's dispatcher      *)
(* (icu/distributed_queue.hpp) classifies the word at the head of its IQ,  *)
(* collects the words the packet needs and decodes them.  A bit of the     *)
(* packet may flip on the way: there is no checksum, so what protects a    *)
(* queue from a corrupted word is that every bit means something.          *)
(***************************************************************************)
EXTENDS WordCodec

CONSTANTS
    Samples,        \* role -> instructions the host gives that queue
    Damaged,        \* role -> those whose packets are also corrupted
    Bases,          \* MEM base rows a packet is relocated to
    Scales,         \* dequantisation scales, as bit sets
    PointLimit      \* domains of more points are not enumerated

VARIABLES
    role,       \* the queue's role
    given,      \* the instruction the host encodes
    stage,      \* where it is: "given", "encoded", "decoded", "rejected"
    history,    \* what happened to the packet, a list of steps
    flipped,    \* the corrupted bit, or -1
    meant,      \* the instruction the packet stands for
    packet,     \* the encoded words
    words,      \* how many words the packet occupies
    result      \* what the queue decoded

vars == <<role, given, stage, history, flipped, meant, packet, words, result>>

LoopRoles == {"Mem", "MxmLoad", "MxmDequant", "MxmCompute", "Vxm",
              "SxmTranspose", "SxmPermute"}
LoopOps == {"Read3D", "Write3D", "WriteTap3D", "Dequant3D", "VxmRun2D",
            "SxmTranspose", "SxmPermute"}
              \cup {LoadOps[n] : n \in 1 .. 3} \cup {ComputeOps[n] : n \in 1 .. 3}
ControlOps == {"Nop", "Repeat", "Repeat2D", "Sync", "Notify", "WaitEvent"}

----------------------------------------------------------------------------
(* The encoders, by instruction and role. *)

EncodeLoop(i) ==
    CASE role = "Mem" -> EncodeMem(i)
      [] role = "MxmLoad" -> EncodeMxmLoad(i)
      [] role = "MxmDequant" -> EncodeMxmDequant(i)
      [] role = "MxmCompute" -> EncodeMxmCompute(i)
      [] role = "Vxm" -> EncodeVxm(i)
      [] role = "SxmTranspose" -> EncodeSxmTranspose(i)
      [] role = "SxmPermute" -> EncodeSxmPermute(i)

Shortest(i) ==
    CASE role = "Mem" -> EncodeMemShortest(i)
      [] role = "MxmLoad" -> EncodeMxmLoadShortest(i)
      [] role = "MxmDequant" -> EncodeMxmDequantShortest(i)
      [] role = "MxmCompute" -> EncodeMxmComputeShortest(i)

Encoded(i) ==
    CASE i.op \in LoopOps -> EncodeLoop(i)
      [] i.op = "WriteRead2D" -> EncodeWriteRead2D(i)
      [] i.op = "Synchronized" -> EncodeSynchronized(i)
      [] i.op \in ControlOps -> EncodeControl(i)
      [] i.op = "Endpoint" -> EncodeEndpoint(role, i)
      [] i.op = "Dma" -> EncodeDma(i)
      [] OTHER -> EncodeNative(role, i)

----------------------------------------------------------------------------
(* The dispatcher's classification of the word at the head of the IQ. *)

Extended(p) == EnvelopeOp(p) = 3
IsLoopEntry(p) ==       \* is_3d_entry
    /\ role \in LoopRoles /\ Extended(p)
    /\ Subtype(p) = 2 \/ (HasShort(role) /\ Subtype(p) \in 8 .. 10)
IsWriteRead2D(p) == role = "Mem" /\ Extended(p) /\ Subtype(p) = 7
IsSynchronized(p) == role = "Mem" /\ Extended(p) /\ Subtype(p) = 6

PacketWords(p) ==
    CASE IsLoopEntry(p) -> WordCount(role, p)
      [] IsWriteRead2D(p) -> 3
      [] IsSynchronized(p) -> 2
      [] role = "C2cDma" /\ EnvelopeOp(p) = 0 -> 2
      [] OTHER -> 1

DecodeLoop(p) ==
    CASE role = "Mem" -> DecodeMem(p)
      [] role = "MxmLoad" -> DecodeMxmLoad(p)
      [] role = "MxmDequant" -> DecodeMxmDequant(p)
      [] role = "MxmCompute" -> DecodeMxmCompute(p)
      [] role = "Vxm" -> DecodeVxm(p)
      [] role = "SxmTranspose" -> DecodeSxmTranspose(p)
      [] role = "SxmPermute" -> DecodeSxmPermute(p)

\* dispatch_ready_raw_entry on an IQ that holds `words` words of the packet.
Dispatched(p) ==
    LET needed == PacketWords(p)
        taken == {b \in p : b < needed * WordBits(role)}
    IN  IF needed > words THEN Refused
        ELSE CASE IsLoopEntry(p) -> DecodeLoop(taken)
               [] IsWriteRead2D(p) -> DecodeWriteRead2D(taken)
               [] IsSynchronized(p) -> DecodeSynchronized(taken)
               [] EnvelopeOp(p) = 0 -> DecodeNative(role, taken)
               [] OTHER -> DecodeControl(taken)

----------------------------------------------------------------------------
Init ==
    /\ role \in DOMAIN Samples
    /\ given \in Samples[role]
    /\ stage = "given" /\ history = {} /\ flipped = -1
    /\ meant = given
    /\ packet = {} /\ words = 0 /\ result = Refused

\* append_3d_packet and its kin: encode, or throw and append nothing.
Appended(step, p) ==
    /\ stage = "given"
    /\ IF p = NoPacket
       THEN stage' = "rejected" /\ UNCHANGED <<packet, words>>
       ELSE stage' = "encoded" /\ packet' = p /\ words' = PacketWords(p)
    /\ history' = history \cup {step}
    /\ UNCHANGED <<role, given, flipped, meant, result>>

Encode == Appended("full", Encoded(given))

Shorten == /\ HasShort(role) /\ given.op \in LoopOps
           /\ Appended("short", Shortest(given))

Patched(i, p) ==
    /\ stage = "encoded" /\ flipped = -1 /\ "relocated" \notin history
    /\ packet' = p /\ p # NoPacket
    /\ meant' = i
    /\ history' = history \cup {"relocated"}
    /\ UNCHANGED <<role, given, stage, flipped, words, result>>

\* The program loader moves a packet's buffer, or sets a new scale.
Relocate ==
    /\ role = "Mem" /\ given.op \in LoopOps
    /\ \E base \in Bases :
          Patched([given EXCEPT !.base = base], PatchMemBase(packet, base))
Rescale ==
    /\ role = "MxmDequant" /\ given.op \in LoopOps
    /\ \E scale \in Scales :
          Patched([given EXCEPT !.scale = scale], PatchDequantScale(packet, scale))

Flip ==
    /\ stage = "encoded" /\ history = {"full"} /\ flipped = -1
    /\ given \in Damaged[role]
    /\ \E b \in 0 .. words * WordBits(role) - 1 :
          /\ flipped' = b
          /\ packet' = IF b \in packet THEN packet \ {b} ELSE packet \cup {b}
    /\ UNCHANGED <<role, given, stage, history, meant, words, result>>

Dispatch ==
    /\ stage = "encoded"
    /\ result' = Dispatched(packet)
    /\ stage' = "decoded"
    /\ UNCHANGED <<role, given, history, flipped, meant, packet, words>>

Next == Encode \/ Shorten \/ Relocate \/ Rescale \/ Flip \/ Dispatch

Spec == Init /\ [][Next]_vars

----------------------------------------------------------------------------
(* What an instruction does: the native instructions it issues, and when. *)

Expansion(r, i, x) ==
    CASE r = "Mem" -> ExpandMem(i, x)
      [] r = "MxmLoad" -> ExpandMxmLoad(i, x)
      [] r = "MxmDequant" -> [op |-> "Dequant", scale |-> i.scale]
      [] r = "MxmCompute" -> ExpandMxmCompute(i, x)
      [] r = "SxmPermute" -> [op |-> "Permute", map |-> ExpandSxmPermute(i, x)]
      [] OTHER -> [op |-> i.op]

Issues(r, i) == {<<IssueCycle(i, x), Expansion(r, i, x)>> : x \in Points(i)}

(* An instruction that reaches its queue undamaged is the one the host     *)
(* gave: field by field in the full form, and with the same native         *)
(* instructions at the same cycles in the shortest one.  A relocated       *)
(* packet differs in the base row or the scale and in nothing else,        *)
(* whatever its form.                                                      *)
RoundTrip ==
    stage = "decoded" /\ flipped = -1 =>
        IF "short" \in history
        THEN /\ result # Refused
             /\ PointCount(meant) <= PointLimit
                  => Issues(role, result) = Issues(role, meant)
        ELSE result = meant

\* The bits a decoder skips: the map stream of a plain access, the address
\* of an indexed one, the inner column of a block IW, the tag of an event.
IgnoredBits(i) ==
    CASE i.op \in {"Read", "Write", "WriteTap"} -> 11 .. 16
      [] i.op \in {"Gather", "Scatter"} -> 17 .. 29
      [] i.op = "IW" -> IF i.vector = 0 THEN 8 .. 10 ELSE {}
      [] i.op \in {"Sync", "Notify"} -> 2 .. 65
      [] OTHER -> {}

(* No bit of a packet is dead: flip any one of them and the queue refuses  *)
(* the packet or decodes another instruction, but for the named fields the *)
(* native decoders skip.  Reserved bits, word headers and subtypes are     *)
(* spread over four encodings and checked by each decoder on its own.      *)
NoDeadBits ==
    stage = "decoded" /\ flipped # -1 /\ result = given =>
        flipped \in IF given.op = "Synchronized"
                    THEN {96 + b : b \in IgnoredBits(given.template)}
                    ELSE IgnoredBits(given)

\* The single-port schedule of WRITE_READ_2D: no two accesses in a cycle,
\* no row written twice, every row read after it is written.
SweepsSafe(i) ==
    LET writes == {WriteCycle(i, x) : x \in Pairs(i)}
        reads == {ReadCycle(i, x) : x \in Pairs(i)}
        n == Cardinality(Pairs(i))
    IN  /\ Cardinality(writes \cup reads) = 2 * n
        /\ Cardinality({Row2D(i, x) : x \in Pairs(i)}) = n
        /\ \A x \in Pairs(i) :
              /\ WriteCycle(i, x) < ReadCycle(i, x)
              /\ \A read \in BOOLEAN :
                    NativeAccepted(ExpandWriteRead2D(i, x, read))

(* A 3-D domain is validated at its corners and once for its native        *)
(* fields, then issued without a check: IS_STREAM_COMPUTE_3D in a column   *)
(* beyond the first spills into the next accumulator row, which only the   *)
(* native factory looks at.                                                *)
SpillsRow(i) == i.op = "IsStreamCompute3D" /\ i.column > 0

(* What a queue accepts it can issue: no two points of the domain fall on  *)
(* the same cycle, every point expands to a native instruction its unit    *)
(* accepts, and COMPUTE_3D's rows stay in the accumulator; for             *)
(* WRITE_READ_2D, see SweepsSafe.  The validator looks at corners, strides *)
(* and spans only.                                                         *)
DomainsSafe ==
    stage = "decoded" =>
        CASE result.op \in LoopOps ->
               PointCount(result) <= PointLimit /\ ~SpillsRow(result) =>
                 /\ Cardinality({IssueCycle(result, x) : x \in Points(result)})
                      = PointCount(result)
                 /\ \A x \in Points(result) :
                      LET n == Expansion(role, result, x)
                      IN  /\ NativeAccepted(n)
                          /\ n.op = "Compute" =>
                               n.address + x[1] * n.rowStride
                                  \in 0 .. AccumulatorRows - 1
          [] result.op = "WriteRead2D" ->
               Times(result.counts[1], result.counts[2]) <= PointLimit
                  => SweepsSafe(result)
          [] OTHER -> TRUE
=============================================================================
