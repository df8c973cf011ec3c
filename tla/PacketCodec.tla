---------------------------- MODULE PacketCodec ----------------------------
(***************************************************************************)
(* The multi-word packets of the functional queues, bit by bit: the full   *)
(* 3-D packets, their short forms, WRITE_READ_2D and the VXM / SXM RUN_2D  *)
(* packets (icu/packet_bit_codec.hpp, icu/fu_3d_codec.hpp,                 *)
(* icu/vxm_run_2d.hpp, icu/sxm_run_2d.hpp), for the 32-lane target.        *)
(*                                                                         *)
(* A packet is the set of its one bits, a bit numbered across the words.   *)
(* The logical payload skips the 8-bit header of every word and the        *)
(* subtype nibble of word 0.  Encoder and decoder state their offsets      *)
(* separately, as the code does; either may refuse (the code throws).      *)
(***************************************************************************)
EXTENDS LaunchDomains, Sequences

NoPacket == {-1}                \* an encoder that threw
Refused == [op |-> "Refused"]   \* a decoder that threw

Bits(v, width) == {b \in 0 .. width - 1 : (v \div 2^b) % 2 = 1}
RECURSIVE Number(_, _, _)
Number(q, at, width) ==
    IF width = 0 THEN 0
    ELSE (IF at \in q THEN 1 ELSE 0) + 2 * Number(q, at + 1, width - 1)
Signed(q, at, width) ==
    LET n == Number(q, at, width)
    IN  IF n < 2^(width - 1) THEN n ELSE n - 2^width
Raw(q, at, width) == {b \in 0 .. width - 1 : at + b \in q}

\* A field to write, with whether its value fits.
U(at, width, v) == [at |-> at, fits |-> v \in 0 .. 2^width - 1,
                    bits |-> Bits(v, width)]
S(at, width, v) == [at |-> at, bits |-> Bits(v % 2^width, width),
                    fits |-> v \in -(2^(width - 1)) .. 2^(width - 1) - 1]
R(at, bits) == [at |-> at, fits |-> TRUE, bits |-> bits]
Placed(fields) == UNION {{f.at + b : b \in f.bits} : f \in fields}

(* Geometry of a packet type: bits per word and words. *)
Wide96(words) == [bits |-> 96, words |-> words]
Geometry == [Mem |-> Wide96(3), WriteRead2D |-> Wide96(3), Vxm |-> Wide96(3),
             SxmTranspose |-> Wide96(2), SxmPermute |-> Wide96(4),
             MxmLoad |-> [bits |-> 128, words |-> 2],
             MxmDequant |-> [bits |-> 128, words |-> 2],
             MxmCompute |-> [bits |-> 128, words |-> 2]]

PayloadBits(g) == g.words * (g.bits - 8) - 4
\* packet_bit_location
Location(g, n) ==
    IF n < 80 THEN 8 + n
    ELSE IF n < g.bits - 12 THEN 12 + n
    ELSE LET m == n - (g.bits - 12)
         IN  (1 + m \div (g.bits - 8)) * g.bits + 8 + (m % (g.bits - 8))
Payload(g, p) == {n \in 0 .. PayloadBits(g) - 1 : Location(g, n) \in p}
ReservedZero(q, used) == \A n \in q : n < used

Subtype(p) == Number(p, 88, 4)
LocalOp(p) == Number(p, 4, 2)
WordHeader(word, op) == 3 + 4 * word + 16 * op + 64
Headers(g, words, op, subtype) ==
    {88 + b : b \in Bits(subtype, 4)}
        \cup UNION {{w * g.bits + b : b \in Bits(WordHeader(w, op), 8)} :
                    w \in 0 .. words - 1}
(* Mutant: only the header of the first word is looked at. *)
FirstHeaderMatches(g, p, words, op, subtype) ==
    Subtype(p) = subtype /\ Number(p, 0, 8) = WordHeader(0, op)
HeadersMatch(g, p, words, op, subtype) ==
    /\ Subtype(p) = subtype
    /\ \A w \in 0 .. words - 1 : Number(p, w * g.bits, 8) = WordHeader(w, op)

Packed(g, words, op, subtype, fields) ==
    IF \A f \in fields : f.fits
    THEN Headers(g, words, op, subtype)
            \cup {Location(g, n) : n \in Placed(fields)}
    ELSE NoPacket

----------------------------------------------------------------------------
(* Loop fields of the full packets, and the short ones (subtypes 8 .. 10). *)

LoopFields(i) ==
    {U(0, 24, i.wait)}
        \cup {U(24 + 16 * (d - 1), 16, i.counts[d] - 1) : d \in 1 .. 3}
        \cup {U(72 + 24 * (d - 1), 24, i.strides[d]) : d \in 1 .. 3}
Wait(q) == Number(q, 0, 24)
Counts(q) == <<Number(q, 24, 16) + 1, Number(q, 40, 16) + 1,
               Number(q, 56, 16) + 1>>
Strides(q) == <<Number(q, 72, 24), Number(q, 96, 24), Number(q, 120, 24)>>

HasShort(t) == t \in {"Mem", "MxmLoad", "MxmDequant", "MxmCompute"}
ShortRank(p) == IF Subtype(p) \in 8 .. 10 THEN Subtype(p) - 8 ELSE -1
TailBits(t) == CASE t = "MxmLoad" -> 59 [] t = "MxmCompute" -> 90
                 [] t = "MxmDequant" -> 16
AxisBits(t, rank) == IF t # "Mem" /\ rank > 0 THEN 2 ELSE 0
TailAt(t, rank) == 24 + AxisBits(t, rank) + 40 * rank
ShortUsedBits(t, rank) ==
    IF t = "Mem" THEN 43 + 60 * rank ELSE TailAt(t, rank) + TailBits(t)
ShortWords(t, rank) ==
    LET payload == Geometry[t].bits - 8
    IN  (ShortUsedBits(t, rank) + 4 + payload - 1) \div payload

\* How many words the packet that starts with this word occupies.
WordCount(t, p) ==
    IF HasShort(t) /\ ShortRank(p) >= 0 THEN ShortWords(t, ShortRank(p))
    ELSE Geometry[t].words

\* The loop axes a short packet carries: MEM fills the inner ones first, MXM
\* selects the active axis (rank 1) or the inactive one (rank 2).
ActiveAxes(t, rank, selector) ==
    CASE t = "Mem" -> 1 .. rank
      [] rank = 0 -> {}
      [] rank = 1 -> {selector + 1}
      [] OTHER -> (1 .. 3) \ {selector + 1}
AxisAt(t, rank, axes, d) ==
    24 + AxisBits(t, rank) + 16 * Cardinality({e \in axes : e < d})
StrideAt(t, rank, axes, d) ==
    24 + AxisBits(t, rank) + 16 * rank + 24 * Cardinality({e \in axes : e < d})

ShortLoopFields(t, i, rank, selector) ==
    LET axes == ActiveAxes(t, rank, selector)
    IN  {U(0, 24, i.wait)}
        \cup (IF AxisBits(t, rank) = 0 THEN {} ELSE {U(24, 2, selector)})
        \cup {U(AxisAt(t, rank, axes, d), 16, i.counts[d] - 1) : d \in axes}
        \cup {U(StrideAt(t, rank, axes, d), 24, i.strides[d]) : d \in axes}

ShortLoop(t, q, rank) ==
    LET selector == IF AxisBits(t, rank) = 0 THEN 0 ELSE Number(q, 24, 2)
        axes == ActiveAxes(t, rank, selector)
    IN  [wait |-> Wait(q), selector |-> selector,
         counts |-> [d \in 1 .. 3 |-> IF d \notin axes THEN 1
                     ELSE Number(q, AxisAt(t, rank, axes, d), 16) + 1],
         strides |-> [d \in 1 .. 3 |-> IF d \notin axes THEN 1
                      ELSE Number(q, StrideAt(t, rank, axes, d), 24)]]

\* Headers and reserved bits of a short packet.
ShortWellFormed(t, p, q, rank) ==
    /\ HeadersMatch(Geometry[t], p, ShortWords(t, rank), LocalOp(p), 8 + rank)
    /\ ReservedZero(q, ShortUsedBits(t, rank))
    /\ ShortLoop(t, q, rank).selector <= 2

\* The payload the MXM decoders work on: a short packet is expanded to the
\* full layout first, its tail moved to bit 144.
Expanded(t, p, q, rank) ==
    Placed(LoopFields(ShortLoop(t, q, rank)))
        \cup {144 + b : b \in Raw(q, TailAt(t, rank), TailBits(t))}

\* compact_mxm_packet: rank 3 stays full.
Compacted(t, i, p) ==
    LET active == {d \in 1 .. 3 : i.counts[d] > 1}
        rank == Cardinality(active)
        selector == IF rank = 0 THEN 0
                    ELSE (CHOOSE d \in 1 .. 3 : (rank = 1) = (d \in active)) - 1
        tail == Raw(Payload(Geometry[t], p), 144, TailBits(t))
    IN  IF p = NoPacket \/ rank = 3 THEN p
        ELSE Packed(Geometry[t], ShortWords(t, rank), LocalOp(p), 8 + rank,
                    ShortLoopFields(t, i, rank, selector)
                        \cup {R(TailAt(t, rank), tail)})

----------------------------------------------------------------------------
(* MEM 3-D packets. *)

OpIndex(ops, op) == (CHOOSE n \in DOMAIN ops : ops[n] = op) - 1

MemFields(i) ==
    {U(144, 6, i.stream), U(150, 13, i.base), U(163, 16, i.group - 1),
     S(179, 20, i.inner), S(199, 20, i.middle), S(219, 20, i.outerInner),
     S(239, 20, i.outerGroup)}

EncodeMem(i) ==
    IF ValidMem(i)
    THEN Packed(Geometry["Mem"], 3, OpIndex(MemOps, i.op), 2,
                LoopFields(i) \cup MemFields(i))
    ELSE NoPacket

DecodedMem(op, q) ==
    [op |-> MemOps[op + 1], wait |-> Wait(q), counts |-> Counts(q),
     strides |-> Strides(q), stream |-> Number(q, 144, 6),
     base |-> Number(q, 150, 13), group |-> Number(q, 163, 16) + 1,
     inner |-> Signed(q, 179, 20), middle |-> Signed(q, 199, 20),
     outerInner |-> Signed(q, 219, 20), outerGroup |-> Signed(q, 239, 20)]

DecodedShortMem(op, q, rank) ==
    LET loop == ShortLoop("Mem", q, rank)  tail == 24 + 40 * rank
    IN  [op |-> MemOps[op + 1], wait |-> loop.wait, counts |-> loop.counts,
         strides |-> loop.strides, stream |-> Number(q, tail, 6),
         base |-> Number(q, tail + 6, 13), group |-> 1,
         inner |-> IF rank > 0 THEN Signed(q, tail + 19, 20) ELSE 0,
         middle |-> IF rank > 1 THEN Signed(q, tail + 39, 20) ELSE 0,
         outerInner |-> 0, outerGroup |-> 0]

DecodeMem(p) ==
    LET q == Payload(Geometry["Mem"], p)
        rank == ShortRank(p)
        op == LocalOp(p)
        i == IF rank < 0 THEN DecodedMem(op, q) ELSE DecodedShortMem(op, q, rank)
        wellFormed ==
            IF rank < 0 THEN HeadersMatch(Geometry["Mem"], p, 3, op, 2)
                             /\ ReservedZero(q, 259)
                        ELSE ShortWellFormed("Mem", p, q, rank)
    IN  IF op <= 2 /\ wellFormed /\ ValidMem(i) THEN i ELSE Refused

\* canonical_mem_icu_domain: the outer generator becomes affine when it is,
\* then contiguous neighbouring axes merge, innermost first.
AffineOuter(i) ==
    IF i.counts[3] = 1 \/ i.group = 1 THEN i.outerGroup ELSE i.outerInner
BlockedOuter(i) == i.counts[3] > 1 /\ i.group > 1 /\ i.counts[3] > i.group
                   /\ i.outerGroup # Times(i.group, i.outerInner)
Axis(count, stride, step) == [count |-> count, stride |-> stride, step |-> step]
(* Mutant: axes merge when their rows continue, whatever their cycles. *)
MergedOnRows(axes, a) ==
    LET n == Len(axes)
    IN  IF a.count = 1 THEN axes
        ELSE IF n > 0 /\ a.count <= CountLimit \div axes[n].count
                /\ a.step = Times(axes[n].count, axes[n].step)
        THEN [axes EXCEPT ![n].count = @ * a.count]
        ELSE Append(axes, a)
Merged(axes, a) ==
    LET n == Len(axes)
    IN  IF a.count = 1 THEN axes
        ELSE IF n > 0 /\ a.count <= CountLimit \div axes[n].count
                /\ a.stride = Times(axes[n].count, axes[n].stride)
                /\ a.step = Times(axes[n].count, axes[n].step)
        THEN [axes EXCEPT ![n].count = @ * a.count]
        ELSE Append(axes, a)
CanonicalAxes(i) ==
    Merged(Merged(Merged(<<>>, Axis(i.counts[1], i.strides[1], i.inner)),
                  Axis(i.counts[2], i.strides[2], i.middle)),
           Axis(i.counts[3], i.strides[3], AffineOuter(i)))
CanonicalMem(i) ==
    LET axes == CanonicalAxes(i)
        axis(d) == IF d <= Len(axes) THEN axes[d] ELSE Axis(1, 1, 0)
    IN  IF BlockedOuter(i) THEN i
        ELSE [i EXCEPT !.counts = [d \in 1 .. 3 |-> axis(d).count],
                       !.strides = [d \in 1 .. 3 |-> axis(d).stride],
                       !.inner = axis(1).step, !.middle = axis(2).step,
                       !.outerGroup = axis(3).step, !.group = 1,
                       !.outerInner = 0]

ShortMemFields(i, rank) ==
    LET tail == 24 + 40 * rank
    IN  {U(tail, 6, i.stream), U(tail + 6, 13, i.base)}
        \cup (IF rank > 0 THEN {S(tail + 19, 20, i.inner)} ELSE {})
        \cup (IF rank > 1 THEN {S(tail + 39, 20, i.middle)} ELSE {})

EncodeMemShortest(instruction) ==
    LET i == CanonicalMem(instruction)
        full == EncodeMem(i)
        rank == Cardinality({d \in 1 .. 3 : \A e \in 1 .. d : i.counts[e] > 1})
    IN  IF ~ValidMem(instruction) \/ full = NoPacket THEN NoPacket
        ELSE IF i.group # 1 \/ rank = 3 THEN full
        ELSE Packed(Geometry["Mem"], ShortWords("Mem", rank),
                    OpIndex(MemOps, i.op), 8 + rank,
                    ShortLoopFields("Mem", i, rank, 0)
                        \cup ShortMemFields(i, rank))

----------------------------------------------------------------------------
(* MEM WRITE_READ_2D: subtype 7, local operation 3. *)

EncodeWriteRead2D(i) ==
    IF ValidWriteRead2D(i)
    THEN Packed(Geometry["WriteRead2D"], 3, 3, 7,
           {U(0, 24, i.wait), U(24, 16, i.counts[1] - 1),
            U(40, 16, i.counts[2] - 1), U(56, 24, i.writeStrides[1]),
            U(80, 24, i.writeStrides[2]), U(104, 24, i.readStrides[1]),
            U(128, 24, i.readStrides[2]), U(152, 24, i.offset),
            U(176, 13, i.base), S(189, 20, i.rowStrides[1]),
            S(209, 20, i.rowStrides[2]), U(229, 6, i.writeStream),
            U(235, 6, i.readStream), S(241, 6, i.streamStride)})
    ELSE NoPacket

DecodeWriteRead2D(p) ==
    LET q == Payload(Geometry["WriteRead2D"], p)
        i == [op |-> "WriteRead2D", wait |-> Number(q, 0, 24),
              counts |-> <<Number(q, 24, 16) + 1, Number(q, 40, 16) + 1>>,
              writeStrides |-> <<Number(q, 56, 24), Number(q, 80, 24)>>,
              readStrides |-> <<Number(q, 104, 24), Number(q, 128, 24)>>,
              offset |-> Number(q, 152, 24), base |-> Number(q, 176, 13),
              rowStrides |-> <<Signed(q, 189, 20), Signed(q, 209, 20)>>,
              writeStream |-> Number(q, 229, 6),
              readStream |-> Number(q, 235, 6),
              streamStride |-> Signed(q, 241, 6)]
    IN  IF /\ HeadersMatch(Geometry["WriteRead2D"], p, 3, 3, 7)
           /\ ReservedZero(q, 247)
           /\ ValidWriteRead2D(i)
        THEN i ELSE Refused

----------------------------------------------------------------------------
(* MXM packets. *)

MxmFull(t, valid, ops, i, fields) ==
    IF valid THEN Packed(Geometry[t], 2, OpIndex(ops, i.op), 2,
                         LoopFields(i) \cup fields)
             ELSE NoPacket

\* The checks before an MXM packet's fields are read, and the payload they
\* are read from.
MxmWellFormed(t, p, ops) ==
    LET rank == ShortRank(p)
    IN  /\ LocalOp(p) < Len(ops)
        /\ IF rank < 0 THEN HeadersMatch(Geometry[t], p, 2, LocalOp(p), 2)
           ELSE ShortWellFormed(t, p, Payload(Geometry[t], p), rank)
MxmPayload(t, p) ==
    LET q == Payload(Geometry[t], p)
    IN  IF ShortRank(p) < 0 THEN q ELSE Expanded(t, p, q, ShortRank(p))

MxmLoadFields(i) ==
    LET vector == i.op = "LoadColumn3D"
    IN  {U(144, 1, i.buffer), U(145, 2, i.bufferMode)} \cup
        (IF i.op = "IsLoadActivation3D"
         THEN {U(147, 5, i.stream), U(152, 1, i.format), U(153, 1, i.isMode)}
         ELSE {U(147, 2, IF vector THEN i.column \div 8 ELSE i.column),
               S(149, 16, i.columnStrides[1]), S(165, 16, i.columnStrides[2]),
               S(181, 16, i.columnStrides[3]), U(197, 5, i.stream),
               U(202, 1, i.input), U(203, 3, IF vector THEN i.column % 8 ELSE 0)})
EncodeMxmLoad(i) ==
    MxmFull("MxmLoad", ValidMxmLoad(i), LoadOps, i, MxmLoadFields(i))
EncodeMxmLoadShortest(i) ==
    IF i.op = "LoadColumn3D" THEN EncodeMxmLoad(i)
    ELSE Compacted("MxmLoad", i, EncodeMxmLoad(i))

DecodedMxmLoad(op, q) ==
    IF op = "IsLoadActivation3D"
    THEN [op |-> op, wait |-> Wait(q), counts |-> Counts(q),
          strides |-> Strides(q), buffer |-> Number(q, 144, 1),
          bufferMode |-> Number(q, 145, 2), stream |-> Number(q, 147, 5),
          format |-> Number(q, 152, 1), isMode |-> Number(q, 153, 1)]
    ELSE [op |-> op, wait |-> Wait(q), counts |-> Counts(q),
          strides |-> Strides(q), buffer |-> Number(q, 144, 1),
          bufferMode |-> Number(q, 145, 2),
          column |-> IF op = "LoadColumn3D"
                     THEN 8 * Number(q, 147, 2) + Number(q, 203, 3)
                     ELSE Number(q, 147, 2),
          columnStrides |-> <<Signed(q, 149, 16), Signed(q, 165, 16),
                              Signed(q, 181, 16)>>,
          stream |-> Number(q, 197, 5), input |-> Number(q, 202, 1)]
DecodeMxmLoad(p) ==
    LET q == MxmPayload("MxmLoad", p)
        op == LoadOps[LocalOp(p) + 1]
        used == CASE op = "IsLoadActivation3D" -> 154 [] op = "Load3D" -> 203
                  [] op = "LoadColumn3D" -> 206
    IN  IF /\ MxmWellFormed("MxmLoad", p, LoadOps)
           /\ ReservedZero(q, used)
           /\ ValidMxmLoad(DecodedMxmLoad(op, q))
        THEN DecodedMxmLoad(op, q) ELSE Refused

DequantOps == <<"Dequant3D">>
EncodeMxmDequant(i) ==
    MxmFull("MxmDequant", ValidLoop(i), DequantOps, i, {R(144, i.scale)})
EncodeMxmDequantShortest(i) == Compacted("MxmDequant", i, EncodeMxmDequant(i))
DecodeMxmDequant(p) ==
    LET q == MxmPayload("MxmDequant", p)
        i == [op |-> "Dequant3D", wait |-> Wait(q), counts |-> Counts(q),
              strides |-> Strides(q), scale |-> Raw(q, 144, 16)]
    IN  IF /\ MxmWellFormed("MxmDequant", p, DequantOps)
           /\ ReservedZero(q, 160) /\ ValidLoop(i)
        THEN i ELSE Refused

ModeNumber(m) == m.destination + 2 * m.clear + 4 * m.output
ModeOf(q, at) == [destination |-> Number(q, at, 1),
                  clear |-> Number(q, at + 1, 1),
                  output |-> Number(q, at + 2, 1)]
StrideFields(at, strides) == {S(at + 14 * (d - 1), 14, strides[d]) : d \in 1 .. 3}
StridesAt(q, at) == <<Signed(q, at, 14), Signed(q, at + 14, 14),
                      Signed(q, at + 28, 14)>>
MxmComputeFields(i) ==
    CASE i.op = "Compute3D" ->
           {U(144, 1, i.buffer), U(145, 2, i.bufferMode),
            U(147, 5, i.activation), U(152, 5, i.result), U(157, 13, i.address),
            U(212, 13, i.rowStride), U(225, 1, i.format),
            U(226, 3, ModeNumber(i.regular)), U(229, 2, i.terminalDimension),
            U(231, 3, ModeNumber(i.terminal))}
           \cup StrideFields(170, i.addressStrides)
      [] i.op = "AccumulatorRead3D" ->
           {U(152, 5, i.result), U(157, 13, i.address),
            U(226, 3, ModeNumber(i.regular))}
           \cup StrideFields(170, i.addressStrides)
      [] i.op = "IsStreamCompute3D" ->
           {U(144, 1, i.buffer), U(145, 2, i.bufferMode), U(147, 5, i.result),
            U(152, 13, i.address), U(207, 2, i.column),
            U(209, 1, i.destination), U(210, 1, i.clear), U(211, 1, i.format),
            U(212, 1, i.isMode)}
           \cup StrideFields(165, i.addressStrides)
EncodeMxmCompute(i) ==
    MxmFull("MxmCompute", ValidMxmCompute(i), ComputeOps, i, MxmComputeFields(i))
EncodeMxmComputeShortest(i) == Compacted("MxmCompute", i, EncodeMxmCompute(i))

DecodedMxmCompute(op, q) ==
    CASE op = "Compute3D" ->
           [op |-> op, wait |-> Wait(q), counts |-> Counts(q),
            strides |-> Strides(q), buffer |-> Number(q, 144, 1),
            bufferMode |-> Number(q, 145, 2), activation |-> Number(q, 147, 5),
            result |-> Number(q, 152, 5), address |-> Number(q, 157, 13),
            addressStrides |-> StridesAt(q, 170),
            rowStride |-> Number(q, 212, 13), format |-> Number(q, 225, 1),
            regular |-> ModeOf(q, 226), terminal |-> ModeOf(q, 231),
            terminalDimension |-> Number(q, 229, 2)]
      [] op = "AccumulatorRead3D" ->
           [op |-> op, wait |-> Wait(q), counts |-> Counts(q),
            strides |-> Strides(q), result |-> Number(q, 152, 5),
            address |-> Number(q, 157, 13),
            addressStrides |-> StridesAt(q, 170), regular |-> ModeOf(q, 226)]
      [] op = "IsStreamCompute3D" ->
           [op |-> op, wait |-> Wait(q), counts |-> Counts(q),
            strides |-> Strides(q), buffer |-> Number(q, 144, 1),
            bufferMode |-> Number(q, 145, 2), result |-> Number(q, 147, 5),
            address |-> Number(q, 152, 13),
            addressStrides |-> StridesAt(q, 165), column |-> Number(q, 207, 2),
            destination |-> Number(q, 209, 1), clear |-> Number(q, 210, 1),
            format |-> Number(q, 211, 1), isMode |-> Number(q, 212, 1)]
\* The bits each compute operation leaves reserved.
ComputeReserved(op) ==
    CASE op = "Compute3D" -> 234 .. 235
      [] op = "AccumulatorRead3D" -> (144 .. 151) \cup (212 .. 225) \cup (229 .. 235)
      [] op = "IsStreamCompute3D" -> 213 .. 235
DecodeMxmCompute(p) ==
    LET q == MxmPayload("MxmCompute", p)
        op == ComputeOps[LocalOp(p) + 1]
    IN  IF /\ MxmWellFormed("MxmCompute", p, ComputeOps)
           /\ q \cap ComputeReserved(op) = {}
           /\ ValidMxmCompute(DecodedMxmCompute(op, q))
        THEN DecodedMxmCompute(op, q) ELSE Refused

----------------------------------------------------------------------------
(* VXM and SXM RUN_2D packets. *)

Run2DFields(i) ==
    {U(0, 24, i.wait), U(24, 16, i.counts[1] - 1), U(40, 16, i.counts[2] - 1),
     U(56, 24, i.strides[1]), U(80, 24, i.strides[2])}
Run2DCounts(q) == <<Number(q, 24, 16) + 1, Number(q, 40, 16) + 1, 1>>
Run2DStrides(q) == <<Number(q, 56, 24), Number(q, 80, 24), 1>>
EncodedRun2D(t, valid, i, fields) ==
    IF valid THEN Packed(Geometry[t], Geometry[t].words, 0, 2,
                         Run2DFields(i) \cup fields)
             ELSE NoPacket

EncodeVxm(i) == EncodedRun2D("Vxm", ValidRun2D(i), i,
                             {R(104, i.control), R(168, i.immediate)})
DecodeVxm(p) ==
    LET q == Payload(Geometry["Vxm"], p)
        i == [op |-> "VxmRun2D", wait |-> Wait(q), counts |-> Run2DCounts(q),
              strides |-> Run2DStrides(q), control |-> Raw(q, 104, 64),
              immediate |-> Raw(q, 168, 32)]
    IN  IF /\ HeadersMatch(Geometry["Vxm"], p, 3, 0, 2)
           /\ ReservedZero(q, 200) /\ ValidRun2D(i)
        THEN i ELSE Refused

EncodeSxmTranspose(i) ==
    EncodedRun2D("SxmTranspose", ValidSxmTranspose(i), i,
        {U(104, 6, i.source), U(110, 6, i.target), U(116, 4, i.inputRow)})
DecodeSxmTranspose(p) ==
    LET q == Payload(Geometry["SxmTranspose"], p)
        i == [op |-> "SxmTranspose", wait |-> Wait(q),
              counts |-> Run2DCounts(q), strides |-> Run2DStrides(q),
              source |-> Number(q, 104, 6), target |-> Number(q, 110, 6),
              inputRow |-> Number(q, 116, 4)]
    IN  IF /\ HeadersMatch(Geometry["SxmTranspose"], p, 2, 0, 2)
           /\ ReservedZero(q, 120) /\ ValidSxmTranspose(i)
        THEN i ELSE Refused

\* Output row 8 and output tile 4 are the encodings of "all".
EncodeSxmPermute(i) ==
    EncodedRun2D("SxmPermute", ValidSxmPermute(i), i,
        {U(104, 6, i.source), U(110, 6, i.target), U(276, 4, i.outputRow),
         U(280, 3, i.outputTile), U(283, 2, i.mapStride \div LanesPerTile)}
        \cup {U(116 + 5 * lane, 5, i.map[lane]) : lane \in 0 .. Lanes - 1})
DecodeSxmPermute(p) ==
    LET q == Payload(Geometry["SxmPermute"], p)
        i == [op |-> "SxmPermute", wait |-> Wait(q), counts |-> Run2DCounts(q),
              strides |-> Run2DStrides(q), source |-> Number(q, 104, 6),
              target |-> Number(q, 110, 6), outputRow |-> Number(q, 276, 4),
              outputTile |-> Number(q, 280, 3),
              mapStride |-> LanesPerTile * Number(q, 283, 2),
              map |-> [lane \in 0 .. Lanes - 1 |-> Number(q, 116 + 5 * lane, 5)]]
    IN  IF /\ HeadersMatch(Geometry["SxmPermute"], p, 4, 0, 2)
           /\ ReservedZero(q, 285) /\ ValidSxmPermute(i)
        THEN i ELSE Refused

----------------------------------------------------------------------------
(* Relocation in place: the packet keeps its form and its length. *)

ReplaceField(g, p, f) ==
    (p \ {Location(g, f.at + b) : b \in 0 .. f.width - 1})
        \cup {Location(g, f.at + b) : b \in f.bits}

PatchMemBase(p, base) ==
    LET i == DecodeMem(p)
        rank == ShortRank(p)
        patched == ReplaceField(Geometry["Mem"], p,
            [at |-> 24 + 40 * rank + 6, width |-> 13, bits |-> Bits(base, 13)])
    IN  IF i = Refused \/ base \notin 0 .. 2^13 - 1 THEN NoPacket
        ELSE IF rank < 0 THEN EncodeMem([i EXCEPT !.base = base])
        ELSE IF DecodeMem(patched) = Refused THEN NoPacket ELSE patched

PatchDequantScale(p, scale) ==
    LET i == DecodeMxmDequant(p)
        rank == ShortRank(p)
        patched == ReplaceField(Geometry["MxmDequant"], p,
            [at |-> TailAt("MxmDequant", rank), width |-> 16, bits |-> scale])
    IN  IF i = Refused THEN NoPacket
        ELSE IF rank < 0 THEN EncodeMxmDequant([i EXCEPT !.scale = scale])
        ELSE IF DecodeMxmDequant(patched) = Refused THEN NoPacket ELSE patched
=============================================================================
