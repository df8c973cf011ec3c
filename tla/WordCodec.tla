----------------------------- MODULE WordCodec -----------------------------
(***************************************************************************)
(* The single-word instructions of an instruction queue: native FU words,  *)
(* control words, the synchronized MEM header with its template, and the   *)
(* C2C endpoint and DMA packets (core/instruction_codec.hpp,               *)
(* icu/distributed_queue.hpp, c2c/icu_instruction.hpp).                    *)
(*                                                                         *)
(* As in PacketCodec a word is the set of its one bits.  Values that are   *)
(* 64 bits wide (event tags, DDR4 addresses) stay sets of bits.            *)
(***************************************************************************)
EXTENDS PacketCodec

CONSTANTS
    MemSlices,      \* hw::kMemSliceColumns
    MemBanks,       \* hw::kMemBanksPerSlice
    C2cLanes        \* hw::kC2cStreamsPerDirection

\* The endpoint word has one bit for the bank, three for the lane.
ASSUME TargetFitsEndpoint ==
    MemSlices \in 1 .. 2^6 /\ MemBanks \in 1 .. 2 /\ C2cLanes \in 1 .. 2^3

WordBits(role) ==
    IF role \in {"MxmLoad", "MxmDequant", "MxmCompute"} THEN 128 ELSE 96

EnvelopeOp(p) == Number(p, 0, 2)    \* raw_icu_opcode

Word(valid, fields) ==
    IF valid /\ \A f \in fields : f.fits THEN Placed(fields) ELSE NoPacket

\* The second word of a two-word packet, moved behind the first and back.
Behind(p) == IF p = NoPacket THEN NoPacket ELSE {96 + b : b \in p}
First(p) == {b \in p : b < 96}
Second(p) == {b - 96 : b \in {c \in p : c >= 96}}
Joined(p, q) == IF NoPacket \in {p, q} THEN NoPacket ELSE p \cup q

----------------------------------------------------------------------------
(* Native words start at bit two, above the envelope's opcode Instruction. *)

MemCode == [Read |-> 0, Write |-> 1, WriteTap |-> 1, Gather |-> 3, Scatter |-> 4]

EncodeMemNative(n) ==
    Word(NativeAccepted(n),
         {U(2, 3, MemCode[n.op]), U(5, 6, n.stream)} \cup
         (IF n.op \in {"Gather", "Scatter"} THEN {U(11, 6, n.map)}
          ELSE {U(17, 13, n.address), U(33, 1, IF n.op = "WriteTap" THEN 1 ELSE 0)}))

DecodeMemNative(p) ==
    LET code == Number(p, 2, 3)
        preserve == 33 \in p
        access == [op |-> CASE code = 0 -> "Read" [] preserve -> "WriteTap"
                            [] OTHER -> "Write",
                   address |-> Number(p, 17, 13), stream |-> Number(p, 5, 6)]
        indexed == [op |-> IF code = 3 THEN "Gather" ELSE "Scatter",
                    stream |-> Number(p, 5, 6), map |-> Number(p, 11, 6)]
    IN  IF ~ p \subseteq ((2 .. 29) \cup {33}) \/ (preserve /\ code # 1)
        THEN Refused
        ELSE CASE code \in {0, 1} -> IF NativeAccepted(access) THEN access
                                     ELSE Refused
               [] code \in {3, 4} -> indexed
               [] OTHER -> Refused

\* Which native instructions a queue role takes.
RoleOps == [Mem |-> DOMAIN MemCode, MxmDequant |-> {"Dequant"},
            MxmLoad |-> {"IW", "IsLoadActivation"},
            MxmCompute |-> {"Compute", "AccumulatorRead", "IsStreamCompute"}]

MxmNativeFields(n) ==
    CASE n.op = "IW" ->
           {U(4, 1, n.buffer), U(5, 2, n.column), U(7, 1, n.vector),
            U(8, 3, n.inner), U(11, 1, n.input), U(12, 6, n.stream)}
      [] n.op = "Compute" ->
           {U(2, 2, 1), U(4, 1, n.buffer), U(5, 6, n.activation),
            U(11, 6, n.result), U(17, 13, n.address), U(30, 16, n.rowStride),
            U(46, 1, n.destination), U(47, 1, n.format), U(49, 1, 1 - n.clear),
            U(50, 1, n.output)}
      [] n.op = "AccumulatorRead" ->
           {U(2, 2, 2), U(11, 6, n.result), U(17, 13, n.address),
            U(30, 1, n.clear), U(46, 1, n.destination), U(50, 1, n.output)}
      [] n.op = "IsLoadActivation" ->
           {U(2, 2, 3), U(4, 1, n.buffer), U(6, 6, n.activation),
            U(27, 1, n.format), U(30, 1, n.isMode)}
      [] n.op = "IsStreamCompute" ->
           {U(2, 2, 3), U(4, 1, n.buffer), U(5, 1, 1), U(6, 6, n.result),
            U(12, 13, n.address), U(25, 2, n.column), U(27, 1, n.format),
            U(28, 1, n.destination), U(29, 1, 1 - n.clear), U(30, 1, n.isMode)}

EncodeMxmNative(role, n) ==
    Word(/\ n.op \in RoleOps[role] /\ NativeAccepted(n)
         /\ n.op = "Compute" => n.address < AccumulatorRows,
         MxmNativeFields(n))

\* The bits an operation may have set, opcode included.
MxmUsed(op) ==
    CASE op = "IW" -> 2 .. 17
      [] op = "Compute" -> (2 .. 50) \ {48}
      [] op = "AccumulatorRead" -> (2 .. 3) \cup (11 .. 30) \cup {46, 50}
      [] op = "IsLoadActivation" -> (2 .. 11) \cup {27, 30}
      [] op = "IsStreamCompute" -> 2 .. 30

MxmNativeOf(op, p) ==
    CASE op = "IW" ->
           [op |-> op, buffer |-> Number(p, 4, 1), column |-> Number(p, 5, 2),
            vector |-> Number(p, 7, 1), input |-> Number(p, 11, 1),
            inner |-> IF 7 \in p THEN Number(p, 8, 3) ELSE 0,
            stream |-> Number(p, 12, 6)]
      [] op = "Compute" ->
           [op |-> op, buffer |-> Number(p, 4, 1), activation |-> Number(p, 5, 6),
            result |-> Number(p, 11, 6), address |-> Number(p, 17, 13),
            rowStride |-> Number(p, 30, 16), destination |-> Number(p, 46, 1),
            format |-> Number(p, 47, 1), clear |-> 1 - Number(p, 49, 1),
            output |-> Number(p, 50, 1)]
      [] op = "AccumulatorRead" ->
           [op |-> op, address |-> Number(p, 17, 13), result |-> Number(p, 11, 6),
            clear |-> Number(p, 30, 1), output |-> Number(p, 50, 1),
            destination |-> Number(p, 46, 1)]
      [] op = "IsLoadActivation" ->
           [op |-> op, buffer |-> Number(p, 4, 1), activation |-> Number(p, 6, 6),
            format |-> Number(p, 27, 1), isMode |-> Number(p, 30, 1)]
      [] op = "IsStreamCompute" ->
           [op |-> op, buffer |-> Number(p, 4, 1), result |-> Number(p, 6, 6),
            format |-> Number(p, 27, 1), address |-> Number(p, 12, 13),
            column |-> Number(p, 25, 2), destination |-> Number(p, 28, 1),
            clear |-> 1 - Number(p, 29, 1), isMode |-> Number(p, 30, 1)]

DecodeMxmNative(role, p) ==
    LET op == CASE Number(p, 2, 2) = 0 -> "IW" [] Number(p, 2, 2) = 1 -> "Compute"
                [] Number(p, 2, 2) = 2 -> "AccumulatorRead"
                [] 5 \in p -> "IsStreamCompute" [] OTHER -> "IsLoadActivation"
        n == MxmNativeOf(op, p)
    IN  IF p \subseteq MxmUsed(op) /\ NativeAccepted(n) /\ op \in RoleOps[role]
        THEN n ELSE Refused

\* VXM and SXM take RUN_2D packets only, C2C its own packets.
EncodeNative(role, n) ==
    CASE role \notin DOMAIN RoleOps -> NoPacket
      [] role = "Mem" -> EncodeMemNative(n)
      [] role = "MxmDequant" -> Word(TRUE, {R(2, n.scale)})
      [] OTHER -> EncodeMxmNative(role, n)

----------------------------------------------------------------------------
(* C2C endpoint words and DMA packets. *)

NoNotify == [enabled |-> 0, hemisphere |-> 0, slice |-> 0, bank |-> 0]

ValidNotify(r) == /\ r.hemisphere \in 0 .. 1
                  /\ r.slice \in 0 .. MemSlices - 1
                  /\ r.bank \in 0 .. MemBanks - 1
                  /\ r.enabled = 0 => r = NoNotify
ValidEndpoint(c) == /\ c.hemisphere \in 0 .. 1 /\ c.lane \in 0 .. C2cLanes - 1
                    /\ c.stream \in 0 .. EastStreams - 1
                    /\ c.count > 0
                    /\ ValidNotify(c.notify)

EncodeEndpoint(role, c) ==
    Word(ValidEndpoint(c),
         {U(2, 1, IF role = "C2cRx" THEN 1 ELSE 0), U(3, 1, c.hemisphere),
          U(4, 3, c.lane), U(7, 5, c.stream), U(12, 16, c.count - 1),
          U(28, 16, c.tag), U(44, 1, c.notify.enabled),
          U(45, 1, c.notify.hemisphere), U(46, 6, c.notify.slice),
          U(52, 1, c.notify.bank)})

DecodeEndpoint(role, p) ==
    LET c == [op |-> "Endpoint", hemisphere |-> Number(p, 3, 1),
              lane |-> Number(p, 4, 3), stream |-> Number(p, 7, 5),
              count |-> Number(p, 12, 16) + 1, tag |-> Number(p, 28, 16),
              notify |-> IF 44 \notin p THEN NoNotify
                         ELSE [enabled |-> 1, hemisphere |-> Number(p, 45, 1),
                               slice |-> Number(p, 46, 6),
                               bank |-> Number(p, 52, 1)]]
    IN  IF /\ p \subseteq 2 .. 52
           /\ (2 \in p) = (role = "C2cRx")
           /\ 44 \notin p => p \cap (45 .. 52) = {}
           /\ ValidEndpoint(c)
        THEN c ELSE Refused

\* What a 64-bit DDR4 address leaves below 2^64, saturating at Cap.
AddressRoom(address) ==
    LET room == (0 .. 63) \ address
    IN  IF \E b \in room : b >= 26 THEN Cap ELSE Number(room, 0, 26)

\* vector_address of the last vector does not overflow.
ValidDma(c) ==
    /\ c.hemisphere \in 0 .. 1 /\ c.lane \in 0 .. C2cLanes - 1
    /\ c.count > 0
    /\ c.stride # 0 => c.count - 1 <= AddressRoom(c.address) \div c.stride
                       \/ AddressRoom(c.address) = Cap

EncodeDma(c) ==
    Joined(Word(ValidDma(c),
                {U(2, 1, c.store), U(3, 1, c.hemisphere), U(4, 3, c.lane),
                 U(7, 16, c.count - 1), U(23, 16, c.stride), U(39, 16, c.tag)}),
           Behind(c.address \cup {95}))

DecodeDma(p) ==
    LET c == [op |-> "Dma", store |-> Number(p, 2, 1),
              hemisphere |-> Number(p, 3, 1), lane |-> Number(p, 4, 3),
              count |-> Number(p, 7, 16) + 1, stride |-> Number(p, 23, 16),
              tag |-> Number(p, 39, 16), address |-> Raw(Second(p), 0, 64)]
    IN  IF /\ First(p) \subseteq 2 .. 54
           /\ Second(p) \cap (64 .. 95) = {95}
           /\ ValidDma(c)
        THEN c ELSE Refused

DecodeNative(role, p) ==
    CASE role = "Mem" -> DecodeMemNative(p)
      [] role \in {"MxmLoad", "MxmCompute"} -> DecodeMxmNative(role, p)
      [] role = "MxmDequant" -> IF p \subseteq 2 .. 17
                                THEN [op |-> "Dequant", scale |-> Raw(p, 2, 16)]
                                ELSE Refused
      [] role \in {"C2cTx", "C2cRx"} -> DecodeEndpoint(role, p)
      [] role = "C2cDma" -> DecodeDma(p)
      [] OTHER -> Refused

----------------------------------------------------------------------------
(* Control words. *)

EventSubtype == [Sync |-> 3, Notify |-> 4, WaitEvent |-> 5]

\* IcuInductionTarget has four values; only the decoder checks it.
RepeatMoves(c) ==
    /\ c.inner > 0 /\ c.outer > 0 /\ c.innerInterval > 0 /\ c.outerInterval > 0
    /\ c.inner * c.outer > 1
ValidRepeat2D(c) ==
    RepeatMoves(c)
    /\ (c.outer > 1 => c.outerInterval > (c.inner - 1) * c.innerInterval)

EncodeControl(c) ==
    CASE c.op = "Nop" -> Word(TRUE, {U(0, 2, 1), U(2, 30, c.count)})
      [] c.op = "Repeat" ->
           Word(TRUE, {U(0, 2, 2), U(2, 10, c.count), U(12, 8, c.interval),
                       S(20, 12, c.stride)})
      [] c.op = "Repeat2D" ->
           Word(ValidRepeat2D(c),
                {U(0, 2, 3), U(2, 10, c.inner), U(12, 10, c.outer),
                 U(22, 16, c.innerInterval), U(38, 16, c.outerInterval),
                 S(54, 16, c.innerStride), S(70, 16, c.outerStride),
                 U(86, 2, c.target), U(88, 4, 1)})
      [] OTHER -> Word(TRUE, {U(0, 2, 3), R(2, c.event),
                              U(88, 4, EventSubtype[c.op])})

DecodedRepeat2D(p) ==
    [op |-> "Repeat2D", inner |-> Number(p, 2, 10), outer |-> Number(p, 12, 10),
     innerInterval |-> Number(p, 22, 16), outerInterval |-> Number(p, 38, 16),
     innerStride |-> Signed(p, 54, 16), outerStride |-> Signed(p, 70, 16),
     target |-> Number(p, 86, 2)]

\* SYNC and NOTIFY carry no tag: the decoder drops the tag field.
DecodedEvent(p) ==
    [op |-> CHOOSE e \in DOMAIN EventSubtype : EventSubtype[e] = Subtype(p),
     event |-> IF Subtype(p) = 5 THEN Raw(p, 2, 64) ELSE {}]

DecodeControl(p) ==
    CASE EnvelopeOp(p) = 1 ->
           IF \A b \in p : b < 32
           THEN [op |-> "Nop", count |-> Number(p, 2, 30)] ELSE Refused
      [] EnvelopeOp(p) = 2 ->
           IF \A b \in p : b < 32
           THEN [op |-> "Repeat", count |-> Number(p, 2, 10),
                 interval |-> Number(p, 12, 8), stride |-> Signed(p, 20, 12)]
           ELSE Refused
      [] EnvelopeOp(p) = 3 /\ Subtype(p) = 1 ->
           IF (\A b \in p : b < 92) /\ RepeatMoves(DecodedRepeat2D(p))
           THEN DecodedRepeat2D(p) ELSE Refused
      [] EnvelopeOp(p) = 3 /\ Subtype(p) \in 3 .. 5 ->
           IF p \subseteq ((0 .. 65) \cup (88 .. 91))
           THEN DecodedEvent(p) ELSE Refused
      [] OTHER -> Refused

----------------------------------------------------------------------------
(* The synchronized MEM packet: a header and a native template. *)

EncodeSynchronized(c) ==
    Joined(Word(c.count > 0 /\ c.reservation > 0,
                {U(0, 2, 3), U(2, 16, c.count - 1), U(18, 16, c.tag),
                 U(34, 16, c.delay), S(50, 14, c.stride),
                 U(64, 24, c.reservation - 1), U(88, 4, 6)}),
           Behind(EncodeNative("Mem", c.template)))

DecodeSynchronized(p) ==
    LET template == DecodeNative("Mem", Second(p))
    IN  IF \/ First(p) \cap (92 .. 95) # {}
           \/ EnvelopeOp(Second(p)) # 0 \/ template = Refused
        THEN Refused
        ELSE [op |-> "Synchronized", count |-> Number(p, 2, 16) + 1,
              tag |-> Number(p, 18, 16), delay |-> Number(p, 34, 16),
              stride |-> Signed(p, 50, 14),
              reservation |-> Number(p, 64, 24) + 1, template |-> template]
=============================================================================
