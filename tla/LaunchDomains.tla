--------------------------- MODULE LaunchDomains ---------------------------
(***************************************************************************)
(* The launch domains an ICU packet describes: a wait, up to three nested  *)
(* loop counters with cycle strides, and operands that are affine in the   *)
(* counters.  Translated from icu/fu_3d_instruction.hpp (with the factory  *)
(* checks of mxm/control_slice.hpp it calls).  A domain is validated once, *)
(* at the corners of its rectangle, and then issued point by point with no *)
(* check but the ones of the native instruction it expands to.             *)
(*                                                                         *)
(* An instruction is a record with an "op" and the fields of its struct;   *)
(* tuples are indexed from 1 (the code's dimension 0 is index 1).          *)
(***************************************************************************)
EXTENDS Integers, FiniteSets

CONSTANTS
    SramDepthRows,      \* hw::kSramDepthRows, rows of one bank
    EastStreams,        \* hw::kEastStreams
    WestStreams,        \* hw::kWestStreams
    AccumulatorRows,    \* hw::kMxmAccumulatorRows
    MxmRows,            \* hw::kMxmRows
    Supercells,         \* hw::kMxmSupercellsPerPlane
    IsColumns,          \* hw::kMxmIsColumns
    Int8LoadStreams,    \* hw::kMxmInt8LoadStreamsPerCycle
    LoadStreams,        \* hw::kMxmLoadStreamsPerCycle
    LanesPerTile,       \* hw::kLanesPerTile
    TileRows            \* hw::kTileRows

\* The static_asserts of icu/fu_3d_codec.hpp on the target's geometry.
ASSUME TargetFitsFields ==
    /\ SramDepthRows \in 1 .. 2^13
    /\ EastStreams \in 1 .. 2^5 /\ WestStreams \in 1 .. 2^5
    /\ AccumulatorRows \in 1 .. 2^13
    /\ Supercells \in 1 .. 4 /\ IsColumns \in 1 .. Supercells

Streams == EastStreams + WestStreams    \* hw::kStreams
Lanes == LanesPerTile * TileRows        \* SxmInstruction::kTotalLanes
CycleLimit == 2^24                      \* the 24-bit schedule domain
CountLimit == 65536
InnerColumns == 8                       \* hw::kMxmSupercellColumns

(* TLC's integers have 32 bits where the code's have 64: products saturate *)
(* at Cap, which is above every limit the code compares them with.         *)
Cap == 2^26
Times(a, b) ==
    LET n == IF b < 0 THEN -b ELSE b
        r == IF n # 0 /\ a > Cap \div n THEN Cap ELSE a * n
    IN  IF b < 0 THEN -r ELSE r

Least(S) == CHOOSE x \in S : \A y \in S : x <= y
Abs(x) == IF x < 0 THEN -x ELSE x
gcd[a \in Nat, b \in Nat] == IF b = 0 THEN a ELSE gcd[b, a % b]

----------------------------------------------------------------------------
(* Loops. *)

\* The cycles the counters below dimension d can span.
LowerSpan(i, d) ==
    LET span(k) == IF k < d THEN Times(i.counts[k] - 1, i.strides[k]) ELSE 0
    IN  span(1) + span(2) + span(3)

ValidLoop(i) ==
    /\ i.wait \in 0 .. CycleLimit - 1
    /\ \A d \in 1 .. 3 :
          /\ i.counts[d] \in 1 .. CountLimit
          /\ i.strides[d] \in 1 .. CycleLimit - 1
          /\ d > 1 /\ i.counts[d] > 1 => i.strides[d] > LowerSpan(i, d)
    /\ LowerSpan(i, 4) < CycleLimit

PointCount(i) == Times(Times(i.counts[1], i.counts[2]), i.counts[3])

Points(i) == (0 .. i.counts[1] - 1) \X (0 .. i.counts[2] - 1)
                \X (0 .. i.counts[3] - 1)

Corners(i) == {0, i.counts[1] - 1} \X {0, i.counts[2] - 1}
                \X {0, i.counts[3] - 1}

Operand(base, strides, x) ==
    base + Times(x[1], strides[1]) + Times(x[2], strides[2])
         + Times(x[3], strides[3])

IssueCycle(i, x) == Operand(i.wait, i.strides, x)

----------------------------------------------------------------------------
(* MEM: READ_3D, WRITE_3D, WRITE_TAP_3D. *)

MemOps == <<"Read3D", "Write3D", "WriteTap3D">>

\* The outer counter drives a carry/wrap generator: its high bits step by
\* outerGroup, the bits below the power-of-two group by outerInner.
MemAddress(i, x) ==
    Operand(i.base, <<i.inner, i.middle, i.outerGroup>>,
            <<x[1], x[2], x[3] \div i.group>>)
        + Times(x[3] % i.group, i.outerInner)

ValidMem(i) ==
    /\ ValidLoop(i)
    /\ i.stream \in 0 .. Streams - 1
    /\ i.group \in {2^k : k \in 0 .. 20}
    /\ \A x \in {0, i.counts[1] - 1} \X {0, i.counts[2] - 1}
                   \X (0 .. i.counts[3] - 1) :
          MemAddress(i, x) \in 0 .. SramDepthRows - 1

ExpandMem(i, x) ==
    [op |-> CASE i.op = "Read3D" -> "Read" [] i.op = "Write3D" -> "Write"
              [] i.op = "WriteTap3D" -> "WriteTap",
     address |-> MemAddress(i, x), stream |-> i.stream]

----------------------------------------------------------------------------
(* MEM WRITE_READ_2D: one bank alternates a write sweep and a read sweep   *)
(* over the same rows.                                                     *)

Pairs(i) == (0 .. i.counts[1] - 1) \X (0 .. i.counts[2] - 1)
Affine2(base, strides, x) ==
    base + Times(x[1], strides[1]) + Times(x[2], strides[2])
SweepSpan(i, strides) ==
    Affine2(0, strides, <<i.counts[1] - 1, i.counts[2] - 1>>)
Row2D(i, x) == Affine2(i.base, i.rowStrides, x)
WriteCycle(i, x) == Affine2(i.wait, i.writeStrides, x)
ReadCycle(i, x) == Affine2(i.wait + i.offset, i.readStrides, x)

ValidSweep(i, strides) ==
    /\ \A d \in 1 .. 2 : /\ i.counts[d] \in 1 .. CountLimit
                         /\ strides[d] \in 1 .. CycleLimit - 1
    /\ i.counts[2] > 1 => strides[2] > Times(i.counts[1] - 1, strides[1])

\* "A compact conservative proof of no row overwrite".
RowsInjective(i) ==
    LET a == Abs(i.rowStrides[1])  b == Abs(i.rowStrides[2])
    IN  /\ i.counts[1] > 1 => a # 0
        /\ i.counts[2] > 1 => b # 0
        /\ a # 0 /\ b # 0 => ~ /\ b \div gcd[a, b] <= i.counts[1] - 1
                               /\ a \div gcd[a, b] <= i.counts[2] - 1

\* The greatest common divisor of the strides of the counters that move.
SweepPeriod(i) ==
    LET both(d) == IF i.counts[d] > 1
                   THEN gcd[i.writeStrides[d], i.readStrides[d]] ELSE 0
    IN  gcd[both(1), both(2)]

\* Either every write precedes every read, or the two periodic sweeps stay
\* in different residue classes.
(* Mutant: a read in the cycle of the last write counts as after it. *)
SinglePortSafeOffByOne(i) ==
    i.offset < SweepSpan(i, i.writeStrides)
        => SweepPeriod(i) # 0 /\ i.offset % SweepPeriod(i) # 0
SinglePortSafe(i) ==
    i.offset <= SweepSpan(i, i.writeStrides)
        => SweepPeriod(i) # 0 /\ i.offset % SweepPeriod(i) # 0

ValidWriteRead2D(i) ==
    /\ i.wait \in 0 .. CycleLimit - 1
    /\ i.offset \in 0 .. CycleLimit - 1
    /\ i.base \in 0 .. SramDepthRows - 1
    /\ i.writeStream \in 0 .. Streams - 1
    /\ i.readStream \in 0 .. Streams - 1
    /\ i.streamStride \in -32 .. 31
    /\ ValidSweep(i, i.writeStrides) /\ ValidSweep(i, i.readStrides)
    /\ i.wait + SweepSpan(i, i.writeStrides) < CycleLimit
    /\ i.wait + i.offset + SweepSpan(i, i.readStrides) < CycleLimit
    /\ LET late(d) == Least({0, i.readStrides[d] - i.writeStrides[d]})
       IN  Affine2(i.offset, <<late(1), late(2)>>,
                   <<i.counts[1] - 1, i.counts[2] - 1>>) > 0
    /\ i.readStream + Times(i.counts[2] - 1, i.streamStride)
          \in 0 .. Streams - 1
    /\ \A d \in 1 .. 2 : i.rowStrides[d] \in -(2^19) .. 2^19 - 1
    /\ \A x \in {0, i.counts[1] - 1} \X {0, i.counts[2] - 1} :
          Row2D(i, x) \in 0 .. SramDepthRows - 1
    /\ RowsInjective(i)
    /\ SinglePortSafe(i)

ExpandWriteRead2D(i, x, read) ==
    IF read THEN [op |-> "Read", address |-> Row2D(i, x),
                  stream |-> i.readStream + Times(x[2], i.streamStride)]
            ELSE [op |-> "Write", address |-> Row2D(i, x),
                  stream |-> i.writeStream]

----------------------------------------------------------------------------
(* The native instructions of the units, and what their factories accept. *)

\* How many consecutive east streams an IW reads (input 0 is INT8).
WeightStreams(n) ==
    IF n.vector = 1 THEN n.input + 1
    ELSE IF n.input = 0 THEN Int8LoadStreams ELSE LoadStreams
\* Bytes of a result: output format 1 is BF16, 0 is FP32.
ResultStreams(output) == IF output = 1 THEN 2 ELSE 4

NativeAccepted(n) ==
    CASE n.op \in {"Read", "Write", "WriteTap"} ->
            n.address \in 0 .. SramDepthRows - 1
            /\ n.stream \in 0 .. Streams - 1
      [] n.op = "IW" ->
            /\ n.buffer \in 0 .. 1
            /\ n.column \in 0 .. Supercells - 1
            /\ n.inner \in 0 .. (IF n.vector = 1 THEN InnerColumns - 1 ELSE 0)
            /\ n.stream + WeightStreams(n) <= EastStreams
      [] n.op = "Compute" ->
            /\ n.buffer \in 0 .. 1
            /\ n.activation + 2 <= EastStreams
            /\ n.result + ResultStreams(n.output) <= WestStreams
      [] n.op = "AccumulatorRead" ->
            /\ n.address \in 0 .. AccumulatorRows - 1
            /\ n.result + ResultStreams(n.output) <= WestStreams
      [] n.op = "IsLoadActivation" ->
            n.buffer \in 0 .. 1 /\ n.activation + 2 <= EastStreams
      [] n.op = "IsStreamCompute" ->
            /\ n.buffer \in 0 .. 1
            /\ n.address \in 0 .. AccumulatorRows - 1
            /\ n.column \in 0 .. Supercells - 1
            /\ n.address + (n.column + IsColumns - 1) \div Supercells
                  < AccumulatorRows
            /\ n.destination = 1 => /\ IsColumns = Supercells /\ n.column = 0
                                    /\ n.result + 2 <= WestStreams
      [] OTHER -> TRUE

\* Two physical buffers: a mode d > 0 toggles with the parity of counter d.
Buffer(i, x) ==
    IF i.bufferMode = 0 THEN i.buffer
    ELSE (i.buffer + x[i.bufferMode]) % 2

----------------------------------------------------------------------------
(* MXM load queue: LOAD_3D, LOAD_COLUMN_3D, IS_LOAD_ACTIVATION_3D. *)

LoadOps == <<"Load3D", "IsLoadActivation3D", "LoadColumn3D">>

ExpandMxmLoad(i, x) ==
    IF i.op = "IsLoadActivation3D"
    THEN [op |-> "IsLoadActivation", buffer |-> Buffer(i, x),
          activation |-> i.stream, format |-> i.format, isMode |-> i.isMode]
    ELSE LET column == Operand(i.column, i.columnStrides, x)
             vector == i.op = "LoadColumn3D"
         IN  [op |-> "IW", vector |-> IF vector THEN 1 ELSE 0,
              buffer |-> Buffer(i, x), input |-> i.input, stream |-> i.stream,
              column |-> IF vector THEN column \div 8 ELSE column,
              inner |-> IF vector THEN column % 8 ELSE 0]

ValidMxmLoad(i) ==
    /\ ValidLoop(i)
    /\ i.buffer \in 0 .. 1 /\ i.bufferMode \in 0 .. 3
    /\ i.op = "IsLoadActivation3D" \/
          \A x \in Corners(i) :
             /\ Operand(i.column, i.columnStrides, x) >= 0
             /\ ExpandMxmLoad(i, x).column < Supercells
    /\ NativeAccepted(ExpandMxmLoad(i, <<0, 0, 0>>))

----------------------------------------------------------------------------
(* MXM compute queue: COMPUTE_3D, ACCUMULATOR_READ_3D, IS_STREAM_COMPUTE_3D *)

ComputeOps == <<"Compute3D", "AccumulatorRead3D", "IsStreamCompute3D">>

\* The terminal mode replaces the regular one on the last pass of the
\* terminal dimension (3 disables it).
ComputeMode(i, x) ==
    IF i.terminalDimension < 3
       /\ x[i.terminalDimension + 1] + 1 = i.counts[i.terminalDimension + 1]
    THEN i.terminal ELSE i.regular

NativeCompute(i, x, address, mode) ==
    [op |-> "Compute", buffer |-> Buffer(i, x), activation |-> i.activation,
     result |-> i.result, address |-> address, rowStride |-> i.rowStride,
     destination |-> mode.destination, format |-> i.format,
     clear |-> mode.clear, output |-> mode.output]

ExpandMxmCompute(i, x) ==
    LET address == Operand(i.address, i.addressStrides, x)
    IN  CASE i.op = "AccumulatorRead3D" ->
               [op |-> "AccumulatorRead", address |-> address,
                result |-> i.result, clear |-> i.regular.clear,
                output |-> i.regular.output,
                destination |-> i.regular.destination]
          [] i.op = "IsStreamCompute3D" ->
               [op |-> "IsStreamCompute", buffer |-> Buffer(i, x),
                result |-> i.result, format |-> i.format, address |-> address,
                column |-> i.column, destination |-> i.destination,
                clear |-> i.clear, isMode |-> i.isMode]
          [] i.op = "Compute3D" ->
               NativeCompute(i, x, address, ComputeMode(i, x))

\* COMPUTE_3D leaves counter 0 to the array's row wave.
RowSpan(i) ==
    IF i.op = "Compute3D" THEN Times(i.counts[1] - 1, i.rowStride) ELSE 0

ValidMxmCompute(i) ==
    /\ ValidLoop(i)
    /\ i.op # "AccumulatorRead3D" => i.buffer \in 0 .. 1
                                     /\ i.bufferMode \in 0 .. 3
    /\ \A x \in Corners(i) :
          LET address == Operand(i.address, i.addressStrides, x)
          IN  address >= 0 /\ address + RowSpan(i) < AccumulatorRows
    /\ IF i.op = "Compute3D"
       THEN /\ i.counts[1] <= MxmRows
            /\ i.rowStride # 0
            /\ i.addressStrides[1] = 0
            /\ i.terminalDimension \in 0 .. 3
            /\ \A mode \in {i.regular, i.terminal} :
                  NativeAccepted(NativeCompute(i, <<0, 0, 0>>, i.address, mode))
       ELSE NativeAccepted(ExpandMxmCompute(i, <<0, 0, 0>>))

----------------------------------------------------------------------------
(* VXM and SXM RUN_2D: two launch counters around one unit instruction. *)

ValidRun2D(i) == ValidLoop(i) /\ i.counts[3] = 1 /\ i.strides[3] = 1

StreamRange(base, count) == base \in 0 .. Streams - 1
                            /\ base + count <= Streams

\* The input row 8 stands for all rows over the 16 byte streams, 15 for the
\* wide transpose of all rows over two, 9 broadcasts; 0 .. 7 select a row.
TransposeSources(i) == IF i.inputRow = LanesPerTile THEN 2 * LanesPerTile ELSE 2
TransposeTargets(i) == IF i.inputRow = 15 THEN 2 ELSE 2 * LanesPerTile

ValidSxmTranspose(i) ==
    /\ ValidRun2D(i)
    /\ i.inputRow \in (0 .. LanesPerTile) \cup {9, 15}
    /\ StreamRange(i.source, TransposeSources(i))
    /\ StreamRange(i.target, TransposeTargets(i))

\* Output tile TileRows stands for all tiles.
ValidSxmPermute(i) ==
    /\ ValidRun2D(i)
    /\ i.mapStride \in 0 .. Lanes - 1 /\ i.mapStride % LanesPerTile = 0
    /\ i.outputRow \in 0 .. 15
    /\ i.outputTile \in 0 .. TileRows
    /\ StreamRange(i.source, 2 * LanesPerTile)
    /\ StreamRange(i.target, 2 * LanesPerTile)
    /\ \A lane \in 0 .. Lanes - 1 : i.map[lane] \in 0 .. Lanes - 1

\* Each launch rotates the permute map by the linear index of its point.
ExpandSxmPermute(i, x) ==
    LET launch == x[1] + i.counts[1] * x[2]
    IN  [lane \in DOMAIN i.map |-> (i.map[lane] + launch * i.mapStride) % Lanes]
=============================================================================
