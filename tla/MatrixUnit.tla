----------------------------- MODULE MatrixUnit -----------------------------
(***************************************************************************)
(* One matrix unit (MXM): the control slice, which passes every            *)
(* instruction from tile row to tile row, one row per cycle, and the       *)
(* datapath it drives: weight-stationary computes that cross the array as  *)
(* a diagonal wavefront, input-stationary waves in their own pipeline, and *)
(* the accumulator both of them write and AccumulatorRead empties.         *)
(*                                                                         *)
(* An operand is named by the cycle in which its vector reaches tile 0.    *)
(* Stream segments and instructions move down one tile per cycle together, *)
(* so the operand at tile t is the one of cycle - t.  A number is the set  *)
(* of its products <<tile, activation, weight>>: what was multiplied       *)
(* matters, what it amounts to does not.  The queues in front of the rows  *)
(* are not kept: the control unit hands over at most one instruction per   *)
(* queue and cycle, and row 0 is empty whenever it does.                   *)
(***************************************************************************)
EXTENDS Integers, FiniteSets

CONSTANTS
    Tiles,      \* supercell rows, and columns, of the array
    Lanes,      \* lanes of a tile, and columns of a supercell
    AccRows,    \* rows of the accumulator
    Horizon,    \* bound: the last cycle of a run
    Programs    \* the schedules to run

ASSUME ShapeAssumption ==
    /\ Tiles \in Nat /\ Tiles >= 2
    /\ Lanes \in Nat /\ Lanes >= 2
    /\ AccRows \in Nat \ {0}
    /\ Horizon \in Nat

Tile == 0 .. Tiles - 1
Lane == 0 .. Lanes - 1
Buffer == {0, 1}
Row == 0 .. Tiles * Lanes - 1
Segment == (0 .. AccRows - 1) \X Tile

None == [op |-> "None"]

\* What the queues can hand over: the constructors of the instructions refuse
\* any other buffer, column or lane, and unsigned fields are naturals.
LoadInstruction ==
    {None}
      \cup [op : {"IW"}, buffer : Buffer, column : Tile, inner : SUBSET Lane,
            int8 : BOOLEAN, fed : BOOLEAN]
      \cup [op : {"IsLoad"}, buffer : Buffer, fed : BOOLEAN]
ComputeInstruction ==
    {None}
      \cup [op : {"Compute"}, buffer : Buffer, address : Nat, stride : Nat,
            stream : BOOLEAN, clear : BOOLEAN, fed : BOOLEAN]
      \cup [op : {"Wave"}, buffer : Buffer, address : Nat, column : Tile,
            vector : BOOLEAN, stream : BOOLEAN, clear : BOOLEAN, fed : BOOLEAN]
      \cup [op : {"Read"}, address : Nat, stream : BOOLEAN, clear : BOOLEAN]

ASSUME ScheduleAssumption ==
    \A p \in Programs :
        /\ p.isColumns \in 1 .. Tiles
        /\ p.load \in [1 .. Horizon -> LoadInstruction]
        /\ p.compute \in [1 .. Horizon -> ComputeInstruction]
        /\ p.dequant \in [1 .. Horizon -> {None, [op |-> "Dequant"]}]

VARIABLES
    program,      \* the schedule, with the number of active IS columns
    cycle,
    loads,        \* load_instruction_rows_
    dequants,     \* dequant_instruction_rows_
    computes,     \* compute_instruction_rows_
    weights,      \* the supercells' weight buffers
    activations,  \* decode_activation_buffers_; 0 is a tile never loaded
    waves,        \* decode_stages_
    leaving,      \* decode_output_pipeline_
    cursor,       \* next_row_for_tile_
    running,      \* compute_active_by_buffer_
    wavefront,    \* east_pipeline_
    sums,         \* accumulators_
    counts,       \* contribution_counts_
    acc,          \* the accumulator SRAM
    valid,        \* is_acc_valid_
    owned,        \* is_acc_owned_
    out,          \* the segments written to the result streams this cycle
    fault         \* the checks that failed; the code throws at the first

vars == <<program, cycle, loads, dequants, computes, weights, activations,
          waves, leaving, cursor, running, wavefront, sums, counts, acc, valid,
          owned, out, fault>>

Zero == [lane \in Lane |-> {}]
Plus(v, w) == [lane \in Lane |-> v[lane] \cup w[lane]]

IsColumn == 0 .. program.isColumns - 1

-----------------------------------------------------------------------------
(* The control slice *)

\* The rows as this tick's execute sees them, and as advance leaves them.
Dispatched(rows, issued) == [rows EXCEPT ![0] = issued]
Advanced(rows) == [t \in Tile |-> IF t = 0 THEN None ELSE rows[t - 1]]

Load(t) == IF t = 0 THEN program.load[cycle] ELSE loads[t]
Dequant(t) == IF t = 0 THEN program.dequant[cycle] ELSE dequants[t]
Compute(t) == IF t = 0 THEN program.compute[cycle] ELSE computes[t]

\* What issue_south refuses of an instruction's accumulator fields.
Acceptable(i) ==
    CASE i.op = "Compute" -> i.address < AccRows /\ i.stride # 0
      [] i.op = "Read"    -> i.address < AccRows
      [] i.op = "Wave"    ->
            /\ i.address + ((i.column + program.isColumns - 1) \div Tiles)
                 < AccRows
            /\ i.stream => program.isColumns = Tiles /\ i.column = 0
      [] OTHER            -> TRUE

\* A Dequant and the INT8 consumer it belongs to reach a tile together.
Paired(t) ==
    LET scaled == Dequant(t) # None
        int8   == Load(t).op = "IW" /\ Load(t).int8
        wave   == Compute(t).op = "Wave"
    IN  /\ Load(t).op = "IW" => Load(t).int8 = scaled
        /\ wave => scaled
        /\ scaled => int8 \/ wave

\* An IW fills its inner columns of the cell, and leaves the others.
Written(cell, inner, operand) ==
    [lane \in Lane |-> IF lane \in inner THEN operand ELSE cell[lane]]

\* The cell's weights once this tick's IW, if one is at its row, has run.
Weight(b, t, column) ==
    LET i == Load(t)
    IN  IF i.op = "IW" /\ i.buffer = b /\ i.column = column
          THEN Written(weights[b][t][column], i.inner, cycle - t)
          ELSE weights[b][t][column]

-----------------------------------------------------------------------------
(* The input-stationary waves *)

Activation(b, t) ==
    IF Load(t).op = "IsLoad" /\ Load(t).buffer = b
      THEN cycle - t
      ELSE activations[b][t]

\* The accumulator segment a wave's column goes to.
Target(w, column) ==
    <<w.address + ((w.column + column) \div Tiles), (w.column + column) % Tiles>>

Stages(w) ==
    Tiles + program.isColumns - 1 + (IF w.vector THEN Lanes - 1 ELSE 0)

\* The tiles that work on an output lane of a column in a stage: all lanes
\* at once in block mode, one lane per cycle in vector mode.
Executing(w, stage, column, lane) ==
    {t \in Tile : stage = t + column + (IF w.vector THEN lane ELSE 0)}

Executed(w, stage) ==
    [w EXCEPT
       !.stage = stage,
       !.partial = [column \in IsColumn |-> [lane \in Lane |->
           @[column][lane] \cup
             {<<t, Activation(w.buffer, t), w.id>> :
                t \in Executing(w, stage, column, lane)}]]]

Launching ==
    {[stage |-> 0, id |-> cycle, buffer |-> i.buffer, address |-> i.address,
      column |-> i.column, stream |-> i.stream, clear |-> i.clear,
      vector |-> i.vector, partial |-> [column \in IsColumn |-> Zero]] :
        i \in {x \in {Compute(0)} : x.op = "Wave"}}

Stepped == {Executed(w, 0) : w \in Launching}
             \cup {Executed(w, w.stage + 1) : w \in waves}
Completed == {w \in Stepped : w.stage + 1 = Stages(w)}

\* A launch takes its accumulator rows for the input-stationary checks.
TakenRows == {Target(w, column)[1] : w \in Launching, column \in IsColumn}

Delivered(segment) ==
    [lane \in Lane |-> UNION {x[1].partial[x[2]][lane] :
        x \in {y \in Completed \X IsColumn : Target(y[1], y[2]) = segment}}]

AccWithWaves(segment) == Plus(acc[segment], Delivered(segment))

\* A wave to the stream takes the sums out again, and empties the segments.
Departing ==
    {[tile |-> 0,
      values |-> [column \in IsColumn |-> AccWithWaves(Target(w, column))]] :
        w \in {x \in Completed : x.stream}}

ClearedByWaves ==
    {Target(w, column) : w \in {x \in Completed : x.stream /\ x.clear},
                         column \in IsColumn}

Leaving ==
    Departing \cup {[x EXCEPT !.tile = @ + 1] :
                      x \in {y \in leaving : y.tile + 1 < Tiles}}

ValidAfterWaves ==
    (valid \cup {Target(w, column) : w \in Completed, column \in IsColumn})
      \ ClearedByWaves
OwnedAfterWaves ==
    (owned \cup TakenRows)
      \ {segment[1] : segment \in {x \in ClearedByWaves : x[2] = Tiles - 1}}

-----------------------------------------------------------------------------
(* The weight-stationary wavefront *)

ComputingTiles == {t \in Tile : Compute(t).op = "Compute"}

(* Mutant: only a compute at tile 0 keeps its buffer running. *)
RunningAtTheTop == {Compute(t).buffer : t \in ComputingTiles \cap {0}}

RunningNow == {Compute(t).buffer : t \in ComputingTiles}

\* A compute at tile 0 on a buffer that no tile computed on in the last cycle
\* starts the buffer's rows again.
Restarted == {Compute(0).buffer : t \in ComputingTiles \cap {0}} \ running

NextRow(b, t) == IF b \in Restarted THEN 0 ELSE cursor[b][t]

\* The rows of sums this tick empties: all of a restarted buffer, and the one
\* that a long burst comes round to.
Emptied(b, row) ==
    \/ b \in Restarted
    \/ /\ 0 \in ComputingTiles
       /\ Compute(0).buffer = b
       /\ NextRow(b, 0) >= Cardinality(Row)
       /\ NextRow(b, 0) % Cardinality(Row) = row

Entering ==
    {[column |-> 0, tile |-> t, activation |-> cycle - t,
      row |-> NextRow(Compute(t).buffer, t) % Cardinality(Row),
      buffer |-> Compute(t).buffer, address |-> Compute(t).address,
      stride |-> Compute(t).stride, stream |-> Compute(t).stream,
      clear |-> Compute(t).clear] : t \in ComputingTiles}

Front == wavefront \cup Entering
Working(b, row, column) ==
    {e \in Front : e.buffer = b /\ e.row = row /\ e.column = column}

Sums(b, row, column) ==
    Plus(IF Emptied(b, row) THEN Zero ELSE sums[b][row][column],
         [lane \in Lane |->
            {<<e.tile, e.activation, Weight(b, e.tile, column)[lane]>> :
               e \in Working(b, row, column)}])
Counts(b, row, column) ==
    (IF Emptied(b, row) THEN 0 ELSE counts[b][row][column])
      + Cardinality(Working(b, row, column))

\* A column's sums are taken as the last tile adds to them.
Emitting == {e \in Front : e.tile = Tiles - 1}

(* Mutant: the row stride of an instruction is not used. *)
NextDestination(e) == <<e.address + e.row, e.column>>

Destination(e) == <<e.address + e.row * e.stride, e.column>>

Emitted(segment) ==
    [lane \in Lane |-> UNION {Sums(e.buffer, e.row, e.column)[lane] :
        e \in {x \in Emitting : Destination(x) = segment}}]

AccWithComputes(segment) ==
    Plus(IF segment \in ClearedByWaves THEN Zero ELSE AccWithWaves(segment),
         Emitted(segment))

ClearedByComputes ==
    {Destination(e) : e \in {x \in Emitting : x.stream /\ x.clear}}

-----------------------------------------------------------------------------
(* AccumulatorRead *)

AccForReads(segment) ==
    IF segment \in ClearedByComputes THEN Zero ELSE AccWithComputes(segment)

Reading == {t \in Tile : Compute(t).op = "Read"}
ClearedByReads == {<<Compute(t).address, t>> : t \in {u \in Reading :
                                                        Compute(u).clear}}

\* A row that waves have taken goes to the stream only when it is full; only
\* tile 0 looks.
IncompleteRead ==
    /\ 0 \in Reading
    /\ Compute(0).stream
    /\ Compute(0).address \in OwnedAfterWaves
    /\ \E t \in Tile : <<Compute(0).address, t>> \notin ValidAfterWaves

-----------------------------------------------------------------------------
(* The tick *)

\* Every operand a tile consumes has to be at its boundary register.
WeightsMissing(t) == Load(t).op = "IW" /\ ~ Load(t).fed
LoadMissing(t) == Load(t).op = "IsLoad" /\ ~ Load(t).fed
ActivationMissing(t) == Compute(t).op = "Compute" /\ ~ Compute(t).fed
WaveWeightsMissing(t) == Compute(t).op = "Wave" /\ ~ Compute(t).fed

Checks ==
    [refused    |-> ~ (Acceptable(program.compute[cycle])),
     unpaired   |-> \E t \in Tile : ~ Paired(t),
     starved    |-> \E t \in Tile : \/ WeightsMissing(t)
                                   \/ LoadMissing(t)
                                   \/ ActivationMissing(t)
                                   \/ WaveWeightsMissing(t),
     layout     |-> \E w \in Launching, v \in waves : w.vector # v.vector,
     interval   |-> \E w \in Launching, v \in waves :
                        w.vector /\ v.stage <= Lanes - 2,
     unloaded   |-> \E w \in Stepped : \E column \in IsColumn, lane \in Lane :
                        \E product \in w.partial[column][lane] :
                            product[2] = 0,
     undrained  |-> \E e \in Emitting :
                        Counts(e.buffer, e.row, e.column) < Tiles,
     outside    |-> \E e \in Emitting : Destination(e)[1] >= AccRows,
     incomplete |-> IncompleteRead]

Failing == {check \in DOMAIN Checks : Checks[check]}

Result(from, tile, value) == [from |-> from, tile |-> tile, value |-> value]

WaveResults == {Result("Wave", x.tile, x.values[x.tile]) : x \in Leaving}
ComputeResults ==
    {Result("Compute", e.column, AccWithComputes(Destination(e))) :
        e \in {x \in Emitting : x.stream}}
ReadResults ==
    {Result("Read", t, AccForReads(<<Compute(t).address, t>>)) :
        t \in {u \in Reading : Compute(u).stream}}

Init ==
    /\ program \in Programs
    /\ cycle = 1
    /\ loads = [t \in Tile |-> None]
    /\ dequants = [t \in Tile |-> None]
    /\ computes = [t \in Tile |-> None]
    /\ weights = [b \in Buffer |->
                    [t \in Tile |-> [c \in Tile |-> [lane \in Lane |-> 0]]]]
    /\ activations = [b \in Buffer |-> [t \in Tile |-> 0]]
    /\ waves = {}
    /\ leaving = {}
    /\ cursor = [b \in Buffer |-> [t \in Tile |-> 0]]
    /\ running = {}
    /\ wavefront = {}
    /\ sums = [b \in Buffer |-> [row \in Row |-> [c \in Tile |-> Zero]]]
    /\ counts = [b \in Buffer |-> [row \in Row |-> [c \in Tile |-> 0]]]
    /\ acc = [segment \in Segment |-> Zero]
    /\ valid = {}
    /\ owned = {}
    /\ out = {}
    /\ fault = {}

\* A cycle of the unit: the control rows, the activation loads and waves, the
\* wavefront, and the reads, in that order.
Tick ==
    /\ fault = {}
    /\ cycle <= Horizon
    /\ Failing = {}
    /\ cycle' = cycle + 1
    /\ loads' = Advanced(Dispatched(loads, program.load[cycle]))
    /\ dequants' = Advanced(Dispatched(dequants, program.dequant[cycle]))
    /\ computes' = Advanced(Dispatched(computes, program.compute[cycle]))
    /\ weights' = [b \in Buffer |->
                     [t \in Tile |-> [c \in Tile |-> Weight(b, t, c)]]]
    /\ activations' = [b \in Buffer |-> [t \in Tile |-> Activation(b, t)]]
    /\ waves' = Stepped \ Completed
    /\ leaving' = Leaving
    /\ cursor' = [b \in Buffer |-> [t \in Tile |->
                    NextRow(b, t) + (IF t \in ComputingTiles
                                        /\ Compute(t).buffer = b
                                       THEN 1 ELSE 0)]]
    /\ running' = RunningNow
    /\ wavefront' = {[e EXCEPT !.column = @ + 1] :
                       e \in {x \in Front : x.column + 1 < Tiles}}
    /\ sums' = [b \in Buffer |-> [row \in Row |->
                  [c \in Tile |-> Sums(b, row, c)]]]
    /\ counts' = [b \in Buffer |-> [row \in Row |->
                    [c \in Tile |-> Counts(b, row, c)]]]
    /\ acc' = [segment \in Segment |->
                 IF segment \in ClearedByReads
                   THEN Zero ELSE AccForReads(segment)]
    /\ valid' = ValidAfterWaves \ ClearedByReads
    /\ owned' = OwnedAfterWaves
                  \ {segment[1] : segment \in {x \in ClearedByReads :
                                                 x[2] = Tiles - 1}}
    /\ out' = WaveResults \cup ComputeResults \cup ReadResults
    /\ UNCHANGED <<program, fault>>

\* A failed check ends the simulation in the cycle it fails in.
Throw ==
    /\ fault = {}
    /\ cycle <= Horizon
    /\ Failing # {}
    /\ fault' = Failing
    /\ cycle' = cycle + 1
    /\ UNCHANGED <<program, loads, dequants, computes, weights, activations,
                   waves, leaving, cursor, running, wavefront, sums, counts,
                   acc, valid, owned, out>>

Next == Tick \/ Throw

Spec == Init /\ [][Next]_vars
=============================================================================
