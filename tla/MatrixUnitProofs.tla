-------------------------- MODULE MatrixUnitProofs --------------------------
(***************************************************************************)
(* MatrixUnit agrees with MatrixTimetable in every cycle of every schedule *)
(* the instructions' constructors allow, for every size of the array: the  *)
(* rows, pipelines, cursors and flags of the unit amount to what the       *)
(* timetable reads off the cycles of issue.                                *)
(*                                                                         *)
(* Exact(n) says what each variable holds at the start of cycle n, as a    *)
(* function of the schedule alone, and that no check failed before.  Each  *)
(* part has a lemma that a tick keeps it; they follow the data through the *)
(* unit: rows, operands, waves, bursts, the wavefront, the rows of sums,   *)
(* the accumulator, the result streams.  Where the hardware relies on a    *)
(* check, so does the proof: that a row of sums belongs to one compute at  *)
(* a time (OneRowEach) needs that no burst is restarted too soon, and      *)
(* UndrainedSame shows that counting contributions finds exactly that.     *)
(***************************************************************************)
EXTENDS MatrixTimetable, FiniteSetTheorems, WellFoundedInduction, TLAPS

-----------------------------------------------------------------------------
(* What every variable holds at the start of cycle n.                      *)

RowCount == Tiles * Lanes

(* What a queue has handed over in a cycle, and where that is n cycles in.  *)
Past(stream, c) == IF c \in 1 .. Horizon THEN stream[c] ELSE None
RowsAt(stream, n) ==
    [t \in Tile |-> IF t = 0 THEN None ELSE Past(stream, n - t)]

RowsExact(n) ==
    /\ loads = RowsAt(program.load, n)
    /\ dequants = RowsAt(program.dequant, n)
    /\ computes = RowsAt(program.compute, n)

(* The last load of a lane of a cell, and of a tile's activation, that has  *)
(* reached the tile.                                                        *)
LatestBy(S, m) == Latest({c \in S : c <= m})
IWs(b, column, lane) ==
    {c \in LoadsOf("IW", b) :
       program.load[c].column = column /\ lane \in program.load[c].inner}
WeightsAt(n) ==
    [b \in Buffer |-> [t \in Tile |-> [column \in Tile |->
       [lane \in Lane |-> LatestBy(IWs(b, column, lane), n - 1 - t)]]]]
ActivationsAt(n) ==
    [b \in Buffer |-> [t \in Tile |->
       LatestBy(LoadsOf("IsLoad", b), n - 1 - t)]]

OperandsExact(n) ==
    /\ weights = WeightsAt(n)
    /\ activations = ActivationsAt(n)

(* The wave launched at c, in a stage, with what its tiles worked until s;  *)
(* and after its stage s.                                                   *)
Shift(c, lane) == IF At(c).vector THEN lane ELSE 0
WorkedTiles(c, column, lane, s) ==
    {t \in Tile : t + column + Shift(c, lane) <= s}
Products(c, column, lane, s) ==
    {<<t, ActivationUsed(c, column, lane), c>> :
       t \in WorkedTiles(c, column, lane, s)}
WaveWith(c, stage, s) ==
    [stage |-> stage, id |-> c, buffer |-> At(c).buffer,
     address |-> At(c).address, column |-> At(c).column,
     stream |-> At(c).stream, clear |-> At(c).clear,
     vector |-> At(c).vector,
     partial |-> [column \in IsColumn |-> [lane \in Lane |->
                    Products(c, column, lane, s)]]]
WaveAt(c, s) == WaveWith(c, s, s)
WavesOn(n) == {WaveAt(c, n - 1 - c) : c \in InFlight(n)}
WavesExact(n) == waves = WavesOn(n)

(* The results of a wave to the stream, on their way down.                  *)
Departed(w, tile) ==
    [tile |-> tile,
     values |-> [column \in IsColumn |->
                   Held(Target(At(w), column), WavesAt(WaveDone(w)))]]
LeavingAt(n) ==
    {w \in Issued("Wave") : At(w).stream /\ n - WaveDone(w) \in Tile}
LeavingOn(n) == {Departed(w, n - WaveDone(w)) : w \in LeavingAt(n)}
LeavingExact(n) == leaving = LeavingOn(n - 1)

(* A compute is alive while its burst goes on.                              *)
Chain(b, c, d) == \A m \in c .. d - 1 : Busy(b, m)
Alive(b, c, n) == \A d \in ComputesOn(b) : c <= d /\ d < n => Chain(b, c, d)
Reached(b, t, n) == {c \in ComputesOn(b) : c + t < n /\ Alive(b, c, n)}
CursorAt(n) ==
    [b \in Buffer |-> [t \in Tile |-> Cardinality(Reached(b, t, n))]]
RunningAt(n) == {b \in Buffer : Busy(b, n - 1)}

(* A compute that still works somewhere belongs to the burst that goes on.  *)
NoneCut(n) ==
    \A b \in Buffer : \A d \in ComputesOn(b) :
        d < n /\ n <= d + (2 * Tiles) - 1 => Alive(b, d, n)
BurstsExact(n) ==
    /\ cursor = CursorAt(n)
    /\ running = RunningAt(n)
    /\ NoneCut(n)

Element(d, t, column) ==
    [column |-> column, tile |-> t, activation |-> d,
     row |-> Place(d) % RowCount, buffer |-> At(d).buffer,
     address |-> At(d).address, stride |-> At(d).stride,
     stream |-> At(d).stream, clear |-> At(d).clear]
FrontAt(n) ==
    {Element(x[1], x[2], n - x[1] - x[2]) :
       x \in {y \in Issued("Compute") \X Tile : n - y[1] - y[2] \in Tile}}
FrontLeft(n) ==
    {Element(x[1], x[2], n - x[1] - x[2]) :
       x \in {y \in Issued("Compute") \X Tile :
                n - y[1] - y[2] \in 1 .. Tiles - 1}}
FrontExact(n) == wavefront = FrontLeft(n)

(* The sums of a compute after the first k tiles.                           *)
SumUpTo(d, b, column, k) ==
    [lane \in Lane |->
       {<<t, d, WeightUsed(b, column, lane, d)>> : t \in {u \in Tile : u < k}}]
CountUpTo(k) == IF k < 0 THEN 0 ELSE k
SumsOfWorking(n) ==
    \A b \in Buffer : \A column \in Tile : \A d \in ComputesOn(b) :
        d < n /\ n <= ColumnDone(d, column) =>
          /\ sums[b][Place(d) % RowCount][column]
               = SumUpTo(d, b, column, n - d - column)
          /\ counts[b][Place(d) % RowCount][column]
               = CountUpTo(n - d - column)
SumsOfFree ==
    \A b \in Buffer : \A column \in Tile : \A row \in Row :
        row >= cursor[b][0] =>
          sums[b][row][column] = Zero /\ counts[b][row][column] = 0
SumsExact(n) == SumsOfWorking(n) /\ SumsOfFree

(* A waves' segment that is full, and a row that is taken, before cycle n.  *)
FilledBefore(segment, n) ==
    \E w \in Issued("Wave") :
        /\ WaveDone(w) < n
        /\ \E column \in IsColumn : Target(At(w), column) = segment
        /\ \A c \in Clears :
              (c.segment = segment /\ c.moment < WavesAt(n) /\ ~ ByCompute(c))
                => c.moment < WavesAt(WaveDone(w))
TakenBefore(address, n) ==
    \E w \in Issued("Wave") :
        /\ w < n
        /\ \E column \in IsColumn : Target(At(w), column)[1] = address
        /\ \A c \in Clears :
              (c.segment = <<address, Tiles - 1>> /\ c.moment < WavesAt(n)
                 /\ ~ ByCompute(c))
                => c.moment < WavesAt(w)
HeldAt(n) == [segment \in Segment |-> Held(segment, EndOf(n))]
AccExact(n) ==
    /\ acc = HeldAt(n - 1)
    /\ \A address \in Nat, t \in Tile :
          <<address, t>> \in valid <=> FilledBefore(<<address, t>>, n)
    /\ \A address \in Nat : address \in owned <=> TakenBefore(address, n)
    /\ n > 1 => out = Leaves(n - 1)

(* What the unit knows of a row at a read: a wave that no clear of the last *)
(* segment has come after.                                                  *)
Marked(address, read) ==
    \E w \in Takers(address, read) :
        Kept(<<address, Tiles - 1>>, WavesAt(w), ReadsAt(read))
Caught(n) ==
    /\ At(n).op = "Read" /\ At(n).stream
    /\ Marked(At(n).address, n)
    /\ \E t \in Tile : ~ Filled(<<At(n).address, t>>, n)

FailingAt(n) ==
    {check \in DOMAIN Broken(n) : Broken(n)[check]}
      \cup {check \in {"incomplete"} : Caught(n)}
FaultsCaught == cycle > 1 => fault = FailingAt(cycle - 1)

Unbroken(n) ==
    \A m \in 1 .. n - 1 : \A check \in DOMAIN Broken(m) : ~ Broken(m)[check]

Exact(n) ==
    /\ Unbroken(n)
    /\ RowsExact(n)
    /\ OperandsExact(n)
    /\ WavesExact(n)
    /\ LeavingExact(n)
    /\ BurstsExact(n)
    /\ FrontExact(n)
    /\ SumsExact(n)
    /\ AccExact(n)

MatrixInv ==
    /\ program \in Programs
    /\ cycle \in 1 .. Horizon + 1
    /\ FaultsCaught
    /\ fault = {} => Exact(cycle)

(* What the timetable says of a schedule does not change while the schedule *)
(* does not.                                                                *)
LEMMA Frames ==
  ASSUME program' = program
  PROVE  /\ \A op : Issued(op)' = Issued(op)
         /\ \A c : At(c)' = At(c)
         /\ \A op, b : LoadsOf(op, b)' = LoadsOf(op, b)
         /\ IsColumn' = IsColumn
         /\ \A w : Stages(w)' = Stages(w)
         /\ \A i : Acceptable(i)' = Acceptable(i)
  BY DEF Issued, At, LoadsOf, IsColumn, Stages, Acceptable

(* The same, of the operands that meet.                                     *)
LEMMA OperandFrames ==
  ASSUME program' = program
  PROVE  /\ \A b, column, lane, c :
               WeightUsed(b, column, lane, c)' = WeightUsed(b, column, lane, c)
         /\ \A w, column, lane :
               ActivationUsed(w, column, lane)' = ActivationUsed(w, column, lane)
         /\ \A w : WaveDone(w)' = WaveDone(w)
         /\ \A b, column, lane : IWs(b, column, lane)' = IWs(b, column, lane)
         /\ \A n : WeightsAt(n)' = WeightsAt(n)
         /\ \A n : ActivationsAt(n)' = ActivationsAt(n)
<1>1. /\ \A b, column, lane, c :
               WeightUsed(b, column, lane, c)' = WeightUsed(b, column, lane, c)
      /\ \A w, column, lane :
               ActivationUsed(w, column, lane)' = ActivationUsed(w, column, lane)
  <2>1. ASSUME NEW b, NEW column, NEW lane, NEW c
        PROVE  WeightUsed(b, column, lane, c)' = WeightUsed(b, column, lane, c)
    BY Frames DEF WeightUsed
  <2>2. ASSUME NEW w, NEW column, NEW lane
        PROVE  ActivationUsed(w, column, lane)' = ActivationUsed(w, column, lane)
    BY Frames DEF ActivationUsed
  <2> QED
    BY <2>1, <2>2
<1>2. \A w : WaveDone(w)' = WaveDone(w)
  BY Frames DEF WaveDone
<1>3. \A b, column, lane : IWs(b, column, lane)' = IWs(b, column, lane)
  BY Frames DEF IWs
<1>4. \A n : WeightsAt(n)' = WeightsAt(n)
  BY <1>3 DEF WeightsAt
<1>5. \A n : ActivationsAt(n)' = ActivationsAt(n)
  BY Frames DEF ActivationsAt
<1> QED
  BY <1>1, <1>2, <1>3, <1>4, <1>5

(* The same, of the waves.                                                  *)
LEMMA WaveFrames ==
  ASSUME program' = program
  PROVE  /\ \A n : InFlight(n)' = InFlight(n)
         /\ \A c, s : WaveAt(c, s)' = WaveAt(c, s)
         /\ \A n : WavesOn(n)' = WavesOn(n)
<1>1. \A n : InFlight(n)' = InFlight(n)
  BY Frames, OperandFrames DEF InFlight
<1>2. \A c, lane : Shift(c, lane)' = Shift(c, lane)
  BY Frames DEF Shift
<1>3. \A c, column, lane, s :
        WorkedTiles(c, column, lane, s)' = WorkedTiles(c, column, lane, s)
  BY <1>2 DEF WorkedTiles
<1>4. \A c, column, lane, s :
        Products(c, column, lane, s)' = Products(c, column, lane, s)
  BY <1>3, OperandFrames DEF Products
<1>5. \A c, s : WaveAt(c, s)' = WaveAt(c, s)
  BY <1>4, Frames DEF WaveAt, WaveWith
<1>6. \A n : WavesOn(n)' = WavesOn(n)
  BY <1>1, <1>5 DEF WavesOn
<1> QED
  BY <1>1, <1>5, <1>6

(* The same, of the bursts.                                                 *)
LEMMA BurstFrames ==
  ASSUME program' = program
  PROVE  /\ \A b : ComputesOn(b)' = ComputesOn(b)
         /\ \A b, n : Busy(b, n)' = Busy(b, n)
         /\ \A c : Place(c)' = Place(c)
         /\ \A c : RowAddress(c)' = RowAddress(c)
         /\ \A b, c, n : Alive(b, c, n)' = Alive(b, c, n)
         /\ \A n : CursorAt(n)' = CursorAt(n)
         /\ \A n : RunningAt(n)' = RunningAt(n)
         /\ \A n : NoneCut(n)' = NoneCut(n)
         /\ \A d, t, column : Element(d, t, column)' = Element(d, t, column)
         /\ \A n : FrontLeft(n)' = FrontLeft(n)
         /\ \A d, b, column, k : SumUpTo(d, b, column, k)' = SumUpTo(d, b, column, k)
         /\ \A c : TooSoon(c)' = TooSoon(c)
<1>1. \A b : ComputesOn(b)' = ComputesOn(b)
  BY Frames DEF ComputesOn
<1>2. \A b, n : Busy(b, n)' = Busy(b, n)
  BY <1>1 DEF Busy
<1>3. \A c : Place(c)' = Place(c)
  BY <1>1, <1>2, Frames DEF Place
<1>4. \A c : RowAddress(c)' = RowAddress(c)
  BY <1>3, Frames DEF RowAddress
<1>5. \A b, c, d : Chain(b, c, d)' = Chain(b, c, d)
  BY <1>2 DEF Chain
<1>6. \A b, c, n : Alive(b, c, n)' = Alive(b, c, n)
  BY <1>1, <1>5 DEF Alive
<1>7. \A b, t, n : Reached(b, t, n)' = Reached(b, t, n)
  BY <1>1, <1>6 DEF Reached
<1>8. \A n : CursorAt(n)' = CursorAt(n)
  BY <1>7 DEF CursorAt
<1>9. \A n : RunningAt(n)' = RunningAt(n)
  BY <1>2 DEF RunningAt
<1>10. \A n : NoneCut(n)' = NoneCut(n)
  BY <1>1, <1>6 DEF NoneCut
<1>11. \A d, t, column : Element(d, t, column)' = Element(d, t, column)
  BY <1>3, Frames DEF Element
<1>12. \A n : FrontLeft(n)' = FrontLeft(n)
  BY <1>11, Frames DEF FrontLeft
<1>13. \A d, b, column, k : SumUpTo(d, b, column, k)' = SumUpTo(d, b, column, k)
  BY OperandFrames DEF SumUpTo
<1>14. \A c : TooSoon(c)' = TooSoon(c)
  BY <1>1, <1>2, Frames DEF TooSoon, ColumnDone
<1> QED
  BY <1>1, <1>2, <1>3, <1>4, <1>6, <1>8, <1>9, <1>10, <1>11, <1>12, <1>13, <1>14

(* The same, of what the accumulator holds, what leaves and which checks    *)
(* fail.                                                                    *)
LEMMA HeldFrames ==
  ASSUME program' = program
  PROVE  /\ Adds' = Adds
         /\ Clears' = Clears
         /\ \A segment, m : Held(segment, m)' = Held(segment, m)
         /\ \A n : LeavingOn(n)' = LeavingOn(n)
         /\ \A segment, n : FilledBefore(segment, n)' = FilledBefore(segment, n)
         /\ \A address, n : TakenBefore(address, n)' = TakenBefore(address, n)
         /\ \A n : HeldAt(n)' = HeldAt(n)
         /\ \A n : Leaves(n)' = Leaves(n)
         /\ \A n : Broken(n)' = Broken(n)
         /\ \A n : FailingAt(n)' = FailingAt(n)
<1>1. ComputeAdds' = ComputeAdds
  BY Frames, OperandFrames, BurstFrames DEF ComputeAdds
<1>2. WaveAdds' = WaveAdds
  BY Frames, OperandFrames DEF WaveAdds
<1>3. Adds' = Adds
  BY <1>1, <1>2 DEF Adds
<1>4. Clears' = Clears
  BY Frames, OperandFrames, BurstFrames DEF Clears
<1>5. \A segment, m : Held(segment, m)' = Held(segment, m)
  BY <1>3, <1>4 DEF Held
<1>6. \A w, t : Departed(w, t)' = Departed(w, t)
  BY <1>5, Frames, OperandFrames DEF Departed
<1>7. \A n : LeavingAt(n)' = LeavingAt(n)
  BY Frames, OperandFrames DEF LeavingAt
<1>8. \A n : LeavingOn(n)' = LeavingOn(n)
  BY <1>6, <1>7, OperandFrames DEF LeavingOn
<1>9. \A segment, n : FilledBefore(segment, n)' = FilledBefore(segment, n)
  BY <1>4, Frames, OperandFrames DEF FilledBefore
<1>10. \A address, n : TakenBefore(address, n)' = TakenBefore(address, n)
  <2> SUFFICES ASSUME NEW address, NEW n
               PROVE  TakenBefore(address, n)' = TakenBefore(address, n)
    OBVIOUS
  <2>1. \A w : (\E column \in IsColumn : Target(At(w), column)[1] = address)'
                 <=> \E column \in IsColumn : Target(At(w), column)[1] = address
    BY Frames
  <2>2. Issued("Wave")' = Issued("Wave")
    BY Frames
  <2> QED
    BY <2>1, <2>2, <1>4 DEF TakenBefore
<1>11. \A n : HeldAt(n)' = HeldAt(n)
  BY <1>5 DEF HeldAt
<1>12. \A n : Leaves(n)' = Leaves(n)
  <2>1. \A n : ComputesLeaving(n)' = ComputesLeaving(n)
    BY <1>5, Frames, BurstFrames DEF ComputesLeaving, ColumnDone
  <2>2. \A n : WavesLeaving(n)' = WavesLeaving(n)
    BY <1>5, Frames, OperandFrames DEF WavesLeaving
  <2>3. \A n : ReadsLeaving(n)' = ReadsLeaving(n)
    <3> SUFFICES ASSUME NEW n
                 PROVE  ReadsLeaving(n)' = ReadsLeaving(n)
      OBVIOUS
    <3>1. \A x : Held(<<At(x[1]).address, x[2]>>, ReadsAt(n))'
                   = Held(<<At(x[1]).address, x[2]>>, ReadsAt(n))
      BY <1>5, Frames
    <3>2. Issued("Read")' = Issued("Read") /\ \A c : At(c)' = At(c)
      BY Frames
    <3> QED
      BY <3>1, <3>2 DEF ReadsLeaving
  <2> QED
    BY <2>1, <2>2, <2>3 DEF Leaves
<1>13. \A n : Broken(n)' = Broken(n)
  <2> SUFFICES ASSUME NEW n
               PROVE  Broken(n)' = Broken(n)
    OBVIOUS
  <2>1. program.load[n]' = program.load[n] /\ program.dequant[n]' = program.dequant[n]
    OBVIOUS
  <2>2. Acceptable(At(n))' = Acceptable(At(n))
    BY Frames
  <2>3. At(n)' = At(n)
    BY Frames
  <2>4. (\E c \in Issued("Compute"), column \in Tile :
            ColumnDone(c, column) = n /\ RowAddress(c) >= AccRows)'
        <=> \E c \in Issued("Compute"), column \in Tile :
            ColumnDone(c, column) = n /\ RowAddress(c) >= AccRows
    BY Frames, BurstFrames DEF ColumnDone
  <2>5. ActivationUsed(n, 0, 0)' = ActivationUsed(n, 0, 0)
    BY OperandFrames
  <2>6. TooSoon(n)' = TooSoon(n)
    BY BurstFrames
  <2>7. (\E w \in InFlight(n) : At(w).vector # At(n).vector)'
        <=> \E w \in InFlight(n) : At(w).vector # At(n).vector
    BY Frames, WaveFrames
  <2>8. InFlight(n)' = InFlight(n)
    BY WaveFrames
  <2> QED
    BY <2>1, <2>2, <2>3, <2>4, <2>5, <2>6, <2>7, <2>8 DEF Broken
<1>14. \A n : FailingAt(n)' = FailingAt(n)
  <2>1. \A segment, m, r : Kept(segment, m, r)' = Kept(segment, m, r)
    BY <1>4 DEF Kept
  <2>2. \A address, r : Marked(address, r)' = Marked(address, r)
    <3> SUFFICES ASSUME NEW address, NEW r
                 PROVE  Marked(address, r)' = Marked(address, r)
      OBVIOUS
    <3>1. \A w : (\E column \in IsColumn : Target(At(w), column)[1] = address)'
                   <=> \E column \in IsColumn : Target(At(w), column)[1] = address
      BY Frames
    <3>2. Issued("Wave")' = Issued("Wave")
      BY Frames
    <3>3. Takers(address, r)' = Takers(address, r)
      BY <3>1, <3>2 DEF Takers
    <3> QED
      BY <2>1, <3>3 DEF Marked
  <2>3. \A segment, r : Filled(segment, r)' = Filled(segment, r)
    BY <2>1, Frames, OperandFrames DEF Filled
  <2>4. \A n : Caught(n)' = Caught(n)
    <3> SUFFICES ASSUME NEW n
                 PROVE  Caught(n)' = Caught(n)
      OBVIOUS
    <3>1. At(n)' = At(n)
      BY Frames
    <3>2. Marked(At(n).address, n)' = Marked(At(n).address, n)
      BY <2>2, <3>1
    <3>3. (\E t \in Tile : ~ Filled(<<At(n).address, t>>, n))'
            <=> \E t \in Tile : ~ Filled(<<At(n).address, t>>, n)
      BY <2>3, <3>1
    <3> QED
      BY <3>1, <3>2, <3>3 DEF Caught
  <2> QED
    BY <1>13, <2>4 DEF FailingAt
<1> QED
  BY <1>3, <1>4, <1>5, <1>8, <1>9, <1>10, <1>11, <1>12, <1>13, <1>14

(* The numbers that shape the array.                                        *)
LEMMA ShapeFacts ==
  /\ Tiles \in Nat /\ Tiles >= 2 /\ Lanes \in Nat /\ Lanes >= 2
  /\ AccRows \in Nat /\ Horizon \in Nat
  BY ShapeAssumption

(* The active input-stationary columns are columns of the array.            *)
LEMMA ColumnFacts ==
  ASSUME program \in Programs
  PROVE  /\ program.isColumns \in 1 .. Tiles
         /\ \A column \in IsColumn : column \in Tile /\ column < program.isColumns
         /\ 0 \in IsColumn
  BY ScheduleAssumption, ShapeFacts DEF IsColumn, Tile

(* What a wave that was issued carries.                                     *)
LEMMA WaveFields ==
  ASSUME program \in Programs, NEW w \in Issued("Wave")
  PROVE  /\ w \in 1 .. Horizon
         /\ At(w).op = "Wave"
         /\ At(w).buffer \in Buffer
         /\ At(w).address \in Nat
         /\ At(w).column \in Tile
         /\ At(w).vector \in BOOLEAN
         /\ At(w).stream \in BOOLEAN
         /\ At(w).clear \in BOOLEAN
<1>1. w \in 1 .. Horizon /\ At(w).op = "Wave"
  BY DEF Issued, At
<1>2. At(w) \in ComputeInstruction
  BY <1>1, ScheduleAssumption DEF At
<1> QED
  BY <1>1, <1>2 DEF ComputeInstruction, None

(* What a compute that was issued carries.                                  *)
LEMMA ComputeFields ==
  ASSUME program \in Programs, NEW c \in Issued("Compute")
  PROVE  /\ c \in 1 .. Horizon
         /\ At(c).op = "Compute"
         /\ At(c).buffer \in Buffer
         /\ At(c).address \in Nat
         /\ At(c).stride \in Nat
         /\ At(c).stream \in BOOLEAN
         /\ At(c).clear \in BOOLEAN
<1>1. c \in 1 .. Horizon /\ At(c).op = "Compute"
  BY DEF Issued, At
<1>2. At(c) \in ComputeInstruction
  BY <1>1, ScheduleAssumption DEF At
<1> QED
  BY <1>1, <1>2 DEF ComputeInstruction, None

(* What a read that was issued carries.                                     *)
LEMMA ReadFields ==
  ASSUME program \in Programs, NEW r \in Issued("Read")
  PROVE  /\ r \in 1 .. Horizon
         /\ At(r).op = "Read"
         /\ At(r).address \in Nat
         /\ At(r).stream \in BOOLEAN
         /\ At(r).clear \in BOOLEAN
<1>1. r \in 1 .. Horizon /\ At(r).op = "Read"
  BY DEF Issued, At
<1>2. At(r) \in ComputeInstruction
  BY <1>1, ScheduleAssumption DEF At
<1> QED
  BY <1>1, <1>2 DEF ComputeInstruction, None

-----------------------------------------------------------------------------
(* The rows *)

(* Row t executes what the queue handed over t cycles ago.                  *)
LEMMA RowsSeen ==
  ASSUME cycle \in 1 .. Horizon, RowsExact(cycle), NEW t \in Tile
  PROVE  /\ Load(t) = Past(program.load, cycle - t)
         /\ Dequant(t) = Past(program.dequant, cycle - t)
         /\ Compute(t) = Past(program.compute, cycle - t)
<1>1. t \in Int /\ cycle - 0 = cycle
  BY ShapeFacts DEF Tile
<1>2. CASE t = 0
  BY <1>1, <1>2 DEF Past, Load, Dequant, Compute
<1>3. CASE t # 0
  BY <1>1, <1>3 DEF Load, Dequant, Compute, RowsExact, RowsAt
<1> QED
  BY <1>2, <1>3

(* advance() moves what was handed over down by one row.                    *)
LEMMA Advance ==
  ASSUME cycle \in 1 .. Horizon, NEW stream
  PROVE  Advanced(Dispatched(RowsAt(stream, cycle), stream[cycle]))
           = RowsAt(stream, cycle + 1)
<1> DEFINE rows == Dispatched(RowsAt(stream, cycle), stream[cycle])
<1>1. ASSUME NEW t \in Tile, t # 0
      PROVE  rows[t - 1] = Past(stream, (cycle + 1) - t)
  <2>1. t - 1 \in Tile /\ cycle - (t - 1) = (cycle + 1) - t
    BY <1>1, ShapeFacts DEF Tile
  <2>2. CASE t = 1
    BY <2>1, <2>2 DEF Dispatched, RowsAt, Past
  <2>3. CASE t # 1
    <3>1. t - 1 # 0
      BY <2>3, ShapeFacts DEF Tile
    <3> QED
      BY <2>1, <3>1 DEF Dispatched, RowsAt
  <2> QED
    BY <2>2, <2>3
<1> HIDE DEF rows
<1>2. \A t \in Tile : (IF t = 0 THEN None ELSE rows[t - 1])
                       = IF t = 0 THEN None ELSE Past(stream, (cycle + 1) - t)
  BY <1>1
<1>3. Advanced(rows) = RowsAt(stream, cycle + 1)
  <2>1. RowsAt(stream, cycle + 1)
          = [t \in Tile |-> IF t = 0 THEN None ELSE Past(stream, (cycle + 1) - t)]
    BY DEF RowsAt
  <2>2. Advanced(rows) = [t \in Tile |-> IF t = 0 THEN None ELSE rows[t - 1]]
    BY DEF Advanced
  <2> QED
    BY <1>2, <2>1, <2>2, Zenon
<1> QED
  BY <1>3 DEF rows

(* A tick keeps every instruction at its row.                               *)
LEMMA RowsStep ==
  ASSUME cycle \in 1 .. Horizon, RowsExact(cycle), Tick
  PROVE  RowsExact(cycle)'
<1>1. program' = program /\ cycle' = cycle + 1
  BY DEF Tick
<1>2. /\ loads' = RowsAt(program.load, cycle + 1)
      /\ dequants' = RowsAt(program.dequant, cycle + 1)
      /\ computes' = RowsAt(program.compute, cycle + 1)
  BY Advance DEF Tick, RowsExact
<1> QED
  BY <1>1, <1>2 DEF RowsExact

(* The tiles that compute and read, by the cycle of issue.                  *)
LEMMA Computing ==
  ASSUME cycle \in 1 .. Horizon, RowsExact(cycle)
  PROVE  /\ ComputingTiles = {t \in Tile : cycle - t \in Issued("Compute")}
         /\ Reading = {t \in Tile : cycle - t \in Issued("Read")}
         /\ \A t \in Tile : \A op \in {"Compute", "Read", "Wave"} :
              Compute(t).op = op <=> cycle - t \in Issued(op)
         /\ \A t \in Tile : \A op \in {"Compute", "Read", "Wave"} :
              cycle - t \in Issued(op) => Compute(t) = At(cycle - t)
<1>1. ASSUME NEW t \in Tile, NEW op \in {"Compute", "Read", "Wave"}
      PROVE  /\ Compute(t).op = op <=> cycle - t \in Issued(op)
             /\ cycle - t \in Issued(op) => Compute(t) = At(cycle - t)
  BY RowsSeen DEF Past, None, Issued, At
<1> QED
  BY <1>1 DEF ComputingTiles, Reading

-----------------------------------------------------------------------------
(* The operands *)

(* The largest of a set of cycles is the latest.                            *)
LEMMA LatestIs ==
  ASSUME NEW S \in SUBSET Int, NEW m \in S, \A d \in S : d <= m
  PROVE  Latest(S) = m
<1>1. \A c \in S : (\A d \in S : d <= c) => c = m
  <2> SUFFICES ASSUME NEW c \in S, \A d \in S : d <= c
               PROVE  c = m
    OBVIOUS
  <2>1. c <= m /\ m <= c /\ c \in Int /\ m \in Int
    OBVIOUS
  <2> QED
    BY <2>1
<1>2. m = CHOOSE c \in S : \A d \in S : d <= c
  BY <1>1
<1>3. S # {}
  OBVIOUS
<1> QED
  BY <1>2, <1>3 DEF Latest

(* One more cycle makes the latest that cycle, if it is one of the set.     *)
LEMMA LatestStep ==
  ASSUME NEW S \in SUBSET Int, NEW m \in Int
  PROVE  LatestBy(S, m) = IF m \in S THEN m ELSE LatestBy(S, m - 1)
<1>1. CASE m \in S
  <2>1. /\ {c \in S : c <= m} \in SUBSET Int /\ m \in {c \in S : c <= m}
        /\ \A d \in {c \in S : c <= m} : d <= m
    <3>1. m <= m
      OBVIOUS
    <3> QED
      BY <1>1, <3>1
  <2>2. Latest({c \in S : c <= m}) = m
    BY <2>1, LatestIs
  <2> QED
    BY <1>1, <2>2 DEF LatestBy
<1>2. CASE m \notin S
  <2>0. \A c \in S : c <= m <=> c <= m - 1
    <3> SUFFICES ASSUME NEW c \in S
                 PROVE  c <= m <=> c <= m - 1
      OBVIOUS
    <3>1. c \in Int /\ c # m
      BY <1>2
    <3> QED
      BY <3>1
  <2>1. {c \in S : c <= m} = {c \in S : c <= m - 1}
    BY <2>0
  <2> QED
    BY <1>2, <2>1 DEF LatestBy
<1> QED
  BY <1>1, <1>2

(* A set of natural numbers that is not empty has a least element.          *)
LEMMA Minimum ==
  ASSUME NEW T, T \subseteq Nat, T # {}
  PROVE  \E x \in T : \A y \in T : x <= y
<1>1. IsWellFoundedOn(OpToRel(<, Nat), Nat)
  BY NatLessThanWellFounded
<1>2. PICK x \in T : \A y \in T : ~ (<<y, x>> \in OpToRel(<, Nat))
  BY <1>1, WFMin
<1>3. \A y \in T : ~ (y < x)
  BY <1>2 DEF OpToRel
<1> QED
  BY <1>3

(* A set of cycles that is not empty has a last one.                        *)
LEMMA LatestIn ==
  ASSUME NEW S \in SUBSET (1 .. Horizon), S # {}
  PROVE  Latest(S) \in S
<1> DEFINE T == {k \in Nat : \A c \in S : c <= k}
<1>1. Horizon \in T /\ T \subseteq Nat
  BY ShapeFacts
<1>2. PICK k \in T : \A j \in T : k <= j
  BY <1>1, Minimum
<1>3. k \in Nat /\ \A c \in S : c <= k
  BY <1>2
<1>4. k \in S
  <2> SUFFICES ASSUME k \notin S
               PROVE  FALSE
    OBVIOUS
  <2>1. \A c \in S : c \in Int /\ 1 <= c /\ c <= k - 1
    BY <1>3, ShapeFacts
  <2>2. k - 1 \in T
    <3>1. PICK c \in S : TRUE
      OBVIOUS
    <3>2. k - 1 \in Nat
      BY <2>1, <3>1, <1>3
    <3> QED
      BY <2>1, <3>2
  <2> QED
    BY <2>2, <1>2, <1>3
<1>5. S \in SUBSET Int
  OBVIOUS
<1> QED
  BY <1>3, <1>4, <1>5, LatestIs

-----------------------------------------------------------------------------
(* The operands                                                             *)

(* Loads are issued in cycles of the schedule.                              *)
LEMMA LoadCycles ==
  /\ \A op, b : LoadsOf(op, b) \in SUBSET (1 .. Horizon)
  /\ \A b, column, lane : IWs(b, column, lane) \in SUBSET (1 .. Horizon)
  BY DEF LoadsOf, IWs

(* The load at a tile, by the cycle of issue.                               *)
LEMMA LoadSeen ==
  ASSUME cycle \in 1 .. Horizon, RowsExact(cycle), NEW t \in Tile
  PROVE  /\ \A b : (Load(t).op = "IsLoad" /\ Load(t).buffer = b)
                     <=> cycle - t \in LoadsOf("IsLoad", b)
         /\ \A b, column, lane :
              (Load(t).op = "IW" /\ Load(t).buffer = b /\ Load(t).column = column
                 /\ lane \in Load(t).inner)
                <=> cycle - t \in IWs(b, column, lane)
  BY RowsSeen DEF Past, None, LoadsOf, IWs

(* The activation a tile holds is that of the last IsLoad to have reached   *)
(* it.                                                                      *)
LEMMA ActivationSeen ==
  ASSUME program \in Programs, cycle \in 1 .. Horizon, RowsExact(cycle),
         OperandsExact(cycle), NEW b \in Buffer, NEW t \in Tile
  PROVE  Activation(b, t) = LatestBy(LoadsOf("IsLoad", b), cycle - t)
<1>1. activations[b][t] = LatestBy(LoadsOf("IsLoad", b), (cycle - t) - 1)
  <2>1. cycle - 1 - t = (cycle - t) - 1
    BY ShapeFacts DEF Tile
  <2> QED
    BY <2>1 DEF OperandsExact, ActivationsAt
<1>2. LoadsOf("IsLoad", b) \in SUBSET Int /\ cycle - t \in Int
  BY LoadCycles, ShapeFacts DEF Tile
<1>3. LatestBy(LoadsOf("IsLoad", b), cycle - t)
        = IF cycle - t \in LoadsOf("IsLoad", b) THEN cycle - t
            ELSE LatestBy(LoadsOf("IsLoad", b), (cycle - t) - 1)
  BY <1>2, LatestStep
<1> QED
  BY <1>1, <1>3, LoadSeen DEF Activation

(* The weights a cell holds are, lane by lane, those of the last IW to have *)
(* reached it.                                                              *)
LEMMA WeightSeen ==
  ASSUME program \in Programs, cycle \in 1 .. Horizon, RowsExact(cycle),
         OperandsExact(cycle),
         NEW b \in Buffer, NEW t \in Tile, NEW column \in Tile
  PROVE  Weight(b, t, column)
           = [lane \in Lane |-> LatestBy(IWs(b, column, lane), cycle - t)]
<1> DEFINE Old == [lane \in Lane |->
                     LatestBy(IWs(b, column, lane), (cycle - t) - 1)]
           m == cycle - t
<1>1. weights[b][t][column] = Old
  <2>1. cycle - 1 - t = (cycle - t) - 1
    BY ShapeFacts DEF Tile
  <2> QED
    BY <2>1 DEF OperandsExact, WeightsAt
<1>2. ASSUME NEW lane \in Lane
      PROVE  LatestBy(IWs(b, column, lane), m)
               = IF m \in IWs(b, column, lane) THEN m ELSE Old[lane]
  <2>1. IWs(b, column, lane) \in SUBSET Int /\ m \in Int
    BY LoadCycles, ShapeFacts DEF Tile
  <2> QED
    BY <2>1, LatestStep
<1>3. DOMAIN Old = Lane
  OBVIOUS
<1> HIDE DEF Old, m
<1>4. CASE Load(t).op = "IW" /\ Load(t).buffer = b /\ Load(t).column = column
  <2>1. Weight(b, t, column)
          = [lane \in Lane |-> IF lane \in Load(t).inner THEN m ELSE Old[lane]]
    BY <1>1, <1>4 DEF Weight, Written, m
  <2>2. \A lane \in Lane : lane \in Load(t).inner <=> m \in IWs(b, column, lane)
    BY <1>4, LoadSeen DEF m
  <2>3. \A lane \in Lane : (IF lane \in Load(t).inner THEN m ELSE Old[lane])
                             = LatestBy(IWs(b, column, lane), m)
    BY <1>2, <2>2
  <2> QED
    BY <2>1, <2>3 DEF m
<1>5. CASE ~ (Load(t).op = "IW" /\ Load(t).buffer = b /\ Load(t).column = column)
  <2>1. Weight(b, t, column) = Old
    BY <1>1, <1>5 DEF Weight
  <2>2. \A lane \in Lane : m \notin IWs(b, column, lane)
    BY <1>5, LoadSeen DEF m
  <2>3. \A lane \in Lane : Old[lane] = LatestBy(IWs(b, column, lane), m)
    BY <1>2, <2>2
  <2>4. Old = [lane \in Lane |-> Old[lane]]
    BY DEF Old
  <2> QED
    BY <2>1, <2>3, <2>4 DEF m
<1> QED
  BY <1>4, <1>5

(* A tick keeps the operands at the latest loads.                           *)
LEMMA OperandsStep ==
  ASSUME program \in Programs, cycle \in 1 .. Horizon, RowsExact(cycle),
         OperandsExact(cycle), Tick
  PROVE  OperandsExact(cycle)'
<1>1. program' = program /\ cycle' = cycle + 1
  BY DEF Tick
<1>2. \A t \in Tile : (cycle + 1) - 1 - t = cycle - t
  BY ShapeFacts DEF Tile
<1>3. weights' = WeightsAt(cycle + 1)
  <2>1. weights' = [b \in Buffer |-> [t \in Tile |-> [column \in Tile |->
                      [lane \in Lane |-> LatestBy(IWs(b, column, lane), cycle - t)]]]]
    <3>1. weights' = [b \in Buffer |-> [t \in Tile |-> [column \in Tile |->
                        Weight(b, t, column)]]]
      BY DEF Tick
    <3> QED
      BY <3>1, WeightSeen
  <2> QED
    BY <1>2, <2>1 DEF WeightsAt
<1>4. activations' = ActivationsAt(cycle + 1)
  <2>1. activations' = [b \in Buffer |-> [t \in Tile |-> Activation(b, t)]]
    BY DEF Tick
  <2> QED
    BY <1>2, <2>1, ActivationSeen DEF ActivationsAt
<1> QED
  BY <1>1, <1>3, <1>4, OperandFrames DEF OperandsExact

-----------------------------------------------------------------------------
(* The waves                                                                *)

(* The waves at work in a cycle.                                            *)
Flying(n) == {c \in Issued("Wave") : c <= n /\ n <= WaveDone(c)}
Stepping(n) == {WaveAt(c, n - c) : c \in Flying(n)}

(* The stages of a wave.                                                    *)
LEMMA StageFacts ==
  ASSUME program \in Programs, NEW w \in Issued("Wave")
  PROVE  /\ Stages(At(w)) = (Tiles - 1) + (program.isColumns - 1)
                              + (IF At(w).vector THEN Lanes - 1 ELSE 0) + 1
         /\ Stages(At(w)) \in Nat /\ Stages(At(w)) >= 2
         /\ WaveDone(w) = w + Stages(At(w)) - 1
         /\ WaveDone(w) \in Int /\ WaveDone(w) > w
<1>1. program.isColumns \in Int /\ program.isColumns >= 1
  BY ColumnFacts, ShapeFacts
<1>2. w \in Int
  BY WaveFields, ShapeFacts
<1>3. Stages(At(w)) = (Tiles - 1) + (program.isColumns - 1)
                              + (IF At(w).vector THEN Lanes - 1 ELSE 0) + 1
  BY <1>1, ShapeFacts DEF Stages
<1>4. (IF At(w).vector THEN Lanes - 1 ELSE 0) \in Nat
  BY ShapeFacts
<1>5. Stages(At(w)) \in Nat /\ Stages(At(w)) >= 2
  BY <1>1, <1>3, <1>4, ShapeFacts
<1> QED
  BY <1>2, <1>3, <1>5 DEF WaveDone

(* The fields of a wave of the pipeline.                                    *)
LEMMA WaveRecord ==
  ASSUME NEW c, NEW stage, NEW s
  PROVE  /\ WaveWith(c, stage, s).stage = stage
         /\ WaveWith(c, stage, s).id = c
         /\ WaveWith(c, stage, s).buffer = At(c).buffer
         /\ WaveWith(c, stage, s).vector = At(c).vector
         /\ WaveWith(c, stage, s).stream = At(c).stream
         /\ WaveWith(c, stage, s).clear = At(c).clear
         /\ WaveWith(c, stage, s).partial
              = [column \in IsColumn |-> [lane \in Lane |->
                   Products(c, column, lane, s)]]
         /\ Stages(WaveWith(c, stage, s)) = Stages(At(c))
         /\ \A column : Target(WaveWith(c, stage, s), column)
                           = Target(At(c), column)
<1>1. /\ WaveWith(c, stage, s).stage = stage
      /\ WaveWith(c, stage, s).id = c
      /\ WaveWith(c, stage, s).buffer = At(c).buffer
      /\ WaveWith(c, stage, s).vector = At(c).vector
      /\ WaveWith(c, stage, s).stream = At(c).stream
      /\ WaveWith(c, stage, s).clear = At(c).clear
      /\ WaveWith(c, stage, s).address = At(c).address
      /\ WaveWith(c, stage, s).column = At(c).column
      /\ WaveWith(c, stage, s).partial
           = [column \in IsColumn |-> [lane \in Lane |->
                Products(c, column, lane, s)]]
  BY DEF WaveWith
<1>2. Stages(WaveWith(c, stage, s)) = Stages(At(c))
  BY <1>1 DEF Stages
<1>3. \A column : Target(WaveWith(c, stage, s), column) = Target(At(c), column)
  BY <1>1 DEF Target
<1> QED
  BY <1>1, <1>2, <1>3

(* The fields of a wave that has done its stage.                            *)
LEMMA StagedRecord ==
  ASSUME NEW c, NEW s
  PROVE  /\ WaveAt(c, s).stage = s
         /\ WaveAt(c, s).id = c
         /\ WaveAt(c, s).vector = At(c).vector
         /\ WaveAt(c, s).stream = At(c).stream
         /\ WaveAt(c, s).clear = At(c).clear
         /\ Stages(WaveAt(c, s)) = Stages(At(c))
<1>1. /\ WaveAt(c, s).stage = s
      /\ WaveAt(c, s).id = c
      /\ WaveAt(c, s).vector = At(c).vector
      /\ WaveAt(c, s).stream = At(c).stream
      /\ WaveAt(c, s).clear = At(c).clear
  BY DEF WaveAt, WaveWith
<1>2. Stages(WaveAt(c, s)) = Stages(At(c))
  BY <1>1 DEF Stages
<1> QED
  BY <1>1, <1>2

(* The products of a wave that has done its stage.                          *)
LEMMA StagedPartial ==
  ASSUME NEW c, NEW s, NEW column \in IsColumn, NEW lane \in Lane
  PROVE  /\ WaveAt(c, s).partial[column][lane] = Products(c, column, lane, s)
         /\ Target(WaveAt(c, s), column) = Target(At(c), column)
<1>1. WaveAt(c, s).address = At(c).address /\ WaveAt(c, s).column = At(c).column
  BY DEF WaveAt, WaveWith
<1>2. Target(WaveAt(c, s), column) = Target(At(c), column)
  BY <1>1 DEF Target
<1>3. WaveAt(c, s).partial[column][lane] = Products(c, column, lane, s)
  BY DEF WaveAt, WaveWith
<1> QED
  BY <1>2, <1>3

(* What a wave's tiles work on in a cycle is what the timetable names.      *)
LEMMA WorkSeen ==
  ASSUME program \in Programs, cycle \in 1 .. Horizon, RowsExact(cycle),
         OperandsExact(cycle), NEW c \in Issued("Wave"), c <= cycle,
         NEW column \in IsColumn, NEW lane \in Lane, NEW w,
         w.vector = At(c).vector, w.buffer = At(c).buffer, w.id = c
  PROVE  /\ {<<t, Activation(w.buffer, t), w.id>> :
                t \in Executing(w, cycle - c, column, lane)}
              = {<<t, ActivationUsed(c, column, lane), c>> :
                   t \in Executing(w, cycle - c, column, lane)}
         /\ Executing(w, cycle - c, column, lane)
              = {t \in Tile : t + column + Shift(c, lane) = cycle - c}
<1>1. /\ c \in Int /\ cycle \in Int /\ column \in Int /\ Shift(c, lane) \in Int
      /\ \A t \in Tile : t \in Int
  BY WaveFields, ColumnFacts, ShapeFacts DEF Tile, Lane, Shift
<1>2. Executing(w, cycle - c, column, lane)
        = {t \in Tile : t + column + Shift(c, lane) = cycle - c}
  <2>1. Shift(c, lane) = IF w.vector THEN lane ELSE 0
    BY DEF Shift
  <2>2. \A t \in Tile :
          (cycle - c = t + column + (IF w.vector THEN lane ELSE 0))
            <=> (t + column + Shift(c, lane) = cycle - c)
    BY <1>1, <2>1
  <2> QED
    BY <2>2 DEF Executing
<1>3. ASSUME NEW t \in Executing(w, cycle - c, column, lane)
      PROVE  Activation(w.buffer, t) = ActivationUsed(c, column, lane)
  <2>1. t \in Tile /\ cycle - t = c + column + Shift(c, lane)
    BY <1>1, <1>2
  <2>2. Activation(At(c).buffer, t)
          = LatestBy(LoadsOf("IsLoad", At(c).buffer), cycle - t)
    BY <2>1, ActivationSeen, WaveFields
  <2>3. ActivationUsed(c, column, lane)
          = LatestBy(LoadsOf("IsLoad", At(c).buffer), c + column + Shift(c, lane))
    BY DEF ActivationUsed, LatestBy, Shift
  <2> QED
    BY <2>1, <2>2, <2>3
<1> QED
  BY <1>2, <1>3

(* A stage adds the products of the tiles that work in it.                  *)
LEMMA MoreProducts ==
  ASSUME program \in Programs, NEW c \in Issued("Wave"), NEW s \in Int,
         NEW column \in IsColumn, NEW lane \in Lane
  PROVE  Products(c, column, lane, s)
           = Products(c, column, lane, s - 1)
               \cup {<<t, ActivationUsed(c, column, lane), c>> :
                       t \in {u \in Tile : u + column + Shift(c, lane) = s}}
<1>1. /\ column \in Int /\ Shift(c, lane) \in Int /\ \A t \in Tile : t \in Int
  BY ColumnFacts, ShapeFacts DEF Tile, Lane, Shift
<1>2. \A t \in Tile : t + column + Shift(c, lane) <= s
                        <=> \/ t + column + Shift(c, lane) <= s - 1
                            \/ t + column + Shift(c, lane) = s
  BY <1>1
<1>3. WorkedTiles(c, column, lane, s)
        = WorkedTiles(c, column, lane, s - 1)
            \cup {u \in Tile : u + column + Shift(c, lane) = s}
  BY <1>2 DEF WorkedTiles
<1> QED
  BY <1>3 DEF Products

(* A wave that was launched has no products yet.                            *)
LEMMA NoProducts ==
  ASSUME program \in Programs, NEW c, NEW column \in IsColumn, NEW lane \in Lane
  PROVE  Products(c, column, lane, -1) = {}
<1>1. /\ column \in Nat /\ Shift(c, lane) \in Nat /\ \A t \in Tile : t \in Nat
  BY ColumnFacts, ShapeFacts DEF Tile, Lane, Shift
<1>2. \A t \in Tile : ~ (t + column + Shift(c, lane) <= -1)
  BY <1>1
<1> QED
  BY <1>2 DEF Products, WorkedTiles

(* execute_decode takes a wave through its next stage.                      *)
LEMMA ExecutedIs ==
  ASSUME program \in Programs, cycle \in 1 .. Horizon, RowsExact(cycle),
         OperandsExact(cycle), NEW c \in Issued("Wave"), c <= cycle,
         NEW stage, NEW w, w = WaveWith(c, stage, cycle - 1 - c)
  PROVE  Executed(w, cycle - c) = WaveAt(c, cycle - c)
<1>1. /\ w.vector = At(c).vector /\ w.buffer = At(c).buffer /\ w.id = c
      /\ w.partial = [column \in IsColumn |-> [lane \in Lane |->
                         Products(c, column, lane, cycle - 1 - c)]]
  BY WaveRecord
<1> DEFINE Added(column, lane) ==
               {<<t, Activation(w.buffer, t), w.id>> :
                  t \in Executing(w, cycle - c, column, lane)}
           Partial == [column \in IsColumn |-> [lane \in Lane |->
                         w.partial[column][lane] \cup Added(column, lane)]]
<1>2. ASSUME NEW column \in IsColumn, NEW lane \in Lane
      PROVE  w.partial[column][lane] \cup Added(column, lane)
               = Products(c, column, lane, cycle - c)
  <2>1. w.partial[column][lane] = Products(c, column, lane, (cycle - c) - 1)
    <3>1. cycle - 1 - c = (cycle - c) - 1
      BY WaveFields, ShapeFacts
    <3> QED
      BY <1>1, <3>1
  <2>2. cycle - c \in Int
    BY WaveFields, ShapeFacts
  <2>3. Added(column, lane)
          = {<<t, ActivationUsed(c, column, lane), c>> :
               t \in {u \in Tile : u + column + Shift(c, lane) = cycle - c}}
    BY <1>1, WorkSeen
  <2> HIDE DEF Added
  <2> QED
    BY <2>1, <2>2, <2>3, MoreProducts
<1>3. Executed(w, cycle - c) = [w EXCEPT !.stage = cycle - c, !.partial = Partial]
  BY DEF Executed
<1>4. Partial = [column \in IsColumn |-> [lane \in Lane |->
                   Products(c, column, lane, cycle - c)]]
  BY <1>2
<1>5. PICK i, old, p, new : i = At(c) /\ p = Partial /\ new = cycle - c
              /\ old = [column \in IsColumn |-> [lane \in Lane |->
                          Products(c, column, lane, cycle - 1 - c)]]
  OBVIOUS
<1> HIDE DEF Partial
<1>6. PICK x :
        x = [stage |-> stage, id |-> c, buffer |-> i.buffer,
             address |-> i.address, column |-> i.column,
             stream |-> i.stream, clear |-> i.clear,
             vector |-> i.vector, partial |-> old]
  OBVIOUS
<1>7. w = x
  BY <1>5, <1>6 DEF WaveWith
<1>10. PICK v : v = [x EXCEPT !.stage = new, !.partial = p]
  OBVIOUS
<1>8. v = [stage |-> new, id |-> c, buffer |-> i.buffer,
           address |-> i.address, column |-> i.column,
           stream |-> i.stream, clear |-> i.clear,
           vector |-> i.vector, partial |-> p]
  BY <1>6, <1>10
<1>9. Executed(w, cycle - c) = v
  BY <1>3, <1>5, <1>7, <1>10
<1> QED
  BY <1>4, <1>5, <1>8, <1>9 DEF WaveAt, WaveWith

(* The wave launched in a cycle.                                            *)
LaunchedIn(n) == {n} \cap Issued("Wave")

(* The wave a tick launches.                                                *)
LEMMA LaunchingIs ==
  ASSUME program \in Programs, cycle \in 1 .. Horizon
  PROVE  Launching = {WaveWith(c, 0, -1) : c \in LaunchedIn(cycle)}
<1>1. Compute(0) = At(cycle)
  BY DEF Compute, At
<1>2. Compute(0).op = "Wave" <=> cycle \in Issued("Wave")
  BY <1>1 DEF Issued, At
<1>3. [column \in IsColumn |-> Zero]
        = [column \in IsColumn |-> [lane \in Lane |->
             Products(cycle, column, lane, -1)]]
  BY NoProducts DEF Zero
<1>4. [stage |-> 0, id |-> cycle, buffer |-> At(cycle).buffer,
       address |-> At(cycle).address, column |-> At(cycle).column,
       stream |-> At(cycle).stream, clear |-> At(cycle).clear,
       vector |-> At(cycle).vector, partial |-> [column \in IsColumn |-> Zero]]
        = WaveWith(cycle, 0, -1)
  BY <1>3 DEF WaveWith
<1>5. Launching = {[stage |-> 0, id |-> cycle, buffer |-> i.buffer,
                    address |-> i.address, column |-> i.column,
                    stream |-> i.stream, clear |-> i.clear,
                    vector |-> i.vector,
                    partial |-> [column \in IsColumn |-> Zero]] :
                      i \in {x \in {Compute(0)} : x.op = "Wave"}}
  BY DEF Launching
<1>6. CASE cycle \in Issued("Wave")
  <2>1. {x \in {Compute(0)} : x.op = "Wave"} = {At(cycle)}
    BY <1>1, <1>2, <1>6
  <2>2. LaunchedIn(cycle) = {cycle}
    BY <1>6 DEF LaunchedIn
  <2>3. Launching = {WaveWith(cycle, 0, -1)}
    BY <1>4, <1>5, <2>1
  <2> QED
    BY <2>2, <2>3
<1>7. CASE cycle \notin Issued("Wave")
  <2>1. {x \in {Compute(0)} : x.op = "Wave"} = {}
    BY <1>2, <1>7
  <2>2. LaunchedIn(cycle) = {}
    BY <1>7 DEF LaunchedIn
  <2> QED
    BY <1>5, <2>1, <2>2
<1> QED
  BY <1>6, <1>7

(* The waves at work are the one launched and those under way.              *)
LEMMA FlyingIs ==
  ASSUME program \in Programs, NEW n \in Int
  PROVE  /\ Flying(n) = LaunchedIn(n) \cup InFlight(n)
         /\ InFlight(n + 1) = {c \in Flying(n) : WaveDone(c) # n}
<1>1. \A c \in Issued("Wave") : c \in Int /\ WaveDone(c) \in Int /\ WaveDone(c) > c
  BY WaveFields, StageFacts, ShapeFacts
<1>2. \A c \in Issued("Wave") :
        c \in Flying(n) <=> (c = n \/ c \in InFlight(n))
  BY <1>1 DEF Flying, InFlight
<1>3. \A c \in Issued("Wave") :
        c \in InFlight(n + 1) <=> (c \in Flying(n) /\ WaveDone(c) # n)
  BY <1>1 DEF Flying, InFlight
<1>4. Flying(n) \subseteq Issued("Wave") /\ InFlight(n) \subseteq Issued("Wave")
      /\ InFlight(n + 1) \subseteq Issued("Wave")
  BY DEF Flying, InFlight
<1> QED
  BY <1>2, <1>3, <1>4 DEF LaunchedIn

(* What a tick makes of the waves at work.                                  *)
LEMMA SteppedIs ==
  ASSUME program \in Programs, cycle \in 1 .. Horizon, RowsExact(cycle),
         OperandsExact(cycle), WavesExact(cycle)
  PROVE  Stepped = Stepping(cycle)
<1>1. {Executed(w, 0) : w \in Launching}
        = {WaveAt(c, cycle - c) : c \in LaunchedIn(cycle)}
  <2>1. ASSUME NEW c \in LaunchedIn(cycle)
        PROVE  Executed(WaveWith(c, 0, -1), 0) = WaveAt(c, cycle - c)
    <3>1. c = cycle /\ c \in Issued("Wave")
      BY DEF LaunchedIn
    <3>2. cycle - 1 - c = -1 /\ cycle - c = 0 /\ c <= cycle
      BY <3>1, ShapeFacts
    <3>3. Executed(WaveWith(c, 0, cycle - 1 - c), cycle - c) = WaveAt(c, cycle - c)
      BY <3>1, <3>2, ExecutedIs
    <3> QED
      BY <3>2, <3>3
  <2> QED
    BY <2>1, LaunchingIs
<1>2. {Executed(w, w.stage + 1) : w \in waves}
        = {WaveAt(c, cycle - c) : c \in InFlight(cycle)}
  <2>1. ASSUME NEW c \in InFlight(cycle)
        PROVE  Executed(WaveAt(c, cycle - 1 - c), WaveAt(c, cycle - 1 - c).stage + 1)
                 = WaveAt(c, cycle - c)
    <3>1. c \in Issued("Wave") /\ c < cycle
      BY DEF InFlight
    <3>2. c \in Int /\ c <= cycle /\ (cycle - 1 - c) + 1 = cycle - c
      BY <3>1, WaveFields, ShapeFacts
    <3>3. WaveAt(c, cycle - 1 - c).stage + 1 = cycle - c
      BY <3>2, StagedRecord
    <3> QED
      BY <3>1, <3>2, <3>3, ExecutedIs DEF WaveAt
  <2>2. waves = {WaveAt(c, cycle - 1 - c) : c \in InFlight(cycle)}
    BY DEF WavesExact, WavesOn
  <2> QED
    BY <2>1, <2>2
<1>3. Flying(cycle) = LaunchedIn(cycle) \cup InFlight(cycle)
  BY FlyingIs
<1> QED
  BY <1>1, <1>2, <1>3 DEF Stepped, Stepping

(* The waves a tick completes are those whose last cycle it is.             *)
LEMMA CompletedIs ==
  ASSUME program \in Programs, cycle \in 1 .. Horizon, RowsExact(cycle),
         OperandsExact(cycle), WavesExact(cycle)
  PROVE  Completed = {WaveAt(c, cycle - c) :
                        c \in {x \in Issued("Wave") : WaveDone(x) = cycle}}
<1>1. ASSUME NEW c \in Flying(cycle)
      PROVE  WaveAt(c, cycle - c).stage + 1 = Stages(WaveAt(c, cycle - c))
               <=> WaveDone(c) = cycle
  <2>1. c \in Issued("Wave") /\ c \in Int
    BY WaveFields, ShapeFacts DEF Flying
  <2>2. /\ WaveAt(c, cycle - c).stage = cycle - c
        /\ Stages(WaveAt(c, cycle - c)) = Stages(At(c))
    BY StagedRecord
  <2>3. Stages(At(c)) \in Nat /\ WaveDone(c) = c + Stages(At(c)) - 1
    BY <2>1, StageFacts
  <2> QED
    BY <2>1, <2>2, <2>3
<1>2. {c \in Flying(cycle) : WaveDone(c) = cycle}
        = {x \in Issued("Wave") : WaveDone(x) = cycle}
  <2>1. \A c \in Issued("Wave") : WaveDone(c) = cycle => c <= cycle /\ cycle <= WaveDone(c)
    BY WaveFields, StageFacts, ShapeFacts
  <2> QED
    BY <2>1 DEF Flying
<1>3. Completed = {w \in Stepping(cycle) : w.stage + 1 = Stages(w)}
  BY SteppedIs DEF Completed
<1>4. Completed = {WaveAt(c, cycle - c) : c \in {x \in Flying(cycle) : WaveDone(x) = cycle}}
  BY <1>1, <1>3 DEF Stepping
<1> QED
  BY <1>2, <1>4

(* A tick keeps the waves under way.                                        *)
LEMMA WavesStep ==
  ASSUME program \in Programs, cycle \in 1 .. Horizon, RowsExact(cycle),
         OperandsExact(cycle), WavesExact(cycle), Tick
  PROVE  WavesExact(cycle)'
<1>1. program' = program /\ cycle' = cycle + 1 /\ waves' = Stepped \ Completed
  BY DEF Tick
<1>2. Stepped \ Completed
        = {WaveAt(c, cycle - c) : c \in {x \in Flying(cycle) : WaveDone(x) # cycle}}
  <2>1. \A c, d : WaveAt(c, cycle - c) = WaveAt(d, cycle - d) => c = d
    <3>1. \A c : WaveAt(c, cycle - c).id = c
      BY StagedRecord
    <3> QED
      BY <3>1
  <2>2. Completed = {WaveAt(c, cycle - c) :
                        c \in {x \in Issued("Wave") : WaveDone(x) = cycle}}
    BY CompletedIs
  <2>3. Stepped = {WaveAt(c, cycle - c) : c \in Flying(cycle)}
    BY SteppedIs DEF Stepping
  <2>4. Flying(cycle) \subseteq Issued("Wave")
    BY DEF Flying
  <2> QED
    BY <2>1, <2>2, <2>3, <2>4
<1>3. InFlight(cycle + 1) = {x \in Flying(cycle) : WaveDone(x) # cycle}
  BY FlyingIs
<1>4. Stepped \ Completed = WavesOn(cycle + 1)
  <2>1. \A c \in InFlight(cycle + 1) : (cycle + 1) - 1 - c = cycle - c
    BY WaveFields, ShapeFacts DEF InFlight
  <2> QED
    BY <1>2, <1>3, <2>1 DEF WavesOn
<1> QED
  BY <1>1, <1>4, WaveFrames DEF WavesExact

(* The wave is whole when its last stage has run.                           *)
LEMMA WholeWave ==
  ASSUME program \in Programs, NEW c \in Issued("Wave"),
         NEW column \in IsColumn, NEW lane \in Lane
  PROVE  Products(c, column, lane, WaveDone(c) - c)
           = {<<t, ActivationUsed(c, column, lane), c>> : t \in Tile}
<1>1. WaveDone(c) - c = Stages(At(c)) - 1 /\ Stages(At(c)) \in Nat /\ c \in Int
  BY StageFacts, WaveFields, ShapeFacts
<1>2. ASSUME NEW t \in Tile
      PROVE  t + column + Shift(c, lane) <= WaveDone(c) - c
  <2>1. t \in Int /\ t <= Tiles - 1
    BY ShapeFacts DEF Tile
  <2>2. column \in Int /\ column <= program.isColumns - 1 /\ program.isColumns \in Int
    BY ColumnFacts, ShapeFacts DEF Tile
  <2>3. /\ Shift(c, lane) \in Int
        /\ Shift(c, lane) <= (IF At(c).vector THEN Lanes - 1 ELSE 0)
    BY ShapeFacts DEF Shift, Lane
  <2>4. Stages(At(c)) = (Tiles - 1) + (program.isColumns - 1)
                              + (IF At(c).vector THEN Lanes - 1 ELSE 0) + 1
    BY StageFacts
  <2> QED
    BY <1>1, <2>1, <2>2, <2>3, <2>4, ShapeFacts
<1>3. WorkedTiles(c, column, lane, WaveDone(c) - c) = Tile
  BY <1>2 DEF WorkedTiles
<1> QED
  BY <1>3 DEF Products

-----------------------------------------------------------------------------
(* The checks of an issue                                                   *)

(* What holds of an earlier cycle in which no check failed.                 *)
LEMMA NotBroken ==
  ASSUME NEW n \in Int, Unbroken(n), NEW m \in 1 .. n - 1
  PROVE  /\ Acceptable(At(m))
         /\ ~ (program.load[m].op = "IW"
                 /\ program.load[m].int8 # (program.dequant[m] # None))
         /\ ~ (At(m).op = "Wave" /\ program.dequant[m] = None)
         /\ ~ (program.dequant[m] # None /\ At(m).op # "Wave"
                 /\ program.load[m].op # "IW")
         /\ ~ (program.load[m] # None /\ ~ program.load[m].fed)
         /\ ~ (At(m).op \in {"Compute", "Wave"} /\ ~ At(m).fed)
         /\ ~ (At(m).op = "Wave" /\ ActivationUsed(m, 0, 0) = 0)
         /\ ~ (At(m).op = "Compute" /\ TooSoon(m))
<1> DEFINE B == Broken(m)
<1>1. \A check \in DOMAIN B : ~ B[check]
  BY DEF Unbroken
<1>2. /\ "refused" \in DOMAIN B /\ "unpaired" \in DOMAIN B
      /\ "starved" \in DOMAIN B /\ "unloaded" \in DOMAIN B
      /\ "undrained" \in DOMAIN B
  BY DEF Broken
<1>3. ~ B.refused /\ ~ B.unpaired /\ ~ B.starved /\ ~ B.unloaded /\ ~ B.undrained
  BY <1>1, <1>2
<1>4. /\ B.refused <=> ~ Acceptable(At(m))
      /\ B.unpaired <=>
           \/ program.load[m].op = "IW"
                /\ program.load[m].int8 # (program.dequant[m] # None)
           \/ At(m).op = "Wave" /\ ~ (program.dequant[m] # None)
           \/ program.dequant[m] # None /\ At(m).op # "Wave"
                /\ program.load[m].op # "IW"
      /\ B.starved <=>
           \/ program.load[m] # None /\ ~ program.load[m].fed
           \/ At(m).op \in {"Compute", "Wave"} /\ ~ At(m).fed
      /\ B.unloaded <=> At(m).op = "Wave" /\ ActivationUsed(m, 0, 0) = 0
      /\ B.undrained <=> At(m).op = "Compute" /\ TooSoon(m)
  BY DEF Broken
<1> HIDE DEF B
<1> QED
  BY <1>3, <1>4

(* A Dequant without its consumer, at any row, was one when they were       *)
(* issued.                                                                  *)
LEMMA UnpairedSame ==
  ASSUME program \in Programs, cycle \in 1 .. Horizon, RowsExact(cycle),
         Unbroken(cycle)
  PROVE  Checks.unpaired <=> Broken(cycle).unpaired
<1>1. ASSUME NEW t \in Tile, t # 0
      PROVE  Paired(t)
  <2>1. CASE cycle - t \in 1 .. Horizon
    <3>1. cycle - t \in 1 .. cycle - 1 /\ cycle \in Int
      BY <1>1, <2>1, ShapeFacts DEF Tile
    <3>2. /\ Load(t) = program.load[cycle - t]
          /\ Dequant(t) = program.dequant[cycle - t]
          /\ Compute(t) = At(cycle - t)
      BY <2>1, RowsSeen DEF Past, At
    <3>3. program.load[cycle - t].op = "IW" => program.load[cycle - t].int8 \in BOOLEAN
      <4>1. program.load[cycle - t] \in LoadInstruction
        BY <2>1, ScheduleAssumption
      <4> QED
        BY <4>1 DEF LoadInstruction, None
    <3>4. /\ ~ (program.load[cycle - t].op = "IW"
                 /\ program.load[cycle - t].int8 # (program.dequant[cycle - t] # None))
          /\ ~ (At(cycle - t).op = "Wave" /\ program.dequant[cycle - t] = None)
          /\ ~ (program.dequant[cycle - t] # None /\ At(cycle - t).op # "Wave"
                 /\ program.load[cycle - t].op # "IW")
      BY <3>1, NotBroken
    <3> QED
      BY <3>2, <3>3, <3>4 DEF Paired
  <2>2. CASE cycle - t \notin 1 .. Horizon
    BY <2>2, RowsSeen DEF Past, Paired, None
  <2> QED
    BY <2>1, <2>2
<1>2. (\E t \in Tile : ~ Paired(t)) <=> ~ Paired(0)
  <2>1. 0 \in Tile
    BY ShapeFacts DEF Tile
  <2> QED
    BY <1>1, <2>1
<1>3. ~ Paired(0) <=>
        \/ program.load[cycle].op = "IW"
             /\ program.load[cycle].int8 # (program.dequant[cycle] # None)
        \/ At(cycle).op = "Wave" /\ ~ (program.dequant[cycle] # None)
        \/ program.dequant[cycle] # None /\ At(cycle).op # "Wave"
             /\ program.load[cycle].op # "IW"
  <2>1. program.load[cycle].op = "IW" => program.load[cycle].int8 \in BOOLEAN
    <3>1. program.load[cycle] \in LoadInstruction
      BY ScheduleAssumption
    <3> QED
      BY <3>1 DEF LoadInstruction, None
  <2> QED
    BY <2>1 DEF Paired, Load, Dequant, Compute, At
<1>4. Checks.unpaired <=> \E t \in Tile : ~ Paired(t)
  BY DEF Checks
<1>5. Broken(cycle).unpaired <=>
        \/ program.load[cycle].op = "IW"
             /\ program.load[cycle].int8 # (program.dequant[cycle] # None)
        \/ At(cycle).op = "Wave" /\ ~ (program.dequant[cycle] # None)
        \/ program.dequant[cycle] # None /\ At(cycle).op # "Wave"
             /\ program.load[cycle].op # "IW"
  BY DEF Broken
<1> QED
  BY <1>2, <1>3, <1>4, <1>5

(* A missing operand is missed at row 0.                                    *)
LEMMA StarvedSame ==
  ASSUME program \in Programs, cycle \in 1 .. Horizon, RowsExact(cycle),
         Unbroken(cycle)
  PROVE  Checks.starved <=> Broken(cycle).starved
<1> DEFINE Missing(t) == \/ WeightsMissing(t)
                         \/ LoadMissing(t)
                         \/ ActivationMissing(t)
                         \/ WaveWeightsMissing(t)
<1>0. \A c \in 1 .. Horizon :
        program.load[c] # None <=> program.load[c].op \in {"IW", "IsLoad"}
  <2>1. \A c \in 1 .. Horizon : program.load[c] \in LoadInstruction
    BY ScheduleAssumption
  <2> QED
    BY <2>1 DEF LoadInstruction, None
<1>1. ASSUME NEW t \in Tile, t # 0
      PROVE  ~ Missing(t)
  <2>1. CASE cycle - t \in 1 .. Horizon
    <3>1. cycle - t \in 1 .. cycle - 1 /\ cycle \in Int
      BY <1>1, <2>1, ShapeFacts DEF Tile
    <3>2. /\ Load(t) = program.load[cycle - t]
          /\ Compute(t) = At(cycle - t)
      BY <2>1, RowsSeen DEF Past, At
    <3>3. /\ ~ (program.load[cycle - t] # None /\ ~ program.load[cycle - t].fed)
          /\ ~ (At(cycle - t).op \in {"Compute", "Wave"} /\ ~ At(cycle - t).fed)
      BY <3>1, NotBroken
    <3> QED
      BY <3>2, <3>3, <1>0, <2>1
         DEF WeightsMissing, LoadMissing, ActivationMissing, WaveWeightsMissing
  <2>2. CASE cycle - t \notin 1 .. Horizon
    BY <2>2, RowsSeen
       DEF Past, None, WeightsMissing, LoadMissing, ActivationMissing,
           WaveWeightsMissing
  <2> QED
    BY <2>1, <2>2
<1>2. Missing(0) <=> \/ program.load[cycle] # None /\ ~ program.load[cycle].fed
                     \/ At(cycle).op \in {"Compute", "Wave"} /\ ~ At(cycle).fed
  BY <1>0 DEF WeightsMissing, LoadMissing, ActivationMissing,
              WaveWeightsMissing, Load, Compute, At
<1>3. 0 \in Tile
  BY ShapeFacts DEF Tile
<1>4. Checks.starved <=> \E t \in Tile : Missing(t)
  BY DEF Checks
<1> HIDE DEF Missing
<1>5. Checks.starved <=> Missing(0)
  BY <1>1, <1>3, <1>4
<1> QED
  BY <1>2, <1>5 DEF Broken

(* Waves of two layouts, or too close, are seen at the launch.              *)
LEMMA LayoutSame ==
  ASSUME program \in Programs, cycle \in 1 .. Horizon, WavesExact(cycle)
  PROVE  /\ Checks.layout <=> Broken(cycle).layout
         /\ Checks.interval <=> Broken(cycle).interval
<1>1. waves = {WaveAt(c, cycle - 1 - c) : c \in InFlight(cycle)}
  BY DEF WavesExact, WavesOn
<1>2. Launching = {WaveWith(c, 0, -1) : c \in LaunchedIn(cycle)}
  BY LaunchingIs
<1>3. \A c : WaveWith(c, 0, -1).vector = At(c).vector
  BY DEF WaveWith
<1>4. \A c \in InFlight(cycle) :
        /\ WaveAt(c, cycle - 1 - c).vector = At(c).vector
        /\ WaveAt(c, cycle - 1 - c).stage <= Lanes - 2 <=> cycle - c < Lanes
  <2>1. \A c \in InFlight(cycle) : c \in Int
    BY WaveFields, ShapeFacts DEF InFlight
  <2> QED
    BY <2>1, StagedRecord, ShapeFacts
<1>5. cycle \in LaunchedIn(cycle) <=> At(cycle).op = "Wave"
  BY DEF LaunchedIn, Issued, At
<1>6. \A c \in LaunchedIn(cycle) : c = cycle
  BY DEF LaunchedIn
<1>7. (\E w \in Launching, v \in waves : w.vector # v.vector)
        <=> At(cycle).op = "Wave"
              /\ \E c \in InFlight(cycle) : At(c).vector # At(cycle).vector
  BY <1>1, <1>2, <1>3, <1>4, <1>5, <1>6
<1>8. (\E w \in Launching, v \in waves : w.vector /\ v.stage <= Lanes - 2)
        <=> At(cycle).op = "Wave" /\ At(cycle).vector
              /\ \E c \in InFlight(cycle) : cycle - c < Lanes
  BY <1>1, <1>2, <1>3, <1>4, <1>5, <1>6
<1> QED
  BY <1>7, <1>8 DEF Checks, Broken

(* A tile without activations is seen at the launch of the wave.            *)
LEMMA UnloadedSame ==
  ASSUME program \in Programs, cycle \in 1 .. Horizon, RowsExact(cycle),
         OperandsExact(cycle), WavesExact(cycle), Unbroken(cycle)
  PROVE  Checks.unloaded <=> Broken(cycle).unloaded
<1> DEFINE Empty(c) == \E column \in IsColumn, lane \in Lane :
                         \E product \in Products(c, column, lane, cycle - c) :
                           product[2] = 0
<1>1. Checks.unloaded <=> \E c \in Flying(cycle) : Empty(c)
  <2>1. Stepped = {WaveAt(c, cycle - c) : c \in Flying(cycle)}
    BY SteppedIs DEF Stepping
  <2>2. Checks.unloaded <=>
          \E w \in Stepped : \E column \in IsColumn, lane \in Lane :
            \E product \in w.partial[column][lane] : product[2] = 0
    BY DEF Checks
  <2> QED
    BY <2>1, <2>2, StagedPartial
<1>2. ASSUME NEW c \in Flying(cycle), ActivationUsed(c, 0, 0) # 0
      PROVE  ~ Empty(c)
  <2>1. SUFFICES ASSUME NEW column \in IsColumn, NEW lane \in Lane
                 PROVE  ActivationUsed(c, column, lane) # 0
    BY DEF Products
  <2> DEFINE S == LoadsOf("IsLoad", At(c).buffer)
             by == column + (IF At(c).vector THEN lane ELSE 0)
  <2>2. /\ c \in Int /\ by \in Nat /\ 0 + (IF At(c).vector THEN 0 ELSE 0) = 0
        /\ c + column + (IF At(c).vector THEN lane ELSE 0) = c + by
    BY ColumnFacts, WaveFields, ShapeFacts DEF Flying, Tile, Lane
  <2>3. /\ ActivationUsed(c, 0, 0) = Latest({d \in S : d <= c})
        /\ ActivationUsed(c, column, lane) = Latest({d \in S : d <= c + by})
    <3>1. \A d : d <= c + 0 + (IF At(c).vector THEN 0 ELSE 0) <=> d <= c
      <4>1. c + 0 + (IF At(c).vector THEN 0 ELSE 0) = c
        BY <2>2
      <4> QED
        BY <4>1
    <3>2. \A d : d <= c + column + (IF At(c).vector THEN lane ELSE 0)
                    <=> d <= c + by
      BY <2>2
    <3> HIDE DEF by
    <3>3. {d \in S : d <= c + 0 + (IF At(c).vector THEN 0 ELSE 0)} = {d \in S : d <= c}
      BY <3>1
    <3>4. {d \in S : d <= c + column + (IF At(c).vector THEN lane ELSE 0)}
            = {d \in S : d <= c + by}
      BY <3>2
    <3> QED
      BY <3>3, <3>4 DEF ActivationUsed
  <2>4. {d \in S : d <= c} # {}
    BY <1>2, <2>3 DEF Latest
  <2>5. S \in SUBSET (1 .. Horizon)
    BY LoadCycles
  <2> HIDE DEF S, by
  <2>6. {d \in S : d <= c + by} # {}
    <3>1. PICK d \in S : d <= c
      BY <2>4
    <3>2. d \in Int
      BY <2>5, ShapeFacts
    <3> QED
      BY <2>2, <3>1, <3>2
  <2>7. Latest({d \in S : d <= c + by}) \in 1 .. Horizon
    BY <2>5, <2>6, LatestIn
  <2> QED
    BY <2>3, <2>7
<1>3. ASSUME NEW c \in InFlight(cycle)
      PROVE  ActivationUsed(c, 0, 0) # 0
  <2>1. c \in Issued("Wave") /\ c \in 1 .. cycle - 1 /\ At(c).op = "Wave" /\ cycle \in Int
    BY WaveFields, ShapeFacts DEF InFlight
  <2> QED
    BY <2>1, NotBroken
<1>4. ASSUME cycle \in Issued("Wave"), ActivationUsed(cycle, 0, 0) = 0
      PROVE  Empty(cycle)
  <2>1. 0 \in IsColumn /\ 0 \in Lane /\ 0 \in Tile
    BY ColumnFacts, ShapeFacts DEF Lane, Tile
  <2>2. 0 + 0 + Shift(cycle, 0) <= cycle - cycle
    BY DEF Shift
  <2>3. 0 \in WorkedTiles(cycle, 0, 0, cycle - cycle)
    BY <2>1, <2>2 DEF WorkedTiles
  <2>4. <<0, 0, cycle>> \in Products(cycle, 0, 0, cycle - cycle)
    BY <1>4, <2>3 DEF Products
  <2>5. <<0, 0, cycle>>[2] = 0
    OBVIOUS
  <2> QED
    BY <2>1, <2>4, <2>5
<1>5. Flying(cycle) = LaunchedIn(cycle) \cup InFlight(cycle)
  BY FlyingIs
<1>6. cycle \in Issued("Wave") <=> At(cycle).op = "Wave"
  BY DEF Issued, At
<1> HIDE DEF Empty
<1>7. (\E c \in Flying(cycle) : Empty(c))
        <=> At(cycle).op = "Wave" /\ ActivationUsed(cycle, 0, 0) = 0
  BY <1>2, <1>3, <1>4, <1>5, <1>6 DEF LaunchedIn
<1> QED
  BY <1>1, <1>7 DEF Broken

-----------------------------------------------------------------------------
(* The bursts                                                               *)

(* Computes are issued in cycles of the schedule, each on a buffer.         *)
LEMMA ComputeCycles ==
  /\ \A b : \A c \in ComputesOn(b) :
        c \in Int /\ c \in 1 .. Horizon /\ c \in Issued("Compute") /\ At(c).buffer = b
  /\ \A c \in Issued("Compute") : c \in ComputesOn(At(c).buffer)
  BY ShapeFacts DEF ComputesOn, Issued

(* Busy without a gap, in two parts.                                        *)
LEMMA Chains ==
  ASSUME NEW b, NEW c \in Int, NEW d \in Int, NEW e \in Int, c <= d, d <= e
  PROVE  Chain(b, c, e) <=> Chain(b, c, d) /\ Chain(b, d, e)
<1>1. \A m : m \in c .. e - 1 <=> m \in c .. d - 1 \/ m \in d .. e - 1
  OBVIOUS
<1> QED
  BY <1>1 DEF Chain

(* A busy cycle has a compute that keeps the buffer busy ever since.        *)
LEMMA BusySince ==
  ASSUME NEW b, NEW n \in Int, Busy(b, n)
  PROVE  \E d \in ComputesOn(b) : d <= n /\ Chain(b, d, n + 1)
<1>1. PICK d \in ComputesOn(b) : n - d \in Tile
  BY DEF Busy
<1>2. d \in Int /\ d <= n /\ n - d <= Tiles - 1
  BY <1>1, ComputeCycles, ShapeFacts DEF Tile
<1>3. ASSUME NEW m \in d .. (n + 1) - 1
      PROVE  Busy(b, m)
  <2>1. m - d \in Tile
    BY <1>2, ShapeFacts DEF Tile
  <2> QED
    BY <2>1 DEF Busy
<1> QED
  BY <1>2, <1>3 DEF Chain

(* A burst that is alive has been busy without a gap.                       *)
LEMMA AliveGoesOn ==
  ASSUME NEW b, NEW n \in Int, NEW c \in ComputesOn(b), c < n, Alive(b, c, n),
         Busy(b, n - 1)
  PROVE  Chain(b, c, n)
<1>1. PICK d \in ComputesOn(b) : d <= n - 1 /\ Chain(b, d, (n - 1) + 1)
  BY BusySince
<1>2. d \in Int /\ c \in Int /\ (n - 1) + 1 = n /\ d < n
  BY <1>1, ComputeCycles
<1>3. CASE c <= d
  <2>1. Chain(b, c, d)
    BY <1>2, <1>3 DEF Alive
  <2> QED
    BY <1>1, <1>2, <1>3, <2>1, Chains
<1>4. CASE d <= c
  BY <1>1, <1>2, <1>4, Chains
<1> QED
  BY <1>2, <1>3, <1>4

(* A compute that begins is alive.                                          *)
LEMMA AliveNow ==
  ASSUME NEW b, NEW n \in Int, NEW c \in ComputesOn(b)
  PROVE  c = n => Alive(b, c, n + 1)
<1>1. \A d \in ComputesOn(b) : d \in Int
  BY ComputeCycles
<1>2. ASSUME c = n, NEW d \in ComputesOn(b), c <= d, d < n + 1
      PROVE  Chain(b, c, d)
  <2>1. d = c /\ c .. d - 1 = {}
    BY <1>1, <1>2
  <2> QED
    BY <2>1 DEF Chain
<1> QED
  BY <1>2 DEF Alive

(* A burst goes on, unless a compute starts the buffer anew.                *)
LEMMA AliveStep ==
  ASSUME NEW b, NEW n \in Int, NEW c \in ComputesOn(b), c < n
  PROVE  Alive(b, c, n + 1)
           <=> Alive(b, c, n) /\ (n \in ComputesOn(b) => Busy(b, n - 1))
<1>1. \A d \in ComputesOn(b) : d \in Int /\ (d < n + 1 <=> d < n \/ d = n)
  BY ComputeCycles
<1>2. c \in Int
  BY <1>1
<1>3. ASSUME Alive(b, c, n + 1)
      PROVE  Alive(b, c, n)
  BY <1>1, <1>3 DEF Alive
<1>4. ASSUME Alive(b, c, n + 1), n \in ComputesOn(b)
      PROVE  Busy(b, n - 1)
  <2>1. Chain(b, c, n)
    BY <1>1, <1>2, <1>4 DEF Alive
  <2>2. n - 1 \in c .. n - 1
    BY <1>2
  <2> QED
    BY <2>1, <2>2 DEF Chain
<1>5. ASSUME Alive(b, c, n), n \in ComputesOn(b) => Busy(b, n - 1)
      PROVE  Alive(b, c, n + 1)
  <2>1. n \in ComputesOn(b) => Chain(b, c, n)
    BY <1>5, AliveGoesOn
  <2> QED
    BY <1>1, <1>5, <2>1 DEF Alive
<1> QED
  BY <1>3, <1>4, <1>5

(* A compute on a buffer that no tile computed on in the last cycle.        *)
Restarting(b, n) == n \in ComputesOn(b) /\ ~ Busy(b, n - 1)

(* A restart leaves only the compute that restarts.                         *)
LEMMA ReachedRestart ==
  ASSUME NEW b, NEW n \in Int, Restarting(b, n), NEW t \in Tile
  PROVE  Reached(b, t, n + 1) = IF t = 0 THEN {n} ELSE {}
<1>1. t \in Nat
  BY ShapeFacts DEF Tile
<1>2. ASSUME NEW c \in ComputesOn(b)
      PROVE  (c + t < n + 1 /\ Alive(b, c, n + 1)) <=> (c = n /\ t = 0)
  <2>1. c \in Int
    BY ComputeCycles
  <2>2. CASE c < n
    <3>1. c # n
      BY <2>1, <2>2
    <3>2. Alive(b, c, n + 1)
            <=> Alive(b, c, n) /\ (n \in ComputesOn(b) => Busy(b, n - 1))
      BY <2>2, AliveStep
    <3> QED
      BY <3>1, <3>2 DEF Restarting
  <2>3. CASE c = n
    BY <1>1, <2>1, <2>3, AliveNow
  <2>4. CASE c > n
    BY <1>1, <2>1, <2>4
  <2> QED
    BY <2>1, <2>2, <2>3, <2>4
<1> QED
  BY <1>2 DEF Reached, Restarting

(* In a burst a tile is reached by one compute more in every cycle that has *)
(* one for it.                                                              *)
LEMMA ReachedStep ==
  ASSUME NEW b \in Buffer, NEW n \in Int, ~ Restarting(b, n), NoneCut(n),
         NEW t \in Tile
  PROVE  Reached(b, t, n + 1) = Reached(b, t, n) \cup ({n - t} \cap ComputesOn(b))
<1>1. t \in Nat /\ t <= Tiles - 1 /\ Tiles \in Nat /\ Tiles >= 2
  BY ShapeFacts DEF Tile
<1>2. ASSUME NEW c \in ComputesOn(b)
      PROVE  (c + t < n + 1 /\ Alive(b, c, n + 1))
               <=> (c + t < n /\ Alive(b, c, n)) \/ c = n - t
  <2>1. c \in Int
    BY ComputeCycles
  <2>2. CASE c + t < n
    <3>1. c < n /\ c + t < n + 1 /\ c # n - t
      BY <1>1, <2>1, <2>2
    <3> QED
      BY <2>2, <3>1, AliveStep DEF Restarting
  <2>3. CASE c = n - t
    <3>1. c + t < n + 1 /\ ~ (c + t < n) /\ c <= n /\ n <= c + (2 * Tiles) - 1
      BY <1>1, <2>1, <2>3
    <3>2. Alive(b, c, n + 1)
      <4>1. CASE c < n
        BY <3>1, <4>1, AliveStep DEF Restarting, NoneCut
      <4>2. CASE c = n
        BY <4>2, AliveNow
      <4> QED
        BY <2>1, <3>1, <4>1, <4>2
    <3> QED
      BY <2>3, <3>1, <3>2
  <2>4. CASE c + t > n
    BY <1>1, <2>1, <2>4
  <2> QED
    BY <1>1, <2>1, <2>2, <2>3, <2>4
<1> QED
  BY <1>2 DEF Reached

(* Finitely many computes have reached a tile.                              *)
LEMMA ReachedFinite ==
  ASSUME NEW b, NEW t, NEW n
  PROVE  /\ IsFiniteSet(Reached(b, t, n))
         /\ Cardinality(Reached(b, t, n)) \in Nat
<1>1. IsFiniteSet(1 .. Horizon)
  BY FS_Interval, ShapeFacts
<1>2. Reached(b, t, n) \subseteq 1 .. Horizon
  BY ComputeCycles DEF Reached
<1> QED
  BY <1>1, <1>2, FS_Subset, FS_CardinalityType

(* Restarted, running and computing, by the cycle of issue.                 *)
LEMMA BurstCases ==
  ASSUME cycle \in 1 .. Horizon, RowsExact(cycle), BurstsExact(cycle),
         program \in Programs, NEW b \in Buffer
  PROVE  /\ b \in Restarted <=> Restarting(b, cycle)
         /\ \A t \in Tile : (t \in ComputingTiles /\ Compute(t).buffer = b)
                              <=> cycle - t \in ComputesOn(b)
         /\ b \in RunningNow <=> Busy(b, cycle)
<1>1. \A t \in Tile : (t \in ComputingTiles /\ Compute(t).buffer = b)
                              <=> cycle - t \in ComputesOn(b)
  BY Computing DEF ComputesOn
<1>2. b \in RunningNow <=> Busy(b, cycle)
  <2>1. b \in RunningNow <=> \E t \in Tile : cycle - t \in ComputesOn(b)
    BY <1>1 DEF RunningNow, ComputingTiles
  <2>2. \A t \in Tile : t \in Int /\ cycle - (cycle - t) = t
    BY ShapeFacts DEF Tile
  <2>3. \A c \in ComputesOn(b) : cycle - (cycle - c) = c
    BY ComputeCycles, ShapeFacts
  <2> QED
    BY <2>1, <2>2, <2>3 DEF Busy
<1>3. b \in Restarted <=> Restarting(b, cycle)
  <2>1. 0 \in Tile /\ cycle - 0 = cycle
    BY ShapeFacts DEF Tile
  <2>2. b \in Restarted <=> 0 \in ComputingTiles /\ Compute(0).buffer = b /\ b \notin running
    BY DEF Restarted
  <2>3. b \in running <=> Busy(b, cycle - 1)
    BY DEF BurstsExact, RunningAt
  <2> QED
    BY <1>1, <2>1, <2>2, <2>3 DEF Restarting
<1> QED
  BY <1>1, <1>2, <1>3

(* The computes of a burst before one.                                      *)
Before(d) == LET b == At(d).buffer
             IN  {c \in ComputesOn(b) : c < d /\ Chain(b, c, d)}

(* The place of a compute counts those before it in the burst.              *)
LEMMA PlaceIs ==
  ASSUME NEW d
  PROVE  /\ Place(d) = Cardinality(Before(d))
         /\ IsFiniteSet(Before(d)) /\ Place(d) \in Nat
<1>1. Place(d) = Cardinality(Before(d))
  BY DEF Place, Before, Chain
<1>2. IsFiniteSet(1 .. Horizon) /\ Before(d) \subseteq 1 .. Horizon
  BY FS_Interval, ShapeFacts, ComputeCycles DEF Before
<1>3. IsFiniteSet(Before(d))
  BY <1>2, FS_Subset
<1> QED
  BY <1>1, <1>3, FS_CardinalityType

(* The tile's cursor is at the place of the compute it meets.               *)
LEMMA ReachedIsBefore ==
  ASSUME NEW b \in Buffer, NEW n \in Int, NEW t \in Tile,
         n - t \in ComputesOn(b), ~ Restarting(b, n), NoneCut(n)
  PROVE  Reached(b, t, n) = Before(n - t)
<1> DEFINE d == n - t
<1>1. /\ t \in Nat /\ t <= Tiles - 1 /\ Tiles \in Nat /\ Tiles >= 2
      /\ d \in Int /\ d <= n /\ n <= d + (2 * Tiles) - 1 /\ d + t = n
      /\ (d = n <=> t = 0)
  BY ShapeFacts DEF Tile
<1>2. At(d).buffer = b /\ d \in ComputesOn(b)
  BY ComputeCycles
<1> HIDE DEF d
<1>3. ASSUME NEW c \in ComputesOn(b)
      PROVE  c + t < n /\ Alive(b, c, n) <=> c < d /\ Chain(b, c, d)
  <2>1. c \in Int /\ (c + t < n <=> c < d) /\ (c < d => c < n /\ c <= d)
    BY <1>1, ComputeCycles
  <2>2. ASSUME c < d, Alive(b, c, n)
        PROVE  Chain(b, c, d)
    <3>1. CASE d < n
      BY <1>2, <2>1, <2>2, <3>1 DEF Alive
    <3>2. CASE d = n
      <4>1. Busy(b, n - 1)
        BY <1>2, <3>2 DEF Restarting
      <4> QED
        BY <2>1, <2>2, <3>2, <4>1, AliveGoesOn
    <3> QED
      BY <1>1, <3>1, <3>2
  <2>3. ASSUME c < d, Chain(b, c, d)
        PROVE  Alive(b, c, n)
    <3>1. SUFFICES ASSUME NEW e \in ComputesOn(b), c <= e, e < n
                   PROVE  Chain(b, c, e)
      BY DEF Alive
    <3>2. e \in Int
      BY ComputeCycles
    <3>3. CASE e <= d
      BY <1>1, <2>1, <2>3, <3>1, <3>2, <3>3, Chains
    <3>4. CASE d < e
      <4>1. Chain(b, d, e)
        <5>1. d < n
          BY <1>1, <3>1, <3>2, <3>4
        <5>2. Alive(b, d, n)
          BY <1>1, <1>2, <5>1 DEF NoneCut
        <5> QED
          BY <1>1, <3>1, <3>2, <3>4, <5>2 DEF Alive
      <4> QED
        BY <1>1, <2>1, <2>3, <3>2, <3>4, <4>1, Chains
    <3> QED
      BY <1>1, <3>2, <3>3, <3>4
  <2> QED
    BY <2>1, <2>2, <2>3
<1>4. Reached(b, t, n) = Before(d)
  BY <1>2, <1>3 DEF Reached, Before
<1> QED
  BY <1>4 DEF d

(* A compute that restarts its buffer has place 0.                          *)
LEMMA RestartPlace ==
  ASSUME NEW b, NEW n \in Int, Restarting(b, n)
  PROVE  Place(n) = 0
<1>1. n \in ComputesOn(b) /\ At(n).buffer = b /\ ~ Busy(b, n - 1)
  BY ComputeCycles DEF Restarting
<1>2. \A c \in ComputesOn(b) : c < n => ~ Chain(b, c, n)
  <2>1. SUFFICES ASSUME NEW c \in ComputesOn(b), c < n
                 PROVE  n - 1 \in c .. n - 1
    BY <1>1 DEF Chain
  <2> QED
    BY <2>1, ComputeCycles
<1>3. Before(n) = {}
  BY <1>1, <1>2 DEF Before
<1> QED
  BY <1>3, PlaceIs, FS_EmptySet

(* The row a tile's compute adds to is its place in its burst.              *)
LEMMA NextRowIs ==
  ASSUME cycle \in 1 .. Horizon, RowsExact(cycle), BurstsExact(cycle),
         program \in Programs, NEW b \in Buffer, NEW t \in Tile
  PROVE  /\ NextRow(b, t) = IF Restarting(b, cycle) THEN 0
                              ELSE Cardinality(Reached(b, t, cycle))
         /\ cycle - t \in ComputesOn(b) => NextRow(b, t) = Place(cycle - t)
<1>1. NextRow(b, t) = IF Restarting(b, cycle) THEN 0
                              ELSE Cardinality(Reached(b, t, cycle))
  BY BurstCases DEF NextRow, BurstsExact, CursorAt
<1>2. ASSUME cycle - t \in ComputesOn(b), ~ Restarting(b, cycle)
      PROVE  NextRow(b, t) = Place(cycle - t)
  <2>1. Reached(b, t, cycle) = Before(cycle - t)
    BY <1>2, ReachedIsBefore DEF BurstsExact
  <2> QED
    BY <1>1, <1>2, <2>1, PlaceIs
<1>3. ASSUME cycle - t \in ComputesOn(b), Restarting(b, cycle)
      PROVE  NextRow(b, t) = Place(cycle - t)
  <2>1. t = 0
    <3>1. t \in Nat /\ t <= Tiles - 1
      BY ShapeFacts DEF Tile
    <3>2. t # 0 => (cycle - 1) - (cycle - t) = t - 1 /\ t - 1 \in Tile
      BY <3>1, ShapeFacts DEF Tile
    <3> QED
      BY <1>3, <3>2 DEF Restarting, Busy
  <2>2. cycle - t = cycle
    BY <2>1, ShapeFacts
  <2> QED
    BY <1>1, <1>3, <2>2, RestartPlace
<1> QED
  BY <1>1, <1>2, <1>3

(* The cursor of a tile counts the computes that have reached it.           *)
LEMMA CursorStep ==
  ASSUME cycle \in 1 .. Horizon, RowsExact(cycle), BurstsExact(cycle),
         program \in Programs, NEW b \in Buffer, NEW t \in Tile
  PROVE  NextRow(b, t) + (IF t \in ComputingTiles /\ Compute(t).buffer = b
                            THEN 1 ELSE 0)
           = Cardinality(Reached(b, t, cycle + 1))
<1>1. (t \in ComputingTiles /\ Compute(t).buffer = b) <=> cycle - t \in ComputesOn(b)
  BY BurstCases
<1>2. t \in Nat /\ cycle \in Int
  BY ShapeFacts DEF Tile
<1>3. CASE Restarting(b, cycle)
  <2>1. cycle - t \in ComputesOn(b) <=> t = 0
    <3>1. t # 0 => (cycle - 1) - (cycle - t) = t - 1 /\ t - 1 \in Tile
      BY <1>2, ShapeFacts DEF Tile
    <3>2. t = 0 => cycle - t = cycle
      BY <1>2
    <3> QED
      BY <1>3, <3>1, <3>2 DEF Restarting, Busy
  <2>2. Reached(b, t, cycle + 1) = IF t = 0 THEN {cycle} ELSE {}
    BY <1>2, <1>3, ReachedRestart
  <2>3. Cardinality({cycle}) = 1 /\ Cardinality({}) = 0
    BY FS_Singleton, FS_EmptySet
  <2> QED
    BY <1>1, <1>3, <2>1, <2>2, <2>3, NextRowIs
<1>4. CASE ~ Restarting(b, cycle)
  <2>1. Reached(b, t, cycle + 1)
          = Reached(b, t, cycle) \cup ({cycle - t} \cap ComputesOn(b))
    BY <1>2, <1>4, ReachedStep DEF BurstsExact
  <2>2. cycle - t \notin Reached(b, t, cycle)
    BY <1>2 DEF Reached
  <2>3. IsFiniteSet(Reached(b, t, cycle)) /\ Cardinality(Reached(b, t, cycle)) \in Nat
    BY ReachedFinite
  <2>4. NextRow(b, t) = Cardinality(Reached(b, t, cycle))
    BY <1>4, NextRowIs
  <2>5. CASE cycle - t \in ComputesOn(b)
    <3>1. Reached(b, t, cycle + 1) = Reached(b, t, cycle) \cup {cycle - t}
      BY <2>1, <2>5
    <3>2. Cardinality(Reached(b, t, cycle) \cup {cycle - t})
            = Cardinality(Reached(b, t, cycle)) + 1
      BY <2>2, <2>3, FS_AddElement
    <3> QED
      BY <1>1, <2>4, <2>5, <3>1, <3>2
  <2>6. CASE cycle - t \notin ComputesOn(b)
    <3>1. Reached(b, t, cycle + 1) = Reached(b, t, cycle)
      BY <2>1, <2>6
    <3> QED
      BY <1>1, <2>3, <2>4, <2>6, <3>1
  <2> QED
    BY <2>5, <2>6
<1> QED
  BY <1>3, <1>4

(* Without a restart that comes too soon no burst is cut.                   *)
LEMMA NoneCutStep ==
  ASSUME NEW n \in Int, NoneCut(n), ~ (At(n).op = "Compute" /\ TooSoon(n))
  PROVE  NoneCut(n + 1)
<1> SUFFICES ASSUME NEW b \in Buffer, NEW d \in ComputesOn(b),
                    d < n + 1, n + 1 <= d + (2 * Tiles) - 1
             PROVE  Alive(b, d, n + 1)
  BY DEF NoneCut
<1>1. d \in Int /\ Tiles \in Int
  BY ComputeCycles, ShapeFacts
<1>2. CASE d = n
  BY <1>2, AliveNow
<1>3. CASE d < n
  <2>1. n <= d + (2 * Tiles) - 1 /\ n <= ColumnDone(d, Tiles - 1)
    BY <1>1, <1>3 DEF ColumnDone
  <2>2. Alive(b, d, n)
    BY <1>3, <2>1 DEF NoneCut
  <2>3. ASSUME n \in ComputesOn(b)
        PROVE  Busy(b, n - 1)
    <3>1. At(n).op = "Compute" /\ At(n).buffer = b
      BY <2>3, ComputeCycles DEF Issued, At
    <3> QED
      BY <1>3, <2>1, <3>1 DEF TooSoon
  <2> QED
    BY <1>3, <2>2, <2>3, AliveStep
<1> QED
  BY <1>1, <1>2, <1>3

(* A tick keeps cursors and running buffers.                                *)
LEMMA BurstsStep ==
  ASSUME program \in Programs, cycle \in 1 .. Horizon, RowsExact(cycle),
         BurstsExact(cycle), ~ (At(cycle).op = "Compute" /\ TooSoon(cycle)), Tick
  PROVE  BurstsExact(cycle)'
<1>1. program' = program /\ cycle' = cycle + 1 /\ cycle \in Int
  BY ShapeFacts DEF Tick
<1>2. cursor' = CursorAt(cycle + 1)
  <2>1. cursor' = [b \in Buffer |-> [t \in Tile |->
                    NextRow(b, t) + (IF t \in ComputingTiles
                                        /\ Compute(t).buffer = b
                                       THEN 1 ELSE 0)]]
    BY DEF Tick
  <2> QED
    BY <2>1, CursorStep DEF CursorAt
<1>3. running' = RunningAt(cycle + 1)
  <2>1. running' = RunningNow
    BY DEF Tick
  <2>2. RunningNow \subseteq Buffer
    BY Computing, ComputeFields DEF RunningNow
  <2>3. (cycle + 1) - 1 = cycle
    BY <1>1
  <2> QED
    BY <2>1, <2>2, <2>3, BurstCases DEF RunningAt
<1>4. NoneCut(cycle + 1)
  BY <1>1, NoneCutStep DEF BurstsExact
<1>5. CursorAt(cycle)' = CursorAt(cycle + 1) /\ RunningAt(cycle)' = RunningAt(cycle + 1)
      /\ NoneCut(cycle)' = NoneCut(cycle + 1)
  BY <1>1, BurstFrames
<1> QED
  BY <1>2, <1>3, <1>4, <1>5 DEF BurstsExact

-----------------------------------------------------------------------------
(* The rows of sums                                                         *)

(* A product grows with its first factor.                                   *)
LEMMA Times ==
  ASSUME NEW a \in Nat, NEW b \in Nat, NEW c \in Nat, a <= b
  PROVE  a * c <= b * c
<1>1. PICK k \in Nat : b = a + k
  <2>1. b - a \in Nat /\ b = a + (b - a)
    OBVIOUS
  <2> QED
    BY <2>1
<1>2. (a + k) * c = a * c + k * c /\ k * c \in Nat /\ a * c \in Nat
  OBVIOUS
<1> QED
  BY <1>1, <1>2

(* The rows of sums: at least twice as many as tiles.                       *)
LEMMA RowFacts ==
  /\ RowCount \in Nat /\ RowCount >= 2 * Tiles /\ RowCount > 0
  /\ Row = 0 .. RowCount - 1 /\ Cardinality(Row) = RowCount
<1>1. RowCount \in Nat
  BY ShapeFacts DEF RowCount
<1>2. RowCount >= 2 * Tiles
  <2>1. 2 * Tiles <= Lanes * Tiles
    BY ShapeFacts, Times
  <2>2. Lanes * Tiles = Tiles * Lanes
    BY ShapeFacts
  <2> QED
    BY <2>1, <2>2 DEF RowCount
<1>3. Row = 0 .. RowCount - 1
  BY DEF Row, RowCount
<1>4. Cardinality(0 .. RowCount - 1) = RowCount
  <2>1. RowCount - 1 \in Int /\ 0 \in Int /\ ~ (0 > RowCount - 1)
    BY <1>1, <1>2, ShapeFacts
  <2>2. Cardinality(0 .. RowCount - 1) = (RowCount - 1) - 0 + 1
    BY <2>1, FS_Interval
  <2> QED
    BY <1>1, <2>2
<1>5. RowCount > 0
  BY <1>1, <1>2, ShapeFacts
<1> QED
  BY <1>1, <1>2, <1>3, <1>4, <1>5

(* Two numbers less than m apart have two remainders.                       *)
LEMMA Remainders ==
  ASSUME NEW x \in Nat, NEW y \in Nat, NEW m \in Nat, m > 0,
         x < y, y < x + m
  PROVE  x % m # y % m
<1> DEFINE p == x \div m
           q == y \div m
<1>1. /\ p \in Nat /\ q \in Nat /\ x % m \in 0 .. m - 1 /\ y % m \in 0 .. m - 1
      /\ x = p * m + (x % m) /\ y = q * m + (y % m)
  OBVIOUS
<1> HIDE DEF p, q
<1>2. SUFFICES ASSUME x % m = y % m
               PROVE  FALSE
  OBVIOUS
<1>3. q * m - p * m = y - x /\ p * m \in Nat /\ q * m \in Nat
  BY <1>1, <1>2
<1>4. CASE q <= p
  <2>1. q * m <= p * m
    BY <1>1, <1>4, Times
  <2> QED
    BY <1>3, <2>1
<1>5. CASE p + 1 <= q
  <2>1. (p + 1) * m <= q * m
    BY <1>1, <1>5, Times
  <2>2. (p + 1) * m = p * m + m
    BY <1>1
  <2> QED
    BY <1>3, <2>1, <2>2
<1> QED
  BY <1>1, <1>4, <1>5

(* Two computes of a burst that can still be at work together use two rows. *)
LEMMA PlacesApart ==
  ASSUME NEW b, NEW c \in ComputesOn(b), NEW d \in ComputesOn(b), c < d,
         Chain(b, c, d), d - c <= (2 * Tiles) - 2
  PROVE  /\ Place(c) < Place(d)
         /\ Place(c) % RowCount # Place(d) % RowCount
<1> DEFINE New == {e \in ComputesOn(b) : c <= e /\ e < d}
<1>1. c \in Int /\ d \in Int /\ At(c).buffer = b /\ At(d).buffer = b
  BY ComputeCycles
<1>2. ASSUME NEW e \in ComputesOn(b)
      PROVE  e < d /\ Chain(b, e, d)
               <=> (e < c /\ Chain(b, e, c)) \/ (c <= e /\ e < d)
  <2>1. e \in Int
    BY ComputeCycles
  <2>2. CASE e < c
    BY <1>1, <2>1, <2>2, Chains
  <2>3. CASE c <= e
    <3>1. e <= d => Chain(b, e, d)
      BY <1>1, <2>1, <2>3, Chains
    <3> QED
      BY <1>1, <2>1, <2>3, <3>1
  <2> QED
    BY <1>1, <2>1, <2>2, <2>3
<1>3. Before(d) = Before(c) \cup New
  BY <1>1, <1>2 DEF Before
<1>4. Before(c) \cap New = {}
  <2>1. \A e \in ComputesOn(b) : e \in Int
    BY ComputeCycles
  <2>2. \A e \in ComputesOn(b) : ~ (e < c /\ c <= e)
    BY <1>1, <2>1
  <2> QED
    BY <1>1, <2>2 DEF Before
<1>5. IsFiniteSet(New) /\ Cardinality(New) \in Nat /\ Cardinality(New) <= d - c
  <2>1. IsFiniteSet(c .. d - 1) /\ Cardinality(c .. d - 1) = (d - 1) - c + 1
    BY <1>1, FS_Interval
  <2>2. New \subseteq c .. d - 1
    <3>1. \A e \in ComputesOn(b) : e \in Int
      BY ComputeCycles
    <3>2. \A e \in New : e \in c .. d - 1
      BY <1>1, <3>1
    <3> QED
      BY <3>2
  <2>3. IsFiniteSet(New) /\ Cardinality(New) <= Cardinality(c .. d - 1)
    BY <2>1, <2>2, FS_Subset
  <2> QED
    BY <1>1, <2>1, <2>3, FS_CardinalityType
<1>6. Cardinality(New) # 0
  <2>1. c \in New
    BY <1>1
  <2> QED
    BY <1>5, <2>1, FS_EmptySet
<1>7. Place(d) = Place(c) + Cardinality(New)
  <2>1. Cardinality(Before(c) \cup New)
          = Cardinality(Before(c)) + Cardinality(New) - Cardinality({})
    BY <1>4, <1>5, PlaceIs, FS_Union
  <2>2. Cardinality(Before(c)) = Place(c) /\ Place(c) \in Nat
    BY PlaceIs
  <2>3. Cardinality({}) = 0 /\ Cardinality(Before(d)) = Place(d)
    BY FS_EmptySet, PlaceIs
  <2> HIDE DEF New
  <2> QED
    BY <1>3, <1>5, <2>1, <2>2, <2>3
<1> HIDE DEF New
<1>8. Place(c) \in Nat /\ Place(d) \in Nat /\ RowCount \in Nat /\ RowCount > 0
      /\ RowCount >= 2 * Tiles
  BY PlaceIs, RowFacts
<1>9. Place(c) < Place(d) /\ Place(d) < Place(c) + RowCount
  BY <1>1, <1>5, <1>6, <1>7, <1>8, ShapeFacts
<1> QED
  BY <1>8, <1>9, Remainders

-----------------------------------------------------------------------------
(* The wavefront *)

(* What enters the wavefront are the computes at the tiles.                 *)
LEMMA EnteringIs ==
  ASSUME program \in Programs, cycle \in 1 .. Horizon, RowsExact(cycle),
         BurstsExact(cycle)
  PROVE  Entering = {Element(cycle - t, t, 0) : t \in ComputingTiles}
<1>1. ASSUME NEW t \in ComputingTiles
      PROVE  /\ Compute(t) = At(cycle - t)
             /\ NextRow(Compute(t).buffer, t) % Cardinality(Row)
                  = Place(cycle - t) % RowCount
  <2>1. /\ t \in Tile /\ cycle - t \in Issued("Compute")
        /\ Compute(t) = At(cycle - t)
    BY Computing
  <2>2. At(cycle - t).buffer \in Buffer
    BY <2>1, ComputeFields
  <2>3. cycle - t \in ComputesOn(At(cycle - t).buffer)
    BY <2>1, ComputeCycles
  <2>4. NextRow(At(cycle - t).buffer, t) = Place(cycle - t)
    BY <2>1, <2>2, <2>3, NextRowIs
  <2> QED
    BY <2>1, <2>4, RowFacts
<1>2. \A t \in ComputingTiles :
        [column |-> 0, tile |-> t, activation |-> cycle - t,
         row |-> NextRow(Compute(t).buffer, t) % Cardinality(Row),
         buffer |-> Compute(t).buffer, address |-> Compute(t).address,
         stride |-> Compute(t).stride, stream |-> Compute(t).stream,
         clear |-> Compute(t).clear]
          = Element(cycle - t, t, 0)
  BY <1>1 DEF Element
<1> QED
  BY <1>2 DEF Entering

(* The elements of the wavefront in a tick.                                 *)
LEMMA FrontIs ==
  ASSUME program \in Programs, cycle \in 1 .. Horizon, RowsExact(cycle),
         BurstsExact(cycle), FrontExact(cycle)
  PROVE  Front = FrontAt(cycle)
<1> DEFINE Fresh == {y \in Issued("Compute") \X Tile : cycle - y[1] - y[2] = 0}
           Left == {y \in Issued("Compute") \X Tile :
                      cycle - y[1] - y[2] \in 1 .. Tiles - 1}
           All == {y \in Issued("Compute") \X Tile :
                      cycle - y[1] - y[2] \in Tile}
<1>1. {Element(cycle - t, t, 0) : t \in ComputingTiles}
        = {Element(x[1], x[2], cycle - x[1] - x[2]) : x \in Fresh}
  <2>1. ComputingTiles = {t \in Tile : cycle - t \in Issued("Compute")}
    BY Computing
  <2>2. ASSUME NEW t \in ComputingTiles
        PROVE  \E x \in Fresh : Element(cycle - t, t, 0)
                                  = Element(x[1], x[2], cycle - x[1] - x[2])
    <3>1. t \in Int /\ cycle - (cycle - t) - t = 0
      BY <2>1, ShapeFacts DEF Tile
    <3>2. <<cycle - t, t>> \in Fresh
      BY <2>1, <3>1
    <3> QED
      BY <3>1, <3>2
  <2>3. ASSUME NEW x \in Fresh
        PROVE  \E t \in ComputingTiles : Element(cycle - t, t, 0)
                                  = Element(x[1], x[2], cycle - x[1] - x[2])
    <3>1. x[1] \in Int /\ x[2] \in Int /\ x[1] = cycle - x[2]
          /\ cycle - x[1] - x[2] = 0
      BY ComputeFields, ShapeFacts DEF Tile
    <3>2. x[2] \in ComputingTiles
      BY <2>1, <3>1
    <3> QED
      BY <3>1, <3>2
  <2> HIDE DEF Fresh
  <2> QED
    BY <2>2, <2>3
<1>2. All = Fresh \cup Left
  <2>1. ASSUME NEW y \in Issued("Compute") \X Tile
        PROVE  cycle - y[1] - y[2] \in Tile
                 <=> cycle - y[1] - y[2] = 0 \/ cycle - y[1] - y[2] \in 1 .. Tiles - 1
    BY ComputeFields, ShapeFacts DEF Tile
  <2> QED
    BY <2>1
<1>3. wavefront = {Element(x[1], x[2], cycle - x[1] - x[2]) : x \in Left}
  BY DEF FrontExact, FrontLeft
<1>4. FrontAt(cycle) = {Element(x[1], x[2], cycle - x[1] - x[2]) : x \in All}
  BY DEF FrontAt
<1> HIDE DEF Fresh, Left, All
<1> QED
  BY <1>1, <1>2, <1>3, <1>4, EnteringIs DEF Front

(* An element moves east by one column.                                     *)
LEMMA Moved ==
  ASSUME NEW d, NEW t, NEW k, NEW e, e = Element(d, t, k)
  PROVE  /\ e.column = k /\ e.tile = t /\ e.activation = d
         /\ e.row = Place(d) % RowCount /\ e.buffer = At(d).buffer
         /\ e.address = At(d).address /\ e.stride = At(d).stride
         /\ e.stream = At(d).stream /\ e.clear = At(d).clear
         /\ [e EXCEPT !.column = @ + 1] = Element(d, t, k + 1)
<1>1. PICK i, row : i = At(d) /\ row = Place(d) % RowCount
  OBVIOUS
<1>2. PICK x : x = [column |-> k, tile |-> t, activation |-> d, row |-> row,
                    buffer |-> i.buffer, address |-> i.address,
                    stride |-> i.stride, stream |-> i.stream, clear |-> i.clear]
  OBVIOUS
<1>3. e = x
  BY <1>1, <1>2 DEF Element
<1>4. PICK new : new = k + 1
  OBVIOUS
<1>5. PICK y : y = [x EXCEPT !.column = new]
  OBVIOUS
<1>6. y = [column |-> new, tile |-> t, activation |-> d, row |-> row,
           buffer |-> i.buffer, address |-> i.address,
           stride |-> i.stride, stream |-> i.stream, clear |-> i.clear]
  BY <1>2, <1>5
<1>7. y = Element(d, t, k + 1)
  BY <1>1, <1>4, <1>6 DEF Element
<1>8. e.column = k
  BY <1>2, <1>3
<1>9. [e EXCEPT !.column = @ + 1] = y
  BY <1>3, <1>4, <1>5, <1>8
<1>10. /\ e.tile = t /\ e.activation = d
       /\ e.row = Place(d) % RowCount /\ e.buffer = At(d).buffer
       /\ e.address = At(d).address /\ e.stride = At(d).stride
       /\ e.stream = At(d).stream /\ e.clear = At(d).clear
  BY <1>1, <1>2, <1>3
<1> QED
  BY <1>7, <1>8, <1>9, <1>10

(* A tick keeps the wavefront.                                              *)
LEMMA FrontStep ==
  ASSUME program \in Programs, cycle \in 1 .. Horizon, RowsExact(cycle),
         BurstsExact(cycle), FrontExact(cycle), Tick
  PROVE  FrontExact(cycle)'
<1> DEFINE Now == {y \in Issued("Compute") \X Tile : cycle - y[1] - y[2] \in Tile}
           Then == {y \in Issued("Compute") \X Tile :
                      (cycle + 1) - y[1] - y[2] \in 1 .. Tiles - 1}
           E(x) == Element(x[1], x[2], cycle - x[1] - x[2])
           F(x) == Element(x[1], x[2], (cycle + 1) - x[1] - x[2])
<1>1. program' = program /\ cycle' = cycle + 1
      /\ wavefront' = {[e EXCEPT !.column = @ + 1] :
                         e \in {x \in Front : x.column + 1 < Tiles}}
  BY DEF Tick
<1>2. ASSUME NEW x \in Now
      PROVE  /\ E(x).column + 1 < Tiles <=> x \in Then
             /\ [E(x) EXCEPT !.column = @ + 1] = F(x)
  <2>1. x[1] \in Int /\ x[2] \in Int /\ Tiles \in Int
        /\ cycle - x[1] - x[2] \in Tile
    BY ComputeFields, ShapeFacts DEF Tile
  <2>2. (cycle - x[1] - x[2]) + 1 = (cycle + 1) - x[1] - x[2]
    BY <2>1, ShapeFacts
  <2>3. PICK e : e = E(x)
    OBVIOUS
  <2>4. e.column = cycle - x[1] - x[2]
        /\ [e EXCEPT !.column = @ + 1]
             = Element(x[1], x[2], (cycle - x[1] - x[2]) + 1)
    BY <2>3, Moved
  <2>5. (cycle - x[1] - x[2]) + 1 < Tiles
          <=> (cycle + 1) - x[1] - x[2] \in 1 .. Tiles - 1
    BY <2>1, <2>2, ShapeFacts DEF Tile
  <2> QED
    BY <2>2, <2>3, <2>4, <2>5
<1>3. Then \subseteq Now
  BY ComputeFields, ShapeFacts DEF Tile
<1>4. Front = {E(x) : x \in Now}
  BY FrontIs DEF FrontAt
<1>5. FrontLeft(cycle + 1) = {F(x) : x \in Then}
  BY DEF FrontLeft
<1> HIDE DEF Now, Then, E, F
<1>6. {x \in Front : x.column + 1 < Tiles} = {E(x) : x \in Then}
  BY <1>2, <1>3, <1>4
<1>7. wavefront' = {F(x) : x \in Then}
  BY <1>1, <1>2, <1>3, <1>6
<1>8. FrontLeft(cycle)' = FrontLeft(cycle + 1)
  BY <1>1, BurstFrames
<1> QED
  BY <1>5, <1>7, <1>8 DEF FrontExact

(* A compute meets the last tile in the cycle in which its column is done.  *)
LEMMA EmittingIs ==
  ASSUME program \in Programs, cycle \in 1 .. Horizon, RowsExact(cycle),
         BurstsExact(cycle), FrontExact(cycle)
  PROVE  Emitting = {Element(x[1], Tiles - 1, x[2]) :
                       x \in {y \in Issued("Compute") \X Tile :
                                ColumnDone(y[1], y[2]) = cycle}}
<1> DEFINE E(x) == Element(x[1], x[2], cycle - x[1] - x[2])
           Now == {y \in Issued("Compute") \X Tile : cycle - y[1] - y[2] \in Tile}
           Done == {y \in Issued("Compute") \X Tile : ColumnDone(y[1], y[2]) = cycle}
<1>1. Emitting = {E(x) : x \in {y \in Now : y[2] = Tiles - 1}}
  <2>1. \A x \in Now : E(x).tile = x[2]
    BY DEF Element
  <2>2. Front = {E(x) : x \in Now}
    BY FrontIs DEF FrontAt
  <2> HIDE DEF E, Now
  <2> QED
    BY <2>1, <2>2 DEF Emitting
<1>2. ASSUME NEW x \in Now, x[2] = Tiles - 1
      PROVE  \E y \in Done : E(x) = Element(y[1], Tiles - 1, y[2])
  <2> DEFINE k == cycle - x[1] - x[2]
  <2>1. x[1] \in Issued("Compute") /\ x[1] \in Int /\ k \in Tile
    BY ComputeFields, ShapeFacts
  <2>2. ColumnDone(x[1], k) = cycle
    BY <1>2, <2>1, ShapeFacts DEF ColumnDone, Tile
  <2>3. <<x[1], k>> \in Done
    BY <2>1, <2>2
  <2> QED
    BY <1>2, <2>3
<1>3. ASSUME NEW y \in Done
      PROVE  \E x \in Now : x[2] = Tiles - 1 /\ E(x) = Element(y[1], Tiles - 1, y[2])
  <2>1. y[1] \in Issued("Compute") /\ y[1] \in Int /\ y[2] \in Tile
        /\ y[2] \in Int /\ Tiles - 1 \in Tile
    BY ComputeFields, ShapeFacts DEF Tile
  <2>2. cycle - y[1] - (Tiles - 1) = y[2]
    BY <2>1, ShapeFacts DEF ColumnDone
  <2>3. <<y[1], Tiles - 1>> \in Now
    BY <2>1, <2>2
  <2> QED
    BY <2>2, <2>3
<1> HIDE DEF E, Now, Done
<1>4. Emitting = {Element(x[1], Tiles - 1, x[2]) : x \in Done}
  BY <1>1, <1>2, <1>3
<1> QED
  BY <1>4 DEF Done

-----------------------------------------------------------------------------
(* The sums                                                                 *)

(* No burst is cut while its columns are still to be done.                  *)
Calm(b, n) ==
    Restarting(b, n) => \A d \in ComputesOn(b) :
                           ~ (d < n /\ n <= ColumnDone(d, Tiles - 1))

(* A cycle whose compute does not come too soon is calm.                    *)
LEMMA CalmIs ==
  ASSUME NEW n \in Int, ~ (At(n).op = "Compute" /\ TooSoon(n)), NEW b
  PROVE  Calm(b, n)
<1> SUFFICES ASSUME Restarting(b, n)
             PROVE  Calm(b, n)
  BY DEF Calm
<1>1. At(n).op = "Compute" /\ At(n).buffer = b /\ ~ Busy(b, n - 1)
  BY ComputeCycles DEF Restarting, Issued, At
<1> QED
  BY <1>1 DEF TooSoon, Calm

(* Two computes at work together are of one burst, and use two rows.        *)
LEMMA Linked ==
  ASSUME NEW b \in Buffer, NEW n \in Int, NoneCut(n),
         NEW c \in ComputesOn(b), NEW d \in ComputesOn(b),
         c < d, d <= n, n <= c + (2 * Tiles) - 2, d < n \/ Calm(b, n)
  PROVE  /\ Place(c) < Place(d)
         /\ Place(c) % RowCount # Place(d) % RowCount
<1>1. c \in Int /\ d \in Int /\ Tiles \in Nat
  BY ComputeCycles, ShapeFacts
<1>2. c < n /\ n <= c + (2 * Tiles) - 1 /\ d - c <= (2 * Tiles) - 2
      /\ n <= ColumnDone(c, Tiles - 1) /\ c <= d
  BY <1>1 DEF ColumnDone
<1>3. Alive(b, c, n)
  BY <1>2 DEF NoneCut
<1>4. Chain(b, c, d)
  <2>1. CASE d < n
    BY <1>2, <1>3, <2>1 DEF Alive
  <2>2. CASE d = n
    <3>1. Calm(b, n)
      BY <1>1, <2>2
    <3>2. Busy(b, n - 1)
      BY <1>2, <2>2, <3>1 DEF Calm, Restarting
    <3> QED
      BY <1>2, <1>3, <2>2, <3>2, AliveGoesOn
  <2> QED
    BY <1>1, <2>1, <2>2
<1> QED
  BY <1>2, <1>4, PlacesApart

(* A row belongs to one compute at work.                                    *)
LEMMA OneRowEach ==
  ASSUME NEW b \in Buffer, NEW n \in Int, NoneCut(n),
         NEW c \in ComputesOn(b), NEW d \in ComputesOn(b),
         c <= n, d <= n, n <= c + (2 * Tiles) - 2, n <= d + (2 * Tiles) - 2,
         (c < n /\ d < n) \/ Calm(b, n), Place(c) % RowCount = Place(d) % RowCount
  PROVE  c = d
<1>1. c \in Int /\ d \in Int
  BY ComputeCycles
<1>2. CASE c < d
  BY <1>2, Linked
<1>3. CASE d < c
  BY <1>3, Linked
<1> QED
  BY <1>1, <1>2, <1>3

(* The computes whose work in cycle n is on a row and column.               *)
AtWork(b, row, column, n) ==
    {d \in ComputesOn(b) :
       n - d - column \in Tile /\ Place(d) % RowCount = row}

(* The elements that work on a row and column.                              *)
LEMMA WorkingIs ==
  ASSUME program \in Programs, cycle \in 1 .. Horizon, RowsExact(cycle),
         BurstsExact(cycle), FrontExact(cycle),
         NEW b \in Buffer, NEW row, NEW column \in Tile
  PROVE  Working(b, row, column)
           = {Element(d, cycle - d - column, column) :
                d \in AtWork(b, row, column, cycle)}
<1> DEFINE E(x) == Element(x[1], x[2], cycle - x[1] - x[2])
           Now == {y \in Issued("Compute") \X Tile : cycle - y[1] - y[2] \in Tile}
           Mine == {y \in Now : /\ At(y[1]).buffer = b
                                /\ Place(y[1]) % RowCount = row
                                /\ cycle - y[1] - y[2] = column}
<1>1. Working(b, row, column) = {E(x) : x \in Mine}
  <2>1. \A x \in Now : E(x).buffer = At(x[1]).buffer
            /\ E(x).row = Place(x[1]) % RowCount /\ E(x).column = cycle - x[1] - x[2]
    BY DEF Element
  <2>2. Front = {E(x) : x \in Now}
    BY FrontIs DEF FrontAt
  <2> HIDE DEF E, Now
  <2> QED
    BY <2>1, <2>2 DEF Working
<1>2. column \in Int
  BY ShapeFacts DEF Tile
<1>3. ASSUME NEW x \in Mine
      PROVE  \E d \in AtWork(b, row, column, cycle) :
               E(x) = Element(d, cycle - d - column, column)
  <2>1. x[1] \in ComputesOn(b) /\ x[1] \in Int /\ x[2] \in Tile /\ x[2] \in Int
    BY ComputeFields, ShapeFacts DEF ComputesOn, Tile
  <2>2. cycle - x[1] - column = x[2]
    BY <1>2, <2>1, ShapeFacts
  <2>3. x[1] \in AtWork(b, row, column, cycle)
    BY <2>1, <2>2 DEF AtWork
  <2> QED
    BY <2>2, <2>3
<1>4. ASSUME NEW d \in AtWork(b, row, column, cycle)
      PROVE  \E x \in Mine : E(x) = Element(d, cycle - d - column, column)
  <2>1. d \in Issued("Compute") /\ d \in Int /\ At(d).buffer = b
        /\ cycle - d - column \in Tile /\ Place(d) % RowCount = row
    BY ComputeCycles DEF AtWork
  <2>2. cycle - d - (cycle - d - column) = column
    BY <1>2, <2>1, ShapeFacts
  <2>3. <<d, cycle - d - column>> \in Mine
    BY <2>1, <2>2
  <2> QED
    BY <2>2, <2>3
<1> HIDE DEF E, Mine
<1> QED
  BY <1>1, <1>3, <1>4

(* The rows a tick empties.                                                 *)
LEMMA EmptiedIs ==
  ASSUME program \in Programs, cycle \in 1 .. Horizon, RowsExact(cycle),
         BurstsExact(cycle), NEW b \in Buffer, NEW row
  PROVE  Emptied(b, row) <=>
           \/ Restarting(b, cycle)
           \/ /\ cycle \in ComputesOn(b)
              /\ Place(cycle) >= RowCount
              /\ Place(cycle) % RowCount = row
<1>1. 0 \in Tile /\ cycle - 0 = cycle
  BY ShapeFacts DEF Tile
<1>2. (0 \in ComputingTiles /\ Compute(0).buffer = b) <=> cycle \in ComputesOn(b)
  BY <1>1, BurstCases
<1>3. cycle \in ComputesOn(b) => NextRow(b, 0) = Place(cycle)
  BY <1>1, NextRowIs
<1>4. b \in Restarted <=> Restarting(b, cycle)
  BY BurstCases
<1> QED
  BY <1>2, <1>3, <1>4, RowFacts DEF Emptied

(* A row's sums before, at and after a compute's turn at a tile.            *)
LEMMA SumsNone ==
  ASSUME NEW d, NEW b, NEW column, NEW k \in Int, k <= 0
  PROVE  SumUpTo(d, b, column, k) = Zero
<1>1. \A u \in Tile : ~ (u < k)
  BY ShapeFacts DEF Tile
<1> QED
  BY <1>1 DEF SumUpTo, Zero

(* A tile adds its product.                                                 *)
LEMMA SumsMore ==
  ASSUME NEW d, NEW b, NEW column, NEW k \in Tile
  PROVE  SumUpTo(d, b, column, k + 1)
           = Plus(SumUpTo(d, b, column, k),
                  [lane \in Lane |->
                     {<<k, d, WeightUsed(b, column, lane, d)>>}])
<1>1. {u \in Tile : u < k + 1} = {u \in Tile : u < k} \cup {k}
  <2>1. \A u \in Tile : u < k + 1 <=> u < k \/ u = k
    BY ShapeFacts DEF Tile
  <2> QED
    BY <2>1
<1>2. \A lane \in Lane :
        {<<t, d, WeightUsed(b, column, lane, d)>> : t \in {u \in Tile : u < k + 1}}
          = {<<t, d, WeightUsed(b, column, lane, d)>> : t \in {u \in Tile : u < k}}
              \cup {<<k, d, WeightUsed(b, column, lane, d)>>}
  BY <1>1
<1> QED
  BY <1>2 DEF SumUpTo, Plus

(* The contributions count the tiles that were passed.                      *)
LEMMA CountsGrow ==
  ASSUME NEW k \in Int
  PROVE  /\ k >= 0 => CountUpTo(k + 1) = CountUpTo(k) + 1
         /\ k <= 0 => CountUpTo(k) = 0
  BY DEF CountUpTo

(* What is known of the unit's wavefront at the start of a cycle.           *)
WavefrontExact ==
    /\ program \in Programs /\ cycle \in 1 .. Horizon
    /\ RowsExact(cycle) /\ OperandsExact(cycle)
    /\ BurstsExact(cycle) /\ FrontExact(cycle) /\ SumsExact(cycle)

(* A row of sums when a tick has emptied what it empties.                   *)
BaseSums(b, row, column) ==
    IF Emptied(b, row) THEN Zero ELSE sums[b][row][column]
BaseCounts(b, row, column) ==
    IF Emptied(b, row) THEN 0 ELSE counts[b][row][column]

(* What a tick adds to what it found.                                       *)
LEMMA SumsAre ==
  ASSUME NEW b, NEW row, NEW column
  PROVE  /\ Sums(b, row, column)
              = Plus(BaseSums(b, row, column),
                     [lane \in Lane |->
                        {<<e.tile, e.activation, Weight(b, e.tile, column)[lane]>> :
                           e \in Working(b, row, column)}])
         /\ Counts(b, row, column)
              = BaseCounts(b, row, column) + Cardinality(Working(b, row, column))
  BY DEF Sums, Counts, BaseSums, BaseCounts

(* What a row of sums holds when a tick has emptied what it empties.        *)
LEMMA BaseSeen ==
  ASSUME WavefrontExact, NEW b \in Buffer, NEW column \in Tile,
         NEW d \in ComputesOn(b), d <= cycle, cycle <= ColumnDone(d, column),
         Calm(b, cycle)
  PROVE  /\ BaseSums(b, Place(d) % RowCount, column)
              = SumUpTo(d, b, column, cycle - d - column)
         /\ BaseCounts(b, Place(d) % RowCount, column)
              = CountUpTo(cycle - d - column)
<1> DEFINE row == Place(d) % RowCount
           k == cycle - d - column
<1>1. /\ d \in Int /\ cycle \in Int /\ column \in Int /\ column >= 0
      /\ column <= Tiles - 1 /\ Tiles \in Int
      /\ cycle <= d + Tiles - 1 + column
  BY ComputeCycles, ShapeFacts DEF WavefrontExact, Tile, ColumnDone
<1>2. Emptied(b, row) <=> \/ Restarting(b, cycle)
                          \/ /\ cycle \in ComputesOn(b)
                             /\ Place(cycle) >= RowCount
                             /\ Place(cycle) % RowCount = row
  BY EmptiedIs DEF WavefrontExact
<1>3. RowCount \in Nat /\ RowCount > 0 /\ Place(d) \in Nat /\ row \in Row
  BY RowFacts, PlaceIs
<1>4. CASE d = cycle
  <2>1. k <= 0 /\ k \in Int
    BY <1>1, <1>4
  <2>2. SumUpTo(d, b, column, k) = Zero /\ CountUpTo(k) = 0
    BY <2>1, SumsNone, CountsGrow
  <2>3. ASSUME ~ Emptied(b, row)
        PROVE  sums[b][row][column] = Zero /\ counts[b][row][column] = 0
    <3>1. ~ Restarting(b, cycle) /\ Place(cycle) < RowCount
      BY <1>2, <1>3, <1>4, <2>3
    <3>2. row = Place(cycle)
      BY <1>3, <1>4, <3>1
    <3>3. cursor[b][0] = Cardinality(Reached(b, 0, cycle))
      BY ShapeFacts DEF WavefrontExact, BurstsExact, CursorAt, Tile
    <3>4. Reached(b, 0, cycle) = Before(cycle)
      <4>1. 0 \in Tile /\ cycle - 0 = cycle
        BY <1>1, ShapeFacts DEF Tile
      <4> QED
        BY <1>1, <1>4, <3>1, <4>1, ReachedIsBefore DEF WavefrontExact, BurstsExact
    <3>5. cursor[b][0] = Place(cycle)
      BY <3>3, <3>4, PlaceIs
    <3>6. row >= cursor[b][0]
      BY <1>3, <3>2, <3>5
    <3> HIDE DEF row
    <3> QED
      BY <1>3, <3>6 DEF WavefrontExact, SumsExact, SumsOfFree
  <2> HIDE DEF row, k
  <2> QED
    BY <2>2, <2>3 DEF BaseSums, BaseCounts, row, k
<1>5. CASE d < cycle
  <2>1. ~ Restarting(b, cycle)
    <3>1. cycle <= ColumnDone(d, Tiles - 1)
      BY <1>1 DEF ColumnDone
    <3> QED
      BY <1>5, <3>1 DEF Calm
  <2>2. ASSUME cycle \in ComputesOn(b)
        PROVE  Place(cycle) % RowCount # row
    <3>1. cycle <= cycle /\ cycle <= d + (2 * Tiles) - 2
      BY <1>1
    <3> QED
      BY <1>1, <1>5, <2>2, <3>1, Linked DEF WavefrontExact, BurstsExact
  <2>3. ~ Emptied(b, row)
    BY <1>2, <2>1, <2>2
  <2>4. /\ sums[b][row][column] = SumUpTo(d, b, column, k)
        /\ counts[b][row][column] = CountUpTo(k)
    BY <1>5 DEF WavefrontExact, SumsExact, SumsOfWorking
  <2> QED
    BY <2>3, <2>4 DEF BaseSums, BaseCounts
<1> QED
  BY <1>1, <1>4, <1>5

(* A compute in the middle of its work is alone on its row and column.      *)
LEMMA Alone ==
  ASSUME WavefrontExact, NEW b \in Buffer, NEW column \in Tile,
         NEW d \in ComputesOn(b), d <= cycle, cycle <= ColumnDone(d, column),
         Calm(b, cycle) \/ (column > 0 /\ d < cycle)
  PROVE  AtWork(b, Place(d) % RowCount, column, cycle)
           = {d} \cap {x \in {d} : cycle - d - column \in Tile}
<1>1. /\ d \in Int /\ cycle \in Int /\ column \in Int /\ column >= 0
      /\ column <= Tiles - 1 /\ Tiles \in Int
      /\ cycle <= d + Tiles - 1 + column
  BY ComputeCycles, ShapeFacts DEF WavefrontExact, Tile, ColumnDone
<1>2. ASSUME NEW c \in AtWork(b, Place(d) % RowCount, column, cycle)
      PROVE  c = d
  <2>1. /\ c \in ComputesOn(b) /\ Place(c) % RowCount = Place(d) % RowCount
        /\ c \in Int /\ cycle - c - column \in 0 .. Tiles - 1
    BY ComputeCycles DEF AtWork, Tile
  <2>2. /\ c <= cycle /\ cycle <= c + (2 * Tiles) - 2
        /\ cycle <= d + (2 * Tiles) - 2
        /\ column > 0 => c < cycle
    BY <1>1, <2>1
  <2> QED
    BY <1>1, <2>1, <2>2, OneRowEach DEF WavefrontExact, BurstsExact
<1>3. d \in AtWork(b, Place(d) % RowCount, column, cycle)
        <=> cycle - d - column \in Tile
  BY DEF AtWork
<1> QED
  BY <1>2, <1>3

(* The weight a compute meets at a tile is the one that all tiles of the    *)
(* column use.                                                              *)
LEMMA WeightMet ==
  ASSUME WavefrontExact, NEW b \in Buffer, NEW column \in Tile, NEW lane \in Lane,
         NEW d \in ComputesOn(b), cycle - d - column \in Tile
  PROVE  Weight(b, cycle - d - column, column)[lane] = WeightUsed(b, column, lane, d)
<1> DEFINE t == cycle - d - column
<1>1. d \in Int /\ cycle \in Int /\ column \in Int
  BY ComputeCycles, ShapeFacts DEF WavefrontExact, Tile
<1>2. cycle - t = d + column
  BY <1>1
<1>3. t \in Tile
  OBVIOUS
<1> HIDE DEF t
<1>4. Weight(b, t, column)
        = [l \in Lane |-> LatestBy(IWs(b, column, l), cycle - t)]
  BY <1>3, WeightSeen DEF WavefrontExact
<1>5. {c \in IWs(b, column, lane) : c <= d + column}
        = {c \in LoadsOf("IW", b) :
              /\ program.load[c].column = column
              /\ lane \in program.load[c].inner
              /\ c <= d + column}
  BY DEF IWs
<1> QED
  BY <1>2, <1>4, <1>5 DEF LatestBy, WeightUsed, t

(* The sums of a compute at work, as the tick leaves them.                  *)
LEMMA SumsSeen ==
  ASSUME WavefrontExact, NEW b \in Buffer, NEW column \in Tile,
         NEW d \in ComputesOn(b), d <= cycle, cycle <= ColumnDone(d, column),
         Calm(b, cycle)
  PROVE  /\ Sums(b, Place(d) % RowCount, column)
              = SumUpTo(d, b, column, (cycle - d - column) + 1)
         /\ Counts(b, Place(d) % RowCount, column)
              = CountUpTo((cycle - d - column) + 1)
<1> DEFINE row == Place(d) % RowCount
           k == cycle - d - column
           Added == [lane \in Lane |->
                        {<<e.tile, e.activation, Weight(b, e.tile, column)[lane]>> :
                           e \in Working(b, row, column)}]
<1>1. k \in Int /\ k <= Tiles - 1 /\ Tiles \in Nat
  BY ComputeCycles, ShapeFacts DEF WavefrontExact, Tile, ColumnDone
<1>2. /\ BaseSums(b, row, column) = SumUpTo(d, b, column, k)
      /\ BaseCounts(b, row, column) = CountUpTo(k)
  BY BaseSeen
<1>3. /\ Sums(b, row, column) = Plus(BaseSums(b, row, column), Added)
      /\ Counts(b, row, column)
           = BaseCounts(b, row, column) + Cardinality(Working(b, row, column))
  BY SumsAre
<1>4. Working(b, row, column)
        = {Element(c, cycle - c - column, column) :
             c \in AtWork(b, row, column, cycle)}
  BY WorkingIs DEF WavefrontExact
<1>5. CASE k >= 0
  <2>1. k \in Tile
    BY <1>1, <1>5 DEF Tile
  <2>2. AtWork(b, row, column, cycle) = {d}
    BY <2>1, Alone
  <2>3. Working(b, row, column) = {Element(d, k, column)}
    BY <1>4, <2>2
  <2>4. Cardinality(Working(b, row, column)) = 1
    BY <2>3, FS_Singleton
  <2>5. Element(d, k, column).tile = k /\ Element(d, k, column).activation = d
    BY DEF Element
  <2>6. ASSUME NEW lane \in Lane
        PROVE  {<<e.tile, e.activation, Weight(b, e.tile, column)[lane]>> :
                           e \in Working(b, row, column)}
                 = {<<k, d, WeightUsed(b, column, lane, d)>>}
    <3>1. Weight(b, k, column)[lane] = WeightUsed(b, column, lane, d)
      BY <2>1, WeightMet
    <3> HIDE DEF k
    <3> QED
      BY <2>3, <2>5, <3>1
  <2>7. Added = [lane \in Lane |-> {<<k, d, WeightUsed(b, column, lane, d)>>}]
    BY <2>6
  <2> HIDE DEF Added, k, row
  <2>8. SumUpTo(d, b, column, k + 1)
          = Plus(SumUpTo(d, b, column, k),
                 [lane \in Lane |-> {<<k, d, WeightUsed(b, column, lane, d)>>}])
    BY <2>1, SumsMore
  <2>9. CountUpTo(k + 1) = CountUpTo(k) + 1
    BY <1>1, <1>5, CountsGrow
  <2> QED
    BY <1>2, <1>3, <2>4, <2>7, <2>8, <2>9 DEF k, row
<1>6. CASE k < 0
  <2>1. k \notin Tile
    BY <1>1, <1>6, ShapeFacts DEF Tile
  <2>2. AtWork(b, row, column, cycle) = {}
    BY <2>1, Alone
  <2>3. Working(b, row, column) = {}
    BY <1>4, <2>2
  <2>4. Cardinality(Working(b, row, column)) = 0
    BY <2>3, FS_EmptySet
  <2>5. Added = Zero
    BY <2>3 DEF Zero
  <2> HIDE DEF Added, k, row
  <2>6. /\ SumUpTo(d, b, column, k) = Zero
        /\ SumUpTo(d, b, column, k + 1) = Zero
        /\ CountUpTo(k + 1) = 0 /\ CountUpTo(k) = 0
    <3>1. k + 1 \in Int /\ k + 1 <= 0 /\ k \in Int /\ k <= 0
      BY <1>1, <1>6
    <3> QED
      BY <3>1, SumsNone, CountsGrow
  <2>7. Plus(Zero, Zero) = Zero
    BY DEF Plus, Zero
  <2> QED
    BY <1>2, <1>3, <2>4, <2>5, <2>6, <2>7 DEF k, row
<1> QED
  BY <1>1, <1>5, <1>6

(* The row of a place is a row, and not above the place.                    *)
LEMMA RowOf ==
  ASSUME NEW d
  PROVE  /\ Place(d) % RowCount \in Row
         /\ Place(d) % RowCount \in Nat
         /\ Place(d) % RowCount <= Place(d)
<1>1. Place(d) \in Nat /\ RowCount \in Nat /\ RowCount > 0
      /\ Row = 0 .. RowCount - 1
  BY PlaceIs, RowFacts
<1>2. PICK x \in Nat : x = Place(d)
  BY <1>1
<1>3. PICK m \in Nat : m = RowCount /\ m > 0
  BY <1>1
<1>4. /\ x % m \in 0 .. m - 1 /\ x \div m \in Nat
      /\ x = (x \div m) * m + (x % m)
      /\ (x \div m) * m \in Nat
  BY <1>3
<1>5. x % m \in 0 .. m - 1 /\ x % m <= x
  BY <1>4
<1> QED
  BY <1>1, <1>2, <1>3, <1>5

(* A compute whose burst goes on has its place below the cursor.            *)
LEMMA PlaceBelow ==
  ASSUME NEW b, NEW n \in Int, NEW d \in ComputesOn(b), d < n, Alive(b, d, n)
  PROVE  Place(d) < Cardinality(Reached(b, 0, n))
<1>1. d \in Int /\ \A e \in ComputesOn(b) : e \in Int
  BY ComputeCycles
<1>2. At(d).buffer = b
  BY ComputeCycles
<1>3. ASSUME NEW e \in Before(d)
      PROVE  e \in Reached(b, 0, n)
  <2>1. e \in ComputesOn(b) /\ e \in Int /\ e < d /\ Chain(b, e, d)
    BY <1>1, <1>2, <1>3 DEF Before
  <2>2. ASSUME NEW f \in ComputesOn(b), e <= f, f < n
        PROVE  Chain(b, e, f)
    <3>1. f \in Int
      BY <1>1
    <3>2. CASE f <= d
      BY <1>1, <2>1, <2>2, <3>1, <3>2, Chains
    <3>3. CASE d <= f
      <4>1. Chain(b, d, f)
        BY <2>2, <3>3 DEF Alive
      <4> QED
        BY <1>1, <2>1, <3>1, <3>3, <4>1, Chains
    <3> QED
      BY <1>1, <3>1, <3>2, <3>3
  <2>3. e + 0 < n
    BY <1>1, <2>1
  <2> QED
    BY <2>1, <2>2, <2>3 DEF Reached, Alive
<1>4. d \in Reached(b, 0, n)
  <2>1. d + 0 < n
    BY <1>1
  <2> QED
    BY <2>1 DEF Reached
<1>5. d \notin Before(d)
  BY <1>1 DEF Before
<1>6. IsFiniteSet(Before(d)) /\ Cardinality(Before(d)) = Place(d) /\ Place(d) \in Nat
  BY PlaceIs
<1>7. Cardinality(Before(d) \cup {d}) = Place(d) + 1
  BY <1>5, <1>6, FS_AddElement
<1>8. Before(d) \cup {d} \subseteq Reached(b, 0, n)
  BY <1>3, <1>4
<1>9. Cardinality(Before(d) \cup {d}) <= Cardinality(Reached(b, 0, n))
  BY <1>8, ReachedFinite, FS_Subset
<1> QED
  BY <1>6, <1>7, <1>9, ReachedFinite

(* Rows that no compute of the burst has come to stay empty.                *)
LEMMA FreeSeen ==
  ASSUME WavefrontExact, ~ (At(cycle).op = "Compute" /\ TooSoon(cycle)),
         NEW b \in Buffer, NEW column \in Tile, NEW row \in Row,
         row >= Cardinality(Reached(b, 0, cycle + 1))
  PROVE  Sums(b, row, column) = Zero /\ Counts(b, row, column) = 0
<1>1. /\ cycle \in Int /\ cycle \in 1 .. Horizon /\ program \in Programs
      /\ RowsExact(cycle) /\ BurstsExact(cycle) /\ FrontExact(cycle)
      /\ NoneCut(cycle)
  BY ShapeFacts DEF WavefrontExact, BurstsExact
<1>2. row \in Int /\ column \in Int /\ 0 <= column /\ column <= Tiles - 1
      /\ Tiles \in Int
  BY RowFacts, ShapeFacts DEF Tile
<1>3. AtWork(b, row, column, cycle) = {}
  <2>1. SUFFICES ASSUME NEW d \in AtWork(b, row, column, cycle)
                 PROVE  FALSE
    OBVIOUS
  <2>2. /\ d \in ComputesOn(b) /\ d \in Int
        /\ cycle - d - column \in 0 .. Tiles - 1
        /\ Place(d) % RowCount = row
    BY ComputeCycles DEF AtWork, Tile
  <2>3. d < cycle + 1 /\ cycle + 1 <= d + (2 * Tiles) - 1 /\ cycle + 1 \in Int
    BY <1>1, <1>2, <2>2
  <2>4. NoneCut(cycle + 1)
    BY <1>1, NoneCutStep
  <2>5. Alive(b, d, cycle + 1)
    BY <2>2, <2>3, <2>4 DEF NoneCut
  <2>6. Place(d) < Cardinality(Reached(b, 0, cycle + 1))
    BY <2>2, <2>3, <2>5, PlaceBelow
  <2>7. row <= Place(d) /\ Place(d) \in Nat
    BY <2>2, RowOf, PlaceIs
  <2>8. Cardinality(Reached(b, 0, cycle + 1)) \in Nat
    BY ReachedFinite
  <2> QED
    BY <1>2, <2>6, <2>7, <2>8
<1>4. Working(b, row, column) = {}
  BY <1>1, <1>3, WorkingIs
<1>5. Cardinality(Working(b, row, column)) = 0
  BY <1>4, FS_EmptySet
<1>6. [lane \in Lane |->
          {<<e.tile, e.activation, Weight(b, e.tile, column)[lane]>> :
             e \in Working(b, row, column)}] = Zero
  BY <1>4 DEF Zero
<1>7. BaseSums(b, row, column) = Zero /\ BaseCounts(b, row, column) = 0
  <2>1. CASE Emptied(b, row)
    BY <2>1 DEF BaseSums, BaseCounts
  <2>2. CASE ~ Emptied(b, row)
    <3>1. ~ Restarting(b, cycle)
      BY <1>1, <2>2, EmptiedIs
    <3>2. 0 \in Tile
      BY ShapeFacts DEF Tile
    <3>3. Reached(b, 0, cycle) \subseteq Reached(b, 0, cycle + 1)
      BY <1>1, <3>1, <3>2, ReachedStep
    <3>4. Cardinality(Reached(b, 0, cycle)) <= Cardinality(Reached(b, 0, cycle + 1))
      BY <3>3, ReachedFinite, FS_Subset
    <3>5. cursor[b][0] = Cardinality(Reached(b, 0, cycle))
      BY <1>1, <3>2 DEF BurstsExact, CursorAt
    <3>6. row >= cursor[b][0]
      BY <1>2, <3>4, <3>5, ReachedFinite
    <3>7. sums[b][row][column] = Zero /\ counts[b][row][column] = 0
      BY <3>6 DEF WavefrontExact, SumsExact, SumsOfFree
    <3> QED
      BY <2>2, <3>7 DEF BaseSums, BaseCounts
  <2> QED
    BY <2>1, <2>2
<1>8. Plus(Zero, Zero) = Zero
  BY DEF Plus, Zero
<1> QED
  BY <1>5, <1>6, <1>7, <1>8, SumsAre

(* A tick keeps the sums.                                                   *)
LEMMA SumsStep ==
  ASSUME WavefrontExact, ~ (At(cycle).op = "Compute" /\ TooSoon(cycle)), Tick
  PROVE  SumsExact(cycle)'
<1>1. /\ cycle \in Int /\ cycle \in 1 .. Horizon /\ program \in Programs
      /\ RowsExact(cycle) /\ BurstsExact(cycle)
  BY ShapeFacts DEF WavefrontExact
<1>2. /\ program' = program /\ cycle' = cycle + 1
      /\ sums' = [b \in Buffer |-> [row \in Row |->
                    [c \in Tile |-> Sums(b, row, c)]]]
      /\ counts' = [b \in Buffer |-> [row \in Row |->
                      [c \in Tile |-> Counts(b, row, c)]]]
      /\ cursor' = [b \in Buffer |-> [t \in Tile |->
                      NextRow(b, t) + (IF t \in ComputingTiles
                                          /\ Compute(t).buffer = b
                                         THEN 1 ELSE 0)]]
  BY DEF Tick
<1>3. ASSUME NEW b \in Buffer, NEW column \in Tile, NEW d \in ComputesOn(b),
             d < cycle + 1, cycle + 1 <= ColumnDone(d, column)
      PROVE  /\ sums'[b][Place(d) % RowCount][column]
                  = SumUpTo(d, b, column, (cycle + 1) - d - column)
             /\ counts'[b][Place(d) % RowCount][column]
                  = CountUpTo((cycle + 1) - d - column)
  <2>1. d \in Int /\ column \in Int
    BY ComputeCycles, ShapeFacts DEF Tile
  <2>2. d <= cycle /\ cycle <= ColumnDone(d, column)
        /\ (cycle + 1) - d - column = (cycle - d - column) + 1
    BY <1>1, <1>3, <2>1, ShapeFacts DEF ColumnDone
  <2>3. Calm(b, cycle)
    BY <1>1, CalmIs
  <2>4. /\ Sums(b, Place(d) % RowCount, column)
              = SumUpTo(d, b, column, (cycle - d - column) + 1)
        /\ Counts(b, Place(d) % RowCount, column)
              = CountUpTo((cycle - d - column) + 1)
    BY <2>2, <2>3, SumsSeen
  <2>5. Place(d) % RowCount \in Row
    BY RowOf
  <2> QED
    BY <1>2, <2>2, <2>4, <2>5
<1>4. ASSUME NEW b \in Buffer, NEW column \in Tile, NEW row \in Row,
             row >= cursor'[b][0]
      PROVE  sums'[b][row][column] = Zero /\ counts'[b][row][column] = 0
  <2>1. 0 \in Tile
    BY ShapeFacts DEF Tile
  <2>2. cursor'[b][0] = Cardinality(Reached(b, 0, cycle + 1))
    BY <1>1, <1>2, <2>1, CursorStep
  <2>3. Sums(b, row, column) = Zero /\ Counts(b, row, column) = 0
    BY <1>4, <2>2, FreeSeen
  <2> QED
    BY <1>2, <2>3
<1>5. SumsOfFree'
  BY <1>4 DEF SumsOfFree
<1>6. SumsOfWorking(cycle)'
  <2>1. /\ \A b : ComputesOn(b)' = ComputesOn(b)
        /\ \A c : Place(c)' = Place(c)
        /\ \A d, b, column, k : SumUpTo(d, b, column, k)' = SumUpTo(d, b, column, k)
    BY <1>2, BurstFrames
  <2> QED
    BY <1>2, <1>3, <2>1 DEF SumsOfWorking
<1> QED
  BY <1>5, <1>6 DEF SumsExact

(* Where an element of the wavefront goes when its column is done.          *)
LEMMA ElementGoes ==
  ASSUME NEW d, NEW t, NEW column
  PROVE  /\ Destination(Element(d, t, column)) = <<RowAddress(d), column>>
         /\ Element(d, t, column).buffer = At(d).buffer
         /\ Element(d, t, column).row = Place(d) % RowCount
         /\ Element(d, t, column).column = column
         /\ Element(d, t, column).stream = At(d).stream
         /\ Element(d, t, column).clear = At(d).clear
<1>1. PICK e : e = Element(d, t, column)
  OBVIOUS
<1>2. /\ e.buffer = At(d).buffer /\ e.row = Place(d) % RowCount
      /\ e.column = column /\ e.stream = At(d).stream /\ e.clear = At(d).clear
      /\ e.address = At(d).address /\ e.stride = At(d).stride
  BY <1>1 DEF Element
<1>3. RowAddress(d) = At(d).address + (Place(d) % RowCount) * At(d).stride
  BY DEF RowAddress, RowCount
<1>4. Destination(e) = <<RowAddress(d), column>>
  BY <1>2, <1>3 DEF Destination
<1> QED
  BY <1>1, <1>2, <1>4

(* The computes whose columns are done in cycle n.                          *)
DoneIn(n) == {y \in Issued("Compute") \X Tile : ColumnDone(y[1], y[2]) = n}

(* A column that is done has met every tile.                                *)
LEMMA DoneWhole ==
  ASSUME WavefrontExact, ~ (At(cycle).op = "Compute" /\ TooSoon(cycle)),
         NEW y \in DoneIn(cycle)
  PROVE  /\ Sums(At(y[1]).buffer, Place(y[1]) % RowCount, y[2])
              = SumUpTo(y[1], At(y[1]).buffer, y[2], Tiles)
         /\ Counts(At(y[1]).buffer, Place(y[1]) % RowCount, y[2]) = Tiles
<1>1. /\ program \in Programs /\ cycle \in Int
  BY ShapeFacts DEF WavefrontExact
<1>2. PICK d, column, b : d = y[1] /\ column = y[2] /\ b = At(d).buffer
  OBVIOUS
<1>3. /\ d \in Issued("Compute") /\ column \in Tile /\ ColumnDone(d, column) = cycle
      /\ d \in Int /\ column \in Int /\ column >= 0
      /\ b \in Buffer /\ d \in ComputesOn(b) /\ Tiles \in Nat /\ Tiles >= 2
  BY <1>1, <1>2, ComputeFields, ComputeCycles, ShapeFacts DEF DoneIn, Tile
<1>4. /\ d <= cycle /\ cycle <= ColumnDone(d, column)
      /\ (cycle - d - column) + 1 = Tiles
  BY <1>1, <1>3 DEF ColumnDone
<1>5. Calm(b, cycle)
  BY <1>1, CalmIs
<1>6. /\ Sums(b, Place(d) % RowCount, column) = SumUpTo(d, b, column, Tiles)
      /\ Counts(b, Place(d) % RowCount, column) = CountUpTo(Tiles)
  BY <1>3, <1>4, <1>5, SumsSeen
<1>7. CountUpTo(Tiles) = Tiles
  BY <1>3 DEF CountUpTo
<1> QED
  BY <1>2, <1>6, <1>7

(* A column is taken before it is whole exactly when a buffer is restarted  *)
(* too soon: the contributions counted are then those of one tile.          *)
LEMMA UndrainedSame ==
  ASSUME WavefrontExact
  PROVE  Checks.undrained <=> Broken(cycle).undrained
<1>1. /\ cycle \in Int /\ cycle \in 1 .. Horizon /\ program \in Programs
      /\ RowsExact(cycle) /\ BurstsExact(cycle) /\ FrontExact(cycle)
      /\ NoneCut(cycle)
  BY ShapeFacts DEF WavefrontExact, BurstsExact
<1>2. Emitting = {Element(x[1], Tiles - 1, x[2]) : x \in DoneIn(cycle)}
  BY <1>1, EmittingIs DEF DoneIn
<1>3. Checks.undrained
        <=> \E e \in Emitting : Counts(e.buffer, e.row, e.column) < Tiles
  BY DEF Checks
<1>4. Checks.undrained
        <=> \E x \in DoneIn(cycle) :
              Counts(At(x[1]).buffer, Place(x[1]) % RowCount, x[2]) < Tiles
  <2>1. \A x : /\ Element(x[1], Tiles - 1, x[2]).buffer = At(x[1]).buffer
               /\ Element(x[1], Tiles - 1, x[2]).row = Place(x[1]) % RowCount
               /\ Element(x[1], Tiles - 1, x[2]).column = x[2]
    BY ElementGoes
  <2> QED
    BY <1>2, <1>3, <2>1
<1>5. Broken(cycle).undrained <=> At(cycle).op = "Compute" /\ TooSoon(cycle)
  BY DEF Broken
<1>6. ASSUME ~ (At(cycle).op = "Compute" /\ TooSoon(cycle)),
             NEW x \in DoneIn(cycle)
      PROVE  ~ (Counts(At(x[1]).buffer, Place(x[1]) % RowCount, x[2]) < Tiles)
  BY <1>6, DoneWhole, ShapeFacts
<1>7. ASSUME At(cycle).op = "Compute", TooSoon(cycle)
      PROVE  \E x \in DoneIn(cycle) :
               Counts(At(x[1]).buffer, Place(x[1]) % RowCount, x[2]) < Tiles
  <2>1. PICK b : b = At(cycle).buffer
    OBVIOUS
  <2>2. /\ cycle \in Issued("Compute") /\ cycle \in ComputesOn(b) /\ b \in Buffer
    BY <1>1, <1>7, <2>1, ComputeFields, ComputeCycles DEF Issued, At
  <2>3. PICK d \in ComputesOn(b) : d < cycle /\ cycle <= ColumnDone(d, Tiles - 1)
    BY <1>7, <2>1 DEF TooSoon
  <2>4. ~ Busy(b, cycle - 1)
    BY <1>7, <2>1 DEF TooSoon
  <2>5. d \in Int /\ d \in Issued("Compute") /\ At(d).buffer = b
    BY ComputeCycles
  <2>6. ~ (cycle - 1 - d \in Tile)
    BY <2>4 DEF Busy
  <2>7. PICK column : column = cycle - d - (Tiles - 1)
    OBVIOUS
  <2>8. column \in Tile /\ column > 0 /\ ColumnDone(d, column) = cycle
        /\ cycle - d - column = Tiles - 1
    BY <1>1, <2>3, <2>5, <2>6, <2>7, ShapeFacts DEF Tile, ColumnDone
  <2>9. Restarting(b, cycle)
    BY <2>2, <2>4 DEF Restarting
  <2>10. Emptied(b, Place(d) % RowCount)
    BY <1>1, <2>2, <2>9, EmptiedIs
  <2>11. AtWork(b, Place(d) % RowCount, column, cycle) = {d}
    <3>1. d <= cycle /\ cycle <= ColumnDone(d, column)
      BY <1>1, <2>3, <2>5, <2>8
    <3>2. Tiles - 1 \in Tile
      BY ShapeFacts DEF Tile
    <3> QED
      BY <2>2, <2>3, <2>8, <3>1, <3>2, Alone
  <2>12. Working(b, Place(d) % RowCount, column)
           = {Element(d, cycle - d - column, column)}
    BY <1>1, <2>2, <2>8, <2>11, WorkingIs
  <2>13. Cardinality(Working(b, Place(d) % RowCount, column)) = 1
    BY <2>12, FS_Singleton
  <2>14. Counts(b, Place(d) % RowCount, column) = 1
    BY <2>10, <2>13 DEF Counts
  <2>15. <<d, column>> \in DoneIn(cycle)
    BY <2>5, <2>8 DEF DoneIn
  <2> QED
    BY <2>5, <2>14, <2>15, ShapeFacts
<1> QED
  BY <1>4, <1>5, <1>6, <1>7

(* A column that is done goes outside the accumulator when its row address  *)
(* is.                                                                      *)
LEMMA OutsideSame ==
  ASSUME WavefrontExact
  PROVE  Checks.outside <=> Broken(cycle).outside
<1>1. Emitting = {Element(x[1], Tiles - 1, x[2]) : x \in DoneIn(cycle)}
  BY EmittingIs DEF DoneIn, WavefrontExact
<1>2. Checks.outside <=> \E e \in Emitting : Destination(e)[1] >= AccRows
  BY DEF Checks
<1>3. Broken(cycle).outside
        <=> \E c \in Issued("Compute"), column \in Tile :
              ColumnDone(c, column) = cycle /\ RowAddress(c) >= AccRows
  BY DEF Broken
<1>4. \A x : Destination(Element(x[1], Tiles - 1, x[2]))[1] = RowAddress(x[1])
  BY ElementGoes
<1>5. Checks.outside <=> \E x \in DoneIn(cycle) : RowAddress(x[1]) >= AccRows
  BY <1>1, <1>2, <1>4
<1>6. (\E x \in DoneIn(cycle) : RowAddress(x[1]) >= AccRows)
        <=> \E c \in Issued("Compute"), column \in Tile :
              ColumnDone(c, column) = cycle /\ RowAddress(c) >= AccRows
  <2>1. ASSUME NEW c \in Issued("Compute"), NEW column \in Tile,
               ColumnDone(c, column) = cycle
        PROVE  \E x \in DoneIn(cycle) : x[1] = c
    <3>1. <<c, column>> \in DoneIn(cycle)
      BY <2>1 DEF DoneIn
    <3> QED
      BY <3>1
  <2>2. \A x \in DoneIn(cycle) :
          /\ x[1] \in Issued("Compute") /\ x[2] \in Tile
          /\ ColumnDone(x[1], x[2]) = cycle
    BY DEF DoneIn
  <2> QED
    BY <2>1, <2>2
<1> QED
  BY <1>3, <1>5, <1>6

-----------------------------------------------------------------------------
(* What a segment holds                                                     *)

(* What is added to a segment, and whether it is cleared, at a moment.      *)
AddsAt(segment, m) == {a \in Adds : a.segment = segment /\ a.moment = m}
Added(segment, m) == [lane \in Lane |-> UNION {a.value[lane] : a \in AddsAt(segment, m)}]
ClearedAt(segment, m) == \E c \in Clears : c.segment = segment /\ c.moment = m

(* When waves, columns and reads are done.                                  *)
LEMMA DoneCycles ==
  ASSUME program \in Programs
  PROVE  /\ \A w \in Issued("Wave") : WaveDone(w) \in Int /\ w \in Int
               /\ WaveDone(w) > w /\ w >= 1
         /\ \A c \in Issued("Compute") : \A column \in Tile :
               ColumnDone(c, column) \in Int /\ ColumnDone(c, column) > c
                 /\ c \in Int /\ c >= 1
         /\ \A r \in Issued("Read") : \A t \in Tile :
               r + t \in Int /\ r \in Int /\ r >= 1 /\ t \in Int /\ t >= 0
<1>1. \A w \in Issued("Wave") : WaveDone(w) \in Int /\ w \in Int
               /\ WaveDone(w) > w /\ w >= 1
  BY StageFacts, WaveFields
<1>2. \A c \in Issued("Compute") : \A column \in Tile :
               ColumnDone(c, column) \in Int /\ ColumnDone(c, column) > c
                 /\ c \in Int /\ c >= 1
  BY ComputeFields, ShapeFacts DEF ColumnDone, Tile
<1>3. \A r \in Issued("Read") : \A t \in Tile :
               r + t \in Int /\ r \in Int /\ r >= 1 /\ t \in Int /\ t >= 0
  BY ReadFields, ShapeFacts DEF Tile
<1> QED
  BY <1>1, <1>2, <1>3

(* Waves add in the first moment of a cycle, computes in the second.        *)
LEMMA AddMoments ==
  ASSUME program \in Programs, NEW a \in Adds
  PROVE  /\ a.moment \in Int
         /\ a \in WaveAdds => \E n \in Int : n > 1 /\ a.moment = 4 * n
         /\ a \in ComputeAdds => \E n \in Int : n > 1 /\ a.moment = 4 * n + 1
<1>1. ASSUME a \in WaveAdds
      PROVE  \E n \in Int : n > 1 /\ a.moment = 4 * n
  <2>1. PICK w \in Issued("Wave"), column \in IsColumn :
          a.moment = WavesAt(WaveDone(w))
    BY <1>1 DEF WaveAdds
  <2> QED
    BY <2>1, DoneCycles DEF WavesAt
<1>2. ASSUME a \in ComputeAdds
      PROVE  \E n \in Int : n > 1 /\ a.moment = 4 * n + 1
  <2>1. PICK c \in Issued("Compute"), column \in Tile :
          a.moment = ComputesAt(ColumnDone(c, column))
    BY <1>2 DEF ComputeAdds
  <2> QED
    BY <2>1, DoneCycles DEF ComputesAt
<1> QED
  BY <1>1, <1>2 DEF Adds

(* Nothing is cleared in the last moment of a cycle.                        *)
LEMMA ClearMoments ==
  ASSUME program \in Programs, NEW c \in Clears
  PROVE  /\ c.moment \in Int
         /\ \E n \in Int : c.moment \in {4 * n, 4 * n + 1, 4 * n + 2}
<1>1. \/ \E x \in Issued("Compute"), column \in Tile :
           c.moment = ComputesAt(ColumnDone(x, column))
      \/ \E w \in Issued("Wave") : c.moment = WavesAt(WaveDone(w))
      \/ \E r \in Issued("Read"), t \in Tile : c.moment = ReadsAt(r + t)
  BY DEF Clears
<1> QED
  BY <1>1, DoneCycles DEF ComputesAt, WavesAt, ReadsAt

(* What a moment changes of what a segment holds.                           *)
LEMMA HeldStep ==
  ASSUME program \in Programs, NEW segment, NEW m \in Int
  PROVE  Held(segment, m)
           = Plus(IF ClearedAt(segment, m - 1) THEN Zero ELSE Held(segment, m - 1),
                  Added(segment, m))
<1> DEFINE Live(n) ==
             {a \in {x \in Adds : x.segment = segment /\ x.moment <= n} :
                \A c \in {y \in Clears : y.segment = segment /\ y.moment < n} :
                   c.moment < a.moment}
<1>1. \A n : Held(segment, n) = [lane \in Lane |-> UNION {a.value[lane] : a \in Live(n)}]
  BY DEF Held
<1>2. ASSUME NEW a \in Adds, a.segment = segment
      PROVE  a \in Live(m)
               <=> \/ a.moment = m
                   \/ ~ ClearedAt(segment, m - 1) /\ a \in Live(m - 1)
  <2>1. a.moment \in Int
    BY AddMoments
  <2>2. \A c \in Clears : c.moment \in Int
    BY ClearMoments
  <2>3. CASE a.moment = m
    BY <1>2, <2>1, <2>2, <2>3
  <2>4. CASE a.moment < m
    <3>1. \A c \in Clears : c.moment < m <=> c.moment < m - 1 \/ c.moment = m - 1
      BY <2>2
    <3>2. a.moment <= m /\ a.moment <= m - 1 /\ a.moment # m
          /\ ~ (m - 1 < a.moment)
      BY <2>1, <2>4
    <3>3. a \in Live(m) <=> \A c \in Clears :
                              c.segment = segment /\ c.moment < m => c.moment < a.moment
      BY <1>2, <3>2
    <3>4. a \in Live(m - 1) <=> \A c \in Clears :
                              c.segment = segment /\ c.moment < m - 1 => c.moment < a.moment
      BY <1>2, <3>2
    <3> HIDE DEF Live
    <3> QED
      BY <3>1, <3>2, <3>3, <3>4 DEF ClearedAt
  <2>5. CASE a.moment > m
    BY <2>1, <2>5
  <2> QED
    BY <2>1, <2>3, <2>4, <2>5
<1>3. Live(m) = AddsAt(segment, m)
                  \cup (IF ClearedAt(segment, m - 1) THEN {} ELSE Live(m - 1))
  <2>1. \A n : \A a \in Live(n) : a \in Adds /\ a.segment = segment
    OBVIOUS
  <2> HIDE DEF Live
  <2> QED
    BY <1>2, <2>1 DEF AddsAt
<1> HIDE DEF Live
<1>4. \A lane \in Lane :
        UNION {a.value[lane] : a \in Live(m)}
          = (IF ClearedAt(segment, m - 1) THEN {}
             ELSE UNION {a.value[lane] : a \in Live(m - 1)})
               \cup UNION {a.value[lane] : a \in AddsAt(segment, m)}
  BY <1>3
<1>5. CASE ClearedAt(segment, m - 1)
  BY <1>1, <1>4, <1>5 DEF Plus, Zero, Added
<1>6. CASE ~ ClearedAt(segment, m - 1)
  <2>1. \A lane \in Lane : Held(segment, m)[lane]
          = Held(segment, m - 1)[lane] \cup Added(segment, m)[lane]
    <3>1. \A lane \in Lane :
            /\ Held(segment, m)[lane] = UNION {a.value[lane] : a \in Live(m)}
            /\ Held(segment, m - 1)[lane] = UNION {a.value[lane] : a \in Live(m - 1)}
      BY <1>1
    <3>2. \A lane \in Lane :
            Added(segment, m)[lane] = UNION {a.value[lane] : a \in AddsAt(segment, m)}
      BY DEF Added
    <3> QED
      BY <1>4, <1>6, <3>1, <3>2
  <2>2. Held(segment, m) = [lane \in Lane |-> Held(segment, m)[lane]]
    BY <1>1
  <2> QED
    BY <1>6, <2>1, <2>2 DEF Plus
<1> QED
  BY <1>5, <1>6

(* Nothing is added after the computes of a cycle, nothing cleared at its   *)
(* end.                                                                     *)
LEMMA Quiet ==
  ASSUME program \in Programs, NEW segment, NEW n \in Int
  PROVE  /\ Added(segment, ReadsAt(n)) = Zero
         /\ Added(segment, EndOf(n)) = Zero
         /\ ~ ClearedAt(segment, EndOf(n))
<1>1. ASSUME NEW a \in Adds
      PROVE  a.moment # ReadsAt(n) /\ a.moment # EndOf(n)
  BY AddMoments DEF Adds, ReadsAt, EndOf
<1>2. AddsAt(segment, ReadsAt(n)) = {} /\ AddsAt(segment, EndOf(n)) = {}
  BY <1>1 DEF AddsAt
<1>3. ~ ClearedAt(segment, EndOf(n))
  BY ClearMoments DEF ClearedAt, EndOf
<1> QED
  BY <1>2, <1>3 DEF Added, Zero

(* Nothing is added.                                                        *)
LEMMA PlusZero ==
  ASSUME NEW segment, NEW m
  PROVE  /\ Plus(Held(segment, m), Zero) = Held(segment, m)
         /\ Plus(Zero, Zero) = Zero
<1>1. PICK h : h = [lane \in Lane |-> Held(segment, m)[lane]]
  OBVIOUS
<1>2. Held(segment, m) = h
  BY <1>1 DEF Held
<1> QED
  BY <1>1, <1>2 DEF Plus, Zero

(* A cycle's four moments, from one end to the next.                        *)
LEMMA HeldCycle ==
  ASSUME program \in Programs, NEW segment, NEW n \in Int
  PROVE  /\ Held(segment, WavesAt(n))
              = Plus(Held(segment, EndOf(n - 1)), Added(segment, WavesAt(n)))
         /\ Held(segment, ComputesAt(n))
              = Plus(IF ClearedAt(segment, WavesAt(n)) THEN Zero
                       ELSE Held(segment, WavesAt(n)),
                     Added(segment, ComputesAt(n)))
         /\ Held(segment, ReadsAt(n))
              = IF ClearedAt(segment, ComputesAt(n)) THEN Zero
                  ELSE Held(segment, ComputesAt(n))
         /\ Held(segment, EndOf(n))
              = IF ClearedAt(segment, ReadsAt(n)) THEN Zero
                  ELSE Held(segment, ReadsAt(n))
<1>1. /\ WavesAt(n) \in Int /\ ComputesAt(n) \in Int /\ ReadsAt(n) \in Int
      /\ EndOf(n) \in Int
      /\ WavesAt(n) - 1 = EndOf(n - 1) /\ ComputesAt(n) - 1 = WavesAt(n)
      /\ ReadsAt(n) - 1 = ComputesAt(n) /\ EndOf(n) - 1 = ReadsAt(n)
  BY DEF WavesAt, ComputesAt, ReadsAt, EndOf
<1>2. ~ ClearedAt(segment, EndOf(n - 1))
  BY Quiet
<1>3. Added(segment, ReadsAt(n)) = Zero /\ Added(segment, EndOf(n)) = Zero
  BY Quiet
<1>4. Held(segment, WavesAt(n))
        = Plus(Held(segment, EndOf(n - 1)), Added(segment, WavesAt(n)))
  <2>1. Held(segment, WavesAt(n))
          = Plus(IF ClearedAt(segment, WavesAt(n) - 1) THEN Zero
                   ELSE Held(segment, WavesAt(n) - 1),
                 Added(segment, WavesAt(n)))
    BY <1>1, HeldStep
  <2> QED
    BY <1>1, <1>2, <2>1
<1>5. Held(segment, ComputesAt(n))
        = Plus(IF ClearedAt(segment, WavesAt(n)) THEN Zero
                 ELSE Held(segment, WavesAt(n)),
               Added(segment, ComputesAt(n)))
  <2>1. Held(segment, ComputesAt(n))
          = Plus(IF ClearedAt(segment, ComputesAt(n) - 1) THEN Zero
                   ELSE Held(segment, ComputesAt(n) - 1),
                 Added(segment, ComputesAt(n)))
    BY <1>1, HeldStep
  <2> QED
    BY <1>1, <2>1
<1>6. Held(segment, ReadsAt(n))
        = IF ClearedAt(segment, ComputesAt(n)) THEN Zero
            ELSE Held(segment, ComputesAt(n))
  <2>1. Held(segment, ReadsAt(n))
          = Plus(IF ClearedAt(segment, ReadsAt(n) - 1) THEN Zero
                   ELSE Held(segment, ReadsAt(n) - 1),
                 Added(segment, ReadsAt(n)))
    BY <1>1, HeldStep
  <2> QED
    BY <1>1, <1>3, <2>1, PlusZero
<1>7. Held(segment, EndOf(n))
        = IF ClearedAt(segment, ReadsAt(n)) THEN Zero
            ELSE Held(segment, ReadsAt(n))
  <2>1. Held(segment, EndOf(n))
          = Plus(IF ClearedAt(segment, EndOf(n) - 1) THEN Zero
                   ELSE Held(segment, EndOf(n) - 1),
                 Added(segment, EndOf(n)))
    BY <1>1, HeldStep
  <2> QED
    BY <1>1, <1>3, <2>1, PlusZero
<1> QED
  BY <1>4, <1>5, <1>6, <1>7

(* The products a wave and a compute bring to a segment.                    *)
WaveGives(w, column, lane) ==
    {<<t, ActivationUsed(w, column, lane), w>> : t \in Tile}
ComputeGives(c, column, lane) ==
    {<<t, c, WeightUsed(At(c).buffer, column, lane, c)>> : t \in Tile}

(* What waves add at a moment.                                              *)
LEMMA WaveAddsAre ==
  ASSUME program \in Programs, NEW segment, NEW n \in Int, NEW lane \in Lane, NEW p
  PROVE  p \in Added(segment, WavesAt(n))[lane]
           <=> \E w \in Issued("Wave"), column \in IsColumn :
                 /\ WaveDone(w) = n /\ Target(At(w), column) = segment
                 /\ p \in WaveGives(w, column, lane)
<1> DEFINE Add(w, column) ==
             [segment |-> Target(At(w), column), moment |-> WavesAt(WaveDone(w)),
              value |-> [l \in Lane |-> WaveGives(w, column, l)]]
<1>1. WaveAdds = {Add(w, column) : w \in Issued("Wave"), column \in IsColumn}
  BY DEF WaveAdds, WaveGives
<1>2. \A w, column : /\ Add(w, column).segment = Target(At(w), column)
                     /\ Add(w, column).moment = WavesAt(WaveDone(w))
                     /\ Add(w, column).value[lane] = WaveGives(w, column, lane)
  OBVIOUS
<1>3. \A a \in ComputeAdds : a.moment # WavesAt(n)
  BY AddMoments DEF Adds, WavesAt
<1>4. \A w \in Issued("Wave") : WavesAt(WaveDone(w)) = WavesAt(n) <=> WaveDone(w) = n
  BY DoneCycles DEF WavesAt
<1>5. p \in Added(segment, WavesAt(n))[lane]
        <=> \E a \in Adds : a.segment = segment /\ a.moment = WavesAt(n)
                              /\ p \in a.value[lane]
  BY DEF Added, AddsAt
<1>6. p \in Added(segment, WavesAt(n))[lane]
        <=> \E a \in WaveAdds : a.segment = segment /\ a.moment = WavesAt(n)
                                  /\ p \in a.value[lane]
  BY <1>3, <1>5 DEF Adds
<1> HIDE DEF Add
<1>7. (\E a \in WaveAdds : a.segment = segment /\ a.moment = WavesAt(n)
                             /\ p \in a.value[lane])
        <=> \E w \in Issued("Wave"), column \in IsColumn :
              /\ Target(At(w), column) = segment
              /\ WavesAt(WaveDone(w)) = WavesAt(n)
              /\ p \in WaveGives(w, column, lane)
  BY <1>1, <1>2
<1> QED
  BY <1>4, <1>6, <1>7

(* What computes add at a moment.                                           *)
LEMMA ComputeAddsAre ==
  ASSUME program \in Programs, NEW segment, NEW n \in Int, NEW lane \in Lane, NEW p
  PROVE  p \in Added(segment, ComputesAt(n))[lane]
           <=> \E y \in DoneIn(n) :
                 /\ <<RowAddress(y[1]), y[2]>> = segment
                 /\ p \in ComputeGives(y[1], y[2], lane)
<1> DEFINE Add(c, column) ==
             [segment |-> <<RowAddress(c), column>>,
              moment |-> ComputesAt(ColumnDone(c, column)),
              value |-> [l \in Lane |-> ComputeGives(c, column, l)]]
<1>1. ComputeAdds = {Add(c, column) : c \in Issued("Compute"), column \in Tile}
  BY DEF ComputeAdds, ComputeGives
<1>2. \A c, column : /\ Add(c, column).segment = <<RowAddress(c), column>>
                     /\ Add(c, column).moment = ComputesAt(ColumnDone(c, column))
                     /\ Add(c, column).value[lane] = ComputeGives(c, column, lane)
  OBVIOUS
<1>3. \A a \in WaveAdds : a.moment # ComputesAt(n)
  BY AddMoments DEF Adds, ComputesAt
<1>4. \A c \in Issued("Compute"), column \in Tile :
        ComputesAt(ColumnDone(c, column)) = ComputesAt(n) <=> ColumnDone(c, column) = n
  BY DoneCycles DEF ComputesAt
<1>5. p \in Added(segment, ComputesAt(n))[lane]
        <=> \E a \in Adds : a.segment = segment /\ a.moment = ComputesAt(n)
                              /\ p \in a.value[lane]
  BY DEF Added, AddsAt
<1>6. p \in Added(segment, ComputesAt(n))[lane]
        <=> \E a \in ComputeAdds : a.segment = segment /\ a.moment = ComputesAt(n)
                                     /\ p \in a.value[lane]
  BY <1>3, <1>5 DEF Adds
<1> HIDE DEF Add
<1>7. (\E a \in ComputeAdds : a.segment = segment /\ a.moment = ComputesAt(n)
                                /\ p \in a.value[lane])
        <=> \E c \in Issued("Compute"), column \in Tile :
              /\ <<RowAddress(c), column>> = segment
              /\ ComputesAt(ColumnDone(c, column)) = ComputesAt(n)
              /\ p \in ComputeGives(c, column, lane)
  <2>1. ASSUME NEW a \in ComputeAdds, a.segment = segment, a.moment = ComputesAt(n),
               p \in a.value[lane]
        PROVE  \E c \in Issued("Compute"), column \in Tile :
                 /\ <<RowAddress(c), column>> = segment
                 /\ ComputesAt(ColumnDone(c, column)) = ComputesAt(n)
                 /\ p \in ComputeGives(c, column, lane)
    <3>1. PICK c \in Issued("Compute"), column \in Tile : a = Add(c, column)
      BY <1>1
    <3>2. /\ a.segment = <<RowAddress(c), column>>
          /\ a.moment = ComputesAt(ColumnDone(c, column))
          /\ a.value[lane] = ComputeGives(c, column, lane)
      BY <1>2, <3>1
    <3>3. <<RowAddress(c), column>> = segment
      BY <2>1, <3>2
    <3> QED
      BY <2>1, <3>2, <3>3
  <2>2. ASSUME NEW c \in Issued("Compute"), NEW column \in Tile,
               <<RowAddress(c), column>> = segment,
               ComputesAt(ColumnDone(c, column)) = ComputesAt(n),
               p \in ComputeGives(c, column, lane)
        PROVE  \E a \in ComputeAdds : a.segment = segment /\ a.moment = ComputesAt(n)
                                         /\ p \in a.value[lane]
    <3>1. Add(c, column) \in ComputeAdds
      BY <1>1
    <3>2. /\ Add(c, column).segment = segment
          /\ Add(c, column).moment = ComputesAt(n)
          /\ Add(c, column).value[lane] = ComputeGives(c, column, lane)
      BY <1>2, <2>2
    <3> QED
      BY <2>2, <3>1, <3>2
  <2> QED
    BY <2>1, <2>2
<1>8. ASSUME NEW c \in Issued("Compute"), NEW column \in Tile, ColumnDone(c, column) = n
      PROVE  \E y \in DoneIn(n) : y[1] = c /\ y[2] = column
  <2>1. <<c, column>> \in DoneIn(n)
    BY <1>8 DEF DoneIn
  <2> QED
    BY <2>1
<1>9. \A y \in DoneIn(n) : y[1] \in Issued("Compute") /\ y[2] \in Tile
                             /\ ColumnDone(y[1], y[2]) = n
  BY DEF DoneIn
<1> QED
  BY <1>4, <1>6, <1>7, <1>8, <1>9

-----------------------------------------------------------------------------
(* The waves of a cycle *)

(* What is known of the unit's waves and rows at the start of a cycle.      *)
PipelineExact ==
    /\ program \in Programs /\ cycle \in 1 .. Horizon
    /\ RowsExact(cycle) /\ OperandsExact(cycle) /\ WavesExact(cycle)

(* The waves whose last cycle it is.                                        *)
DoneWaves(n) == {x \in Issued("Wave") : WaveDone(x) = n}

(* A wave that is done carries the products of every tile.                  *)
LEMMA DoneWave ==
  ASSUME PipelineExact, NEW c \in DoneWaves(cycle)
  PROVE  \A column \in IsColumn :
           /\ Target(WaveAt(c, cycle - c), column) = Target(At(c), column)
           /\ \A lane \in Lane :
                WaveAt(c, cycle - c).partial[column][lane] = WaveGives(c, column, lane)
<1>1. c \in Issued("Wave") /\ WaveDone(c) = cycle
  BY DEF DoneWaves
<1>2. ASSUME NEW column \in IsColumn, NEW lane \in Lane
      PROVE  WaveAt(c, cycle - c).partial[column][lane] = WaveGives(c, column, lane)
  <2>1. WaveAt(c, cycle - c).partial[column][lane] = Products(c, column, lane, cycle - c)
    BY StagedPartial
  <2>2. Products(c, column, lane, WaveDone(c) - c) = WaveGives(c, column, lane)
    BY <1>1, WholeWave DEF PipelineExact, WaveGives
  <2> QED
    BY <1>1, <2>1, <2>2
<1>3. \A column \in IsColumn :
        Target(WaveAt(c, cycle - c), column) = Target(At(c), column)
  <2>1. 0 \in Lane
    BY ShapeFacts DEF Lane
  <2> QED
    BY <2>1, StagedPartial
<1> QED
  BY <1>2, <1>3

(* What a tick's waves deliver is what the timetable adds.                  *)
LEMMA DeliveredIs ==
  ASSUME PipelineExact, NEW segment
  PROVE  Delivered(segment) = Added(segment, WavesAt(cycle))
<1>1. Completed = {WaveAt(c, cycle - c) : c \in DoneWaves(cycle)}
  BY CompletedIs DEF PipelineExact, DoneWaves
<1>2. cycle \in Int /\ program \in Programs
  BY ShapeFacts DEF PipelineExact
<1>3. ASSUME NEW lane \in Lane, NEW p
      PROVE  p \in Delivered(segment)[lane]
               <=> \E w \in DoneWaves(cycle), column \in IsColumn :
                     Target(At(w), column) = segment /\ p \in WaveGives(w, column, lane)
  <2>1. p \in Delivered(segment)[lane]
          <=> \E x \in {y \in Completed \X IsColumn : Target(y[1], y[2]) = segment} :
                p \in x[1].partial[x[2]][lane]
    BY DEF Delivered
  <2>2. ASSUME NEW x \in {y \in Completed \X IsColumn : Target(y[1], y[2]) = segment},
               p \in x[1].partial[x[2]][lane]
        PROVE  \E w \in DoneWaves(cycle), column \in IsColumn :
                 Target(At(w), column) = segment /\ p \in WaveGives(w, column, lane)
    <3>1. x[1] \in Completed /\ x[2] \in IsColumn /\ Target(x[1], x[2]) = segment
      OBVIOUS
    <3>2. PICK c \in DoneWaves(cycle) : x[1] = WaveAt(c, cycle - c)
      BY <1>1, <3>1
    <3>3. /\ Target(WaveAt(c, cycle - c), x[2]) = Target(At(c), x[2])
          /\ WaveAt(c, cycle - c).partial[x[2]][lane] = WaveGives(c, x[2], lane)
      BY <3>1, DoneWave
    <3> QED
      BY <2>2, <3>1, <3>2, <3>3
  <2>3. ASSUME NEW c \in DoneWaves(cycle), NEW column \in IsColumn,
               Target(At(c), column) = segment, p \in WaveGives(c, column, lane)
        PROVE  \E x \in {y \in Completed \X IsColumn : Target(y[1], y[2]) = segment} :
                 p \in x[1].partial[x[2]][lane]
    <3>1. PICK w : w = WaveAt(c, cycle - c)
      OBVIOUS
    <3>2. w \in Completed
      BY <1>1, <3>1
    <3>3. Target(w, column) = segment /\ w.partial[column][lane] = WaveGives(c, column, lane)
      BY <2>3, <3>1, DoneWave
    <3>4. <<w, column>> \in {y \in Completed \X IsColumn : Target(y[1], y[2]) = segment}
      BY <3>2, <3>3
    <3> QED
      BY <2>3, <3>3, <3>4
  <2> QED
    BY <2>1, <2>2, <2>3
<1>4. \A lane \in Lane : Delivered(segment)[lane] = Added(segment, WavesAt(cycle))[lane]
  <2>1. ASSUME NEW lane \in Lane, NEW p
        PROVE  p \in Delivered(segment)[lane] <=> p \in Added(segment, WavesAt(cycle))[lane]
    BY <1>2, <1>3, WaveAddsAre DEF DoneWaves
  <2> QED
    BY <2>1
<1>5. /\ Delivered(segment) = [lane \in Lane |-> Delivered(segment)[lane]]
      /\ Added(segment, WavesAt(cycle))
           = [lane \in Lane |-> Added(segment, WavesAt(cycle))[lane]]
  BY DEF Delivered, Added
<1> QED
  BY <1>4, <1>5

-----------------------------------------------------------------------------
(* What clears a segment                                                    *)

(* What clears a segment at a moment.                                       *)
LEMMA ClearsAre ==
  ASSUME program \in Programs, NEW segment, NEW n \in Int
  PROVE  /\ ClearedAt(segment, WavesAt(n))
              <=> \E w \in DoneWaves(n), column \in IsColumn :
                    At(w).stream /\ At(w).clear /\ Target(At(w), column) = segment
         /\ ClearedAt(segment, ComputesAt(n))
              <=> \E y \in DoneIn(n) :
                    At(y[1]).stream /\ At(y[1]).clear
                      /\ <<RowAddress(y[1]), y[2]>> = segment
         /\ ClearedAt(segment, ReadsAt(n))
              <=> \E r \in Issued("Read"), t \in Tile :
                    r + t = n /\ At(r).clear /\ <<At(r).address, t>> = segment
<1> DEFINE WaveClears ==
             {[segment |-> Target(At(w), column), moment |-> WavesAt(WaveDone(w))] :
                w \in {x \in Issued("Wave") : At(x).stream /\ At(x).clear},
                column \in IsColumn}
           ComputeClears ==
             {[segment |-> <<RowAddress(c), column>>,
               moment |-> ComputesAt(ColumnDone(c, column))] :
                c \in {x \in Issued("Compute") : At(x).stream /\ At(x).clear},
                column \in Tile}
           ReadClears ==
             {[segment |-> <<At(r).address, t>>, moment |-> ReadsAt(r + t)] :
                r \in {x \in Issued("Read") : At(x).clear}, t \in Tile}
           InWaves(m) == \E w \in Issued("Wave"), column \in IsColumn :
                /\ At(w).stream /\ At(w).clear
                /\ Target(At(w), column) = segment /\ WavesAt(WaveDone(w)) = m
           InComputes(m) == \E c \in Issued("Compute"), column \in Tile :
                /\ At(c).stream /\ At(c).clear
                /\ <<RowAddress(c), column>> = segment
                /\ ComputesAt(ColumnDone(c, column)) = m
           InReads(m) == \E r \in Issued("Read"), t \in Tile :
                /\ At(r).clear /\ <<At(r).address, t>> = segment /\ ReadsAt(r + t) = m
<1>1. Clears = ComputeClears \cup WaveClears \cup ReadClears
  BY DEF Clears
<1>2. ASSUME NEW m
      PROVE  (\E c \in WaveClears : c.segment = segment /\ c.moment = m) <=> InWaves(m)
  <2>1. ASSUME NEW c \in WaveClears, c.segment = segment, c.moment = m
        PROVE  InWaves(m)
    <3>1. PICK w \in Issued("Wave"), column \in IsColumn :
            /\ At(w).stream /\ At(w).clear
            /\ c = [segment |-> Target(At(w), column), moment |-> WavesAt(WaveDone(w))]
      OBVIOUS
    <3>2. c.segment = Target(At(w), column) /\ c.moment = WavesAt(WaveDone(w))
      BY <3>1
    <3> QED
      BY <2>1, <3>1, <3>2
  <2>2. ASSUME NEW w \in Issued("Wave"), NEW column \in IsColumn,
               At(w).stream, At(w).clear,
               Target(At(w), column) = segment, WavesAt(WaveDone(w)) = m
        PROVE  \E c \in WaveClears : c.segment = segment /\ c.moment = m
    <3>1. PICK c : c = [segment |-> Target(At(w), column), moment |-> WavesAt(WaveDone(w))]
      OBVIOUS
    <3>2. c \in WaveClears
      BY <2>2, <3>1
    <3>3. c.segment = Target(At(w), column) /\ c.moment = WavesAt(WaveDone(w))
      BY <3>1
    <3> HIDE DEF WaveClears
    <3> QED
      BY <2>2, <3>2, <3>3
  <2> QED
    BY <2>1, <2>2
<1>3. ASSUME NEW m
      PROVE  (\E c \in ComputeClears : c.segment = segment /\ c.moment = m)
               <=> InComputes(m)
  <2>1. ASSUME NEW c \in ComputeClears, c.segment = segment, c.moment = m
        PROVE  InComputes(m)
    <3>1. PICK x \in Issued("Compute"), column \in Tile :
            /\ At(x).stream /\ At(x).clear
            /\ c = [segment |-> <<RowAddress(x), column>>,
                    moment |-> ComputesAt(ColumnDone(x, column))]
      OBVIOUS
    <3>2. c.segment = <<RowAddress(x), column>>
          /\ c.moment = ComputesAt(ColumnDone(x, column))
      BY <3>1
    <3>3. <<RowAddress(x), column>> = segment /\ ComputesAt(ColumnDone(x, column)) = m
      BY <2>1, <3>2
    <3> QED
      BY <3>1, <3>3
  <2>2. ASSUME NEW x \in Issued("Compute"), NEW column \in Tile,
               At(x).stream, At(x).clear,
               <<RowAddress(x), column>> = segment, ComputesAt(ColumnDone(x, column)) = m
        PROVE  \E c \in ComputeClears : c.segment = segment /\ c.moment = m
    <3>1. PICK c : c = [segment |-> <<RowAddress(x), column>>,
                        moment |-> ComputesAt(ColumnDone(x, column))]
      OBVIOUS
    <3>2. c \in ComputeClears
      BY <2>2, <3>1
    <3>3. c.segment = <<RowAddress(x), column>>
          /\ c.moment = ComputesAt(ColumnDone(x, column))
      BY <3>1
    <3>4. c.segment = segment /\ c.moment = m
      BY <2>2, <3>3
    <3> QED
      BY <3>2, <3>4
  <2> QED
    BY <2>1, <2>2
<1>4. ASSUME NEW m
      PROVE  (\E c \in ReadClears : c.segment = segment /\ c.moment = m) <=> InReads(m)
  <2>1. ASSUME NEW c \in ReadClears, c.segment = segment, c.moment = m
        PROVE  InReads(m)
    <3>1. PICK r \in Issued("Read"), t \in Tile :
            /\ At(r).clear
            /\ c = [segment |-> <<At(r).address, t>>, moment |-> ReadsAt(r + t)]
      OBVIOUS
    <3>2. c.segment = <<At(r).address, t>> /\ c.moment = ReadsAt(r + t)
      BY <3>1
    <3>3. <<At(r).address, t>> = segment /\ ReadsAt(r + t) = m
      BY <2>1, <3>2
    <3> QED
      BY <3>1, <3>3
  <2>2. ASSUME NEW r \in Issued("Read"), NEW t \in Tile, At(r).clear,
               <<At(r).address, t>> = segment, ReadsAt(r + t) = m
        PROVE  \E c \in ReadClears : c.segment = segment /\ c.moment = m
    <3>1. PICK c : c = [segment |-> <<At(r).address, t>>, moment |-> ReadsAt(r + t)]
      OBVIOUS
    <3>2. c \in ReadClears
      BY <2>2, <3>1
    <3>3. c.segment = <<At(r).address, t>> /\ c.moment = ReadsAt(r + t)
      BY <3>1
    <3>4. c.segment = segment /\ c.moment = m
      BY <2>2, <3>3
    <3> QED
      BY <3>2, <3>4
  <2> QED
    BY <2>1, <2>2
<1>5. ASSUME NEW m
      PROVE  ClearedAt(segment, m) <=> InWaves(m) \/ InComputes(m) \/ InReads(m)
  <2>1. ClearedAt(segment, m)
          <=> \/ \E c \in WaveClears : c.segment = segment /\ c.moment = m
              \/ \E c \in ComputeClears : c.segment = segment /\ c.moment = m
              \/ \E c \in ReadClears : c.segment = segment /\ c.moment = m
    <3> HIDE DEF WaveClears, ComputeClears, ReadClears
    <3> QED
      BY <1>1 DEF ClearedAt
  <2> HIDE DEF WaveClears, ComputeClears, ReadClears, InWaves, InComputes, InReads
  <2> QED
    BY <1>2, <1>3, <1>4, <2>1
<1>6. \A w \in Issued("Wave") :
        /\ WavesAt(WaveDone(w)) = WavesAt(n) <=> WaveDone(w) = n
        /\ WavesAt(WaveDone(w)) # ComputesAt(n) /\ WavesAt(WaveDone(w)) # ReadsAt(n)
  BY DoneCycles DEF WavesAt, ComputesAt, ReadsAt
<1>7. \A c \in Issued("Compute"), column \in Tile :
        /\ ComputesAt(ColumnDone(c, column)) = ComputesAt(n) <=> ColumnDone(c, column) = n
        /\ ComputesAt(ColumnDone(c, column)) # WavesAt(n)
        /\ ComputesAt(ColumnDone(c, column)) # ReadsAt(n)
  BY DoneCycles DEF WavesAt, ComputesAt, ReadsAt
<1>8. \A r \in Issued("Read"), t \in Tile :
        /\ ReadsAt(r + t) = ReadsAt(n) <=> r + t = n
        /\ ReadsAt(r + t) # WavesAt(n) /\ ReadsAt(r + t) # ComputesAt(n)
  BY DoneCycles DEF WavesAt, ComputesAt, ReadsAt
<1> HIDE DEF WaveClears, ComputeClears, ReadClears
<1>9. ClearedAt(segment, WavesAt(n))
        <=> \E w \in DoneWaves(n), column \in IsColumn :
              At(w).stream /\ At(w).clear /\ Target(At(w), column) = segment
  <2>1. ClearedAt(segment, WavesAt(n)) <=> InWaves(WavesAt(n))
    BY <1>5, <1>7, <1>8
  <2> QED
    BY <1>6, <2>1 DEF DoneWaves
<1>10. ClearedAt(segment, ComputesAt(n))
         <=> \E y \in DoneIn(n) :
               At(y[1]).stream /\ At(y[1]).clear
                 /\ <<RowAddress(y[1]), y[2]>> = segment
  <2>1. ClearedAt(segment, ComputesAt(n)) <=> InComputes(ComputesAt(n))
    BY <1>5, <1>6, <1>8
  <2>2. ASSUME NEW c \in Issued("Compute"), NEW column \in Tile, ColumnDone(c, column) = n
        PROVE  \E y \in DoneIn(n) : y[1] = c /\ y[2] = column
    <3>1. <<c, column>> \in DoneIn(n)
      BY <2>2 DEF DoneIn
    <3> QED
      BY <3>1
  <2>3. \A y \in DoneIn(n) : y[1] \in Issued("Compute") /\ y[2] \in Tile
                               /\ ColumnDone(y[1], y[2]) = n
    BY DEF DoneIn
  <2> QED
    BY <1>7, <2>1, <2>2, <2>3
<1>11. ClearedAt(segment, ReadsAt(n))
         <=> \E r \in Issued("Read"), t \in Tile :
               r + t = n /\ At(r).clear /\ <<At(r).address, t>> = segment
  <2>1. ClearedAt(segment, ReadsAt(n)) <=> InReads(ReadsAt(n))
    BY <1>5, <1>6, <1>7
  <2> QED
    BY <1>8, <2>1
<1> QED
  BY <1>9, <1>10, <1>11

(* The waves of a tick clear what the timetable clears.                     *)
LEMMA ClearedByWavesIs ==
  ASSUME PipelineExact, NEW segment
  PROVE  segment \in ClearedByWaves <=> ClearedAt(segment, WavesAt(cycle))
<1>1. Completed = {WaveAt(c, cycle - c) : c \in DoneWaves(cycle)}
  BY CompletedIs DEF PipelineExact, DoneWaves
<1>2. cycle \in Int /\ program \in Programs
  BY ShapeFacts DEF PipelineExact
<1>3. segment \in ClearedByWaves
        <=> \E w \in Completed, column \in IsColumn :
              w.stream /\ w.clear /\ Target(w, column) = segment
  BY DEF ClearedByWaves
<1>4. \A c \in DoneWaves(cycle), column \in IsColumn :
        /\ WaveAt(c, cycle - c).stream = At(c).stream
        /\ WaveAt(c, cycle - c).clear = At(c).clear
        /\ Target(WaveAt(c, cycle - c), column) = Target(At(c), column)
  BY StagedRecord, DoneWave
<1>5. segment \in ClearedByWaves
        <=> \E c \in DoneWaves(cycle), column \in IsColumn :
              At(c).stream /\ At(c).clear /\ Target(At(c), column) = segment
  BY <1>1, <1>3, <1>4
<1> QED
  BY <1>2, <1>5, ClearsAre

(* So do its computes.                                                      *)
LEMMA ClearedByComputesIs ==
  ASSUME WavefrontExact, NEW segment
  PROVE  segment \in ClearedByComputes <=> ClearedAt(segment, ComputesAt(cycle))
<1>1. Emitting = {Element(x[1], Tiles - 1, x[2]) : x \in DoneIn(cycle)}
  BY EmittingIs DEF DoneIn, WavefrontExact
<1>2. cycle \in Int /\ program \in Programs
  BY ShapeFacts DEF WavefrontExact
<1>3. segment \in ClearedByComputes
        <=> \E e \in Emitting : e.stream /\ e.clear /\ Destination(e) = segment
  BY DEF ClearedByComputes
<1>4. \A x : /\ Element(x[1], Tiles - 1, x[2]).stream = At(x[1]).stream
             /\ Element(x[1], Tiles - 1, x[2]).clear = At(x[1]).clear
             /\ Destination(Element(x[1], Tiles - 1, x[2])) = <<RowAddress(x[1]), x[2]>>
  BY ElementGoes
<1>5. segment \in ClearedByComputes
        <=> \E x \in DoneIn(cycle) :
              At(x[1]).stream /\ At(x[1]).clear /\ <<RowAddress(x[1]), x[2]>> = segment
  BY <1>1, <1>3, <1>4
<1> QED
  BY <1>2, <1>5, ClearsAre

(* So do its reads.                                                         *)
LEMMA ClearedByReadsIs ==
  ASSUME program \in Programs, cycle \in 1 .. Horizon, RowsExact(cycle), NEW segment
  PROVE  segment \in ClearedByReads <=> ClearedAt(segment, ReadsAt(cycle))
<1>1. cycle \in Int /\ \A t \in Tile : t \in Int
  BY ShapeFacts DEF Tile
<1>2. segment \in ClearedByReads
        <=> \E t \in Tile : /\ t \in Reading /\ Compute(t).clear
                            /\ <<Compute(t).address, t>> = segment
  BY DEF ClearedByReads, Reading
<1>3. \A t \in Tile : /\ t \in Reading <=> cycle - t \in Issued("Read")
                      /\ cycle - t \in Issued("Read") => Compute(t) = At(cycle - t)
  BY Computing
<1>4. segment \in ClearedByReads
        <=> \E t \in Tile : /\ cycle - t \in Issued("Read") /\ At(cycle - t).clear
                            /\ <<At(cycle - t).address, t>> = segment
  BY <1>2, <1>3
<1>5. (\E t \in Tile : /\ cycle - t \in Issued("Read") /\ At(cycle - t).clear
                       /\ <<At(cycle - t).address, t>> = segment)
        <=> \E r \in Issued("Read"), t \in Tile :
              r + t = cycle /\ At(r).clear /\ <<At(r).address, t>> = segment
  <2>1. \A t \in Tile : (cycle - t) + t = cycle
    BY <1>1
  <2>2. \A r \in Issued("Read"), t \in Tile : r + t = cycle => r = cycle - t
    BY <1>1, ReadFields
  <2> QED
    BY <2>1, <2>2
<1> QED
  BY <1>1, <1>4, <1>5, ClearsAre

(* What a tick's wavefront emits is what the timetable adds.                *)
LEMMA EmittedIs ==
  ASSUME WavefrontExact, ~ (At(cycle).op = "Compute" /\ TooSoon(cycle)), NEW segment
  PROVE  Emitted(segment) = Added(segment, ComputesAt(cycle))
<1>1. Emitting = {Element(x[1], Tiles - 1, x[2]) : x \in DoneIn(cycle)}
  BY EmittingIs DEF DoneIn, WavefrontExact
<1>2. cycle \in Int /\ program \in Programs
  BY ShapeFacts DEF WavefrontExact
<1>3. \A x : /\ Element(x[1], Tiles - 1, x[2]).buffer = At(x[1]).buffer
             /\ Element(x[1], Tiles - 1, x[2]).row = Place(x[1]) % RowCount
             /\ Element(x[1], Tiles - 1, x[2]).column = x[2]
             /\ Destination(Element(x[1], Tiles - 1, x[2])) = <<RowAddress(x[1]), x[2]>>
  BY ElementGoes
<1>4. ASSUME NEW x \in DoneIn(cycle), NEW lane \in Lane
      PROVE  Sums(At(x[1]).buffer, Place(x[1]) % RowCount, x[2])[lane]
               = ComputeGives(x[1], x[2], lane)
  <2>1. Sums(At(x[1]).buffer, Place(x[1]) % RowCount, x[2])
          = SumUpTo(x[1], At(x[1]).buffer, x[2], Tiles)
    BY DoneWhole
  <2>2. {u \in Tile : u < Tiles} = Tile
    BY ShapeFacts DEF Tile
  <2> QED
    BY <2>1, <2>2 DEF SumUpTo, ComputeGives
<1>5. ASSUME NEW lane \in Lane, NEW p
      PROVE  p \in Emitted(segment)[lane] <=> p \in Added(segment, ComputesAt(cycle))[lane]
  <2>1. p \in Emitted(segment)[lane]
          <=> \E e \in Emitting : Destination(e) = segment
                                    /\ p \in Sums(e.buffer, e.row, e.column)[lane]
    BY DEF Emitted
  <2>2. p \in Emitted(segment)[lane]
          <=> \E x \in DoneIn(cycle) :
                /\ <<RowAddress(x[1]), x[2]>> = segment
                /\ p \in Sums(At(x[1]).buffer, Place(x[1]) % RowCount, x[2])[lane]
    BY <1>1, <1>3, <2>1
  <2>3. p \in Emitted(segment)[lane]
          <=> \E x \in DoneIn(cycle) :
                /\ <<RowAddress(x[1]), x[2]>> = segment
                /\ p \in ComputeGives(x[1], x[2], lane)
    BY <1>4, <2>2
  <2> QED
    BY <1>2, <2>3, ComputeAddsAre
<1>6. /\ Emitted(segment) = [lane \in Lane |-> Emitted(segment)[lane]]
      /\ Added(segment, ComputesAt(cycle))
           = [lane \in Lane |-> Added(segment, ComputesAt(cycle))[lane]]
  BY DEF Emitted, Added
<1>7. \A lane \in Lane : Emitted(segment)[lane] = Added(segment, ComputesAt(cycle))[lane]
  BY <1>5
<1> QED
  BY <1>6, <1>7

(* A quotient grows with its dividend.                                      *)
LEMMA Quotients ==
  ASSUME NEW x \in Nat, NEW y \in Nat, NEW m \in Nat, m > 0, x <= y
  PROVE  /\ x \div m <= y \div m
         /\ x \div m \in Nat /\ y \div m \in Nat
         /\ x % m \in 0 .. m - 1
<1> DEFINE p == x \div m
           q == y \div m
<1>1. /\ p \in Nat /\ q \in Nat /\ x % m \in 0 .. m - 1 /\ y % m \in 0 .. m - 1
      /\ x = p * m + (x % m) /\ y = q * m + (y % m)
  OBVIOUS
<1> HIDE DEF p, q
<1>2. p <= q
  <2>1. SUFFICES ASSUME q + 1 <= p
                 PROVE  FALSE
    BY <1>1
  <2>2. (q + 1) * m <= p * m
    BY <1>1, <2>1, Times
  <2>3. (q + 1) * m = q * m + m /\ q * m \in Nat /\ p * m \in Nat
    BY <1>1
  <2> QED
    BY <1>1, <2>2, <2>3
<1> QED
  BY <1>1, <1>2 DEF p, q

(* A wave that was accepted goes to segments that are there, and to the     *)
(* stream only with all its columns.                                        *)
LEMMA TargetsFit ==
  ASSUME program \in Programs, NEW w \in Issued("Wave"), Acceptable(At(w))
  PROVE  /\ \A column \in IsColumn : Target(At(w), column) \in Segment
         /\ At(w).stream => IsColumn = Tile
<1>1. /\ At(w).op = "Wave" /\ At(w).address \in Nat /\ At(w).column \in Tile
      /\ Tiles \in Nat /\ Tiles >= 2 /\ AccRows \in Nat
      /\ program.isColumns \in 1 .. Tiles
  BY WaveFields, ShapeFacts, ColumnFacts
<1>2. /\ At(w).address + ((At(w).column + program.isColumns - 1) \div Tiles) < AccRows
      /\ At(w).stream => program.isColumns = Tiles
  BY <1>1 DEF Acceptable
<1>3. ASSUME NEW column \in IsColumn
      PROVE  Target(At(w), column) \in Segment
  <2> DEFINE x == At(w).column + column
             y == At(w).column + program.isColumns - 1
  <2>1. x \in Nat /\ y \in Nat /\ x <= y
    BY <1>1 DEF IsColumn, Tile
  <2> HIDE DEF x, y
  <2>2. /\ x \div Tiles <= y \div Tiles
        /\ x \div Tiles \in Nat /\ y \div Tiles \in Nat
        /\ x % Tiles \in 0 .. Tiles - 1
    BY <1>1, <2>1, Quotients
  <2>3. At(w).address + (y \div Tiles) < AccRows
    BY <1>2 DEF y
  <2>4. At(w).address + (x \div Tiles) \in 0 .. AccRows - 1
    BY <1>1, <2>2, <2>3
  <2>5. Target(At(w), column) = <<At(w).address + (x \div Tiles), x % Tiles>>
    BY DEF Target, x
  <2> QED
    BY <2>2, <2>4, <2>5 DEF Segment, Tile
<1>4. At(w).stream => IsColumn = Tile
  BY <1>2 DEF IsColumn, Tile
<1> QED
  BY <1>3, <1>4

(* Nor does a wave that is done, since no check has failed.                 *)
LEMMA DoneWavesFit ==
  ASSUME program \in Programs, NEW n \in Int, Unbroken(n),
         NEW w \in Issued("Wave"), WaveDone(w) <= n
  PROVE  /\ \A column \in IsColumn : Target(At(w), column) \in Segment
         /\ At(w).stream => IsColumn = Tile
<1>1. w \in 1 .. n - 1
  BY DoneCycles
<1>2. Acceptable(At(w))
  BY <1>1, NotBroken
<1> QED
  BY <1>2, TargetsFit

(* The accumulator, as the waves, the computes, the reads and the tick      *)
(* leave it.                                                                *)
LEMMA WavesHeld ==
  ASSUME PipelineExact, acc = HeldAt(cycle - 1), NEW segment \in Segment
  PROVE  AccWithWaves(segment) = Held(segment, WavesAt(cycle))
<1>1. cycle \in Int /\ program \in Programs
  BY ShapeFacts DEF PipelineExact
<1>2. acc[segment] = Held(segment, EndOf(cycle - 1))
  BY DEF HeldAt
<1>3. Delivered(segment) = Added(segment, WavesAt(cycle))
  BY DeliveredIs
<1>4. Held(segment, WavesAt(cycle))
        = Plus(Held(segment, EndOf(cycle - 1)), Added(segment, WavesAt(cycle)))
  BY <1>1, HeldCycle
<1> QED
  BY <1>2, <1>3, <1>4 DEF AccWithWaves

(* The same after the computes, the reads and the tick.                     *)
LEMMA ComputesHeld ==
  ASSUME PipelineExact, WavefrontExact, acc = HeldAt(cycle - 1),
         ~ (At(cycle).op = "Compute" /\ TooSoon(cycle)), NEW segment \in Segment
  PROVE  /\ AccWithComputes(segment) = Held(segment, ComputesAt(cycle))
         /\ AccForReads(segment) = Held(segment, ReadsAt(cycle))
         /\ (IF segment \in ClearedByReads THEN Zero ELSE AccForReads(segment))
              = Held(segment, EndOf(cycle))
<1>1. cycle \in Int /\ program \in Programs /\ cycle \in 1 .. Horizon
      /\ RowsExact(cycle)
  BY ShapeFacts DEF PipelineExact
<1>2. AccWithWaves(segment) = Held(segment, WavesAt(cycle))
  BY WavesHeld
<1>3. /\ segment \in ClearedByWaves <=> ClearedAt(segment, WavesAt(cycle))
      /\ segment \in ClearedByComputes <=> ClearedAt(segment, ComputesAt(cycle))
      /\ segment \in ClearedByReads <=> ClearedAt(segment, ReadsAt(cycle))
  BY <1>1, ClearedByWavesIs, ClearedByComputesIs, ClearedByReadsIs
<1>4. Emitted(segment) = Added(segment, ComputesAt(cycle))
  BY EmittedIs
<1>5. /\ Held(segment, ComputesAt(cycle))
           = Plus(IF ClearedAt(segment, WavesAt(cycle)) THEN Zero
                    ELSE Held(segment, WavesAt(cycle)),
                  Added(segment, ComputesAt(cycle)))
      /\ Held(segment, ReadsAt(cycle))
           = IF ClearedAt(segment, ComputesAt(cycle)) THEN Zero
               ELSE Held(segment, ComputesAt(cycle))
      /\ Held(segment, EndOf(cycle))
           = IF ClearedAt(segment, ReadsAt(cycle)) THEN Zero
               ELSE Held(segment, ReadsAt(cycle))
  BY <1>1, HeldCycle
<1>6. AccWithComputes(segment) = Held(segment, ComputesAt(cycle))
  BY <1>2, <1>3, <1>4, <1>5 DEF AccWithComputes
<1>7. AccForReads(segment) = Held(segment, ReadsAt(cycle))
  BY <1>3, <1>5, <1>6 DEF AccForReads
<1> QED
  BY <1>3, <1>5, <1>6, <1>7

-----------------------------------------------------------------------------
(* Rows that waves take and fill *)

(* A cycle's waves, and then its reads, may undo what was kept.             *)
LEMMA KeptLonger ==
  ASSUME program \in Programs, NEW segment, NEW n \in Int, NEW k \in Int, k <= n
  PROVE  /\ Kept(segment, WavesAt(k), ReadsAt(n))
              <=> (k < n => Kept(segment, WavesAt(k), WavesAt(n)))
                    /\ ~ ClearedAt(segment, WavesAt(n))
         /\ Kept(segment, WavesAt(k), WavesAt(n + 1))
              <=> Kept(segment, WavesAt(k), ReadsAt(n))
                    /\ ~ ClearedAt(segment, ReadsAt(n))
<1>1. ASSUME NEW c \in Clears
      PROVE  /\ c.moment \in Int
             /\ (c.moment < ReadsAt(n) /\ ~ ByCompute(c))
                  <=> (c.moment < WavesAt(n) /\ ~ ByCompute(c))
                        \/ c.moment = WavesAt(n)
             /\ (c.moment < WavesAt(n + 1) /\ ~ ByCompute(c))
                  <=> (c.moment < ReadsAt(n) /\ ~ ByCompute(c))
                        \/ c.moment = ReadsAt(n)
             /\ c.moment = WavesAt(n) => ~ (c.moment < WavesAt(k))
             /\ c.moment = ReadsAt(n) => ~ (c.moment < WavesAt(k))
  <2>1. PICK m, j \in Int : m = c.moment /\ m \in Int
                             /\ m \in {4 * j, 4 * j + 1, 4 * j + 2}
    BY ClearMoments
  <2>2. ByCompute(c) <=> m = 4 * j + 1
    BY <2>1 DEF ByCompute
  <2> QED
    BY <2>1, <2>2 DEF WavesAt, ReadsAt
<1>2. Kept(segment, WavesAt(k), ReadsAt(n))
        <=> Kept(segment, WavesAt(k), WavesAt(n)) /\ ~ ClearedAt(segment, WavesAt(n))
  BY <1>1 DEF Kept, ClearedAt
<1>3. Kept(segment, WavesAt(k), WavesAt(n + 1))
        <=> Kept(segment, WavesAt(k), ReadsAt(n)) /\ ~ ClearedAt(segment, ReadsAt(n))
  BY <1>1 DEF Kept, ClearedAt
<1>4. ~ (k < n) => Kept(segment, WavesAt(k), WavesAt(n))
  <2>1. ~ (k < n) => k = n
    OBVIOUS
  <2> QED
    BY <2>1 DEF Kept
<1> QED
  BY <1>2, <1>3, <1>4

(* A segment is full from the wave that fills it to the next clear.         *)
LEMMA FilledSteps ==
  ASSUME program \in Programs, NEW segment, NEW n \in Int
  PROVE  /\ Filled(segment, n)
              <=> /\ \/ FilledBefore(segment, n)
                     \/ \E w \in DoneWaves(n), column \in IsColumn :
                           Target(At(w), column) = segment
                  /\ ~ ClearedAt(segment, WavesAt(n))
         /\ FilledBefore(segment, n + 1)
              <=> Filled(segment, n) /\ ~ ClearedAt(segment, ReadsAt(n))
<1> DEFINE Here(w) == \E column \in IsColumn : Target(At(w), column) = segment
<1>1. \A w \in Issued("Wave") : WaveDone(w) \in Int
  BY DoneCycles
<1>2. Filled(segment, n)
        <=> \E w \in Issued("Wave") :
              WaveDone(w) <= n /\ Here(w)
                /\ Kept(segment, WavesAt(WaveDone(w)), ReadsAt(n))
  BY DEF Filled, Kept
<1>3. \A m : FilledBefore(segment, m)
        <=> \E w \in Issued("Wave") :
              WaveDone(w) < m /\ Here(w)
                /\ Kept(segment, WavesAt(WaveDone(w)), WavesAt(m))
  BY DEF FilledBefore, Kept
<1>4. \A w \in Issued("Wave") :
        WaveDone(w) <= n =>
          /\ Kept(segment, WavesAt(WaveDone(w)), ReadsAt(n))
               <=> (WaveDone(w) < n
                      => Kept(segment, WavesAt(WaveDone(w)), WavesAt(n)))
                     /\ ~ ClearedAt(segment, WavesAt(n))
          /\ Kept(segment, WavesAt(WaveDone(w)), WavesAt(n + 1))
               <=> Kept(segment, WavesAt(WaveDone(w)), ReadsAt(n))
                     /\ ~ ClearedAt(segment, ReadsAt(n))
  BY <1>1, KeptLonger
<1>5. \A w \in Issued("Wave") :
        /\ WaveDone(w) < n + 1 <=> WaveDone(w) <= n
        /\ WaveDone(w) <= n <=> WaveDone(w) < n \/ WaveDone(w) = n
        /\ WaveDone(w) = n => ~ (WaveDone(w) < n)
  BY <1>1
<1>6. (\E w \in DoneWaves(n), column \in IsColumn : Target(At(w), column) = segment)
        <=> \E w \in Issued("Wave") : WaveDone(w) = n /\ Here(w)
  BY DEF DoneWaves
<1> HIDE DEF Here
<1>7. Filled(segment, n)
        <=> /\ \/ FilledBefore(segment, n)
               \/ \E w \in Issued("Wave") : WaveDone(w) = n /\ Here(w)
            /\ ~ ClearedAt(segment, WavesAt(n))
  BY <1>2, <1>3, <1>4, <1>5
<1>8. FilledBefore(segment, n + 1)
        <=> Filled(segment, n) /\ ~ ClearedAt(segment, ReadsAt(n))
  BY <1>2, <1>3, <1>4, <1>5
<1> QED
  BY <1>6, <1>7, <1>8

(* A row is taken from a launch to the next clear of its last segment.      *)
LEMMA TakenSteps ==
  ASSUME program \in Programs, NEW address, NEW n \in Int
  PROVE  /\ Marked(address, n)
              <=> /\ \/ TakenBefore(address, n)
                     \/ /\ n \in Issued("Wave")
                        /\ \E column \in IsColumn : Target(At(n), column)[1] = address
                  /\ ~ ClearedAt(<<address, Tiles - 1>>, WavesAt(n))
         /\ TakenBefore(address, n + 1)
              <=> Marked(address, n)
                    /\ ~ ClearedAt(<<address, Tiles - 1>>, ReadsAt(n))
<1> DEFINE Here(w) == \E column \in IsColumn : Target(At(w), column)[1] = address
           segment == <<address, Tiles - 1>>
<1>1. \A w \in Issued("Wave") : w \in Int
  BY DoneCycles
<1>2. Marked(address, n)
        <=> \E w \in Issued("Wave") :
              w <= n /\ Here(w) /\ Kept(segment, WavesAt(w), ReadsAt(n))
  BY DEF Marked, Takers, Kept
<1>3. \A m : TakenBefore(address, m)
        <=> \E w \in Issued("Wave") :
              w < m /\ Here(w) /\ Kept(segment, WavesAt(w), WavesAt(m))
  BY DEF TakenBefore, Kept
<1> HIDE DEF segment
<1>4. \A w \in Issued("Wave") :
        w <= n =>
          /\ Kept(segment, WavesAt(w), ReadsAt(n))
               <=> (w < n => Kept(segment, WavesAt(w), WavesAt(n)))
                     /\ ~ ClearedAt(segment, WavesAt(n))
          /\ Kept(segment, WavesAt(w), WavesAt(n + 1))
               <=> Kept(segment, WavesAt(w), ReadsAt(n))
                     /\ ~ ClearedAt(segment, ReadsAt(n))
  BY <1>1, KeptLonger
<1>5. \A w \in Issued("Wave") :
        /\ w < n + 1 <=> w <= n
        /\ w <= n <=> w < n \/ w = n
        /\ w = n => ~ (w < n)
  BY <1>1
<1> HIDE DEF Here
<1>7. Marked(address, n)
        <=> /\ \/ TakenBefore(address, n)
               \/ n \in Issued("Wave") /\ Here(n)
            /\ ~ ClearedAt(segment, WavesAt(n))
  BY <1>2, <1>3, <1>4, <1>5
<1>8. TakenBefore(address, n + 1)
        <=> Marked(address, n) /\ ~ ClearedAt(segment, ReadsAt(n))
  BY <1>2, <1>3, <1>4, <1>5
<1> QED
  BY <1>7, <1>8 DEF Here, segment

(* The row flags at the start of cycle n.                                   *)
ValidExact(n) ==
    \A address \in Nat, t \in Tile :
        <<address, t>> \in valid <=> FilledBefore(<<address, t>>, n)
OwnedExact(n) == \A address \in Nat : address \in owned <=> TakenBefore(address, n)

(* is_acc_valid_, after the waves of a tick.                                *)
LEMMA ValidIs ==
  ASSUME PipelineExact, ValidExact(cycle), NEW address \in Nat, NEW t \in Tile
  PROVE  <<address, t>> \in ValidAfterWaves <=> Filled(<<address, t>>, cycle)
<1>1. cycle \in Int /\ program \in Programs
  BY ShapeFacts DEF PipelineExact
<1>2. PICK segment : segment = <<address, t>>
  OBVIOUS
<1>3. Completed = {WaveAt(c, cycle - c) : c \in DoneWaves(cycle)}
  BY CompletedIs DEF PipelineExact, DoneWaves
<1>4. segment \in ValidAfterWaves
        <=> /\ \/ segment \in valid
               \/ \E w \in Completed, column \in IsColumn : Target(w, column) = segment
            /\ segment \notin ClearedByWaves
  BY DEF ValidAfterWaves
<1>5. \A c \in DoneWaves(cycle), column \in IsColumn :
        Target(WaveAt(c, cycle - c), column) = Target(At(c), column)
  BY DoneWave
<1>6. (\E w \in Completed, column \in IsColumn : Target(w, column) = segment)
        <=> \E c \in DoneWaves(cycle), column \in IsColumn : Target(At(c), column) = segment
  BY <1>3, <1>5
<1>7. segment \in ClearedByWaves <=> ClearedAt(segment, WavesAt(cycle))
  BY ClearedByWavesIs
<1>8. segment \in valid <=> FilledBefore(segment, cycle)
  BY <1>2 DEF ValidExact
<1>9. Filled(segment, cycle)
        <=> /\ \/ FilledBefore(segment, cycle)
               \/ \E w \in DoneWaves(cycle), column \in IsColumn :
                     Target(At(w), column) = segment
            /\ ~ ClearedAt(segment, WavesAt(cycle))
  BY <1>1, FilledSteps
<1> QED
  BY <1>2, <1>4, <1>6, <1>7, <1>8, <1>9

(* is_acc_owned_, after the waves of a tick.                                *)
LEMMA OwnedIs ==
  ASSUME PipelineExact, OwnedExact(cycle), NEW address \in Nat
  PROVE  address \in OwnedAfterWaves <=> Marked(address, cycle)
<1>1. cycle \in Int /\ program \in Programs
  BY ShapeFacts DEF PipelineExact
<1>2. \A segment \in ClearedByWaves : segment = <<segment[1], segment[2]>>
  BY DEF ClearedByWaves, Target
<1>3. (\E segment \in ClearedByWaves : segment[2] = Tiles - 1 /\ segment[1] = address)
        <=> <<address, Tiles - 1>> \in ClearedByWaves
  BY <1>2
<1>4. address \in OwnedAfterWaves
        <=> /\ address \in owned \/ address \in TakenRows
            /\ ~ \E segment \in ClearedByWaves :
                    segment[2] = Tiles - 1 /\ segment[1] = address
  BY DEF OwnedAfterWaves
<1>5. address \in TakenRows
        <=> /\ cycle \in Issued("Wave")
            /\ \E column \in IsColumn : Target(At(cycle), column)[1] = address
  <2>1. Launching = {WaveWith(c, 0, -1) : c \in LaunchedIn(cycle)}
    BY LaunchingIs DEF PipelineExact
  <2>2. \A c, column : Target(WaveWith(c, 0, -1), column) = Target(At(c), column)
    BY DEF Target, WaveWith
  <2>3. address \in TakenRows
          <=> \E w \in Launching, column \in IsColumn : Target(w, column)[1] = address
    BY DEF TakenRows
  <2>4. \A c : c \in LaunchedIn(cycle) <=> c = cycle /\ cycle \in Issued("Wave")
    BY DEF LaunchedIn
  <2>5. address \in TakenRows
          <=> \E c \in LaunchedIn(cycle), column \in IsColumn :
                Target(At(c), column)[1] = address
    BY <2>1, <2>2, <2>3
  <2> QED
    BY <2>4, <2>5
<1>6. <<address, Tiles - 1>> \in ClearedByWaves
        <=> ClearedAt(<<address, Tiles - 1>>, WavesAt(cycle))
  BY ClearedByWavesIs
<1>7. Marked(address, cycle)
        <=> /\ \/ TakenBefore(address, cycle)
               \/ /\ cycle \in Issued("Wave")
                  /\ \E column \in IsColumn : Target(At(cycle), column)[1] = address
            /\ ~ ClearedAt(<<address, Tiles - 1>>, WavesAt(cycle))
  BY <1>1, TakenSteps
<1>8. address \in owned <=> TakenBefore(address, cycle)
  BY DEF OwnedExact
<1> QED
  BY <1>3, <1>4, <1>5, <1>6, <1>7, <1>8

(* A read of a row that waves have taken and not filled is seen at tile 0.  *)
LEMMA IncompleteSame ==
  ASSUME PipelineExact, ValidExact(cycle), OwnedExact(cycle)
  PROVE  Checks.incomplete <=> Caught(cycle)
<1>1. /\ cycle \in Int /\ program \in Programs /\ cycle \in 1 .. Horizon
      /\ RowsExact(cycle)
  BY ShapeFacts DEF PipelineExact
<1>2. 0 \in Tile /\ cycle - 0 = cycle
  BY <1>1, ShapeFacts DEF Tile
<1>3. /\ 0 \in Reading <=> cycle \in Issued("Read")
      /\ cycle \in Issued("Read") => Compute(0) = At(cycle)
  BY <1>1, <1>2, Computing
<1>4. cycle \in Issued("Read") <=> At(cycle).op = "Read"
  BY <1>1 DEF Issued, At
<1>5. cycle \in Issued("Read") => At(cycle).address \in Nat
  BY <1>1, ReadFields
<1>6. Checks.incomplete <=> IncompleteRead
  BY DEF Checks
<1>7. Caught(cycle)
        <=> /\ At(cycle).op = "Read" /\ At(cycle).stream
            /\ Marked(At(cycle).address, cycle)
            /\ \E t \in Tile : ~ Filled(<<At(cycle).address, t>>, cycle)
  BY DEF Caught
<1>8. CASE cycle \in Issued("Read")
  <2>1. Compute(0) = At(cycle) /\ At(cycle).address \in Nat
    BY <1>3, <1>5, <1>8
  <2>2. PICK address \in Nat : address = At(cycle).address
    BY <2>1
  <2>3. IncompleteRead
          <=> /\ At(cycle).stream
              /\ address \in OwnedAfterWaves
              /\ \E t \in Tile : <<address, t>> \notin ValidAfterWaves
    BY <1>3, <1>8, <2>1, <2>2 DEF IncompleteRead
  <2>4. address \in OwnedAfterWaves <=> Marked(address, cycle)
    BY OwnedIs
  <2>5. \A t \in Tile : <<address, t>> \in ValidAfterWaves
                           <=> Filled(<<address, t>>, cycle)
    BY ValidIs
  <2> QED
    BY <1>4, <1>6, <1>7, <1>8, <2>2, <2>3, <2>4, <2>5
<1>9. CASE cycle \notin Issued("Read")
  BY <1>3, <1>4, <1>6, <1>7, <1>9 DEF IncompleteRead
<1> QED
  BY <1>8, <1>9

(* A tick keeps both flags.                                                 *)
LEMMA RowFlagsStep ==
  ASSUME PipelineExact, ValidExact(cycle), OwnedExact(cycle), Tick
  PROVE  ValidExact(cycle)' /\ OwnedExact(cycle)'
<1>1. /\ cycle \in Int /\ program \in Programs /\ cycle \in 1 .. Horizon
      /\ RowsExact(cycle)
  BY ShapeFacts DEF PipelineExact
<1>2. /\ program' = program /\ cycle' = cycle + 1
      /\ valid' = ValidAfterWaves \ ClearedByReads
      /\ owned' = OwnedAfterWaves
                    \ {segment[1] : segment \in {x \in ClearedByReads :
                                                   x[2] = Tiles - 1}}
  BY DEF Tick
<1>3. ASSUME NEW address \in Nat, NEW t \in Tile
      PROVE  <<address, t>> \in valid' <=> FilledBefore(<<address, t>>, cycle + 1)
  <2>1. <<address, t>> \in ValidAfterWaves <=> Filled(<<address, t>>, cycle)
    BY ValidIs
  <2>2. <<address, t>> \in ClearedByReads <=> ClearedAt(<<address, t>>, ReadsAt(cycle))
    BY <1>1, ClearedByReadsIs
  <2>3. FilledBefore(<<address, t>>, cycle + 1)
          <=> Filled(<<address, t>>, cycle) /\ ~ ClearedAt(<<address, t>>, ReadsAt(cycle))
    BY <1>1, FilledSteps
  <2> QED
    BY <1>2, <2>1, <2>2, <2>3
<1>4. ASSUME NEW address \in Nat
      PROVE  address \in owned' <=> TakenBefore(address, cycle + 1)
  <2>1. address \in OwnedAfterWaves <=> Marked(address, cycle)
    BY OwnedIs
  <2>2. <<address, Tiles - 1>> \in ClearedByReads
          <=> ClearedAt(<<address, Tiles - 1>>, ReadsAt(cycle))
    BY <1>1, ClearedByReadsIs
  <2>3. TakenBefore(address, cycle + 1)
          <=> Marked(address, cycle)
                /\ ~ ClearedAt(<<address, Tiles - 1>>, ReadsAt(cycle))
    BY <1>1, TakenSteps
  <2>4. \A segment \in ClearedByReads : segment = <<segment[1], segment[2]>>
    BY DEF ClearedByReads
  <2>5. (\E segment \in ClearedByReads : segment[2] = Tiles - 1 /\ segment[1] = address)
          <=> <<address, Tiles - 1>> \in ClearedByReads
    BY <2>4
  <2>6. address \in owned'
          <=> /\ address \in OwnedAfterWaves
              /\ ~ \E segment \in ClearedByReads :
                      segment[2] = Tiles - 1 /\ segment[1] = address
    BY <1>2
  <2> QED
    BY <2>1, <2>2, <2>3, <2>5, <2>6
<1>5. /\ \A segment, n : FilledBefore(segment, n)' = FilledBefore(segment, n)
      /\ \A address, n : TakenBefore(address, n)' = TakenBefore(address, n)
  BY <1>2, HeldFrames
<1>6. ValidExact(cycle)'
  BY <1>2, <1>3, <1>5 DEF ValidExact
<1>7. OwnedExact(cycle)'
  BY <1>2, <1>4, <1>5 DEF OwnedExact
<1> QED
  BY <1>6, <1>7

-----------------------------------------------------------------------------
(* The result streams                                                       *)

(* The values of a wave that leaves, and its next tile.                     *)
LEMMA DepartedIs ==
  ASSUME NEW w, NEW tile
  PROVE  /\ Departed(w, tile).tile = tile
         /\ \A column \in IsColumn :
              Departed(w, tile).values[column]
                = Held(Target(At(w), column), WavesAt(WaveDone(w)))
         /\ [Departed(w, tile) EXCEPT !.tile = @ + 1] = Departed(w, tile + 1)
<1>1. PICK values : values = [column \in IsColumn |->
                                Held(Target(At(w), column), WavesAt(WaveDone(w)))]
  OBVIOUS
<1>2. \A k : Departed(w, k) = [tile |-> k, values |-> values]
  BY <1>1 DEF Departed
<1>3. PICK x : x = [tile |-> tile, values |-> values]
  OBVIOUS
<1>4. PICK new : new = tile + 1
  OBVIOUS
<1>5. PICK y : y = [x EXCEPT !.tile = new]
  OBVIOUS
<1>6. y = [tile |-> new, values |-> values]
  BY <1>3, <1>5
<1>7. x.tile = tile /\ x.values = values
  BY <1>3
<1>8. Departed(w, tile) = x /\ Departed(w, tile + 1) = y
  BY <1>2, <1>3, <1>4, <1>6
<1>9. [Departed(w, tile) EXCEPT !.tile = @ + 1] = y
  BY <1>4, <1>5, <1>7, <1>8
<1>10. \A column \in IsColumn : values[column]
         = Held(Target(At(w), column), WavesAt(WaveDone(w)))
  BY <1>1
<1> QED
  BY <1>7, <1>8, <1>9, <1>10

(* The waves that begin to leave.                                           *)
LEMMA DepartingIs ==
  ASSUME PipelineExact, Unbroken(cycle), acc = HeldAt(cycle - 1)
  PROVE  Departing = {Departed(w, 0) : w \in {x \in DoneWaves(cycle) : At(x).stream}}
<1>1. cycle \in Int /\ program \in Programs
  BY ShapeFacts DEF PipelineExact
<1>2. Completed = {WaveAt(c, cycle - c) : c \in DoneWaves(cycle)}
  BY CompletedIs DEF PipelineExact, DoneWaves
<1>3. \A c \in DoneWaves(cycle) : WaveAt(c, cycle - c).stream = At(c).stream
  BY StagedRecord
<1>4. ASSUME NEW c \in DoneWaves(cycle), NEW w, w = WaveAt(c, cycle - c)
      PROVE  [tile |-> 0,
              values |-> [column \in IsColumn |-> AccWithWaves(Target(w, column))]]
               = Departed(c, 0)
  <2>1. c \in Issued("Wave") /\ WaveDone(c) = cycle
    BY DEF DoneWaves
  <2>2. ASSUME NEW column \in IsColumn
        PROVE  AccWithWaves(Target(w, column))
                 = Held(Target(At(c), column), WavesAt(WaveDone(c)))
    <3>1. Target(At(c), column) \in Segment
      BY <1>1, <2>1, DoneWavesFit
    <3>2. AccWithWaves(Target(At(c), column)) = Held(Target(At(c), column), WavesAt(cycle))
      BY <3>1, WavesHeld
    <3>3. Target(w, column) = Target(At(c), column)
      BY <1>4, DoneWave
    <3> QED
      BY <2>1, <3>2, <3>3
  <2>3. [column \in IsColumn |-> AccWithWaves(Target(w, column))]
          = [column \in IsColumn |-> Held(Target(At(c), column), WavesAt(WaveDone(c)))]
    BY <2>2
  <2> QED
    BY <2>3 DEF Departed
<1>5. {x \in Completed : x.stream}
        = {WaveAt(c, cycle - c) : c \in {x \in DoneWaves(cycle) : At(x).stream}}
  BY <1>2, <1>3
<1>6. ASSUME NEW d \in Departing
      PROVE  d \in {Departed(w, 0) : w \in {x \in DoneWaves(cycle) : At(x).stream}}
  <2>1. PICK w \in {x \in Completed : x.stream} :
          d = [tile |-> 0,
               values |-> [column \in IsColumn |-> AccWithWaves(Target(w, column))]]
    BY DEF Departing
  <2>2. PICK c \in {x \in DoneWaves(cycle) : At(x).stream} : w = WaveAt(c, cycle - c)
    BY <1>5
  <2>3. d = Departed(c, 0)
    BY <1>4, <2>1, <2>2
  <2> QED
    BY <2>2, <2>3
<1>7. ASSUME NEW c \in {x \in DoneWaves(cycle) : At(x).stream}
      PROVE  Departed(c, 0) \in Departing
  <2>1. PICK w : w = WaveAt(c, cycle - c)
    OBVIOUS
  <2>2. w \in {x \in Completed : x.stream}
    BY <1>5, <2>1
  <2>3. [tile |-> 0,
         values |-> [column \in IsColumn |-> AccWithWaves(Target(w, column))]]
          = Departed(c, 0)
    BY <1>4, <2>1
  <2>4. [tile |-> 0,
         values |-> [column \in IsColumn |-> AccWithWaves(Target(w, column))]]
          \in Departing
    BY <2>2 DEF Departing
  <2> QED
    BY <2>3, <2>4
<1> QED
  BY <1>6, <1>7

(* The waves that leave in a tick.                                          *)
LEMMA LeavingIs ==
  ASSUME PipelineExact, Unbroken(cycle), acc = HeldAt(cycle - 1), LeavingExact(cycle)
  PROVE  Leaving = LeavingOn(cycle)
<1>1. cycle \in Int /\ program \in Programs
  BY ShapeFacts DEF PipelineExact
<1>2. \A w \in Issued("Wave") : WaveDone(w) \in Int
  BY <1>1, DoneCycles
<1>3. Departing = {Departed(w, 0) : w \in {x \in DoneWaves(cycle) : At(x).stream}}
  BY DepartingIs
<1>4. leaving = {Departed(w, (cycle - 1) - WaveDone(w)) : w \in LeavingAt(cycle - 1)}
  BY DEF LeavingExact, LeavingOn
<1>5. ASSUME NEW w \in LeavingAt(cycle - 1)
      PROVE  /\ Departed(w, (cycle - 1) - WaveDone(w)).tile + 1 < Tiles
                  <=> w \in LeavingAt(cycle) /\ WaveDone(w) # cycle
             /\ [Departed(w, (cycle - 1) - WaveDone(w)) EXCEPT !.tile = @ + 1]
                  = Departed(w, cycle - WaveDone(w))
  <2>1. w \in Issued("Wave") /\ At(w).stream /\ (cycle - 1) - WaveDone(w) \in Tile
        /\ WaveDone(w) \in Int
    BY <1>2 DEF LeavingAt
  <2>2. ((cycle - 1) - WaveDone(w)) + 1 = cycle - WaveDone(w)
        /\ (cycle - WaveDone(w) < Tiles <=> cycle - WaveDone(w) \in Tile)
        /\ WaveDone(w) # cycle
    BY <1>1, <2>1, ShapeFacts DEF Tile
  <2>3. PICK k : k = (cycle - 1) - WaveDone(w)
    OBVIOUS
  <2>4. Departed(w, k).tile = k
        /\ [Departed(w, k) EXCEPT !.tile = @ + 1] = Departed(w, k + 1)
    BY DepartedIs
  <2> QED
    BY <2>1, <2>2, <2>3, <2>4 DEF LeavingAt
<1>6. \A w \in Issued("Wave") :
        w \in LeavingAt(cycle)
          <=> \/ WaveDone(w) = cycle /\ At(w).stream
              \/ w \in LeavingAt(cycle) /\ w \in LeavingAt(cycle - 1)
  <2>1. ASSUME NEW w \in Issued("Wave")
        PROVE  cycle - WaveDone(w) \in Tile
                 <=> \/ WaveDone(w) = cycle
                     \/ cycle - WaveDone(w) \in Tile /\ (cycle - 1) - WaveDone(w) \in Tile
    BY <1>1, <1>2, ShapeFacts DEF Tile
  <2> QED
    BY <2>1 DEF LeavingAt
<1>7. \A n : LeavingAt(n) \subseteq Issued("Wave")
  BY DEF LeavingAt
<1>8. \A w \in LeavingAt(cycle - 1) : WaveDone(w) # cycle
  BY <1>1, <1>2, ShapeFacts DEF LeavingAt, Tile
<1> DEFINE Old == LeavingAt(cycle - 1) \cap LeavingAt(cycle)
           New == {x \in DoneWaves(cycle) : At(x).stream}
<1>9. LeavingAt(cycle) = New \cup Old
  BY <1>6, <1>7 DEF DoneWaves
<1>10. {[x EXCEPT !.tile = @ + 1] : x \in {y \in leaving : y.tile + 1 < Tiles}}
         = {Departed(w, cycle - WaveDone(w)) : w \in Old}
  <2> DEFINE Down(x) == [x EXCEPT !.tile = @ + 1]
             Staying == {y \in leaving : y.tile + 1 < Tiles}
  <2>1. ASSUME NEW x \in Staying
        PROVE  \E w \in Old : Down(x) = Departed(w, cycle - WaveDone(w))
    BY <1>4, <1>5
  <2>2. ASSUME NEW w \in Old
        PROVE  \E x \in Staying : Down(x) = Departed(w, cycle - WaveDone(w))
    <3>1. PICK x : x = Departed(w, (cycle - 1) - WaveDone(w))
      OBVIOUS
    <3>2. x \in leaving /\ x.tile + 1 < Tiles
      BY <1>4, <1>5, <1>8, <3>1
    <3>3. [x EXCEPT !.tile = @ + 1] = Departed(w, cycle - WaveDone(w))
      BY <1>5, <3>1
    <3> QED
      BY <3>2, <3>3
  <2> HIDE DEF Old, Down, Staying
  <2>3. {Down(x) : x \in Staying} = {Departed(w, cycle - WaveDone(w)) : w \in Old}
    BY <2>1, <2>2
  <2> QED
    BY <2>3 DEF Down, Staying
<1>11. {Departed(w, 0) : w \in New} = {Departed(w, cycle - WaveDone(w)) : w \in New}
  <2>1. \A w \in New : cycle - WaveDone(w) = 0
    BY <1>1, <1>2 DEF DoneWaves
  <2> QED
    BY <2>1
<1> HIDE DEF New, Old
<1>12. LeavingOn(cycle) = {Departed(w, cycle - WaveDone(w)) : w \in New \cup Old}
  BY <1>9 DEF LeavingOn
<1> QED
  BY <1>3, <1>10, <1>11, <1>12 DEF Leaving, New

(* What waves write to the streams.                                         *)
LEMMA WaveResultsAre ==
  ASSUME PipelineExact, Unbroken(cycle), acc = HeldAt(cycle - 1), LeavingExact(cycle)
  PROVE  WaveResults = WavesLeaving(cycle)
<1>1. cycle \in Int /\ program \in Programs /\ \A t \in Tile : t \in Int
  BY ShapeFacts DEF PipelineExact, Tile
<1>2. \A w \in Issued("Wave") : WaveDone(w) \in Int
  BY <1>1, DoneCycles
<1>3. Leaving = {Departed(w, cycle - WaveDone(w)) : w \in LeavingAt(cycle)}
  BY LeavingIs DEF LeavingOn
<1> DEFINE Sent(w, t) == Result("Wave", t, Held(Target(At(w), t), WavesAt(WaveDone(w))))
           Going == {y \in Issued("Wave") \X Tile :
                       At(y[1]).stream /\ WaveDone(y[1]) + y[2] = cycle}
<1>4. ASSUME NEW w \in LeavingAt(cycle), NEW x, x = Departed(w, cycle - WaveDone(w))
      PROVE  Result("Wave", x.tile, x.values[x.tile]) = Sent(w, cycle - WaveDone(w))
  <2>1. w \in Issued("Wave") /\ At(w).stream /\ cycle - WaveDone(w) \in Tile
    BY DEF LeavingAt
  <2>2. WaveDone(w) <= cycle
    BY <1>1, <1>2, <2>1, ShapeFacts DEF Tile
  <2>3. IsColumn = Tile
    BY <1>1, <2>1, <2>2, DoneWavesFit
  <2>4. PICK t : t = cycle - WaveDone(w)
    OBVIOUS
  <2>5. Departed(w, t).tile = t
        /\ Departed(w, t).values[t] = Held(Target(At(w), t), WavesAt(WaveDone(w)))
    <3>1. t \in IsColumn
      BY <2>1, <2>3, <2>4
    <3> QED
      BY <3>1 DEF Departed
  <2>6. x = Departed(w, t)
    BY <1>4, <2>4
  <2> QED
    BY <2>4, <2>5, <2>6
<1>5. WaveResults = {Sent(w, cycle - WaveDone(w)) : w \in LeavingAt(cycle)}
  BY <1>3, <1>4 DEF WaveResults
<1>6. WavesLeaving(cycle) = {Sent(x[1], x[2]) : x \in Going}
  BY DEF WavesLeaving, Result
<1>7. ASSUME NEW w \in LeavingAt(cycle)
      PROVE  \E x \in Going : Sent(w, cycle - WaveDone(w)) = Sent(x[1], x[2])
  <2>1. w \in Issued("Wave") /\ At(w).stream /\ cycle - WaveDone(w) \in Tile
    BY DEF LeavingAt
  <2>2. WaveDone(w) + (cycle - WaveDone(w)) = cycle
    BY <1>1, <1>2, <2>1
  <2>3. <<w, cycle - WaveDone(w)>> \in Going
    BY <2>1, <2>2
  <2> HIDE DEF Sent, Going
  <2> QED
    BY <2>3
<1>8. ASSUME NEW x \in Going
      PROVE  \E w \in LeavingAt(cycle) : Sent(w, cycle - WaveDone(w)) = Sent(x[1], x[2])
  <2>1. x[1] \in Issued("Wave") /\ x[2] \in Tile /\ At(x[1]).stream
        /\ WaveDone(x[1]) + x[2] = cycle
    OBVIOUS
  <2>2. cycle - WaveDone(x[1]) = x[2]
    BY <1>1, <1>2, <2>1
  <2>3. x[1] \in LeavingAt(cycle)
    BY <2>1, <2>2 DEF LeavingAt
  <2> HIDE DEF Sent, Going
  <2> QED
    BY <2>2, <2>3
<1> HIDE DEF Sent, Going
<1> QED
  BY <1>5, <1>6, <1>7, <1>8

(* What computes write to the streams.                                      *)
LEMMA ComputeResultsAre ==
  ASSUME PipelineExact, WavefrontExact, acc = HeldAt(cycle - 1),
         ~ (At(cycle).op = "Compute" /\ TooSoon(cycle)),
         \A y \in DoneIn(cycle) : <<RowAddress(y[1]), y[2]>> \in Segment
  PROVE  ComputeResults = ComputesLeaving(cycle)
<1>1. Emitting = {Element(x[1], Tiles - 1, x[2]) : x \in DoneIn(cycle)}
  BY EmittingIs DEF DoneIn, WavefrontExact
<1> DEFINE Sent(y) == Result("Compute", y[2],
                             Held(<<RowAddress(y[1]), y[2]>>, ComputesAt(cycle)))
           Gone(e) == Result("Compute", e.column, AccWithComputes(Destination(e)))
           E(y) == Element(y[1], Tiles - 1, y[2])
           Going == {y \in DoneIn(cycle) : At(y[1]).stream}
<1>2. ASSUME NEW y \in DoneIn(cycle)
      PROVE  E(y).stream = At(y[1]).stream /\ Gone(E(y)) = Sent(y)
  <2>1. AccWithComputes(<<RowAddress(y[1]), y[2]>>)
          = Held(<<RowAddress(y[1]), y[2]>>, ComputesAt(cycle))
    BY ComputesHeld
  <2>2. /\ E(y).stream = At(y[1]).stream /\ E(y).column = y[2]
        /\ Destination(E(y)) = <<RowAddress(y[1]), y[2]>>
    BY ElementGoes
  <2> QED
    BY <2>1, <2>2
<1>3. ComputesLeaving(cycle) = {Sent(y) : y \in Going}
  <2>1. Going = {y \in Issued("Compute") \X Tile :
                   At(y[1]).stream /\ ColumnDone(y[1], y[2]) = cycle}
    BY DEF DoneIn
  <2> QED
    BY <2>1 DEF ComputesLeaving, Result
<1>4. ComputeResults = {Gone(e) : e \in {x \in Emitting : x.stream}}
  BY DEF ComputeResults
<1>5. Emitting = {E(y) : y \in DoneIn(cycle)}
  BY <1>1
<1> HIDE DEF Sent, Gone, E
<1> QED
  BY <1>2, <1>3, <1>4, <1>5

(* What reads write to the streams.                                         *)
LEMMA ReadResultsAre ==
  ASSUME PipelineExact, WavefrontExact, acc = HeldAt(cycle - 1), Unbroken(cycle + 1)
  PROVE  ReadResults = ReadsLeaving(cycle)
<1>1. /\ cycle \in Int /\ program \in Programs /\ cycle \in 1 .. Horizon
      /\ RowsExact(cycle) /\ cycle >= 1 /\ \A t \in Tile : t \in Int /\ t >= 0
  BY ShapeFacts DEF PipelineExact, Tile
<1> DEFINE Sent(r, t) == Result("Read", t, Held(<<At(r).address, t>>, ReadsAt(cycle)))
           Going == {y \in Issued("Read") \X Tile :
                       At(y[1]).stream /\ y[1] + y[2] = cycle}
           Shown == {u \in Reading : Compute(u).stream}
<1>2. \A t \in Tile : /\ t \in Reading <=> cycle - t \in Issued("Read")
                      /\ cycle - t \in Issued("Read") => Compute(t) = At(cycle - t)
  BY <1>1, Computing
<1>3. ASSUME NEW t \in Tile, cycle - t \in Issued("Read")
      PROVE  Result("Read", t, AccForReads(<<Compute(t).address, t>>)) = Sent(cycle - t, t)
  <2>1. Compute(t) = At(cycle - t)
    BY <1>2, <1>3
  <2>2. PICK r : r = cycle - t
    OBVIOUS
  <2>3. At(r).op = "Read" /\ At(r).address \in Nat /\ r \in 1 .. cycle /\ r \in Int
    BY <1>1, <1>3, <2>2, ReadFields
  <2>4. cycle + 1 \in Int /\ r \in 1 .. (cycle + 1) - 1
    BY <1>1, <2>3
  <2>5. Acceptable(At(r))
    BY <2>4, NotBroken
  <2>6. At(r).address < AccRows
    BY <2>3, <2>5 DEF Acceptable
  <2>7. <<At(r).address, t>> \in Segment
    BY <2>3, <2>6, ShapeFacts DEF Segment
  <2>8. ~ (At(cycle).op = "Compute" /\ TooSoon(cycle))
    <3>1. cycle \in 1 .. (cycle + 1) - 1
      BY <1>1
    <3> QED
      BY <2>4, <3>1, NotBroken
  <2>9. AccForReads(<<At(r).address, t>>) = Held(<<At(r).address, t>>, ReadsAt(cycle))
    BY <2>7, <2>8, ComputesHeld
  <2> QED
    BY <2>1, <2>2, <2>9
<1>4. ReadsLeaving(cycle) = {Sent(x[1], x[2]) : x \in Going}
  BY DEF ReadsLeaving, Result
<1>5. Shown = {t \in Tile : cycle - t \in Issued("Read") /\ At(cycle - t).stream}
  <2>1. \A t : t \in Reading => t \in Tile
    BY DEF Reading
  <2> QED
    BY <1>2, <2>1
<1>6. ReadResults = {Sent(cycle - t, t) : t \in Shown}
  BY <1>3, <1>5 DEF ReadResults
<1>7. ASSUME NEW t \in Shown
      PROVE  \E x \in Going : Sent(cycle - t, t) = Sent(x[1], x[2])
  <2>1. t \in Tile /\ cycle - t \in Issued("Read") /\ At(cycle - t).stream
        /\ (cycle - t) + t = cycle
    BY <1>1, <1>5
  <2>2. <<cycle - t, t>> \in Going
    BY <2>1
  <2> HIDE DEF Sent, Going
  <2> QED
    BY <2>2
<1>8. ASSUME NEW x \in Going
      PROVE  \E t \in Shown : Sent(cycle - t, t) = Sent(x[1], x[2])
  <2>1. x[1] \in Issued("Read") /\ x[2] \in Tile /\ At(x[1]).stream
        /\ x[1] + x[2] = cycle
    OBVIOUS
  <2>2. cycle - x[2] = x[1]
    BY <1>1, <2>1, ReadFields
  <2>3. x[2] \in Shown
    BY <1>5, <2>1, <2>2
  <2> HIDE DEF Sent, Going, Shown
  <2> QED
    BY <2>2, <2>3
<1> HIDE DEF Sent, Going, Shown
<1> QED
  BY <1>4, <1>6, <1>7, <1>8

(* The accumulator's part of a tick in which no check fails.                *)
LEMMA AccStep ==
  ASSUME PipelineExact, WavefrontExact, AccExact(cycle), LeavingExact(cycle),
         Unbroken(cycle), Unbroken(cycle + 1), ~ Broken(cycle).outside, Tick
  PROVE  AccExact(cycle)' /\ LeavingExact(cycle)'
<1>1. /\ cycle \in Int /\ program \in Programs /\ cycle \in 1 .. Horizon
      /\ RowsExact(cycle) /\ cycle >= 1
  BY ShapeFacts DEF PipelineExact
<1>2. /\ program' = program /\ cycle' = cycle + 1
      /\ acc' = [segment \in Segment |->
                   IF segment \in ClearedByReads
                     THEN Zero ELSE AccForReads(segment)]
      /\ out' = WaveResults \cup ComputeResults \cup ReadResults
      /\ leaving' = Leaving
  BY DEF Tick
<1>3. /\ acc = HeldAt(cycle - 1) /\ ValidExact(cycle) /\ OwnedExact(cycle)
  BY DEF AccExact, ValidExact, OwnedExact
<1>4. ~ (At(cycle).op = "Compute" /\ TooSoon(cycle))
  <2>1. cycle + 1 \in Int /\ cycle \in 1 .. (cycle + 1) - 1
    BY <1>1
  <2> QED
    BY <2>1, NotBroken
<1>5. ASSUME NEW y \in DoneIn(cycle)
      PROVE  <<RowAddress(y[1]), y[2]>> \in Segment
  <2>1. y[1] \in Issued("Compute") /\ y[2] \in Tile /\ ColumnDone(y[1], y[2]) = cycle
    BY DEF DoneIn
  <2>2. ~ (RowAddress(y[1]) >= AccRows)
    BY <2>1 DEF Broken
  <2>3. RowAddress(y[1]) \in Nat
    <3>1. PICK i, row : i = At(y[1]) /\ row = Place(y[1]) % RowCount
      OBVIOUS
    <3>2. i.address \in Nat /\ i.stride \in Nat /\ row \in Nat
      BY <1>1, <2>1, <3>1, ComputeFields, RowOf
    <3>3. RowAddress(y[1]) = i.address + row * i.stride
      BY <3>1 DEF RowAddress, RowCount
    <3> QED
      BY <3>2, <3>3
  <2> QED
    BY <2>1, <2>2, <2>3, ShapeFacts DEF Segment
<1>6. acc' = HeldAt(cycle)
  <2>1. \A segment \in Segment :
          (IF segment \in ClearedByReads THEN Zero ELSE AccForReads(segment))
            = Held(segment, EndOf(cycle))
    BY <1>3, <1>4, ComputesHeld
  <2> QED
    BY <1>2, <2>1 DEF HeldAt
<1>7. out' = Leaves(cycle)
  <2>1. WaveResults = WavesLeaving(cycle)
    BY <1>3, WaveResultsAre
  <2>2. ComputeResults = ComputesLeaving(cycle)
    BY <1>3, <1>4, <1>5, ComputeResultsAre
  <2>3. ReadResults = ReadsLeaving(cycle)
    BY <1>3, ReadResultsAre
  <2> QED
    BY <1>2, <2>1, <2>2, <2>3 DEF Leaves
<1>8. leaving' = LeavingOn(cycle)
  BY <1>2, <1>3, LeavingIs
<1>9. ValidExact(cycle)' /\ OwnedExact(cycle)'
  BY <1>3, RowFlagsStep
<1>10. /\ \A n : HeldAt(n)' = HeldAt(n)
       /\ \A n : Leaves(n)' = Leaves(n)
       /\ \A n : LeavingOn(n)' = LeavingOn(n)
  BY <1>2, HeldFrames
<1>11. (cycle + 1) - 1 = cycle
  BY <1>1
<1>12. LeavingExact(cycle)'
  BY <1>2, <1>8, <1>10, <1>11 DEF LeavingExact
<1>13. AccExact(cycle)'
  BY <1>2, <1>6, <1>7, <1>9, <1>10, <1>11 DEF AccExact, ValidExact, OwnedExact
<1> QED
  BY <1>12, <1>13

-----------------------------------------------------------------------------
(* The invariant                                                            *)

(* The parts of the invariant the steps use.                                *)
LEMMA ExactParts ==
  ASSUME program \in Programs, cycle \in 1 .. Horizon, Exact(cycle)
  PROVE  /\ PipelineExact /\ WavefrontExact /\ AccExact(cycle)
         /\ LeavingExact(cycle) /\ Unbroken(cycle) /\ BurstsExact(cycle)
         /\ ValidExact(cycle) /\ OwnedExact(cycle)
  BY DEF Exact, PipelineExact, WavefrontExact, AccExact, ValidExact, OwnedExact

(* The unit and the timetable fail the same checks.                         *)
LEMMA FailingIs ==
  ASSUME program \in Programs, cycle \in 1 .. Horizon, Exact(cycle)
  PROVE  /\ Failing = FailingAt(cycle)
         /\ Failing = {} => Unbroken(cycle + 1) /\ ~ Broken(cycle).outside
<1> DEFINE Names == {"refused", "unpaired", "starved", "layout", "interval",
                     "unloaded", "undrained", "outside"}
<1>1. /\ PipelineExact /\ WavefrontExact /\ ValidExact(cycle) /\ OwnedExact(cycle)
      /\ RowsExact(cycle) /\ WavesExact(cycle) /\ OperandsExact(cycle)
      /\ Unbroken(cycle)
  BY ExactParts DEF Exact
<1>2. Checks.refused <=> Broken(cycle).refused
  <2>1. Checks.refused <=> ~ Acceptable(At(cycle))
    BY DEF Checks, At
  <2>2. Broken(cycle).refused <=> ~ Acceptable(At(cycle))
    BY DEF Broken
  <2> QED
    BY <2>1, <2>2
<1>3. Checks.unpaired <=> Broken(cycle).unpaired
  BY <1>1, UnpairedSame
<1>4. Checks.starved <=> Broken(cycle).starved
  BY <1>1, StarvedSame
<1>5. Checks.layout <=> Broken(cycle).layout
  BY <1>1, LayoutSame
<1>6. Checks.interval <=> Broken(cycle).interval
  BY <1>1, LayoutSame
<1>7. Checks.unloaded <=> Broken(cycle).unloaded
  BY <1>1, UnloadedSame
<1>8. Checks.undrained <=> Broken(cycle).undrained
  BY <1>1, UndrainedSame
<1>9. Checks.outside <=> Broken(cycle).outside
  BY <1>1, OutsideSame
<1>10. Checks.incomplete <=> Caught(cycle)
  BY <1>1, IncompleteSame
<1>11. DOMAIN Checks = Names \cup {"incomplete"}
  BY DEF Checks
<1>12. DOMAIN Broken(cycle) = Names
  BY DEF Broken
<1>13. \A check \in Names : Checks[check] <=> Broken(cycle)[check]
  BY <1>2, <1>3, <1>4, <1>5, <1>6, <1>7, <1>8, <1>9
<1>14. "outside" \in Names
  OBVIOUS
<1> HIDE DEF Names
<1>15. Failing = FailingAt(cycle)
  BY <1>10, <1>11, <1>12, <1>13 DEF Failing, FailingAt
<1>16. ASSUME Failing = {}
       PROVE  Unbroken(cycle + 1) /\ ~ Broken(cycle).outside
  <2>1. \A check \in DOMAIN Broken(cycle) : ~ Broken(cycle)[check]
    BY <1>15, <1>16 DEF FailingAt
  <2>2. \A m \in 1 .. (cycle + 1) - 1 : m \in 1 .. cycle - 1 \/ m = cycle
    BY ShapeFacts
  <2>3. Unbroken(cycle + 1)
    BY <1>1, <2>1, <2>2 DEF Unbroken
  <2> QED
    BY <1>12, <1>14, <2>1, <2>3
<1> QED
  BY <1>15, <1>16

(* The first cycle begins as the timetable has it.                          *)
LEMMA StartsExact ==
  ASSUME Init
  PROVE  Exact(1)
<1>1. program \in Programs /\ Horizon \in Nat /\ Tiles \in Nat /\ Tiles >= 2
      /\ \A t \in Tile : t \in Int /\ t >= 0
  BY ShapeFacts DEF Init, Tile
<1>2. /\ \A c \in Issued("Wave") : WaveDone(c) \in Int /\ c \in Int
             /\ WaveDone(c) > c /\ c >= 1
      /\ \A c \in Issued("Compute") : c \in Int /\ c >= 1
      /\ \A b : \A c \in ComputesOn(b) : c \in Int /\ c >= 1
  <2>1. \A b : \A c \in ComputesOn(b) : c \in Int /\ c >= 1
    BY ComputeCycles
  <2>2. \A c \in Issued("Compute") : c \in Int /\ c >= 1
    BY <1>1, ComputeFields
  <2> QED
    BY <1>1, <2>1, <2>2, DoneCycles
<1>3. Unbroken(1)
  BY DEF Unbroken
<1>4. RowsExact(1)
  <2>1. \A stream : RowsAt(stream, 1) = [t \in Tile |-> None]
    <3>1. \A t \in Tile : t # 0 => 1 - t \notin 1 .. Horizon
      BY <1>1
    <3> QED
      BY <3>1 DEF RowsAt, Past
  <2> QED
    BY <2>1 DEF Init, RowsExact
<1>5. OperandsExact(1)
  <2>1. ASSUME NEW S \in SUBSET (1 .. Horizon), NEW t \in Tile
        PROVE  LatestBy(S, 1 - 1 - t) = 0
    <3>1. \A c \in S : c \in Int /\ c >= 1
      BY <1>1
    <3>2. t \in Int /\ t >= 0 /\ 1 - 1 - t <= 0
      BY <1>1
    <3>3. {c \in S : c <= 1 - 1 - t} = {}
      <4>1. PICK m \in Int : m = 1 - 1 - t /\ m <= 0
        BY <3>2
      <4>2. \A c \in S : ~ (c <= m)
        BY <3>1, <4>1
      <4> QED
        BY <4>1, <4>2
    <3> QED
      BY <3>3 DEF LatestBy, Latest
  <2>2. /\ \A b : LoadsOf("IsLoad", b) \in SUBSET (1 .. Horizon)
        /\ \A b, column, lane : IWs(b, column, lane) \in SUBSET (1 .. Horizon)
    BY LoadCycles
  <2>3. /\ \A b : \A t \in Tile : LatestBy(LoadsOf("IsLoad", b), 1 - 1 - t) = 0
        /\ \A b, column, lane : \A t \in Tile :
              LatestBy(IWs(b, column, lane), 1 - 1 - t) = 0
    BY <2>1, <2>2
  <2>4. weights = WeightsAt(1)
    BY <2>3 DEF Init, WeightsAt
  <2>5. activations = ActivationsAt(1)
    BY <2>3 DEF Init, ActivationsAt
  <2> QED
    BY <2>4, <2>5 DEF OperandsExact
<1>6. WavesExact(1)
  <2>1. InFlight(1) = {}
    BY <1>2 DEF InFlight
  <2> QED
    BY <2>1 DEF Init, WavesExact, WavesOn
<1>7. LeavingExact(1)
  <2>1. LeavingAt(1 - 1) = {}
    BY <1>1, <1>2 DEF LeavingAt, Tile
  <2> QED
    BY <2>1 DEF Init, LeavingExact, LeavingOn
<1>8. BurstsExact(1)
  <2>1. \A b \in Buffer, t \in Tile : Reached(b, t, 1) = {}
    BY <1>1, <1>2 DEF Reached
  <2>2. cursor = CursorAt(1)
    BY <2>1, FS_EmptySet DEF Init, CursorAt
  <2>3. running = RunningAt(1)
    BY <1>1, <1>2 DEF Init, RunningAt, Busy
  <2>4. NoneCut(1)
    BY <1>2 DEF NoneCut
  <2> QED
    BY <2>2, <2>3, <2>4 DEF BurstsExact
<1>9. FrontExact(1)
  <2>1. {y \in Issued("Compute") \X Tile : 1 - y[1] - y[2] \in 1 .. Tiles - 1} = {}
    BY <1>1, <1>2
  <2> QED
    BY <2>1 DEF Init, FrontExact, FrontLeft
<1>10. SumsExact(1)
  <2>1. SumsOfWorking(1)
    BY <1>2 DEF SumsOfWorking
  <2>2. SumsOfFree
    BY DEF Init, SumsOfFree
  <2> QED
    BY <2>1, <2>2 DEF SumsExact
<1>11. AccExact(1)
  <2>1. ASSUME NEW segment
        PROVE  Held(segment, EndOf(0)) = Zero
    <3>1. \A a \in Adds : ~ (a.moment <= EndOf(0))
      BY <1>1, AddMoments DEF Adds, EndOf
    <3> QED
      BY <3>1 DEF Held, Zero
  <2>2. acc = HeldAt(1 - 1)
    BY <2>1 DEF Init, HeldAt
  <2>3. \A segment : ~ FilledBefore(segment, 1)
    BY <1>2 DEF FilledBefore
  <2>4. \A address : ~ TakenBefore(address, 1)
    BY <1>2 DEF TakenBefore
  <2> QED
    BY <2>2, <2>3, <2>4 DEF Init, AccExact
<1> QED
  BY <1>3, <1>4, <1>5, <1>6, <1>7, <1>8, <1>9, <1>10, <1>11 DEF Exact

(* The invariant holds at the start.                                        *)
LEMMA StartsSound ==
  ASSUME Init
  PROVE  MatrixInv
<1>1. Exact(1)
  BY StartsExact
<1>2. program \in Programs /\ cycle = 1 /\ fault = {}
  BY DEF Init
<1>3. cycle \in 1 .. Horizon + 1
  BY <1>2, ShapeFacts
<1>4. FaultsCaught
  BY <1>2 DEF FaultsCaught
<1> QED
  BY <1>1, <1>2, <1>3, <1>4 DEF MatrixInv

(* A tick keeps it.                                                         *)
LEMMA TickSound ==
  ASSUME MatrixInv, Tick
  PROVE  MatrixInv'
<1>1. /\ fault = {} /\ Failing = {} /\ cycle <= Horizon
      /\ program' = program /\ fault' = fault /\ cycle' = cycle + 1
  BY DEF Tick
<1>2. /\ program \in Programs /\ cycle \in 1 .. Horizon /\ Exact(cycle)
  BY <1>1, ShapeFacts DEF MatrixInv
<1>3. /\ Unbroken(cycle + 1) /\ ~ Broken(cycle).outside
      /\ FailingAt(cycle) = {}
  BY <1>1, <1>2, FailingIs
<1>4. ~ (At(cycle).op = "Compute" /\ TooSoon(cycle))
  <2>1. cycle + 1 \in Int /\ cycle \in 1 .. (cycle + 1) - 1
    BY <1>2, ShapeFacts
  <2> QED
    BY <1>3, <2>1, NotBroken
<1>5. /\ PipelineExact /\ WavefrontExact /\ AccExact(cycle)
      /\ LeavingExact(cycle) /\ Unbroken(cycle)
  BY <1>2, ExactParts
<1>6. /\ RowsExact(cycle) /\ OperandsExact(cycle) /\ WavesExact(cycle)
      /\ BurstsExact(cycle) /\ FrontExact(cycle)
  BY <1>2 DEF Exact
<1>7. RowsExact(cycle)'
  BY <1>2, <1>6, RowsStep
<1>8. OperandsExact(cycle)'
  BY <1>2, <1>6, OperandsStep
<1>9. WavesExact(cycle)'
  BY <1>2, <1>6, WavesStep
<1>10. BurstsExact(cycle)'
  BY <1>2, <1>4, <1>6, BurstsStep
<1>11. FrontExact(cycle)'
  BY <1>2, <1>6, FrontStep
<1>12. SumsExact(cycle)'
  BY <1>4, <1>5, SumsStep
<1>13. AccExact(cycle)' /\ LeavingExact(cycle)'
  BY <1>3, <1>5, AccStep
<1>14. \A n : Broken(n)' = Broken(n) /\ FailingAt(n)' = FailingAt(n)
  BY <1>1, HeldFrames
<1>15. Unbroken(cycle)'
  BY <1>1, <1>3, <1>14 DEF Unbroken
<1>16. Exact(cycle)'
  BY <1>7, <1>8, <1>9, <1>10, <1>11, <1>12, <1>13, <1>15 DEF Exact
<1>17. FaultsCaught'
  <2>1. (cycle + 1) - 1 = cycle
    BY <1>2, ShapeFacts
  <2> QED
    BY <1>1, <1>3, <1>14, <2>1 DEF FaultsCaught
<1>18. program' \in Programs /\ cycle' \in 1 .. Horizon + 1
  BY <1>1, <1>2, ShapeFacts
<1> QED
  BY <1>16, <1>17, <1>18 DEF MatrixInv

(* A check that fails is one the timetable fails in that cycle.             *)
LEMMA ThrowSound ==
  ASSUME MatrixInv, Throw
  PROVE  MatrixInv'
<1>1. /\ fault = {} /\ Failing # {} /\ cycle <= Horizon
      /\ program' = program /\ fault' = Failing /\ cycle' = cycle + 1
  BY DEF Throw
<1>2. /\ program \in Programs /\ cycle \in 1 .. Horizon /\ Exact(cycle)
  BY <1>1, ShapeFacts DEF MatrixInv
<1>3. fault' = FailingAt(cycle)
  BY <1>1, <1>2, FailingIs
<1>4. \A n : FailingAt(n)' = FailingAt(n)
  BY <1>1, HeldFrames
<1>5. FaultsCaught'
  <2>1. (cycle + 1) - 1 = cycle
    BY <1>2, ShapeFacts
  <2> QED
    BY <1>1, <1>3, <1>4, <2>1 DEF FaultsCaught
<1>6. program' \in Programs /\ cycle' \in 1 .. Horizon + 1
  BY <1>1, <1>2, ShapeFacts
<1> QED
  BY <1>1, <1>5, <1>6 DEF MatrixInv

(* Nothing else changes it.                                                 *)
LEMMA StutterSound ==
  ASSUME MatrixInv, UNCHANGED vars
  PROVE  MatrixInv'
<1>1. /\ program' = program /\ cycle' = cycle /\ loads' = loads
      /\ dequants' = dequants /\ computes' = computes /\ weights' = weights
      /\ activations' = activations /\ waves' = waves /\ leaving' = leaving
      /\ cursor' = cursor /\ running' = running /\ wavefront' = wavefront
      /\ sums' = sums /\ counts' = counts /\ acc' = acc /\ valid' = valid
      /\ owned' = owned /\ out' = out /\ fault' = fault
  BY DEF vars
<1>2. FaultsCaught'
  BY <1>1, HeldFrames DEF MatrixInv, FaultsCaught
<1>3. ASSUME Exact(cycle)
      PROVE  Exact(cycle)'
  <2>1. Unbroken(cycle)'
    BY <1>1, <1>3, HeldFrames DEF Exact, Unbroken
  <2>2. RowsExact(cycle)'
    BY <1>1, <1>3 DEF Exact, RowsExact, RowsAt, Past
  <2>3. OperandsExact(cycle)'
    BY <1>1, <1>3, OperandFrames DEF Exact, OperandsExact
  <2>4. WavesExact(cycle)'
    BY <1>1, <1>3, WaveFrames DEF Exact, WavesExact
  <2>5. LeavingExact(cycle)' /\ AccExact(cycle)'
    BY <1>1, <1>3, HeldFrames DEF Exact, LeavingExact, AccExact
  <2>6. BurstsExact(cycle)' /\ FrontExact(cycle)'
    BY <1>1, <1>3, BurstFrames DEF Exact, BurstsExact, FrontExact
  <2>7. SumsExact(cycle)'
    BY <1>1, <1>3, BurstFrames DEF Exact, SumsExact, SumsOfWorking, SumsOfFree
  <2> QED
    BY <2>1, <2>2, <2>3, <2>4, <2>5, <2>6, <2>7 DEF Exact
<1> QED
  BY <1>1, <1>2, <1>3 DEF MatrixInv

(* In every cycle of every schedule the rows, the operands, the waves, the  *)
(* bursts, the wavefront, the sums and the accumulator of the unit are what *)
(* the timetable makes of the cycles of issue.                              *)
THEOREM TimetableInvariance == Spec => []MatrixInv
<1>1. Init => MatrixInv
  BY StartsSound
<1>2. MatrixInv /\ [Next]_vars => MatrixInv'
  BY TickSound, ThrowSound, StutterSound DEF Next
<1> QED
  BY <1>1, <1>2, PTL DEF Spec

(* A wave the unit knows of holds its row; where none was forgotten, the    *)
(* unit knows of one if there is one.                                       *)
LEMMA CaughtIs ==
  ASSUME program \in Programs, NEW n \in Int
  PROVE  /\ Caught(n) => Incomplete(n)
         /\ Incomplete(n) /\ ~ Forgotten(n) => Caught(n)
<1>1. CASE At(n).op = "Read"
  <2>1. PICK address : address = At(n).address
    OBVIOUS
  <2>2. PICK last : last = <<address, Tiles - 1>>
    OBVIOUS
  <2>3. ASSUME ~ Forgotten(n), NEW w \in Takers(address, n), Holds(w, address, n)
        PROVE  Kept(last, WavesAt(w), ReadsAt(n))
    BY <1>1, <2>1, <2>2, <2>3 DEF Forgotten
  <2>4. ASSUME NEW w \in Takers(address, n), Kept(last, WavesAt(w), ReadsAt(n))
        PROVE  Holds(w, address, n)
    <3>1. w \in Issued("Wave")
      BY DEF Takers
    <3>2. WaveDone(w) \in Int /\ w \in Int /\ w <= WaveDone(w)
      BY <3>1, DoneCycles
    <3>3. \A c \in Clears : c.moment \in Int
      BY ClearMoments
    <3>4. Kept(last, WavesAt(WaveDone(w)), ReadsAt(n))
      BY <2>4, <3>2, <3>3 DEF Kept, WavesAt
    <3>5. last[1] = address
      BY <2>2
    <3> QED
      BY <2>2, <3>4, <3>5 DEF Holds
  <2>5. Marked(address, n) => \E w \in Takers(address, n) : Holds(w, address, n)
    BY <2>2, <2>4 DEF Marked
  <2>6. (\E w \in Takers(address, n) : Holds(w, address, n)) /\ ~ Forgotten(n)
          => Marked(address, n)
    BY <2>2, <2>3 DEF Marked
  <2> QED
    BY <2>1, <2>5, <2>6 DEF Caught, Incomplete
<1>2. CASE At(n).op # "Read"
  BY <1>2 DEF Caught, Incomplete
<1> QED
  BY <1>1, <1>2

(* The unit fails the checks the schedule breaks, in the first cycle it     *)
(* breaks one, and never otherwise, for every size of the array and every   *)
(* schedule; that a read of a row that is not full is among them needs that *)
(* no wave of the row was forgotten.                                        *)
THEOREM FaultsCorrect == Spec => []FaultsExact
<1>1. ASSUME MatrixInv
      PROVE  FaultsExact
  <2> SUFFICES ASSUME cycle > 1
               PROVE  FaultsExact
    BY DEF FaultsExact
  <2>1. PICK n \in Int : n = cycle - 1
    BY <1>1, ShapeFacts DEF MatrixInv
  <2>2. program \in Programs /\ fault = FailingAt(n)
    BY <1>1, <2>1 DEF MatrixInv, FaultsCaught
  <2>3. "incomplete" \notin DOMAIN Broken(n)
    BY DEF Broken
  <2>4. /\ fault \ {"incomplete"} = {check \in DOMAIN Broken(n) : Broken(n)[check]}
        /\ "incomplete" \in fault <=> Caught(n)
    BY <2>2, <2>3 DEF FailingAt
  <2>5. /\ Caught(n) => Incomplete(n)
        /\ Incomplete(n) /\ ~ Forgotten(n) => Caught(n)
    BY <2>2, CaughtIs
  <2> QED
    BY <2>1, <2>4, <2>5 DEF FaultsExact
<1> QED
  BY <1>1, TimetableInvariance, PTL

(* Every accumulator segment and every segment on the result streams holds  *)
(* the products the timetable puts there, for every size of the array and   *)
(* every schedule.                                                          *)
THEOREM ResultsCorrect == Spec => []ResultsExact
<1>1. MatrixInv => ResultsExact
  BY DEF MatrixInv, Exact, AccExact, HeldAt, ResultsExact
<1> QED
  BY <1>1, TimetableInvariance, PTL
=============================================================================
