--------------------------- MODULE MatrixTimetable ---------------------------
(***************************************************************************)
(* What a schedule of the matrix unit means, read off the issue cycles     *)
(* alone: no rows, pipelines or flags.  A compute issued at c multiplies at *)
(* tile t and column k in cycle c + t + k, a wave launched at L works in   *)
(* cycle L + t + k (+ the lane, in vector mode), and a read issued at r    *)
(* takes tile t's segment in cycle r + t.  From that follow the weights    *)
(* each product uses, the row each compute adds to, what every accumulator *)
(* segment holds at every moment, and which checks have to fail.           *)
(* MatrixUnit has to agree with it in every cycle of every schedule.       *)
(***************************************************************************)
EXTENDS MatrixUnit

Issued(op) == {c \in 1 .. Horizon : program.compute[c].op = op}
At(c) == program.compute[c]
LoadsOf(op, b) ==
    {c \in 1 .. Horizon : program.load[c].op = op /\ program.load[c].buffer = b}

Latest(cycles) ==
    IF cycles = {} THEN 0 ELSE CHOOSE c \in cycles : \A d \in cycles : d <= c

-----------------------------------------------------------------------------
(* Which operands meet *)

\* The IW whose weights a product uses: the last one issued early enough to
\* have passed, which is the same one for every tile of the column.
WeightUsed(b, column, lane, compute) ==
    Latest({c \in LoadsOf("IW", b) :
              /\ program.load[c].column = column
              /\ lane \in program.load[c].inner
              /\ c <= compute + column})

ActivationUsed(wave, column, lane) ==
    Latest({c \in LoadsOf("IsLoad", At(wave).buffer) :
              c <= wave + column + (IF At(wave).vector THEN lane ELSE 0)})

-----------------------------------------------------------------------------
(* Which row a compute adds to *)

ComputesOn(b) == {c \in Issued("Compute") : At(c).buffer = b}

\* Some tile computes on the buffer in the cycle.
Busy(b, n) == \E c \in ComputesOn(b) : n - c \in Tile

\* A compute's place in its burst, which lasts while the buffer is busy.
Place(compute) ==
    LET b == At(compute).buffer
    IN  Cardinality({c \in ComputesOn(b) :
            /\ c < compute
            /\ \A n \in c .. compute - 1 : Busy(b, n)})

RowAddress(compute) ==
    At(compute).address
      + (Place(compute) % (Tiles * Lanes)) * At(compute).stride

-----------------------------------------------------------------------------
(* What the accumulator holds *)

\* Moments: a cycle has four, its waves, its computes, its reads, its end.
WavesAt(n) == 4 * n
ComputesAt(n) == (4 * n) + 1
ReadsAt(n) == (4 * n) + 2
EndOf(n) == (4 * n) + 3
ByCompute(clear) == clear.moment % 4 = 1

WaveDone(wave) == wave + Stages(At(wave)) - 1
ColumnDone(compute, column) == compute + Tiles - 1 + column

ComputeAdds ==
    {[segment |-> <<RowAddress(c), column>>,
      moment |-> ComputesAt(ColumnDone(c, column)),
      value |-> [lane \in Lane |->
          {<<t, c, WeightUsed(At(c).buffer, column, lane, c)>> : t \in Tile}]] :
        c \in Issued("Compute"), column \in Tile}

WaveAdds ==
    {[segment |-> Target(At(w), column),
      moment |-> WavesAt(WaveDone(w)),
      value |-> [lane \in Lane |->
          {<<t, ActivationUsed(w, column, lane), w>> : t \in Tile}]] :
        w \in Issued("Wave"), column \in IsColumn}

Adds == ComputeAdds \cup WaveAdds

Clears ==
    {[segment |-> <<RowAddress(c), column>>,
      moment |-> ComputesAt(ColumnDone(c, column))] :
        c \in {x \in Issued("Compute") : At(x).stream /\ At(x).clear},
        column \in Tile}
    \cup
    {[segment |-> Target(At(w), column), moment |-> WavesAt(WaveDone(w))] :
        w \in {x \in Issued("Wave") : At(x).stream /\ At(x).clear},
        column \in IsColumn}
    \cup
    {[segment |-> <<At(r).address, t>>, moment |-> ReadsAt(r + t)] :
        r \in {x \in Issued("Read") : At(x).clear}, t \in Tile}

\* What a segment shows at a moment, before a clear of that moment.
Held(segment, moment) ==
    LET adds   == {a \in Adds : a.segment = segment /\ a.moment <= moment}
        clears == {c \in Clears : c.segment = segment /\ c.moment < moment}
        live   == {a \in adds : \A c \in clears : c.moment < a.moment}
    IN  [lane \in Lane |-> UNION {a.value[lane] : a \in live}]

\* The segments that leave to the result streams in a cycle.
ComputesLeaving(n) ==
    {[from |-> "Compute", tile |-> x[2],
      value |-> Held(<<RowAddress(x[1]), x[2]>>, ComputesAt(n))] :
        x \in {y \in Issued("Compute") \X Tile :
                 At(y[1]).stream /\ ColumnDone(y[1], y[2]) = n}}
WavesLeaving(n) ==
    {[from |-> "Wave", tile |-> x[2],
      value |-> Held(Target(At(x[1]), x[2]), WavesAt(WaveDone(x[1])))] :
        x \in {y \in Issued("Wave") \X Tile :
                 At(y[1]).stream /\ WaveDone(y[1]) + y[2] = n}}
ReadsLeaving(n) ==
    {[from |-> "Read", tile |-> x[2],
      value |-> Held(<<At(x[1]).address, x[2]>>, ReadsAt(n))] :
        x \in {y \in Issued("Read") \X Tile :
                 At(y[1]).stream /\ y[1] + y[2] = n}}
Leaves(n) == ComputesLeaving(n) \cup WavesLeaving(n) \cup ReadsLeaving(n)

-----------------------------------------------------------------------------
(* Which checks fail *)

\* No clear of a wave or a read has handed a segment back since a moment.
Kept(segment, since, m) ==
    \A c \in Clears :
        (c.segment = segment /\ c.moment < m /\ ~ ByCompute(c)) => c.moment < since

Filled(segment, read) ==
    \E w \in Issued("Wave") :
        /\ WaveDone(w) <= read
        /\ \E column \in IsColumn : Target(At(w), column) = segment
        /\ Kept(segment, WavesAt(WaveDone(w)), ReadsAt(read))

Takers(address, read) ==
    {w \in Issued("Wave") :
        w <= read /\ \E column \in IsColumn : Target(At(w), column)[1] = address}

\* A wave holds a row until all it brings there, and the last segment of the
\* row, have been handed back, each after the wave was done.
Holds(w, address, read) ==
    \E segment \in {Target(At(w), column) : column \in IsColumn}
                     \cup {<<address, Tiles - 1>>} :
        segment[1] = address /\ Kept(segment, WavesAt(WaveDone(w)), ReadsAt(read))

\* A read to the stream of a row that a wave holds and that is not full.
Incomplete(n) ==
    LET address == At(n).address
    IN  /\ At(n).op = "Read" /\ At(n).stream
        /\ \E w \in Takers(address, n) : Holds(w, address, n)
        /\ \E t \in Tile : ~ Filled(<<address, t>>, n)

\* A read of a row that a wave holds, although a clear has passed the last
\* segment of the row since the wave took it: the clear was still on its way
\* down, or the wave not done, and the unit no longer knows of the wave.
Forgotten(n) ==
    LET address == At(n).address
    IN  /\ At(n).op = "Read"
        /\ \E w \in Takers(address, n) :
              /\ Holds(w, address, n)
              /\ ~ Kept(<<address, Tiles - 1>>, WavesAt(w), ReadsAt(n))

InFlight(n) == {w \in Issued("Wave") : w < n /\ n <= WaveDone(w)}

\* A restart of a buffer that still has sums to take: the gap is too long for
\* the burst to go on, and too short for its last columns to be done.
TooSoon(c) ==
    LET b == At(c).buffer
    IN  /\ ~ Busy(b, c - 1)
        /\ \E d \in ComputesOn(b) : d < c /\ c <= ColumnDone(d, Tiles - 1)

Broken(n) ==
    LET i == At(n)
        l == program.load[n]
        scaled == program.dequant[n] # None
    IN  [refused    |-> ~ Acceptable(i),
         unpaired   |-> \/ l.op = "IW" /\ l.int8 # scaled
                        \/ i.op = "Wave" /\ ~ scaled
                        \/ scaled /\ i.op # "Wave" /\ l.op # "IW",
         starved    |-> \/ l # None /\ ~ l.fed
                        \/ i.op \in {"Compute", "Wave"} /\ ~ i.fed,
         layout     |-> i.op = "Wave" /\ \E w \in InFlight(n) :
                                           At(w).vector # i.vector,
         interval   |-> i.op = "Wave" /\ i.vector /\ \E w \in InFlight(n) :
                                                         n - w < Lanes,
         unloaded   |-> i.op = "Wave" /\ ActivationUsed(n, 0, 0) = 0,
         undrained  |-> i.op = "Compute" /\ TooSoon(n),
         outside    |-> \E c \in Issued("Compute"), column \in Tile :
                            ColumnDone(c, column) = n /\ RowAddress(c) >= AccRows]

-----------------------------------------------------------------------------
(* Properties *)

\* Every accumulator segment holds, after every cycle, exactly the products the
\* timetable puts there, and every segment on the result streams is the one
\* the timetable sends: one product per tile of each compute and wave, with
\* weights and activations of one load however loads overtake the wavefront,
\* nothing of an earlier burst, and nothing that a clear should have taken.
ResultsExact ==
    fault = {} =>
        /\ \A segment \in Segment : acc[segment] = Held(segment, EndOf(cycle - 1))
        /\ cycle > 1 => out = Leaves(cycle - 1)

\* A check fails in the first cycle in which the schedule breaks its rule, and
\* never otherwise: a burst restarted while its columns drain, a wave of the
\* other layout or too close behind another, an operand or scale that is not
\* there, a row outside the accumulator, a read of a row that waves have not
\* filled.  docs/mxm_modes.md:74-76 promises the last of them without
\* exception; the unit lets a read through if the wave was forgotten.
FaultsExact ==
    cycle > 1 =>
        LET n      == cycle - 1
            broken == Broken(n)
        IN  /\ fault \ {"incomplete"} = {check \in DOMAIN broken : broken[check]}
            /\ "incomplete" \in fault => Incomplete(n)
            /\ Incomplete(n) /\ ~ Forgotten(n) => "incomplete" \in fault
=============================================================================
