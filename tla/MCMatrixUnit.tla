---------------------------- MODULE MCMatrixUnit ----------------------------
(***************************************************************************)
(* Schedules of a unit of 3 x 3 supercells with 2 lanes: bursts whose      *)
(* second compute comes after every gap while weights are being loaded,    *)
(* waves of both layouts while activations are being loaded, rows packed   *)
(* from single-column waves, and reads at every cycle around them.         *)
(***************************************************************************)
EXTENDS MatrixTimetable, TLC

Cycles == 1 .. Horizon

IW(b, column, inner) ==
    [op |-> "IW", buffer |-> b, column |-> column, inner |-> inner,
     int8 |-> FALSE, fed |-> TRUE]
IW8(b, column) == [IW(b, column, Lane) EXCEPT !.int8 = TRUE]
IsLoad(b) == [op |-> "IsLoad", buffer |-> b, fed |-> TRUE]

\* Where results go: kept in the SRAM, sent, or sent and cleared.
Keep == <<FALSE, FALSE>>
Send == <<TRUE, FALSE>>
Take == <<TRUE, TRUE>>
Drop == <<FALSE, TRUE>>

Ws(b, address, stride, to) ==
    [op |-> "Compute", buffer |-> b, address |-> address, stride |-> stride,
     stream |-> to[1], clear |-> to[2], fed |-> TRUE]
Wave(b, address, column, vector, to) ==
    [op |-> "Wave", buffer |-> b, address |-> address, column |-> column,
     vector |-> vector, stream |-> to[1], clear |-> to[2], fed |-> TRUE]
Read(address, to) ==
    [op |-> "Read", address |-> address, stream |-> to[1], clear |-> to[2]]

Filling(sparse) ==
    [c \in Cycles |-> IF c \in DOMAIN sparse THEN sparse[c] ELSE None]

Scaled(load, compute) ==
    {c \in Cycles : \/ c \in DOMAIN load /\ load[c].op = "IW" /\ load[c].int8
                    \/ c \in DOMAIN compute /\ compute[c].op = "Wave"}

\* A schedule with a Dequant where one is wanted, but for the cycles of skew.
Skewed(columns, load, compute, skew) ==
    LET wanted == Scaled(load, compute)
        given  == (wanted \ skew) \cup (skew \ wanted)
    IN  [isColumns |-> columns, load |-> Filling(load),
         compute |-> Filling(compute),
         dequant |-> [c \in Cycles |->
                        IF c \in given THEN [op |-> "Dequant"] ELSE None]]
Schedule(columns, load, compute) == Skewed(columns, load, compute, {})

-----------------------------------------------------------------------------
(* Two computes at every gap; a load, whole or of one inner column, passes   *)
(* before, between or behind them.                                           *)
Bursts ==
    {Schedule(3, 1 :> IW(0, column, Lane) @@ d :> IW(0, column, inner),
              3 :> Ws(0, 0, 1, Keep) @@ (3 + gap) :> Ws(b, address, 1, to)) :
        column \in {0, 2}, d \in {3, 4, 5, 6, 8}, inner \in {Lane, {0}},
        gap \in 1 .. 6, b \in Buffer, address \in {0, 1},
        to \in {Send, Take}}

\* Three computes, so that a burst can go on, start again, or fault late.
Trains ==
    {Schedule(3, 1 :> IW8(0, 1),
              2 :> Ws(0, 0, stride, Keep) @@ (2 + g) :> Ws(0, 1, stride, Take)
                @@ (2 + g + h) :> Ws(0, 0, stride, Take)) :
        g \in {1, 3, 5}, h \in {1, 2, 4, 5}, stride \in {1, 3}}

\* A burst that comes round to its first row while the unit still works.
Rounds ==
    {Schedule(3, 1 :> IW(1, 1, Lane) @@ 6 :> IW(1, 1, Lane),
              [c \in 2 .. 9 |-> Ws(1, 0, stride, to)]) :
        stride \in {1, 2}, to \in {Keep, Take}}

\* A compute's row is read, and perhaps emptied, before it is all there.
Drained ==
    {Schedule(3, 1 :> IW(0, 0, Lane),
              2 :> Ws(0, 0, 1, Keep) @@ 3 :> Ws(0, 0, 1, Keep)
                @@ r :> Read(address, how) @@ 11 :> Read(0, Take)) :
        r \in 4 .. 10, address \in {0, 1}, how \in {Send, Take, Drop}}

-----------------------------------------------------------------------------
(* Waves over every column, with the activations loaded again around them. *)
Waves ==
    {Schedule(3, 1 :> IsLoad(0) @@ d :> IsLoad(b),
              2 :> Wave(0, 0, 0, v, to)
                @@ (2 + gap) :> Wave(b, 0, 0, w, Take)) :
        d \in {2, 3, 4, 6}, b \in Buffer, gap \in 1 .. 7,
        v \in BOOLEAN, w \in BOOLEAN, to \in {Keep, Send}}

\* A row packed from single-column waves, read at every cycle, and again.
Packed ==
    {Schedule(1, 1 :> IsLoad(0),
              2 :> Wave(0, 0, 0, v, Keep)
                @@ (2 + step) :> Wave(0, 0, second, v, Keep)
                @@ (2 + (2 * step)) :> Wave(0, 0, 2, v, Keep)
                @@ r :> Read(0, how) @@ (r + again) :> Read(0, Take)) :
        v \in BOOLEAN, step \in {2}, second \in {1, 2}, r \in 7 .. 10,
        how \in {Send, Take, Drop}, again \in {1, 2, 3}}

\* A row that is taken again while a clearing read is still going down it.
Retaken ==
    {Schedule(3, 1 :> IsLoad(0),
              2 :> Wave(0, 0, 0, FALSE, Keep) @@ 7 :> Read(0, how)
                @@ w :> Wave(0, address, 0, FALSE, Keep) @@ r :> Read(0, Take)) :
        w \in 4 .. 10 \ {7}, r \in 9 .. 13, address \in {0, 1},
        how \in {Take, Drop, Send}}

\* Both kinds of compute on the same row.
Shared ==
    {Schedule(3, 1 :> IsLoad(0) @@ 2 :> IW(0, 0, Lane),
              3 :> Wave(0, 0, 0, FALSE, to) @@ c :> Ws(0, 0, 1, how)
                @@ r :> Read(0, Take)) :
        to \in {Keep, Take}, c \in 4 .. 6, how \in {Keep, Take},
        r \in 7 .. 10}

-----------------------------------------------------------------------------
(* Schedules with an operand or a scale missing, or a field out of range. *)
Unfed(i) == [i EXCEPT !.fed = FALSE]
Broken1 ==
    {Schedule(3, 1 :> Unfed(IW(0, 0, Lane)), 2 :> Ws(0, 0, 1, Take)),
     Schedule(3, 1 :> IW(0, 0, Lane), 2 :> Unfed(Ws(0, 0, 1, Take))),
     Schedule(3, 1 :> Unfed(IsLoad(0)), 2 :> Wave(0, 0, 0, FALSE, Take)),
     Schedule(3, 1 :> IsLoad(0), 2 :> Unfed(Wave(0, 0, 0, TRUE, Take))),
     Schedule(3, 2 :> IsLoad(0), 1 :> Wave(0, 0, 0, FALSE, Take)),
     Schedule(3, 1 :> IsLoad(0), 1 :> Wave(1, 0, 0, FALSE, Take)),
     Schedule(1, 1 :> IsLoad(0), 2 :> Wave(0, 0, 0, FALSE, Take)),
     Schedule(3, 1 :> IsLoad(0), 2 :> Wave(0, AccRows - 1, 1, FALSE, Keep)),
     Schedule(1, 1 :> IsLoad(0), 2 :> Wave(0, AccRows - 1, 2, FALSE, Keep)),
     Schedule(3, 1 :> IW(0, 0, Lane), 2 :> Ws(0, AccRows, 1, Keep)),
     Schedule(3, 1 :> IW(0, 0, Lane), 2 :> Ws(0, 0, 0, Keep)),
     Schedule(3, 1 :> IW(0, 0, Lane), 2 :> Read(AccRows, Take)),
     Schedule(3, 1 :> IW(0, 0, Lane),
              2 :> Ws(0, AccRows - 1, 1, Keep) @@ 3 :> Ws(0, AccRows - 1, 1, Keep))}

Scales ==
    {Skewed(3, 1 :> IsLoad(0) @@ 3 :> l,
            2 :> Wave(0, 0, 0, FALSE, Take) @@ 3 :> Wave(0, 0, 0, FALSE, Take),
            skew) :
        l \in {IW(0, 0, Lane), IW8(0, 1), IsLoad(1)},
        skew \in SUBSET {1, 2, 3}}
    \cup {Skewed(3, 1 :> l, 2 :> Ws(0, 0, 1, Take), skew) :
            l \in {IW(0, 0, Lane), IW8(0, 1)}, skew \in SUBSET {1, 2}}

MCPrograms ==
    Bursts \cup Trains \cup Rounds \cup Drained \cup Waves \cup Packed
      \cup Retaken \cup Shared \cup Broken1 \cup Scales
=============================================================================
