------------------------------ MODULE MCC2cDma ------------------------------
(* Instances of C2cDma for TLC.                                            *)
EXTENDS C2cDma

Load(s, r, t)  == [op |-> "load", stream |-> s, rows |-> r, tag |-> t]
Store(s, r, t) == [op |-> "store", stream |-> s, rows |-> r, tag |-> t]
SyncAny        == [op |-> "sync", stream |-> 0, rows |-> <<>>, tag |-> 0]
WaitFor(t)     == [op |-> "wait", stream |-> 0, rows |-> <<>>, tag |-> t]

(* Stream 0 stores two rows and loads them back; stream 1 loads another    *)
(* row meanwhile, waits for the store, and loads its rows in the other     *)
(* order; after that both streams store.  The next program uses the tag of *)
(* the last store for a store of its own, which a load waits for.          *)
MCProgram == << Store(0, <<11, 12>>, 1), Load(0, <<12, 11>>, 2), Load(1, <<13>>, 3),
                WaitFor(1), Load(1, <<12, 11, 13>>, 4), WaitFor(4), SyncAny,
                Store(0, <<11>>, 5), Store(1, <<13>>, 6),
                Store(1, <<11>>, 6), WaitFor(6), Load(0, <<11>>, 7), SyncAny, SyncAny >>
MCEnds == {9}
NoEnds == {}

(* Two stores follow each other on one stream.                             *)
StoreProgram == << Store(0, <<11>>, 1), SyncAny, Store(0, <<12>>, 2), SyncAny >>

(* Two loads on different streams, and the SYNC that follows them.         *)
SyncProgram == << Load(0, <<11>>, 1), Load(1, <<12>>, 2), SyncAny >>

(* Each of them orders its conflicts, as a compiler has to.                *)
ASSUME ProgramOrdered == ConflictsOrdered
=============================================================================
