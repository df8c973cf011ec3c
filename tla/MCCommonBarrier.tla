-------------------------- MODULE MCCommonBarrier --------------------------
(* Instances of CommonBarrier for TLC.                                     *)
EXTENDS CommonBarrier

Entry(c, e) == [stop |-> c, event |-> e]
Binding(e, s) == [event |-> e, instances |-> s]

(* A task with two barriers, the first waiting for two pages; its successor *)
(* reuses a page instance number at cycle 0; and an image whose stop cycles *)
(* do not increase.                                                         *)
TwoBarriers == [generation |-> 1,
                entries |-> <<Entry(1, 7), Entry(2, 8)>>,
                bindings |-> <<Binding(7, <<1, 2>>), Binding(8, <<3>>)>>]
Successor   == [generation |-> 2,
                entries |-> <<Entry(0, 7)>>,
                bindings |-> <<Binding(7, <<1>>)>>]
Unordered   == [generation |-> 2,
                entries |-> <<Entry(2, 7), Entry(1, 8)>>,
                bindings |-> <<Binding(7, <<1>>), Binding(8, <<3>>)>>]

MCImages == {TwoBarriers, Successor, Unordered}
=============================================================================
