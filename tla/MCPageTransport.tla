--------------------------- MODULE MCPageTransport ---------------------------
(* Instances of PageTransport for TLC.  Two banks: A is next to the edge,  *)
(* B one column further; the delay of a packet is the distance.            *)
EXTENDS PageTransport, TLC

Sync(tag, count, delay, reserve, row, stream, launch) ==
  [op |-> "sync", tag |-> tag, count |-> count, delay |-> delay, reserve |-> reserve,
   row |-> row, stride |-> 1, stream |-> stream, launch |-> launch]
Wait(event, launch) == [op |-> "wait", event |-> event, launch |-> launch]
Read(row, stream, sees) == [op |-> "read", row |-> row, stream |-> stream, sees |-> sees]
Rx(bank, tag, stream, count) == [bank |-> bank, tag |-> tag, stream |-> stream, count |-> count]

MCPlace == ("A" :> 1) @@ ("B" :> 0)

(* A: two pages in the native queue, each read back.  B: a page in the     *)
(* transport store, which the native queue waits for.  With barriers all   *)
(* pages are in the transport store and the native queues wait for them,   *)
(* for all of a bank, since its port takes one instruction in a cycle.     *)
PageB == <<Sync(3, 2, 1, 1, 0, 9, 3)>>
MCPrograms ==
  [c \in BOOLEAN |-> IF c
   THEN [native |-> ("A" :> <<Wait(7, 1), Wait(8, 2), Read(1, 20, <<1, 2>>), Read(2, 20, <<1, 3>>)>>)
                 @@ ("B" :> <<Wait(6, 3), Read(1, 21, <<2, 2>>)>>),
         transport |-> ("A" :> <<Sync(1, 2, 0, 4, 0, 8, 1), Sync(2, 1, 0, 1, 2, 8, 2)>>)
                    @@ ("B" :> PageB)]
   ELSE [native |-> ("A" :> <<Sync(1, 2, 0, 4, 0, 8, 1), Read(1, 20, <<1, 2>>),
                              Sync(2, 1, 0, 1, 2, 8, 2), Wait(5, 3), Read(2, 20, <<1, 3>>)>>)
                 @@ ("B" :> <<Wait(6, 3), Read(1, 21, <<2, 2>>)>>),
         transport |-> ("A" :> <<>>) @@ ("B" :> PageB)]]
MCReceives == <<<<Rx("A", 1, 8, 2), Rx("A", 2, 8, 1)>>, <<Rx("B", 3, 9, 2)>>>>

(* The programs above observe what the theorems assume.                    *)
ASSUME MCScheduled == Programs = MCPrograms => Scheduled

(* Two pages with one tag, the first with a long reservation.              *)
SameTagPrograms ==
  [c \in BOOLEAN |->
    [native |-> ("A" :> <<>>) @@ ("B" :> <<>>),
     transport |-> ("A" :> <<Sync(1, 1, 0, 6, 0, 8, 1), Sync(1, 1, 0, 1, 1, 8, 2)>>) @@ ("B" :> <<>>)]]
SameTagReceives == <<<<Rx("A", 1, 8, 1), Rx("A", 1, 8, 1)>>, <<>>>>
=============================================================================
