--------------------------- MODULE MCProgramLoader ---------------------------
(* Instances of ProgramLoader for TLC.                                     *)
EXTENDS ProgramLoader

Mem == [kind |-> "Mem", index |-> 0]
Mxm == [kind |-> "MxmLoad", index |-> 1]

I(s, q, m, w, n) == [store |-> s, queue |-> q, macro |-> m, width |-> w, words |-> n,
                     table |-> <<>>, rest |-> 0]
P(g, m) == [images |-> m, generation |-> g]
Macro(q, n) == I("Imem", q, TRUE, 3, n)

C(cycle, opcode, operand) == [cycle |-> cycle, opcode |-> opcode, operand |-> operand]
B(event, instances) == [event |-> event, source |-> 2, instances |-> instances]
Qctl(q, T) == [I("Qctl", q, FALSE, 3, Len(T)) EXCEPT !.table = T]
Barr(T) ==
  [I("Barr", Mem, FALSE, 2, Len(T)) EXCEPT
     !.table = [k \in DOMAIN T |-> [stop |-> T[k][1], event |-> T[k][2]]]]
Events(s, T, rest) ==
  [I(s, Mem, FALSE, 1, (IF s = "QueueEvents" THEN 3 ELSE 2) * Len(T) + Cardinality(Slots(T)) + rest)
     EXCEPT !.table = T, !.rest = rest]

(* Words of three and four lanes do not divide a vector of eight; the last *)
(* vector of an image is partly padding.                                   *)
Page == <<C(0, "Sync", 0), C(2, "MemPacket", 1), C(2, "WaitEvent", 7)>>
Controls == P(2, <<Macro(Mem, 11), Qctl(Mem, Page), Events("QueueEvents", <<B(7, <<4>>)>>, 0)>>)
Barriers == P(1, <<I("Imem", Mem, FALSE, 4, 3), Barr(<< <<3, 7>>, <<5, 2>> >>),
                   Events("BarrierEvents", <<B(2, <<4>>), B(7, <<1, 3>>)>>, 0)>>)

(* The same images in an order that cannot be sealed, and no image at all. *)
Disordered == {P(2, <<Qctl(Mem, <<C(0, "Sync", 0)>>), Macro(Mem, 1), Events("QueueEvents", <<>>, 0)>>),
               P(2, <<Events("BarrierEvents", <<B(7, <<4>>)>>, 0), Barr(<< <<3, 7>> >>)>>)}
Nothing == P(0, <<>>)

(* Programs that submit() accepts and the ICU cannot use: a table without  *)
(* its events, an event of two barriers, an instance of two events, words  *)
(* that end inside a record, a source with instances that takes none,      *)
(* controls out of order or not known, a MEM packet of a queue that is not *)
(* MEM's, and more controls than the pool has room for.                    *)
Unbound(T, E) == P(1, <<Barr(T), Events("BarrierEvents", E, 0)>>)
Queued(q, T, E, rest) == P(1, <<Macro(q, 1), Qctl(q, T), Events("QueueEvents", E, rest)>>)
Malformed ==
  {Unbound(<< <<3, 7>> >>, <<>>), Unbound(<< <<3, 7>>, <<4, 7>> >>, <<B(7, <<4>>), B(2, <<5>>)>>),
   Unbound(<< <<3, 7>>, <<4, 2>> >>, <<B(7, <<4>>), B(2, <<4>>)>>),
   Queued(Mem, Page, <<B(7, <<4>>)>>, 1), Queued(Mem, <<C(2, "Sync", 0), C(1, "Sync", 0)>>, <<>>, 0),
   Queued(Mem, <<C(0, "Invalid", 0)>>, <<>>, 0), Queued(Mem, <<>>, <<[B(7, <<4>>) EXCEPT !.source = 1]>>, 0),
   Queued(Mxm, <<C(2, "MemPacket", 1)>>, <<>>, 0),
   P(1, <<Macro(Mem, 1), Macro(Mxm, 1), Qctl(Mem, Page), Qctl(Mxm, SubSeq(Page, 1, 1) \o SubSeq(Page, 3, 3)),
          Events("QueueEvents", <<B(7, <<4>>)>>, 0)>>)}

MCPrograms == {Controls, Barriers, Nothing} \cup Disordered \cup Malformed

MCConfigs == {[bus |-> 8, route |-> 1, interval |-> 1, commit |-> 2],
              [bus |-> 5, route |-> 2, interval |-> 4, commit |-> 1]}

(* A vector of eight tiles, 64 bytes, and a bus that carries it at once.   *)
WidePrograms == {P(2, <<Macro(Mem, 11)>>)}
WideConfigs  == {[bus |-> 16, route |-> 1, interval |-> 1, commit |-> 1]}
=============================================================================
