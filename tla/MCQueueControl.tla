--------------------------- MODULE MCQueueControl ---------------------------
(* Instances of QueueControl for TLC.                                      *)
EXTENDS QueueControl

At(c, o, g) == [cycle |-> c, op |-> o, tag |-> g]

(* Three queues that compete for the port: consecutive waits at one cycle, *)
(* a packet, and two NOTIFYs that two queues wait for.                     *)
First == [generation |-> 1,
          lists |-> [q \in 0 .. 2 |->
            CASE q = 0 -> <<At(0, "notify", 0), At(1, "wait", 1), At(1, "wait", 2)>>
              [] q = 1 -> <<At(0, "sync", 0), At(1, "wait", 1), At(2, "sync", 0)>>
              [] q = 2 -> <<At(0, "notify", 0), At(1, "packet", 1)>>],
          pages |-> [e \in {1, 2} |-> IF e = 1 THEN {10, 11} ELSE {12}]]

(* The next task reuses a page load; one queue has the port nearly for     *)
(* itself, so that its reads overlap.                                      *)
Second == [generation |-> 2,
           lists |-> [q \in 0 .. 2 |->
             CASE q = 0 -> <<At(1, "wait", 1), At(2, "notify", 0), At(2, "sync", 0)>>
               [] q = 1 -> <<>>
               [] q = 2 -> <<At(0, "packet", 1)>>],
           pages |-> [e \in {1} |-> {10}]]

MCTasks == {First, Second}
=============================================================================
