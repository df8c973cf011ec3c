------------------------------ MODULE PageGate ------------------------------
(***************************************************************************)
(* What the common barrier promises, with no cursor, cache, phase or       *)
(* generation: a computation clock, a set of gates (a clock value and the  *)
(* pages that must be in SRAM by then) and the pages that have arrived.    *)
(* The clock may leave a value only when every gate up to it is open.      *)
(***************************************************************************)
EXTENDS Integers

CONSTANT ClockModulus       \* width of the clock register

VARIABLES gates,            \* set of [at, pages]
          clock,            \* the logical computation cycle
          arrived           \* pages visible in SRAM

gateVars == <<gates, clock, arrived>>

Clock == 0 .. ClockModulus - 1

(* A gate is open when all of its pages have arrived.                      *)
Open(g) == g.pages \subseteq arrived

Init == gates = {} /\ clock = 0 /\ arrived = {}

(* A new task: fresh gates, the clock and the arrivals start over.         *)
Load == /\ clock' = 0
        /\ arrived' = {}
        /\ \A g \in gates' : g.at \in Clock

(* A page becomes visible; the clock and the gates do not move.            *)
Arrive == /\ \E p \in UNION {g.pages : g \in gates} : arrived' = arrived \cup {p}
          /\ UNCHANGED <<gates, clock>>

(* One computation cycle is issued: no gate at or before it is closed.     *)
Advance == /\ \A g \in gates : g.at <= clock => Open(g)
           /\ clock' = (IF clock + 1 = ClockModulus THEN 0 ELSE clock + 1)
           /\ UNCHANGED <<gates, arrived>>

Next == Load \/ Arrive \/ Advance

Spec == Init /\ [][Next]_gateVars
=============================================================================
