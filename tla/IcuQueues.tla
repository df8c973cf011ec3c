----------------------------- MODULE IcuQueues -----------------------------
(***************************************************************************)
(* A native queue and a raw macro queue of one ICU: loaded, primed until   *)
(* both frontends are ready, then ticked in every cycle the chip issues in *)
(* and held together in every cycle it does not (system/icu.hpp).          *)
(***************************************************************************)
EXTENDS InstructionQueue, MacroFrontend

CONSTANTS
  MaxHolds,         \* bound: cycles in which compute is held
  Loaded(_),        \* bound: the programs that are loaded
  Together(_, _)    \* bound: the programs and images that are loaded side by side

ASSUME IcuQueuesAssumption == MaxHolds \in Nat

VARIABLE holds      \* cycles in which compute was held

vars == <<nativeVars, macroVars, holds>>

Init == NativeInit /\ MacroInit /\ holds = 0

LoadProgram == (\E c \in Commands : AppendProgram(c)) /\ Loaded(code') /\ UNCHANGED <<macroVars, holds>>

(* The native queue is loaded by the program loader and primed, or filled  *)
(* by hand and launched when it is first ticked.                           *)
Configure ==
  /\ stage = "load" /\ MacroConfigure
  /\ NativeConfigure \/ UNCHANGED nativeVars
  /\ code # <<>> /\ Together(code, image') /\ UNCHANGED holds

NativeReady == mode = "prime" => frontend_ready

(* Chip::prime_icu_frontends: every queue that is not ready is prefetched. *)
Prime ==
  /\ stage = "prime" /\ broken = "none" /\ ~(NativeReady /\ raw_macro_ready)
  /\ NativePrime \/ (NativeReady /\ UNCHANGED nativeVars)
  /\ MacroPrime \/ (raw_macro_ready /\ UNCHANGED macroVars)
  /\ UNCHANGED holds

Start ==
  /\ stage = "prime" /\ broken = "none" /\ NativeReady /\ raw_macro_ready
  /\ NativeStart \/ Launch
  /\ MacroStart /\ UNCHANGED holds

(* The chip runs until a queue throws.                                     *)
Running == stage = "run" /\ fault = "none" /\ broken = "none" /\ ~(NativeDone /\ MacroDone)

Tick ==
  /\ Running
  /\ NativeTick \/ (NativeDone /\ UNCHANGED nativeVars)
  /\ MacroTick \/ (MacroDone /\ UNCHANGED macroVars)
  /\ UNCHANGED holds

Hold ==
  /\ Running /\ holds < MaxHolds /\ holds' = holds + 1
  /\ NativeHold /\ MacroHold

(* Only programs that wait for events are sent any.                        *)
Notify ==
  /\ Running /\ \E n \in DOMAIN code : code[n].k \in {"sync", "wait"}
  /\ NativeNotify /\ UNCHANGED <<macroVars, holds>>

Next == LoadProgram \/ Configure \/ Prime \/ Start \/ Tick \/ Hold \/ Notify

(* The chip is ticked as long as it runs.                                  *)
Spec == Init /\ [][Next]_vars
FairSpec == Spec /\ WF_vars(Prime) /\ WF_vars(Start) /\ WF_vars(Tick)
-----------------------------------------------------------------------------
(* The queues' registers are in range.                                     *)
TypeOK == NativeTypeOK /\ MacroTypeOK /\ holds \in 0 .. MaxHolds

(* No queue throws or starves unless its program or image asks for it,     *)
(* wherever the chip is held.                                              *)
FaultsJustified == NeverStarves /\ MacroFaultsJustified

(* A started chip comes to the end of both queues, or throws, or waits for *)
(* an event that never comes.                                              *)
QueuesEnd ==
  stage = "prime" ~> \/ NativeDone /\ MacroDone
                     \/ fault # "none" \/ broken # "none"
                     \/ iq # <<>> /\ Command(iq[1]).k \in {"sync", "wait"}
=============================================================================
