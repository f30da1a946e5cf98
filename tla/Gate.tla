-------------------------------- MODULE Gate --------------------------------
(***************************************************************************)
(* What event, latch and wait_group promise: a gate that is open when the  *)
(* calls it was made for have been made.  Who comes may be made to wait;   *)
(* nobody is released while calls are missing, everybody is released once, *)
(* and returns from its co_await once.  An event or a latch stays open; a  *)
(* wait_group asks for further calls when somebody adds to it.             *)
(***************************************************************************)
EXTENDS Naturals

CONSTANT Waiters

VARIABLES left,  \* the calls of set(), count_down() or done() that are missing
          at     \* per waiter

gateVars == <<left, at>>

GateInit == left \in Nat /\ at = [w \in Waiters |-> "outside"]

Call == /\ left > 0
        /\ left' = left - 1
        /\ UNCHANGED at

\* A further call is asked for: a gate that was open closes.
AddCall == /\ left' = left + 1
           /\ UNCHANGED at

Arrive(w) == /\ at[w] = "outside"
             /\ at' = [at EXCEPT ![w] = "waiting"]
             /\ UNCHANGED left

LetGo(w) == /\ at[w] \in {"outside", "waiting"}
            /\ at' = [at EXCEPT ![w] = "released"]
            /\ UNCHANGED left

Release(w) == left = 0 /\ LetGo(w)

Return(w) == /\ at[w] = "released"
             /\ at' = [at EXCEPT ![w] = "returned"]
             /\ UNCHANGED left

GateNext == \/ Call
            \/ \E w \in Waiters : Arrive(w) \/ Release(w) \/ Return(w)

GateSpec == GateInit /\ [][GateNext]_gateVars
=============================================================================
