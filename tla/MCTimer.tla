-------------------------------- MODULE MCTimer --------------------------------
(***************************************************************************)
(* Values for the timespecs of Timer.                                      *)
(***************************************************************************)
EXTENDS Timer

\* Each task adds a second.
MCAdds == {[sec |-> 1, nsec |-> 0]}

\* Indeterminate memory: the two tasks ask for 0 and 1 ticks, or for a
\* negative time and 1 tick.
MCGarbage == {[sec |-> -1, nsec |-> 0], [sec |-> -2, nsec |-> 1]}

\* The memory happened to be zero.
MCZero == {[sec |-> 0, nsec |-> 0]}
=============================================================================
