---------------------------- MODULE MeasuredBoot ----------------------------
(***************************************************************************)
(* What the TPM did while the log was written: its PCRs start at zero,     *)
(* PCR 0 at the locality of the startup, and take the measurements of the  *)
(* boot one after the other.  Whoever replays the log must end with these  *)
(* registers.                                                              *)
(***************************************************************************)
EXTENDS Naturals, Sequences

CONSTANTS Register,   \* the indices of the registers
          Boots       \* the boots, pairs of the value of PCR 0 at the start
                      \* and of the measurements, themselves pairs of a
                      \* register and a digest

VARIABLES pcr,        \* pcr[n]: what register n has gone through
          todo        \* the measurements still to be made

tpmVars == <<pcr, todo>>

TpmInit ==
  \E start \in {boot[1] : boot \in Boots} :
    /\ pcr = [n \in Register |-> IF n = 0 THEN start ELSE <<>>]
    /\ <<start, todo>> \in Boots

Measure ==
  /\ todo # <<>> /\ Head(todo)[1] \in Register
  /\ pcr' = [pcr EXCEPT ![Head(todo)[1]] = Append(@, <<"extend", Head(todo)[2]>>)]
  /\ todo' = Tail(todo)

TpmSpec == TpmInit /\ [][Measure]_tpmVars
=============================================================================
