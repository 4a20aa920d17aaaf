------------------------------- MODULE Delivery -------------------------------
(***************************************************************************)
(* What becomes of a command, for the operator who types it: it is given   *)
(* to the system once, and from then on it is either taken into the log of *)
(* a leader once, or lost.  A lost command is neither given again nor      *)
(* taken, and a command that was taken is not given again either.  System  *)
(* implements it.                                                          *)
(***************************************************************************)
EXTENDS Sequences

CONSTANT Cmd

VARIABLES
  ungiven,    \* the commands the operator has yet to give
  pending,    \* those given and neither taken nor lost
  logged      \* those taken, in that order

deliveryVars == <<ungiven, pending, logged>>

DeliveryInit == ungiven \in SUBSET Cmd /\ pending = {} /\ logged = <<>>

Give(cmd) ==
  /\ cmd \in ungiven
  /\ ungiven' = ungiven \ {cmd}
  /\ pending' = pending \cup {cmd}
  /\ UNCHANGED logged

Take(cmd) ==
  /\ cmd \in pending
  /\ pending' = pending \ {cmd}
  /\ logged' = Append(logged, cmd)
  /\ UNCHANGED ungiven

Lose(cmd) ==
  /\ cmd \in pending
  /\ pending' = pending \ {cmd}
  /\ UNCHANGED <<ungiven, logged>>

DeliveryNext == \E cmd \in Cmd : Give(cmd) \/ Take(cmd) \/ Lose(cmd)

DeliverySpec == DeliveryInit /\ [][DeliveryNext]_deliveryVars
==============================================================================
