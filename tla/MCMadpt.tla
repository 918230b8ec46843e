-------------------------------- MODULE MCMadpt --------------------------------
(***************************************************************************)
(* Madpt for TLC.                                                          *)
(***************************************************************************)
EXTENDS Madpt

\* The loops of the code send their command 3, 11, 20 and 5 times; what matters is
\* that a loop can go round and be left.
Limits == [getjp |-> 1, oem |-> 1, prireset |-> 1, reset |-> 2]

\* One fault is enough for an error, a timeout and the reopening of the device; two let
\* the reopening fail as well.
Faults == [usb |-> 1, pcie |-> 2]
===============================================================================
