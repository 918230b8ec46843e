----------------------------- MODULE MCSimCarrier -----------------------------
(***************************************************************************)
(* SimCarrier for TLC: two SIM cards whose network codes differ in length, *)
(* one of them of a CXP carrier.                                           *)
(***************************************************************************)
EXTENDS SimCarrier, TLC

CONSTANTS simA, simB

MCMncLen == simA :> 2 @@ simB :> 3

\* Two events take a SIM out and put another one in.  With USB that may happen twice,
\* or something may go wrong in between.
MCMaxEvents == "USB" :> 4 @@ "PCIE" :> 2
===============================================================================
