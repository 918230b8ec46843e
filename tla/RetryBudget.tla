------------------------------ MODULE RetryBudget ------------------------------
(***************************************************************************)
(* What the recovery of a module promises: a drastic act (flashing it from *)
(* the saved folder, pulling its reset line) is counted on disk before it  *)
(* is done, and only as long as the count is within its limit.             *)
(*                                                                         *)
(* This is the abstract specification of two protocols, the boot failure   *)
(* count of pwl_core (RecoveryMonitor) and the reset count of pwl_fwupdate *)
(* and pwl_core (UsbUpdate).  Here the count is one atomic value that no   *)
(* crash touches; in the code it is a line of a text file that several     *)
(* processes read, truncate and write.                                     *)
(***************************************************************************)
EXTENDS Naturals, TLAPS

CONSTANT Limit

VARIABLES
    saved,   \* the count on disk
    used,    \* acts done since the count was last forgiven
    broken   \* the count has been destroyed: nothing is promised any more

vars == <<saved, used, broken>>

Init ==
    /\ saved = 0
    /\ used = 0
    /\ broken = FALSE

\* One more act is wanted.
Save ==
    /\ saved' = saved + 1
    /\ UNCHANGED used

\* The act that the count on disk allows.
Act ==
    /\ used < saved
    /\ saved <= Limit
    /\ used' = used + 1
    /\ UNCHANGED saved

\* The module works again; then the count may be cleared.
Forgive ==
    /\ used' = 0
    /\ UNCHANGED saved

Clear ==
    /\ used = 0
    /\ saved' = 0
    /\ UNCHANGED used

Next ==
    \/ /\ Save \/ Act \/ Forgive \/ Clear
       /\ UNCHANGED broken
    \/ /\ broken' = TRUE
       /\ saved' \in Nat
       /\ used' \in Nat

Spec == Init /\ [][Next]_vars

-------------------------------------------------------------------------------
(* What follows from it.                                                    *)

Bounded == ~broken => used <= Limit

BudgetInv ==
    /\ saved \in Nat
    /\ used \in Nat
    /\ broken \in BOOLEAN
    /\ Bounded

\* Whoever keeps to the budget acts at most Limit times until the count is forgiven,
\* unless the count was destroyed.
THEOREM ActsAreBounded ==
    ASSUME Limit \in Nat
    PROVE  Spec => []Bounded
<1>1. Init => BudgetInv
  <2>1. Init => saved \in Nat /\ used \in Nat /\ used <= Limit
    BY DEF Init
  <2>2. Init => broken \in BOOLEAN
    BY DEF Init
  <2> QED BY <2>1, <2>2 DEF BudgetInv, Bounded
<1>2. BudgetInv /\ [Next]_vars => BudgetInv'
  <2> SUFFICES ASSUME BudgetInv, [Next]_vars PROVE BudgetInv'
    OBVIOUS
  <2>1. CASE /\ Save \/ Act \/ Forgive \/ Clear
             /\ UNCHANGED broken
    <3>1. saved' \in Nat /\ used' \in Nat
      BY <2>1 DEF BudgetInv, Save, Act, Forgive, Clear
    <3>2. used' <= used \/ used' <= Limit
      BY <2>1 DEF BudgetInv, Save, Act, Forgive, Clear
    <3>3. broken' \in BOOLEAN /\ (~broken' => ~broken)
      BY <2>1 DEF BudgetInv
    <3>4. ~broken => used' <= Limit
      BY <3>1, <3>2 DEF BudgetInv, Bounded
    <3> QED BY <3>1, <3>3, <3>4 DEF BudgetInv, Bounded
  <2>2. CASE broken' = TRUE /\ saved' \in Nat /\ used' \in Nat
    BY <2>2 DEF BudgetInv, Bounded
  <2>3. CASE UNCHANGED vars
    BY <2>3 DEF BudgetInv, Bounded, vars
  <2> QED BY <2>1, <2>2, <2>3 DEF Next
<1>3. BudgetInv => Bounded
  BY DEF BudgetInv
<1>4. QED
  BY <1>1, <1>2, <1>3, PTL DEF Spec
================================================================================
