---------------------------- MODULE UsbUpdate_proofs ----------------------------
(***************************************************************************)
(* For every threshold and every set of scenarios, over any number of      *)
(* crashes, the module is reset at most once more than HW_RESET_RETRY_TH.  *)
(* Without crashes and packages, main and the retry thread never work at   *)
(* the same time, and the restarts for the eSIM test profile are bounded.  *)
(***************************************************************************)
EXTENDS UsbUpdate, TLAPS

\* What the proof needs to know of the types.
StatusType ==
    /\ file \in [retry : Nat, hw : Nat, need : {0, 1}, jp : Nat]
    /\ g_fw_update_retry_count \in Nat
    /\ core_pc \in {"idle", "reset"}
    /\ resets \in Nat

\* The count on disk is ahead of the resets: by one more while the handler of
\* pwl_core is between set_fw_update_status_value and hw_reset.
Covered ==
    /\ file.hw <= HwResetTH + 1
    /\ resets + (IF core_pc = "reset" THEN 1 ELSE 0) <= file.hw

ResetInv == StatusType /\ Covered

\* A fresh status file counts no reset.
LEMMA InitResetInv == Init => ResetInv
BY ConstantsAssumption DEF Init, ResetInv, StatusType, Covered

\* A step that leaves the reset count and the resets alone.
OtherStep ==
    /\ file' \in [retry : Nat, hw : Nat, need : {0, 1}, jp : Nat]
    /\ g_fw_update_retry_count' \in Nat
    /\ file'.hw = file.hw
    /\ core_pc' \in {core_pc, "idle"}
    /\ resets' = resets

\* Only gpio_reset_method raises the count, and only hw_reset resets the module.
LEMMA StepShape == ResetInv /\ [Next]_vars => GpioReset \/ HwReset \/ OtherStep
<1> SUFFICES ASSUME ResetInv, [Next]_vars PROVE GpioReset \/ HwReset \/ OtherStep
  OBVIOUS
<1> USE DEF OtherStep, ResetInv, StatusType, memory, counts, profile, peers
<1>1. ASSUME NEW t \in Threads, ThreadStep(t) PROVE OtherStep
  <2>1. CASE ReadNeed(t) \/ WaitForMadpt(t) \/ CheckAtStartup(t) \/ RetryWakes(t)
    BY <2>1, ConstantsAssumption DEF ReadNeed, WaitForMadpt, CheckAtStartup, RetryWakes
  <2>2. CASE Start(t) \/ SaveDone(t) \/ VersionKnown(t)
    BY <2>2, ConstantsAssumption DEF Start, SaveDone, VersionKnown
  <2>3. CASE CheckProfile(t) \/ RemoveFails(t)
    BY <2>3, ConstantsAssumption DEF CheckProfile, RemoveFails
  <2>4. CASE RemoveAnswered(t) \/ EndEfsRecovery(t)
    BY <2>4, ConstantsAssumption DEF RemoveAnswered, EndEfsRecovery, RestartServices, Reborn
  <2>5. CASE ReadStatus(t)
    BY <2>5, ConstantsAssumption DEF ReadStatus
  <2>6. CASE PrepareUpdate(t) \/ JpFccAnswered(t) \/ CompareVersions(t)
    BY <2>6, ConstantsAssumption DEF PrepareUpdate, JpFccAnswered, CompareVersions
  <2>7. CASE SetupDownload(t)
    <3>1. /\ \/ /\ g_fw_update_retry_count' = g_fw_update_retry_count + 1
                /\ file' = [file EXCEPT !.retry = g_fw_update_retry_count + 1]
             \/ UNCHANGED <<g_fw_update_retry_count, file>>
          /\ UNCHANGED <<core_pc, resets>>
      BY <2>7, Zenon DEF SetupDownload
    <3>2. QED
      BY <3>1
  <2>8. CASE ArrangeOemImage(t) \/ DownloadFails(t) \/ DownloadSucceeds(t) \/ MadptBack(t)
               \/ FinishDownload(t) \/ LastQueries(t)
    BY <2>8, ConstantsAssumption DEF ArrangeOemImage, DownloadFails, DownloadSucceeds,
       MadptBack, FinishDownload, LastQueries
  <2>9. CASE EndAttempt(t)
    BY <2>9, ConstantsAssumption DEF EndAttempt
  <2>10. CASE CallGpioReset(t) \/ CallReturns(t)
    BY <2>10, ConstantsAssumption DEF CallGpioReset, CallReturns
  <2>11. QED
    BY <1>1, <2>1, <2>2, <2>3, <2>4, <2>5, <2>6, <2>7, <2>8, <2>9, <2>10 DEF ThreadStep
<1>2. ASSUME NEW t \in Threads, PackageArrives(t) PROVE OtherStep
  BY <1>2, ConstantsAssumption DEF PackageArrives
<1>3. CASE MadptStarted
  BY <1>3, ConstantsAssumption DEF MadptStarted
<1>4. CASE GpioReset \/ HwReset
  BY <1>4
<1>6. CASE MadptRestarts
  BY <1>6, ConstantsAssumption DEF MadptRestarts
<1>7. CASE MadptStarts
  BY <1>7, ConstantsAssumption DEF MadptStarts
<1>8. CASE FwupdateCrash \/ MadptCrash \/ CoreCrash
  BY <1>8, ConstantsAssumption DEF FwupdateCrash, MadptCrash, CoreCrash, Reborn
<1>9. CASE UNCHANGED vars
  BY <1>9, ConstantsAssumption DEF vars
<1>10. QED
  BY <1>1, <1>2, <1>3, <1>4, <1>6, <1>7, <1>8, <1>9 DEF Next, CoreStep, MadptStep

\* The count on disk stays ahead of the resets.
LEMMA ResetInvStep == ResetInv /\ [Next]_vars => ResetInv'
<1> SUFFICES ASSUME ResetInv, [Next]_vars PROVE ResetInv'
  OBVIOUS
<1> USE ConstantsAssumption DEF ResetInv, StatusType, Covered
<1>1. CASE GpioReset
  BY <1>1 DEF GpioReset, memory, counts, profile, peers
<1>2. CASE HwReset
  BY <1>2 DEF HwReset, memory, counts, profile, peers
<1>3. CASE OtherStep
  BY <1>3 DEF OtherStep
<1>4. QED
  BY <1>1, <1>2, <1>3, StepShape

\* Every step is a step of RetryBudget or leaves its variables alone.
LEMMA BudgetStep == ResetInv /\ [Next]_vars => [Budget!Next]_(Budget!vars)
<1> SUFFICES ASSUME ResetInv, [Next]_vars PROVE [Budget!Next]_(Budget!vars)
  OBVIOUS
<1> USE ConstantsAssumption DEF ResetInv, StatusType, Covered
<1>1. CASE GpioReset
  <2>1. UNCHANGED resets /\ file'.hw \in {file.hw, file.hw + 1}
    BY <1>1 DEF GpioReset, memory, counts, profile, peers
  <2>2. CASE file'.hw = file.hw + 1
    BY <2>1, <2>2 DEF Budget!Next, Budget!Save
  <2>3. CASE file'.hw = file.hw
    BY <2>1, <2>3 DEF Budget!vars
  <2>4. QED
    BY <2>1, <2>2, <2>3
<1>2. CASE HwReset
  <2>1. /\ core_pc = "reset"
        /\ UNCHANGED file
        /\ resets' = resets + 1
    BY <1>2 DEF HwReset, memory, counts, profile, peers
  <2>2. resets < file.hw /\ file.hw <= HwResetTH + 1
    BY <2>1
  <2>3. QED
    BY <2>1, <2>2 DEF Budget!Next, Budget!Act
<1>3. CASE OtherStep
  BY <1>3 DEF OtherStep, Budget!vars
<1>4. QED
  BY <1>1, <1>2, <1>3, StepShape

\* gpio_reset_method bounds the resets of the module for its whole life, over any
\* number of failed updates and of crashes of any of the services.
THEOREM ResetsAreBounded == Spec => []ResetsBounded
<1>1. ResetInv => ResetsBounded
  BY ConstantsAssumption DEF ResetInv, StatusType, Covered, ResetsBounded
<1>2. QED
  BY InitResetInv, ResetInvStep, <1>1, PTL DEF Spec

\* gpio_reset_method and hw_reset implement the abstract count of RetryBudget.
THEOREM ResetsKeepToBudget == Spec => ImplementsBudget
<1>1. Init => Budget!Init
  BY DEF Init, Budget!Init
<1>2. QED
  BY InitResetInv, ResetInvStep, BudgetStep, <1>1, PTL
     DEF Spec, ImplementsBudget, Budget!Spec

-------------------------------------------------------------------------------
(* The shape of the state.                                                  *)

\* TypeOK in two parts: the Boolean values, and the rest.
FlagType ==
    /\ scenario \in Scenarios
    /\ efs \in [Threads -> BOOLEAN]
    /\ g_retry_fw_update \in BOOLEAN
    /\ zip \in BOOLEAN
    /\ current \in BOOLEAN

ValueType ==
    /\ pc \in [Threads -> Labels]
    /\ need_retry \in {0, 1}
    /\ phase \in [Threads -> {1, 2}]
    /\ g_fw_update_retry_count \in Nat
    /\ g_do_hw_reset_count \in 0..(HwResetTH + 1)
    /\ g_testprofile_delete_counter \in 0..DeleteTries
    /\ g_testprofile_delete_done \in 0..2
    /\ g_esim_profile_chk_result \in {"none", "there", "gone"}
    /\ file \in [retry : Nat, hw : 0..(HwResetTH + 1), need : {0, 1}, jp : Nat]
    /\ record \in [counter : 0..DeleteTries, done : 0..2]
    /\ started \in 0..QueueSize
    /\ requests \in 0..QueueSize
    /\ madpt_pc \in {"start", "up"}
    /\ calls \in 0..MaxCalls
    /\ core_pc \in {"idle", "reset"}
    /\ packages \in 0..scenario.packages
    /\ crashes \in 0..scenario.crashes
    /\ resets \in Nat
    /\ removals \in Nat

\* The flags of every thread and of the process are Boolean.
LEMMA FlagTypeHolds == Spec => []FlagType
<1>1. Init => FlagType
  BY DEF Init, FlagType
<1>2. FlagType /\ [Next]_vars => FlagType'
  <2> SUFFICES ASSUME FlagType, [Next]_vars PROVE FlagType'
    OBVIOUS
  <2> USE DEF FlagType, memory, counts, profile, locals, module, bounds, Crash
  <2>1. ASSUME NEW t \in Threads, ThreadStep(t) PROVE FlagType'
    <3>1. CASE ReadNeed(t) \/ WaitForMadpt(t) \/ Start(t) \/ CheckProfile(t) \/ SaveDone(t)
      BY <3>1 DEF ReadNeed, WaitForMadpt, Start, CheckProfile, SaveDone
    <3>2. CASE CheckAtStartup(t)
      <4>1. scenario.efs \subseteq BOOLEAN
        BY ConstantsAssumption
      <4>2. PICK e \in BOOLEAN : efs' = efs \/ efs' = [efs EXCEPT ![t] = e]
        BY <3>2, <4>1 DEF CheckAtStartup
      <4>3. efs' \in [Threads -> BOOLEAN]
        BY <4>2
      <4>4. QED
        BY <3>2, <4>3 DEF CheckAtStartup
    <3>3. CASE RetryWakes(t)
      BY <3>3 DEF RetryWakes
    <3>4. CASE RemoveAnswered(t) \/ EndEfsRecovery(t)
      BY <3>4 DEF RemoveAnswered, EndEfsRecovery, RestartServices, Reborn
    <3>5. CASE RemoveFails(t) \/ ReadStatus(t) \/ VersionKnown(t) \/ PrepareUpdate(t)
                 \/ JpFccAnswered(t) \/ CompareVersions(t) \/ ArrangeOemImage(t)
                 \/ SetupDownload(t)
      BY <3>5 DEF RemoveFails, ReadStatus, VersionKnown, PrepareUpdate, JpFccAnswered,
         CompareVersions, ArrangeOemImage, SetupDownload
    <3>6. CASE DownloadFails(t) \/ DownloadSucceeds(t) \/ MadptBack(t) \/ FinishDownload(t)
                 \/ LastQueries(t)
      BY <3>6 DEF DownloadFails, DownloadSucceeds, MadptBack, FinishDownload, LastQueries
    <3>7. CASE EndAttempt(t) \/ CallGpioReset(t) \/ CallReturns(t)
      BY <3>7 DEF EndAttempt, CallGpioReset, CallReturns
    <3>8. QED
      BY <2>1, <3>1, <3>2, <3>3, <3>4, <3>5, <3>6, <3>7 DEF ThreadStep
  <2>2. ASSUME NEW t \in Threads, PackageArrives(t) PROVE FlagType'
    BY <2>2 DEF PackageArrives
  <2>3. CASE MadptStarted
    BY <2>3 DEF MadptStarted
  <2>4. CASE CoreStep \/ MadptStep
    BY <2>4 DEF CoreStep, MadptStep, GpioReset, HwReset, MadptRestarts, MadptStarts
  <2>5. CASE FwupdateCrash
    BY <2>5 DEF FwupdateCrash, Reborn
  <2>6. CASE MadptCrash \/ CoreCrash
    BY <2>6 DEF MadptCrash, CoreCrash
  <2>7. CASE UNCHANGED vars
    BY <2>7 DEF vars
  <2>8. QED
    BY <2>1, <2>2, <2>3, <2>4, <2>5, <2>6, <2>7 DEF Next
<1>3. QED
  BY <1>1, <1>2, PTL DEF Spec

\* Where the process starts again after a restart.
LEMMA FreshType == Fresh \in [Threads -> Labels]
BY DEF Fresh, Labels, Work, Results

\* The counts on disk and in memory stay within their limits, and so do the queues.
LEMMA ValueTypeStep == FlagType /\ ValueType /\ [Next]_vars => ValueType'
<1> SUFFICES ASSUME FlagType, ValueType, [Next]_vars PROVE ValueType'
  OBVIOUS
<1> USE ConstantsAssumption, FreshType
    DEF ValueType, memory, counts, profile, locals, peers, bounds
<1>0. scenario \in Scenarios
  BY DEF FlagType
<1>1. {"boot", "wait", "check", "start", "esim", "saveNext", "saveRemove", "remove", "status",
       "version", "prepare", "jpWait", "queries", "setup", "tune", "download", "madptWait",
       "finish", "ati", "setupFailed", "failed", "succeeded", "gpio", "called", "idle"}
          \subseteq Labels
  BY DEF Labels, Work, Results
<1>2. ASSUME NEW t \in Threads, ThreadStep(t) PROVE ValueType'
  <2>1. CASE ReadNeed(t)
    BY <1>1, <2>1 DEF ReadNeed, Goto
  <2>2. CASE WaitForMadpt(t)
    BY <1>1, <2>2 DEF WaitForMadpt, Goto
  <2>3. CASE CheckAtStartup(t)
    BY <1>1, <2>3 DEF CheckAtStartup, Goto
  <2>4. CASE RetryWakes(t)
    BY <1>1, <2>4 DEF RetryWakes, Goto
  <2>5. CASE Start(t)
    BY <1>1, <2>5 DEF Start, Goto
  <2>6. CASE CheckProfile(t)
    BY <1>1, <2>6 DEF CheckProfile, ProfileGone, ProfileThere, Goto
  <2>7. CASE SaveDone(t)
    BY <1>1, <2>7 DEF SaveDone, AfterEsim, Goto
  <2>8. CASE RemoveAnswered(t)
    BY <2>8 DEF RemoveAnswered, RestartServices, Reborn
  <2>9. CASE RemoveFails(t)
    BY <1>1, <2>9 DEF RemoveFails, Goto
  <2>10. CASE ReadStatus(t)
    BY <1>1, <2>10 DEF ReadStatus, Goto
  <2>11. CASE VersionKnown(t)
    BY <1>1, <2>11 DEF VersionKnown, Goto
  <2>12. CASE PrepareUpdate(t)
    BY <1>1, <2>12 DEF PrepareUpdate, Goto
  <2>20. CASE JpFccAnswered(t)
    BY <1>1, <2>20 DEF JpFccAnswered, Goto
  <2>21. CASE CompareVersions(t)
    BY <1>1, <2>21 DEF CompareVersions, Goto
  <2>22. CASE ArrangeOemImage(t) \/ LastQueries(t)
    BY <1>1, <2>22 DEF ArrangeOemImage, LastQueries, Goto
  <2>13. CASE SetupDownload(t)
    <3>1. /\ \/ /\ g_fw_update_retry_count' = g_fw_update_retry_count + 1
                /\ file' = [file EXCEPT !.retry = g_fw_update_retry_count + 1]
                /\ Goto(t, "setupFailed")
             \/ /\ UNCHANGED <<g_fw_update_retry_count, file>>
                /\ Goto(t, "download")
          /\ UNCHANGED <<need_retry, phase, g_do_hw_reset_count, profile, record, peers,
                         bounds, resets, removals>>
      BY <2>13, Zenon DEF SetupDownload
    <3>2. QED
      BY <1>1, <3>1 DEF Goto
  <2>14. CASE DownloadFails(t) \/ DownloadSucceeds(t)
    BY <1>1, <2>14 DEF DownloadFails, DownloadSucceeds, Goto
  <2>15. CASE MadptBack(t) \/ FinishDownload(t)
    BY <1>1, <2>15 DEF MadptBack, FinishDownload, Goto
  <2>16. CASE EndEfsRecovery(t)
    BY <2>16 DEF EndEfsRecovery, RestartServices, Reborn
  <2>17. CASE EndAttempt(t)
    BY <1>1, <2>17 DEF EndAttempt, Goto
  <2>18. CASE CallGpioReset(t) \/ CallReturns(t)
    BY <1>1, <2>18 DEF CallGpioReset, CallReturns, Goto
  <2>19. QED
    BY <1>2, <2>1, <2>2, <2>3, <2>4, <2>5, <2>6, <2>7, <2>8, <2>9, <2>10, <2>11, <2>12,
       <2>13, <2>14, <2>15, <2>16, <2>17, <2>18, <2>20, <2>21, <2>22 DEF ThreadStep
<1>3. ASSUME NEW t \in Threads, PackageArrives(t) PROVE ValueType'
  BY <1>0, <1>1, <1>3 DEF PackageArrives, Goto
<1>4. CASE MadptStarted
  BY <1>4 DEF MadptStarted
<1>5. CASE CoreStep
  <2>1. CASE GpioReset
    BY <2>1 DEF GpioReset
  <2>2. CASE HwReset
    <3>1. /\ core_pc' = "idle" /\ resets' = resets + 1
          /\ \/ requests < QueueSize /\ requests' = requests + 1
             \/ UNCHANGED requests
          /\ UNCHANGED <<pc, need_retry, phase, g_fw_update_retry_count, g_do_hw_reset_count,
                         profile, file, record, started, madpt_pc, calls, bounds, removals>>
      BY <2>2, Zenon DEF HwReset
    <3>2. QED
      BY <3>1
  <2>3. QED
    BY <1>5, <2>1, <2>2 DEF CoreStep
<1>6. CASE MadptStep
  BY <1>6 DEF MadptStep, MadptRestarts, MadptStarts
<1>7. CASE FwupdateCrash
  BY <1>0, <1>7 DEF FwupdateCrash, Crash, Reborn
<1>8. CASE MadptCrash \/ CoreCrash
  BY <1>0, <1>8 DEF MadptCrash, CoreCrash, Crash
<1>9. CASE UNCHANGED vars
  BY <1>9 DEF vars
<1>10. QED
  BY <1>2, <1>3, <1>4, <1>5, <1>6, <1>7, <1>8, <1>9 DEF Next

\* All values keep their types; the counts never pass their thresholds by more than
\* one and no queue is ever longer than its size.
LEMMA ValueTypeHolds == Spec => []ValueType
<1>1. Init => ValueType
  BY ConstantsAssumption, FreshType DEF Init, ValueType
<1>2. QED
  BY <1>1, FlagTypeHolds, ValueTypeStep, PTL DEF Spec

\* A wait unlocks and locks one of the two mutexes; nothing else is ever locked.
LEMMA LockedType == Spec => [](locked \subseteq Mutexes)
<1>1. Init => locked \subseteq Mutexes
  BY DEF Init
<1>2. locked \subseteq Mutexes /\ [Next]_vars => (locked \subseteq Mutexes)'
  <2> SUFFICES ASSUME locked \subseteq Mutexes, [Next]_vars PROVE locked' \subseteq Mutexes
    OBVIOUS
  <2> USE DEF memory
  <2>1. ASSUME NEW m \in Mutexes, BeginWait(m) \/ EndWait(m) PROVE locked' \subseteq Mutexes
    BY <2>1, Zenon DEF BeginWait, EndWait
  <2>2. "g_mutex" \in Mutexes /\ "g_madpt_wait_mutex" \in Mutexes
    BY DEF Mutexes
  <2>3. CASE UNCHANGED locked \/ locked' = {}
    BY <2>3
  <2>4. ASSUME NEW t \in Threads, ThreadStep(t) PROVE locked' \subseteq Mutexes
    <3>1. \/ UNCHANGED locked \/ locked' = {}
          \/ \E m \in Mutexes : BeginWait(m) \/ EndWait(m)
      BY <2>2, <2>4, Zenon DEF ThreadStep, ReadNeed, WaitForMadpt, CheckAtStartup, RetryWakes,
         Start, CheckProfile, SaveDone, RemoveAnswered, RemoveFails, ReadStatus, VersionKnown,
         PrepareUpdate, JpFccAnswered, CompareVersions, ArrangeOemImage, SetupDownload,
         DownloadFails, DownloadSucceeds, MadptBack, FinishDownload, LastQueries,
         EndEfsRecovery, EndAttempt, CallGpioReset, CallReturns, RestartServices, Reborn
    <3>2. QED
      BY <2>1, <2>3, <3>1
  <2>5. CASE ~\E t \in Threads : ThreadStep(t)
    BY <2>3, <2>5, Zenon DEF Next, PackageArrives, MadptStarted, CoreStep, MadptStep,
       GpioReset, HwReset, MadptRestarts, MadptStarts, FwupdateCrash, MadptCrash, CoreCrash,
       Reborn, vars
  <2>6. QED
    BY <2>4, <2>5
<1>3. QED
  BY <1>1, <1>2, PTL DEF Spec

\* The status record, the eSIM record, the queues and the variables of
\* start_update_process keep their types and limits.
THEOREM TypeCorrect == Spec => []TypeOK
<1>1. FlagType /\ ValueType /\ locked \subseteq Mutexes => TypeOK
  BY DEF FlagType, ValueType, TypeOK
<1>2. QED
  BY FlagTypeHolds, ValueTypeHolds, LockedType, <1>1, PTL

-------------------------------------------------------------------------------
(* One attempt at a time.                                                   *)

Active(t)   == pc[t] \in Work \cup Results
Undisturbed == crashes = 0 /\ packages = 0

\* main is on its way to an attempt or in one.
MainsTurn == pc["main"] \in {"boot", "wait", "check"} \/ Active("main")

\* The right to run start_update_process is in one place: with main, with the retry
\* thread, in the saved request, or in the flag that wakes the retry thread.
TurnInv ==
    Undisturbed =>
        /\ pc["package"] = "idle"
        /\ pc["retry"] \notin {"boot", "wait", "check"}
        /\ MainsTurn => ~Active("retry")
        /\ MainsTurn \/ Active("retry") => file.need = 0 /\ g_retry_fw_update # TRUE
        /\ file.need = 1 => g_retry_fw_update # TRUE

\* A process without crashes and packages had none before.
LEMMA UndisturbedBefore ==
    ASSUME FlagType, ValueType, [Next]_vars, Undisturbed'
    PROVE  /\ Undisturbed
           /\ ~FwupdateCrash /\ ~MadptCrash /\ ~CoreCrash
           /\ \A t \in Threads : ~PackageArrives(t)
<1>1. packages \in Nat /\ crashes \in Nat
  BY ConstantsAssumption DEF FlagType, ValueType
<1>2. ~FwupdateCrash /\ ~MadptCrash /\ ~CoreCrash
  BY <1>1 DEF Undisturbed, FwupdateCrash, MadptCrash, CoreCrash, Crash
<1>3. \A t \in Threads : ~PackageArrives(t)
  BY <1>1 DEF Undisturbed, PackageArrives
<1>4. packages' = packages /\ crashes' = crashes
  <2> USE DEF bounds
  <2>1. ASSUME NEW t \in Threads, ThreadStep(t) PROVE packages' = packages /\ crashes' = crashes
    BY <2>1, Zenon DEF ThreadStep, ReadNeed, WaitForMadpt, CheckAtStartup, RetryWakes, Start,
       CheckProfile, SaveDone, RemoveAnswered, RemoveFails, ReadStatus, VersionKnown,
       PrepareUpdate, JpFccAnswered, CompareVersions, ArrangeOemImage, SetupDownload,
       DownloadFails, DownloadSucceeds, MadptBack, FinishDownload, LastQueries, EndEfsRecovery, EndAttempt, CallGpioReset, CallReturns
  <2>2. CASE MadptStarted \/ CoreStep \/ MadptStep \/ UNCHANGED vars
    BY <2>2, Zenon DEF MadptStarted, CoreStep, MadptStep, GpioReset, HwReset, MadptRestarts,
       MadptStarts, vars
  <2>3. QED
    BY <1>2, <1>3, <2>1, <2>2 DEF Next
<1>5. QED
  BY <1>2, <1>3, <1>4 DEF Undisturbed

\* When the process starts main has the right, or nobody has.
LEMMA InitTurnInv == Init => TurnInv
<1> SUFFICES ASSUME Init PROVE TurnInv
  OBVIOUS
<1>1. /\ g_retry_fw_update # TRUE /\ file.need = 0
      /\ pc["package"] = "idle" /\ pc["retry"] = "idle"
  BY DEF Init, Fresh, Threads
<1>2. QED
  BY <1>1 DEF TurnInv, Active, Work, Results

\* The right stays where it is in a step that moves no thread and changes neither the
\* saved request nor the flag, ...
LEMMA TurnKept ==
    ASSUME TurnInv, Undisturbed, UNCHANGED <<pc, g_retry_fw_update>>, file'.need = file.need
    PROVE  TurnInv'
<1>1. MainsTurn' = MainsTurn /\ Active("retry")' = Active("retry")
  BY DEF MainsTurn, Active
<1>2. /\ pc["package"] = "idle" /\ pc["retry"] \notin {"boot", "wait", "check"}
      /\ MainsTurn => ~Active("retry")
      /\ MainsTurn \/ Active("retry") => file.need = 0 /\ g_retry_fw_update # TRUE
      /\ file.need = 1 => g_retry_fw_update # TRUE
  BY DEF TurnInv
<1>3. QED
  BY <1>1, <1>2 DEF TurnInv

\* ... and in a step within an attempt.
LEMMA TurnWithin ==
    ASSUME TurnInv, Undisturbed, pc \in [Threads -> Labels], NEW t \in Threads, Active(t),
           NEW l \in Work \cup Results, Goto(t, l),
           UNCHANGED g_retry_fw_update, file'.need = file.need
    PROVE  TurnInv'
<1>1. /\ pc["package"] = "idle" /\ pc["retry"] \notin {"boot", "wait", "check"}
      /\ MainsTurn => ~Active("retry")
      /\ MainsTurn \/ Active("retry") => file.need = 0 /\ g_retry_fw_update # TRUE
  BY DEF TurnInv
<1>2. t # "package"
  BY <1>1 DEF Active, Work, Results
<1>3. pc'[t] = l /\ \A u \in Threads \ {t} : pc'[u] = pc[u]
  BY DEF Goto
<1>4. pc'["package"] = "idle" /\ pc'["retry"] \notin {"boot", "wait", "check"}
  BY <1>1, <1>2, <1>3 DEF Threads, Work, Results
<1>5. file.need = 0 /\ g_retry_fw_update # TRUE
  BY <1>1, <1>2 DEF Threads, MainsTurn
<1>6. MainsTurn' => ~Active("retry")'
  <2>1. CASE t = "main"
    BY <1>1, <1>3, <2>1 DEF Threads, MainsTurn, Active
  <2>2. CASE t = "retry"
    BY <1>1, <1>3, <2>2 DEF Threads, MainsTurn, Active
  <2>3. QED
    BY <1>2, <2>1, <2>2 DEF Threads
<1>7. file'.need = 0 /\ g_retry_fw_update' # TRUE
  BY <1>5
<1>8. QED
  BY <1>4, <1>6, <1>7 DEF TurnInv

\* Every step passes the right on or leaves it where it is.
LEMMA TurnInvStep == FlagType /\ ValueType /\ TurnInv /\ [Next]_vars => TurnInv'
<1> SUFFICES ASSUME FlagType, ValueType, TurnInv, [Next]_vars, Undisturbed' PROVE TurnInv'
  BY DEF TurnInv
<1> USE DEF TurnInv, MainsTurn, Active, Work, Results, Threads, memory, counts, profile, locals, Goto
<1>0. /\ Undisturbed
      /\ ~FwupdateCrash /\ ~MadptCrash /\ ~CoreCrash
      /\ \A t \in Threads : ~PackageArrives(t)
  BY UndisturbedBefore
<1>1. pc \in [Threads -> Labels] /\ DOMAIN file = {"retry", "hw", "need", "jp"} /\ file.need \in {0, 1}
  BY DEF ValueType
<1>2. ASSUME NEW t \in Threads, ThreadStep(t) PROVE TurnInv'
  <2>1. CASE ReadNeed(t) \/ WaitForMadpt(t)
    BY <1>0, <1>1, <2>1 DEF ReadNeed, WaitForMadpt
  <2>2. CASE CheckAtStartup(t)
    BY <1>0, <1>1, <2>2 DEF CheckAtStartup
  <2>3. CASE RetryWakes(t)
    BY <1>0, <1>1, <2>3 DEF RetryWakes
  <2>4. CASE Start(t) \/ SaveDone(t) \/ VersionKnown(t)
    <3>1. PICK l \in Work \cup Results :
              Active(t) /\ Goto(t, l) /\ UNCHANGED <<file, g_retry_fw_update>>
      BY <2>4 DEF Start, SaveDone, AfterEsim, VersionKnown
    <3>2. QED
      BY <1>0, <1>1, <3>1, TurnWithin
  <2>5. CASE CheckProfile(t) \/ RemoveFails(t)
    <3>1. /\ pc[t] \in {"esim", "remove"}
          /\ \E l \in {"saveNext", "saveRemove", "remove"} : Goto(t, l)
          /\ UNCHANGED <<file, g_retry_fw_update>>
      <4>1. CASE CheckProfile(t)
        BY <4>1 DEF CheckProfile, ProfileGone, ProfileThere
      <4>2. CASE RemoveFails(t)
        BY <4>2 DEF RemoveFails
      <4>3. QED
        BY <2>5, <4>1, <4>2
    <3>2. QED
      BY <1>0, <1>1, <3>1
  <2>6. CASE RemoveAnswered(t) \/ EndEfsRecovery(t)
    BY <1>0, <1>1, <2>6 DEF RemoveAnswered, EndEfsRecovery, RestartServices, Reborn, Fresh
  <2>7. CASE ReadStatus(t) \/ PrepareUpdate(t) \/ JpFccAnswered(t) \/ CompareVersions(t)
    <3>1. /\ pc[t] \in {"status", "prepare", "jpWait", "queries"}
          /\ \E l \in {"idle", "version", "jpWait", "queries", "esim", "setup"} : Goto(t, l)
          /\ UNCHANGED file \/ \E n \in {0, 1} : file' = [file EXCEPT !.jp = n]
          /\ UNCHANGED g_retry_fw_update
      <4>1. CASE ReadStatus(t)
        BY <4>1 DEF ReadStatus
      <4>2. CASE PrepareUpdate(t)
        BY <4>2, Zenon DEF PrepareUpdate
      <4>3. CASE JpFccAnswered(t)
        BY <4>3, Zenon DEF JpFccAnswered
      <4>4. CASE CompareVersions(t)
        BY <4>4 DEF CompareVersions
      <4>5. QED
        BY <2>7, <4>1, <4>2, <4>3, <4>4
    <3>2. QED
      BY <1>0, <1>1, <3>1
  <2>8. CASE SetupDownload(t)
    <3>1. /\ pc[t] = "setup" \/ pc[t] = "tune"
          /\ Goto(t, "setupFailed") \/ Goto(t, "download")
          /\ file' = [file EXCEPT !.retry = g_fw_update_retry_count + 1] \/ UNCHANGED file
          /\ UNCHANGED g_retry_fw_update
      BY <2>8, Zenon DEF SetupDownload
    <3>2. QED
      BY <1>0, <1>1, <3>1
  <2>9. CASE ArrangeOemImage(t) \/ DownloadFails(t) \/ DownloadSucceeds(t)
    <3>1. PICK l \in Work \cup Results :
              Active(t) /\ Goto(t, l) /\ UNCHANGED <<file, g_retry_fw_update>>
      BY <2>9 DEF ArrangeOemImage, DownloadFails, DownloadSucceeds
    <3>2. QED
      BY <1>0, <1>1, <3>1, TurnWithin
  <2>13. CASE MadptBack(t) \/ FinishDownload(t) \/ LastQueries(t)
    BY <1>0, <1>1, <2>13 DEF MadptBack, FinishDownload, LastQueries
  <2>10. CASE EndAttempt(t)
    BY <1>0, <1>1, <2>10 DEF EndAttempt
  <2>11. CASE CallGpioReset(t) \/ CallReturns(t)
    <3>1. /\ pc[t] \in {"gpio", "called"}
          /\ Goto(t, "called") \/ Goto(t, "idle")
          /\ UNCHANGED <<file, g_retry_fw_update>>
      BY <2>11 DEF CallGpioReset, CallReturns
    <3>2. CASE t = "main"
      BY <1>0, <1>1, <3>1, <3>2
    <3>3. CASE t = "retry"
      BY <1>0, <1>1, <3>1, <3>3
    <3>4. CASE t = "package"
      BY <1>0, <3>1, <3>4
    <3>5. QED
      BY <3>2, <3>3, <3>4
  <2>12. QED
    BY <1>2, <2>1, <2>2, <2>3, <2>4, <2>5, <2>6, <2>7, <2>8, <2>9, <2>10, <2>11,
       <2>13 DEF ThreadStep
<1>3. CASE MadptStarted
  <2>1. UNCHANGED pc
    BY <1>3 DEF MadptStarted
  <2>2. CASE file.need = 1
    <3>1. ~MainsTurn /\ ~Active("retry")
      BY <1>0, <2>2
    <3>2. file'.need = 0
      BY <1>1, <1>3, <2>2 DEF MadptStarted
    <3>3. ~MainsTurn' /\ ~Active("retry")'
      BY <2>1, <3>1
    <3>4. /\ pc'["package"] = "idle"
          /\ pc'["retry"] \notin {"boot", "wait", "check"}
      BY <1>0, <2>1
    <3>5. file'.need # 1
      BY <3>2
    <3> HIDE DEF MainsTurn, Active
    <3>6. QED
      BY <3>3, <3>4, <3>5
  <2>3. CASE file.need # 1
    <3>1. UNCHANGED <<file, g_retry_fw_update>>
      BY <1>3, <2>3, Zenon DEF MadptStarted
    <3>2. QED
      BY <1>0, <2>1, <3>1, TurnKept
  <2>4. QED
    BY <2>2, <2>3
<1>4. CASE CoreStep
  <2>1. /\ file' = [file EXCEPT !.hw = @ + 1] \/ UNCHANGED file
        /\ UNCHANGED <<pc, g_retry_fw_update>>
    BY <1>4, Zenon DEF CoreStep, GpioReset, HwReset
  <2>2. file'.need = file.need
    BY <1>1, <2>1
  <2>3. QED
    BY <1>0, <2>1, <2>2, TurnKept
<1>5. CASE MadptStep
  BY <1>0, <1>1, <1>5 DEF MadptStep, MadptRestarts, MadptStarts
<1>6. CASE UNCHANGED vars
  BY <1>0, <1>6, TurnKept DEF vars
<1>7. QED
  BY <1>0, <1>2, <1>3, <1>4, <1>5, <1>6 DEF Next

\* Without crashes and packages, main and the retry thread never run
\* start_update_process at the same time, however often updates fail, services
\* restart for the test profile and pwl_madpt reports; nothing but
\* Need_retry_fw_update keeps them apart.
THEOREM OneAttemptAtATime == Spec => []OneAttempt
<1>1. Init => TurnInv
  BY InitTurnInv
<1>2. TurnInv => OneAttempt
  BY DEF TurnInv, MainsTurn, Active, OneAttempt, Undisturbed, Threads, Work, Results
<1>3. QED
  BY FlagTypeHolds, ValueTypeHolds, TurnInvStep, <1>1, <1>2, PTL DEF Spec

-------------------------------------------------------------------------------
(* The restarts for the eSIM test profile.                                  *)

\* What the removals have used up and the record still allows together is the whole
\* allowance; a record that is clear (no deletion tried, none given up) has none used.
RecordInv ==
    /\ removals <= DeleteTries + 1
    /\ record.counter # 0 => removals + record.counter <= DeleteTries + 1
    /\ (/\ record.counter = 0
        /\ record.done = 0
        /\ \A t \in Threads : pc[t] # "saveRemove") => removals = 0

\* The thread at work has the record in its variables, but for the decision that it
\* is about to save; a removal that it has decided on is not used up yet.
AttemptInv(t) ==
    /\ Active(t) /\ pc[t] # "start" => g_testprofile_delete_counter = record.counter
    /\ Active(t) /\ pc[t] \notin {"start", "saveNext", "saveRemove"}
         => g_testprofile_delete_done = record.done
    /\ pc[t] = "esim" /\ record.counter = 0 => removals = 0
    /\ pc[t] = "remove" => /\ removals + record.counter <= DeleteTries
                           /\ record.counter = 0 => record.done # 0
    /\ pc[t] = "saveRemove" => /\ record.counter = 0
                               /\ g_testprofile_delete_done = 2
                               /\ removals <= DeleteTries
    /\ pc[t] = "saveNext" => record.counter = 0 /\ removals = 0

RemovalInv == Undisturbed => RecordInv /\ \A t \in Threads : AttemptInv(t)

\* Every step of the attempt keeps to the allowance.
LEMMA RemovalInvStep ==
    FlagType /\ ValueType /\ TurnInv /\ RemovalInv /\ [Next]_vars => RemovalInv'
<1> SUFFICES ASSUME FlagType, ValueType, TurnInv, RemovalInv, [Next]_vars, Undisturbed'
             PROVE  RecordInv' /\ \A t \in Threads : AttemptInv(t)'
  BY DEF RemovalInv
<1> DEFINE Kept == RecordInv' /\ \A t \in Threads : AttemptInv(t)'
<1>0. /\ Undisturbed
      /\ ~FwupdateCrash /\ ~MadptCrash /\ ~CoreCrash
      /\ \A t \in Threads : ~PackageArrives(t)
  BY UndisturbedBefore
<1>1. /\ pc \in [Threads -> Labels] /\ removals \in Nat
      /\ record \in [counter : 0..DeleteTries, done : 0..2]
      /\ g_testprofile_delete_counter \in 0..DeleteTries
      /\ g_testprofile_delete_done \in 0..2
      /\ DeleteTries \in Nat \ {0}
  BY ConstantsAssumption DEF ValueType
<1>2. RecordInv /\ \A t \in Threads : AttemptInv(t)
  BY <1>0 DEF RemovalInv
<1>3. \A t, u \in Threads : Active(t) /\ Active(u) => t = u
  BY <1>0 DEF TurnInv, MainsTurn, Active, Threads, Work, Results
<1> USE <1>1 DEF RecordInv, AttemptInv, memory, counts, profile, locals, Goto
<1>4. ASSUME NEW t \in Threads, ThreadStep(t) PROVE Kept
  <2>1. CASE ReadNeed(t) \/ WaitForMadpt(t)
    BY <1>2, <2>1 DEF ReadNeed, WaitForMadpt, Active, Work, Results
  <2>2. CASE CheckAtStartup(t)
    BY <1>2, <2>2 DEF CheckAtStartup, Active, Work, Results
  <2>3. CASE RetryWakes(t)
    BY <1>2, <2>3 DEF RetryWakes, Active, Work, Results
  <2>4. CASE Start(t)
    BY <1>2, <1>3, <2>4 DEF Start, Active, Work, Results
  <2>5. CASE CheckProfile(t)
    BY <1>2, <1>3, <2>5 DEF CheckProfile, ProfileGone, ProfileThere, Active, Work, Results
  <2>6. CASE SaveDone(t)
    BY <1>2, <1>3, <2>6 DEF SaveDone, AfterEsim, Active, Work, Results
  <2>7. CASE RemoveAnswered(t)
    BY <1>2, <1>3, <2>7 DEF RemoveAnswered, RestartServices, Reborn, Fresh, Active, Work, Results
  <2>8. CASE RemoveFails(t)
    BY <1>2, <1>3, <2>8 DEF RemoveFails, Active, Work, Results
  <2>9. CASE ReadStatus(t) \/ VersionKnown(t)
    BY <1>2, <2>9 DEF ReadStatus, VersionKnown, Active, Work, Results
  <2>10. CASE PrepareUpdate(t) \/ JpFccAnswered(t) \/ CompareVersions(t)
    BY <1>2, <2>10 DEF PrepareUpdate, JpFccAnswered, CompareVersions, Active, Work, Results
  <2>11. CASE SetupDownload(t)
    <3>1. /\ pc[t] = "setup" \/ pc[t] = "tune"
          /\ Goto(t, "setupFailed") \/ Goto(t, "download")
          /\ UNCHANGED <<profile, record, removals>>
      BY <2>11, Zenon DEF SetupDownload
    <3>2. QED
      BY <1>2, <3>1 DEF Active, Work, Results
  <2>12. CASE \/ ArrangeOemImage(t) \/ DownloadFails(t) \/ DownloadSucceeds(t)
              \/ MadptBack(t) \/ LastQueries(t)
    BY <1>2, <2>12 DEF ArrangeOemImage, DownloadFails, DownloadSucceeds, MadptBack,
       LastQueries, Active, Work, Results
  <2>13. CASE FinishDownload(t)
    BY <1>2, <1>3, <2>13 DEF FinishDownload, Active, Work, Results
  <2>14. CASE EndEfsRecovery(t)
    BY <1>2, <1>3, <2>14 DEF EndEfsRecovery, RestartServices, Reborn, Fresh, Active, Work, Results
  <2>15. CASE EndAttempt(t) \/ CallGpioReset(t) \/ CallReturns(t)
    BY <1>2, <2>15 DEF EndAttempt, CallGpioReset, CallReturns, Active, Work, Results
  <2>16. QED
    BY <1>4, <2>1, <2>2, <2>3, <2>4, <2>5, <2>6, <2>7, <2>8, <2>9, <2>10, <2>11, <2>12,
       <2>13, <2>14, <2>15 DEF ThreadStep
<1>5. CASE MadptStarted \/ CoreStep \/ MadptStep \/ UNCHANGED vars
  <2>1. UNCHANGED <<pc, profile, record, removals>>
    BY <1>5, Zenon DEF MadptStarted, CoreStep, MadptStep, GpioReset, HwReset, MadptRestarts,
       MadptStarts, vars
  <2>2. QED
    BY <1>2, <2>1 DEF Active
<1>6. QED
  BY <1>0, <1>4, <1>5 DEF Next

\* The record of the deletion bounds the restarts of the services for the test
\* profile, over as many starts of pwl_fwupdate and as many attempts as there are.
THEOREM RemovalsAreBounded == Spec => []RemovalsBounded
<1>1. Init => TurnInv
  BY InitTurnInv
<1>2. Init => RemovalInv
  BY ConstantsAssumption DEF Init, RemovalInv, RecordInv, AttemptInv, Active, Fresh, Work, Results
<1>3. RemovalInv => RemovalsBounded
  BY DEF RemovalInv, RecordInv, RemovalsBounded, Undisturbed
<1>4. QED
  BY FlagTypeHolds, ValueTypeHolds, TurnInvStep, RemovalInvStep, <1>1, <1>2, <1>3, PTL DEF Spec

=================================================================================
