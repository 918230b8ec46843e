------------------------------ MODULE SimCarrier ------------------------------
(***************************************************************************)
(* How the carrier of the SIM reaches the module: pwl_pref with its main   *)
(* loop and its message thread, composed with the MBIM session of pwl_core *)
(* (MbimSession), pwl_madpt, which runs AT commands one after another, and *)
(* the part of pwl_fwupdate that reboots a PCIE module for a new carrier.  *)
(*                                                                         *)
(* The main loop handles one D-Bus signal at a time, and a handler blocks  *)
(* it: it sends a request to pwl_madpt, waits for g_cond with a timeout,   *)
(* looks at a global variable and tries again.  The message thread stores  *)
(* the answers and signals g_cond, for whichever request they are.  Only   *)
(* the main loop waits, so the mutex that cond_wait leaves locked after a  *)
(* timeout is unlocked by its next call, and is left out.                  *)
(*                                                                         *)
(* USB: the handlers make the preferred carrier of the module that of the  *)
(* SIM, step by step.  PCIE: a refresh compares the carrier of the SIM     *)
(* with the one in a file and raises g_need_cxp_reboot, which pwl_fwupdate *)
(* asks for.  It is two steps here: the requests for versions, CRSM and    *)
(* CIMI only fill variables that other services ask for, and the tries for *)
(* the carrier id end with the id of the SIM or without one.               *)
(* Restarts of pwl_core are not in this module (RecoveryMonitor has them). *)
(***************************************************************************)
EXTENDS MbimSession

CONSTANTS
    MncLen,        \* the length of the network code of each SIM
    Cxp,           \* the carriers in g_cxp_carrier_list
    Generic,       \* the carrier of an unknown network, SBP_ID_GENERIC
    None,          \* an empty string, -1: no answer yet
    Limit,         \* tries of a request (3)
    SimLimit,      \* PWL_PREF_CMD_RETRY_LIMIT: tries for CRSM and CIMI together
    MaxNotices     \* bound: notices pwl_fwupdate has not handled

Carriers == Sims \cup {Generic}

ASSUME CarrierAssumption ==
    /\ MncLen \in [Sims -> Nat \ {0}]
    /\ Cxp \subseteq Sims
    /\ Generic \notin Sims \cup {NoSim}
    /\ None \notin Sims \cup {Generic, NoSim}
    /\ {Limit, SimLimit} \subseteq Nat \ {0}
    /\ MaxNotices \in Nat

VARIABLES
    \* pwl_pref
    pc, stage, retry, err,         \* the handler at work
    known,                         \* g_main_fw_version is there
    g_mnc_len, g_sim_carrier, g_is_get_cimi, g_pref_carrier, g_set_pref_carrier_ret,
    g_is_sim_insert, g_check_sim_carrier_on_going,
    g_sim_ready_state, g_need_cxp_reboot,
    id_file,                       \* PREFERRED_CARRIER_ID_FILE
    \* queues
    requests, answers,             \* to pwl_madpt, to pwl_pref
    calls,                         \* request_fw_update_check calls for pwl_core
    notices,                       \* recovery notices for pwl_fwupdate
    \* the others
    gb_recoverying,                \* of pwl_core
    fw_pc, fw_flag, package,       \* pwl_fwupdate: g_need_cxp_reboot, the FLZ files
    preferred,                     \* the preferred carrier of the module
    reboot                         \* history: a reboot for a carrier is due, or lost

handler == <<pc, stage, retry, err>>
usb  == <<g_mnc_len, g_sim_carrier, g_is_get_cimi, g_pref_carrier, g_set_pref_carrier_ret>>
pcie == <<g_sim_ready_state, g_need_cxp_reboot, id_file>>
flags == <<g_is_sim_insert, g_check_sim_carrier_on_going>>
fwupdate == <<notices, fw_pc, fw_flag, package>>
core == <<calls, gb_recoverying>>
pref == <<handler, known, usb, pcie, flags>>
queues == <<requests, answers>>
vars == <<session_vars, pref, queues, fwupdate, core, preferred, counters, reboot>>

Stages == {"fw_ver", "crsm", "cimi", "sim_crsm", "sim_cimi", "get_pref", "set_pref", "none"}

Init ==
    /\ SessionInit
    /\ pc = "idle" /\ stage = "none" /\ retry = 0 /\ err = FALSE /\ known = FALSE
    /\ g_mnc_len = 0 /\ g_sim_carrier = None /\ g_is_get_cimi = FALSE
    /\ g_pref_carrier = None /\ g_set_pref_carrier_ret = FALSE
    /\ g_is_sim_insert = FALSE /\ g_check_sim_carrier_on_going = FALSE
    /\ g_sim_ready_state = "none" /\ g_need_cxp_reboot = FALSE
    /\ id_file = Generic
    /\ requests = <<>> /\ answers = <<>>
    /\ calls = 0
    /\ notices = 0
    /\ gb_recoverying = (type = "PCIE")
    /\ fw_pc = "idle" /\ fw_flag = FALSE
    /\ package \in (IF type = "PCIE" THEN {"current", "new"} ELSE {"current"})
    /\ preferred = Generic
    /\ reboot = "none"

-------------------------------------------------------------------------------
(* pwl_pref, the main loop: the stages of the handlers.                     *)

\* The result a stage waits for is there.
Succeeded ==
    CASE stage = "fw_ver"     -> known
      [] stage = "crsm"       -> g_mnc_len # 0
      [] stage = "cimi"       -> g_sim_carrier # None
      [] stage = "sim_crsm"   -> ~err /\ g_mnc_len # 0
      [] stage = "sim_cimi"   -> ~err /\ g_is_get_cimi
      [] stage = "get_pref"   -> ~err /\ g_pref_carrier # None
      [] OTHER                -> ~err /\ g_set_pref_carrier_ret

\* Where a handler goes on after a stage; "none" is its end.
NextStage ==
    IF stage # "fw_ver" /\ ~Succeeded THEN "none"
    ELSE CASE stage = "fw_ver"     -> "crsm"
           [] stage = "crsm"       -> "cimi"
           [] stage = "sim_crsm"   -> "sim_cimi"
           [] stage \in {"cimi", "sim_cimi"} -> "get_pref"
           [] stage = "get_pref" /\ g_sim_carrier # g_pref_carrier -> "set_pref"
           [] OTHER                -> "none"

LimitOf(s) == IF s \in {"sim_crsm", "sim_cimi"} THEN SimLimit ELSE Limit

\* What the code does before the first try of a stage.
UnreleasedEnter(s) ==            \* mutated form: the last line of the refresh is missing
    /\ stage' = s
    /\ pc' = IF s = "none" THEN "idle" ELSE "send"
    /\ g_pref_carrier' = IF s = "get_pref" THEN None ELSE g_pref_carrier
    /\ retry' = IF s = "sim_cimi" THEN retry ELSE 0
    /\ g_check_sim_carrier_on_going' =
         (g_check_sim_carrier_on_going /\ ~(s = "none" /\ stage # "crsm") /\ stage # "sim_cimi")

Enter(s) ==
    /\ stage' = s
    /\ pc' = IF s = "none" THEN "idle" ELSE "send"
    /\ g_pref_carrier' = IF s = "get_pref" THEN None ELSE g_pref_carrier
    /\ retry' = IF s = "sim_cimi" THEN retry ELSE 0
    /\ g_check_sim_carrier_on_going' =
         (g_check_sim_carrier_on_going /\ s # "none" /\ stage # "sim_cimi")

\* signal_callback_get_fw_version, USB.
RefreshUsb ==
    /\ type = "USB"
    /\ pc = "idle" /\ signals # <<>> /\ Head(signals) = "get_fw_version"
    /\ signals' = Tail(signals)
    /\ pc' = "send" /\ stage' = "fw_ver" /\ retry' = 0
    /\ g_check_sim_carrier_on_going' = TRUE
    /\ UNCHANGED <<device, missed, err, known, usb, pcie, g_is_sim_insert, queues, fwupdate, core,
                   preferred, counters, reboot>>

\* signal_callback_sim_state_change.
SimStateChange ==
    /\ pc = "idle" /\ signals # <<>> /\ Head(signals) # "get_fw_version"
    /\ signals' = Tail(signals)
    /\ \/ /\ type = "USB" /\ Head(signals) = "initialized"
          /\ g_is_sim_insert' = TRUE
          /\ g_check_sim_carrier_on_going' = TRUE
          /\ IF g_check_sim_carrier_on_going
             THEN UNCHANGED <<pc, stage, retry>>
             ELSE pc' = "send" /\ stage' = "sim_crsm" /\ retry' = 0
          /\ UNCHANGED <<g_sim_ready_state, calls>>
       \/ /\ type = "PCIE" /\ Head(signals) = "initialized"
          /\ g_sim_ready_state' = "initialized"
          /\ calls' = calls + 1
          /\ UNCHANGED <<pc, stage, retry, flags>>
       \/ /\ Head(signals) # "initialized"
          /\ g_sim_ready_state' =
               IF type = "PCIE" THEN Head(signals) ELSE g_sim_ready_state
          /\ IF Head(signals) = "not_inserted"
             THEN g_is_sim_insert' = FALSE /\ g_check_sim_carrier_on_going' = FALSE
             ELSE UNCHANGED flags
          /\ UNCHANGED <<pc, stage, retry, calls>>
    /\ UNCHANGED <<device, missed, err, known, usb, g_need_cxp_reboot, id_file, queues, fwupdate,
                   gb_recoverying, preferred, counters, reboot>>

\* One try of a stage: what the loop resets, and the request.  The test of
\* g_is_sim_insert before it is always true (see TypeOK).
StaleSendRequest ==              \* mutated form: g_is_get_cimi keeps its value
    /\ pc = "send"
    /\ pc' = "sent"
    /\ requests' = Append(requests, [cid |-> stage,
                       val |-> IF stage = "set_pref" THEN g_sim_carrier ELSE None])
    /\ g_mnc_len' = IF stage = "sim_crsm" THEN 0 ELSE g_mnc_len
    /\ g_set_pref_carrier_ret' = (g_set_pref_carrier_ret /\ stage # "set_pref")
    /\ UNCHANGED <<session_vars, stage, retry, err, known, g_sim_carrier, g_is_get_cimi,
                   g_pref_carrier, pcie, flags, answers, fwupdate, core, preferred, counters,
                   reboot>>

SendRequest ==
    /\ pc = "send"
    /\ pc' = "sent"
    /\ requests' = Append(requests, [cid |-> stage,
                       val |-> IF stage = "set_pref" THEN g_sim_carrier ELSE None])
    /\ g_is_get_cimi' = (g_is_get_cimi /\ stage \notin {"sim_crsm", "sim_cimi"})
    /\ g_mnc_len' = IF stage = "sim_crsm" THEN 0 ELSE g_mnc_len
    /\ g_set_pref_carrier_ret' = (g_set_pref_carrier_ret /\ stage # "set_pref")
    /\ UNCHANGED <<session_vars, stage, retry, err, known, g_sim_carrier, g_pref_carrier, pcie,
                   flags, answers, fwupdate, core, preferred, counters, reboot>>

\* cond_wait begins to wait; an answer that was stored before signalled nobody.
StartWait ==
    /\ pc = "sent"
    /\ pc' = "wait"
    /\ UNCHANGED <<session_vars, stage, retry, err, known, usb, pcie, flags, queues, fwupdate,
                   core, preferred, counters, reboot>>

\* PWL_CMD_TIMEOUT_SEC have passed; the answer may still come.
TimeOut ==
    /\ pc = "wait"
    /\ IF requests = <<>> /\ answers = <<>> THEN UNCHANGED counters ELSE Fault
    /\ pc' = "woken" /\ err' = TRUE
    /\ UNCHANGED <<session_vars, stage, retry, known, usb, pcie, flags, queues, fwupdate, core,
                   preferred, reboot>>

\* The handler looks at the result: the next stage, another try or the end.
ExtraLookAtResult ==             \* mutated form: one try too many
    /\ pc = "woken"
    /\ \/ /\ ~Succeeded /\ retry < LimitOf(stage)
          /\ pc' = "send"
          /\ retry' = retry + 1
          /\ UNCHANGED <<stage, g_pref_carrier, g_check_sim_carrier_on_going>>
       \/ /\ Succeeded \/ retry >= LimitOf(stage)
          /\ Enter(NextStage)
    /\ UNCHANGED <<session_vars, err, known, g_mnc_len, g_sim_carrier, g_is_get_cimi,
                   g_set_pref_carrier_ret, g_is_sim_insert, pcie, queues, fwupdate, core,
                   preferred, counters, reboot>>

LookAtResult ==
    /\ pc = "woken"
    /\ \/ /\ ~Succeeded /\ retry + 1 < LimitOf(stage)
          /\ pc' = "send"
          /\ retry' = retry + 1
          /\ UNCHANGED <<stage, g_pref_carrier, g_check_sim_carrier_on_going>>
       \/ /\ Succeeded \/ retry + 1 >= LimitOf(stage)
          /\ Enter(NextStage)
    /\ UNCHANGED <<session_vars, err, known, g_mnc_len, g_sim_carrier, g_is_get_cimi,
                   g_set_pref_carrier_ret, g_is_sim_insert, pcie, queues, fwupdate, core, preferred,
                   counters, reboot>>

-------------------------------------------------------------------------------
(* pwl_pref, the main loop: a refresh of a PCIE module.                     *)

\* signal_callback_get_fw_version, PCIE: the versions, then the carrier of a SIM
\* that is ready.
RefreshPcie ==
    /\ type = "PCIE"
    /\ pc = "idle" /\ signals # <<>> /\ Head(signals) = "get_fw_version"
    /\ signals' = Tail(signals)
    /\ pc' = IF g_sim_ready_state = "initialized" THEN "carrier_id" ELSE "idle"
    /\ g_check_sim_carrier_on_going' = (g_sim_ready_state = "initialized")
    /\ UNCHANGED <<device, missed, stage, retry, err, known, usb, pcie, g_is_sim_insert, queues,
                   fwupdate, core, preferred, counters, reboot>>

\* is_need_cxp_reboot: one of two different carriers is a CXP carrier.
NeedCxpReboot(current, saved) == current # saved /\ {current, saved} \cap Cxp # {}

\* History: the reboot that was due does not come.
LoseReboot == reboot' = IF reboot = "due" THEN "lost" ELSE reboot

\* The tries for the carrier id are over.  If it is known it is compared with the
\* file, and then written to it.  A reboot is due that pwl_fwupdate will ask for; it
\* is lost when no question is to come, or when the next refresh takes it back.
CompareWith(answered, saved) ==
    /\ pc = "carrier_id"
    /\ pc' = "idle"
    /\ g_check_sim_carrier_on_going' = FALSE
    /\ IF answered
       THEN /\ port /\ sim \in Sims
            /\ g_need_cxp_reboot' = NeedCxpReboot(sim, saved)
            /\ id_file' = sim
            /\ IF NeedCxpReboot(sim, id_file)
               THEN reboot' = IF notices = 0 /\ fw_pc # "asleep" THEN "lost" ELSE "due"
               ELSE LoseReboot
            /\ UNCHANGED counters
       ELSE /\ IF port /\ sim \in Sims THEN Fault ELSE UNCHANGED counters
            /\ UNCHANGED <<g_need_cxp_reboot, id_file, reboot>>
    /\ UNCHANGED <<session_vars, stage, retry, err, known, usb, g_sim_ready_state,
                   g_is_sim_insert, queues, fwupdate, core, preferred>>

\* mutated form: the file is written before the comparison.
EarlyCompareCarrier(answered) == CompareWith(answered, sim)

CompareCarrier(answered) == CompareWith(answered, id_file)

PrefStep ==
    \/ RefreshUsb
    \/ SimStateChange
    \/ SendRequest
    \/ StartWait
    \/ TimeOut
    \/ LookAtResult
    \/ RefreshPcie
    \/ \E answered \in BOOLEAN : CompareCarrier(answered)

-------------------------------------------------------------------------------
(* pwl_madpt and the message thread of pwl_pref.                            *)

\* pwl_madpt runs the oldest request.  Without a SIM, or a module, it cannot.
MadptServes(result) ==
    /\ requests # <<>>
    /\ requests' = Tail(requests)
    /\ LET r == Head(requests)
           possible == port /\ (r.cid \in {"crsm", "sim_crsm", "cimi", "sim_cimi"}
                                   => sim \in Sims)
       IN  /\ CASE result = "ok"  -> possible /\ UNCHANGED counters
               [] result = "bad" -> possible /\ r.cid = "fw_ver" /\ Fault
               [] OTHER          -> IF possible THEN Fault ELSE UNCHANGED counters
           /\ answers' = Append(answers, [cid |-> r.cid, result |-> result,
                  val |-> CASE r.cid = "get_pref" -> preferred
                            [] r.cid \in {"fw_ver", "set_pref"} -> None
                            [] OTHER -> sim])
           /\ preferred' = IF r.cid = "set_pref" /\ result = "ok" THEN r.val ELSE preferred
    /\ UNCHANGED <<session_vars, pref, fwupdate, core, reboot>>

\* get_carrier_from_sim: the network code is cut to g_mnc_len characters, and a
\* code that is not in the list is Generic.
CarrierFromSim(s, len) == IF MncLen[s] = len THEN s ELSE Generic

\* split_fw_versions frees the versions of an answer that does not have four parts.
SplitFwVersions(a) == CASE a.result = "bad" -> FALSE
                        [] a.cid = "fw_ver" /\ a.result = "ok" -> TRUE
                        [] OTHER -> known

\* msg_queue_thread_func of pwl_pref: store an answer, then pthread_cond_signal.
MessageThread ==
    /\ answers # <<>>
    /\ answers' = Tail(answers)
    /\ LET a == Head(answers)
           good == a.result = "ok"
       IN  /\ known' = SplitFwVersions(a)
           /\ g_mnc_len' = IF a.cid \in {"crsm", "sim_crsm"}
                           THEN IF good THEN MncLen[a.val] ELSE 0
                           ELSE g_mnc_len
           /\ IF a.cid \in {"cimi", "sim_cimi"} /\ good
              THEN g_sim_carrier' = CarrierFromSim(a.val, g_mnc_len) /\ g_is_get_cimi' = TRUE
              ELSE UNCHANGED <<g_sim_carrier, g_is_get_cimi>>
           /\ g_pref_carrier' = IF a.cid = "get_pref" /\ good THEN a.val ELSE g_pref_carrier
           /\ g_set_pref_carrier_ret' = (g_set_pref_carrier_ret \/ (a.cid = "set_pref" /\ good))
    /\ \/ pc = "wait" /\ pc' = "woken" /\ err' = FALSE /\ UNCHANGED counters
       \/ pc # "wait" /\ UNCHANGED <<pc, err>>
          /\ IF pc = "sent" THEN Fault ELSE UNCHANGED counters
    /\ UNCHANGED <<session_vars, stage, retry, flags, pcie, requests, fwupdate, core, preferred, reboot>>

-------------------------------------------------------------------------------
(* pwl_core and pwl_fwupdate (PCIE).                                        *)

\* request_fw_update_check.
RequestFwUpdateCheck ==
    /\ calls > 0
    /\ notices < MaxNotices
    /\ calls' = calls - 1
    /\ IF gb_recoverying
       THEN UNCHANGED <<signals, notices>>
       ELSE signals' = Append(signals, "get_fw_version") /\ notices' = notices + 1
    /\ UNCHANGED <<device, missed, pref, queues, fw_pc, fw_flag, package, gb_recoverying, preferred,
                   counters, reboot>>

\* The recovery check of pwl_core ends (RecoveryMonitor): with both signals, or
\* without, if the module did not come up or the bus is not there.
MonitorEnds(passed) ==
    /\ gb_recoverying
    /\ gb_recoverying' = FALSE
    /\ IF passed /\ bus
       THEN /\ notices < MaxNotices
            /\ signals' = Append(signals, "get_fw_version")
            /\ notices' = notices + 1
       ELSE UNCHANGED <<signals, notices>>
    /\ UNCHANGED <<device, missed, pref, queues, fw_pc, fw_flag, package, calls, preferred, counters, reboot>>

\* signal_callback_notice_module_recovery_finish: sleep(10) for pwl_pref.
TakeNotice ==
    /\ fw_pc = "idle"
    /\ notices > 0
    /\ notices' = notices - 1
    /\ fw_pc' = "asleep"
    /\ UNCHANGED <<session_vars, pref, queues, fw_flag, package, core, preferred, counters, reboot>>

\* check_update_data finds the package; get_cxp_reboot_flag, which the message
\* thread of pwl_pref answers, or not.
GetCxpRebootFlag(answered) ==
    /\ fw_pc = "asleep"
    /\ fw_pc' = "asked"
    /\ fw_flag' = (answered /\ g_need_cxp_reboot)
    /\ IF answered THEN UNCHANGED <<counters, reboot>> ELSE Fault /\ LoseReboot
    /\ UNCHANGED <<session_vars, pref, queues, notices, package, core, preferred>>

\* The rest of the handler: a new package is flashed, which resets the module too;
\* otherwise the module is reset for the carrier.
UpdateOrReboot ==
    /\ fw_pc = "asked"
    /\ IF package = "new" \/ fw_flag
       THEN ModuleResets /\ reboot' = "none"
       ELSE UNCHANGED <<port, indicated, reboot>>
    /\ package' = "current"
    /\ fw_flag' = FALSE
    /\ fw_pc' = "idle"
    /\ UNCHANGED <<type, bus, session, sim, signals, missed, pref, queues, notices, core,
                   preferred, counters>>

-------------------------------------------------------------------------------
(* Restarts.                                                                *)

\* pwl_pref starts anew: queue and signals are gone, and PREFERRED_CARRIER_ID_FILE
\* is empty (which reads as Generic) if it was about to be written.
PrefRestarts ==
    /\ Fault
    /\ pc' = "idle" /\ stage' = "none" /\ retry' = 0 /\ err' = FALSE /\ known' = FALSE
    /\ g_mnc_len' = 0 /\ g_sim_carrier' = None /\ g_is_get_cimi' = FALSE
    /\ g_pref_carrier' = None /\ g_set_pref_carrier_ret' = FALSE
    /\ g_is_sim_insert' = FALSE /\ g_check_sim_carrier_on_going' = FALSE
    /\ g_sim_ready_state' = "none" /\ g_need_cxp_reboot' = FALSE
    /\ id_file' \in {id_file} \cup (IF pc = "carrier_id" THEN {Generic} ELSE {})
    /\ signals' = <<>>
    /\ answers' = <<>>
    /\ LoseReboot
    /\ missed' = (missed \/ pc # "idle" \/ signals # <<>>)
    /\ UNCHANGED <<device, requests, fwupdate, core, preferred>>

\* pwl_madpt starts, anew or for the first time: madpt_ready_method.
MadptRestarts ==
    /\ Fault
    /\ bus
    /\ requests' = <<>>
    /\ signals' = Append(signals, "get_fw_version")
    /\ UNCHANGED <<device, missed, pref, answers, fwupdate, core, preferred,
                   reboot>>

-------------------------------------------------------------------------------
Others == <<pref, queues, fwupdate, core, preferred, reboot>>

Session   == SessionStep /\ UNCHANGED Others
Madpt     == \E result \in {"ok", "bad", "error"} : MadptServes(result)
Core      == RequestFwUpdateCheck \/ \E passed \in BOOLEAN : MonitorEnds(passed)
Fwupdate  == TakeNotice \/ (\E answered \in BOOLEAN : GetCxpRebootFlag(answered)) \/ UpdateOrReboot

Next ==
    \/ Session
    \/ SwapSim /\ UNCHANGED Others
    \/ PrefStep
    \/ Madpt
    \/ MessageThread
    \/ Core
    \/ Fwupdate
    \/ PrefRestarts
    \/ MadptRestarts

Spec == Init /\ [][Next]_vars

\* Every service that can go on does, and libmbim and the module answer in the end.
FairSpec ==
    /\ Spec
    /\ WF_vars(Session)
    /\ WF_vars(BusAcquired /\ UNCHANGED Others)
    /\ WF_vars(PrefStep)
    /\ WF_vars(Madpt)
    /\ WF_vars(MessageThread)
    /\ WF_vars(Core)
    /\ WF_vars(Fwupdate)

-------------------------------------------------------------------------------
(* Properties.                                                              *)

\* The variables hold values of their types; in particular no loop of pwl_pref
\* makes more tries than its limit, and get_sim_carrier_info never sees the SIM go:
\* the signal that clears g_is_sim_insert waits until the handler is done.
TypeOK ==
    /\ SessionTypeOK
    /\ pc \in {"idle", "send", "sent", "wait", "woken", "carrier_id"}
    /\ stage \in Stages
    /\ pc \in {"idle", "carrier_id"} <=> stage = "none"
    /\ stage \in {"sim_crsm", "sim_cimi"} => g_is_sim_insert
    /\ retry \in 0..(LimitOf(stage) - 1)
    /\ g_mnc_len \in Nat
    /\ {g_sim_carrier, g_pref_carrier} \subseteq Carriers \cup {None}
    /\ {id_file, preferred} \subseteq Carriers
    /\ {err, known, g_is_get_cimi, g_set_pref_carrier_ret, g_is_sim_insert,
        g_check_sim_carrier_on_going, g_need_cxp_reboot, gb_recoverying, fw_flag}
         \subseteq BOOLEAN
    /\ g_sim_ready_state \in Signals \cup {"none"}
    /\ calls \in Nat
    /\ notices \in 0..MaxNotices
    /\ fw_pc \in {"idle", "asleep", "asked"}
    /\ package \in {"current", "new"}
    /\ reboot \in {"none", "due", "lost"}

\* The main loop never goes idle with g_check_sim_carrier_on_going set: the next SIM
\* would be turned away with "Switch carrier abort!".
CheckReleased == pc = "idle" => ~g_check_sim_carrier_on_going

\* USB: in the end the preferred carrier of the module is that of the SIM in it,
\* in spite of SIM changes during a check, late answers that end the wait for
\* another request, errors, lost sessions and restarts, unless the signal about the
\* SIM got lost.
PreferredFollowsSim ==
    <>[](type = "USB" /\ sim \in Sims /\ ~missed => preferred = sim)

\* PCIE: a module that changes from or to a CXP carrier is reset, as long as
\* pwl_fwupdate is still to ask for g_need_cxp_reboot when pwl_pref raises it, and
\* neither a second refresh, a restart of pwl_pref nor a timeout takes it away.
CxpRebootFollows == reboot = "due" ~> reboot # "due"

\* The session is always opened again.
SessionReturns == []<>(session = "open")
================================================================================
