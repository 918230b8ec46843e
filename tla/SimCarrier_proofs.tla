--------------------------- MODULE SimCarrier_proofs ---------------------------
(***************************************************************************)
(* For every set of SIMs, every limit and any number of faults, SIM        *)
(* changes and restarts: no path through the handlers of pwl_pref leaves   *)
(* g_check_sim_carrier_on_going set, no loop makes more tries than its     *)
(* limit, and only carriers are compared and set.                          *)
(***************************************************************************)
EXTENDS SimCarrier, TLAPS

\* The property is inductive: a SIM is only turned away by a flag that an idle main
\* loop has left, and there is none.
ReleaseInv == g_check_sim_carrier_on_going \in BOOLEAN /\ CheckReleased

\* What the actions leave alone.
USE DEF vars, pref, handler, flags, session_vars

\* No handler is at work at the start.
LEMMA InitRelease == Init => ReleaseInv
BY DEF Init, ReleaseInv, CheckReleased

\* A stage that is entered is the last one, or the loop is not idle.
LEMMA EnterRelease ==
    ASSUME ReleaseInv, NEW s, Enter(s) PROVE ReleaseInv'
BY DEF ReleaseInv, CheckReleased, Enter

\* The steps of the main loop of pwl_pref.
LEMMA PrefRelease == ReleaseInv /\ PrefStep => ReleaseInv'
<1> SUFFICES ASSUME ReleaseInv, PrefStep PROVE ReleaseInv'
  OBVIOUS
<1> USE DEF ReleaseInv, CheckReleased
<1>1. CASE RefreshUsb
  BY <1>1 DEF RefreshUsb
<1>2. CASE SimStateChange
  <2>1. CASE Head(signals) = "initialized" /\ type = "USB"
    BY <1>2, <2>1 DEF SimStateChange
  <2>2. CASE Head(signals) = "initialized" /\ type # "USB"
    BY <1>2, <2>2 DEF SimStateChange
  <2>3. CASE Head(signals) # "initialized"
    BY <1>2, <2>3 DEF SimStateChange
  <2>4. QED
    BY <2>1, <2>2, <2>3
<1>3. CASE SendRequest
  BY <1>3 DEF SendRequest
<1>4. CASE StartWait \/ TimeOut
  BY <1>4 DEF StartWait, TimeOut
<1>5. CASE LookAtResult
  <2>1. CASE Enter(NextStage)
    BY <2>1, EnterRelease
  <2>2. CASE ~Enter(NextStage)
    <3>1. pc' = "send" /\ UNCHANGED g_check_sim_carrier_on_going
      BY <1>5, <2>2 DEF LookAtResult
    <3>2. QED
      BY <3>1
  <2>3. QED
    BY <2>1, <2>2
<1>6. CASE RefreshPcie
  BY <1>6 DEF RefreshPcie
<1>7. ASSUME NEW answered \in BOOLEAN, CompareCarrier(answered) PROVE ReleaseInv'
  <2>1. pc' = "idle" /\ g_check_sim_carrier_on_going' = FALSE
    BY <1>7 DEF CompareCarrier, CompareWith
  <2>2. QED
    BY <2>1
<1>8. QED
  BY <1>1, <1>2, <1>3, <1>4, <1>5, <1>6, <1>7 DEF PrefStep

\* The steps of the others: they leave the flag alone, and do not make the loop idle.
OtherStep ==
    /\ UNCHANGED g_check_sim_carrier_on_going
    /\ pc' \in {pc, "woken"}

LEMMA OtherRelease == ReleaseInv /\ OtherStep => ReleaseInv'
BY DEF ReleaseInv, CheckReleased, OtherStep

\* Every step of another part is such a step.
LEMMA OthersStep ==
    ASSUME Session \/ (SwapSim /\ UNCHANGED Others) \/ Madpt \/ MessageThread \/ Core
               \/ Fwupdate \/ MadptRestarts
    PROVE  OtherStep
<1> USE DEF OtherStep, Others
<1>1. CASE Session \/ (SwapSim /\ UNCHANGED Others)
  BY <1>1 DEF Session
<1>2. ASSUME NEW result \in {"ok", "bad", "error"}, MadptServes(result) PROVE OtherStep
  BY <1>2 DEF MadptServes
<1>3. CASE MessageThread
  BY <1>3 DEF MessageThread
<1>4. CASE RequestFwUpdateCheck
  BY <1>4 DEF RequestFwUpdateCheck
<1>5. ASSUME NEW passed \in BOOLEAN, MonitorEnds(passed) PROVE OtherStep
  BY <1>5 DEF MonitorEnds
<1>6. CASE TakeNotice \/ UpdateOrReboot
  BY <1>6 DEF TakeNotice, UpdateOrReboot
<1>7. ASSUME NEW answered \in BOOLEAN, GetCxpRebootFlag(answered) PROVE OtherStep
  BY <1>7 DEF GetCxpRebootFlag
<1>8. CASE MadptRestarts
  BY <1>8 DEF MadptRestarts
<1>9. QED
  BY <1>1, <1>2, <1>3, <1>4, <1>5, <1>6, <1>7, <1>8 DEF Madpt, Core, Fwupdate

\* pwl_pref never goes idle with the flag set, which would turn every later SIM away:
\* whatever SIMs, answers, errors, timeouts and restarts there are.
THEOREM CheckIsReleased == Spec => []CheckReleased
<1>1. ReleaseInv /\ [Next]_vars => ReleaseInv'
  <2> SUFFICES ASSUME ReleaseInv, [Next]_vars PROVE ReleaseInv'
    OBVIOUS
  <2>1. CASE PrefStep
    BY <2>1, PrefRelease
  <2>2. CASE PrefRestarts
    <3>1. g_check_sim_carrier_on_going' = FALSE
      BY <2>2 DEF PrefRestarts
    <3>2. QED
      BY <3>1 DEF ReleaseInv, CheckReleased
  <2>3. CASE Session \/ (SwapSim /\ UNCHANGED Others) \/ Madpt \/ MessageThread \/ Core
               \/ Fwupdate \/ MadptRestarts
    BY <2>3, OthersStep, OtherRelease
  <2>4. CASE UNCHANGED vars
    BY <2>4 DEF ReleaseInv, CheckReleased
  <2>5. QED
    BY <2>1, <2>2, <2>3, <2>4 DEF Next
<1>2. ReleaseInv => CheckReleased
  BY DEF ReleaseInv
<1>3. QED
  BY InitRelease, <1>1, <1>2, PTL DEF Spec

-------------------------------------------------------------------------------
(* The shape of the state.                                                  *)

\* The Boolean values of pwl_pref and of the others.
FlagType ==
    /\ bus \in BOOLEAN /\ port \in BOOLEAN /\ indicated \in BOOLEAN /\ missed \in BOOLEAN
    /\ err \in BOOLEAN /\ known \in BOOLEAN /\ g_is_get_cimi \in BOOLEAN
    /\ g_set_pref_carrier_ret \in BOOLEAN /\ g_is_sim_insert \in BOOLEAN
    /\ g_check_sim_carrier_on_going \in BOOLEAN /\ g_need_cxp_reboot \in BOOLEAN
    /\ gb_recoverying \in BOOLEAN /\ fw_flag \in BOOLEAN

\* The session of pwl_core, and what counts the events.
SessionType ==
    /\ session \in Chain
    /\ sim \in Sims \cup {NoSim}
    /\ type \in Types
    /\ faults \in 0..MaxFaults
    /\ events \in 0..MaxEvents[type]
    /\ signals \in Seq(Signals)

\* The parts that only some actions touch.
OtherType ==
    /\ g_sim_ready_state \in Signals \cup {"none"}
    /\ calls \in Nat
    /\ notices \in 0..MaxNotices
    /\ fw_pc \in {"idle", "asleep", "asked"}
    /\ package \in {"current", "new"}
    /\ reboot \in {"none", "due", "lost"}

\* A fault or a change of the SIM is counted within its bounds.
LEMMA CountersStep ==
    ASSUME SessionType, type' = type, Event \/ UNCHANGED events,
           (faults < MaxFaults /\ faults' = faults + 1) \/ UNCHANGED faults
    PROVE  faults' \in 0..MaxFaults /\ events' \in 0..MaxEvents[type']
<1>1. MaxEvents[type] \in Nat
  BY SessionAssumption DEF SessionType
<1>2. QED
  BY <1>1, SessionAssumption DEF SessionType, Event

\* Every step keeps the session within its types.
LEMMA SessionTypeStep == SessionType /\ [Next]_vars => SessionType'
<1> SUFFICES ASSUME SessionType, [Next]_vars PROVE SessionType'
  OBVIOUS
<1> USE DEF Session, SessionStep, BusAcquired, FindPort, DeviceCreated, DeviceOpened, DeviceFailed,
    DeviceRemoved, Indication, PortReturns, SwapSim, PrefStep, RefreshUsb, SimStateChange,
    SendRequest, StartWait, TimeOut, LookAtResult, RefreshPcie, CompareCarrier, CompareWith, Madpt,
    MadptServes, MessageThread, Core, RequestFwUpdateCheck, MonitorEnds, Fwupdate, TakeNotice,
    GetCxpRebootFlag, UpdateOrReboot, PrefRestarts, MadptRestarts, Others
<1>1. /\ type' = type
      /\ Event \/ UNCHANGED events
      /\ (faults < MaxFaults /\ faults' = faults + 1) \/ UNCHANGED faults
  BY Zenon DEF Next, device, counters, Fault
<1>2. /\ session' \in {session, "scan", "creating", "opening", "open"}
      /\ UNCHANGED sim \/ sim' \in (IF sim = NoSim THEN Sims ELSE {NoSim})
  BY Zenon DEF Next, device
<1>3. \/ signals' = signals
      \/ signals # <<>> /\ signals' = Tail(signals)
      \/ signals' = <<>>
      \/ \E state \in Signals : signals' = Append(signals, state)
  <2>1. "get_fw_version" \in Signals /\ "not_inserted" \in Signals
    BY DEF Signals
  <2>2. QED
    BY <2>1, Zenon DEF Next, EmitSimState
<1>4. signals' \in Seq(Signals)
  <2>1. ASSUME NEW state \in Signals, signals' = Append(signals, state)
        PROVE  signals' \in Seq(Signals)
    BY <2>1 DEF SessionType
  <2>2. ASSUME signals # <<>>, signals' = Tail(signals) PROVE signals' \in Seq(Signals)
    BY <2>2 DEF SessionType
  <2>3. <<>> \in Seq(Signals) /\ signals \in Seq(Signals)
    BY DEF SessionType
  <2>4. QED
    BY <1>3, <2>1, <2>2, <2>3, Zenon
<1>5. QED
  BY <1>1, <1>2, <1>4, CountersStep DEF SessionType, Chain

\* The others stay within their types.
LEMMA OtherTypeStep == SessionType /\ OtherType /\ [Next]_vars => OtherType'
<1> SUFFICES ASSUME SessionType, OtherType, [Next]_vars PROVE OtherType'
  OBVIOUS
<1> USE DEF Session, SessionStep, BusAcquired, FindPort, DeviceCreated, DeviceOpened, DeviceFailed,
    DeviceRemoved, Indication, PortReturns, SwapSim, PrefStep, RefreshUsb, SimStateChange,
    SendRequest, StartWait, TimeOut, LookAtResult, RefreshPcie, CompareCarrier, CompareWith, Madpt,
    MadptServes, MessageThread, Core, RequestFwUpdateCheck, MonitorEnds, Fwupdate, TakeNotice,
    GetCxpRebootFlag, UpdateOrReboot, PrefRestarts, MadptRestarts, Others
<1>1. \/ UNCHANGED g_sim_ready_state
      \/ g_sim_ready_state' \in {"none", "initialized"}
      \/ signals # <<>> /\ g_sim_ready_state' = Head(signals)
  BY Zenon DEF Next, pcie
<1>2. \/ UNCHANGED notices
      \/ notices < MaxNotices /\ notices' = notices + 1
      \/ notices > 0 /\ notices' = notices - 1
  BY Zenon DEF Next, fwupdate
<1>3. \/ UNCHANGED calls
      \/ calls' = calls + 1
      \/ calls > 0 /\ calls' = calls - 1
  BY Zenon DEF Next, core
<1>4. fw_pc' \in {fw_pc, "idle", "asleep", "asked"} /\ package' \in {package, "current"}
  BY Zenon DEF Next, fwupdate
<1>5. reboot' \in {reboot, "none", "due", "lost"}
  BY Zenon DEF Next, LoseReboot
<1>6. QED
  BY <1>1, <1>2, <1>3, <1>4, <1>5, CarrierAssumption DEF SessionType, OtherType, Signals

\* All flags stay Boolean.
LEMMA FlagTypeStep == FlagType /\ [Next]_vars => FlagType'
<1> SUFFICES ASSUME FlagType, [Next]_vars PROVE FlagType'
  OBVIOUS
<1> USE DEF Session, SessionStep, BusAcquired, FindPort, DeviceCreated, DeviceOpened, DeviceFailed,
    DeviceRemoved, Indication, PortReturns, SwapSim, PrefStep, RefreshUsb, SimStateChange,
    SendRequest, StartWait, TimeOut, LookAtResult, RefreshPcie, CompareCarrier, CompareWith, Madpt,
    MadptServes, MessageThread, Core, RequestFwUpdateCheck, MonitorEnds, Fwupdate, TakeNotice,
    GetCxpRebootFlag, UpdateOrReboot, PrefRestarts, MadptRestarts, Others
<1>1. bus' \in BOOLEAN /\ port' \in BOOLEAN /\ indicated' \in BOOLEAN
  BY Zenon DEF Next, FlagType, device, ModuleResets
<1>2. missed' \in BOOLEAN
  BY Zenon DEF Next, FlagType, EmitSimState
<1>3. err' \in BOOLEAN /\ known' \in BOOLEAN
  BY Zenon DEF Next, FlagType, SplitFwVersions
<1>4. g_is_get_cimi' \in BOOLEAN /\ g_set_pref_carrier_ret' \in BOOLEAN
  BY Zenon DEF Next, FlagType, usb
<1>5. g_is_sim_insert' \in BOOLEAN
  BY Zenon DEF Next, FlagType
<1>6. g_check_sim_carrier_on_going' \in BOOLEAN
  BY Zenon DEF Next, FlagType, Enter
<1>7. g_need_cxp_reboot' \in BOOLEAN
  BY Zenon DEF Next, FlagType, pcie, NeedCxpReboot
<1>8. gb_recoverying' \in BOOLEAN /\ fw_flag' \in BOOLEAN
  BY Zenon DEF Next, FlagType, core, fwupdate
<1>9. QED
  BY <1>1, <1>2, <1>3, <1>4, <1>5, <1>6, <1>7, <1>8 DEF FlagType

\* Where a stage leads, and from where the later ones are reached.
LEMMA StageOrder ==
    /\ stage = "fw_ver" => NextStage = "crsm"
    /\ stage = "crsm" => NextStage \in {"none", "cimi"}
    /\ stage = "cimi" => NextStage = "none" \/ (NextStage = "get_pref" /\ g_sim_carrier # None)
    /\ stage = "sim_crsm" => NextStage \in {"none", "sim_cimi"}
    /\ stage = "sim_cimi" => NextStage = "none" \/ (NextStage = "get_pref" /\ g_is_get_cimi)
    /\ stage = "get_pref" => NextStage \in {"none", "set_pref"}
    /\ stage = "set_pref" => NextStage = "none"
<1>1. stage = "fw_ver" => NextStage = "crsm"
  BY DEF NextStage
<1>2. stage = "crsm" => NextStage \in {"none", "cimi"}
  BY DEF NextStage, Succeeded
<1>3. stage = "cimi" => NextStage = "none" \/ (NextStage = "get_pref" /\ g_sim_carrier # None)
  BY DEF NextStage, Succeeded
<1>4. stage = "sim_crsm" => NextStage \in {"none", "sim_cimi"}
  BY DEF NextStage, Succeeded
<1>5. stage = "sim_cimi" => NextStage = "none" \/ (NextStage = "get_pref" /\ g_is_get_cimi)
  BY DEF NextStage, Succeeded
<1>6. stage = "get_pref" => NextStage \in {"none", "set_pref"}
  BY DEF NextStage, Succeeded
<1>7. stage = "set_pref" => NextStage = "none"
  BY DEF NextStage, Succeeded
<1>8. QED
  BY <1>1, <1>2, <1>3, <1>4, <1>5, <1>6, <1>7

\* The handler at work: its stage, and its tries, which never reach their limit.
HandlerInv ==
    /\ pc \in {"idle", "send", "sent", "wait", "woken", "carrier_id"}
    /\ stage \in Stages
    /\ pc \in {"idle", "carrier_id"} <=> stage = "none"
    /\ stage \in {"sim_crsm", "sim_cimi"} => g_is_sim_insert = TRUE
    /\ retry \in 0..(LimitOf(stage) - 1)

\* What goes on outside the main loop may only wake it.
LEMMA HandlerAside ==
    ASSUME HandlerInv, UNCHANGED <<stage, retry, g_is_sim_insert>>,
           UNCHANGED pc \/ (pc = "wait" /\ pc' = "woken")
    PROVE  HandlerInv'
BY DEF HandlerInv, LimitOf

\* The handlers keep within their stages and their limits.
LEMMA HandlerInvStep == HandlerInv /\ [Next]_vars => HandlerInv'
<1> SUFFICES ASSUME HandlerInv, [Next]_vars PROVE HandlerInv'
  OBVIOUS
<1>0. Limit \in Nat \ {0} /\ SimLimit \in Nat \ {0}
  BY CarrierAssumption
<1> USE DEF HandlerInv, LimitOf, Stages
<1>1. CASE RefreshUsb
  BY <1>0, <1>1 DEF RefreshUsb
<1>2. CASE SimStateChange
  <2>1. /\ pc = "idle"
        /\ \/ pc' = "send" /\ stage' = "sim_crsm" /\ retry' = 0 /\ g_is_sim_insert' = TRUE
           \/ UNCHANGED <<pc, stage, retry>>
    BY <1>2, Zenon DEF SimStateChange
  <2>2. QED
    BY <1>0, <2>1
<1>3. CASE SendRequest \/ StartWait
  BY <1>0, <1>3 DEF SendRequest, StartWait
<1>4. CASE TimeOut
  BY <1>0, <1>4 DEF TimeOut
<1>5. CASE LookAtResult
  <2>1. CASE retry + 1 < LimitOf(stage) /\ pc' = "send" /\ retry' = retry + 1 /\ UNCHANGED stage
    BY <1>0, <1>5, <2>1 DEF LookAtResult
  <2>2. CASE Enter(NextStage)
    <3>1. /\ pc = "woken" /\ UNCHANGED g_is_sim_insert
      BY <1>5 DEF LookAtResult
    <3>2. /\ NextStage \in Stages \ {"sim_crsm"}
          /\ NextStage = "sim_cimi" => stage = "sim_crsm"
      BY <3>1, StageOrder
    <3>3. /\ stage' = NextStage
          /\ pc' = IF NextStage = "none" THEN "idle" ELSE "send"
          /\ retry' = IF NextStage = "sim_cimi" THEN retry ELSE 0
      BY <2>2 DEF Enter
    <3>4. QED
      BY <1>0, <3>1, <3>2, <3>3
  <2>3. QED
    BY <1>5, <2>1, <2>2, Zenon DEF LookAtResult
<1>6. CASE RefreshPcie
  BY <1>0, <1>6 DEF RefreshPcie
<1>7. ASSUME NEW answered \in BOOLEAN, CompareCarrier(answered) PROVE HandlerInv'
  <2>1. pc = "carrier_id" /\ pc' = "idle" /\ UNCHANGED <<stage, retry, g_is_sim_insert>>
    BY <1>7, Zenon DEF CompareCarrier, CompareWith
  <2>2. QED
    BY <1>0, <2>1
<1>8. CASE PrefRestarts
  <2>1. pc' = "idle" /\ stage' = "none" /\ retry' = 0
    BY <1>8 DEF PrefRestarts
  <2>2. QED
    BY <1>0, <2>1
<1>9. CASE \/ Session \/ (SwapSim /\ UNCHANGED Others) \/ Madpt \/ MessageThread \/ Core
           \/ Fwupdate \/ MadptRestarts \/ UNCHANGED vars
  <2>1. /\ UNCHANGED <<stage, retry, g_is_sim_insert>>
        /\ UNCHANGED pc \/ (pc = "wait" /\ pc' = "woken")
    BY <1>9, Zenon DEF Session, Others, Madpt, MadptServes, MessageThread, Core,
       RequestFwUpdateCheck, MonitorEnds, Fwupdate, TakeNotice, GetCxpRebootFlag, UpdateOrReboot,
       MadptRestarts
  <2>2. QED
    BY <2>1, HandlerAside
<1>10. QED
  BY <1>1, <1>2, <1>3, <1>4, <1>5, <1>6, <1>7, <1>8, <1>9 DEF Next, PrefStep

\* The requests to pwl_madpt; one to set the preferred carrier names a carrier.
GoodRequests ==
    {r \in [cid : Stages \ {"none"}, val : Carriers \cup {None}] :
        r.cid = "set_pref" => r.val \in Carriers}

\* The answers to pwl_pref: a good one about the SIM was given with a SIM inserted.
GoodAnswers ==
    {a \in [cid : Stages \ {"none"}, result : {"ok", "bad", "error"},
            val : Carriers \cup {None, NoSim}] :
        a.result = "ok" =>
            /\ a.cid \in {"crsm", "sim_crsm", "cimi", "sim_cimi"} => a.val \in Sims
            /\ a.cid = "get_pref" => a.val \in Carriers}

\* The carriers: what is compared with the preferred carrier, and then set, is the
\* carrier of a SIM, never the empty string of a SIM that was not read.
CarrierInv ==
    /\ g_mnc_len \in Nat
    /\ g_sim_carrier \in Carriers \cup {None} /\ g_pref_carrier \in Carriers \cup {None}
    /\ id_file \in Carriers /\ preferred \in Carriers
    /\ g_is_get_cimi = TRUE => g_sim_carrier # None
    /\ stage \in {"get_pref", "set_pref"} => g_sim_carrier # None
    /\ requests \in Seq(GoodRequests)
    /\ answers \in Seq(GoodAnswers)

\* A step that keeps the messages, and neither reads a SIM nor goes on to the
\* preferred carrier, keeps the carriers.
LEMMA CarrierAside ==
    ASSUME CarrierInv, UNCHANGED <<usb, id_file, preferred, requests, answers>>,
           stage' \in {stage, "fw_ver", "sim_crsm", "none"}
    PROVE  CarrierInv'
<1>1. UNCHANGED <<g_mnc_len, g_sim_carrier, g_is_get_cimi, g_pref_carrier>>
  BY DEF usb
<1>2. QED
  BY <1>1 DEF CarrierInv

\* A try of a stage sends a good request.
LEMMA SendCarrier ==
    ASSUME FlagType, HandlerInv, CarrierInv, SendRequest PROVE CarrierInv'
<1>1. stage \in Stages \ {"none"}
  BY DEF HandlerInv, SendRequest
<1> DEFINE r == [cid |-> stage, val |-> IF stage = "set_pref" THEN g_sim_carrier ELSE None]
<1>2. r \in GoodRequests
  BY <1>1 DEF CarrierInv, GoodRequests
<1>3. requests' = Append(requests, r)
  BY DEF SendRequest
<1> HIDE DEF r
<1>4. requests' \in Seq(GoodRequests)
  <2> DEFINE S == GoodRequests
  <2>1. requests \in Seq(S) /\ r \in S
    BY <1>2 DEF CarrierInv
  <2> HIDE DEF S
  <2>2. requests' \in Seq(S)
    BY <1>3, <2>1
  <2>3. QED
    BY <2>2 DEF S
<1>5. g_is_get_cimi' = TRUE => g_is_get_cimi = TRUE
  BY Zenon DEF FlagType, SendRequest
<1>6. /\ g_mnc_len' \in {0, g_mnc_len}
      /\ UNCHANGED <<stage, g_sim_carrier, g_pref_carrier, id_file, preferred, answers>>
  BY DEF SendRequest, pcie
<1>7. QED
  BY <1>4, <1>5, <1>6 DEF CarrierInv

\* A handler goes on to the preferred carrier once it has the carrier of the SIM.
LEMMA LookCarrier ==
    ASSUME HandlerInv, CarrierInv, LookAtResult PROVE CarrierInv'
<1>1. UNCHANGED <<g_mnc_len, g_sim_carrier, g_is_get_cimi, id_file, preferred, requests, answers>>
  BY DEF LookAtResult, pcie, queues
<1>2. CASE UNCHANGED <<stage, g_pref_carrier>>
  BY <1>1, <1>2 DEF CarrierInv
<1>3. CASE Enter(NextStage)
  <2>1. stage' = NextStage /\ g_pref_carrier' \in {None, g_pref_carrier}
    BY <1>3 DEF Enter
  <2>2. stage \in Stages \ {"none"}
    BY DEF HandlerInv, LookAtResult
  <2>3. NextStage \in {"get_pref", "set_pref"} => g_sim_carrier # None
    BY <2>2, StageOrder DEF CarrierInv, Stages
  <2>4. QED
    BY <1>1, <2>1, <2>3 DEF CarrierInv
<1>4. QED
  BY <1>2, <1>3, Zenon DEF LookAtResult

\* pwl_madpt answers what it was asked.
LEMMA MadptCarrier ==
    ASSUME SessionType, CarrierInv, NEW result \in {"ok", "bad", "error"}, MadptServes(result)
    PROVE  CarrierInv'
<1> DEFINE r == Head(requests)
           v == CASE r.cid = "get_pref" -> preferred
                  [] r.cid \in {"fw_ver", "set_pref"} -> None
                  [] OTHER -> sim
           a == [cid |-> r.cid, result |-> result, val |-> v]
<1>1. /\ requests # <<>> /\ requests' = Tail(requests)
      /\ answers' = Append(answers, a)
      /\ preferred' = IF r.cid = "set_pref" /\ result = "ok" THEN r.val ELSE preferred
      /\ UNCHANGED <<stage, g_mnc_len, g_sim_carrier, g_is_get_cimi, g_pref_carrier, id_file>>
  BY DEF MadptServes, usb, pcie
<1>2. result = "ok" /\ r.cid \in {"crsm", "sim_crsm", "cimi", "sim_cimi"} => sim \in Sims
  BY DEF MadptServes
<1>3. r \in GoodRequests /\ requests' \in Seq(GoodRequests)
  <2> DEFINE S == GoodRequests
  <2>1. requests \in Seq(S)
    BY DEF CarrierInv
  <2> HIDE DEF S
  <2>2. r \in S /\ requests' \in Seq(S)
    BY <1>1, <2>1
  <2>3. QED
    BY <2>2 DEF S
<1> HIDE DEF r
<1>4. a \in GoodAnswers
  <2>1. r.cid \in Stages \ {"none"}
    BY <1>3 DEF GoodRequests
  <2>2. sim \in Sims \cup {NoSim} /\ preferred \in Carriers
    BY DEF SessionType, CarrierInv
  <2>3. /\ v \in Carriers \cup {None, NoSim}
        /\ r.cid = "get_pref" => v = preferred
        /\ r.cid \in {"crsm", "sim_crsm", "cimi", "sim_cimi"} => v = sim
    BY <2>1, <2>2 DEF Stages, Carriers
  <2> HIDE DEF v
  <2>4. QED
    BY <1>2, <2>1, <2>2, <2>3 DEF GoodAnswers
<1> HIDE DEF a
<1>5. answers' \in Seq(GoodAnswers)
  <2> DEFINE S == GoodAnswers
  <2>1. answers \in Seq(S) /\ a \in S
    BY <1>4 DEF CarrierInv
  <2> HIDE DEF S
  <2>2. answers' \in Seq(S)
    BY <1>1, <2>1
  <2>3. QED
    BY <2>2 DEF S
<1>6. preferred' \in Carriers
  BY <1>1, <1>3 DEF GoodRequests, CarrierInv
<1>7. QED
  BY <1>1, <1>3, <1>5, <1>6 DEF CarrierInv

\* The message thread stores carriers only.
LEMMA MessageCarrier ==
    ASSUME CarrierInv, MessageThread PROVE CarrierInv'
<1> DEFINE a == Head(answers)
<1>1. /\ answers # <<>> /\ answers' = Tail(answers)
      /\ g_mnc_len' = IF a.cid \in {"crsm", "sim_crsm"}
                      THEN IF a.result = "ok" THEN MncLen[a.val] ELSE 0
                      ELSE g_mnc_len
      /\ IF a.cid \in {"cimi", "sim_cimi"} /\ a.result = "ok"
         THEN g_sim_carrier' = CarrierFromSim(a.val, g_mnc_len) /\ g_is_get_cimi' = TRUE
         ELSE UNCHANGED <<g_sim_carrier, g_is_get_cimi>>
      /\ g_pref_carrier' = IF a.cid = "get_pref" /\ a.result = "ok" THEN a.val ELSE g_pref_carrier
      /\ UNCHANGED <<stage, id_file, preferred, requests>>
  BY DEF MessageThread, pcie
<1>2. a \in GoodAnswers /\ answers' \in Seq(GoodAnswers)
  <2> DEFINE S == GoodAnswers
  <2>1. answers \in Seq(S)
    BY DEF CarrierInv
  <2> HIDE DEF S
  <2>2. a \in S /\ answers' \in Seq(S)
    BY <1>1, <2>1
  <2>3. QED
    BY <2>2 DEF S
<1> HIDE DEF a
<1>3. a.result = "ok" =>
          /\ a.cid \in {"crsm", "sim_crsm", "cimi", "sim_cimi"} => a.val \in Sims
          /\ a.cid = "get_pref" => a.val \in Carriers
  BY <1>2 DEF GoodAnswers
<1>4. g_mnc_len' \in Nat
  BY <1>1, <1>3, CarrierAssumption DEF CarrierInv
<1>5. CASE a.cid \in {"cimi", "sim_cimi"} /\ a.result = "ok"
  <2>1. g_sim_carrier' \in Carriers /\ None \notin Carriers
    BY <1>1, <1>3, <1>5, CarrierAssumption DEF CarrierFromSim, Carriers
  <2>2. g_pref_carrier' \in Carriers \cup {None}
    BY <1>1, <1>3 DEF CarrierInv
  <2>3. QED
    BY <1>1, <1>2, <1>4, <2>1, <2>2 DEF CarrierInv
<1>6. CASE ~(a.cid \in {"cimi", "sim_cimi"} /\ a.result = "ok")
  <2>1. UNCHANGED <<g_sim_carrier, g_is_get_cimi>>
    BY <1>1, <1>6
  <2>2. g_pref_carrier' \in Carriers \cup {None}
    BY <1>1, <1>3 DEF CarrierInv
  <2>3. QED
    BY <1>1, <1>2, <1>4, <2>1, <2>2 DEF CarrierInv
<1>7. QED
  BY <1>5, <1>6

\* Every step keeps the carriers.
LEMMA CarrierInvStep ==
    FlagType /\ SessionType /\ HandlerInv /\ CarrierInv /\ [Next]_vars => CarrierInv'
<1> SUFFICES ASSUME FlagType, SessionType, HandlerInv, CarrierInv, [Next]_vars PROVE CarrierInv'
  OBVIOUS
<1>1. CASE RefreshUsb \/ SimStateChange \/ StartWait \/ TimeOut \/ RefreshPcie
  <2>1. /\ UNCHANGED <<usb, id_file, preferred, requests, answers>>
        /\ stage' \in {stage, "fw_ver", "sim_crsm", "none"}
    BY <1>1, Zenon DEF RefreshUsb, SimStateChange, StartWait, TimeOut, RefreshPcie, pcie, queues
  <2>2. QED
    BY <2>1, CarrierAside
<1>2. CASE SendRequest
  BY <1>2, SendCarrier
<1>3. CASE LookAtResult
  BY <1>3, LookCarrier
<1>4. ASSUME NEW answered \in BOOLEAN, CompareCarrier(answered) PROVE CarrierInv'
  <2>1. /\ UNCHANGED <<stage, usb, preferred, requests, answers>>
        /\ id_file' = id_file \/ (sim \in Sims /\ id_file' = sim)
    BY <1>4, Zenon DEF CompareCarrier, CompareWith, queues
  <2>2. id_file' \in Carriers
    BY <2>1 DEF CarrierInv, Carriers
  <2>3. UNCHANGED <<g_mnc_len, g_sim_carrier, g_is_get_cimi, g_pref_carrier>>
    BY <2>1 DEF usb
  <2>4. QED
    BY <2>1, <2>2, <2>3 DEF CarrierInv
<1>5. ASSUME NEW result \in {"ok", "bad", "error"}, MadptServes(result) PROVE CarrierInv'
  BY <1>5, MadptCarrier
<1>6. CASE MessageThread
  BY <1>6, MessageCarrier
<1>7. CASE PrefRestarts
  <2>1. /\ stage' = "none" /\ g_mnc_len' = 0 /\ g_sim_carrier' = None
        /\ g_is_get_cimi' = FALSE /\ g_pref_carrier' = None
        /\ id_file' \in {id_file, Generic} /\ answers' = <<>>
        /\ UNCHANGED <<requests, preferred>>
    BY <1>7 DEF PrefRestarts
  <2>2. QED
    BY <2>1 DEF CarrierInv, Carriers
<1>8. CASE MadptRestarts
  <2>1. /\ UNCHANGED <<stage, usb, id_file, preferred, answers>>
        /\ requests' = <<>>
    BY <1>8, Zenon DEF MadptRestarts, pcie
  <2>2. UNCHANGED <<g_mnc_len, g_sim_carrier, g_is_get_cimi, g_pref_carrier>>
    BY <2>1 DEF usb
  <2>3. QED
    BY <2>1, <2>2 DEF CarrierInv
<1>9. CASE Session \/ (SwapSim /\ UNCHANGED Others) \/ Core \/ Fwupdate \/ UNCHANGED vars
  <2>1. UNCHANGED <<stage, usb, id_file, preferred, requests, answers>>
    BY <1>9, Zenon DEF Session, Others, Core, RequestFwUpdateCheck, MonitorEnds, Fwupdate,
       TakeNotice, GetCxpRebootFlag, UpdateOrReboot, pcie, queues
  <2>2. QED
    BY <2>1, CarrierAside
<1>10. QED
  BY <1>1, <1>2, <1>3, <1>4, <1>5, <1>6, <1>7, <1>8, <1>9, Zenon DEF Next, PrefStep, Madpt

\* The parts of TypeOK, and what they need.
TypeInv == FlagType /\ SessionType /\ OtherType /\ HandlerInv /\ CarrierInv

\* All variables keep their types; no loop of pwl_pref makes more tries than its
\* limit, and the handler of a SIM never sees g_is_sim_insert cleared.
THEOREM TypeCorrect == Spec => []TypeOK
<1>1. Init => TypeInv
  <2> SUFFICES ASSUME Init PROVE TypeInv
    OBVIOUS
  <2> USE DEF Init, SessionInit
  <2>1. FlagType
    BY Zenon DEF FlagType
  <2>2. SessionType
    <3>1. MaxEvents[type] \in Nat
      BY SessionAssumption
    <3>2. QED
      BY <3>1, SessionAssumption DEF SessionType, Chain
  <2>3. OtherType
    BY CarrierAssumption DEF OtherType
  <2>4. HandlerInv
    BY CarrierAssumption DEF HandlerInv, LimitOf, Stages
  <2>5. CarrierInv
    BY DEF CarrierInv, Carriers
  <2>6. QED
    BY <2>1, <2>2, <2>3, <2>4, <2>5 DEF TypeInv
<1>2. TypeInv /\ [Next]_vars => TypeInv'
  BY FlagTypeStep, SessionTypeStep, OtherTypeStep, HandlerInvStep, CarrierInvStep DEF TypeInv
<1>3. TypeInv => TypeOK
  <2> SUFFICES ASSUME TypeInv PROVE TypeOK
    OBVIOUS
  <2>1. SessionTypeOK
    BY DEF TypeInv, FlagType, SessionType, SessionTypeOK
  <2>2. QED
    BY <2>1 DEF TypeInv, FlagType, OtherType, HandlerInv, CarrierInv, TypeOK
<1>4. QED
  BY <1>1, <1>2, <1>3, PTL DEF Spec
================================================================================
