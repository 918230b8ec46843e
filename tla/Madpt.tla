--------------------------------- MODULE Madpt ---------------------------------
(***************************************************************************)
(* pwl_madpt, the service that owns the AT port of the module.             *)
(*                                                                         *)
(* Its message thread takes one request at a time from the message queue,  *)
(* gives an AT command to libmbim and waits for g_cond; libmbim calls      *)
(* mbim_at_resp_cb on the main loop, which stores the text in the one      *)
(* buffer g_response and signals g_cond.  Errors are counted in            *)
(* mbim_err_cnt, and at PWL_MBIM_ERR_MAX the MBIM device is closed and     *)
(* opened again.  A second thread runs once at the start: on PCIE it waits *)
(* for the end of the recovery check, on the same g_mutex and g_cond; on   *)
(* USB it continues an unfinished JP FCC configuration, with AT commands   *)
(* of its own, and ends by restarting the service.                         *)
(*                                                                         *)
(* Timing that the model relies on: libmbim answers a command, or reports  *)
(* its timeout, after PWL_CMD_TIMEOUT_SEC - 1 seconds at the latest, a     *)
(* second before the wait of the thread that sent it ends; and it creates  *)
(* a device object, which looks at a local file, within a wait.            *)
(***************************************************************************)
EXTENDS Naturals, Sequences

CONSTANTS
    ErrMax,        \* PWL_MBIM_ERR_MAX
    JpTH,          \* JP_FCC_CONFIG_RETRY_TH
    Limit,         \* how often a loop sends its command: a function on Loops
    MaxFaults,     \* bound: what goes wrong in a behaviour, for each device type
    MaxRestarts,   \* bound: reasons to restart, requests and a configuration left over
    MaxNew,        \* bound: device creations under way
    MaxPending,    \* bound: commands libmbim holds when a notice ends a wait
    None           \* no thread, no command, an empty buffer

Loops == {"getjp", "oem", "prireset", "reset"}

ASSUME ConstantsAssumption ==
    /\ ErrMax \in Nat \ {0}
    /\ JpTH \in Nat \ {0}
    /\ Limit \in [Loops -> Nat \ {0}]
    /\ MaxFaults \in [{"usb", "pcie"} -> Nat]
    /\ MaxRestarts \in Nat /\ MaxNew \in Nat \ {0} /\ MaxPending \in Nat

Threads == {"msg", "start"}

\* Requests: most answer with g_response ("version").  PCIE only: one whose text is
\* taken apart ("carrier").  USB only: the JP FCC configuration and the restart, after
\* an update with or without an OEM image.
AtRequests == {"version", "carrier"}
Restarts == {"restart", "restart_oem"}
Requests == AtRequests \cup {"jp"} \cup Restarts

\* What a thread is doing, and its AT commands; those of the JP FCC and OEM
\* configuration need not be told apart.
Phases == Loops \cup {"command", "setjp", "recovery", "open"}
Commands == AtRequests \cup {"setup"}

ASSUME NoneAssumption == None \notin Requests \cup Commands \cup Threads \cup {"left"}

Labels == {"receive", "request", "check", "close", "unlock", "lock", "wait",
           "signalled", "sleep", "reply",
           "init", "exit", "none", "begin", "end"}

VARIABLES
    g_device_type, \* "usb" or "pcie"
    g_at_intf,     \* "mbim", or "channel": the AT port, without libmbim
    jp,            \* JP_FCC_CONFIG_COUNT of fw_update_status
    looping,       \* the main loop runs
    pc,            \* where each thread is
    phase,         \* what it is doing
    round,         \* the counter of its loop
    cid,           \* the request being handled
    status,        \* its status
    g_response,    \* the command whose text is in the buffer
    mbim_err_cnt,
    mutex,         \* the owner of g_mutex, or "left": locked by a cond_wait that is over
    g_device,      \* "null", "new" (being opened), "open" or "failed"
    creating,      \* mbim_device_new calls whose callback has not run
    pending,       \* commands whose callback has not run, the oldest first
    started,       \* "Madpt started" is sent
    mixed,         \* another user of g_cond or g_response got into a request
    faults,        \* what went wrong so far
    asks           \* reasons to restart so far

fixed == <<g_device_type, g_at_intf>>
threads == <<pc, phase, round>>
request == <<cid, status>>
device == <<g_device, creating>>
history == <<started, mixed, faults, asks>>
vars == <<fixed, jp, looping, threads, request, g_response, mbim_err_cnt, mutex, device,
          pending, history>>

\* main up to the start of the message thread: mbim_init has asked for a device.
\* The AT channel is the fallback of check_if_mbim_api_exist, for PCIE only.  An
\* update has left the JP FCC configuration to be done or not.
Init ==
    /\ g_device_type \in {"usb", "pcie"}
    /\ g_at_intf \in IF g_device_type = "pcie" THEN {"mbim", "channel"} ELSE {"mbim"}
    /\ jp \in {0, 1}
    /\ jp <= MaxRestarts
    /\ looping = FALSE
    /\ pc = [t \in Threads |-> IF t = "msg" THEN "receive" ELSE "none"]
    /\ phase = [t \in Threads |-> "command"]
    /\ round = [t \in Threads |-> 0]
    /\ cid = None
    /\ status = "OK"
    /\ g_response = None
    /\ mbim_err_cnt = 0
    /\ mutex = None
    /\ g_device = "null"
    /\ creating = IF g_at_intf = "mbim" THEN 1 ELSE 0
    /\ pending = <<>>
    /\ started = FALSE
    /\ mixed = FALSE
    /\ faults = 0
    /\ asks = jp

\* The service starts again: its memory is new, and main discards the old messages.
Boot ==
    /\ looping' = FALSE
    /\ pc' = [t \in Threads |-> IF t = "msg" THEN "receive" ELSE "none"]
    /\ phase' = [t \in Threads |-> "command"]
    /\ round' = [t \in Threads |-> 0]
    /\ cid' = None
    /\ status' = "OK"
    /\ g_response' = None
    /\ mbim_err_cnt' = 0
    /\ mutex' = None
    /\ g_device' = "null"
    /\ creating' = IF g_at_intf = "mbim" THEN 1 ELSE 0
    /\ pending' = <<>>
    /\ started' = FALSE
    /\ mixed' = FALSE

DeviceRequests == IF g_device_type = "pcie" THEN AtRequests ELSE Requests \ {"carrier"}
Goto(t, label) == pc' = [pc EXCEPT ![t] = label]
Enter(t, label, p) == Goto(t, label) /\ phase' = [phase EXCEPT ![t] = p]
Fault == faults < MaxFaults[g_device_type] /\ faults' = faults + 1
\* mbim_err_cnt++.  Above its limit the count is not told apart.
OneMore == IF mbim_err_cnt < ErrMax THEN mbim_err_cnt + 1 ELSE mbim_err_cnt
Busy(t) == \E i \in 1..Len(pending) : pending[i].by = t

-------------------------------------------------------------------------------
(* The process.                                                             *)

\* The end of main: D-Bus is there, the second thread starts, the main loop runs.
RunMainLoop ==
    /\ ~looping
    /\ looping' = TRUE
    /\ Goto("start", "begin")
    /\ UNCHANGED <<fixed, jp, phase, round, request, g_response, mbim_err_cnt, mutex,
                   device, pending, history>>

\* restart: exit(1), after clean_up; systemd starts the service again, and main
\* discards the old messages.  restart would return while gp_loop is NULL, but main
\* creates gp_loop next after the message thread, and restart comes at the end of
\* jp_fcc_config, which begins with a sleep of PWL_MBIM_READY_SEC seconds.
Exit(t) ==
    /\ pc[t] = "exit"
    /\ UNCHANGED <<fixed, jp, faults, asks>>
    /\ Boot

-------------------------------------------------------------------------------
(* The message thread.                                                      *)

\* The next message of pwl_pref, pwl_fwupdate or pwl_core is taken from the queue, and
\* the buffer cleared.
Take(m, response) ==
    /\ pc["msg"] = "receive"
    /\ m \in DeviceRequests
    /\ m \in Restarts => asks < MaxRestarts
    /\ asks' = IF m \in Restarts THEN asks + 1 ELSE asks
    /\ cid' = m
    /\ status' = "OK"
    /\ g_response' = response
    /\ \/ m \in Restarts /\ Enter("msg", "init", "open")
       \/ m = "jp" /\ Enter("msg", "request", "getjp")
       \/ m \in AtRequests /\ Enter("msg", "request", "command")
    /\ UNCHANGED <<fixed, jp, looping, round, mbim_err_cnt, mutex, device, pending,
                   started, mixed, faults>>

UnclearedReceive(m) == Take(m, g_response)   \* mutated form: the buffer is not cleared

Receive(m) == Take(m, None)

\* at_cmd_request over the AT channel answers at once.
RequestOverChannel(good) ==
    /\ pc["msg"] = "request"
    /\ phase["msg"] = "command"
    /\ g_at_intf = "channel"
    /\ g_response' = IF good THEN cid ELSE g_response
    /\ status' = IF good THEN "OK" ELSE "ERROR"
    /\ IF good THEN UNCHANGED faults ELSE Fault
    /\ Goto("msg", "reply")
    /\ UNCHANGED <<fixed, jp, looping, phase, round, cid, mbim_err_cnt,
                   mutex, device, pending, started, mixed, asks>>

\* The reply is sent: g_response with the status, the carrier taken out of it, or a
\* fixed text.  What the next request sets again is cleared.
Reply ==
    /\ pc["msg"] = "reply"
    /\ Goto("msg", "receive")
    /\ cid' = None
    /\ status' = "OK"
    /\ UNCHANGED <<fixed, jp, looping, phase, round, g_response, mbim_err_cnt, mutex,
                   device, pending, history>>

\* An SBP text without a comma makes strtok return NULL, which is copied: the
\* service crashes and is started again.
ReplyCrashes ==
    /\ pc["msg"] = "reply"
    /\ cid = "carrier"
    /\ g_response # None
    /\ Fault
    /\ UNCHANGED <<fixed, jp, asks>>
    /\ Boot

-------------------------------------------------------------------------------
(* AT commands over libmbim, for both threads.                              *)

Command(t) == IF phase[t] = "command" THEN cid ELSE "setup"

\* pwl_mbimdeviceadpt_at_req: without a device the command is lost, and before the
\* device is open it is answered with an error, which counts as a fault.  The message
\* thread waits next, the others check the error count first.
Request(t) ==
    /\ pc[t] = "request"
    /\ g_at_intf = "mbim"
    /\ pending' = IF g_device = "null" THEN pending
                  ELSE Append(pending, [by |-> t, cmd |-> Command(t), open |-> g_device = "open"])
    /\ IF g_device = "new" THEN Fault ELSE UNCHANGED faults
    /\ Goto(t, IF phase[t] = "command" THEN "lock" ELSE "check")
    /\ UNCHANGED <<fixed, jp, looping, phase, round, request, g_response, mbim_err_cnt, mutex,
                   device, started, mixed, asks>>

\* Where a thread goes after its check of the error count.
AfterCheck(t) ==
    CASE phase[t] = "command" -> "reply"
      [] phase[t] = "oem" -> "sleep"
      [] OTHER -> "unlock"

\* Few errors: nothing to do.
CheckOk(t) ==
    /\ pc[t] = "check"
    /\ mbim_err_cnt < ErrMax
    /\ Goto(t, AfterCheck(t))
    /\ UNCHANGED <<fixed, jp, looping, phase, round, request, g_response, mbim_err_cnt,
                   mutex, device, pending, history>>

\* Too many: pwl_mbimdeviceadpt_deinit closes the device ...
Close(t) ==
    /\ pc[t] = "check"
    /\ mbim_err_cnt >= ErrMax
    /\ g_device' = "null"
    /\ Goto(t, "close")
    /\ UNCHANGED <<fixed, jp, looping, phase, round, request, g_response, mbim_err_cnt,
                   mutex, creating, pending, history>>

\* ... waits for that, drops a device that came meanwhile, and
\* pwl_mbimdeviceadpt_init asks for a new one, if it finds the port.
ReopenWith(t, found, new, errors) ==
    /\ pc[t] = "close"
    /\ IF found THEN new <= MaxNew /\ creating' = new /\ UNCHANGED faults
       ELSE Fault /\ UNCHANGED creating
    /\ g_device' = "null"
    /\ mbim_err_cnt' = errors
    /\ Goto(t, AfterCheck(t))
    /\ UNCHANGED <<fixed, jp, looping, phase, round, request, g_response, mutex, pending, started,
                   mixed, asks>>

ForgottenInit(t, found) ==     \* mutated form: no new device is asked for
    ReopenWith(t, found, creating, 0)
KeptCount(t, found) ==         \* mutated form: the count is not reset
    ReopenWith(t, found, creating + 1, mbim_err_cnt)

Reopen(t, found) == ReopenWith(t, found, creating + 1, 0)

-------------------------------------------------------------------------------
(* The wait: directly for a request, with cond_wait everywhere else.        *)

\* pthread_mutex_lock and pthread_cond_timedwait, which unlocks it again; nobody keeps
\* the mutex between the two but for a moment.
StartWait(t) ==
    /\ pc[t] = "lock"
    /\ mutex = None
    /\ Goto(t, "wait")
    /\ UNCHANGED <<fixed, jp, looping, phase, round, request, g_response, mbim_err_cnt,
                   mutex, device, pending, history>>

\* cond_wait first unlocks the mutex, whoever holds it.
CondWait(t) ==
    /\ pc[t] = "unlock"
    /\ mutex' = None
    /\ Goto(t, "wait")
    /\ UNCHANGED <<fixed, jp, looping, phase, round, request, g_response, mbim_err_cnt,
                   device, pending, history>>

\* The wait is over: after a signal, or by its timeout, which comes only after libmbim
\* has reported on the thread's commands and on a device it creates.  pthread_cond_timedwait locks the mutex
\* again; cond_wait unlocks it after a signal only.
Answered(t) == pc[t] = "signalled" /\ mutex = None /\ UNCHANGED mutex
TimesOut(t) ==
    /\ pc[t] = "wait"
    /\ ~Busy(t)
    /\ looping => creating = 0
    /\ mutex = None
Unanswered(t) == TimesOut(t) /\ mutex' = "left"

\* The message thread counts the outcome and unlocks the mutex.
CommandAnswered ==
    /\ Answered("msg")
    /\ phase["msg"] = "command"
    /\ mbim_err_cnt' = 0
    /\ Goto("msg", "check")
    /\ UNCHANGED <<fixed, jp, looping, phase, round, request, g_response, device, pending, history>>

CountTimeOut ==
    /\ phase["msg"] = "command"
    /\ mbim_err_cnt' = OneMore
    /\ status' = "TIMEOUT"
    /\ Goto("msg", "check")
    /\ UNCHANGED <<fixed, jp, looping, phase, round, cid, g_response, device, pending, history>>

LockedTimeOut ==               \* mutated form: the mutex is not unlocked
    TimesOut("msg") /\ mutex' = "msg" /\ CountTimeOut

CommandTimesOut == TimesOut("msg") /\ UNCHANGED mutex /\ CountTimeOut

-------------------------------------------------------------------------------
(* The main loop: callbacks of libmbim and the notice of pwl_core.          *)

\* pthread_cond_signal: one of the threads that wait goes on, if any does.  It counts as
\* a fault if a thread that waits for the answer, or is about to, misses the signal.
SignalOne(t) == pc[t] = "wait" /\ Goto(t, "signalled")
Expects(t) == pc[t] \in {"check", "close", "unlock", "lock", "wait"} /\ phase[t] # "oem"
Signal(for) ==
    \/ SignalOne(for) /\ UNCHANGED faults
    \/ /\ \/ \E t \in Threads \ {for} : SignalOne(t)
          \/ (\A t \in Threads : pc[t] # "wait") /\ UNCHANGED pc
       /\ IF Expects(for) THEN Fault ELSE UNCHANGED faults

\* mbim_at_resp_cb for the oldest command: a text, which at_resp_parsing stores
\* unless it says ERROR; the text "ERROR"; or no answer ("QUERY ERROR"), always so
\* if the device was not open.
AtRespCb(outcome) ==
    /\ looping
    /\ pending # <<>>
    /\ outcome # "QUERY ERROR" => Head(pending).open
    /\ pending' = Tail(pending)
    /\ mixed' = (mixed \/ (Head(pending).by # "msg" /\ pc["msg"] # "receive"))
    /\ \/ /\ outcome = "text"
          /\ g_response' = Head(pending).cmd
          /\ Signal(Head(pending).by)
          /\ UNCHANGED mbim_err_cnt
       \/ /\ outcome = "refusal"
          /\ Fault
          /\ \/ \E t \in Threads : SignalOne(t)
             \/ (\A t \in Threads : pc[t] # "wait") /\ UNCHANGED pc
          /\ UNCHANGED <<g_response, mbim_err_cnt>>
       \/ /\ outcome = "ERROR"
          /\ Fault
          /\ mbim_err_cnt' = ErrMax
          /\ UNCHANGED <<g_response, pc>>
       \/ /\ outcome = "QUERY ERROR"
          /\ IF Head(pending).open THEN Fault ELSE UNCHANGED faults
          /\ mbim_err_cnt' = OneMore
          /\ UNCHANGED <<g_response, pc>>
    /\ UNCHANGED <<fixed, jp, looping, phase, round, request, mutex, device, started,
                   asks>>

\* device_new_cb: the device replaces the one there is, and is opened.
DeviceNewCb(good) ==
    /\ looping
    /\ creating > 0
    /\ creating' = creating - 1
    /\ IF good THEN g_device' = "new" /\ UNCHANGED faults ELSE g_device' = "null" /\ Fault
    /\ UNCHANGED <<fixed, jp, looping, threads, request, g_response, mbim_err_cnt, mutex, pending,
                   started, mixed, asks>>

DeviceOpenCb(good) ==
    /\ looping
    /\ g_device = "new"
    /\ IF good THEN g_device' = "open" /\ UNCHANGED faults ELSE g_device' = "failed" /\ Fault
    /\ UNCHANGED <<fixed, jp, looping, threads, request, g_response, mbim_err_cnt, mutex,
                   creating, pending, started, mixed, asks>>

\* signal_callback_notice_module_recovery_finish signals the same g_cond.
RecoveryNotice ==
    /\ looping
    /\ g_device_type = "pcie"
    /\ Len(pending) < MaxPending
    /\ \/ phase["start"] = "recovery" /\ SignalOne("start") /\ UNCHANGED <<faults, mixed>>
       \/ SignalOne("msg") /\ Fault /\ mixed' = TRUE
    /\ UNCHANGED <<fixed, jp, looping, phase, round, request, g_response, mbim_err_cnt,
                   mutex, device, pending, started, asks>>

-------------------------------------------------------------------------------
(* The second thread, and the JP FCC configuration in either thread.        *)

\* recovery_wait_thread_func waits for the notice; jp_fcc_thread_func goes on with an
\* unfinished configuration, counting the attempt, or reports the start.
BeginWith(open, count) ==
    /\ pc["start"] = "begin"
    /\ \/ /\ g_device_type = "pcie"
          /\ Enter("start", "unlock", "recovery")
          /\ UNCHANGED <<jp, started>>
       \/ /\ g_device_type = "usb"
          /\ jp \in open
          /\ jp' = count
          /\ Enter("start", "init", "open")
          /\ UNCHANGED started
       \/ /\ g_device_type = "usb"
          /\ jp \notin open
          /\ Goto("start", "end")
          /\ started' = TRUE
          /\ UNCHANGED <<jp, phase>>
    /\ UNCHANGED <<fixed, looping, round, request, g_response, mbim_err_cnt, mutex, device, pending,
                   mixed, faults, asks>>

UncountedBegin == BeginWith(1..(JpTH - 1), jp)   \* mutated form: the attempt is not saved
OneMoreBegin == BeginWith(1..JpTH, jp + 1)       \* mutated form: <= for <

Begin == BeginWith(1..(JpTH - 1), jp + 1)

\* The recovery wait is over, with or without a notice.
RecoveryDone ==
    /\ phase["start"] = "recovery"
    /\ Answered("start") \/ Unanswered("start")
    /\ started' = TRUE
    /\ Goto("start", "end")
    /\ UNCHANGED <<fixed, jp, looping, phase, round, request, g_response, mbim_err_cnt,
                   device, pending, mixed, faults, asks>>

\* jp_fcc_config: mbim_init tries until there is a port, then asks for a device.
MbimInit(t) ==
    /\ pc[t] = "init"
    /\ creating < MaxNew
    /\ creating' = creating + 1
    /\ mbim_err_cnt' = 0
    /\ \/ t = "start" /\ Enter(t, "request", "getjp")
       \/ t = "msg" /\ cid = "restart_oem" /\ Enter(t, "request", "oem")
       \/ t = "msg" /\ cid = "restart" /\ Goto(t, "exit") /\ UNCHANGED phase
    /\ UNCHANGED <<fixed, jp, looping, round, request, g_response, mutex, g_device,
                   pending, history>>

\* A round of a loop is over: the command is sent again, or the loop is left.
NextRound(t, loop, label, p) ==
    /\ round' = [round EXCEPT ![t] = IF @ + 1 < Limit[loop] THEN @ + 1 ELSE 0]
    /\ IF round[t] + 1 < Limit[loop] THEN Enter(t, "request", loop) ELSE Enter(t, label, p)
LeaveLoop(t, label, p) ==
    /\ round' = [round EXCEPT ![t] = 0]
    /\ Enter(t, label, p)

\* enable_jp_fcc_auto_reboot is over: the message thread goes on to its check and its
\* reply, the second thread restarts the service.
JpEnd(t) == IF t = "msg" THEN "check" ELSE "exit"

\* The state that at*bjpfccautoreboot? reports; an empty buffer leaves it as it was
\* in the round before, and the loop is left when it was enabled.
ReadJp(t, state) ==
    /\ phase[t] = "getjp"
    /\ Answered(t)
    /\ g_response = None => state \in {"error", "disabled"}
    /\ \/ state = "error" /\ NextRound(t, "getjp", JpEnd(t), "command") /\ UNCHANGED jp
       \/ state = "disabled" /\ Enter(t, "request", "setjp") /\ UNCHANGED <<jp, round>>
       \/ state = "enabled" /\ LeaveLoop(t, JpEnd(t), "command") /\ jp' = 0
    /\ UNCHANGED <<fixed, looping, request, g_response, mbim_err_cnt, device, pending, history>>

\* A query without an answer, and the answer to at*bjpfccautoreboot=1, whatever it is.
NextJp(t) ==
    /\ \/ phase[t] \in {"getjp", "setjp"} /\ Unanswered(t)
       \/ phase[t] = "setjp" /\ Answered(t)
    /\ NextRound(t, "getjp", JpEnd(t), "command")
    /\ UNCHANGED <<fixed, jp, looping, request, g_response, mbim_err_cnt, device,
                   pending, history>>

\* The OEM PRI state, read after five seconds without a wait.  An empty buffer is
\* OEM_PRI_UPDATE_START.
ReadOem(state) ==
    /\ pc["msg"] = "sleep"
    /\ ~Busy("msg")
    /\ g_response = None => state = "start"
    /\ \/ state = "start" /\ NextRound("msg", "oem", "request", "reset")
       \/ state = "noreset" /\ LeaveLoop("msg", "request", "reset")
       \/ state = "reset" /\ LeaveLoop("msg", "request", "prireset")
    /\ UNCHANGED <<fixed, jp, looping, request, g_response, mbim_err_cnt, mutex, device,
                   pending, history>>

\* wait_for_modem_oem_pri_reset: until the reset is reported done.
ReadPriReset(done) ==
    /\ phase["msg"] = "prireset"
    /\ \/ Answered("msg") /\ (done => g_response # None)
       \/ Unanswered("msg") /\ ~done
    /\ IF done THEN LeaveLoop("msg", "request", "reset")
       ELSE NextRound("msg", "prireset", "request", "reset")
    /\ UNCHANGED <<fixed, jp, looping, request, g_response, mbim_err_cnt, device, pending, history>>

\* at*breset, until it is answered; then the service restarts.
ResetSent ==
    /\ phase["msg"] = "reset"
    /\ \/ Answered("msg") /\ LeaveLoop("msg", "exit", "reset")
       \/ Unanswered("msg") /\ NextRound("msg", "reset", "exit", "reset")
    /\ UNCHANGED <<fixed, jp, looping, request, g_response, mbim_err_cnt, device, pending, history>>

-------------------------------------------------------------------------------
CommandStep(t) ==
    \/ Request(t)
    \/ CheckOk(t)
    \/ Close(t)
    \/ \E found \in BOOLEAN : Reopen(t, found)
    \/ StartWait(t)
    \/ CondWait(t)
    \/ MbimInit(t)
    \/ \E state \in {"error", "disabled", "enabled"} : ReadJp(t, state)
    \/ NextJp(t)
    \/ Exit(t)

MessageThread ==
    \/ \E m \in Requests : Receive(m)
    \/ \E good \in BOOLEAN : RequestOverChannel(good)
    \/ CommandAnswered
    \/ CommandTimesOut
    \/ Reply
    \/ ReplyCrashes
    \/ \E state \in {"start", "noreset", "reset"} : ReadOem(state)
    \/ \E done \in BOOLEAN : ReadPriReset(done)
    \/ ResetSent
    \/ CommandStep("msg")

StartThread ==
    \/ Begin
    \/ RecoveryDone
    \/ CommandStep("start")

Outcomes == {"text", "refusal", "ERROR", "QUERY ERROR"}

Libmbim ==
    \/ \E outcome \in Outcomes : AtRespCb(outcome)
    \/ \E good \in BOOLEAN : DeviceNewCb(good) \/ DeviceOpenCb(good)

Next ==
    \/ RunMainLoop
    \/ MessageThread
    \/ StartThread
    \/ Libmbim
    \/ RecoveryNotice

Spec == Init /\ [][Next]_vars

\* The scheduler runs every thread that can go on, libmbim answers, and the other
\* services go on asking for versions.
FairSpec ==
    /\ Spec
    /\ WF_vars(RunMainLoop)
    /\ SF_vars(MessageThread)
    /\ SF_vars(StartThread)
    /\ WF_vars(\E outcome \in Outcomes : AtRespCb(outcome))
    /\ WF_vars(\E good \in BOOLEAN : DeviceNewCb(good))
    /\ WF_vars(\E good \in BOOLEAN : DeviceOpenCb(good))
    /\ SF_vars(Receive("version"))

-------------------------------------------------------------------------------
(* Properties.                                                              *)

\* The shape of the state: the JP FCC count of fw_update_status never passes its
\* threshold, over all restarts of the service.
TypeOK ==
    /\ g_device_type \in {"usb", "pcie"} /\ g_at_intf \in {"mbim", "channel"}
    /\ jp \in 0..JpTH
    /\ looping \in BOOLEAN
    /\ pc \in [Threads -> Labels]
    /\ phase \in [Threads -> Phases]
    /\ round \in [Threads -> Nat]
    /\ cid \in Requests \cup {None}
    /\ status \in {"OK", "ERROR", "TIMEOUT"}
    /\ g_response \in Commands \cup {None}
    /\ mbim_err_cnt \in 0..ErrMax
    /\ mutex \in Threads \cup {None, "left"}
    /\ g_device \in {"null", "new", "open", "failed"}
    /\ creating \in 0..MaxNew
    /\ pending \in Seq([by : Threads, cmd : Commands, open : BOOLEAN])
    /\ started \in BOOLEAN /\ mixed \in BOOLEAN
    /\ faults \in 0..MaxFaults[g_device_type] /\ asks \in 0..MaxRestarts

\* A reply that says OK carries the answer to its own command, or nothing, in spite of
\* timeouts, missed signals, refusals and the reopening of the device - as long as no
\* other user of g_cond and g_response gets into a request.
ReplyIsOwn ==
    pc["msg"] = "reply" /\ phase["msg"] = "command" /\ cid \in AtRequests /\ status = "OK" /\ ~mixed =>
        g_response \in {None, cid}

\* The error count is back under its limit when the message thread takes the next
\* request, unless a second thread sends commands meanwhile.
ErrorsHandled ==
    ~mixed /\ pc["msg"] = "receive" /\ (g_device_type = "pcie" \/ pc["start"] \in {"none", "begin", "end"}) =>
        mbim_err_cnt < ErrMax

\* Every request comes to its reply, or to the restart it asks for, unless a cond_wait
\* that timed out has left g_mutex locked.
RequestEnds == pc["msg"] # "receive" ~> pc["msg"] = "receive" \/ mutex = "left"

\* The service reports its start, over all the restarts the JP FCC configuration takes,
\* with the same exception.
Starts == ~started ~> started \/ mutex = "left"

\* When nothing goes wrong any more a request for the version succeeds again and
\* again: the device is reopened as often as it takes.  Except after another user of
\* g_cond got in: then every reply can carry the answer to the request before it.
Recovers ==
    \/ []<>(pc["msg"] = "reply" /\ cid = "version" /\ status = "OK" /\ g_response = "version")
    \/ <>[](mutex = "left" \/ mixed)

\* What the message of recovery_wait_thread_func promises: after a timeout of the
\* recovery wait the service goes on, and every request comes to its end.
RequestEndsAfterTimeout == pc["msg"] # "receive" ~> pc["msg"] = "receive"
===============================================================================
