------------------------------ MODULE Madpt_proofs ------------------------------
(***************************************************************************)
(* For every limit and every number of faults: a reply of pwl_madpt that   *)
(* says OK carries the answer to its own command, and its error count is   *)
(* under its limit when it takes the next request, as long as no other     *)
(* user of g_cond and g_response gets into a request.                      *)
(***************************************************************************)
EXTENDS Madpt, TLAPS

Entry == [by : Threads, cmd : Commands, open : BOOLEAN]

\* Which request the message thread handles, by what it is doing.
PhaseInv ==
    /\ pc \in [Threads -> Labels]
    /\ phase \in [Threads -> Phases]
    /\ cid \in Requests \cup {None}
    /\ pending \in Seq(Entry)
    /\ phase["msg"] # "recovery"
    /\ phase["msg"] \in {"getjp", "setjp"} => cid = "jp"
    /\ phase["msg"] \in {"open", "oem", "prireset", "reset"} => cid \in Restarts
    /\ pc["msg"] \in {"request", "lock", "wait", "signalled"} /\ phase["msg"] = "command" => cid \in AtRequests
    /\ pc["msg"] \in {"receive", "reply"} => phase["msg"] = "command"
    /\ pc["msg"] = "unlock" => phase["msg"] # "command"
    /\ pc["msg"] = "sleep" => phase["msg"] = "oem"
    /\ phase["start"] = "command" => pc["start"] \in {"none", "begin", "end", "exit"}

\* Where the message thread can be while a command of its own is with libmbim.
Awaits ==
    IF phase["msg"] = "command" THEN pc["msg"] \in {"lock", "wait"}
    ELSE pc["msg"] \in {"check", "close", "unlock", "wait", "sleep"}

\* libmbim holds at most one command of the message thread, the one that it handles;
\* a signal has come for that command; and the buffer holds its answer or nothing.
Own ==
    /\ \A i \in 1..Len(pending) : pending[i].by = "msg" =>
          /\ Awaits
          /\ phase["msg"] = "command" => pending[i].cmd = cid
          /\ \A j \in 1..Len(pending) : pending[j].by = "msg" => j = i
    /\ phase["msg"] = "command" /\ pc["msg"] # "receive" /\ cid \in AtRequests =>
          g_response \in {None, cid}
OwnInv == ~mixed => Own

Inv == PhaseInv /\ OwnInv

\* A new process has no request and no command.
LEMMA InitInv == Init => Inv
  BY DEF Init, Inv, PhaseInv, OwnInv, Own, Awaits, Threads, Labels, Phases, Loops, Requests

LEMMA BootInv == Boot => Inv'
  BY DEF Boot, Inv, PhaseInv, OwnInv, Own, Awaits, Threads, Labels, Phases, Loops, Requests

\* A callback takes the oldest command away, lets at most one waiting thread go on and
\* changes the buffer to the answer to that command at most.
LEMMA AtRespCbStep ==
    ASSUME NEW outcome \in Outcomes, AtRespCb(outcome), Head(pending).by \in Threads
    PROVE  /\ pending # <<>> /\ pending' = Tail(pending)
           /\ UNCHANGED <<phase, cid>>
           /\ \/ UNCHANGED pc
              \/ \E t \in Threads : pc[t] = "wait" /\ pc' = [pc EXCEPT ![t] = "signalled"]
           /\ g_response' = g_response \/ g_response' = Head(pending).cmd
           /\ ~mixed' => ~mixed /\ (Head(pending).by = "msg" \/ pc["msg"] = "receive")
<1>1. /\ pending # <<>> /\ pending' = Tail(pending)
      /\ UNCHANGED <<phase, cid>>
  BY DEF AtRespCb, request
<1>2. ~mixed' => ~mixed /\ (Head(pending).by = "msg" \/ pc["msg"] = "receive")
  BY DEF AtRespCb
<1>3. g_response' = g_response \/ g_response' = Head(pending).cmd
  BY DEF AtRespCb
<1>4. \A for \in Threads : Signal(for) => \/ UNCHANGED pc
                            \/ \E t \in Threads : pc[t] = "wait" /\ pc' = [pc EXCEPT ![t] = "signalled"]
  BY DEF Signal, SignalOne, Goto
<1>5. QED
  BY <1>1, <1>2, <1>3, <1>4 DEF AtRespCb, SignalOne, Goto

\* A callback keeps the invariant: it removes the one command of the message thread, or
\* the message thread has none.
LEMMA AtRespCbInv ==
    ASSUME Inv, NEW outcome \in Outcomes, AtRespCb(outcome) PROVE Inv'
<1>1. pending \in Seq(Entry)
  BY DEF Inv, PhaseInv
<1>2. pending # <<>> /\ pending' = Tail(pending)
  BY DEF AtRespCb
<1>3. /\ pending' \in Seq(Entry) /\ Head(pending) \in Entry
      /\ 1 \in 1..Len(pending) /\ Head(pending) = pending[1]
      /\ \A i \in 1..Len(pending') : i + 1 \in 1..Len(pending) /\ pending'[i] = pending[i + 1]
  BY <1>1, <1>2
<1>4. Head(pending).by \in Threads
  BY <1>3 DEF Entry
<1>5. /\ UNCHANGED <<phase, cid>>
      /\ \/ UNCHANGED pc
         \/ \E t \in Threads : pc[t] = "wait" /\ pc' = [pc EXCEPT ![t] = "signalled"]
      /\ g_response' = g_response \/ g_response' = Head(pending).cmd
      /\ ~mixed' => ~mixed /\ (Head(pending).by = "msg" \/ pc["msg"] = "receive")
  BY <1>4, AtRespCbStep
<1>6. PhaseInv'
  BY <1>3, <1>5 DEF Inv, PhaseInv, Threads, Labels
<1>7. ASSUME ~mixed' PROVE Own'
  <2>1. Own
    BY <1>5, <1>7 DEF Inv, OwnInv
  <2>2. CASE Head(pending).by = "msg"
    <3>1. \A i \in 1..Len(pending') : pending'[i].by # "msg"
      BY <1>3, <2>1, <2>2 DEF Own
    <3>2. Awaits /\ (phase["msg"] = "command" => Head(pending).cmd = cid)
      BY <1>3, <2>1, <2>2 DEF Own
    <3>3. pc["msg"] # "receive"
      BY <3>2 DEF Awaits
    <3>4. QED
      BY <3>1, <3>2, <3>3, <2>1, <1>5 DEF Own
  <2>3. CASE Head(pending).by # "msg" /\ pc["msg"] = "receive"
    <3>1. pc'["msg"] = "receive"
      BY <2>3, <1>5 DEF Inv, PhaseInv, Threads
    <3>2. \A i \in 1..Len(pending) : pending[i].by # "msg"
      BY <2>1, <2>3 DEF Own, Awaits
    <3>3. QED
      BY <1>3, <3>1, <3>2 DEF Own
  <2>4. QED
    BY <1>5, <1>7, <2>2, <2>3
<1>8. QED
  BY <1>6, <1>7 DEF Inv, OwnInv

\* Every step keeps the invariant.
LEMMA StepInv == Inv /\ [Next]_vars => Inv'
<1> SUFFICES ASSUME Inv, [Next]_vars PROVE Inv'
  OBVIOUS
<1> USE DEF Inv, PhaseInv, OwnInv, Own, Awaits, Goto, Enter, Threads, Labels, Phases, Loops,
            Requests, AtRequests, Restarts, request, history
<1>1. ASSUME NEW m \in Requests, Receive(m) PROVE Inv'
  BY <1>1 DEF Receive, Take, DeviceRequests
<1>2. ASSUME NEW good \in BOOLEAN, RequestOverChannel(good) PROVE Inv'
  BY <1>2 DEF RequestOverChannel
<1>3. CASE CommandAnswered
  BY <1>3 DEF CommandAnswered, Answered
<1>4. CASE CommandTimesOut
  BY <1>4 DEF CommandTimesOut, TimesOut, CountTimeOut, Busy
<1>5. CASE Reply
  BY <1>5 DEF Reply
<1>6. CASE ReplyCrashes
  BY <1>6, BootInv DEF ReplyCrashes
<1>7. ASSUME NEW state \in {"start", "noreset", "reset"}, ReadOem(state) PROVE Inv'
  BY <1>7 DEF ReadOem, Busy, NextRound, LeaveLoop
<1>8. ASSUME NEW done \in BOOLEAN, ReadPriReset(done) PROVE Inv'
  BY <1>8 DEF ReadPriReset, Answered, Unanswered, TimesOut, Busy, NextRound, LeaveLoop
<1>9. CASE ResetSent
  BY <1>9 DEF ResetSent, Answered, Unanswered, TimesOut, Busy, NextRound, LeaveLoop
<1>10. ASSUME NEW t \in Threads, Request(t) PROVE Inv'
  <2> DEFINE e == [by |-> t, cmd |-> Command(t), open |-> g_device = "open"]
  <2>1. e \in Entry
    BY <1>10 DEF Request, Command, Entry, Commands
  <2>2. \/ pending' = pending
        \/ /\ Len(pending') = Len(pending) + 1
           /\ \A i \in 1..Len(pending) : pending'[i] = pending[i]
           /\ pending'[Len(pending) + 1] = e
    BY <1>10, <2>1 DEF Request
  <2>3. pending' \in Seq(Entry)
    BY <1>10, <2>1 DEF Request
  <2>4. PhaseInv'
    BY <1>10, <2>3 DEF Request
  <2>5. \A i \in 1..Len(pending) : t = "msg" /\ ~mixed => pending[i].by # "msg"
    BY <1>10 DEF Request
  <2>6. OwnInv'
    BY <1>10, <2>2, <2>5 DEF Request, Command
  <2>7. QED
    BY <2>4, <2>6
<1>11. ASSUME NEW t \in Threads, CheckOk(t) PROVE Inv'
  BY <1>11 DEF CheckOk, AfterCheck
<1>12. ASSUME NEW t \in Threads, Close(t) PROVE Inv'
  BY <1>12 DEF Close
<1>13. ASSUME NEW t \in Threads, NEW found \in BOOLEAN, Reopen(t, found) PROVE Inv'
  BY <1>13 DEF Reopen, ReopenWith, AfterCheck
<1>14. ASSUME NEW t \in Threads, StartWait(t) PROVE Inv'
  BY <1>14 DEF StartWait
<1>15. ASSUME NEW t \in Threads, CondWait(t) PROVE Inv'
  BY <1>15 DEF CondWait
<1>16. ASSUME NEW t \in Threads, MbimInit(t) PROVE Inv'
  BY <1>16 DEF MbimInit
<1>17. ASSUME NEW t \in Threads, NEW state \in {"error", "disabled", "enabled"}, ReadJp(t, state)
       PROVE Inv'
  BY <1>17 DEF ReadJp, Answered, NextRound, LeaveLoop, JpEnd
<1>18. ASSUME NEW t \in Threads, NextJp(t) PROVE Inv'
  BY <1>18 DEF NextJp, Answered, Unanswered, TimesOut, Busy, NextRound, JpEnd
<1>19. ASSUME NEW t \in Threads, Exit(t) PROVE Inv'
  BY <1>19, BootInv DEF Exit
<1>20. CASE Begin
  BY <1>20 DEF Begin, BeginWith
<1>21. CASE RecoveryDone
  BY <1>21 DEF RecoveryDone, Answered, Unanswered, TimesOut
<1>22. ASSUME NEW outcome \in Outcomes, AtRespCb(outcome) PROVE Inv'
  BY <1>22, AtRespCbInv DEF Inv
<1>23. ASSUME NEW good \in BOOLEAN, DeviceNewCb(good) \/ DeviceOpenCb(good) PROVE Inv'
  BY <1>23 DEF DeviceNewCb, DeviceOpenCb, threads, request
<1>24. CASE RecoveryNotice
  BY <1>24 DEF RecoveryNotice, SignalOne
<1>25. CASE RunMainLoop
  BY <1>25 DEF RunMainLoop
<1>26. CASE UNCHANGED vars
  BY <1>26 DEF vars, threads, request, history
<1>27. QED
  BY <1>1, <1>2, <1>3, <1>4, <1>5, <1>6, <1>7, <1>8, <1>9, <1>10, <1>11, <1>12, <1>13, <1>14,
     <1>15, <1>16, <1>17, <1>18, <1>19, <1>20, <1>21, <1>22, <1>23, <1>24, <1>25, <1>26
  DEF Next, MessageThread, StartThread, CommandStep, Libmbim

\* The answer that pwl_madpt returns with status OK is never another command's, whatever
\* times out and however often the device is reopened.
THEOREM RepliesAreOwn == Spec => []ReplyIsOwn
<1>1. Inv => ReplyIsOwn
  BY DEF Inv, OwnInv, Own, ReplyIsOwn
<1>2. QED
  BY InitInv, StepInv, <1>1, PTL DEF Spec

-------------------------------------------------------------------------------
(* The shape of the state.                                                  *)

\* The counters, within their limits and bounds.
CountType ==
    /\ g_device_type \in {"usb", "pcie"} /\ g_at_intf \in {"mbim", "channel"}
    /\ jp \in 0..JpTH
    /\ mbim_err_cnt \in 0..ErrMax
    /\ creating \in 0..MaxNew
    /\ faults \in 0..MaxFaults[g_device_type] /\ asks \in 0..MaxRestarts
    /\ round \in [Threads -> Nat]

\* The other variables that PhaseInv says nothing of.
OtherType ==
    /\ looping \in BOOLEAN /\ started \in BOOLEAN /\ mixed \in BOOLEAN
    /\ status \in {"OK", "ERROR", "TIMEOUT"}
    /\ g_response \in Commands \cup {None}
    /\ mutex \in Threads \cup {None, "left"}
    /\ g_device \in {"null", "new", "open", "failed"}

\* A start, first or not, is within the limits.
LEMMA InitType == Init => CountType /\ OtherType
<1> SUFFICES ASSUME Init PROVE CountType /\ OtherType
  OBVIOUS
<1>1. MaxFaults[g_device_type] \in Nat
  BY ConstantsAssumption DEF Init
<1>2. round \in [Threads -> Nat]
  BY DEF Init, Threads
<1>3. /\ g_device_type \in {"usb", "pcie"} /\ g_at_intf \in {"mbim", "channel"}
      /\ creating \in {0, 1} /\ jp \in {0, 1} /\ asks = jp /\ jp <= MaxRestarts
      /\ mbim_err_cnt = 0 /\ faults = 0
  BY Zenon DEF Init
<1>4. CountType
  BY <1>1, <1>2, <1>3, ConstantsAssumption DEF CountType
<1>5. OtherType
  BY DEF Init, OtherType
<1>6. QED
  BY <1>4, <1>5

\* Every step counts within its limit.
LEMMA CountTypeStep == PhaseInv /\ CountType /\ [Next]_vars => CountType'
<1> SUFFICES ASSUME PhaseInv, CountType, [Next]_vars PROVE CountType'
  OBVIOUS
<1> USE DEF MessageThread, Receive, Take, RequestOverChannel, CommandAnswered, CommandTimesOut,
    CountTimeOut, Reply, ReplyCrashes, ReadOem, ReadPriReset, ResetSent, CommandStep, Request,
    CheckOk, Close, Reopen, ReopenWith, StartWait, CondWait, MbimInit, ReadJp, NextJp, Exit,
    StartThread, Begin, BeginWith, RecoveryDone, Libmbim, AtRespCb, DeviceNewCb, DeviceOpenCb,
    RunMainLoop, RecoveryNotice, Boot
<1>1. UNCHANGED fixed
  BY Zenon DEF Next, vars
<1>2. \/ UNCHANGED jp
      \/ jp \in 1..(JpTH - 1) /\ jp' = jp + 1
      \/ jp' = 0
  BY Zenon DEF Next, vars
<1>3. \/ UNCHANGED mbim_err_cnt
      \/ mbim_err_cnt' = 0
      \/ mbim_err_cnt' = OneMore
      \/ mbim_err_cnt' = ErrMax
  BY Zenon DEF Next, vars
<1>4. \/ UNCHANGED creating
      \/ creating' = creating + 1 /\ creating' <= MaxNew
      \/ creating' = creating + 1 /\ creating < MaxNew
      \/ creating' = creating - 1 /\ creating > 0
      \/ creating' \in {0, 1}
  BY Zenon DEF Next, vars, device
<1>5. (faults < MaxFaults[g_device_type] /\ faults' = faults + 1) \/ UNCHANGED faults
  BY Zenon DEF Next, vars, history, Fault, Signal
<1>6. (asks < MaxRestarts /\ asks' = asks + 1) \/ UNCHANGED asks
  BY Zenon DEF Next, vars, history
<1>7. round' \in [Threads -> Nat]
  <2>1. \/ UNCHANGED round
        \/ \E t \in Threads : round' \in {[round EXCEPT ![t] = @ + 1], [round EXCEPT ![t] = 0]}
        \/ round' = [t \in Threads |-> 0]
    <3>1. ASSUME NEW t \in Threads, NEW loop, NEW label, NEW p, NextRound(t, loop, label, p)
          PROVE  round' \in {[round EXCEPT ![t] = @ + 1], [round EXCEPT ![t] = 0]}
      BY <3>1 DEF NextRound, CountType
    <3>2. ASSUME NEW t \in Threads, NEW label, NEW p, LeaveLoop(t, label, p)
          PROVE  round' = [round EXCEPT ![t] = 0]
      BY <3>2 DEF LeaveLoop
    <3>3. "msg" \in Threads /\ "start" \in Threads
      BY DEF Threads
    <3>4. QED
      BY <3>1, <3>2, <3>3, Zenon DEF Next, vars, threads
  <2>2. QED
    BY <2>1 DEF CountType
<1>8. MaxFaults[g_device_type] \in Nat
  BY ConstantsAssumption DEF CountType
<1>9. QED
  BY <1>1, <1>2, <1>3, <1>4, <1>5, <1>6, <1>7, <1>8, ConstantsAssumption
  DEF CountType, OneMore, fixed

\* The buffer of g_response holds the answer to a command, or nothing.
LEMMA OtherTypeStep == PhaseInv /\ OtherType /\ [Next]_vars => OtherType'
<1> SUFFICES ASSUME PhaseInv, OtherType, [Next]_vars PROVE OtherType'
  OBVIOUS
<1> USE DEF MessageThread, Receive, Take, RequestOverChannel, CommandAnswered, CommandTimesOut,
    CountTimeOut, Reply, ReplyCrashes, ReadOem, ReadPriReset, ResetSent, CommandStep, Request,
    CheckOk, Close, Reopen, ReopenWith, StartWait, CondWait, MbimInit, ReadJp, NextJp, Exit,
    StartThread, Begin, BeginWith, RecoveryDone, Libmbim, AtRespCb, DeviceNewCb, DeviceOpenCb,
    RunMainLoop, RecoveryNotice, Boot
<1>1. looping' \in BOOLEAN /\ started' \in BOOLEAN /\ mixed' \in BOOLEAN
  BY Zenon DEF Next, vars, history, OtherType
<1>2. status' \in {status, "OK", "ERROR", "TIMEOUT"}
  BY Zenon DEF Next, vars, request
<1>3. mutex' \in {mutex, None, "left"}
  BY Zenon DEF Next, vars, Answered, Unanswered
<1>4. g_device' \in {g_device, "null", "new", "open", "failed"}
  BY Zenon DEF Next, vars, device
<1>5. \/ g_response' \in {g_response, None}
      \/ pc["msg"] = "request" /\ phase["msg"] = "command" /\ g_response' = cid
      \/ pending # <<>> /\ g_response' = Head(pending).cmd
  BY Zenon DEF Next, vars
<1>6. g_response' \in Commands \cup {None}
  <2>1. CASE pc["msg"] = "request" /\ phase["msg"] = "command" /\ g_response' = cid
    BY <2>1 DEF PhaseInv, Commands
  <2>2. CASE pending # <<>> /\ g_response' = Head(pending).cmd
    <3>1. Head(pending) \in Entry
      BY <2>2 DEF PhaseInv
    <3>2. QED
      BY <2>2, <3>1 DEF Entry
  <2>3. QED
    BY <1>5, <2>1, <2>2 DEF OtherType
<1>7. QED
  BY <1>1, <1>2, <1>3, <1>4, <1>6 DEF OtherType

\* All variables keep their types, over all restarts of the service; the count of the
\* JP FCC configuration never passes its threshold.
THEOREM TypeCorrect == Spec => []TypeOK
<1> DEFINE TypeInv == Inv /\ CountType /\ OtherType
<1>1. Init => TypeInv
  BY InitInv, InitType
<1>2. TypeInv /\ [Next]_vars => TypeInv'
  <2> SUFFICES ASSUME TypeInv, [Next]_vars PROVE TypeInv'
    OBVIOUS
  <2>1. Inv'
    BY StepInv
  <2>2. CountType' /\ OtherType'
    BY CountTypeStep, OtherTypeStep DEF Inv
  <2>3. QED
    BY <2>1, <2>2
<1>3. TypeInv => TypeOK
  BY DEF Inv, PhaseInv, CountType, OtherType, TypeOK, Entry
<1> HIDE DEF TypeInv
<1>4. QED
  BY <1>1, <1>2, <1>3, PTL DEF Spec

-------------------------------------------------------------------------------
(* The error count.                                                         *)


\* What the type of the module decides: on PCIE the second thread only waits for the
\* notice, and the message thread only runs AT commands; the AT channel needs no
\* libmbim; the second thread begins with the main loop.
DeviceInv ==
    /\ g_at_intf = "channel" => g_device_type = "pcie"
    /\ g_device_type = "pcie" =>
          /\ phase["msg"] = "command" /\ cid \in AtRequests \cup {None}
          /\ pc["start"] \in {"none", "begin", "unlock", "wait", "signalled", "end"}
          /\ phase["start"] \in {"command", "recovery"}
    /\ phase["start"] = "recovery" => g_device_type = "pcie"
    /\ looping = FALSE => pc["start"] = "none"
    /\ g_at_intf = "channel" =>
          /\ pending = <<>>
          /\ mbim_err_cnt = 0
          /\ pc["msg"] \in {"receive", "request", "reply"}

\* The second thread sends no commands.
StartIdle == g_device_type = "pcie" \/ pc["start"] \in {"none", "begin", "end"}

\* The error count is under its limit from the end of a check to the next request, as
\* long as the second thread has no command with libmbim.
HandledInv ==
    StartIdle =>
        /\ \A i \in 1..Len(pending) : pending[i].by # "start"
        /\ ~mixed /\ pc["msg"] \in {"receive", "reply"} => mbim_err_cnt < ErrMax

\* A new process has no errors, and the second thread has not begun.
LEMMA InitHandled == Init => DeviceInv /\ HandledInv
<1> SUFFICES ASSUME Init PROVE DeviceInv /\ HandledInv
  OBVIOUS
<1>1. DeviceInv
  BY DEF Init, DeviceInv, Threads
<1>2. HandledInv
  BY ConstantsAssumption DEF Init, HandledInv
<1>3. QED
  BY <1>1, <1>2

LEMMA BootHandled == DeviceInv /\ UNCHANGED fixed /\ Boot => DeviceInv' /\ HandledInv'
<1> SUFFICES ASSUME DeviceInv, UNCHANGED fixed, Boot PROVE DeviceInv' /\ HandledInv'
  OBVIOUS
<1>1. DeviceInv'
  BY DEF Boot, DeviceInv, Threads, fixed
<1>2. HandledInv'
  BY ConstantsAssumption DEF Boot, HandledInv
<1>3. QED
  BY <1>1, <1>2

\* A callback counts an error only while the message thread, or the second thread,
\* has a command with libmbim.
LEMMA CallbackHandled ==
    ASSUME Inv, CountType, DeviceInv, HandledInv, NEW outcome \in Outcomes, AtRespCb(outcome)
    PROVE  DeviceInv' /\ HandledInv'
<1>1. /\ pending \in Seq(Entry) /\ pending # <<>> /\ pending' = Tail(pending)
      /\ UNCHANGED <<g_device_type, g_at_intf, looping>>
  BY DEF Inv, PhaseInv, AtRespCb, fixed
<1>2. /\ Head(pending) \in Entry
      /\ 1 \in 1..Len(pending) /\ Head(pending) = pending[1]
      /\ \A i \in 1..Len(pending') : i + 1 \in 1..Len(pending) /\ pending'[i] = pending[i + 1]
  BY <1>1
<1>3. /\ UNCHANGED <<phase, cid>>
      /\ \/ UNCHANGED pc
         \/ \E t \in Threads : pc[t] = "wait" /\ pc' = [pc EXCEPT ![t] = "signalled"]
      /\ ~mixed' => ~mixed
  BY <1>2, AtRespCbStep DEF Entry
<1>4. /\ pc'["msg"] \in {pc["msg"], "signalled"}
      /\ pc'["start"] = pc["start"] \/ (pc["start"] = "wait" /\ pc'["start"] = "signalled")
  BY <1>3 DEF Inv, PhaseInv, Threads
<1>5. DeviceInv'
  BY <1>1, <1>3, <1>4 DEF DeviceInv
<1>6. ASSUME StartIdle' PROVE StartIdle /\ Head(pending).by = "msg"
  <2>1. StartIdle
    BY <1>1, <1>4, <1>6 DEF StartIdle
  <2>2. Head(pending).by \in {"msg", "start"}
    BY <1>2 DEF Entry, Threads
  <2>3. QED
    BY <1>2, <2>1, <2>2 DEF HandledInv
<1>7. ASSUME StartIdle', ~mixed', pc'["msg"] \in {"receive", "reply"} PROVE FALSE
  <2>1. Own /\ Head(pending).by = "msg"
    BY <1>3, <1>6, <1>7 DEF Inv, OwnInv
  <2>2. Awaits
    BY <1>2, <2>1 DEF Own
  <2>3. QED
    BY <1>4, <1>7, <2>2 DEF Awaits
<1>8. StartIdle' => \A i \in 1..Len(pending') : pending'[i].by # "start"
  BY <1>2, <1>6 DEF HandledInv
<1>9. QED
  BY <1>5, <1>7, <1>8 DEF HandledInv

\* Every step keeps what the type of the module decides, and the error count handled.
LEMMA HandledStep ==
    Inv /\ CountType /\ DeviceInv /\ HandledInv /\ [Next]_vars => DeviceInv' /\ HandledInv'
<1> SUFFICES ASSUME Inv, CountType, DeviceInv, HandledInv, [Next]_vars
             PROVE  DeviceInv' /\ HandledInv'
  OBVIOUS
<1>0. 0 < ErrMax /\ ErrMax \in Nat
  BY ConstantsAssumption
<1> USE <1>0 DEF Inv, PhaseInv, DeviceInv, HandledInv, StartIdle, Goto, Enter, Threads,
            Labels, Requests, AtRequests, Restarts, request, history, fixed
<1>1. ASSUME NEW m \in Requests, Receive(m) PROVE DeviceInv' /\ HandledInv'
  BY <1>1 DEF Receive, Take, DeviceRequests
<1>2. ASSUME NEW good \in BOOLEAN, RequestOverChannel(good) PROVE DeviceInv' /\ HandledInv'
  BY <1>2 DEF RequestOverChannel
<1>3. CASE CommandAnswered
  BY <1>3 DEF CommandAnswered, Answered
<1>4. CASE CommandTimesOut
  BY <1>4 DEF CommandTimesOut, TimesOut, CountTimeOut
<1>5. CASE Reply
  BY <1>5 DEF Reply
<1>6. CASE ReplyCrashes
  BY <1>6, BootHandled DEF ReplyCrashes
<1>7. ASSUME NEW state \in {"start", "noreset", "reset"}, ReadOem(state)
      PROVE  DeviceInv' /\ HandledInv'
  BY <1>7 DEF ReadOem, NextRound, LeaveLoop
<1>8. ASSUME NEW done \in BOOLEAN, ReadPriReset(done) PROVE DeviceInv' /\ HandledInv'
  BY <1>8 DEF ReadPriReset, Answered, Unanswered, TimesOut, NextRound, LeaveLoop
<1>9. CASE ResetSent
  BY <1>9 DEF ResetSent, Answered, Unanswered, TimesOut, NextRound, LeaveLoop
<1>10. ASSUME NEW t \in Threads, Request(t) PROVE DeviceInv' /\ HandledInv'
  <2> DEFINE e == [by |-> t, cmd |-> Command(t), open |-> g_device = "open"]
  <2>1. \/ pending' = pending
        \/ /\ Len(pending') = Len(pending) + 1
           /\ \A i \in 1..Len(pending) : pending'[i] = pending[i]
           /\ pending'[Len(pending) + 1] = e
    BY <1>10 DEF Request
  <2>2. g_at_intf # "channel" /\ UNCHANGED <<phase, mbim_err_cnt, mixed>>
    BY <1>10 DEF Request
  <2>3. pc["start"] # "request" => t = "msg"
    BY <1>10 DEF Request
  <2>4. t = "start" => ~StartIdle /\ ~StartIdle'
    BY <1>10 DEF Request
  <2>5. QED
    BY <1>10, <2>1, <2>2, <2>3, <2>4 DEF Request
<1>11. ASSUME NEW t \in Threads, CheckOk(t) PROVE DeviceInv' /\ HandledInv'
  BY <1>11 DEF CheckOk, AfterCheck
<1>12. ASSUME NEW t \in Threads, Close(t) PROVE DeviceInv' /\ HandledInv'
  BY <1>12 DEF Close
<1>13. ASSUME NEW t \in Threads, NEW found \in BOOLEAN, Reopen(t, found)
       PROVE  DeviceInv' /\ HandledInv'
  BY <1>13 DEF Reopen, ReopenWith, AfterCheck
<1>14. ASSUME NEW t \in Threads, StartWait(t) PROVE DeviceInv' /\ HandledInv'
  BY <1>14 DEF StartWait
<1>15. ASSUME NEW t \in Threads, CondWait(t) PROVE DeviceInv' /\ HandledInv'
  BY <1>15 DEF CondWait
<1>16. ASSUME NEW t \in Threads, MbimInit(t) PROVE DeviceInv' /\ HandledInv'
  <2>0. None \notin Restarts
    BY NoneAssumption
  <2>1. g_device_type # "pcie" /\ g_at_intf # "channel"
    BY <1>16, <2>0 DEF MbimInit
  <2>2. /\ UNCHANGED <<g_device_type, g_at_intf, looping, pending, mixed>> /\ mbim_err_cnt' = 0
        /\ \E label \in {"request", "exit"} : pc' = [pc EXCEPT ![t] = label]
        /\ phase'["start"] \in {phase["start"], "getjp"}
    BY <1>16 DEF MbimInit
  <2>3. pc'["start"] \in {"none", "begin", "end"} => pc["start"] \in {"none", "begin", "end"}
    BY <2>2
  <2>4. pc["start"] = "none" => pc'["start"] = "none"
    BY <1>16, <2>2 DEF MbimInit
  <2>5. QED
    BY <2>1, <2>2, <2>3, <2>4
<1>17. ASSUME NEW t \in Threads, NEW state \in {"error", "disabled", "enabled"}, ReadJp(t, state)
       PROVE  DeviceInv' /\ HandledInv'
  BY <1>17 DEF ReadJp, Answered, NextRound, LeaveLoop, JpEnd
<1>18. ASSUME NEW t \in Threads, NextJp(t) PROVE DeviceInv' /\ HandledInv'
  BY <1>18 DEF NextJp, Answered, Unanswered, TimesOut, NextRound, JpEnd
<1>19. ASSUME NEW t \in Threads, Exit(t) PROVE DeviceInv' /\ HandledInv'
  BY <1>19, BootHandled DEF Exit
<1>20. CASE Begin
  BY <1>20 DEF Begin, BeginWith
<1>21. CASE RecoveryDone
  BY <1>21 DEF RecoveryDone, Answered, Unanswered, TimesOut
<1>22. ASSUME NEW outcome \in Outcomes, AtRespCb(outcome) PROVE DeviceInv' /\ HandledInv'
  BY <1>22, CallbackHandled DEF Inv
<1>23. ASSUME NEW good \in BOOLEAN, DeviceNewCb(good) \/ DeviceOpenCb(good)
       PROVE  DeviceInv' /\ HandledInv'
  BY <1>23 DEF DeviceNewCb, DeviceOpenCb, threads
<1>24. CASE RecoveryNotice
  BY <1>24 DEF RecoveryNotice, SignalOne
<1>25. CASE RunMainLoop
  BY <1>25 DEF RunMainLoop
<1>26. CASE UNCHANGED vars
  BY <1>26 DEF vars, threads
<1>27. QED
  BY <1>1, <1>2, <1>3, <1>4, <1>5, <1>6, <1>7, <1>8, <1>9, <1>10, <1>11, <1>12, <1>13, <1>14,
     <1>15, <1>16, <1>17, <1>18, <1>19, <1>20, <1>21, <1>22, <1>23, <1>24, <1>25, <1>26
  DEF Next, MessageThread, StartThread, CommandStep, Libmbim

\* The error count is under its limit when pwl_madpt takes the next request: the device
\* was reopened, whatever timeouts, errors and restarts there were.
THEOREM ErrorsAreHandled == Spec => []ErrorsHandled
<1> DEFINE FullInv == Inv /\ CountType /\ DeviceInv /\ HandledInv
<1>1. Init => FullInv
  BY InitInv, InitType, InitHandled
<1>2. FullInv /\ [Next]_vars => FullInv'
  <2> SUFFICES ASSUME FullInv, [Next]_vars PROVE FullInv'
    OBVIOUS
  <2>1. Inv' /\ CountType'
    BY StepInv, CountTypeStep DEF Inv
  <2>2. QED
    BY <2>1, HandledStep
<1>3. FullInv => ErrorsHandled
  BY DEF HandledInv, StartIdle, ErrorsHandled
<1> HIDE DEF FullInv
<1>4. QED
  BY <1>1, <1>2, <1>3, PTL DEF Spec
=================================================================================
