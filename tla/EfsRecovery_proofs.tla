-------------------------- MODULE EfsRecovery_proofs --------------------------
(***************************************************************************)
(* Proofs about EfsRecovery: type correctness, and that a whole backup     *)
(* stays whole.                                                            *)
(***************************************************************************)
EXTENDS EfsRecovery, SequenceTheorems, TLAPS

\* Requests to pwl_pref that do not ask for a partial backup, and answers to
\* pwl_fwupdate that do not carry one.
GoodRequests ==
    {m \in Requests(Backups) : m.cid = "BACKUP_SN_IMEI" => m.content = Whole}
GoodAnswers ==
    {m \in [cid : Actions, status : Statuses, response : Ati] :
        m.cid = "GET_BACKUP_SN_IMEI" /\ m.status = "ok" => m.response = Text(Whole)}

\* main is in a call of post_message_queue_action.
InCall == pc \in {"enter", "send", "lock", "wait", "look"}

Types ==
    /\ TypeOK
    /\ pc = "download" => retry_count <= RetryTH

\* What goes to pwl_pref is whole because main only asks for a backup when both
\* globals are set, and nothing under way can clear one of them meanwhile.
KeepInv ==
    /\ pref \in Seq(GoodRequests)
    /\ inbox \in Seq(GoodAnswers)
    /\ InCall /\ action = "BACKUP_SN_IMEI" => g_sn = TRUE /\ g_imei = TRUE
    /\ backup \in {NoBackup, WholeBackup}
    /\ pref_pc = "write" => Head(pref).cid = "BACKUP_SN_IMEI"
    /\ IdentityKept

LEMMA Queues ==
    ASSUME NEW S, NEW q \in Seq(S)
    PROVE  /\ \A e \in S : Append(q, e) \in Seq(S) /\ Append(q, e) # <<>>
           /\ q # <<>> => Head(q) \in S /\ Tail(q) \in Seq(S)
           /\ <<>> \in Seq(S)
BY AppendProperties, HeadTailProperties, EmptySeq

LEMMA AppendHead ==
    ASSUME NEW S, NEW q \in Seq(S), NEW e, q # <<>>
    PROVE  Head(Append(q, e)) = Head(q)
OBVIOUS

-------------------------------------------------------------------------------
(* Types.                                                                   *)

\* What the queues may hold, by name.
Inbox  == [cid : Actions, status : Statuses, response : Ati]
ToMadpt == Requests((Actions \ Backups) \cup {"MADPT_RESTART"})

LEMMA NonePair == None \in Pair /\ Whole \in Pair /\ Unknown \in Ati
BY DEF None, Whole, Pair, Unknown, Ati

LEMMA RestartTyped == Restart \in ToMadpt
BY NonePair DEF Restart, Request, Requests, ToMadpt

\* The only request to pwl_madpt that asks for no AT command is the restart.
LEMMA RestartOnly ==
    \A m \in ToMadpt : m.cid = "MADPT_RESTART" \/ m.cid \in Actions
BY DEF ToMadpt, Requests

\* What Reborn leaves of a type-correct state.
RebornTyped ==
    /\ pc' \in Labels /\ pc' # "download"
    /\ action' \in Actions
    /\ tries' \in 0..MaxTries
    /\ signalled' \in BOOLEAN
    /\ g_ati_info' \in Ati
    /\ {g_sn', g_imei', efs_recovery_mode'} \subseteq BOOLEAN
    /\ status' \in [Actions -> Statuses \cup {"none"}]
    /\ inbox' \in Seq(Inbox)

LEMMA RebornTypes == Reborn => RebornTyped
<1> SUFFICES ASSUME Reborn PROVE RebornTyped
  OBVIOUS
<1>1. signalled' \in BOOLEAN /\ {g_sn', g_imei', efs_recovery_mode'} \subseteq BOOLEAN
  BY Zenon DEF Reborn
<1>2. inbox' \in Seq(Inbox)
  BY EmptySeq DEF Reborn
<1>3. status' \in [Actions -> Statuses \cup {"none"}]
  BY DEF Reborn
<1>4. QED
  BY <1>1, <1>2, <1>3, NonePair, ConstantsAssumption DEF Reborn, RebornTyped, Labels, Actions

LEMMA BackupTypes ==
    /\ NoBackup \in [there : BOOLEAN, line : Pair]
    /\ WholeBackup \in [there : BOOLEAN, line : Pair]
BY NonePair DEF NoBackup, WholeBackup

LEMMA TypesInit == Init => Types
<1> SUFFICES ASSUME Init PROVE Types
  OBVIOUS
<1>1. inbox = <<>> /\ madpt = <<>> /\ pref = <<>>
  BY DEF Init
<1>2. inbox \in Seq(Inbox) /\ madpt \in Seq(ToMadpt) /\ pref \in Seq(Requests(Backups))
  BY <1>1, EmptySeq
<1>3. backup \in [there : BOOLEAN, line : Pair] /\ module \in Pair
  BY BackupTypes, NonePair DEF Init
<1>4. /\ {g_sn, g_imei, efs_recovery_mode} \subseteq BOOLEAN
      /\ {madpt_up, zip, kept} \subseteq BOOLEAN
      /\ signalled \in BOOLEAN
  <2>1. kept \in BOOLEAN
    BY <1>3 DEF Init
  <2>2. QED
    BY <2>1, Zenon DEF Init
<1>5. status \in [Actions -> Statuses \cup {"none"}]
  BY DEF Init
<1>6. QED
  BY <1>2, <1>3, <1>4, <1>5, NonePair, ConstantsAssumption
  DEF Init, Types, TypeOK, Inbox, ToMadpt, Labels, Actions

\* main's steps that send nothing.
LEMMA TypesLocal ==
    ASSUME Types, EnterLoop \/ StartWait \/ TimeOut \/ OtherSignal \/ RoundFails
                  \/ StartCheck \/ SkipCheck \/ AtiReturned \/ BackupReturned \/ NoRecovery
                  \/ StartRecovery \/ SetupFails \/ DownloadFails \/ StartRestore
                  \/ RestoreReturned
    PROVE  Types'
<1> USE ConstantsAssumption
    DEF Types, TypeOK, memory, disk, prefs, madpts, Fault, NoFault, Labels, Post, MadptReported
<1>1. CASE EnterLoop
  <2>1. signalled' \in BOOLEAN
    BY <1>1, Zenon DEF EnterLoop
  <2>2. tries' \in 0..MaxTries /\ faults' \in 0..MaxFaults /\ pc' \in {"look", "send"}
    BY <1>1 DEF EnterLoop
  <2>3. QED
    BY <1>1, <2>1, <2>2 DEF EnterLoop
<1>2. CASE StartWait \/ TimeOut
  BY <1>2 DEF StartWait, TimeOut
<1>12. CASE OtherSignal
  <2>1. signalled' \in BOOLEAN
    BY <1>12, Zenon DEF OtherSignal
  <2>2. QED
    BY <1>12, <2>1 DEF OtherSignal
<1>3. CASE RoundFails
  BY <1>3 DEF RoundFails
<1>4. CASE StartCheck \/ SkipCheck \/ StartRestore
  BY <1>4 DEF StartCheck, SkipCheck, StartRestore, Actions, Restores
<1>5. CASE AtiReturned
  <2>1. g_sn \in BOOLEAN /\ g_imei \in BOOLEAN
    BY Zenon
  <2>2. \A shown : \A old \in BOOLEAN : ReadLine(shown, old) \subseteq BOOLEAN
    BY Zenon DEF ReadLine
  <2>3. /\ g_sn' \in BOOLEAN /\ g_imei' \in BOOLEAN
        /\ action' \in {action, "BACKUP_SN_IMEI", "GET_BACKUP_SN_IMEI"}
        /\ pc' \in {"enter", "update"}
    <3>1. CASE GotAti
      BY <2>1, <2>2, <3>1 DEF GotAti
    <3>2. CASE pc' = "update" /\ UNCHANGED <<action, g_sn, g_imei>>
      BY <2>1, <3>2
    <3>3. QED
      BY <1>5, <3>1, <3>2 DEF AtiReturned
  <2>4. QED
    BY <1>5, <2>3 DEF AtiReturned, Actions, Backups
<1>6. CASE BackupReturned
  BY <1>6 DEF BackupReturned
<1>7. CASE NoRecovery \/ StartRecovery
  BY <1>7 DEF NoRecovery, StartRecovery
<1>8. CASE SetupFails
  BY <1>8 DEF SetupFails
<1>9. CASE DownloadFails
  <2>1. module' \in Pair
    BY <1>9, NonePair DEF DownloadFails, AfterFlash
  <2>2. QED
    BY <1>9, <2>1 DEF DownloadFails
<1>10. CASE RestoreReturned
  BY <1>10 DEF RestoreReturned, Actions, Restores
<1>11. QED
  BY <1>1, <1>2, <1>3, <1>4, <1>5, <1>6, <1>7, <1>8, <1>9, <1>10, <1>12

\* main's steps that send a request.
LEMMA TypesSend ==
    ASSUME Types, SendRequest \/ Download \/ RestartServices
    PROVE  Types'
<1> USE ConstantsAssumption
    DEF Types, TypeOK, memory, disk, prefs, madpts, Labels
<1>1. CASE SendRequest
  <2> DEFINE r == Request(action, [sn |-> g_sn, imei |-> g_imei])
  <2>1. [sn |-> g_sn, imei |-> g_imei] \in Pair
    BY DEF Pair
  <2>2. action \in Backups => r \in Requests(Backups)
    BY <2>1 DEF Request, Requests
  <2>3. action \notin Backups => r \in ToMadpt
    BY <2>1 DEF Request, Requests, ToMadpt
  <2>4. /\ pref' \in Seq(Requests(Backups))
        /\ madpt' \in Seq(ToMadpt)
        /\ pref' = <<>> => pref = <<>>
    <3>1. CASE action \in Backups
      <4>1. Append(pref, r) \in Seq(Requests(Backups)) /\ Append(pref, r) # <<>>
        BY <2>2, <3>1, Queues
      <4>2. QED
        BY <1>1, <3>1, <4>1 DEF SendRequest, ToMadpt
    <3>2. CASE action \notin Backups
      <4>1. Append(madpt, r) \in Seq(ToMadpt)
        BY <2>3, <3>2, Queues DEF ToMadpt
      <4>2. QED
        BY <1>1, <3>2, <4>1 DEF SendRequest
    <3>3. QED
      BY <3>1, <3>2
  <2>5. signalled' \in BOOLEAN
    BY <1>1, Zenon DEF SendRequest
  <2>6. QED
    BY <1>1, <2>4, <2>5 DEF SendRequest, ToMadpt
<1>2. CASE Download
  <2>1. module' \in Pair
    BY <1>2, NonePair DEF Download, AfterFlash
  <2>2. madpt' \in Seq(ToMadpt)
    BY <1>2, RestartTyped, Queues DEF Download, ToMadpt
  <2>3. QED
    BY <1>2, <2>1, <2>2 DEF Download, ToMadpt
<1>3. CASE RestartServices
  <2>1. madpt' \in Seq(ToMadpt)
    BY <1>3, RestartTyped, Queues DEF RestartServices, ToMadpt
  <2>2. QED
    BY <1>3, <2>1, RebornTypes DEF RestartServices, ToMadpt, Inbox, RebornTyped
<1>4. QED
  BY <1>1, <1>2, <1>3

\* The message thread and the other services.
LEMMA TypesServices ==
    ASSUME Types, TakeAnswer \/ MadptStep \/ PrefStep
    PROVE  Types'
<1> USE ConstantsAssumption
    DEF Types, TypeOK, memory, disk, prefs, madpts, Labels, Fault, NoFault
<1>1. CASE TakeAnswer
  <2>1. Head(inbox) \in Inbox /\ inbox' \in Seq(Inbox)
    BY <1>1, Queues DEF TakeAnswer, Inbox
  <2>2. /\ status' \in [Actions -> Statuses \cup {"none"}]
        /\ g_ati_info' \in Ati
    BY <1>1, <2>1 DEF TakeAnswer, Store, Inbox
  <2>3. g_sn' \in BOOLEAN /\ g_imei' \in BOOLEAN
    BY <1>1, <2>1 DEF TakeAnswer, Store, Inbox, Ati
  <2>4. signalled' \in BOOLEAN
    BY <1>1, Zenon DEF TakeAnswer
  <2>5. pc' \in Labels /\ faults' \in 0..MaxFaults /\ (pc' # "download" \/ pc' = pc)
    BY <1>1 DEF TakeAnswer
  <2>6. QED
    BY <1>1, <2>1, <2>2, <2>3, <2>4, <2>5 DEF TakeAnswer, Inbox
<1>2. CASE MadptAnswers
  <2>1. Head(madpt) \in ToMadpt /\ Head(madpt).cid \in Actions /\ madpt' \in Seq(ToMadpt)
    <3>1. Head(madpt) \in ToMadpt /\ madpt' \in Seq(ToMadpt)
      BY <1>2, Queues DEF MadptAnswers, ToMadpt
    <3>2. QED
      BY <3>1, <1>2, RestartOnly DEF MadptAnswers
  <2>2. Written(Head(madpt)) \in Pair
    BY <2>1 DEF Written, ToMadpt, Requests, Pair
  <2>3. module' \in Pair /\ faults' \in 0..MaxFaults
    BY <1>2, <2>2 DEF MadptAnswers
  <2>4. inbox' \in Seq(Inbox)
    <3>1. Text(module) \in Ati
      BY DEF Text, Pair, Ati
    <3>2. \A st \in Statuses, t \in Ati : Answer(Head(madpt).cid, st, t) \in Inbox
      BY <2>1 DEF Answer, Inbox
    <3>3. "ok" \in Statuses
      BY DEF Statuses
    <3>4. PICK st \in Statuses, t \in Ati :
              inbox' = Append(inbox, Answer(Head(madpt).cid, st, t))
      BY <1>2, <3>1, <3>3, NonePair DEF MadptAnswers
    <3>5. QED
      BY <3>2, <3>4, Queues DEF Inbox
  <2>5. QED
    BY <1>2, <2>1, <2>3, <2>4 DEF MadptAnswers, ToMadpt, Inbox
<1>3. CASE MadptExits
  <2>1. madpt_up' \in BOOLEAN
    BY <1>3, Zenon DEF MadptExits
  <2>2. QED
    BY <1>3, <2>1 DEF MadptExits
<1>4. CASE MadptStarts
  <2>1. madpt_up' \in BOOLEAN
    BY <1>4, Zenon DEF MadptStarts
  <2>2. madpt' \in Seq(ToMadpt)
    BY <1>4, EmptySeq DEF MadptStarts
  <2>3. QED
    BY <1>4, <2>1, <2>2 DEF MadptStarts, ToMadpt
<1>5. CASE PrefTruncates
  BY <1>5, BackupTypes DEF PrefTruncates
<1>6. CASE PrefWrites
  <2>1. Head(pref) \in Requests(Backups) /\ pref' \in Seq(Requests(Backups))
    BY <1>6, Queues DEF PrefWrites
  <2>2. backup' \in [there : BOOLEAN, line : Pair]
    <3>1. [there |-> TRUE, line |-> Head(pref).content] \in [there : BOOLEAN, line : Pair]
      BY <2>1 DEF Requests
    <3>2. QED
      BY <1>6, <3>1 DEF PrefWrites
  <2>3. kept' \in BOOLEAN
    BY <1>6, Zenon DEF PrefWrites
  <2>4. inbox' \in Seq(Inbox)
    <3>1. \A st \in {"ok", "error"} : Answer("BACKUP_SN_IMEI", st, Unknown) \in Inbox
      BY NonePair DEF Answer, Inbox, Actions, Backups, Statuses
    <3>2. PICK st \in {"ok", "error"} :
              inbox' = Append(inbox, Answer("BACKUP_SN_IMEI", st, Unknown))
      BY <1>6 DEF PrefWrites
    <3>3. QED
      BY <3>1, <3>2, Queues DEF Inbox
  <2>5. faults' \in 0..MaxFaults
    BY <1>6 DEF PrefWrites
  <2>6. QED
    BY <1>6, <2>1, <2>2, <2>3, <2>4, <2>5 DEF PrefWrites, Inbox
<1>7. CASE PrefLoads
  <2>1. pref' \in Seq(Requests(Backups))
    BY <1>7, Queues DEF PrefLoads
  <2>2. inbox' \in Seq(Inbox)
    <3>1. Text(backup.line) \in Ati
      BY DEF Text, Pair, Ati
    <3>2. Answer("GET_BACKUP_SN_IMEI", IF backup.there THEN "ok" ELSE "error",
                 Text(backup.line)) \in Inbox
      BY <3>1 DEF Answer, Inbox, Actions, Backups, Statuses
    <3>3. QED
      BY <1>7, <3>2, Queues DEF PrefLoads, Inbox
  <2>3. QED
    BY <1>7, <2>1, <2>2 DEF PrefLoads, Inbox
<1>8. QED
  BY <1>1, <1>2, <1>3, <1>4, <1>5, <1>6, <1>7 DEF MadptStep, PrefStep

\* Crashes and the EFS.
LEMMA TypesFaults ==
    ASSUME Types, Crashes \/ EfsCorrupted
    PROVE  Types'
<1> USE ConstantsAssumption
    DEF Types, TypeOK, memory, disk, prefs, madpts, Labels, Fault
<1>1. CASE FwupdateCrash
  BY <1>1, RebornTypes DEF FwupdateCrash, RebornTyped, Inbox
<1>2. CASE MadptCrash
  <2>1. madpt_up' \in BOOLEAN
    BY <1>2, Zenon DEF MadptCrash
  <2>2. QED
    BY <1>2, <2>1 DEF MadptCrash
<1>3. CASE PrefCrash
  <2>1. pref' \in Seq(Requests(Backups))
    BY <1>3, EmptySeq DEF PrefCrash, PrefStops
  <2>2. kept' \in BOOLEAN
    BY <1>3, Zenon DEF PrefCrash, PrefStops
  <2>3. QED
    BY <1>3, <2>1, <2>2 DEF PrefCrash, PrefStops
<1>4. CASE HostReboot
  <2>1. pref' \in Seq(Requests(Backups)) /\ madpt' \in Seq(ToMadpt)
    BY <1>4, EmptySeq DEF HostReboot, PrefStops
  <2>2. {madpt_up', zip', kept'} \subseteq BOOLEAN
    BY <1>4, Zenon DEF HostReboot, PrefStops
  <2>3. QED
    BY <1>4, <2>1, <2>2, RebornTypes DEF HostReboot, PrefStops, RebornTyped, Inbox, ToMadpt
<1>5. CASE EfsCorrupted
  <2>1. module' \in Pair
    BY <1>5, NonePair DEF EfsCorrupted, Pair
  <2>2. QED
    BY <1>5, <2>1 DEF EfsCorrupted
<1>6. QED
  BY <1>1, <1>2, <1>3, <1>4, <1>5 DEF Crashes

LEMMA TypesStep == Types /\ [Next]_vars => Types'
<1> SUFFICES ASSUME Types, [Next]_vars PROVE Types'
  OBVIOUS
<1>1. CASE MainStep
  BY <1>1, TypesLocal, TypesSend DEF MainStep
<1>2. CASE TakeAnswer \/ MadptStep \/ PrefStep
  BY <1>2, TypesServices
<1>3. CASE Crashes \/ EfsCorrupted
  BY <1>3, TypesFaults
<1>4. CASE UNCHANGED vars
  BY <1>4 DEF vars, memory, disk, prefs, madpts, Types, TypeOK
<1>5. QED
  BY <1>1, <1>2, <1>3, <1>4 DEF Next

\* The records, queues and memory of the three services keep their types, however
\* requests, answers, crashes and losses of the EFS interleave, and setup failures
\* stop the recovery at the threshold (pwl_fwupdate.c:3244).
THEOREM TypeCorrect == Spec => []TypeOK
<1>1. Spec => []Types
  BY TypesInit, TypesStep, PTL DEF Spec
<1>2. Types => TypeOK
  BY DEF Types
<1>3. QED
  BY <1>1, <1>2, PTL

-------------------------------------------------------------------------------
(* The backup.                                                              *)

LEMMA KeepInit == Init => KeepInv
<1> SUFFICES ASSUME Init PROVE KeepInv
  OBVIOUS
<1>1. pref \in Seq(GoodRequests) /\ inbox \in Seq(GoodAnswers)
  BY EmptySeq DEF Init
<1>2. InCall = FALSE /\ pref_pc = "idle"
  BY DEF Init, InCall
<1>3. backup \in {NoBackup, WholeBackup} /\ (kept => backup = WholeBackup)
  BY DEF Init, NoBackup, WholeBackup
<1>4. QED
  BY <1>1, <1>2, <1>3 DEF KeepInv, IdentityKept

\* main only asks for a backup when it has both.
LEMMA KeepMain ==
    ASSUME Types, KeepInv, MainStep
    PROVE  KeepInv'
<1> USE DEF KeepInv, IdentityKept, InCall, memory, disk, prefs, madpts, Post
<1>1. CASE EnterLoop \/ StartWait \/ TimeOut \/ OtherSignal \/ RoundFails
  BY <1>1 DEF EnterLoop, StartWait, TimeOut, OtherSignal, RoundFails
<1>2. CASE SendRequest
  <2> DEFINE r == Request(action, [sn |-> g_sn, imei |-> g_imei])
  <2>1. CASE action \in Backups
    <3>1. [sn |-> g_sn, imei |-> g_imei] \in Pair
      BY DEF Types, TypeOK, Pair
    <3>2. r \in GoodRequests
      BY <1>2, <2>1, <3>1 DEF SendRequest, GoodRequests, Request, Requests, Whole
    <3>3. Append(pref, r) \in Seq(GoodRequests)
      BY <3>2, Queues
    <3>4. pref_pc = "write" => Head(Append(pref, r)) = Head(pref)
      BY AppendHead DEF Types, TypeOK
    <3>5. QED
      BY <1>2, <2>1, <3>3, <3>4 DEF SendRequest
  <2>2. CASE action \notin Backups
    BY <1>2, <2>2 DEF SendRequest
  <2>3. QED
    BY <2>1, <2>2
<1>3. CASE StartCheck \/ SkipCheck \/ StartRestore
  BY <1>3 DEF StartCheck, SkipCheck, StartRestore
<1>4. CASE AtiReturned
  <2>1. /\ g_ati_info.sn \in BOOLEAN /\ g_ati_info.imei \in BOOLEAN
        /\ g_sn \in BOOLEAN /\ g_imei \in BOOLEAN
    BY DEF Types, TypeOK, Ati
  <2>2. CASE GotAti
    <3>1. action' = "BACKUP_SN_IMEI" => g_sn' = TRUE /\ g_imei' = TRUE
      BY <2>1, <2>2 DEF GotAti
    <3>2. QED
      BY <1>4, <3>1 DEF AtiReturned
  <2>3. CASE pc' = "update"
    BY <1>4, <2>3 DEF AtiReturned
  <2>4. QED
    BY <1>4, <2>2, <2>3 DEF AtiReturned
<1>5. CASE BackupReturned \/ NoRecovery \/ StartRecovery
  BY <1>5 DEF BackupReturned, NoRecovery, StartRecovery
<1>6. CASE SetupFails \/ DownloadFails \/ Download
  BY <1>6 DEF SetupFails, DownloadFails, Download
<1>7. CASE RestoreReturned
  BY <1>7 DEF RestoreReturned, Restores
<1>8. CASE RestartServices
  BY <1>8, EmptySeq DEF RestartServices, Reborn
<1>9. QED
  BY <1>1, <1>2, <1>3, <1>4, <1>5, <1>6, <1>7, <1>8 DEF MainStep

\* What is answered keeps the globals whole while a backup is under way.
LEMMA KeepServices ==
    ASSUME Types, KeepInv, TakeAnswer \/ MadptStep \/ PrefStep
    PROVE  KeepInv'
<1> USE DEF KeepInv, IdentityKept, InCall, memory, disk, prefs, madpts
<1>1. CASE TakeAnswer
  <2>1. Head(inbox) \in GoodAnswers /\ inbox' \in Seq(GoodAnswers)
    BY <1>1, Queues DEF TakeAnswer
  <2>2. \/ g_sn' = TRUE /\ g_imei' = TRUE
        \/ UNCHANGED <<g_sn, g_imei>>
    BY <1>1, <2>1 DEF TakeAnswer, Store, GoodAnswers, Text, Whole
  <2>3. InCall' => InCall
    BY <1>1 DEF TakeAnswer
  <2>4. QED
    BY <1>1, <2>1, <2>2, <2>3 DEF TakeAnswer
<1>2. CASE MadptAnswers
  <2>1. Head(madpt) \in ToMadpt /\ Head(madpt).cid \in Actions \ Backups
    <3>1. Head(madpt) \in ToMadpt
      BY <1>2, Queues DEF MadptAnswers, Types, TypeOK, ToMadpt
    <3>2. QED
      BY <3>1, <1>2 DEF MadptAnswers, ToMadpt, Requests
  <2>2. \A st \in Statuses, t \in Ati : Answer(Head(madpt).cid, st, t) \in GoodAnswers
    BY <2>1 DEF Answer, GoodAnswers, Backups
  <2>3. Text(module) \in Ati /\ "ok" \in Statuses
    BY DEF Types, TypeOK, Text, Pair, Ati, Statuses
  <2>4. PICK st \in Statuses, t \in Ati :
            inbox' = Append(inbox, Answer(Head(madpt).cid, st, t))
    BY <1>2, <2>3, NonePair DEF MadptAnswers
  <2>5. inbox' \in Seq(GoodAnswers)
    BY <2>2, <2>4, Queues
  <2>6. QED
    BY <1>2, <2>5 DEF MadptAnswers
<1>3. CASE MadptExits \/ MadptStarts
  BY <1>3 DEF MadptExits, MadptStarts
<1>4. CASE PrefTruncates
  BY <1>4 DEF PrefTruncates
<1>5. CASE PrefWrites
  <2>1. Head(pref) \in GoodRequests /\ pref' \in Seq(GoodRequests)
    BY <1>5, Queues DEF PrefWrites, Types, TypeOK
  <2>2. Head(pref).content = Whole
    BY <1>5, <2>1 DEF PrefWrites, GoodRequests
  <2>3. \A st \in {"ok", "error"} : Answer("BACKUP_SN_IMEI", st, Unknown) \in GoodAnswers
    BY NonePair DEF Answer, GoodAnswers, Actions, Backups, Statuses
  <2>4. PICK st \in {"ok", "error"} :
            inbox' = Append(inbox, Answer("BACKUP_SN_IMEI", st, Unknown))
    BY <1>5 DEF PrefWrites
  <2>5. inbox' \in Seq(GoodAnswers)
    BY <2>3, <2>4, Queues
  <2>6. \/ backup' = WholeBackup
        \/ kept' = FALSE /\ backup' = backup
    BY <1>5, <2>2 DEF PrefWrites, WholeBackup
  <2>7. QED
    BY <1>5, <2>1, <2>5, <2>6 DEF PrefWrites
<1>6. CASE PrefLoads
  <2>1. pref' \in Seq(GoodRequests)
    BY <1>6, Queues DEF PrefLoads
  <2>2. Answer("GET_BACKUP_SN_IMEI", IF backup.there THEN "ok" ELSE "error",
               Text(backup.line)) \in GoodAnswers
    <3>1. CASE backup = WholeBackup
      BY <3>1 DEF Answer, GoodAnswers, Actions, Backups, Statuses, WholeBackup, Text, Whole, Ati
    <3>2. CASE backup = NoBackup
      BY <3>2 DEF Answer, GoodAnswers, Actions, Backups, Statuses, NoBackup, Text, None, Ati
    <3>3. QED
      BY <3>1, <3>2
  <2>3. inbox' \in Seq(GoodAnswers)
    BY <1>6, <2>2, Queues DEF PrefLoads
  <2>4. QED
    BY <1>6, <2>1, <2>3 DEF PrefLoads
<1>7. QED
  BY <1>1, <1>2, <1>3, <1>4, <1>5, <1>6 DEF MadptStep, PrefStep

LEMMA KeepFaults ==
    ASSUME Types, KeepInv, Crashes \/ EfsCorrupted
    PROVE  KeepInv'
<1> USE DEF KeepInv, IdentityKept, InCall, memory, disk, prefs, madpts
<1>1. CASE FwupdateCrash
  BY <1>1, EmptySeq DEF FwupdateCrash, Reborn
<1>2. CASE MadptCrash \/ EfsCorrupted
  BY <1>2 DEF MadptCrash, EfsCorrupted
<1>3. CASE PrefCrash
  BY <1>3, EmptySeq DEF PrefCrash, PrefStops
<1>4. CASE HostReboot
  BY <1>4, EmptySeq DEF HostReboot, PrefStops, Reborn
<1>5. QED
  BY <1>1, <1>2, <1>3, <1>4 DEF Crashes

\* Whatever crashes, is lost, comes late or is answered for somebody else, the backup of
\* SN and IMEI is never overwritten with less than both
\* (handle_sn_imei_backup_file, as main of pwl_fwupdate uses it).
THEOREM IdentityIsKept == Spec => []IdentityKept
<1>1. Types /\ KeepInv /\ [Next]_vars => KeepInv'
  <2> SUFFICES ASSUME Types, KeepInv, [Next]_vars PROVE KeepInv'
    OBVIOUS
  <2>1. CASE UNCHANGED vars
    BY <2>1 DEF vars, memory, disk, prefs, madpts, KeepInv, IdentityKept, InCall
  <2>2. QED
    BY <2>1, KeepMain, KeepServices, KeepFaults DEF Next
<1>2. KeepInv => IdentityKept
  BY DEF KeepInv
<1>3. QED
  BY TypesInit, TypesStep, KeepInit, <1>1, <1>2, PTL DEF Spec
===============================================================================
