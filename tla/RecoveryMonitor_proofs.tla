------------------------ MODULE RecoveryMonitor_proofs ------------------------
(***************************************************************************)
(* TLAPS proofs about RecoveryMonitor, for every Limit, MaxRescan,         *)
(* MaxBoots and MaxNotices.                                                *)
(***************************************************************************)
EXTENDS RecoveryMonitor, TLAPS

-------------------------------------------------------------------------------
(* The inductive invariant.                                                 *)

\* The count on disk outside the writes of pwl_core: while pwl_fwupdate has the
\* file truncated, the count is in the buffer that it will write back.
Persisted == IF esim_pc = "write" THEN esim_content[COUNT] ELSE file[COUNT]

\* Before the file is created nothing has happened yet, unless it could not be.
BeforeCreation ==
    ~exists /\ ~unopened => pc = "boot" /\ esim_pc = "none" /\ flashes = 0

\* Where the line of the count is while the file is rewritten by one process at
\* a time.
LineSomewhere ==
    /\ ~(CoreInside /\ EsimInside)
    /\ CoreInside => HasLine(content, COUNT)
    /\ EsimInside => HasLine(esim_content, COUNT)
    /\ (~CoreWriting /\ esim_pc # "write") => HasLine(file, COUNT)
    /\ esim_pc = "trunc" => esim_content[COUNT] = file[COUNT]

\* How the count in memory, the count on disk and the number of flashes are
\* related at every step of the monitor.
CountsAgree ==
    /\ pc = "create" => content[COUNT] = 0 /\ flashes = 0
    /\ pc \in {"passTrunc", "passWrite", "failTrunc", "failWrite"} =>
           content[COUNT] = g_bootup_failure_count
    /\ ~CoreWriting => flashes <= Persisted
    /\ pc \in {"sleep", "probe", "caps", "abnormal", "rescan", "passNotify",
               "decide", "leave", "idle"} => g_bootup_failure_count = Persisted
    /\ pc \in {"passRead", "passTrunc", "passWrite", "passNotify"} =>
           g_bootup_failure_count = 0 /\ flashes = 0
    /\ pc \in {"failRead", "failTrunc"} => g_bootup_failure_count = Persisted + 1
    /\ pc \in {"failRead", "failTrunc", "failWrite", "decide"} =>
           flashes < g_bootup_failure_count

Undisturbed == exists /\ ~torn /\ ~overlapped /\ ~unopened

IInv ==
    /\ TypeOK
    /\ BeforeCreation
    /\ Undisturbed => LineSomewhere /\ CountsAgree /\ flashes <= Limit

-------------------------------------------------------------------------------
(* Facts about records.                                                     *)

\* A record has either both lines or none: a record with the count's line is a
\* total function on Keys (common.c writes and loses the lines together).
LEMMA LineMeansTotal ==
    ASSUME NEW r \in Records
    PROVE  /\ HasLine(r, COUNT) <=> r \in [Keys -> Nat]
           /\ HasLine(r, COUNT) => r[COUNT] \in Nat
           /\ EmptyRecord \in Records
           /\ ~HasLine(EmptyRecord, COUNT)
  BY DEF Records, EmptyRecord, HasLine, Keys, COUNT, ESIM

\* What set_bootup_status_value(Bootup_failure_count, v) computes.
LEMMA RewriteCount ==
    ASSUME NEW r \in Records, NEW v \in Nat
    PROVE  /\ Rewrite(r, COUNT, v) \in Records
           /\ HasLine(Rewrite(r, COUNT, v), COUNT) <=> HasLine(r, COUNT)
           /\ HasLine(r, COUNT) => Rewrite(r, COUNT, v)[COUNT] = v
<1>1. CASE r \in [Keys -> Nat]
  BY <1>1 DEF Records, Rewrite, HasLine, Keys, COUNT, ESIM
<1>2. CASE r = EmptyRecord
  <2>1. DOMAIN r = {} /\ DOMAIN Rewrite(r, COUNT, v) = {}
    BY <1>2 DEF EmptyRecord, Rewrite
  <2>2. Rewrite(r, COUNT, v) = EmptyRecord
    BY <2>1 DEF Rewrite, EmptyRecord
  <2> QED BY <2>1, <2>2 DEF Records, HasLine
<1> QED BY <1>1, <1>2 DEF Records

\* What set_bootup_status_value(ESIM_ENABLE_STATE, v) computes.
LEMMA RewriteEsim ==
    ASSUME NEW r \in Records, NEW v \in Nat
    PROVE  /\ Rewrite(r, ESIM, v) \in Records
           /\ HasLine(Rewrite(r, ESIM, v), COUNT) <=> HasLine(r, COUNT)
           /\ HasLine(r, COUNT) => Rewrite(r, ESIM, v)[COUNT] = r[COUNT]
<1>1. CASE r \in [Keys -> Nat]
  BY <1>1 DEF Records, Rewrite, HasLine, Keys, COUNT, ESIM
<1>2. CASE r = EmptyRecord
  <2>1. DOMAIN r = {} /\ DOMAIN Rewrite(r, ESIM, v) = {}
    BY <1>2 DEF EmptyRecord, Rewrite
  <2>2. Rewrite(r, ESIM, v) = EmptyRecord
    BY <2>1 DEF Rewrite, EmptyRecord
  <2> QED BY <2>1, <2>2 DEF Records, HasLine
<1> QED BY <1>1, <1>2 DEF Records

\* What bootup_status_init writes.
LEMMA FreshLines ==
    LET fresh == [FreshRecord(Keys) EXCEPT ![ESIM] = 1]
    IN  fresh \in Records /\ HasLine(fresh, COUNT) /\ fresh[COUNT] = 0
  BY DEF FreshRecord, Records, HasLine, Keys, COUNT, ESIM

\* The count read at start.
LEMMA ReadCountNat ==
    ASSUME NEW r \in Records
    PROVE  ReadCount(r) \in Nat
  BY LineMeansTotal DEF ReadCount

-------------------------------------------------------------------------------
(* The invariant holds initially.                                           *)

\* A host on which pwl_core has never run satisfies the invariant.
LEMMA InitIInv == Init => IInv
<1> SUFFICES ASSUME Init PROVE IInv
  OBVIOUS
<1>1. EmptyRecord \in Records
  BY DEF Records
<1>2. TypeOK
  <2>1. boots \in 0..MaxBoots
    BY ConstantsAssumption DEF Init
  <2>2. notices \in Seq({"flz", "folder"})
    BY DEF Init
  <2> QED BY <1>1, <2>1, <2>2
             DEF Init, TypeOK, Labels, EsimLabels, Ports
<1>3. BeforeCreation /\ ~Undisturbed
  BY DEF Init, BeforeCreation, Undisturbed
<1> QED BY <1>2, <1>3 DEF IInv

-------------------------------------------------------------------------------
(* Every step preserves the types.                                          *)

\* One case per action of main, the monitor thread, the main loop, pwl_fwupdate,
\* the module and the restarts.
LEMMA TypeStep == TypeOK /\ [Next]_vars => TypeOK'
<1> SUFFICES ASSUME TypeOK, [Next]_vars PROVE TypeOK'
  OBVIOUS
<1> USE ConstantsAssumption
<1> USE DEF TypeOK, Labels, EsimLabels, Ports,
            core, disk, esim, fwupdate, history
<1>1. CASE StartFromFile
  BY <1>1, ReadCountNat DEF StartFromFile
<1>2. CASE CreateFile
  BY <1>2, FreshLines, LineMeansTotal DEF CreateFile
<1>3. CASE WriteFresh
  BY <1>3, LineMeansTotal DEF WriteFresh
<1>4. CASE WakeUp
  BY <1>4 DEF WakeUp
<1>5. CASE Probe
  <2>1. CASE dev = "mbim"
    <3>1. outstanding' \in Nat /\ pc' = "caps"
      BY <1>5, <2>1 DEF Probe
    <3>2. g_device_cap_check_pass' \in BOOLEAN
      BY <1>5, <2>1 DEF Probe
    <3> QED BY <1>5, <3>1, <3>2 DEF Probe
  <2>2. CASE dev # "mbim"
    BY <1>5, <2>2 DEF Probe
  <2> QED BY <2>1, <2>2
<1>6. CASE ReadVerdict
  BY <1>6 DEF ReadVerdict, Pass
<1>7. CASE FindAbnormalPort
  BY <1>7 DEF FindAbnormalPort, BootFailure, RescanFailure
<1>8. CASE SetRead("passRead", "passTrunc")
  BY <1>8, RewriteCount DEF SetRead
<1>9. CASE SetTruncate("passTrunc", "passWrite")
  BY <1>9, LineMeansTotal DEF SetTruncate
<1>10. CASE SetWrite("passWrite", "passNotify")
  BY <1>10, LineMeansTotal DEF SetWrite
<1>11. CASE PassNotify
  BY <1>11 DEF PassNotify
<1>12. CASE SetRead("failRead", "failTrunc")
  BY <1>12, RewriteCount DEF SetRead
<1>13. CASE SetTruncate("failTrunc", "failWrite")
  BY <1>13, LineMeansTotal DEF SetTruncate
<1>14. CASE SetWrite("failWrite", "decide")
  BY <1>14, LineMeansTotal DEF SetWrite
<1>15. CASE \E haveFolder \in BOOLEAN : Decide(haveFolder)
  BY <1>15 DEF Decide
<1>16. CASE \E haveFolder \in BOOLEAN : Rescan(haveFolder)
  BY <1>16 DEF Rescan
<1>17. CASE Leave
  BY <1>17 DEF Leave
<1>18. CASE \E answered \in BOOLEAN : DeviceCapsCb(answered)
  BY <1>18 DEF DeviceCapsCb
<1>19. CASE RequestFwUpdateCheck
  BY <1>19 DEF RequestFwUpdateCheck
<1>20. CASE \E starts \in BOOLEAN : TakeNotice(starts)
  BY <1>20 DEF TakeNotice
<1>21. CASE UpdateSwitchesMode
  BY <1>21 DEF UpdateSwitchesMode
<1>22. CASE UpdateEnds
  <2>1. updating' \in BOOLEAN /\ dev' \in Ports
    BY <1>22 DEF UpdateEnds
  <2>2. UNCHANGED <<core, disk, notices, esim, boots, history>>
    BY <1>22 DEF UpdateEnds
  <2> QED BY <2>1, <2>2
<1>23. CASE \E value \in {0, 1} : EsimRead(value)
  <2> PICK value \in {0, 1} : EsimRead(value)
    BY <1>23
  <2>1. esim_content' \in Records
    BY RewriteEsim DEF EsimRead
  <2> QED BY <2>1 DEF EsimRead
<1>24. CASE EsimTruncate
  BY <1>24, LineMeansTotal DEF EsimTruncate
<1>25. CASE EsimWrite
  BY <1>25, LineMeansTotal DEF EsimWrite
<1>26. CASE ModuleChanges
  BY <1>26 DEF ModuleChanges
<1>27. CASE CoreRestart
  <2>1. torn' \in BOOLEAN
    BY <1>27, Zenon DEF CoreRestart
  <2>2. boots' \in 0..MaxBoots
    BY <1>27 DEF CoreRestart, Restart
  <2>3. /\ pc' \in Labels /\ g_bootup_failure_count' \in Nat
        /\ g_rescan_failure_count' \in Nat /\ g_device_cap_check_pass' \in BOOLEAN
        /\ gb_recoverying' \in BOOLEAN /\ outstanding' \in Nat
        /\ content' \in Records /\ file' \in Records /\ exists' \in BOOLEAN
        /\ flashes' \in Nat /\ overlapped' \in BOOLEAN /\ unopened' \in BOOLEAN
    BY <1>27, LineMeansTotal DEF CoreRestart, Restart
  <2>4. /\ notices' \in Seq({"flz", "folder"}) /\ updating' \in BOOLEAN
        /\ esim_pc' \in EsimLabels /\ esim_content' \in Records /\ dev' \in Ports
    BY <1>27, LineMeansTotal DEF CoreRestart
  <2> QED BY <2>1, <2>2, <2>3, <2>4
<1>28. CASE HostReboot
  <2>1. torn' \in BOOLEAN
    BY <1>28, Zenon DEF HostReboot
  <2>2. boots' \in 0..MaxBoots
    BY <1>28 DEF HostReboot, Restart
  <2>3. /\ pc' \in Labels /\ g_bootup_failure_count' \in Nat
        /\ g_rescan_failure_count' \in Nat /\ g_device_cap_check_pass' \in BOOLEAN
        /\ gb_recoverying' \in BOOLEAN /\ outstanding' \in Nat
        /\ content' \in Records /\ file' \in Records /\ exists' \in BOOLEAN
        /\ flashes' \in Nat /\ overlapped' \in BOOLEAN /\ unopened' \in BOOLEAN
    BY <1>28, LineMeansTotal DEF HostReboot, Restart
  <2>4. notices' \in Seq({"flz", "folder"})
    BY <1>28 DEF HostReboot
  <2>5. /\ updating' \in BOOLEAN /\ esim_pc' \in EsimLabels
        /\ esim_content' \in Records /\ dev' \in Ports
    BY <1>28, LineMeansTotal DEF HostReboot
  <2> QED BY <2>1, <2>2, <2>3, <2>4, <2>5
<1>29. CASE UNCHANGED vars
  BY <1>29 DEF vars
<1>30. CASE StartUnopened
  BY <1>30 DEF StartUnopened
<1>31. CASE \E from \in {"passRead", "passTrunc"} : SetUnopened(from, "passNotify")
  BY <1>31, LineMeansTotal DEF SetUnopened
<1>32. CASE \E from \in {"failRead", "failTrunc"} : SetUnopened(from, "decide")
  BY <1>32, LineMeansTotal DEF SetUnopened
<1>33. CASE EsimUnopened
  BY <1>33, LineMeansTotal DEF EsimUnopened
<1> QED BY <1>1, <1>2, <1>3, <1>4, <1>5, <1>6, <1>7, <1>8, <1>9, <1>10,
           <1>11, <1>12, <1>13, <1>14, <1>15, <1>16, <1>17, <1>18, <1>19,
           <1>20, <1>21, <1>22, <1>23, <1>24, <1>25, <1>26, <1>27, <1>28,
           <1>29, <1>30, <1>31, <1>32, <1>33
           DEF Next, MonitorStep

-------------------------------------------------------------------------------
(* Every step preserves the invariant.                                      *)

\* The count on disk, the count in memory and the flashes asked for stay related
\* through every interleaving that neither tears nor overlaps a file access.
LEMMA IInvStep == IInv /\ [Next]_vars => IInv'
<1> SUFFICES ASSUME IInv, [Next]_vars, TypeOK'
             PROVE  /\ BeforeCreation'
                    /\ Undisturbed' =>
                           LineSomewhere' /\ CountsAgree' /\ (flashes <= Limit)'
  BY TypeStep DEF IInv
<1> USE ConstantsAssumption
<1> USE DEF IInv, TypeOK, BeforeCreation, Undisturbed, LineSomewhere, CountsAgree,
            Persisted, CoreInside, CoreWriting, EsimInside,
            core, disk, esim, fwupdate, history
<1>1. CASE StartFromFile
  BY <1>1, LineMeansTotal, ReadCountNat DEF StartFromFile, ReadCount
<1>2. CASE CreateFile
  BY <1>2, LineMeansTotal, FreshLines DEF CreateFile
<1>3. CASE WriteFresh
  BY <1>3, LineMeansTotal DEF WriteFresh
<1>4. CASE WakeUp
  BY <1>4, LineMeansTotal DEF WakeUp
<1>5. CASE Probe
  BY <1>5, LineMeansTotal DEF Probe
<1>6. CASE ReadVerdict
  BY <1>6, LineMeansTotal DEF ReadVerdict, Pass
<1>7. CASE FindAbnormalPort
  BY <1>7, LineMeansTotal DEF FindAbnormalPort, BootFailure, RescanFailure
<1>8. CASE SetRead("passRead", "passTrunc")
  BY <1>8, LineMeansTotal, RewriteCount DEF SetRead
<1>9. CASE SetTruncate("passTrunc", "passWrite")
  BY <1>9, LineMeansTotal DEF SetTruncate
<1>10. CASE SetWrite("passWrite", "passNotify")
  BY <1>10, LineMeansTotal DEF SetWrite
<1>11. CASE PassNotify
  BY <1>11, LineMeansTotal DEF PassNotify
<1>12. CASE SetRead("failRead", "failTrunc")
  BY <1>12, LineMeansTotal, RewriteCount DEF SetRead
<1>13. CASE SetTruncate("failTrunc", "failWrite")
  BY <1>13, LineMeansTotal DEF SetTruncate
<1>14. CASE SetWrite("failWrite", "decide")
  BY <1>14, LineMeansTotal DEF SetWrite
<1>15. CASE \E haveFolder \in BOOLEAN : Decide(haveFolder)
  BY <1>15, LineMeansTotal DEF Decide
<1>16. CASE \E haveFolder \in BOOLEAN : Rescan(haveFolder)
  BY <1>16, LineMeansTotal DEF Rescan
<1>17. CASE Leave
  BY <1>17, LineMeansTotal DEF Leave
<1>18. CASE \E answered \in BOOLEAN : DeviceCapsCb(answered)
  BY <1>18, LineMeansTotal DEF DeviceCapsCb
<1>19. CASE RequestFwUpdateCheck
  BY <1>19, LineMeansTotal DEF RequestFwUpdateCheck
<1>20. CASE \E starts \in BOOLEAN : TakeNotice(starts)
  BY <1>20, LineMeansTotal DEF TakeNotice
<1>21. CASE UpdateSwitchesMode
  BY <1>21, LineMeansTotal DEF UpdateSwitchesMode
<1>22. CASE UpdateEnds
  BY <1>22, LineMeansTotal DEF UpdateEnds
<1>23. CASE \E value \in {0, 1} : EsimRead(value)
  <2> PICK value \in {0, 1} : EsimRead(value)
    BY <1>23
  <2>1. /\ HasLine(esim_content', COUNT) <=> HasLine(file, COUNT)
        /\ HasLine(file, COUNT) => esim_content'[COUNT] = file[COUNT]
    BY RewriteEsim DEF EsimRead
  <2> QED BY <2>1, LineMeansTotal DEF EsimRead
<1>24. CASE EsimTruncate
  BY <1>24, LineMeansTotal DEF EsimTruncate
<1>25. CASE EsimWrite
  BY <1>25, LineMeansTotal DEF EsimWrite
<1>26. CASE ModuleChanges
  BY <1>26, LineMeansTotal DEF ModuleChanges
<1>27. CASE CoreRestart
  BY <1>27, LineMeansTotal DEF CoreRestart, Restart
<1>28. CASE HostReboot
  BY <1>28, LineMeansTotal DEF HostReboot, Restart
<1>29. CASE UNCHANGED vars
  BY <1>29, LineMeansTotal DEF vars
<1>30. CASE StartUnopened
  BY <1>30 DEF StartUnopened
<1>31. CASE \E from \in {"passRead", "passTrunc"} : SetUnopened(from, "passNotify")
  BY <1>31 DEF SetUnopened
<1>32. CASE \E from \in {"failRead", "failTrunc"} : SetUnopened(from, "decide")
  BY <1>32 DEF SetUnopened
<1>33. CASE EsimUnopened
  BY <1>33, LineMeansTotal DEF EsimUnopened
<1> QED BY <1>1, <1>2, <1>3, <1>4, <1>5, <1>6, <1>7, <1>8, <1>9, <1>10,
           <1>11, <1>12, <1>13, <1>14, <1>15, <1>16, <1>17, <1>18, <1>19,
           <1>20, <1>21, <1>22, <1>23, <1>24, <1>25, <1>26, <1>27, <1>28,
           <1>29, <1>30, <1>31, <1>32, <1>33
           DEF Next, MonitorStep

-------------------------------------------------------------------------------
(* The theorems.                                                            *)

\* The invariant holds in every reachable state.
THEOREM Invariance == Spec => []IInv
  BY InitIInv, IInvStep, PTL DEF Spec

\* Every variable of the recovery check keeps its type; in particular no
\* capability answer is taken that was not asked for.
THEOREM TypeCorrect == Spec => []TypeOK
<1>1. IInv => TypeOK
  BY DEF IInv
<1> QED BY <1>1, Invariance, PTL

\* Over any number of restarts, an undisturbed pwl_core asks for a boot failure
\* flash at most Limit times between two passes of the check.
THEOREM FlashesAreBounded == Spec => []FlashBounded
<1>1. IInv => FlashBounded
  BY ConstantsAssumption DEF IInv, FlashBounded, BeforeCreation, Undisturbed, TypeOK
<1> QED BY <1>1, Invariance, PTL

\* The count that an undisturbed monitor ends with is on disk.
THEOREM CountIsSaved == Spec => []CountSaved
<1>1. IInv => CountSaved
  BY DEF IInv, CountSaved, BeforeCreation, Undisturbed, TypeOK, LineSomewhere,
         CountsAgree, Persisted, CoreWriting, EsimInside
<1> QED BY <1>1, Invariance, PTL

-------------------------------------------------------------------------------
(* The refinement of RetryBudget.                                           *)

\* Where the count is, whoever holds it.
CountKept ==
    /\ SavedCount \in Nat
    /\ Undisturbed => SavedCount = IF CoreWriting THEN content[COUNT] ELSE Persisted

\* The invariant says where.
LEMMA SavedCountIs == IInv => CountKept
<1> SUFFICES ASSUME IInv PROVE CountKept
  OBVIOUS
<1>1. SavedCount \in Nat
  <2>1. (IF CoreWriting THEN content
         ELSE IF esim_pc = "write" THEN esim_content ELSE file) \in Records
    BY DEF IInv, TypeOK
  <2>2. QED BY <2>1, ReadCountNat DEF SavedCount
<1>2. ASSUME Undisturbed
      PROVE  SavedCount = IF CoreWriting THEN content[COUNT] ELSE Persisted
  <2>1. LineSomewhere
    BY <1>2 DEF IInv
  <2>2. CASE CoreWriting
    BY <2>1, <2>2 DEF LineSomewhere, CoreInside, SavedCount, ReadCount
  <2>3. CASE ~CoreWriting /\ esim_pc = "write"
    BY <2>1, <2>3 DEF LineSomewhere, EsimInside, Persisted, SavedCount, ReadCount
  <2>4. CASE ~CoreWriting /\ esim_pc # "write"
    BY <2>1, <2>4 DEF LineSomewhere, Persisted, SavedCount, ReadCount
  <2>5. QED BY <2>2, <2>3, <2>4
<1>3. QED BY <1>1, <1>2 DEF CountKept

\* The same of the next state.
LEMMA SavedCountNext == IInv' => CountKept'
  BY SavedCountIs, PTL

\* Nothing makes a torn, overlapped or missed write good again, and the file stays.
LEMMA DamageStays ==
    ASSUME TypeOK, [Next]_vars
    PROVE  /\ (torn => torn') /\ (overlapped => overlapped') /\ (unopened => unopened')
           /\ (exists => exists')
<1> USE DEF core, disk, esim, fwupdate, history
<1>1. CASE MonitorStep
  <2>1. CASE \/ StartFromFile \/ SetRead("passRead", "passTrunc")
             \/ SetRead("failRead", "failTrunc")
    <3>1. torn' = torn /\ exists' = exists /\ unopened' = unopened
      BY <2>1 DEF StartFromFile, SetRead
    <3>2. overlapped => overlapped'
      BY <2>1, Zenon DEF StartFromFile, SetRead
    <3> QED BY <3>1, <3>2
  <2>2. CASE CreateFile \/ WriteFresh \/ WakeUp \/ Probe
    BY <2>2 DEF CreateFile, WriteFresh, WakeUp, Probe
  <2>3. CASE ReadVerdict \/ FindAbnormalPort \/ PassNotify \/ Leave
    BY <2>3 DEF ReadVerdict, FindAbnormalPort, PassNotify, Leave
  <2>4. CASE \/ SetTruncate("passTrunc", "passWrite") \/ SetWrite("passWrite", "passNotify")
             \/ SetTruncate("failTrunc", "failWrite") \/ SetWrite("failWrite", "decide")
    BY <2>4 DEF SetTruncate, SetWrite
  <2>5. CASE \E haveFolder \in BOOLEAN : Decide(haveFolder) \/ Rescan(haveFolder)
    BY <2>5 DEF Decide, Rescan
  <2>6. CASE \/ StartUnopened
             \/ \E from \in {"passRead", "passTrunc"} : SetUnopened(from, "passNotify")
             \/ \E from \in {"failRead", "failTrunc"} : SetUnopened(from, "decide")
    BY <2>6 DEF StartUnopened, SetUnopened
  <2> QED BY <1>1, <2>1, <2>2, <2>3, <2>4, <2>5, <2>6 DEF MonitorStep
<1>2. CASE \E answered \in BOOLEAN : DeviceCapsCb(answered)
  BY <1>2 DEF DeviceCapsCb
<1>3. CASE RequestFwUpdateCheck \/ \E starts \in BOOLEAN : TakeNotice(starts)
  BY <1>3 DEF RequestFwUpdateCheck, TakeNotice
<1>4. CASE UpdateSwitchesMode \/ UpdateEnds \/ ModuleChanges
  BY <1>4 DEF UpdateSwitchesMode, UpdateEnds, ModuleChanges
<1>5. CASE (\E value \in {0, 1} : EsimRead(value)) \/ EsimTruncate \/ EsimWrite \/ EsimUnopened
  <2>1. torn' = torn /\ exists' = exists /\ unopened' = unopened
    BY <1>5 DEF EsimRead, EsimTruncate, EsimWrite, EsimUnopened
  <2>2. CASE \E value \in {0, 1} : EsimRead(value)
    <3>1. overlapped => overlapped'
      BY <2>2, Zenon DEF EsimRead
    <3> QED BY <2>1, <3>1
  <2>3. CASE EsimTruncate \/ EsimWrite \/ EsimUnopened
    BY <2>1, <2>3 DEF EsimTruncate, EsimWrite, EsimUnopened
  <2> QED BY <1>5, <2>2, <2>3
<1>6. CASE CoreRestart \/ HostReboot
  <2>1. overlapped' = overlapped /\ exists' = exists /\ unopened' = unopened
    BY <1>6 DEF CoreRestart, HostReboot, Restart
  <2>2. torn => torn'
    BY <1>6, Zenon DEF CoreRestart, HostReboot
  <2> QED BY <2>1, <2>2
<1>7. CASE UNCHANGED vars
  BY <1>7 DEF vars
<1> QED BY <1>1, <1>2, <1>3, <1>4, <1>5, <1>6, <1>7 DEF Next

\* What an undisturbed step does to the count on disk and to the flashes.
CountStep ==
    \/ Budget!Save \/ Budget!Act \/ Budget!Forgive \/ Budget!Clear
    \/ UNCHANGED <<SavedCount, flashes>>

\* One case per action, in the words of RetryBudget.
LEMMA UndisturbedStep ==
    ASSUME IInv, IInv', [Next]_vars, Undisturbed, Undisturbed'
    PROVE  CountStep
<1> DEFINE Kept == IF CoreWriting THEN content[COUNT] ELSE Persisted
<1>1. /\ LineSomewhere /\ CountsAgree /\ LineSomewhere' /\ CountsAgree'
      /\ TypeOK /\ TypeOK'
  BY DEF IInv
<1>2. /\ SavedCount = Kept /\ SavedCount' = Kept'
      /\ SavedCount \in Nat /\ SavedCount' \in Nat
  BY SavedCountIs, SavedCountNext DEF CountKept
<1>3. SUFFICES \/ Kept' = Kept + 1 /\ flashes' = flashes
               \/ flashes < Kept /\ Kept <= Limit /\ flashes' = flashes + 1 /\ Kept' = Kept
               \/ flashes' = 0 /\ Kept' = Kept
               \/ flashes = 0 /\ Kept' = 0 /\ flashes' = flashes
               \/ Kept' = Kept /\ flashes' = flashes
  BY <1>2 DEF CountStep, Budget!Save, Budget!Act, Budget!Forgive, Budget!Clear
<1> USE ConstantsAssumption, <1>1
<1> USE DEF TypeOK, LineSomewhere, CountsAgree, Undisturbed, Persisted,
            CoreInside, CoreWriting, EsimInside, core, disk, esim, fwupdate, history
<1>11. CASE StartFromFile \/ CreateFile \/ WriteFresh
  BY <1>11 DEF StartFromFile, CreateFile, WriteFresh
<1>12. CASE WakeUp \/ Probe \/ FindAbnormalPort \/ PassNotify \/ Leave
  BY <1>12 DEF WakeUp, Probe, FindAbnormalPort, BootFailure, RescanFailure,
               PassNotify, Leave
<1>13. CASE ReadVerdict
  BY <1>13 DEF ReadVerdict, Pass
<1>14. CASE SetRead("passRead", "passTrunc") \/ SetRead("failRead", "failTrunc")
  BY <1>14 DEF SetRead
<1>15. CASE SetTruncate("passTrunc", "passWrite")
  BY <1>15 DEF SetTruncate
<1>16. CASE SetTruncate("failTrunc", "failWrite")
  BY <1>16 DEF SetTruncate
<1>17. CASE SetWrite("passWrite", "passNotify") \/ SetWrite("failWrite", "decide")
  BY <1>17 DEF SetWrite
<1>18. CASE \E haveFolder \in BOOLEAN : Decide(haveFolder)
  BY <1>18 DEF Decide
<1>19. CASE \E haveFolder \in BOOLEAN : Rescan(haveFolder)
  BY <1>19 DEF Rescan
<1>20. CASE \E answered \in BOOLEAN : DeviceCapsCb(answered)
  BY <1>20 DEF DeviceCapsCb
<1>21. CASE RequestFwUpdateCheck \/ \E starts \in BOOLEAN : TakeNotice(starts)
  BY <1>21 DEF RequestFwUpdateCheck, TakeNotice
<1>22. CASE UpdateSwitchesMode \/ UpdateEnds \/ ModuleChanges
  BY <1>22 DEF UpdateSwitchesMode, UpdateEnds, ModuleChanges
<1>23. CASE \E value \in {0, 1} : EsimRead(value)
  BY <1>23 DEF EsimRead
<1>24. CASE EsimTruncate \/ EsimWrite \/ EsimUnopened
  BY <1>24 DEF EsimTruncate, EsimWrite, EsimUnopened
<1>27. CASE \/ StartUnopened
            \/ \E from \in {"passRead", "passTrunc"} : SetUnopened(from, "passNotify")
            \/ \E from \in {"failRead", "failTrunc"} : SetUnopened(from, "decide")
  BY <1>27 DEF StartUnopened, SetUnopened
<1>25. CASE CoreRestart \/ HostReboot
  BY <1>25 DEF CoreRestart, HostReboot, Restart
<1>26. CASE UNCHANGED vars
  BY <1>26 DEF vars
<1> QED BY <1>11, <1>12, <1>13, <1>14, <1>15, <1>16, <1>17, <1>18, <1>19, <1>20,
           <1>21, <1>22, <1>23, <1>24, <1>25, <1>26, <1>27
           DEF Next, MonitorStep

\* Before the file is there, only its creation touches the count, and no flash has
\* been asked for.
LEMMA FirstStep ==
    ASSUME IInv, IInv', [Next]_vars, ~exists, ~unopened, ~unopened'
    PROVE  CountStep
<1>1. /\ pc = "boot" /\ esim_pc = "none" /\ flashes = 0 /\ TypeOK
      /\ SavedCount \in Nat /\ SavedCount' \in Nat
  BY SavedCountIs, SavedCountNext DEF CountKept, IInv, BeforeCreation
<1>2. CASE CreateFile
  <2>1. SavedCount' = 0 /\ flashes' = 0
    BY <1>1, <1>2, FreshLines
       DEF CreateFile, SavedCount, ReadCount, CoreWriting, fwupdate, esim, history
  <2>2. QED BY <1>1, <2>1 DEF CountStep, Budget!Clear
<1>3. CASE CoreRestart \/ HostReboot
  BY <1>1, <1>3 DEF CoreRestart, HostReboot, Restart, CountStep, SavedCount, ReadCount,
                    CoreWriting, disk, fwupdate, esim
<1>4. CASE /\ pc' = pc /\ esim_pc' = esim_pc /\ file' = file /\ flashes' = flashes
  BY <1>1, <1>4 DEF CountStep, SavedCount, ReadCount, CoreWriting
<1>5. CASE MonitorStep
  BY <1>1, <1>2, <1>5
     DEF MonitorStep, StartFromFile, StartUnopened, SetUnopened, WriteFresh, WakeUp, Probe,
         ReadVerdict, FindAbnormalPort, SetRead, SetTruncate, SetWrite,
         PassNotify, Decide, Rescan, Leave
<1>6. CASE \E answered \in BOOLEAN : DeviceCapsCb(answered)
  BY <1>4, <1>6 DEF DeviceCapsCb, disk, fwupdate, esim, history
<1>7. CASE \/ RequestFwUpdateCheck \/ UpdateSwitchesMode \/ UpdateEnds \/ ModuleChanges
           \/ \E starts \in BOOLEAN : TakeNotice(starts)
  BY <1>4, <1>7 DEF RequestFwUpdateCheck, UpdateSwitchesMode, UpdateEnds, ModuleChanges,
                    TakeNotice, core, disk, fwupdate, esim, history
<1>8. CASE \/ \E value \in {0, 1} : EsimRead(value)
           \/ EsimTruncate \/ EsimWrite \/ EsimUnopened
  BY <1>1, <1>8 DEF EsimRead, EsimTruncate, EsimWrite, EsimUnopened
<1>9. CASE UNCHANGED vars
  BY <1>4, <1>9 DEF vars, core, disk, fwupdate, esim, history
<1> QED BY <1>2, <1>3, <1>5, <1>6, <1>7, <1>8, <1>9 DEF Next

\* Every step is a step of RetryBudget or leaves its variables alone.
LEMMA BudgetStep == IInv /\ IInv' /\ [Next]_vars => [Budget!Next]_(Budget!vars)
<1> SUFFICES ASSUME IInv, IInv', [Next]_vars PROVE [Budget!Next]_(Budget!vars)
  OBVIOUS
<1>1. /\ (torn => torn') /\ (overlapped => overlapped') /\ (unopened => unopened')
      /\ (exists => exists')
  BY DamageStays DEF IInv
<1>2. CASE (torn \/ overlapped \/ unopened)'
  <2>1. SavedCount' \in Nat /\ flashes' \in Nat
    BY SavedCountNext DEF CountKept, IInv, TypeOK
  <2>2. (torn \/ overlapped \/ unopened)' = TRUE
    BY <1>2
  <2>3. QED BY <2>1, <2>2 DEF Budget!Next
<1>3. CASE ~(torn \/ overlapped \/ unopened)'
  <2>1. (torn \/ overlapped \/ unopened)' = (torn \/ overlapped \/ unopened)
    BY <1>1, <1>3
  <2>2. CountStep
    <3>1. CASE exists
      BY <1>1, <1>3, <3>1, UndisturbedStep DEF Undisturbed
    <3>2. CASE ~exists
      BY <1>1, <1>3, <3>2, FirstStep
    <3> QED BY <3>1, <3>2
  <2>3. QED BY <2>1, <2>2 DEF CountStep, Budget!Next, Budget!vars
<1> QED BY <1>2, <1>3

\* The count that pwl_core and pwl_fwupdate keep in bootup_status implements the
\* abstract count of RetryBudget, whatever interleaving, restart or reboot comes
\* between the steps of a write.
THEOREM FlashesKeepToBudget == Spec => ImplementsBudget
<1>1. Init => Budget!Init
  <2>1. ASSUME Init PROVE SavedCount = 0
    BY <2>1, LineMeansTotal DEF Init, SavedCount, ReadCount, CoreWriting, Records
  <2>2. ASSUME Init PROVE (torn \/ overlapped \/ unopened) = FALSE
    BY <2>2 DEF Init
  <2>3. QED BY <2>1, <2>2 DEF Init, Budget!Init
<1>2. QED
  BY InitIInv, IInvStep, BudgetStep, <1>1, PTL
     DEF Spec, ImplementsBudget, Budget!Spec

===============================================================================
