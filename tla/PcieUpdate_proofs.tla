-------------------------- MODULE PcieUpdate_proofs --------------------------
(***************************************************************************)
(* For every set of scenarios (any images, packages and number of events): *)
(* g_is_fw_update_processing is always released, and an update of the main *)
(* loop alone gives the image files up only when the module has their      *)
(* images, or pwl_pref told it so.                                         *)
(***************************************************************************)
EXTENDS PcieUpdate, TLAPS

\* FlagReleased alone is not inductive: a step of one thread must be known to
\* leave the position of the other one unchanged.
FlagInv ==
    /\ pc \in [Threads -> Labels]
    /\ FlagReleased

\* At start no thread works and the flag is clear.
LEMMA InitFlagInv == Init => FlagInv
  BY DEF Init, FlagInv, FlagReleased, StartLabel, Labels, Attempt

\* A thread that leaves the section clears the flag, on each of its three ways
\* out, and a thread that sets the flag enters the section.
LEMMA FlagInvStep == FlagInv /\ [Next]_vars => FlagInv'
<1> SUFFICES ASSUME FlagInv, [Next]_vars PROVE FlagInv'
  OBVIOUS
<1> USE DEF FlagInv, FlagReleased, Labels, Attempt, Section, Goto
<1>1. ASSUME NEW t \in Threads, ThreadStep(t) PROVE FlagInv'
  <2> USE <1>1
  <2>1. CASE ReadEvent(t)
    BY <2>1 DEF ReadEvent
  <2>2. CASE TakeNotice(t)
    BY <2>2 DEF TakeNotice
  <2>3. CASE CheckUpdateData(t)
    BY <2>3 DEF CheckUpdateData
  <2>4. CASE Settle(t)
    BY <2>4 DEF Settle
  <2>5. CASE TestProcessing(t)
    BY <2>5 DEF TestProcessing
  <2>6. CASE Begin(t)
    BY <2>6 DEF Begin
  <2>7. CASE Query(t)
    BY <2>7 DEF Query
  <2>8. CASE VersionArrives(t)
    BY <2>8 DEF VersionArrives
  <2>9. CASE VersionFails(t)
    BY <2>9 DEF VersionFails
  <2>23. CASE AskEsim(t)
    BY <2>23 DEF AskEsim
  <2>24. CASE EsimEnds(t)
    BY <2>24 DEF EsimEnds
  <2>10. CASE FindImages(t)
    BY <2>10 DEF FindImages
  <2>11. CASE GenerateTable(t)
    BY <2>11 DEF GenerateTable
  <2>12. CASE CheckTable(t)
    BY <2>12 DEF CheckTable
  <2>13. CASE SwitchToFastboot(t)
    BY <2>13 DEF SwitchToFastboot
  <2>14. CASE OpenTable(t)
    BY <2>14 DEF OpenTable
  <2>15. CASE \E img \in Images : FlashOk(t, img) \/ FlashFails(t, img)
    BY <2>15 DEF FlashOk, FlashFails
  <2>16. CASE FlashDone(t)
    BY <2>16 DEF FlashDone
  <2>17. CASE DoReset(t)
    BY <2>17 DEF DoReset
  <2>18. CASE Finish(t)
    BY <2>18 DEF Finish
  <2>19. CASE Record(t)
    BY <2>19 DEF Record, RecordFailure, RecordSuccess
  <2>20. CASE UpdateSucceeded(t)
    BY <2>20 DEF UpdateSucceeded
  <2>21. CASE UpdateFailed(t)
    BY <2>21 DEF UpdateFailed
  <2>22. CASE CxpReboot(t)
    BY <2>22 DEF CxpReboot
  <2> QED BY <2>1, <2>2, <2>3, <2>4, <2>5, <2>6, <2>7, <2>8, <2>9, <2>10,
             <2>11, <2>12, <2>13, <2>14, <2>15, <2>16, <2>17, <2>18, <2>19,
             <2>20, <2>21, <2>22, <2>23, <2>24
             DEF ThreadStep
<1>2. CASE \E kind \in scenario.kinds : \E current, old \in SUBSET ImagesOf(kind) :
               PackageMoved(kind, current, old)
  BY <1>2 DEF PackageMoved
<1>3. CASE \E what \in {"flz", "folder"} : Notice(what)
  BY <1>3 DEF Notice
<1>4. CASE Restart
  BY <1>4 DEF Restart, StartLabel
<1>6. CASE \E read \in SUBSET Images : PrefReads(read)
  BY <1>6 DEF PrefReads
<1>5. CASE UNCHANGED vars
  BY <1>5 DEF vars
<1> QED BY <1>1, <1>2, <1>3, <1>4, <1>5, <1>6 DEF Next

\* The flag that turns updates away is set only while some thread is inside the
\* part of start_update_process_pcie that clears it.
THEOREM FlagIsReleased == Spec => []FlagReleased
<1>1. FlagInv => FlagReleased
  BY DEF FlagInv
<1> QED BY <1>1, InitFlagInv, FlagInvStep, PTL DEF Spec

-------------------------------------------------------------------------------
(* The shape of the state.                                                  *)

\* The Boolean values.
FlagType ==
    /\ first \in [Threads -> BOOLEAN]
    /\ ok \in [Threads -> BOOLEAN]
    /\ g_is_fw_update_processing \in BOOLEAN
    /\ g_need_update \in BOOLEAN
    /\ g_need_cxp_reboot \in BOOLEAN
    /\ locked \in BOOLEAN

\* What counts the events: no event is read that did not come.
BoundType ==
    /\ scenario \in Scenarios
    /\ packages \in 0..scenario.packages
    /\ moved \in 0..packages
    /\ noticed \in 0..scenario.notices
    /\ restarts \in 0..scenario.restarts
    /\ readings \in 0..scenario.readings
    /\ notices \in Seq({"flz", "folder"})

\* The threads, the counts, the disk and the module.
ValueType ==
    /\ pc \in [Threads -> Labels]
    /\ arg \in [Threads -> {"flz", "folder", "startup"}]
    /\ \A t \in Threads : arg[t] = "startup" => pc[t] \in {"asking", "esim", "esimWait", "idle"}
    /\ g_update_type \in SUBSET Parts
    /\ g_update_based_type \in {"flz", "folder"}
    /\ g_fw_update_retry_count \in Nat
    /\ file \in Nat
    /\ flz \in SUBSET Parts
    /\ folders \in SUBSET Parts
    /\ files \in SUBSET FilesOf(folders)
    /\ mode \in Modes

\* The images.
ImageType ==
    /\ idx \in [Threads -> 1..Len(Asked)]
    /\ todo \in [Threads -> SUBSET Images]
    /\ matches \in SUBSET Images
    /\ list \in Seq(Entry)
    /\ count \in 0..Len(list)
    /\ table \in SUBSET Entry
    /\ installed \in SUBSET Images
    /\ cache \in [Images -> Versions]
    /\ misled \in SUBSET Images

TypeInv == FlagType /\ BoundType /\ ValueType /\ ImageType

\* The steps that leave the Boolean values alone, and the others.
LEMMA FlagTypeStep == BoundType /\ FlagType /\ [Next]_vars => FlagType'
<1> SUFFICES ASSUME BoundType, FlagType, [Next]_vars PROVE FlagType'
  OBVIOUS
<1> USE DEF FlagType, locals, flags, queries
<1>0. scenario.carrier \in BOOLEAN
  BY ConstantsAssumption DEF BoundType
<1>1. ASSUME NEW t \in Threads, ThreadStep(t) PROVE FlagType'
  <2>1. CASE ReadEvent(t) \/ TakeNotice(t) \/ CheckUpdateData(t) \/ Settle(t) \/ TestProcessing(t)
    BY <2>1 DEF ReadEvent, TakeNotice, CheckUpdateData, Settle, TestProcessing
  <2>2. CASE Begin(t) \/ Query(t) \/ VersionArrives(t) \/ VersionFails(t)
    BY <1>0, <2>2 DEF Begin, Query, VersionArrives, VersionFails
  <2>9. CASE AskEsim(t) \/ EsimEnds(t)
    BY <2>9 DEF AskEsim, EsimEnds
  <2>3. CASE FindImages(t) \/ GenerateTable(t)
    BY <2>3 DEF FindImages, GenerateTable
  <2>4. CASE CheckTable(t)
    BY <2>4 DEF CheckTable, Needed
  <2>5. CASE SwitchToFastboot(t) \/ OpenTable(t) \/ DoReset(t) \/ Finish(t)
    BY <2>5 DEF SwitchToFastboot, OpenTable, DoReset, Finish
  <2>6. CASE \E img \in Images : FlashOk(t, img) \/ FlashFails(t, img)
    BY <2>6 DEF FlashOk, FlashFails
  <2>7. CASE FlashDone(t) \/ Record(t)
    BY <2>7 DEF FlashDone, Record
  <2>8. CASE UpdateSucceeded(t) \/ UpdateFailed(t) \/ CxpReboot(t)
    BY <2>8 DEF UpdateSucceeded, UpdateFailed, CxpReboot
  <2> QED BY <1>1, <2>1, <2>2, <2>3, <2>4, <2>5, <2>6, <2>7, <2>8, <2>9 DEF ThreadStep
<1>2. CASE \E kind \in scenario.kinds : \E current, old \in SUBSET ImagesOf(kind) :
               PackageMoved(kind, current, old)
  BY <1>2 DEF PackageMoved
<1>3. CASE \E what \in {"flz", "folder"} : Notice(what)
  BY <1>3 DEF Notice
<1>4. CASE Restart
  BY <1>4 DEF Restart
<1>6. CASE \E read \in SUBSET Images : PrefReads(read)
  BY <1>6 DEF PrefReads
<1>5. CASE UNCHANGED vars
  BY <1>5 DEF vars
<1> QED BY <1>1, <1>2, <1>3, <1>4, <1>5, <1>6 DEF Next

\* Only an arriving package, a notice and a restart are counted, and only the two
\* threads take events and notices.
LEMMA BoundTypeStep == BoundType /\ [Next]_vars => BoundType' /\ scenario' = scenario
<1> SUFFICES ASSUME BoundType, [Next]_vars PROVE BoundType' /\ scenario' = scenario
  OBVIOUS
<1> USE ConstantsAssumption DEF BoundType, bounds, events
<1>1. ASSUME NEW t \in Threads, ThreadStep(t) PROVE BoundType' /\ scenario' = scenario
  <2>1. CASE ReadEvent(t)
    BY <2>1 DEF ReadEvent
  <2>2. CASE TakeNotice(t)
    BY <2>2 DEF TakeNotice
  <2>3. CASE ~ReadEvent(t) /\ ~TakeNotice(t)
    <3>1. UNCHANGED <<events, bounds>>
      BY <1>1, <2>3, Zenon DEF ThreadStep, CheckUpdateData, Settle, TestProcessing, Begin,
         Query, VersionArrives, VersionFails, AskEsim, EsimEnds, FindImages, GenerateTable,
         CheckTable,
         SwitchToFastboot, OpenTable, FlashOk, FlashFails, FlashDone, DoReset, Finish, Record,
         UpdateSucceeded, UpdateFailed, CxpReboot
    <3>2. QED
      BY <3>1
  <2> QED BY <2>1, <2>2, <2>3
<1>2. CASE \E kind \in scenario.kinds : \E current, old \in SUBSET ImagesOf(kind) :
               PackageMoved(kind, current, old)
  BY <1>2 DEF PackageMoved
<1>3. CASE \E what \in {"flz", "folder"} : Notice(what)
  BY <1>3 DEF Notice
<1>4. CASE Restart
  BY <1>4 DEF Restart
<1>6. CASE \E read \in SUBSET Images : PrefReads(read)
  BY <1>6 DEF PrefReads
<1>5. CASE UNCHANGED vars
  BY <1>5 DEF vars
<1> QED BY <1>1, <1>2, <1>3, <1>4, <1>5, <1>6 DEF Next

\* The files of a part belong to it alone.
LEMMA FilesOfParts ==
    ASSUME BoundType, NEW p \in SUBSET Parts, NEW q \in SUBSET Parts
    PROVE  /\ FilesOf(p \cup q) = FilesOf(p) \cup FilesOf(q)
           /\ FilesOf(p \ q) = FilesOf(p) \ FilesOf(q)
<1> DEFINE fw == FwImages \cup FwInfo
           dev == {DevImage} \cup DevInfo
<1>1. /\ DevImage \notin FwImages
      /\ (FwImages \cup {DevImage}) \cap (FwInfo \cup DevInfo) = {}
  BY ConstantsAssumption DEF BoundType, FwImages, FwSeq
<1>2. fw \cap dev = {}
  BY <1>1 DEF FwInfo, DevInfo
<1>3. \A x : FilesOf(x) = (IF "fw" \in x THEN fw ELSE {}) \cup (IF "dev" \in x THEN dev ELSE {})
  BY DEF FilesOf
<1> HIDE DEF fw, dev
<1>4. QED
  BY <1>2, <1>3

\* The folders and the files in them come and go together.
LEMMA ValueTypeStep == BoundType /\ ValueType /\ [Next]_vars => ValueType'
<1> SUFFICES ASSUME BoundType, ValueType, [Next]_vars PROVE ValueType'
  OBVIOUS
<1> USE DEF ValueType, locals, type, disk, module, Goto
<1>6. FilesOf(folders)' = FilesOf(folders')
  BY BoundTypeStep DEF FilesOf, FwImages, FwSeq
<1>0. {"idle", "check", "settle", "test", "begin", "query", "asking", "esim", "esimWait",
       "find", "generate", "table", "switch", "open", "flash", "reset", "finish", "record",
       "succeeded", "failed", "cxp"} \subseteq Labels
  BY DEF Labels, Attempt, Section
<1>1. ASSUME NEW t \in Threads, ThreadStep(t) PROVE ValueType'
  <2>1. CASE ReadEvent(t)
    BY <1>0, <1>6, <2>1 DEF ReadEvent
  <2>2. CASE TakeNotice(t)
    BY <1>0, <1>6, <2>2 DEF TakeNotice, BoundType
  <2>3. CASE CheckUpdateData(t)
    <3> DEFINE found == IF arg[t] = "flz" THEN flz ELSE folders
    <3>1. found \in SUBSET Parts /\ FilesOf(folders \cup found) = FilesOf(folders) \cup FilesOf(found)
      BY FilesOfParts
    <3>2. /\ g_update_type' \in {g_update_type, found}
          /\ \/ UNCHANGED <<folders, files>>
             \/ /\ folders' = folders \cup found
                /\ files' \subseteq files \cup FilesOf(found)
      BY <2>3 DEF CheckUpdateData
    <3>3. folders' \in SUBSET Parts /\ files' \in SUBSET FilesOf(folders')
      BY <3>1, <3>2
    <3>4. QED
      BY <1>0, <1>6, <2>3, <3>1, <3>2, <3>3 DEF CheckUpdateData
  <2>4. CASE Settle(t) \/ TestProcessing(t)
    BY <1>0, <1>6, <2>4 DEF Settle, TestProcessing
  <2>5. CASE Begin(t)
    BY <1>0, <1>6, <2>5 DEF Begin
  <2>6. CASE Query(t) \/ VersionArrives(t) \/ VersionFails(t)
    BY <1>0, <1>6, <2>6 DEF Query, VersionArrives, VersionFails
  <2>13. CASE AskEsim(t) \/ EsimEnds(t)
    BY <1>0, <1>6, <2>13 DEF AskEsim, EsimEnds
  <2>7. CASE FindImages(t) \/ GenerateTable(t)
    BY <1>0, <1>6, <2>7 DEF FindImages, GenerateTable
  <2>8. CASE CheckTable(t) \/ UpdateSucceeded(t)
    <3>1. \/ UNCHANGED <<folders, files>>
          \/ RemoveFlashData(g_update_type)
      BY <2>8 DEF CheckTable, UpdateSucceeded
    <3>2. FilesOf(folders \ g_update_type) = FilesOf(folders) \ FilesOf(g_update_type)
      BY FilesOfParts
    <3>3. folders' \in SUBSET Parts /\ files' \in SUBSET FilesOf(folders')
      BY <3>1, <3>2 DEF RemoveFlashData
    <3>4. QED
      BY <1>0, <1>6, <2>8, <3>3 DEF CheckTable, UpdateSucceeded
  <2>9. CASE SwitchToFastboot(t) \/ DoReset(t) \/ CxpReboot(t)
    BY <1>0, <1>6, <2>9 DEF SwitchToFastboot, DoReset, CxpReboot, Modes
  <2>10. CASE OpenTable(t) \/ Finish(t) \/ FlashDone(t) \/ UpdateFailed(t)
    BY <1>0, <1>6, <2>10 DEF OpenTable, Finish, FlashDone, UpdateFailed
  <2>11. CASE \E img \in Images : FlashOk(t, img) \/ FlashFails(t, img)
    BY <1>0, <1>6, <2>11 DEF FlashOk, FlashFails
  <2>12. CASE Record(t)
    BY <1>0, <1>6, <2>12 DEF Record, RecordFailure, RecordSuccess
  <2> QED BY <1>1, <2>1, <2>2, <2>3, <2>4, <2>5, <2>6, <2>7, <2>8, <2>9, <2>10, <2>11, <2>12,
             <2>13 DEF ThreadStep
<1>2. CASE \E kind \in scenario.kinds : \E current, old \in SUBSET ImagesOf(kind) :
               PackageMoved(kind, current, old)
  BY <1>2, <1>6, ConstantsAssumption, SMTT(30) DEF PackageMoved, BoundType
<1>3. CASE \E what \in {"flz", "folder"} : Notice(what)
  BY <1>3, <1>6 DEF Notice
<1>4. CASE Restart
  BY <1>0, <1>4, <1>6 DEF Restart, StartLabel, StartArg
<1>7. CASE \E read \in SUBSET Images : PrefReads(read)
  BY <1>6, <1>7 DEF PrefReads
<1>5. CASE UNCHANGED vars
  BY <1>5, <1>6 DEF vars
<1> QED BY <1>1, <1>2, <1>3, <1>4, <1>5, <1>7 DEF Next

\* A package has images, the device image is none of them, and all of them are asked
\* for, the device image last.
LEMMA ImagesOfPackage ==
    ASSUME BoundType
    PROVE  /\ FwSeq \in Seq(FwImages) /\ Len(FwSeq) \in Nat \ {0}
           /\ DevImage \notin FwImages
           /\ Asked \in Seq(Images) /\ Len(Asked) = Len(FwSeq) + 1
           /\ Asked[Len(Asked)] = DevImage
           /\ \A i \in 1..Len(FwSeq) : Asked[i] = FwSeq[i]
<1>1. /\ FwSeq \in Seq(FwImages) /\ FwSeq # <<>> /\ DevImage \notin FwImages
  BY ConstantsAssumption DEF BoundType, FwSeq, FwImages
<1>2. Len(FwSeq) \in Nat \ {0}
  BY <1>1
<1>3. FwSeq \in Seq(Images) /\ DevImage \in Images
  BY <1>1 DEF Images
<1>4. QED
  BY <1>1, <1>2, <1>3 DEF Asked

\* What Overwrite writes and keeps.
LEMMA OverwriteSeq ==
    ASSUME NEW S, NEW l \in Seq(S), NEW n \in 0..Len(l), NEW es \in Seq(S)
    PROVE  /\ Overwrite(l, n, es) \in Seq(S)
           /\ n + Len(es) <= Len(Overwrite(l, n, es))
           /\ \A i \in 1..n : Overwrite(l, n, es)[i] = l[i]
           /\ \A i \in 1..Len(es) : Overwrite(l, n, es)[n + i] = es[i]
<1> DEFINE a == SubSeq(l, 1, n)
           c == SubSeq(l, n + Len(es) + 1, Len(l))
<1>1. a \in Seq(S) /\ Len(a) = n /\ \A i \in 1..n : a[i] = l[i]
  OBVIOUS
<1>2. c \in Seq(S)
  <2>1. Len(l) \in Nat /\ Len(es) \in Nat /\ \A i \in 1..Len(l) : l[i] \in S
    OBVIOUS
  <2>2. QED
    BY <2>1, SMTT(30)
<1> HIDE DEF a, c
<1>3. (a \o es) \in Seq(S) /\ Len(a \o es) = n + Len(es)
  <2>1. a \in Seq(S) /\ es \in Seq(S) /\ Len(a) = n
    BY <1>1
  <2>2. QED
    BY <2>1, SMTT(30)
<1>4. \A i \in 1..n : (a \o es)[i] = l[i]
  BY <1>1, SMTT(30)
<1>5. \A i \in 1..Len(es) : (a \o es)[n + i] = es[i]
  BY <1>1
<1> DEFINE b == a \o es
<1> HIDE DEF b
<1>6. (b \o c) \in Seq(S) /\ Len(b \o c) = Len(b) + Len(c) /\ Len(c) \in Nat
  BY <1>2, <1>3 DEF b
<1>7. \A i \in 1..Len(b) : (b \o c)[i] = b[i]
  BY <1>2, <1>3 DEF b
<1>8. Overwrite(l, n, es) = b \o c
  BY DEF Overwrite, a, b, c
<1>9. QED
  BY <1>3, <1>4, <1>5, <1>6, <1>7, <1>8, SMTT(30) DEF b

\* An entry of the list names an image and says whether it is skipped.
LEMMA ListEntryType ==
    ASSUME NEW img \in Images
    PROVE  /\ ListEntry(img) \in Entry
           /\ ListEntry(img).img = img
           /\ ListEntry(img).skip = (g_update_based_type = "flz" /\ img \in matches)
BY DEF ListEntry, Entry

\* find_fw_download_image restarts the list; find_device_image appends to it.
LEMMA FoundImages ==
    ASSUME BoundType, ImageType, NEW fw \in Listings, NEW named
    PROVE  LET found == ListAfter(fw, named)
           IN  /\ found.list \in Seq(Entry)
               /\ found.count \in 0..Len(found.list)
               /\ FwFound => \A i \in 1..Len(fw) : /\ i \in 1..found.count
                                                  /\ found.list[i] = ListEntry(fw[i])
               /\ DevFound(named) => /\ found.count > 0
                                     /\ found.list[found.count] = ListEntry(DevImage)
<1> DEFINE entries == [i \in DOMAIN fw |-> ListEntry(fw[i])]
           list1  == IF FwFound THEN Overwrite(list, 0, entries) ELSE list
           count1 == IF FwFound THEN Len(fw) ELSE count
           dev == <<ListEntry(DevImage)>>
           found == ListAfter(fw, named)
<1>0. fw \in Seq(FwImages) /\ Len(fw) \in Nat /\ DOMAIN fw = 1..Len(fw)
  <2>1. PICK n \in 0..Len(FwSeq) : fw \in [1..n -> FwImages]
    BY DEF Listings
  <2>2. n \in Nat
    BY <2>1, ImagesOfPackage
  <2>3. QED
    BY <2>1, <2>2
<1>1. /\ found.list = IF DevFound(named) THEN Overwrite(list1, count1, dev) ELSE list1
      /\ found.count = IF DevFound(named) THEN count1 + 1 ELSE count1
  BY DEF ListAfter
<1>2. entries \in Seq(Entry) /\ Len(entries) = Len(fw)
  <2>1. \A i \in DOMAIN fw : fw[i] \in Images
    BY <1>0 DEF Images
  <2>2. \A i \in DOMAIN fw : ListEntry(fw[i]) \in Entry
    BY <2>1, ListEntryType
  <2>3. QED
    BY <1>0, <2>1, <2>2
<1>3. dev \in Seq(Entry) /\ Len(dev) = 1 /\ dev[1] = ListEntry(DevImage)
  <2>1. ListEntry(DevImage) \in Entry
    BY ListEntryType DEF Images
  <2>2. QED
    BY <2>1
<1>4. /\ list1 \in Seq(Entry) /\ count1 \in 0..Len(list1)
      /\ FwFound => \A i \in 1..Len(fw) : list1[i] = ListEntry(fw[i])
  <2>1. CASE FwFound
    <3>1. list \in Seq(Entry) /\ 0 \in 0..Len(list)
      BY DEF ImageType
    <3>3. \A i \in 1..Len(fw) : entries[i] = ListEntry(fw[i])
      BY <1>0
    <3> HIDE DEF entries
    <3>2. /\ Overwrite(list, 0, entries) \in Seq(Entry)
          /\ 0 + Len(entries) <= Len(Overwrite(list, 0, entries))
          /\ \A i \in 1..Len(entries) : Overwrite(list, 0, entries)[0 + i] = entries[i]
      BY <1>2, <3>1, OverwriteSeq
    <3>4. QED
      BY <1>0, <1>2, <2>1, <3>1, <3>2, <3>3
  <2>2. CASE ~FwFound
    BY <2>2 DEF ImageType
  <2>3. QED
    BY <2>1, <2>2
<1>5. FwFound => count1 = Len(fw)
  OBVIOUS
<1> HIDE DEF dev, list1, count1, found
<1>6. CASE DevFound(named)
  <2>1. found.list = Overwrite(list1, count1, dev) /\ found.count = count1 + 1
    BY <1>1, <1>6
  <2>2. /\ Overwrite(list1, count1, dev) \in Seq(Entry)
        /\ count1 + Len(dev) <= Len(Overwrite(list1, count1, dev))
        /\ \A i \in 1..count1 : Overwrite(list1, count1, dev)[i] = list1[i]
        /\ \A i \in 1..Len(dev) : Overwrite(list1, count1, dev)[count1 + i] = dev[i]
    <3>1. list1 \in Seq(Entry) /\ count1 \in 0..Len(list1) /\ dev \in Seq(Entry)
      BY <1>3, <1>4
    <3>2. QED
      BY <3>1, OverwriteSeq, SMTT(30)
  <2>3. count1 \in Nat /\ found.list[count1 + 1] = ListEntry(DevImage)
    BY <1>3, <1>4, <2>1, <2>2
  <2>4. FwFound => \A i \in 1..Len(fw) : i \in 1..found.count /\ found.list[i] = ListEntry(fw[i])
    BY <1>0, <1>4, <1>5, <2>1, <2>2, <2>3
  <2>5. QED
    BY <1>3, <1>6, <2>1, <2>2, <2>3, <2>4 DEF found
<1>7. CASE ~DevFound(named)
  <2>1. found.list = list1 /\ found.count = count1
    BY <1>1, <1>7
  <2>2. QED
    BY <1>0, <1>4, <1>5, <1>7, <2>1 DEF found
<1>8. QED
  BY <1>6, <1>7

\* The list, the table and the images to flash name images of the package only, and
\* g_pcie_img_number_count never passes the end of the list.
LEMMA ImageTypeStep ==
    BoundType /\ ValueType /\ ImageType /\ [Next]_vars => ImageType'
<1> SUFFICES ASSUME BoundType, ValueType, ImageType, [Next]_vars PROVE ImageType'
  OBVIOUS
<1>0. Images' = Images /\ Entry' = Entry /\ Asked' = Asked
  BY BoundTypeStep DEF Images, Entry, Asked, FwImages, FwSeq
<1>1. /\ Len(Asked) \in Nat \ {0, 1} /\ DOMAIN Asked = 1..Len(Asked)
      /\ \A i \in 1..Len(Asked) : Asked[i] \in Images
      /\ FwSeq[1] \in Images
  BY ImagesOfPackage
<1> USE DEF ImageType, locals, images, module, queries
<1>2. ASSUME NEW t \in Threads, ThreadStep(t) PROVE ImageType'
  <2>1. CASE \/ ReadEvent(t) \/ TakeNotice(t) \/ CheckUpdateData(t) \/ Settle(t)
             \/ TestProcessing(t) \/ Begin(t)
    BY <1>0, <2>1 DEF ReadEvent, TakeNotice, CheckUpdateData, Settle, TestProcessing, Begin
  <2>2. CASE Query(t)
    BY <1>0, <1>1, <2>2 DEF Query
  <2>3. CASE VersionArrives(t)
    <3>1. Asked[idx[t]] \in Images /\ (idx[t] < Len(Asked) => Asked[idx[t] + 1] \in Images)
      BY <1>1
    <3>2. matches' \in SUBSET Images
      BY <2>3, <3>1 DEF VersionArrives
    <3>3. idx' \in [Threads -> 1..Len(Asked)]
      BY <1>1, <2>3 DEF VersionArrives
    <3>4. misled' \in SUBSET Images
      BY <2>3, <3>1 DEF VersionArrives
    <3>5. QED
      BY <1>0, <2>3, <3>2, <3>3, <3>4 DEF VersionArrives
  <2>4. CASE VersionFails(t)
    BY <1>0, <1>1, <2>4 DEF VersionFails
  <2>12. CASE AskEsim(t) \/ EsimEnds(t)
    BY <1>0, <2>12 DEF AskEsim, EsimEnds
  <2>5. CASE FindImages(t)
    <3>1. list' \in Seq(Entry) /\ count' \in 0..Len(list')
      BY <2>5, FoundImages DEF FindImages
    <3>2. UNCHANGED <<idx, todo, matches, table, installed, cache, misled>>
      BY <2>5 DEF FindImages
    <3>3. QED
      BY <1>0, <3>1, <3>2
  <2>6. CASE GenerateTable(t)
    <3>1. table' = {} \/ (table' = DownloadTable /\ ~TableFails)
      BY <2>6 DEF GenerateTable
    <3>2. \A i \in 1..count : list[i] \in Entry
      OBVIOUS
    <3>3. ~TableFails /\ g_update_type = {"dev"} => list[1] \in Entry
      BY DEF TableFails
    <3>4. ~TableFails => DownloadTable \in SUBSET Entry
      BY <3>2, <3>3 DEF DownloadTable
    <3>5. UNCHANGED <<idx, todo, matches, list, count, installed, cache, misled>>
      BY <2>6 DEF GenerateTable
    <3>6. QED
      BY <1>0, <3>1, <3>4, <3>5
  <2>7. CASE CheckTable(t) \/ SwitchToFastboot(t)
    BY <1>0, <2>7 DEF CheckTable, SwitchToFastboot
  <2>8. CASE OpenTable(t)
    <3>1. {e.img : e \in {f \in table : ~f.skip}} \in SUBSET Images
      BY DEF Entry
    <3>2. QED
      BY <1>0, <2>8, <3>1 DEF OpenTable
  <2>9. CASE \E img \in Images : FlashOk(t, img) \/ FlashFails(t, img)
    <3>1. PICK img \in Images : FlashOk(t, img) \/ FlashFails(t, img)
      BY <2>9
    <3>2. Outdated(img) \in Versions
      BY DEF Outdated, Versions
    <3>3. cache' \in [Images -> Versions]
      BY <3>1, <3>2 DEF FlashOk, FlashFails
    <3>4. QED
      BY <1>0, <3>1, <3>3 DEF FlashOk, FlashFails
  <2>10. CASE FlashDone(t) \/ DoReset(t) \/ Finish(t) \/ Record(t)
    BY <1>0, <2>10 DEF FlashDone, DoReset, Finish, Record
  <2>11. CASE UpdateSucceeded(t) \/ UpdateFailed(t) \/ CxpReboot(t)
    BY <1>0, <2>11 DEF UpdateSucceeded, UpdateFailed, CxpReboot
  <2> QED BY <1>2, <2>1, <2>2, <2>3, <2>4, <2>5, <2>6, <2>7, <2>8, <2>9, <2>10, <2>11,
             <2>12 DEF ThreadStep
<1>3. CASE \E kind \in scenario.kinds : \E current, old \in SUBSET ImagesOf(kind) :
               PackageMoved(kind, current, old)
  BY <1>0, <1>3 DEF PackageMoved, ImagesOf, Images, Versions
<1>4. CASE \E what \in {"flz", "folder"} : Notice(what)
  BY <1>0, <1>4 DEF Notice
<1>5. CASE Restart
  BY <1>0, <1>1, <1>5 DEF Restart
<1>6. CASE UNCHANGED vars
  BY <1>0, <1>6 DEF vars
<1>7. CASE \E read \in SUBSET Images : PrefReads(read)
  BY <1>0, <1>7 DEF PrefReads, Versions
<1> QED BY <1>2, <1>3, <1>4, <1>5, <1>6, <1>7 DEF Next

\* All of it holds when pwl_fwupdate starts.
LEMMA InitTypeInv == Init => TypeInv
<1> SUFFICES ASSUME Init PROVE TypeInv
  OBVIOUS
<1>1. FlagType
  BY DEF Init, FlagType
<1>2. BoundType
  BY ConstantsAssumption DEF Init, BoundType
<1>3. ValueType
  BY DEF Init, ValueType, StartLabel, StartArg, Labels, Attempt, Modes, FilesOf
<1>4. ImageType
  <2>1. Len(Asked) \in Nat \ {0}
    BY <1>2, ImagesOfPackage
  <2>2. QED
    BY <2>1 DEF Init, ImageType, Versions
<1> QED BY <1>1, <1>2, <1>3, <1>4 DEF TypeInv

\* The types hold in every state.
LEMMA TypeInvHolds == Spec => []TypeInv
<1>1. TypeInv /\ [Next]_vars => TypeInv'
  BY FlagTypeStep, BoundTypeStep, ValueTypeStep, ImageTypeStep DEF TypeInv
<1> QED BY <1>1, InitTypeInv, PTL DEF Spec

\* The image list, its count and the flash table stay within the images of the
\* package, the folders hold only files of their parts, and no event is read
\* that did not come, whatever the two threads do to the variables they share.
THEOREM TypeCorrect == Spec => []TypeOK
<1>1. TypeInv => TypeOK
  <2> SUFFICES ASSUME TypeInv PROVE TypeOK
    OBVIOUS
  <2>1. moved \in 0..scenario.packages
    BY ConstantsAssumption DEF TypeInv, BoundType
  <2>2. QED
    BY <2>1 DEF TypeInv, FlagType, BoundType, ValueType, ImageType, TypeOK
<1> QED BY <1>1, TypeInvHolds, PTL

-------------------------------------------------------------------------------
(* The flash data of the main loop.                                         *)

Lone  == scenario.threads = {"main"} /\ WholePackages
Place == pc["main"]

\* The folders are empty, or hold the package that the attempt of the main loop is
\* about, with its descriptions.
PackageInv ==
    /\ pc["package"] = "idle"
    /\ folders \in {{}, flz}
    /\ flz = {} \/ "fw" \in flz
    /\ FilesOf(folders) \ Images \subseteq files
    /\ Place \notin {"idle", "check"} /\ arg["main"] # "startup" /\ folders # {} =>
          g_update_type = folders
    /\ Place # "asking" => idx["main"] = 1
    /\ Place \in {"asking", "esim", "esimWait"} => arg["main"] # "folder"
    /\ Place \in Attempt \ {"begin"} /\ arg["main"] # "startup" =>
          g_update_based_type = arg["main"]
    /\ Place \notin {"reset", "finish", "record"} => ok["main"] = FALSE

\* The images in the folders; and those the module has, or has as far as the attempt
\* was told.
Source == files \cap Images
Held   == installed \cup misled

\* One of the entries is about the image, and skips it only if the module has it.
Treated(img, entries) ==
    \E e \in entries : e.img = img /\ (e.skip => img \in Held)

\* From the versions over the list, the table and the images to flash, an image of
\* the folders is left out only if the module has it.
ProgressInv ==
    /\ Place = "asking" /\ arg["main"] = "flz" => \A j \in 1..(idx["main"] - 1) :
          Asked[j] \in matches => Asked[j] \in Held \/ Asked[j] = Asked[idx["main"]]
    /\ Place \in {"esim", "esimWait", "find"} /\ arg["main"] = "flz" => matches \subseteq Held
    /\ Place = "generate" =>
          /\ \A img \in Source \ {DevImage} : Treated(img, {list[i] : i \in 1..count})
          /\ DevImage \in Source => count > 0 /\ Treated(DevImage, {list[count]})
    /\ Place \in {"table", "switch", "open"} => \A img \in Source : Treated(img, table)
    /\ Place = "flash" => Source \subseteq Held \cup todo["main"]
    /\ ok["main"] = TRUE \/ Place = "succeeded" => Source \subseteq Held

SourceInv == Lone => PackageInv /\ (folders # {} => ProgressInv)

\* Only main moves, and it reads no package event.
LEMMA LoneThread ==
    ASSUME Lone, PackageInv, NEW t \in Threads, ThreadStep(t)
    PROVE  t = "main" /\ ~ReadEvent(t)
<1>1. ~ReadEvent(t)
  BY DEF Lone, ReadEvent
<1>2. t \in scenario.threads \/ pc[t] # "idle"
  BY Zenon DEF ThreadStep, ReadEvent, TakeNotice, CheckUpdateData, Settle, TestProcessing, Begin,
     Query, VersionArrives, VersionFails, AskEsim, EsimEnds, FindImages, GenerateTable,
     CheckTable, SwitchToFastboot, OpenTable, FlashOk, FlashFails, FlashDone, DoReset, Finish, Record,
     UpdateSucceeded, UpdateFailed, CxpReboot
<1>3. QED
  BY <1>1, <1>2 DEF Lone, PackageInv, Threads

\* The package stays the one that the attempt is about, until another one replaces
\* it and takes the folders away.
LEMMA PackageInvStep ==
    ASSUME TypeInv, Lone, PackageInv, [Next]_vars
    PROVE  PackageInv'
<1> USE DEF PackageInv, Place, locals, type, disk, Goto
<1>7. /\ BoundType /\ scenario.lost \subseteq Images
      /\ Images' = Images /\ FilesOf(folders)' = FilesOf(folders')
  BY BoundTypeStep DEF TypeInv, Lone, WholePackages, Images, FilesOf, FwImages, FwSeq
<1>0. /\ pc \in [Threads -> Labels] /\ arg \in [Threads -> {"flz", "folder", "startup"}]
      /\ \A t \in Threads : arg[t] = "startup" =>
             pc[t] \in {"asking", "esim", "esimWait", "idle"}
      /\ ok \in [Threads -> BOOLEAN]
      /\ DOMAIN idx = Threads
      /\ {flz, folders, g_update_type} \subseteq SUBSET Parts
  BY DEF TypeInv, FlagType, ValueType, ImageType
<1>1. "main" \in Threads /\ "package" \in Threads
  BY DEF Threads
<1>2. ASSUME NEW t \in Threads, ThreadStep(t) PROVE PackageInv'
  <2>0. t = "main" /\ ~ReadEvent(t)
    BY <1>2, LoneThread
  <2>1. CASE TakeNotice(t)
    BY <1>0, <1>1, <1>7, <2>0, <2>1 DEF TakeNotice, Attempt, Section
  <2>2. CASE CheckUpdateData(t)
    <3> DEFINE found == IF arg[t] = "flz" THEN flz ELSE folders
    <3>1. found \in {{}, flz} /\ folders \subseteq flz
      OBVIOUS
    <3>2. CASE found = {}
      BY <1>0, <1>1, <1>7, <2>0, <2>2, <3>2 DEF CheckUpdateData, Attempt, Section
    <3>3. CASE found # {}
      <4>1. found = flz /\ folders \cup found = flz
        BY <3>1, <3>3
      <4>2. /\ g_update_type' = flz /\ folders' = flz
            /\ \E l \in {"settle", "test"} : pc' = [pc EXCEPT ![t] = l]
            /\ UNCHANGED <<arg, idx, ok, g_update_based_type, flz>>
        BY <2>2, <3>3, <4>1 DEF CheckUpdateData
      <4>3. FilesOf(flz) \ Images \subseteq files'
        <5>1. CASE arg[t] = "flz"
          <6>1. PICK left \in SUBSET (FilesOf(flz) \cap scenario.lost) :
                    files' = files \cup (FilesOf(flz) \ left)
            BY <2>2, <3>3, <4>1, <5>1 DEF CheckUpdateData
          <6>2. QED
            BY <1>7, <6>1
        <5>2. CASE arg[t] # "flz"
          BY <2>2, <3>3, <4>1, <5>2 DEF CheckUpdateData
        <5>3. QED
          BY <5>1, <5>2
      <4>4. QED
        BY <1>0, <1>1, <1>7, <2>0, <2>2, <4>2, <4>3 DEF CheckUpdateData, Attempt, Section
    <3>4. QED
      BY <3>2, <3>3
  <2>3. CASE Settle(t) \/ TestProcessing(t)
    BY <1>0, <1>1, <1>7, <2>0, <2>3 DEF Settle, TestProcessing, Attempt, Section
  <2>4. CASE Begin(t)
    BY <1>0, <1>1, <1>7, <2>0, <2>4 DEF Begin, Attempt, Section
  <2>5. CASE Query(t)
    BY <1>0, <1>1, <1>7, <2>0, <2>5 DEF Query, Attempt, Section
  <2>6. CASE VersionArrives(t)
    BY <1>0, <1>1, <1>7, <2>0, <2>6 DEF VersionArrives, Attempt, Section
  <2>7. CASE VersionFails(t)
    BY <1>0, <1>1, <1>7, <2>0, <2>7 DEF VersionFails, Attempt, Section
  <2>8. CASE FindImages(t) \/ GenerateTable(t)
    BY <1>0, <1>1, <1>7, <2>0, <2>8 DEF FindImages, GenerateTable, Attempt, Section
  <2>15. CASE AskEsim(t) \/ EsimEnds(t)
    BY <1>0, <1>1, <1>7, <2>0, <2>15 DEF AskEsim, EsimEnds, Attempt, Section
  <2>9. CASE CheckTable(t) \/ UpdateSucceeded(t)
    <3>1. FilesOf(folders \ g_update_type) = FilesOf(folders) \ FilesOf(g_update_type)
      BY <1>0, <1>7, FilesOfParts
    <3>2. /\ UNCHANGED <<folders, files>> \/ RemoveFlashData(g_update_type)
          /\ UNCHANGED <<flz, arg, idx, ok, type>>
          /\ pc[t] \in {"table", "succeeded"}
          /\ \E l \in {"failed", "switch", "idle", "cxp"} : pc' = [pc EXCEPT ![t] = l]
      BY <2>0, <2>9 DEF CheckTable, UpdateSucceeded
    <3>3. arg["main"] # "startup"
      BY <1>0, <1>1, <2>0, <3>2
    <3>4. FilesOf(folders') \ Images \subseteq files'
      BY <3>1, <3>2 DEF RemoveFlashData
    <3>5. folders' \in {{}, folders}
      BY <2>0, <3>2, <3>3 DEF RemoveFlashData
    <3>6. /\ pc'["package"] = "idle" /\ pc'["main"] \in {"failed", "switch", "idle", "cxp"}
          /\ idx'["main"] = 1 /\ ok'["main"] = FALSE
          /\ g_update_based_type' = arg'["main"] \/ pc'["main"] # "switch"
      BY <1>0, <1>1, <2>0, <2>9, <3>2, <3>3 DEF CheckTable, UpdateSucceeded, Attempt, Section
    <3>7. folders' # {} => g_update_type' = folders'
      BY <1>0, <1>1, <2>0, <3>2, <3>3, <3>5
    <3>8. /\ folders' \in {{}, flz'} /\ (flz' = {} \/ "fw" \in flz')
          /\ FilesOf(folders)' \ Images' \subseteq files'
      BY <1>7, <3>2, <3>4, <3>5
    <3>9. QED
      BY <3>6, <3>7, <3>8 DEF Attempt, Section
  <2>10. CASE SwitchToFastboot(t) \/ OpenTable(t)
    BY <1>0, <1>1, <1>7, <2>0, <2>10 DEF SwitchToFastboot, OpenTable, Attempt, Section
  <2>11. CASE \E img \in Images : FlashOk(t, img) \/ FlashFails(t, img)
    BY <1>0, <1>1, <1>7, <2>0, <2>11 DEF FlashOk, FlashFails, Attempt, Section
  <2>12. CASE FlashDone(t) \/ DoReset(t) \/ Finish(t)
    BY <1>0, <1>1, <1>7, <2>0, <2>12 DEF FlashDone, DoReset, Finish, Attempt, Section
  <2>13. CASE Record(t)
    BY <1>0, <1>1, <1>7, <2>0, <2>13 DEF Record, RecordFailure, RecordSuccess, Attempt, Section
  <2>14. CASE UpdateFailed(t) \/ CxpReboot(t)
    BY <1>0, <1>1, <1>7, <2>0, <2>14 DEF UpdateFailed, CxpReboot, Attempt, Section
  <2> QED BY <1>2, <2>0, <2>1, <2>2, <2>3, <2>4, <2>5, <2>6, <2>7, <2>8, <2>9, <2>10, <2>11,
             <2>12, <2>13, <2>14, <2>15 DEF ThreadStep
<1>3. ASSUME NEW kind \in scenario.kinds, NEW current, NEW old, PackageMoved(kind, current, old)
      PROVE  PackageInv'
  <2>1. "fw" \in kind
    <3>1. kind \in SUBSET Parts /\ kind # {} /\ kind # {"dev"}
      BY <1>7, ConstantsAssumption DEF Lone, WholePackages, BoundType
    <3>2. "fw" \notin kind => kind \subseteq {"dev"}
      BY <3>1 DEF Parts
    <3>3. QED
      BY <3>1, <3>2
  <2>2. FilesOf({}) = {}
    BY DEF FilesOf
  <2>3. QED
    BY <1>0, <1>3, <1>7, <2>1, <2>2 DEF PackageMoved
<1>4. CASE \E what \in {"flz", "folder"} : Notice(what)
  BY <1>4, <1>7 DEF Notice
<1>5. CASE Restart
  BY <1>1, <1>5, <1>7 DEF Restart, StartLabel, StartArg, AtStartup, Attempt, Section
<1>6. CASE UNCHANGED vars
  BY <1>6, <1>7 DEF vars
<1>8. CASE \E read \in SUBSET Images : PrefReads(read)
  BY <1>7, <1>8 DEF PrefReads
<1> QED BY <1>2, <1>3, <1>4, <1>5, <1>6, <1>8 DEF Next

\* The image files of a package that has both parts, or firmware alone.
LEMMA SourceImages ==
    ASSUME TypeInv
    PROVE  /\ Source \ {DevImage} = FwImages \cap files
           /\ DevImage \in Source => "dev" \in folders
<1>1. /\ DevImage \notin FwImages
      /\ (FwImages \cup {DevImage}) \cap (FwInfo \cup DevInfo) = {}
  BY ConstantsAssumption DEF TypeInv, BoundType, FwImages, FwSeq
<1>2. files \subseteq FilesOf(folders)
  BY DEF TypeInv, ValueType
<1>3. QED
  BY <1>1, <1>2 DEF Source, Images, FilesOf

\* find_fw_download_image and find_device_image list every image of the folders.
LEMMA ListIsComplete ==
    ASSUME TypeInv, Lone, PackageInv, ProgressInv, folders # {}, FindImages("main")
    PROVE  /\ \A img \in Source \ {DevImage} : Treated(img, {list'[i] : i \in 1..count'})
           /\ DevImage \in Source => count' > 0 /\ Treated(DevImage, {list'[count']})
<1>1. /\ Place = "find" /\ "fw" \in folders /\ g_update_type = folders
      /\ g_update_based_type = arg["main"]
  <2>1. Place = "find" /\ "main" \in Threads
    BY DEF Place, FindImages, Threads
  <2>2. arg["main"] # "startup"
    BY <2>1 DEF TypeInv, ValueType, Place
  <2>3. QED
    BY <2>1, <2>2 DEF PackageInv, Attempt, Section
<1>2. Images \cap (FwInfo \cup DevInfo) = {} /\ "map" \notin scenario.lost
  BY ConstantsAssumption
  DEF TypeInv, BoundType, Lone, WholePackages, Images, FwImages, FwSeq, DevInfo
<1>3. PICK fw \in Listings : list' = ListAfter(fw, TRUE).list /\ count' = ListAfter(fw, TRUE).count
  BY <1>2 DEF FindImages, Naming
<1>4. FwFound
  BY <1>1, <1>2 DEF FwFound, PackageInv, FilesOf, FwInfo
<1>5. DevImage \in Source => DevFound(TRUE)
  BY <1>1, <1>2, SourceImages DEF DevFound, PackageInv, FilesOf, DevInfo, Source
<1>6. /\ \A i \in 1..Len(fw) : i \in 1..count' /\ list'[i] = ListEntry(fw[i])
      /\ DevImage \in Source => count' > 0 /\ list'[count'] = ListEntry(DevImage)
  BY <1>3, <1>4, <1>5, FoundImages DEF TypeInv
<1>7. ASSUME NEW img \in Images
      PROVE  ListEntry(img).img = img /\ (ListEntry(img).skip => img \in Held)
  <2>1. ListEntry(img).skip => arg["main"] = "flz" /\ img \in matches
    BY <1>1, <1>7, ListEntryType
  <2>2. QED
    BY <1>1, <1>7, <2>1, ListEntryType DEF ProgressInv
<1>8. ASSUME NEW img \in Source \ {DevImage}
      PROVE  Treated(img, {list'[i] : i \in 1..count'})
  <2>1. img \in ToSet(fw) /\ img \in Images
    BY <1>8, SourceImages DEF Listings, Source
  <2>2. PICK i \in 1..Len(fw) : fw[i] = img
    <3>1. PICK n \in 0..Len(FwSeq) : fw \in [1..n -> FwImages]
      BY DEF Listings
    <3>2. n \in Nat
      BY <3>1, ImagesOfPackage DEF TypeInv
    <3>3. fw \in Seq(FwImages) /\ DOMAIN fw = 1..Len(fw)
      BY <3>1, <3>2
    <3>4. QED
      BY <2>1, <3>3 DEF ToSet
  <2>3. i \in 1..count' /\ list'[i] = ListEntry(img)
    BY <1>6, <2>2
  <2>4. QED
    BY <1>7, <2>1, <2>3 DEF Treated
<1>9. DevImage \in Source => count' > 0 /\ Treated(DevImage, {list'[count']})
  BY <1>6, <1>7 DEF Treated, Images
<1> QED BY <1>8, <1>9

\* generate_download_table puts every image of the list into the table.
LEMMA TableIsComplete ==
    ASSUME TypeInv, PackageInv, ProgressInv, folders # {}, GenerateTable("main")
    PROVE  pc'["main"] = "table" => \A img \in Source : Treated(img, table')
<1> SUFFICES ASSUME pc'["main"] = "table", NEW img \in Source PROVE Treated(img, table')
  OBVIOUS
<1>1. Place = "generate" /\ "fw" \in folders /\ g_update_type = folders /\ folders \subseteq Parts
  BY DEF PackageInv, Place, GenerateTable, TypeInv, ValueType, Threads
<1>2. table' = DownloadTable
  BY DEF GenerateTable, Goto, TypeInv, ValueType, Threads
<1> DEFINE current == {list[i] : i \in 1..count}
<1>3. g_update_type # {"dev"}
  BY <1>1
<1>4. CASE img # DevImage
  <2>1. PICK e \in current : e.img = img /\ (e.skip => img \in Held)
    BY <1>1, <1>4 DEF ProgressInv, Treated
  <2>2. e \in DownloadTable
    BY <1>3, <1>4, <2>1 DEF DownloadTable, IsDev
  <2>3. QED
    BY <1>2, <2>1, <2>2 DEF Treated
<1>5. CASE img = DevImage
  <2>1. /\ count > 0 /\ list[count].img = DevImage
        /\ list[count].skip => DevImage \in Held
    BY <1>1, <1>5 DEF ProgressInv, Treated
  <2>2. "dev" \in g_update_type
    BY <1>1, <1>5, SourceImages
  <2>3. list[count] \in DownloadTable
    BY <1>3, <2>1, <2>2 DEF DownloadTable, IsDev
  <2>4. QED
    BY <1>2, <1>5, <2>1, <2>3 DEF Treated
<1>6. QED
  BY <1>4, <1>5

\* The folders are emptied, or stay as they are, unless the package is unzipped or
\* replaced.
LEMMA FoldersKept ==
    ASSUME TypeInv, Lone, PackageInv, [Next]_vars, folders' # {}
    PROVE  \/ UNCHANGED <<folders, files>>
           \/ CheckUpdateData("main")
<1> USE DEF disk
<1>1. ASSUME NEW t \in Threads, ThreadStep(t) 
      PROVE  UNCHANGED <<folders, files>> \/ CheckUpdateData("main")
  <2>0. t = "main" /\ ~ReadEvent(t)
    BY <1>1, LoneThread
  <2>1. CASE CheckTable(t) \/ UpdateSucceeded(t)
    <3>1. \/ UNCHANGED <<folders, files>>
          \/ folders' = folders \ g_update_type
      BY <2>1, Zenon DEF CheckTable, UpdateSucceeded, RemoveFlashData
    <3>2. folders # {} => g_update_type = folders
      <4>1. pc["main"] \in {"table", "succeeded"} /\ "main" \in Threads
        BY <2>0, <2>1 DEF CheckTable, UpdateSucceeded
      <4>2. arg["main"] # "startup"
        BY <4>1 DEF TypeInv, ValueType
      <4>3. QED
        BY <4>1, <4>2 DEF PackageInv, Place
    <3>3. QED
      BY <3>1, <3>2
  <2>2. CASE ~CheckTable(t) /\ ~UpdateSucceeded(t) /\ ~CheckUpdateData(t)
    BY <1>1, <2>2, Zenon DEF ThreadStep, ReadEvent, TakeNotice, Settle, TestProcessing, Begin,
       Query, VersionArrives, VersionFails, AskEsim, EsimEnds, FindImages, GenerateTable,
       SwitchToFastboot, OpenTable, FlashOk, FlashFails, FlashDone, DoReset, Finish, Record,
       UpdateFailed, CxpReboot
  <2> QED BY <2>0, <2>1, <2>2
<1>2. ASSUME NEW kind, NEW current, NEW old, PackageMoved(kind, current, old) PROVE FALSE
  BY <1>2 DEF PackageMoved
<1>3. CASE (\E what \in {"flz", "folder"} : Notice(what)) \/ Restart \/ UNCHANGED vars
           \/ (\E read \in SUBSET Images : PrefReads(read))
  BY <1>3 DEF Notice, Restart, PrefReads, vars
<1> QED BY <1>1, <1>2, <1>3 DEF Next

\* No step loses track of an image of the folders.
LEMMA ProgressInvStep ==
    ASSUME TypeInv, Lone, PackageInv, PackageInv', folders # {} => ProgressInv,
           [Next]_vars, folders' # {}
    PROVE  ProgressInv'
<1>0. /\ pc \in [Threads -> Labels] /\ ok \in [Threads -> BOOLEAN]
      /\ idx \in [Threads -> 1..Len(Asked)] /\ todo \in [Threads -> SUBSET Images]
      /\ matches \subseteq Images /\ table \subseteq Entry
      /\ "main" \in Threads
      /\ arg \in [Threads -> {"flz", "folder", "startup"}]
  BY DEF TypeInv, FlagType, ValueType, ImageType, Threads
<1>1. scenario' = scenario /\ Images' = Images /\ Asked' = Asked
  BY BoundTypeStep DEF TypeInv, Images, FwImages, FwSeq, Asked
<1>2. UNCHANGED files => Source' = Source
  BY <1>1 DEF Source
<1>3. CASE CheckUpdateData("main")
  <2>1. pc'["main"] \in {"idle", "settle", "test"}
    BY <1>0, <1>3 DEF CheckUpdateData, Goto
  <2>2. ok'["main"] = FALSE
    BY <2>1 DEF PackageInv, Place
  <2>3. QED
    BY <2>1, <2>2 DEF ProgressInv, Place
<1>4. CASE UNCHANGED <<folders, files>>
  <2>0. Source' = Source /\ folders # {} /\ ProgressInv
    BY <1>2, <1>4
  <2> USE DEF Place, Goto, locals, images, module, queries, Held
  <2>1. ASSUME pc'["main"] \in {"idle", "check", "settle", "test", "begin", "query", "failed", "cxp"}
        PROVE  ProgressInv'
    <3>1. ok'["main"] = FALSE
      BY <2>1 DEF PackageInv
    <3>2. QED
      BY <2>1, <3>1 DEF ProgressInv
  <2>2. ASSUME NEW t \in Threads, ThreadStep(t) PROVE ProgressInv'
    <3>0. t = "main" /\ ~ReadEvent(t)
      BY <2>2, LoneThread
    <3>1. CASE \/ TakeNotice(t) \/ Settle(t) \/ TestProcessing(t) \/ Begin(t)
               \/ VersionFails(t) \/ UpdateFailed(t) \/ CxpReboot(t) \/ CheckUpdateData(t)
      BY <1>0, <1>3, <2>1, <3>0, <3>1 DEF TakeNotice, Settle, TestProcessing, Begin,
         VersionFails, UpdateFailed, CxpReboot
    <3>14. CASE AskEsim(t) \/ EsimEnds(t)
      <4>1. /\ pc["main"] \in {"esim", "esimWait"} /\ ok'["main"] = FALSE
            /\ UNCHANGED <<arg, matches, installed, misled, ok>>
            /\ pc'["main"] \in {"esimWait", "idle", "find"}
        BY <1>0, <3>0, <3>14 DEF AskEsim, EsimEnds, PackageInv
      <4>2. QED
        BY <2>0, <4>1 DEF ProgressInv
    <3>2. CASE Query(t)
      <4>1. ok'["main"] = FALSE /\ idx'["main"] = 1
        BY <1>0, <3>0, <3>2 DEF Query, PackageInv
      <4>2. pc'["main"] = "asking" \/ (pc'["main"] = "find" /\ arg'["main"] = "folder")
        BY <1>0, <3>0, <3>2 DEF Query
      <4>3. QED
        BY <4>1, <4>2 DEF ProgressInv
    <3>3. CASE VersionArrives(t)
      <4> DEFINE n == idx["main"]
                 known == IF Shown(Asked[n]) THEN matches \cup {Asked[n]}
                          ELSE matches \ {Asked[n]}
      <4>1. /\ n \in 1..Len(Asked) /\ Len(Asked) \in Nat /\ DOMAIN Asked = 1..Len(Asked)
            /\ UNCHANGED <<installed, ok, arg>> /\ pc["main"] = "asking"
        BY <1>0, <3>0, <3>3, ImagesOfPackage DEF VersionArrives, TypeInv
      <4>7. /\ misled \subseteq misled'
            /\ arg["main"] = "flz" /\ Shown(Asked[n]) => Asked[n] \in installed \cup misled'
        BY <3>0, <3>3 DEF VersionArrives
      <4>2. arg["main"] = "flz" =>
                \A j \in 1..n : Asked[j] \in known => Asked[j] \in installed \cup misled'
        BY <2>0, <4>1, <4>7 DEF ProgressInv
      <4>3. ok'["main"] = FALSE
        BY <4>1 DEF PackageInv
      <4>4. CASE n < Len(Asked)
        <5>1. /\ idx'["main"] = n + 1 /\ matches' = known \cup {Asked[n + 1]}
              /\ pc'["main"] = "asking"
          BY <1>0, <3>0, <3>3, <4>4 DEF VersionArrives
        <5>2. arg["main"] = "flz" => \A j \in 1..n : Asked[j] \in matches' =>
                  Asked[j] \in installed \cup misled' \/ Asked[j] = Asked[n + 1]
          BY <4>2, <5>1
        <5>3. QED
          BY <1>1, <4>1, <4>3, <5>1, <5>2 DEF ProgressInv
      <4>5. CASE n = Len(Asked)
        <5>1. matches' = known /\ pc'["main"] = "esim"
          BY <1>0, <3>0, <3>3, <4>5 DEF VersionArrives
        <5>2. matches' \subseteq Images
          BY <1>0, <4>1, <5>1, ImagesOfPackage DEF TypeInv
        <5>3. ASSUME NEW img \in Images PROVE \E j \in 1..n : Asked[j] = img
          <6>1. CASE img = DevImage
            BY <4>1, <4>5, <6>1, ImagesOfPackage DEF TypeInv
          <6>2. CASE img \in FwImages
            <7>1. PICK j \in DOMAIN FwSeq : FwSeq[j] = img
              BY <6>2 DEF FwImages, ToSet
            <7>2. j \in 1..Len(FwSeq) /\ Len(Asked) = Len(FwSeq) + 1 /\ Asked[j] = FwSeq[j]
              BY <7>1, ImagesOfPackage DEF TypeInv
            <7>3. QED
              BY <4>1, <4>5, <7>1, <7>2
          <6>3. QED
            BY <5>3, <6>1, <6>2 DEF Images
        <5>4. arg["main"] = "flz" => matches' \subseteq installed \cup misled'
          BY <4>2, <5>1, <5>2, <5>3
        <5>5. QED
          BY <4>1, <4>3, <5>1, <5>4 DEF ProgressInv
      <4>6. QED
        BY <4>1, <4>4, <4>5
    <3>4. CASE FindImages(t)
      <4>1. pc'["main"] = "generate" /\ UNCHANGED <<installed, misled, ok>>
        BY <1>0, <3>0, <3>4 DEF FindImages
      <4>2. /\ \A img \in Source \ {DevImage} : Treated(img, {list'[i] : i \in 1..count'})
            /\ DevImage \in Source => count' > 0 /\ Treated(DevImage, {list'[count']})
        BY <2>0, <3>0, <3>4, ListIsComplete
      <4>3. ok'["main"] = FALSE
        BY <4>1 DEF PackageInv
      <4>4. QED
        BY <2>0, <4>1, <4>2, <4>3 DEF ProgressInv, Treated
    <3>5. CASE GenerateTable(t)
      <4>1. pc'["main"] \in {"failed", "table"} /\ UNCHANGED <<installed, misled>>
        BY <1>0, <3>0, <3>5 DEF GenerateTable
      <4>2. pc'["main"] = "table" => \A img \in Source : Treated(img, table')
        BY <2>0, <3>0, <3>5, TableIsComplete
      <4>3. ok'["main"] = FALSE
        BY <4>1 DEF PackageInv
      <4>4. QED
        BY <2>0, <4>1, <4>2, <4>3 DEF ProgressInv, Treated
    <3>6. CASE CheckTable(t) \/ SwitchToFastboot(t)
      <4>1. /\ pc["main"] \in {"table", "switch"}
            /\ pc'["main"] \in {"failed", "switch", "open", "reset"}
            /\ UNCHANGED <<table, installed, misled, ok>>
        BY <1>0, <3>0, <3>6 DEF CheckTable, SwitchToFastboot
      <4>2. ok'["main"] = FALSE
        BY <4>1 DEF PackageInv
      <4>3. QED
        BY <2>0, <4>1, <4>2 DEF ProgressInv, Treated
    <3>7. CASE OpenTable(t)
      <4>1. /\ pc["main"] = "open" /\ pc'["main"] = "flash" /\ UNCHANGED <<installed, misled, ok>>
            /\ todo'["main"] = {e.img : e \in {f \in table : ~f.skip}}
        BY <1>0, <3>0, <3>7 DEF OpenTable
      <4>2. ASSUME NEW img \in Source PROVE img \in Held \/ img \in todo'["main"]
        <5>1. PICK e \in table : e.img = img /\ (e.skip => img \in Held)
          BY <2>0, <4>1, <4>2 DEF ProgressInv, Treated
        <5>2. QED
          BY <4>1, <5>1
      <4>3. ok'["main"] = FALSE
        BY <4>1 DEF PackageInv
      <4>4. QED
        BY <2>0, <4>1, <4>2, <4>3 DEF ProgressInv
    <3>8. ASSUME NEW img \in Images, FlashOk(t, img) PROVE ProgressInv'
      <4>1. /\ pc["main"] = "flash" /\ UNCHANGED <<pc, ok, misled>>
            /\ installed' = installed \cup {img}
            /\ todo'["main"] = todo["main"] \ {img}
        BY <1>0, <3>0, <3>8 DEF FlashOk
      <4>2. ok'["main"] = FALSE
        BY <4>1 DEF PackageInv
      <4>3. QED
        BY <2>0, <4>1, <4>2 DEF ProgressInv
    <3>9. ASSUME NEW img \in Images, FlashFails(t, img) PROVE ProgressInv'
      <4>1. pc["main"] = "flash" /\ pc'["main"] = "reset" /\ UNCHANGED ok
        BY <1>0, <3>0, <3>9 DEF FlashFails
      <4>2. ok'["main"] = FALSE
        BY <4>1 DEF PackageInv
      <4>3. QED
        BY <4>1, <4>2 DEF ProgressInv
    <3>10. CASE FlashDone(t)
      <4>1. /\ pc["main"] = "flash" /\ pc'["main"] = "reset" /\ todo["main"] = {}
            /\ UNCHANGED <<installed, misled>>
        BY <1>0, <3>0, <3>10 DEF FlashDone
      <4>2. QED
        BY <2>0, <4>1 DEF ProgressInv
    <3>11. CASE DoReset(t) \/ Finish(t)
      <4>1. pc'["main"] \in {"finish", "record"} /\ UNCHANGED <<ok, installed, misled>>
        BY <1>0, <3>0, <3>11 DEF DoReset, Finish
      <4>2. QED
        BY <2>0, <4>1 DEF ProgressInv
    <3>12. CASE Record(t)
      <4>1. /\ (pc'["main"] = "succeeded" /\ ok["main"] = TRUE) \/ pc'["main"] = "failed"
            /\ UNCHANGED <<installed, misled>>
        BY <1>0, <3>0, <3>12 DEF Record, RecordSuccess, RecordFailure
      <4>2. QED
        BY <2>0, <2>1, <4>1 DEF ProgressInv
    <3>13. CASE UpdateSucceeded(t)
      BY <1>0, <2>1, <3>0, <3>13 DEF UpdateSucceeded
    <3> QED BY <2>2, <3>0, <3>1, <3>2, <3>3, <3>4, <3>5, <3>6, <3>7, <3>8, <3>9, <3>10, <3>11,
               <3>12, <3>13, <3>14 DEF ThreadStep
  <2>3. ASSUME NEW kind, NEW current, NEW old, PackageMoved(kind, current, old) PROVE FALSE
    BY <2>3 DEF PackageMoved
  <2>4. ASSUME Restart PROVE ProgressInv'
    <3>1. /\ pc'["main"] \in {"asking", "idle"} /\ ok'["main"] = FALSE
          /\ pc'["main"] = "asking" => arg'["main"] = "startup"
      BY <1>0, <2>4 DEF Restart, StartLabel, StartArg
    <3>2. QED
      BY <3>1 DEF ProgressInv
  <2>5. CASE \/ (\E what \in {"flz", "folder"} : Notice(what)) \/ UNCHANGED vars
             \/ (\E read \in SUBSET Images : PrefReads(read))
    <3>1. UNCHANGED <<pc, locals, images, table, installed, misled>>
      BY <2>5 DEF Notice, PrefReads, vars
    <3>2. QED
      BY <1>1, <2>0, <3>1 DEF ProgressInv, Treated
  <2> QED BY <2>2, <2>3, <2>4, <2>5 DEF Next
<1> QED BY <1>3, <1>4, FoldersKept

\* Files go with RemoveFlashData only: when no entry of the table is to be flashed,
\* or after a success; then the module has their images, or the attempt was misled.
LEMMA RemovalStep ==
    ASSUME TypeInv, SourceInv, [Next]_vars
    PROVE  scenario.threads = {"main"} /\ WholePackages /\ packages' = packages =>
               (files \ files') \cap Images \subseteq installed \cup misled
<1> SUFFICES ASSUME Lone, packages' = packages
             PROVE  (files \ files') \cap Images \subseteq Held
  BY DEF Lone, Held
<1> USE DEF disk
<1>0. PackageInv /\ (folders # {} => ProgressInv)
  BY DEF SourceInv
<1>1. CASE files \subseteq files'
  BY <1>1
<1>2. CASE ~(files \subseteq files')
  <2>1. folders # {} /\ ProgressInv
    <3>1. files \subseteq FilesOf(folders) /\ files # {}
      BY <1>2 DEF TypeInv, ValueType
    <3>2. QED
      BY <1>0, <3>1 DEF FilesOf
  <2>2. ASSUME NEW kind, NEW current, NEW old, PackageMoved(kind, current, old) PROVE FALSE
    <3>1. packages \in Nat
      BY ConstantsAssumption DEF TypeInv, BoundType
    <3>2. QED
      BY <2>2, <3>1 DEF PackageMoved
  <2>3. PICK t \in Threads : ThreadStep(t)
    <3>1. /\ ~Restart /\ ~(\E what \in {"flz", "folder"} : Notice(what)) /\ ~UNCHANGED vars
          /\ ~(\E read \in SUBSET Images : PrefReads(read))
      BY <1>2 DEF Restart, Notice, PrefReads, vars
    <3>2. QED
      BY <2>2, <3>1 DEF Next
  <2>4. t = "main"
    BY <1>0, <2>3, LoneThread
  <2>5. (CheckTable(t) /\ ~Needed) \/ UpdateSucceeded(t)
    BY <1>2, <2>3, Zenon DEF ThreadStep, ReadEvent, TakeNotice, CheckUpdateData, Settle,
       TestProcessing, Begin, Query, VersionArrives, VersionFails, AskEsim, EsimEnds, FindImages,
       GenerateTable, CheckTable, SwitchToFastboot, OpenTable, FlashOk, FlashFails, FlashDone,
       DoReset, Finish, Record, UpdateFailed, CxpReboot
  <2>6. Source \subseteq Held
    <3>1. CASE CheckTable(t) /\ ~Needed
      <4>1. Place = "table" /\ \A e \in table : e.skip
        BY <2>4, <3>1 DEF CheckTable, Needed, Place
      <4>2. QED
        BY <2>1, <4>1 DEF ProgressInv, Treated
    <3>2. CASE UpdateSucceeded(t)
      BY <2>1, <2>4, <3>2 DEF UpdateSucceeded, ProgressInv, Place
    <3>3. QED
      BY <2>5, <3>1, <3>2
  <2>7. QED
    BY <2>6 DEF Source
<1>3. QED
  BY <1>1, <1>2

\* An update of the main loop alone of packages with their descriptions gives an image
\* file up only when the module has the image, or when it took pwl_pref's outdated
\* version for the module's in that attempt: over failed flashes, retries, late
\* packages, missing image files, a hanging query and restarts in any step, for any
\* images and any number of events.
THEOREM RemovedWhenInstalled == Spec => RemovedOnlyWhenInstalled
<1>1. Init => SourceInv
  BY DEF Init, SourceInv, Lone, PackageInv, Place, StartLabel, StartArg, AtStartup, Threads,
         FilesOf
<1>2. TypeInv /\ SourceInv /\ [Next]_vars => SourceInv'
  <2> SUFFICES ASSUME TypeInv, SourceInv, [Next]_vars, Lone'
               PROVE  PackageInv' /\ (folders' # {} => ProgressInv')
    BY DEF SourceInv
  <2>1. Lone
    BY BoundTypeStep DEF TypeInv, Lone, WholePackages, Images, FwImages, FwSeq
  <2>2. PackageInv'
    BY <2>1, PackageInvStep DEF SourceInv
  <2>3. folders' # {} => ProgressInv'
    BY <2>1, <2>2, ProgressInvStep DEF SourceInv
  <2>4. QED
    BY <2>2, <2>3
<1>3. TypeInv /\ SourceInv /\ [Next]_vars =>
          [scenario.threads = {"main"} /\ WholePackages /\ packages' = packages =>
               (files \ files') \cap Images \subseteq installed \cup misled]_vars
  BY RemovalStep
<1> QED BY <1>1, <1>2, <1>3, TypeInvHolds, PTL DEF Spec, RemovedOnlyWhenInstalled

===============================================================================
