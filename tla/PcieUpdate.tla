------------------------------ MODULE PcieUpdate ------------------------------
(***************************************************************************)
(* The firmware update of PCIE modules in pwl_fwupdate: the package        *)
(* monitor thread (monitor_package_func2), the main loop's handler of the  *)
(* recovery notice (signal_callback_notice_module_recovery_finish), and    *)
(* start_update_process_pcie, which both run on the same global variables, *)
(* the same flash table and the same module.  No lock protects any of it:  *)
(* the only guard is the flag g_is_fw_update_processing, tested long       *)
(* before it is set.                                                       *)
(*                                                                         *)
(* The versions of the images that an attempt asks for are those pwl_pref  *)
(* keeps, as old as its last reading of the module.  The wait for the last *)
(* answer of get_current_fw_version may leave g_mutex locked, and then the *)
(* next one to lock it hangs (AnswerWait has the steps of a wait).         *)
(*                                                                         *)
(* Every step of a thread ends where the code sleeps, waits for an answer  *)
(* or uses a device or a file that the other thread uses too.              *)
(***************************************************************************)
EXTENDS Naturals, Sequences, SequencesExt

CONSTANTS
    DevImage,     \* the device image (partition mcf2)
    RetryTH,      \* FW_UPDATE_RETRY_TH
    MaxList,      \* bound: entries ever appended to the image list
    Scenarios     \* what may happen: the threads that have something to do, the
                  \* firmware images of a package in the order of its list, the parts
                  \* of it that arrive (sets of "fw" and "dev"), the files that unzip may
                  \* leave out (its exit code is ignored), whether a carrier change
                  \* may wait for a reboot of the module, and how many packages,
                  \* recovery notices, restarts of pwl_fwupdate and readings of the
                  \* versions by pwl_pref there are

Threads == {"package", "main"}
Parts   == {"fw", "dev"}

\* FwPackageInfo.xml and scatter.xml; DevMappingTable.xml and the checksums.
FwInfo  == {"info", "scatter"}
DevInfo == {"map", "sums"}

ASSUME ConstantsAssumption ==
    /\ {RetryTH, MaxList} \subseteq Nat
    /\ \A s \in Scenarios :
           /\ s.threads \subseteq Threads
           /\ s.images # <<>>
           /\ s.images \in Seq(ToSet(s.images))
           /\ DevImage \notin ToSet(s.images)
           /\ (ToSet(s.images) \cup {DevImage}) \cap (FwInfo \cup DevInfo) = {}
           /\ s.kinds \subseteq (SUBSET Parts) \ {{}}
           /\ s.carrier \in BOOLEAN
           /\ {s.packages, s.notices, s.restarts, s.readings} \subseteq Nat

VARIABLES
    pc,                         \* where each thread is
    arg,                        \* based_type of its attempt, "flz" or "folder", or
                                \* "startup": main asks for the versions before its loop
    first,                      \* its attempt is the first one, not a retry
    idx,                        \* the version it asks for in get_current_fw_version
    todo,                       \* the images it has still to flash
    ok,                         \* update_result of its attempt
    g_is_fw_update_processing,
    g_need_update,
    g_need_cxp_reboot,
    g_update_type,              \* the parts to update
    g_update_based_type,
    g_fw_update_retry_count,
    matches,                    \* images whose g_current_*_ver matches the package
    list,                       \* g_pcie_download_image_list
    count,                      \* g_pcie_img_number_count
    file,                       \* Fw_update_retry_count in fw_update_status
    table,                      \* the entries of flash_table.txt
    flz,                        \* the .flz files in the firmware folder
    folders,                    \* the unzipped folders
    files,                      \* the images and descriptions they hold
    mode,                       \* t7xx_mode of the module
    installed,                  \* images of the package the module has intact
    cache,                      \* the versions pwl_pref keeps: none, the one of the module,
                                \* or, of an image written to since it was read, an old one,
                                \* the same as the package's or not
    locked,                     \* g_mutex is left locked
    misled,                     \* history: images an attempt took for installed on
                                \* pwl_pref's word while the module did not have them
    moved,                      \* IN_MOVED_TO events not yet read
    notices,                    \* recovery notices not yet dispatched
    scenario,                   \* one of Scenarios
    packages, noticed, restarts, readings \* counters of its bounds

locals == <<arg, first, idx, todo, ok>>
flags  == <<g_need_update, g_need_cxp_reboot>>
type   == <<g_update_type, g_update_based_type>>
images == <<matches, list, count>>
disk   == <<flz, folders, files>>
module == <<mode, installed>>
queries == <<cache, locked, misled>>
events == <<moved, notices>>
bounds == <<scenario, packages, noticed, restarts, readings>>
vars == <<pc, locals, g_is_fw_update_processing, flags, type,
          g_fw_update_retry_count, images, file, table, disk, module, queries,
          events, bounds>>

FwSeq    == scenario.images
FwImages == ToSet(FwSeq)
Images   == FwImages \cup {DevImage}
ImagesOf(parts) == (IF "fw" \in parts THEN FwImages ELSE {})
                       \cup (IF "dev" \in parts THEN {DevImage} ELSE {})

\* What belongs into each folder.
FilesOf(parts) == (IF "fw" \in parts THEN FwImages \cup FwInfo ELSE {})
                      \cup (IF "dev" \in parts THEN {DevImage} \cup DevInfo ELSE {})

Modes == {"ready", "fastboot_download", "unknow"}

\* Where the flag is set; and where a thread works on the module itself.
Section  == {"find", "generate", "table", "switch", "open", "flash", "reset", "finish"}
Download == {"switch", "open", "flash", "reset", "finish"}
Attempt  == Section \cup {"begin", "query", "asking", "esim", "esimWait", "record"}
Labels   == Attempt \cup {"idle", "check", "settle", "test", "succeeded", "failed", "cxp"}

Entry == [img : Images, skip : BOOLEAN]

Versions == {"none", "current", "same", "other"}

\* Whether the version pwl_pref keeps is the package's; and what it is once the
\* image is written to.
Shown(img) == \/ cache[img] = "current" /\ img \in installed
              \/ cache[img] = "same"
Outdated(img) == CASE cache[img] # "current" -> cache[img]
                   [] Shown(img) -> "same"
                   [] OTHER -> "other"


Goto(t, label) == pc' = [pc EXCEPT ![t] = label]

\* main calls get_current_fw_version before it enters its loop.
AtStartup(t) == t = "main" /\ t \in scenario.threads
StartLabel == [t \in Threads |-> IF AtStartup(t) THEN "asking" ELSE "idle"]
StartArg   == [t \in Threads |-> IF AtStartup(t) THEN "startup" ELSE "flz"]

Init ==
    /\ scenario \in Scenarios
    /\ pc = StartLabel
    /\ arg = StartArg
    /\ first = [t \in Threads |-> TRUE]
    /\ idx = [t \in Threads |-> 1]
    /\ todo = [t \in Threads |-> {}]
    /\ ok = [t \in Threads |-> FALSE]
    /\ g_is_fw_update_processing = FALSE
    /\ g_need_update = FALSE
    /\ g_need_cxp_reboot = FALSE
    /\ g_update_type = {}
    /\ g_update_based_type = "flz"
    /\ g_fw_update_retry_count = 0
    /\ matches = Images              \* an empty version string matches any
    /\ list = <<>>
    /\ count = 0
    /\ file = 0
    /\ table = {}
    /\ flz = {}
    /\ folders = {}
    /\ files = {}
    /\ mode = "ready"
    /\ installed = {}
    /\ cache \in {[img \in Images |-> v] : v \in {"none", "current"}}
    /\ locked = FALSE
    /\ misled = {}
    /\ moved = 0
    /\ notices = <<>>
    /\ packages = 0
    /\ noticed = 0
    /\ restarts = 0
    /\ readings = 0

-------------------------------------------------------------------------------
(* The environment.                                                         *)

\* A firmware folder with new .flz files replaces the old one; the module may
\* have some of its images already, and an old version may be that of the package.
PackageMoved(kind, current, old) ==
    /\ packages < scenario.packages
    /\ packages' = packages + 1
    /\ flz' = kind
    /\ folders' = {}
    /\ files' = {}
    /\ table' = {}
    /\ installed' = current
    /\ cache' = [img \in Images |-> IF cache[img] \in {"none", "current"} THEN cache[img]
                                    ELSE IF img \in old THEN "same" ELSE "other"]
    /\ moved' = moved + 1
    /\ UNCHANGED <<pc, locals, g_is_fw_update_processing, flags, type,
                   g_fw_update_retry_count, images, file, mode, locked, misled,
                   notices, scenario, noticed, restarts, readings>>

\* pwl_core sends the notice: "folder" only if it has seen a flash folder.
Notice(what) ==
    /\ noticed < scenario.notices
    /\ what = "folder" => folders # {}
    /\ noticed' = noticed + 1
    /\ notices' = Append(notices, what)
    /\ UNCHANGED <<pc, locals, g_is_fw_update_processing, flags, type,
                   g_fw_update_retry_count, images, file, table, disk, module,
                   queries, moved, scenario, packages, restarts, readings>>

\* pwl_fwupdate fails and is started again: its memory, the events and the
\* notices are gone, the disk and the module stay as they are.
Restart ==
    /\ restarts < scenario.restarts
    /\ restarts' = restarts + 1
    /\ pc' = StartLabel
    /\ arg' = StartArg
    /\ first' = [t \in Threads |-> TRUE]
    /\ idx' = [t \in Threads |-> 1]
    /\ todo' = [t \in Threads |-> {}]
    /\ ok' = [t \in Threads |-> FALSE]
    /\ g_is_fw_update_processing' = FALSE
    /\ g_need_update' = FALSE
    /\ g_need_cxp_reboot' = FALSE
    /\ g_update_type' = {}
    /\ g_update_based_type' = "flz"
    /\ g_fw_update_retry_count' = file
    /\ matches' = Images
    /\ list' = <<>>
    /\ count' = 0
    /\ moved' = 0
    /\ notices' = <<>>
    /\ locked' = FALSE
    /\ UNCHANGED <<file, table, disk, module, cache, misled, scenario, packages, noticed,
                   readings>>

\* signal_callback_get_fw_version of pwl_pref, on any of the requests for it: every
\* version is emptied and read again; a module that is not in its normal mode does
\* not answer, and one that is may fail to.
PrefReads(read) ==
    /\ readings < scenario.readings
    /\ readings' = readings + 1
    /\ mode # "ready" => read = {}
    /\ cache' = [img \in Images |-> IF img \in read THEN "current" ELSE "none"]
    /\ UNCHANGED <<pc, locals, g_is_fw_update_processing, flags, type,
                   g_fw_update_retry_count, images, file, table, disk, module, locked,
                   misled, events, scenario, packages, noticed, restarts>>

-------------------------------------------------------------------------------
(* Entry: the event or the notice, check_update_data, the test of the flag. *)

\* The package thread reads an event; it skips it while an update is going on.
ReadEvent(t) ==
    /\ t = "package" /\ t \in scenario.threads
    /\ pc[t] = "idle"
    /\ moved > 0
    /\ moved' = moved - 1
    /\ \/ /\ ~g_is_fw_update_processing
          /\ Goto(t, "check")
          /\ arg' = [arg EXCEPT ![t] = "flz"]
       \/ /\ g_is_fw_update_processing
          /\ UNCHANGED <<pc, arg>>
    /\ UNCHANGED <<first, idx, todo, ok, g_is_fw_update_processing, flags, type,
                   g_fw_update_retry_count, images, file, table, disk, module,
                   queries, notices, bounds>>

\* The main loop dispatches a notice.
TakeNotice(t) ==
    /\ t = "main" /\ t \in scenario.threads
    /\ pc[t] = "idle"
    /\ notices # <<>>
    /\ notices' = Tail(notices)
    /\ Goto(t, "check")
    /\ arg' = [arg EXCEPT ![t] = Head(notices)]
    /\ UNCHANGED <<first, idx, todo, ok, g_is_fw_update_processing, flags, type,
                   g_fw_update_retry_count, images, file, table, disk, module,
                   queries, moved, bounds>>

\* check_update_data, after its retries: the parts that are there become the
\* update type, also when another thread is updating; .flz files are unzipped.
CheckUpdateData(t) ==
    LET found == IF arg[t] = "flz" THEN flz ELSE folders
    IN  /\ pc[t] = "check"
        /\ \/ /\ found = {}
              /\ Goto(t, "idle")
              /\ UNCHANGED <<g_update_type, folders, files>>
           \/ /\ found # {}
              /\ g_update_type' = found
              /\ folders' = folders \cup found
              /\ \/ /\ arg[t] = "flz"
                    /\ \E left \in SUBSET (FilesOf(found) \cap scenario.lost) :
                           files' = files \cup (FilesOf(found) \ left)
                 \/ /\ arg[t] = "folder"
                    /\ UNCHANGED files
              /\ Goto(t, IF t = "package" THEN "settle" ELSE "test")
        /\ UNCHANGED <<locals, g_is_fw_update_processing, flags,
                       g_update_based_type, g_fw_update_retry_count, images, file,
                       table, flz, module, queries, events, bounds>>

\* The package thread gives pwl_pref seven seconds to refresh the versions.
Settle(t) ==
    /\ pc[t] = "settle"
    /\ Goto(t, "test")
    /\ UNCHANGED <<locals, g_is_fw_update_processing, flags, type,
                   g_fw_update_retry_count, images, file, table, disk, module,
                   queries, events, bounds>>

\* The flag is tested; it is set much later, in start_update_process_pcie.
TestProcessing(t) ==
    /\ pc[t] = "test"
    /\ Goto(t, IF g_is_fw_update_processing THEN "idle" ELSE "begin")
    /\ UNCHANGED <<locals, g_is_fw_update_processing, flags, type,
                   g_fw_update_retry_count, images, file, table, disk, module,
                   queries, events, bounds>>
-------------------------------------------------------------------------------
(* start_update_process_pcie.                                               *)

\* The retry count is taken from the file; above the threshold the attempt
\* fails at once and g_need_update keeps what an earlier attempt left.
Begin(t) ==
    /\ pc[t] = "begin"
    /\ g_update_based_type' = arg[t]
    /\ g_fw_update_retry_count' = file
    /\ misled' = {}
    /\ \/ /\ file > RetryTH
          /\ Goto(t, "failed")
          /\ UNCHANGED g_need_update
       \/ /\ file <= RetryTH
          /\ g_need_update' = FALSE
          /\ Goto(t, "query")
    /\ UNCHANGED <<locals, g_is_fw_update_processing, g_need_cxp_reboot,
                   g_update_type, images, file, table, disk, module, cache, locked,
                   events, bounds>>

\* get_carrier_id and get_cxp_reboot_flag; a .flz update also asks for the five
\* versions, the first of which is blanked now; a folder update asks nothing.
Query(t) ==
    /\ pc[t] = "query"
    /\ ~locked
    /\ g_need_cxp_reboot' \in {FALSE, scenario.carrier}
    /\ \/ /\ arg[t] = "flz"
          /\ matches' = matches \cup {FwSeq[1]}
          /\ Goto(t, "asking")
          /\ UNCHANGED g_is_fw_update_processing
       \/ /\ arg[t] = "folder"
          /\ g_is_fw_update_processing' = TRUE
          /\ Goto(t, "find")
          /\ UNCHANGED matches
    /\ UNCHANGED <<locals, g_need_update, type, g_fw_update_retry_count, list,
                   count, file, table, disk, module, queries, events, bounds>>

\* get_current_fw_version: pwl_pref answers with the version it keeps, in any mode
\* of the module, and the next one is blanked and asked for.
Asked == Append(FwSeq, DevImage)

VersionArrives(t) ==
    LET img == Asked[idx[t]]
        known == IF Shown(img) THEN matches \cup {img} ELSE matches \ {img}
    IN  /\ pc[t] = "asking"
        /\ ~locked
        /\ cache[img] # "none"
        /\ misled' = IF arg[t] = "flz" /\ Shown(img) /\ img \notin installed
                     THEN misled \cup {img} ELSE misled
        /\ \/ /\ idx[t] < Len(Asked)
              /\ idx' = [idx EXCEPT ![t] = @ + 1]
              /\ matches' = known \cup {Asked[idx[t] + 1]}
              /\ UNCHANGED pc
           \/ /\ idx[t] = Len(Asked)
              /\ idx' = [idx EXCEPT ![t] = 1]
              /\ matches' = known
              /\ Goto(t, "esim")
        /\ UNCHANGED <<arg, first, todo, ok, g_is_fw_update_processing, flags, type,
                       g_fw_update_retry_count, list, count, file, table, disk, module,
                       cache, locked, events, bounds>>

\* The shared budget of retries is used up without an answer, or the answer is
\* empty: pwl_pref has no version.
EndlessVersionQuery(t) ==      \* mutated form: the retries are not bounded
    /\ pc[t] = "asking"
    /\ UNCHANGED vars

VersionFails(t) ==
    /\ pc[t] = "asking"
    /\ ~locked
    /\ idx' = [idx EXCEPT ![t] = 1]
    /\ Goto(t, IF arg[t] = "startup" THEN "idle" ELSE "failed")
    /\ UNCHANGED <<arg, first, todo, ok, g_is_fw_update_processing, flags, type,
                   g_fw_update_retry_count, images, file, table, disk, module,
                   queries, events, bounds>>

\* get_esim_enable_state, the last query of get_current_fw_version, waits with
\* cond_wait, which first unlocks g_mutex, whoever has locked it, ...
AskEsim(t) ==
    /\ pc[t] = "esim"
    /\ locked' = FALSE
    /\ Goto(t, "esimWait")
    /\ UNCHANGED <<locals, g_is_fw_update_processing, flags, type,
                   g_fw_update_retry_count, images, file, table, disk, module, cache,
                   misled, events, bounds>>

\* ... and leaves it locked if the last of the tries times out.  The result is
\* ignored: the flag is set, or main enters its loop.
EsimEnds(t) ==
    /\ pc[t] = "esimWait"
    /\ ~locked
    /\ locked' \in BOOLEAN
    /\ \/ /\ arg[t] = "startup"
          /\ Goto(t, "idle")
          /\ UNCHANGED g_is_fw_update_processing
       \/ /\ arg[t] # "startup"
          /\ g_is_fw_update_processing' = TRUE
          /\ Goto(t, "find")
    /\ UNCHANGED <<locals, flags, type, g_fw_update_retry_count, images, file, table,
                   disk, module, cache, misled, events, bounds>>

\* find_fw_download_image and find_device_image: the image list.  The results
\* are ignored: a package without its description leaves the list as it was.
\* Only the former restarts the list, the latter appends.
ListEntry(img) ==
    [img |-> img, skip |-> g_update_based_type = "flz" /\ img \in matches]

\* The list after writing the entries es from position n + 1 on.
Overwrite(l, n, es) == SubSeq(l, 1, n) \o es \o SubSeq(l, n + Len(es) + 1, Len(l))

\* find_fw_download_image leaves an image out whose file it does not find.
FwFound  == "fw" \in g_update_type /\ "info" \in files
Listings ==
    {s \in UNION {[1..n -> FwImages] : n \in 0..Len(FwSeq)} :
        /\ ToSet(s) = FwImages \cap files
        /\ \A i, j \in DOMAIN s : i < j =>
               \E k, l \in DOMAIN FwSeq : k < l /\ FwSeq[k] = s[i] /\ FwSeq[l] = s[j]}

\* find_device_image needs the mapping table, in it an image for the SKU and the
\* eSIM state, its file, and its checksum.
DevFound(named) ==
    /\ "dev" \in g_update_type
    /\ DevInfo \cup {DevImage} \subseteq files
    /\ named

\* Whether the mapping table has an image for the SKU and the eSIM state last read.
Naming == IF "map" \in scenario.lost THEN BOOLEAN ELSE {TRUE}

\* The list and its count: fw is what find_fw_download_image finds.
ListAfter(fw, named) ==
    LET entries == [i \in DOMAIN fw |-> ListEntry(fw[i])]
        list1   == IF FwFound THEN Overwrite(list, 0, entries) ELSE list
        count1  == IF FwFound THEN Len(fw) ELSE count
    IN  IF DevFound(named)
        THEN [list  |-> Overwrite(list1, count1, <<ListEntry(DevImage)>>),
              count |-> count1 + 1]
        ELSE [list |-> list1, count |-> count1]

MiscountedFindImages(t) ==     \* mutated form: a missing device image is counted
    /\ pc[t] = "find"
    /\ \E fw \in Listings, named \in Naming :
           /\ list' = ListAfter(fw, named).list
           /\ count' = (IF FwFound THEN Len(fw) ELSE count) + 1
    /\ Goto(t, "generate")
    /\ UNCHANGED <<locals, g_is_fw_update_processing, flags, type,
                   g_fw_update_retry_count, matches, file, table, disk, module,
                   queries, events, bounds>>

FindImages(t) ==
    /\ pc[t] = "find"
    /\ \E fw \in Listings, named \in Naming :
           /\ ListAfter(fw, named).count <= MaxList
           /\ list' = ListAfter(fw, named).list
           /\ count' = ListAfter(fw, named).count
    /\ Goto(t, "generate")
    /\ UNCHANGED <<locals, g_is_fw_update_processing, flags, type,
                   g_fw_update_retry_count, matches, file, table, disk, module,
                   queries, events, bounds>>

\* generate_download_table: a device-only update takes the first entry of the
\* list, which must be a device image; any other takes the firmware entries of
\* the list and, in a full update, a device image at its end.
IsDev(e) == e.img = DevImage

DownloadTable ==
    LET current == {list[i] : i \in 1..count}
        last == IF "dev" \in g_update_type /\ count > 0 THEN {list[count]} ELSE {}
    IN  IF g_update_type = {"dev"} THEN {list[1]}
        ELSE {e \in current : ~IsDev(e)} \cup {e \in last : IsDev(e)}

TableFails ==
    IF g_update_type = {"dev"} THEN \A i \in DOMAIN list : i = 1 => ~IsDev(list[i])
    ELSE "scatter" \notin files

GenerateTable(t) ==
    /\ pc[t] = "generate"
    /\ \/ /\ TableFails
          /\ table' = {}
          /\ g_is_fw_update_processing' = FALSE
          /\ Goto(t, "failed")
       \/ /\ ~TableFails
          /\ table' = DownloadTable
          /\ Goto(t, "table")
          /\ UNCHANGED g_is_fw_update_processing
    /\ UNCHANGED <<locals, flags, type, g_fw_update_retry_count, images, file,
                   disk, module, queries, events, bounds>>

\* remove_flash_data.
RemoveFlashData(parts) ==
    /\ folders' = folders \ parts
    /\ files' = files \ FilesOf(parts)

\* check_image_downlaod_table: without an entry to flash nothing is needed, and
\* the flash data go; every image of the list must be in the table.
Needed  == \E e \in table : ~e.skip
InTable(e) == \E f \in table : f.img = e.img /\ (e.skip => f.skip)
AllInTable == \A i \in 1..count : InTable(list[i])

KeptFlagCheckTable(t) ==       \* mutated form: an early return keeps the flag
    /\ pc[t] = "table"
    /\ g_need_update' = Needed
    /\ \/ /\ ~Needed
          /\ RemoveFlashData(g_update_type)
          /\ Goto(t, "failed")
       \/ /\ Needed
          /\ Goto(t, IF AllInTable THEN "switch" ELSE "failed")
          /\ UNCHANGED <<folders, files>>
    /\ UNCHANGED <<locals, g_is_fw_update_processing, g_need_cxp_reboot, type,
                   g_fw_update_retry_count, images, file, table, flz, module,
                   queries, events, bounds>>

CheckTable(t) ==
    /\ pc[t] = "table"
    /\ g_need_update' = Needed
    /\ \/ /\ ~Needed
          /\ RemoveFlashData(g_update_type)
          /\ g_is_fw_update_processing' = FALSE
          /\ Goto(t, "failed")
       \/ /\ Needed
          /\ ~AllInTable
          /\ g_is_fw_update_processing' = FALSE
          /\ Goto(t, "failed")
          /\ UNCHANGED <<folders, files>>
       \/ /\ Needed
          /\ AllInTable
          /\ Goto(t, "switch")
          /\ UNCHANGED <<g_is_fw_update_processing, folders, files>>
    /\ UNCHANGED <<locals, g_need_cxp_reboot, type, g_fw_update_retry_count,
                   images, file, table, flz, module, queries, events, bounds>>

\* switch_t7xx_mode(fastboot_switching): a module already there is taken as it
\* is, one in an unknown state is given up, any other is switched, with or
\* without the remove and rescan, and must answer in a row.
SwitchToFastboot(t) ==
    /\ pc[t] = "switch"
    /\ \/ /\ mode = "fastboot_download"
          /\ Goto(t, "open")
          /\ UNCHANGED mode
       \/ /\ mode = "unknow"
          /\ Goto(t, "reset")
          /\ UNCHANGED mode
       \/ /\ mode = "ready"
          /\ mode' = "fastboot_download"
          /\ Goto(t, "open")
       \/ /\ mode = "ready"
          /\ mode' \in Modes
          /\ Goto(t, "reset")
    /\ UNCHANGED <<locals, g_is_fw_update_processing, flags, type,
                   g_fw_update_retry_count, images, file, table, disk, installed,
                   queries, events, bounds>>

\* parse_download_table_and_flash: the entries without the SKIP_ mark ...
OpenTable(t) ==
    /\ pc[t] = "open"
    /\ todo' = [todo EXCEPT ![t] = {e.img : e \in {f \in table : ~f.skip}}]
    /\ Goto(t, "flash")
    /\ UNCHANGED <<arg, first, idx, ok, g_is_fw_update_processing, flags, type,
                   g_fw_update_retry_count, images, file, table, disk, module,
                   queries, events, bounds>>

\* ... are flashed one by one by flash_image, which verifies the checksum of the
\* partition, and the first failure ends the download.
ImageFile(img) == img \in files

FlashOk(t, img) ==
    /\ pc[t] = "flash"
    /\ img \in todo[t]
    /\ mode = "fastboot_download"
    /\ ImageFile(img)
    /\ installed' = installed \cup {img}
    /\ cache' = [cache EXCEPT ![img] = Outdated(img)]
    /\ todo' = [todo EXCEPT ![t] = @ \ {img}]
    /\ UNCHANGED <<pc, arg, first, idx, ok, g_is_fw_update_processing, flags, type,
                   g_fw_update_retry_count, images, file, table, disk, mode,
                   locked, misled, events, bounds>>

\* The request, the transfer, the flash or the checksum fails; the partition may
\* already be overwritten.
IgnoredFlashFailure(t, img) == \* mutated form: the next image is flashed
    /\ pc[t] = "flash"
    /\ img \in todo[t]
    /\ installed' \in {installed, installed \ {img}}
    /\ cache' = [cache EXCEPT ![img] = Outdated(img)]
    /\ todo' = [todo EXCEPT ![t] = @ \ {img}]
    /\ UNCHANGED <<pc, arg, first, idx, ok, g_is_fw_update_processing, flags, type,
                   g_fw_update_retry_count, images, file, table, disk, mode,
                   locked, misled, events, bounds>>

FlashFails(t, img) ==
    /\ pc[t] = "flash"
    /\ img \in todo[t]
    /\ installed' \in {installed, installed \ {img}}
    /\ cache' = [cache EXCEPT ![img] = Outdated(img)]
    /\ todo' = [todo EXCEPT ![t] = {}]
    /\ Goto(t, "reset")
    /\ UNCHANGED <<arg, first, idx, ok, g_is_fw_update_processing, flags, type,
                   g_fw_update_retry_count, images, file, table, disk, mode,
                   locked, misled, events, bounds>>

FlashDone(t) ==
    /\ pc[t] = "flash"
    /\ todo[t] = {}
    /\ ok' = [ok EXCEPT ![t] = TRUE]
    /\ Goto(t, "reset")
    /\ UNCHANGED <<arg, first, idx, todo, g_is_fw_update_processing, flags, type,
                   g_fw_update_retry_count, images, file, table, disk, module,
                   queries, events, bounds>>

\* DO_RESET: do_fastboot_reboot, or switch_t7xx_mode(HW_RESET) if that fails;
\* the module may come back in any mode.
DoReset(t) ==
    /\ pc[t] = "reset"
    /\ g_need_cxp_reboot' = FALSE
    /\ mode' \in Modes
    /\ Goto(t, "finish")
    /\ UNCHANGED <<locals, g_is_fw_update_processing, g_need_update, type,
                   g_fw_update_retry_count, images, file, table, disk, installed,
                   queries, events, bounds>>

\* The flag is cleared; a successful download then waits for the MBIM port.
Finish(t) ==
    /\ pc[t] = "finish"
    /\ g_is_fw_update_processing' = FALSE
    /\ Goto(t, "record")
    /\ UNCHANGED <<locals, flags, type, g_fw_update_retry_count, images, file,
                   table, disk, module, queries, events, bounds>>

\* A failure saves the count and only then increments it, in memory.
RecordFailure(t) ==
    /\ file' = g_fw_update_retry_count
    /\ g_fw_update_retry_count' = g_fw_update_retry_count + 1
    /\ Goto(t, "failed")

RecordSuccess(t) ==
    /\ file' = 0
    /\ g_fw_update_retry_count' = 0
    /\ Goto(t, "succeeded")

Record(t) ==
    /\ pc[t] = "record"
    /\ \/ ok[t] /\ mode = "ready" /\ RecordSuccess(t)
       \/ RecordFailure(t)
    /\ ok' = [ok EXCEPT ![t] = FALSE]
    /\ UNCHANGED <<arg, first, idx, todo, g_is_fw_update_processing, flags, type,
                   images, table, disk, module, queries, events, bounds>>

-------------------------------------------------------------------------------
(* The callers of start_update_process_pcie.                                *)

\* RET_OK: the flash data are removed, as the update type says by now.
UpdateSucceeded(t) ==
    /\ pc[t] = "succeeded"
    /\ RemoveFlashData(g_update_type)
    /\ Goto(t, IF t = "main" /\ first[t] THEN "idle" ELSE "cxp")
    /\ UNCHANGED <<locals, g_is_fw_update_processing, flags, type,
                   g_fw_update_retry_count, images, file, table, flz, module,
                   queries, events, bounds>>

\* RET_FAILED: after the first attempt only if an update is needed, and after a
\* retry in any case, the attempt is repeated while the saved count is below the
\* threshold.
UpdateFailed(t) ==
    /\ pc[t] = "failed"
    /\ first' = [first EXCEPT ![t] = FALSE]
    /\ Goto(t, IF (first[t] => g_need_update) /\ file < RetryTH THEN "begin" ELSE "cxp")
    /\ UNCHANGED <<arg, idx, todo, ok, g_is_fw_update_processing, flags, type,
                   g_fw_update_retry_count, images, file, table, disk, module,
                   queries, events, bounds>>

\* A carrier change still waits for a reboot of the module.
CxpReboot(t) ==
    /\ pc[t] = "cxp"
    /\ \/ /\ g_need_cxp_reboot
          /\ mode' \in Modes
       \/ /\ ~g_need_cxp_reboot
          /\ UNCHANGED mode
    /\ g_need_cxp_reboot' = FALSE
    /\ first' = [first EXCEPT ![t] = TRUE]
    /\ Goto(t, "idle")
    /\ UNCHANGED <<arg, idx, todo, ok, g_is_fw_update_processing, g_need_update,
                   type, g_fw_update_retry_count, images, file, table, disk,
                   installed, queries, events, bounds>>

-------------------------------------------------------------------------------
ThreadStep(t) ==
    \/ ReadEvent(t)
    \/ TakeNotice(t)
    \/ CheckUpdateData(t)
    \/ Settle(t)
    \/ TestProcessing(t)
    \/ Begin(t)
    \/ Query(t)
    \/ VersionArrives(t)
    \/ VersionFails(t)
    \/ AskEsim(t)
    \/ EsimEnds(t)
    \/ FindImages(t)
    \/ GenerateTable(t)
    \/ CheckTable(t)
    \/ SwitchToFastboot(t)
    \/ OpenTable(t)
    \/ \E img \in Images : FlashOk(t, img) \/ FlashFails(t, img)
    \/ FlashDone(t)
    \/ DoReset(t)
    \/ Finish(t)
    \/ Record(t)
    \/ UpdateSucceeded(t)
    \/ UpdateFailed(t)
    \/ CxpReboot(t)

Next ==
    \/ \E t \in Threads : ThreadStep(t)
    \/ \E kind \in scenario.kinds : \E current, old \in SUBSET ImagesOf(kind) :
           PackageMoved(kind, current, old)
    \/ \E what \in {"flz", "folder"} : Notice(what)
    \/ Restart
    \/ \E read \in SUBSET Images : PrefReads(read)

Spec == Init /\ [][Next]_vars

\* Every wait of an attempt is a sleep, a bounded loop or a wait with a timeout, but
\* for pthread_mutex_lock of g_mutex, which returns when the mutex is free.
FairSpec == Spec /\ \A t \in Threads : WF_vars(ThreadStep(t))

-------------------------------------------------------------------------------
(* Properties.                                                              *)

TypeOK ==
    /\ scenario \in Scenarios
    /\ pc \in [Threads -> Labels]
    /\ arg \in [Threads -> {"flz", "folder", "startup"}]
    /\ first \in [Threads -> BOOLEAN]
    /\ idx \in [Threads -> 1..Len(Asked)]
    /\ todo \in [Threads -> SUBSET Images]
    /\ ok \in [Threads -> BOOLEAN]
    /\ g_is_fw_update_processing \in BOOLEAN
    /\ g_need_update \in BOOLEAN
    /\ g_need_cxp_reboot \in BOOLEAN
    /\ g_update_type \in SUBSET Parts
    /\ g_update_based_type \in {"flz", "folder"}
    /\ g_fw_update_retry_count \in Nat
    /\ matches \in SUBSET Images
    /\ list \in Seq(Entry)
    /\ count \in 0..Len(list)
    /\ file \in Nat
    /\ table \in SUBSET Entry
    /\ flz \in SUBSET Parts
    /\ folders \in SUBSET Parts
    /\ files \in SUBSET FilesOf(folders)
    /\ mode \in Modes
    /\ installed \in SUBSET Images
    /\ cache \in [Images -> Versions]
    /\ locked \in BOOLEAN
    /\ misled \in SUBSET Images
    /\ moved \in 0..scenario.packages
    /\ notices \in Seq({"flz", "folder"})
    /\ packages \in 0..scenario.packages
    /\ noticed \in 0..scenario.notices
    /\ restarts \in 0..scenario.restarts
    /\ readings \in 0..scenario.readings

\* The flag never outlives the work it announces: whatever way the attempts of
\* the two threads end, no later package or notice is turned away for good.
FlagReleased == g_is_fw_update_processing => \E t \in Threads : pc[t] \in Section

\* Packages have firmware, unzip leaves out none of the descriptions, and the mapping
\* table has an image for the module.
WholePackages == scenario.lost \subseteq Images /\ {"dev"} \notin scenario.kinds

\* When only the main loop updates whole packages, the image files in the flash
\* folders, the only source of a recovery, are removed only when the module has the
\* images intact, over failed flashes, retries and restarts; with one exception: the
\* attempt took pwl_pref's word for an image that was damaged since pwl_pref read it.
RemovedOnlyWhenInstalled ==
    [][ scenario.threads = {"main"} /\ WholePackages /\ packages' = packages =>
            (files \ files') \cap Images \subseteq installed \cup misled ]_vars

\* pthread_mutex_lock of g_mutex, or the re-locking at the end of a wait.
Blocked(t) == locked /\ pc[t] \in {"query", "asking", "esimWait"}

\* Every attempt ends, with a result for its caller, unless the service restarts or
\* the thread hangs at g_mutex, which the query of the eSIM state has left locked: no
\* other way into, through or out of an attempt keeps it for ever.
AttemptEnds ==
    \A t \in Threads : pc[t] \in Attempt ~>
        (pc[t] \in {"succeeded", "failed", "idle"} \/ Blocked(t))

\* Two updates never work on the module at the same time.
OneUpdateAtATime ==
    \A t, u \in Threads : pc[t] \in Download /\ pc[u] \in Download => t = u

\* An update that keeps failing is stopped.
UpdateStops == \A t \in Threads : pc[t] # "idle" ~> (pc[t] = "idle" \/ Blocked(t))

===============================================================================
