----------------------------- MODULE MountService -----------------------------
(* SCSITBService (addon/scsitbservice/scsitbservice.cpp): which image is      *)
(* mounted.  The host, the web pages and the display queue a mount, an eject  *)
(* or an insert; the task serves them every 100 ms; uploads and deletions     *)
(* rescan the list of images; the choice and the eject state survive a power  *)
(* cycle in config.txt.  Of the gadget only its device and its two eject      *)
(* flags are kept (see UsbCdGadget).                                          *)
(*                                                                            *)
(* List indices are one higher than in the code: 0 stands for its -1.         *)
EXTENDS Naturals, FiniteSets

CONSTANTS
    Images,         \* the relative paths of image files, as numbers in list order
    MaxFileChanges, \* bound: uploads and deletions
    RequestsLand    \* the places of the task in which a mount may be requested

NoImage == 0

ASSUME ImagesAssumption == Images \subseteq Nat \ {NoImage} /\ IsFiniteSet(Images)
ASSUME RequestsAssumption == RequestsLand \subseteq {"Idle", "Load", "Scanned"}
ASSUME FileChangesAssumption == MaxFileChanges \in Nat

VARIABLES
    card,                  \* the image files on the card
    m_FileEntries,         \* the list, a sequence
    next_cd, current_cd,   \* indices into it: queued, mounted
    m_MountedRelativePath, m_LastFailedRelativePath,
    m_bPendingEject, m_bPendingInsert,
    m_bBootEjectPending, m_bPersistedEjected,
    current_image, ejected,            \* what config.txt holds
    m_pDevice, m_bEjected, m_bEjectOnLoad,   \* the gadget
    pc,                    \* where the holder of m_Lock is
    relativePath,          \* the image being loaded
    rescanDue,             \* a task changed the card and is to call RefreshCache
    fileChanges,
    asked                  \* history: the queued mount was asked for by somebody

listVars    == <<m_FileEntries, next_cd, current_cd>>
mountVars   == <<m_MountedRelativePath, m_LastFailedRelativePath, current_image>>
pendingVars == <<m_bPendingEject, m_bPendingInsert, m_bBootEjectPending>>
savedVars   == <<m_bPersistedEjected, ejected>>
gadgetVars  == <<m_pDevice, m_bEjected, m_bEjectOnLoad>>
cardVars    == <<card, rescanDue, fileChanges>>
vars == <<listVars, mountVars, pendingVars, savedVars, gadgetVars, cardVars,
          pc, relativePath, asked>>

Count == Cardinality(DOMAIN m_FileEntries)
Listed == {m_FileEntries[i] : i \in DOMAIN m_FileEntries}

\* compareFileEntriesDirectoriesFirst, and the order a directory is read in.
Sorted(S) == [i \in 1..Cardinality(S) |->
                CHOOSE x \in S : Cardinality({y \in S : y < x}) = i - 1]
Orders(S) == {s \in [1..Cardinality(S) -> S] : {s[i] : i \in DOMAIN s} = S}

-----------------------------------------------------------------------------
(* Requests *)

\* From the host (by index, unchecked) or a page (by name, to an index).
SetNextCD(i) ==
    /\ pc \in RequestsLand
    /\ next_cd' = i
    /\ asked' = TRUE
    /\ UNCHANGED <<m_FileEntries, current_cd, mountVars, pendingVars, savedVars,
                   gadgetVars, cardVars, pc, relativePath>>

SetNextCDByName(path) ==
    \E i \in DOMAIN m_FileEntries : m_FileEntries[i] = path /\ SetNextCD(i)

\* These two take the lock; the later request replaces the earlier.
SetPendingEject ==
    /\ pc = "Idle"
    /\ m_bPendingEject' = TRUE /\ m_bPendingInsert' = FALSE
    /\ UNCHANGED <<listVars, mountVars, m_bBootEjectPending, savedVars,
                   gadgetVars, cardVars, pc, relativePath, asked>>

SetPendingInsert ==
    /\ pc = "Idle"
    /\ m_bPendingInsert' = TRUE /\ m_bPendingEject' = FALSE
    /\ UNCHANGED <<listVars, mountVars, m_bBootEjectPending, savedVars,
                   gadgetVars, cardVars, pc, relativePath, asked>>

\* START STOP UNIT, from interrupt context, once the gadget is on the bus.
HostEject ==
    /\ m_pDevice # NoImage /\ ~m_bEjected
    /\ m_bEjected' = TRUE
    /\ UNCHANGED <<listVars, mountVars, pendingVars, savedVars, m_pDevice,
                   m_bEjectOnLoad, cardVars, pc, relativePath, asked>>

Request == \/ m_pDevice # NoImage /\ \E i \in 1..(Count + 1) : SetNextCD(i)
           \/ \E path \in Listed : SetNextCDByName(path)
           \/ SetPendingEject \/ SetPendingInsert \/ HostEject

\* The web server or the FTP server adds or removes a file, then rescans.
ChangeCard ==
    /\ pc # "Boot"
    /\ fileChanges < MaxFileChanges
    /\ fileChanges' = fileChanges + 1
    /\ \E path \in Images :
          card' = IF path \in card THEN card \ {path} ELSE card \cup {path}
    /\ rescanDue' = TRUE
    /\ UNCHANGED <<listVars, mountVars, pendingVars, savedVars, gadgetVars, pc,
                   relativePath, asked>>

-----------------------------------------------------------------------------
(* RefreshCache *)

\* mutant of ScanDirectory: a file that is no image is listed.
ScanDirectoryListsAll ==
    /\ pc = "Idle" /\ rescanDue
    /\ m_FileEntries' \in Orders(card \cup {NoImage})
    /\ pc' = "Scanned"
    /\ rescanDue' = FALSE
    /\ UNCHANGED <<next_cd, current_cd, mountVars, pendingVars, savedVars,
                   gadgetVars, card, fileChanges, relativePath, asked>>

\* The directories are read, with yields, into the list itself ...
ScanDirectory ==
    /\ pc = "Idle" /\ rescanDue
    /\ m_FileEntries' \in Orders(card)
    /\ pc' = "Scanned"
    /\ rescanDue' = FALSE
    /\ UNCHANGED <<next_cd, current_cd, mountVars, pendingVars, savedVars,
                   gadgetVars, card, fileChanges, relativePath, asked>>

\* Index of the image in a list, 0 if it is not there.
IndexIn(list, path) ==
    IF \E i \in DOMAIN list : list[i] = path
    THEN CHOOSE i \in DOMAIN list : list[i] = path ELSE 0

\* First entry that did not just fail to load, 0 if there is none.
FirstGood(list) ==
    LET good == {i \in DOMAIN list : list[i] # m_LastFailedRelativePath}
    IN IF good = {} THEN 0 ELSE CHOOSE i \in good : \A j \in good : i <= j

\* mutant of CurrentIn: the index survives the rescan.
CurrentKept(list) == current_cd

CurrentIn(list) == IndexIn(list, m_MountedRelativePath)

\* ... which is then sorted.  The mounted index is derived again; the saved
\* image is queued if nothing is mounted; if it is not there the first image
\* that works takes its place, but never while ejected.
RefreshCache ==
    LET list  == Sorted(Listed)
        saved == IndexIn(list, current_image)
    IN /\ pc \in {"Scanned", "Boot"}
       /\ m_FileEntries' = list
       /\ current_cd' = CurrentIn(list)
       /\ next_cd' = CASE saved # 0 /\ current_cd' = 0  -> saved
                       [] saved = 0 /\ ~m_bEjected /\ FirstGood(list) # 0
                                                        -> FirstGood(list)
                       [] OTHER                         -> next_cd
       /\ pc' = "Idle"
       /\ asked' = (asked /\ next_cd' = next_cd)
       /\ UNCHANGED <<mountVars, pendingVars, savedVars, gadgetVars, cardVars,
                      relativePath>>

-----------------------------------------------------------------------------
(* Run *)

\* ProcessPendingMount up to loadImageDevice, which yields.
ProcessPendingMount ==
    /\ pc = "Idle"
    /\ IF next_cd \in 1..Count
       THEN pc' = "Load" /\ relativePath' = m_FileEntries[next_cd]
            /\ UNCHANGED next_cd
       ELSE pc' = "Serve" /\ next_cd' = 0 /\ UNCHANGED relativePath
    /\ UNCHANGED <<m_FileEntries, current_cd, mountVars, pendingVars, savedVars,
                   gadgetVars, cardVars, asked>>

\* mutant of LoadFailed: the image is recorded before it is known to load.
LoadFailedRecorded ==
    /\ m_LastFailedRelativePath' = relativePath
    /\ m_MountedRelativePath' = relativePath
    /\ next_cd' = 0
    /\ UNCHANGED <<current_cd, current_image, gadgetVars>>

\* mutant of LoadFailed: the mount stays queued.
LoadFailedRetried ==
    /\ m_LastFailedRelativePath' = relativePath
    /\ UNCHANGED <<next_cd, current_cd, m_MountedRelativePath, current_image,
                   gadgetVars>>

\* A failed load leaves the previous disc.
LoadFailed ==
    /\ m_LastFailedRelativePath' = relativePath
    /\ next_cd' = 0
    /\ UNCHANGED <<current_cd, m_MountedRelativePath, current_image, gadgetVars>>

\* mutant of AdoptedEjected: every mounted image is inserted.
AdoptedInserted == FALSE

\* CUSBCDGadget::SetDevice: the new disc stays out if the boot eject is armed.
AdoptedEjected == m_bEjectOnLoad

\* A good image is given to the gadget and only then recorded.
LoadSucceeded ==
    /\ relativePath \in card
    /\ m_pDevice' = relativePath
    /\ m_bEjected' = AdoptedEjected
    /\ m_bEjectOnLoad' = FALSE
    /\ m_MountedRelativePath' = relativePath
    /\ m_LastFailedRelativePath' = NoImage
    /\ current_image' = relativePath
    /\ current_cd' = next_cd
    /\ next_cd' = 0

Loaded ==
    /\ pc = "Load"
    /\ pc' = "Serve"
    /\ relativePath' = NoImage
    /\ LoadFailed \/ LoadSucceeded
    /\ asked' = FALSE
    /\ UNCHANGED <<m_FileEntries, pendingVars, savedVars, cardVars>>

StaysArmed == m_bEjectOnLoad /\ ~m_bBootEjectPending

\* mutant of Persisted: only what a page asked for is saved.
PersistedWhenAsked(now) ==
    IF m_bPendingEject \/ m_bPendingInsert THEN now ELSE ejected

Persisted(now) == IF now # m_bPersistedEjected THEN now ELSE ejected

\* The rest of the loop: consume the boot arm, serve eject or insert, and save
\* the eject state when it differs from what was saved.
ServePending ==
    /\ pc = "Serve"
    /\ pc' = "Idle"
    /\ m_bBootEjectPending' = FALSE
    /\ m_bEjectOnLoad' = StaysArmed
    /\ m_bPendingEject' = FALSE /\ m_bPendingInsert' = FALSE
    /\ m_bEjected' = IF m_bPendingEject THEN TRUE
                     ELSE IF m_bPendingInsert /\ m_pDevice # NoImage THEN FALSE
                     ELSE m_bEjected
    /\ m_bPersistedEjected' = m_bEjected'
    /\ ejected' = Persisted(m_bEjected')
    /\ UNCHANGED <<listVars, mountVars, m_pDevice, cardVars, relativePath, asked>>

Run == ProcessPendingMount \/ Loaded \/ ServePending

-----------------------------------------------------------------------------
\* The constructor, from what config.txt holds: an ejected drive is armed to
\* stay empty, then the list is scanned.
Boot ==
    /\ m_bPersistedEjected' = ejected
    /\ m_bBootEjectPending' = ejected
    /\ m_bEjected' = ejected /\ m_bEjectOnLoad' = ejected
    /\ m_pDevice' = NoImage
    /\ m_FileEntries' \in Orders(card)
    /\ next_cd' = 0 /\ current_cd' = 0
    /\ m_MountedRelativePath' = NoImage /\ m_LastFailedRelativePath' = NoImage
    /\ m_bPendingEject' = FALSE /\ m_bPendingInsert' = FALSE
    /\ pc' = "Boot"
    /\ relativePath' = NoImage
    /\ rescanDue' = FALSE
    /\ asked' = FALSE
    /\ UNCHANGED <<current_image, ejected, card, fileChanges>>

Init ==
    /\ card \in SUBSET Images
    /\ current_image \in Images \cup {NoImage}
    /\ ejected \in BOOLEAN
    /\ m_bPersistedEjected = ejected /\ m_bBootEjectPending = ejected
    /\ m_bEjected = ejected /\ m_bEjectOnLoad = ejected
    /\ m_pDevice = NoImage
    /\ m_FileEntries \in Orders(card)
    /\ next_cd = 0 /\ current_cd = 0
    /\ m_MountedRelativePath = NoImage /\ m_LastFailedRelativePath = NoImage
    /\ m_bPendingEject = FALSE /\ m_bPendingInsert = FALSE
    /\ pc = "Boot" /\ relativePath = NoImage
    /\ rescanDue = FALSE /\ fileChanges = 0
    /\ asked = FALSE

Next == Request \/ ChangeCard \/ ScanDirectory \/ RefreshCache \/ Run \/ Boot

Spec == Init /\ [][Next]_vars

\* The task runs every 100 ms; whoever holds the lock gives it back.
FairSpec == Spec /\ WF_vars(Run) /\ WF_vars(RefreshCache)

-----------------------------------------------------------------------------
\* Every variable has its type, and only images are listed.
TypeOK ==
    /\ card \subseteq Images /\ Listed \subseteq Images
    /\ next_cd \in Nat /\ current_cd \in Nat
    /\ {m_MountedRelativePath, m_LastFailedRelativePath, current_image, m_pDevice,
        relativePath} \subseteq Images \cup {NoImage}
    /\ {m_bPendingEject, m_bPendingInsert, m_bBootEjectPending, ejected, rescanDue,
        m_bPersistedEjected, m_bEjected, m_bEjectOnLoad, asked} \subseteq BOOLEAN
    /\ pc \in {"Boot", "Idle", "Scanned", "Load", "Serve"}
    /\ fileChanges \in 0..MaxFileChanges

\* current_cd, an index into a list that rescans rebuild, names the image the
\* gadget really has, and no other; it is 0 only when that image is not listed.
CurrentIsMounted ==
    pc \notin {"Scanned", "Boot"} =>
        IF current_cd = 0 THEN m_pDevice \notin Listed
                          ELSE current_cd \in 1..Count /\ m_FileEntries[current_cd] = m_pDevice

\* What is reported as mounted and remembered for the next boot is what the
\* host was given, whatever loads failed since.
MountedIsSaved ==
    /\ m_MountedRelativePath = m_pDevice
    /\ m_pDevice # NoImage => current_image = m_pDevice

\* A drive that was ejected when the power went stays empty while it boots,
\* also through the mount of the image it remembers; and the arm that keeps it so
\* ends with the boot: "otherwise it would sit armed and silently eject the next
\* image the user mounts by hand".
BootStaysEmpty ==
    /\ m_bBootEjectPending => m_bEjected
    /\ m_bEjectOnLoad => m_bBootEjectPending

\* Every eject and insert, whoever made it, reaches config.txt.
EjectIsSaved == ejected # m_bEjected ~> ejected = m_bEjected

\* Every queued mount is served or found to be out of range.
MountIsServed == next_cd # 0 ~> next_cd = 0

-----------------------------------------------------------------------------
\* README: "the drive stays empty until you click Insert Disc or load another
\* image"; RefreshCache: "an empty drive must stay empty, and this path also
\* runs on rescans".
EjectedStaysEmpty ==
    [][ m_bEjected /\ ~m_bEjected' /\ pc' # "Boot" => asked \/ m_bPendingInsert ]_vars
=============================================================================
