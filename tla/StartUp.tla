------------------------------- MODULE StartUp -------------------------------
(***************************************************************************)
(* From power-on to the main loop (CKernel, SetupStatus, UpgradeStatus): the *)
(* first boot grows, formats and fills the partition of the images; a boot   *)
(* that finds an archive checks and unpacks it over the system.  Any call to *)
(* the card may fail and the power may go between any two.  What they leave  *)
(* on the card is all the next boot knows.                                   *)
(***************************************************************************)
EXTENDS Naturals, Sequences

CONSTANTS
    Shipped,        \* the images in 0:/images
    OwnImages,      \* images the user adds
    SystemFiles,    \* what an archive replaces on 0:
    MaxCuts, MaxFaults, MaxUploads     \* bounds: power cuts, failed calls, uploads

StartAssumption ==
    Shipped \cap OwnImages = {} /\ {MaxCuts, MaxFaults, MaxUploads} \subseteq Nat

Images == Shipped \cup OwnImages
ArchiveFiles == {"tar", "crc", "others"}   \* of this kernel; both of the other
NoFile == "no file"

VARIABLES
    partition,      \* the entry of partition 2: "none", "small" or "full"
    filesystem,     \* what it is formatted to, the same
    volume,         \* of each image: "absent", "part" or "whole" on 1:
    system,         \* of each system file: "old", "part" or "new"
    archives,       \* the upgrade files on 0:
    crcMatches,     \* the .crc holds the checksum of the .tar
    stage,          \* of the device
    m_upgradeRequired, handled, current, toUnlink,   \* of one boot
    added,          \* history: the images the user put there and left there
    cuts, faults, uploads

cardVars  == <<partition, filesystem, volume, system, archives, crcMatches>>
bootVars  == <<m_upgradeRequired, handled, current, toUnlink>>
userVars  == <<added, uploads>>
startVars == <<cardVars, stage, bootVars, userVars, cuts, faults>>

Nothing == [f \in Images |-> "absent"]

Init ==
    /\ partition \in {"none", "small"} /\ filesystem \in {"none", "small"}
    /\ partition = "none" => filesystem = "none"
    /\ volume = Nothing
    /\ system = [f \in SystemFiles |-> "old"]
    /\ archives \in SUBSET ArchiveFiles /\ crcMatches \in BOOLEAN
    /\ stage = "Off"
    /\ m_upgradeRequired = FALSE /\ handled = {} /\ current = NoFile /\ toUnlink = <<>>
    /\ added = {} /\ cuts = 0 /\ faults = 0 /\ uploads = 0

\* A card flashed from a release, with no upgrade on it.
IsNewCard == partition = "small" /\ filesystem = "small" /\ archives = {} /\ ~crcMatches

\* A call to the card succeeds, or fails.
Works == UNCHANGED faults
Fails == faults < MaxFaults /\ faults' = faults + 1

\* The device goes on, all else as it is.
To(next) == stage' = next /\ UNCHANGED <<cardVars, bootVars>>

\* RAM is lost.
Off ==
    /\ stage' = "Off"
    /\ m_upgradeRequired' = FALSE /\ handled' = {} /\ current' = NoFile /\ toUnlink' = <<>>
    /\ UNCHANGED cardVars

-----------------------------------------------------------------------------
(* The kernel *)

\* A stat that fails is an archive that is not there.
Initialize ==
    /\ stage = "Off"
    /\ \/ Fails /\ To("Halted")
       \/ \E found \in BOOLEAN :
            /\ IF found = ("tar" \in archives) THEN Works ELSE ~found /\ Fails
            /\ m_upgradeRequired' = found
            /\ stage' = "Choose"
            /\ UNCHANGED <<cardVars, handled, current, toUnlink>>

\* mutant of IsAdequate: setup resumes while a shipped image is missing.
IsFilled == filesystem = "full" /\ \A f \in Shipped : volume[f] = "whole"

\* The volume mounts and is larger than the placeholder.
IsAdequate == filesystem = "full"

\* Setup goes first; a volume that cannot be mounted is taken for the placeholder.
ChooseMode ==
    /\ stage = "Choose"
    /\ \/ Works /\ To(IF ~IsAdequate THEN "Resize"
                      ELSE IF m_upgradeRequired THEN "Verify" ELSE "Mount")
       \/ Fails /\ To("Resize")

MountImages ==
    /\ stage = "Mount"
    /\ (Works /\ To("Running")) \/ (Fails /\ To("Halted"))

Restart == stage = "Reboot" /\ Works /\ Off

-----------------------------------------------------------------------------
(* Setup *)

\* An entry that was grown before is kept.
ResizeSecondPartition ==
    /\ stage = "Resize"
    /\ \/ (Fails \/ (partition = "none" /\ Works)) /\ To("Halted")
       \/ /\ partition # "none" /\ Works
          /\ partition' = "full"
          /\ stage' = "Format"
          /\ UNCHANGED <<filesystem, volume, system, archives, crcMatches, bootVars>>

\* f_mkfs ends what was there before it has anything new in place.
FormatPartition ==
    /\ stage \in {"Format", "Formatting"}
    /\ \/ Fails /\ To("Halted")
       \/ /\ Works
          /\ IF stage = "Format"
             THEN filesystem' = "none" /\ volume' = Nothing /\ stage' = "Formatting"
             ELSE filesystem' = partition /\ stage' = "CopyMount" /\ UNCHANGED volume
          /\ UNCHANGED <<partition, system, archives, crcMatches, bootVars>>

\* A folder that is not found is no error.
CopyMount ==
    /\ stage = "CopyMount"
    /\ (Works /\ To("Copy")) \/ (Fails /\ (To("Halted") \/ To("Remount")))

\* One image: created, then filled or left as far as it came.
CopyImage ==
    /\ stage = "Copy"
    /\ IF current = NoFile
       THEN \E f \in Shipped \ handled :
              \/ Works /\ current' = f /\ volume' = [volume EXCEPT ![f] = "part"]
                       /\ UNCHANGED handled
              \/ Fails /\ handled' = handled \cup {f} /\ UNCHANGED <<current, volume>>
       ELSE /\ handled' = handled \cup {current} /\ current' = NoFile
            /\ \/ Works /\ volume' = [volume EXCEPT ![current] = "whole"]
               \/ Fails /\ UNCHANGED volume
    /\ UNCHANGED <<partition, filesystem, system, archives, crcMatches, stage,
                   m_upgradeRequired, toUnlink>>

\* The listing ends, or fails: either is the end of the copy.
CopyEnds ==
    /\ stage = "Copy" /\ current = NoFile
    /\ (Shipped \subseteq handled /\ Works) \/ Fails
    /\ To("Remount")

Remount ==
    /\ stage = "Remount"
    /\ (Works /\ To("Reboot")) \/ (Fails /\ To("Halted"))

-----------------------------------------------------------------------------
(* Upgrade *)

Own == <<"tar", "crc">>

\* mutant of CleanUp: only the files of the other kernel are removed.
CleanUpOther == <<"others">>

\* All files go; those of this kernel are named twice.
CleanUp == Own \o Own \o <<"others">>

Unlinking(files, next) ==
    /\ toUnlink' = files /\ stage' = next /\ current' = NoFile
    /\ UNCHANGED <<m_upgradeRequired, handled>>

\* mutant of Verified: the archive is removed as soon as it was checked.
VerifiedAndGone == archives' = archives \ {"tar"} /\ UNCHANGED crcMatches

Verified == UNCHANGED <<archives, crcMatches>>

ArchiveMatches == {"tar", "crc"} \subseteq archives /\ crcMatches

\* performUpgrade up to the comparison of the checksums.
Verify ==
    /\ stage = "Verify"
    /\ \/ /\ Works /\ ArchiveMatches
          /\ stage' = "Extract"
          /\ Verified
          /\ UNCHANGED bootVars
       \/ /\ Fails \/ (Works /\ ~ArchiveMatches)
          /\ Unlinking(Own, "Discard")
          /\ UNCHANGED <<archives, crcMatches>>
    /\ UNCHANGED <<partition, filesystem, volume, system>>

\* One file: opened, which empties it, then written.  Any failure ends it all.
ExtractFile ==
    /\ stage = "Extract"
    /\ \/ /\ Works
          /\ IF current = NoFile
             THEN \E f \in SystemFiles \ handled :
                    /\ current' = f /\ UNCHANGED handled
                    /\ system' = [system EXCEPT ![f] = "part"]
             ELSE /\ handled' = handled \cup {current} /\ current' = NoFile
                  /\ system' = [system EXCEPT ![current] = "new"]
          /\ UNCHANGED <<stage, m_upgradeRequired, toUnlink>>
       \/ Fails /\ Unlinking(Own, "Discard") /\ UNCHANGED system
    /\ UNCHANGED <<partition, filesystem, volume, archives, crcMatches>>

ExtractEnds ==
    /\ stage = "Extract" /\ current = NoFile /\ SystemFiles \subseteq handled
    /\ Works /\ Unlinking(CleanUp, "CleanUp")
    /\ UNCHANGED cardVars

\* f_unlink, its result ignored.
Unlink ==
    /\ stage \in {"Discard", "CleanUp"} /\ toUnlink # <<>>
    /\ toUnlink' = Tail(toUnlink)
    /\ \/ Works /\ archives' = archives \ {Head(toUnlink)}
       \/ Fails /\ UNCHANGED archives
    /\ UNCHANGED <<partition, filesystem, volume, system, crcMatches, stage,
                   m_upgradeRequired, handled, current>>

UpgradeEnds ==
    /\ stage \in {"Discard", "CleanUp"} /\ toUnlink = <<>>
    /\ Works
    /\ To(IF stage = "CleanUp" THEN "Reboot" ELSE "Halted")

-----------------------------------------------------------------------------
(* The user, the power *)

\* While it runs, or with the card in a reader.
Reachable == stage \in {"Running", "Off"}

Upload(file) ==
    /\ Reachable /\ file \notin archives
    /\ uploads < MaxUploads /\ uploads' = uploads + 1
    /\ archives' = archives \cup {file}
    /\ IF file \in {"tar", "crc"} THEN crcMatches' \in BOOLEAN ELSE UNCHANGED crcMatches
    /\ UNCHANGED <<partition, filesystem, volume, system, stage, bootVars, added>>

ChangeImage(f, is) ==
    /\ Reachable /\ filesystem = "full" /\ volume[f] # is
    /\ volume' = [volume EXCEPT ![f] = is]
    /\ added' = IF is = "whole" THEN added \cup {f} ELSE added \ {f}
    /\ UNCHANGED <<partition, filesystem, system, archives, crcMatches, stage, bootVars,
                   uploads>>

User ==
    /\ \/ \E file \in ArchiveFiles : Upload(file)
       \/ \E f \in Images, is \in {"whole", "absent"} : ChangeImage(f, is)
    /\ UNCHANGED <<cuts, faults>>

SwitchOff == stage = "Running" /\ Works /\ Off
PowerCycle == stage = "Halted" /\ Works /\ Off

PowerCut ==
    /\ stage # "Off"
    /\ cuts < MaxCuts /\ cuts' = cuts + 1
    /\ Works /\ Off
    /\ UNCHANGED userVars

-----------------------------------------------------------------------------
Step == \/ Initialize \/ ChooseMode \/ MountImages \/ Restart
        \/ ResizeSecondPartition \/ FormatPartition
        \/ CopyMount \/ CopyImage \/ CopyEnds \/ Remount
        \/ Verify \/ ExtractFile \/ ExtractEnds \/ Unlink \/ UpgradeEnds

Device == Step /\ UNCHANGED <<userVars, cuts>>
Switch(action) == action /\ UNCHANGED <<userVars, cuts>>

Next == Device \/ User \/ Switch(SwitchOff) \/ Switch(PowerCycle) \/ PowerCut

Spec == Init /\ [][Next]_startVars

-----------------------------------------------------------------------------
Stages == {"Off", "Choose", "Mount", "Running", "Halted", "Reboot", "Resize", "Format",
           "Formatting", "CopyMount", "Copy", "Remount", "Verify", "Extract", "Discard",
           "CleanUp"}

\* Every variable has its type.
TypeOK ==
    /\ partition \in {"none", "small", "full"} /\ filesystem \in {"none", "small", "full"}
    /\ volume \in [Images -> {"absent", "part", "whole"}]
    /\ system \in [SystemFiles -> {"old", "part", "new"}]
    /\ archives \subseteq ArchiveFiles /\ crcMatches \in BOOLEAN
    /\ stage \in Stages
    /\ m_upgradeRequired \in BOOLEAN
    /\ handled \subseteq Shipped \cup SystemFiles
    /\ current \in {NoFile} \cup Shipped \cup SystemFiles
    /\ toUnlink \in Seq(ArchiveFiles)
    /\ added \subseteq Images
    /\ cuts \in 0..MaxCuts /\ faults \in 0..MaxFaults /\ uploads \in 0..MaxUploads

Whole == \E version \in {"old", "new"} : \A f \in SystemFiles : system[f] = version

\* Power cuts alone never leave a system that runs half upgraded: whenever the
\* main loop is reached, every file of the system is of one version.
UpgradeIsWhole == stage = "Running" /\ faults = 0 => Whole

\* README, "without losing any of your disc images": power cuts alone, in a
\* setup, an upgrade or between them, lose no image the user added.
ImagesSurvive == faults = 0 => \A f \in added : volume[f] = "whole"

\* A card with an image partition always gets to the main loop in the end:
\* neither setup nor an upgrade starts over for ever.
StartsUp == stage # "Running" /\ partition # "none" ~> stage = "Running"
=============================================================================
