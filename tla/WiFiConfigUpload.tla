--------------------------- MODULE WiFiConfigUpload ---------------------------
(* CWiFiConfigUpload (addon/configservice/wificonfig.cpp) with the handlers   *)
(* of addon/usbcdgadget/scsi_toolbox.cpp that feed it.  The host stages a     *)
(* configuration block by block from interrupt context; ConfigService's task  *)
(* writes it to a temporary file and puts it in place, one FatFs call per     *)
(* step.  The host, a bus reset or a power cut may come between any two.      *)
EXTENDS Naturals, Sequences

CONSTANTS
    BlockSize,      \* bytes of one block (512 in the code)
    MaxConfigSize,  \* bytes of the staging buffer (8192)
    MaxUploads,     \* bound: uploads the host begins
    NoFile          \* the content of a file that does not exist

ASSUME SizeAssumption ==
    /\ BlockSize \in Nat \ {0}
    /\ MaxConfigSize \in Nat \ {0}
    /\ MaxUploads \in Nat

VARIABLES
    m_State, m_nLength, m_Buffer, m_bRebootRequested,
    dataOut,            \* the data-out phase the host is in: None, D3, D4, D5
    work, bak, tmp,     \* wpa_supplicant.conf, .bak and the temporary file
    commit,             \* where ProcessCommit is
    moved,              \* Moved == FR_OK: the working file was put aside
    rebootScheduled,    \* a CShutdown task is counting down
    uploads,            \* history: uploads begun; the bytes of one carry its number
    accepted,           \* history: the configurations the host was told GOOD for
    last                \* history: the last configuration that was in place

stageVars  == <<m_State, m_nLength, m_Buffer>>
fileVars   == <<work, bak, tmp>>
historyVars == <<uploads, accepted, last>>
wifiVars   == <<stageVars, m_bRebootRequested, dataOut, fileVars, commit, moved,
                rebootScheduled, historyVars>>

States      == {"Idle", "Receiving", "CommitQueued", "Committing"}
CommitSteps == {"None", "UnlinkTemp", "OpenTemp", "WriteTemp", "DropTemp",
                "Install", "MoveAside", "MoveIn", "Rollback", "ClearBackup",
                "WipeBuffer", "WipeState", "Consume"}

Bytes   == 0..MaxUploads            \* 0 is a wiped byte
Offsets == 0..(MaxConfigSize - 1)
Factory == <<MaxUploads + 1>>       \* the configuration the card came with
Wiped   == [i \in Offsets |-> 0]
\* The first n staged bytes, as a file.
Staged(n) == [i \in 1..n |-> m_Buffer[i - 1]]

\* mutant of IsBusy: a commit is busy only until it is claimed.
IsBusyQueued == m_State = "CommitQueued"

IsBusy == m_State \in {"CommitQueued", "Committing"}

-----------------------------------------------------------------------------
(* Interrupt context.  A handler is atomic, and runs beside the task. *)

Wipe == m_Buffer' = Wiped /\ m_nLength' = 0 /\ m_State' = "Idle"

Abort == IF IsBusy THEN UNCHANGED stageVars ELSE Wipe

IrqUnchanged == UNCHANGED <<m_bRebootRequested, fileVars, commit, moved,
                            rebootScheduled, last>>

Begin ==
    IF IsBusy
    THEN UNCHANGED <<stageVars, uploads>>
    ELSE \/ Wipe /\ UNCHANGED uploads         \* not a name it may replace
         \/ /\ uploads < MaxUploads
            /\ m_State' = "Receiving"
            /\ m_Buffer' = Wiped
            /\ m_nLength' = 0
            /\ uploads' = uploads + 1

\* mutant of Fits: a block may end past the buffer.
FitsPastEnd(index, n) == index * BlockSize <= m_nLength

\* A block is staged where its index says; a gap or an overrun is refused.
Fits(index, n) ==
    /\ index * BlockSize + n <= MaxConfigSize
    /\ index * BlockSize <= m_nLength
Stage(index, n) ==
    LET first == index * BlockSize
    IN /\ m_State = "Receiving" /\ Fits(index, n)
       /\ m_Buffer' = [i \in Offsets |-> IF i \in first..(first + n - 1)
                                         THEN uploads ELSE m_Buffer[i]]
       /\ m_nLength' = IF first + n > m_nLength THEN first + n ELSE m_nLength
       /\ UNCHANGED m_State

RequestCommit ==
    /\ m_State = "Receiving" /\ m_nLength > 0
    /\ m_State' = "CommitQueued"
    /\ accepted' = accepted \cup {Staged(m_nLength)}
    /\ UNCHANGED <<m_nLength, m_Buffer>>

FinishSendFile ==
    \/ RequestCommit
    \/ ~(m_State = "Receiving" /\ m_nLength > 0) /\ Abort /\ UNCHANGED accepted

\* D3: a second PREP abandons what the first one staged.
SendFilePrep ==
    /\ dataOut = "None"
    /\ IF IsBusy
       THEN UNCHANGED <<stageVars, dataOut>>
       ELSE Abort /\ dataOut' \in {"None", "D3"}
    /\ UNCHANGED <<uploads, accepted>> /\ IrqUnchanged

PrepReceived ==
    /\ dataOut = "D3" /\ dataOut' = "None"
    /\ Begin
    /\ UNCHANGED accepted /\ IrqUnchanged

\* D4: a block whose CDB is out of range ends the upload.
SendFile10 ==
    /\ dataOut = "None"
    /\ IF m_State # "Receiving"
       THEN UNCHANGED <<stageVars, dataOut>>
       ELSE \/ Abort /\ UNCHANGED dataOut
            \/ dataOut' = "D4" /\ UNCHANGED stageVars
    /\ UNCHANGED <<uploads, accepted>> /\ IrqUnchanged

\* The data of a block; a short data phase or a refused block ends the upload.
BlockReceived ==
    /\ dataOut = "D4" /\ dataOut' = "None"
    /\ \/ Abort
       \/ \E index \in 0..((MaxConfigSize - 1) \div BlockSize), n \in 1..BlockSize :
             Stage(index, n) \/ (~Fits(index, n) /\ Abort)
    /\ UNCHANGED <<uploads, accepted>> /\ IrqUnchanged

\* D5, with its four bytes to drain first or none.
SendFileEnd ==
    /\ dataOut = "None"
    /\ IF m_State # "Receiving"
       THEN UNCHANGED <<stageVars, dataOut, accepted>>
       ELSE \/ Abort /\ UNCHANGED <<dataOut, accepted>>
            \/ dataOut' = "D5" /\ UNCHANGED <<stageVars, accepted>>
            \/ FinishSendFile /\ UNCHANGED dataOut
    /\ UNCHANGED uploads /\ IrqUnchanged

EndReceived ==
    /\ dataOut = "D5" /\ dataOut' = "None"
    /\ FinishSendFile
    /\ UNCHANGED uploads /\ IrqUnchanged

\* OnActivate: a reset ends a half-received upload, not a queued commit.
ResetSendFileState ==
    /\ dataOut' = "None"
    /\ Abort
    /\ UNCHANGED <<uploads, accepted>> /\ IrqUnchanged

Host == \/ SendFilePrep \/ PrepReceived \/ SendFile10 \/ BlockReceived
        \/ SendFileEnd \/ EndReceived \/ ResetSendFileState

-----------------------------------------------------------------------------
(* Task context.  A FatFs call may fail; f_rename never replaces a file. *)

TaskUnchanged == UNCHANGED <<dataOut, uploads, accepted>>

GoOn(from, to) == commit = from /\ commit' = to

Unlinked(file) == file' \in {NoFile, file}   \* f_unlink, result ignored

\* mutant of CommitDue: nothing is installed once a reboot is scheduled.
CommitDueUntilReboot == m_State = "CommitQueued" /\ ~rebootScheduled

CommitDue == m_State = "CommitQueued"

\* The commit is claimed before the first FatFs call.
StartCommit ==
    /\ GoOn("None", "UnlinkTemp")
    /\ CommitDue
    /\ m_State' = "Committing"
    /\ moved' = FALSE
    /\ TaskUnchanged
    /\ UNCHANGED <<m_nLength, m_Buffer, m_bRebootRequested, fileVars,
                   rebootScheduled, last>>

\* WriteTempFile: a card that is full writes less, a sync or close may fail.
WriteTempFile ==
    /\ \/ GoOn("UnlinkTemp", "OpenTemp") /\ Unlinked(tmp)
       \/ GoOn("OpenTemp", "WipeBuffer") /\ UNCHANGED tmp
       \/ GoOn("OpenTemp", "WriteTemp") /\ tmp' = <<>>
       \/ \E n \in 0..m_nLength :
             /\ tmp' = Staged(n)
             /\ \/ GoOn("WriteTemp", "DropTemp")
                \/ n = m_nLength /\ GoOn("WriteTemp", "Install")
       \/ GoOn("DropTemp", "WipeBuffer") /\ Unlinked(tmp)
    /\ TaskUnchanged
    /\ UNCHANGED <<stageVars, m_bRebootRequested, work, bak, moved,
                   rebootScheduled, last>>

\* mutant of MayReplaceBackup: a backup left by a power cut is thrown away.
MayAlwaysReplaceBackup == TRUE

\* A backup without a working file beside it may be the only copy.
MayReplaceBackup == work # NoFile

Installed == commit = "ClearBackup"

\* InstallTempFile: put the working file aside, move the new one in, or move
\* the old one back.
InstallTempFile ==
    /\ \/ /\ GoOn("Install", "MoveIn")            \* it cannot be opened
          /\ UNCHANGED <<fileVars, moved, last>>
       \/ /\ GoOn("Install", "MoveAside") /\ MayReplaceBackup
          /\ Unlinked(bak)
          /\ UNCHANGED <<work, tmp, moved, last>>
       \/ /\ GoOn("MoveAside", "MoveIn") /\ bak = NoFile
          /\ bak' = work /\ work' = NoFile /\ moved' = TRUE
          /\ UNCHANGED <<tmp, last>>
       \/ /\ GoOn("MoveAside", "DropTemp")
          /\ UNCHANGED <<fileVars, moved, last>>
       \/ /\ GoOn("MoveIn", "ClearBackup") /\ work = NoFile
          /\ work' = tmp /\ tmp' = NoFile /\ last' = tmp
          /\ UNCHANGED <<bak, moved>>
       \/ /\ GoOn("MoveIn", IF moved THEN "Rollback" ELSE "DropTemp")
          /\ UNCHANGED <<fileVars, moved, last>>
       \/ /\ GoOn("Rollback", "DropTemp")
          /\ \/ work' = bak /\ bak' = NoFile
             \/ UNCHANGED <<work, bak>>
          /\ UNCHANGED <<tmp, moved, last>>
       \/ /\ GoOn("ClearBackup", "WipeBuffer")
          /\ Unlinked(bak)
          /\ UNCHANGED <<work, tmp, moved, last>>
    /\ m_bRebootRequested' = (m_bRebootRequested \/ Installed)
    /\ TaskUnchanged
    /\ UNCHANGED <<stageVars, rebootScheduled>>

\* The staged bytes go either way; the state is released last.
WipeStaged ==
    /\ \/ /\ GoOn("WipeBuffer", "WipeState")
          /\ m_Buffer' = Wiped /\ m_nLength' = 0
          /\ UNCHANGED m_State
       \/ /\ GoOn("WipeState", "Consume")
          /\ m_State' = "Idle"
          /\ UNCHANGED <<m_Buffer, m_nLength>>
    /\ TaskUnchanged
    /\ UNCHANGED <<m_bRebootRequested, fileVars, moved, rebootScheduled, last>>

ConsumeRebootRequest ==
    /\ GoOn("Consume", "None")
    /\ m_bRebootRequested' = FALSE
    /\ rebootScheduled' = (rebootScheduled \/ m_bRebootRequested)
    /\ TaskUnchanged
    /\ UNCHANGED <<stageVars, fileVars, moved, last>>

ProcessCommit == \/ StartCommit \/ WriteTempFile \/ InstallTempFile
                 \/ WipeStaged \/ ConsumeRebootRequest

-----------------------------------------------------------------------------
\* Power is cut, or the scheduled reboot comes: the files are what is left.
WiFiRestart ==
    /\ m_State' = "Idle" /\ m_nLength' = 0 /\ m_Buffer' = Wiped
    /\ m_bRebootRequested' = FALSE
    /\ dataOut' = "None"
    /\ commit' = "None" /\ moved' = FALSE
    /\ rebootScheduled' = FALSE
    /\ UNCHANGED <<fileVars, historyVars>>

WiFiInit ==
    /\ m_State = "Idle" /\ m_nLength = 0 /\ m_Buffer = Wiped
    /\ m_bRebootRequested = FALSE
    /\ dataOut = "None"
    /\ work \in {NoFile, Factory} /\ bak = NoFile /\ tmp = NoFile
    /\ commit = "None" /\ moved = FALSE
    /\ rebootScheduled = FALSE
    /\ uploads = 0 /\ accepted = {}
    /\ last = work
=============================================================================
