------------------------ MODULE UsbCdGadgetProperties ------------------------
(* What the gadget promises its host, and what keeps its two contexts apart. *)
EXTENDS UsbCdGadget

MediumTypeOK ==
    /\ m_mediaState \in MediaStates
    /\ m_CDReady \in BOOLEAN
    /\ m_bEjected \in BOOLEAN
    /\ m_bEjectOnLoad \in BOOLEAN
    /\ m_bPendingDiscSwap \in BOOLEAN
    /\ m_bMediumRemovalPrevented \in BOOLEAN
    /\ m_pDevice \in Discs \cup {NoDisc}
    /\ discChanged \in BOOLEAN

StatusTypeOK ==
    /\ m_SenseParams \in Senses
    /\ bmCSWStatus \in Status
    /\ m_nState \in BotStates
    /\ m_CBW \in CommandKinds
    /\ m_CSW \in Status
    /\ epIn \in {"None", "Data", "CSW"}
    /\ epOut \in {"None", "CBW", "Data"}

ReadTypeOK ==
    /\ m_nblock_address \in Nat
    /\ m_nnumber_blocks \in Nat
    /\ subchannel_selection \in BOOLEAN
    /\ batch \in 0..MaxBlocks
    /\ xfer \in [disc : Discs \cup {NoDisc}, want : Nat, got : Nat]

TaskTypeOK ==
    /\ isInitialized \in BOOLEAN
    /\ pc \in Steps
    /\ newDevice \in Discs \cup {NoDisc}
    /\ bDiscSwap \in BOOLEAN

\* Every variable has its type; the counters of blocks never go negative.
TypeOK == MediumTypeOK /\ StatusTypeOK /\ ReadTypeOK /\ TaskTypeOK

-----------------------------------------------------------------------------
(* The medium *)

\* An ejected drive is empty to the host: not ready, NO_MEDIUM, nothing about
\* to announce a disc and no NewMedia event owed, whatever resets, swaps and
\* commands came before.  (Eject itself sets its flag before the rest.)
EjectedIsEmpty ==
    m_bEjected /\ pc \notin EjectSteps =>
        /\ m_mediaState = "NO_MEDIUM"
        /\ ~m_CDReady
        /\ ~m_bPendingDiscSwap
        /\ ~discChanged

\* m_CDReady, the gate every disc command looks at, never stands open without
\* a device behind it, not even between the stores of a swap; and between
\* routines it agrees with the medium state the host is told.
ReadyMeansDisc ==
    /\ m_CDReady => m_pDevice # NoDisc
    /\ AtRest => (m_CDReady <=> m_mediaState # "NO_MEDIUM")

-----------------------------------------------------------------------------
(* The transport *)

\* OnTransferComplete asserts on a completion in a phase that does not expect
\* it, so what is queued on the endpoints always belongs to m_nState; and a
\* phase in which the drive owes the host something has queued it.
CompletionsExpected ==
    /\ epIn = "CSW"   <=> m_nState = "SentCSW"
    /\ epIn = "Data"  <=> m_nState \in {"DataIn", "SendReqSenseReply"}
    /\ epOut = "Data" <=> m_nState = "DataOut"
    /\ epOut = "CBW"   => m_nState = "ReceiveCBW"
    /\ pc = "Read"     => m_nState = "DataInRead"

\* A batch never runs past the lead-out of the mounted disc and never exceeds
\* the staging buffer.
BatchInsideDisc ==
    pc = "Read" =>
        /\ batch \in 1..MaxBlocks
        /\ m_nblock_address + batch <= LeadoutLBA

\* A read that ends GOOD on the disc it was accepted for has delivered every
\* block it owed, no more and no fewer, over however many batches.  (With
\* subchannel data the last batch may be cut short, and still ends GOOD.)
ReadOfSameDisc ==
    m_CBW \in {"Read", "ReadCD"} /\ xfer.disc # NoDisc /\ xfer.disc = m_pDevice
GoodReadIsWhole ==
    [][ /\ ReadOfSameDisc /\ ~subchannel_selection
        /\ m_nState = "DataIn" /\ m_nState' = "SentCSW" /\ m_CSW' = "OK"
        => xfer.got = xfer.want ]_vars

\* A CHECK CONDITION has a reason: when a command fails and the drive-wide
\* status is not what failed it, REQUEST SENSE has something to report.
FailureHasSense ==
    epIn = "CSW" /\ m_CSW = "FAIL" /\ bmCSWStatus = "OK" => m_SenseParams # "None"

-----------------------------------------------------------------------------
(* The gadget implements the abstract drive.  Eject raises its flag first and *)
(* empties the drive after, so the medium counts as removed at the end of it; *)
(* a batch being read and a reply being sent are both a command that runs.    *)

driveMedium ==
    CASE m_mediaState = "NO_MEDIUM"      -> "Empty"
      [] m_mediaState = "UNIT_ATTENTION" -> "Changed"
      [] m_mediaState = "READY"          -> "Ready"
driveRemoved == m_bEjected /\ pc \notin EjectSteps
drivePhase ==
    CASE m_nState = "Init"       -> "Off"
      [] m_nState = "ReceiveCBW" -> "Idle"
      [] m_nState = "SentCSW"    -> "Status"
      [] OTHER                   -> "Busy"

Drive == INSTANCE CDDrive WITH
    medium <- driveMedium, removed <- driveRemoved, phase <- drivePhase

\* To its host the gadget is such a drive: every new medium is announced before
\* it is ready and acknowledged by a command, a removed one comes back only by
\* hand, and each command gets one status before the next is taken.
ImplementsDrive == Drive!DriveSpec

-----------------------------------------------------------------------------
(* Progress *)

\* The scheduler is round-robin: the CD-ROM task gets to call Update however
\* often the SCSITB task mounts and ejects (that task sleeps 100 ms per round,
\* the settle time is 0.1 ms), hence SF.  A task inside a routine runs on, and
\* the controller completes a queued transfer the host is waiting for.
Fairness ==
    /\ SF_vars(UpdateSwap) /\ SF_vars(UpdateRead)
    /\ WF_vars(UpdateReadDone) /\ WF_vars(UpdateDone)
    /\ WF_vars(SetDevice \/ InitializeSlept)
    /\ WF_vars(pc \in EjectSteps /\ Eject) /\ WF_vars(pc \in InsertSteps /\ Insert)
    /\ WF_vars(TransferInComplete) /\ WF_vars(DataOutReceived)
FairSpec == Spec /\ Fairness

\* Every accepted command is answered: the drive comes back to waiting for a
\* command (BOT: each CBW is followed by its CSW), unless the bus goes down.
CommandIsAnswered ==
    m_nState \notin {"Init", "ReceiveCBW"} ~> m_nState \in {"Init", "ReceiveCBW"}

\* A medium that was swapped in or re-inserted is announced, or taken out again.
SwapCompletes == m_bPendingDiscSwap ~> m_CDReady \/ m_bEjected

-----------------------------------------------------------------------------
(* What comments and tests of the repository say, and the code does not do *)

\* usbcdgadget.h: "a stale block count sends the gadget back into the read path
\* after an unrelated command's transfer completes".
OnlyReadsStream == m_nState = "DataInRead" => m_CBW \in {"Read", "ReadCD"}

\* A read is answered from the disc it was accepted for.
ReadOfOneDisc ==
    [][ /\ pc = "Read" /\ m_nState' = "DataIn" /\ m_CBW \in {"Read", "ReadCD"}
        => xfer.disc = m_pDevice ]_vars
=============================================================================
