----------------------------- MODULE GadgetState -----------------------------
(* The shared state of CUSBCDGadget (addon/usbcdgadget/usbcdgadget.h) and the *)
(* small helpers every SCSI handler ends in.                                  *)
(*                                                                            *)
(* The gadget is driven from two contexts.  The interrupt context runs        *)
(* OnActivate and OnTransferComplete; every SCSI handler runs inside the      *)
(* latter, and interrupts do not nest, so a handler is one atomic step.  The  *)
(* task context runs Update, SetDevice, Eject and Insert under a cooperative  *)
(* scheduler: a task is never preempted by a task, but an interrupt may land  *)
(* between any two of its stores.                                             *)
EXTENDS Integers, FiniteSets

CONSTANTS
    Discs,        \* the image devices a task may hand to SetDevice
    NoDisc,       \* nullptr
    Leadout,      \* Leadout[d]: first address past the last block of disc d
    Addresses,    \* the block addresses a host asks for
    Counts,       \* the transfer lengths, in blocks, a host asks for
    AddressSpace, \* block arithmetic is modulo this (2^32 in the code)
    MaxBlocks,    \* blocks of one batch (32 high speed, 16 full speed)
    SubFit        \* blocks of one batch that fit with 96 bytes of subchannel

ASSUME DiscAssumption ==
    /\ NoDisc \notin Discs
    /\ Leadout \in [Discs -> Nat \ {0}]

ASSUME TransferAssumption ==
    /\ AddressSpace \in Nat \ {0}
    /\ \A d \in Discs : Leadout[d] < AddressSpace
    /\ Addresses \subseteq 0..(AddressSpace - 1)
    /\ Counts \subseteq 0..(AddressSpace - 1)
    /\ MaxBlocks \in Nat \ {0}
    /\ SubFit \in 1..MaxBlocks

VARIABLES
    m_mediaState,               \* what the drive tells the host of its medium
    m_CDReady,                  \* the gate of every command that needs a disc
    m_bEjected,
    m_bEjectOnLoad,             \* boot restore: adopt the next image, stay empty
    m_bPendingDiscSwap,         \* Update has a media change to announce
    m_bMediumRemovalPrevented,
    m_pDevice,
    discChanged,                \* GESN owes the host a NewMedia event
    m_SenseParams,
    bmCSWStatus,                \* the drive-wide status some handlers report
    m_nState,                   \* phase of the Bulk-Only Transport
    m_CBW,                      \* kind of the command being executed
    m_CSW,                      \* status of the command being executed
    epIn, epOut,                \* what BeginTransfer has queued on an endpoint
    m_nblock_address,
    m_nnumber_blocks,           \* blocks still owed to the host
    subchannel_selection,
    isInitialized,              \* CDROMService: the gadget is on the bus
    pc, newDevice, bDiscSwap,   \* where a task is inside a routine, its locals
    batch,                      \* blocks_to_read_in_batch
    xfer                        \* history: the data phase of the read in flight

mediaVars == <<m_mediaState, m_CDReady, m_bEjected, m_bEjectOnLoad,
               m_bPendingDiscSwap, m_bMediumRemovalPrevented, m_pDevice>>
senseVars == <<m_SenseParams, bmCSWStatus>>
botVars   == <<m_nState, m_CBW, m_CSW, epIn, epOut>>
readVars  == <<m_nblock_address, m_nnumber_blocks, subchannel_selection>>
taskVars  == <<isInitialized, pc, newDevice, bDiscSwap, batch>>
vars      == <<mediaVars, discChanged, senseVars, botVars, readVars, taskVars,
               xfer>>

-----------------------------------------------------------------------------
MediaStates == {"NO_MEDIUM", "UNIT_ATTENTION", "READY"}
BotStates   == {"Init", "ReceiveCBW", "DataIn", "DataOut", "DataInRead",
                "SentCSW", "SendReqSenseReply"}
Senses      == {"None", "NotReady", "MediumNotPresent", "UnitAttention",
                "IllegalRequest", "MediumError"}
Status      == {"OK", "FAIL"}
\* READ and READ CD are told apart from the rest because only they may stream
\* sectors; the data-out commands because ProcessOut looks at the opcode.
CommandKinds == {"None", "Read", "ReadCD", "ModeSelect", "SendFile", "Other"}

\* disc: the disc a read was accepted for, as long as it was served from it.
NoXfer == [disc |-> NoDisc, want |-> 0, got |-> 0]

-----------------------------------------------------------------------------
(* Helpers of usbcdgadget.cpp *)

\* mutant of SendCSW: the phase is not advanced.
SendCSWInPhase(status) ==
    /\ m_CSW' = status
    /\ epIn' = "CSW"
    /\ UNCHANGED m_nState

SendCSW(status) ==
    /\ m_CSW' = status
    /\ epIn' = "CSW"
    /\ m_nState' = "SentCSW"

setSenseData(sense) == m_SenseParams' = sense

sendCheckCondition(sense) == setSenseData(sense) /\ SendCSW("FAIL")

NotReadySense ==
    IF m_mediaState = "NO_MEDIUM" THEN "MediumNotPresent" ELSE "NotReady"

\* mutant of sendNotReady: no sense is set.
sendNotReadyBare == SendCSW("FAIL") /\ UNCHANGED m_SenseParams

sendNotReady == sendCheckCondition(NotReadySense)

sendGoodStatus == SendCSW("OK") /\ UNCHANGED m_SenseParams

\* A data-in reply: BeginTransfer(TransferDataIn, ...), m_nState = DataIn.
Reply(status) ==
    /\ m_CSW' = status
    /\ epIn' = "Data"
    /\ m_nState' = "DataIn"

\* "nothing more after this send"
ClearCount == m_nnumber_blocks' = 0 /\ UNCHANGED <<m_nblock_address,
                                                   subchannel_selection>>

Least(a, b) == IF a <= b THEN a ELSE b

\* CDUtils::GetLeadoutLBA of the mounted disc; 0 when there is none to ask.
LeadoutLBA == IF m_pDevice \in Discs THEN Leadout[m_pDevice] ELSE 0

\* mutant of Truncated: a range that starts on the disc may end past it.
Untruncated(lba, n) == n

\* "m_nblock_address + m_nnumber_blocks > max_lba" in 32-bit arithmetic, and
\* the truncation both DoRead and Update apply when it holds.
Truncated(lba, n) ==
    IF (lba + n) % AddressSpace > LeadoutLBA THEN LeadoutLBA - lba ELSE n
=============================================================================
