----------------------------- MODULE UsbCdGadget -----------------------------
(* CUSBCDGadget: the USB CD-ROM gadget as a whole (usbcdgadget.cpp,           *)
(* tcdstate_update.cpp) with the part of CDROMService that calls it.          *)
(*                                                                            *)
(* Tasks run Update, SetDevice, Eject and Insert a few stores at a time, pc   *)
(* naming the stores that come next.  An interrupt handler is one step.  It   *)
(* may land wherever no task is inside a routine; Preempts says which kinds   *)
(* may also land inside which routine, so that a run (or a theorem) can tell  *)
(* the interleavings a property survives from those that break it.            *)
EXTENDS ScsiToolbox

CONSTANT Preempts   \* pairs <<routine, kind of interrupt>>

Routines   == {"SetDevice", "Eject", "Insert", "Swap", "Read"}
\* REQUEST SENSE and START STOP UNIT are the commands that move the medium.
Interrupts == {"Activate", "MediaCommand", "Command", "Transfer"}

ASSUME PreemptsAssumption == Preempts \subseteq Routines \X Interrupts

SetDeviceSteps == {"SetDevice", "NotReady", "NoMedium", "Delete", "Adopt", "Announce"}
EjectSteps     == {"EjectNotReady", "EjectNoMedium"}
InsertSteps    == {"InsertNoMedium", "InsertAnnounce"}
SwapSteps      == {"SwapState", "SwapSense"}
ReadSteps      == {"Read"}
RestSteps      == {"Idle", "Update"}
Steps == SetDeviceSteps \cup EjectSteps \cup InsertSteps \cup SwapSteps
           \cup ReadSteps \cup RestSteps

Routine ==
    CASE pc \in SetDeviceSteps -> "SetDevice"
      [] pc \in EjectSteps     -> "Eject"
      [] pc \in InsertSteps    -> "Insert"
      [] pc \in SwapSteps      -> "Swap"
      [] pc \in ReadSteps      -> "Read"
      [] OTHER                 -> "None"

AtRest == pc \in RestSteps
MayInterrupt(kind) == AtRest \/ <<Routine, kind>> \in Preempts

-----------------------------------------------------------------------------
(* Interrupt context *)

\* mutant of ResetAnnounces: an ejected disc comes back with the next reset.
ResetAnnouncesEjected == m_pDevice # NoDisc /\ ~m_CDReady

\* mutant of ResetAnnounces: the drive is made ready before it has a device.
ResetAnnouncesNoDisc == ~m_CDReady /\ ~m_bEjected

ResetAnnounces == m_pDevice # NoDisc /\ ~m_CDReady /\ ~m_bEjected

\* Bus reset, re-enumeration, SET CONFIGURATION.  The controller has dropped
\* every transfer; the gadget asks for the next command.
OnActivate ==
    /\ isInitialized
    /\ MayInterrupt("Activate")
    /\ IF ResetAnnounces
       THEN /\ m_CDReady' = TRUE
            /\ m_mediaState' = "UNIT_ATTENTION"
            /\ m_SenseParams' = "UnitAttention"
            /\ bmCSWStatus' = "FAIL"
            /\ discChanged' = TRUE
            /\ UNCHANGED <<m_bEjected, m_bEjectOnLoad, m_bPendingDiscSwap,
                           m_bMediumRemovalPrevented, m_pDevice>>
       ELSE UNCHANGED <<mediaVars, discChanged, senseVars>>
    /\ m_nState' = "ReceiveCBW"
    /\ epOut' = "CBW"
    /\ epIn' = "None"
    /\ xfer' = NoXfer
    /\ UNCHANGED <<m_CBW, m_CSW, readVars, taskVars>>

\* Suspend: the endpoints are deleted with what they had queued, and nothing
\* happens until a reset and AddEndpoints bring new ones.
OnSuspend ==
    /\ isInitialized
    /\ MayInterrupt("Activate")
    /\ m_nState' = "Init"
    /\ epOut' = "None"
    /\ epIn' = "None"
    /\ xfer' = NoXfer
    /\ UNCHANGED <<mediaVars, discChanged, senseVars, m_CBW, m_CSW, readVars,
                   taskVars>>

\* The status has been delivered: ask for the next command.
StatusSent ==
    /\ m_nState = "SentCSW"
    /\ m_nState' = "ReceiveCBW"
    /\ epIn' = "None"
    /\ epOut' = "CBW"
    /\ UNCHANGED <<m_CSW, m_SenseParams>>

\* A reply or a batch of sectors has been delivered.
DataInSent ==
    /\ m_nState = "DataIn"
    /\ IF m_nnumber_blocks = 0
       THEN SendCSW(m_CSW) /\ UNCHANGED m_SenseParams
       ELSE IF m_CDReady
            THEN /\ m_nState' = "DataInRead"
                 /\ epIn' = "None"
                 /\ UNCHANGED <<m_CSW, m_SenseParams>>
            ELSE sendCheckCondition("NotReady")
    /\ UNCHANGED epOut

\* mutant of SenseSent: the sense is sent and no status after it.
SenseSentOnly ==
    /\ m_nState = "SendReqSenseReply"
    /\ epIn' = "None"
    /\ UNCHANGED <<m_nState, m_CSW, epOut, m_SenseParams>>

SenseSent ==
    /\ m_nState = "SendReqSenseReply"
    /\ SendCSW(m_CSW)
    /\ UNCHANGED <<epOut, m_SenseParams>>

\* OnTransferComplete(bIn).  In any other phase the code asserts.
TransferInComplete ==
    /\ epIn # "None"
    /\ MayInterrupt("Transfer")
    /\ StatusSent \/ DataInSent \/ SenseSent
    /\ UNCHANGED <<mediaVars, discChanged, bmCSWStatus, m_CBW, readVars,
                   taskVars, xfer>>

\* OnTransferComplete(!bIn) in DataOut: ProcessOut, then the status.
DataOutReceived ==
    /\ epOut = "Data"
    /\ m_nState = "DataOut"
    /\ MayInterrupt("Transfer")
    /\ \E accepted \in BOOLEAN :
          /\ m_CBW = "ModeSelect" => accepted
          /\ ProcessSendFileOut(accepted)
    /\ epOut' = "None"
    /\ UNCHANGED <<mediaVars, discChanged, bmCSWStatus, m_CBW, readVars,
                   taskVars, xfer>>

\* A CBW that is short, unsigned or not meaningful stalls the IN endpoint and
\* queues nothing: only a reset gets the drive out of it.
InvalidCBW ==
    /\ epOut = "CBW"
    /\ m_nState = "ReceiveCBW"
    /\ MayInterrupt("Command")
    /\ epOut' = "None"
    /\ UNCHANGED <<mediaVars, discChanged, senseVars, m_nState, m_CBW, m_CSW,
                   epIn, readVars, taskVars, xfer>>

-----------------------------------------------------------------------------
(* HandleSCSICommand: the central UNIT ATTENTION check, then the handler. *)

UnitAttentionBlocks == m_mediaState = "UNIT_ATTENTION"

Received(kind) ==
    /\ epOut = "CBW"
    /\ m_nState = "ReceiveCBW"
    /\ MayInterrupt(kind)

\* A valid CBW was consumed; only the data-out commands queue OUT again.
Consumed(kind) ==
    /\ m_CBW' = kind
    /\ epOut' = IF m_nState' = "DataOut" THEN "Data" ELSE "None"
    /\ UNCHANGED taskVars

\* Blocked commands and unknown opcodes.
RefusedCommand ==
    /\ Received("Command")
    /\ \/ UnitAttentionBlocks /\ sendCheckCondition("UnitAttention")
       \/ sendCheckCondition("IllegalRequest")
    /\ Consumed("Other")
    /\ xfer' = NoXfer
    /\ UNCHANGED <<bmCSWStatus, readVars>>
    /\ Untouched

ReadCommand ==
    /\ Received("Command")
    /\ ~UnitAttentionBlocks
    /\ \E lba \in Addresses, n \in Counts :
          \/ DoRead(lba, n) /\ Consumed("Read")
          \/ \E sub, valid \in BOOLEAN :
                ReadCD(lba, n, sub, valid) /\ Consumed("ReadCD")

AudioCommand ==
    /\ Received("Command")
    /\ \/ /\ ~UnitAttentionBlocks
          /\ \E lba \in Addresses, audio \in BOOLEAN :
                DoPlayAudio(lba, audio) \/ PlayAudioMSF(audio) \/ Seek(lba)
       \/ PauseResume
       \/ StopScan
    /\ Consumed("Other")
    /\ xfer' = NoXfer

MediaCommand ==
    /\ Received("MediaCommand")
    /\ \/ RequestSense
       \/ \E start, loej \in BOOLEAN : StartStopUnit(start, loej)
    /\ Consumed("Other")
    /\ xfer' = NoXfer

DiscCommand ==
    /\ Received("Command")
    /\ \/ \E valid \in BOOLEAN : \/ ReadTOC(valid)
                                 \/ ReadTrackInformation(valid)
                                 \/ ReadDiscStructure(valid)
       \/ ReadDiscInformation
       \/ ReadHeader
       \/ ReadSubChannel
       \/ ReadCapacity
       \/ TestUnitReady
    /\ Consumed("Other")
    /\ xfer' = NoXfer

DriveCommand ==
    /\ Received("Command")
    /\ \/ \E prevent \in BOOLEAN : PreventAllowMediumRemoval(prevent)
       \/ \E polled, media, fits \in BOOLEAN :
             GetEventStatusNotification(polled, media, fits)
       \/ \E known \in BOOLEAN : Inquiry(known)
       \/ \E saved, known \in BOOLEAN : ModeSense6(saved, known)
                                          \/ ModeSense10(saved, known)
       \/ MechanismStatus
       \/ GetPerformance
       \/ CommandA4
       \/ GetConfiguration
       \/ Verify
       \/ SetCDROMSpeed
    /\ Consumed("Other")
    /\ xfer' = NoXfer

ModeSelectCommand ==
    /\ Received("Command")
    /\ ModeSelect10
    /\ Consumed("ModeSelect")
    /\ xfer' = NoXfer

ToolboxCommand ==
    /\ Received("Command")
    /\ \/ ListDevices \/ NumberOfFiles \/ ListFiles \/ SetNextCD
       \/ \E refusal \in {"None", "NotReady", "IllegalRequest"} :
             SendFilePrep(refusal)
       \/ \E refusal \in {"None", "IllegalRequest"} :
             SendFile10(refusal) \/ \E drain \in BOOLEAN : SendFileEnd(refusal, drain)
    /\ Consumed("SendFile")
    /\ xfer' = NoXfer

HandleSCSICommand ==
    \/ RefusedCommand \/ ReadCommand \/ AudioCommand \/ MediaCommand
    \/ DiscCommand \/ DriveCommand \/ ModeSelectCommand \/ ToolboxCommand

-----------------------------------------------------------------------------
(* Task context.  SetDevice, Eject and Insert are called by the SCSITB task,  *)
(* which runs one of them at a time; newDevice is set for as long as it is    *)
(* inside CDROMService::SetDevice.                                            *)

NoCall == pc = "Idle" /\ newDevice = NoDisc

TransportUnchanged == UNCHANGED <<botVars, readVars, batch, xfer>>

\* The boot-time arm, before the first image is loaded.
ArmBootEject ==
    /\ NoCall /\ ~isInitialized
    /\ m_bEjectOnLoad' = TRUE
    /\ m_bEjected' = TRUE
    /\ m_CDReady' = FALSE
    /\ m_mediaState' = "NO_MEDIUM"
    /\ m_bPendingDiscSwap' = FALSE
    /\ discChanged' = FALSE
    /\ TransportUnchanged
    /\ UNCHANGED <<m_bMediumRemovalPrevented, m_pDevice, senseVars,
                   isInitialized, pc, newDevice, bDiscSwap>>

DisarmBootEject ==
    /\ NoCall /\ m_bEjectOnLoad
    /\ m_bEjectOnLoad' = FALSE
    /\ TransportUnchanged
    /\ UNCHANGED <<m_mediaState, m_CDReady, m_bEjected, m_bPendingDiscSwap,
                   m_bMediumRemovalPrevented, m_pDevice, discChanged,
                   senseVars, isInitialized, pc, newDevice, bDiscSwap>>

\* CDROMService::SetDevice.  The first call puts the gadget on the bus and
\* sleeps, so everything else may run before the gadget has its device.  Each
\* call brings a fresh IImageDevice, also when it is the same image again.
LoadImage(dev) ==
    /\ NoCall
    /\ newDevice' = dev
    /\ isInitialized' = TRUE
    /\ pc' = IF isInitialized THEN "SetDevice" ELSE "Idle"
    /\ TransportUnchanged
    /\ UNCHANGED <<mediaVars, discChanged, senseVars, bDiscSwap>>

InitializeSlept ==
    /\ pc = "Idle" /\ newDevice # NoDisc
    /\ pc' = "SetDevice"
    /\ TransportUnchanged
    /\ UNCHANGED <<mediaVars, discChanged, senseVars, isInitialized, newDevice,
                   bDiscSwap>>

\* CUSBCDGadget::SetDevice, store by store.
SetDevice ==
    /\ \/ /\ pc = "SetDevice"
          /\ m_bEjectOnLoad' = FALSE
          /\ m_bEjected' = m_bEjectOnLoad
          /\ bDiscSwap' = (m_pDevice # NoDisc)
          /\ pc' = IF bDiscSwap' \/ ~m_CDReady THEN "NotReady" ELSE "Adopt"
          /\ UNCHANGED <<m_mediaState, m_CDReady, m_bPendingDiscSwap, m_pDevice,
                         senseVars, newDevice>>
       \/ /\ pc = "NotReady"
          /\ m_CDReady' = FALSE
          /\ pc' = "NoMedium"
          /\ UNCHANGED <<m_mediaState, m_bEjected, m_bEjectOnLoad, m_pDevice,
                         m_bPendingDiscSwap, senseVars, newDevice, bDiscSwap>>
       \/ /\ pc = "NoMedium"
          /\ m_mediaState' = "NO_MEDIUM"
          /\ m_SenseParams' = "MediumNotPresent"
          /\ bmCSWStatus' = "FAIL"
          /\ pc' = "Delete"
          /\ UNCHANGED <<m_CDReady, m_bEjected, m_bEjectOnLoad, m_pDevice,
                         m_bPendingDiscSwap, newDevice, bDiscSwap>>
       \/ /\ pc = "Delete"
          /\ m_pDevice' = NoDisc
          /\ pc' = "Adopt"
          /\ UNCHANGED <<m_mediaState, m_CDReady, m_bEjected, m_bEjectOnLoad,
                         m_bPendingDiscSwap, senseVars, newDevice, bDiscSwap>>
       \/ /\ pc = "Adopt"
          /\ m_pDevice' = newDevice
          /\ pc' = "Announce"
          /\ UNCHANGED <<m_mediaState, m_CDReady, m_bEjected, m_bEjectOnLoad,
                         m_bPendingDiscSwap, senseVars, newDevice, bDiscSwap>>
       \/ /\ pc = "Announce"
          /\ m_bPendingDiscSwap' = (m_bPendingDiscSwap \/ bDiscSwap)
          /\ newDevice' = NoDisc
          /\ bDiscSwap' = FALSE
          /\ pc' = "Idle"
          /\ UNCHANGED <<m_mediaState, m_CDReady, m_bEjected, m_bEjectOnLoad,
                         m_pDevice, senseVars>>
    /\ TransportUnchanged
    /\ UNCHANGED <<m_bMediumRemovalPrevented, discChanged, isInitialized>>

Eject ==
    /\ \/ /\ NoCall /\ ~m_bEjected
          /\ m_bEjected' = TRUE
          /\ m_bPendingDiscSwap' = FALSE
          /\ m_bMediumRemovalPrevented' = FALSE
          /\ pc' = "EjectNotReady"
          /\ UNCHANGED <<m_mediaState, m_CDReady, discChanged, senseVars>>
       \/ /\ pc = "EjectNotReady"
          /\ m_CDReady' = FALSE
          /\ pc' = "EjectNoMedium"
          /\ UNCHANGED <<m_mediaState, m_bEjected, m_bPendingDiscSwap, discChanged,
                         m_bMediumRemovalPrevented, senseVars>>
       \/ /\ pc = "EjectNoMedium"
          /\ m_mediaState' = "NO_MEDIUM"
          /\ m_SenseParams' = "MediumNotPresent"
          /\ bmCSWStatus' = "FAIL"
          /\ discChanged' = FALSE
          /\ pc' = "Idle"
          /\ UNCHANGED <<m_CDReady, m_bEjected, m_bPendingDiscSwap,
                         m_bMediumRemovalPrevented>>
    /\ TransportUnchanged
    /\ UNCHANGED <<m_bEjectOnLoad, m_pDevice, isInitialized, newDevice, bDiscSwap>>

Insert ==
    /\ \/ /\ NoCall /\ m_bEjected /\ m_pDevice # NoDisc
          /\ m_bEjected' = FALSE
          /\ pc' = "InsertNoMedium"
          /\ UNCHANGED <<m_mediaState, m_CDReady, m_bPendingDiscSwap>>
       \/ /\ pc = "InsertNoMedium"
          /\ m_mediaState' = "NO_MEDIUM"
          /\ m_CDReady' = FALSE
          /\ pc' = "InsertAnnounce"
          /\ UNCHANGED <<m_bEjected, m_bPendingDiscSwap>>
       \/ /\ pc = "InsertAnnounce"
          /\ m_bPendingDiscSwap' = TRUE
          /\ pc' = "Idle"
          /\ UNCHANGED <<m_mediaState, m_CDReady, m_bEjected>>
    /\ TransportUnchanged
    /\ UNCHANGED <<m_bEjectOnLoad, m_bMediumRemovalPrevented, m_pDevice,
                   discChanged, senseVars, isInitialized, newDevice, bDiscSwap>>

\* mutant of StillEmpty: a host that has fetched the sense is taken to know.
StillEmptyUnlessReported ==
    m_mediaState = "NO_MEDIUM" /\ m_SenseParams = "MediumNotPresent"

StillEmpty == m_mediaState = "NO_MEDIUM"

\* First half of Update: once the settle time has passed, a pending media
\* change is announced, or found announced and closed.
UpdateSwap ==
    /\ \/ /\ pc = "Idle" /\ m_bPendingDiscSwap
          /\ IF StillEmpty
             THEN /\ m_CDReady' = TRUE
                  /\ pc' = "SwapState"
                  /\ UNCHANGED m_bPendingDiscSwap
             ELSE /\ m_bPendingDiscSwap' = FALSE
                  /\ pc' = "Update"
                  /\ UNCHANGED m_CDReady
          /\ UNCHANGED <<m_mediaState, discChanged, senseVars>>
       \/ /\ pc = "SwapState"
          /\ m_mediaState' = "UNIT_ATTENTION"
          /\ pc' = "SwapSense"
          /\ UNCHANGED <<m_CDReady, m_bPendingDiscSwap, discChanged, senseVars>>
       \/ /\ pc = "SwapSense"
          /\ m_SenseParams' = "UnitAttention"
          /\ bmCSWStatus' = "FAIL"
          /\ discChanged' = TRUE
          /\ pc' = "Update"
          /\ UNCHANGED <<m_mediaState, m_CDReady, m_bPendingDiscSwap>>
    /\ TransportUnchanged
    /\ UNCHANGED <<m_bEjected, m_bEjectOnLoad, m_bMediumRemovalPrevented,
                   m_pDevice, isInitialized, newDevice, bDiscSwap>>

\* Blocks of the next batch, and blocks owed after it, of the n owed now.  A
\* batch that overflows the buffer is cut down, but what is cut is owed again
\* only if it was not the last batch.
BufferFits == IF subchannel_selection THEN SubFit ELSE MaxBlocks
BatchSize(n) == Least(n, BufferFits)

\* mutant of OwedAfter: the threshold of the faster bus.
OwedAfterFasterBus(n) == IF n > 2 * MaxBlocks THEN n - BufferFits ELSE 0

\* mutant of OwedAfter: the last batch is taken for a full one.
OwedAfterFull(n) == n - BufferFits

OwedAfter(n) ==
    IF n > MaxBlocks THEN n - BufferFits ELSE 0

\* Second half of Update, up to the call of IImageDevice::Read.
UpdateRead ==
    /\ pc \in RestSteps
    /\ m_nState = "DataInRead"
    /\ \/ /\ ~m_CDReady
          /\ sendCheckCondition("NotReady")
          /\ pc' = "Idle"
          /\ UNCHANGED <<m_nnumber_blocks, batch>>
       \/ /\ m_CDReady /\ m_nblock_address >= LeadoutLBA
          /\ sendCheckCondition("IllegalRequest")
          /\ pc' = "Idle"
          /\ UNCHANGED <<m_nnumber_blocks, batch>>
       \/ /\ m_CDReady /\ m_nblock_address < LeadoutLBA
          /\ LET n == Truncated(m_nblock_address, m_nnumber_blocks)
             IN \/ /\ sendCheckCondition("NotReady")   \* the image cannot seek
                   /\ m_nnumber_blocks' = n
                   /\ pc' = "Idle"
                   /\ UNCHANGED batch
                \/ /\ batch' = BatchSize(n)
                   /\ m_nnumber_blocks' = OwedAfter(n)
                   /\ pc' = "Read"
                   /\ UNCHANGED <<m_SenseParams, m_CSW, epIn, m_nState>>
    /\ UNCHANGED <<mediaVars, discChanged, bmCSWStatus, m_CBW, epOut, xfer,
                   m_nblock_address, subchannel_selection, isInitialized,
                   newDevice, bDiscSwap>>

\* What Read returned: nothing, an error or too little fails the command; a
\* full batch goes out.
UpdateReadDone ==
    /\ pc = "Read"
    /\ pc' = "Idle"
    /\ batch' = 0
    /\ \/ /\ \E sense \in {"IllegalRequest", "MediumError"} :
                sendCheckCondition(sense)
          /\ UNCHANGED <<m_nblock_address, xfer>>
       \/ /\ batch > 0
          /\ m_nblock_address' = m_nblock_address + batch
          /\ Reply("OK")
          /\ xfer' = [xfer EXCEPT !.got = @ + batch,
                                   !.disc = IF @ = m_pDevice THEN @ ELSE NoDisc]
          /\ UNCHANGED m_SenseParams
    /\ UNCHANGED <<mediaVars, discChanged, bmCSWStatus, m_CBW, epOut,
                   m_nnumber_blocks, subchannel_selection, isInitialized,
                   newDevice, bDiscSwap>>

UpdateDone ==
    /\ pc = "Update"
    /\ m_nState # "DataInRead"
    /\ pc' = "Idle"
    /\ TransportUnchanged
    /\ UNCHANGED <<mediaVars, discChanged, senseVars, isInitialized, newDevice,
                   bDiscSwap>>

-----------------------------------------------------------------------------
Init ==
    /\ m_mediaState = "NO_MEDIUM"
    /\ m_CDReady = FALSE
    /\ m_bEjected = FALSE
    /\ m_bEjectOnLoad = FALSE
    /\ m_bPendingDiscSwap = FALSE
    /\ m_bMediumRemovalPrevented = FALSE
    /\ m_pDevice = NoDisc
    /\ discChanged = FALSE
    /\ m_SenseParams = "None"
    /\ bmCSWStatus = "OK"
    /\ m_nState = "Init"
    /\ m_CBW = "None"
    /\ m_CSW = "OK"
    /\ epIn = "None"
    /\ epOut = "None"
    /\ m_nblock_address = 0
    /\ m_nnumber_blocks = 0
    /\ subchannel_selection = FALSE
    /\ isInitialized = FALSE
    /\ pc = "Idle"
    /\ newDevice = NoDisc
    /\ bDiscSwap = FALSE
    /\ batch = 0
    /\ xfer = NoXfer

Interrupt ==
    \/ OnActivate \/ OnSuspend \/ TransferInComplete \/ DataOutReceived
    \/ InvalidCBW \/ HandleSCSICommand

UserTask ==
    \/ ArmBootEject \/ DisarmBootEject
    \/ \E dev \in Discs : LoadImage(dev)
    \/ Eject \/ Insert

Update == UpdateSwap \/ UpdateRead \/ UpdateReadDone \/ UpdateDone

Next == Interrupt \/ UserTask \/ InitializeSlept \/ SetDevice \/ Update

Spec == Init /\ [][Next]_vars
=============================================================================
