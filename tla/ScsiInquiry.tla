----------------------------- MODULE ScsiInquiry -----------------------------
(* addon/usbcdgadget/scsi_inquiry.cpp *)
EXTENDS ScsiMisc

\* Refused only for a VPD page the drive does not have.
Inquiry(known) ==
    /\ IF known THEN Reply("OK") /\ UNCHANGED m_SenseParams
                ELSE sendCheckCondition("IllegalRequest")
    /\ ClearCount
    /\ UNCHANGED bmCSWStatus
    /\ Untouched

\* mutant of AcknowledgesAttention: reporting any sense makes the medium ready.
AcknowledgesAnySense == m_SenseParams # "None"

AcknowledgesAttention == m_mediaState = "UNIT_ATTENTION"

\* Whatever sense is standing is reported and cleared; under UNIT ATTENTION the
\* medium becomes READY, whether or not that sense was the UNIT ATTENTION.
RequestSense ==
    /\ m_CSW' = "OK"
    /\ epIn' = "Data"
    /\ m_nState' = "SendReqSenseReply"
    /\ m_SenseParams' = "None"
    /\ IF AcknowledgesAttention
       THEN m_mediaState' = "READY" /\ bmCSWStatus' = "OK"
       ELSE UNCHANGED <<m_mediaState, bmCSWStatus>>
    /\ UNCHANGED <<m_CDReady, m_bEjected, m_bEjectOnLoad, m_bPendingDiscSwap,
                   m_bMediumRemovalPrevented, m_pDevice, discChanged, readVars>>

\* MODE SENSE(6) and (10): asking for saved values also fails the drive-wide
\* status; an unknown page does not.
ModeSense(saved, known) ==
    /\ IF saved \/ ~known
       THEN sendCheckCondition("IllegalRequest") /\ UNCHANGED readVars
       ELSE Reply("OK") /\ ClearCount /\ UNCHANGED m_SenseParams
    /\ bmCSWStatus' = IF saved THEN "FAIL" ELSE bmCSWStatus
    /\ Untouched

ModeSense6(saved, known)  == ModeSense(saved, known)
ModeSense10(saved, known) == ModeSense(saved, known)

GetConfiguration ==
    Reply("OK") /\ ClearCount /\ UNCHANGED senseVars /\ Untouched

ModeSelect10 ==
    /\ m_nState' = "DataOut"
    /\ m_CSW' = bmCSWStatus
    /\ UNCHANGED <<epIn, senseVars, readVars>>
    /\ Untouched
=============================================================================
