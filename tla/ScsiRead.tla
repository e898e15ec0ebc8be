------------------------------- MODULE ScsiRead -------------------------------
(* addon/usbcdgadget/scsi_read.cpp: the commands that read or play the disc.  *)
(* An accepted read only arms DataInRead; Update does the reading.            *)
EXTENDS ScsiToc

\* A read the drive took on: the blocks it owes, and of which disc.
StartXfer(lba, n) ==
    xfer' = [disc |-> m_pDevice, got |-> 0,
             want |-> IF lba < LeadoutLBA THEN Truncated(lba, n) ELSE 0]

NoneStarted == xfer' = NoXfer

\* READ(10) and READ(12).  A refusal leaves the address and the count written.
DoRead(lba, n) ==
    /\ IF ~m_CDReady
       THEN sendNotReady /\ NoneStarted /\ UNCHANGED readVars
       ELSE /\ m_nblock_address' = lba
            /\ IF lba >= LeadoutLBA
               THEN /\ m_nnumber_blocks' = n
                    /\ sendCheckCondition("IllegalRequest")
                    /\ NoneStarted /\ UNCHANGED subchannel_selection
               ELSE /\ m_nnumber_blocks' = Truncated(lba, n)
                    /\ IF Truncated(lba, n) = 0
                       THEN /\ sendCheckCondition("IllegalRequest")
                            /\ NoneStarted /\ UNCHANGED subchannel_selection
                       ELSE /\ m_CSW' = bmCSWStatus
                            /\ m_nState' = "DataInRead"
                            /\ subchannel_selection' = FALSE
                            /\ StartXfer(lba, n)
                            /\ UNCHANGED <<epIn, m_SenseParams>>
    /\ UNCHANGED bmCSWStatus
    /\ Untouched

\* READ CD.  `valid` stands for the checks of the field selection, the sector
\* type and the byte range, all made after the count is written; a count of
\* zero is replaced by one taken from the transfer length, never zero.
ReadCD(lba, n, sub, valid) ==
    /\ IF ~m_CDReady
       THEN sendNotReady /\ NoneStarted /\ UNCHANGED readVars
       ELSE /\ m_nblock_address' = lba
            /\ m_nnumber_blocks' = n
            /\ subchannel_selection' = sub
            /\ IF valid
               THEN /\ n > 0
                    /\ m_CSW' = "OK"
                    /\ m_nState' = "DataInRead"
                    /\ StartXfer(lba, n)
                    /\ UNCHANGED <<epIn, m_SenseParams>>
               ELSE sendCheckCondition("IllegalRequest") /\ NoneStarted
    /\ UNCHANGED bmCSWStatus
    /\ Untouched

\* PLAY AUDIO(10)/(12) and PLAY AUDIO MSF.  A range that does not start in an
\* audio track fails the drive-wide status, which the command then reports.
PlayAudio(audio) ==
    /\ m_SenseParams' = IF audio THEN m_SenseParams ELSE "IllegalRequest"
    /\ bmCSWStatus' = IF audio THEN bmCSWStatus ELSE "FAIL"
    /\ SendCSW(bmCSWStatus')

DoPlayAudio(lba, audio) ==
    /\ IF m_CDReady
       THEN /\ m_nblock_address' = lba
            /\ m_nnumber_blocks' = 0
            /\ UNCHANGED subchannel_selection
            /\ PlayAudio(audio)
       ELSE sendNotReady /\ UNCHANGED <<readVars, bmCSWStatus>>
    /\ Untouched

PlayAudioMSF(audio) == ClearCount /\ PlayAudio(audio) /\ Untouched

Seek(lba) ==
    /\ m_nblock_address' = lba
    /\ m_nnumber_blocks' = 0
    /\ SendCSW(bmCSWStatus)
    /\ UNCHANGED <<subchannel_selection, senseVars>>
    /\ Untouched

PauseResume ==
    ClearCount /\ SendCSW(bmCSWStatus) /\ UNCHANGED senseVars /\ Untouched

StopScan ==
    ClearCount /\ SendCSW(bmCSWStatus) /\ UNCHANGED senseVars /\ Untouched
=============================================================================
