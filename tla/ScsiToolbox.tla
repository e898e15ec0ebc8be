----------------------------- MODULE ScsiToolbox -----------------------------
(* addon/usbcdgadget/scsi_toolbox.cpp: the vendor commands.  What the Wi-Fi   *)
(* upload does with a block is left open here.                                *)
EXTENDS ScsiRead

ToolboxReply == Reply("OK") /\ ClearCount /\ UNCHANGED senseVars /\ Untouched

ListDevices   == ToolboxReply
NumberOfFiles == ToolboxReply
ListFiles     == ToolboxReply

\* The image is mounted later, by the SCSITB task.
SetNextCD == sendGoodStatus /\ UNCHANGED <<bmCSWStatus, readVars>> /\ Untouched

BeginSendFileDataOut == m_CSW' = "OK" /\ m_nState' = "DataOut" /\ UNCHANGED epIn

\* D3 and D4: refused with a sense, or the data-out phase begins.
SendFileBlock(refusal) ==
    /\ IF refusal = "None"
       THEN BeginSendFileDataOut /\ UNCHANGED m_SenseParams
       ELSE sendCheckCondition(refusal)
    /\ ClearCount
    /\ UNCHANGED bmCSWStatus
    /\ Untouched

SendFilePrep(refusal) == SendFileBlock(refusal)
SendFile10(refusal)   == SendFileBlock(refusal)

\* D5 with the four bytes the DOS client declares, or with no data at all.
SendFileEnd(refusal, drain) ==
    IF drain \/ refusal # "None"
    THEN SendFileBlock(refusal)
    ELSE sendGoodStatus /\ ClearCount /\ UNCHANGED bmCSWStatus /\ Untouched

\* ProcessOut for D3, D4 and D5: a refused payload turns the status to FAIL.
\* (For MODE SELECT nothing of the gadget changes.)  Then SendCSW.
ProcessSendFileOut(accepted) ==
    IF accepted
    THEN SendCSW(m_CSW) /\ UNCHANGED m_SenseParams
    ELSE sendCheckCondition("IllegalRequest")
=============================================================================
