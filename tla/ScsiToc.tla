------------------------------- MODULE ScsiToc -------------------------------
(* addon/usbcdgadget/scsi_toc.cpp: the commands that describe the disc.       *)
EXTENDS ScsiInquiry

\* The shape they share: NOT READY without a disc, ILLEGAL REQUEST for a field
\* the disc has no answer to, else a reply that ends the data phase.
DescribeDisc(valid, status) ==
    /\ IF ~m_CDReady
       THEN sendNotReady /\ UNCHANGED readVars
       ELSE IF ~valid
            THEN sendCheckCondition("IllegalRequest") /\ UNCHANGED readVars
            ELSE Reply(status) /\ ClearCount /\ UNCHANGED m_SenseParams
    /\ UNCHANGED bmCSWStatus
    /\ Untouched

ReadTOC(valid)              == DescribeDisc(valid, "OK")
ReadDiscInformation         == DescribeDisc(TRUE, "OK")
ReadTrackInformation(valid) == DescribeDisc(valid, "OK")
ReadHeader                  == DescribeDisc(TRUE, "OK")
ReadDiscStructure(valid)    == DescribeDisc(valid, "OK")
\* READ SUB-CHANNEL alone reports the drive-wide status.
ReadSubChannel              == DescribeDisc(TRUE, bmCSWStatus)
=============================================================================
