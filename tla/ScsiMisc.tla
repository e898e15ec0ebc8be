------------------------------- MODULE ScsiMisc -------------------------------
(* addon/usbcdgadget/scsi_misc.cpp: one action per handler.  A handler runs   *)
(* inside OnTransferComplete, which supplies m_CBW' and epOut'.               *)
EXTENDS GadgetState

Untouched == UNCHANGED <<mediaVars, discChanged>>

TestUnitReady ==
    /\ CASE m_mediaState = "NO_MEDIUM"      -> sendCheckCondition("MediumNotPresent")
         [] m_mediaState = "UNIT_ATTENTION" -> sendCheckCondition("UnitAttention")
         [] OTHER                           -> sendGoodStatus
    /\ UNCHANGED <<bmCSWStatus, readVars>>
    /\ Untouched

\* Eject() as a whole: in a handler nothing can interrupt it.
EjectAtOnce ==
    IF m_bEjected
    THEN UNCHANGED <<mediaVars, discChanged, senseVars>>
    ELSE /\ m_bEjected' = TRUE
         /\ m_bPendingDiscSwap' = FALSE
         /\ m_bMediumRemovalPrevented' = FALSE
         /\ m_CDReady' = FALSE
         /\ m_mediaState' = "NO_MEDIUM"
         /\ m_SenseParams' = "MediumNotPresent"
         /\ bmCSWStatus' = "FAIL"
         /\ discChanged' = FALSE
         /\ UNCHANGED <<m_bEjectOnLoad, m_pDevice>>

\* LoEj without Start ejects unless the host locked the medium in; every other
\* combination, LOAD included, is answered GOOD and does nothing.
StartStopUnit(start, loej) ==
    /\ IF ~loej \/ start
       THEN sendGoodStatus /\ Untouched /\ UNCHANGED bmCSWStatus
       ELSE IF m_bMediumRemovalPrevented
            THEN /\ sendCheckCondition("IllegalRequest")
                 /\ Untouched /\ UNCHANGED bmCSWStatus
            ELSE SendCSW("OK") /\ EjectAtOnce
    /\ UNCHANGED readVars

PreventAllowMediumRemoval(prevent) ==
    /\ m_bMediumRemovalPrevented' = prevent
    /\ sendGoodStatus
    /\ UNCHANGED <<m_mediaState, m_CDReady, m_bEjected, m_bEjectOnLoad,
                   m_bPendingDiscSwap, m_pDevice, discChanged, bmCSWStatus,
                   readVars>>

ReadCapacity ==
    /\ IF m_CDReady
       THEN Reply(bmCSWStatus) /\ ClearCount /\ UNCHANGED m_SenseParams
       ELSE sendCheckCondition("MediumNotPresent") /\ UNCHANGED readVars
    /\ UNCHANGED bmCSWStatus
    /\ Untouched

\* These three leave m_nnumber_blocks as they find it.
MechanismStatus == Reply("OK") /\ UNCHANGED <<senseVars, readVars>> /\ Untouched

GetPerformance ==
    Reply(bmCSWStatus) /\ UNCHANGED <<senseVars, readVars>> /\ Untouched

CommandA4 == Reply("OK") /\ UNCHANGED <<senseVars, readVars>> /\ Untouched

\* `fits`: the allocation length has room for the header and the event.
GetEventStatusNotification(polled, media, fits) ==
    /\ IF polled
       THEN /\ Reply("OK")
            /\ ClearCount
            /\ discChanged' = (discChanged /\ ~(media /\ fits))
            /\ UNCHANGED m_SenseParams
       ELSE sendCheckCondition("IllegalRequest") /\ UNCHANGED <<discChanged, readVars>>
    /\ UNCHANGED <<mediaVars, bmCSWStatus>>

Verify == sendGoodStatus /\ UNCHANGED <<bmCSWStatus, readVars>> /\ Untouched

SetCDROMSpeed == sendGoodStatus /\ UNCHANGED <<bmCSWStatus, readVars>> /\ Untouched
=============================================================================
