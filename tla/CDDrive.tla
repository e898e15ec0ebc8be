------------------------------- MODULE CDDrive -------------------------------
(* What a removable-medium drive promises its host, without saying how.       *)
(* The host sees a slot that is empty, holds a medium it has not been told    *)
(* about, or holds a ready medium; and it sees one command at a time, each    *)
(* ended by one status.                                                       *)

VARIABLES
    medium,   \* "Empty", "Changed" (UNIT ATTENTION) or "Ready"
    removed,  \* somebody took the medium out and nobody put one back
    phase     \* "Off", "Idle", "Busy" (a command runs), "Status" (it ended)

driveVars == <<medium, removed, phase>>

\* The drive's side of a medium's life.  A medium only becomes Ready through
\* Changed, and a removed one stays away until it is put back.
MediumGone     == medium' = "Empty" /\ removed' = FALSE
MediumRemoved  == medium' = "Empty" /\ removed' = TRUE
MediumPutBack  == removed /\ removed' = FALSE /\ UNCHANGED medium
MediumAppears  == medium = "Empty" /\ ~removed
                    /\ medium' = "Changed" /\ UNCHANGED removed
MediumAcknowledged == medium = "Changed" /\ medium' = "Ready" /\ UNCHANGED removed
MediumStays    == UNCHANGED <<medium, removed>>

\* The host's commands.  Only a command can acknowledge a change, and a
\* command may eject; the medium otherwise does not depend on the host.
Accept ==
    /\ phase = "Idle"
    /\ phase' \in {"Busy", "Status"}
    /\ MediumStays \/ MediumAcknowledged \/ MediumRemoved

Finish == phase = "Busy" /\ phase' = "Status" /\ MediumStays

Deliver == phase = "Status" /\ phase' = "Idle" /\ MediumStays

Reset == phase' = "Idle" /\ (MediumStays \/ MediumAppears)

Suspend == phase' = "Off" /\ MediumStays

\* Whoever handles the medium does so beside the host's command.
Handle ==
    /\ MediumGone \/ MediumRemoved \/ MediumPutBack \/ MediumAppears
    /\ UNCHANGED phase

DriveInit == medium = "Empty" /\ removed = FALSE /\ phase = "Off"

DriveNext == Accept \/ Finish \/ Deliver \/ Reset \/ Suspend \/ Handle

DriveSpec == DriveInit /\ [][DriveNext]_driveVars
=============================================================================
