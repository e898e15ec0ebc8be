------------------------------ MODULE CDPlayer ------------------------------
(***************************************************************************)
(* CCDPlayer: the audio task, which seeks, reads and feeds the sound device *)
(* in a loop that yields once per round, the SCSI commands that start and   *)
(* stop it from interrupt context, and the task that mounts images, which   *)
(* replaces the device under it.                                            *)
(*                                                                          *)
(* Sound is counted in units, SectorUnits to a sector, so that a write may  *)
(* end inside a sector.  A position is a number of units from sector 0.     *)
(***************************************************************************)
EXTENDS Integers

CONSTANTS
    Devices,        \* image devices that may be mounted
    NoDevice,
    Leadout,        \* sectors of each device
    AddressSpace,   \* numbers of sectors a u32 counts (2^32)
    Addresses,      \* sectors a host may name
    Lengths,        \* numbers of sectors a host may ask for
    SectorUnits,    \* units of sound in a sector (SECTOR_SIZE)
    BufferSectors,  \* sectors the read buffer holds (AUDIO_BUFFER_SIZE)
    MaxPlays,       \* model bound: plays a host asks for
    CommandsLand    \* steps of the tasks at which commands may land

PlayerAssumption ==
    /\ NoDevice \notin Devices
    /\ Leadout \in [Devices -> Nat]
    /\ AddressSpace \in Nat \ {0}
    /\ Addresses \subseteq 0 .. AddressSpace - 1
    /\ Lengths \subseteq 1 .. AddressSpace - 1
    /\ SectorUnits \in Nat \ {0}
    /\ BufferSectors \in Nat \ {0}
    /\ MaxPlays \in Nat

PlayStates == {"PLAYING", "SEEKING", "SEEKING_PLAYING", "STOPPED_OK",
               "STOPPED_ERROR", "PAUSED", "NONE"}
RunSteps   == {"Top", "Seek", "Play", "Read", "Feed", "Written"}
MountSteps == {"Rest", "Drain", "Clear", "Assigned", "Delete"}

VARIABLES
    m_pBinFileDevice, address, end_address, state,
    m_bAudioInitialized,
    m_ReadBuffer,              \* whose sound it holds, and from which position
    m_BufferBytesValid, m_BufferReadPos, m_BytesProcessedInSector,
    pc, toRead,                \* where Run stands; sectors_to_read_now
    mount,                     \* where the mounting task stands
    newDevice,                 \* the device being mounted
    m_pDevice, m_CDReady,      \* of the gadget
    deleted,                   \* the device the gadget deleted last
    play,                     \* history: the play the host last had accepted
    due,                       \* history: the position next due for it
    plays                      \* model bound

player   == <<m_pBinFileDevice, address, end_address, state>>
buffer   == <<m_ReadBuffer, m_BufferBytesValid, m_BufferReadPos, m_BytesProcessedInSector>>
running  == <<m_bAudioInitialized, pc, toRead>>
mounting == <<mount, newDevice, m_pDevice, m_CDReady, deleted>>
history  == <<play, due, plays>>
vars     == <<player, buffer, running, mounting, history>>

NoSound   == [of |-> NoDevice, from |-> 0]
TestSound == "test.pcm"

Least(a, b) == IF a < b THEN a ELSE b

\* The position of the sound the next write takes from the read buffer.
NextUnit == m_ReadBuffer.from + m_BufferReadPos

Init ==
    /\ m_pBinFileDevice = NoDevice /\ address = 0 /\ end_address = 0 /\ state = "NONE"
    /\ m_ReadBuffer = NoSound
    /\ m_BufferBytesValid = 0 /\ m_BufferReadPos = 0 /\ m_BytesProcessedInSector = 0
    /\ m_bAudioInitialized = FALSE /\ pc = "Top" /\ toRead = 0
    /\ mount = "Rest" /\ newDevice = NoDevice
    /\ m_pDevice = NoDevice /\ m_CDReady = FALSE /\ deleted = NoDevice
    /\ play = [on |-> NoDevice, lba |-> 0, blocks |-> 0] /\ due = 0 /\ plays = 0

-----------------------------------------------------------------------------
(* Commands, in interrupt context.  The gadget is put on the bus after the   *)
(* first image was handed to it, so a command meets a device.                *)

Lands == pc \in CommandsLand /\ mount \in CommandsLand /\ m_pDevice # NoDevice

Interrupt == Lands /\ UNCHANGED <<m_pBinFileDevice, buffer, running, mounting>>

\* PLAY AUDIO (10), (12) and MSF.  The last tests no readiness; when its end is
\* before its start the difference, a u32, is a length all the same.
PlayAudio ==
    /\ Interrupt
    /\ plays < MaxPlays /\ plays' = plays + 1
    /\ \E lba \in Addresses, blocks \in Lengths :
        /\ address' = lba
        /\ end_address' = (lba + blocks) % AddressSpace
        /\ play' = [on |-> m_pBinFileDevice, lba |-> lba, blocks |-> blocks]
        /\ due' = lba * SectorUnits
    /\ state' = "SEEKING_PLAYING"

Seek ==
    /\ Interrupt
    /\ address' \in Addresses
    /\ state' = "SEEKING"
    /\ UNCHANGED <<end_address, history>>

\* PAUSE, STOP / SCAN, READ HEADER, and PLAY AUDIO MSF of an empty range.
Pause ==
    /\ Interrupt
    /\ state = "PLAYING" /\ state' = "PAUSED"
    /\ UNCHANGED <<address, end_address, history>>

Resume ==
    /\ Interrupt
    /\ state = "PAUSED" /\ state' = "PLAYING"
    /\ UNCHANGED <<address, end_address, history>>

\* READ SUB-CHANNEL: how a play ended is reported once.
GetState ==
    /\ Interrupt /\ m_CDReady
    /\ state \in {"STOPPED_OK", "STOPPED_ERROR"} /\ state' = "NONE"
    /\ UNCHANGED <<address, end_address, history>>

Command == PlayAudio \/ Seek \/ Pause \/ Resume \/ GetState

-----------------------------------------------------------------------------
(* Run.  A test and the store it guards are one step; commands may land       *)
(* between any two steps, other tasks only where the loop yields, at "Top".   *)

Turn(step) ==
    /\ pc = step /\ m_bAudioInitialized
    /\ step = "Top" => mount \in {"Rest", "Delete"}
    /\ UNCHANGED <<m_pBinFileDevice, end_address, m_bAudioInitialized, mounting, play, plays>>

RunTop ==
    /\ Turn("Top")
    /\ pc' = CASE state \in {"SEEKING", "SEEKING_PLAYING"} -> "Seek"
               [] state = "PLAYING" -> "Play"
               [] OTHER -> "Top"
    /\ UNCHANGED <<address, state, buffer, toRead, due>>

\* mutant of SeekAddress: what was buffered before the seek is still fed.
SeekKeepsBuffer(ok) ==
    /\ Turn("Seek")
    /\ state' = IF ~ok THEN "STOPPED_ERROR"
                ELSE IF state = "SEEKING_PLAYING" THEN "PLAYING" ELSE "STOPPED_OK"
    /\ pc' = "Play"
    /\ UNCHANGED <<address, buffer, toRead, due>>

SeekAddress(ok) ==
    /\ Turn("Seek")
    /\ m_BufferBytesValid' = 0 /\ m_BufferReadPos' = 0 /\ m_BytesProcessedInSector' = 0
    /\ state' = IF ~ok THEN "STOPPED_ERROR"
                ELSE IF state = "SEEKING_PLAYING" THEN "PLAYING" ELSE "STOPPED_OK"
    /\ pc' = "Play"
    /\ UNCHANGED <<address, m_ReadBuffer, toRead, due>>

\* What is left of the buffer is fed first; then the buffer is filled.
PlayOn ==
    /\ Turn("Play") /\ state = "PLAYING"
    /\ m_BufferReadPos < m_BufferBytesValid
    /\ pc' = "Feed"
    /\ UNCHANGED <<address, state, buffer, toRead, due>>

\* mutant of StartFill: all that is left is read, whatever the buffer holds.
FillPastBuffer ==
    /\ Turn("Play") /\ state = "PLAYING"
    /\ m_BufferReadPos >= m_BufferBytesValid
    /\ address < end_address
    /\ m_BufferReadPos' = 0
    /\ toRead' = end_address - address
    /\ pc' = "Read"
    /\ UNCHANGED <<address, state, m_ReadBuffer, m_BufferBytesValid, m_BytesProcessedInSector, due>>

StartFill ==
    /\ Turn("Play") /\ state = "PLAYING"
    /\ m_BufferReadPos >= m_BufferBytesValid
    /\ address < end_address
    /\ m_BufferReadPos' = 0
    /\ toRead' = Least(BufferSectors, end_address - address)
    /\ pc' = "Read"
    /\ UNCHANGED <<address, state, m_ReadBuffer, m_BufferBytesValid, m_BytesProcessedInSector, due>>

\* Nothing remains.
FinishPlay ==
    /\ Turn("Play") /\ state = "PLAYING"
    /\ m_BufferReadPos >= m_BufferBytesValid
    /\ address >= end_address
    /\ m_BufferReadPos' = 0 /\ m_BufferBytesValid' = 0
    /\ state' = "STOPPED_OK"
    /\ pc' = "Top"
    /\ UNCHANGED <<address, m_ReadBuffer, m_BytesProcessedInSector, toRead, due>>

NotPlaying ==
    /\ Turn("Play") /\ state # "PLAYING"
    /\ pc' = "Top"
    /\ UNCHANGED <<address, state, buffer, toRead, due>>

PreReadSeekFails ==
    /\ Turn("Read")
    /\ state' = "STOPPED_ERROR"
    /\ pc' = "Top"
    /\ UNCHANGED <<address, buffer, toRead, due>>

ReadFails ==
    /\ Turn("Read")
    /\ state' = "STOPPED_ERROR" /\ m_BufferBytesValid' = 0
    /\ pc' = "Feed"
    /\ UNCHANGED <<address, m_ReadBuffer, m_BufferReadPos, m_BytesProcessedInSector, toRead, due>>

\* mutant of ReadSound: a read that finds nothing does not end the play.
ReadPastEnd ==
    /\ Turn("Read")
    /\ \E units \in 0 .. toRead * SectorUnits :
        /\ address * SectorUnits + units <= Leadout[m_pBinFileDevice] * SectorUnits \/ units = 0
        /\ m_BufferBytesValid' = units
    /\ m_ReadBuffer' = [of |-> m_pBinFileDevice, from |-> address * SectorUnits]
    /\ pc' = "Feed"
    /\ UNCHANGED <<address, state, m_BufferReadPos, m_BytesProcessedInSector, toRead, due>>

\* A read may stop short of what was asked for; past the lead-out it finds nothing.
ReadSound ==
    /\ Turn("Read")
    /\ \E units \in 0 .. toRead * SectorUnits :
        /\ address * SectorUnits + units <= Leadout[m_pBinFileDevice] * SectorUnits \/ units = 0
        /\ m_BufferBytesValid' = units
        /\ state' = IF units = 0 THEN "STOPPED_OK" ELSE state
    /\ m_ReadBuffer' = [of |-> m_pBinFileDevice, from |-> address * SectorUnits]
    /\ pc' = "Feed"
    /\ UNCHANGED <<address, m_BufferReadPos, m_BytesProcessedInSector, toRead, due>>

\* The sound device takes what its queue has room for.
Write(units) ==
    /\ Turn("Feed") /\ state = "PLAYING" /\ m_BufferBytesValid > 0
    /\ units \in 1 .. m_BufferBytesValid - m_BufferReadPos
    /\ m_BufferReadPos' = m_BufferReadPos + units
    /\ m_BytesProcessedInSector' = m_BytesProcessedInSector + units
    /\ due' = due + units
    /\ pc' = "Written"
    /\ UNCHANGED <<address, state, m_ReadBuffer, m_BufferBytesValid, toRead>>

Feed == \E units \in 1 .. BufferSectors * SectorUnits : Write(units)

WriteFails ==
    /\ Turn("Feed") /\ state = "PLAYING" /\ m_BufferBytesValid > 0
    /\ state' = "STOPPED_ERROR"
    /\ pc' = "Top"
    /\ UNCHANGED <<address, buffer, toRead, due>>

\* The queue is full, or the state or an empty read forbids the feed.
NoFeed ==
    /\ Turn("Feed")
    /\ pc' = "Top"
    /\ UNCHANGED <<address, state, buffer, toRead, due>>

Account ==
    /\ Turn("Written")
    /\ address' = (address + m_BytesProcessedInSector \div SectorUnits) % AddressSpace
    /\ m_BytesProcessedInSector' = m_BytesProcessedInSector % SectorUnits
    /\ state' = IF address' >= end_address THEN "STOPPED_OK" ELSE state
    /\ pc' = "Top"
    /\ UNCHANGED <<m_ReadBuffer, m_BufferBytesValid, m_BufferReadPos, toRead, due>>

Read == PreReadSeekFails \/ ReadFails \/ ReadSound
Play == PlayOn \/ StartFill \/ FinishPlay \/ NotPlaying

Run ==
    \/ RunTop \/ Play \/ Read \/ Feed \/ WriteFails \/ NoFeed \/ Account
    \/ \E ok \in BOOLEAN : SeekAddress(ok)

-----------------------------------------------------------------------------
(* The tasks that run while Run yields.                                      *)

\* The gadget's task, once the host has activated its endpoints.
EnsureAudioInitialized ==
    /\ ~m_bAudioInitialized /\ m_pDevice # NoDevice
    /\ m_bAudioInitialized' = TRUE
    /\ UNCHANGED <<player, buffer, pc, toRead, mounting, history>>

\* SetDevice stops what plays, then waits for the sound device to fall silent.
SetDevice ==
    /\ pc = "Top" /\ mount = "Rest"
    /\ newDevice' \in Devices \ {m_pDevice}
    /\ deleted' = IF deleted = newDevice' THEN NoDevice ELSE deleted
    /\ state' = IF state \in {"PLAYING", "PAUSED", "SEEKING_PLAYING", "SEEKING"}
                THEN "STOPPED_OK" ELSE "NONE"
    /\ mount' = "Drain"
    /\ UNCHANGED <<m_pBinFileDevice, address, end_address, buffer, running, m_pDevice, m_CDReady, history>>

ClearPlayer ==
    /\ mount = "Drain" /\ mount' = "Clear"
    /\ address' = 0 /\ end_address' = 0
    /\ m_BufferBytesValid' = 0 /\ m_BufferReadPos' = 0 /\ m_BytesProcessedInSector' = 0
    /\ UNCHANGED <<m_pBinFileDevice, state, m_ReadBuffer, running, newDevice, m_pDevice, m_CDReady,
                   deleted, history>>

\* mutant of AssignDevice: the player keeps the device the gadget deletes next.
AssignNothing(restarted) ==
    /\ mount = "Clear" /\ mount' = "Assigned"
    /\ restarted \/ m_bAudioInitialized
    /\ state' = IF restarted THEN state ELSE "STOPPED_ERROR"
    /\ UNCHANGED <<m_pBinFileDevice, address, end_address, buffer, running, newDevice, m_pDevice, m_CDReady, deleted, history>>

AssignDevice(restarted) ==
    /\ mount = "Clear" /\ mount' = "Assigned"
    /\ restarted \/ m_bAudioInitialized
    /\ m_pBinFileDevice' = newDevice
    /\ state' = IF restarted THEN state ELSE "STOPPED_ERROR"
    /\ UNCHANGED <<address, end_address, buffer, running, newDevice, m_pDevice, m_CDReady, deleted, history>>

\* The gadget: not ready, then the old device is deleted, which may yield.
DeleteDevice ==
    /\ mount = "Assigned" /\ mount' = "Delete"
    /\ m_CDReady' = FALSE
    /\ deleted' = m_pDevice
    /\ UNCHANGED <<player, buffer, running, newDevice, m_pDevice, history>>

AdoptDevice ==
    /\ pc = "Top"
    /\ mount = "Delete" /\ mount' = "Rest"
    /\ m_pDevice' = newDevice
    /\ UNCHANGED <<player, buffer, running, newDevice, m_CDReady, deleted, history>>

\* The gadget's task announces the new medium.
AnnounceMedium ==
    /\ pc = "Top" /\ mount = "Rest" /\ m_pDevice # NoDevice /\ ~m_CDReady
    /\ m_CDReady' = TRUE
    /\ UNCHANGED <<player, buffer, running, mount, newDevice, m_pDevice, deleted, history>>

\* The web page's sound test reads its file into the buffer the player feeds from.
SoundTest ==
    /\ pc = "Top" /\ mount = "Rest" /\ m_bAudioInitialized
    /\ m_ReadBuffer' = [of |-> TestSound, from |-> 0]
    /\ UNCHANGED <<player, m_BufferBytesValid, m_BufferReadPos, m_BytesProcessedInSector, running,
                   mounting, history>>

Mount ==
    \/ SetDevice \/ ClearPlayer \/ DeleteDevice \/ AdoptDevice
    \/ \E restarted \in BOOLEAN : AssignDevice(restarted)

Next == Command \/ Run \/ EnsureAudioInitialized \/ Mount \/ AnnounceMedium \/ SoundTest

\* The scheduler gives every task its turn, and the sound device empties its
\* queue, so that a feed that finds it full is not the only one there ever is.
Fairness ==
    /\ WF_vars(Run) /\ SF_vars(Feed)
    /\ WF_vars(Mount /\ mount # "Rest")
    /\ WF_vars(EnsureAudioInitialized)

Spec == Init /\ [][Next]_vars /\ Fairness

-----------------------------------------------------------------------------
TypeOK ==
    /\ m_pBinFileDevice \in Devices \cup {NoDevice}
    /\ address \in 0 .. AddressSpace - 1 /\ end_address \in 0 .. AddressSpace - 1
    /\ state \in PlayStates
    /\ m_bAudioInitialized \in BOOLEAN
    /\ m_ReadBuffer.of \in Devices \cup {NoDevice, TestSound} /\ m_ReadBuffer.from \in Nat
    /\ m_BufferBytesValid \in 0 .. BufferSectors * SectorUnits
    /\ m_BufferReadPos \in 0 .. BufferSectors * SectorUnits
    /\ m_BytesProcessedInSector \in Nat
    /\ pc \in RunSteps /\ toRead \in 0 .. BufferSectors
    /\ mount \in MountSteps
    /\ {newDevice, m_pDevice, deleted} \subseteq Devices \cup {NoDevice}
    /\ m_CDReady \in BOOLEAN
    /\ due \in Nat /\ plays \in 0 .. MaxPlays

\* What the sound device is given is the play the host last had accepted: of the
\* disc it was asked of, inside its range, and never past sound it still owes
\* (a short read may repeat part of a sector).  A sound test spoils the buffer.
SoundIsAsked ==
    [][m_BufferReadPos' > m_BufferReadPos =>
          \/ m_ReadBuffer.of = TestSound
          \/ /\ m_ReadBuffer.of = play.on
             /\ NextUnit >= play.lba * SectorUnits
             /\ NextUnit' <= (play.lba + play.blocks) * SectorUnits
             /\ NextUnit <= due]_vars

\* The audio task seeks and reads only in a device that still exists: the player
\* is given the new one before the gadget deletes the old one.
RunDeviceIsAlive ==
    (pc \in {"Seek", "Read"} /\ m_bAudioInitialized) =>
        m_pBinFileDevice \notin {NoDevice, deleted}

\* A play the host had accepted does not stay on for ever, whatever short reads
\* and partial writes do to the count of what was played.
PlayEnds ==
    state = "SEEKING_PLAYING" ~> state \notin {"SEEKING_PLAYING", "PLAYING"}
=============================================================================
