------------------------------ MODULE Services ------------------------------
(***************************************************************************)
(* The parts of USBODE that share no state with the drive's transport or     *)
(* with each other: the image devices, the audio player, the mass storage    *)
(* mode, the log daemon, the trace of the drive's commands, the FTP server,  *)
(* the start-up and the display.  Each is a module of its own; a behaviour runs one of   *)
(* them, which loses nothing as none reads what another writes.              *)
(***************************************************************************)
EXTENDS DiscImages

CONSTANTS
    Devices, NoDevice, Leadout, AddressSpace, Addresses, Lengths, SectorUnits,
    BufferSectors, MaxPlays, CommandsLand,                           \* CDPlayer
    CardBlocks, ByteSpace, MaxChunk, Counts,                         \* UsbMsdGadget
    MaxEvents, MaxConsecutiveWriteFailures,                          \* FileLog
    Capacity, POST_TRIGGER_RECORDS, MaxDropped,                      \* TraceLab
    Clients, MaxSessions, PassivePortBase,                           \* FtpServer
    Shipped, OwnImages, SystemFiles, MaxCuts, MaxFaults, MaxUploads, \* StartUp
    Displays, ArtImages, PlainImages, NoImage, PressesLand           \* Display

VARIABLES
    service,            \* the part that runs
    m_pBinFileDevice, address, end_address, state, m_bAudioInitialized, m_ReadBuffer,
    m_BufferBytesValid, m_BufferReadPos, m_BytesProcessedInSector, pc, toRead, mount,
    newDevice, m_pDevice, m_CDReady, deleted, play, due, plays,
    m_nState, m_CBW, m_nblock_address, m_nnumber_blocks, m_nnumber_blocks_chunk,
    m_currentDevicePointer, m_MMSDReady, bmCSWStatus, queued, position, written, moved,
    logged, queue, m_Event, daemon, m_bFileInitialized, m_nConsecutiveWriteFailures,
    m_bWritesGaveUp, fileCloses,
    ring, m_bEnabled, m_bErrorTrigger, m_bTriggerFired, m_nStopAtRecordCount, task, export,
    recordCount, m_nReadRemaining, nRecordsWritten,
    m_nSlot, loggedIn, m_TransferMode, m_pDataSocket, m_nDataSocketPort, transfer,
    partition, filesystem, volume, system, archives, crcMatches, stage,
    m_upgradeRequired, handled, current, toUnlink, added, cuts, faults, uploads,
    display, place, sleeping, lowPowerMode, panel, idle, lowPowerTimeout, sleepTimeout,
    shownPage, asks, entering, m_PendingButton, path, m_LastDiscPath, m_DiscArtPending,
    artTimer

playVars    == <<m_pBinFileDevice, address, end_address, state, m_bAudioInitialized,
                 m_ReadBuffer, m_BufferBytesValid, m_BufferReadPos,
                 m_BytesProcessedInSector, pc, toRead, mount, newDevice, m_pDevice,
                 m_CDReady, deleted, play, due, plays>>
msdVars     == <<m_nState, m_CBW, m_nblock_address, m_nnumber_blocks,
                 m_nnumber_blocks_chunk, m_currentDevicePointer, m_MMSDReady,
                 bmCSWStatus, queued, position, written, moved>>
logVars     == <<logged, queue, m_Event, daemon, m_bFileInitialized,
                 m_nConsecutiveWriteFailures, m_bWritesGaveUp, fileCloses>>
traceVars   == <<ring, m_bEnabled, m_bErrorTrigger, m_bTriggerFired,
                 m_nStopAtRecordCount, task, export, recordCount, m_nReadRemaining,
                 nRecordsWritten>>
sessionVars == <<m_nSlot, loggedIn, m_TransferMode, m_pDataSocket, m_nDataSocketPort,
                 transfer>>
startVars   == <<partition, filesystem, volume, system, archives, crcMatches, stage,
                 m_upgradeRequired, handled, current, toUnlink, added, cuts, faults,
                 uploads>>
displayVars == <<display, place, sleeping, lowPowerMode, panel, idle, lowPowerTimeout,
                 sleepTimeout, shownPage, asks, entering, m_PendingButton, path,
                 m_LastDiscPath, m_DiscArtPending, artTimer>>

Player == INSTANCE CDPlayer
Msd    == INSTANCE UsbMsdGadget
Log    == INSTANCE FileLog
Trace  == INSTANCE TraceLab
Ftp    == INSTANCE FtpServer
Start  == INSTANCE StartUp
Screen == INSTANCE Display

ASSUME ServicesAssumption ==
    /\ Player!PlayerAssumption /\ Msd!MsdAssumption /\ Log!LogAssumption
    /\ Trace!TraceAssumption /\ Ftp!FtpAssumption
    /\ Start!StartAssumption /\ Screen!DisplayAssumption

ServicesInit ==
    /\ service \in {"images", "player", "card", "log", "trace", "ftp", "start", "display"}
    /\ ImageInit /\ (service = "images" \/ (format = "cue" /\ rip = aRip))
    /\ Player!Init
    /\ Msd!Init
    /\ Log!Init /\ (service = "log" \/ m_bFileInitialized)
    /\ Trace!Init
    /\ Ftp!Init
    /\ Start!Init /\ (service = "start" \/ Start!IsNewCard)
    /\ Screen!Init /\ (service = "display" \/ Screen!IsFirst)

Only(part) == service = part /\ UNCHANGED service

ImagesRun ==
    /\ Only("images") /\ ImageNext
    /\ UNCHANGED <<playVars, msdVars, logVars, traceVars, sessionVars, startVars,
                   displayVars>>
PlayerRuns ==
    /\ Only("player") /\ Player!Next
    /\ UNCHANGED <<imageVars, msdVars, logVars, traceVars, sessionVars, startVars,
                   displayVars>>
CardRuns ==
    /\ Only("card") /\ Msd!Next
    /\ UNCHANGED <<imageVars, playVars, logVars, traceVars, sessionVars, startVars,
                   displayVars>>
LogRuns ==
    /\ Only("log") /\ Log!Next
    /\ UNCHANGED <<imageVars, playVars, msdVars, traceVars, sessionVars, startVars,
                   displayVars>>
TraceRuns ==
    /\ Only("trace") /\ Trace!Next
    /\ UNCHANGED <<imageVars, playVars, msdVars, logVars, sessionVars, startVars,
                   displayVars>>
FtpRuns ==
    /\ Only("ftp") /\ Ftp!Next
    /\ UNCHANGED <<imageVars, playVars, msdVars, logVars, traceVars, startVars,
                   displayVars>>
StartRuns ==
    /\ Only("start") /\ Start!Next
    /\ UNCHANGED <<imageVars, playVars, msdVars, logVars, traceVars, sessionVars,
                   displayVars>>
DisplayRuns ==
    /\ Only("display") /\ Screen!Next
    /\ UNCHANGED <<imageVars, playVars, msdVars, logVars, traceVars, sessionVars,
                   startVars>>

ServicesNext == \/ ImagesRun \/ PlayerRuns \/ CardRuns \/ LogRuns \/ TraceRuns \/ FtpRuns
                \/ StartRuns \/ DisplayRuns

allVars == <<service, imageVars, playVars, msdVars, logVars, traceVars, sessionVars,
             startVars, displayVars>>

\* The fairness of a part holds while it is the one that runs.
PlayerFairness ==
    /\ WF_playVars(Only("player") /\ Player!Run) /\ SF_playVars(Only("player") /\ Player!Feed)
    /\ WF_playVars(Only("player") /\ Player!Mount /\ mount # "Rest")
    /\ WF_playVars(Only("player") /\ Player!EnsureAudioInitialized)
LogFairness == WF_logVars(Only("log") /\ Log!Daemon)
StartFairness ==
    /\ WF_startVars(Only("start") /\ Start!Device)
    /\ WF_startVars(Only("start") /\ Start!Switch(Start!PowerCycle))
DisplayFairness == WF_displayVars(Only("display") /\ Screen!Round)

ServicesSpec ==
    /\ ServicesInit /\ [][ServicesNext]_allVars
    /\ PlayerFairness /\ LogFairness /\ StartFairness /\ DisplayFairness

-----------------------------------------------------------------------------
(* The properties are stated, and explained, where the parts are.           *)

\* Every part's variables have their types.
TypeOK == Player!TypeOK /\ Msd!TypeOK /\ Log!TypeOK /\ Trace!TypeOK /\ Ftp!TypeOK
          /\ Start!TypeOK /\ Screen!TypeOK

\* The audio task reads only devices that still exist.
RunDeviceIsAlive == Player!RunDeviceIsAlive

\* What the sound device is given is the play the host last had accepted.
SoundIsAsked == Player!SoundIsAsked

\* An accepted play does not stay on for ever.
PlayEnds == Player!PlayEnds

\* Of the card, a transfer answered OK moved every block.
GoodMeansMoved == Msd!GoodMeansMoved

\* The log daemon never waits while events are queued.
EventsAreDrained == Log!EventsAreDrained

\* A trace download holds as many records as its header says.
ExportIsConsistent == Trace!ExportIsConsistent

\* A capture that ends by itself was triggered and holds what follows the trigger.
AutoStopFollowsTrigger == Trace!AutoStopFollowsTrigger

\* A session listens on its own port.
PassivePortIsOwn == Ftp!PassivePortIsOwn

\* Power cuts alone leave no system running half upgraded.
UpgradeIsWhole == Start!UpgradeIsWhole

\* Power cuts alone lose no image the user added.
ImagesSurvive == Start!ImagesSurvive

\* Setup and upgrade come to an end, and the drive then runs.
StartsUp == service = "start" => Start!StartsUp

\* Between rounds the flags of the display say what its panel shows, and no page
\* but the one shown asks for another.
DisplayInOrder == Screen!DisplayInOrder

\* On the MT32-Pi a press lights the screen.
PressLights == Screen!PressLights
=============================================================================
