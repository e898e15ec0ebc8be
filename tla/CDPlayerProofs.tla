--------------------------- MODULE CDPlayerProofs ---------------------------
(***************************************************************************)
(* That the audio task reads in devices that exist, and feeds what the host *)
(* asked to hear, for any discs, buffer and plays.                          *)
(***************************************************************************)
EXTENDS CDPlayer, TLAPS

-----------------------------------------------------------------------------
(* Arithmetic the provers do not find by themselves.                         *)

\* A product of counts is a count.
LEMMA TimesNat == ASSUME NEW a \in Nat, NEW b \in Nat PROVE a * b \in Nat
  OBVIOUS

\* The larger factor has the larger product.
LEMMA TimesLess ==
    ASSUME NEW a \in Nat, NEW b \in Nat, NEW s \in Nat, a <= b PROVE a * s <= b * s
<1>1. b * s = a * s + (b - a) * s
  OBVIOUS
<1>2. (b - a) * s \in Nat
  BY TimesNat
<1> QED BY <1>1, <1>2, TimesNat

\* Units that are whole sectors and a rest.
LEMMA DivMod ==
    ASSUME NEW n \in Nat, NEW s \in Nat \ {0}
    PROVE  /\ n \div s \in Nat /\ n % s \in 0 .. s - 1
           /\ n = (n \div s) * s + (n % s)
  OBVIOUS

\* A product that is less has the lesser factor.
LEMMA LessTimes ==
    ASSUME NEW a \in Nat, NEW b \in Nat, NEW s \in Nat \ {0}, a * s < b * s PROVE a < b
<1>1. a >= b => b * s <= a * s
  BY TimesLess
<1> QED BY <1>1, TimesNat

-----------------------------------------------------------------------------
(* The types                                                                 *)

LEMMA InitType == ASSUME PlayerAssumption, Init PROVE TypeOK
<1> USE DEF PlayerAssumption, Init, TypeOK
<1>1. BufferSectors * SectorUnits \in Nat
  BY TimesNat
<1>2. address \in 0 .. AddressSpace - 1 /\ end_address \in 0 .. AddressSpace - 1
  OBVIOUS
<1>3. /\ m_BufferBytesValid \in 0 .. BufferSectors * SectorUnits
      /\ m_BufferReadPos \in 0 .. BufferSectors * SectorUnits
      /\ m_BytesProcessedInSector \in Nat /\ due \in Nat
      /\ toRead \in 0 .. BufferSectors /\ plays \in 0 .. MaxPlays
  BY <1>1
<1>4. m_ReadBuffer.of = NoDevice /\ m_ReadBuffer.from \in Nat
  BY DEF NoSound
<1> QED BY <1>2, <1>3, <1>4 DEF PlayStates, RunSteps, MountSteps

LEMMA CommandType ==
    ASSUME PlayerAssumption, TypeOK, Command PROVE TypeOK'
<1> USE DEF PlayerAssumption, TypeOK
<1>1. ASSUME PlayAudio PROVE TypeOK'
  <2>1. PICK lba \in Addresses, blocks \in Lengths :
          address' = lba /\ end_address' = (lba + blocks) % AddressSpace
          /\ due' = lba * SectorUnits
    BY <1>1 DEF PlayAudio
  <2>2. lba \in Nat /\ blocks \in Nat /\ address' \in 0 .. AddressSpace - 1
    BY <2>1
  <2>3. end_address' \in 0 .. AddressSpace - 1
    BY <2>1, <2>2
  <2>4. due' \in Nat
    BY <2>1, <2>2, TimesNat
  <2>5. plays' \in 0 .. MaxPlays
    BY <1>1 DEF PlayAudio
  <2> QED BY <1>1, <2>2, <2>3, <2>4, <2>5
      DEF PlayAudio, Interrupt, buffer, running, mounting, PlayStates
<1>2. ASSUME Seek PROVE TypeOK'
  BY <1>2 DEF Seek, Interrupt, buffer, running, mounting, history, PlayStates
<1>3. ASSUME Pause \/ Resume \/ GetState PROVE TypeOK'
  BY <1>3 DEF Pause, Resume, GetState, Interrupt, buffer, running, mounting, history, PlayStates
<1> QED BY <1>1, <1>2, <1>3 DEF Command

LEMMA PlayType == ASSUME PlayerAssumption, TypeOK, Play PROVE TypeOK'
<1> USE DEF PlayerAssumption, TypeOK
<1>1. ASSUME StartFill PROVE TypeOK'
  <2>1. toRead' \in 0 .. BufferSectors
    BY <1>1 DEF StartFill, Least
  <2>2. m_BufferReadPos' \in 0 .. BufferSectors * SectorUnits
    BY <1>1 DEF StartFill
  <2> QED BY <1>1, <2>1, <2>2 DEF StartFill, Turn, mounting, RunSteps
<1>2. ASSUME PlayOn \/ NotPlaying PROVE TypeOK'
  BY <1>2 DEF PlayOn, NotPlaying, Turn, buffer, mounting, RunSteps
<1>3. ASSUME FinishPlay PROVE TypeOK'
  <2>1. m_BufferReadPos' = 0 /\ m_BufferBytesValid' = 0 /\ 0 \in 0 .. BufferSectors * SectorUnits
    BY <1>3, TimesNat DEF FinishPlay
  <2> QED BY <1>3, <2>1 DEF FinishPlay, Turn, mounting, RunSteps, PlayStates
<1> QED BY <1>1, <1>2, <1>3 DEF Play

LEMMA ReadType == ASSUME PlayerAssumption, TypeOK, Read PROVE TypeOK'
<1> USE DEF PlayerAssumption, TypeOK
<1>1. ASSUME PreReadSeekFails PROVE TypeOK'
  BY <1>1 DEF PreReadSeekFails, Turn, buffer, mounting, RunSteps, PlayStates
<1>2. ASSUME ReadFails PROVE TypeOK'
  <2>1. m_BufferBytesValid' = 0 /\ 0 \in 0 .. BufferSectors * SectorUnits
    BY <1>2, TimesNat DEF ReadFails
  <2> QED BY <1>2, <2>1 DEF ReadFails, Turn, mounting, RunSteps, PlayStates
<1>3. ASSUME ReadSound PROVE TypeOK'
  <2>1. toRead * SectorUnits <= BufferSectors * SectorUnits /\ toRead * SectorUnits \in Nat
        /\ BufferSectors * SectorUnits \in Nat
    BY TimesNat, TimesLess
  <2>2. m_BufferBytesValid' \in 0 .. BufferSectors * SectorUnits
    BY <1>3, <2>1 DEF ReadSound
  <2>3. address * SectorUnits \in Nat
    BY TimesNat
  <2>4. state' \in PlayStates
    BY <1>3 DEF ReadSound, PlayStates
  <2> QED BY <1>3, <2>2, <2>3, <2>4 DEF ReadSound, Turn, mounting, RunSteps
<1> QED BY <1>1, <1>2, <1>3 DEF Read

LEMMA FeedType ==
    ASSUME PlayerAssumption, TypeOK,
           \/ Feed \/ WriteFails \/ NoFeed \/ Account \/ RunTop
           \/ \E ok \in BOOLEAN : SeekAddress(ok)
    PROVE  TypeOK'
<1> USE DEF PlayerAssumption, TypeOK
<1>0. BufferSectors * SectorUnits \in Nat
  BY TimesNat
<1>1. ASSUME Feed PROVE TypeOK'
  <2>1. PICK units \in 1 .. BufferSectors * SectorUnits : Write(units)
    BY <1>1 DEF Feed
  <2>2. units \in Nat /\ m_BufferReadPos' = m_BufferReadPos + units
        /\ m_BufferReadPos' <= m_BufferBytesValid
    BY <1>0, <2>1 DEF Write
  <2>3. m_BufferReadPos' \in 0 .. BufferSectors * SectorUnits
    BY <1>0, <2>2
  <2> QED BY <2>1, <2>2, <2>3 DEF Write, Turn, mounting, RunSteps
<1>2. ASSUME WriteFails \/ NoFeed PROVE TypeOK'
  BY <1>2 DEF WriteFails, NoFeed, Turn, buffer, mounting, RunSteps, PlayStates
<1>3. ASSUME Account PROVE TypeOK'
  <2>1. m_BytesProcessedInSector \div SectorUnits \in Nat /\ m_BytesProcessedInSector' \in Nat
    BY <1>3 DEF Account
  <2>2. address' \in 0 .. AddressSpace - 1
    BY <1>3, <2>1 DEF Account
  <2>3. state' \in PlayStates
    BY <1>3 DEF Account, PlayStates
  <2> QED BY <1>3, <2>1, <2>2, <2>3 DEF Account, Turn, mounting, RunSteps
<1>4. ASSUME RunTop PROVE TypeOK'
  BY <1>4 DEF RunTop, Turn, buffer, mounting, RunSteps
<1>5. ASSUME NEW ok \in BOOLEAN, SeekAddress(ok) PROVE TypeOK'
  BY <1>0, <1>5 DEF SeekAddress, Turn, mounting, RunSteps, PlayStates
<1> QED BY <1>1, <1>2, <1>3, <1>4, <1>5

LEMMA MountType ==
    ASSUME PlayerAssumption, TypeOK,
           Mount \/ EnsureAudioInitialized \/ AnnounceMedium \/ SoundTest
    PROVE  TypeOK'
<1> USE DEF PlayerAssumption, TypeOK
<1>0. BufferSectors * SectorUnits \in Nat
  BY TimesNat
<1>1. ASSUME SetDevice PROVE TypeOK'
  BY <1>1 DEF SetDevice, buffer, running, history, PlayStates, MountSteps
<1>2. ASSUME ClearPlayer PROVE TypeOK'
  BY <1>0, <1>2 DEF ClearPlayer, running, history, MountSteps
<1>3. ASSUME NEW restarted \in BOOLEAN, AssignDevice(restarted) PROVE TypeOK'
  BY <1>3 DEF AssignDevice, buffer, running, history, PlayStates, MountSteps
<1>4. ASSUME DeleteDevice \/ AdoptDevice PROVE TypeOK'
  BY <1>4 DEF DeleteDevice, AdoptDevice, player, buffer, running, history, MountSteps
<1>5. ASSUME EnsureAudioInitialized \/ AnnounceMedium PROVE TypeOK'
  BY <1>5 DEF EnsureAudioInitialized, AnnounceMedium, player, buffer, running, mounting, history
<1>6. ASSUME SoundTest PROVE TypeOK'
  BY <1>6 DEF SoundTest, player, running, mounting, history
<1> QED BY <1>1, <1>2, <1>3, <1>4, <1>5, <1>6 DEF Mount

LEMMA TypeStep == ASSUME PlayerAssumption, TypeOK, [Next]_vars PROVE TypeOK'
<1>1. CASE UNCHANGED vars
  BY <1>1 DEF TypeOK, vars, player, buffer, running, mounting, history
<1> QED BY <1>1, CommandType, PlayType, ReadType, FeedType, MountType DEF Next, Run

\* Every variable of the player keeps its type.
THEOREM PlayerTypes ==
    ASSUME PlayerAssumption PROVE Init /\ [][Next]_vars => []TypeOK
<1> QED BY InitType, TypeStep, PTL

-----------------------------------------------------------------------------
(* Run reads only devices that exist                                         *)

\* The player and the gadget name the same device, or the one they are changing
\* to; the task reads nothing in between, and what was deleted is neither.
AliveInv ==
    /\ mount \in {"Drain", "Clear", "Assigned"} => pc = "Top"
    /\ m_bAudioInitialized => m_pDevice # NoDevice
    /\ mount # "Rest" => newDevice \in Devices /\ newDevice \notin {m_pDevice, deleted}
    /\ mount \in {"Rest", "Drain", "Clear"} =>
         /\ m_pBinFileDevice = m_pDevice
         /\ m_pDevice # NoDevice => m_pDevice # deleted
    /\ mount \in {"Assigned", "Delete"} => m_pBinFileDevice = newDevice

LEMMA AliveStep ==
    ASSUME PlayerAssumption, TypeOK, AliveInv, [Next]_vars PROVE AliveInv'
<1> USE DEF PlayerAssumption, TypeOK, AliveInv
<1>1. CASE Command
  BY <1>1 DEF Command, PlayAudio, Seek, Pause, Resume, GetState, Interrupt, running, mounting
<1>2. CASE Run
  <2>1. /\ UNCHANGED <<m_pBinFileDevice, m_bAudioInitialized, mounting>>
        /\ pc # "Top" \/ mount \in {"Rest", "Delete"}
    BY <1>2 DEF Run, Play, Read, Feed, Write, PlayOn, StartFill, FinishPlay, NotPlaying,
                PreReadSeekFails, ReadFails, ReadSound, WriteFails, NoFeed, Account,
                SeekAddress, RunTop, Turn
  <2> QED BY <2>1 DEF mounting
<1>3. CASE EnsureAudioInitialized \/ AnnounceMedium \/ SoundTest
  BY <1>3 DEF EnsureAudioInitialized, AnnounceMedium, SoundTest, player, running, mounting
<1>4. CASE SetDevice
  BY <1>4 DEF SetDevice, running
<1>5. CASE ClearPlayer
  BY <1>5 DEF ClearPlayer, running
<1>6. ASSUME NEW restarted \in BOOLEAN, AssignDevice(restarted) PROVE AliveInv'
  BY <1>6 DEF AssignDevice, running
<1>7. CASE DeleteDevice
  BY <1>7 DEF DeleteDevice, player, running
<1>8. CASE AdoptDevice
  BY <1>8 DEF AdoptDevice, player, running
<1>9. CASE UNCHANGED vars
  BY <1>9 DEF vars, player, running, mounting
<1> QED BY <1>1, <1>2, <1>3, <1>4, <1>5, <1>6, <1>7, <1>8, <1>9 DEF Next, Mount

\* The audio task seeks and reads in no device the gadget has deleted:
\* RunDeviceIsAlive, of SetDevice's order of calls in cdplayer.cpp and the gadget.
THEOREM DeviceCorrect ==
    ASSUME PlayerAssumption PROVE Init /\ [][Next]_vars => []RunDeviceIsAlive
<1>1. Init => AliveInv
  BY DEF Init, AliveInv
<1>2. TypeOK /\ AliveInv => RunDeviceIsAlive
  BY DEF PlayerAssumption, TypeOK, AliveInv, RunDeviceIsAlive, MountSteps
<1> QED BY <1>1, <1>2, AliveStep, PlayerTypes, PTL

-----------------------------------------------------------------------------
(* The sound device is given what was asked for                              *)

\* No command lands while what was written is accounted for, nor between the two
\* halves of SetDevice: there the code loses it.
QuietSteps == CommandsLand \cap {"Written", "Clear"} = {}

\* Where a sector begins.
Unit(sector) == sector * SectorUnits

LEMMA UnitNat == ASSUME PlayerAssumption, NEW a \in Nat PROVE Unit(a) \in Nat
  BY TimesNat DEF PlayerAssumption, Unit

LEMMA UnitOrder ==
    ASSUME PlayerAssumption, NEW a \in Nat, NEW b \in Nat
    PROVE  (a <= b => Unit(a) <= Unit(b)) /\ (Unit(a) < Unit(b) => a < b)
  BY TimesLess, LessTimes DEF PlayerAssumption, Unit

LEMMA UnitPlus ==
    ASSUME PlayerAssumption, NEW a \in Nat, NEW b \in Nat
    PROVE  Unit(a + b) = Unit(a) + Unit(b) /\ Unit(1) = SectorUnits
  BY DEF PlayerAssumption, Unit

LEMMA AddressNat ==
    ASSUME PlayerAssumption, TypeOK
    PROVE  /\ address \in Nat /\ end_address \in Nat
           /\ end_address < AddressSpace /\ AddressSpace \in Nat \ {0}
           /\ SectorUnits \in Nat \ {0} /\ toRead \in Nat
           /\ {m_BufferBytesValid, m_BufferReadPos, m_BytesProcessedInSector, due} \subseteq Nat
  BY TimesNat DEF PlayerAssumption, TypeOK

\* A remainder is no more than what it is taken of, and that itself if it is less
\* than the divisor.
LEMMA ModFacts ==
    ASSUME NEW n \in Nat, NEW m \in Nat \ {0}
    PROVE  n % m \in 0 .. m - 1 /\ n % m <= n /\ (n < m => n % m = n)
<1>1. n % m \in 0 .. m - 1 /\ n \div m \in Nat /\ n = (n \div m) * m + (n % m)
  BY DivMod
<1>2. (n \div m) * m \in Nat
  BY <1>1, TimesNat
<1>3. ASSUME n < m PROVE n % m = n
  <2>1. n \div m >= 1 => 1 * m <= (n \div m) * m
    BY <1>1, TimesLess
  <2>2. n \div m = 0
    BY <1>1, <1>3, <2>1
  <2> QED BY <1>1, <2>2
<1> QED BY <1>1, <1>2, <1>3

\* Once a play was sought to, and while it is on or paused.
Begun == state \in {"PLAYING", "PAUSED"}
\* From when the player has it.
Accepted == Begun \/ state = "SEEKING_PLAYING"
\* Something is left in the buffer.
Buffered == pc # "Read" /\ m_BufferReadPos < m_BufferBytesValid

StepInv ==
    /\ m_BufferReadPos <= m_BufferBytesValid
    /\ pc = "Read" => m_BufferReadPos = 0
    /\ pc # "Written" => m_BytesProcessedInSector < SectorUnits
    /\ pc = "Seek" => state \in {"SEEKING", "SEEKING_PLAYING"}
    /\ pc = "Written" => state = "PLAYING"
    /\ mount = "Clear" => end_address = 0 /\ m_BufferBytesValid = 0

\* The player is on the disc and in the range it was asked for, unless SetDevice
\* took both away, and no further than what was heard.
PlayInv ==
    Accepted =>
      /\ due >= Unit(address)
      /\ Begun => due >= Unit(address) + m_BytesProcessedInSector
      /\ end_address # 0 =>
           /\ play.on = m_pBinFileDevice
           /\ play.lba \in Nat /\ play.blocks \in Nat
           /\ play.lba <= address /\ end_address <= play.lba + play.blocks

\* What is left in the buffer ends where the play does, whether counted from what
\* was accounted for or from what was read.
ReadInv ==
    Begun =>
      /\ pc = "Read" => address < end_address /\ toRead <= end_address - address
      /\ Buffered \/ pc = "Written" =>
           Unit(address) + m_BytesProcessedInSector
             + (m_BufferBytesValid - m_BufferReadPos) < Unit(end_address + 1)
      /\ Buffered /\ m_ReadBuffer.of # TestSound =>
           /\ m_ReadBuffer.of = m_pBinFileDevice /\ end_address # 0
           /\ Unit(play.lba) <= m_ReadBuffer.from
           /\ m_ReadBuffer.from + m_BufferBytesValid <= Unit(end_address)
           /\ NextUnit <= due

SoundInv == StepInv /\ PlayInv /\ ReadInv

LEMMA SoundCommand ==
    ASSUME PlayerAssumption, QuietSteps, TypeOK, SoundInv, Command PROVE SoundInv'
<1> USE DEF SoundInv, StepInv, PlayInv, ReadInv, Begun, Accepted, Buffered
<1>1. pc # "Written" /\ mount # "Clear"
      /\ UNCHANGED <<m_pBinFileDevice, buffer, pc, toRead, mount>>
  BY DEF QuietSteps, Command, PlayAudio, Seek, Pause, Resume, GetState, Interrupt, Lands,
         running, mounting
<1>2. CASE PlayAudio
  <2>1. PICK lba \in Addresses, blocks \in Lengths :
          /\ address' = lba /\ end_address' = (lba + blocks) % AddressSpace
          /\ play' = [on |-> m_pBinFileDevice, lba |-> lba, blocks |-> blocks]
          /\ due' = Unit(lba)
    BY <1>2 DEF PlayAudio, Unit
  <2>2. lba \in Nat /\ blocks \in Nat /\ AddressSpace \in Nat \ {0}
    BY DEF PlayerAssumption
  <2>3. end_address' <= lba + blocks
    BY <2>1, <2>2, ModFacts
  <2>4. state' = "SEEKING_PLAYING"
    BY <1>2 DEF PlayAudio
  <2>5. Unit(lba) \in Nat
    BY <2>2, UnitNat
  <2> QED BY <1>1, <2>1, <2>2, <2>3, <2>4, <2>5 DEF buffer, TypeOK
<1>3. CASE Seek
  BY <1>1, <1>3 DEF Seek, buffer
<1>4. CASE Pause \/ Resume
  <2>1. UNCHANGED <<address, end_address, play, due>> /\ state \in {"PLAYING", "PAUSED"}
        /\ state' \in {"PLAYING", "PAUSED"}
    BY <1>4 DEF Pause, Resume, history
  <2> QED BY <1>1, <2>1 DEF buffer, NextUnit
<1>5. CASE GetState
  BY <1>1, <1>5 DEF GetState, buffer
<1> QED BY <1>2, <1>3, <1>4, <1>5 DEF Command

\* The steps of the task that neither read nor write.
LEMMA SoundTurn ==
    ASSUME PlayerAssumption, TypeOK, SoundInv, UNCHANGED <<m_pBinFileDevice, end_address, mount, play>>,
           \/ RunTop \/ Play \/ PreReadSeekFails \/ ReadFails \/ WriteFails \/ NoFeed
           \/ \E ok \in BOOLEAN : SeekAddress(ok)
    PROVE  SoundInv'
<1> USE DEF SoundInv, StepInv, PlayInv, ReadInv, Begun, Accepted, Buffered, NextUnit
<1>1. CASE RunTop
  <2>1. pc' \in {"Top", "Play", "Seek"}
        /\ (pc' = "Seek" => state \in {"SEEKING", "SEEKING_PLAYING"})
    BY <1>1 DEF RunTop
  <2>2. pc = "Top" /\ UNCHANGED <<address, state, buffer, toRead, due>>
    BY <1>1 DEF RunTop, Turn
  <2> QED BY <2>1, <2>2 DEF buffer
<1>2. CASE PlayOn \/ NotPlaying \/ NoFeed
  <2>1. pc \notin {"Read", "Written"} /\ pc' \in {"Top", "Feed"}
        /\ UNCHANGED <<address, state, buffer, toRead, due>>
    BY <1>2 DEF PlayOn, NotPlaying, NoFeed, Turn
  <2> QED BY <2>1 DEF buffer
<1>3. CASE StartFill
  <2>1. toRead' <= end_address - address
    BY <1>3 DEF StartFill, Least, TypeOK, PlayerAssumption
  <2> QED BY <1>3, <2>1 DEF StartFill, Turn, TypeOK
<1>4. CASE FinishPlay
  BY <1>4 DEF FinishPlay, Turn
<1>5. CASE PreReadSeekFails \/ ReadFails \/ WriteFails
  BY <1>5 DEF PreReadSeekFails, ReadFails, WriteFails, Turn, buffer
<1>6. ASSUME NEW ok \in BOOLEAN, SeekAddress(ok) PROVE SoundInv'
  <2>1. state' = "PLAYING" => state = "SEEKING_PLAYING"
    BY <1>6 DEF SeekAddress
  <2>2. pc' = "Play" /\ state' \in {"PLAYING", "STOPPED_OK", "STOPPED_ERROR"}
        /\ m_BufferBytesValid' = 0 /\ m_BufferReadPos' = 0 /\ m_BytesProcessedInSector' = 0
        /\ UNCHANGED <<address, due>>
    BY <1>6 DEF SeekAddress, Turn
  <2>3. Unit(address) \in Nat /\ SectorUnits \in Nat \ {0} /\ due \in Nat
    BY AddressNat, UnitNat
  <2>4. StepInv'
    BY <1>6, <2>2, <2>3 DEF SeekAddress, Turn
  <2>5. PlayInv'
    BY <2>1, <2>2, <2>3, <1>6 DEF SeekAddress, Turn
  <2>6. ReadInv'
    BY <2>2
  <2> QED BY <2>4, <2>5, <2>6
<1> QED BY <1>1, <1>2, <1>3, <1>4, <1>5, <1>6 DEF Play

LEMMA SoundRead ==
    ASSUME PlayerAssumption, TypeOK, AliveInv, SoundInv, ReadSound, UNCHANGED mount
    PROVE  SoundInv'
<1>1. PICK units \in 0 .. toRead * SectorUnits :
        m_BufferBytesValid' = units /\ (state' = IF units = 0 THEN "STOPPED_OK" ELSE state)
  BY DEF ReadSound
<1>2. units \in Nat /\ units <= Unit(toRead)
  BY <1>1, TimesNat DEF TypeOK, PlayerAssumption, Unit
<1>3. /\ pc = "Read" /\ pc' = "Feed"
      /\ m_ReadBuffer' = [of |-> m_pBinFileDevice, from |-> Unit(address)]
      /\ UNCHANGED <<m_pBinFileDevice, address, end_address, m_BufferReadPos,
                     m_BytesProcessedInSector, toRead, play, due>>
  BY DEF ReadSound, Turn, Unit
<1>4. m_BufferReadPos' = 0 /\ m_BytesProcessedInSector < SectorUnits /\ StepInv'
  BY <1>1, <1>2, <1>3, AddressNat DEF AliveInv, SoundInv, StepInv
<1>5. state' = state \/ state' = "STOPPED_OK"
  BY <1>1
<1>6. PlayInv'
  BY <1>3, <1>5 DEF SoundInv, PlayInv, Begun, Accepted
<1>7. ASSUME Begun' PROVE ReadInv'
  <2>1. Begun /\ Accepted
    BY <1>5, <1>7 DEF Begun, Accepted
  <2>2. address < end_address /\ toRead <= end_address - address
    BY <1>3, <2>1 DEF SoundInv, ReadInv
  <2>3. address \in Nat /\ end_address \in Nat /\ toRead \in Nat /\ address + toRead \in Nat
        /\ address + toRead <= end_address
    BY <2>2, AddressNat
  <2>4. /\ Unit(address) \in Nat /\ Unit(end_address) \in Nat /\ Unit(toRead) \in Nat
        /\ Unit(address) + Unit(toRead) <= Unit(end_address)
        /\ Unit(end_address + 1) = Unit(end_address) + SectorUnits
    <3>1. Unit(address + toRead) = Unit(address) + Unit(toRead)
          /\ Unit(end_address + 1) = Unit(end_address) + SectorUnits
      <4>1. Unit(address + toRead) = Unit(address) + Unit(toRead)
        BY <2>3, UnitPlus
      <4>2. Unit(end_address + 1) = Unit(end_address) + SectorUnits
        BY <2>3, UnitPlus
      <4> QED BY <4>1, <4>2
    <3>2. /\ Unit(address) \in Nat /\ Unit(end_address) \in Nat /\ Unit(toRead) \in Nat
          /\ Unit(address + toRead) <= Unit(end_address)
      <4>1. Unit(address) \in Nat /\ Unit(end_address) \in Nat /\ Unit(toRead) \in Nat
        BY <2>3, UnitNat
      <4>2. Unit(address + toRead) <= Unit(end_address)
        BY <2>3, UnitOrder
      <4> QED BY <4>1, <4>2
    <3> QED BY <3>1, <3>2
  <2>5. play.lba \in Nat /\ play.lba <= address
    BY <2>1, <2>2, <2>3 DEF SoundInv, PlayInv
  <2>6. Unit(play.lba) <= Unit(address) /\ Unit(play.lba) \in Nat
    BY <2>3, <2>5, UnitNat, UnitOrder
  <2>7. due >= Unit(address) /\ due \in Nat
    BY <2>1 DEF SoundInv, PlayInv, TypeOK
  <2> QED BY <1>1, <1>2, <1>3, <1>4, <2>2, <2>3, <2>4, <2>6, <2>7
          DEF ReadInv, Buffered, NextUnit, TypeOK, PlayerAssumption
<1>8. ReadInv'
  BY <1>7 DEF ReadInv
<1> QED BY <1>4, <1>6, <1>8 DEF SoundInv

LEMMA SoundWrite ==
    ASSUME PlayerAssumption, TypeOK, SoundInv, NEW units \in Nat, Write(units), UNCHANGED mount
    PROVE  SoundInv'
<1>1. /\ pc = "Feed" /\ pc' = "Written" /\ state = "PLAYING"
      /\ units > 0 /\ units <= m_BufferBytesValid - m_BufferReadPos
      /\ m_BufferReadPos' = m_BufferReadPos + units
      /\ m_BytesProcessedInSector' = m_BytesProcessedInSector + units
      /\ due' = due + units
      /\ UNCHANGED <<m_pBinFileDevice, address, end_address, state, m_ReadBuffer,
                     m_BufferBytesValid, play>>
  BY DEF Write, Turn, TypeOK
<1>2. Unit(address) \in Nat
  BY AddressNat, UnitNat
<1>3. /\ {m_BufferBytesValid, m_BufferReadPos, m_BytesProcessedInSector, due} \subseteq Nat
      /\ m_ReadBuffer.from \in Nat
  BY DEF TypeOK
<1>4. StepInv'
  BY <1>1, <1>3 DEF SoundInv, StepInv
<1>5. PlayInv'
  BY <1>1, <1>2, <1>3 DEF SoundInv, PlayInv, Begun, Accepted
<1>6. ReadInv'
  BY <1>1, <1>2, <1>3 DEF SoundInv, ReadInv, Begun, Buffered, NextUnit
<1> QED BY <1>4, <1>5, <1>6 DEF SoundInv

LEMMA SoundAccount ==
    ASSUME PlayerAssumption, TypeOK, SoundInv, Account, UNCHANGED mount PROVE SoundInv'
<1> DEFINE whole == m_BytesProcessedInSector \div SectorUnits
           rest  == m_BytesProcessedInSector % SectorUnits
<1>1. /\ pc = "Written" /\ pc' = "Top" /\ state = "PLAYING"
      /\ address' = (address + whole) % AddressSpace
      /\ m_BytesProcessedInSector' = rest
      /\ state' \in {"PLAYING", "STOPPED_OK"}
      /\ UNCHANGED <<m_pBinFileDevice, end_address, m_ReadBuffer, m_BufferBytesValid,
                     m_BufferReadPos, play, due>>
  BY DEF Account, Turn, SoundInv, StepInv
<1>2. /\ whole \in Nat /\ rest \in 0 .. SectorUnits - 1
      /\ m_BytesProcessedInSector = Unit(whole) + rest
  BY DivMod DEF TypeOK, PlayerAssumption, Unit
<1>3. address \in Nat /\ end_address \in Nat /\ end_address < AddressSpace
      /\ AddressSpace \in Nat \ {0} /\ SectorUnits \in Nat \ {0}
      /\ {m_BufferBytesValid, m_BufferReadPos, due} \subseteq Nat
  BY AddressNat
<1>4. Unit(address) \in Nat /\ Unit(whole) \in Nat
      /\ Unit(address + whole) = Unit(address) + Unit(whole)
      /\ Unit(address + whole) \in Nat /\ Unit(end_address + 1) \in Nat
  <2>1. whole \in Nat /\ address + whole \in Nat /\ end_address + 1 \in Nat
    BY <1>2, <1>3
  <2> HIDE DEF whole
  <2> QED BY <1>3, <2>1, UnitNat, UnitPlus
<1>5. Unit(address + whole) < Unit(end_address + 1)
  BY <1>1, <1>2, <1>3, <1>4 DEF SoundInv, StepInv, ReadInv, Begun
<1>6. address + whole < end_address + 1
  <2>1. whole \in Nat /\ address + whole \in Nat /\ end_address + 1 \in Nat
    BY <1>2, <1>3
  <2> HIDE DEF whole
  <2> QED BY <1>5, <2>1, UnitOrder
<1>7. address' = address + whole
  <2>1. whole \in Nat /\ address + whole \in Nat /\ address + whole < AddressSpace
    BY <1>2, <1>3, <1>6
  <2> HIDE DEF whole
  <2> QED BY <1>1, <1>3, <2>1, ModFacts
<1>8. Unit(address') + rest = Unit(address) + m_BytesProcessedInSector
      /\ Unit(address') \in Nat
  BY <1>2, <1>4, <1>7
<1>9. StepInv'
  BY <1>1, <1>2, <1>3 DEF SoundInv, StepInv
<1>10. PlayInv'
  BY <1>1, <1>2, <1>3, <1>7, <1>8 DEF SoundInv, PlayInv, Begun, Accepted
<1>11. ReadInv'
  BY <1>1, <1>2, <1>3, <1>8 DEF SoundInv, ReadInv, Begun, Buffered, NextUnit
<1> QED BY <1>9, <1>10, <1>11 DEF SoundInv

LEMMA SoundMount ==
    ASSUME PlayerAssumption, TypeOK, AliveInv, SoundInv,
           Mount \/ EnsureAudioInitialized \/ AnnounceMedium \/ SoundTest
    PROVE  SoundInv'
<1> USE DEF SoundInv, StepInv, PlayInv, ReadInv, Begun, Accepted, Buffered, NextUnit
<1>1. CASE SetDevice
  BY <1>1 DEF SetDevice, buffer, running
<1>2. CASE ClearPlayer
  <2>1. Unit(0) = 0 /\ 0 < SectorUnits /\ due >= 0
    BY DEF Unit, PlayerAssumption, TypeOK
  <2>2. pc = "Top" /\ pc' = "Top" /\ address' = 0 /\ end_address' = 0 /\ due' = due
        /\ m_BufferBytesValid' = 0 /\ m_BufferReadPos' = 0 /\ m_BytesProcessedInSector' = 0
    BY <1>2 DEF ClearPlayer, running, history, AliveInv
  <2> QED BY <2>1, <2>2
<1>3. ASSUME NEW restarted \in BOOLEAN, AssignDevice(restarted) PROVE SoundInv'
  <2>1. /\ pc = "Top" /\ pc' = "Top" /\ mount = "Clear" /\ mount' = "Assigned"
        /\ (state' = state \/ state' = "STOPPED_ERROR")
        /\ UNCHANGED <<address, end_address, buffer, play, due>>
    BY <1>3 DEF AssignDevice, running, history, AliveInv
  <2>2. end_address = 0 /\ ~Buffered'
    BY <2>1, AddressNat DEF buffer
  <2> QED BY <2>1, <2>2 DEF buffer
<1>4. CASE DeleteDevice \/ AdoptDevice \/ EnsureAudioInitialized \/ AnnounceMedium
  <2>1. UNCHANGED <<player, buffer, pc, toRead, play, due>> /\ (mount' = "Clear" => mount = "Clear")
    BY <1>4 DEF DeleteDevice, AdoptDevice, EnsureAudioInitialized, AnnounceMedium, running,
                mounting, history
  <2> QED BY <2>1 DEF player, buffer
<1>5. CASE SoundTest
  <2>1. /\ UNCHANGED <<player, m_BufferBytesValid, m_BufferReadPos, m_BytesProcessedInSector,
                       pc, toRead, mount, play, due>>
        /\ m_ReadBuffer'.of = TestSound
    BY <1>5 DEF SoundTest, running, mounting, history
  <2> QED BY <2>1 DEF player
<1> QED BY <1>1, <1>2, <1>3, <1>4, <1>5 DEF Mount

LEMMA SoundStep ==
    ASSUME PlayerAssumption, QuietSteps, TypeOK, AliveInv, SoundInv, [Next]_vars PROVE SoundInv'
<1>1. CASE Command
  BY <1>1, SoundCommand
<1>2. CASE Run
  <2>1. UNCHANGED <<m_pBinFileDevice, end_address, mount, play>>
    BY <1>2 DEF Run, Play, Read, Feed, Write, PlayOn, StartFill, FinishPlay, NotPlaying,
                PreReadSeekFails, ReadFails, ReadSound, WriteFails, NoFeed, Account,
                SeekAddress, RunTop, Turn, mounting
  <2>2. ASSUME NEW units \in 1 .. BufferSectors * SectorUnits, Write(units) PROVE SoundInv'
    <3>1. units \in Nat
      BY TimesNat DEF PlayerAssumption
    <3> QED BY <2>1, <2>2, <3>1, SoundWrite
  <2> QED BY <1>2, <2>1, <2>2, SoundTurn, SoundRead, SoundAccount DEF Run, Read, Feed
<1>3. CASE Mount \/ EnsureAudioInitialized \/ AnnounceMedium \/ SoundTest
  BY <1>3, SoundMount
<1>4. CASE UNCHANGED vars
  BY <1>4 DEF vars, player, buffer, running, mounting, history, SoundInv, StepInv, PlayInv,
              ReadInv, Begun, Accepted, Buffered, NextUnit
<1> QED BY <1>1, <1>2, <1>3, <1>4 DEF Next

\* What a step feeds is what the play asked for.
AskedSound ==
    m_BufferReadPos' > m_BufferReadPos =>
        \/ m_ReadBuffer.of = TestSound
        \/ /\ m_ReadBuffer.of = play.on
           /\ NextUnit >= play.lba * SectorUnits
           /\ NextUnit' <= (play.lba + play.blocks) * SectorUnits
           /\ NextUnit <= due

LEMMA OnlyWriteFeeds ==
    ASSUME PlayerAssumption, TypeOK, [Next]_vars, m_BufferReadPos' > m_BufferReadPos
    PROVE  \E units \in Nat : Write(units)
<1>1. m_BufferReadPos' # 0 /\ m_BufferReadPos' # m_BufferReadPos
  BY DEF TypeOK
<1>2. Feed
  BY <1>1 DEF Next, vars, Command, PlayAudio, Seek, Pause, Resume, GetState, Interrupt, Run,
     RunTop, Play, Read, PlayOn, StartFill, FinishPlay, NotPlaying, PreReadSeekFails, ReadFails,
     ReadSound, WriteFails, NoFeed, Account, SeekAddress, EnsureAudioInitialized, Mount,
     SetDevice, ClearPlayer, AssignDevice, DeleteDevice, AdoptDevice, AnnounceMedium, SoundTest,
     buffer
<1>3. \A units \in 1 .. BufferSectors * SectorUnits : units \in Nat
  BY TimesNat DEF PlayerAssumption
<1> QED BY <1>2, <1>3 DEF Feed

LEMMA FeedIsAsked ==
    ASSUME PlayerAssumption, TypeOK, SoundInv, [Next]_vars PROVE AskedSound
<1>1. SUFFICES ASSUME m_BufferReadPos' > m_BufferReadPos, m_ReadBuffer.of # TestSound
      PROVE  /\ m_ReadBuffer.of = play.on
             /\ NextUnit >= play.lba * SectorUnits
             /\ NextUnit' <= (play.lba + play.blocks) * SectorUnits
             /\ NextUnit <= due
  BY DEF AskedSound
<1>2. PICK units \in Nat : Write(units)
  BY <1>1, OnlyWriteFeeds
<1>3. /\ pc = "Feed" /\ state = "PLAYING" /\ units > 0
      /\ units <= m_BufferBytesValid - m_BufferReadPos
      /\ m_BufferReadPos' = m_BufferReadPos + units /\ UNCHANGED m_ReadBuffer
  BY <1>2 DEF Write, Turn, TypeOK
<1>4. Begun /\ Accepted /\ Buffered
  BY <1>3 DEF Begun, Accepted, Buffered, TypeOK
<1>5. /\ m_ReadBuffer.of = m_pBinFileDevice /\ end_address # 0
      /\ Unit(play.lba) <= m_ReadBuffer.from
      /\ m_ReadBuffer.from + m_BufferBytesValid <= Unit(end_address)
      /\ NextUnit <= due
  BY <1>1, <1>4 DEF SoundInv, ReadInv
<1>6. /\ play.on = m_pBinFileDevice /\ play.lba \in Nat /\ play.blocks \in Nat
      /\ end_address <= play.lba + play.blocks
  BY <1>4, <1>5 DEF SoundInv, PlayInv
<1>7. end_address \in Nat /\ play.lba + play.blocks \in Nat
  BY <1>6 DEF TypeOK, PlayerAssumption
<1>8. Unit(end_address) <= Unit(play.lba + play.blocks) /\ Unit(end_address) \in Nat
      /\ Unit(play.lba + play.blocks) \in Nat /\ Unit(play.lba) \in Nat
  BY <1>6, <1>7, UnitNat, UnitOrder
<1>9. NextUnit >= Unit(play.lba) /\ NextUnit' <= Unit(play.lba + play.blocks)
  BY <1>3, <1>5, <1>8 DEF NextUnit, TypeOK
<1> QED BY <1>5, <1>6, <1>9 DEF Unit

\* While no command lands at the two places that lose one, the sound device is
\* given the play the host last had accepted, of its disc, from its start to its
\* end and in order: SoundIsAsked, of Play, Seek and the Run loop of cdplayer.cpp.
THEOREM SoundCorrect ==
    ASSUME PlayerAssumption, QuietSteps PROVE Init /\ [][Next]_vars => SoundIsAsked
<1>1. Init => AliveInv
  BY DEF Init, AliveInv
<1>2. ASSUME Init PROVE SoundInv
  <2>1. Unit(0) = 0 /\ 0 < SectorUnits
    BY DEF Unit, PlayerAssumption
  <2> QED BY <1>2, <2>1 DEF Init, SoundInv, StepInv, PlayInv, ReadInv, Begun, Accepted
<1>3. [AskedSound]_vars <=>
      [m_BufferReadPos' > m_BufferReadPos =>
          \/ m_ReadBuffer.of = TestSound
          \/ /\ m_ReadBuffer.of = play.on
             /\ NextUnit >= play.lba * SectorUnits
             /\ NextUnit' <= (play.lba + play.blocks) * SectorUnits
             /\ NextUnit <= due]_vars
  BY DEF AskedSound
<1> QED BY <1>1, <1>2, <1>3, AliveStep, SoundStep, FeedIsAsked, PlayerTypes, PTL
        DEF SoundIsAsked
=============================================================================
