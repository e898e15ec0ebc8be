--------------------------- MODULE UsbCdGadgetProofs ---------------------------
(* Proofs about the gadget for every set of discs, addresses and counts.      *)
EXTENDS UsbCdGadgetProperties, TLAPS

-----------------------------------------------------------------------------
(* What the counters are made of *)

LEMMA NoXferType ==
    NoXfer \in [disc : Discs \cup {NoDisc}, want : Nat, got : Nat]
BY DEF NoXfer

LEMMA AddressesNat == Addresses \subseteq Nat /\ Counts \subseteq Nat
BY TransferAssumption DEF TransferAssumption

LEMMA LeadoutNat ==
    /\ LeadoutLBA \in Nat
    /\ m_pDevice \in Discs => LeadoutLBA \in 1..(AddressSpace - 1)
BY DiscAssumption, TransferAssumption
DEF DiscAssumption, TransferAssumption, LeadoutLBA

\* A truncated count is a count, and of no more blocks than were asked for.
LEMMA TruncatedNat ==
    ASSUME NEW lba \in Nat, NEW n \in Nat, lba < LeadoutLBA
    PROVE  /\ Truncated(lba, n) \in Nat
           /\ n > 0 => Truncated(lba, n) > 0
<1>1. AddressSpace \in Nat \ {0} /\ LeadoutLBA \in Nat
  BY LeadoutNat, TransferAssumption DEF TransferAssumption
<1>2. (lba + n) % AddressSpace \in Nat
  BY <1>1
<1> QED BY <1>1, <1>2 DEF Truncated

LEMMA BufferFitsNat == BufferFits \in 1..MaxBlocks /\ MaxBlocks \in Nat \ {0}
BY TransferAssumption DEF TransferAssumption, BufferFits

\* The split of what is owed into a batch and a rest.
LEMMA BatchNat ==
    ASSUME NEW n \in Nat
    PROVE  /\ BatchSize(n) \in 0..MaxBlocks
           /\ OwedAfter(n) \in Nat
           /\ n > 0 => BatchSize(n) > 0
           /\ BatchSize(n) + OwedAfter(n) <= n
BY BufferFitsNat DEF BatchSize, OwedAfter, Least

-----------------------------------------------------------------------------
(* Type correctness: one lemma per action, one step per group of variables.   *)

LEMMA TypeInit == Init => TypeOK
<1>1. Init => MediumTypeOK BY DEF Init, MediumTypeOK, MediaStates
<1>2. Init => StatusTypeOK
  BY DEF Init, StatusTypeOK, Senses, Status, BotStates, CommandKinds
<1>3. Init => ReadTypeOK
  <2> SUFFICES ASSUME Init PROVE ReadTypeOK OBVIOUS
  <2>1. batch \in 0..MaxBlocks
    BY TransferAssumption DEF TransferAssumption, Init
  <2>2. xfer \in [disc : Discs \cup {NoDisc}, want : Nat, got : Nat]
    BY NoXferType DEF Init
  <2>3. m_nblock_address \in Nat /\ m_nnumber_blocks \in Nat
    BY DEF Init
  <2>4. subchannel_selection \in BOOLEAN
    BY DEF Init
  <2> QED BY <2>1, <2>2, <2>3, <2>4 DEF ReadTypeOK
<1>4. Init => TaskTypeOK BY DEF Init, TaskTypeOK, Steps, RestSteps
<1> QED BY <1>1, <1>2, <1>3, <1>4 DEF TypeOK

LEMMA TypeActivate == TypeOK /\ OnActivate => TypeOK'
<1> SUFFICES ASSUME TypeOK, OnActivate PROVE TypeOK' OBVIOUS
<1>1. MediumTypeOK'
  BY DEF TypeOK, MediumTypeOK, OnActivate, mediaVars, senseVars, MediaStates
<1>2. StatusTypeOK'
  BY DEF TypeOK, StatusTypeOK, OnActivate, mediaVars, senseVars, Senses,
     Status, BotStates, CommandKinds
<1>3. ReadTypeOK'
  BY NoXferType DEF TypeOK, ReadTypeOK, OnActivate, readVars, taskVars
<1>4. TaskTypeOK'
  BY DEF TypeOK, TaskTypeOK, OnActivate, taskVars
<1> QED BY <1>1, <1>2, <1>3, <1>4 DEF TypeOK

LEMMA TypeSuspend == TypeOK /\ OnSuspend => TypeOK'
<1> SUFFICES ASSUME TypeOK, OnSuspend PROVE TypeOK' OBVIOUS
<1>1. MediumTypeOK'
  BY DEF TypeOK, MediumTypeOK, OnSuspend, mediaVars
<1>2. StatusTypeOK'
  BY DEF TypeOK, StatusTypeOK, OnSuspend, senseVars, BotStates
<1>3. ReadTypeOK'
  BY NoXferType DEF TypeOK, ReadTypeOK, OnSuspend, readVars, taskVars
<1>4. TaskTypeOK'
  BY DEF TypeOK, TaskTypeOK, OnSuspend, taskVars
<1> QED BY <1>1, <1>2, <1>3, <1>4 DEF TypeOK

LEMMA TypeTransferIn == TypeOK /\ TransferInComplete => TypeOK'
<1> SUFFICES ASSUME TypeOK, TransferInComplete PROVE TypeOK' OBVIOUS
<1>1. MediumTypeOK'
  BY DEF TypeOK, MediumTypeOK, TransferInComplete, mediaVars
<1>2. StatusTypeOK'
  BY DEF TypeOK, StatusTypeOK, TransferInComplete, StatusSent, DataInSent,
     SenseSent, SendCSW, sendCheckCondition, setSenseData, Senses, Status,
     BotStates, CommandKinds
<1>3. ReadTypeOK'
  BY DEF TypeOK, ReadTypeOK, TransferInComplete, readVars, taskVars
<1>4. TaskTypeOK'
  BY DEF TypeOK, TaskTypeOK, TransferInComplete, taskVars
<1> QED BY <1>1, <1>2, <1>3, <1>4 DEF TypeOK

LEMMA TypeDataOut == TypeOK /\ DataOutReceived => TypeOK'
<1> SUFFICES ASSUME TypeOK, DataOutReceived PROVE TypeOK' OBVIOUS
<1>1. MediumTypeOK'
  BY DEF TypeOK, MediumTypeOK, DataOutReceived, mediaVars
<1>2. StatusTypeOK'
  BY DEF TypeOK, StatusTypeOK, DataOutReceived, ProcessSendFileOut, SendCSW,
     sendCheckCondition, setSenseData, Senses, Status, BotStates, CommandKinds
<1>3. ReadTypeOK'
  BY DEF TypeOK, ReadTypeOK, DataOutReceived, readVars, taskVars
<1>4. TaskTypeOK'
  BY DEF TypeOK, TaskTypeOK, DataOutReceived, taskVars
<1> QED BY <1>1, <1>2, <1>3, <1>4 DEF TypeOK

LEMMA TypeInvalidCBW == TypeOK /\ InvalidCBW => TypeOK'
<1> SUFFICES ASSUME TypeOK, InvalidCBW PROVE TypeOK' OBVIOUS
<1>1. MediumTypeOK'
  BY DEF TypeOK, MediumTypeOK, InvalidCBW, mediaVars
<1>2. StatusTypeOK'
  BY DEF TypeOK, StatusTypeOK, InvalidCBW, senseVars
<1>3. ReadTypeOK'
  BY DEF TypeOK, ReadTypeOK, InvalidCBW, readVars, taskVars
<1>4. TaskTypeOK'
  BY DEF TypeOK, TaskTypeOK, InvalidCBW, taskVars
<1> QED BY <1>1, <1>2, <1>3, <1>4 DEF TypeOK

LEMMA TypeRefused == TypeOK /\ RefusedCommand => TypeOK'
<1> SUFFICES ASSUME TypeOK, RefusedCommand PROVE TypeOK' OBVIOUS
<1>1. MediumTypeOK'
  BY DEF TypeOK, MediumTypeOK, RefusedCommand, Untouched, mediaVars
<1>2. StatusTypeOK'
  BY DEF TypeOK, StatusTypeOK, RefusedCommand, Consumed, sendCheckCondition,
     SendCSW, setSenseData, Senses, Status, BotStates, CommandKinds
<1>3. ReadTypeOK'
  BY NoXferType DEF TypeOK, ReadTypeOK, RefusedCommand, Consumed, readVars,
     taskVars
<1>4. TaskTypeOK'
  BY DEF TypeOK, TaskTypeOK, RefusedCommand, Consumed, taskVars
<1> QED BY <1>1, <1>2, <1>3, <1>4 DEF TypeOK

LEMMA TypeAudio == TypeOK /\ AudioCommand => TypeOK'
<1> SUFFICES ASSUME TypeOK, AudioCommand PROVE TypeOK' OBVIOUS
<1>1. MediumTypeOK'
  BY DEF TypeOK, MediumTypeOK, AudioCommand, DoPlayAudio, PlayAudioMSF, Seek,
     PauseResume, StopScan, Untouched, mediaVars
<1>2. StatusTypeOK'
  BY DEF TypeOK, StatusTypeOK, AudioCommand, DoPlayAudio, PlayAudioMSF, Seek,
     PauseResume, StopScan, PlayAudio, Consumed, senseVars, sendNotReady,
     sendCheckCondition, SendCSW, setSenseData, Reply, NotReadySense,
     sendGoodStatus, Senses, Status, BotStates, CommandKinds
<1>3. ReadTypeOK'
  BY NoXferType, AddressesNat DEF TypeOK, ReadTypeOK, AudioCommand,
     DoPlayAudio, PlayAudioMSF, Seek, PauseResume, StopScan, Consumed,
     ClearCount, readVars, taskVars
<1>4. TaskTypeOK'
  BY DEF TypeOK, TaskTypeOK, AudioCommand, Consumed, taskVars
<1> QED BY <1>1, <1>2, <1>3, <1>4 DEF TypeOK

LEMMA TypeMedia == TypeOK /\ MediaCommand => TypeOK'
<1> SUFFICES ASSUME TypeOK, MediaCommand PROVE TypeOK' OBVIOUS
<1>1. MediumTypeOK'
  BY DEF TypeOK, MediumTypeOK, MediaCommand, RequestSense, StartStopUnit,
     EjectAtOnce, Untouched, mediaVars, MediaStates
<1>2. StatusTypeOK'
  BY DEF TypeOK, StatusTypeOK, MediaCommand, RequestSense, StartStopUnit,
     EjectAtOnce, Consumed, senseVars, sendNotReady, sendCheckCondition,
     SendCSW, setSenseData, Reply, NotReadySense, sendGoodStatus, Senses,
     Status, BotStates, CommandKinds
<1>3. ReadTypeOK'
  BY NoXferType DEF TypeOK, ReadTypeOK, MediaCommand, RequestSense,
     StartStopUnit, Consumed, readVars, taskVars
<1>4. TaskTypeOK'
  BY DEF TypeOK, TaskTypeOK, MediaCommand, Consumed, taskVars
<1> QED BY <1>1, <1>2, <1>3, <1>4 DEF TypeOK

LEMMA TypeDisc == TypeOK /\ DiscCommand => TypeOK'
<1> SUFFICES ASSUME TypeOK, DiscCommand PROVE TypeOK' OBVIOUS
<1>1. MediumTypeOK'
  BY DEF TypeOK, MediumTypeOK, DiscCommand, Untouched, mediaVars,
     ReadTOC, ReadTrackInformation, ReadDiscStructure, ReadDiscInformation,
     ReadHeader, ReadSubChannel, ReadCapacity, TestUnitReady, DescribeDisc
<1>2. StatusTypeOK'
  BY DEF TypeOK, StatusTypeOK, DiscCommand, Consumed, Received,
     ReadTOC, ReadTrackInformation, ReadDiscStructure, ReadDiscInformation,
     ReadHeader, ReadSubChannel, ReadCapacity, TestUnitReady, DescribeDisc,
     sendNotReady, sendCheckCondition, SendCSW, setSenseData, Reply,
     NotReadySense, sendGoodStatus, Senses, Status, BotStates,
     CommandKinds
<1>3. ReadTypeOK'
  BY NoXferType DEF TypeOK, ReadTypeOK, DiscCommand, Consumed, ClearCount,
     readVars, taskVars, ReadTOC, ReadTrackInformation, ReadDiscStructure,
     ReadDiscInformation, ReadHeader, ReadSubChannel, ReadCapacity,
     TestUnitReady, DescribeDisc
<1>4. TaskTypeOK'
  BY DEF TypeOK, TaskTypeOK, DiscCommand, Consumed, taskVars
<1> QED BY <1>1, <1>2, <1>3, <1>4 DEF TypeOK

LEMMA TypeDrive == TypeOK /\ DriveCommand => TypeOK'
<1> SUFFICES ASSUME TypeOK, DriveCommand PROVE TypeOK' OBVIOUS
<1>1. MediumTypeOK'
  BY DEF TypeOK, MediumTypeOK, DriveCommand, Untouched, mediaVars,
     PreventAllowMediumRemoval, GetEventStatusNotification, Inquiry,
     ModeSense6, ModeSense10, ModeSense, MechanismStatus, GetPerformance,
     CommandA4, GetConfiguration, Verify, SetCDROMSpeed
<1>2. StatusTypeOK'
  BY DEF TypeOK, StatusTypeOK, DriveCommand, Consumed, senseVars,
     PreventAllowMediumRemoval, GetEventStatusNotification, Inquiry,
     ModeSense6, ModeSense10, ModeSense, MechanismStatus, GetPerformance,
     CommandA4, GetConfiguration, Verify, SetCDROMSpeed, sendNotReady,
     sendCheckCondition, SendCSW, setSenseData, Reply, NotReadySense,
     sendGoodStatus, Senses, Status, BotStates, CommandKinds
<1>3. ReadTypeOK'
  BY NoXferType DEF TypeOK, ReadTypeOK, DriveCommand, Consumed, ClearCount,
     readVars, taskVars, PreventAllowMediumRemoval,
     GetEventStatusNotification, Inquiry, ModeSense6, ModeSense10, ModeSense,
     MechanismStatus, GetPerformance, CommandA4, GetConfiguration, Verify,
     SetCDROMSpeed
<1>4. TaskTypeOK'
  BY DEF TypeOK, TaskTypeOK, DriveCommand, Consumed, taskVars
<1> QED BY <1>1, <1>2, <1>3, <1>4 DEF TypeOK

LEMMA TypeModeSelect == TypeOK /\ ModeSelectCommand => TypeOK'
<1> SUFFICES ASSUME TypeOK, ModeSelectCommand PROVE TypeOK' OBVIOUS
<1>1. MediumTypeOK'
  BY DEF TypeOK, MediumTypeOK, ModeSelectCommand, ModeSelect10, Untouched,
     mediaVars
<1>2. StatusTypeOK'
  BY DEF TypeOK, StatusTypeOK, ModeSelectCommand, ModeSelect10, Consumed,
     senseVars, Senses, Status, BotStates, CommandKinds
<1>3. ReadTypeOK'
  BY NoXferType DEF TypeOK, ReadTypeOK, ModeSelectCommand, ModeSelect10,
     Consumed, readVars, taskVars
<1>4. TaskTypeOK'
  BY DEF TypeOK, TaskTypeOK, ModeSelectCommand, Consumed, taskVars
<1> QED BY <1>1, <1>2, <1>3, <1>4 DEF TypeOK

LEMMA TypeToolbox == TypeOK /\ ToolboxCommand => TypeOK'
<1> SUFFICES ASSUME TypeOK, ToolboxCommand PROVE TypeOK' OBVIOUS
<1>1. MediumTypeOK'
  BY DEF TypeOK, MediumTypeOK, ToolboxCommand, Untouched, mediaVars,
     ListDevices, NumberOfFiles, ListFiles, SetNextCD, SendFilePrep,
     SendFile10, SendFileEnd, SendFileBlock, ToolboxReply
<1>2. StatusTypeOK'
  BY DEF TypeOK, StatusTypeOK, ToolboxCommand, Consumed, BeginSendFileDataOut,
     senseVars, ListDevices, NumberOfFiles, ListFiles, SetNextCD,
     SendFilePrep, SendFile10, SendFileEnd, SendFileBlock, ToolboxReply,
     sendNotReady, sendCheckCondition, SendCSW, setSenseData, Reply,
     NotReadySense, sendGoodStatus, Senses, Status, BotStates, CommandKinds
<1>3. ReadTypeOK'
  BY NoXferType DEF TypeOK, ReadTypeOK, ToolboxCommand, Consumed, ClearCount,
     readVars, taskVars, ListDevices, NumberOfFiles, ListFiles, SetNextCD,
     SendFilePrep, SendFile10, SendFileEnd, SendFileBlock, ToolboxReply
<1>4. TaskTypeOK'
  BY DEF TypeOK, TaskTypeOK, ToolboxCommand, Consumed, taskVars
<1> QED BY <1>1, <1>2, <1>3, <1>4 DEF TypeOK

LEMMA TypeArm == TypeOK /\ ArmBootEject => TypeOK'
<1> SUFFICES ASSUME TypeOK, ArmBootEject PROVE TypeOK' OBVIOUS
<1>1. MediumTypeOK'
  BY DEF TypeOK, MediumTypeOK, ArmBootEject, MediaStates
<1>2. StatusTypeOK'
  BY DEF TypeOK, StatusTypeOK, ArmBootEject, TransportUnchanged, botVars,
     senseVars, Senses, Status
<1>3. ReadTypeOK'
  BY DEF TypeOK, ReadTypeOK, ArmBootEject, TransportUnchanged, readVars
<1>4. TaskTypeOK'
  BY DEF TypeOK, TaskTypeOK, ArmBootEject, Steps, RestSteps, SetDeviceSteps,
     EjectSteps, InsertSteps, SwapSteps, ReadSteps
<1> QED BY <1>1, <1>2, <1>3, <1>4 DEF TypeOK

LEMMA TypeDisarm == TypeOK /\ DisarmBootEject => TypeOK'
<1> SUFFICES ASSUME TypeOK, DisarmBootEject PROVE TypeOK' OBVIOUS
<1>1. MediumTypeOK'
  BY DEF TypeOK, MediumTypeOK, DisarmBootEject, mediaVars, TransportUnchanged,
     MediaStates
<1>2. StatusTypeOK'
  BY DEF TypeOK, StatusTypeOK, DisarmBootEject, TransportUnchanged, botVars,
     senseVars, Senses, Status
<1>3. ReadTypeOK'
  BY DEF TypeOK, ReadTypeOK, DisarmBootEject, TransportUnchanged, readVars
<1>4. TaskTypeOK'
  BY DEF TypeOK, TaskTypeOK, DisarmBootEject, Steps, RestSteps,
     SetDeviceSteps, EjectSteps, InsertSteps, SwapSteps, ReadSteps
<1> QED BY <1>1, <1>2, <1>3, <1>4 DEF TypeOK

LEMMA TypeLoad == TypeOK /\ (\E dev \in Discs : LoadImage(dev)) => TypeOK'
<1> SUFFICES ASSUME TypeOK, NEW dev \in Discs, LoadImage(dev) PROVE TypeOK' OBVIOUS
<1>1. MediumTypeOK'
  BY DEF TypeOK, MediumTypeOK, LoadImage, mediaVars, TransportUnchanged,
     MediaStates
<1>2. StatusTypeOK'
  BY DEF TypeOK, StatusTypeOK, LoadImage, TransportUnchanged, botVars,
     senseVars, Senses, Status
<1>3. ReadTypeOK'
  BY DEF TypeOK, ReadTypeOK, LoadImage, TransportUnchanged, readVars
<1>4. TaskTypeOK'
  BY DEF TypeOK, TaskTypeOK, LoadImage, Steps, RestSteps, SetDeviceSteps,
     EjectSteps, InsertSteps, SwapSteps, ReadSteps
<1> QED BY <1>1, <1>2, <1>3, <1>4 DEF TypeOK

LEMMA TypeSlept == TypeOK /\ InitializeSlept => TypeOK'
<1> SUFFICES ASSUME TypeOK, InitializeSlept PROVE TypeOK' OBVIOUS
<1>1. MediumTypeOK'
  BY DEF TypeOK, MediumTypeOK, InitializeSlept, mediaVars, TransportUnchanged,
     MediaStates
<1>2. StatusTypeOK'
  BY DEF TypeOK, StatusTypeOK, InitializeSlept, TransportUnchanged, botVars,
     senseVars, Senses, Status
<1>3. ReadTypeOK'
  BY DEF TypeOK, ReadTypeOK, InitializeSlept, TransportUnchanged, readVars
<1>4. TaskTypeOK'
  BY DEF TypeOK, TaskTypeOK, InitializeSlept, Steps, RestSteps,
     SetDeviceSteps, EjectSteps, InsertSteps, SwapSteps, ReadSteps
<1> QED BY <1>1, <1>2, <1>3, <1>4 DEF TypeOK

LEMMA TypeSetDevice == TypeOK /\ SetDevice => TypeOK'
<1> SUFFICES ASSUME TypeOK, SetDevice PROVE TypeOK' OBVIOUS
<1>1. MediumTypeOK'
  BY DEF TypeOK, MediumTypeOK, TaskTypeOK, SetDevice, MediaStates
<1>2. StatusTypeOK'
  BY DEF TypeOK, StatusTypeOK, SetDevice, TransportUnchanged, botVars,
     senseVars, Senses, Status
<1>3. ReadTypeOK'
  BY DEF TypeOK, ReadTypeOK, SetDevice, TransportUnchanged, readVars
<1>4. TaskTypeOK'
  BY DEF TypeOK, TaskTypeOK, SetDevice, Steps, RestSteps, SetDeviceSteps,
     EjectSteps, InsertSteps, SwapSteps, ReadSteps
<1> QED BY <1>1, <1>2, <1>3, <1>4 DEF TypeOK

LEMMA TypeEject == TypeOK /\ Eject => TypeOK'
<1> SUFFICES ASSUME TypeOK, Eject PROVE TypeOK' OBVIOUS
<1>1. MediumTypeOK'
  BY DEF TypeOK, MediumTypeOK, Eject, mediaVars, TransportUnchanged,
     MediaStates
<1>2. StatusTypeOK'
  BY DEF TypeOK, StatusTypeOK, Eject, TransportUnchanged, botVars, senseVars,
     Senses, Status
<1>3. ReadTypeOK'
  BY DEF TypeOK, ReadTypeOK, Eject, TransportUnchanged, readVars
<1>4. TaskTypeOK'
  BY DEF TypeOK, TaskTypeOK, Eject, Steps, RestSteps, SetDeviceSteps,
     EjectSteps, InsertSteps, SwapSteps, ReadSteps
<1> QED BY <1>1, <1>2, <1>3, <1>4 DEF TypeOK

LEMMA TypeInsert == TypeOK /\ Insert => TypeOK'
<1> SUFFICES ASSUME TypeOK, Insert PROVE TypeOK' OBVIOUS
<1>1. MediumTypeOK'
  BY DEF TypeOK, MediumTypeOK, Insert, mediaVars, TransportUnchanged,
     MediaStates
<1>2. StatusTypeOK'
  BY DEF TypeOK, StatusTypeOK, Insert, TransportUnchanged, botVars, senseVars,
     Senses, Status
<1>3. ReadTypeOK'
  BY DEF TypeOK, ReadTypeOK, Insert, TransportUnchanged, readVars
<1>4. TaskTypeOK'
  BY DEF TypeOK, TaskTypeOK, Insert, Steps, RestSteps, SetDeviceSteps,
     EjectSteps, InsertSteps, SwapSteps, ReadSteps
<1> QED BY <1>1, <1>2, <1>3, <1>4 DEF TypeOK

LEMMA TypeSwap == TypeOK /\ UpdateSwap => TypeOK'
<1> SUFFICES ASSUME TypeOK, UpdateSwap PROVE TypeOK' OBVIOUS
<1>1. MediumTypeOK'
  BY DEF TypeOK, MediumTypeOK, UpdateSwap, mediaVars, TransportUnchanged,
     MediaStates
<1>2. StatusTypeOK'
  BY DEF TypeOK, StatusTypeOK, UpdateSwap, TransportUnchanged, botVars,
     senseVars, Senses, Status
<1>3. ReadTypeOK'
  BY DEF TypeOK, ReadTypeOK, UpdateSwap, TransportUnchanged, readVars
<1>4. TaskTypeOK'
  BY DEF TypeOK, TaskTypeOK, UpdateSwap, Steps, RestSteps, SetDeviceSteps,
     EjectSteps, InsertSteps, SwapSteps, ReadSteps
<1> QED BY <1>1, <1>2, <1>3, <1>4 DEF TypeOK

LEMMA TypeDone == TypeOK /\ UpdateDone => TypeOK'
<1> SUFFICES ASSUME TypeOK, UpdateDone PROVE TypeOK' OBVIOUS
<1>1. MediumTypeOK'
  BY DEF TypeOK, MediumTypeOK, UpdateDone, mediaVars, TransportUnchanged,
     MediaStates
<1>2. StatusTypeOK'
  BY DEF TypeOK, StatusTypeOK, UpdateDone, TransportUnchanged, botVars,
     senseVars, Senses, Status
<1>3. ReadTypeOK'
  BY DEF TypeOK, ReadTypeOK, UpdateDone, TransportUnchanged, readVars
<1>4. TaskTypeOK'
  BY DEF TypeOK, TaskTypeOK, UpdateDone, Steps, RestSteps, SetDeviceSteps,
     EjectSteps, InsertSteps, SwapSteps, ReadSteps
<1> QED BY <1>1, <1>2, <1>3, <1>4 DEF TypeOK

LEMMA TypeRead == TypeOK /\ ReadCommand => TypeOK'
<1> SUFFICES ASSUME TypeOK, ReadCommand PROVE TypeOK' OBVIOUS
<1>1. MediumTypeOK'
  BY DEF TypeOK, MediumTypeOK, ReadCommand, DoRead, ReadCD, Untouched,
     mediaVars
<1>2. StatusTypeOK'
  BY DEF TypeOK, StatusTypeOK, ReadCommand, DoRead, ReadCD, Consumed,
     sendNotReady, sendCheckCondition, SendCSW, setSenseData, NotReadySense,
     Senses, Status, BotStates, CommandKinds
<1>3. ReadTypeOK'
  <2>0. PICK lba \in Addresses, n \in Counts :
           DoRead(lba, n) \/ \E sub, valid \in BOOLEAN : ReadCD(lba, n, sub, valid)
    BY DEF ReadCommand
  <2>1. lba \in Nat /\ n \in Nat
    BY AddressesNat
  <2>2. lba < LeadoutLBA => Truncated(lba, n) \in Nat
    BY <2>1, TruncatedNat
  <2>3. /\ m_nblock_address' \in Nat
        /\ m_nnumber_blocks' \in Nat
        /\ subchannel_selection' \in BOOLEAN
    <3>1. CASE DoRead(lba, n)
      <4>1. CASE ~m_CDReady
        BY <4>1, <3>1 DEF TypeOK, ReadTypeOK, DoRead, readVars
      <4>2. CASE m_CDReady
        <5>1. m_nblock_address' = lba
          BY <4>2, <3>1 DEF DoRead
        <5>2. m_nnumber_blocks' \in Nat
          BY <4>2, <3>1, <2>1, <2>2, LeadoutNat DEF DoRead
        <5>3. subchannel_selection' \in BOOLEAN
          BY <4>2, <3>1 DEF DoRead, TypeOK, ReadTypeOK
        <5> QED BY <5>1, <5>2, <5>3, <2>1
      <4>3. m_CDReady \in BOOLEAN
        BY DEF TypeOK, MediumTypeOK
      <4> QED BY <4>1, <4>2, <4>3
    <3>2. CASE \E sub, valid \in BOOLEAN : ReadCD(lba, n, sub, valid)
      BY <3>2, <2>1 DEF TypeOK, ReadTypeOK, ReadCD, readVars
    <3> QED BY <2>0, <3>1, <3>2
  <2>4. xfer' \in [disc : Discs \cup {NoDisc}, want : Nat, got : Nat]
    <3>1. CASE NoneStarted
      BY <3>1, NoXferType DEF NoneStarted
    <3>2. CASE StartXfer(lba, n)
      BY <3>2, <2>2 DEF TypeOK, MediumTypeOK, StartXfer
    <3> QED BY <2>0, <3>1, <3>2 DEF DoRead, ReadCD
  <2>5. batch' = batch
    BY DEF ReadCommand, Consumed, taskVars
  <2> QED BY <2>3, <2>4, <2>5 DEF TypeOK, ReadTypeOK
<1>4. TaskTypeOK'
  BY DEF TypeOK, TaskTypeOK, ReadCommand, Consumed, taskVars
<1> QED BY <1>1, <1>2, <1>3, <1>4 DEF TypeOK

LEMMA TypeUpdateRead == TypeOK /\ UpdateRead => TypeOK'
<1> SUFFICES ASSUME TypeOK, UpdateRead PROVE TypeOK' OBVIOUS
<1>1. MediumTypeOK'
  BY DEF TypeOK, MediumTypeOK, UpdateRead, mediaVars
<1>2. StatusTypeOK'
  BY DEF TypeOK, StatusTypeOK, UpdateRead, sendCheckCondition, SendCSW,
     setSenseData, Senses, Status, BotStates
<1>3. ReadTypeOK'
  <2> DEFINE n == Truncated(m_nblock_address, m_nnumber_blocks)
  <2>1. CASE m_nblock_address < LeadoutLBA
    <3>1. n \in Nat
      BY <2>1, TruncatedNat DEF TypeOK, ReadTypeOK
    <3>2. BatchSize(n) \in 0..MaxBlocks /\ OwedAfter(n) \in Nat
      BY <3>1, BatchNat
    <3> HIDE DEF n
    <3>3. m_nnumber_blocks' \in {m_nnumber_blocks, n, OwedAfter(n)}
      BY DEF UpdateRead, n
    <3>4. batch' \in {batch, BatchSize(n)}
      BY DEF UpdateRead, n
    <3> QED BY <3>1, <3>2, <3>3, <3>4 DEF TypeOK, ReadTypeOK, UpdateRead
  <2>2. CASE ~(m_nblock_address < LeadoutLBA)
    BY <2>2 DEF TypeOK, ReadTypeOK, UpdateRead
  <2> QED BY <2>1, <2>2
<1>4. TaskTypeOK'
  BY DEF TypeOK, TaskTypeOK, UpdateRead, Steps, RestSteps, ReadSteps
<1> QED BY <1>1, <1>2, <1>3, <1>4 DEF TypeOK

LEMMA TypeReadDone == TypeOK /\ UpdateReadDone => TypeOK'
<1> SUFFICES ASSUME TypeOK, UpdateReadDone PROVE TypeOK' OBVIOUS
<1>1. MediumTypeOK'
  BY DEF TypeOK, MediumTypeOK, UpdateReadDone, mediaVars
<1>2. StatusTypeOK'
  BY DEF TypeOK, StatusTypeOK, UpdateReadDone, sendCheckCondition, SendCSW,
     setSenseData, Reply, Senses, Status, BotStates
<1>3. ReadTypeOK'
  <2>1. 0 \in 0..MaxBlocks /\ batch \in Nat
    BY BufferFitsNat DEF TypeOK, ReadTypeOK
  <2>2. xfer' \in [disc : Discs \cup {NoDisc}, want : Nat, got : Nat]
    <3>1. xfer.disc \in Discs \cup {NoDisc} /\ xfer.got + batch \in Nat
      BY <2>1 DEF TypeOK, ReadTypeOK
    <3> QED BY <3>1 DEF TypeOK, ReadTypeOK, UpdateReadDone
  <2> QED BY <2>1, <2>2 DEF TypeOK, ReadTypeOK, UpdateReadDone
<1>4. TaskTypeOK'
  BY DEF TypeOK, TaskTypeOK, UpdateReadDone, Steps, RestSteps
<1> QED BY <1>1, <1>2, <1>3, <1>4 DEF TypeOK

LEMMA TypeStutter == TypeOK /\ UNCHANGED vars => TypeOK'
<1> SUFFICES ASSUME TypeOK, UNCHANGED vars PROVE TypeOK' OBVIOUS
<1>1. MediumTypeOK'
  BY DEF TypeOK, MediumTypeOK, vars, mediaVars
<1>2. StatusTypeOK'
  BY DEF TypeOK, StatusTypeOK, vars, senseVars, botVars
<1>3. ReadTypeOK'
  BY DEF TypeOK, ReadTypeOK, vars, readVars, taskVars
<1>4. TaskTypeOK'
  BY DEF TypeOK, TaskTypeOK, vars, taskVars
<1> QED BY <1>1, <1>2, <1>3, <1>4 DEF TypeOK

\* Whatever the host, the tasks and the interrupts do, every variable keeps its
\* type; in particular the block counters of DoRead and Update, computed by
\* subtraction from the lead-out and from the buffer size, never go negative.
THEOREM TypeCorrect == Spec => []TypeOK
<1>1. TypeOK /\ Interrupt => TypeOK'
  BY TypeActivate, TypeSuspend, TypeTransferIn, TypeDataOut, TypeInvalidCBW,
     TypeRefused, TypeRead, TypeAudio, TypeMedia, TypeDisc, TypeDrive, TypeModeSelect,
     TypeToolbox DEF Interrupt, HandleSCSICommand
<1>2. TypeOK /\ UserTask => TypeOK'
  BY TypeArm, TypeDisarm, TypeLoad, TypeEject, TypeInsert DEF UserTask
<1>3. TypeOK /\ Update => TypeOK'
  BY TypeSwap, TypeUpdateRead, TypeReadDone, TypeDone DEF Update
<1>4. TypeOK /\ [Next]_vars => TypeOK'
  BY <1>1, <1>2, <1>3, TypeSlept, TypeSetDevice, TypeStutter DEF Next
<1> QED BY TypeInit, <1>4, PTL DEF Spec

-----------------------------------------------------------------------------
(* The medium.  The routines that mount, insert and announce a disc store     *)
(* their flags one by one, so the invariant says for each step what has been  *)
(* stored so far.  It holds when no bus reset and no command that moves the   *)
(* medium lands inside those routines (Eject may be interrupted by either).   *)

QuietMedia ==
    \A routine \in {"SetDevice", "Insert", "Swap"},
       kind \in {"Activate", "MediaCommand"} : <<routine, kind>> \notin Preempts

\* The boot-time arm holds for the first image only.
ArmInv ==
    /\ m_bEjectOnLoad => /\ m_bEjected
                         /\ m_pDevice = NoDisc
                         /\ pc \notin SetDeviceSteps \ {"SetDevice"}
    /\ ~isInitialized => m_pDevice = NoDisc
    /\ newDevice # NoDisc => isInitialized

EjectInv ==
    /\ pc \in EjectSteps => m_bEjected /\ ~m_bPendingDiscSwap
    /\ pc = "EjectNoMedium" => ~m_CDReady

MountInv ==
    /\ pc \in SetDeviceSteps => newDevice # NoDisc
    /\ pc \in SetDeviceSteps \ {"SetDevice"} /\ m_bEjected => ~bDiscSwap
    /\ pc \in {"NoMedium", "Delete", "Adopt", "Announce"} => ~m_CDReady
    /\ pc \in {"Delete", "Adopt", "Announce"} => m_mediaState = "NO_MEDIUM"
    /\ pc = "Announce" => m_pDevice # NoDisc
    /\ m_bPendingDiscSwap /\ pc \notin SetDeviceSteps => m_pDevice # NoDisc

AnnounceInv ==
    /\ pc \in InsertSteps \cup SwapSteps => ~m_bEjected /\ m_pDevice # NoDisc
    /\ pc = "InsertAnnounce" => ~m_CDReady /\ m_mediaState = "NO_MEDIUM"
    /\ pc \in SwapSteps => m_CDReady
    /\ pc = "SwapState" => m_mediaState = "NO_MEDIUM"
    /\ pc = "SwapSense" => m_mediaState = "UNIT_ATTENTION"

ReadyInv ==
    /\ m_CDReady => m_pDevice # NoDisc
    /\ pc \in {"Idle", "Update", "Read", "SetDevice"} =>
          (m_CDReady <=> m_mediaState # "NO_MEDIUM")

MediumInv ==
    EjectedIsEmpty /\ ArmInv /\ EjectInv /\ MountInv /\ AnnounceInv /\ ReadyInv

-----------------------------------------------------------------------------
\* Most handlers leave the medium and the tasks alone, and only take a NewMedia
\* event away.
MediumFrame ==
    /\ UNCHANGED <<m_mediaState, m_CDReady, m_bEjected, m_bEjectOnLoad,
                   m_bPendingDiscSwap, m_pDevice, taskVars>>
    /\ discChanged' => discChanged

LEMMA FrameKeeps == MediumInv /\ MediumFrame => MediumInv'
BY DEF MediumInv, MediumFrame, EjectedIsEmpty, ArmInv, EjectInv, MountInv,
       AnnounceInv, ReadyInv, taskVars


LEMMA CommandFrame ==
    ASSUME RefusedCommand \/ ReadCommand \/ AudioCommand \/ DiscCommand
             \/ ModeSelectCommand \/ ToolboxCommand
    PROVE  MediumFrame
<1>1. CASE RefusedCommand
  BY <1>1 DEF RefusedCommand, Untouched, Consumed, mediaVars, MediumFrame
<1>2. CASE ReadCommand
  BY <1>2 DEF ReadCommand, DoRead, ReadCD, Untouched, Consumed, mediaVars,
     MediumFrame
<1>3. CASE AudioCommand
  BY <1>3 DEF AudioCommand, DoPlayAudio, PlayAudioMSF, Seek, PauseResume,
     StopScan, Untouched, Consumed, mediaVars, MediumFrame
<1>4. CASE DiscCommand
  BY <1>4 DEF DiscCommand, ReadTOC, ReadTrackInformation, ReadDiscStructure,
     ReadDiscInformation, ReadHeader, ReadSubChannel, ReadCapacity,
     TestUnitReady, DescribeDisc, Untouched, Consumed, mediaVars, MediumFrame
<1>5. CASE ModeSelectCommand
  BY <1>5 DEF ModeSelectCommand, ModeSelect10, Untouched, Consumed, mediaVars,
     MediumFrame
<1>6. CASE ToolboxCommand
  BY <1>6 DEF ToolboxCommand, ListDevices, NumberOfFiles, ListFiles,
     SetNextCD, SendFilePrep, SendFile10, SendFileEnd, SendFileBlock,
     ToolboxReply, Untouched, Consumed, mediaVars, MediumFrame
<1> QED BY <1>1, <1>2, <1>3, <1>4, <1>5, <1>6

LEMMA DriveFrame == TypeOK /\ DriveCommand => MediumFrame
<1> SUFFICES ASSUME TypeOK, DriveCommand PROVE MediumFrame OBVIOUS
<1>1. UNCHANGED <<m_mediaState, m_CDReady, m_bEjected, m_bEjectOnLoad,
                  m_bPendingDiscSwap, m_pDevice, taskVars>>
  BY DEF DriveCommand, PreventAllowMediumRemoval, GetEventStatusNotification,
     Inquiry, ModeSense6, ModeSense10, ModeSense, MechanismStatus,
     GetPerformance, CommandA4, GetConfiguration, Verify, SetCDROMSpeed,
     Untouched, Consumed, mediaVars
<1>2. \/ discChanged' = discChanged
      \/ \E media, fits \in BOOLEAN :
            discChanged' = (discChanged /\ ~(media /\ fits))
  BY DEF DriveCommand, PreventAllowMediumRemoval, GetEventStatusNotification,
     Inquiry, ModeSense6, ModeSense10, ModeSense, MechanismStatus,
     GetPerformance, CommandA4, GetConfiguration, Verify, SetCDROMSpeed,
     Untouched
<1>3. discChanged' => discChanged
  BY <1>2, discChanged \in BOOLEAN DEF TypeOK, MediumTypeOK
<1> QED BY <1>1, <1>3 DEF MediumFrame

LEMMA TransferFrame ==
    OnSuspend \/ TransferInComplete \/ DataOutReceived \/ InvalidCBW => MediumFrame
BY DEF OnSuspend, TransferInComplete, DataOutReceived, InvalidCBW, mediaVars, MediumFrame

LEMMA MediumInit == Init => MediumInv
BY DEF Init, MediumInv, EjectedIsEmpty, ArmInv, EjectInv, MountInv,
     AnnounceInv, ReadyInv,
     SetDeviceSteps, EjectSteps, InsertSteps, SwapSteps

LEMMA MediumArm == TypeOK /\ MediumInv /\ ArmBootEject => MediumInv'
BY DEF TypeOK, MediumTypeOK, TaskTypeOK, MediumInv, EjectedIsEmpty, ArmInv,
   EjectInv, MountInv, AnnounceInv, ReadyInv, SetDeviceSteps, EjectSteps,
   InsertSteps, SwapSteps, ArmBootEject, NoCall

LEMMA MediumDisarm == TypeOK /\ MediumInv /\ DisarmBootEject => MediumInv'
BY DEF TypeOK, MediumTypeOK, TaskTypeOK, MediumInv, EjectedIsEmpty, ArmInv,
   EjectInv, MountInv, AnnounceInv, ReadyInv, SetDeviceSteps, EjectSteps,
   InsertSteps, SwapSteps, DisarmBootEject, NoCall

LEMMA MediumSlept == TypeOK /\ MediumInv /\ InitializeSlept => MediumInv'
BY DEF TypeOK, MediumTypeOK, TaskTypeOK, MediumInv, EjectedIsEmpty, ArmInv,
   EjectInv, MountInv, AnnounceInv, ReadyInv, SetDeviceSteps, EjectSteps,
   InsertSteps, SwapSteps, InitializeSlept, mediaVars

LEMMA MediumSetDevice == TypeOK /\ MediumInv /\ SetDevice => MediumInv'
<1> SUFFICES ASSUME TypeOK, MediumInv, SetDevice PROVE MediumInv' OBVIOUS
<1>1. EjectedIsEmpty'
  BY DEF TypeOK, MediumTypeOK, TaskTypeOK, MediumInv, EjectedIsEmpty, ArmInv,
     EjectInv, MountInv, AnnounceInv, ReadyInv, SetDeviceSteps, EjectSteps,
     InsertSteps, SwapSteps, SetDevice
<1>2. ArmInv'
  BY DEF TypeOK, MediumTypeOK, TaskTypeOK, MediumInv, EjectedIsEmpty, ArmInv,
     EjectInv, MountInv, AnnounceInv, ReadyInv, SetDeviceSteps, EjectSteps,
     InsertSteps, SwapSteps, SetDevice
<1>3. EjectInv'
  BY DEF TypeOK, MediumTypeOK, TaskTypeOK, MediumInv, EjectedIsEmpty, ArmInv,
     EjectInv, MountInv, AnnounceInv, ReadyInv, SetDeviceSteps, EjectSteps,
     InsertSteps, SwapSteps, SetDevice
<1>4. MountInv'
  BY DEF TypeOK, MediumTypeOK, TaskTypeOK, MediumInv, EjectedIsEmpty, ArmInv,
     EjectInv, MountInv, AnnounceInv, ReadyInv, SetDeviceSteps, EjectSteps,
     InsertSteps, SwapSteps, SetDevice
<1>5. AnnounceInv'
  BY DEF TypeOK, MediumTypeOK, TaskTypeOK, MediumInv, EjectedIsEmpty, ArmInv,
     EjectInv, MountInv, AnnounceInv, ReadyInv, SetDeviceSteps, EjectSteps,
     InsertSteps, SwapSteps, SetDevice
<1>6. ReadyInv'
  BY DEF TypeOK, MediumTypeOK, TaskTypeOK, MediumInv, EjectedIsEmpty, ArmInv,
     EjectInv, MountInv, AnnounceInv, ReadyInv, SetDeviceSteps, EjectSteps,
     InsertSteps, SwapSteps, SetDevice
<1> QED BY <1>1, <1>2, <1>3, <1>4, <1>5, <1>6 DEF MediumInv

LEMMA MediumEject == TypeOK /\ MediumInv /\ Eject => MediumInv'
<1> SUFFICES ASSUME TypeOK, MediumInv, Eject PROVE MediumInv' OBVIOUS
<1>1. EjectedIsEmpty'
  BY DEF TypeOK, MediumTypeOK, TaskTypeOK, MediumInv, EjectedIsEmpty, ArmInv,
     EjectInv, MountInv, AnnounceInv, ReadyInv, SetDeviceSteps, EjectSteps,
     InsertSteps, SwapSteps, Eject, NoCall
<1>2. ArmInv'
  BY DEF TypeOK, MediumTypeOK, TaskTypeOK, MediumInv, EjectedIsEmpty, ArmInv,
     EjectInv, MountInv, AnnounceInv, ReadyInv, SetDeviceSteps, EjectSteps,
     InsertSteps, SwapSteps, Eject, NoCall
<1>3. EjectInv'
  BY DEF TypeOK, MediumTypeOK, TaskTypeOK, MediumInv, EjectedIsEmpty, ArmInv,
     EjectInv, MountInv, AnnounceInv, ReadyInv, SetDeviceSteps, EjectSteps,
     InsertSteps, SwapSteps, Eject, NoCall
<1>4. MountInv'
  BY DEF TypeOK, MediumTypeOK, TaskTypeOK, MediumInv, EjectedIsEmpty, ArmInv,
     EjectInv, MountInv, AnnounceInv, ReadyInv, SetDeviceSteps, EjectSteps,
     InsertSteps, SwapSteps, Eject, NoCall
<1>5. AnnounceInv'
  BY DEF TypeOK, MediumTypeOK, TaskTypeOK, MediumInv, EjectedIsEmpty, ArmInv,
     EjectInv, MountInv, AnnounceInv, ReadyInv, SetDeviceSteps, EjectSteps,
     InsertSteps, SwapSteps, Eject, NoCall
<1>6. ReadyInv'
  BY DEF TypeOK, MediumTypeOK, TaskTypeOK, MediumInv, EjectedIsEmpty, ArmInv,
     EjectInv, MountInv, AnnounceInv, ReadyInv, SetDeviceSteps, EjectSteps,
     InsertSteps, SwapSteps, Eject, NoCall
<1> QED BY <1>1, <1>2, <1>3, <1>4, <1>5, <1>6 DEF MediumInv

LEMMA MediumInsert == TypeOK /\ MediumInv /\ Insert => MediumInv'
BY DEF TypeOK, MediumTypeOK, TaskTypeOK, MediumInv, EjectedIsEmpty, ArmInv,
   EjectInv, MountInv, AnnounceInv, ReadyInv, SetDeviceSteps, EjectSteps,
   InsertSteps, SwapSteps, Insert, NoCall

LEMMA MediumSwap == TypeOK /\ MediumInv /\ UpdateSwap => MediumInv'
<1> SUFFICES ASSUME TypeOK, MediumInv, UpdateSwap PROVE MediumInv' OBVIOUS
<1>1. EjectedIsEmpty'
  BY DEF TypeOK, MediumTypeOK, TaskTypeOK, MediumInv, EjectedIsEmpty, ArmInv,
     EjectInv, MountInv, AnnounceInv, ReadyInv, SetDeviceSteps, EjectSteps,
     InsertSteps, SwapSteps, UpdateSwap
<1>2. ArmInv'
  BY DEF TypeOK, MediumTypeOK, TaskTypeOK, MediumInv, EjectedIsEmpty, ArmInv,
     EjectInv, MountInv, AnnounceInv, ReadyInv, SetDeviceSteps, EjectSteps,
     InsertSteps, SwapSteps, UpdateSwap
<1>3. EjectInv'
  BY DEF TypeOK, MediumTypeOK, TaskTypeOK, MediumInv, EjectedIsEmpty, ArmInv,
     EjectInv, MountInv, AnnounceInv, ReadyInv, SetDeviceSteps, EjectSteps,
     InsertSteps, SwapSteps, UpdateSwap
<1>4. MountInv'
  BY DEF TypeOK, MediumTypeOK, TaskTypeOK, MediumInv, EjectedIsEmpty, ArmInv,
     EjectInv, MountInv, AnnounceInv, ReadyInv, SetDeviceSteps, EjectSteps,
     InsertSteps, SwapSteps, UpdateSwap
<1>5. AnnounceInv'
  BY DEF TypeOK, MediumTypeOK, TaskTypeOK, MediumInv, EjectedIsEmpty, ArmInv,
     EjectInv, MountInv, AnnounceInv, ReadyInv, SetDeviceSteps, EjectSteps,
     InsertSteps, SwapSteps, UpdateSwap, StillEmpty
<1>6. ReadyInv'
  BY DEF TypeOK, MediumTypeOK, TaskTypeOK, MediumInv, EjectedIsEmpty, ArmInv,
     EjectInv, MountInv, AnnounceInv, ReadyInv, SetDeviceSteps, EjectSteps,
     InsertSteps, SwapSteps, UpdateSwap
<1> QED BY <1>1, <1>2, <1>3, <1>4, <1>5, <1>6 DEF MediumInv

LEMMA MediumUpdateRead == TypeOK /\ MediumInv /\ UpdateRead => MediumInv'
BY DEF TypeOK, MediumTypeOK, TaskTypeOK, MediumInv, EjectedIsEmpty, ArmInv,
   EjectInv, MountInv, AnnounceInv, ReadyInv, SetDeviceSteps, EjectSteps,
   InsertSteps, SwapSteps, UpdateRead, mediaVars, RestSteps

LEMMA MediumReadDone == TypeOK /\ MediumInv /\ UpdateReadDone => MediumInv'
BY DEF TypeOK, MediumTypeOK, TaskTypeOK, MediumInv, EjectedIsEmpty, ArmInv,
   EjectInv, MountInv, AnnounceInv, ReadyInv, SetDeviceSteps, EjectSteps,
   InsertSteps, SwapSteps, UpdateReadDone, mediaVars

LEMMA MediumDone == TypeOK /\ MediumInv /\ UpdateDone => MediumInv'
BY DEF TypeOK, MediumTypeOK, TaskTypeOK, MediumInv, EjectedIsEmpty, ArmInv,
   EjectInv, MountInv, AnnounceInv, ReadyInv, SetDeviceSteps, EjectSteps,
   InsertSteps, SwapSteps, UpdateDone, mediaVars

LEMMA MediumLoad ==
    ASSUME NEW dev \in Discs, TypeOK, MediumInv, LoadImage(dev)
    PROVE  MediumInv'
BY DiscAssumption
DEF DiscAssumption, TypeOK, MediumTypeOK, TaskTypeOK, MediumInv,
    EjectedIsEmpty, ArmInv, EjectInv, MountInv, AnnounceInv, ReadyInv,
    SetDeviceSteps, EjectSteps, InsertSteps, SwapSteps, LoadImage, NoCall,
    mediaVars

\* Where an interrupt that moves the medium may land.
LEMMA QuietPlaces ==
    ASSUME TypeOK, QuietMedia, NEW kind \in {"Activate", "MediaCommand"},
           MayInterrupt(kind)
    PROVE  pc \in {"Idle", "Update", "Read"} \cup EjectSteps
BY DEF TypeOK, TaskTypeOK, QuietMedia, MayInterrupt, AtRest, RestSteps,
   Routine, Steps, SetDeviceSteps, EjectSteps, InsertSteps, SwapSteps,
   ReadSteps

\* A bus reset announces the disc the drive was started with.  An eject under
\* way has raised its flag first, so the reset leaves the drive alone.
LEMMA MediumActivate ==
    ASSUME QuietMedia, TypeOK, MediumInv, OnActivate
    PROVE  MediumInv'
<1>1. pc \in {"Idle", "Update", "Read"} \cup EjectSteps
  BY QuietPlaces DEF OnActivate
<1> QED
  BY <1>1 DEF TypeOK, MediumTypeOK, TaskTypeOK, MediumInv, EjectedIsEmpty,
     ArmInv, EjectInv, MountInv, AnnounceInv, ReadyInv, SetDeviceSteps,
     EjectSteps, InsertSteps, SwapSteps, OnActivate, ResetAnnounces,
     mediaVars, taskVars

\* REQUEST SENSE only turns UNIT ATTENTION into READY; START STOP UNIT ejects
\* at once, or finds the task's own eject already begun.
LEMMA MediumCommand ==
    ASSUME QuietMedia, TypeOK, MediumInv, MediaCommand
    PROVE  MediumInv'
<1>1. pc \in {"Idle", "Update", "Read"} \cup EjectSteps
  BY QuietPlaces DEF MediaCommand, Received
<1>2. taskVars' = taskVars
  BY DEF MediaCommand, Consumed
<1>3. CASE RequestSense
  BY <1>1, <1>2, <1>3 DEF TypeOK, MediumTypeOK, TaskTypeOK, MediumInv,
     EjectedIsEmpty, ArmInv, EjectInv, MountInv, AnnounceInv, ReadyInv,
     SetDeviceSteps, EjectSteps, InsertSteps, SwapSteps, RequestSense,
     AcknowledgesAttention, taskVars
<1>4. CASE \E start, loej \in BOOLEAN : StartStopUnit(start, loej)
  <2>1. CASE UNCHANGED <<mediaVars, discChanged>>
    BY <2>1, <1>2, FrameKeeps DEF MediumFrame, mediaVars
  <2>2. CASE EjectAtOnce
    BY <2>2, <1>1, <1>2 DEF TypeOK, MediumTypeOK, TaskTypeOK, MediumInv,
       EjectedIsEmpty, ArmInv, EjectInv, MountInv, AnnounceInv, ReadyInv,
       SetDeviceSteps, EjectSteps, InsertSteps, SwapSteps, EjectAtOnce,
       mediaVars, taskVars
  <2> QED BY <1>4, <2>1, <2>2 DEF StartStopUnit, Untouched
<1> QED BY <1>3, <1>4 DEF MediaCommand

LEMMA MediumStep ==
    ASSUME QuietMedia, TypeOK, MediumInv, [Next]_vars
    PROVE  MediumInv'
<1>1. CASE Interrupt
  BY <1>1, MediumActivate, MediumCommand, CommandFrame, DriveFrame,
     TransferFrame, FrameKeeps DEF Interrupt, HandleSCSICommand
<1>2. CASE UserTask
  BY <1>2, MediumArm, MediumDisarm, MediumLoad, MediumEject, MediumInsert
  DEF UserTask
<1>3. CASE InitializeSlept \/ SetDevice
  BY <1>3, MediumSlept, MediumSetDevice
<1>4. CASE Update
  BY <1>4, MediumSwap, MediumUpdateRead, MediumReadDone, MediumDone DEF Update
<1>5. CASE UNCHANGED vars
  BY <1>5, FrameKeeps DEF vars, mediaVars, taskVars, MediumFrame
<1> QED BY <1>1, <1>2, <1>3, <1>4, <1>5 DEF Next

LEMMA MediumAlways ==
    ASSUME QuietMedia
    PROVE  Spec => []MediumInv
<1>1. TypeOK /\ MediumInv /\ [Next]_vars => MediumInv'
  BY MediumStep
<1> QED BY <1>1, MediumInit, TypeCorrect, PTL DEF Spec

\* However many discs there are and however swaps, resets and commands follow
\* each other, an ejected drive is empty to its host: no capacity, no pending
\* announcement, no NewMedia event (Eject, ArmBootEject and SetDevice against
\* OnActivate and Update).
THEOREM EjectedCorrect ==
    ASSUME QuietMedia
    PROVE  Spec => []EjectedIsEmpty
<1>1. MediumInv => EjectedIsEmpty
  BY DEF MediumInv
<1> QED BY <1>1, MediumAlways, PTL

\* m_CDReady never lets a disc command through to a null device, and agrees
\* with the medium state between routines.
THEOREM ReadyCorrect ==
    ASSUME QuietMedia
    PROVE  Spec => []ReadyMeansDisc
<1>1. MediumInv => ReadyMeansDisc
  BY DEF MediumInv, ReadyInv, ReadyMeansDisc, AtRest, RestSteps
<1> QED BY <1>1, MediumAlways, PTL
-----------------------------------------------------------------------------
(* The transport: what is queued on the endpoints belongs to the phase the   *)
(* drive is in, whoever moved it there.                                      *)


\* Update gives up the processor nowhere between calling IImageDevice::Read and
\* using what it returned, but a bus reset may land there.
NoResetInRead == <<"Read", "Activate">> \notin Preempts

LEMMA TransferInit == Init => CompletionsExpected
BY DEF Init, CompletionsExpected

\* A command finds both endpoints empty and no read under way.
LEMMA ReceivedFinds ==
    ASSUME CompletionsExpected, NEW kind, Received(kind)
    PROVE  epIn \notin {"CSW", "Data"} /\ pc # "Read"
BY DEF CompletionsExpected, Received

\* Every command either sends its status, or a reply, or a sense, or waits for
\* data out, or arms the read path; and queues exactly that.
Answered ==
    \/ m_nState' = "SentCSW" /\ epIn' = "CSW"
    \/ m_nState' \in {"DataIn", "SendReqSenseReply"} /\ epIn' = "Data"
    \/ m_nState' \in {"DataOut", "DataInRead"} /\ epIn' = epIn

LEMMA CommandAnswers ==
    ASSUME HandleSCSICommand
    PROVE  /\ Answered
           /\ \E kind : Received(kind)
           /\ \E kind : Consumed(kind)
<1>1. CASE RefusedCommand
  BY <1>1 DEF RefusedCommand, Answered, sendCheckCondition, SendCSW
<1>2. CASE ReadCommand
  BY <1>2 DEF ReadCommand, DoRead, ReadCD, Answered, sendNotReady,
     sendCheckCondition, SendCSW
<1>3. CASE AudioCommand
  BY <1>3 DEF AudioCommand, DoPlayAudio, PlayAudioMSF, PlayAudio, Seek,
     PauseResume, StopScan, Answered, sendNotReady, sendCheckCondition,
     SendCSW
<1>4. CASE MediaCommand
  BY <1>4 DEF MediaCommand, RequestSense, StartStopUnit, Answered,
     sendCheckCondition, sendGoodStatus, SendCSW
<1>5. CASE DiscCommand
  BY <1>5 DEF DiscCommand, ReadTOC, ReadTrackInformation, ReadDiscStructure,
     ReadDiscInformation, ReadHeader, ReadSubChannel, ReadCapacity,
     TestUnitReady, DescribeDisc, Answered, Reply, sendNotReady,
     sendCheckCondition, sendGoodStatus, SendCSW
<1>6. CASE DriveCommand
  BY <1>6 DEF DriveCommand, PreventAllowMediumRemoval,
     GetEventStatusNotification, Inquiry, ModeSense6, ModeSense10, ModeSense,
     MechanismStatus, GetPerformance, CommandA4, GetConfiguration, Verify,
     SetCDROMSpeed, Answered, Reply, sendCheckCondition, sendGoodStatus,
     SendCSW
<1>7. CASE ModeSelectCommand
  BY <1>7 DEF ModeSelectCommand, ModeSelect10, Answered
<1>8. CASE ToolboxCommand
  BY <1>8 DEF ToolboxCommand, ListDevices, NumberOfFiles, ListFiles,
     SetNextCD, SendFilePrep, SendFile10, SendFileEnd, SendFileBlock,
     ToolboxReply, BeginSendFileDataOut, Answered, Reply, sendCheckCondition,
     sendGoodStatus, SendCSW
<1> QED
  BY <1>1, <1>2, <1>3, <1>4, <1>5, <1>6, <1>7, <1>8 DEF HandleSCSICommand

LEMMA TransferCommand ==
    ASSUME CompletionsExpected, HandleSCSICommand
    PROVE  CompletionsExpected'
<1>1. PICK kind : Received(kind)
  BY CommandAnswers
<1>2. PICK sent : Consumed(sent)
  BY CommandAnswers
<1>3. epIn \notin {"CSW", "Data"} /\ pc # "Read"
  BY <1>1, ReceivedFinds
<1>4. epOut' = (IF m_nState' = "DataOut" THEN "Data" ELSE "None") /\ pc' = pc
  BY <1>2 DEF Consumed, taskVars
<1> QED BY <1>3, <1>4, CommandAnswers DEF Answered, CompletionsExpected

\* OnActivate and OnSuspend abandon everything that is queued; only a read whose
\* batch is being fetched would be lost, hence the hypothesis.
LEMMA TransferActivate ==
    ASSUME NoResetInRead, CompletionsExpected, OnActivate \/ OnSuspend
    PROVE  CompletionsExpected'
<1>1. pc # "Read"
  BY DEF NoResetInRead, OnActivate, OnSuspend, MayInterrupt, AtRest, RestSteps,
     Routine, SetDeviceSteps, EjectSteps, InsertSteps, SwapSteps, ReadSteps
<1> QED BY <1>1 DEF OnActivate, OnSuspend, CompletionsExpected, taskVars

LEMMA TransferTransfer ==
    ASSUME CompletionsExpected,
           TransferInComplete \/ DataOutReceived \/ InvalidCBW
    PROVE  CompletionsExpected'
<1>1. CASE TransferInComplete
  BY <1>1 DEF TransferInComplete, StatusSent, DataInSent, SenseSent, SendCSW,
     sendCheckCondition, CompletionsExpected, taskVars
<1>2. CASE DataOutReceived
  BY <1>2 DEF DataOutReceived, ProcessSendFileOut, SendCSW,
     sendCheckCondition, CompletionsExpected, taskVars
<1>3. CASE InvalidCBW
  BY <1>3 DEF InvalidCBW, CompletionsExpected, taskVars
<1> QED BY <1>1, <1>2, <1>3

\* The tasks swap discs, but leave the transfer as it is.
LEMMA TaskLeavesRead ==
    ASSUME \/ UserTask \/ InitializeSlept \/ SetDevice
           \/ UpdateSwap \/ UpdateDone
    PROVE  UNCHANGED <<botVars, readVars, xfer>> /\ pc # "Read" /\ pc' # "Read"
<1>1. CASE UserTask
  BY <1>1 DEF UserTask, ArmBootEject, DisarmBootEject, LoadImage, Eject,
     Insert, NoCall, TransportUnchanged, EjectSteps, InsertSteps
<1>2. CASE InitializeSlept \/ SetDevice
  BY <1>2 DEF InitializeSlept, SetDevice, TransportUnchanged
<1>3. CASE UpdateSwap \/ UpdateDone
  BY <1>3 DEF UpdateSwap, UpdateDone, TransportUnchanged
<1> QED BY <1>1, <1>2, <1>3

LEMMA TransferTask ==
    ASSUME CompletionsExpected,
           \/ UserTask \/ InitializeSlept \/ SetDevice
           \/ UpdateSwap \/ UpdateDone
    PROVE  CompletionsExpected'
BY TaskLeavesRead DEF CompletionsExpected, botVars

LEMMA TransferUpdate ==
    ASSUME CompletionsExpected, UpdateRead \/ UpdateReadDone
    PROVE  CompletionsExpected'
<1>1. CASE UpdateRead
  BY <1>1 DEF UpdateRead, sendCheckCondition, SendCSW, CompletionsExpected
<1>2. CASE UpdateReadDone
  BY <1>2 DEF UpdateReadDone, sendCheckCondition, SendCSW, Reply,
     CompletionsExpected
<1> QED BY <1>1, <1>2

\* The asserts of OnTransferComplete cannot fire: a completion arrives only in
\* the phase that queued the transfer, over any sequence of commands, batches,
\* swaps and resets, as long as no reset lands inside a read of the image.
THEOREM CompletionsCorrect ==
    ASSUME NoResetInRead
    PROVE  Spec => []CompletionsExpected
<1>1. CompletionsExpected /\ [Next]_vars => CompletionsExpected'
  <2> SUFFICES ASSUME CompletionsExpected, [Next]_vars
               PROVE  CompletionsExpected' OBVIOUS
  <2>1. CASE Interrupt
    BY <2>1, TransferActivate, TransferTransfer, TransferCommand DEF Interrupt
  <2>2. CASE UserTask \/ InitializeSlept \/ SetDevice
    BY <2>2, TransferTask
  <2>3. CASE Update
    BY <2>3, TransferTask, TransferUpdate DEF Update
  <2>4. CASE UNCHANGED vars
    BY <2>4 DEF vars, botVars, taskVars, CompletionsExpected
  <2> QED BY <2>1, <2>2, <2>3, <2>4 DEF Next
<1> QED BY <1>1, TransferInit, PTL DEF Spec

-----------------------------------------------------------------------------
(* A failure has a sense *)

\* FailureHasSense, from the moment the status is known, which for a reply or a
\* batch is long before it is sent.
SenseInv == m_CSW = "FAIL" /\ bmCSWStatus = "OK" => m_SenseParams # "None"

\* A handler fails with a sense, or with the drive-wide status; and only REQUEST
\* SENSE, which succeeds, fetches the sense or clears that status.
LEMMA SenseCommand ==
    ASSUME SenseInv, HandleSCSICommand
    PROVE  SenseInv'
<1>1. CASE RefusedCommand
  BY <1>1 DEF RefusedCommand, SenseInv, sendCheckCondition, setSenseData, SendCSW
<1>2. CASE ReadCommand
  BY <1>2 DEF ReadCommand, DoRead, ReadCD, SenseInv, sendNotReady, NotReadySense,
     sendCheckCondition, setSenseData, SendCSW
<1>3. CASE AudioCommand
  BY <1>3 DEF AudioCommand, DoPlayAudio, PlayAudioMSF, PlayAudio, Seek,
     PauseResume, StopScan, SenseInv, sendNotReady, NotReadySense,
     sendCheckCondition, setSenseData, SendCSW, senseVars
<1>4. CASE MediaCommand
  BY <1>4 DEF MediaCommand, RequestSense, StartStopUnit, EjectAtOnce, SenseInv,
     sendCheckCondition, setSenseData, sendGoodStatus, SendCSW, senseVars
<1>5. CASE DiscCommand
  BY <1>5 DEF DiscCommand, ReadTOC, ReadTrackInformation, ReadDiscStructure,
     ReadDiscInformation, ReadHeader, ReadSubChannel, ReadCapacity,
     TestUnitReady, DescribeDisc, SenseInv, Reply, sendNotReady, NotReadySense,
     sendCheckCondition, setSenseData, sendGoodStatus, SendCSW, senseVars
<1>6. CASE DriveCommand
  BY <1>6 DEF DriveCommand, PreventAllowMediumRemoval,
     GetEventStatusNotification, Inquiry, ModeSense6, ModeSense10, ModeSense,
     MechanismStatus, GetPerformance, CommandA4, GetConfiguration, Verify,
     SetCDROMSpeed, SenseInv, Reply, sendCheckCondition, setSenseData,
     sendGoodStatus, SendCSW, senseVars
<1>7. CASE ModeSelectCommand
  BY <1>7 DEF ModeSelectCommand, ModeSelect10, SenseInv, senseVars
<1>8. CASE ToolboxCommand
  BY <1>8 DEF ToolboxCommand, ListDevices, NumberOfFiles, ListFiles,
     SetNextCD, SendFilePrep, SendFile10, SendFileEnd, SendFileBlock,
     ToolboxReply, BeginSendFileDataOut, SenseInv, Reply, sendCheckCondition,
     setSenseData, sendGoodStatus, SendCSW, senseVars
<1> QED
  BY <1>1, <1>2, <1>3, <1>4, <1>5, <1>6, <1>7, <1>8 DEF HandleSCSICommand

\* The rest of the interrupts and the tasks set a sense or leave all three alone.
LEMMA SenseInterrupt ==
    ASSUME SenseInv,
           OnActivate \/ OnSuspend \/ TransferInComplete \/ DataOutReceived \/ InvalidCBW
    PROVE  SenseInv'
<1>1. CASE OnActivate \/ OnSuspend
  BY <1>1 DEF OnActivate, OnSuspend, SenseInv, senseVars
<1>2. CASE TransferInComplete
  BY <1>2 DEF TransferInComplete, StatusSent, DataInSent, SenseSent, SendCSW,
     sendCheckCondition, setSenseData, SenseInv
<1>3. CASE DataOutReceived
  BY <1>3 DEF DataOutReceived, ProcessSendFileOut, SendCSW, sendCheckCondition,
     setSenseData, SenseInv
<1>4. CASE InvalidCBW
  BY <1>4 DEF InvalidCBW, SenseInv, senseVars
<1> QED BY <1>1, <1>2, <1>3, <1>4

LEMMA SenseTask ==
    ASSUME SenseInv,
           UserTask \/ InitializeSlept \/ SetDevice \/ Update
    PROVE  SenseInv'
<1>1. CASE UserTask
  BY <1>1 DEF UserTask, ArmBootEject, DisarmBootEject, LoadImage, Eject, Insert,
     NoCall, TransportUnchanged, botVars, senseVars, SenseInv
<1>2. CASE InitializeSlept \/ SetDevice
  BY <1>2 DEF InitializeSlept, SetDevice, TransportUnchanged, botVars, senseVars,
     SenseInv
<1>3. CASE UpdateSwap \/ UpdateDone
  BY <1>3 DEF UpdateSwap, UpdateDone, TransportUnchanged, botVars, senseVars, SenseInv
<1>4. CASE UpdateRead \/ UpdateReadDone
  BY <1>4 DEF UpdateRead, UpdateReadDone, sendCheckCondition, setSenseData, SendCSW,
     Reply, SenseInv
<1> QED BY <1>1, <1>2, <1>3, <1>4 DEF Update

\* When a command fails, and not by the drive-wide status, REQUEST SENSE has
\* something to report: FailureHasSense, of sendCheckCondition and every handler
\* that sets a status, wherever resets, swaps and completions land.
THEOREM SenseCorrect == Spec => []FailureHasSense
<1>1. Init => SenseInv
  BY DEF Init, SenseInv
<1>2. SenseInv /\ [Next]_vars => SenseInv'
  <2> SUFFICES ASSUME SenseInv, [Next]_vars PROVE SenseInv' OBVIOUS
  <2>1. CASE Interrupt
    BY <2>1, SenseCommand, SenseInterrupt DEF Interrupt
  <2>2. CASE UserTask \/ InitializeSlept \/ SetDevice \/ Update
    BY <2>2, SenseTask
  <2>3. CASE UNCHANGED vars
    BY <2>3 DEF vars, botVars, senseVars, SenseInv
  <2> QED BY <2>1, <2>2, <2>3 DEF Next
<1>3. SenseInv => FailureHasSense
  BY DEF SenseInv, FailureHasSense
<1> QED BY <1>1, <1>2, <1>3, PTL DEF Spec

-----------------------------------------------------------------------------
(* The read path stays on the disc *)

\* The host asks for no range that wraps around the address space.  (DoRead and
\* Update add address and count in 32 bits before they compare: a range that
\* wraps is not truncated, and runs past the end.)
NoWrap == \A lba \in Addresses, n \in Counts : lba + n < AddressSpace

\* What is still owed starts at m_nblock_address, after the batch being read.
InFlight == IF pc = "Read" THEN batch ELSE 0

BatchInv ==
    /\ m_nblock_address + m_nnumber_blocks + InFlight < AddressSpace
    /\ m_nState = "DataInRead" /\ pc # "Read" => m_nnumber_blocks > 0
    /\ BatchInsideDisc

ReadInv == TypeOK /\ CompletionsExpected /\ BatchInv

\* Without a wrap, a truncated range ends at the lead-out at the latest.
LEMMA TruncatedInside ==
    ASSUME NEW lba \in Nat, NEW n \in Nat,
           lba + n < AddressSpace, lba < LeadoutLBA
    PROVE  /\ lba + Truncated(lba, n) <= LeadoutLBA
           /\ Truncated(lba, n) <= n
<1>1. AddressSpace \in Nat \ {0} /\ LeadoutLBA \in Nat
  BY LeadoutNat, TransferAssumption DEF TransferAssumption
<1>2. (lba + n) % AddressSpace = lba + n
  BY <1>1
<1> QED BY <1>1, <1>2 DEF Truncated

LEMMA SumBelow ==
    ASSUME NEW a \in Nat, NEW n \in Nat, NEW m \in Nat, NEW bound \in Nat,
           a + n < bound, m <= n
    PROVE  a + m < bound
OBVIOUS

LEMMA BatchInit == Init => BatchInv
BY TransferAssumption
DEF TransferAssumption, Init, BatchInv, BatchInsideDisc, InFlight

\* What has to be shown of a step that does not end in a batch.
LEMMA BatchAtRest ==
    ASSUME m_nblock_address' \in Nat, m_nnumber_blocks' \in Nat, pc' # "Read",
           m_nblock_address' + m_nnumber_blocks' < AddressSpace,
           m_nState' = "DataInRead" => m_nnumber_blocks' > 0
    PROVE  BatchInv'
<1>1. InFlight' = 0
  BY DEF InFlight
<1>2. m_nblock_address' + m_nnumber_blocks' + 0 < AddressSpace
  OBVIOUS
<1>3. (m_nblock_address + m_nnumber_blocks + InFlight)' < AddressSpace
  BY <1>1, <1>2
<1> QED BY <1>3 DEF BatchInv, BatchInsideDisc

\* No handler changes the count of a read under way: it moves the address and
\* the count together, ends the data phase, or leaves both.
LEMMA CommandCursor ==
    ASSUME TypeOK, HandleSCSICommand
    PROVE  \/ UNCHANGED <<m_nblock_address, m_nnumber_blocks>>
           \/ m_nblock_address' = m_nblock_address /\ m_nnumber_blocks' = 0
           \/ m_nblock_address' \in Addresses /\ m_nnumber_blocks' = 0
           \/ \E lba \in Addresses, n \in Counts :
                 /\ m_nblock_address' = lba
                 /\ \/ m_nnumber_blocks' = n
                    \/ (lba < LeadoutLBA /\ m_nnumber_blocks' = Truncated(lba, n))
<1>1. CASE RefusedCommand
  BY <1>1 DEF RefusedCommand, readVars
<1>2. CASE ReadCommand
  <2>1. PICK lba \in Addresses, n \in Counts :
           DoRead(lba, n) \/ \E sub, valid \in BOOLEAN : ReadCD(lba, n, sub, valid)
    BY <1>2 DEF ReadCommand
  <2>2. LeadoutLBA \in Nat /\ lba \in Nat
    BY LeadoutNat, AddressesNat
  <2>3. CASE DoRead(lba, n)
    BY <2>2, <2>3 DEF DoRead, readVars
  <2>4. CASE \E sub, valid \in BOOLEAN : ReadCD(lba, n, sub, valid)
    BY <2>4 DEF ReadCD, readVars
  <2> QED BY <2>1, <2>3, <2>4
<1>3. CASE AudioCommand
  BY <1>3 DEF AudioCommand, DoPlayAudio, PlayAudioMSF, Seek, PauseResume,
     StopScan, ClearCount, readVars
<1>4. CASE MediaCommand
  BY <1>4 DEF MediaCommand, RequestSense, StartStopUnit, readVars
<1>5. CASE DiscCommand
  BY <1>5 DEF DiscCommand, ReadTOC, ReadTrackInformation, ReadDiscStructure,
     ReadDiscInformation, ReadHeader, ReadSubChannel, ReadCapacity,
     TestUnitReady, DescribeDisc, ClearCount, readVars
<1>6. CASE DriveCommand
  BY <1>6 DEF DriveCommand, PreventAllowMediumRemoval,
     GetEventStatusNotification, Inquiry, ModeSense6, ModeSense10, ModeSense,
     MechanismStatus, GetPerformance, CommandA4, GetConfiguration, Verify,
     SetCDROMSpeed, ClearCount, readVars
<1>7. CASE ModeSelectCommand
  BY <1>7 DEF ModeSelectCommand, ModeSelect10, readVars
<1>8. CASE ToolboxCommand
  BY <1>8 DEF ToolboxCommand, ListDevices, NumberOfFiles, ListFiles,
     SetNextCD, SendFilePrep, SendFile10, SendFileEnd, SendFileBlock,
     ToolboxReply, ClearCount, readVars
<1> QED
  BY <1>1, <1>2, <1>3, <1>4, <1>5, <1>6, <1>7, <1>8 DEF HandleSCSICommand

\* Only READ and READ CD arm the read path, and only with something to read.
LEMMA CommandArms ==
    ASSUME TypeOK, HandleSCSICommand, m_nState' = "DataInRead"
    PROVE  m_nnumber_blocks' > 0
<1>1. ReadCommand
  BY DEF HandleSCSICommand, RefusedCommand, AudioCommand, DoPlayAudio,
     PlayAudioMSF, PlayAudio, Seek, PauseResume, StopScan, MediaCommand,
     RequestSense, StartStopUnit, DiscCommand, ReadTOC, ReadTrackInformation,
     ReadDiscStructure, ReadDiscInformation, ReadHeader, ReadSubChannel,
     ReadCapacity, TestUnitReady, DescribeDisc, DriveCommand,
     PreventAllowMediumRemoval, GetEventStatusNotification, Inquiry,
     ModeSense6, ModeSense10, ModeSense, MechanismStatus, GetPerformance,
     CommandA4, GetConfiguration, Verify, SetCDROMSpeed, ModeSelectCommand,
     ModeSelect10, ToolboxCommand, ListDevices, NumberOfFiles, ListFiles,
     SetNextCD, SendFilePrep, SendFile10, SendFileEnd, SendFileBlock,
     ToolboxReply, BeginSendFileDataOut, Reply, sendNotReady,
     sendCheckCondition, sendGoodStatus, SendCSW
<1>2. PICK lba \in Addresses, n \in Counts :
         DoRead(lba, n) \/ \E sub, valid \in BOOLEAN : ReadCD(lba, n, sub, valid)
  BY <1>1 DEF ReadCommand
<1>3. lba \in Nat /\ n \in Nat /\ LeadoutLBA \in Nat
  BY AddressesNat, LeadoutNat
<1>4. CASE DoRead(lba, n)
  <2>1. lba < LeadoutLBA /\ m_nnumber_blocks' = Truncated(lba, n)
    BY <1>3, <1>4 DEF DoRead, sendNotReady, sendCheckCondition, SendCSW
  <2>2. Truncated(lba, n) # 0
    BY <1>3, <1>4, <2>1 DEF DoRead, sendNotReady, sendCheckCondition, SendCSW
  <2>3. Truncated(lba, n) \in Nat
    BY <2>1, <1>3, TruncatedNat
  <2> QED BY <2>1, <2>2, <2>3
<1>5. CASE \E sub, valid \in BOOLEAN : ReadCD(lba, n, sub, valid)
  BY <1>3, <1>5 DEF ReadCD, sendNotReady, sendCheckCondition, SendCSW
<1> QED BY <1>2, <1>4, <1>5

LEMMA BatchCommand ==
    ASSUME NoWrap, ReadInv, HandleSCSICommand
    PROVE  BatchInv'
<1>1. pc # "Read" /\ pc' = pc
  BY CommandAnswers, ReceivedFinds DEF ReadInv, Consumed, taskVars
<1>2. m_nblock_address \in Nat /\ m_nnumber_blocks \in Nat /\ AddressSpace \in Nat
  BY TransferAssumption DEF TransferAssumption, ReadInv, TypeOK, ReadTypeOK
<1>3. m_nblock_address + m_nnumber_blocks < AddressSpace
  BY <1>1, <1>2 DEF ReadInv, BatchInv, InFlight
<1>4. m_nblock_address' + m_nnumber_blocks' < AddressSpace
  <2>1. ASSUME NEW lba \in Addresses, NEW n \in Counts, lba < LeadoutLBA
        PROVE  lba + Truncated(lba, n) < AddressSpace
    <3>1. lba \in Nat /\ n \in Nat /\ lba + n < AddressSpace
      BY AddressesNat DEF NoWrap
    <3>2. Truncated(lba, n) \in Nat /\ Truncated(lba, n) <= n
      BY <2>1, <3>1, TruncatedNat, TruncatedInside
    <3> QED BY <3>1, <3>2, <1>2
  <2>2. \A lba \in Addresses : lba \in Nat /\ lba < AddressSpace
    BY TransferAssumption DEF TransferAssumption
  <2>3. \A lba \in Addresses, n \in Counts : lba + n < AddressSpace
    BY DEF NoWrap
  <2> QED BY <1>2, <1>3, <2>1, <2>2, <2>3, CommandCursor DEF ReadInv
<1>5. m_nblock_address' \in Nat /\ m_nnumber_blocks' \in Nat
  BY TypeRead, TypeRefused, TypeAudio, TypeMedia, TypeDisc, TypeDrive,
     TypeModeSelect, TypeToolbox
  DEF ReadInv, HandleSCSICommand, TypeOK, ReadTypeOK
<1>6. m_nState' = "DataInRead" => m_nnumber_blocks' > 0
  BY CommandArms DEF ReadInv
<1> QED BY <1>1, <1>4, <1>5, <1>6, BatchAtRest

LEMMA BatchInterrupt ==
    ASSUME NoResetInRead, ReadInv,
           \/ OnActivate \/ OnSuspend
           \/ TransferInComplete \/ DataOutReceived \/ InvalidCBW
    PROVE  BatchInv'
<1>1. UNCHANGED <<readVars, taskVars, m_pDevice>>
  BY DEF OnActivate, OnSuspend, TransferInComplete, DataOutReceived, InvalidCBW,
     mediaVars
<1>2. LeadoutLBA' = LeadoutLBA
  BY <1>1 DEF LeadoutLBA
<1>3. m_nState' = "DataInRead" /\ pc # "Read" => m_nnumber_blocks > 0
  BY DEF OnActivate, OnSuspend, TransferInComplete, StatusSent, DataInSent, SenseSent,
     DataOutReceived, InvalidCBW, ProcessSendFileOut, SendCSW,
     sendCheckCondition, ReadInv, BatchInv, TypeOK, ReadTypeOK
<1> QED
  BY <1>1, <1>2, <1>3 DEF ReadInv, BatchInv, InFlight, BatchInsideDisc,
     readVars, taskVars

LEMMA BatchTask ==
    ASSUME ReadInv,
           \/ UserTask \/ InitializeSlept \/ SetDevice
           \/ UpdateSwap \/ UpdateDone
    PROVE  BatchInv'
BY TaskLeavesRead
DEF ReadInv, BatchInv, InFlight, BatchInsideDisc, botVars, readVars

LEMMA BatchUpdateRead ==
    ASSUME ReadInv, UpdateRead
    PROVE  BatchInv'
<1> DEFINE n == Truncated(m_nblock_address, m_nnumber_blocks)
<1>0. /\ m_nblock_address \in Nat /\ m_nnumber_blocks \in Nat
      /\ AddressSpace \in Nat /\ LeadoutLBA \in Nat
  BY TransferAssumption, LeadoutNat
  DEF TransferAssumption, ReadInv, TypeOK, ReadTypeOK
<1>1. pc # "Read" /\ m_nState = "DataInRead" /\ m_nblock_address' = m_nblock_address
  BY DEF UpdateRead, RestSteps
<1>2. /\ m_nblock_address + m_nnumber_blocks < AddressSpace
      /\ m_nnumber_blocks > 0
  BY <1>0, <1>1 DEF ReadInv, BatchInv, InFlight
<1>3. LeadoutLBA' = LeadoutLBA
  BY DEF UpdateRead, mediaVars, LeadoutLBA
<1>4. CASE pc' = "Read"
  <2>1. m_nblock_address < LeadoutLBA /\ batch' = BatchSize(n)
        /\ m_nnumber_blocks' = OwedAfter(n)
    BY <1>4 DEF UpdateRead, RestSteps
  <2>2. n \in Nat /\ n > 0
    BY <1>0, <1>2, <2>1, TruncatedNat
  <2>3. n <= m_nnumber_blocks /\ m_nblock_address + n <= LeadoutLBA
    BY <1>0, <1>2, <2>1, TruncatedInside
  <2> HIDE DEF n
  <2>4. /\ BatchSize(n) \in 0..MaxBlocks /\ OwedAfter(n) \in Nat
        /\ BatchSize(n) > 0 /\ BatchSize(n) + OwedAfter(n) <= n
    BY <2>2, BatchNat
  <2>5. MaxBlocks \in Nat
    BY BufferFitsNat
  <2> QED
    BY <1>0, <1>1, <1>2, <1>3, <1>4, <2>1, <2>2, <2>3, <2>4, <2>5
    DEF BatchInv, InFlight, BatchInsideDisc
<1>5. CASE pc' # "Read"
  <2>1. m_nState' # "DataInRead"
    BY <1>5 DEF UpdateRead, sendCheckCondition, SendCSW
  <2>2. m_nnumber_blocks' \in Nat /\ m_nnumber_blocks' <= m_nnumber_blocks
    BY <1>0, <1>2, <1>5, TruncatedNat, TruncatedInside DEF UpdateRead
  <2>3. m_nblock_address' + m_nnumber_blocks' < AddressSpace
    BY <1>0, <1>1, <1>2, <2>2, SumBelow
  <2> QED BY <1>0, <1>1, <1>5, <2>1, <2>2, <2>3, BatchAtRest
<1> QED BY <1>4, <1>5

LEMMA BatchReadDone ==
    ASSUME ReadInv, UpdateReadDone
    PROVE  BatchInv'
<1>1. pc = "Read" /\ pc' = "Idle" /\ m_nState' # "DataInRead"
  BY DEF UpdateReadDone, sendCheckCondition, SendCSW, Reply
<1>2. /\ m_nblock_address \in Nat /\ m_nnumber_blocks \in Nat
      /\ AddressSpace \in Nat /\ batch \in Nat
  BY TransferAssumption, BufferFitsNat
  DEF TransferAssumption, ReadInv, TypeOK, ReadTypeOK
<1>3. m_nblock_address + m_nnumber_blocks + batch < AddressSpace
  BY <1>1 DEF ReadInv, BatchInv, InFlight
<1>4. /\ m_nblock_address' \in {m_nblock_address, m_nblock_address + batch}
      /\ m_nnumber_blocks' = m_nnumber_blocks
  BY DEF UpdateReadDone
<1>5. /\ m_nblock_address + m_nnumber_blocks < AddressSpace
      /\ (m_nblock_address + batch) + m_nnumber_blocks < AddressSpace
  BY <1>2, <1>3
<1>6. /\ m_nblock_address' \in Nat /\ m_nnumber_blocks' \in Nat
      /\ m_nblock_address' + m_nnumber_blocks' < AddressSpace
  <2>1. CASE m_nblock_address' = m_nblock_address
    BY <2>1, <1>2, <1>4, <1>5
  <2>2. CASE m_nblock_address' = m_nblock_address + batch
    BY <2>2, <1>2, <1>4, <1>5
  <2> QED BY <1>4, <2>1, <2>2
<1> QED BY <1>1, <1>6, BatchAtRest

\* Update never asks the image for a sector past the lead-out of the mounted
\* disc, nor for more than the staging buffer holds: for any disc, any range
\* that does not wrap, over any number of batches, also when a stale count or a
\* swapped disc sent it there.
THEOREM BatchCorrect ==
    ASSUME NoResetInRead, NoWrap
    PROVE  Spec => []BatchInsideDisc
<1>1. TypeOK /\ CompletionsExpected /\ BatchInv /\ [Next]_vars => BatchInv'
  <2> SUFFICES ASSUME ReadInv, [Next]_vars PROVE BatchInv' BY DEF ReadInv
  <2>1. CASE Interrupt
    BY <2>1, BatchInterrupt, BatchCommand DEF Interrupt
  <2>2. CASE UserTask \/ InitializeSlept \/ SetDevice
    BY <2>2, BatchTask
  <2>3. CASE Update
    BY <2>3, BatchTask, BatchUpdateRead, BatchReadDone DEF Update
  <2>4. CASE UNCHANGED vars
    BY <2>4 DEF vars, mediaVars, botVars, readVars, taskVars, ReadInv,
       BatchInv, InFlight, BatchInsideDisc, LeadoutLBA
  <2> QED BY <2>1, <2>2, <2>3, <2>4 DEF Next
<1>2. BatchInv => BatchInsideDisc
  BY DEF BatchInv
<1> QED
  BY <1>1, <1>2, BatchInit, TypeCorrect, CompletionsCorrect, PTL DEF Spec

-----------------------------------------------------------------------------
(* A read that ends GOOD is whole *)

\* What a range is cut down to on a given disc, and when it is not cut.
TruncatedOn(disc, lba, n) ==
    IF (lba + n) % AddressSpace > Leadout[disc] THEN Leadout[disc] - lba ELSE n
FitsOn(disc, lba, n) == (lba + n) % AddressSpace <= Leadout[disc]

\* As long as a read was served from the disc it was accepted for, what was
\* delivered, what is in flight and what is owed make up what the host asked
\* for.  DoRead truncates before the first batch and ReadCD does not, so before
\* a batch what is owed is what Update will truncate it to; behind the first
\* batch it needs no truncating any more.
WholeInv ==
    xfer.disc # NoDisc /\ ~subchannel_selection =>
        /\ m_nState = "DataInRead" /\ pc # "Read" /\ m_nblock_address < Leadout[xfer.disc] =>
              xfer.got + TruncatedOn(xfer.disc, m_nblock_address, m_nnumber_blocks) = xfer.want
        /\ pc = "Read" /\ xfer.disc = m_pDevice =>
              /\ xfer.got + batch + m_nnumber_blocks = xfer.want
              /\ FitsOn(xfer.disc, m_nblock_address + batch, m_nnumber_blocks)
        /\ m_nState = "DataIn" =>
              /\ xfer.got + m_nnumber_blocks = xfer.want
              /\ FitsOn(xfer.disc, m_nblock_address, m_nnumber_blocks)

WholeReadInv == TypeOK /\ CompletionsExpected /\ WholeInv

\* Truncating once is enough: the range then ends at the lead-out, or fits.
LEMMA TruncatedOnce ==
    ASSUME NEW disc \in Discs, NEW lba \in Nat, NEW n \in Nat, lba < Leadout[disc]
    PROVE  /\ TruncatedOn(disc, lba, n) \in Nat
           /\ FitsOn(disc, lba, TruncatedOn(disc, lba, n))
<1>1. /\ AddressSpace \in Nat \ {0} /\ Leadout[disc] \in Nat
      /\ Leadout[disc] < AddressSpace
  BY DiscAssumption, TransferAssumption DEF DiscAssumption, TransferAssumption
<1>2. (lba + n) % AddressSpace \in Nat
  BY <1>1
<1>3. CASE (lba + n) % AddressSpace > Leadout[disc]
  <2>1. TruncatedOn(disc, lba, n) = Leadout[disc] - lba
    BY <1>3 DEF TruncatedOn
  <2>2. lba + (Leadout[disc] - lba) = Leadout[disc] /\ Leadout[disc] - lba \in Nat
    BY <1>1
  <2>3. Leadout[disc] % AddressSpace = Leadout[disc]
    BY <1>1
  <2> QED BY <1>1, <2>1, <2>2, <2>3 DEF FitsOn
<1>4. CASE ~((lba + n) % AddressSpace > Leadout[disc])
  <2>1. TruncatedOn(disc, lba, n) = n
    BY <1>4 DEF TruncatedOn
  <2> QED BY <1>1, <1>2, <1>4, <2>1 DEF FitsOn
<1> QED BY <1>3, <1>4

LEMMA FitsUncut ==
    ASSUME NEW disc \in Discs, NEW lba \in Nat, NEW n \in Nat, FitsOn(disc, lba, n)
    PROVE  TruncatedOn(disc, lba, n) = n
<1>1. (lba + n) % AddressSpace \in Nat /\ Leadout[disc] \in Nat
  BY DiscAssumption, TransferAssumption DEF DiscAssumption, TransferAssumption
<1> QED BY <1>1 DEF TruncatedOn, FitsOn

\* A command starts no read, or one that owes all of it.
LEMMA WholeCommand ==
    ASSUME WholeReadInv, HandleSCSICommand
    PROVE  WholeInv'
<1>1. pc # "Read" /\ pc' = pc
  BY CommandAnswers, ReceivedFinds DEF WholeReadInv, Consumed, taskVars
<1>2. CASE xfer' = NoXfer
  BY <1>2 DEF NoXfer, WholeInv
<1>3. CASE xfer' # NoXfer
  <2>1. PICK lba \in Addresses, n \in Counts :
           DoRead(lba, n) \/ \E sub, valid \in BOOLEAN : ReadCD(lba, n, sub, valid)
    BY <1>3 DEF HandleSCSICommand, ReadCommand, RefusedCommand, AudioCommand,
       MediaCommand, DiscCommand, DriveCommand, ModeSelectCommand, ToolboxCommand
  <2>2. lba \in Nat /\ n \in Nat /\ LeadoutLBA \in Nat
    BY AddressesNat, LeadoutNat
  <2>3. /\ StartXfer(lba, n) /\ m_nState' = "DataInRead" /\ m_nblock_address' = lba
        /\ m_nnumber_blocks' = n
             \/ (lba < LeadoutLBA /\ m_nnumber_blocks' = Truncated(lba, n))
    <3>1. CASE DoRead(lba, n)
      BY <1>3, <2>2, <3>1 DEF DoRead, NoneStarted
    <3>2. CASE \E sub, valid \in BOOLEAN : ReadCD(lba, n, sub, valid)
      BY <1>3, <3>2 DEF ReadCD, NoneStarted
    <3> QED BY <2>1, <3>1, <3>2
  <2>4. SUFFICES ASSUME xfer'.disc # NoDisc, lba < Leadout[xfer'.disc]
                 PROVE  /\ TruncatedOn(xfer'.disc, lba, m_nnumber_blocks') = xfer'.want
                        /\ xfer'.want \in Nat
    BY <1>1, <2>2, <2>3 DEF WholeInv, StartXfer, TruncatedOn
  <2>5. xfer'.disc = m_pDevice /\ m_pDevice \in Discs /\ LeadoutLBA = Leadout[m_pDevice]
    BY <2>3, <2>4 DEF StartXfer, WholeReadInv, TypeOK, MediumTypeOK, LeadoutLBA
  <2>6. /\ Truncated(lba, n) = TruncatedOn(m_pDevice, lba, n)
        /\ xfer'.want = TruncatedOn(m_pDevice, lba, n)
    BY <2>3, <2>4, <2>5 DEF StartXfer, Truncated, TruncatedOn
  <2>7. /\ TruncatedOn(m_pDevice, lba, TruncatedOn(m_pDevice, lba, n))
             = TruncatedOn(m_pDevice, lba, n)
        /\ TruncatedOn(m_pDevice, lba, n) \in Nat
    BY <2>2, <2>4, <2>5, TruncatedOnce, FitsUncut
  <2> QED BY <2>3, <2>5, <2>6, <2>7
<1> QED BY <1>2, <1>3

LEMMA WholeInterrupt ==
    ASSUME WholeReadInv,
           OnActivate \/ OnSuspend \/ TransferInComplete \/ DataOutReceived \/ InvalidCBW
    PROVE  WholeInv'
<1>1. CASE OnActivate \/ OnSuspend
  BY <1>1 DEF OnActivate, OnSuspend, NoXfer, WholeInv
<1>2. CASE TransferInComplete
  <2>1. pc # "Read" /\ pc' = pc /\ UNCHANGED <<readVars, xfer>>
    BY <1>2 DEF TransferInComplete, StatusSent, DataInSent, SenseSent,
       WholeReadInv, CompletionsExpected, taskVars
  <2>2. m_nState' # "DataIn"
        /\ (m_nState' = "DataInRead" => m_nState = "DataIn")
    BY <1>2 DEF TransferInComplete, StatusSent, DataInSent, SenseSent, SendCSW,
       sendCheckCondition
  <2>3. ASSUME xfer.disc # NoDisc, FitsOn(xfer.disc, m_nblock_address, m_nnumber_blocks)
        PROVE  TruncatedOn(xfer.disc, m_nblock_address, m_nnumber_blocks) = m_nnumber_blocks
    BY <2>3, FitsUncut DEF WholeReadInv, TypeOK, ReadTypeOK
  <2> QED BY <2>1, <2>2, <2>3 DEF WholeReadInv, WholeInv, readVars, TruncatedOn
<1>3. CASE DataOutReceived
  BY <1>3 DEF DataOutReceived, ProcessSendFileOut, SendCSW, sendCheckCondition,
     WholeReadInv, CompletionsExpected, WholeInv, taskVars
<1>4. CASE InvalidCBW
  BY <1>4 DEF InvalidCBW, WholeReadInv, CompletionsExpected, WholeInv, taskVars
<1> QED BY <1>1, <1>2, <1>3, <1>4

LEMMA WholeTask ==
    ASSUME WholeReadInv,
           \/ UserTask \/ InitializeSlept \/ SetDevice
           \/ UpdateSwap \/ UpdateDone
    PROVE  WholeInv'
BY TaskLeavesRead
DEF WholeReadInv, WholeInv, botVars, readVars, TruncatedOn, FitsOn

\* Without subchannel data a batch and what stays owed make up the whole.
LEMMA WholeUpdateRead ==
    ASSUME WholeReadInv, UpdateRead
    PROVE  WholeInv'
<1>1. CASE pc' # "Read"
  <2>1. m_nState' = "SentCSW"
    BY <1>1 DEF UpdateRead, sendCheckCondition, SendCSW
  <2> QED BY <1>1, <2>1 DEF WholeInv
<1>2. CASE pc' = "Read"
  <2> DEFINE n == Truncated(m_nblock_address, m_nnumber_blocks)
  <2>1. /\ m_nState = "DataInRead" /\ m_nState' = m_nState /\ pc # "Read"
        /\ m_nblock_address < LeadoutLBA /\ m_nblock_address' = m_nblock_address
        /\ batch' = BatchSize(n) /\ m_nnumber_blocks' = OwedAfter(n)
        /\ UNCHANGED <<xfer, m_pDevice, subchannel_selection>>
    BY <1>2 DEF UpdateRead, RestSteps, mediaVars
  <2>2. SUFFICES ASSUME xfer.disc # NoDisc, xfer.disc = m_pDevice, ~subchannel_selection
                 PROVE  /\ xfer.got + batch' + m_nnumber_blocks' = xfer.want
                        /\ FitsOn(xfer.disc, m_nblock_address + batch', m_nnumber_blocks')
    BY <1>2, <2>1 DEF WholeInv, FitsOn
  <2>3. /\ m_nblock_address \in Nat /\ m_nnumber_blocks \in Nat
        /\ xfer.got \in Nat /\ xfer.want \in Nat /\ xfer.disc \in Discs
    BY <2>2 DEF WholeReadInv, TypeOK, ReadTypeOK
  <2>4. LeadoutLBA = Leadout[xfer.disc]
        /\ n = TruncatedOn(xfer.disc, m_nblock_address, m_nnumber_blocks)
    BY <2>2, <2>3 DEF LeadoutLBA, Truncated, TruncatedOn
  <2>5. /\ n \in Nat /\ FitsOn(xfer.disc, m_nblock_address, n)
        /\ xfer.got + n = xfer.want
    BY <2>1, <2>2, <2>3, <2>4, TruncatedOnce DEF WholeReadInv, WholeInv
  <2> HIDE DEF n
  <2>6. /\ BatchSize(n) \in Nat /\ OwedAfter(n) \in Nat
        /\ BatchSize(n) + OwedAfter(n) = n
    BY <2>2, <2>5, BufferFitsNat DEF BatchSize, OwedAfter, BufferFits, Least
  <2>7. (m_nblock_address + BatchSize(n)) + OwedAfter(n) = m_nblock_address + n
        /\ xfer.got + BatchSize(n) + OwedAfter(n) = xfer.got + n
    BY <2>3, <2>5, <2>6
  <2> QED BY <2>1, <2>5, <2>7 DEF FitsOn
<1> QED BY <1>1, <1>2

LEMMA WholeReadDone ==
    ASSUME WholeReadInv, UpdateReadDone
    PROVE  WholeInv'
<1>1. CASE m_nState' = "SentCSW"
  BY <1>1 DEF UpdateReadDone, WholeInv
<1>2. CASE m_nState' # "SentCSW"
  <2>1. /\ pc = "Read" /\ pc' = "Idle" /\ m_nState' = "DataIn"
        /\ m_nblock_address' = m_nblock_address + batch
        /\ m_nnumber_blocks' = m_nnumber_blocks
        /\ subchannel_selection' = subchannel_selection
        /\ xfer' = [xfer EXCEPT !.got = @ + batch,
                                !.disc = IF @ = m_pDevice THEN @ ELSE NoDisc]
    BY <1>2 DEF UpdateReadDone, sendCheckCondition, SendCSW, Reply
  <2>2. /\ xfer'.got = xfer.got + batch /\ xfer'.want = xfer.want
        /\ xfer'.disc = IF xfer.disc = m_pDevice THEN xfer.disc ELSE NoDisc
    BY <2>1 DEF WholeReadInv, TypeOK, ReadTypeOK
  <2> QED BY <2>1, <2>2 DEF WholeReadInv, WholeInv, FitsOn
<1> QED BY <1>1, <1>2

LEMMA WholeStep ==
    ASSUME WholeReadInv, [Next]_vars
    PROVE  WholeInv'
<1>1. CASE Interrupt
  BY <1>1, WholeInterrupt, WholeCommand DEF Interrupt
<1>2. CASE UserTask \/ InitializeSlept \/ SetDevice
  BY <1>2, WholeTask
<1>3. CASE Update
  BY <1>3, WholeTask, WholeUpdateRead, WholeReadDone DEF Update
<1>4. CASE UNCHANGED vars
  BY <1>4 DEF vars, mediaVars, botVars, readVars, taskVars, WholeReadInv,
     WholeInv, TruncatedOn, FitsOn
<1> QED BY <1>1, <1>2, <1>3, <1>4 DEF Next

\* The only step from a reply to a GOOD status is the end of a data phase that
\* owes nothing more.
LEMMA GoodEnds ==
    ASSUME CompletionsExpected, [Next]_vars,
           m_nState = "DataIn", m_nState' = "SentCSW", m_CSW' = "OK"
    PROVE  m_nnumber_blocks = 0
<1>1. DataInSent
  <2>1. ~HandleSCSICommand
    BY CommandAnswers DEF Received
  <2>2. ~(UserTask \/ InitializeSlept \/ SetDevice \/ UpdateSwap \/ UpdateDone)
    BY TaskLeavesRead DEF botVars
  <2>3. ~(UpdateRead \/ UpdateReadDone)
    BY DEF UpdateRead, UpdateReadDone, CompletionsExpected
  <2>4. TransferInComplete
    BY <2>1, <2>2, <2>3 DEF Next, Interrupt, Update, OnActivate, OnSuspend,
       DataOutReceived, InvalidCBW, vars, botVars
  <2> QED BY <2>4 DEF TransferInComplete, StatusSent, SenseSent
<1> QED BY <1>1 DEF DataInSent, sendCheckCondition, SendCSW

\* A read that ends GOOD on the disc it was accepted for has delivered every
\* block it owed, no more and no fewer, over however many batches, for any range
\* (one that wraps around the address space included) and any batch size.
THEOREM WholeReadCorrect ==
    ASSUME NoResetInRead
    PROVE  Spec => GoodReadIsWhole
<1>1. Init => WholeInv
  BY DEF Init, WholeInv, NoXfer
<1>2. TypeOK /\ CompletionsExpected /\ WholeInv /\ [Next]_vars => WholeInv'
  BY WholeStep DEF WholeReadInv
<1>3. TypeOK /\ CompletionsExpected /\ WholeInv /\ [Next]_vars =>
        [ReadOfSameDisc /\ ~subchannel_selection
            /\ m_nState = "DataIn" /\ m_nState' = "SentCSW" /\ m_CSW' = "OK"
            => xfer.got = xfer.want]_vars
  BY GoodEnds DEF WholeInv, ReadOfSameDisc, TypeOK, ReadTypeOK
<1> QED
  BY <1>1, <1>2, <1>3, TypeCorrect, CompletionsCorrect, PTL
  DEF Spec, GoodReadIsWhole

-----------------------------------------------------------------------------
(* The gadget is a CDDrive.  Every step of either context is one step of the  *)
(* abstract drive or none: the interrupts are its commands and resets, the    *)
(* tasks handle its medium.                                                   *)

DriveInv == TypeOK /\ MediumInv /\ CompletionsExpected

DriveStep == [Drive!DriveNext]_(Drive!driveVars)

LEMMA DriveStart == Init => Drive!DriveInit
BY DEF Init, Drive!DriveInit, driveMedium, driveRemoved, drivePhase

\* What the host sees does not change when none of the four variables behind it
\* does, or when pc moves between steps of which neither is of Eject.
LEMMA SameMedium ==
    ASSUME UNCHANGED <<m_mediaState, m_bEjected>>,
           pc' = pc \/ {pc, pc'} \cap EjectSteps = {}
    PROVE  Drive!MediumStays
BY DEF Drive!MediumStays, driveMedium, driveRemoved

LEMMA SamePhase == m_nState' = m_nState => drivePhase' = drivePhase
BY DEF drivePhase

LEMMA NothingSeen == Drive!MediumStays /\ drivePhase' = drivePhase => DriveStep
BY DEF DriveStep, Drive!MediumStays, Drive!driveVars

\* Handlers that leave the medium alone: the command runs, or has ended.
LEMMA CommandAccepted ==
    ASSUME HandleSCSICommand
    PROVE  drivePhase = "Idle" /\ drivePhase' \in {"Busy", "Status"}
<1>1. m_nState = "ReceiveCBW"
  BY CommandAnswers DEF Received
<1>2. m_nState' \in {"SentCSW", "DataIn", "SendReqSenseReply", "DataOut", "DataInRead"}
  BY CommandAnswers DEF Answered
<1> QED BY <1>1, <1>2 DEF drivePhase

\* A command leaves the medium alone, acknowledges its change or ejects it.
LEMMA CommandRefines ==
    ASSUME QuietMedia, DriveInv, HandleSCSICommand
    PROVE  Drive!Accept
<1>1. CASE MediumFrame
  <2>1. Drive!MediumStays
    BY <1>1, SameMedium DEF MediumFrame, taskVars
  <2> QED BY <2>1, CommandAccepted DEF Drive!Accept
<1>2. CASE MediaCommand
  <2>1. pc' = pc /\ pc \in {"Idle", "Update", "Read"} \cup EjectSteps
    BY <1>2, QuietPlaces DEF MediaCommand, Received, Consumed, taskVars, DriveInv
  <2>2. CASE RequestSense
    <3>1. driveRemoved' = driveRemoved
      BY <2>1, <2>2 DEF RequestSense, driveRemoved
    <3>2. \/ m_mediaState' = m_mediaState
          \/ m_mediaState = "UNIT_ATTENTION" /\ m_mediaState' = "READY"
      BY <2>2 DEF RequestSense, AcknowledgesAttention
    <3>3. driveMedium' = driveMedium \/ (driveMedium = "Changed" /\ driveMedium' = "Ready")
      BY <3>2 DEF driveMedium
    <3> QED
      BY <3>1, <3>3, CommandAccepted
      DEF Drive!Accept, Drive!MediumStays, Drive!MediumAcknowledged
  <2>3. CASE \E start, loej \in BOOLEAN : StartStopUnit(start, loej)
    <3>1. CASE UNCHANGED <<mediaVars, discChanged>>
      BY <3>1, <2>1, SameMedium, CommandAccepted DEF mediaVars, Drive!Accept
    <3>2. CASE EjectAtOnce /\ ~m_bEjected
      <4>1. m_bEjected' /\ m_mediaState' = "NO_MEDIUM" /\ pc' \notin EjectSteps
        BY <2>1, <3>2 DEF EjectAtOnce, DriveInv, MediumInv, EjectInv
      <4>2. Drive!MediumRemoved
        BY <4>1 DEF Drive!MediumRemoved, driveMedium, driveRemoved
      <4> QED BY <4>2, CommandAccepted DEF Drive!Accept
    <3> QED BY <2>3, <3>1, <3>2 DEF StartStopUnit, EjectAtOnce, Untouched
  <2> QED BY <1>2, <2>2, <2>3 DEF MediaCommand
<1> QED BY <1>1, <1>2, CommandFrame, DriveFrame DEF HandleSCSICommand, DriveInv

\* A bus reset announces the disc the drive was started with, or nothing.
LEMMA ActivateRefines ==
    ASSUME QuietMedia, DriveInv, OnActivate
    PROVE  Drive!Reset
<1>1. pc' = pc /\ pc \in {"Idle", "Update", "Read"} \cup EjectSteps
  BY QuietPlaces DEF OnActivate, DriveInv, taskVars
<1>2. drivePhase' = "Idle"
  BY DEF OnActivate, drivePhase
<1>3. CASE ResetAnnounces
  <2>1. ~m_bEjected /\ ~m_bEjected' /\ m_mediaState' = "UNIT_ATTENTION"
    BY <1>3 DEF OnActivate, ResetAnnounces
  <2>2. m_mediaState = "NO_MEDIUM"
    BY <1>1, <1>3, <2>1
    DEF ResetAnnounces, DriveInv, MediumInv, EjectInv, ReadyInv
  <2> QED
    BY <1>2, <2>1, <2>2
    DEF Drive!Reset, Drive!MediumAppears, driveMedium, driveRemoved
<1>4. CASE ~ResetAnnounces
  BY <1>1, <1>2, <1>4, SameMedium DEF OnActivate, mediaVars, Drive!Reset
<1> QED BY <1>3, <1>4

\* A completed transfer ends a command, delivers its status, or is one of many.
LEMMA TransferRefines ==
    ASSUME DriveInv, OnSuspend \/ TransferInComplete \/ DataOutReceived \/ InvalidCBW
    PROVE  DriveStep
<1>1. Drive!MediumStays
  BY TransferFrame, SameMedium DEF MediumFrame, taskVars
<1>2. CASE OnSuspend
  BY <1>1, <1>2 DEF OnSuspend, drivePhase, DriveStep, Drive!Suspend, Drive!DriveNext
<1>3. CASE TransferInComplete
  <2>1. CASE StatusSent
    BY <1>1, <2>1 DEF StatusSent, drivePhase, DriveStep, Drive!Deliver, Drive!DriveNext
  <2>2. CASE DataInSent
    <3>1. m_nState = "DataIn" /\ m_nState' \in {"SentCSW", "DataInRead"}
      BY <2>2 DEF DataInSent, SendCSW, sendCheckCondition
    <3>2. drivePhase = "Busy" /\ drivePhase' \in {"Status", "Busy"}
      BY <3>1 DEF drivePhase
    <3> QED BY <1>1, <3>2, NothingSeen DEF DriveStep, Drive!Finish, Drive!DriveNext
  <2>3. CASE SenseSent
    BY <1>1, <2>3 DEF SenseSent, SendCSW, drivePhase, DriveStep, Drive!Finish,
       Drive!DriveNext
  <2> QED BY <1>3, <2>1, <2>2, <2>3 DEF TransferInComplete
<1>4. CASE DataOutReceived
  <2>1. m_nState = "DataOut" /\ m_nState' = "SentCSW"
    BY <1>4 DEF DataOutReceived, ProcessSendFileOut, SendCSW, sendCheckCondition
  <2> QED BY <1>1, <2>1 DEF drivePhase, DriveStep, Drive!Finish, Drive!DriveNext
<1>5. CASE InvalidCBW
  BY <1>1, <1>5, SamePhase, NothingSeen DEF InvalidCBW
<1> QED BY <1>2, <1>3, <1>4, <1>5

\* Eject and Insert are seen at the store that matters to the host, SetDevice
\* where it gives up an ejected disc and where it stores NO_MEDIUM.
LEMMA TaskRefines ==
    ASSUME DriveInv, UserTask \/ InitializeSlept \/ SetDevice
    PROVE  DriveStep
<1>1. drivePhase' = drivePhase
  BY TaskLeavesRead, SamePhase DEF botVars
<1> SUFFICES \/ Drive!MediumStays \/ Drive!MediumRemoved
             \/ Drive!MediumGone  \/ Drive!MediumPutBack
  BY <1>1, NothingSeen DEF DriveStep, Drive!Handle, Drive!DriveNext
<1> USE DEF Drive!MediumStays, Drive!MediumRemoved, Drive!MediumGone,
            Drive!MediumPutBack, driveMedium, driveRemoved
<1>2. CASE ArmBootEject
  BY <1>2 DEF ArmBootEject, NoCall, EjectSteps
<1>3. CASE DisarmBootEject \/ InitializeSlept \/ \E dev \in Discs : LoadImage(dev)
  BY <1>3, SameMedium DEF DisarmBootEject, InitializeSlept, LoadImage, NoCall, EjectSteps, mediaVars
<1>4. CASE Eject
  BY <1>4 DEF Eject, NoCall, EjectSteps, DriveInv, MediumInv, EjectInv, TypeOK, MediumTypeOK
<1>5. CASE Insert
  BY <1>5 DEF Insert, NoCall, EjectSteps, InsertSteps, DriveInv, MediumInv,
     AnnounceInv, TypeOK, MediumTypeOK
<1>6. CASE SetDevice
  BY <1>6 DEF SetDevice, EjectSteps, DriveInv, MediumInv, ArmInv, TypeOK, MediumTypeOK
<1> QED BY <1>2, <1>3, <1>4, <1>5, <1>6 DEF UserTask

\* An announcement is seen at its second store; of a batch only that it runs,
\* or has failed.
LEMMA UpdateRefines ==
    ASSUME DriveInv, Update
    PROVE  DriveStep
<1>1. CASE UpdateSwap
  <2>1. drivePhase' = drivePhase
    BY <1>1, SamePhase DEF UpdateSwap, TransportUnchanged, botVars
  <2>2. pc \notin EjectSteps /\ pc' \notin EjectSteps
    BY <1>1 DEF UpdateSwap, EjectSteps
  <2>3. CASE pc = "SwapState"
    <3>1. ~m_bEjected /\ m_mediaState = "NO_MEDIUM" /\ m_mediaState' = "UNIT_ATTENTION"
      BY <1>1, <2>3 DEF UpdateSwap, DriveInv, MediumInv, AnnounceInv, SwapSteps
    <3>2. Drive!MediumAppears
      BY <1>1, <3>1 DEF UpdateSwap, Drive!MediumAppears, driveMedium, driveRemoved
    <3> QED BY <2>1, <3>2 DEF DriveStep, Drive!Handle, Drive!DriveNext
  <2>4. CASE pc # "SwapState"
    BY <1>1, <2>1, <2>2, <2>4, SameMedium, NothingSeen DEF UpdateSwap
  <2> QED BY <2>3, <2>4
<1>2. CASE UpdateRead \/ UpdateReadDone
  <2>1. Drive!MediumStays
    BY <1>2, SameMedium
    DEF UpdateRead, UpdateReadDone, mediaVars, RestSteps, EjectSteps
  <2>2. m_nState = "DataInRead" /\ m_nState' \in {"SentCSW", "DataIn", "DataInRead"}
    BY <1>2 DEF UpdateRead, UpdateReadDone, sendCheckCondition, SendCSW, Reply,
       DriveInv, CompletionsExpected
  <2>3. drivePhase = "Busy" /\ drivePhase' \in {"Status", "Busy"}
    BY <2>2 DEF drivePhase
  <2> QED BY <2>1, <2>3, NothingSeen DEF DriveStep, Drive!Finish, Drive!DriveNext
<1>3. CASE UpdateDone
  BY <1>3, SameMedium, SamePhase, NothingSeen
  DEF UpdateDone, TransportUnchanged, mediaVars, botVars, EjectSteps
<1> QED BY <1>1, <1>2, <1>3 DEF Update

\* To its host the gadget is such a drive: every new medium is announced before
\* it is ready and acknowledged by a command, a removed one comes back only by
\* hand, and each command gets one status before the next is taken.  For any
\* discs, with every interrupt between any two stores but where a reset or a
\* medium command would cut a routine of the medium or a read in two.
THEOREM DriveRefinement ==
    ASSUME QuietMedia, NoResetInRead
    PROVE  Spec => ImplementsDrive
<1>1. DriveInv /\ [Next]_vars => DriveStep
  <2> SUFFICES ASSUME DriveInv, [Next]_vars PROVE DriveStep OBVIOUS
  <2>1. CASE Interrupt
    BY <2>1, CommandRefines, ActivateRefines, TransferRefines
    DEF Interrupt, DriveStep, Drive!DriveNext
  <2>2. CASE UserTask \/ InitializeSlept \/ SetDevice
    BY <2>2, TaskRefines
  <2>3. CASE Update
    BY <2>3, UpdateRefines
  <2>4. CASE UNCHANGED vars
    BY <2>4, SameMedium, SamePhase, NothingSeen DEF vars, mediaVars, taskVars, botVars
  <2> QED BY <2>1, <2>2, <2>3, <2>4 DEF Next
<1> QED
  BY <1>1, DriveStart, TypeCorrect, MediumAlways, CompletionsCorrect, PTL
  DEF DriveInv, DriveStep, Spec, ImplementsDrive, Drive!DriveSpec
=============================================================================
