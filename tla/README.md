# USBODE in TLA+

USBODE turns a Raspberry Pi Zero into an optical drive: a USB gadget answers a
host's SCSI commands from a disc image on the SD card, and a web page, an FTP
server, a display and the host itself choose the image.  These modules model the
parts of it whose correctness depends on the order of events, on what a card or
a plug does in the middle, or on arithmetic that a host will believe.  They are
checked with TLC on small instances, and the most important results are proved
with TLAPS.

## The system

The firmware is one program on Circle.  Tasks are cooperative: a task runs until
it yields or sleeps, and calls into FatFs may yield.  The USB controller
interrupts any task between any two of its stores; handlers do not nest.  So the
code has two contexts, and most of its difficulty is where they meet.

| Part | State | Operations | Talks to |
|---|---|---|---|
| `usbcdgadget` | medium state, `m_CDReady`, eject flags, sense, phase of the Bulk-Only Transport, read cursor | interrupt: `OnActivate`, `OnSuspend`, `OnTransferComplete`, one handler per SCSI command; task: `SetDevice`, `Eject`, `Insert`, `Update` | host, image, CD player |
| `cdromservice` | whether the gadget is on the bus | forwards to the gadget, calls `Update` for ever | gadget |
| `scsitbservice` | list of images, queued and mounted index, pending eject and insert, what was saved | `SetNextCD`, `SetPendingEject`, `SetPendingInsert`, `RefreshCache`, `Run` | gadget, config, card |
| `configservice` | settings in memory, a dirty flag per file | setters from anywhere, `Run` saves | card |
| `wificonfig` | staged upload, its state | SCSI toolbox commands from interrupt context, `ProcessCommit` from the config task | card, shutdown |
| `cueparser` | position in the sheet, the current track | `next_track`, LBA to byte offset | image device, gadget |
| `discimage`, `mdsparser` | the data files and their layout, position, cache windows or kept hunk | load, seek, read, close; the answers of the TOC commands | card, gadget, player |
| `cdplayer` | state, address, end address, read buffer, device | interrupt: play, pause, resume, seek, status; task: `Run`; the mount: `SetDevice` | image, sound, gadget |
| `sdcardservice`, `usbmsdgadget` | transport phase, block cursor, remembered card position | commands and completions from interrupt context, `Update` moves the blocks | host, card |
| `filelogdaemon` | event, file, count of failed writes | loggers of any level set the event; `Run` drains Circle's queue | card |
| `tracelab` | ring of records, trigger, auto-stop count | record from interrupts and tasks, start, stop, export, save | gadget, web server, card |
| `ftpserver` | per session: slot, login, mode, data socket | accept, end, USER/PASS, PORT, PASV, transfers | network, scsitbservice |
| `setupstatus`, `upgradestatus`, kernel | the card itself: partition, file system, images, system files, archive | first-boot setup, upgrade, mounts, main loop | card, user |
| `displayservice` | page shown, pages asked for, sleeping and low power, timers, presses not seen | interrupt: a button; task: `Run`, which refreshes display and page | scsitbservice, config |
| `webserver` | none of its own | requests, uploads, deletions, settings | scsitbservice, config |
| `shutdown`, `devicestate`, `discart`, `gitinfo` | flags | | |

What is hard: interrupts between the stores of a task; a command in several
batches while the disc is swapped; flags that have to agree and are changed in a
dozen places; indices into a list that is rebuilt; files without atomic replace
and a plug anyone can pull; calls that fail half-way; requests that meet a
rescan, an eject or a boot; three units of length (block, frame, hunk) for one
disc; a task that keeps addresses and a device across its yields; positions that
are cached to save a seek.  `PROJECT.json` lists these hazards at their lines.

What makes each part correct:

* gadget, medium: an ejected drive is empty to the host; the ready gate never
  stands open without a disc; a new medium is announced before it is ready.
* gadget, transport: every command gets exactly one status; a completion meets
  the phase that queued it; a failure has a sense.
* gadget, reads: no batch leaves the disc; a GOOD read is complete.
* image list: what is mounted, shown, remembered and served is the same image;
  an eject survives a power cycle; requests end.
* configuration: no change is forgotten; the previous Wi-Fi configuration
  survives every failure; only accepted uploads are installed.
* images: every sector of a disc is found where its rip stores it, the table of
  contents is the disc's, and a read gives the bytes asked for whatever caches,
  holes, subchannel and failed reads came before; a file is closed once.
* player: what sounds is what the host last asked for, from a device that still
  exists; a play ends.
* mass storage: a transfer answered OK moved every block.
* log and trace: no queued event is slept over; a download holds what its header
  says, and a capture ends by itself only after its trigger.
* FTP: a session that listens is alone on its port.
* display: the flags say what the panel shows, and a press lights it.
* start-up: a power cut leaves neither a half-upgraded system running nor a
  card without the user's images, and the drive gets to its main loop.

## The modules

| Module | Models |
|---|---|
| `GadgetState` | the variables of `CUSBCDGadget` and the helpers all handlers end in |
| `ScsiMisc`, `ScsiInquiry`, `ScsiToc`, `ScsiRead`, `ScsiToolbox` | the handlers of the file of the same name, one operator each |
| `UsbCdGadget` | transport, dispatch, medium routines, `Update`; the specification |
| `CDDrive` | abstract specification: what any drive promises its host |
| `UsbCdGadgetProperties` | type invariant, properties, refinement mapping, fairness |
| `MountService` | `SCSITBService`: which image is mounted, across rescans and boots |
| `ConfigStore` | `config.txt` and `cmdline.txt`: set, dirty, save in steps |
| `WiFiConfigUpload` | the upload state machine and the install, one FatFs call per step |
| `ConfigService` | `ConfigService::Run`, composing the last two |
| `CueSheet` | `CUEParser`: the tracks of a sheet, and the address of a sector |
| `DiscToc` | `CDUtils`, `SCSITOC`: the tables of contents computed from them |
| `RippedDisc` | reference: a disc, and the sheet and files a rip of it consists of |
| `CueBinFile` | loading the files of a sheet, their layout with holes, the two cache windows |
| `ImageProperties` | a cue and bin image against the disc it was ripped from |
| `MdsFile`, `ChdFile` | Alcohol images and compressed discs |
| `ImageDevice` | abstract specification: what any `IImageDevice` promises its readers |
| `DiscImages` | the three formats together, each implementing `ImageDevice` |
| `CDPlayer` | `CCDPlayer` against the commands and the change of device |
| `UsbMsdGadget` | `CUSBMMSDGadget` and its `Update` |
| `FileLog`, `TraceLab`, `FtpServer` | `CFileLogDaemon`; `CTraceLab` and its ring; the FTP daemon and its workers |
| `Display` | `DisplayService::Run`, `PageManager`, the ST7789, SH1106 and MT32-Pi displays and their pages |
| `StartUp` | `CKernel`, `SetupStatus`, `UpgradeStatus`, from power-on to the main loop |
| `Services` | the parts beside the drive, one to a behaviour |
| `MCGadget`, `MCImages`, `MCServices` | instances for TLC |
| `UsbCdGadgetProofs` | proofs: types, the medium, completions, sense, batches and whole reads of the gadget, and that it is a `CDDrive` |
| `ImageProofs` | proofs: a cue and bin image, an Alcohol image and a CHD are `ImageDevice`s |
| `RipProofs` | proofs: the image of a rip is the disc it was made of |
| `MountServiceProofs`, `ConfigServiceProofs`, `CDPlayerProofs`, `DisplayProofs` | proofs about the module of the name |
| `ServicesProofs` | proofs of the smaller parts of `Services`, and of its specification from those above |

### The gadget

A SCSI handler is one action: it runs inside `OnTransferComplete`, and nothing
interrupts an interrupt.  A task routine is several: `pc` names the stores that
come next.  Adjacent stores are merged where no handler can tell the states
apart.  A fresh `IImageDevice` is made for every mount, so a mount of the same
image is a swap too; the device the gadget had is gone at the "Delete" step.

`epIn` and `epOut` hold what `BeginTransfer` queued.  The controller completes
it at any later time (`TransferInComplete`, `DataOutReceived`), and the host's
next command arrives only when a CBW transfer is queued.  Replies, pages and
sector contents are left out; of a block range the arithmetic is kept, modulo
`AddressSpace` (2^32 in the code).  `xfer` is a history variable: of which disc
a read was accepted, and how many blocks it owes and has sent.

`Preempts` says which kinds of interrupt may land inside which routine.  At
rest anything may land.  The code masks interrupts nowhere, so the full set is
what the hardware allows; runs and theorems name the part a property survives,
and violation runs show what lies outside it:

* `QuietPreempts` (the passing runs): commands and completions land inside
  every routine, resets and medium commands (REQUEST SENSE, START STOP UNIT)
  inside `Eject` and at rest.  Nothing lands inside `IImageDevice::Read`: nothing
  but a reset or a suspend could, since a read in flight has no transfer queued.
* `WildPreempts` (the run `EjectInSwap`): everything lands everywhere except a
  reset inside a read.

`OnSuspend` is the gadget's handler for a suspend that tears the endpoints down;
Circle's patched driver may also hide a suspend from the gadget, which is a
behaviour without the action.

### The mounted image

`MountService` keeps of the gadget its device and its eject flags.  Paths are
numbers, so sorting is numeric order; directory order before the sort is any.
The holder of `m_Lock` is given by `pc`.  `config.txt` is taken to hold what was
set: the 100 ms loop of the config task saves it, and `ConfigStore` covers what
may go wrong there.  `Boot` is a power cycle at any moment.  `SetNextCD` takes
no lock; `RequestsLand` says where in the task it lands.  In the passing run it
lands between rounds and during a rescan; inside a load, which the code also
allows, the request is lost and `current_cd` is wrong (listed as a hazard).

### The configuration

A setting is a version number, a file holds a version, or is empty, or partly
written.  `CmdLine::Save` and `Config::Save` are open (which truncates) and
write; each may fail.  The bytes of a staged upload carry the number of the
upload, so that a hole or a leftover shows.  `f_unlink` may fail, `f_rename`
never replaces a file and is atomic at a power cut: these are the two
assumptions about FatFs.

### The images

`RippedDisc` is not code: it is the disc a user put into a reader, track by
track, and the sheet and the files a ripper makes of it.  `IsRip` says what a rip
is: its files hold the tracks in their order, sessions follow each other, a
pregap is stored or stated but not both, no file goes on for a whole frame behind
its last track, and one that is alone holds frames as they are, with no header.
The parser, the layout, the address arithmetic and the tables of contents are
then translated from the code and compared with it: `SectorsAreFound` asks for
every sector of the disc where the code would read it, `TocMatchesDisc` what the
host would be told.  The tables know two sessions, so the lead-outs are those of
a disc with one file to each of two sessions (`OneFilePerSession`).  A sheet is a
sequence of parsed lines.

`CueBinFile` opens the files one call at a time, any of them missing, empty or
refused, with the ownership of each file handle passing to the device in the
middle of it; a closed handle is counted.  A byte is the pair of a file and an
offset, a frame of a container the pair of a frame and a place, so that a byte
from the wrong place shows.  `Seek` is its own action; `Read` is a start, one
step per refill, file or hunk, and an end, and the card may fail in each.  The
three formats implement `ImageDevice` through the mapping in `DiscImages`: the
image as one sequence of bytes, where its last track ends, and the position.

Nothing keeps a read inside the disc: PLAY does not clamp its count
(`scsi_read.cpp:188-204`) and the player stops only at the end of what it was
told to play (`cdplayer.cpp:486-500`).  So seeks and reads go past the end
(`Overrun`), and each format does there what its code does.  A cue and bin image
refuses the seek or ends the read.  An Alcohol image refuses the seek where a
track table tells it the address; a read that begins inside goes on with what
follows in the file, until that ends, or, if it crosses a gap, with zeros
(`mdsfile.cpp:366-371`).  A CHD reads on to the end of its last hunk and is then
refused the next.  Past its tracks, which may end before the disc does (`GetSize`
counts the frames of the container), it finds none, and its next turn looks at
`m_tracks[-1]`.  Which words lie there is up to the build: on the boards it is
built for the pointer of the generated sheet and what stands beside it, which do not
change while the device lives, so a container has a pair of numbers `before` its
tracks.  If the next frame read lies between them it passes for a frame of a track
that is not sound, and a sample is not swapped; else the track is looked for and
found.  `ImageDevice` says so much and no more: bytes up to the end are those of
the image unless the device is astray, it goes astray only past its last track,
and what it gives behind the end is not promised.

### The audio player

Sound is counted in units, `SectorUnits` to a sector, since the sound device
takes what its queue has room for, in the middle of a sector too.  `Run` yields
only at the top of its loop, so other tasks move there; commands land between
any two steps (`CommandsLand`).  `mount` is where `SetDevice` and the gadget's
own change of device stand.  `play` and `due` are history: what the host last
asked for, and how far it has sounded.

The player reads its own state, without a lock, at "Written" (`cdplayer.cpp`
around line 550: a write is accounted for and may end the play) and between
draining and clearing in `SetDevice`.  A play accepted in either window is taken
for the one before it and lost.  `CommandsLand = QuietSteps` leaves these two
out of the passing run and lets commands land everywhere else; `PROJECT.json`
lists the windows with the hazard.

### Start-up

A boot is a walk over the card: whether the image volume mounts and is larger
than the placeholder decides between setup and a boot, and an archive on the
card decides on an upgrade.  `StartUp` models each call that changes the card as
a step, with a failing twin (`MaxFaults`) and a power cut between any two
(`MaxCuts`), through any number of boots; what is in RAM is lost at `Off`.  A
file is written in two steps: opened, which empties it, and filled.  Between
boots the user uploads archives, adds images and removes them.

Three things this shows that no line of the repository promises otherwise, so
they are not runs.  A mount that fails once at boot takes a full volume for the
placeholder and setup formats it (`setupstatus.cpp`, `IsAdequate` in the model):
`ImagesSurvive` is therefore about power cuts alone.  A copy of the shipped
images that is cut or fails is never resumed, although `README.md` asks the user
not to delete `image.iso`, the fallback.  And an archive whose unpacking fails
is removed with the system half replaced: `UpgradeIsWhole`, too, is about power
cuts alone.  A kernel file cut short never boots at all; the firmware's loader,
which would find that out, is outside the program, and the model lets any mix of
files start.

### The display

A round of the task is a walk through `place`.  The ST7789 and the SH1106 serve a
button in its interrupt, anywhere in the round (`PressesLand`); the MT32-Pi queues
it, since its panel hangs on a bus an interrupt must not use, and serves the
queue at the start of the next round.  The task sleeps between rounds and, for
2 s, while it shows that it is about to go to sleep.  Of a page the model keeps
where its buttons lead, by the row that is highlighted, and its request for
another page (`asks`); `panel` is what the backlight, or the panel itself, was
last told.  Time is two events: the timer that the next test looks at runs out
(`idle`), and so does the delay of the disc art (`artTimer`).

`QuietPlaces` leaves out presses between two stores that belong together: a
flag and the panel it stands for, the page left and the one entered.  There the
code may end dark and awake, or with a page that is over at once; `PROJECT.json`
lists the windows with the hazard.  A press during the warning is acted on and
the display goes dark all the same, though `Wake` notes that it is "definitely
not in low power or sleeping now"; on the MT32-Pi the press waits and lights the
display again, which `PressLights` checks.

### The services together

None of the parts in `Services` reads what another writes: the player's device
is its own constant, the image under it is `DiscImages`' business, the log, the
trace, the mass storage mode, FTP, start-up and the display have nothing in common.  Their
product would only multiply states, so `Services` is their sum: `service` picks
one at the start of a behaviour, and the properties of each are checked on its
own behaviours.

## The runs

| Run | Shows | Bounds |
|---|---|---|
| `GadgetMedia` | type, medium, transport and read properties; `CDDrive` implemented | 2 discs of 3 and 2 blocks, addresses 0, 1, 3, lengths 0 and 3, batches of 2 (1 with subchannel) |
| `GadgetProgress` | commands end, swaps are announced | 1 disc, one read of two batches |
| `Config` | settings are saved or their save failed; the upload and the install | 2 changes of each file (`MaxChanges`), 3 uploads of which 1 may meet changes (`MaxUploads`, `MaxUploadsWithSets`), blocks of 2 bytes, a buffer of 3, power cuts |
| `Mount` | list, mount, eject, boot | 3 images, 2 changes of the card, power cycles |
| `Services` | images, tables of contents, player, mass storage, log, trace, FTP, start-up, display | below |
| `StaleCount`, `SwapDuringRead`, `EjectInSwap`, `CmdlineLost`, `RescanUndoesEject`, `ChdBlocks`, `MsdStaleSeek` | disagreements between the code and what its comments, tests or README say | the smallest that show them |

The bounds of `Services`:

| Part | Bounds |
|---|---|
| images | rips of 1 to 3 tracks of two sector sizes (3 and 2 bytes), each with a pregap, a stored pause or neither, in every split among files and over up to two sessions, with and without a tail in the file; `CacheSize` 4, `NumCacheWindows` 2, `ReadSizes` 3 and 6, `MaxGapFrames` 10; Alcohol tables of up to 3 tracks, adjoining, apart or late, with and without subchannel, the file ending with them or 5 bytes later; compressed discs of two tracks with none or one frame behind them and with or without a stretch `before` them that takes any frame in, `FrameSize` 4, `FramesPerHunk` 2; seeks up to `Overrun` 1 past the end |
| player | 2 discs of 4 and 2 sectors, `MaxPlays` 2, `AddressSpace` 8, plays and seeks from sector 1, lengths 3 and 7, `SectorUnits` 2, `BufferSectors` 2 |
| mass storage | `CardBlocks` 3, `MaxChunk` 2, `Counts` 3, `ByteSpace` 3 |
| log | `MaxEvents` 4, `MaxConsecutiveWriteFailures` 2 |
| trace | `Capacity` 5, `POST_TRIGGER_RECORDS` 2, `MaxDropped` 1 |
| FTP | 3 clients, `MaxSessions` 2 |
| start-up | one shipped image, one of the user's, two system files, `MaxCuts` 2, `MaxFaults` 1, `MaxUploads` 1 |
| display | each of the three displays, four buttons, an image with a picture and one without |

Why these bounds are enough.  Two discs of different length make a cursor that
is inside one and past the end of the other.  A length of 3 with batches of 2
takes two batches, the last one short; with subchannel data it takes more, and
cuts the last; address 3 is past both ends, address 1 with length 3 is
truncated.  Nothing in the gadget counts events, so resets, ejects, loads and
commands are unbounded in number.  A buffer that is no multiple of the block
shows the boundary; three uploads let a leftover of one reach another and a
queued commit meet two more.  Three images let an index move in both directions
when a file appears or vanishes.

Three tracks give one with a track on both sides, so a wrong sum moves the ones
behind it; two sector sizes tell sectors from bytes; a read of 6 bytes is more
than a cache window and crosses a file or a hole, one of 3 less.  A tail makes a
file end inside a sector.  Frames that a table leaves out before the first
track, between two, and behind subchannel take each of the three read paths.
A frame past the end is enough for a hunk the container does not have; a frame
behind the tracks loses the track, and the next seek meets an audio track with none.
A play of 3 sectors is more than the player's buffer, so the task goes round its
loop, and the short disc ends in the middle of it; a length of 7 in an address
space of 8 wraps `end_address` to before the start; a second play overtakes the
first or follows a swap.  A transfer of 3 blocks with chunks of 2 takes two, and
reaches the end of the card from block 0 only.  Two clients fill the server, the
third is refused or takes a slot that was left.  Two cuts hit an upgrade and the
boot that takes it up again, one fault hits any call of either, and one upload
completes a pair the card held half of or replaces what it held.  Nothing in the
display counts, so presses, timeouts and changes of disc are unbounded in number.

Deadlock is checked in the gadget, the configuration and the mount.  It is not in
`Services` and its two violation runs, where an image that was closed is not
opened again and a daemon that has drained all events waits.

## Liveness and fairness

The gadget's fairness (`Fairness`) has four parts.  `UpdateSwap` and
`UpdateRead` are strongly fair: the scheduler is round-robin and the CD-ROM
task never sleeps, while the task that mounts and ejects sleeps 100 ms per
round, so the CD-ROM task runs between any two of its calls although each call
may disable what it was about to do.  A task inside a routine goes on (weakly
fair).  A queued transfer completes (weakly fair): a host that stops taking data
is outside the claim.  `IImageDevice::Read` returns.  No fairness is assumed of
hosts, users, resets or loads.

`MountService` and `ConfigService` assume only that their own task runs and that
the holder of the lock gives it back; power cuts and requests are not fair.

In `Services`, each assumption holds while its part is the one that runs.
`PlayerFairness`: the audio task runs and a mount that has begun goes on (weakly
fair, the scheduler); the gadget's task brings the sound up; and a feed happens
if it is possible again and again (strongly fair: the sound device empties its
queue at its own pace, so it is not full at every single attempt).
`LogFairness`: the daemon gets its turn; loggers need not.  `DisplayFairness`: the
task gets its turn; buttons and timers need not.  `StartFairness`: the
device takes its next step, and the user turns a device that has halted off and
on again; power cuts and uploads are not fair and are bounded, since a card cut
in every setup never gets through one.

## What is proved

With TLAPS, for every value of the constants that satisfies the named
assumptions (`DiscAssumption`, `TransferAssumption`, `PreemptsAssumption`,
`ImagesAssumption`, `RequestsAssumption`, `FileChangesAssumption`,
`ChangesAssumption`, `SizeAssumption`, `UploadsWithSetsAssumption`,
`SheetAssumption`, `CacheAssumption`, `RipsAssumption`, and `ServicesAssumption`, which joins those of the parts of `Services`):

* `TypeCorrect`: the type invariant is inductive by itself.  The work is in the
  counters: a truncated count and what is owed after a batch stay natural.
* `EjectedCorrect` and `ReadyCorrect`, under `QuietMedia` (no reset and no
  medium command lands in `SetDevice`, `Insert` or the announcement; anything
  may land in `Eject`).  Neither is inductive: each routine stores its flags one
  by one.  `MediumInv` adds what has been stored at each step: the boot arm
  lasts until the first image (`ArmInv`), an eject raises its flag first
  (`EjectInv`), a mount closes the gate before it deletes the device
  (`MountInv`), an announcement runs only with a disc that is not ejected
  (`AnnounceInv`), gate and state agree at rest (`ReadyInv`).  Most actions
  leave all of it alone (`MediumFrame`).
* `CompletionsCorrect`, under `NoResetInRead`: every handler answers in one of
  three ways (`Answered`), which is what makes the invariant inductive.
* `SenseCorrect`, with no assumption on the interleaving.  `SenseInv` is the
  property from the moment the status is known, which for a reply or a batch is
  long before it is sent.  Only REQUEST SENSE gives the sense away or clears the
  drive-wide status, and it succeeds; every other failure sets a sense or is the
  drive-wide status itself.
* `BatchCorrect`, under `NoResetInRead` and `NoWrap` (no range wraps around the
  address space): `BatchInv` bounds the cursor, the batch and what is owed by
  the address space in every state, so that the truncation in `Update` computes
  the true sum, also when a stale count or a swap led there.  It rests on the
  two theorems about types and completions.
* `WholeReadCorrect`, under `NoResetInRead`, of any range, also one that wraps, and
  any batch size.  `WholeInv`: as long as a read is served from the disc it was
  accepted for, what was sent, what is in flight and what is owed add up to what
  was asked.  READ truncates its range at once and READ CD leaves that to
  `Update`, so before the first batch "owed" is what `Update` will make of it;
  behind it, truncating again changes nothing (`TruncatedOnce`, `FitsUncut`).
* `DriveRefinement`, under `QuietMedia` and `NoResetInRead`: each step of the
  gadget is a step of `CDDrive`, or none.  A handler accepts a command, and
  acknowledges or ejects (`CommandRefines`); a reset goes back to Idle; a task
  announces, takes out or puts in, at the one store of its routine that changes
  what the host sees.  The steps follow from `MediumInv`, which says what each
  place in a routine has stored already, and `CompletionsExpected`, which says
  in which phase a completion comes.
* `MountTypes`, `CurrentCorrect`, `SavedCorrect` and `BootCorrect`, for any images
  and any number of card changes.  `ListInv` is that the list is a sequence of
  images: sorting fills every place, because no two images have the same rank
  and there are as many ranks as images (`EveryPlaceTaken`).  `ArmInv` is what
  keeps a boot with a saved eject empty: the service's arm and the gadget's copy
  of it are set and used up together, except in the middle of a turn.
  `CurrentCorrect` holds under `QuietLoad` (no request lands inside a load);
  then what is loaded is what the queued index stands for (`LoadInv`).
* `SettingsCorrect`, and the three theorems about the Wi-Fi upload, for any number
  of changes and of uploads.  No two parts of the invariant suffice alone.
  `StagedWhole`: what is staged is of the last upload and has no hole.
  `CommitWhole`: while a commit is queued or under way those bytes are still the
  accepted ones, though blocks keep arriving, and the temporary file holds them
  when it is put in place (`InstalledCorrect`, `RebootCorrect`).  `LastKept`: the
  last configuration has its own name, or is the backup while no file has that
  name, so that a cut between any two calls loses nothing (`PreviousCorrect`).
  `ConfigTypes` follows from the same invariant.
* `UpgradeCorrect`, for any number of cuts, faults, uploads and files.  That a
  running system is of one version is not inductive: what saves it is that a
  mixed system still has its archive, checked, on the card.  `UpgradePending`
  says so (`~Whole => ArchiveMatches`), and follows the boot: one that chooses
  with a mixed system has seen the archive; past the clean-up the system is
  whole; while unpacking, what was handled is new.  The clean-up may remove the
  archive because it starts from a whole system.
* `ImagesCorrect`: `ImagesSafe` adds that an image is added only to a full
  volume, that setup starts only from a volume that is not, and that behind the
  format nothing of the user's is there to lose.
* `DeviceAliveCorrect`.  The player and the gadget change their device one after
  the other, and the old one is deleted in between.  `AliveInv`: outside a
  change both name the same device, in it the task stands at the top of its
  loop until the player has the new one, and what was deleted is neither.
* `SoundAskedCorrect`, under `QuietSteps` (no command lands in the two windows in
  which the code loses one; the constant of the run satisfies it).  `PlayInv`
  ties the range the player works through to the play asked for, `ReadInv` what
  is left in the buffer to the end of that range, in units: counted from what
  was accounted for it ends below the sector behind the end, and counted from
  what was read, at the end.  That is what makes `address + 1` of a sector that
  was played not wrap, and a play that wraps `end_address` end at once.
* `CardCorrect`, for any card, chunk and counts.  `MovingInv`: in every phase of a
  read or write what was moved and what remains add up to what was asked, the
  status is still OK, and each phase belongs to its command.
* `ExportCorrect` and `AutoStopCorrect`, for any capacity.  `TraceInv`: records are
  only ever put behind those there are, so what the header counted is still there
  when it is copied; and a stop that is due was set by a trigger which the ring
  still holds, or lies beyond its capacity and is never reached.  A count left by
  an earlier capture cannot stop the next because starting clears it.
* `FilesClosedCorrect`, for any sheet and card.  `FilesInv`: while the loader goes
  through the files, those it opened are those the device adopted; so what
  closes the one it holds and deletes the device has closed each once.
* `PassivePortCorrect`, for any number of clients and sessions.  `FtpInv` is
  that live sessions have different slots and a listener is its session's own.
  The step that needs care is a new session: fewer live ones than slots leave
  one free, by counting (`SlotIsFree`), the search returns the least
  (`LeastSlot`), and the port follows the slot.
* `DisplayCorrect`, under `QuietPresses` (no button lands between two stores that
  belong together).  `PanelInv` says what the panel will be told where it is
  behind its flag; `PageInv` follows a change of page out of one and into the
  other, and rests on every way to a page clearing the request it serves
  (`RefreshedAsks`, `PressedAsks`).
* `FormatsRefine`: an image of any of the three formats implements `ImageDevice`.
  For a cue and bin image it is proved for any sheet (a sequence of `Lines` that
  the parser understands), any data files, windows of any size and number.  What
  the parser reads is typed by following it line by line (`TracksAreTyped`), and
  from that alone `RebuildTiles`: each byte of the layout is in one file or in
  one hole, and in one only (`Tiled`), though the sheet is free to say nonsense.
  So a run inside a file or a hole is a run of the image (`RunOfFile`).  `CueInv`
  is what is true between two turns of the read loop: no more was delivered than
  was asked for, the position is inside the image, and every window is empty or
  has the bytes its file has at its place in the image (`Holds`).  A call that fails spoils the
  window it was filling, and `CueInv` rests on its length being cleared.
  For an Alcohol image it is proved for any table that Alcohol writes
  (`SoundTable`: tracks do not overlap, and one that adjoins another on the disc
  adjoins it in the file), with gaps and subchannels anywhere; for a CHD, for
  any tracks, size of hunk and frame.  A byte of the image is where
  `FindTrackForLBA` or the frame counted by `startLBA` finds it, so the work is in
  the arithmetic: a run of sectors inside a track is a run of the file
  (`StoredRun`, `PlainDelivers`), one that crosses gaps is made of such runs and
  zeros (`GapsDeliver`), a frame is at its place in its hunk (`FramePlace`), and
  what the copy loop appends is the next piece of the image (`CopiedByte`).
  `MdsInv` and `ChdInv` are what is true between two calls: the position is that
  of the last seek and what was delivered, the file stands where the position
  says, a hunk in the buffer is the hunk it is taken for.  No read is assumed to
  stay inside the disc.  Behind the end of an Alcohol image there is nothing to
  show but that the position stays behind it (`FrameDelivered`, `PlainDelivers`);
  a hunk that is not there is behind the disc (`NoHunkIsEnd`); and a CHD can only
  lose its track past the last one, and reads the right bytes from the frame on at
  which it finds one again (`TrackIsFound`).
* `SectorsFoundCorrect` and `TocCorrect`, for every rip (`IsRip`) of every disc: any
  number of tracks, files and sessions, any lengths and sector sizes.  `Behind`
  is where disc and file stand behind each track.  The parser is followed over the
  sheet, the lines of one track at a time (`TrackReads`), to what it has read of
  it (`RipIsRead`) and to where it has placed the track on the disc and in the
  image (`RipIsPlaced`); both go along the tracks by the least one at which they
  would fail.  So the tracks are those of the disc, one for one (`TracksOfRip`).  `LoadInv`
  is inductive: the files adopted are the first ones on the card, and all of them
  once the image is ready.  A loaded image is not laid out as nonsense
  (`LoadedIsPlain`), and its extents end where the tracks of the files do
  (`ExtentsOfRip`), with the holes exactly the silent stretches between two files
  (`HolesOfRip`, `HoleIsSilent`, `StoredOutside`).  A sector is therefore found in its
  own track (`TrackFound`) and there, if it is stored, at the offset at which its
  file has it (`StoredFound`), and else in a hole or a pregap (`SilentFound`).  The
  tables pick tracks by number, which is their place (`TableOfRip`,
  `SessionsOfRip`).
* `ServicesTypes`: each part's types.  Most need a part of the invariants above; those
  of the log need that an open file was not closed and has failed too seldom to
  be given up (`LogInv`), those of the display that a press leads only to pages
  there are.

`QuietMedia` is not what the hardware guarantees.  It is the exact part of the
interleavings the proof needs, and `EjectInSwap` shows that the result fails
without it.

A behaviour of `ServicesSpec`, seen by one part, is a behaviour of that part (the
lemmas ending in `Alone`).  So what is proved of a part holds of `ServicesSpec`, whose
properties the run `Services` checks.  The proofs about the player (`DeviceCorrect`,
`SoundCorrect`, `PlayerTypes`) and the display (`DisplayCorrect`, `DisplayTypes`) are
modules of their own, which instantiate the part a second time; that the two
instances say the same is a lemma each (`PlayerSame`, `SoundSame`, `DisplaySame`).
Those about the images are `ImageProofs` and `RipProofs`, and those about the
start-up (`UpgradeCorrect`, `ImagesCorrect`) and the smaller parts are in
`ServicesProofs`.

Only model-checked: liveness, which is `CommandIsAnswered`, `SwapCompletes`,
`SettingsAreSaved`, `CommitEnds`, `EjectIsSaved`, `MountIsServed`, `PlayEnds`,
`EventsAreDrained`, `StartsUp` and `PressLights`.  Fairness and ENABLED are out of the
prover's reach.  Every other property of the runs is proved too.  Induction over
data is out of reach as well, since its rules take an operator as a parameter,
which none of the provers can instantiate; where a result goes along a sequence
(`AlongRow`, `ReadsOn`, `PlacesOn`) it is had from the least place at which it would
fail.

## What the code does otherwise than it says

1. A failed read leaves its block count, and three handlers that do not clear it
   stream sectors after their reply (`StaleCount`).
2. A swap during a read is not noticed by the read (`SwapDuringRead`).
3. A host eject inside an announcement or a mount is overwritten by it
   (`EjectInSwap`).
4. A power cut while `cmdline.txt` is saved stops the next boot (`CmdlineLost`).
5. A rescan may undo an eject (`RescanUndoesEject`).
6. A batch of 2048-byte blocks from a compressed disc is read in one run of
   2352-byte frames, and is wrong from its second block on (`ChdBlocks`).
7. The mass storage mode remembers a position that only writes keep up to date,
   and a write at it is not sought after a read has moved the card
   (`MsdStaleSeek`).

## Assumed of what is outside

Circle: tasks switch only where one yields or sleeps; handlers do not nest; a
transfer that was queued completes once or is dropped by a reset; the block
device's `Read` and `Write` move its position on by what they transfer.  FatFs:
a call succeeds or fails as a whole except a write, which may leave less; rename
is atomic and never replaces; opening to create truncates.  libchdr gives a hunk
or fails, and leaves the buffer unspoiled when it fails; it has the hunks that
the frames fill.  The sound device takes
part of what it is given, or nothing, and plays on.

## Not modelled

* `OnNegotiatedSpeed`, which changes the batch size when the bus is enumerated:
  `MaxBlocks` is a constant.  The sector formats of READ CD and the assembly of
  sectors, replies and mode pages: data no property here is about.
* Directories, the `.bin` to `.cue` retry of a rescan and path limits.
* The player's volume and samples; VERIFY and a READ of 0 blocks in the mass
  storage mode; the payload and time of a trace record.
* The binary layout of an `.mds` file and its bounds checks, the quoting and the
  numbers of a sheet, fast-seek tables: parsing of data.
* An `.mdf` that is shorter than its table says, the pregaps of a CHD and padding
  between its tracks (its frames are taken for those of the disc, as the code takes
  them), and sheets whose numbers wrap 32 bits.
* The listener that a STOR leaves open when its data connection fails
  (`ftpworker.cpp:720-722`), a seek that fails in a write of the mass storage mode,
  and the info page of the SH1106 and the SSD1306, which any button leaves
  (`infopage.cpp:41-51`), not only OK and Cancel.
* FTP paths, listings and dates; web pages, HTTP and the handlers, of which only
  the requests they make of the image list remain (in `MountService`).
* What the display draws, the rows of its pages, debouncing, an ST7789 without a
  backlight pin, the screens of setup and upgrade.
* Network, NTP, pictures (`discart`), the release check (`gitinfo`), and
  `devicestate`, one variable that the main loop polls: flags and I/O nothing
  else depends on.
* Vendored and generated code, which is more than half of the tree's lines: the
  JSON, INI, template and JPEG libraries, zlib, lzma, zstd, libchdr, the display
  drivers and their splash picture, the patches of Circle, scripts and build
  files, and the integration tests with their stubs, which were read as
  statements about the code.

## Plan

1. `MountService`: directories and the `.bin` retry; the history of requests, for
   the order of eject and mount and for an index queued before a rescan.
2. Composing `CDPlayer` with `UsbCdGadget` through `PlayAudio` and the swap, so
   that the announcement and the change of the player's device interleave.
3. Proofs: that a mount which is served puts the image that was asked for before
   the host, across `MountService` and `UsbCdGadget`, when they are composed.
