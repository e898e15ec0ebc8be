------------------------------ MODULE ChdFile ------------------------------
(***************************************************************************)
(* CCHDFileDevice: a compressed disc.  The container is read one hunk of     *)
(* frames at a time, and the last hunk is kept; to its callers the disc is a *)
(* flat run of frames of 2352 bytes, in which the samples of an audio track, *)
(* big-endian in the container, are swapped.                                 *)
(*                                                                          *)
(* A byte of the container is the pair of its frame and its place in it.     *)
(***************************************************************************)
EXTENDS Integers, Sequences, FiniteSetsExt

CONSTANTS
    FrameSize,       \* CD_MAX_SECTOR_DATA, 2352
    CookedSize,      \* 2048
    FramesPerHunk,
    Discs,           \* the containers: track types and lengths, and subchannel
    Frames,          \* numbers of frames, or of blocks, a caller reads at once
    Overrun          \* how many frames past its end a caller asks for

VARIABLES
    chd,             \* the container
    m_chd,           \* "none", "open", "closed"
    m_currentOffset,
    m_cachedHunkNum, \* UINT32_MAX is -1
    m_hunkBuffer,    \* the hunk it holds
    m_lastTrackIndex, \* from 1 on; 0 for -1, no track
    block,           \* bytes the caller takes for one sector
    asked, got, outcome

reading == <<block, asked, got, outcome>>
hunk    == <<m_cachedHunkNum, m_hunkBuffer>>
vars    == <<chd, m_chd, m_currentOffset, hunk, m_lastTrackIndex, reading>>

\* Frames are whole pairs of bytes, a cooked block is part of one.  A container
\* may be longer than its tracks.  With no track at hand the code looks at the
\* words in front of m_tracks as if a track were there: what they hold depends on
\* the build, the same for as long as the device lives.
DiscsAssumption ==
    /\ FrameSize \in Nat \ {0} /\ FrameSize % 2 = 0
    /\ CookedSize \in 1 .. FrameSize /\ CookedSize % 2 = 0
    /\ FramesPerHunk \in Nat \ {0} /\ Frames \subseteq Nat \ {0}
    /\ Overrun \in Nat
    /\ Discs \subseteq [subchannel : BOOLEAN, logicalFrames : Nat,
                        before : [start : Nat, frames : Nat],
                        tracks : Seq([type : {"AUDIO", "MODE1", "MODE1_RAW"}, frames : Nat])]
    /\ \A disc \in Discs : disc.tracks # <<>>

\* Tracks follow each other on the disc: where each starts, and where the last
\* ends.
startFrame[i \in 1 .. Len(chd.tracks) + 1] ==
    IF i = 1 THEN 0 ELSE startFrame[i - 1] + chd.tracks[i - 1].frames

m_tracks ==
    [i \in DOMAIN chd.tracks |->
        [type |-> chd.tracks[i].type, start |-> startFrame[i], frames |-> chd.tracks[i].frames]]

endOfTracks == startFrame[Len(chd.tracks) + 1]

InTrack(i, lba) == lba \in m_tracks[i].start .. m_tracks[i].start + m_tracks[i].frames - 1

TrackOf(lba) == {i \in DOMAIN m_tracks : InTrack(i, lba)}

\* GetSize, in frames.
totalFrames == chd.logicalFrames

\* chd_read has the hunks the frames fill, the last perhaps in part.
totalHunks == (totalFrames + FramesPerHunk - 1) \div FramesPerHunk

\* The sector length that the generated sheet gives a track: a cooked one keeps
\* 2048 bytes of each frame.
CueSectorLength(t) == IF t.type = "MODE1" THEN CookedSize ELSE FrameSize

\* The track whose length the drive takes for an address: the first one to start
\* there, or else the last one before it, past the end of the tracks too.
TrackInfoForLBA(lba) ==
    LET there == {i \in DOMAIN m_tracks : m_tracks[i].start = lba}
    IN  m_tracks[IF there # {} THEN Min(there)
                 ELSE Max({i \in DOMAIN m_tracks : m_tracks[i].start < lba})]

-----------------------------------------------------------------------------
Init ==
    /\ chd \in Discs
    /\ m_chd = "none" /\ m_currentOffset = 0
    /\ m_cachedHunkNum = -1 /\ m_hunkBuffer = -1 /\ m_lastTrackIndex = 1
    /\ block = FrameSize /\ asked = 0 /\ got = <<>> /\ outcome = "none"

Load ==
    /\ m_chd = "none"
    /\ m_chd' \in {"open", "closed"}
    /\ UNCHANGED <<chd, m_currentOffset, hunk, m_lastTrackIndex, reading>>

Idle == m_chd = "open" /\ outcome # "reading" /\ UNCHANGED chd

Delete ==
    /\ Idle /\ m_chd' = "closed"
    /\ UNCHANGED <<m_currentOffset, hunk, m_lastTrackIndex, reading>>

Seek(lba) ==
    /\ Idle
    /\ m_currentOffset' = lba * FrameSize
    /\ asked' = 0 /\ got' = <<>> /\ outcome' = "sought"
    /\ UNCHANGED <<m_chd, hunk, m_lastTrackIndex, block>>

\* The callers seek before each read.  The drive asks for blocks of the length its
\* track has in the sheet, the player for frames.
Read(n) ==
    /\ Idle /\ outcome = "sought"
    /\ block' \in {CueSectorLength(TrackInfoForLBA(m_currentOffset \div FrameSize)), FrameSize}
    /\ asked' = n * block' /\ got' = <<>> /\ outcome' = "reading"
    /\ UNCHANGED <<m_chd, m_currentOffset, hunk, m_lastTrackIndex>>

absoluteFrame  == m_currentOffset \div FrameSize
offsetInSector == m_currentOffset % FrameSize
hunkNum        == absoluteFrame \div FramesPerHunk

\* A frame as the buffer holds it.
FrameInBuffer == m_hunkBuffer' * FramesPerHunk + (absoluteFrame % FramesPerHunk)

\* With no track at hand, the words before m_tracks pass for one.
Strays(lba) == lba \in chd.before.start .. chd.before.start + chd.before.frames - 1

\* The track the last frame was in, looked for again only outside it; past the
\* tracks there is none.
TrackNow ==
    IF IF m_lastTrackIndex = 0 THEN Strays(absoluteFrame)
       ELSE InTrack(m_lastTrackIndex, absoluteFrame)
    THEN m_lastTrackIndex
    ELSE IF TrackOf(absoluteFrame) = {} THEN 0 ELSE Min(TrackOf(absoluteFrame))

IsAudio(i) == i # 0 /\ m_tracks[i].type = "AUDIO"

\* The two bytes of every whole pair of the copy, exchanged.
Swapped(bytes) ==
    [i \in DOMAIN bytes |->
        IF i % 2 = 0 THEN bytes[i - 1]
        ELSE IF i < Len(bytes) THEN bytes[i + 1] ELSE bytes[i]]

Turn ==
    /\ outcome = "reading" /\ Len(got) < asked
    /\ UNCHANGED <<chd, m_chd, block, asked>>

hunkThere == hunkNum = m_cachedHunkNum \/ hunkNum < totalHunks

\* One turn of Read: the part of one frame, from the hunk that is kept if it is
\* the right one.
ReadFrame ==
    /\ Turn /\ hunkThere
    /\ m_cachedHunkNum' = hunkNum
    /\ m_hunkBuffer' = IF hunkNum = m_cachedHunkNum THEN m_hunkBuffer ELSE hunkNum
    /\ m_lastTrackIndex' = TrackNow
    /\ LET bytesToCopy == Min({asked - Len(got), FrameSize - offsetInSector})
           copied == [i \in 1 .. bytesToCopy |-> <<FrameInBuffer, offsetInSector + i - 1>>]
       IN  /\ got' = got \o (IF IsAudio(TrackNow) THEN Swapped(copied) ELSE copied)
           /\ m_currentOffset' = m_currentOffset + bytesToCopy
    /\ UNCHANGED outcome

\* The hunk cannot be read or decoded.
CardFails ==
    /\ Turn /\ hunkThere /\ hunkNum # m_cachedHunkNum
    /\ outcome' = "card"
    /\ UNCHANGED <<got, m_currentOffset, hunk, m_lastTrackIndex>>

\* A hunk the container does not have is refused.
ReadPastHunks ==
    /\ Turn /\ ~hunkThere
    /\ outcome' = "end"
    /\ UNCHANGED <<got, m_currentOffset, hunk, m_lastTrackIndex>>

ReadDone ==
    /\ outcome = "reading" /\ Len(got) = asked
    /\ outcome' = "whole"
    /\ UNCHANGED <<chd, m_chd, m_currentOffset, hunk, m_lastTrackIndex, block, asked, got>>

\* The subchannel of a sector comes from its hunk, which replaces the one kept.
ReadSubchannel(lba) ==
    /\ Idle /\ chd.subchannel /\ outcome = "whole"
    /\ m_cachedHunkNum' = lba \div FramesPerHunk
    /\ m_hunkBuffer' = IF m_cachedHunkNum' = m_cachedHunkNum THEN m_hunkBuffer
                       ELSE m_cachedHunkNum'
    /\ UNCHANGED <<m_chd, m_currentOffset, m_lastTrackIndex, reading>>

Next ==
    \/ Load \/ Delete
    \/ \E lba \in 0 .. totalFrames + Overrun : Seek(lba)
    \/ \E lba \in 0 .. totalFrames - 1 : ReadSubchannel(lba)
    \/ \E n \in Frames : Read(n)
    \/ ReadFrame \/ CardFails \/ ReadPastHunks \/ ReadDone

-----------------------------------------------------------------------------
\* A sector of the disc, in the byte order its reader expects.
Sector(lba) ==
    LET stored == [i \in 1 .. FrameSize |-> <<lba, i - 1>>]
    IN  IF \E i \in TrackOf(lba) : IsAudio(i)
        THEN [i \in 1 .. FrameSize |-> IF i % 2 = 0 THEN stored[i - 1] ELSE stored[i + 1]]
        ELSE stored

\* The disc as its callers see it.
Image ==
    [i \in 1 .. totalFrames * FrameSize |->
        Sector((i - 1) \div FrameSize)[((i - 1) % FrameSize) + 1]]

\* No track is at hand, and a frame of sound would pass for one of the words
\* before m_tracks, and not be swapped.
Astray ==
    /\ m_lastTrackIndex = 0
    /\ \E lba \in 0 .. totalFrames - 1 :
        Strays(lba) /\ \E i \in TrackOf(lba) : IsAudio(i)

\* A whole read of blocks of one track is, block by block, the data of the
\* sectors asked for.
BlocksAreSectors ==
    LET first == (m_currentOffset - asked) \div FrameSize
        n     == asked \div block
    IN  outcome = "whole" /\ TrackOf(first) = TrackOf(first + n - 1) /\ TrackOf(first) # {} =>
            \A b \in 0 .. n - 1 :
                SubSeq(got, b * block + 1, (b + 1) * block)
                    = SubSeq(Sector(first + b), 1, block)
=============================================================================
