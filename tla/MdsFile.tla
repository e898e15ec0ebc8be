------------------------------- MODULE MdsFile -------------------------------
(***************************************************************************)
(* CMDSFileDevice: an Alcohol image.  The track table of the .mds says which *)
(* frames of the disc the .mdf stores, and where; frames between tracks may  *)
(* be missing, and a stored frame may be followed by its subchannel.  To its *)
(* callers the disc is a flat run of frames of 2352 bytes.                   *)
(*                                                                          *)
(* A track is the disc address of its first frame, its length, the offset of *)
(* its first byte and the size of its sectors in the file; entries for the   *)
(* lead-in are left out, as every loop of the code skips them.               *)
(***************************************************************************)
EXTENDS Integers, Sequences, FiniteSetsExt

CONSTANTS
    FrameSize,       \* 2352
    SubchannelSize,  \* 96
    Tables,          \* track tables, each with the size of its data file
    Frames,          \* numbers of frames a caller reads at once
    Overrun          \* how many frames past its end a caller asks for

VARIABLES
    table,           \* the parsed .mds: tracks, and the size of the .mdf
    m_pFile,         \* "none", "open", "closed"
    filePos,         \* position in the .mdf
    m_nCurrentLBA,
    way,             \* which path of Read serves
    asked, got, outcome

reading == <<way, asked, got, outcome>>
vars    == <<table, m_pFile, filePos, m_nCurrentLBA, reading>>

tracks == table.tracks

End(t) == t.start + t.length

\* What Alcohol writes: a sector is as long as its subchannel makes it, the file
\* holds every track, tracks do not overlap, and one that adjoins another on the
\* disc adjoins it in the file, with sectors of the same size.
SoundTable(t) ==
    /\ t.size \in Nat
    /\ t.tracks \in Seq([start : Nat, length : Nat, offset : Nat, subchannel : BOOLEAN,
                         size : {FrameSize, FrameSize + SubchannelSize}])
    /\ \A i, j \in DOMAIN t.tracks :
        LET one == t.tracks[i]
            two == t.tracks[j]
        IN  /\ one.subchannel <=> one.size # FrameSize
            /\ one.offset + one.length * one.size <= t.size
            /\ i # j => End(one) <= two.start \/ End(two) <= one.start
            /\ End(one) = two.start /\ one.length > 0 /\ two.length > 0 =>
                 two.size = one.size /\ two.offset = one.offset + one.length * one.size

TablesAssumption ==
    /\ FrameSize \in Nat \ {0} /\ SubchannelSize \in Nat \ {0} /\ Frames \subseteq Nat \ {0}
    /\ Overrun \in Nat
    /\ \A t \in Tables : SoundTable(t)

\* A byte of the data file is its offset in a tuple, as one of silence is <<>>.
Silence == <<>>
BytesAt(offset, n) == [i \in 1 .. n |-> <<offset + i - 1>>]
SilentBytes(n)     == [i \in 1 .. n |-> Silence]

FindTrackForLBA(lba) ==
    {i \in DOMAIN tracks : lba \in tracks[i].start .. tracks[i].start + tracks[i].length - 1}

FirstOf(found) == tracks[Min(found)]

\* No length recorded: the file is read as frames from sector 0.
m_bFlatOffsets == \A i \in DOMAIN tracks : End(tracks[i]) = 0

m_nTotalFrames ==
    IF m_bFlatOffsets THEN table.size \div FrameSize
    ELSE Max({End(tracks[i]) : i \in DOMAIN tracks})

\* Frames the file stores, those of overlapping tracks once.
CountStoredFrames == Cardinality({l \in 0 .. m_nTotalFrames - 1 : FindTrackForLBA(l) # {}})

m_bHasUnstoredGaps == ~m_bFlatOffsets /\ CountStoredFrames # m_nTotalFrames

m_hasSubchannels == \E i \in DOMAIN tracks : tracks[i].subchannel

TouchesUnstoredGap(first, n) ==
    /\ m_bHasUnstoredGaps
    /\ \E lba \in first .. first + n - 1 : lba < m_nTotalFrames /\ FindTrackForLBA(lba) = {}

OffsetIn(t, lba) == t.offset + (lba - t.start) * t.size

-----------------------------------------------------------------------------
Init ==
    /\ table \in Tables
    /\ m_pFile = "none" /\ filePos = 0 /\ m_nCurrentLBA = 0
    /\ way = "none" /\ asked = 0 /\ got = <<>> /\ outcome = "none"

\* The .mds is read and parsed and the .mdf opens, or one of them fails and the
\* device is deleted.
Load ==
    /\ m_pFile = "none"
    /\ m_pFile' \in {"open", "closed"}
    /\ UNCHANGED <<table, filePos, m_nCurrentLBA, reading>>

Idle == m_pFile = "open" /\ outcome # "reading" /\ UNCHANGED table

Delete ==
    /\ Idle /\ m_pFile' = "closed"
    /\ UNCHANGED <<filePos, m_nCurrentLBA, reading>>

\* A file opened for reading is not moved past its end.  It need not be moved
\* when it stands where the read begins, and is not for a frame of a gap; a frame
\* past the end is refused where there are tracks to look it up in.
Seek(lba) ==
    /\ Idle
    /\ m_bFlatOffsets \/ FindTrackForLBA(lba) # {} \/ lba < m_nTotalFrames
    /\ m_nCurrentLBA' = lba
    /\ LET found == FindTrackForLBA(lba)
       IN  filePos' = IF m_bFlatOffsets THEN Min({lba * FrameSize, table.size})
                      ELSE IF found # {} THEN OffsetIn(FirstOf(found), lba)
                      ELSE filePos
    /\ way' = "none" /\ asked' = 0 /\ got' = <<>> /\ outcome' = "sought"
    /\ UNCHANGED m_pFile

SeekFails(lba) ==
    /\ Idle
    /\ m_nCurrentLBA' = lba
    /\ way' = "none" /\ asked' = 0 /\ got' = <<>> /\ outcome' = "card"
    /\ UNCHANGED <<m_pFile, filePos>>

\* The callers, the drive and the player, seek before each read.
Read(n) ==
    /\ Idle /\ outcome = "sought"
    /\ asked' = n * FrameSize /\ got' = <<>> /\ outcome' = "reading"
    /\ LET found == FindTrackForLBA(m_nCurrentLBA)
       IN  way' = IF TouchesUnstoredGap(m_nCurrentLBA, n) THEN "gaps"
                  ELSE IF /\ m_hasSubchannels /\ found # {}
                          /\ FirstOf(found).size = FrameSize + SubchannelSize
                       THEN "strip" ELSE "plain"
    /\ UNCHANGED <<m_pFile, filePos, m_nCurrentLBA>>

Turn(path) ==
    /\ outcome = "reading" /\ way = path /\ Len(got) < asked
    /\ UNCHANGED <<table, m_pFile, way, asked>>

\* A frame of a read that crosses a gap; one not stored, in the gap or past the
\* end, is silence.
ReadAcrossGaps ==
    /\ Turn("gaps")
    /\ LET found  == FindTrackForLBA(m_nCurrentLBA)
           offset == OffsetIn(FirstOf(found), m_nCurrentLBA)
       IN  IF found = {}
           THEN got' = got \o SilentBytes(FrameSize) /\ UNCHANGED filePos
           ELSE got' = got \o BytesAt(offset, FrameSize) /\ filePos' = offset + FrameSize
    /\ m_nCurrentLBA' = m_nCurrentLBA + 1
    /\ UNCHANGED outcome

available == table.size - filePos

\* A frame whose subchannel is skipped.
ReadStripping ==
    /\ Turn("strip") /\ available >= FrameSize
    /\ got' = got \o BytesAt(filePos, FrameSize)
    /\ filePos' = Min({filePos + FrameSize + SubchannelSize, table.size})
    /\ m_nCurrentLBA' = m_nCurrentLBA + 1
    /\ UNCHANGED outcome

\* One read of the file, which may end first.
ReadPlain ==
    /\ Turn("plain") /\ got = <<>> /\ available > 0
    /\ LET nBytesRead == Min({asked, available})
       IN  /\ got' = BytesAt(filePos, nBytesRead)
           /\ filePos' = filePos + nBytesRead
           /\ m_nCurrentLBA' = m_nCurrentLBA + nBytesRead \div FrameSize
    /\ UNCHANGED outcome

\* The file has no more: a frame it ends within is not counted.
FileEnds ==
    /\ \/ Turn("strip") /\ available < FrameSize
       \/ Turn("plain") /\ available = 0
    /\ outcome' = "end" /\ filePos' = table.size
    /\ UNCHANGED <<got, m_nCurrentLBA>>

\* The card fails; the file may stand past what the read gave.
CardFails ==
    /\ \/ Turn("gaps") \/ Turn("strip")
       \/ Turn("plain") /\ got = <<>>
    /\ outcome' = "card"
    /\ \/ UNCHANGED filePos
       \/ way = "strip" /\ available >= FrameSize /\ filePos' = filePos + FrameSize
    /\ UNCHANGED <<got, m_nCurrentLBA>>

ReadDone ==
    /\ outcome = "reading" /\ Len(got) = asked
    /\ outcome' = "whole"
    /\ UNCHANGED <<table, m_pFile, filePos, m_nCurrentLBA, way, asked, got>>

\* READ CD asks for the subchannel of each sector it has read, which moves the
\* file.
ReadSubchannel(lba) ==
    /\ Idle /\ m_hasSubchannels /\ outcome = "whole"
    /\ \E i \in FindTrackForLBA(lba) :
        /\ i = Min(FindTrackForLBA(lba)) /\ tracks[i].subchannel
        /\ filePos' = OffsetIn(tracks[i], lba) + FrameSize + SubchannelSize
    /\ UNCHANGED <<m_pFile, m_nCurrentLBA, reading>>

Next ==
    \/ Load \/ Delete
    \/ \E lba \in 0 .. m_nTotalFrames + Overrun :
          Seek(lba) \/ SeekFails(lba) \/ ReadSubchannel(lba)
    \/ \E n \in Frames : Read(n)
    \/ ReadAcrossGaps \/ ReadStripping \/ ReadPlain
    \/ FileEnds \/ CardFails \/ ReadDone

Spec == Init /\ [][Next]_vars

-----------------------------------------------------------------------------
\* The disc as its callers see it: the bytes of every frame, in order.
Image ==
    LET FrameAt(lba) ==
            LET found == FindTrackForLBA(lba)
            IN  IF m_bFlatOffsets THEN BytesAt(lba * FrameSize, FrameSize)
                ELSE IF found = {} THEN SilentBytes(FrameSize)
                ELSE BytesAt(OffsetIn(FirstOf(found), lba), FrameSize)
    IN  [i \in 1 .. m_nTotalFrames * FrameSize |->
            FrameAt((i - 1) \div FrameSize)[((i - 1) % FrameSize) + 1]]
=============================================================================
