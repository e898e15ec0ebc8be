----------------------------- MODULE DiscImages -----------------------------
(***************************************************************************)
(* loadImageDevice: the format of an image, told by the extension of its     *)
(* name, picks the device that serves it.  A cue and bin image, an Alcohol   *)
(* image and a compressed disc are each shown to keep the one contract their *)
(* callers rely on.                                                          *)
(***************************************************************************)
EXTENDS ImageProperties

CONSTANTS
    FrameSize,       \* 2352
    CookedSize,      \* 2048
    SubchannelSize,  \* 96
    FramesPerHunk,
    Tables,          \* the Alcohol images
    Discs,           \* the compressed discs
    Frames,          \* numbers of frames a caller reads at once
    Overrun          \* how many frames past its end a caller asks for

VARIABLES
    format,
    table, m_pFile, filePos, m_nCurrentLBA, way,
    chd, m_chd, m_currentOffset, m_cachedHunkNum, m_hunkBuffer, m_lastTrackIndex, block

Mds == INSTANCE MdsFile
Chd == INSTANCE ChdFile

ASSUME ImagesAssumption == Mds!TablesAssumption /\ Chd!DiscsAssumption

cueOwn == <<loading, m_nLogicalPos, cache, rip>>
mdsOwn == <<table, m_pFile, filePos, m_nCurrentLBA, way>>
chdOwn == <<chd, m_chd, m_currentOffset, m_cachedHunkNum, m_hunkBuffer, m_lastTrackIndex, block>>

\* Only the image of the format chosen varies.
aRip   == CHOOSE r \in Rips : TRUE
aTable == CHOOSE t \in Tables : TRUE
aDisc  == CHOOSE d \in Discs : TRUE

ImageInit ==
    /\ format \in {"cue", "mds", "chd"}
    /\ DiscInit  /\ (format = "cue" \/ rip = aRip)
    /\ Mds!Init  /\ (format = "mds" \/ table = aTable)
    /\ Chd!Init  /\ (format = "chd" \/ chd = aDisc)

CueNext == format = "cue" /\ DiscNext /\ UNCHANGED <<format, mdsOwn, chdOwn>>
MdsNext == format = "mds" /\ Mds!Next /\ UNCHANGED <<format, cueOwn, chdOwn>>
ChdNext == format = "chd" /\ Chd!Next /\ UNCHANGED <<format, cueOwn, mdsOwn>>

ImageNext == CueNext \/ MdsNext \/ ChdNext

imageVars == <<format, vars, rip, mdsOwn, chdOwn>>

ImageSpec == ImageInit /\ [][ImageNext]_imageVars

-----------------------------------------------------------------------------
\* What the callers see of the device: the image it serves, and where it stands.
deviceImage ==
    CASE format = "cue" -> IF step = "Ready" THEN Image ELSE <<>>
      [] format = "mds" -> IF m_pFile = "open" THEN Mds!Image ELSE <<>>
      [] format = "chd" -> IF m_chd = "open" THEN Chd!Image ELSE <<>>

devicePos ==
    CASE format = "cue" -> m_nLogicalPos
      [] format = "mds" -> m_nCurrentLBA * FrameSize
      [] format = "chd" -> m_currentOffset

\* Only a compressed disc keeps a track from one read to the next, and may keep
\* the wrong one.
deviceTracked == IF format = "chd" /\ m_chd = "open" THEN Chd!endOfTracks * FrameSize
                 ELSE Len(deviceImage)

deviceAstray == format = "chd" /\ Chd!Astray

Device == INSTANCE ImageDevice WITH
            image <- deviceImage, pos <- devicePos,
            tracked <- deviceTracked, astray <- deviceAstray

\* Whatever the format, a read gives the bytes of the image from the position of
\* the last seek on, and stops short only at its end or where the card fails: of
\* a cue and bin image whatever its cache windows hold, across files and holes;
\* of an Alcohol image on each of its three paths, with zeros for frames the file
\* leaves out and never a byte of subchannel, wherever an earlier read left the
\* file; of a compressed disc whichever hunk is kept, its samples swapped.  A read
\* may run past the end, where there is no byte it has to give.  Only a read past
\* the last track of a compressed disc can leave the device astray, and the bytes
\* are right again as soon as it is not.
ImplementsDevice == Device!Spec

\* A read of several blocks of a compressed disc gives the sectors asked for.
BlocksAreSectors == format = "chd" => Chd!BlocksAreSectors
=============================================================================
