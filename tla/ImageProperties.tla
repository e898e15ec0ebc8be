-------------------------- MODULE ImageProperties --------------------------
(***************************************************************************)
(* A cue and bin image of a ripped disc: what the loader and the device make *)
(* of the rip's sheet and files is compared with the disc itself.            *)
(***************************************************************************)
EXTENDS CueBinFile, RippedDisc

CONSTANTS
    Rips,       \* the rips on the card
    ReadRips    \* model bound: those that are read from, the others only load

ASSUME RipsAssumption == \A r \in Rips : IsRip(r)

VARIABLE rip

DiscInit == rip \in Rips /\ InitOn(SheetOf(rip), Sizes(rip))

DiscNext == (Load \/ Delete \/ (rip \in ReadRips /\ Use)) /\ UNCHANGED rip

DiscSpec == DiscInit /\ [][DiscNext]_<<vars, rip>>

Toc == INSTANCE DiscToc

\* The tracks as the gadget's parser gives them.
discTracks == Tracks(cue_str, files)

\* Where the bytes at an offset of the image are read from.
Place(offset) ==
    {[file |-> i, offset |-> offset - layout.bases[i]] : i \in FileIndexForOffset(offset)}

\* The sectors of the disc that belong to track i, the silent ones before it included.
SectorsOf(i) == Behind(rip)[i - 1].sectors .. Behind(rip)[i].sectors - 1

\* A sector that a file stores is read from there, in the size it is stored in.
StoredIsFound(i, lba) ==
    LET infos   == Toc!TrackInfoForLBA(discTracks, lba)
        offsets == GetByteOffsetForLBA(lba)
    IN  /\ infos # {} /\ \A info \in infos : info.sector_length = Size(rip, i)
        /\ offsets # {}
        /\ \A offset \in offsets :
              Place(offset) = {[file |-> rip.tracks[i].file, offset |-> StoredAt(rip, i, lba)]}

\* A silent sector between two files is read from a hole; one of an unstored
\* pregap inside a file gives the start of the track's data, as cueutil.cpp says.
SilentIsFound(lba) ==
    LET infos   == Toc!TrackInfoForLBA(discTracks, lba)
        offsets == GetByteOffsetForLBA(lba)
    IN  /\ infos # {} /\ offsets # {}
        /\ \A info \in infos, offset \in offsets :
              \/ SparseBytesAt(offset) > 0
              \/ info.unstored_pregap_length > 0 /\ offset \in GetByteOffsetForLBA(info.data_start)

\* Of every rip that loads, each sector of the disc is found where it is stored:
\* sectors of different sizes, pregaps and pauses, files and sessions move the
\* ones behind them.
SectorsAreFound ==
    step = "Ready" =>
        \A i \in DOMAIN rip.tracks : \A lba \in SectorsOf(i) :
            IF lba >= FirstStored(rip, i) THEN StoredIsFound(i, lba) ELSE SilentIsFound(lba)

OneFilePerSession ==
    Len(rip.files) = 2 /\ \A i \in DOMAIN rip.tracks : rip.tracks[i].session = rip.tracks[i].file

\* The table of contents the host is given is that of the disc: its tracks start
\* where their data does, and the lead-out of each session, of which the tables
\* know two, is where its last frame ends.
TocMatchesDisc ==
    step = "Ready" =>
        LET n    == Len(rip.tracks)
            toc  == Toc!ReadTOC(discTracks, files, layout.size, 0)
            full == Toc!ReadFullTOC(discTracks, files, layout.size, 0)
        IN  /\ toc # {}
            /\ \A entries \in toc :
                  /\ Len(entries) = n + 1
                  /\ \A i \in 1 .. n : entries[i].number = i /\ entries[i].start = DataStart(rip, i)
                  /\ entries[n + 1].start = Behind(rip)[n].sectors
            /\ full # {}
            /\ OneFilePerSession =>
                  \A sessions \in full :
                      {s.A2 : s \in sessions}
                        = {Behind(rip)[LastInFile(rip, f)].sectors : f \in DOMAIN rip.files}
=============================================================================
