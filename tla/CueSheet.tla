------------------------------ MODULE CueSheet ------------------------------
(***************************************************************************)
(* CUEParser and the cue utilities: where a cue sheet puts each track on     *)
(* the disc, and in which data file, at which offset, a sector is found.     *)
(*                                                                          *)
(* A sheet is a sequence of its lines, already split into a command and its  *)
(* arguments; times are counts of frames.  Tracks are the CUETrackInfo that  *)
(* next_track returns, one after another.                                    *)
(***************************************************************************)
EXTENDS Integers, Sequences, SequencesExt, FiniteSetsExt

CONSTANTS
    SectorSize,      \* bytes of a stored sector, by track mode
    SessionGap,      \* kSessionGapFrames
    TrackPregap      \* kTrackPregapFrames

ASSUME SheetAssumption ==
    /\ SectorSize \in [DOMAIN SectorSize -> Nat] /\ "AUDIO" \in DOMAIN SectorSize
    /\ SessionGap \in Nat \ {0} /\ TrackPregap \in Nat

FileModes == {"BINARY", "MOTOROLA", "MP3", "WAVE", "AIFF"}

Lines ==
    [cmd : {"FILE"}, mode : FileModes]
    \cup [cmd : {"TRACK"}, number : Nat, mode : DOMAIN SectorSize]
    \cup [cmd : {"SESSION"}, number : Nat]
    \cup [cmd : {"LEAD-OUT", "PREGAP"}, time : Nat]
    \cup [cmd : {"INDEX"}, number : Nat, time : Nat]

GetSectorLength(fileMode, trackMode) ==
    IF fileMode \in {"BINARY", "MOTOROLA"} THEN SectorSize[trackMode] ELSE 0

NoTrack ==
    [file_index |-> 0, file_mode |-> "BINARY", file_offset |-> 0,
     track_number |-> 0, track_mode |-> "AUDIO", session |-> 0,
     prev_session_leadout |-> 0, sector_length |-> 0,
     unstored_pregap_length |-> 0, cumulative_offset |-> 0,
     file_start |-> 0, data_start |-> 0, track_start |-> 0]

Restart ==
    [info |-> NoTrack, prevIndex01 |-> 0, session |-> 1, leadout |-> 0, tracks |-> <<>>]

FileSize(sizes, file) == IF file \in 1 .. Len(sizes) THEN sizes[file] ELSE 0

\* What a call of next_track sets up before it looks at a line.
NextCall(p, sizes) ==
    [info |-> [p.info EXCEPT !.cumulative_offset = @ + p.info.unstored_pregap_length],
     prevIndex01 |-> p.prevIndex01, session |-> p.session, leadout |-> p.leadout,
     tracks |-> p.tracks,
     prevFileSize |-> FileSize(sizes, p.info.file_index),
     prevSectorLength |-> GetSectorLength(p.info.file_mode, p.info.track_mode),
     prevSession |-> p.info.session,
     sessionGap |-> 0, index00 |-> 0, index01 |-> 0,
     gotFile |-> FALSE, gotTrack |-> FALSE, gotData |-> FALSE, gotPause |-> FALSE]

\* The blocks of the track that ends where its file ends; none if the size of
\* the file is not known.
LastTrackBlocks(p) ==
    IF p.prevFileSize > p.info.file_offset /\ p.info.sector_length > 0
    THEN (p.prevFileSize - p.info.file_offset) \div p.info.sector_length
    ELSE 0

FileLine(p, line) ==
    [p EXCEPT !.info =
                 [p.info EXCEPT !.file_start =
                              IF p.info.file_index > 0
                              THEN p.info.data_start + LastTrackBlocks(p) - p.info.cumulative_offset
                              ELSE @,
                           !.file_mode = line.mode, !.file_offset = 0,
                           !.file_index = @ + 1, !.track_mode = "AUDIO"],
              !.prevIndex01 = 0,
              !.prevSectorLength = GetSectorLength(line.mode, "AUDIO"),
              !.gotFile = TRUE]

TrackLine(p, line) ==
    [p EXCEPT !.info =
                 [p.info EXCEPT !.track_number = line.number, !.track_mode = line.mode,
                           !.sector_length = GetSectorLength(p.info.file_mode, line.mode),
                           !.session = p.session, !.prev_session_leadout = p.leadout,
                           !.unstored_pregap_length = 0, !.data_start = 0, !.track_start = 0],
              !.sessionGap =
                 IF p.gotFile /\ p.prevSession > 0 /\ p.session > p.prevSession
                 THEN SessionGap ELSE @,
              !.leadout = 0, !.index00 = 0, !.index01 = 0,
              !.gotTrack = TRUE, !.gotData = FALSE, !.gotPause = FALSE]

IndexLine(p, line) ==
    LET lba == p.info.file_start + line.time + p.info.cumulative_offset
    IN  CASE line.number = 0 ->
               [p EXCEPT !.info.track_start = lba, !.index00 = line.time, !.gotPause = TRUE]
          [] line.number = 1 ->
               [p EXCEPT !.info.data_start = lba, !.index01 = line.time, !.gotData = TRUE]
          [] OTHER -> p

ParseLine(p, line) ==
    CASE line.cmd = "FILE"     -> FileLine(p, line)
      [] line.cmd = "TRACK"    -> TrackLine(p, line)
      [] line.cmd = "SESSION"  -> [p EXCEPT !.session = IF line.number >= 1 THEN line.number ELSE @]
      [] line.cmd = "LEAD-OUT" -> [p EXCEPT !.leadout = line.time]
      [] line.cmd = "PREGAP"   -> [p EXCEPT !.info.unstored_pregap_length = line.time]
      [] line.cmd = "INDEX"    -> IndexLine(p, line)

\* Without an INDEX 00 the track starts at its INDEX 01, its data after the pregap.
PlacePregap(p) ==
    IF p.gotPause THEN p
    ELSE [p EXCEPT !.info.track_start = p.info.data_start,
                   !.info.data_start = @ + p.info.unstored_pregap_length]

\* A session that begins with a file of its own has the gap between sessions,
\* and a pregap if the sheet states none, put before it on the disc.
PlaceSession(p) ==
    LET stored == p.gotPause /\ p.index01 > p.index00
        pregap == IF ~stored /\ p.info.unstored_pregap_length = 0 THEN TrackPregap ELSE 0
    IN  IF p.sessionGap = 0 THEN p
        ELSE [p EXCEPT !.info.cumulative_offset = @ + p.sessionGap,
                       !.info.track_start = @ + p.sessionGap,
                       !.info.data_start = @ + p.sessionGap + pregap,
                       !.info.unstored_pregap_length = @ + pregap]

\* mutant of PlaceInFile: what lies before the track is counted in its own sectors.
PlaceInOwnSectors(p) ==
    LET firstStored == IF p.gotPause THEN p.index00 ELSE p.index01
        before == IF p.gotFile THEN 0
                  ELSE (firstStored - p.prevIndex01) * p.info.sector_length
        pause  == IF p.gotPause
                  THEN (p.index01 - p.index00) * p.info.sector_length ELSE 0
    IN  [p EXCEPT !.info.file_offset = @ + before + pause, !.prevIndex01 = p.index01]

\* The offset of the track's INDEX 01 in its file.
PlaceInFile(p) ==
    LET firstStored == IF p.gotPause THEN p.index00 ELSE p.index01
        before == IF p.gotFile THEN 0
                  ELSE (firstStored - p.prevIndex01) * p.prevSectorLength
        pause  == IF p.gotPause
                  THEN (p.index01 - p.index00) * p.info.sector_length ELSE 0
    IN  [p EXCEPT !.info.file_offset = @ + before + pause, !.prevIndex01 = p.index01]

FinishTrack(p) ==
    LET q == PlaceInFile(PlaceSession(PlacePregap(p)))
    IN  [q EXCEPT !.tracks = Append(@, q.info)]

NextLine(p, line, sizes) ==
    LET q == ParseLine(p, line)
    IN  IF q.gotTrack /\ q.gotData THEN NextCall(FinishTrack(q), sizes) ELSE q

\* The parser behind each line of a sheet.
Parsers(sheet, sizes) ==
    LET parser[i \in 0 .. Len(sheet)] ==
            IF i = 0 THEN NextCall(Restart, sizes)
            ELSE NextLine(parser[i - 1], sheet[i], sizes)
    IN  parser

Tracks(sheet, sizes) == Parsers(sheet, sizes)[Len(sheet)].tracks

-----------------------------------------------------------------------------
\* The last track that starts at or before the sector; below all, the first.
TrackForLBA(tracks, lba) ==
    LET later == {i \in 2 .. Len(tracks) : lba < tracks[i].track_start}
    IN  IF later = {} THEN Last(tracks) ELSE tracks[Min(later) - 1]

\* Sectors of an unstored pregap have no bytes: they give the track's first.
OffsetInFile(track, lba) ==
    LET rel == lba - track.data_start
        at  == IF rel < 0 /\ track.unstored_pregap_length > 0 THEN 0 ELSE rel
    IN  Max({0, track.file_offset + at * track.sector_length})

CueCountFiles(sheet) ==
    Max({0} \cup {track.file_index : track \in Range(Tracks(sheet, <<>>))})

CueLBAToByteOffset(sheet, lba) ==
    LET tracks == Tracks(sheet, <<>>)
    IN  IF tracks = <<>> THEN lba * SectorSize["AUDIO"]
        ELSE OffsetInFile(TrackForLBA(tracks, lba), lba)

\* The file and the offset in it, as a set that is empty where the code fails.
CueResolveLBA(sheet, lba, sizes) ==
    LET tracks == Tracks(sheet, sizes)
        files  == CueCountFiles(sheet)
        track  == TrackForLBA(tracks, lba)
    IN  IF tracks = <<>> \/ (files > 1 /\ Len(sizes) < files) THEN {}
        ELSE {[file |-> Max({1, track.file_index}), offset |-> OffsetInFile(track, lba)]}
=============================================================================
