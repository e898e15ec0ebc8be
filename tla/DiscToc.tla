------------------------------- MODULE DiscToc -------------------------------
(***************************************************************************)
(* CDUtils and SCSITOC: the table of contents a host is given, computed from *)
(* the tracks of the sheet, the sizes of the data files and the size of the  *)
(* image.  Positions are sectors; their BCD and MSF forms are left out.      *)
(***************************************************************************)
EXTENDS CueSheet

\* The tracks at these places, in order.
At(tracks, places) ==
    LET picked[i \in 0 .. Len(tracks)] ==
            IF i = 0 THEN <<>>
            ELSE IF i \in places THEN Append(picked[i - 1], tracks[i]) ELSE picked[i - 1]
    IN  picked[Len(tracks)]

Numbered(tracks, numbers) == {i \in DOMAIN tracks : tracks[i].track_number \in numbers}

\* The track a sector lies in, as a set that is empty where there is none.
TrackInfoForLBA(tracks, lba) ==
    LET starts == {i \in DOMAIN tracks : tracks[i].track_start = lba}
        later  == {i \in DOMAIN tracks : tracks[i].track_start > lba}
        before == Min(later \cup {Len(tracks) + 1}) - 1
    IN  CASE lba = 0       -> {tracks[i] : i \in DOMAIN tracks \cap {1}}
          [] lba > 0 /\ starts # {} -> {tracks[Min(starts)]}
          [] OTHER         -> {tracks[i] : i \in DOMAIN tracks \cap {before}}

TrackInfoForTrack(tracks, number) ==
    LET named == Numbered(tracks, {number})
    IN  IF named = {} THEN {} ELSE {tracks[Min(named)]}

LastTrackNumber(tracks) == Max({1} \cup {t.track_number : t \in Range(tracks)})

\* Session markers are believed; without them a data track after audio starts
\* the last session.
LastSessionStartTrack(tracks) ==
    LET Opens(i)   == \A j \in 1 .. i - 1 : tracks[j].session < tracks[i].session
        marked     == {i \in DOMAIN tracks : tracks[i].session > 1 /\ Opens(i)}
        inferred   == {i \in 2 .. Len(tracks) :
                         tracks[i].track_mode # "AUDIO" /\ tracks[i - 1].track_mode = "AUDIO"}
    IN  IF tracks = <<>> THEN 1
        ELSE IF marked # {} THEN tracks[Max(marked)].track_number
        ELSE IF inferred # {} THEN tracks[Max(inferred)].track_number
        ELSE Head(tracks).track_number

SessionCount(tracks) ==
    IF tracks # <<>> /\ LastSessionStartTrack(tracks) # Head(tracks).track_number THEN 2 ELSE 1

\* mutant of LeadoutLBA: the size of the whole image stands for the last file's.
LeadoutOfWhole(tracks, sizes, imageSize) ==
    LET last == Last(tracks)
    IN  IF tracks = <<>> THEN 0
        ELSE IF imageSize < last.file_offset \/ last.sector_length = 0 THEN last.data_start
        ELSE last.data_start + (imageSize - last.file_offset) \div last.sector_length

LeadoutLBA(tracks, sizes, imageSize) ==
    LET last == Last(tracks)
        size == IF Len(sizes) > 1 /\ last.file_index \in DOMAIN sizes
                THEN sizes[last.file_index] ELSE imageSize
    IN  IF tracks = <<>> THEN 0
        ELSE IF size < last.file_offset \/ last.sector_length = 0 THEN last.data_start
        ELSE last.data_start + (size - last.file_offset) \div last.sector_length

SessionLeadoutLBA(tracks, sizes, imageSize, session) ==
    LET nextStart == LastSessionStartTrack(tracks)
        ended     == {i \in DOMAIN tracks : tracks[i].track_number < nextStart}
        last      == tracks[Max(ended)]
        next      == tracks[Max(Numbered(tracks, {nextStart}))]
    IN  IF session # 1 \/ SessionCount(tracks) < 2 \/ ended = {}
        THEN LeadoutLBA(tracks, sizes, imageSize)
        ELSE IF /\ next.prev_session_leadout > last.data_start
                /\ next.prev_session_leadout < next.track_start
        THEN next.prev_session_leadout
        ELSE IF next.track_start > last.data_start + SessionGap
        THEN next.track_start - SessionGap
        ELSE next.track_start

-----------------------------------------------------------------------------
TOCEntry(track) ==
    [number |-> track.track_number, audio |-> track.track_mode = "AUDIO",
     start |-> track.data_start]

LeadoutPoint == 170   \* 0xAA

\* The entries of READ TOC from a track on, as a set that is empty where the
\* command is refused.
ReadTOC(tracks, sizes, imageSize, startingTrack) ==
    LET named   == IF startingTrack = LeadoutPoint THEN <<>>
                   ELSE At(tracks, {i \in DOMAIN tracks : tracks[i].track_number >= startingTrack})
        leadout == [number |-> LeadoutPoint,
                    audio |-> tracks # <<>> /\ Last(tracks).track_mode = "AUDIO",
                    start |-> LeadoutLBA(tracks, sizes, imageSize)]
    IN  IF startingTrack \notin {0, LeadoutPoint} /\ named = <<>> THEN {}
        ELSE {[i \in DOMAIN named |-> TOCEntry(named[i])] \o <<leadout>>}

\* READ TOC, session information: where the last session begins.
ReadSessionInfo(tracks) ==
    [sessions |-> SessionCount(tracks),
     first |-> {TOCEntry(track) : track \in TrackInfoForTrack(tracks, LastSessionStartTrack(tracks))}]

SessionTracks(tracks, s) ==
    At(tracks, {i \in DOMAIN tracks :
                  s = IF SessionCount(tracks) < 2
                         \/ tracks[i].track_number < LastSessionStartTrack(tracks)
                      THEN 1 ELSE 2})

\* READ TOC, full: each session from the one asked for, with its points.
ReadFullTOC(tracks, sizes, imageSize, session) ==
    LET Describe(s) ==
            LET own == SessionTracks(tracks, s)
            IN  [session |-> s,
                 A0 |-> Head(own).track_number, A1 |-> Last(own).track_number,
                 A2 |-> SessionLeadoutLBA(tracks, sizes, imageSize, s),
                 tracks |-> [i \in DOMAIN own |-> TOCEntry(own[i])]]
        from == Max({1, session})
    IN  IF session > SessionCount(tracks) THEN {}
        ELSE {{Describe(s) : s \in {s \in from .. SessionCount(tracks) :
                                      SessionTracks(tracks, s) # <<>>}}}

\* READ TRACK INFORMATION of a track: where it starts and how long it is.
TrackInformation(tracks, sizes, imageSize, track) ==
    LET i == Min({i \in DOMAIN tracks : tracks[i].track_number = track.track_number})
    IN  [number |-> track.track_number, start |-> track.data_start,
         length |-> (IF i < Len(tracks) THEN tracks[i + 1].data_start
                     ELSE LeadoutLBA(tracks, sizes, imageSize)) - tracks[i].data_start]
=============================================================================
