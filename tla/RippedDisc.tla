----------------------------- MODULE RippedDisc -----------------------------
(***************************************************************************)
(* A disc and the rip made of it, as the reference the cue sheet is read     *)
(* against: what is on each sector of the disc, the sheet a ripper writes,   *)
(* and the sizes of the data files.                                          *)
(*                                                                          *)
(* A rip is a sequence of tracks and one of data files.  A track has a mode, *)
(* frames of pregap that no file stores, frames of pause that its file does  *)
(* store, frames of data, the file that stores it and the session it is in;  *)
(* a file has a mode, and bytes past its last frame.                         *)
(***************************************************************************)
EXTENDS CueSheet

RipTracks ==
    [file : Nat, mode : DOMAIN SectorSize, pregap : Nat, pause : Nat, data : Nat \ {0},
     session : Nat]

RipFiles == [mode : FileModes, tail : Nat]

FirstInFile(rip, i) == i = 1 \/ rip.tracks[i].file # rip.tracks[i - 1].file

LastInFile(rip, f) == Max({i \in DOMAIN rip.tracks : rip.tracks[i].file = f})

Size(rip, i) == SectorSize[rip.tracks[i].mode]

\* What a ripper makes of a disc: the files hold the tracks in their order, and
\* sessions follow each other.  A track has its pregap stored or stated, not both.
\* No file goes on for a whole frame behind its last track.  A single file holds
\* frames as they are.
IsRip(rip) ==
    /\ rip = [tracks |-> rip.tracks, files |-> rip.files]
    /\ rip.tracks \in Seq(RipTracks) /\ rip.files \in Seq(RipFiles)
    /\ rip.tracks # <<>>
    /\ rip.tracks[1].file = 1 /\ Last(rip.tracks).file = Len(rip.files)
    /\ rip.tracks[1].session = 1
    /\ \A i \in 2 .. Len(rip.tracks) :
          /\ rip.tracks[i].file - rip.tracks[i - 1].file \in {0, 1}
          /\ rip.tracks[i].session >= rip.tracks[i - 1].session
    /\ \A i \in DOMAIN rip.tracks :
          /\ Size(rip, i) > 0
          /\ rip.tracks[i].pregap = 0 \/ rip.tracks[i].pause = 0
    /\ \A f \in DOMAIN rip.files : rip.files[f].tail < Size(rip, LastInFile(rip, f))
    /\ Len(rip.files) = 1 => rip.files[1].mode \in {"BINARY", "MOTOROLA"}

-----------------------------------------------------------------------------
(* The disc                                                                  *)

StoredFrames(rip, i) == rip.tracks[i].pause + rip.tracks[i].data

\* A session that begins with a file of its own has the gap before it, and a
\* pregap as every track after a gap must have one.
OpensSession(rip, i) ==
    i > 1 /\ FirstInFile(rip, i) /\ rip.tracks[i].session > rip.tracks[i - 1].session

Gap(rip, i) == IF OpensSession(rip, i) THEN SessionGap ELSE 0

Pregap(rip, i) ==
    IF OpensSession(rip, i) /\ rip.tracks[i].pregap = 0 /\ rip.tracks[i].pause = 0
    THEN TrackPregap ELSE rip.tracks[i].pregap

\* Where the disc and the file stand behind each track: sectors of the disc, and
\* frames and bytes of the file.
Behind(rip) ==
    LET behind[i \in 0 .. Len(rip.tracks)] ==
            IF i = 0 THEN [sectors |-> 0, frames |-> 0, bytes |-> 0]
            ELSE [sectors |-> behind[i - 1].sectors + Gap(rip, i) + Pregap(rip, i) + StoredFrames(rip, i),
                  frames  |-> (IF FirstInFile(rip, i) THEN 0 ELSE behind[i - 1].frames)
                                + StoredFrames(rip, i),
                  bytes   |-> (IF FirstInFile(rip, i) THEN 0 ELSE behind[i - 1].bytes)
                                + StoredFrames(rip, i) * Size(rip, i)]
    IN  behind

\* The sector of the disc at which a track's stored frames start, and its data.
FirstStored(rip, i) == Behind(rip)[i].sectors - StoredFrames(rip, i)
DataStart(rip, i)   == Behind(rip)[i].sectors - rip.tracks[i].data

\* The offset in its file of a sector that a file stores.
StoredAt(rip, i, lba) ==
    Behind(rip)[i].bytes - (Behind(rip)[i].sectors - lba) * Size(rip, i)

Sizes(rip) ==
    [f \in DOMAIN rip.files |-> Behind(rip)[LastInFile(rip, f)].bytes + rip.files[f].tail]

-----------------------------------------------------------------------------
(* The sheet                                                                 *)

\* The lines of a track.  Times in them count the frames of the file.
LinesOf(rip, i) ==
    LET t      == rip.tracks[i]
        at     == Behind(rip)[i].frames - StoredFrames(rip, i)
        If(c, line) == IF c THEN <<line>> ELSE <<>>
    IN  If(i > 1 /\ t.session > rip.tracks[i - 1].session, [cmd |-> "SESSION", number |-> t.session])
        \o If(FirstInFile(rip, i), [cmd |-> "FILE", mode |-> rip.files[t.file].mode])
        \o <<[cmd |-> "TRACK", number |-> i, mode |-> t.mode]>>
        \o If(t.pregap > 0, [cmd |-> "PREGAP", time |-> t.pregap])
        \o If(t.pause > 0, [cmd |-> "INDEX", number |-> 0, time |-> at])
        \o <<[cmd |-> "INDEX", number |-> 1, time |-> at + t.pause]>>

SheetTo(rip) ==
    LET sheet[i \in 0 .. Len(rip.tracks)] ==
            IF i = 0 THEN <<>> ELSE sheet[i - 1] \o LinesOf(rip, i)
    IN  sheet

SheetOf(rip) == SheetTo(rip)[Len(rip.tracks)]
=============================================================================
