------------------------------ MODULE MCImages ------------------------------
EXTENDS DiscImages

Bytes == [mode \in {"AUDIO", "MODE1/2048"} |-> IF mode = "AUDIO" THEN 3 ELSE 2]

\* A track stores a pause, or is given a pregap, or has neither.
TrackShapes ==
    {[mode |-> m, pregap |-> g[1], pause |-> g[2], data |-> 2] :
        m \in DOMAIN Bytes, g \in {<<0, 0>>, <<1, 0>>, <<0, 1>>}}

\* How n tracks are split among files, and which session each is in.
Splits(n)   == {s \in [1 .. n -> 1 .. n] : s[1] = 1 /\ \A i \in 2 .. n : s[i] - s[i - 1] \in {0, 1}}
Sessions(n) == {s \in Splits(n) : s[n] <= 2}

RipOf(shapes, split, session, tail, mode) ==
    LET n == Len(shapes)
    IN  [tracks |-> [i \in 1 .. n |->
            [file |-> split[i], mode |-> shapes[i].mode, pregap |-> shapes[i].pregap,
             pause |-> shapes[i].pause, data |-> shapes[i].data, session |-> session[i]]],
         files |-> [f \in 1 .. split[n] |->
            [mode |-> IF f = 2 THEN mode ELSE "BINARY", tail |-> tail]]]

SomeRips(n, allShapes, tails, modes) ==
    {RipOf(shapes, split, session, tail, mode) :
        shapes \in [1 .. n -> allShapes], split \in Splits(n), session \in Sessions(n),
        tail \in tails, mode \in modes}

\* Of three tracks, those of both modes that have a pause or a pregap, not both.
MCRips ==
    SomeRips(1, TrackShapes, {0}, {"BINARY"})
    \cup SomeRips(2, TrackShapes, {0, 1}, {"BINARY", "WAVE"})
    \cup SomeRips(3, {s \in TrackShapes : s.pregap # s.pause}, {0}, {"BINARY"})

\* Two files with a hole between them, and one file of sectors of both sizes.
Plain(mode) == [mode |-> mode, pregap |-> 0, pause |-> 0, data |-> 2]
MCReadRips ==
    {RipOf(<<Plain("AUDIO"), Plain("MODE1/2048")>>, split, <<1, 2>>, 0, "BINARY") :
        split \in Splits(2)}
-----------------------------------------------------------------------------
(* Alcohol images: tracks that adjoin, that leave frames out between them or *)
(* before the first, with and without subchannel, the file as long as they   *)
(* are or longer by a margin at each end; and one without lengths.           *)

TableOf(extents, size, margin) ==
    LET n         == Len(extents)
        before(i) == MapThenSumSet(LAMBDA j : extents[j][2], 1 .. i - 1)
    IN  [tracks |-> [i \in 1 .. n |->
            [start |-> extents[i][1], length |-> extents[i][2],
             offset |-> margin + before(i) * size, size |-> size,
             subchannel |-> size > FrameSize]],
         size |-> margin + before(n + 1) * size + margin]

MCTables ==
    {TableOf(extents, size, margin) :
        extents \in {<<<<0, 2>>, <<2, 2>>>>, <<<<0, 2>>, <<4, 1>>>>,
                     <<<<1, 1>>, <<2, 1>>, <<4, 2>>>>},
        size \in {FrameSize, FrameSize + SubchannelSize}, margin \in {0, 5}}
    \cup {[tracks |-> <<[start |-> 0, length |-> 0, offset |-> 0, size |-> FrameSize,
                         subchannel |-> FALSE]>>, size |-> 3 * FrameSize + 1]}

\* Compressed discs whose tracks do and do not end where a hunk does, one of them
\* longer than its tracks; in front of the table of tracks, words that hold no
\* frame or every frame, on the discs without and with subchannel.
MCDiscs ==
    {[subchannel |-> s, logicalFrames |-> 5 + (lengths[2] % 2),
      before |-> [start |-> 0, frames |-> IF s THEN 9 ELSE 0],
      tracks |-> [i \in 1 .. 2 |-> [type |-> types[i], frames |-> lengths[i]]]] :
        s \in BOOLEAN,
        types \in {<<"AUDIO", "MODE1_RAW">>, <<"MODE1_RAW", "AUDIO">>, <<"MODE1", "AUDIO">>},
        lengths \in {<<2, 3>>, <<3, 2>>}}
=============================================================================
