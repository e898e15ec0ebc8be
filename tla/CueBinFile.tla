----------------------------- MODULE CueBinFile -----------------------------
(***************************************************************************)
(* CCueBinFileDevice and loadCueBinIsoFileDevice: the data files of a cue    *)
(* sheet are opened one by one and laid out as one image, in which a stretch *)
(* of the disc that no file stores is a hole; sectors are then found through *)
(* the sheet, and read through two cache windows.                            *)
(*                                                                          *)
(* A byte of a data file is the pair of the file and its offset.            *)
(***************************************************************************)
EXTENDS CueSheet

CONSTANTS
    MaxGapFrames,    \* frames a hole may have
    CacheSize,       \* bytes of a cache window
    NumCacheWindows,
    ReadSizes        \* numbers of bytes a caller asks for

ASSUME CacheAssumption ==
    /\ MaxGapFrames \in Nat
    /\ CacheSize \in Nat \ {0}
    /\ NumCacheWindows \in Nat \ {0}
    /\ ReadSizes \subseteq Nat \ {0}

VARIABLES
    cue_str,         \* the cue sheet
    card,            \* on the card: the size of each data file, by its number
    step,            \* where the loader stands
    opened,          \* files that were opened
    closes,          \* times each file was closed
    files,           \* m_Files, m_FileSizes: the sizes of the files adopted
    layout,          \* m_Files[].nBase, m_Sparse, m_nVirtualSize
    m_nLogicalPos,
    m_CacheWindows,
    useOrder,        \* the windows, least recently used first (nLastUse)
    asked, got,      \* of the read that is under way: nSize, pBuffer[0 .. nDone)
    outcome          \* how it stands, or how the last one ended

loading == <<cue_str, card, step, opened, closes, files, layout>>
cache   == <<m_CacheWindows, useOrder>>
reading == <<asked, got, outcome>>
vars    == <<loading, m_nLogicalPos, cache, reading>>

Silence == <<0, 0>>

Positive(n) == Max({0, n})

-----------------------------------------------------------------------------
(* The layout.                                                               *)

\* Where the stored frames of file f begin and end on the disc.
Extent(tracks, sizes, f) ==
    LET own   == {i \in DOMAIN tracks : tracks[i].file_index = f}
        first == tracks[Min(own)]
        last  == tracks[Max(own)]
    IN  [head  |-> first.file_offset \div first.sector_length,
         start |-> first.data_start - first.file_offset \div first.sector_length,
         end   |-> last.data_start
                     + Positive(sizes[f] - last.file_offset) \div last.sector_length,
         sector_length |-> last.sector_length]

\* Where the image ends behind each file and the hole that follows it.
LaidOut(sizes, length) ==
    LET base[i \in 0 .. Len(sizes)] ==
            IF i = 0 THEN 0 ELSE base[i - 1] + sizes[i] + length[i]
    IN  base

\* The holes between file i and the next, and what they add to the image.
Holes(extents, sizes) ==
    LET gaps == {i \in 1 .. Len(sizes) - 1 : extents[i + 1].start > extents[i].end}
        length == [i \in DOMAIN sizes |->
                     IF i \in gaps
                     THEN (extents[i + 1].start - extents[i].end) * extents[i].sector_length
                     ELSE 0]
    IN  [gaps |-> gaps, length |-> length, base |-> LaidOut(sizes, length)]

SingleLayout(sizes) ==
    [bases |-> [i \in DOMAIN sizes |-> 0], sparse |-> {},
     size |-> IF sizes = <<>> THEN 0 ELSE sizes[1]]

\* The layout of files of these sizes, as a set that is empty where the sheet
\* has a boundary that cannot be represented.
RebuildLayout(sheet, sizes) ==
    LET tracks  == Tracks(sheet, sizes)
        placed  == {t \in Range(tracks) : t.file_index \in DOMAIN sizes}
        sound   == /\ \A t \in placed : t.sector_length > 0
                   /\ \A f \in DOMAIN sizes : \E t \in placed : t.file_index = f
        extents == [f \in DOMAIN sizes |-> Extent(tracks, sizes, f)]
        holes   == Holes(extents, sizes)
        fits    == /\ \A f \in DOMAIN sizes : extents[f].start >= 0
                   /\ \A i \in holes.gaps :
                        extents[i + 1].start - extents[i].end <= MaxGapFrames
    IN  IF Len(sizes) <= 1 THEN {SingleLayout(sizes)}
        ELSE IF ~sound THEN {}
        ELSE IF ~fits THEN {}
        ELSE {[bases  |-> [i \in DOMAIN sizes |-> holes.base[i - 1]],
               sparse |-> {[start |-> extents[i].end, end |-> extents[i + 1].start,
                            sector_length |-> extents[i].sector_length,
                            base |-> holes.base[i - 1] + sizes[i],
                            length |-> holes.length[i]] : i \in holes.gaps},
               size   |-> holes.base[Len(sizes)]]}

FileIndexForOffset(offset) ==
    {i \in DOMAIN files : offset >= layout.bases[i] /\ offset < layout.bases[i] + files[i]}

\* Bytes left of the hole at an offset, 0 where there is none.
SparseBytesAt(offset) ==
    LET inHole == {hole \in layout.sparse :
                     offset >= hole.base /\ offset < hole.base + hole.length}
    IN  Max({0} \cup {hole.base + hole.length - offset : hole \in inHole})

\* The offset of a sector, as a set that is empty where it cannot be found.
GetByteOffsetForLBA(lba) ==
    LET inHole == {hole \in layout.sparse : lba \in hole.start .. hole.end - 1}
    IN  IF Len(files) <= 1 THEN {CueLBAToByteOffset(cue_str, lba)}
        ELSE IF inHole # {}
        THEN {hole.base + (lba - hole.start) * hole.sector_length : hole \in inHole}
        ELSE {layout.bases[loc.file] + loc.offset :
                loc \in {l \in CueResolveLBA(cue_str, lba, files) : l.file \in DOMAIN files}}

-----------------------------------------------------------------------------
(* The loader.                                                               *)

EmptyWindow == [nStart |-> 0, nLen |-> 0, file |-> 0, at |-> 0]

\* Initially a sheet and its data files are on the card.
InitOn(sheet, sizes) ==
    /\ cue_str = sheet /\ card = sizes
    /\ step = "Cue"
    /\ opened = {} /\ closes = [f \in DOMAIN sizes |-> 0]
    /\ files = <<>> /\ layout = SingleLayout(<<>>)
    /\ m_nLogicalPos = 0
    /\ m_CacheWindows = [w \in 1 .. NumCacheWindows |-> EmptyWindow]
    /\ useOrder = [w \in 1 .. NumCacheWindows |-> w]
    /\ asked = 0 /\ got = <<>> /\ outcome = "none"

nCueFiles == CueCountFiles(cue_str)
SplitRip  == nCueFiles > 1

Closed(fs, times) == [f \in DOMAIN closes |-> times[f] + IF f \in fs THEN 1 ELSE 0]

\* The destructor closes every file the device adopted.
Destroyed(adopted, times) ==
    [f \in DOMAIN closes |-> times[f] + Cardinality({i \in DOMAIN adopted : adopted[i] = f})]

Loading(from) == step = from /\ UNCHANGED <<cue_str, card, m_nLogicalPos, cache, reading>>

\* The file is there to be opened.
Opening(from, file) == Loading(from) /\ file \in DOMAIN card

ReadCue ==
    /\ Loading("Cue")
    /\ step' \in {"First", "Failed"}
    /\ UNCHANGED <<opened, closes, files, layout>>

\* The name is missing or leaves the directory of the sheet, or the file would
\* not open.
FirstUnusable ==
    /\ Loading("First")
    /\ step' = "Failed"
    /\ UNCHANGED <<opened, closes, files, layout>>

FirstEmpty ==
    /\ Opening("First", 1) /\ SplitRip /\ card[1] = 0
    /\ opened' = {1}
    /\ closes' = Closed({1}, closes)
    /\ step' = "Failed"
    /\ UNCHANGED <<files, layout>>

Construct ==
    /\ Opening("First", 1) /\ ~(SplitRip /\ card[1] = 0)
    /\ opened' = {1}
    /\ files' = <<card[1]>> /\ layout' = SingleLayout(<<card[1]>>)
    /\ step' = IF SplitRip THEN "Files" ELSE "Ready"
    /\ UNCHANGED closes

nextFile == Len(files) + 1

Adopted == [i \in DOMAIN files |-> i]

NextUnusable ==
    /\ Loading("Files")
    /\ closes' = Destroyed(Adopted, closes)
    /\ step' = "Failed"
    /\ UNCHANGED <<opened, files, layout>>

NextEmpty ==
    /\ Opening("Files", nextFile) /\ card[nextFile] = 0
    /\ opened' = opened \cup {nextFile}
    /\ closes' = Destroyed(Adopted, Closed({nextFile}, closes))
    /\ step' = "Failed"
    /\ UNCHANGED <<files, layout>>

\* mutant of AfterRejection: a refused file stays adopted, and the loader closes it too.
AdoptedAllTheSame(adopted, file) == Append(adopted, file)

\* What the device has adopted when it refuses one more file.
AfterRejection(adopted, file) == adopted

\* AddDataFile refuses the file: the loader closes it, and deletes the device.
Reject ==
    /\ Opening("Files", nextFile) /\ card[nextFile] > 0
    /\ RebuildLayout(cue_str, Append(files, card[nextFile])) = {}
    /\ opened' = opened \cup {nextFile}
    /\ closes' = Destroyed(AfterRejection(Adopted, nextFile), Closed({nextFile}, closes))
    /\ step' = "Failed"
    /\ UNCHANGED <<files, layout>>

AddDataFile ==
    /\ Opening("Files", nextFile) /\ card[nextFile] > 0
    /\ layout' \in RebuildLayout(cue_str, Append(files, card[nextFile]))
    /\ files' = Append(files, card[nextFile])
    /\ opened' = opened \cup {nextFile}
    /\ step' = IF Len(files') = nCueFiles THEN "Ready" ELSE "Files"
    /\ UNCHANGED closes

\* The gadget deletes the device when another is mounted.
Delete ==
    /\ Loading("Ready") /\ outcome # "reading"
    /\ closes' = Destroyed(Adopted, closes)
    /\ step' = "Deleted"
    /\ UNCHANGED <<opened, files, layout>>

-----------------------------------------------------------------------------
(* Seek and Read.                                                            *)

Serving == step = "Ready" /\ UNCHANGED loading

\* A caller seeks to the offset of a sector; beyond the image it is refused.
Seek(lba) ==
    /\ Serving /\ outcome # "reading"
    /\ \E offset \in GetByteOffsetForLBA(lba) :
        /\ offset <= layout.size
        /\ m_nLogicalPos' = offset
    /\ outcome' = "sought" /\ asked' = 0 /\ got' = <<>>
    /\ UNCHANGED cache

Read(nSize) ==
    /\ Serving /\ outcome # "reading"
    /\ asked' = nSize /\ got' = <<>> /\ outcome' = "reading"
    /\ UNCHANGED <<m_nLogicalPos, cache>>

\* Each turn of ReadWithinFile serves what one window, hole or file can give.
remaining == asked - Len(got)

Hits(w) ==
    /\ remaining <= m_CacheWindows[w].nLen
    /\ m_nLogicalPos >= m_CacheWindows[w].nStart
    /\ m_nLogicalPos + remaining <= m_CacheWindows[w].nStart + m_CacheWindows[w].nLen

CacheHits == {w \in DOMAIN m_CacheWindows : Hits(w)}

Turn == Serving /\ outcome = "reading" /\ remaining > 0 /\ UNCHANGED asked

InFile == FileIndexForOffset(m_nLogicalPos)

Serve(bytes) ==
    /\ got' = got \o bytes
    /\ m_nLogicalPos' = m_nLogicalPos + Len(bytes)
    /\ UNCHANGED outcome

MostRecent(w) == Append(SelectSeq(useOrder, LAMBDA v : v # w), w)

BytesOf(file, at, n) == [i \in 1 .. n |-> <<file, at + i - 1>>]

CacheHit ==
    /\ Turn /\ CacheHits # {}
    /\ LET w   == Min(CacheHits)
           win == m_CacheWindows[w]
       IN  /\ Serve(BytesOf(win.file, win.at + m_nLogicalPos - win.nStart, remaining))
           /\ useOrder' = MostRecent(w)
    /\ UNCHANGED m_CacheWindows

ReadHole ==
    /\ Turn /\ CacheHits = {} /\ InFile = {} /\ SparseBytesAt(m_nLogicalPos) > 0
    /\ Serve([i \in 1 .. Min({remaining, SparseBytesAt(m_nLogicalPos)}) |-> Silence])
    /\ UNCHANGED cache

\* Not a byte of the image: its end, or a position it does not have.
ReadNothing ==
    /\ Turn /\ CacheHits = {} /\ InFile = {} /\ SparseBytesAt(m_nLogicalPos) = 0
    /\ outcome' = IF m_nLogicalPos = layout.size THEN "end" ELSE "lost"
    /\ UNCHANGED <<got, m_nLogicalPos, cache>>

fileAt    == Min(InFile)
nInFile   == m_nLogicalPos - layout.bases[fileAt]
available == files[fileAt] - nInFile
wanted    == Min({remaining, available})

\* More than a window holds is read past the cache.
ReadThrough ==
    /\ Turn /\ CacheHits = {} /\ InFile # {} /\ wanted > CacheSize
    /\ Serve(BytesOf(fileAt, nInFile, wanted))
    /\ UNCHANGED cache

\* The window this stream ran off the end of, else the least recently used.
Victim ==
    LET ranOff == {w \in DOMAIN m_CacheWindows :
                     /\ m_CacheWindows[w].nLen > 0
                     /\ m_CacheWindows[w].nStart + m_CacheWindows[w].nLen = m_nLogicalPos}
    IN  IF ranOff # {} THEN Min(ranOff) ELSE Head(useOrder)

Refill ==
    /\ Turn /\ CacheHits = {} /\ InFile # {} /\ wanted <= CacheSize
    /\ m_CacheWindows' = [m_CacheWindows EXCEPT ![Victim] =
          [nStart |-> m_nLogicalPos, nLen |-> Min({available, CacheSize}),
           file |-> fileAt, at |-> nInFile]]
    /\ useOrder' = MostRecent(Victim)
    /\ Serve(BytesOf(fileAt, nInFile, wanted))

\* mutant of Spoiled: the window keeps its name for bytes the failed read replaced.
SpoiledUnnoticed(win) == [win EXCEPT !.file = 0]

\* A window whose refill failed: the old bytes may be overwritten.
Spoiled(win) == [win EXCEPT !.nLen = 0, !.file = 0]

\* The card fails the seek, or the read, which gives up the window.
CardFails ==
    /\ Turn /\ CacheHits = {} /\ InFile # {}
    /\ \/ UNCHANGED m_CacheWindows
       \/ /\ wanted <= CacheSize
          /\ m_CacheWindows' = [m_CacheWindows EXCEPT ![Victim] = Spoiled(@)]
    /\ outcome' = "card"
    /\ UNCHANGED <<got, m_nLogicalPos, useOrder>>

ReadDone ==
    /\ Serving /\ outcome = "reading" /\ remaining = 0
    /\ outcome' = "whole"
    /\ UNCHANGED <<asked, got, m_nLogicalPos, cache>>

-----------------------------------------------------------------------------
Load ==
    \/ ReadCue \/ FirstUnusable \/ FirstEmpty \/ Construct
    \/ NextUnusable \/ NextEmpty \/ Reject \/ AddDataFile

ReadWithinFile == CacheHit \/ ReadHole \/ ReadNothing \/ ReadThrough \/ Refill \/ CardFails

\* Sectors a caller may name, the first beyond the last included.
Sectors == 0 .. layout.size

Use ==
    \/ \E lba \in Sectors : Seek(lba)
    \/ \E nSize \in ReadSizes : Read(nSize)
    \/ ReadWithinFile \/ ReadDone

Next == Load \/ Delete \/ Use

-----------------------------------------------------------------------------
\* The loader and the device close each file they opened once, whichever step
\* of the load fails and whoever owned the file then; a device that is served
\* has them all open.
FilesAreClosedOnce ==
    \A f \in DOMAIN closes :
        closes[f] = IF f \in opened /\ step \in {"Failed", "Deleted"} THEN 1 ELSE 0

\* The bytes of the image, in order.
Image ==
    LET ByteAt(offset) ==
            LET in == FileIndexForOffset(offset)
            IN  IF in = {} THEN Silence ELSE <<Min(in), offset - layout.bases[Min(in)]>>
    IN  [i \in 1 .. layout.size |-> ByteAt(i - 1)]
=============================================================================
