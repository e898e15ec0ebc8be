------------------------------ MODULE RipProofs ------------------------------
(***************************************************************************)
(* That the image of a rip is the disc it was made of, for any rip: the      *)
(* parser reads the tracks of the disc off the sheet, the loader lays its    *)
(* files out as they lie on the disc, every sector is found, and the tables  *)
(* of contents are the disc's.  Behind that, the three devices from the      *)
(* start on.                                                                 *)
(***************************************************************************)
EXTENDS ImageProofs

-----------------------------------------------------------------------------
(* Its tracks and files                                                      *)

\* The fields of a track and of a file of a rip.
LEMMA RipFields ==
    ASSUME NEW r, IsRip(r)
    PROVE  /\ Len(r.tracks) \in Nat \ {0} /\ DOMAIN r.tracks = 1 .. Len(r.tracks)
           /\ Len(r.files) \in Nat /\ DOMAIN r.files = 1 .. Len(r.files)
           /\ \A i \in 1 .. Len(r.tracks) :
                /\ r.tracks[i] \in RipTracks /\ r.tracks[i].mode \in DOMAIN SectorSize
                /\ r.tracks[i].file \in Nat /\ r.tracks[i].session \in Nat
                /\ r.tracks[i].pregap \in Nat /\ r.tracks[i].pause \in Nat
                /\ r.tracks[i].data \in Nat /\ r.tracks[i].data > 0
                /\ r.tracks[i].pregap = 0 \/ r.tracks[i].pause = 0
                /\ Size(r, i) \in Nat /\ Size(r, i) > 0
                /\ StoredFrames(r, i) \in Nat /\ StoredFrames(r, i) >= r.tracks[i].data
                /\ StoredFrames(r, i) = r.tracks[i].pause + r.tracks[i].data
           /\ \A f \in 1 .. Len(r.files) :
                r.files[f].mode \in FileModes /\ r.files[f].tail \in Nat
<1>1. /\ r.tracks \in Seq(RipTracks) /\ r.files \in Seq(RipFiles) /\ r.tracks # <<>>
      /\ \A i \in DOMAIN r.tracks :
          /\ Size(r, i) > 0
          /\ r.tracks[i].pregap = 0 \/ r.tracks[i].pause = 0
  BY DEF IsRip
<1>2. /\ Len(r.tracks) \in Nat \ {0} /\ DOMAIN r.tracks = 1 .. Len(r.tracks)
      /\ Len(r.files) \in Nat /\ DOMAIN r.files = 1 .. Len(r.files)
  BY <1>1
<1>3. ASSUME NEW i \in 1 .. Len(r.tracks)
      PROVE  /\ r.tracks[i] \in RipTracks /\ r.tracks[i].mode \in DOMAIN SectorSize
             /\ r.tracks[i].file \in Nat /\ r.tracks[i].session \in Nat
             /\ r.tracks[i].pregap \in Nat /\ r.tracks[i].pause \in Nat
             /\ r.tracks[i].data \in Nat /\ r.tracks[i].data > 0
             /\ r.tracks[i].pregap = 0 \/ r.tracks[i].pause = 0
             /\ Size(r, i) \in Nat /\ Size(r, i) > 0
             /\ StoredFrames(r, i) \in Nat /\ StoredFrames(r, i) >= r.tracks[i].data
             /\ StoredFrames(r, i) = r.tracks[i].pause + r.tracks[i].data
  <2>1. r.tracks[i] \in RipTracks
    BY <1>1
  <2> DEFINE t == r.tracks[i]
  <2>2. /\ t.mode \in DOMAIN SectorSize
        /\ t.file \in Nat /\ t.session \in Nat
        /\ t.pregap \in Nat /\ t.pause \in Nat
        /\ t.data \in Nat /\ t.data > 0
    BY <2>1 DEF RipTracks
  <2>3. Size(r, i) \in Nat
    BY <2>2, SheetAssumption DEF SheetAssumption, Size
  <2>4. StoredFrames(r, i) = t.pause + t.data
    BY DEF StoredFrames
  <2>5. StoredFrames(r, i) \in Nat /\ StoredFrames(r, i) >= t.data
    <3> HIDE DEF t
    <3> QED BY <2>2, <2>4
  <2>6. Size(r, i) > 0 /\ (t.pregap = 0 \/ t.pause = 0)
    BY <1>1, <1>2
  <2> QED BY <2>1, <2>2, <2>3, <2>4, <2>5, <2>6
<1>4. ASSUME NEW f \in 1 .. Len(r.files)
      PROVE  r.files[f].mode \in FileModes /\ r.files[f].tail \in Nat
  <2>1. r.files[f] \in RipFiles
    BY <1>1
  <2> QED BY <2>1 DEF RipFiles
<1> QED BY <1>2, <1>3, <1>4

\* The files of the tracks follow each other, and none is left out.
LEMMA RipFilesInOrder ==
    ASSUME NEW r, IsRip(r)
    PROVE  /\ \A i, j \in 1 .. Len(r.tracks) : i <= j => r.tracks[i].file <= r.tracks[j].file
           /\ \A i \in 1 .. Len(r.tracks) : r.tracks[i].file \in 1 .. Len(r.files)
           /\ \A f \in 1 .. Len(r.files) : \E i \in 1 .. Len(r.tracks) : r.tracks[i].file = f
           /\ Len(r.files) \in Nat \ {0}
           /\ r.tracks[1].file = 1 /\ r.tracks[Len(r.tracks)].file = Len(r.files)
           /\ \A i \in 2 .. Len(r.tracks) :
                 r.tracks[i].file = r.tracks[i - 1].file
                   + (IF FirstInFile(r, i) THEN 1 ELSE 0)
<1> DEFINE n == Len(r.tracks)
           F == [i \in 1 .. n |-> r.tracks[i].file]
           m == Len(r.files)
<1>1. n \in Nat \ {0} /\ m \in Nat /\ \A i \in 1 .. n : F[i] \in Nat
  BY RipFields
<1>2. F[1] = 1 /\ F[n] = m
  <2>1. r.tracks[1].file = 1 /\ Last(r.tracks).file = m
    BY DEF IsRip
  <2> QED BY <1>1, <2>1 DEF Last
<1>3. \A i \in 2 .. n : F[i] = F[i - 1] \/ F[i] = F[i - 1] + 1
  <2> TAKE i \in 2 .. n
  <2>1. r.tracks[i].file - r.tracks[i - 1].file \in {0, 1}
    BY DEF IsRip
  <2>2. i - 1 \in 1 .. n /\ i \in 1 .. n
    OBVIOUS
  <2>3. F[i] - F[i - 1] \in {0, 1} /\ F[i] \in Nat /\ F[i - 1] \in Nat
    BY <1>1, <2>1, <2>2
  <2> HIDE DEF F, n
  <2> QED BY <2>3
<1>4. \A i \in 2 .. n :
         r.tracks[i].file = r.tracks[i - 1].file + (IF FirstInFile(r, i) THEN 1 ELSE 0)
  <2> TAKE i \in 2 .. n
  <2>1. i - 1 \in 1 .. n /\ i \in 1 .. n /\ i # 1
    OBVIOUS
  <2>2. F[i] = r.tracks[i].file /\ F[i - 1] = r.tracks[i - 1].file
    BY <2>1
  <2>3. FirstInFile(r, i) <=> r.tracks[i].file # r.tracks[i - 1].file
    BY <2>1 DEF FirstInFile
  <2>4. F[i] \in Nat /\ F[i - 1] \in Nat
    BY <1>1, <2>1
  <2> HIDE DEF F
  <2> QED BY <1>3, <2>2, <2>3, <2>4
<1> HIDE DEF F
<1>5. \A i, j \in 1 .. n : i <= j => F[i] <= F[j]
  <2> DEFINE k == n - 1
             g == [i \in 0 .. k |-> F[i + 1]]
  <2>1. k \in Nat /\ \A i \in 0 .. k : i + 1 \in 1 .. n
    BY <1>1
  <2>2. \A i \in 0 .. k : g[i] \in Nat
    BY <1>1, <2>1
  <2>3. \A i \in 1 .. k : g[i - 1] <= g[i]
    <3> TAKE i \in 1 .. k
    <3>1. i + 1 \in 2 .. n /\ (i + 1) - 1 = i /\ i - 1 \in 0 .. k /\ i \in 0 .. k
          /\ (i - 1) + 1 = i
      BY <2>1
    <3>2. g[i - 1] = F[i] /\ g[i] = F[i + 1]
      BY <3>1
    <3>3. F[i + 1] = F[i] \/ F[i + 1] = F[i] + 1
      BY <1>3, <3>1
    <3>4. F[i] \in Nat
      BY <1>1, <2>1
    <3> QED BY <3>2, <3>3, <3>4
  <2> HIDE DEF k, g
  <2>4. \A i, j \in 0 .. k : i <= j => g[i] <= g[j]
    BY <2>1, <2>2, <2>3, RowRises
  <2> TAKE i, j \in 1 .. n
  <2> HAVE i <= j
  <2>5. i - 1 \in 0 .. k /\ j - 1 \in 0 .. k /\ i - 1 <= j - 1
        /\ (i - 1) + 1 = i /\ (j - 1) + 1 = j
    BY <1>1 DEF k
  <2>6. g[i - 1] = F[i] /\ g[j - 1] = F[j]
    BY <2>5 DEF g
  <2> QED BY <2>4, <2>5, <2>6
<1>6. \A i \in 1 .. n : F[i] \in 1 .. m
  <2> TAKE i \in 1 .. n
  <2>1. 1 \in 1 .. n /\ n \in 1 .. n /\ 1 <= i /\ i <= n
    BY <1>1
  <2>2. F[1] <= F[i] /\ F[i] <= F[n]
    BY <1>5, <2>1
  <2> QED BY <1>1, <1>2, <2>2
<1>7. \A f \in 1 .. m : \E i \in 1 .. n : F[i] = f
  <2> TAKE f \in 1 .. m
  <2> DEFINE up == {i \in 1 .. n : F[i] >= f}
  <2>1. n \in up /\ up \subseteq Nat
    BY <1>1, <1>2
  <2>2. PICK k \in up : \A l \in up : k <= l
    <3> HIDE DEF up
    <3> QED BY <2>1, LeastNumber
  <2>3. k \in 1 .. n /\ F[k] >= f
    BY <2>2
  <2>4. CASE k = 1
    BY <1>2, <2>3, <2>4
  <2>5. CASE k # 1
    <3>1. k \in 2 .. n /\ k - 1 \in 1 .. n /\ ~(k <= k - 1)
      BY <2>3, <2>5
    <3>2. ~(F[k - 1] >= f)
      BY <2>2, <3>1
    <3>3. F[k] = F[k - 1] \/ F[k] = F[k - 1] + 1
      BY <1>3, <3>1
    <3>4. F[k] \in Nat /\ F[k - 1] \in Nat
      BY <1>1, <3>1
    <3>5. F[k] = f
      BY <2>3, <3>2, <3>3, <3>4
    <3> QED BY <2>3, <3>5
  <2> QED BY <2>4, <2>5
<1>8. m \in Nat \ {0}
  <2>1. 1 \in 1 .. n
    BY <1>1
  <2> QED BY <1>1, <1>6, <2>1
<1>9. \A i \in 1 .. n : F[i] = r.tracks[i].file
  BY DEF F
<1>10. 1 \in 1 .. n /\ n \in 1 .. n
  BY <1>1
<1> HIDE DEF n, m
<1>11. /\ \A i, j \in 1 .. n : i <= j => r.tracks[i].file <= r.tracks[j].file
       /\ \A i \in 1 .. n : r.tracks[i].file \in 1 .. m
       /\ \A f \in 1 .. m : \E i \in 1 .. n : r.tracks[i].file = f
       /\ r.tracks[1].file = 1 /\ r.tracks[n].file = m
  BY Zenon, <1>2, <1>5, <1>6, <1>7, <1>9, <1>10
<1> QED BY <1>4, <1>8, <1>11 DEF n, m

\* The sessions of the tracks follow each other.
LEMMA RipSessionsInOrder ==
    ASSUME NEW r, IsRip(r)
    PROVE  /\ \A i, j \in 1 .. Len(r.tracks) :
                i <= j => r.tracks[i].session <= r.tracks[j].session
           /\ r.tracks[1].session = 1
           /\ \A i \in 1 .. Len(r.tracks) : r.tracks[i].session >= 1
<1> DEFINE n == Len(r.tracks)
           F == [i \in 1 .. n |-> r.tracks[i].session]
<1>1. n \in Nat \ {0} /\ \A i \in 1 .. n : F[i] \in Nat
  BY RipFields
<1>2. F[1] = 1
  <2>1. r.tracks[1].session = 1
    BY DEF IsRip
  <2> QED BY <1>1, <2>1
<1>3. \A i \in 2 .. n : F[i] >= F[i - 1]
  <2> TAKE i \in 2 .. n
  <2>1. r.tracks[i].session >= r.tracks[i - 1].session
    BY DEF IsRip
  <2>2. i - 1 \in 1 .. n /\ i \in 1 .. n
    OBVIOUS
  <2> QED BY <2>1, <2>2
<1> HIDE DEF F
<1>5. \A i, j \in 1 .. n : i <= j => F[i] <= F[j]
  <2> DEFINE k == n - 1
             g == [i \in 0 .. k |-> F[i + 1]]
  <2>1. k \in Nat /\ \A i \in 0 .. k : i + 1 \in 1 .. n
    BY <1>1
  <2>2. \A i \in 0 .. k : g[i] \in Nat
    BY <1>1, <2>1
  <2>3. \A i \in 1 .. k : g[i - 1] <= g[i]
    <3> TAKE i \in 1 .. k
    <3>1. i + 1 \in 2 .. n /\ (i + 1) - 1 = i /\ i - 1 \in 0 .. k /\ i \in 0 .. k
          /\ (i - 1) + 1 = i
      BY <2>1
    <3>2. g[i - 1] = F[i] /\ g[i] = F[i + 1]
      BY <3>1
    <3>3. F[i + 1] >= F[i]
      BY <1>3, <3>1
    <3>4. F[i] \in Nat /\ F[i + 1] \in Nat
      BY <1>1, <2>1, <3>1
    <3> QED BY <3>2, <3>3, <3>4
  <2> HIDE DEF k, g
  <2>4. \A i, j \in 0 .. k : i <= j => g[i] <= g[j]
    BY <2>1, <2>2, <2>3, RowRises
  <2> TAKE i, j \in 1 .. n
  <2> HAVE i <= j
  <2>5. i - 1 \in 0 .. k /\ j - 1 \in 0 .. k /\ i - 1 <= j - 1
        /\ (i - 1) + 1 = i /\ (j - 1) + 1 = j
    BY <1>1 DEF k
  <2>6. g[i - 1] = F[i] /\ g[j - 1] = F[j]
    BY <2>5 DEF g
  <2> QED BY <2>4, <2>5, <2>6
<1>6. \A i \in 1 .. n : F[i] >= 1
  <2> TAKE i \in 1 .. n
  <2>1. 1 \in 1 .. n /\ 1 <= i
    BY <1>1
  <2>2. F[1] <= F[i]
    BY <1>5, <2>1
  <2> QED BY <1>1, <1>2, <2>2
<1>9. \A i \in 1 .. n : F[i] = r.tracks[i].session
  BY DEF F
<1>10. 1 \in 1 .. n
  BY <1>1
<1> HIDE DEF n
<1>11. /\ \A i, j \in 1 .. n : i <= j => r.tracks[i].session <= r.tracks[j].session
       /\ \A i \in 1 .. n : r.tracks[i].session >= 1
       /\ r.tracks[1].session = 1
  BY Zenon, <1>2, <1>5, <1>6, <1>9, <1>10
<1> QED BY <1>11 DEF n

\* The last track of a file has none of it behind.
LEMMA LastInFileFacts ==
    ASSUME NEW r, IsRip(r), NEW f \in 1 .. Len(r.files)
    PROVE  /\ LastInFile(r, f) \in 1 .. Len(r.tracks)
           /\ r.tracks[LastInFile(r, f)].file = f
           /\ \A i \in 1 .. Len(r.tracks) : r.tracks[i].file = f => i <= LastInFile(r, f)
<1> DEFINE n == Len(r.tracks)
           S == {i \in DOMAIN r.tracks : r.tracks[i].file = f}
<1>1. n \in Nat \ {0} /\ DOMAIN r.tracks = 1 .. n
  BY RipFields
<1>2. S # {} /\ S \subseteq 0 .. n
  <2>1. PICK i \in 1 .. n : r.tracks[i].file = f
    BY Zenon, RipFilesInOrder
  <2>2. i \in S
    BY <1>1, <2>1
  <2>3. S \subseteq 1 .. n
    BY <1>1
  <2> HIDE DEF S, n
  <2> QED BY <1>1, <2>2, <2>3
<1>3. LastInFile(r, f) = Max(S)
  BY DEF LastInFile
<1>4. Max(S) \in S /\ \A s \in S : Max(S) >= s
  <2> HIDE DEF S, n
  <2> QED BY <1>1, <1>2, MaxIn
<1> DEFINE k == Max(S)
<1>5. k \in 1 .. n /\ r.tracks[k].file = f
  BY <1>1, <1>4
<1>6. ASSUME NEW i \in 1 .. n, r.tracks[i].file = f PROVE i <= k
  <2>1. i \in S
    BY <1>1, <1>6
  <2>2. k \in Nat /\ i \in Nat /\ k >= i
    <3> HIDE DEF S
    <3> QED BY <1>4, <1>5, <2>1
  <2> HIDE DEF k
  <2> QED BY <2>2
<1> HIDE DEF S, k
<1> QED BY <1>3, <1>5, <1>6 DEF k

-----------------------------------------------------------------------------
(* Where its tracks end, its sheet and the sizes of its files                *)

\* Where the disc and the file stand behind a track, from where they stood before.
Stand == [sectors : Nat, frames : Nat, bytes : Nat]

Behind1(r, i, x) ==
    [sectors |-> x.sectors + Gap(r, i) + Pregap(r, i) + StoredFrames(r, i),
     frames  |-> (IF FirstInFile(r, i) THEN 0 ELSE x.frames) + StoredFrames(r, i),
     bytes   |-> (IF FirstInFile(r, i) THEN 0 ELSE x.bytes) + StoredFrames(r, i) * Size(r, i)]

\* The gap and the pregap of a track are counts.
LEMMA GapsNat ==
    ASSUME NEW r, IsRip(r), NEW i \in 1 .. Len(r.tracks)
    PROVE  Gap(r, i) \in Nat /\ Pregap(r, i) \in Nat
<1>1. r.tracks[i].pregap \in Nat
  BY RipFields
<1>2. SessionGap \in Nat /\ TrackPregap \in Nat
  BY SheetAssumption DEF SheetAssumption
<1> QED BY <1>1, <1>2 DEF Gap, Pregap

LEMMA Behind1Stands ==
    ASSUME NEW r, IsRip(r), NEW i \in 1 .. Len(r.tracks), NEW x \in Stand
    PROVE  Behind1(r, i, x) \in Stand
<1> DEFINE s == StoredFrames(r, i)
           g == Gap(r, i)
           p == Pregap(r, i)
           b == s * Size(r, i)
<1>1. s \in Nat /\ g \in Nat /\ p \in Nat /\ Size(r, i) \in Nat
  BY RipFields, GapsNat
<1>2. b \in Nat
  <2> HIDE DEF s
  <2> QED BY <1>1, TimesNat
<1> DEFINE F == IF FirstInFile(r, i) THEN 0 ELSE x.frames
           B == IF FirstInFile(r, i) THEN 0 ELSE x.bytes
           v == x.sectors + g + p + s
           w == F + s
           u == B + b
<1>3. Behind1(r, i, x) = [sectors |-> v, frames  |-> w, bytes |-> u]
  BY DEF Behind1
<1>4. x.sectors \in Nat /\ F \in Nat /\ B \in Nat
  <2>1. x.sectors \in Nat /\ x.frames \in Nat /\ x.bytes \in Nat
    BY DEF Stand
  <2> QED BY <2>1
<1> HIDE DEF s, g, p, b, F, B
<1>5. v \in Nat /\ w \in Nat /\ u \in Nat
  BY <1>1, <1>2, <1>4
<1> HIDE DEF v, w, u
<1> QED BY <1>3, <1>5 DEF Stand

\* The places along the tracks are counted one from the other.
LEMMA BehindRow ==
    ASSUME NEW r, IsRip(r)
    PROVE  /\ Behind(r)[0] = [sectors |-> 0, frames |-> 0, bytes |-> 0]
           /\ \A i \in 0 .. Len(r.tracks) : Behind(r)[i] \in Stand
           /\ \A i \in 1 .. Len(r.tracks) : Behind(r)[i] = Behind1(r, i, Behind(r)[i - 1])
<1> DEFINE n == Len(r.tracks)
           b == [sectors |-> 0, frames |-> 0, bytes |-> 0]
           G == [i \in 1 .. n |-> [x \in Stand |-> Behind1(r, i, x)]]
           Row(f) == f = [i \in 0 .. n |-> IF i = 0 THEN b ELSE Behind1(r, i, f[i - 1])]
<1>1. n \in Nat /\ b \in Stand
  BY RipFields DEF Stand
<1>2. \A i \in 1 .. n, x \in Stand : Behind1(r, i, x) \in Stand
  BY Behind1Stands
<1>3. Behind(r) = CHOOSE f : Row(f)
  BY DEF Behind, Behind1
<1> HIDE DEF n, b
<1>4. StaysIn(G, n, Stand)
  BY Zenon, <1>2 DEF StaysIn
<1>5. \A i \in 1 .. n, x \in Stand : G[i][x] = Behind1(r, i, x)
  BY Zenon
<1> HIDE DEF G
<1>6. PICK f : IsRow(f, n, b, G)
  BY <1>1, RowExists
<1>7. /\ \A i \in 0 .. n : f[i] \in Stand
      /\ f[0] = b /\ \A i \in 1 .. n : f[i] = G[i][f[i - 1]]
  <2>1. Follows(f, n, b, G, Stand)
    BY <1>1, <1>4, <1>6, RowIn
  <2> QED BY Zenon, <2>1 DEF Follows
<1>8. \A i \in 1 .. n : f[i] = Behind1(r, i, f[i - 1])
  <2>1. \A i \in 1 .. n : i - 1 \in 0 .. n
    BY <1>1
  <2> QED BY Zenon, <1>5, <1>7, <2>1
<1>9. Row(f)
  <2>1. \A i \in 0 .. n : i # 0 => i \in 1 .. n
    BY <1>1
  <2>2. \A i \in 0 .. n : f[i] = IF i = 0 THEN b ELSE Behind1(r, i, f[i - 1])
    BY Zenon, <1>7, <1>8, <2>1
  <2>3. f = [i \in 0 .. n |-> f[i]]
    BY Zenon, <1>6 DEF IsRow
  <2> QED BY Zenon, <2>2, <2>3
<1> DEFINE g == CHOOSE h : Row(h)
<1>10. Row(g)
  BY Zenon, <1>9
<1> HIDE DEF g
<1>11. g[0] = b /\ \A i \in 1 .. n : g[i] = Behind1(r, i, g[i - 1])
  <2>1. 0 \in 0 .. n /\ \A i \in 1 .. n : i \in 0 .. n /\ i # 0
    BY <1>1
  <2> QED BY Zenon, <1>10, <2>1
<1>12. \A i \in 0 .. n : g[i] \in Stand
  <2>1. \A i \in 1 .. n : g[i - 1] \in Stand => g[i] \in Stand
    BY Zenon, <1>2, <1>11
  <2>2. g[0] \in Stand
    BY <1>1, <1>11
  <2> QED BY <1>1, <2>1, <2>2, AlongRow
<1> QED BY <1>3, <1>11, <1>12 DEF g, n, b

\* The frame of its file at which a track begins.
LEMMA FramesBefore ==
    ASSUME NEW r, IsRip(r), NEW i \in 1 .. Len(r.tracks)
    PROVE  /\ Behind(r)[i].frames - StoredFrames(r, i) \in Nat
           /\ Behind(r)[i].frames - StoredFrames(r, i)
                = IF FirstInFile(r, i) THEN 0 ELSE Behind(r)[i - 1].frames
<1> DEFINE s == StoredFrames(r, i)
           b == Behind(r)[i - 1].frames
           c == IF FirstInFile(r, i) THEN 0 ELSE b
           e == Behind(r)[i].frames
<1>1. s \in Nat
  BY RipFields
<1>2. /\ Behind(r)[i] = Behind1(r, i, Behind(r)[i - 1])
      /\ Behind(r)[i - 1] \in Stand
  <2>1. i - 1 \in 0 .. Len(r.tracks)
    BY RipFields
  <2> QED BY <2>1, BehindRow
<1>3. e = c + s
  BY <1>2 DEF Behind1
<1>4. b \in Nat
  BY <1>2 DEF Stand
<1> HIDE DEF b, s, e
<1>5. c \in Nat
  BY <1>4
<1> HIDE DEF c
<1>6. e - s = c
  BY <1>1, <1>3, <1>5
<1> QED BY <1>5, <1>6 DEF e, s, c, b

\* The lines of a track are lines.
LEMMA LinesOfTyped ==
    ASSUME NEW r, IsRip(r), NEW i \in 1 .. Len(r.tracks)
    PROVE  LinesOf(r, i) \in Seq(Lines)
<1> DEFINE t == r.tracks[i]
           at == Behind(r)[i].frames - StoredFrames(r, i)
           If(c, line) == IF c THEN <<line>> ELSE <<>>
           l1 == [cmd |-> "SESSION", number |-> t.session]
           l2 == [cmd |-> "FILE", mode |-> r.files[t.file].mode]
           l3 == [cmd |-> "TRACK", number |-> i, mode |-> t.mode]
           l4 == [cmd |-> "PREGAP", time |-> t.pregap]
           l5 == [cmd |-> "INDEX", number |-> 0, time |-> at]
           l6 == [cmd |-> "INDEX", number |-> 1, time |-> at + t.pause]
           c1 == i > 1 /\ t.session > r.tracks[i - 1].session
           c2 == FirstInFile(r, i)
           c4 == t.pregap > 0
           c5 == t.pause > 0
<1>1. /\ t.mode \in DOMAIN SectorSize /\ t.session \in Nat /\ t.pregap \in Nat
      /\ t.pause \in Nat /\ i \in Nat
      /\ StoredFrames(r, i) \in Nat
  BY RipFields
<1>2. t.file \in 1 .. Len(r.files)
  BY RipFilesInOrder
<1>3. r.files[t.file].mode \in FileModes
  <2> DEFINE f == t.file
  <2>1. f \in 1 .. Len(r.files)
    BY <1>2
  <2> HIDE DEF f
  <2>2. r.files[f].mode \in FileModes
    BY <2>1, RipFields
  <2> QED BY <2>2 DEF f
<1>4. at \in Nat
  BY FramesBefore
<1>5. l1 \in Lines /\ l2 \in Lines /\ l3 \in Lines /\ l4 \in Lines /\ l5 \in Lines /\ l6 \in Lines
  <2>1. l1 \in Lines
    BY <1>1 DEF Lines
  <2>2. l2 \in Lines
    <3> DEFINE m == r.files[t.file].mode
    <3>1. m \in FileModes
      BY <1>3
    <3> HIDE DEF m
    <3>2. [cmd |-> "FILE", mode |-> m] \in Lines
      BY <3>1 DEF Lines
    <3> QED BY <3>2 DEF m
  <2>3. l3 \in Lines
    BY <1>1 DEF Lines
  <2>4. l4 \in Lines
    BY <1>1 DEF Lines
  <2>5. l5 \in Lines
    <3> HIDE DEF at
    <3> QED BY <1>4 DEF Lines
  <2>6. l6 \in Lines
    <3> DEFINE a == at + t.pause
    <3>1. a \in Nat
      <4> HIDE DEF at
      <4> QED BY <1>1, <1>4
    <3> HIDE DEF a
    <3>2. [cmd |-> "INDEX", number |-> 1, time |-> a] \in Lines
      BY <3>1 DEF Lines
    <3> QED BY <3>2 DEF a
  <2> QED BY <2>1, <2>2, <2>3, <2>4, <2>5, <2>6
<1>6. LinesOf(r, i) = If(c1, l1) \o If(c2, l2) \o <<l3>> \o If(c4, l4) \o If(c5, l5) \o <<l6>>
  BY DEF LinesOf
<1> HIDE DEF l1, l2, l3, l4, l5, l6, c1, c2, c4, c5, at
<1>7. \A c, line : line \in Lines => If(c, line) \in Seq(Lines)
  OBVIOUS
<1>8. /\ If(c1, l1) \in Seq(Lines) /\ If(c2, l2) \in Seq(Lines) /\ <<l3>> \in Seq(Lines)
      /\ If(c4, l4) \in Seq(Lines) /\ If(c5, l5) \in Seq(Lines) /\ <<l6>> \in Seq(Lines)
  BY <1>5, <1>7
<1>9. \A a, b \in Seq(Lines) : a \o b \in Seq(Lines)
  OBVIOUS
<1> HIDE DEF If
<1>10. If(c1, l1) \o If(c2, l2) \in Seq(Lines)
  BY <1>8, <1>9
<1>11. If(c1, l1) \o If(c2, l2) \o <<l3>> \in Seq(Lines)
  BY <1>8, <1>9, <1>10
<1>12. If(c1, l1) \o If(c2, l2) \o <<l3>> \o If(c4, l4) \in Seq(Lines)
  BY <1>8, <1>9, <1>11
<1>13. If(c1, l1) \o If(c2, l2) \o <<l3>> \o If(c4, l4) \o If(c5, l5) \in Seq(Lines)
  BY <1>8, <1>9, <1>12
<1> QED BY <1>6, <1>8, <1>9, <1>13

\* The sheet grows by the lines of each track.
LEMMA SheetRow ==
    ASSUME NEW r, IsRip(r)
    PROVE  /\ SheetTo(r)[0] = <<>>
           /\ \A i \in 0 .. Len(r.tracks) : SheetTo(r)[i] \in Seq(Lines)
           /\ \A i \in 1 .. Len(r.tracks) : SheetTo(r)[i] = SheetTo(r)[i - 1] \o LinesOf(r, i)
<1> DEFINE n == Len(r.tracks)
           X == Seq(Lines)
           b == <<>>
           G == [i \in 1 .. n |-> [x \in X |-> x \o LinesOf(r, i)]]
           Row(f) == f = [i \in 0 .. n |-> IF i = 0 THEN b ELSE f[i - 1] \o LinesOf(r, i)]
<1>1. n \in Nat /\ b \in X
  BY RipFields
<1>2. \A i \in 1 .. n, x \in X : x \o LinesOf(r, i) \in X
  <2>1. \A x, y \in X : x \o y \in X
    OBVIOUS
  <2> QED BY <2>1, LinesOfTyped
<1>3. SheetTo(r) = CHOOSE f : Row(f)
  BY DEF SheetTo
<1> HIDE DEF n, b, X
<1>4. StaysIn(G, n, X)
  BY Zenon, <1>2 DEF StaysIn
<1>5. \A i \in 1 .. n, x \in X : G[i][x] = x \o LinesOf(r, i)
  BY Zenon
<1> HIDE DEF G
<1>6. PICK f : IsRow(f, n, b, G)
  BY <1>1, RowExists
<1>7. /\ \A i \in 0 .. n : f[i] \in X
      /\ f[0] = b /\ \A i \in 1 .. n : f[i] = G[i][f[i - 1]]
  <2>1. Follows(f, n, b, G, X)
    BY <1>1, <1>4, <1>6, RowIn
  <2> QED BY Zenon, <2>1 DEF Follows
<1>8. \A i \in 1 .. n : f[i] = f[i - 1] \o LinesOf(r, i)
  <2>1. \A i \in 1 .. n : i - 1 \in 0 .. n
    BY <1>1
  <2> QED BY Zenon, <1>5, <1>7, <2>1
<1>9. Row(f)
  <2>1. \A i \in 0 .. n : i # 0 => i \in 1 .. n
    BY <1>1
  <2>2. \A i \in 0 .. n : f[i] = IF i = 0 THEN b ELSE f[i - 1] \o LinesOf(r, i)
    BY Zenon, <1>7, <1>8, <2>1
  <2>3. f = [i \in 0 .. n |-> f[i]]
    BY Zenon, <1>6 DEF IsRow
  <2> QED BY Zenon, <2>2, <2>3
<1> DEFINE g == CHOOSE h : Row(h)
<1>10. Row(g)
  BY Zenon, <1>9
<1> HIDE DEF g
<1>11. g[0] = b /\ \A i \in 1 .. n : g[i] = g[i - 1] \o LinesOf(r, i)
  <2>1. 0 \in 0 .. n /\ \A i \in 1 .. n : i \in 0 .. n /\ i # 0
    BY <1>1
  <2> QED BY Zenon, <1>10, <2>1
<1>12. \A i \in 0 .. n : g[i] \in X
  <2>1. \A i \in 1 .. n : g[i - 1] \in X => g[i] \in X
    BY Zenon, <1>2, <1>11
  <2>2. g[0] \in X
    BY <1>1, <1>11
  <2> QED BY <1>1, <2>1, <2>2, AlongRow
<1> QED BY <1>3, <1>11, <1>12 DEF g, n, b, X

\* The files of a rip have sizes.
LEMMA SizesTyped ==
    ASSUME NEW r, IsRip(r)
    PROVE  /\ Sizes(r) \in Seq(Nat) /\ Len(Sizes(r)) = Len(r.files)
           /\ \A f \in 1 .. Len(r.files) :
                Sizes(r)[f] = Behind(r)[LastInFile(r, f)].bytes + r.files[f].tail
<1> DEFINE m == Len(r.files)
           S == [f \in 1 .. m |-> Behind(r)[LastInFile(r, f)].bytes + r.files[f].tail]
<1>1. m \in Nat /\ DOMAIN r.files = 1 .. m
  BY RipFields
<1>2. Sizes(r) = S
  BY <1>1 DEF Sizes
<1>3. ASSUME NEW f \in 1 .. m
      PROVE  Behind(r)[LastInFile(r, f)].bytes + r.files[f].tail \in Nat
  <2> DEFINE k == LastInFile(r, f)
  <2>1. k \in 1 .. Len(r.tracks)
    BY LastInFileFacts
  <2>2. k \in 0 .. Len(r.tracks)
    <3> HIDE DEF k
    <3> QED BY <2>1
  <2> HIDE DEF k
  <2>3. Behind(r)[k] \in Stand
    BY <2>2, BehindRow
  <2>4. Behind(r)[k].bytes \in Nat /\ r.files[f].tail \in Nat
    BY <2>3, RipFields DEF Stand
  <2>5. Behind(r)[k].bytes + r.files[f].tail \in Nat
    BY SMTT(20), <2>4
  <2> QED BY <2>5 DEF k
<1> HIDE DEF m
<1>4. S \in [1 .. m -> Nat]
  BY <1>3
<1>5. \A f \in 1 .. m : S[f] = Behind(r)[LastInFile(r, f)].bytes + r.files[f].tail
  BY Zenon
<1> HIDE DEF S
<1>6. S \in Seq(Nat) /\ Len(S) = m
  BY <1>1, <1>4
<1> QED BY <1>2, <1>5, <1>6 DEF m

\* A rip gives a sheet of lines, and sizes.
LEMMA RipsAreTyped ==
    ASSUME NEW r \in Rips
    PROVE  IsRip(r) /\ SheetOf(r) \in Seq(Lines) /\ Sizes(r) \in Seq(Nat)
<1>1. IsRip(r)
  BY RipsAssumption DEF RipsAssumption
<1>2. Len(r.tracks) \in 0 .. Len(r.tracks)
  BY <1>1, RipFields
<1> QED BY <1>1, <1>2, SheetRow, SizesTyped DEF SheetOf

-----------------------------------------------------------------------------
(* The parser behind the lines of a track                                    *)

\* The parser behind the whole of a sheet.
After(sheet, sizes) == Parsers(sheet, sizes)[Len(sheet)]

\* It is a parser, and of no lines the one of the first call.
LEMMA AfterParses ==
    ASSUME NEW sheet \in Seq(Lines), NEW sizes \in Seq(Nat)
    PROVE  /\ After(sheet, sizes) \in Parser
           /\ After(<<>>, sizes) = NextCall(Restart, sizes)
<1>1. Len(sheet) \in 0 .. Len(sheet)
  OBVIOUS
<1>2. <<>> \in Seq(Lines) /\ Len(<<>>) = 0
  OBVIOUS
<1>3. Parsers(<<>>, sizes)[0] = NextCall(Restart, sizes)
  BY <1>2, ParsersParse
<1> QED BY <1>1, <1>2, <1>3, ParsersParse DEF After

\* One more line is one more step.
LEMMA AfterLine ==
    ASSUME NEW sheet \in Seq(Lines), NEW line \in Lines, NEW sizes \in Seq(Nat)
    PROVE  After(sheet \o <<line>>, sizes) = NextLine(After(sheet, sizes), line, sizes)
<1> DEFINE n == Len(sheet)
           longer == sheet \o <<line>>
           f == Parsers(sheet, sizes)
           g == Parsers(longer, sizes)
           bad == {i \in 0 .. n : g[i] # f[i]}
<1>1. /\ n \in Nat /\ longer \in Seq(Lines) /\ Len(longer) = n + 1 /\ longer[n + 1] = line
      /\ \A i \in 1 .. n : longer[i] = sheet[i]
  OBVIOUS
<1>2. f[0] = NextCall(Restart, sizes) /\ \A i \in 1 .. n : f[i] = NextLine(f[i - 1], sheet[i], sizes)
  BY ParsersParse
<1>3. /\ g[0] = NextCall(Restart, sizes)
      /\ \A i \in 1 .. n + 1 : g[i] = NextLine(g[i - 1], longer[i], sizes)
  <2> HIDE DEF n, longer
  <2> QED BY <1>1, ParsersParse
<1>4. After(sheet, sizes) = f[n] /\ After(longer, sizes) = g[n + 1]
  BY <1>1 DEF After
<1> HIDE DEF n, longer, f, g
<1>5. bad = {}
  <2> SUFFICES ASSUME bad # {} PROVE FALSE
    OBVIOUS
  <2>1. PICK k \in bad : \A l \in bad : k <= l
    <3>1. bad \subseteq Nat
      BY <1>1
    <3> HIDE DEF bad
    <3> QED BY <3>1, LeastNumber
  <2>2. k \in 0 .. n /\ g[k] # f[k]
    BY <2>1
  <2>3. k # 0
    BY <1>2, <1>3, <2>2
  <2>4. k \in 1 .. n /\ k \in 1 .. n + 1 /\ k - 1 \in 0 .. n /\ ~(k <= k - 1)
    BY <1>1, <2>2, <2>3
  <2>5. g[k - 1] = f[k - 1]
    BY <2>1, <2>4
  <2>6. f[k] = NextLine(f[k - 1], sheet[k], sizes) /\ g[k] = NextLine(g[k - 1], longer[k], sizes)
        /\ longer[k] = sheet[k]
    BY Zenon, <1>1, <1>2, <1>3, <2>4
  <2> QED BY <2>2, <2>5, <2>6
<1>6. g[n] = f[n]
  <2>1. n \in 0 .. n
    BY <1>1
  <2> QED BY <1>5, <2>1
<1>7. n + 1 \in 1 .. n + 1 /\ (n + 1) - 1 = n
  BY <1>1
<1>8. g[n + 1] = NextLine(g[n], line, sizes)
  <2>1. g[n + 1] = NextLine(g[(n + 1) - 1], longer[n + 1], sizes)
    BY Zenon, <1>3, <1>7
  <2> QED BY <1>1, <1>7, <2>1
<1> QED BY <1>4, <1>6, <1>8 DEF longer

\* A line that a sheet may have.
Maybe(c, p, line, sizes) == IF c THEN NextLine(p, line, sizes) ELSE p

LEMMA AfterIf ==
    ASSUME NEW sheet \in Seq(Lines), NEW line \in Lines, NEW sizes \in Seq(Nat), NEW c
    PROVE  /\ sheet \o (IF c THEN <<line>> ELSE <<>>) \in Seq(Lines)
           /\ After(sheet \o (IF c THEN <<line>> ELSE <<>>), sizes)
                = Maybe(c, After(sheet, sizes), line, sizes)
<1>1. CASE c
  BY <1>1, AfterLine DEF Maybe
<1>2. CASE ~c
  <2>1. sheet \o <<>> = sheet
    OBVIOUS
  <2> QED BY <1>2, <2>1 DEF Maybe
<1> QED BY <1>1, <1>2

\* What the lines of a track make of a parser: those before TRACK, and the rest.
Opened(r, i, sizes, p) ==
    LET t == r.tracks[i]
        a == Maybe(i > 1 /\ t.session > r.tracks[i - 1].session, p,
                   [cmd |-> "SESSION", number |-> t.session], sizes)
    IN  Maybe(FirstInFile(r, i), a, [cmd |-> "FILE", mode |-> r.files[t.file].mode], sizes)

TrackRead(r, i, sizes, q) ==
    LET t  == r.tracks[i]
        at == Behind(r)[i].frames - StoredFrames(r, i)
        a  == NextLine(q, [cmd |-> "TRACK", number |-> i, mode |-> t.mode], sizes)
        b  == Maybe(t.pregap > 0, a, [cmd |-> "PREGAP", time |-> t.pregap], sizes)
        c  == Maybe(t.pause > 0, b, [cmd |-> "INDEX", number |-> 0, time |-> at], sizes)
    IN  NextLine(c, [cmd |-> "INDEX", number |-> 1, time |-> at + t.pause], sizes)

\* The frame of its file at which a track begins, and the file's mode.
LEMMA TrackTimes ==
    ASSUME NEW r, IsRip(r), NEW i \in 1 .. Len(r.tracks)
    PROVE  /\ Behind(r)[i].frames - StoredFrames(r, i) \in Nat
           /\ Behind(r)[i].frames - StoredFrames(r, i)
                = IF FirstInFile(r, i) THEN 0 ELSE Behind(r)[i - 1].frames
           /\ r.tracks[i].file \in 1 .. Len(r.files)
           /\ r.files[r.tracks[i].file].mode \in FileModes
<1>1. StoredFrames(r, i) \in Nat /\ i \in Nat
  BY RipFields
<1>2. r.tracks[i].file \in 1 .. Len(r.files)
  BY RipFilesInOrder
<1>3. r.files[r.tracks[i].file].mode \in FileModes
  <2> DEFINE f == r.tracks[i].file
  <2>1. f \in 1 .. Len(r.files)
    BY <1>2
  <2> HIDE DEF f
  <2>2. r.files[f].mode \in FileModes
    BY <2>1, RipFields
  <2> QED BY <2>2 DEF f
<1>4. /\ Behind(r)[i].frames - StoredFrames(r, i) \in Nat
      /\ Behind(r)[i].frames - StoredFrames(r, i)
           = IF FirstInFile(r, i) THEN 0 ELSE Behind(r)[i - 1].frames
  BY FramesBefore
<1> QED BY <1>2, <1>3, <1>4

Cat(x, y) == x \o y

\* Three lists may be put together in either order.
LEMMA ThreeLists ==
    ASSUME NEW X, NEW x \in Seq(X), NEW y \in Seq(X), NEW z \in Seq(X)
    PROVE  Cat(x, Cat(y, z)) = Cat(Cat(x, y), z) /\ Cat(y, z) \in Seq(X)
  BY ConcatAssociative DEF Cat

\* The parser behind a track, from the one before it.
LEMMA AfterTrack ==
    ASSUME NEW r, IsRip(r), NEW i \in 1 .. Len(r.tracks), NEW sizes \in Seq(Nat)
    PROVE  After(SheetTo(r)[i], sizes)
             = TrackRead(r, i, sizes, Opened(r, i, sizes, After(SheetTo(r)[i - 1], sizes)))
<1> DEFINE t == r.tracks[i]
           at == Behind(r)[i].frames - StoredFrames(r, i)
           If(c, line) == IF c THEN <<line>> ELSE <<>>
           l1 == [cmd |-> "SESSION", number |-> t.session]
           l2 == [cmd |-> "FILE", mode |-> r.files[t.file].mode]
           l3 == [cmd |-> "TRACK", number |-> i, mode |-> t.mode]
           l4 == [cmd |-> "PREGAP", time |-> t.pregap]
           l5 == [cmd |-> "INDEX", number |-> 0, time |-> at]
           l6 == [cmd |-> "INDEX", number |-> 1, time |-> at + t.pause]
           c1 == i > 1 /\ t.session > r.tracks[i - 1].session
           c2 == FirstInFile(r, i)
           c4 == t.pregap > 0
           c5 == t.pause > 0
           s0 == SheetTo(r)[i - 1]
           s1 == s0 \o If(c1, l1)
           s2 == s1 \o If(c2, l2)
           s3 == s2 \o <<l3>>
           s4 == s3 \o If(c4, l4)
           s5 == s4 \o If(c5, l5)
           s6 == s5 \o <<l6>>
<1>1. /\ t.mode \in DOMAIN SectorSize /\ t.session \in Nat /\ t.pregap \in Nat
      /\ t.pause \in Nat /\ i \in Nat /\ i - 1 \in 0 .. Len(r.tracks)
  <2>1. /\ t.mode \in DOMAIN SectorSize /\ t.session \in Nat /\ t.pregap \in Nat
        /\ t.pause \in Nat /\ Len(r.tracks) \in Nat
    BY RipFields
  <2> QED BY <2>1
<1>2. at \in Nat /\ r.files[t.file].mode \in FileModes
  BY TrackTimes
<1>5. l1 \in Lines /\ l2 \in Lines /\ l3 \in Lines /\ l4 \in Lines /\ l5 \in Lines /\ l6 \in Lines
  <2>1. l1 \in Lines
    BY <1>1 DEF Lines
  <2>2. l2 \in Lines
    <3> DEFINE m == r.files[t.file].mode
    <3>1. m \in FileModes
      BY <1>2
    <3> HIDE DEF m
    <3>2. [cmd |-> "FILE", mode |-> m] \in Lines
      BY <3>1 DEF Lines
    <3> QED BY <3>2 DEF m
  <2>3. l3 \in Lines
    BY <1>1 DEF Lines
  <2>4. l4 \in Lines
    BY <1>1 DEF Lines
  <2>5. l5 \in Lines
    <3> HIDE DEF at
    <3> QED BY <1>2 DEF Lines
  <2>6. l6 \in Lines
    <3> DEFINE a == at + t.pause
    <3>1. a \in Nat
      <4> HIDE DEF at
      <4> QED BY <1>1, <1>2
    <3> HIDE DEF a
    <3>2. [cmd |-> "INDEX", number |-> 1, time |-> a] \in Lines
      BY <3>1 DEF Lines
    <3> QED BY <3>2 DEF a
  <2> QED BY <2>1, <2>2, <2>3, <2>4, <2>5, <2>6
<1> DEFINE p0 == After(s0, sizes)
           p1 == Maybe(c1, p0, l1, sizes)
           p2 == Maybe(c2, p1, l2, sizes)
           p3 == NextLine(p2, l3, sizes)
           p4 == Maybe(c4, p3, l4, sizes)
           p5 == Maybe(c5, p4, l5, sizes)
           p6 == NextLine(p5, l6, sizes)
<1>6. s0 \in Seq(Lines) /\ SheetTo(r)[i] = s0 \o LinesOf(r, i)
  BY <1>1, SheetRow
<1>7. LinesOf(r, i) = If(c1, l1) \o If(c2, l2) \o <<l3>> \o If(c4, l4) \o If(c5, l5) \o <<l6>>
  BY DEF LinesOf
<1>8. TrackRead(r, i, sizes, Opened(r, i, sizes, p0)) = p6
  BY DEF TrackRead, Opened
<1> HIDE DEF l1, l2, l3, l4, l5, l6, c1, c2, c4, c5, at, s0, p0
<1>10. \A c, line : line \in Lines => If(c, line) \in Seq(Lines)
  OBVIOUS
<1>11. /\ If(c1, l1) \in Seq(Lines) /\ If(c2, l2) \in Seq(Lines) /\ <<l3>> \in Seq(Lines)
       /\ If(c4, l4) \in Seq(Lines) /\ If(c5, l5) \in Seq(Lines) /\ <<l6>> \in Seq(Lines)
  BY <1>5, <1>10
<1>13. SheetTo(r)[i] = s6
  <2> HIDE DEF If
  <2> DEFINE A == If(c1, l1)
             B == If(c2, l2)
             C == <<l3>>
             D == If(c4, l4)
             E == If(c5, l5)
             F == <<l6>>
  <2>2. /\ A \in Seq(Lines) /\ B \in Seq(Lines) /\ C \in Seq(Lines)
        /\ D \in Seq(Lines) /\ E \in Seq(Lines) /\ F \in Seq(Lines)
    BY Zenon, <1>11
  <2>3. LinesOf(r, i) = A \o B \o C \o D \o E \o F /\ s6 = s0 \o A \o B \o C \o D \o E \o F
    BY Zenon, <1>7
  <2> HIDE DEF A, B, C, D, E, F, s6
  <2>4. s0 \in Seq(Lines)
    BY Zenon, <1>6
  <2> DEFINE u == Cat(A, B)
             v == Cat(u, C)
             w == Cat(v, D)
             z == Cat(w, E)
  <2>11. u \in Seq(Lines) /\ Cat(s0, u) = Cat(Cat(s0, A), B)
    BY <2>2, <2>4, ThreeLists
  <2> HIDE DEF u
  <2>12. v \in Seq(Lines) /\ Cat(s0, v) = Cat(Cat(s0, u), C)
    BY <2>2, <2>4, <2>11, ThreeLists
  <2> HIDE DEF v
  <2>13. w \in Seq(Lines) /\ Cat(s0, w) = Cat(Cat(s0, v), D)
    BY <2>2, <2>4, <2>12, ThreeLists
  <2> HIDE DEF w
  <2>14. z \in Seq(Lines) /\ Cat(s0, z) = Cat(Cat(s0, w), E)
    BY <2>2, <2>4, <2>13, ThreeLists
  <2> HIDE DEF z
  <2>15. Cat(s0, Cat(z, F)) = Cat(Cat(s0, z), F)
    BY <2>2, <2>4, <2>14, ThreeLists
  <2>6. Cat(s0, Cat(Cat(Cat(Cat(Cat(A, B), C), D), E), F))
          = Cat(Cat(Cat(Cat(Cat(Cat(s0, A), B), C), D), E), F)
    BY Zenon, <2>11, <2>12, <2>13, <2>14, <2>15 DEF u, v, w, z
  <2>5. s0 \o (A \o B \o C \o D \o E \o F) = s0 \o A \o B \o C \o D \o E \o F
    BY Zenon, <2>6 DEF Cat
  <2>1. s0 \o LinesOf(r, i) = s6
    BY Zenon, <2>3, <2>5
  <2> QED BY <1>6, <2>1
<1>21. s1 \in Seq(Lines) /\ After(s1, sizes) = p1
  BY <1>5, <1>6, AfterIf DEF p0
<1> HIDE DEF s1, p1
<1>22. s2 \in Seq(Lines) /\ After(s2, sizes) = p2
  BY <1>5, <1>21, AfterIf
<1> HIDE DEF s2, p2
<1>23. s3 \in Seq(Lines) /\ After(s3, sizes) = p3
  BY <1>5, <1>22, AfterLine
<1> HIDE DEF s3, p3
<1>24. s4 \in Seq(Lines) /\ After(s4, sizes) = p4
  BY <1>5, <1>23, AfterIf
<1> HIDE DEF s4, p4
<1>25. s5 \in Seq(Lines) /\ After(s5, sizes) = p5
  BY <1>5, <1>24, AfterIf
<1> HIDE DEF s5, p5
<1>26. After(s6, sizes) = p6
  BY <1>5, <1>25, AfterLine
<1> QED BY <1>8, <1>13, <1>26 DEF p0, s0

\* A parser behind a line that begins a track.
TrackBegun(p, line, q) ==
    /\ q.info.file_index = p.info.file_index /\ q.info.file_mode = p.info.file_mode
    /\ q.info.file_offset = p.info.file_offset
    /\ q.info.track_number = line.number /\ q.info.track_mode = line.mode
    /\ q.info.sector_length = GetSectorLength(p.info.file_mode, line.mode)
    /\ q.info.session = p.session /\ q.info.prev_session_leadout = p.leadout
    /\ q.info.unstored_pregap_length = 0
    /\ q.info.cumulative_offset = p.info.cumulative_offset
    /\ q.info.file_start = p.info.file_start
    /\ q.prevIndex01 = p.prevIndex01 /\ q.session = p.session
    /\ q.leadout = 0 /\ q.tracks = p.tracks
    /\ q.prevFileSize = p.prevFileSize /\ q.prevSectorLength = p.prevSectorLength
    /\ q.prevSession = p.prevSession
    /\ q.sessionGap = IF p.gotFile /\ p.prevSession > 0 /\ p.session > p.prevSession
                      THEN SessionGap ELSE p.sessionGap
    /\ q.index00 = 0 /\ q.index01 = 0
    /\ q.gotFile = p.gotFile /\ q.gotTrack = TRUE
    /\ q.gotData = FALSE /\ q.gotPause = FALSE

\* What a line that begins a track leaves of the parser, and what it sets.
LEMMA TrackLineFields ==
    ASSUME NEW p \in Parser,
           NEW line \in [cmd : {"TRACK"}, number : Nat, mode : DOMAIN SectorSize]
    PROVE  TrackBegun(p, line, TrackLine(p, line))
<1> DEFINE i0 == p.info
           i1 == [i0 EXCEPT !.track_number = line.number, !.track_mode = line.mode,
                           !.sector_length = GetSectorLength(p.info.file_mode, line.mode),
                           !.session = p.session, !.prev_session_leadout = p.leadout,
                           !.unstored_pregap_length = 0, !.data_start = 0, !.track_start = 0]
           gap == IF p.gotFile /\ p.prevSession > 0 /\ p.session > p.prevSession
                                 THEN SessionGap ELSE p.sessionGap
           q == [p EXCEPT !.info = i1, !.sessionGap = gap,
              !.leadout = 0, !.index00 = 0, !.index01 = 0,
              !.gotTrack = TRUE, !.gotData = FALSE, !.gotPause = FALSE]
<1>1. i0 \in Info
  BY DEF Parser
<1>2. TrackLine(p, line) = q
  BY DEF TrackLine
<1> HIDE DEF gap
<1>3. /\ i1.file_index = i0.file_index /\ i1.file_mode = i0.file_mode
      /\ i1.file_offset = i0.file_offset
      /\ i1.track_number = line.number /\ i1.track_mode = line.mode
      /\ i1.sector_length = GetSectorLength(p.info.file_mode, line.mode)
      /\ i1.session = p.session /\ i1.prev_session_leadout = p.leadout
      /\ i1.unstored_pregap_length = 0
      /\ i1.cumulative_offset = i0.cumulative_offset
      /\ i1.file_start = i0.file_start
  <2> HIDE DEF i0
  <2> QED BY <1>1 DEF Info
<1> HIDE DEF i1
<1>4. /\ q.info = i1
      /\ q.prevIndex01 = p.prevIndex01 /\ q.session = p.session
      /\ q.leadout = 0 /\ q.tracks = p.tracks
      /\ q.prevFileSize = p.prevFileSize /\ q.prevSectorLength = p.prevSectorLength
      /\ q.prevSession = p.prevSession
      /\ q.sessionGap = gap
      /\ q.index00 = 0 /\ q.index01 = 0
      /\ q.gotFile = p.gotFile /\ q.gotTrack = TRUE
      /\ q.gotData = FALSE /\ q.gotPause = FALSE
  BY DEF Parser
<1> HIDE DEF q
<1> QED BY Zenon, <1>2, <1>3, <1>4 DEF gap, i0, TrackBegun

\* What the rest of a track's lines leave of its information, and of the parser.
SameTrack(a, b) ==
    /\ b.file_index = a.file_index /\ b.file_mode = a.file_mode
    /\ b.track_number = a.track_number /\ b.track_mode = a.track_mode
    /\ b.session = a.session /\ b.prev_session_leadout = a.prev_session_leadout
    /\ b.sector_length = a.sector_length /\ b.file_start = a.file_start

SameParse(p, q) ==
    /\ q.session = p.session /\ q.leadout = p.leadout /\ q.tracks = p.tracks
    /\ q.prevFileSize = p.prevFileSize /\ q.prevSectorLength = p.prevSectorLength
    /\ q.prevSession = p.prevSession /\ q.sessionGap = p.sessionGap
    /\ q.gotFile = p.gotFile /\ q.gotTrack = p.gotTrack

\* A line that does not complete a track is only parsed.
LEMMA OnlyParsed ==
    ASSUME NEW p, NEW line, NEW sizes, ParseLine(p, line).gotTrack = FALSE
                                       \/ ParseLine(p, line).gotData = FALSE
    PROVE  NextLine(p, line, sizes) = ParseLine(p, line)
<1> DEFINE q == ParseLine(p, line)
<1>1. NextLine(p, line, sizes) = IF q.gotTrack /\ q.gotData THEN NextCall(FinishTrack(q), sizes) ELSE q
  BY DEF NextLine
<1>2. q.gotTrack = FALSE \/ q.gotData = FALSE
  OBVIOUS
<1> HIDE DEF q
<1>3. NextLine(p, line, sizes) = q
  BY <1>1, <1>2
<1> QED BY <1>3 DEF q

\* A line that sets one field of the track's information.
LEMMA InfoSet ==
    ASSUME NEW a \in Info, NEW n \in Nat, NEW v \in Int
    PROVE  /\ LET b == [a EXCEPT !.unstored_pregap_length = n]
              IN  /\ b \in Info /\ SameTrack(a, b) /\ b.unstored_pregap_length = n
                  /\ b.file_offset = a.file_offset /\ b.cumulative_offset = a.cumulative_offset
                  /\ b.data_start = a.data_start /\ b.track_start = a.track_start
           /\ LET b == [a EXCEPT !.track_start = v]
              IN  /\ b \in Info /\ SameTrack(a, b) /\ b.track_start = v
                  /\ b.file_offset = a.file_offset /\ b.cumulative_offset = a.cumulative_offset
                  /\ b.data_start = a.data_start
                  /\ b.unstored_pregap_length = a.unstored_pregap_length
           /\ LET b == [a EXCEPT !.data_start = v]
              IN  /\ b \in Info /\ SameTrack(a, b) /\ b.data_start = v
                  /\ b.file_offset = a.file_offset /\ b.cumulative_offset = a.cumulative_offset
                  /\ b.track_start = a.track_start
                  /\ b.unstored_pregap_length = a.unstored_pregap_length
           /\ LET b == [a EXCEPT !.file_offset = v]
              IN  /\ b \in Info /\ SameTrack(a, b) /\ b.file_offset = v
                  /\ b.data_start = a.data_start /\ b.cumulative_offset = a.cumulative_offset
                  /\ b.track_start = a.track_start
                  /\ b.unstored_pregap_length = a.unstored_pregap_length
           /\ LET b == [a EXCEPT !.cumulative_offset = v]
              IN  /\ b \in Info /\ SameTrack(a, b) /\ b.cumulative_offset = v
                  /\ b.data_start = a.data_start /\ b.file_offset = a.file_offset
                  /\ b.track_start = a.track_start
                  /\ b.unstored_pregap_length = a.unstored_pregap_length
<1>1. LET b == [a EXCEPT !.unstored_pregap_length = n]
      IN  /\ b \in Info /\ SameTrack(a, b) /\ b.unstored_pregap_length = n
          /\ b.file_offset = a.file_offset /\ b.cumulative_offset = a.cumulative_offset
          /\ b.data_start = a.data_start /\ b.track_start = a.track_start
  BY DEF Info, SameTrack
<1>2. LET b == [a EXCEPT !.track_start = v]
      IN  /\ b \in Info /\ SameTrack(a, b) /\ b.track_start = v
          /\ b.file_offset = a.file_offset /\ b.cumulative_offset = a.cumulative_offset
          /\ b.data_start = a.data_start
          /\ b.unstored_pregap_length = a.unstored_pregap_length
  BY DEF Info, SameTrack
<1>3. LET b == [a EXCEPT !.data_start = v]
      IN  /\ b \in Info /\ SameTrack(a, b) /\ b.data_start = v
          /\ b.file_offset = a.file_offset /\ b.cumulative_offset = a.cumulative_offset
          /\ b.track_start = a.track_start
          /\ b.unstored_pregap_length = a.unstored_pregap_length
  BY DEF Info, SameTrack
<1>4. LET b == [a EXCEPT !.file_offset = v]
      IN  /\ b \in Info /\ SameTrack(a, b) /\ b.file_offset = v
          /\ b.data_start = a.data_start /\ b.cumulative_offset = a.cumulative_offset
          /\ b.track_start = a.track_start
          /\ b.unstored_pregap_length = a.unstored_pregap_length
  BY DEF Info, SameTrack
<1>5. LET b == [a EXCEPT !.cumulative_offset = v]
      IN  /\ b \in Info /\ SameTrack(a, b) /\ b.cumulative_offset = v
          /\ b.data_start = a.data_start /\ b.file_offset = a.file_offset
          /\ b.track_start = a.track_start
          /\ b.unstored_pregap_length = a.unstored_pregap_length
  BY DEF Info, SameTrack
<1> QED BY <1>1, <1>2, <1>3, <1>4, <1>5

\* A parser behind the pregap, the pause and the data of a track.
PregapTaken(p, g, q) ==
    /\ q \in Parser /\ SameParse(p, q) /\ SameTrack(p.info, q.info)
    /\ q.info.unstored_pregap_length = g
    /\ q.info.file_offset = p.info.file_offset
    /\ q.info.cumulative_offset = p.info.cumulative_offset
    /\ q.prevIndex01 = p.prevIndex01 /\ q.gotData = FALSE
    /\ q.gotPause = p.gotPause

PauseTaken(p, at, g, q) ==
    /\ q \in Parser /\ SameParse(p, q) /\ SameTrack(p.info, q.info)
    /\ q.info.unstored_pregap_length = p.info.unstored_pregap_length
    /\ q.info.file_offset = p.info.file_offset
    /\ q.info.cumulative_offset = p.info.cumulative_offset
    /\ q.prevIndex01 = p.prevIndex01 /\ q.gotData = FALSE
    /\ q.gotPause = (g > 0)
    /\ g > 0 => /\ q.index00 = at
                /\ q.info.track_start = p.info.file_start + at + p.info.cumulative_offset

DataTaken(p, at, q) ==
    /\ SameParse(p, q) /\ SameTrack(p.info, q.info)
    /\ q.info.unstored_pregap_length = p.info.unstored_pregap_length
    /\ q.info.file_offset = p.info.file_offset
    /\ q.info.cumulative_offset = p.info.cumulative_offset
    /\ q.info.track_start = p.info.track_start
    /\ q.info.data_start = p.info.file_start + at + p.info.cumulative_offset
    /\ q.prevIndex01 = p.prevIndex01
    /\ q.gotPause = p.gotPause /\ q.index00 = p.index00 /\ q.index01 = at

\* The stated pregap of a track.
LEMMA PregapRead ==
    ASSUME NEW p \in Parser, p.gotData = FALSE, p.info.unstored_pregap_length = 0,
           NEW g \in Nat, NEW sizes
    PROVE  PregapTaken(p, g, Maybe(g > 0, p, [cmd |-> "PREGAP", time |-> g], sizes))
<1> DEFINE line == [cmd |-> "PREGAP", time |-> g]
           q == Maybe(g > 0, p, line, sizes)
           i1 == [p.info EXCEPT !.unstored_pregap_length = g]
           r == [p EXCEPT !.info = i1]
<1>1. p.info \in Info
  BY DEF Parser
<1>2. CASE g > 0
  <2>1. ParseLine(p, line) = r
    BY DEF ParseLine
  <2>2. /\ i1 \in Info /\ SameTrack(p.info, i1) /\ i1.unstored_pregap_length = g
        /\ i1.file_offset = p.info.file_offset /\ i1.cumulative_offset = p.info.cumulative_offset
    BY <1>1 DEF Info, SameTrack
  <2> HIDE DEF i1
  <2>3. /\ r \in Parser /\ r.info = i1 /\ SameParse(p, r)
        /\ r.prevIndex01 = p.prevIndex01 /\ r.gotData = FALSE /\ r.gotPause = p.gotPause
    BY <2>2 DEF Parser, SameParse
  <2> HIDE DEF r, line
  <2>4. q = r
    BY <1>2, <2>1, <2>3, OnlyParsed DEF Maybe
  <2> HIDE DEF q
  <2>5. /\ q \in Parser /\ SameParse(p, q) /\ SameTrack(p.info, q.info)
        /\ q.info.unstored_pregap_length = g
        /\ q.info.file_offset = p.info.file_offset
        /\ q.info.cumulative_offset = p.info.cumulative_offset
        /\ q.prevIndex01 = p.prevIndex01 /\ q.gotData = FALSE
        /\ q.gotPause = p.gotPause
    BY Zenon, <2>2, <2>3, <2>4
  <2> QED BY <2>5 DEF q, line, PregapTaken
<1>3. CASE ~(g > 0)
  <2>1. q = p /\ g = 0
    BY <1>3 DEF Maybe
  <2> HIDE DEF q, line
  <2>2. /\ q \in Parser /\ SameParse(p, q) /\ SameTrack(p.info, q.info)
        /\ q.info.unstored_pregap_length = g
        /\ q.info.file_offset = p.info.file_offset
        /\ q.info.cumulative_offset = p.info.cumulative_offset
        /\ q.prevIndex01 = p.prevIndex01 /\ q.gotData = FALSE
        /\ q.gotPause = p.gotPause
    BY <2>1 DEF SameParse, SameTrack
  <2> QED BY <2>2 DEF q, line, PregapTaken
<1> QED BY <1>2, <1>3

\* The beginning of a stored pause.
LEMMA PauseRead ==
    ASSUME NEW p \in Parser, p.gotData = FALSE, p.gotPause = FALSE,
           NEW at \in Nat, NEW g \in Nat, NEW sizes
    PROVE  PauseTaken(p, at, g,
               Maybe(g > 0, p, [cmd |-> "INDEX", number |-> 0, time |-> at], sizes))
<1> DEFINE line == [cmd |-> "INDEX", number |-> 0, time |-> at]
           q == Maybe(g > 0, p, line, sizes)
           lba == p.info.file_start + at + p.info.cumulative_offset
           i1 == [p.info EXCEPT !.track_start = lba]
           r == [p EXCEPT !.info = i1, !.index00 = at, !.gotPause = TRUE]
<1>1. p.info \in Info
  BY DEF Parser
<1>2. CASE g > 0
  <2>1. ParseLine(p, line) = r
    BY DEF ParseLine, IndexLine
  <2>6. lba \in Int
    BY <1>1 DEF Info
  <2> HIDE DEF lba
  <2>2. /\ i1 \in Info /\ SameTrack(p.info, i1) /\ i1.track_start = lba
        /\ i1.file_offset = p.info.file_offset /\ i1.cumulative_offset = p.info.cumulative_offset
        /\ i1.unstored_pregap_length = p.info.unstored_pregap_length
    BY <1>1, <2>6, InfoSet
  <2> HIDE DEF i1
  <2>3. /\ r \in Parser /\ r.info = i1 /\ SameParse(p, r) /\ r.index00 = at
        /\ r.prevIndex01 = p.prevIndex01 /\ r.gotData = FALSE /\ r.gotPause = TRUE
    BY <2>2 DEF Parser, SameParse
  <2> HIDE DEF r, line
  <2>4. q = r
    BY <1>2, <2>1, <2>3, OnlyParsed DEF Maybe
  <2> HIDE DEF q
  <2>7. q.gotPause = (g > 0)
    BY <1>2, <2>3, <2>4
  <2>5. /\ q \in Parser /\ SameParse(p, q) /\ SameTrack(p.info, q.info)
        /\ q.info.unstored_pregap_length = p.info.unstored_pregap_length
        /\ q.info.file_offset = p.info.file_offset
        /\ q.info.cumulative_offset = p.info.cumulative_offset
        /\ q.prevIndex01 = p.prevIndex01 /\ q.gotData = FALSE
        /\ q.gotPause = (g > 0) /\ q.index00 = at /\ q.info.track_start = lba
    BY Zenon, <2>2, <2>3, <2>4, <2>7
  <2> QED BY Zenon, <2>5 DEF q, line, lba, PauseTaken
<1>3. CASE ~(g > 0)
  <2>1. q = p
    BY <1>3 DEF Maybe
  <2> HIDE DEF q, line
  <2>2. /\ q \in Parser /\ SameParse(p, q) /\ SameTrack(p.info, q.info)
        /\ q.info.unstored_pregap_length = p.info.unstored_pregap_length
        /\ q.info.file_offset = p.info.file_offset
        /\ q.info.cumulative_offset = p.info.cumulative_offset
        /\ q.prevIndex01 = p.prevIndex01 /\ q.gotData = FALSE
    BY <2>1 DEF SameParse, SameTrack
  <2>3. q.gotPause = (g > 0)
    <3>1. q.gotPause = FALSE
      BY <2>1
    <3>2. (g > 0) = FALSE
      BY <1>3
    <3> QED BY Zenon, <3>1, <3>2
  <2> QED BY Zenon, <1>3, <2>2, <2>3 DEF q, line, PauseTaken
<1> QED BY <1>2, <1>3

\* The beginning of the data: the track is complete.
LEMMA DataRead ==
    ASSUME NEW p \in Parser, p.gotTrack = TRUE, NEW at \in Nat, NEW sizes
    PROVE  \E q \in Parser :
               /\ NextLine(p, [cmd |-> "INDEX", number |-> 1, time |-> at], sizes)
                    = NextCall(FinishTrack(q), sizes)
               /\ DataTaken(p, at, q)
<1> DEFINE line == [cmd |-> "INDEX", number |-> 1, time |-> at]
           lba == p.info.file_start + at + p.info.cumulative_offset
           i1 == [p.info EXCEPT !.data_start = lba]
           q == [p EXCEPT !.info = i1, !.index01 = at, !.gotData = TRUE]
<1>1. p.info \in Info
  BY DEF Parser
<1>2. ParseLine(p, line) = q
  BY DEF ParseLine, IndexLine
<1>3. lba \in Int
  BY <1>1 DEF Info
<1> HIDE DEF lba
<1>4. /\ i1 \in Info /\ SameTrack(p.info, i1) /\ i1.data_start = lba
      /\ i1.file_offset = p.info.file_offset /\ i1.cumulative_offset = p.info.cumulative_offset
      /\ i1.unstored_pregap_length = p.info.unstored_pregap_length
      /\ i1.track_start = p.info.track_start
  BY ZenonT(30), <1>1, <1>3, InfoSet
<1> HIDE DEF i1
<1>5. /\ q \in Parser /\ q.info = i1 /\ SameParse(p, q) /\ q.index00 = p.index00
      /\ q.index01 = at /\ q.gotData = TRUE
      /\ q.prevIndex01 = p.prevIndex01 /\ q.gotPause = p.gotPause
  BY <1>4 DEF Parser, SameParse
<1>6. q.gotTrack = TRUE
  BY <1>5 DEF SameParse
<1> HIDE DEF q
<1>7. NextLine(p, line, sizes) = NextCall(FinishTrack(q), sizes)
  BY Zenon, <1>2, <1>5, <1>6 DEF NextLine
<1>8. /\ SameTrack(p.info, q.info)
      /\ q.info.unstored_pregap_length = p.info.unstored_pregap_length
      /\ q.info.file_offset = p.info.file_offset
      /\ q.info.cumulative_offset = p.info.cumulative_offset
      /\ q.info.track_start = p.info.track_start
      /\ q.info.data_start = p.info.file_start + at + p.info.cumulative_offset
  BY Zenon, <1>4, <1>5 DEF lba
<1> QED BY Zenon, <1>5, <1>7, <1>8 DEF line, DataTaken

-----------------------------------------------------------------------------
(* The parser behind a track                                                 *)

\* Without an INDEX 00 the pregap lies between the start of the track and its data.
LEMMA PregapPlaced ==
    ASSUME NEW p \in Parser
    PROVE  LET q == PlacePregap(p)
           IN  /\ q \in Parser /\ SameParse(p, q) /\ SameTrack(p.info, q.info)
               /\ q.info.file_offset = p.info.file_offset
               /\ q.info.cumulative_offset = p.info.cumulative_offset
               /\ q.info.unstored_pregap_length = p.info.unstored_pregap_length
               /\ q.info.track_start = IF p.gotPause THEN p.info.track_start ELSE p.info.data_start
               /\ q.info.data_start = p.info.data_start
                    + (IF p.gotPause THEN 0 ELSE p.info.unstored_pregap_length)
               /\ q.prevIndex01 = p.prevIndex01 /\ q.gotPause = p.gotPause
               /\ q.index00 = p.index00 /\ q.index01 = p.index01
<1> DEFINE start == p.info.data_start
           data == p.info.data_start + p.info.unstored_pregap_length
           i0 == p.info
           i1 == [i0 EXCEPT !.track_start = start]
           i2 == [i1 EXCEPT !.data_start = data]
           q == [p EXCEPT !.info = i2]
<1>0. i0 \in Info
  BY DEF Parser
<1>1. start \in Int /\ data \in Int
  BY <1>0 DEF Info
<1>2. CASE p.gotPause
  <2>1. PlacePregap(p) = p
    BY <1>2 DEF PlacePregap
  <2>2. p.info.data_start + 0 = p.info.data_start
    BY <1>1
  <2> QED BY <1>2, <2>1, <2>2 DEF SameParse, SameTrack
<1>3. CASE ~p.gotPause
  <2>1. PlacePregap(p) = q
    <3>1. [p EXCEPT !.info.track_start = p.info.data_start,
                   !.info.data_start = @ + p.info.unstored_pregap_length] = q
      BY <1>0 DEF Parser, Info
    <3> HIDE DEF q
    <3> QED BY <1>3, <3>1 DEF PlacePregap
  <2> HIDE DEF start, data
  <2>2. /\ i1 \in Info /\ SameTrack(i0, i1) /\ i1.track_start = start
        /\ i1.file_offset = i0.file_offset /\ i1.cumulative_offset = i0.cumulative_offset
        /\ i1.unstored_pregap_length = i0.unstored_pregap_length
    <3> HIDE DEF i0
    <3> QED BY <1>0, <1>1 DEF Info, SameTrack
  <2> HIDE DEF i1
  <2>3. /\ i2 \in Info /\ SameTrack(i1, i2) /\ i2.track_start = i1.track_start
        /\ i2.file_offset = i1.file_offset /\ i2.cumulative_offset = i1.cumulative_offset
        /\ i2.unstored_pregap_length = i1.unstored_pregap_length /\ i2.data_start = data
    BY <1>1, <2>2 DEF Info, SameTrack
  <2> HIDE DEF i2
  <2>4. SameTrack(i0, i2)
    <3> HIDE DEF i0
    <3> QED BY Zenon, <2>2, <2>3 DEF SameTrack
  <2>5. /\ q \in Parser /\ SameParse(p, q) /\ q.info = i2
        /\ q.prevIndex01 = p.prevIndex01 /\ q.gotPause = p.gotPause
        /\ q.index00 = p.index00 /\ q.index01 = p.index01
    BY <2>3 DEF Parser, SameParse
  <2> HIDE DEF q
  <2>6. /\ SameTrack(p.info, q.info)
        /\ q.info.file_offset = p.info.file_offset
        /\ q.info.cumulative_offset = p.info.cumulative_offset
        /\ q.info.unstored_pregap_length = p.info.unstored_pregap_length
        /\ q.info.track_start = p.info.data_start
        /\ q.info.data_start = p.info.data_start + p.info.unstored_pregap_length
    BY Zenon, <2>2, <2>3, <2>4, <2>5 DEF i0, start, data
  <2> QED BY Zenon, <1>3, <2>1, <2>5, <2>6
<1> QED BY <1>2, <1>3

\* The gap before a session, and the pregap it is given.
Given(p) ==
    IF p.sessionGap # 0 /\ ~(p.gotPause /\ p.index01 > p.index00)
       /\ p.info.unstored_pregap_length = 0
    THEN TrackPregap ELSE 0

LEMMA SessionPlaced ==
    ASSUME NEW p \in Parser
    PROVE  LET q == PlaceSession(p)
           IN  /\ q \in Parser /\ SameParse(p, q) /\ SameTrack(p.info, q.info)
               /\ q.info.file_offset = p.info.file_offset
               /\ q.info.cumulative_offset = p.info.cumulative_offset + p.sessionGap
               /\ q.info.unstored_pregap_length = p.info.unstored_pregap_length + Given(p)
               /\ q.info.track_start = p.info.track_start + p.sessionGap
               /\ q.info.data_start = p.info.data_start + p.sessionGap + Given(p)
               /\ q.prevIndex01 = p.prevIndex01 /\ q.gotPause = p.gotPause
               /\ q.index00 = p.index00 /\ q.index01 = p.index01
<1> DEFINE stored == p.gotPause /\ p.index01 > p.index00
           pregap == IF ~stored /\ p.info.unstored_pregap_length = 0 THEN TrackPregap ELSE 0
           cumulative == p.info.cumulative_offset + p.sessionGap
           start == p.info.track_start + p.sessionGap
           data == p.info.data_start + p.sessionGap + pregap
           unstored == p.info.unstored_pregap_length + pregap
           i0 == p.info
           i1 == [i0 EXCEPT !.cumulative_offset = cumulative]
           i2 == [i1 EXCEPT !.track_start = start]
           i3 == [i2 EXCEPT !.data_start = data]
           i4 == [i3 EXCEPT !.unstored_pregap_length = unstored]
           q == [p EXCEPT !.info = i4]
<1>0. i0 \in Info /\ p.sessionGap \in Nat
  BY DEF Parser
<1>1. /\ i0.cumulative_offset \in Int /\ i0.unstored_pregap_length \in Nat
      /\ i0.track_start \in Int /\ i0.data_start \in Int
  BY <1>0 DEF Info
<1>2. CASE p.sessionGap = 0
  <2>1. PlaceSession(p) = p
    BY <1>2 DEF PlaceSession
  <2>2. Given(p) = 0
    BY <1>2 DEF Given
  <2>3. /\ p.info.cumulative_offset = p.info.cumulative_offset + p.sessionGap
        /\ p.info.unstored_pregap_length = p.info.unstored_pregap_length + Given(p)
        /\ p.info.track_start = p.info.track_start + p.sessionGap
        /\ p.info.data_start = p.info.data_start + p.sessionGap + Given(p)
    BY <1>1, <1>2, <2>2
  <2>4. SameParse(p, p) /\ SameTrack(p.info, p.info)
    BY DEF SameParse, SameTrack
  <2> QED BY Zenon, <2>1, <2>3, <2>4
<1>3. CASE p.sessionGap # 0
  <2>0. pregap \in Nat /\ pregap = Given(p)
    BY <1>3, SheetAssumption DEF SheetAssumption, Given
  <2> HIDE DEF pregap
  <2>1. [p EXCEPT !.info = i4]
        = [p EXCEPT !.info.cumulative_offset = @ + p.sessionGap,
                    !.info.track_start = @ + p.sessionGap,
                    !.info.data_start = @ + p.sessionGap + pregap,
                    !.info.unstored_pregap_length = @ + pregap]
    BY <1>0 DEF Parser, Info
  <2>2. PlaceSession(p) = q
    <3> HIDE DEF i4, stored
    <3> QED BY <1>3, <2>1 DEF PlaceSession, pregap, stored
  <2>3. cumulative \in Int /\ start \in Int /\ data \in Int /\ unstored \in Nat
    BY <1>0, <1>1, <2>0
  <2> HIDE DEF cumulative, start, data, unstored
  <2>4. /\ i1 \in Info /\ SameTrack(i0, i1) /\ i1.cumulative_offset = cumulative
        /\ i1.file_offset = i0.file_offset
    <3> HIDE DEF i0
    <3> QED BY <1>0, <2>3 DEF Info, SameTrack
  <2> HIDE DEF i1
  <2>5. /\ i2 \in Info /\ SameTrack(i1, i2) /\ i2.cumulative_offset = i1.cumulative_offset
        /\ i2.file_offset = i1.file_offset /\ i2.track_start = start
    BY <2>3, <2>4 DEF Info, SameTrack
  <2> HIDE DEF i2
  <2>6. /\ i3 \in Info /\ SameTrack(i2, i3) /\ i3.cumulative_offset = i2.cumulative_offset
        /\ i3.file_offset = i2.file_offset /\ i3.track_start = i2.track_start
        /\ i3.data_start = data
    BY <2>3, <2>5 DEF Info, SameTrack
  <2> HIDE DEF i3
  <2>7. /\ i4 \in Info /\ SameTrack(i3, i4) /\ i4.cumulative_offset = i3.cumulative_offset
        /\ i4.file_offset = i3.file_offset /\ i4.track_start = i3.track_start
        /\ i4.data_start = i3.data_start /\ i4.unstored_pregap_length = unstored
    BY <2>3, <2>6 DEF Info, SameTrack
  <2> HIDE DEF i4
  <2>8. SameTrack(i0, i4)
    <3> HIDE DEF i0
    <3> QED BY Zenon, <2>4, <2>5, <2>6, <2>7 DEF SameTrack
  <2>9. /\ q \in Parser /\ SameParse(p, q) /\ q.info = i4
        /\ q.prevIndex01 = p.prevIndex01 /\ q.gotPause = p.gotPause
        /\ q.index00 = p.index00 /\ q.index01 = p.index01
    BY <2>7 DEF Parser, SameParse
  <2> HIDE DEF q
  <2>10. /\ SameTrack(p.info, q.info)
         /\ q.info.file_offset = p.info.file_offset
         /\ q.info.cumulative_offset = p.info.cumulative_offset + p.sessionGap
         /\ q.info.unstored_pregap_length = p.info.unstored_pregap_length + Given(p)
         /\ q.info.track_start = p.info.track_start + p.sessionGap
         /\ q.info.data_start = p.info.data_start + p.sessionGap + Given(p)
    BY Zenon, <2>0, <2>4, <2>5, <2>6, <2>7, <2>8, <2>9
       DEF i0, start, data, cumulative, unstored
  <2> QED BY Zenon, <2>2, <2>9, <2>10
<1> QED BY <1>2, <1>3

\* The offset of the data in the file.
LEMMA FilePlaced ==
    ASSUME NEW p \in Parser
    PROVE  LET q == PlaceInFile(p)
           IN  /\ q \in Parser /\ SameParse(p, q) /\ SameTrack(p.info, q.info)
               /\ q.info.file_offset = p.info.file_offset
                    + (IF p.gotFile THEN 0
                       ELSE ((IF p.gotPause THEN p.index00 ELSE p.index01) - p.prevIndex01)
                              * p.prevSectorLength)
                    + (IF p.gotPause THEN (p.index01 - p.index00) * p.info.sector_length ELSE 0)
               /\ q.info.cumulative_offset = p.info.cumulative_offset
               /\ q.info.unstored_pregap_length = p.info.unstored_pregap_length
               /\ q.info.track_start = p.info.track_start
               /\ q.info.data_start = p.info.data_start
               /\ q.prevIndex01 = p.index01
<1> DEFINE before == IF p.gotFile THEN 0
                     ELSE ((IF p.gotPause THEN p.index00 ELSE p.index01) - p.prevIndex01)
                            * p.prevSectorLength
           pause == IF p.gotPause
                    THEN (p.index01 - p.index00) * p.info.sector_length ELSE 0
           offset == p.info.file_offset + before + pause
           i0 == p.info
           i1 == [i0 EXCEPT !.file_offset = offset]
           q == [p EXCEPT !.info = i1, !.prevIndex01 = p.index01]
<1>1. PlaceInFile(p) = q
  BY DEF PlaceInFile
<1>2. q \in Parser
  BY <1>1, PlaceInFileParses
<1>3. i0 \in Info /\ q.info = i1
  BY DEF Parser
<1> HIDE DEF offset
<1>4. /\ SameTrack(i0, i1) /\ i1.file_offset = offset
      /\ i1.cumulative_offset = i0.cumulative_offset
      /\ i1.unstored_pregap_length = i0.unstored_pregap_length
      /\ i1.track_start = i0.track_start /\ i1.data_start = i0.data_start
  <2> HIDE DEF i0
  <2> QED BY <1>3 DEF Info, SameTrack
<1> HIDE DEF i1
<1>5. SameParse(p, q) /\ q.prevIndex01 = p.index01
  BY DEF Parser, SameParse
<1> HIDE DEF q
<1>6. q.info.file_offset = offset
  BY <1>3, <1>4
<1> QED BY Zenon, <1>1, <1>2, <1>3, <1>4, <1>5, <1>6 DEF offset, i0

\* A complete track as it is returned, and the parser at the next call.
Finished(p, sizes, i, q) ==
    /\ q \in Parser /\ q.tracks = Append(p.tracks, i)
    /\ SameTrack(p.info, i) /\ SameTrack(p.info, q.info)
    /\ i.file_offset = p.info.file_offset
         + (IF p.gotFile THEN 0
            ELSE ((IF p.gotPause THEN p.index00 ELSE p.index01) - p.prevIndex01)
                   * p.prevSectorLength)
         + (IF p.gotPause THEN (p.index01 - p.index00) * p.info.sector_length ELSE 0)
    /\ i.unstored_pregap_length = p.info.unstored_pregap_length + Given(p)
    /\ i.track_start = (IF p.gotPause THEN p.info.track_start ELSE p.info.data_start)
         + p.sessionGap
    /\ i.data_start = p.info.data_start
         + (IF p.gotPause THEN 0 ELSE p.info.unstored_pregap_length)
         + p.sessionGap + Given(p)
    /\ q.info.cumulative_offset = p.info.cumulative_offset + p.sessionGap
         + i.unstored_pregap_length
    /\ q.info.file_offset = i.file_offset
    /\ q.info.unstored_pregap_length = i.unstored_pregap_length
    /\ q.info.track_start = i.track_start
    /\ q.info.data_start = i.data_start
    /\ q.prevIndex01 = p.index01 /\ q.session = p.session /\ q.leadout = p.leadout
    /\ q.prevFileSize = FileSize(sizes, i.file_index)
    /\ q.prevSectorLength = GetSectorLength(i.file_mode, i.track_mode)
    /\ q.prevSession = i.session /\ q.sessionGap = 0
    /\ q.gotFile = FALSE /\ q.gotTrack = FALSE /\ q.gotData = FALSE
    /\ q.gotPause = FALSE

LEMMA TrackFinished ==
    ASSUME NEW p \in Parser, NEW sizes \in Seq(Nat)
    PROVE  \E i \in Info : Finished(p, sizes, i, NextCall(FinishTrack(p), sizes))
<1> DEFINE a == PlacePregap(p)
           b == PlaceSession(a)
           c == PlaceInFile(b)
           f == FinishTrack(p)
           q == NextCall(f, sizes)
<1>1. /\ a \in Parser /\ SameParse(p, a) /\ SameTrack(p.info, a.info)
      /\ a.info.file_offset = p.info.file_offset
      /\ a.info.cumulative_offset = p.info.cumulative_offset
      /\ a.info.unstored_pregap_length = p.info.unstored_pregap_length
      /\ a.info.track_start = IF p.gotPause THEN p.info.track_start ELSE p.info.data_start
      /\ a.info.data_start = p.info.data_start
           + (IF p.gotPause THEN 0 ELSE p.info.unstored_pregap_length)
      /\ a.prevIndex01 = p.prevIndex01 /\ a.gotPause = p.gotPause
      /\ a.index00 = p.index00 /\ a.index01 = p.index01
  BY Zenon, PregapPlaced
<1>4. f = [c EXCEPT !.tracks = Append(@, c.info)]
  BY DEF FinishTrack
<1> HIDE DEF a
<1>2. /\ b \in Parser /\ SameParse(a, b) /\ SameTrack(a.info, b.info)
      /\ b.info.file_offset = a.info.file_offset
      /\ b.info.cumulative_offset = a.info.cumulative_offset + a.sessionGap
      /\ b.info.unstored_pregap_length = a.info.unstored_pregap_length + Given(a)
      /\ b.info.track_start = a.info.track_start + a.sessionGap
      /\ b.info.data_start = a.info.data_start + a.sessionGap + Given(a)
      /\ b.prevIndex01 = a.prevIndex01 /\ b.gotPause = a.gotPause
      /\ b.index00 = a.index00 /\ b.index01 = a.index01
  BY Zenon, <1>1, SessionPlaced
<1> HIDE DEF b
<1>3. /\ c \in Parser /\ SameParse(b, c) /\ SameTrack(b.info, c.info)
      /\ c.info.file_offset = b.info.file_offset
           + (IF b.gotFile THEN 0
              ELSE ((IF b.gotPause THEN b.index00 ELSE b.index01) - b.prevIndex01)
                     * b.prevSectorLength)
           + (IF b.gotPause THEN (b.index01 - b.index00) * b.info.sector_length ELSE 0)
      /\ c.info.cumulative_offset = b.info.cumulative_offset
      /\ c.info.unstored_pregap_length = b.info.unstored_pregap_length
      /\ c.info.track_start = b.info.track_start
      /\ c.info.data_start = b.info.data_start
      /\ c.prevIndex01 = b.index01
  BY Zenon, <1>2, FilePlaced
<1> HIDE DEF c
<1>5. /\ f.info = c.info /\ f.tracks = Append(c.tracks, c.info) /\ f.prevIndex01 = c.prevIndex01
      /\ f.session = c.session /\ f.leadout = c.leadout
  BY <1>3, <1>4 DEF Parser
<1>6. c.info \in Info /\ c.tracks \in Seq(Info) /\ Append(c.tracks, c.info) \in Seq(Info)
  BY <1>3 DEF Parser
<1> HIDE DEF f
<1>7. q \in Parser
  <2>1. /\ f.info \in Info /\ f.prevIndex01 \in Nat /\ f.session \in Nat /\ f.leadout \in Nat
        /\ f.tracks \in Seq(Info)
    BY <1>3, <1>5, <1>6 DEF Parser
  <2> QED BY <2>1, NextCallParses
<1> DEFINE i == c.info
           j == [i EXCEPT !.cumulative_offset = i.cumulative_offset + i.unstored_pregap_length]
<1>8. /\ q.info = [f.info EXCEPT !.cumulative_offset = @ + f.info.unstored_pregap_length]
      /\ q.tracks = f.tracks /\ q.prevIndex01 = f.prevIndex01
      /\ q.session = f.session /\ q.leadout = f.leadout
      /\ q.prevFileSize = FileSize(sizes, f.info.file_index)
      /\ q.prevSectorLength = GetSectorLength(f.info.file_mode, f.info.track_mode)
      /\ q.prevSession = f.info.session /\ q.sessionGap = 0
      /\ q.gotFile = FALSE /\ q.gotTrack = FALSE /\ q.gotData = FALSE
      /\ q.gotPause = FALSE
  BY DEF NextCall
<1> HIDE DEF q
<1>9. q.info = j
  BY <1>5, <1>6, <1>8 DEF Info
<1> HIDE DEF i
<1>10. i \in Info
  BY <1>6 DEF i
<1>11. /\ SameTrack(i, j) /\ j.file_offset = i.file_offset
       /\ j.cumulative_offset = i.cumulative_offset + i.unstored_pregap_length
       /\ j.unstored_pregap_length = i.unstored_pregap_length
       /\ j.track_start = i.track_start /\ j.data_start = i.data_start
  BY <1>10 DEF Info, SameTrack
<1> HIDE DEF j
<1>12. a.sessionGap = p.sessionGap /\ b.gotFile = p.gotFile
       /\ b.prevSectorLength = p.prevSectorLength /\ c.tracks = p.tracks
       /\ c.session = p.session /\ c.leadout = p.leadout
  BY Zenon, <1>1, <1>2, <1>3 DEF SameParse
<1>13. Given(a) = Given(p)
  BY Zenon, <1>1, <1>12 DEF Given
<1>14. /\ SameTrack(p.info, i) /\ b.info.sector_length = p.info.sector_length
  BY Zenon, <1>1, <1>2, <1>3 DEF SameTrack, i
<1>15. SameTrack(p.info, q.info)
  BY Zenon, <1>9, <1>11, <1>14 DEF SameTrack
<1>16. /\ b.gotPause = p.gotPause /\ b.index00 = p.index00 /\ b.index01 = p.index01
       /\ b.prevIndex01 = p.prevIndex01 /\ b.info.file_offset = p.info.file_offset
  BY Zenon, <1>1, <1>2
<1>17. i.file_offset = p.info.file_offset
         + (IF p.gotFile THEN 0
            ELSE ((IF p.gotPause THEN p.index00 ELSE p.index01) - p.prevIndex01)
                   * p.prevSectorLength)
         + (IF p.gotPause THEN (p.index01 - p.index00) * p.info.sector_length ELSE 0)
  BY Zenon, <1>3, <1>12, <1>14, <1>16 DEF i
<1>18. /\ i.unstored_pregap_length = p.info.unstored_pregap_length + Given(p)
       /\ i.track_start = (IF p.gotPause THEN p.info.track_start ELSE p.info.data_start)
            + p.sessionGap
       /\ i.data_start = p.info.data_start
            + (IF p.gotPause THEN 0 ELSE p.info.unstored_pregap_length)
            + p.sessionGap + Given(p)
       /\ i.cumulative_offset = p.info.cumulative_offset + p.sessionGap
  BY Zenon, <1>1, <1>2, <1>3, <1>12, <1>13 DEF i
<1>19. /\ q.tracks = Append(p.tracks, i)
       /\ q.info.cumulative_offset = p.info.cumulative_offset + p.sessionGap
                    + i.unstored_pregap_length
       /\ q.info.file_offset = i.file_offset
       /\ q.info.unstored_pregap_length = i.unstored_pregap_length
       /\ q.info.track_start = i.track_start
       /\ q.info.data_start = i.data_start
       /\ q.prevIndex01 = p.index01 /\ q.session = p.session /\ q.leadout = p.leadout
  BY Zenon, <1>3, <1>5, <1>8, <1>9, <1>11, <1>12, <1>16, <1>18 DEF i
<1>20. /\ q.prevFileSize = FileSize(sizes, i.file_index)
       /\ q.prevSectorLength = GetSectorLength(i.file_mode, i.track_mode)
       /\ q.prevSession = i.session
  BY Zenon, <1>5, <1>8 DEF i
<1> HIDE DEF f
<1>21. Finished(p, sizes, i, q)
  BY Zenon, <1>7, <1>8, <1>14, <1>15, <1>17, <1>18, <1>19, <1>20 DEF Finished
<1> QED BY Zenon, <1>10, <1>21 DEF q, f

\* What a FILE line leaves of the parser, and what it sets.
LEMMA FileLineFields ==
    ASSUME NEW p \in Parser, NEW line \in [cmd : {"FILE"}, mode : FileModes]
    PROVE  LET q == FileLine(p, line)
           IN  /\ q \in Parser
               /\ q.info.file_index = p.info.file_index + 1 /\ q.info.file_mode = line.mode
               /\ q.info.file_offset = 0
               /\ q.info.cumulative_offset = p.info.cumulative_offset
               /\ q.info.file_start = IF p.info.file_index > 0
                                      THEN p.info.data_start + LastTrackBlocks(p)
                                             - p.info.cumulative_offset
                                      ELSE p.info.file_start
               /\ q.prevIndex01 = 0 /\ q.session = p.session
               /\ q.leadout = p.leadout /\ q.tracks = p.tracks
               /\ q.prevSession = p.prevSession /\ q.sessionGap = p.sessionGap
               /\ q.gotFile = TRUE /\ q.gotTrack = p.gotTrack
               /\ q.gotData = p.gotData /\ q.gotPause = p.gotPause
<1> DEFINE start == IF p.info.file_index > 0
                    THEN p.info.data_start + LastTrackBlocks(p) - p.info.cumulative_offset
                    ELSE p.info.file_start
           i0 == p.info
           i1 == [i0 EXCEPT !.file_start = start, !.file_mode = line.mode, !.file_offset = 0,
                            !.file_index = @ + 1, !.track_mode = "AUDIO"]
           q == [p EXCEPT !.info = i1, !.prevIndex01 = 0,
                          !.prevSectorLength = GetSectorLength(line.mode, "AUDIO"),
                          !.gotFile = TRUE]
<1>1. i0 \in Info
  BY DEF Parser
<1>2. FileLine(p, line) = q
  BY DEF FileLine
<1>3. q \in Parser
  BY <1>2, FileLineParses
<1> HIDE DEF start
<1>4. /\ i1.file_index = i0.file_index + 1 /\ i1.file_mode = line.mode
      /\ i1.file_offset = 0 /\ i1.cumulative_offset = i0.cumulative_offset
      /\ i1.file_start = start
  <2> HIDE DEF i0
  <2> QED BY <1>1 DEF Info
<1> HIDE DEF i1
<1>5. /\ q.info = i1 /\ q.prevIndex01 = 0 /\ q.session = p.session
      /\ q.leadout = p.leadout /\ q.tracks = p.tracks
      /\ q.prevSession = p.prevSession /\ q.sessionGap = p.sessionGap
      /\ q.gotFile = TRUE /\ q.gotTrack = p.gotTrack
      /\ q.gotData = p.gotData /\ q.gotPause = p.gotPause
  BY DEF Parser
<1> HIDE DEF q
<1> QED BY Zenon, <1>2, <1>3, <1>4, <1>5 DEF start, i0

\* A SESSION line only sets the session.
SessionTaken(p, s, q) ==
    /\ q \in Parser /\ q.info = p.info /\ q.session = s
    /\ q.prevIndex01 = p.prevIndex01
    /\ q.leadout = p.leadout /\ q.tracks = p.tracks
    /\ q.prevFileSize = p.prevFileSize /\ q.prevSectorLength = p.prevSectorLength
    /\ q.prevSession = p.prevSession /\ q.sessionGap = p.sessionGap
    /\ q.gotFile = p.gotFile /\ q.gotTrack = p.gotTrack
    /\ q.gotData = p.gotData /\ q.gotPause = p.gotPause

LEMMA SessionRead ==
    ASSUME NEW p \in Parser, p.gotTrack = FALSE, NEW s \in Nat \ {0}, NEW c, NEW sizes,
           ~c => p.session = s
    PROVE  SessionTaken(p, s, Maybe(c, p, [cmd |-> "SESSION", number |-> s], sizes))
<1> DEFINE line == [cmd |-> "SESSION", number |-> s]
           r == [p EXCEPT !.session = s]
           q == Maybe(c, p, line, sizes)
<1>1. ParseLine(p, line) = r
  <2>1. line.cmd = "SESSION" /\ line.number = s /\ s >= 1
    OBVIOUS
  <2> HIDE DEF line
  <2> QED BY <2>1 DEF ParseLine
<1>2. /\ r \in Parser /\ r.info = p.info /\ r.session = s
      /\ r.prevIndex01 = p.prevIndex01
      /\ r.leadout = p.leadout /\ r.tracks = p.tracks
      /\ r.prevFileSize = p.prevFileSize /\ r.prevSectorLength = p.prevSectorLength
      /\ r.prevSession = p.prevSession /\ r.sessionGap = p.sessionGap
      /\ r.gotFile = p.gotFile /\ r.gotTrack = p.gotTrack
      /\ r.gotData = p.gotData /\ r.gotPause = p.gotPause
  BY DEF Parser
<1> HIDE DEF r, line
<1>3. CASE c
  <2>1. q = r
    BY <1>1, <1>2, <1>3, OnlyParsed DEF Maybe
  <2> QED BY Zenon, <1>2, <2>1 DEF line, SessionTaken
<1>4. CASE ~c
  <2>1. q = p
    BY <1>4 DEF Maybe
  <2> QED BY Zenon, <1>4, <2>1 DEF line, SessionTaken
<1> QED BY <1>3, <1>4

\* The parser behind a track, in terms of the one before the TRACK line.
TrackTaken(t, n, at, sizes, q, i, p) ==
    LET lba == q.info.file_start + at + q.info.cumulative_offset
        gap == IF q.gotFile /\ q.prevSession > 0 /\ q.session > q.prevSession
               THEN SessionGap ELSE 0
        given == IF gap # 0 /\ t.pause = 0 /\ t.pregap = 0 THEN TrackPregap ELSE 0
    IN  /\ p \in Parser /\ p.tracks = Append(q.tracks, i) /\ SameTrack(i, p.info)
        /\ i.file_index = q.info.file_index /\ i.file_mode = q.info.file_mode
        /\ i.track_number = n /\ i.track_mode = t.mode /\ i.session = q.session
        /\ i.prev_session_leadout = q.leadout
        /\ i.sector_length = GetSectorLength(q.info.file_mode, t.mode)
        /\ i.file_start = q.info.file_start
        /\ i.file_offset = q.info.file_offset
             + (IF q.gotFile THEN 0 ELSE (at - q.prevIndex01) * q.prevSectorLength)
             + t.pause * i.sector_length
        /\ i.unstored_pregap_length = t.pregap + given
        /\ i.track_start = lba + gap
        /\ i.data_start = lba + t.pause + t.pregap + gap + given
        /\ p.info.cumulative_offset = q.info.cumulative_offset + gap + i.unstored_pregap_length
        /\ p.info.file_offset = i.file_offset
        /\ p.info.unstored_pregap_length = i.unstored_pregap_length
        /\ p.info.track_start = i.track_start /\ p.info.data_start = i.data_start
        /\ p.prevIndex01 = at + t.pause /\ p.session = q.session /\ p.leadout = 0
        /\ p.prevFileSize = FileSize(sizes, i.file_index)
        /\ p.prevSectorLength = GetSectorLength(i.file_mode, i.track_mode)
        /\ p.prevSession = i.session /\ p.sessionGap = 0
        /\ p.gotFile = FALSE /\ p.gotTrack = FALSE /\ p.gotData = FALSE
        /\ p.gotPause = FALSE

LEMMA TrackReads ==
    ASSUME NEW r, IsRip(r), NEW n \in 1 .. Len(r.tracks), NEW sizes \in Seq(Nat),
           NEW q \in Parser, q.sessionGap = 0, q.gotData = FALSE, q.gotPause = FALSE
    PROVE  \E i \in Info :
               TrackTaken(r.tracks[n], n, Behind(r)[n].frames - StoredFrames(r, n), sizes,
                          q, i, TrackRead(r, n, sizes, q))
<1> DEFINE t  == r.tracks[n]
           mode == t.mode
           pregap == t.pregap
           pause == t.pause
           at == Behind(r)[n].frames - StoredFrames(r, n)
           line == [cmd |-> "TRACK", number |-> n, mode |-> mode]
           a  == NextLine(q, line, sizes)
           b  == Maybe(pregap > 0, a, [cmd |-> "PREGAP", time |-> pregap], sizes)
           c  == Maybe(pause > 0, b, [cmd |-> "INDEX", number |-> 0, time |-> at], sizes)
           d  == at + pause
           p  == NextLine(c, [cmd |-> "INDEX", number |-> 1, time |-> d], sizes)
           gap == IF q.gotFile /\ q.prevSession > 0 /\ q.session > q.prevSession
                  THEN SessionGap ELSE 0
           given == IF gap # 0 /\ pause = 0 /\ pregap = 0 THEN TrackPregap ELSE 0
           lba == q.info.file_start + at + q.info.cumulative_offset
<1>1. /\ n \in Nat /\ mode \in DOMAIN SectorSize /\ pregap \in Nat /\ pause \in Nat
      /\ pregap = 0 \/ pause = 0
  BY RipFields
<1>2. at \in Nat
  BY TrackTimes
<1>3. TrackRead(r, n, sizes, q) = p
  BY DEF TrackRead
<1>4. SessionGap \in Nat /\ TrackPregap \in Nat
  BY SheetAssumption DEF SheetAssumption
<1> HIDE DEF t, mode, pregap, pause, at
<1>5. d \in Nat
  BY <1>1, <1>2
<1>6. line \in [cmd : {"TRACK"}, number : Nat, mode : DOMAIN SectorSize]
  BY <1>1
<1>7. a = TrackLine(q, line)
  <2>1. line.cmd = "TRACK"
    OBVIOUS
  <2> HIDE DEF line, a
  <2>2. ParseLine(q, line) = TrackLine(q, line)
    BY <2>1 DEF ParseLine
  <2>3. TrackLine(q, line).gotData = FALSE
    <3>1. TrackBegun(q, line, TrackLine(q, line))
      BY Zenon, <1>6, TrackLineFields
    <3> QED BY Zenon, <3>1 DEF TrackBegun
  <2> QED BY <2>2, <2>3, OnlyParsed DEF a
<1>8. a \in Parser
  BY <1>6, <1>7, TrackLineParses
<1>9. TrackBegun(q, line, a)
  <2> HIDE DEF line, a
  <2> QED BY Zenon, <1>6, <1>7, TrackLineFields
<1>90. /\ a.info.file_index = q.info.file_index /\ a.info.file_mode = q.info.file_mode
       /\ a.info.file_offset = q.info.file_offset
       /\ a.info.track_number = n /\ a.info.track_mode = mode
       /\ a.info.sector_length = GetSectorLength(q.info.file_mode, mode)
       /\ a.info.session = q.session /\ a.info.prev_session_leadout = q.leadout
       /\ a.info.unstored_pregap_length = 0
       /\ a.info.cumulative_offset = q.info.cumulative_offset
       /\ a.info.file_start = q.info.file_start
       /\ a.prevIndex01 = q.prevIndex01 /\ a.session = q.session
       /\ a.leadout = 0 /\ a.tracks = q.tracks
       /\ a.prevSectorLength = q.prevSectorLength
       /\ a.gotFile = q.gotFile /\ a.gotTrack = TRUE
       /\ a.gotData = FALSE /\ a.gotPause = FALSE
  <2>1. line.number = n /\ line.mode = mode
    OBVIOUS
  <2> HIDE DEF line, a
  <2> QED BY Zenon, <1>9, <2>1 DEF TrackBegun
<1>91. a.sessionGap = gap
  <2>1. a.sessionGap = IF q.gotFile /\ q.prevSession > 0 /\ q.session > q.prevSession
                       THEN SessionGap ELSE q.sessionGap
    <3> HIDE DEF line, a
    <3> QED BY Zenon, <1>9 DEF TrackBegun
  <2> HIDE DEF line, a
  <2> QED BY Zenon, <2>1
<1> HIDE DEF a, gap
<1>10. PregapTaken(a, pregap, b)
  BY <1>1, <1>8, <1>90, PregapRead
<1> HIDE DEF b
<1>100. b \in Parser /\ b.gotData = FALSE /\ b.gotPause = FALSE
  BY Zenon, <1>10, <1>90 DEF PregapTaken
<1>11. PauseTaken(b, at, pause, c)
  BY <1>1, <1>2, <1>100, PauseRead
<1> HIDE DEF c
<1>12. SameParse(a, c) /\ SameTrack(a.info, c.info)
  BY Zenon, <1>10, <1>11 DEF SameParse, SameTrack, PregapTaken, PauseTaken
<1>13. c.gotTrack = TRUE /\ c \in Parser
  BY Zenon, <1>90, <1>11, <1>12 DEF SameParse, PauseTaken
<1>14. PICK e \in Parser :
               /\ p = NextCall(FinishTrack(e), sizes)
               /\ DataTaken(c, d, e)
  <2> HIDE DEF d
  <2> QED BY <1>5, <1>13, DataRead
<1> HIDE DEF p
<1>15. SameParse(a, e) /\ SameTrack(a.info, e.info)
  BY Zenon, <1>12, <1>14 DEF SameParse, SameTrack, DataTaken
<1>16. /\ e.info.file_index = q.info.file_index /\ e.info.file_mode = q.info.file_mode
       /\ e.info.track_number = n /\ e.info.track_mode = mode
       /\ e.info.sector_length = GetSectorLength(q.info.file_mode, mode)
       /\ e.info.session = q.session /\ e.info.prev_session_leadout = q.leadout
       /\ e.info.file_start = q.info.file_start
       /\ e.session = q.session
       /\ e.leadout = 0 /\ e.tracks = q.tracks
       /\ e.prevSectorLength = q.prevSectorLength
       /\ e.sessionGap = gap
       /\ e.gotFile = q.gotFile
  BY Zenon, <1>90, <1>91, <1>15 DEF SameParse, SameTrack
<1>160. /\ b.info.file_start = q.info.file_start /\ c.info.file_start = q.info.file_start
        /\ b.info.cumulative_offset = q.info.cumulative_offset
        /\ c.info.cumulative_offset = q.info.cumulative_offset
        /\ c.info.file_offset = q.info.file_offset
        /\ c.info.unstored_pregap_length = pregap
        /\ c.prevIndex01 = q.prevIndex01
        /\ c.gotPause = (pause > 0)
        /\ pause > 0 => c.index00 = at /\ c.info.track_start = lba
  BY Zenon, <1>90, <1>10, <1>11 DEF SameTrack, PregapTaken, PauseTaken
<1>17. /\ e.info.file_offset = q.info.file_offset
       /\ e.info.unstored_pregap_length = pregap
       /\ e.info.cumulative_offset = q.info.cumulative_offset
       /\ e.info.data_start = q.info.file_start + d + q.info.cumulative_offset
       /\ e.gotPause = (pause > 0) /\ e.index01 = d
       /\ e.prevIndex01 = q.prevIndex01
       /\ pause > 0 => e.index00 = at /\ e.info.track_start = lba
  BY Zenon, <1>160, <1>14 DEF DataTaken
<1>18. PICK i \in Info : Finished(e, sizes, i, p)
  BY Zenon, <1>14, TrackFinished
<1>20. /\ q.info.file_start \in Int /\ q.info.cumulative_offset \in Int
       /\ i.sector_length \in Nat /\ gap \in Nat
  <2>1. q.info \in Info
    BY DEF Parser
  <2> QED BY <1>4, <2>1 DEF Info, gap
<1>19. i.sector_length = e.info.sector_length
  BY Zenon, <1>18 DEF SameTrack, Finished
<1>21. Given(e) = given
  <2>1. (e.gotPause /\ e.index01 > e.index00) <=> pause > 0
    <3>1. CASE pause > 0
      <4>1. e.index01 > e.index00
        BY <1>1, <1>2, <1>17, <3>1
      <4> QED BY <1>17, <3>1, <4>1
    <3>2. CASE ~(pause > 0)
      BY <1>17, <3>2
    <3> QED BY <3>1, <3>2
  <2>2. pause > 0 <=> ~(pause = 0)
    BY <1>1
  <2> QED BY Zenon, <1>16, <1>17, <2>1, <2>2 DEF Given
<1> HIDE DEF given
<1> DEFINE first == IF e.gotPause THEN e.index00 ELSE e.index01
           within == IF e.gotPause THEN (e.index01 - e.index00) * e.info.sector_length ELSE 0
           start == IF e.gotPause THEN e.info.track_start ELSE e.info.data_start
           rest == IF e.gotPause THEN 0 ELSE e.info.unstored_pregap_length
<1>22. first = at /\ within = pause * i.sector_length /\ start = lba
       /\ e.info.data_start + rest = lba + pause + pregap
  <2>1. e.info.data_start = lba + pause
    <3>1. e.info.data_start = q.info.file_start + d + q.info.cumulative_offset
      BY Zenon, <1>17
    <3> DEFINE fs == q.info.file_start
               co == q.info.cumulative_offset
    <3>2. fs \in Int /\ co \in Int
      BY <1>20
    <3> HIDE DEF fs, co
    <3>3. fs + (at + pause) + co = fs + at + co + pause
      BY <1>1, <1>2, <3>2
    <3> QED BY Zenon, <3>1, <3>3 DEF fs, co
  <2>2. CASE pause > 0
    <3>1. e.gotPause = TRUE
      BY <1>17, <2>2
    <3>2. first = e.index00 /\ start = e.info.track_start /\ rest = 0
          /\ within = (e.index01 - e.index00) * e.info.sector_length
      BY Zenon, <3>1
    <3> HIDE DEF first, start, rest, within
    <3>3. e.index01 - e.index00 = pause
      <4>1. e.index01 = at + pause /\ e.index00 = at
        BY Zenon, <1>17, <2>2
      <4> QED BY <1>1, <1>2, <4>1
    <3>4. e.info.data_start + rest = lba + pause + pregap
      BY <1>1, <1>2, <1>20, <2>1, <2>2, <3>2
    <3> HIDE DEF lba
    <3> QED BY Zenon, <1>17, <1>19, <2>2, <3>2, <3>3, <3>4
  <2>3. CASE ~(pause > 0)
    <3>1. e.gotPause = FALSE
      <4>1. (pause > 0) = FALSE
        BY <2>3
      <4> QED BY Zenon, <1>17, <4>1
    <3>2. first = e.index01 /\ start = e.info.data_start /\ rest = pregap
          /\ within = 0
      BY Zenon, <1>17, <3>1
    <3> HIDE DEF first, start, rest, within
    <3>3. pause = 0
      BY <1>1, <2>3
    <3>4. e.info.data_start + rest = lba + pause + pregap
      BY <2>1, <3>2
    <3>5. 0 * i.sector_length = 0
      BY <1>20
    <3>6. e.index01 = at /\ e.info.data_start = lba
      BY <1>2, <1>17, <1>20, <2>1, <3>3
    <3> HIDE DEF lba
    <3> QED BY Zenon, <3>2, <3>3, <3>4, <3>5, <3>6
  <2> QED BY <2>2, <2>3
<1> HIDE DEF lba, d
<1>23. /\ i.file_offset = e.info.file_offset
            + (IF e.gotFile THEN 0 ELSE (first - e.prevIndex01) * e.prevSectorLength)
            + within
       /\ i.unstored_pregap_length = e.info.unstored_pregap_length + Given(e)
       /\ i.track_start = start + e.sessionGap
       /\ i.data_start = e.info.data_start + rest + e.sessionGap + Given(e)
  BY Zenon, <1>18 DEF Finished
<1> HIDE DEF first, within, start, rest
<1>26. SameTrack(i, p.info) /\ p \in Parser
  BY Zenon, <1>18 DEF SameTrack, Finished
<1>27. /\ i.file_index = q.info.file_index /\ i.file_mode = q.info.file_mode
       /\ i.track_number = n /\ i.track_mode = mode /\ i.session = q.session
       /\ i.prev_session_leadout = q.leadout
       /\ i.sector_length = GetSectorLength(q.info.file_mode, mode)
       /\ i.file_start = q.info.file_start
  <2>1. SameTrack(e.info, i)
    BY Zenon, <1>18 DEF Finished
  <2> QED BY Zenon, <1>16, <2>1 DEF SameTrack
<1>28. /\ i.file_offset = q.info.file_offset
            + (IF q.gotFile THEN 0 ELSE (at - q.prevIndex01) * q.prevSectorLength)
            + pause * i.sector_length
       /\ i.unstored_pregap_length = pregap + given
       /\ i.track_start = lba + gap
       /\ i.data_start = lba + pause + pregap + gap + given
  BY Zenon, <1>16, <1>17, <1>21, <1>22, <1>23
<1>29. /\ p.tracks = Append(q.tracks, i)
       /\ p.info.cumulative_offset = q.info.cumulative_offset + gap + i.unstored_pregap_length
       /\ p.info.file_offset = i.file_offset
       /\ p.info.unstored_pregap_length = i.unstored_pregap_length
       /\ p.info.track_start = i.track_start /\ p.info.data_start = i.data_start
       /\ p.prevIndex01 = at + pause /\ p.session = q.session /\ p.leadout = 0
       /\ p.prevFileSize = FileSize(sizes, i.file_index)
       /\ p.prevSectorLength = GetSectorLength(i.file_mode, i.track_mode)
       /\ p.prevSession = i.session /\ p.sessionGap = 0
       /\ p.gotFile = FALSE /\ p.gotTrack = FALSE /\ p.gotData = FALSE
       /\ p.gotPause = FALSE
  BY Zenon, <1>16, <1>17, <1>18 DEF d, Finished
<1>30. TrackTaken(t, n, at, sizes, q, i, p)
  BY Zenon, <1>26, <1>27, <1>28, <1>29
     DEF TrackTaken, lba, given, gap, mode, pregap, pause
<1> QED BY Zenon, <1>3, <1>30 DEF t, at

-----------------------------------------------------------------------------
(* The parser behind its sheet                                               *)

\* What the parser says of a track of a rip, wherever it puts it.
Shaped(r, i, a) ==
    LET t == r.tracks[i]
    IN  /\ a.file_index = t.file /\ a.file_mode = r.files[t.file].mode
        /\ a.track_number = i /\ a.track_mode = t.mode
        /\ a.session = t.session /\ a.prev_session_leadout = 0
        /\ a.sector_length = GetSectorLength(r.files[t.file].mode, t.mode)

\* The parser at the beginning of a call.
AtCall(p) ==
    /\ p.sessionGap = 0 /\ p.leadout = 0 /\ p.gotFile = FALSE
    /\ p.gotTrack = FALSE /\ p.gotData = FALSE /\ p.gotPause = FALSE

\* The parser behind the lines of the first i tracks.
ReadTo(r, i, p) ==
    /\ p \in Parser /\ AtCall(p)
    /\ Len(p.tracks) = i /\ \A j \in 1 .. i : Shaped(r, j, p.tracks[j])
    /\ i = 0 => p.info.file_index = 0 /\ p.prevSession = 0 /\ p.session = 1
    /\ i > 0 => /\ p.session = r.tracks[i].session /\ p.prevSession = r.tracks[i].session
                /\ Shaped(r, i, p.info)

\* The parser before the TRACK line of the track i.
OpenedTo(r, i, p, q) ==
    /\ q \in Parser /\ q.sessionGap = 0 /\ q.gotData = FALSE /\ q.gotPause = FALSE
    /\ q.leadout = 0 /\ q.tracks = p.tracks
    /\ q.session = r.tracks[i].session /\ q.prevSession = p.prevSession
    /\ q.info.file_index = r.tracks[i].file
    /\ q.info.file_mode = r.files[r.tracks[i].file].mode
    /\ q.info.cumulative_offset = p.info.cumulative_offset
    /\ FirstInFile(r, i) =>
         /\ q.gotFile = TRUE /\ q.info.file_offset = 0
         /\ q.info.file_start = IF i > 1 THEN p.info.data_start + LastTrackBlocks(p)
                                                - p.info.cumulative_offset
                                ELSE p.info.file_start
    /\ ~FirstInFile(r, i) =>
         /\ q.gotFile = FALSE /\ q.info = p.info
         /\ q.prevIndex01 = p.prevIndex01 /\ q.prevSectorLength = p.prevSectorLength

LEMMA OpenedReads ==
    ASSUME NEW r, IsRip(r), NEW i \in 1 .. Len(r.tracks), NEW sizes \in Seq(Nat),
           NEW p, ReadTo(r, i - 1, p)
    PROVE  OpenedTo(r, i, p, Opened(r, i, sizes, p))
<1> DEFINE t == r.tracks[i]
           s == t.session
           f == t.file
           mode == r.files[f].mode
           c1 == i > 1 /\ s > r.tracks[i - 1].session
           a == Maybe(c1, p, [cmd |-> "SESSION", number |-> s], sizes)
           line == [cmd |-> "FILE", mode |-> mode]
           q == Maybe(FirstInFile(r, i), a, line, sizes)
<1>1. s \in Nat \ {0} /\ f \in 1 .. Len(r.files) /\ mode \in FileModes
  <2>1. s \in Nat /\ s >= 1
    BY RipFields, RipSessionsInOrder
  <2>2. f \in 1 .. Len(r.files) /\ mode \in FileModes
    BY TrackTimes
  <2> QED BY <2>1, <2>2
<1>2. p \in Parser /\ p.gotTrack = FALSE
  BY DEF ReadTo, AtCall
<1>3. Opened(r, i, sizes, p) = q
  BY DEF Opened
<1>4. ~c1 => p.session = s
  <2>1. CASE i = 1
    <3>1. i - 1 = 0 /\ s = 1
      BY <2>1, RipSessionsInOrder
    <3>2. p.session = 1
      BY <3>1 DEF ReadTo
    <3> QED BY <3>1, <3>2
  <2>2. CASE i # 1
    <3>1. i > 1 /\ i - 1 > 0 /\ i - 1 \in 1 .. Len(r.tracks) /\ i - 1 <= i /\ i - 1 # 0
      BY <2>2, RipFields
    <3>2. p.session = r.tracks[i - 1].session
      BY <3>1 DEF ReadTo
    <3>3. r.tracks[i - 1].session <= s
      BY <3>1, RipSessionsInOrder
    <3>4. s \in Nat /\ r.tracks[i - 1].session \in Nat
      BY <1>1, <3>1, RipFields
    <3> HIDE DEF s
    <3> QED BY <3>1, <3>2, <3>3, <3>4
  <2> QED BY <2>1, <2>2
<1> HIDE DEF s, c1
<1>5. /\ a \in Parser /\ a.info = p.info /\ a.session = s
      /\ a.prevIndex01 = p.prevIndex01
      /\ a.leadout = p.leadout /\ a.tracks = p.tracks
      /\ a.prevFileSize = p.prevFileSize /\ a.prevSectorLength = p.prevSectorLength
      /\ a.prevSession = p.prevSession /\ a.sessionGap = p.sessionGap
      /\ a.gotFile = p.gotFile /\ a.gotTrack = p.gotTrack
      /\ a.gotData = p.gotData /\ a.gotPause = p.gotPause
  <2>1. s \in Nat \ {0}
    BY Zenon, <1>1
  <2>2. SessionTaken(p, s, a)
    BY <1>2, <1>4, <2>1, SessionRead
  <2> HIDE DEF a
  <2> QED BY Zenon, <2>2 DEF SessionTaken
<1> HIDE DEF a
<1>6. /\ p.sessionGap = 0 /\ p.leadout = 0 /\ p.gotFile = FALSE
      /\ p.gotTrack = FALSE /\ p.gotData = FALSE /\ p.gotPause = FALSE
  BY DEF ReadTo, AtCall
<1>7. LastTrackBlocks(a) = LastTrackBlocks(p)
  BY Zenon, <1>5 DEF LastTrackBlocks
<1>8. CASE FirstInFile(r, i)
  <2>1. line \in [cmd : {"FILE"}, mode : FileModes] /\ line.cmd = "FILE" /\ line.mode = mode
    BY <1>1
  <2> HIDE DEF line
  <2> DEFINE b == FileLine(a, line)
  <2>2. /\ b \in Parser
        /\ b.info.file_index = a.info.file_index + 1 /\ b.info.file_mode = line.mode
        /\ b.info.file_offset = 0
        /\ b.info.cumulative_offset = a.info.cumulative_offset
        /\ b.info.file_start = IF a.info.file_index > 0
                               THEN a.info.data_start + LastTrackBlocks(a)
                                      - a.info.cumulative_offset
                               ELSE a.info.file_start
        /\ b.session = a.session
        /\ b.leadout = a.leadout /\ b.tracks = a.tracks
        /\ b.prevSession = a.prevSession /\ b.sessionGap = a.sessionGap
        /\ b.gotFile = TRUE
        /\ b.gotData = a.gotData /\ b.gotPause = a.gotPause
    BY <1>5, <2>1, FileLineFields
  <2>3. ParseLine(a, line) = b
    BY <2>1 DEF ParseLine
  <2> HIDE DEF b
  <2>4. q = b
    <3>1. b.gotData = FALSE
      BY Zenon, <1>5, <1>6, <2>2
    <3> QED BY <1>8, <2>3, <3>1, OnlyParsed DEF Maybe
  <2> HIDE DEF q
  <2>5. /\ p.info.file_index + 1 = f
        /\ p.info.file_index > 0 <=> i > 1
    <3>1. CASE i = 1
      <4>1. i - 1 = 0 /\ f = 1
        BY <3>1, RipFilesInOrder
      <4>2. p.info.file_index = 0
        BY <4>1 DEF ReadTo
      <4> QED BY <3>1, <4>1, <4>2
    <3>2. CASE i # 1
      <4>1. i > 1 /\ i - 1 > 0 /\ i - 1 \in 1 .. Len(r.tracks) /\ i \in 2 .. Len(r.tracks)
        BY <3>2, RipFields
      <4>2. Shaped(r, i - 1, p.info)
        BY <4>1 DEF ReadTo
      <4>3. p.info.file_index = r.tracks[i - 1].file
        BY <4>2 DEF Shaped
      <4>4. f = r.tracks[i - 1].file + 1
        BY <1>8, <4>1, RipFilesInOrder
      <4>5. r.tracks[i - 1].file \in 1 .. Len(r.files)
        BY <4>1, RipFilesInOrder
      <4> HIDE DEF f
      <4> QED BY <4>1, <4>3, <4>4, <4>5
    <3> QED BY <3>1, <3>2
  <2>6. /\ q \in Parser /\ q.info.file_index = f /\ q.info.file_mode = mode
        /\ q.info.file_offset = 0 /\ q.info.cumulative_offset = p.info.cumulative_offset
        /\ q.session = s /\ q.leadout = 0 /\ q.tracks = p.tracks
        /\ q.prevSession = p.prevSession /\ q.sessionGap = 0 /\ q.gotFile = TRUE
        /\ q.gotData = FALSE /\ q.gotPause = FALSE
    <3> HIDE DEF f, mode
    <3> QED BY Zenon, <1>5, <1>6, <2>1, <2>2, <2>4, <2>5
  <2>7. q.info.file_start = IF i > 1 THEN p.info.data_start + LastTrackBlocks(p)
                                            - p.info.cumulative_offset
                            ELSE p.info.file_start
    <3>1. q.info.file_start = IF p.info.file_index > 0
                              THEN p.info.data_start + LastTrackBlocks(p)
                                     - p.info.cumulative_offset
                              ELSE p.info.file_start
      BY Zenon, <1>5, <1>7, <2>2, <2>4
    <3> QED BY Zenon, <2>5, <3>1
  <2> QED BY Zenon, <1>3, <1>8, <2>6, <2>7 DEF OpenedTo, mode, f, s
<1>9. CASE ~FirstInFile(r, i)
  <2>1. q = a
    BY <1>9 DEF Maybe
  <2> HIDE DEF q
  <2>2. i > 1 /\ i - 1 > 0 /\ i - 1 \in 1 .. Len(r.tracks) /\ i \in 2 .. Len(r.tracks)
    BY <1>9, RipFields DEF FirstInFile
  <2>3. Shaped(r, i - 1, p.info)
    BY <2>2 DEF ReadTo
  <2>4. r.tracks[i - 1].file = f
    BY <1>9, <2>2 DEF FirstInFile
  <2>5. p.info.file_index = f /\ p.info.file_mode = mode
    BY Zenon, <2>3, <2>4 DEF Shaped
  <2> HIDE DEF f, mode
  <2> QED BY Zenon, <1>3, <1>5, <1>6, <1>9, <2>1, <2>5 DEF OpenedTo, mode, f, s
<1> QED BY <1>8, <1>9

\* The parser behind one more track.
LEMMA ReadsOn ==
    ASSUME NEW r, IsRip(r), NEW i \in 1 .. Len(r.tracks), NEW sizes \in Seq(Nat),
           NEW p, ReadTo(r, i - 1, p)
    PROVE  LET q == Opened(r, i, sizes, p)
               u == TrackRead(r, i, sizes, q)
           IN  /\ ReadTo(r, i, u)
               /\ \E a \in Info :
                    /\ TrackTaken(r.tracks[i], i, Behind(r)[i].frames - StoredFrames(r, i),
                                  sizes, q, a, u)
                    /\ u.tracks = Append(p.tracks, a) /\ Shaped(r, i, a)
<1> DEFINE t == r.tracks[i]
           at == Behind(r)[i].frames - StoredFrames(r, i)
           q == Opened(r, i, sizes, p)
           u == TrackRead(r, i, sizes, q)
<1>1. OpenedTo(r, i, p, q)
  BY OpenedReads
<1> HIDE DEF q
<1>2. q \in Parser /\ q.sessionGap = 0 /\ q.gotData = FALSE /\ q.gotPause = FALSE
  BY <1>1 DEF OpenedTo
<1>3. PICK a \in Info : TrackTaken(t, i, at, sizes, q, a, u)
  BY <1>2, TrackReads
<1> HIDE DEF u, at
<1>4. u \in Parser /\ u.tracks = Append(q.tracks, a) /\ SameTrack(a, u.info)
      /\ a.file_index = q.info.file_index /\ a.file_mode = q.info.file_mode
      /\ a.track_number = i /\ a.track_mode = t.mode /\ a.session = q.session
      /\ a.prev_session_leadout = q.leadout
      /\ a.sector_length = GetSectorLength(q.info.file_mode, t.mode)
      /\ u.session = q.session /\ u.leadout = 0
      /\ u.prevSession = a.session /\ u.sessionGap = 0
      /\ u.gotFile = FALSE /\ u.gotTrack = FALSE /\ u.gotData = FALSE
      /\ u.gotPause = FALSE
  BY Zenon, <1>3 DEF TrackTaken
<1>5. /\ q.tracks = p.tracks /\ q.session = t.session /\ q.leadout = 0
      /\ q.info.file_index = t.file /\ q.info.file_mode = r.files[t.file].mode
  BY Zenon, <1>1 DEF OpenedTo
<1>6. Shaped(r, i, a)
  BY Zenon, <1>4, <1>5 DEF Shaped
<1>7. Shaped(r, i, u.info)
  BY Zenon, <1>4, <1>6 DEF Shaped, SameTrack
<1>8. u.tracks = Append(p.tracks, a) /\ u.session = t.session /\ u.prevSession = t.session
      /\ AtCall(u)
  BY Zenon, <1>4, <1>5 DEF AtCall
<1>9. p.tracks \in Seq(Info) /\ Len(p.tracks) = i - 1
      /\ \A j \in 1 .. i - 1 : Shaped(r, j, p.tracks[j])
  BY DEF ReadTo, Parser
<1>10. Len(u.tracks) = i /\ u.tracks[i] = a /\ \A j \in 1 .. i - 1 : u.tracks[j] = p.tracks[j]
  BY <1>8, <1>9
<1>11. \A j \in 1 .. i : Shaped(r, j, u.tracks[j])
  <2> TAKE j \in 1 .. i
  <2>1. CASE j = i
    BY <1>6, <1>10, <2>1
  <2>2. CASE j # i
    <3>1. j \in 1 .. i - 1
      BY <2>2
    <3> QED BY <1>9, <1>10, <3>1
  <2> QED BY <2>1, <2>2
<1>12. i # 0
  OBVIOUS
<1>13. ReadTo(r, i, u)
  BY Zenon, <1>4, <1>7, <1>8, <1>10, <1>11, <1>12 DEF ReadTo
<1> QED BY Zenon, <1>3, <1>6, <1>8, <1>13 DEF q, u, at

\* The parser before the first track.
LEMMA ReadNone ==
    ASSUME NEW r, NEW sizes \in Seq(Nat)
    PROVE  /\ ReadTo(r, 0, NextCall(Restart, sizes))
           /\ NextCall(Restart, sizes).info.file_start = 0
           /\ NextCall(Restart, sizes).info.cumulative_offset = 0
<1> DEFINE p == NextCall(Restart, sizes)
<1>1. p \in Parser
  BY RestartParses
<1>2. /\ p.info = [NoTrack EXCEPT !.cumulative_offset = @ + NoTrack.unstored_pregap_length]
      /\ p.session = 1 /\ p.leadout = 0 /\ p.tracks = <<>> /\ p.prevSession = NoTrack.session
      /\ AtCall(p)
  BY DEF NextCall, Restart, AtCall
<1>3. /\ p.info.file_index = 0 /\ p.info.file_start = 0 /\ p.info.cumulative_offset = 0
      /\ p.prevSession = 0
  BY <1>2 DEF NoTrack
<1> HIDE DEF p
<1>4. Len(p.tracks) = 0 /\ \A j \in 1 .. 0 : Shaped(r, j, p.tracks[j])
  BY <1>2
<1>5. ReadTo(r, 0, p)
  BY <1>1, <1>2, <1>3, <1>4 DEF ReadTo
<1> QED BY <1>3, <1>5 DEF p

\* Whatever the sizes, the tracks read of the sheet of a rip are those of the rip.
LEMMA RipIsRead ==
    ASSUME NEW r, IsRip(r), NEW sizes \in Seq(Nat)
    PROVE  \A i \in 0 .. Len(r.tracks) : ReadTo(r, i, After(SheetTo(r)[i], sizes))
<1> DEFINE n == Len(r.tracks)
           P(i) == After(SheetTo(r)[i], sizes)
           bad == {i \in 0 .. n : ~ReadTo(r, i, P(i))}
<1> SUFFICES ASSUME bad # {} PROVE FALSE
  OBVIOUS
<1>0. n \in Nat
  BY RipFields
<1>1. PICK k \in bad : \A l \in bad : k <= l
  <2>1. bad \subseteq Nat
    OBVIOUS
  <2> HIDE DEF bad
  <2> QED BY <2>1, LeastNumber
<1>2. k \in 0 .. n /\ ~ReadTo(r, k, P(k))
  BY <1>1
<1>3. ReadTo(r, 0, P(0))
  <2>1. P(0) = NextCall(Restart, sizes)
    BY SheetRow, AfterParses
  <2> HIDE DEF P
  <2> QED BY <2>1, ReadNone
<1> HIDE DEF P
<1>4. k \in 1 .. n /\ k - 1 \in 0 .. n /\ ~(k <= k - 1)
  BY <1>0, <1>2, <1>3
<1>5. ReadTo(r, k - 1, P(k - 1))
  BY <1>1, <1>4
<1>6. P(k) = TrackRead(r, k, sizes, Opened(r, k, sizes, P(k - 1)))
  BY <1>4, AfterTrack DEF P
<1>7. ReadTo(r, k, P(k))
  BY <1>4, <1>5, <1>6, ReadsOn
<1> QED BY <1>2, <1>7

-----------------------------------------------------------------------------
(* Where its tracks lie                                                      *)

\* The files of a rip hold frames as they are, and their sizes are known.
Plain(r) == \A f \in 1 .. Len(r.files) : r.files[f].mode \in {"BINARY", "MOTOROLA"}

Known(r, sizes) == \A f \in 1 .. Len(r.files) - 1 : FileSize(sizes, f) = Sizes(r)[f]

\* Where the disc and the file stand before and behind a track.
LEMMA TrackStands ==
    ASSUME NEW r, IsRip(r), NEW i \in 1 .. Len(r.tracks)
    PROVE  /\ Behind(r)[i - 1].sectors \in Nat /\ Behind(r)[i - 1].frames \in Nat
           /\ Behind(r)[i - 1].bytes \in Nat
           /\ Behind(r)[i].sectors \in Nat /\ Behind(r)[i].frames \in Nat
           /\ Behind(r)[i].bytes \in Nat
           /\ Gap(r, i) \in Nat /\ Pregap(r, i) \in Nat
           /\ Behind(r)[i].sectors = Behind(r)[i - 1].sectors + Gap(r, i) + Pregap(r, i)
                                       + StoredFrames(r, i)
           /\ Behind(r)[i].frames =
                (IF FirstInFile(r, i) THEN 0 ELSE Behind(r)[i - 1].frames) + StoredFrames(r, i)
           /\ Behind(r)[i].bytes =
                (IF FirstInFile(r, i) THEN 0 ELSE Behind(r)[i - 1].bytes)
                  + StoredFrames(r, i) * Size(r, i)
<1>1. i \in 0 .. Len(r.tracks) /\ i - 1 \in 0 .. Len(r.tracks)
  BY RipFields
<1>2. Behind(r)[i - 1] \in Stand /\ Behind(r)[i] \in Stand
      /\ Behind(r)[i] = Behind1(r, i, Behind(r)[i - 1])
  BY <1>1, BehindRow
<1>3. Gap(r, i) \in Nat /\ Pregap(r, i) \in Nat
  BY GapsNat
<1>4. /\ Behind(r)[i].sectors = Behind(r)[i - 1].sectors + Gap(r, i) + Pregap(r, i)
                                       + StoredFrames(r, i)
      /\ Behind(r)[i].frames =
           (IF FirstInFile(r, i) THEN 0 ELSE Behind(r)[i - 1].frames) + StoredFrames(r, i)
      /\ Behind(r)[i].bytes =
           (IF FirstInFile(r, i) THEN 0 ELSE Behind(r)[i - 1].bytes)
             + StoredFrames(r, i) * Size(r, i)
  BY <1>2 DEF Behind1
<1> QED BY <1>2, <1>3, <1>4 DEF Stand

\* The track before the first of a file is the last of its own.
LEMMA FileEnds ==
    ASSUME NEW r, IsRip(r), NEW i \in 2 .. Len(r.tracks), FirstInFile(r, i)
    PROVE  /\ LastInFile(r, r.tracks[i - 1].file) = i - 1
           /\ r.tracks[i - 1].file \in 1 .. Len(r.files) - 1
<1> DEFINE f == r.tracks[i - 1].file
           k == LastInFile(r, f)
           n == Len(r.tracks)
<1>1. n \in Nat /\ i - 1 \in 1 .. n /\ i \in 1 .. n
  BY RipFields
<1>2. r.tracks[i].file = f + 1 /\ f \in 1 .. Len(r.files) /\ r.tracks[i].file \in 1 .. Len(r.files)
  BY <1>1, RipFilesInOrder
<1>3. Len(r.files) \in Nat
  BY RipFields
<1>4. k \in 1 .. n /\ r.tracks[k].file = f /\ i - 1 <= k
  BY <1>1, <1>2, LastInFileFacts
<1>5. ~(i <= k)
  <2> SUFFICES ASSUME i <= k PROVE FALSE
    OBVIOUS
  <2>1. r.tracks[i].file <= r.tracks[k].file
    BY <1>1, <1>4, RipFilesInOrder
  <2> HIDE DEF f, k
  <2> QED BY <1>2, <1>3, <1>4, <2>1
<1> HIDE DEF k
<1>6. k = i - 1
  BY <1>1, <1>4, <1>5
<1>7. f \in 1 .. Len(r.files) - 1
  <2> HIDE DEF f
  <2> QED BY <1>2, <1>3
<1> QED BY <1>6, <1>7 DEF k

\* A file that ends with whole frames and less than one more has as many frames.
LEMMA WholeBlocks ==
    ASSUME NEW off \in Int, NEW d \in Nat, d > 0, NEW s \in Nat, s > 0,
           NEW tail \in Nat, tail < s, NEW w, w = off + d * s + tail
    PROVE  w > off /\ (w - off) \div s = d
<1>1. d * s \in Nat
  BY TimesNat
<1>2. d * s >= s
  BY TimesLess, TimesPlus
<1> DEFINE p == d * s
<1>3. (p + tail) \div s = d
  BY DivModUnique
<1>4. p \in Nat /\ p >= s
  BY <1>1, <1>2
<1>5. w = off + p + tail
  OBVIOUS
<1> HIDE DEF p
<1>6. w > off /\ w - off = p + tail
  BY <1>4, <1>5
<1> QED BY <1>3, <1>6

\* A track where the rip has it.
Placed(r, i, a) ==
    LET t == r.tracks[i]
    IN  /\ a.file_offset = Behind(r)[i].bytes - t.data * Size(r, i)
        /\ a.track_start = Behind(r)[i - 1].sectors + Gap(r, i)
        /\ a.data_start = Behind(r)[i].sectors - t.data
        /\ a.unstored_pregap_length = Pregap(r, i)

\* The parser behind a track, in a rip of sizes that are known.
PlacedTo(r, sizes, i, p) ==
    LET t == r.tracks[i]
    IN  /\ p.info.file_start + Behind(r)[i].frames + p.info.cumulative_offset
             = Behind(r)[i].sectors
        /\ i > 0 => /\ Placed(r, i, p.info)
                    /\ p.prevIndex01 = Behind(r)[i].frames - t.data
                    /\ p.prevSectorLength = Size(r, i)
                    /\ p.prevFileSize = FileSize(sizes, t.file)
        /\ \A j \in 1 .. i : Placed(r, j, p.tracks[j])

\* The sector length of a track of a plain rip.
LEMMA PlainLength ==
    ASSUME NEW r, IsRip(r), Plain(r), NEW i \in 1 .. Len(r.tracks)
    PROVE  GetSectorLength(r.files[r.tracks[i].file].mode, r.tracks[i].mode) = Size(r, i)
<1> DEFINE f == r.tracks[i].file
<1>1. f \in 1 .. Len(r.files)
  BY RipFilesInOrder
<1> HIDE DEF f
<1>2. r.files[f].mode \in {"BINARY", "MOTOROLA"}
  BY <1>1 DEF Plain
<1> QED BY <1>2 DEF f, GetSectorLength, Size

\* A track that ends with its file has the frames of the rip.
LEMMA BlocksOfTrack ==
    ASSUME NEW r, IsRip(r), Plain(r), NEW sizes, Known(r, sizes),
           NEW i \in 2 .. Len(r.tracks), FirstInFile(r, i),
           NEW p, Shaped(r, i - 1, p.info), Placed(r, i - 1, p.info),
           p.prevFileSize = FileSize(sizes, r.tracks[i - 1].file)
    PROVE  LastTrackBlocks(p) = r.tracks[i - 1].data
<1> DEFINE k == i - 1
           t == r.tracks[k]
           f == t.file
           d == t.data
           s == Size(r, k)
           b == Behind(r)[k].bytes
           off == b - d * s
           tail == r.files[f].tail
<1>1. k \in 1 .. Len(r.tracks)
  BY RipFields
<1>2. LastInFile(r, f) = k /\ f \in 1 .. Len(r.files) - 1
  BY FileEnds
<1>3. Len(r.files) \in Nat /\ f \in 1 .. Len(r.files)
  BY <1>1, RipFields, RipFilesInOrder
<1>4. tail \in Nat /\ tail < s
  <2>1. \A g \in 1 .. Len(r.files) : r.files[g].tail \in Nat
          /\ r.files[g].tail < Size(r, LastInFile(r, g))
    BY RipFields DEF IsRip
  <2> HIDE DEF f, k
  <2>2. r.files[f].tail \in Nat /\ r.files[f].tail < Size(r, k)
    BY <1>2, <1>3, <2>1
  <2> QED BY <2>2
<1>5. FileSize(sizes, f) = b + tail
  <2> HIDE DEF f, k
  <2>1. FileSize(sizes, f) = Sizes(r)[f]
    BY <1>2 DEF Known
  <2>2. Sizes(r)[f] = Behind(r)[LastInFile(r, f)].bytes + r.files[f].tail
    BY <1>3, SizesTyped
  <2> QED BY <1>2, <2>1, <2>2
<1>6. s \in Nat /\ s > 0 /\ d \in Nat /\ d > 0
  BY <1>1, RipFields
<1>7. b \in Nat
  BY <1>1, TrackStands
<1>8. p.info.file_offset = off
  BY Zenon DEF Placed
<1>9. p.info.sector_length = s
  <2>1. p.info.sector_length = GetSectorLength(r.files[f].mode, t.mode)
    BY Zenon DEF Shaped
  <2> HIDE DEF k
  <2> QED BY <1>1, <2>1, PlainLength
<1>10. p.prevFileSize = b + tail
  BY <1>5
<1> HIDE DEF k, f, b, d, s, tail
<1>11. d * s \in Nat /\ off \in Int
  <2> DEFINE x == d * s
  <2>1. x \in Nat
    BY <1>6, TimesNat, Zenon
  <2> HIDE DEF x
  <2>2. b - x \in Int
    BY <1>7, <2>1
  <2> QED BY <2>1, <2>2 DEF x
<1> DEFINE w == b + tail
<1>12. w = off + d * s + tail
  <2> DEFINE x == d * s
  <2>1. x \in Nat /\ off = b - x
    BY <1>11
  <2> HIDE DEF x, off
  <2>2. b + tail = off + x + tail
    BY <1>4, <1>7, <2>1
  <2> QED BY <2>2 DEF x
<1> HIDE DEF off, w
<1>13. w > off /\ (w - off) \div s = d
  BY <1>4, <1>6, <1>11, <1>12, WholeBlocks
<1>14. p.prevFileSize = w
  BY <1>10 DEF w
<1>15. LastTrackBlocks(p) = d
  BY Zenon, <1>6, <1>8, <1>9, <1>13, <1>14 DEF LastTrackBlocks
<1> QED BY <1>15 DEF d, k

\* A track begins on the disc where the one before it ended.
LEMMA TrackBegins ==
    ASSUME NEW r, IsRip(r), Plain(r), NEW sizes, Known(r, sizes),
           NEW i \in 1 .. Len(r.tracks), NEW p, ReadTo(r, i - 1, p), PlacedTo(r, sizes, i - 1, p),
           NEW q, OpenedTo(r, i, p, q)
    PROVE  /\ q.info.file_start \in Int /\ q.info.cumulative_offset \in Int
           /\ q.info.file_start + (Behind(r)[i].frames - StoredFrames(r, i))
                + q.info.cumulative_offset = Behind(r)[i - 1].sectors
<1> DEFINE fs == q.info.file_start
           co == q.info.cumulative_offset
           ps == p.info.file_start
           pc == p.info.cumulative_offset
           at == Behind(r)[i].frames - StoredFrames(r, i)
           k  == i - 1
           bs == Behind(r)[k].sectors
           bf == Behind(r)[k].frames
<1>1. fs \in Int /\ co \in Int /\ ps \in Int /\ pc \in Int
  <2>1. p \in Parser /\ q \in Parser
    BY DEF ReadTo, OpenedTo
  <2>2. p.info \in Info /\ q.info \in Info
    BY <2>1 DEF Parser
  <2> QED BY <2>2 DEF Info
<1>2. at \in Nat /\ at = IF FirstInFile(r, i) THEN 0 ELSE bf
  BY TrackTimes
<1>3. bs \in Nat /\ bf \in Nat
  BY TrackStands
<1>4. ps + bf + pc = bs
  BY Zenon DEF PlacedTo
<1>5. co = pc
  BY Zenon DEF OpenedTo
<1>6. CASE ~FirstInFile(r, i)
  <2>1. q.info = p.info
    BY Zenon, <1>6 DEF OpenedTo
  <2>2. fs = ps
    BY <2>1
  <2> HIDE DEF fs, co, ps, pc, at, bs, bf
  <2>3. fs + at + co = bs
    BY <1>1, <1>2, <1>3, <1>4, <1>5, <1>6, <2>2
  <2> QED BY <1>1, <2>3 DEF fs, co, at, bs
<1>7. CASE FirstInFile(r, i) /\ i = 1
  <2>1. ~(i > 1)
    BY <1>7
  <2>2. fs = ps
    BY Zenon, <1>7, <2>1 DEF OpenedTo
  <2>3. bf = 0
    <3>1. k = 0 /\ Behind(r)[0] = [sectors |-> 0, frames |-> 0, bytes |-> 0]
      BY <1>7, BehindRow
    <3> QED BY <3>1
  <2> HIDE DEF fs, co, ps, pc, at, bs, bf
  <2>4. fs + at + co = bs
    BY <1>1, <1>2, <1>3, <1>4, <1>5, <1>7, <2>2, <2>3
  <2> QED BY <1>1, <2>4 DEF fs, co, at, bs
<1>8. CASE FirstInFile(r, i) /\ i # 1
  <2>1. i > 1 /\ i \in 2 .. Len(r.tracks) /\ k > 0 /\ k \in 1 .. Len(r.tracks)
    BY <1>8, RipFields
  <2>2. Shaped(r, k, p.info)
    BY Zenon, <2>1 DEF ReadTo
  <2>3. Placed(r, k, p.info) /\ p.prevFileSize = FileSize(sizes, r.tracks[k].file)
    BY Zenon, <2>1 DEF PlacedTo
  <2> DEFINE d == r.tracks[k].data
             ds == p.info.data_start
  <2>4. LastTrackBlocks(p) = d
    BY <1>8, <2>1, <2>2, <2>3, BlocksOfTrack
  <2>5. fs = ds + LastTrackBlocks(p) - pc
    BY Zenon, <1>8, <2>1 DEF OpenedTo
  <2>6. ds = bs - d
    BY Zenon, <2>3 DEF Placed
  <2>7. d \in Nat
    BY <2>1, RipFields
  <2> HIDE DEF fs, co, ps, pc, at, bs, bf, d, ds
  <2>8. fs + at + co = bs
    BY <1>1, <1>2, <1>3, <1>4, <1>5, <1>8, <2>4, <2>5, <2>6, <2>7
  <2> QED BY <1>1, <2>8 DEF fs, co, at, bs
<1> QED BY <1>6, <1>7, <1>8

\* The parser puts the gap before a track, and gives it the pregap, that the disc has.
LEMMA GapIsPut ==
    ASSUME NEW r, IsRip(r), NEW i \in 1 .. Len(r.tracks), NEW p, ReadTo(r, i - 1, p),
           NEW q, OpenedTo(r, i, p, q)
    PROVE  LET t == r.tracks[i]
               gap == IF q.gotFile /\ q.prevSession > 0 /\ q.session > q.prevSession
                      THEN SessionGap ELSE 0
               given == IF gap # 0 /\ t.pause = 0 /\ t.pregap = 0 THEN TrackPregap ELSE 0
           IN  gap = Gap(r, i) /\ t.pregap + given = Pregap(r, i)
<1> DEFINE t == r.tracks[i]
           c == q.gotFile /\ q.prevSession > 0 /\ q.session > q.prevSession
           gap == IF c THEN SessionGap ELSE 0
           given == IF gap # 0 /\ t.pause = 0 /\ t.pregap = 0 THEN TrackPregap ELSE 0
<1>1. q.session = t.session /\ q.prevSession = p.prevSession
  BY Zenon DEF OpenedTo
<1>2. t.session \in Nat /\ t.pregap \in Nat /\ t.pause \in Nat
  BY RipFields
<1>3. SessionGap \in Nat \ {0} /\ TrackPregap \in Nat
  BY SheetAssumption DEF SheetAssumption
<1>4. c <=> OpensSession(r, i)
  <2>1. CASE ~FirstInFile(r, i)
    <3>1. q.gotFile = FALSE
      BY Zenon, <2>1 DEF OpenedTo
    <3> QED BY Zenon, <2>1, <3>1 DEF OpensSession
  <2>2. CASE FirstInFile(r, i) /\ i = 1
    <3>1. i - 1 = 0 /\ ~(i > 1)
      BY <2>2
    <3>2. p.prevSession = 0
      BY Zenon, <3>1 DEF ReadTo
    <3>3. ~(q.prevSession > 0)
      BY <1>1, <3>2
    <3> QED BY Zenon, <3>1, <3>3 DEF OpensSession
  <2>3. CASE FirstInFile(r, i) /\ i # 1
    <3>1. i > 1 /\ i - 1 > 0 /\ i - 1 \in 1 .. Len(r.tracks)
      BY <2>3, RipFields
    <3>2. p.prevSession = r.tracks[i - 1].session
      BY Zenon, <3>1 DEF ReadTo
    <3>3. r.tracks[i - 1].session >= 1 /\ r.tracks[i - 1].session \in Nat
      BY <3>1, RipSessionsInOrder, RipFields
    <3>4. q.prevSession > 0
      BY <1>1, <3>2, <3>3
    <3>5. q.gotFile = TRUE
      BY Zenon, <2>3 DEF OpenedTo
    <3> QED BY Zenon, <1>1, <2>3, <3>1, <3>2, <3>4, <3>5 DEF OpensSession
  <2> QED BY <2>1, <2>2, <2>3
<1> HIDE DEF c
<1>5. gap = Gap(r, i)
  BY <1>4 DEF Gap
<1>6. t.pregap + given = Pregap(r, i)
  <2> HIDE DEF t
  <2>1. gap # 0 <=> OpensSession(r, i)
    BY <1>3, <1>4
  <2> HIDE DEF gap
  <2> QED BY <1>2, <1>3, <2>1 DEF Pregap, t
<1> QED BY <1>5, <1>6 DEF c

\* The offset of a track's data in its file.
LEMMA OffsetOfData ==
    ASSUME NEW r, IsRip(r), Plain(r), NEW sizes,
           NEW i \in 1 .. Len(r.tracks), NEW p, ReadTo(r, i - 1, p), PlacedTo(r, sizes, i - 1, p),
           NEW q, OpenedTo(r, i, p, q)
    PROVE  LET t == r.tracks[i]
               at == Behind(r)[i].frames - StoredFrames(r, i)
           IN  q.info.file_offset
                 + (IF q.gotFile THEN 0 ELSE (at - q.prevIndex01) * q.prevSectorLength)
                 + t.pause * Size(r, i)
                 = Behind(r)[i].bytes - t.data * Size(r, i)
<1> DEFINE t == r.tracks[i]
           at == Behind(r)[i].frames - StoredFrames(r, i)
           pause == t.pause
           data == t.data
           s == Size(r, i)
           b == Behind(r)[i].bytes
           k == i - 1
           off == q.info.file_offset
<1>1. pause \in Nat /\ data \in Nat /\ s \in Nat /\ StoredFrames(r, i) = pause + data
  BY RipFields
<1>2. pause * s \in Nat /\ data * s \in Nat
  <2> HIDE DEF pause, data, s
  <2> QED BY <1>1, TimesNat
<1>3. StoredFrames(r, i) * s = pause * s + data * s
  <2> HIDE DEF pause, data, s
  <2>1. (pause + data) * s = pause * s + data * s
    BY <1>1, TimesPlus
  <2> QED BY <1>1, <2>1
<1>4. b = (IF FirstInFile(r, i) THEN 0 ELSE Behind(r)[k].bytes) + StoredFrames(r, i) * s
  BY TrackStands
<1>5. CASE FirstInFile(r, i)
  <2>1. off = 0 /\ q.gotFile = TRUE
    BY Zenon, <1>5 DEF OpenedTo
  <2> DEFINE x == pause * s
             y == data * s
  <2>2. x \in Nat /\ y \in Nat /\ b = 0 + (x + y)
    BY <1>2, <1>3, <1>4, <1>5
  <2> HIDE DEF x, y, b
  <2>3. 0 + 0 + x = b - y
    BY <2>2
  <2> HIDE DEF off
  <2> QED BY <2>1, <2>3 DEF x, y, b, off
<1>6. CASE ~FirstInFile(r, i)
  <2>1. i # 1
    BY <1>6 DEF FirstInFile
  <2>2. k > 0 /\ k \in 1 .. Len(r.tracks)
    BY <2>1, RipFields
  <2>3. q.info = p.info /\ q.gotFile = FALSE /\ q.prevIndex01 = p.prevIndex01
        /\ q.prevSectorLength = p.prevSectorLength
    BY Zenon, <1>6 DEF OpenedTo
  <2> DEFINE d == r.tracks[k].data
             z == Size(r, k)
             c == Behind(r)[k].bytes
             bf == Behind(r)[k].frames
             fi == q.prevIndex01
             ls == q.prevSectorLength
             w == d * z
             x == pause * s
             y == data * s
  <2>4. Placed(r, k, p.info) /\ p.prevIndex01 = bf - d /\ p.prevSectorLength = z
    BY Zenon, <2>2 DEF PlacedTo
  <2>5. off = c - w
    BY Zenon, <2>3, <2>4 DEF Placed
  <2>6. fi = bf - d /\ ls = z
    BY Zenon, <2>3, <2>4
  <2>7. at = bf
    BY <1>6, TrackTimes
  <2>8. d \in Nat /\ z \in Nat /\ c \in Nat /\ bf \in Nat
    BY <2>2, RipFields, TrackStands
  <2>9. w \in Nat
    <3> HIDE DEF d, z
    <3> QED BY <2>8, TimesNat
  <2>10. at - fi = d
    <3> HIDE DEF at, fi, bf, d
    <3> QED BY <2>6, <2>7, <2>8
  <2>11. (at - fi) * ls = w
    <3> HIDE DEF at, fi, ls, d, z
    <3> QED BY Zenon, <2>6, <2>10
  <2>12. x \in Nat /\ y \in Nat /\ b = c + (x + y)
    BY <1>2, <1>3, <1>4, <1>6
  <2> HIDE DEF w, x, y, b, c, off
  <2>13. c - w + w + x = b - y
    BY <2>8, <2>9, <2>12
  <2>14. off + (at - fi) * ls + x = b - y
    <3> HIDE DEF at, fi, ls
    <3> QED BY Zenon, <2>5, <2>11, <2>13
  <2> QED BY Zenon, <2>3, <2>14 DEF x, y, b, off
<1> QED BY <1>5, <1>6

\* The sums of a track's place.
LEMMA SumsOfTrack ==
    ASSUME NEW fs \in Int, NEW at \in Int, NEW co \in Int, NEW bs \in Int, NEW gap \in Nat,
           NEW l \in Nat, NEW pause \in Nat, NEW data \in Nat, NEW pregap \in Nat,
           NEW given \in Nat, NEW es \in Int, NEW ef \in Int,
           fs + at + co = bs, l = pregap + given, es = bs + gap + l + (pause + data),
           at = ef - (pause + data)
    PROVE  /\ fs + at + co + gap = bs + gap
           /\ fs + at + co + pause + pregap + gap + given = es - data
           /\ fs + ef + (co + gap + (pregap + given)) = es
           /\ at + pause = ef - data
  OBVIOUS

\* One more track is where the rip has it.
LEMMA PlacesOn ==
    ASSUME NEW r, IsRip(r), Plain(r), NEW sizes \in Seq(Nat), Known(r, sizes),
           NEW i \in 1 .. Len(r.tracks), NEW p, ReadTo(r, i - 1, p), PlacedTo(r, sizes, i - 1, p)
    PROVE  PlacedTo(r, sizes, i, TrackRead(r, i, sizes, Opened(r, i, sizes, p)))
<1> DEFINE t == r.tracks[i]
           at == Behind(r)[i].frames - StoredFrames(r, i)
           q == Opened(r, i, sizes, p)
           u == TrackRead(r, i, sizes, q)
           gap == IF q.gotFile /\ q.prevSession > 0 /\ q.session > q.prevSession
                  THEN SessionGap ELSE 0
           given == IF gap # 0 /\ t.pause = 0 /\ t.pregap = 0 THEN TrackPregap ELSE 0
           pregap == t.pregap
           pause == t.pause
           data == t.data
           fs == q.info.file_start
           co == q.info.cumulative_offset
           bs == Behind(r)[i - 1].sectors
           es == Behind(r)[i].sectors
           ef == Behind(r)[i].frames
           s == Size(r, i)
<1>1. OpenedTo(r, i, p, q)
  BY OpenedReads
<1>2. PICK a \in Info : TrackTaken(t, i, at, sizes, q, a, u) /\ u.tracks = Append(p.tracks, a)
                          /\ Shaped(r, i, a)
  BY ReadsOn
<1> HIDE DEF q, u
<1>3. fs \in Int /\ co \in Int /\ fs + at + co = bs
  BY <1>1, TrackBegins
<1>4. gap = Gap(r, i) /\ pregap + given = Pregap(r, i)
  BY <1>1, GapIsPut
<1>5. q.info.file_offset
        + (IF q.gotFile THEN 0 ELSE (at - q.prevIndex01) * q.prevSectorLength)
        + pause * s
        = Behind(r)[i].bytes - data * s
  BY <1>1, OffsetOfData
<1>6. a.sector_length = s /\ a.file_index = t.file
      /\ GetSectorLength(a.file_mode, a.track_mode) = s
  <2>1. a.sector_length = GetSectorLength(r.files[t.file].mode, t.mode)
        /\ a.file_index = t.file /\ a.file_mode = r.files[t.file].mode /\ a.track_mode = t.mode
    BY Zenon, <1>2 DEF Shaped
  <2> QED BY <2>1, PlainLength
<1>7. /\ a.file_offset = q.info.file_offset
           + (IF q.gotFile THEN 0 ELSE (at - q.prevIndex01) * q.prevSectorLength)
           + pause * a.sector_length
      /\ a.unstored_pregap_length = pregap + given
      /\ a.track_start = fs + at + co + gap
      /\ a.data_start = fs + at + co + pause + pregap + gap + given
      /\ u.info.cumulative_offset = co + gap + a.unstored_pregap_length
      /\ u.info.file_offset = a.file_offset
      /\ u.info.unstored_pregap_length = a.unstored_pregap_length
      /\ u.info.track_start = a.track_start /\ u.info.data_start = a.data_start
      /\ u.info.file_start = fs
      /\ u.prevIndex01 = at + pause
      /\ u.prevFileSize = FileSize(sizes, a.file_index)
      /\ u.prevSectorLength = GetSectorLength(a.file_mode, a.track_mode)
  BY Zenon, <1>2 DEF TrackTaken, SameTrack
<1>8. /\ Gap(r, i) \in Nat /\ Pregap(r, i) \in Nat /\ bs \in Nat /\ es \in Nat /\ ef \in Nat
      /\ es = bs + Gap(r, i) + Pregap(r, i) + StoredFrames(r, i)
  BY TrackStands
<1>9. pregap \in Nat /\ pause \in Nat /\ data \in Nat /\ StoredFrames(r, i) = pause + data
      /\ given \in Nat
  <2>1. TrackPregap \in Nat
    BY SheetAssumption DEF SheetAssumption
  <2>2. pregap \in Nat /\ pause \in Nat /\ data \in Nat /\ StoredFrames(r, i) = pause + data
    BY RipFields
  <2> HIDE DEF pregap, pause, data, gap
  <2> QED BY <2>1, <2>2
<1>10. at = ef - (pause + data)
  BY <1>9
<1>101. at \in Int
  BY TrackTimes
<1> DEFINE g == Gap(r, i)
           l == Pregap(r, i)
           x == a.unstored_pregap_length
           xs == a.track_start
           xd == a.data_start
           uc == u.info.cumulative_offset
<1>11. x = pregap + given /\ xs = fs + at + co + gap /\ xd = fs + at + co + pause + pregap + gap + given
       /\ uc = co + gap + x
  BY Zenon, <1>7
<1>12. /\ xs = bs + g /\ x = l /\ xd = es - data
       /\ fs + ef + uc = es /\ at + pause = ef - data
  <2> HIDE DEF at, gap, given, pregap, pause, data, fs, co, bs, es, ef, g, l, x, xs, xd, uc
  <2>1. g = gap /\ l = pregap + given /\ g \in Nat /\ l \in Nat
        /\ es = bs + g + l + (pause + data)
    BY <1>4, <1>8, <1>9 DEF g, l
  <2>2. gap \in Nat
    BY <2>1
  <2>3. es \in Int /\ ef \in Int /\ bs \in Int /\ at \in Int
    BY <1>8, <1>101 DEF es, ef, bs
  <2>4. /\ fs + at + co + gap = bs + gap
        /\ fs + at + co + pause + pregap + gap + given = es - data
        /\ fs + ef + (co + gap + (pregap + given)) = es
        /\ at + pause = ef - data
    BY <1>3, <1>9, <1>10, <2>1, <2>2, <2>3, SumsOfTrack
  <2> QED BY Zenon, <1>11, <2>1, <2>4
<1> HIDE DEF at, gap, given, pregap, pause, data, fs, co, bs, es, ef
<1>13. a.file_offset = Behind(r)[i].bytes - data * s
  BY Zenon, <1>5, <1>6, <1>7
<1>14. Placed(r, i, a)
  BY Zenon, <1>12, <1>13 DEF Placed, bs, es, data
<1>15. Placed(r, i, u.info)
  BY Zenon, <1>7, <1>14 DEF Placed
<1>16. u.prevIndex01 = ef - data /\ u.prevSectorLength = s
       /\ u.prevFileSize = FileSize(sizes, t.file)
  BY Zenon, <1>6, <1>7, <1>12
<1>17. u.info.file_start + ef + u.info.cumulative_offset = es
  BY Zenon, <1>7, <1>12
<1>18. p.tracks \in Seq(Info) /\ Len(p.tracks) = i - 1
       /\ \A j \in 1 .. i - 1 : Placed(r, j, p.tracks[j])
  <2>1. p \in Parser /\ Len(p.tracks) = i - 1
    BY Zenon DEF ReadTo
  <2>2. \A j \in 1 .. i - 1 : Placed(r, j, p.tracks[j])
    BY Zenon DEF PlacedTo
  <2>3. p.tracks \in Seq(Info)
    BY <2>1 DEF Parser
  <2> QED BY <2>1, <2>2, <2>3
<1>19. u.tracks[i] = a /\ \A j \in 1 .. i - 1 : u.tracks[j] = p.tracks[j]
  BY <1>2, <1>18
<1>20. \A j \in 1 .. i : Placed(r, j, u.tracks[j])
  <2> TAKE j \in 1 .. i
  <2>1. CASE j = i
    BY <1>14, <1>19, <2>1
  <2>2. CASE j # i
    <3>1. j \in 1 .. i - 1
      BY <2>2
    <3> QED BY <1>18, <1>19, <3>1
  <2> QED BY <2>1, <2>2
<1>21. PlacedTo(r, sizes, i, u)
  BY Zenon, <1>15, <1>16, <1>17, <1>20 DEF PlacedTo, ef, es, data
<1> QED BY Zenon, <1>21 DEF q, u

\* Where the sizes are known, the tracks read of the sheet of a rip are where the rip has them.
LEMMA RipIsPlaced ==
    ASSUME NEW r, IsRip(r), Plain(r), NEW sizes \in Seq(Nat), Known(r, sizes)
    PROVE  \A i \in 0 .. Len(r.tracks) : PlacedTo(r, sizes, i, After(SheetTo(r)[i], sizes))
<1> DEFINE n == Len(r.tracks)
           P(i) == After(SheetTo(r)[i], sizes)
           bad == {i \in 0 .. n : ~PlacedTo(r, sizes, i, P(i))}
<1> SUFFICES ASSUME bad # {} PROVE FALSE
  OBVIOUS
<1>0. n \in Nat
  BY RipFields
<1>1. PICK k \in bad : \A l \in bad : k <= l
  <2>1. bad \subseteq Nat
    OBVIOUS
  <2> HIDE DEF bad
  <2> QED BY <2>1, LeastNumber
<1>2. k \in 0 .. n /\ ~PlacedTo(r, sizes, k, P(k))
  BY <1>1
<1>3. PlacedTo(r, sizes, 0, P(0))
  <2> DEFINE p == NextCall(Restart, sizes)
  <2>1. P(0) = p
    BY SheetRow, AfterParses
  <2>2. p.info.file_start = 0 /\ p.info.cumulative_offset = 0
    BY ReadNone
  <2> HIDE DEF P, p
  <2>3. Behind(r)[0] = [sectors |-> 0, frames |-> 0, bytes |-> 0]
    BY BehindRow
  <2>4. p.info.file_start + Behind(r)[0].frames + p.info.cumulative_offset
          = Behind(r)[0].sectors
    BY <2>2, <2>3
  <2>5. PlacedTo(r, sizes, 0, p)
    <3>1. ~(0 > 0) /\ \A j \in 1 .. 0 : Placed(r, j, p.tracks[j])
      OBVIOUS
    <3> QED BY Zenon, <2>4, <3>1 DEF PlacedTo
  <2> QED BY <2>1, <2>5
<1> HIDE DEF P
<1>4. k \in 1 .. n /\ k - 1 \in 0 .. n /\ ~(k <= k - 1)
  BY <1>0, <1>2, <1>3
<1>5. PlacedTo(r, sizes, k - 1, P(k - 1)) /\ ReadTo(r, k - 1, P(k - 1))
  BY <1>1, <1>4, RipIsRead DEF P
<1>6. P(k) = TrackRead(r, k, sizes, Opened(r, k, sizes, P(k - 1)))
  BY <1>4, AfterTrack DEF P
<1>7. PlacedTo(r, sizes, k, P(k))
  BY <1>4, <1>5, <1>6, PlacesOn
<1> QED BY <1>2, <1>7

\* The tracks of a rip, and where they are.
TracksOf(r, T) ==
    /\ T \in Seq(Info) /\ Len(T) = Len(r.tracks)
    /\ \A i \in 1 .. Len(r.tracks) : Shaped(r, i, T[i])

TracksAt(r, T) == \A i \in 1 .. Len(r.tracks) : Placed(r, i, T[i])

\* The tracks the parser gives of the sheet of a rip are the tracks of the rip; where it
\* knows the sizes of the files, they are where the rip has them.
LEMMA TracksOfRip ==
    ASSUME NEW r, IsRip(r), NEW sizes \in Seq(Nat)
    PROVE  /\ TracksOf(r, Tracks(SheetOf(r), sizes))
           /\ Plain(r) /\ Known(r, sizes) => TracksAt(r, Tracks(SheetOf(r), sizes))
<1> DEFINE n == Len(r.tracks)
           p == After(SheetTo(r)[n], sizes)
           T == Tracks(SheetOf(r), sizes)
<1>1. n \in 0 .. n /\ n \in Nat
  BY RipFields
<1>2. T = p.tracks
  BY DEF After, Tracks, SheetOf
<1>3. ReadTo(r, n, p)
  BY <1>1, RipIsRead
<1>4. Plain(r) /\ Known(r, sizes) => PlacedTo(r, sizes, n, p)
  BY <1>1, RipIsPlaced
<1> HIDE DEF T, p
<1>5. p \in Parser /\ Len(p.tracks) = n /\ \A j \in 1 .. n : Shaped(r, j, p.tracks[j])
  BY Zenon, <1>3 DEF ReadTo
<1>6. p.tracks \in Seq(Info)
  BY <1>5 DEF Parser
<1>7. TracksOf(r, T)
  BY Zenon, <1>2, <1>5, <1>6 DEF TracksOf
<1>8. Plain(r) /\ Known(r, sizes) => TracksAt(r, T)
  BY Zenon, <1>2, <1>4 DEF PlacedTo, TracksAt
<1> QED BY <1>7, <1>8 DEF T

\* The sheet of a rip is one of lines.
LEMMA SheetIsLines == ASSUME NEW r, IsRip(r) PROVE SheetOf(r) \in Seq(Lines)
<1>1. Len(r.tracks) \in 0 .. Len(r.tracks)
  BY RipFields
<1> QED BY <1>1, SheetRow DEF SheetOf

\* The files named by the sheet of a rip are those of the rip.
LEMMA FilesOfRip ==
    ASSUME NEW r, IsRip(r)
    PROVE  CueCountFiles(SheetOf(r)) = Len(r.files)
<1> DEFINE T == Tracks(SheetOf(r), <<>>)
           n == Len(r.tracks)
           m == Len(r.files)
           S == {0} \cup {track.file_index : track \in Range(T)}
<1>1. n \in Nat \ {0} /\ m \in Nat \ {0}
  BY RipFields, RipFilesInOrder
<1>2. T \in Seq(Info) /\ Len(T) = n /\ \A i \in 1 .. n : T[i].file_index = r.tracks[i].file
  <2>1. <<>> \in Seq(Nat)
    OBVIOUS
  <2>2. TracksOf(r, T)
    BY <2>1, TracksOfRip
  <2> QED BY Zenon, <2>2 DEF TracksOf, Shaped
<1>3. \A i \in 1 .. n : r.tracks[i].file \in 1 .. m
  BY RipFilesInOrder
<1>4. r.tracks[n].file = m /\ n \in 1 .. n
  BY <1>1, RipFilesInOrder
<1> HIDE DEF T, n, m
<1>5. DOMAIN T = 1 .. n /\ Range(T) = {T[i] : i \in 1 .. n}
  BY <1>2 DEF Range
<1>6. S \subseteq 0 .. m /\ m \in S
  <2>1. \A x \in S : x \in 0 .. m
    <3> TAKE x \in S
    <3>1. CASE x = 0
      BY <1>1, <3>1
    <3>2. CASE x # 0
      <4>1. PICK i \in 1 .. n : x = T[i].file_index
        BY <1>5, <3>2
      <4>2. x \in 1 .. m
        BY <1>2, <1>3, <4>1
      <4> QED BY <1>1, <4>2
    <3> QED BY <3>1, <3>2
  <2>2. T[n].file_index = m /\ T[n] \in Range(T)
    BY <1>2, <1>4, <1>5
  <2> QED BY <2>1, <2>2
<1> HIDE DEF S
<1>7. Max(S) \in S /\ \A s \in S : Max(S) >= s
  BY <1>1, <1>6, MaxIn
<1>8. CueCountFiles(SheetOf(r)) = Max(S)
  BY DEF CueCountFiles, S, T
<1> DEFINE x == Max(S)
<1>9. x \in 0 .. m /\ x >= m
  BY <1>6, <1>7
<1> HIDE DEF x
<1>10. x = m
  BY <1>1, <1>9
<1> QED BY <1>8, <1>10 DEF m, x

\* The hole behind a file that ends before the next begins.
HoleBehind(tracks, sizes, lay, i) ==
    LET this == Extent(tracks, sizes, i)
        next == Extent(tracks, sizes, i + 1)
    IN  [start |-> this.end, end |-> next.start, sector_length |-> this.sector_length,
         base |-> lay.bases[i] + sizes[i],
         length |-> (next.start - this.end) * this.sector_length]

\* The tracks of the files laid out have sectors, and the holes are those between them.
LEMMA LayoutParts ==
    ASSUME NEW sheet \in Seq(Lines), NEW sizes \in Seq(Nat), ~(Len(sizes) <= 1),
           NEW lay \in RebuildLayout(sheet, sizes)
    PROVE  LET tracks == Tracks(sheet, sizes)
               gaps == {i \in 1 .. Len(sizes) - 1 :
                           Extent(tracks, sizes, i + 1).start > Extent(tracks, sizes, i).end}
           IN  /\ \A t \in Range(tracks) : t.file_index \in DOMAIN sizes => t.sector_length > 0
               /\ lay.sparse = {HoleBehind(tracks, sizes, lay, i) : i \in gaps}
<1> DEFINE tracks  == Tracks(sheet, sizes)
           placed  == {t \in Range(tracks) : t.file_index \in DOMAIN sizes}
           sound   == /\ \A t \in placed : t.sector_length > 0
                      /\ \A f \in DOMAIN sizes : \E t \in placed : t.file_index = f
           extents == [f \in DOMAIN sizes |-> Extent(tracks, sizes, f)]
           holes   == Holes(extents, sizes)
           sparse  == {[start |-> extents[i].end, end |-> extents[i + 1].start,
                        sector_length |-> extents[i].sector_length,
                        base |-> holes.base[i - 1] + sizes[i],
                        length |-> holes.length[i]] : i \in holes.gaps}
<1>1. /\ sound
      /\ lay = [bases |-> [i \in DOMAIN sizes |-> holes.base[i - 1]],
                sparse |-> sparse, size |-> holes.base[Len(sizes)]]
  BY DEF RebuildLayout
<1>2. \A t \in Range(tracks) : t.file_index \in DOMAIN sizes => t.sector_length > 0
  <2> HIDE DEF tracks
  <2> QED BY <1>1
<1> HIDE DEF tracks
<1> DEFINE gaps == {i \in 1 .. Len(sizes) - 1 : extents[i + 1].start > extents[i].end}
           length == [i \in DOMAIN sizes |->
                        IF i \in gaps
                        THEN (extents[i + 1].start - extents[i].end) * extents[i].sector_length
                        ELSE 0]
<1>3. holes = [gaps |-> gaps, length |-> length, base |-> LaidOut(sizes, length)]
  BY DEF Holes
<1>4. \A i \in DOMAIN sizes : lay.bases[i] = holes.base[i - 1]
  <2> HIDE DEF holes, sound, extents
  <2> QED BY <1>1
<1>5. lay.sparse = sparse
  <2> HIDE DEF sparse, holes, sound, extents
  <2> QED BY <1>1
<1>6. \A i \in 1 .. Len(sizes) - 1 : i \in DOMAIN sizes /\ i + 1 \in DOMAIN sizes
  OBVIOUS
<1>7. \A f \in DOMAIN sizes : extents[f] = Extent(tracks, sizes, f)
  BY Zenon
<1> HIDE DEF extents, sound
<1> DEFINE gaps2 == {i \in 1 .. Len(sizes) - 1 :
                        Extent(tracks, sizes, i + 1).start > Extent(tracks, sizes, i).end}
<1>8. gaps = gaps2
  BY Zenon, <1>6, <1>7
<1>9. \A i \in gaps : length[i] = (extents[i + 1].start - extents[i].end) * extents[i].sector_length
  <2>1. gaps \subseteq DOMAIN sizes
    BY <1>6
  <2> HIDE DEF gaps
  <2> QED BY Zenon, <2>1
<1>10. \A i \in gaps : i \in DOMAIN sizes /\ i + 1 \in DOMAIN sizes
  BY Zenon, <1>6
<1>11. holes.gaps = gaps /\ holes.length = length
  <2> HIDE DEF holes, gaps, length
  <2> QED BY <1>3
<1> HIDE DEF holes, gaps, length, gaps2
<1>12. \A i \in gaps :
         [start |-> extents[i].end, end |-> extents[i + 1].start,
          sector_length |-> extents[i].sector_length,
          base |-> holes.base[i - 1] + sizes[i],
          length |-> holes.length[i]] = HoleBehind(tracks, sizes, lay, i)
  <2> TAKE i \in gaps
  <2>1. /\ extents[i] = Extent(tracks, sizes, i) /\ extents[i + 1] = Extent(tracks, sizes, i + 1)
        /\ lay.bases[i] = holes.base[i - 1]
        /\ holes.length[i] = (extents[i + 1].start - extents[i].end) * extents[i].sector_length
    BY Zenon, <1>4, <1>7, <1>9, <1>10, <1>11
  <2> QED BY Zenon, <2>1 DEF HoleBehind
<1>13. sparse = {HoleBehind(tracks, sizes, lay, i) : i \in gaps}
  BY Zenon, <1>11, <1>12
<1> HIDE DEF sparse
<1> QED BY Zenon, <1>2, <1>5, <1>8, <1>13 DEF tracks, gaps2

\* A rip whose files are all adopted is a plain one.
LEMMA LoadedIsPlain ==
    ASSUME NEW r, IsRip(r), RebuildLayout(SheetOf(r), Sizes(r)) # {}
    PROVE  Plain(r) /\ Known(r, Sizes(r))
<1> DEFINE T == Tracks(SheetOf(r), Sizes(r))
           m == Len(r.files)
<1>1. m \in Nat \ {0}
  BY RipFilesInOrder
<1>2. Sizes(r) \in Seq(Nat) /\ Len(Sizes(r)) = m /\ DOMAIN Sizes(r) = 1 .. m
  BY SizesTyped
<1>3. Known(r, Sizes(r))
  BY <1>1, <1>2 DEF Known, FileSize
<1>4. CASE m = 1
  <2>1. r.files[1].mode \in {"BINARY", "MOTOROLA"}
    BY <1>4 DEF IsRip
  <2>2. Plain(r)
    BY <1>4, <2>1 DEF Plain
  <2> QED BY <1>3, <2>2
<1>5. CASE m # 1
  <2>1. ~(Len(Sizes(r)) <= 1)
    <3>1. Len(Sizes(r)) = m
      BY <1>2
    <3> HIDE DEF m
    <3>2. ~(m <= 1)
      BY <1>1, <1>5
    <3> QED BY <3>1, <3>2
  <2>20. PICK lay : lay \in RebuildLayout(SheetOf(r), Sizes(r))
    OBVIOUS
  <2>21. SheetOf(r) \in Seq(Lines)
    BY SheetIsLines
  <2>22. \A t \in Range(T) : t.file_index \in DOMAIN Sizes(r) => t.sector_length > 0
    BY <1>2, <2>1, <2>20, <2>21, LayoutParts
  <2>3. TracksOf(r, T)
    BY <1>2, TracksOfRip
  <2> HIDE DEF T, m
  <2>4. ASSUME NEW f \in 1 .. m
        PROVE  r.files[f].mode \in {"BINARY", "MOTOROLA"}
    <3>1. PICK i \in 1 .. Len(r.tracks) : r.tracks[i].file = f
      BY Zenon, RipFilesInOrder DEF m
    <3>2. T \in Seq(Info) /\ Len(T) = Len(r.tracks) /\ Shaped(r, i, T[i])
      BY Zenon, <2>3 DEF TracksOf
    <3>3. T[i].file_index = f
          /\ T[i].sector_length = GetSectorLength(r.files[f].mode, r.tracks[i].mode)
      BY Zenon, <3>1, <3>2 DEF Shaped
    <3>4. T[i] \in Range(T)
      BY <3>2 DEF Range
    <3>5. T[i].file_index \in DOMAIN Sizes(r)
      BY <1>2, <3>3 DEF m
    <3>6. GetSectorLength(r.files[f].mode, r.tracks[i].mode) > 0
      BY <2>22, <3>3, <3>4, <3>5
    <3> QED BY <3>6 DEF GetSectorLength
  <2> QED BY <1>3, <2>4 DEF Plain, m
<1> QED BY <1>4, <1>5

-----------------------------------------------------------------------------
(* Its files are adopted                                                     *)

\* The files adopted are those on the card, from the first on, and all of them when
\* the device is served.
LoadInv ==
    /\ rip \in Rips /\ cue_str = SheetOf(rip) /\ card = Sizes(rip)
    /\ step \in {"Files", "Ready"} =>
          /\ files \in Seq(Nat) /\ Len(files) \in 1 .. Len(card)
          /\ \A f \in 1 .. Len(files) : files[f] = card[f]
    /\ step = "Ready" => files = card /\ layout \in RebuildLayout(cue_str, files)

\* The rip of a sheet has as many sizes as the sheet names files.
LEMMA SizesOfRip ==
    ASSUME LoadInv
    PROVE  /\ IsRip(rip) /\ cue_str \in Seq(Lines) /\ card \in Seq(Nat)
           /\ nCueFiles = Len(card) /\ Len(card) = Len(rip.files) /\ Len(card) \in Nat \ {0}
<1>1. IsRip(rip) /\ cue_str \in Seq(Lines) /\ card \in Seq(Nat)
  BY RipsAreTyped DEF LoadInv
<1>2. Len(card) = Len(rip.files) /\ Len(rip.files) \in Nat \ {0}
  BY <1>1, SizesTyped, RipFilesInOrder DEF LoadInv
<1>3. nCueFiles = Len(rip.files)
  BY <1>1, FilesOfRip DEF LoadInv, nCueFiles
<1> QED BY <1>1, <1>2, <1>3

LEMMA LoadStarts == DiscInit => LoadInv
  BY DEF DiscInit, InitOn, LoadInv

\* The first file is adopted.
LEMMA LoadConstructs ==
    ASSUME LoadInv, Construct, UNCHANGED rip
    PROVE  LoadInv'
<1> DEFINE n == card[1]
<1>1. /\ files' = <<n>> /\ layout' = SingleLayout(<<n>>)
      /\ step' = IF SplitRip THEN "Files" ELSE "Ready"
      /\ UNCHANGED <<cue_str, card>> /\ 1 \in DOMAIN card
  BY DEF Construct, Opening, Loading
<1>2. card \in Seq(Nat) /\ nCueFiles = Len(card) /\ Len(card) \in Nat \ {0}
  BY SizesOfRip
<1>3. n \in Nat
  BY <1>1, <1>2
<1>4. files' \in Seq(Nat) /\ Len(files') = 1 /\ files'[1] = card[1]
  BY <1>1, <1>3
<1>5. Len(files') \in 1 .. Len(card) /\ \A f \in 1 .. Len(files') : files'[f] = card[f]
  BY <1>2, <1>4
<1>6. ASSUME step' = "Ready"
      PROVE  files' = card /\ layout' \in RebuildLayout(cue_str, files')
  <2>1. Len(card) = 1
    BY <1>1, <1>2, <1>6 DEF SplitRip
  <2>2. files' = card
    BY <1>2, <1>4, <2>1
  <2>3. RebuildLayout(cue_str, files') = {SingleLayout(files')}
    <3>1. Len(files') <= 1
      BY <1>4
    <3> QED BY Zenon, <3>1 DEF RebuildLayout
  <2> QED BY <1>1, <2>2, <2>3
<1>7. rip' \in Rips /\ cue_str' = SheetOf(rip') /\ card' = Sizes(rip')
  BY <1>1 DEF LoadInv
<1> HIDE DEF n
<1> QED BY Zenon, <1>1, <1>4, <1>5, <1>6, <1>7 DEF LoadInv

\* One more file is adopted.
LEMMA LoadAdds ==
    ASSUME LoadInv, AddDataFile, UNCHANGED rip
    PROVE  LoadInv'
<1> DEFINE k == Len(files)
           n == card[k + 1]
<1>1. /\ files' = Append(files, n) /\ layout' \in RebuildLayout(cue_str, Append(files, n))
      /\ step' = IF Len(files') = nCueFiles THEN "Ready" ELSE "Files"
      /\ UNCHANGED <<cue_str, card>> /\ k + 1 \in DOMAIN card /\ step = "Files"
  BY DEF AddDataFile, Opening, Loading, nextFile
<1>2. card \in Seq(Nat) /\ nCueFiles = Len(card) /\ Len(card) \in Nat \ {0}
  BY SizesOfRip
<1>3. files \in Seq(Nat) /\ k \in 1 .. Len(card) /\ \A f \in 1 .. k : files[f] = card[f]
  BY <1>1 DEF LoadInv
<1>4. n \in Nat /\ k + 1 \in 1 .. Len(card)
  BY <1>1, <1>2
<1> HIDE DEF n
<1>5. files' \in Seq(Nat) /\ Len(files') = k + 1 /\ files'[k + 1] = n
      /\ \A f \in 1 .. k : files'[f] = files[f]
  BY <1>1, <1>3, <1>4
<1>6. Len(files') \in 1 .. Len(card) /\ \A f \in 1 .. Len(files') : files'[f] = card[f]
  <2>1. Len(files') \in 1 .. Len(card)
    BY <1>4, <1>5
  <2> HIDE DEF k
  <2>2. \A f \in 1 .. k + 1 : files'[f] = card[f]
    <3> TAKE f \in 1 .. k + 1
    <3>1. CASE f = k + 1
      BY <1>5, <3>1 DEF n
    <3>2. CASE f # k + 1
      <4>1. f \in 1 .. k
        BY <1>3, <3>2
      <4> QED BY <1>3, <1>5, <4>1
    <3> QED BY <3>1, <3>2
  <2> QED BY <1>5, <2>1, <2>2
<1> HIDE DEF k
<1>7. ASSUME step' = "Ready"
      PROVE  files' = card /\ layout' \in RebuildLayout(cue_str, files')
  <2>1. Len(files') = Len(card)
    BY <1>1, <1>2, <1>7
  <2>2. files' = card
    BY <1>2, <1>5, <1>6, <2>1
  <2> QED BY <1>1, <2>2
<1>8. rip' \in Rips /\ cue_str' = SheetOf(rip') /\ card' = Sizes(rip')
  BY <1>1 DEF LoadInv
<1> QED BY Zenon, <1>1, <1>5, <1>6, <1>7, <1>8 DEF LoadInv

\* The other steps adopt no file.
LEMMA LoadKeeps ==
    ASSUME LoadInv, UNCHANGED <<rip, cue_str, card>>,
           \/ step' \notin {"Files", "Ready"}
           \/ UNCHANGED <<step, files, layout>>
    PROVE  LoadInv'
  BY Zenon DEF LoadInv

LEMMA LoadSteps ==
    ASSUME LoadInv, DiscNext \/ UNCHANGED <<loading, rip>>
    PROVE  LoadInv'
<1>1. CASE UNCHANGED <<loading, rip>>
  BY <1>1, LoadKeeps DEF loading
<1>2. CASE DiscNext
  <2>0. UNCHANGED rip
    BY <1>2 DEF DiscNext
  <2>1. CASE ReadCue \/ FirstUnusable \/ FirstEmpty \/ NextUnusable \/ NextEmpty \/ Reject \/ Delete
    <3>1. step' \notin {"Files", "Ready"} /\ UNCHANGED <<cue_str, card>>
      BY <2>1 DEF ReadCue, FirstUnusable, FirstEmpty, NextUnusable, NextEmpty, Reject, Delete,
         Opening, Loading
    <3> QED BY <2>0, <3>1, LoadKeeps
  <2>2. CASE Construct
    BY <2>0, <2>2, LoadConstructs
  <2>3. CASE AddDataFile
    BY <2>0, <2>3, LoadAdds
  <2>4. CASE Use
    <3>1. UNCHANGED loading
      BY <2>4 DEF Use, Seek, Read, ReadWithinFile, CacheHit, ReadHole, ReadNothing, ReadThrough,
         Refill, CardFails, ReadDone, Turn, Serving
    <3> QED BY <2>0, <3>1, LoadKeeps DEF loading
  <2> QED BY <1>2, <2>1, <2>2, <2>3, <2>4 DEF DiscNext, Load
<1> QED BY <1>1, <1>2

-----------------------------------------------------------------------------
(* The sectors of its tracks                                                 *)

\* Where a track starts on the disc, behind the gap before it.
StartsAt(r, i) == Behind(r)[i - 1].sectors + Gap(r, i)

\* What lies behind a track does not move back.
LEMMA SectorsRise ==
    ASSUME NEW r, IsRip(r)
    PROVE  \A i, j \in 0 .. Len(r.tracks) :
               i <= j => Behind(r)[i].sectors <= Behind(r)[j].sectors
<1> DEFINE n == Len(r.tracks)
           F == [i \in 0 .. n |-> Behind(r)[i].sectors]
<1>1. n \in Nat
  BY RipFields
<1>2. \A i \in 0 .. n : F[i] \in Nat
  <2>1. \A i \in 0 .. n : Behind(r)[i] \in Stand
    BY BehindRow
  <2> QED BY <2>1 DEF Stand
<1>3. \A i \in 1 .. n : F[i - 1] <= F[i]
  <2> TAKE i \in 1 .. n
  <2>1. /\ Behind(r)[i - 1].sectors \in Nat
        /\ Behind(r)[i].sectors = Behind(r)[i - 1].sectors + Gap(r, i) + Pregap(r, i)
                                       + StoredFrames(r, i)
        /\ Gap(r, i) \in Nat /\ Pregap(r, i) \in Nat /\ StoredFrames(r, i) \in Nat
    BY TrackStands, RipFields
  <2>2. Behind(r)[i - 1].sectors <= Behind(r)[i].sectors
    BY <2>1
  <2>3. F[i - 1] = Behind(r)[i - 1].sectors /\ F[i] = Behind(r)[i].sectors
    <3>1. i - 1 \in 0 .. n /\ i \in 0 .. n
      BY <1>1
    <3> QED BY Zenon, <3>1
  <2> QED BY Zenon, <2>2, <2>3
<1>4. \A i \in 0 .. n : F[i] = Behind(r)[i].sectors
  BY Zenon
<1> HIDE DEF F, n
<1>5. \A i, j \in 0 .. n : i <= j => F[i] <= F[j]
  BY <1>1, <1>2, <1>3, RowRises
<1> QED BY Zenon, <1>4, <1>5 DEF n

\* The gap, the silent pregap, the stored pause and the data of a track follow each other.
LEMMA TrackSpan ==
    ASSUME NEW r, IsRip(r), NEW i \in 1 .. Len(r.tracks)
    PROVE  /\ Behind(r)[i - 1].sectors \in Nat /\ StartsAt(r, i) \in Nat
           /\ FirstStored(r, i) \in Nat /\ DataStart(r, i) \in Nat /\ Behind(r)[i].sectors \in Nat
           /\ Behind(r)[i - 1].sectors <= StartsAt(r, i)
           /\ FirstStored(r, i) = StartsAt(r, i) + Pregap(r, i) /\ Pregap(r, i) \in Nat
           /\ DataStart(r, i) = FirstStored(r, i) + r.tracks[i].pause
           /\ StartsAt(r, i) <= FirstStored(r, i) /\ FirstStored(r, i) <= DataStart(r, i)
           /\ DataStart(r, i) < Behind(r)[i].sectors
           /\ DataStart(r, i) = Behind(r)[i].sectors - r.tracks[i].data
<1> DEFINE b == Behind(r)[i - 1].sectors
           e == Behind(r)[i].sectors
           g == Gap(r, i)
           l == Pregap(r, i)
           s == StoredFrames(r, i)
           d == r.tracks[i].data
           p == r.tracks[i].pause
<1>1. b \in Nat /\ g \in Nat /\ l \in Nat /\ e = b + g + l + s
  BY TrackStands
<1>2. p \in Nat /\ d \in Nat /\ d > 0 /\ s = p + d
  BY RipFields
<1>3. StartsAt(r, i) = b + g /\ FirstStored(r, i) = e - s /\ DataStart(r, i) = e - d
  BY DEF StartsAt, FirstStored, DataStart
<1> HIDE DEF b, e, g, l, s, d, p
<1>4. /\ b \in Nat /\ b + g \in Nat /\ e - s \in Nat /\ e - d \in Nat /\ e \in Nat
      /\ b <= b + g /\ e - s = b + g + l /\ e - d = (e - s) + p /\ b + g <= e - s
      /\ e - s <= e - d /\ e - d < e
  BY <1>1, <1>2
<1>5. /\ b \in Nat /\ StartsAt(r, i) \in Nat
      /\ FirstStored(r, i) \in Nat /\ DataStart(r, i) \in Nat /\ e \in Nat
      /\ b <= StartsAt(r, i)
      /\ FirstStored(r, i) = StartsAt(r, i) + l /\ l \in Nat
      /\ DataStart(r, i) = FirstStored(r, i) + p
      /\ StartsAt(r, i) <= FirstStored(r, i) /\ FirstStored(r, i) <= DataStart(r, i)
      /\ DataStart(r, i) < e
      /\ DataStart(r, i) = e - d
  BY Zenon, <1>1, <1>3, <1>4
<1> QED BY <1>5 DEF b, e, l, d, p

\* A track starts behind the ones before it.
LEMMA StartsFollow ==
    ASSUME NEW r, IsRip(r), NEW i \in 1 .. Len(r.tracks), NEW j \in 1 .. Len(r.tracks), i < j
    PROVE  /\ Behind(r)[i].sectors <= Behind(r)[j - 1].sectors
           /\ Behind(r)[i].sectors <= StartsAt(r, j)
           /\ StartsAt(r, i) < StartsAt(r, j)
<1>1. i \in 0 .. Len(r.tracks) /\ j - 1 \in 0 .. Len(r.tracks) /\ i <= j - 1
  BY RipFields
<1>2. Behind(r)[i].sectors <= Behind(r)[j - 1].sectors
  BY <1>1, SectorsRise
<1> DEFINE a == Behind(r)[i].sectors
           b == Behind(r)[j - 1].sectors
           c == StartsAt(r, i)
           d == StartsAt(r, j)
<1>3. /\ c \in Nat /\ c <= DataStart(r, i) /\ DataStart(r, i) < a /\ a \in Nat
      /\ DataStart(r, i) \in Nat
  <2>1. /\ StartsAt(r, i) \in Nat /\ FirstStored(r, i) \in Nat /\ DataStart(r, i) \in Nat
        /\ StartsAt(r, i) <= FirstStored(r, i) /\ FirstStored(r, i) <= DataStart(r, i)
        /\ DataStart(r, i) < Behind(r)[i].sectors /\ Behind(r)[i].sectors \in Nat
    BY TrackSpan
  <2> QED BY <2>1
<1>4. b \in Nat /\ d \in Nat /\ b <= d
  BY TrackSpan
<1> HIDE DEF a, b, c, d
<1>5. a <= b
  BY <1>2 DEF a, b
<1>6. a <= d /\ c < d
  BY <1>3, <1>4, <1>5
<1> QED BY <1>5, <1>6 DEF a, b, c, d

\* The first track starts with the disc.
LEMMA FirstStarts ==
    ASSUME NEW r, IsRip(r)
    PROVE  StartsAt(r, 1) = 0 /\ Behind(r)[0].sectors = 0
<1>1. Behind(r)[0] = [sectors |-> 0, frames |-> 0, bytes |-> 0]
  BY BehindRow
<1>2. ~OpensSession(r, 1)
  BY DEF OpensSession
<1>3. Gap(r, 1) = 0
  BY <1>2 DEF Gap
<1>4. Behind(r)[0].sectors = 0
  BY <1>1
<1>5. 1 - 1 = 0
  OBVIOUS
<1> QED BY <1>3, <1>4, <1>5 DEF StartsAt

\* The tables find least and greatest members, and last tracks, as the sheet does.
LEMMA TocSame ==
    ASSUME NEW S
    PROVE  Toc!Min(S) = Min(S) /\ Toc!Max(S) = Max(S) /\ Toc!Last(S) = Last(S)
  BY Zenon DEF Toc!Min, Min, Toc!Max, Max, Toc!Last, Last

\* In tracks that start one behind the other, the one that holds a sector is found.
LEMMA TrackFound ==
    ASSUME NEW T \in Seq(Info), NEW k \in 1 .. Len(T), NEW lba \in Nat,
           \A i, j \in 1 .. Len(T) : i < j => T[i].track_start < T[j].track_start,
           T[1].track_start = 0,
           T[k].track_start <= lba, \A j \in 1 .. Len(T) : k < j => lba < T[j].track_start
    PROVE  Toc!TrackInfoForLBA(T, lba) = {T[k]} /\ TrackForLBA(T, lba) = T[k]
<1> DEFINE n == Len(T)
           s(i) == T[i].track_start
           starts == {i \in DOMAIN T : s(i) = lba}
           later  == {i \in DOMAIN T : s(i) > lba}
           above == {i \in 2 .. Len(T) : lba < s(i)}
<1>1. n \in Nat /\ DOMAIN T = 1 .. n /\ k \in 1 .. n /\ \A i \in 1 .. n : s(i) \in Int
  <2>1. \A i \in 1 .. Len(T) : T[i].track_start \in Int
    <3> TAKE i \in 1 .. Len(T)
    <3>1. T[i] \in Info
      OBVIOUS
    <3> QED BY <3>1 DEF Info
  <2>2. Len(T) \in Nat /\ DOMAIN T = 1 .. Len(T)
    OBVIOUS
  <2> QED BY Zenon, <2>1, <2>2
<1>2. /\ \A i, j \in 1 .. n : i < j => s(i) < s(j)
      /\ s(1) = 0 /\ s(k) <= lba /\ \A j \in 1 .. n : k < j => lba < s(j)
  OBVIOUS
<1> HIDE DEF n, s
<1>3. \A i \in 1 .. n : i <= k => s(i) <= lba
  <2> TAKE i \in 1 .. n
  <2>1. CASE i = k
    BY <1>2, <2>1
  <2>2. CASE i # k
    <3> SUFFICES ASSUME i <= k PROVE s(i) <= lba
      OBVIOUS
    <3>1. i < k
      BY <1>1, <2>2
    <3>2. s(i) < s(k) /\ s(i) \in Int /\ s(k) \in Int /\ s(k) <= lba
      BY <1>1, <1>2, <3>1
    <3> QED BY <3>2
  <2> QED BY <2>1, <2>2
<1>4. later = k + 1 .. n
  <2>1. \A i \in 1 .. n : s(i) > lba <=> k < i
    <3> TAKE i \in 1 .. n
    <3>1. i \in Nat /\ k \in Nat /\ s(i) \in Int /\ (i <= k => s(i) <= lba)
          /\ (k < i => lba < s(i))
      BY <1>1, <1>2, <1>3
    <3> QED BY <3>1
  <2>2. \A i \in 1 .. n : k < i <=> i \in k + 1 .. n
    BY <1>1
  <2>3. k + 1 .. n \subseteq 1 .. n
    BY <1>1
  <2> QED BY Zenon, <1>1, <2>1, <2>2, <2>3
<1>5. above = k + 1 .. n
  <2>1. \A i \in 2 .. n : lba < s(i) <=> k < i
    <3> TAKE i \in 2 .. n
    <3>0. i \in 1 .. n
      BY <1>1
    <3>1. i \in Nat /\ k \in Nat /\ s(i) \in Int /\ (i <= k => s(i) <= lba)
          /\ (k < i => lba < s(i))
      BY <1>1, <1>2, <1>3, <3>0
    <3> QED BY <3>1
  <2>2. \A i \in 2 .. n : k < i <=> i \in k + 1 .. n
    BY <1>1
  <2>3. k + 1 .. n \subseteq 2 .. n
    BY <1>1
  <2> QED BY Zenon, <2>1, <2>2, <2>3 DEF n
<1>6. Min(later \cup {n + 1}) = k + 1
  <2> DEFINE S == later \cup {n + 1}
  <2>1. S = k + 1 .. n + 1
    BY <1>1, <1>4
  <2>2. S \subseteq Nat /\ S # {}
    BY <1>1, <2>1
  <2> HIDE DEF S
  <2> DEFINE x == Min(S)
  <2>3. x \in S /\ \A y \in S : x <= y
    BY <2>2, MinIn
  <2>4. k + 1 \in S
    BY <1>1, <2>1
  <2> HIDE DEF x
  <2>5. x = k + 1
    BY SMTT(20), <1>1, <2>1, <2>3, <2>4
  <2> QED BY <2>5 DEF x, S
<1>7. starts # {} => Min(starts) = k
  <2> SUFFICES ASSUME starts # {} PROVE Min(starts) = k
    OBVIOUS
  <2>1. \A i \in starts : i = k
    <3> TAKE i \in starts
    <3>1. i \in 1 .. n /\ s(i) = lba
      BY <1>1
    <3>2. ~(k < i)
      <4>1. k < i => lba < s(i)
        BY <1>2, <3>1
      <4> QED BY <3>1, <4>1
    <3>3. ~(i < k)
      <4>1. i < k => s(i) < s(k)
        BY <1>1, <1>2, <3>1
      <4>2. s(k) <= lba /\ s(k) \in Int
        BY <1>1, <1>2
      <4> QED BY <3>1, <4>1, <4>2
    <3> QED BY <1>1, <3>1, <3>2, <3>3
  <2>2. starts = {k}
    BY <2>1
  <2>3. {k} \subseteq Nat /\ {k} # {}
    BY <1>1
  <2>4. Min({k}) \in {k}
    BY <2>3, MinIn
  <2> QED BY <2>2, <2>4
<1>8. lba = 0 => k = 1
  <2> SUFFICES ASSUME lba = 0, k # 1 PROVE FALSE
    OBVIOUS
  <2>1. 1 < k /\ 1 \in 1 .. n
    BY <1>1
  <2>2. s(1) < s(k) /\ s(1) = 0 /\ s(k) <= 0 /\ s(k) \in Int
    BY <1>1, <1>2, <2>1
  <2> QED BY <2>2
<1>9. DOMAIN T \cap {k} = {k}
  BY <1>1
<1>10. {T[i] : i \in DOMAIN T \cap {k}} = {T[k]}
  BY <1>9
<1>11. Toc!TrackInfoForLBA(T, lba) = {T[k]}
  <2>0. Toc!TrackInfoForLBA(T, lba) =
          CASE lba = 0 -> {T[i] : i \in DOMAIN T \cap {1}}
            [] lba > 0 /\ starts # {} -> {T[Toc!Min(starts)]}
            [] OTHER -> {T[i] : i \in DOMAIN T \cap {Toc!Min(later \cup {n + 1}) - 1}}
    BY DEF Toc!TrackInfoForLBA, s, n
  <2> HIDE DEF starts, later
  <2>1. CASE lba = 0
    <3>1. Toc!TrackInfoForLBA(T, lba) = {T[i] : i \in DOMAIN T \cap {1}}
      BY <2>0, <2>1
    <3> QED BY <1>8, <1>10, <2>1, <3>1
  <2>2. CASE lba # 0 /\ starts # {}
    <3>1. lba > 0
      BY <2>2
    <3>2. Toc!TrackInfoForLBA(T, lba) = {T[Toc!Min(starts)]}
      BY <2>0, <2>2, <3>1
    <3>3. Toc!Min(starts) = Min(starts)
      BY Zenon, TocSame
    <3> QED BY Zenon, <1>7, <2>2, <3>2, <3>3
  <2>3. CASE lba # 0 /\ starts = {}
    <3>1. Toc!TrackInfoForLBA(T, lba)
             = {T[i] : i \in DOMAIN T \cap {Toc!Min(later \cup {n + 1}) - 1}}
      BY <2>0, <2>3
    <3>2. k + 1 - 1 = k
      BY <1>1
    <3>3. Toc!Min(later \cup {n + 1}) = k + 1
      BY Zenon, <1>6, TocSame
    <3>4. Toc!Min(later \cup {n + 1}) - 1 = k
      BY <3>2, <3>3
    <3> QED BY <1>10, <3>1, <3>4
  <2> QED BY <2>1, <2>2, <2>3
<1>12. TrackForLBA(T, lba) = T[k]
  <2>0. TrackForLBA(T, lba) = IF above = {} THEN Last(T) ELSE T[Min(above) - 1]
    BY DEF TrackForLBA, s
  <2> HIDE DEF above
  <2>1. CASE k = n
    <3>1. above = {}
      BY <1>1, <1>5, <2>1
    <3>2. Last(T) = T[n]
      BY DEF Last, n
    <3> QED BY <2>0, <2>1, <3>1, <3>2
  <2>2. CASE k # n
    <3>1. k + 1 \in above /\ above \subseteq Nat
      BY <1>1, <1>5, <2>2
    <3> DEFINE x == Min(above)
    <3>2. x \in above /\ \A y \in above : x <= y
      BY <3>1, MinIn
    <3> HIDE DEF x
    <3>3. x = k + 1
      BY <1>1, <1>5, <3>1, <3>2
    <3>4. x - 1 = k
      BY <1>1, <3>3
    <3>5. above # {}
      BY <3>1
    <3> QED BY Zenon, <2>0, <3>4, <3>5 DEF x
  <2> QED BY <2>1, <2>2
<1> QED BY <1>11, <1>12

\* The file behind another begins with the track behind its last.
LEMMA FileFollows ==
    ASSUME NEW r, IsRip(r), NEW f \in 1 .. Len(r.files) - 1
    PROVE  LET l == LastInFile(r, f)
           IN  /\ l \in 1 .. Len(r.tracks) /\ l + 1 \in 2 .. Len(r.tracks)
               /\ r.tracks[l].file = f /\ r.tracks[l + 1].file = f + 1 /\ FirstInFile(r, l + 1)
               /\ \A i \in 1 .. Len(r.tracks) : r.tracks[i].file = f + 1 => l + 1 <= i
<1> DEFINE l == LastInFile(r, f)
           n == Len(r.tracks)
           m == Len(r.files)
           F == [i \in 1 .. n |-> r.tracks[i].file]
<1>1. n \in Nat \ {0} /\ m \in Nat \ {0}
  BY RipFields, RipFilesInOrder
<1>2. f \in 1 .. m /\ f # m /\ f \in Nat
  <2>1. f \in 1 .. m - 1
    OBVIOUS
  <2> HIDE DEF m
  <2> QED BY <1>1, <2>1
<1>3. l \in 1 .. n /\ r.tracks[l].file = f
      /\ \A i \in 1 .. n : r.tracks[i].file = f => i <= l
  BY <1>2, LastInFileFacts
<1>4. /\ \A i, j \in 1 .. n : i <= j => F[i] <= F[j]
      /\ \A i \in 1 .. n : F[i] \in 1 .. m
      /\ F[n] = m
      /\ \A i \in 2 .. n : F[i] = F[i - 1] + (IF FirstInFile(r, i) THEN 1 ELSE 0)
  <2>1. \A i \in 1 .. n : F[i] = r.tracks[i].file
    BY Zenon
  <2>2. n \in 1 .. n /\ \A i \in 2 .. n : i \in 1 .. n /\ i - 1 \in 1 .. n
    BY <1>1
  <2> HIDE DEF F
  <2> QED BY ZenonT(30), <2>1, <2>2, RipFilesInOrder DEF n, m
<1>5. F[l] = f /\ \A i \in 1 .. n : F[i] = f => i <= l
  BY <1>3
<1>6. \A i \in 1 .. n : F[i] = r.tracks[i].file
  BY Zenon
<1> HIDE DEF F, l, n, m
<1>7. l # n
  BY <1>2, <1>4, <1>5
<1>8. l + 1 \in 2 .. n /\ l + 1 \in 1 .. n /\ l + 1 - 1 = l /\ ~(l + 1 <= l)
  BY <1>1, <1>3, <1>7
<1>9. F[l + 1] # f
  BY <1>5, <1>8
<1>10. F[l + 1] = F[l] + (IF FirstInFile(r, l + 1) THEN 1 ELSE 0)
  <2> DEFINE k == l + 1
  <2>1. k \in 2 .. n /\ k - 1 = l
    BY <1>1, <1>3, <1>8
  <2> HIDE DEF k
  <2>2. F[k] = F[k - 1] + (IF FirstInFile(r, k) THEN 1 ELSE 0)
    BY Zenon, <1>4, <2>1
  <2>3. F[k] = F[l] + (IF FirstInFile(r, k) THEN 1 ELSE 0)
    BY <2>1, <2>2
  <2> QED BY <2>3 DEF k
<1>11. FirstInFile(r, l + 1) /\ F[l + 1] = f + 1
  BY <1>2, <1>5, <1>9, <1>10
<1>12. \A i \in 1 .. n : F[i] = f + 1 => l + 1 <= i
  <2> TAKE i \in 1 .. n
  <2> SUFFICES ASSUME F[i] = f + 1 PROVE l + 1 <= i
    OBVIOUS
  <2>1. i <= l => F[i] <= f
    BY <1>3, <1>4, <1>5
  <2>2. ~(i <= l)
    BY <1>2, <2>1
  <2> QED BY <1>1, <1>3, <2>2
<1>13. r.tracks[l + 1].file = f + 1 /\ \A i \in 1 .. n : r.tracks[i].file = f + 1 => l + 1 <= i
  <2>1. r.tracks[l + 1].file = f + 1
    BY Zenon, <1>6, <1>8, <1>11
  <2>2. ASSUME NEW i \in 1 .. n, r.tracks[i].file = f + 1 PROVE l + 1 <= i
    <3>1. F[i] = f + 1
      BY Zenon, <1>6, <2>2
    <3> QED BY Zenon, <1>12, <3>1
  <2> QED BY Zenon, <2>1, <2>2
<1>14. l \in 1 .. n /\ r.tracks[l].file = f /\ l + 1 \in 2 .. n /\ FirstInFile(r, l + 1)
  BY Zenon, <1>3, <1>8, <1>11
<1> QED BY <1>13, <1>14 DEF l, n

\* What a file holds behind a track does not shrink until its end.
LEMMA BytesRise ==
    ASSUME NEW r, IsRip(r), NEW i \in 1 .. Len(r.tracks)
    PROVE  /\ Behind(r)[i].bytes \in Nat /\ Behind(r)[LastInFile(r, r.tracks[i].file)].bytes \in Nat
           /\ Behind(r)[i].bytes <= Behind(r)[LastInFile(r, r.tracks[i].file)].bytes
           /\ StoredFrames(r, i) * Size(r, i) <= Behind(r)[i].bytes
           /\ StoredFrames(r, i) * Size(r, i) \in Nat
<1> DEFINE n == Len(r.tracks)
           f == r.tracks[i].file
           l == LastInFile(r, f)
           B == [j \in 1 .. n |-> Behind(r)[j].bytes]
           bad == {j \in i .. l : B[j] < B[i]}
<1>1. n \in Nat \ {0} /\ f \in 1 .. Len(r.files)
  BY RipFields, RipFilesInOrder
<1>2. l \in 1 .. n /\ r.tracks[l].file = f /\ i <= l
  <2> HIDE DEF f
  <2>1. l \in 1 .. n /\ r.tracks[l].file = f
        /\ \A j \in 1 .. n : r.tracks[j].file = f => j <= l
    BY <1>1, LastInFileFacts
  <2> QED BY <2>1 DEF f
<1>3. \A j \in 1 .. n : B[j] \in Nat /\ B[j] = Behind(r)[j].bytes
  BY TrackStands
<1>30. \A j \in 1 .. n : StoredFrames(r, j) * Size(r, j) \in Nat
  <2> TAKE j \in 1 .. n
  <2> DEFINE x == StoredFrames(r, j)
             y == Size(r, j)
  <2>1. x \in Nat /\ y \in Nat
    BY RipFields
  <2> HIDE DEF x, y
  <2>2. x * y \in Nat
    BY <2>1, TimesNat
  <2> QED BY <2>2 DEF x, y
<1> HIDE DEF l
<1>4. bad = {}
  <2> SUFFICES ASSUME bad # {} PROVE FALSE
    OBVIOUS
  <2>1. PICK k \in bad : \A j \in bad : k <= j
    <3>1. bad \subseteq Nat
      BY <1>2
    <3> HIDE DEF bad
    <3> QED BY <3>1, LeastNumber
  <2>2. k \in i .. l /\ B[k] < B[i]
    BY <2>1
  <2> HIDE DEF B
  <2>3. k # i
    BY <1>3, <2>2
  <2>4. k \in 2 .. n /\ k - 1 \in i .. l /\ ~(k <= k - 1) /\ k \in 1 .. n /\ k - 1 \in 1 .. n
        /\ i <= k - 1 /\ k <= l /\ k - 1 <= l /\ i <= k
    BY <1>1, <1>2, <2>2, <2>3
  <2>5. r.tracks[k].file = f /\ r.tracks[k - 1].file = f
    <3>1. /\ r.tracks[i].file <= r.tracks[k].file /\ r.tracks[k].file <= r.tracks[l].file
          /\ r.tracks[i].file <= r.tracks[k - 1].file /\ r.tracks[k - 1].file <= r.tracks[l].file
      BY <1>2, <2>4, RipFilesInOrder
    <3>2. r.tracks[k].file \in Nat /\ r.tracks[k - 1].file \in Nat /\ f \in Nat
      BY <2>4, RipFields
    <3> DEFINE a == r.tracks[k].file
               b == r.tracks[k - 1].file
    <3>3. f <= a /\ a <= f /\ f <= b /\ b <= f
      BY <1>2, <3>1
    <3>4. a \in Nat /\ b \in Nat
      BY <3>2
    <3> HIDE DEF f, a, b
    <3>5. a = f /\ b = f
      BY <3>2, <3>3, <3>4
    <3> QED BY <3>5 DEF a, b
  <2>6. ~FirstInFile(r, k)
    BY <2>4, <2>5 DEF FirstInFile
  <2>7. Behind(r)[k].bytes = Behind(r)[k - 1].bytes + StoredFrames(r, k) * Size(r, k)
    BY <2>4, <2>6, TrackStands
  <2> DEFINE w == StoredFrames(r, k) * Size(r, k)
  <2>8. w \in Nat
    BY <1>30, <2>4
  <2> HIDE DEF w, n
  <2>9. B[k] = B[k - 1] + w
    BY <1>3, <2>4, <2>7 DEF w
  <2>10. ~(B[k - 1] < B[i])
    BY <2>1, <2>4 DEF B
  <2> QED BY <1>3, <2>2, <2>4, <2>8, <2>9, <2>10 DEF n
<1>5. B[i] <= B[l]
  <2>1. l \in i .. l
    BY <1>2
  <2>2. ~(B[l] < B[i])
    BY <1>4, <2>1
  <2>3. B[l] \in Nat /\ B[i] \in Nat
    BY <1>2, <1>3
  <2> HIDE DEF B
  <2> QED BY <2>2, <2>3
<1>6. StoredFrames(r, i) * Size(r, i) <= Behind(r)[i].bytes
  <2> DEFINE w == StoredFrames(r, i) * Size(r, i)
             c == IF FirstInFile(r, i) THEN 0 ELSE Behind(r)[i - 1].bytes
             b == Behind(r)[i].bytes
  <2>1. b = c + w /\ c \in Nat
    BY TrackStands
  <2>2. w \in Nat
    BY <1>30
  <2> HIDE DEF w, c, b
  <2>3. w <= b
    BY <2>1, <2>2
  <2> QED BY <2>3 DEF w, b
<1>7. B[i] = Behind(r)[i].bytes /\ B[l] = Behind(r)[l].bytes /\ B[i] \in Nat /\ B[l] \in Nat
  BY <1>2, <1>3
<1> HIDE DEF B
<1> QED BY Zenon, <1>5, <1>6, <1>7, <1>30 DEF l, f, n

\* A sector that a file stores is at a whole frame of it.
LEMMA StoredPlace ==
    ASSUME NEW r, IsRip(r), NEW i \in 1 .. Len(r.tracks),
           NEW lba \in Int, FirstStored(r, i) <= lba, lba < Behind(r)[i].sectors
    PROVE  /\ StoredAt(r, i, lba) \in Nat
           /\ StoredAt(r, i, lba) < Sizes(r)[r.tracks[i].file]
           /\ StoredAt(r, i, lba) = Behind(r)[i].bytes - (Behind(r)[i].sectors - lba) * Size(r, i)
<1> DEFINE e == Behind(r)[i].sectors
           b == Behind(r)[i].bytes
           s == StoredFrames(r, i)
           z == Size(r, i)
           f == r.tracks[i].file
           c == Behind(r)[LastInFile(r, f)].bytes
           x == e - lba
           w == x * z
           full == s * z
<1>1. e \in Nat /\ s \in Nat /\ z \in Nat /\ z > 0 /\ FirstStored(r, i) = e - s
  BY TrackStands, RipFields DEF FirstStored
<1>2. x \in Nat /\ x > 0 /\ x <= s
  <2>1. e - s <= lba /\ lba < e
    BY <1>1
  <2> HIDE DEF e, s
  <2> QED BY <1>1, <2>1
<1>3. w \in Nat /\ w <= full /\ z <= w
  <2> HIDE DEF x, z, s
  <2>1. x * z <= s * z /\ x * z \in Nat
    BY <1>1, <1>2, TimesLess, TimesNat
  <2>2. 1 * z <= x * z
    BY <1>1, <1>2, TimesLess
  <2>3. 1 * z = z
    BY <1>1
  <2> QED BY Zenon, <2>1, <2>2, <2>3
<1>4. b \in Nat /\ c \in Nat /\ b <= c /\ full <= b /\ full \in Nat
  BY BytesRise
<1>5. Sizes(r)[f] = c + r.files[f].tail /\ r.files[f].tail \in Nat
  <2>1. f \in 1 .. Len(r.files)
    BY RipFilesInOrder
  <2> HIDE DEF f
  <2> QED BY <2>1, SizesTyped, RipFields
<1>6. StoredAt(r, i, lba) = b - w
  BY DEF StoredAt
<1> DEFINE o == StoredAt(r, i, lba)
           size == Sizes(r)[f]
           tail == r.files[f].tail
<1> HIDE DEF b, c, w, full, o, size, tail, z
<1>7. o \in Nat /\ o < size
  <2>1. o = b - w /\ size = c + tail /\ tail \in Nat
    BY <1>5, <1>6 DEF o, size, tail
  <2> QED BY <1>1, <1>3, <1>4, <2>1
<1> QED BY <1>6, <1>7 DEF o, size, f, b, w, z

\* What the parser says of a track of a plain rip.
LEMMA TrackOfRip ==
    ASSUME NEW r, IsRip(r), Plain(r), NEW T, TracksOf(r, T), TracksAt(r, T),
           NEW i \in 1 .. Len(r.tracks)
    PROVE  /\ T[i].file_index = r.tracks[i].file /\ T[i].track_number = i
           /\ T[i].track_mode = r.tracks[i].mode /\ T[i].session = r.tracks[i].session
           /\ T[i].prev_session_leadout = 0 /\ T[i].sector_length = Size(r, i)
           /\ T[i].file_offset = Behind(r)[i].bytes - r.tracks[i].data * Size(r, i)
           /\ T[i].track_start = StartsAt(r, i) /\ T[i].data_start = DataStart(r, i)
           /\ T[i].unstored_pregap_length = Pregap(r, i)
<1>1. Shaped(r, i, T[i])
  BY Zenon DEF TracksOf
<1>2. Placed(r, i, T[i])
  BY Zenon DEF TracksAt
<1>3. GetSectorLength(r.files[r.tracks[i].file].mode, r.tracks[i].mode) = Size(r, i)
  BY PlainLength
<1> QED BY Zenon, <1>1, <1>2, <1>3 DEF Shaped, Placed, StartsAt, DataStart

\* The blocks left behind the start of a track that ends with its file.
LEMMA BlocksLeft ==
    ASSUME NEW r, IsRip(r), NEW f \in 1 .. Len(r.files)
    PROVE  LET k == LastInFile(r, f)
               off == Behind(r)[k].bytes - r.tracks[k].data * Size(r, k)
           IN  /\ Sizes(r)[f] \in Nat /\ off \in Int /\ Sizes(r)[f] > off
               /\ (Sizes(r)[f] - off) \div Size(r, k) = r.tracks[k].data
               /\ DataStart(r, k) + r.tracks[k].data = Behind(r)[k].sectors
<1> DEFINE k == LastInFile(r, f)
           d == r.tracks[k].data
           s == Size(r, k)
           b == Behind(r)[k].bytes
           off == b - d * s
           tail == r.files[f].tail
           w == Sizes(r)[f]
           x == d * s
<1>1. k \in 1 .. Len(r.tracks)
  BY LastInFileFacts
<1>2. tail \in Nat /\ tail < s
  <2>1. f \in DOMAIN r.files
    BY RipFields
  <2>2. r.files[f].tail < Size(r, LastInFile(r, f))
    BY <2>1 DEF IsRip
  <2> QED BY <2>2, RipFields
<1>3. w = b + tail
  BY SizesTyped
<1> HIDE DEF k
<1>4. s \in Nat /\ s > 0 /\ d \in Nat /\ d > 0
  BY <1>1, RipFields
<1>5. b \in Nat
  BY <1>1, TrackStands
<1>50. DataStart(r, k) + d = Behind(r)[k].sectors
  <2>1. DataStart(r, k) = Behind(r)[k].sectors - d /\ Behind(r)[k].sectors \in Nat
    BY <1>1, TrackSpan
  <2> HIDE DEF d
  <2> QED BY <1>4, <2>1
<1> HIDE DEF d, s, b, tail, w
<1>6. x \in Nat
  BY <1>4, TimesNat
<1>7. off = b - x
  OBVIOUS
<1> HIDE DEF x, off
<1>8. off \in Int /\ w = off + x + tail /\ w \in Nat
  BY <1>2, <1>3, <1>5, <1>6, <1>7
<1>9. w = off + d * s + tail
  BY <1>8 DEF x
<1>10. w > off /\ (w - off) \div s = d
  <2>1. /\ off \in Int /\ d \in Nat /\ d > 0 /\ s \in Nat /\ s > 0
        /\ tail \in Nat /\ tail < s
    BY <1>2, <1>4, <1>8
  <2>2. w = off + d * s + tail
    BY <1>9
  <2> HIDE DEF w, off, d, s, tail
  <2> QED BY <2>1, <2>2, WholeBlocks
<1> QED BY <1>8, <1>10, <1>50 DEF off, w, s, d, b, k

\* Where the files of a rip begin and end on the disc.
LEMMA ExtentsOfRip ==
    ASSUME NEW r, IsRip(r), Plain(r), NEW T, TracksOf(r, T), TracksAt(r, T),
           NEW f \in 1 .. Len(r.files)
    PROVE  LET l == LastInFile(r, f)
           IN  /\ Extent(T, Sizes(r), f).end = Behind(r)[l].sectors
               /\ Extent(T, Sizes(r), f).sector_length = Size(r, l)
               /\ f \in 1 .. Len(r.files) - 1 =>
                     Extent(T, Sizes(r), f + 1).start = FirstStored(r, l + 1)
<1> DEFINE n == Len(r.tracks)
           l == LastInFile(r, f)
           Own(g) == {i \in DOMAIN T : T[i].file_index = g}
<1>1. n \in Nat \ {0} /\ T \in Seq(Info) /\ Len(T) = n
  BY RipFields DEF TracksOf
<1>2. DOMAIN T = 1 .. n /\ \A i \in 1 .. n : T[i].file_index = r.tracks[i].file
  <2>1. \A i \in 1 .. n : T[i].file_index = r.tracks[i].file
    BY TrackOfRip
  <2> QED BY <1>1, <2>1
<1> HIDE DEF n
<1>3. \A g : Own(g) = {i \in 1 .. n : r.tracks[i].file = g}
  BY Zenon, <1>2
<1>4. l \in 1 .. n /\ r.tracks[l].file = f
      /\ \A i \in 1 .. n : r.tracks[i].file = f => i <= l
  BY LastInFileFacts DEF n
<1> HIDE DEF l, Own
<1>5. Max(Own(f)) = l
  <2> DEFINE S == Own(f)
             x == Max(S)
  <2>1. S \subseteq 0 .. n /\ l \in S /\ \A i \in S : i <= l
    BY <1>1, <1>3, <1>4
  <2> HIDE DEF S
  <2>2. x \in S /\ \A y \in S : x >= y
    BY <1>1, <2>1, MaxIn
  <2> HIDE DEF x
  <2>3. x = l
    BY <1>1, <2>1, <2>2
  <2> QED BY <2>3 DEF x, S
<1>6. Extent(T, Sizes(r), f).end
        = T[l].data_start + Positive(Sizes(r)[f] - T[l].file_offset) \div T[l].sector_length
      /\ Extent(T, Sizes(r), f).sector_length = T[l].sector_length
  BY <1>5 DEF Extent, Own
<1>7. T[l].data_start = DataStart(r, l) /\ T[l].sector_length = Size(r, l)
      /\ T[l].file_offset = Behind(r)[l].bytes - r.tracks[l].data * Size(r, l)
  BY <1>4, TrackOfRip DEF n
<1> DEFINE off == Behind(r)[l].bytes - r.tracks[l].data * Size(r, l)
           w == Sizes(r)[f]
<1>8. /\ w \in Nat /\ off \in Int /\ w > off
      /\ (w - off) \div Size(r, l) = r.tracks[l].data
      /\ DataStart(r, l) + r.tracks[l].data = Behind(r)[l].sectors
  BY BlocksLeft DEF l
<1>9. Positive(w - off) = w - off
  <2> HIDE DEF w, off
  <2>1. w - off \in Int /\ w - off >= 0
    BY <1>8
  <2> QED BY <2>1, MaxZero DEF Positive
<1>10. Extent(T, Sizes(r), f).end = Behind(r)[l].sectors
  <2>1. Extent(T, Sizes(r), f).end = DataStart(r, l) + Positive(w - off) \div Size(r, l)
    BY Zenon, <1>6, <1>7
  <2>2. Positive(w - off) \div Size(r, l) = r.tracks[l].data
    BY Zenon, <1>8, <1>9
  <2> HIDE DEF w, off
  <2> QED BY Zenon, <1>8, <2>1, <2>2
<1>11. ASSUME f \in 1 .. Len(r.files) - 1
       PROVE  Extent(T, Sizes(r), f + 1).start = FirstStored(r, l + 1)
  <2> DEFINE k == l + 1
             g == f + 1
  <2>1. k \in 1 .. n /\ r.tracks[k].file = g /\ FirstInFile(r, k)
        /\ \A i \in 1 .. n : r.tracks[i].file = g => k <= i
    <3>1. l + 1 \in 2 .. Len(r.tracks) /\ r.tracks[l + 1].file = f + 1 /\ FirstInFile(r, l + 1)
          /\ \A i \in 1 .. Len(r.tracks) : r.tracks[i].file = f + 1 => l + 1 <= i
      BY <1>11, FileFollows DEF l
    <3> QED BY <1>1, <1>4, <3>1 DEF n
  <2> HIDE DEF k, g
  <2>2. Min(Own(g)) = k
    <3> DEFINE S == Own(g)
               x == Min(S)
    <3>1. S \subseteq Nat /\ S \subseteq 1 .. n /\ k \in S /\ \A i \in S : k <= i
      BY <1>1, <1>3, <2>1
    <3> HIDE DEF S
    <3>2. x \in S /\ \A y \in S : x <= y
      BY <3>1, MinIn
    <3> HIDE DEF x
    <3>3. x = k
      BY <1>1, <3>1, <3>2
    <3> QED BY <3>3 DEF x, S
  <2>3. Extent(T, Sizes(r), g).start = T[k].data_start - T[k].file_offset \div T[k].sector_length
    BY <2>2 DEF Extent, Own
  <2>4. T[k].data_start = DataStart(r, k) /\ T[k].sector_length = Size(r, k)
        /\ T[k].file_offset = Behind(r)[k].bytes - r.tracks[k].data * Size(r, k)
    BY <2>1, TrackOfRip DEF n
  <2> DEFINE p == r.tracks[k].pause
             d == r.tracks[k].data
             s == Size(r, k)
  <2>5. p \in Nat /\ d \in Nat /\ s \in Nat /\ s > 0 /\ StoredFrames(r, k) = p + d
    BY <2>1, RipFields DEF n
  <2>6. Behind(r)[k].bytes = 0 + StoredFrames(r, k) * s
    BY <2>1, TrackStands DEF n
  <2>7. DataStart(r, k) = FirstStored(r, k) + p /\ FirstStored(r, k) \in Nat
    BY <2>1, TrackSpan DEF n
  <2> HIDE DEF p, d, s
  <2>8. T[k].file_offset = p * s
    <3>1. (p + d) * s = p * s + d * s /\ p * s \in Nat /\ d * s \in Nat
      BY <2>5, TimesPlus, TimesNat
    <3> DEFINE x == p * s
               y == d * s
               z == (p + d) * s
    <3>2. T[k].file_offset = (0 + z) - y
      BY <2>4, <2>5, <2>6 DEF d, s
    <3>3. z = x + y /\ x \in Nat /\ y \in Nat
      BY <3>1
    <3> HIDE DEF x, y, z
    <3>4. T[k].file_offset = x
      BY <3>2, <3>3
    <3> QED BY <3>4 DEF x
  <2>9. (p * s) \div s = p
    <3>1. (p * s + 0) \div s = p
      BY <2>5, DivModUnique
    <3>2. p * s \in Nat
      BY <2>5, TimesNat
    <3> DEFINE x == p * s
    <3>3. x + 0 = x
      BY <3>2
    <3> HIDE DEF x
    <3> QED BY <3>1, <3>3 DEF x
  <2>10. T[k].file_offset \div T[k].sector_length = p
    BY Zenon, <2>4, <2>8, <2>9 DEF s
  <2>11. Extent(T, Sizes(r), g).start = FirstStored(r, k)
    <3>1. Extent(T, Sizes(r), g).start = DataStart(r, k) - p
      BY Zenon, <2>3, <2>4, <2>10
    <3> QED BY <2>5, <2>7, <3>1
  <2> QED BY <2>11 DEF k, g
<1> QED BY Zenon, <1>6, <1>7, <1>10, <1>11 DEF l

-----------------------------------------------------------------------------
(* Where its sectors are found                                               *)

\* The rip that is served, as the parser gives it and as it is laid out.
LEMMA ServedFacts ==
    ASSUME LoadInv, step = "Ready"
    PROVE  /\ IsRip(rip) /\ Plain(rip) /\ files = Sizes(rip) /\ files \in Seq(Nat)
           /\ Len(files) = Len(rip.files) /\ Len(files) \in Nat \ {0}
           /\ DOMAIN files = 1 .. Len(files)
           /\ layout \in RebuildLayout(cue_str, files) /\ Tiled(files, layout)
           /\ cue_str \in Seq(Lines) /\ nCueFiles = Len(files)
           /\ TracksOf(rip, discTracks) /\ TracksAt(rip, discTracks)
<1>1. /\ IsRip(rip) /\ cue_str \in Seq(Lines) /\ card \in Seq(Nat)
      /\ nCueFiles = Len(card) /\ Len(card) = Len(rip.files) /\ Len(card) \in Nat \ {0}
  BY SizesOfRip
<1>2. files = card /\ card = Sizes(rip) /\ cue_str = SheetOf(rip)
      /\ layout \in RebuildLayout(cue_str, files)
  BY Zenon DEF LoadInv
<1>3. Tiled(files, layout)
  BY <1>1, <1>2, RebuildTiles
<1>4. Plain(rip) /\ Known(rip, files)
  BY <1>1, <1>2, LoadedIsPlain
<1>5. TracksOf(rip, discTracks) /\ TracksAt(rip, discTracks)
  BY <1>1, <1>2, <1>4, TracksOfRip DEF discTracks
<1>6. DOMAIN files = 1 .. Len(files)
  BY <1>1, <1>2
<1> QED BY Zenon, <1>1, <1>2, <1>3, <1>4, <1>5, <1>6

\* The sheet alone places the tracks of a rip in one file.
LEMMA SingleFileKnown ==
    ASSUME LoadInv, step = "Ready", Len(files) <= 1
    PROVE  LET T == Tracks(cue_str, <<>>)
           IN  TracksOf(rip, T) /\ TracksAt(rip, T) /\ layout = SingleLayout(files)
               /\ layout.sparse = {} /\ layout.bases[1] = 0 /\ layout.size = files[1]
               /\ \A i \in 1 .. Len(rip.tracks) : rip.tracks[i].file = 1
<1>1. /\ IsRip(rip) /\ Plain(rip) /\ files \in Seq(Nat) /\ Len(files) = Len(rip.files)
      /\ Len(files) \in Nat \ {0} /\ layout \in RebuildLayout(cue_str, files)
      /\ cue_str = SheetOf(rip)
  BY ServedFacts DEF LoadInv
<1>2. Len(rip.files) = 1 /\ Len(files) = 1
  <2> DEFINE m == Len(files)
  <2>1. m \in Nat \ {0} /\ m <= 1 /\ Len(rip.files) = m
    BY <1>1
  <2> HIDE DEF m
  <2>2. m = 1
    BY <2>1
  <2> QED BY <2>1, <2>2 DEF m
<1>3. Known(rip, <<>>)
  BY <1>2 DEF Known
<1>4. <<>> \in Seq(Nat)
  OBVIOUS
<1>5. TracksOf(rip, Tracks(cue_str, <<>>)) /\ TracksAt(rip, Tracks(cue_str, <<>>))
  BY <1>1, <1>3, <1>4, TracksOfRip
<1>6. layout = SingleLayout(files)
  BY <1>1 DEF RebuildLayout
<1>7. files # <<>> /\ DOMAIN files = 1 .. 1
  <2>1. files \in Seq(Nat)
    BY <1>1
  <2>2. DOMAIN files = 1 .. Len(files)
    BY <2>1
  <2> QED BY <1>2, <2>2
<1>8. layout.sparse = {} /\ layout.bases[1] = 0 /\ layout.size = files[1]
  BY <1>6, <1>7 DEF SingleLayout
<1>9. \A i \in 1 .. Len(rip.tracks) : rip.tracks[i].file = 1
  <2> TAKE i \in 1 .. Len(rip.tracks)
  <2>1. rip.tracks[i].file \in 1 .. Len(rip.files)
    BY <1>1, RipFilesInOrder
  <2> QED BY <1>2, <2>1
<1> QED BY Zenon, <1>5, <1>6, <1>8, <1>9

\* A sector that lies in a track, or in the gap behind it.
InTrack(r, k, lba) ==
    /\ StartsAt(r, k) <= lba
    /\ \A j \in 1 .. Len(r.tracks) : k < j => lba < StartsAt(r, j)

\* Where the parser's track puts a sector in its file.
OffsetOf(r, k, lba) ==
    LET rel == lba - DataStart(r, k)
        at  == IF rel < 0 /\ Pregap(r, k) > 0 THEN 0 ELSE rel
    IN  Max({0, (Behind(r)[k].bytes - r.tracks[k].data * Size(r, k)) + at * Size(r, k)})

\* Both searches find the track a sector lies in.
LEMMA SearchFinds ==
    ASSUME NEW r, IsRip(r), Plain(r), NEW T, TracksOf(r, T), TracksAt(r, T),
           NEW k \in 1 .. Len(r.tracks), NEW lba \in Nat, InTrack(r, k, lba)
    PROVE  /\ Toc!TrackInfoForLBA(T, lba) = {T[k]} /\ TrackForLBA(T, lba) = T[k]
           /\ OffsetInFile(T[k], lba) = OffsetOf(r, k, lba)
<1> DEFINE n == Len(r.tracks)
<1>1. T \in Seq(Info) /\ Len(T) = n /\ n \in Nat \ {0}
  BY RipFields DEF TracksOf
<1>2. \A i \in 1 .. n : T[i].track_start = StartsAt(r, i)
  BY TrackOfRip
<1>3. \A i, j \in 1 .. n : i < j => StartsAt(r, i) < StartsAt(r, j)
  BY StartsFollow
<1>4. StartsAt(r, 1) = 0
  BY FirstStarts
<1>5. T[1].track_start = 0
  <2>1. 1 \in 1 .. n
    BY <1>1
  <2> QED BY Zenon, <1>2, <1>4, <2>1
<1>6. \A i, j \in 1 .. n : i < j => T[i].track_start < T[j].track_start
  BY Zenon, <1>2, <1>3
<1>7. T[k].track_start <= lba /\ \A j \in 1 .. n : k < j => lba < T[j].track_start
  BY Zenon, <1>2 DEF InTrack
<1>8. Toc!TrackInfoForLBA(T, lba) = {T[k]} /\ TrackForLBA(T, lba) = T[k]
  <2> HIDE DEF n
  <2>1. n = Len(T)
    BY <1>1
  <2>2. /\ k \in 1 .. Len(T)
        /\ \A i, j \in 1 .. Len(T) : i < j => T[i].track_start < T[j].track_start
        /\ \A j \in 1 .. Len(T) : k < j => lba < T[j].track_start
    BY Zenon, <1>6, <1>7, <2>1 DEF n
  <2> QED BY <1>1, <1>5, <1>7, <2>2, TrackFound
<1>9. OffsetInFile(T[k], lba) = OffsetOf(r, k, lba)
  <2>1. /\ T[k].data_start = DataStart(r, k) /\ T[k].unstored_pregap_length = Pregap(r, k)
        /\ T[k].sector_length = Size(r, k)
        /\ T[k].file_offset = Behind(r)[k].bytes - r.tracks[k].data * Size(r, k)
    BY TrackOfRip
  <2> QED BY Zenon, <2>1 DEF OffsetInFile, OffsetOf
<1> QED BY <1>8, <1>9

\* The offset of a stored sector is that of its bytes in the file.
LEMMA OffsetStored ==
    ASSUME NEW r, IsRip(r), NEW i \in 1 .. Len(r.tracks),
           NEW lba \in Nat, FirstStored(r, i) <= lba, lba < Behind(r)[i].sectors
    PROVE  OffsetOf(r, i, lba) = StoredAt(r, i, lba)
<1> DEFINE rel == lba - DataStart(r, i)
           at  == IF rel < 0 /\ Pregap(r, i) > 0 THEN 0 ELSE rel
           b == Behind(r)[i].bytes
           e == Behind(r)[i].sectors
           d == r.tracks[i].data
           z == Size(r, i)
           o == StoredAt(r, i, lba)
<1>1. /\ FirstStored(r, i) \in Nat /\ DataStart(r, i) \in Nat /\ e \in Nat
      /\ Pregap(r, i) \in Nat /\ DataStart(r, i) = FirstStored(r, i) + r.tracks[i].pause
      /\ DataStart(r, i) = e - d
  BY TrackSpan
<1>2. d \in Nat /\ z \in Nat /\ r.tracks[i].pause \in Nat
      /\ (r.tracks[i].pregap = 0 \/ r.tracks[i].pause = 0)
  BY RipFields
<1>3. b \in Nat
  BY TrackStands
<1>4. o \in Nat /\ o = b - (e - lba) * z
  BY StoredPlace
<1>5. ~(rel < 0 /\ Pregap(r, i) > 0)
  <2> SUFFICES ASSUME rel < 0, Pregap(r, i) > 0 PROVE FALSE
    OBVIOUS
  <2>1. r.tracks[i].pause > 0
    BY <1>1, <1>2
  <2>2. r.tracks[i].pregap = 0 /\ r.tracks[i].pause # 0
    BY <1>2, <2>1
  <2>3. Pregap(r, i) = 0
    BY <2>2 DEF Pregap
  <2> QED BY <2>3
<1>6. at = rel
  BY <1>5
<1>7. OffsetOf(r, i, lba) = Max({0, (b - d * z) + rel * z})
  BY Zenon, <1>6 DEF OffsetOf
<1>8. (b - d * z) + rel * z = o
  <2>1. rel = d - (e - lba) /\ e - lba \in Int
    <3> DEFINE x == DataStart(r, i)
    <3>1. x = e - d
      BY <1>1
    <3> HIDE DEF x, e, d
    <3>2. lba - x = d - (e - lba) /\ e - lba \in Int
      BY <1>1, <1>2, <3>1
    <3> QED BY <3>2 DEF x
  <2> DEFINE w == e - lba
  <2> HIDE DEF rel, d, z, b, w, o
  <2>2. rel = d - w /\ w \in Int /\ o = b - w * z
    BY <1>4, <2>1 DEF w
  <2>3. rel * z = d * z - w * z
    BY <1>2, <2>2, TimesPlus
  <2> DEFINE x == d * z
             y == w * z
  <2>4. x \in Int /\ y \in Int
    BY <1>2, <2>2
  <2>5. rel * z = x - y /\ o = b - y
    BY <2>2, <2>3
  <2> HIDE DEF x, y
  <2>6. (b - x) + (x - y) = o
    BY <1>3, <2>4, <2>5
  <2> QED BY <2>5, <2>6 DEF x
<1> HIDE DEF o
<1>9. Max({0, o}) = o
  BY <1>4, MaxZero
<1> QED BY Zenon, <1>7, <1>8, <1>9 DEF o

\* The offset of a silent sector of a track is that of its data.
LEMMA OffsetSilent ==
    ASSUME NEW r, IsRip(r), NEW i \in 1 .. Len(r.tracks),
           NEW lba \in Nat, StartsAt(r, i) <= lba, lba < FirstStored(r, i)
    PROVE  Pregap(r, i) > 0 /\ OffsetOf(r, i, lba) = OffsetOf(r, i, DataStart(r, i))
<1>1. /\ StartsAt(r, i) \in Nat /\ FirstStored(r, i) \in Nat /\ DataStart(r, i) \in Nat
      /\ Pregap(r, i) \in Nat /\ FirstStored(r, i) = StartsAt(r, i) + Pregap(r, i)
      /\ FirstStored(r, i) <= DataStart(r, i)
  BY TrackSpan
<1>2. Pregap(r, i) > 0
  BY <1>1
<1>3. lba - DataStart(r, i) < 0
  BY <1>1
<1>4. DataStart(r, i) - DataStart(r, i) = 0
  BY <1>1
<1>5. OffsetOf(r, i, lba)
        = Max({0, (Behind(r)[i].bytes - r.tracks[i].data * Size(r, i)) + 0 * Size(r, i)})
  BY Zenon, <1>2, <1>3 DEF OffsetOf
<1>6. OffsetOf(r, i, DataStart(r, i))
        = Max({0, (Behind(r)[i].bytes - r.tracks[i].data * Size(r, i)) + 0 * Size(r, i)})
  <2>1. ~(0 < 0)
    OBVIOUS
  <2> QED BY Zenon, <1>4, <2>1 DEF OffsetOf
<1> QED BY <1>2, <1>5, <1>6

\* The sectors between the last of a file and the first stored of the next.
HoleOf(r, f, hole) ==
    LET l == LastInFile(r, f)
    IN  /\ hole.start = Behind(r)[l].sectors /\ hole.end = FirstStored(r, l + 1)
        /\ hole.start < hole.end
        /\ hole.sector_length = Size(r, l)
        /\ hole.length = (hole.end - hole.start) * hole.sector_length

\* Each hole of a rip is between two files, and there is one wherever sectors are.
LEMMA HolesOfRip ==
    ASSUME LoadInv, step = "Ready"
    PROVE  /\ \A hole \in layout.sparse :
                 ~(Len(files) <= 1) /\ \E f \in 1 .. Len(rip.files) - 1 : HoleOf(rip, f, hole)
           /\ \A f \in 1 .. Len(rip.files) - 1 :
                 LET l == LastInFile(rip, f)
                 IN  Behind(rip)[l].sectors < FirstStored(rip, l + 1)
                       => \E hole \in layout.sparse : HoleOf(rip, f, hole)
<1> DEFINE m == Len(files)
           T == discTracks
           gaps == {i \in 1 .. m - 1 : Extent(T, files, i + 1).start > Extent(T, files, i).end}
           b(f) == Behind(rip)[LastInFile(rip, f)].sectors
           e(f) == FirstStored(rip, LastInFile(rip, f) + 1)
<1>1. /\ IsRip(rip) /\ Plain(rip) /\ files = Sizes(rip) /\ files \in Seq(Nat)
      /\ m = Len(rip.files) /\ m \in Nat \ {0} /\ layout \in RebuildLayout(cue_str, files)
      /\ cue_str \in Seq(Lines) /\ TracksOf(rip, T) /\ TracksAt(rip, T)
  BY ServedFacts
<1>2. CASE m <= 1
  <2>1. layout.sparse = {}
    BY <1>2, SingleFileKnown
  <2>2. Len(rip.files) = m /\ m \in Nat \ {0} /\ m <= 1
    BY <1>1, <1>2
  <2> HIDE DEF m
  <2>3. m = 1
    BY <2>2
  <2>4. 1 .. Len(rip.files) - 1 = {}
    BY <2>2, <2>3
  <2> QED BY Zenon, <2>1, <2>4
<1>3. CASE ~(m <= 1)
  <2>1. layout.sparse = {HoleBehind(T, files, layout, i) : i \in gaps}
    BY SMTT(40), <1>1, <1>3, LayoutParts DEF discTracks
  <2>2. \A f \in 1 .. Len(rip.files) - 1 : f \in 1 .. Len(rip.files)
    BY <1>1
  <2>3. \A f \in 1 .. Len(rip.files) - 1 :
           /\ Extent(T, files, f).end = b(f)
           /\ Extent(T, files, f).sector_length = Size(rip, LastInFile(rip, f))
           /\ Extent(T, files, f + 1).start = e(f)
    <3> TAKE f \in 1 .. Len(rip.files) - 1
    <3>1. f \in 1 .. Len(rip.files)
      BY <2>2
    <3>2. /\ Extent(T, Sizes(rip), f).end = b(f)
          /\ Extent(T, Sizes(rip), f).sector_length = Size(rip, LastInFile(rip, f))
          /\ f \in 1 .. Len(rip.files) - 1 =>
                Extent(T, Sizes(rip), f + 1).start = e(f)
      <4> HIDE DEF T
      <4> QED BY <1>1, <3>1, ExtentsOfRip
    <3> QED BY Zenon, <1>1, <3>2
  <2>4. \A f \in 1 .. Len(rip.files) - 1 : b(f) \in Nat /\ e(f) \in Nat
    <3> TAKE f \in 1 .. Len(rip.files) - 1
    <3> DEFINE l == LastInFile(rip, f)
               k == l + 1
    <3>1. l \in 1 .. Len(rip.tracks) /\ l + 1 \in 2 .. Len(rip.tracks)
      BY <1>1, FileFollows
    <3>2. k \in 1 .. Len(rip.tracks)
      BY <3>1
    <3> HIDE DEF l, k
    <3>3. Behind(rip)[l].sectors \in Nat
      BY <1>1, <3>1, TrackSpan
    <3>4. FirstStored(rip, k) \in Nat
      BY <1>1, <3>2, TrackSpan
    <3> QED BY <3>3, <3>4 DEF k, l
  <2>5. 1 .. m - 1 = 1 .. Len(rip.files) - 1
    BY Zenon, <1>1
  <2> HIDE DEF T, m
  <2>6. ASSUME NEW f \in 1 .. Len(rip.files) - 1, b(f) < e(f)
        PROVE  HoleOf(rip, f, HoleBehind(T, files, layout, f))
    <3> DEFINE hole == HoleBehind(T, files, layout, f)
               s == Size(rip, LastInFile(rip, f))
    <3>1. hole.start = b(f) /\ hole.end = e(f) /\ hole.sector_length = s
          /\ hole.length = (e(f) - b(f)) * s
      <4>1. /\ Extent(T, files, f).end = b(f) /\ Extent(T, files, f).sector_length = s
            /\ Extent(T, files, f + 1).start = e(f)
        BY Zenon, <2>3
      <4> HIDE DEF b, e, s
      <4> QED BY <4>1 DEF HoleBehind
    <3>2. hole.start < hole.end
      BY Zenon, <2>6, <3>1
    <3>3. hole.length = (hole.end - hole.start) * hole.sector_length
      BY Zenon, <3>1
    <3> HIDE DEF hole
    <3>4. HoleOf(rip, f, hole)
      BY Zenon, <3>1, <3>2, <3>3 DEF HoleOf
    <3> QED BY <3>4 DEF hole
  <2>7. \A f \in 1 .. Len(rip.files) - 1 : f \in gaps <=> b(f) < e(f)
    <3> TAKE f \in 1 .. Len(rip.files) - 1
    <3>1. Extent(T, files, f + 1).start = e(f) /\ Extent(T, files, f).end = b(f)
      BY Zenon, <2>3
    <3>2. f \in gaps <=> e(f) > b(f)
      BY Zenon, <2>5, <3>1
    <3>3. e(f) > b(f) <=> b(f) < e(f)
      <4> DEFINE x == b(f)
                 y == e(f)
      <4>1. x \in Nat /\ y \in Nat
        BY <2>4
      <4> HIDE DEF x, y
      <4>2. y > x <=> x < y
        BY <4>1
      <4> QED BY <4>2 DEF x, y
    <3> QED BY Zenon, <3>2, <3>3
  <2>8. gaps \subseteq 1 .. Len(rip.files) - 1
    BY Zenon, <2>5
  <2> HIDE DEF gaps
  <2>9. ASSUME NEW hole \in layout.sparse
        PROVE  \E f \in 1 .. Len(rip.files) - 1 : HoleOf(rip, f, hole)
    <3>1. PICK f \in gaps : hole = HoleBehind(T, files, layout, f)
      BY Zenon, <2>1
    <3>2. f \in 1 .. Len(rip.files) - 1 /\ b(f) < e(f)
      BY Zenon, <2>7, <2>8
    <3> QED BY Zenon, <2>6, <3>1, <3>2
  <2>10. ASSUME NEW f \in 1 .. Len(rip.files) - 1, b(f) < e(f)
         PROVE  \E hole \in layout.sparse : HoleOf(rip, f, hole)
    BY Zenon, <2>1, <2>6, <2>7, <2>10
  <2> QED BY Zenon, <1>3, <2>9, <2>10 DEF m
<1> QED BY <1>2, <1>3

InSectors(hole, lba) == lba \in hole.start .. hole.end - 1

\* A stored sector is in no hole.
LEMMA StoredOutside ==
    ASSUME LoadInv, step = "Ready", NEW i \in 1 .. Len(rip.tracks),
           NEW lba \in Nat, FirstStored(rip, i) <= lba, lba < Behind(rip)[i].sectors,
           NEW hole \in layout.sparse
    PROVE  ~InSectors(hole, lba)
<1> DEFINE r == rip
<1>1. IsRip(r)
  BY ServedFacts
<1>2. PICK f \in 1 .. Len(r.files) - 1 : HoleOf(r, f, hole)
  BY HolesOfRip
<1> DEFINE l == LastInFile(r, f)
           k == l + 1
           a == Behind(r)[l].sectors
           b == FirstStored(r, k)
<1>3. l \in 1 .. Len(r.tracks) /\ k \in 1 .. Len(r.tracks)
  <2>1. l \in 1 .. Len(r.tracks) /\ l + 1 \in 2 .. Len(r.tracks)
    BY <1>1, FileFollows
  <2> QED BY <2>1
<1>4. hole.start = a /\ hole.end = b
  BY Zenon, <1>2 DEF HoleOf
<1> HIDE DEF l
<1>5. a \in Nat
  BY <1>1, <1>3, TrackSpan
<1> HIDE DEF k, a
<1>6. /\ b \in Nat /\ b <= DataStart(r, k) /\ DataStart(r, k) < Behind(r)[k].sectors
      /\ DataStart(r, k) \in Nat /\ Behind(r)[k].sectors \in Nat
  BY <1>1, <1>3, TrackSpan
<1> HIDE DEF b
<1>7. /\ FirstStored(r, i) \in Nat /\ Behind(r)[i].sectors \in Nat
      /\ StartsAt(r, i) <= FirstStored(r, i) /\ StartsAt(r, i) \in Nat
  BY <1>1, TrackSpan
<1>8. CASE i <= l
  <2>1. Behind(r)[i].sectors <= Behind(r)[l].sectors
    <3>1. i \in 0 .. Len(r.tracks) /\ l \in 0 .. Len(r.tracks)
      BY <1>3
    <3> QED BY <1>1, <1>8, <3>1, SectorsRise
  <2>2. Behind(r)[i].sectors <= a
    BY <2>1 DEF a
  <2>3. lba < a
    BY <1>5, <1>7, <2>2
  <2> QED BY <1>4, <1>5, <1>6, <2>3 DEF InSectors
<1>9. CASE i = k
  <2>1. b <= lba
    BY <1>9 DEF b
  <2> QED BY <1>4, <1>5, <1>6, <2>1 DEF InSectors
<1>10. CASE k < i
  <2>1. Behind(r)[k].sectors <= StartsAt(r, i)
    BY <1>1, <1>3, <1>10, StartsFollow
  <2>2. b <= lba
    BY <1>6, <1>7, <2>1
  <2> QED BY <1>4, <1>5, <1>6, <2>2 DEF InSectors
<1>11. i <= l \/ i = k \/ k < i
  BY <1>3 DEF k
<1> QED BY <1>8, <1>9, <1>10, <1>11

\* What a sector in a hole is read from is in the hole.
LEMMA HoleIsSilent ==
    ASSUME LoadInv, step = "Ready", NEW lba \in Nat,
           \E hole \in layout.sparse : InSectors(hole, lba)
    PROVE  /\ GetByteOffsetForLBA(lba) # {}
           /\ \A offset \in GetByteOffsetForLBA(lba) : SparseBytesAt(offset) > 0
<1> DEFINE inHole == {hole \in layout.sparse : lba \in hole.start .. hole.end - 1}
           Offset(hole) == hole.base + (lba - hole.start) * hole.sector_length
<1>1. IsRip(rip) /\ files \in Seq(Nat) /\ Tiled(files, layout)
  BY ServedFacts
<1>2. inHole # {} /\ ~(Len(files) <= 1)
  <2>1. PICK hole \in layout.sparse : InSectors(hole, lba)
    OBVIOUS
  <2>2. ~(Len(files) <= 1)
    BY HolesOfRip, <2>1
  <2> QED BY <2>1, <2>2 DEF InSectors
<1>3. GetByteOffsetForLBA(lba) = {Offset(hole) : hole \in inHole}
  BY Zenon, <1>2 DEF GetByteOffsetForLBA
<1>4. ASSUME NEW hole \in inHole
      PROVE  Offset(hole) \in Nat /\ InHoleAt(hole, Offset(hole))
  <2>1. hole \in layout.sparse /\ lba \in hole.start .. hole.end - 1
    OBVIOUS
  <2>2. hole \in Hole
    BY <1>1, <2>1 DEF Tiled
  <2>3. PICK f \in 1 .. Len(rip.files) - 1 : HoleOf(rip, f, hole)
    BY <2>1, HolesOfRip
  <2> DEFINE s == hole.sector_length
             x == lba - hole.start
             y == hole.end - hole.start
  <2>4. hole.length = y * s /\ s = Size(rip, LastInFile(rip, f))
    BY Zenon, <2>3 DEF HoleOf
  <2>5. s > 0
    <3>1. f \in 1 .. Len(rip.files)
      BY <1>1, RipFields
    <3>2. LastInFile(rip, f) \in 1 .. Len(rip.tracks)
      BY <1>1, <3>1, LastInFileFacts
    <3>3. Size(rip, LastInFile(rip, f)) > 0
      BY <1>1, <3>2, RipFields
    <3> QED BY <2>4, <3>3
  <2>6. hole.start \in Int /\ hole.end \in Int /\ s \in Nat /\ hole.base \in Nat /\ hole.length \in Nat
    BY <2>2 DEF Hole
  <2>7. x \in Nat /\ y \in Nat /\ x + 1 <= y
    BY SMTT(20), <2>1, <2>6
  <2> DEFINE w == x * s
  <2>8. w \in Nat /\ w + s <= hole.length
    <3> HIDE DEF x, y, s, w
    <3>1. w \in Nat /\ (x + 1) * s = x * s + s
      BY <2>6, <2>7, TimesNat, TimesPlus DEF w
    <3>2. (x + 1) * s <= y * s
      BY <2>6, <2>7, TimesLess
    <3> QED BY <2>4, <3>1, <3>2 DEF w
  <2>9. Offset(hole) = hole.base + w
    OBVIOUS
  <2> HIDE DEF w, s, Offset
  <2> QED BY <2>5, <2>6, <2>8, <2>9 DEF InHoleAt
<1>5. ASSUME NEW hole \in inHole PROVE SparseBytesAt(Offset(hole)) > 0
  <2> DEFINE o == Offset(hole)
  <2>1. o \in Nat /\ InHoleAt(hole, o) /\ hole \in layout.sparse
    BY <1>4
  <2> HIDE DEF o
  <2>2. SparseBytesAt(o) \in Nat /\ SparseBytesAt(o) # 0
    BY <1>1, <2>1, LeftOfHole
  <2>3. SparseBytesAt(o) > 0
    BY <2>2
  <2> QED BY <2>3 DEF o
<1> HIDE DEF inHole, Offset
<1> QED BY <1>2, <1>3, <1>5

\* Outside the holes a sector is read from the file of its track.
LEMMA OneOffset ==
    ASSUME LoadInv, step = "Ready", NEW lba \in Nat, NEW k \in 1 .. Len(rip.tracks),
           InTrack(rip, k, lba), \A hole \in layout.sparse : ~InSectors(hole, lba)
    PROVE  GetByteOffsetForLBA(lba)
             = {layout.bases[rip.tracks[k].file] + OffsetOf(rip, k, lba)}
<1> DEFINE f == rip.tracks[k].file
           o == OffsetOf(rip, k, lba)
<1>1. /\ IsRip(rip) /\ Plain(rip) /\ files \in Seq(Nat) /\ Len(files) = Len(rip.files)
      /\ DOMAIN files = 1 .. Len(files) /\ nCueFiles = Len(files)
      /\ TracksOf(rip, discTracks) /\ TracksAt(rip, discTracks) /\ Tiled(files, layout)
  BY ServedFacts
<1>2. f \in 1 .. Len(rip.files) /\ Len(rip.files) \in Nat
  BY <1>1, RipFilesInOrder
<1>3. o \in Nat
  <2>1. TracksOf(rip, discTracks) /\ discTracks \in Seq(Info) /\ Len(discTracks) = Len(rip.tracks)
    BY Zenon, <1>1 DEF TracksOf
  <2>2. discTracks[k] \in Info
    BY <2>1
  <2>3. OffsetInFile(discTracks[k], lba) = o
    BY <1>1, SearchFinds
  <2> QED BY <2>2, <2>3, OffsetInFileNat
<1>4. CASE Len(files) <= 1
  <2> DEFINE T == Tracks(cue_str, <<>>)
  <2>1. /\ TracksOf(rip, T) /\ TracksAt(rip, T) /\ layout.bases[1] = 0 /\ f = 1
    BY <1>4, SingleFileKnown
  <2> HIDE DEF T
  <2>2. TrackForLBA(T, lba) = T[k] /\ OffsetInFile(T[k], lba) = o
    BY <1>1, <2>1, SearchFinds
  <2>3. T # <<>>
    <3>1. T \in Seq(Info) /\ Len(T) = Len(rip.tracks)
      BY Zenon, <2>1 DEF TracksOf
    <3> QED BY <3>1
  <2>4. GetByteOffsetForLBA(lba) = {o}
    <3>1. GetByteOffsetForLBA(lba) = {CueLBAToByteOffset(cue_str, lba)}
      BY Zenon, <1>4 DEF GetByteOffsetForLBA
    <3>2. CueLBAToByteOffset(cue_str, lba) = o
      BY Zenon, <2>2, <2>3 DEF CueLBAToByteOffset, T
    <3> QED BY Zenon, <3>1, <3>2
  <2> HIDE DEF o, f
  <2>5. layout.bases[f] + o = o
    BY <1>3, <2>1
  <2> QED BY Zenon, <2>4, <2>5 DEF o, f
<1>5. CASE ~(Len(files) <= 1)
  <2> DEFINE T == discTracks
             inHole == {hole \in layout.sparse : lba \in hole.start .. hole.end - 1}
             found == CueResolveLBA(cue_str, lba, files)
  <2>1. inHole = {}
    BY Zenon DEF InSectors
  <2>2. GetByteOffsetForLBA(lba)
          = {layout.bases[loc.file] + loc.offset : loc \in {x \in found : x.file \in DOMAIN files}}
    BY Zenon, <1>5, <2>1 DEF GetByteOffsetForLBA
  <2>3. TrackForLBA(T, lba) = T[k] /\ OffsetInFile(T[k], lba) = o /\ T[k].file_index = f
    <3>1. TrackForLBA(T, lba) = T[k] /\ OffsetInFile(T[k], lba) = o
      BY <1>1, SearchFinds
    <3>2. T[k].file_index = f
      BY <1>1, TrackOfRip
    <3> QED BY <3>1, <3>2
  <2>4. T # <<>>
    <3>1. T \in Seq(Info) /\ Len(T) = Len(rip.tracks)
      BY Zenon, <1>1 DEF TracksOf
    <3> HIDE DEF T
    <3> QED BY <3>1
  <2>5. ~(CueCountFiles(cue_str) > 1 /\ Len(files) < CueCountFiles(cue_str))
    <3>1. CueCountFiles(cue_str) = Len(files)
      BY <1>1 DEF nCueFiles
    <3> QED BY <1>1, <1>2, <3>1
  <2>6. Max({1, f}) = f
    <3>1. f \in Nat /\ f >= 1
      BY <1>2
    <3> HIDE DEF f
    <3> DEFINE S == {1, f}
               x == Max(S)
    <3>2. S \subseteq 0 .. f /\ f \in S
      BY <3>1
    <3> HIDE DEF S
    <3>3. x \in S /\ x >= f
      BY <3>1, <3>2, MaxIn
    <3> HIDE DEF x
    <3>4. x = f
      BY <3>1, <3>2, <3>3
    <3> QED BY <3>4 DEF x, S
  <2>7. found = {[file |-> f, offset |-> o]}
    <3>1. Tracks(cue_str, files) = T
      BY DEF discTracks
    <3> HIDE DEF T, f, o
    <3>2. found = {[file |-> Max({1, T[k].file_index}), offset |-> OffsetInFile(T[k], lba)]}
      BY Zenon, <2>3, <2>4, <2>5, <3>1 DEF CueResolveLBA
    <3> QED BY Zenon, <2>3, <2>6, <3>2
  <2>8. f \in DOMAIN files
    BY <1>1, <1>2
  <2> HIDE DEF found, f, o
  <2>9. {x \in found : x.file \in DOMAIN files} = {[file |-> f, offset |-> o]}
    BY <2>7, <2>8
  <2>10. GetByteOffsetForLBA(lba) = {layout.bases[f] + o}
    <3> DEFINE S == {x \in found : x.file \in DOMAIN files}
               p == [file |-> f, offset |-> o]
    <3>1. S = {p} /\ p.file = f /\ p.offset = o
      BY <2>9
    <3>2. GetByteOffsetForLBA(lba) = {layout.bases[loc.file] + loc.offset : loc \in S}
      BY Zenon, <2>2
    <3> HIDE DEF S, p
    <3>3. {layout.bases[loc.file] + loc.offset : loc \in S}
            = {layout.bases[p.file] + p.offset}
      BY Zenon, <3>1
    <3> QED BY Zenon, <3>1, <3>2, <3>3
  <2> QED BY <2>10 DEF f, o
<1> QED BY <1>4, <1>5

\* A sector lies in the track that has it, or in the gap behind the one before.
LEMMA SectorsInTracks ==
    ASSUME NEW r, IsRip(r), NEW i \in 1 .. Len(r.tracks),
           NEW lba \in Nat, Behind(r)[i - 1].sectors <= lba, lba < Behind(r)[i].sectors
    PROVE  /\ StartsAt(r, i) <= lba => InTrack(r, i, lba)
           /\ lba < StartsAt(r, i) => OpensSession(r, i) /\ InTrack(r, i - 1, lba)
<1>1. /\ Behind(r)[i - 1].sectors \in Nat /\ StartsAt(r, i) \in Nat
      /\ Behind(r)[i].sectors \in Nat
  BY TrackSpan
<1>2. ASSUME NEW j \in 1 .. Len(r.tracks), i < j PROVE lba < StartsAt(r, j)
  <2>1. Behind(r)[i].sectors <= StartsAt(r, j)
    BY <1>2, StartsFollow
  <2>2. StartsAt(r, j) \in Nat
    BY TrackSpan
  <2> QED BY <1>1, <2>1, <2>2
<1>3. StartsAt(r, i) <= lba => InTrack(r, i, lba)
  BY Zenon, <1>2 DEF InTrack
<1>4. ASSUME lba < StartsAt(r, i)
      PROVE  OpensSession(r, i) /\ InTrack(r, i - 1, lba)
  <2>1. OpensSession(r, i)
    <3> SUFFICES ASSUME ~OpensSession(r, i) PROVE FALSE
      OBVIOUS
    <3>1. Gap(r, i) = 0
      BY Zenon DEF Gap
    <3>2. StartsAt(r, i) = Behind(r)[i - 1].sectors
      BY <1>1, <3>1 DEF StartsAt
    <3> QED BY <1>1, <1>4, <3>2
  <2>2. i > 1
    BY Zenon, <2>1 DEF OpensSession
  <2> DEFINE k == i - 1
  <2>3. k \in 1 .. Len(r.tracks) /\ k < i /\ \A j \in 1 .. Len(r.tracks) : k < j => j = i \/ i < j
    BY <2>2, RipFields
  <2>4. Behind(r)[k].sectors <= lba
    OBVIOUS
  <2> HIDE DEF k
  <2>5. /\ StartsAt(r, k) \in Nat /\ FirstStored(r, k) \in Nat /\ DataStart(r, k) \in Nat
        /\ StartsAt(r, k) <= FirstStored(r, k) /\ FirstStored(r, k) <= DataStart(r, k)
        /\ DataStart(r, k) < Behind(r)[k].sectors /\ Behind(r)[k].sectors \in Nat
    BY <2>3, TrackSpan
  <2>6. StartsAt(r, k) <= lba
    BY <2>4, <2>5
  <2>7. \A j \in 1 .. Len(r.tracks) : k < j => lba < StartsAt(r, j)
    <3> TAKE j \in 1 .. Len(r.tracks)
    <3> HAVE k < j
    <3>1. CASE j = i
      BY <1>4, <3>1
    <3>2. CASE i < j
      BY <1>2, <3>2
    <3> QED BY <2>3, <3>1, <3>2
  <2>8. InTrack(r, k, lba)
    BY Zenon, <2>6, <2>7 DEF InTrack
  <2> QED BY <2>1, <2>8 DEF k
<1> QED BY <1>3, <1>4

\* A stored sector is read from where it is stored.
LEMMA StoredFound ==
    ASSUME LoadInv, step = "Ready", NEW i \in 1 .. Len(rip.tracks),
           NEW lba \in Nat, FirstStored(rip, i) <= lba, lba < Behind(rip)[i].sectors
    PROVE  StoredIsFound(i, lba)
<1> DEFINE f == rip.tracks[i].file
           o == StoredAt(rip, i, lba)
           b == layout.bases[f]
           T == discTracks
<1>1. /\ IsRip(rip) /\ Plain(rip) /\ files = Sizes(rip) /\ files \in Seq(Nat)
      /\ Len(files) = Len(rip.files) /\ DOMAIN files = 1 .. Len(files) /\ Tiled(files, layout)
      /\ TracksOf(rip, T) /\ TracksAt(rip, T)
  BY ServedFacts
<1>2. InTrack(rip, i, lba)
  <2>1. /\ Behind(rip)[i - 1].sectors \in Nat /\ Behind(rip)[i - 1].sectors <= StartsAt(rip, i)
        /\ StartsAt(rip, i) <= FirstStored(rip, i)
        /\ StartsAt(rip, i) \in Nat /\ FirstStored(rip, i) \in Nat
    BY <1>1, TrackSpan
  <2>2. Behind(rip)[i - 1].sectors <= lba /\ StartsAt(rip, i) <= lba
    BY <2>1
  <2> QED BY <1>1, <2>2, SectorsInTracks
<1>3. Toc!TrackInfoForLBA(T, lba) = {T[i]} /\ T[i].sector_length = Size(rip, i)
  BY <1>1, <1>2, SearchFinds, TrackOfRip
<1>4. GetByteOffsetForLBA(lba) = {b + o}
  <2>1. \A hole \in layout.sparse : ~InSectors(hole, lba)
    BY StoredOutside
  <2>2. GetByteOffsetForLBA(lba) = {b + OffsetOf(rip, i, lba)}
    BY <1>2, <2>1, OneOffset
  <2>3. OffsetOf(rip, i, lba) = o
    BY <1>1, OffsetStored
  <2> QED BY Zenon, <2>2, <2>3
<1>5. o \in Nat /\ o < files[f]
  <2>1. o \in Nat /\ o < Sizes(rip)[f]
    BY <1>1, StoredPlace
  <2> QED BY Zenon, <1>1, <2>1
<1>6. f \in DOMAIN files
  BY <1>1, RipFilesInOrder
<1>7. b \in Nat /\ files[f] \in Nat
  <2>1. layout.bases \in [DOMAIN files -> Nat]
    BY <1>1 DEF Tiled
  <2> QED BY SMTT(20), <1>1, <1>6, <2>1
<1> HIDE DEF f, T
<1> DEFINE at == b + o
<1>8. at \in Nat /\ InFileAt(files, layout, f, at) /\ at - b = o
  <2>1. b <= b + o /\ b + o < b + files[f] /\ b + o \in Nat /\ (b + o) - b = o
    <3> HIDE DEF b, o
    <3> QED BY <1>5, <1>7
  <2> QED BY Zenon, <2>1 DEF InFileAt
<1> HIDE DEF at
<1>9. FileIndexForOffset(at) = {f}
  BY <1>1, <1>6, <1>8, FileAtOffset
<1>10. Place(at) = {[file |-> f, offset |-> o]}
  <2>1. Place(at) = {[file |-> f, offset |-> at - layout.bases[f]]}
    BY Zenon, <1>9 DEF Place
  <2> QED BY Zenon, <1>8, <2>1
<1>11. GetByteOffsetForLBA(lba) = {at}
  BY <1>4 DEF at
<1> HIDE DEF b, o
<1> QED BY Zenon, <1>3, <1>10, <1>11 DEF StoredIsFound, T, f, o

\* A silent sector is read from a hole or gives the start of the data behind it.
LEMMA SilentFound ==
    ASSUME LoadInv, step = "Ready", NEW i \in 1 .. Len(rip.tracks),
           NEW lba \in Nat, Behind(rip)[i - 1].sectors <= lba, lba < FirstStored(rip, i)
    PROVE  SilentIsFound(lba)
<1> DEFINE T == discTracks
<1>1. /\ IsRip(rip) /\ Plain(rip) /\ TracksOf(rip, T) /\ TracksAt(rip, T)
  BY ServedFacts
<1>2. /\ FirstStored(rip, i) \in Nat /\ FirstStored(rip, i) <= DataStart(rip, i)
      /\ DataStart(rip, i) < Behind(rip)[i].sectors /\ DataStart(rip, i) \in Nat
      /\ StartsAt(rip, i) \in Nat /\ StartsAt(rip, i) <= FirstStored(rip, i)
      /\ Behind(rip)[i].sectors \in Nat
  BY <1>1, TrackSpan
<1>3. lba < Behind(rip)[i].sectors
  BY <1>2
<1>4. /\ StartsAt(rip, i) <= lba => InTrack(rip, i, lba)
      /\ lba < StartsAt(rip, i) => OpensSession(rip, i) /\ InTrack(rip, i - 1, lba)
  BY <1>1, <1>3, SectorsInTracks
<1>5. Toc!TrackInfoForLBA(T, lba) # {}
  <2>1. CASE StartsAt(rip, i) <= lba
    <3>1. Toc!TrackInfoForLBA(T, lba) = {T[i]}
      BY <1>1, <1>4, <2>1, SearchFinds
    <3> QED BY <3>1
  <2>2. CASE lba < StartsAt(rip, i)
    <3> DEFINE k == i - 1
    <3>1. k \in 1 .. Len(rip.tracks)
      BY <1>1, <1>4, <2>2, RipFields DEF OpensSession
    <3>2. InTrack(rip, k, lba)
      BY <1>4, <2>2
    <3> HIDE DEF k
    <3>3. Toc!TrackInfoForLBA(T, lba) = {T[k]}
      BY <1>1, <3>1, <3>2, SearchFinds
    <3> QED BY <3>3
  <2> QED BY <1>2, <2>1, <2>2
<1> HIDE DEF T
<1>6. CASE \E hole \in layout.sparse : InSectors(hole, lba)
  BY Zenon, <1>5, <1>6, HoleIsSilent DEF SilentIsFound, T
<1>7. CASE ~\E hole \in layout.sparse : InSectors(hole, lba)
  <2>1. ~(i > 1 /\ FirstInFile(rip, i))
    <3> SUFFICES ASSUME i > 1, FirstInFile(rip, i) PROVE FALSE
      OBVIOUS
    <3> DEFINE f == rip.tracks[i - 1].file
               k == i - 1
    <3>1. i \in 2 .. Len(rip.tracks)
      BY <1>1, RipFields
    <3>2. LastInFile(rip, f) = k /\ f \in 1 .. Len(rip.files) - 1
      BY <1>1, <3>1, FileEnds
    <3>3. k + 1 = i /\ k \in 1 .. Len(rip.tracks)
      BY <3>1
    <3>4. Behind(rip)[k].sectors <= lba
      OBVIOUS
    <3> HIDE DEF f, k
    <3>5. Behind(rip)[k].sectors \in Nat
      BY <1>1, <3>3, TrackSpan
    <3>6. Behind(rip)[k].sectors < FirstStored(rip, i)
      BY <1>2, <3>4, <3>5
    <3>7. \E hole \in layout.sparse : HoleOf(rip, f, hole)
      <4>1. Behind(rip)[LastInFile(rip, f)].sectors
               < FirstStored(rip, LastInFile(rip, f) + 1)
        BY <3>2, <3>3, <3>6
      <4> QED BY Zenon, <3>2, <4>1, HolesOfRip
    <3>8. PICK hole \in layout.sparse : HoleOf(rip, f, hole)
      BY <3>7
    <3>9. hole.start = Behind(rip)[k].sectors /\ hole.end = FirstStored(rip, i)
      BY <3>2, <3>3, <3>8 DEF HoleOf
    <3>10. InSectors(hole, lba)
      BY <1>2, <3>4, <3>5, <3>9 DEF InSectors
    <3> QED BY <1>7, <3>10
  <2>2. ~OpensSession(rip, i)
    BY Zenon, <2>1 DEF OpensSession
  <2>3. StartsAt(rip, i) <= lba /\ InTrack(rip, i, lba)
    BY <1>2, <1>4, <2>2
  <2> DEFINE d == DataStart(rip, i)
  <2>4. Pregap(rip, i) > 0 /\ OffsetOf(rip, i, lba) = OffsetOf(rip, i, d)
    BY <1>1, <2>3, OffsetSilent
  <2>5. Toc!TrackInfoForLBA(T, lba) = {T[i]} /\ T[i].unstored_pregap_length = Pregap(rip, i)
        /\ T[i].data_start = d
    BY <1>1, <2>3, SearchFinds, TrackOfRip
  <2>6. InTrack(rip, i, d)
    <3>1. Behind(rip)[i - 1].sectors <= d /\ StartsAt(rip, i) <= d
      <4>1. Behind(rip)[i - 1].sectors \in Nat /\ Behind(rip)[i - 1].sectors <= StartsAt(rip, i)
        BY <1>1, TrackSpan
      <4> QED BY <1>2, <4>1
    <3> QED BY <1>1, <1>2, <3>1, SectorsInTracks
  <2>7. \A hole \in layout.sparse : ~InSectors(hole, d)
    BY <1>2, StoredOutside
  <2>8. GetByteOffsetForLBA(d) = {layout.bases[rip.tracks[i].file] + OffsetOf(rip, i, d)}
    BY <1>2, <2>6, <2>7, OneOffset
  <2>9. GetByteOffsetForLBA(lba) = {layout.bases[rip.tracks[i].file] + OffsetOf(rip, i, lba)}
    BY <1>7, <2>3, OneOffset
  <2>10. GetByteOffsetForLBA(lba) = GetByteOffsetForLBA(d)
    BY Zenon, <2>4, <2>8, <2>9
  <2>11. GetByteOffsetForLBA(lba) # {}
    BY Zenon, <2>9
  <2> HIDE DEF d
  <2> QED BY Zenon, <1>5, <2>4, <2>5, <2>10, <2>11 DEF SilentIsFound, T
<1> QED BY <1>6, <1>7

\* Each sector of a rip that is served is found where it is stored.
LEMMA SectorsFound ==
    ASSUME LoadInv PROVE SectorsAreFound
<1> SUFFICES ASSUME step = "Ready", NEW i \in DOMAIN rip.tracks, NEW lba \in SectorsOf(i)
             PROVE  IF lba >= FirstStored(rip, i) THEN StoredIsFound(i, lba)
                    ELSE SilentIsFound(lba)
  BY DEF SectorsAreFound
<1>1. IsRip(rip)
  BY ServedFacts
<1>2. i \in 1 .. Len(rip.tracks)
  BY <1>1, RipFields
<1>3. Behind(rip)[i - 1].sectors \in Nat /\ Behind(rip)[i].sectors \in Nat
      /\ FirstStored(rip, i) \in Nat
  BY <1>1, <1>2, TrackSpan
<1>4. lba \in Nat /\ Behind(rip)[i - 1].sectors <= lba /\ lba < Behind(rip)[i].sectors
  BY <1>3 DEF SectorsOf
<1>5. CASE lba >= FirstStored(rip, i)
  <2>1. FirstStored(rip, i) <= lba
    BY <1>3, <1>4, <1>5
  <2>2. StoredIsFound(i, lba)
    BY <1>2, <1>4, <2>1, StoredFound
  <2> QED BY <1>5, <2>2
<1>6. CASE ~(lba >= FirstStored(rip, i))
  <2>1. lba < FirstStored(rip, i)
    BY <1>3, <1>4, <1>6
  <2>2. SilentIsFound(lba)
    BY <1>2, <1>4, <2>1, SilentFound
  <2> QED BY <1>6, <2>2
<1> QED BY <1>5, <1>6

-----------------------------------------------------------------------------
(* Its table of contents                                                     *)

\* The tracks picked grow by those at the places asked for.
LEMMA PickedRow ==
    ASSUME NEW T \in Seq(Info), NEW places
    PROVE  \E g : /\ Toc!At(T, places) = g[Len(T)] /\ g[0] = <<>>
                  /\ \A i \in 0 .. Len(T) : g[i] \in Seq(Info)
                  /\ \A i \in 1 .. Len(T) :
                        g[i] = IF i \in places THEN Append(g[i - 1], T[i]) ELSE g[i - 1]
<1> DEFINE n == Len(T)
           X == Seq(Info)
           b == <<>>
           Pick(i, x) == IF i \in places THEN Append(x, T[i]) ELSE x
           G == [i \in 1 .. n |-> [x \in X |-> Pick(i, x)]]
           Row(f) == f = [i \in 0 .. n |-> IF i = 0 THEN b ELSE Pick(i, f[i - 1])]
<1>1. n \in Nat /\ b \in X
  OBVIOUS
<1>2. \A i \in 1 .. n, x \in X : Pick(i, x) \in X
  <2> TAKE i \in 1 .. n, x \in X
  <2>1. T[i] \in Info
    OBVIOUS
  <2>2. Append(x, T[i]) \in X
    BY <2>1
  <2> QED BY <2>2
<1>3. Toc!At(T, places) = (CHOOSE f : Row(f))[n]
  <2>1. \A i, f : (IF i = 0 THEN <<>>
                   ELSE IF i \in places THEN Append(f[i - 1], T[i]) ELSE f[i - 1])
                 = IF i = 0 THEN b ELSE Pick(i, f[i - 1])
    BY Zenon
  <2> QED BY DEF Toc!At
<1> HIDE DEF n, b, X, Pick
<1>4. StaysIn(G, n, X)
  BY Zenon, <1>2 DEF StaysIn
<1>5. \A i \in 1 .. n, x \in X : G[i][x] = Pick(i, x)
  BY Zenon
<1> HIDE DEF G
<1>6. PICK f : IsRow(f, n, b, G)
  BY <1>1, RowExists
<1>7. /\ \A i \in 0 .. n : f[i] \in X
      /\ f[0] = b /\ \A i \in 1 .. n : f[i] = G[i][f[i - 1]]
  <2>1. Follows(f, n, b, G, X)
    BY <1>1, <1>4, <1>6, RowIn
  <2> QED BY Zenon, <2>1 DEF Follows
<1>8. \A i \in 1 .. n : f[i] = Pick(i, f[i - 1])
  <2>1. \A i \in 1 .. n : i - 1 \in 0 .. n
    BY <1>1
  <2> QED BY Zenon, <1>5, <1>7, <2>1
<1>9. Row(f)
  <2>1. \A i \in 0 .. n : i # 0 => i \in 1 .. n
    BY <1>1
  <2>2. \A i \in 0 .. n : f[i] = IF i = 0 THEN b ELSE Pick(i, f[i - 1])
    BY Zenon, <1>7, <1>8, <2>1
  <2>3. f = [i \in 0 .. n |-> f[i]]
    BY Zenon, <1>6 DEF IsRow
  <2> QED BY Zenon, <2>2, <2>3
<1> DEFINE g == CHOOSE h : Row(h)
<1>10. Row(g)
  BY Zenon, <1>9
<1> HIDE DEF g
<1>11. g[0] = b /\ \A i \in 1 .. n : g[i] = Pick(i, g[i - 1])
  <2>1. 0 \in 0 .. n /\ \A i \in 1 .. n : i \in 0 .. n /\ i # 0
    BY <1>1
  <2> QED BY Zenon, <1>10, <2>1
<1>12. \A i \in 0 .. n : g[i] \in X
  <2>1. \A i \in 1 .. n : g[i - 1] \in X => g[i] \in X
    BY Zenon, <1>2, <1>11
  <2>2. g[0] \in X
    BY <1>1, <1>11
  <2> QED BY <1>1, <2>1, <2>2, AlongRow
<1>13. Toc!At(T, places) = g[n]
  BY <1>3 DEF g
<1>14. \A i \in 1 .. n : g[i] = IF i \in places THEN Append(g[i - 1], T[i]) ELSE g[i - 1]
  BY Zenon, <1>11 DEF Pick
<1> QED BY <1>11, <1>12, <1>13, <1>14 DEF n, b, X

\* All places pick the tracks.
LEMMA AllPicked ==
    ASSUME NEW T \in Seq(Info), NEW places, 1 .. Len(T) \subseteq places
    PROVE  Toc!At(T, places) = T
<1> DEFINE n == Len(T)
<1>1. PICK g : /\ Toc!At(T, places) = g[n] /\ g[0] = <<>>
               /\ \A i \in 0 .. n : g[i] \in Seq(Info)
               /\ \A i \in 1 .. n : g[i] = IF i \in places THEN Append(g[i - 1], T[i]) ELSE g[i - 1]
  BY PickedRow
<1>2. \A i \in 1 .. n : g[i] = Append(g[i - 1], T[i])
  BY <1>1
<1>3. n \in Nat /\ \A i \in 1 .. n : T[i] \in Info
  OBVIOUS
<1> DEFINE Same(i) == Len(g[i]) = i /\ \A j \in 1 .. i : g[i][j] = T[j]
           bad == {i \in 0 .. n : ~Same(i)}
<1> HIDE DEF n
<1>4. bad = {}
  <2> SUFFICES ASSUME bad # {} PROVE FALSE
    OBVIOUS
  <2>1. PICK k \in bad : \A j \in bad : k <= j
    <3>1. bad \subseteq Nat
      BY <1>3
    <3> HIDE DEF bad
    <3> QED BY <3>1, LeastNumber
  <2>2. k \in 0 .. n /\ ~Same(k)
    OBVIOUS
  <2>3. Same(0)
    BY <1>1
  <2>4. k \in 1 .. n /\ k - 1 \in 0 .. n /\ ~(k <= k - 1)
    <3>1. k # 0
      BY <2>2, <2>3
    <3> QED BY <1>3, <2>2, <3>1
  <2>5. Same(k - 1)
    BY <2>1, <2>4
  <2> DEFINE s == g[k - 1]
             t == T[k]
             u == g[k]
  <2>6. s \in Seq(Info) /\ t \in Info /\ u = Append(s, t)
    BY <1>1, <1>2, <1>3, <2>4
  <2>7. Len(s) = k - 1 /\ \A j \in 1 .. k - 1 : s[j] = T[j]
    BY <2>5
  <2> HIDE DEF s, t, u
  <2>8. Len(u) = k /\ u[k] = t /\ \A j \in 1 .. k - 1 : u[j] = s[j]
    BY <2>4, <2>6, <2>7
  <2>9. \A j \in 1 .. k : u[j] = T[j]
    <3> TAKE j \in 1 .. k
    <3>1. CASE j = k
      BY <2>8, <3>1 DEF t
    <3>2. CASE j # k
      <4>1. j \in 1 .. k - 1
        BY <2>4, <3>2
      <4> QED BY <2>7, <2>8, <4>1
    <3> QED BY <3>1, <3>2
  <2> QED BY <2>2, <2>8, <2>9 DEF u
<1>5. Same(n)
  <2>1. n \in 0 .. n
    BY <1>3
  <2> QED BY <1>4, <2>1
<1>6. g[n] \in Seq(Info)
  BY <1>1, <1>3
<1> DEFINE u == g[n]
<1>7. u = T
  <2>1. u \in Seq(Info) /\ Len(u) = Len(T) /\ \A j \in 1 .. Len(T) : u[j] = T[j]
    BY <1>5, <1>6 DEF n
  <2> HIDE DEF u
  <2> QED BY <2>1
<1> QED BY <1>1, <1>7

\* A place that is one of a track picks something.
LEMMA SomePicked ==
    ASSUME NEW T \in Seq(Info), NEW places, NEW k \in 1 .. Len(T), k \in places
    PROVE  Toc!At(T, places) # <<>>
<1> DEFINE n == Len(T)
<1>1. PICK g : /\ Toc!At(T, places) = g[n] /\ g[0] = <<>>
               /\ \A i \in 0 .. n : g[i] \in Seq(Info)
               /\ \A i \in 1 .. n : g[i] = IF i \in places THEN Append(g[i - 1], T[i]) ELSE g[i - 1]
  BY PickedRow
<1>2. n \in Nat /\ k \in 1 .. n /\ \A i \in 1 .. n : T[i] \in Info
  OBVIOUS
<1> DEFINE bad == {i \in k .. n : g[i] = <<>>}
<1> HIDE DEF n
<1>3. \A s \in Seq(Info), t \in Info : Append(s, t) # <<>>
  OBVIOUS
<1>4. bad = {}
  <2> SUFFICES ASSUME bad # {} PROVE FALSE
    OBVIOUS
  <2>1. PICK i \in bad : \A j \in bad : i <= j
    <3>1. bad \subseteq Nat
      BY <1>2
    <3> HIDE DEF bad
    <3> QED BY <3>1, LeastNumber
  <2>2. i \in 1 .. n /\ i - 1 \in 0 .. n /\ i \in k .. n /\ g[i] = <<>> /\ T[i] \in Info
    BY <1>2
  <2>3. g[i - 1] \in Seq(Info)
    BY <1>1, <2>2
  <2>4. i \notin places
    BY <1>1, <1>3, <2>2, <2>3
  <2>5. i # k
    BY <2>4
  <2>6. g[i - 1] = <<>>
    BY <1>1, <2>2, <2>4
  <2>7. i - 1 \in k .. n /\ ~(i <= i - 1)
    BY <1>2, <2>2, <2>5
  <2> QED BY <2>1, <2>6, <2>7
<1>5. n \in k .. n
  BY <1>2
<1> QED BY <1>1, <1>4, <1>5

\* The lead-out is where the last frame of the rip ends.
LEMMA LeadoutOfRip ==
    ASSUME LoadInv, step = "Ready"
    PROVE  Toc!LeadoutLBA(discTracks, files, layout.size) = Behind(rip)[Len(rip.tracks)].sectors
<1> DEFINE T == discTracks
           n == Len(rip.tracks)
           m == Len(rip.files)
           size == IF Len(files) > 1 /\ T[n].file_index \in DOMAIN files
                   THEN files[T[n].file_index] ELSE layout.size
           w == files[m]
           off == Behind(rip)[n].bytes - rip.tracks[n].data * Size(rip, n)
<1>1. /\ IsRip(rip) /\ Plain(rip) /\ files = Sizes(rip) /\ files \in Seq(Nat)
      /\ Len(files) = m /\ m \in Nat \ {0} /\ DOMAIN files = 1 .. m
      /\ TracksOf(rip, T) /\ TracksAt(rip, T)
  BY ServedFacts
<1>2. T \in Seq(Info) /\ Len(T) = n /\ n \in Nat \ {0} /\ n \in 1 .. n
  BY <1>1, RipFields DEF TracksOf
<1>3. LastInFile(rip, m) = n
  <2>1. rip.tracks[n].file = m
    BY <1>1, RipFilesInOrder
  <2> DEFINE l == LastInFile(rip, m)
  <2>2. m \in 1 .. m
    BY <1>1
  <2>3. l \in 1 .. n /\ n <= l
    BY <1>1, <1>2, <2>1, <2>2, LastInFileFacts
  <2> HIDE DEF l, n
  <2>4. l = n
    BY <1>2, <2>3
  <2> QED BY <2>4 DEF l
<1>4. /\ w \in Nat /\ off \in Int /\ w > off
      /\ (w - off) \div Size(rip, n) = rip.tracks[n].data
      /\ DataStart(rip, n) + rip.tracks[n].data = Behind(rip)[n].sectors
  <2>1. m \in 1 .. m
    BY <1>1
  <2> QED BY <1>1, <1>3, <2>1, BlocksLeft
<1>5. /\ T[n].file_index = m /\ T[n].sector_length = Size(rip, n) /\ Size(rip, n) > 0
      /\ T[n].file_offset = off /\ T[n].data_start = DataStart(rip, n)
  <2>1. rip.tracks[n].file = m /\ Size(rip, n) > 0
    BY <1>1, <1>2, RipFilesInOrder, RipFields
  <2> HIDE DEF T, n
  <2> QED BY <1>1, <1>2, <2>1, TrackOfRip DEF n
<1>6. Toc!Last(T) = T[n] /\ T # <<>>
  <2>1. Last(T) = T[n]
    BY <1>2 DEF Last
  <2>2. T # <<>>
    <3> HIDE DEF T, n
    <3> QED BY <1>2
  <2> QED BY <2>1, <2>2, TocSame
<1>7. size = w
  <2>1. CASE m > 1
    <3>1. Len(files) > 1 /\ m \in DOMAIN files
      BY <1>1, <2>1
    <3> HIDE DEF T, n, m
    <3> QED BY <1>5, <3>1
  <2>2. CASE ~(m > 1)
    <3>1. m = 1 /\ Len(files) <= 1
      <4>1. Len(files) = m /\ m \in Nat \ {0} /\ ~(m > 1)
        BY <1>1, <2>2
      <4> HIDE DEF m
      <4>2. m = 1
        BY <4>1
      <4> QED BY <4>1, <4>2
    <3>2. layout.size = files[1]
      BY <3>1, SingleFileKnown
    <3>3. ~(Len(files) > 1)
      BY <1>1, <2>2
    <3> QED BY Zenon, <3>1, <3>2, <3>3
  <2> QED BY <2>1, <2>2
<1>8. Toc!LeadoutLBA(T, files, layout.size)
        = IF T = <<>> THEN 0
          ELSE IF size < T[n].file_offset \/ T[n].sector_length = 0 THEN T[n].data_start
          ELSE T[n].data_start + (size - T[n].file_offset) \div T[n].sector_length
  BY Zenon, <1>6 DEF Toc!LeadoutLBA
<1>9. ~(w < off) /\ Size(rip, n) # 0
  <2>1. Size(rip, n) # 0
    BY <1>5
  <2> HIDE DEF w, off
  <2> QED BY <1>4, <2>1
<1> HIDE DEF size, w, off, T, n
<1>10. Toc!LeadoutLBA(T, files, layout.size) = DataStart(rip, n) + (w - off) \div Size(rip, n)
  BY Zenon, <1>5, <1>6, <1>7, <1>8, <1>9
<1> QED BY Zenon, <1>4, <1>10 DEF T, n

\* The entries of the table are the tracks of the rip, and its lead-out.
LEMMA TableOfRip ==
    ASSUME LoadInv, step = "Ready"
    PROVE  LET n   == Len(rip.tracks)
               toc == Toc!ReadTOC(discTracks, files, layout.size, 0)
           IN  /\ toc # {}
               /\ \A entries \in toc :
                     /\ Len(entries) = n + 1
                     /\ \A i \in 1 .. n : entries[i].number = i /\ entries[i].start = DataStart(rip, i)
                     /\ entries[n + 1].start = Behind(rip)[n].sectors
<1> DEFINE T == discTracks
           n == Len(rip.tracks)
           places == {i \in DOMAIN T : T[i].track_number >= 0}
           leadout == [number |-> Toc!LeadoutPoint,
                       audio |-> T # <<>> /\ Toc!Last(T).track_mode = "AUDIO",
                       start |-> Toc!LeadoutLBA(T, files, layout.size)]
           rows == [i \in DOMAIN T |-> Toc!TOCEntry(T[i])]
           all == rows \o <<leadout>>
<1>1. /\ IsRip(rip) /\ Plain(rip) /\ TracksOf(rip, T) /\ TracksAt(rip, T)
  BY ServedFacts
<1>2. T \in Seq(Info) /\ Len(T) = n /\ n \in Nat \ {0} /\ DOMAIN T = 1 .. n
  BY <1>1, RipFields DEF TracksOf
<1>3. \A i \in 1 .. n : T[i].track_number = i /\ T[i].data_start = DataStart(rip, i)
  BY <1>1, TrackOfRip
<1> HIDE DEF T, n
<1>4. places = 1 .. n
  BY <1>2, <1>3
<1>5. Toc!At(T, places) = T
  <2>1. 1 .. Len(T) \subseteq places
    BY <1>2, <1>4
  <2> HIDE DEF places
  <2> QED BY <1>2, <2>1, AllPicked
<1> HIDE DEF places, leadout
<1>6. Toc!ReadTOC(T, files, layout.size, 0) = {all}
  <2>1. 0 # Toc!LeadoutPoint
    BY DEF Toc!LeadoutPoint
  <2> QED BY Zenon, <1>5, <2>1 DEF Toc!ReadTOC, places, leadout
<1>7. leadout.start = Behind(rip)[n].sectors
  BY LeadoutOfRip DEF leadout, T, n
<1>8. \A i \in 1 .. n : rows[i].number = i /\ rows[i].start = DataStart(rip, i)
  BY <1>2, <1>3 DEF Toc!TOCEntry
<1>9. Len(all) = n + 1 /\ all[n + 1] = leadout /\ \A i \in 1 .. n : all[i] = rows[i]
  <2> DEFINE X == {rows[i] : i \in 1 .. n} \cup {leadout}
  <2>1. rows \in Seq(X) /\ Len(rows) = n
    <3>1. rows \in [1 .. n -> X]
      BY <1>2
    <3> HIDE DEF rows, X
    <3> QED BY <1>2, <3>1
  <2>2. leadout \in X
    OBVIOUS
  <2> HIDE DEF rows, X
  <2> QED BY <1>2, <2>1, <2>2
<1> HIDE DEF all, rows
<1>10. /\ Len(all) = n + 1
       /\ \A i \in 1 .. n : all[i].number = i /\ all[i].start = DataStart(rip, i)
       /\ all[n + 1].start = Behind(rip)[n].sectors
  BY Zenon, <1>7, <1>8, <1>9
<1> QED BY Zenon, <1>6, <1>10 DEF T, n

\* The tables of a rip of one file for each of two sessions begin the second session
\* with the second file, and end the first where the first file ends.
LEMMA SessionsOfRip ==
    ASSUME LoadInv, step = "Ready", OneFilePerSession
    PROVE  LET F == LastInFile(rip, 1) + 1
           IN  /\ F \in 2 .. Len(rip.tracks)
               /\ Toc!LastSessionStartTrack(discTracks) = F
               /\ Toc!SessionCount(discTracks) = 2
               /\ Toc!SessionLeadoutLBA(discTracks, files, layout.size, 1)
                    = Behind(rip)[LastInFile(rip, 1)].sectors
<1> DEFINE T == discTracks
           n == Len(rip.tracks)
           l == LastInFile(rip, 1)
           F == l + 1
           Opens(i) == \A j \in 1 .. i - 1 : T[j].session < T[i].session
           marked == {i \in DOMAIN T : T[i].session > 1 /\ Opens(i)}
           ended == {i \in DOMAIN T : T[i].track_number < F}
           b == Behind(rip)[l].sectors
           d == DataStart(rip, l)
<1>1. /\ IsRip(rip) /\ Plain(rip) /\ TracksOf(rip, T) /\ TracksAt(rip, T)
  BY ServedFacts
<1>2. Len(rip.files) = 2 /\ \A i \in 1 .. n : rip.tracks[i].session = rip.tracks[i].file
  BY <1>1, RipFields DEF OneFilePerSession
<1>3. T \in Seq(Info) /\ Len(T) = n /\ n \in Nat \ {0} /\ DOMAIN T = 1 .. n
  BY <1>1, RipFields DEF TracksOf
<1>4. /\ l \in 1 .. n /\ F \in 2 .. n /\ rip.tracks[l].file = 1 /\ rip.tracks[F].file = 2
      /\ FirstInFile(rip, F) /\ \A i \in 1 .. n : rip.tracks[i].file = 2 => F <= i
  <2>1. 1 \in 1 .. Len(rip.files) - 1 /\ 1 + 1 = 2
    BY <1>2
  <2> QED BY <1>1, <2>1, FileFollows
<1>5. \A i \in 1 .. n : /\ i <= l => T[i].session = 1
                        /\ l < i => T[i].session = 2
                        /\ T[i].track_number = i
  <2> TAKE i \in 1 .. n
  <2>1. T[i].session = rip.tracks[i].file /\ T[i].track_number = i
    <3>1. T[i].session = rip.tracks[i].session /\ T[i].track_number = i
      BY <1>1, TrackOfRip
    <3> QED BY <1>2, <3>1
  <2>2. rip.tracks[i].file \in 1 .. 2
    BY <1>1, <1>2, RipFilesInOrder
  <2>3. i <= l => rip.tracks[i].file <= 1
    BY <1>1, <1>4, RipFilesInOrder
  <2>4. F <= i => 2 <= rip.tracks[i].file
    <3> DEFINE k == F
    <3>1. k \in 1 .. n /\ rip.tracks[k].file = 2
      BY <1>3, <1>4
    <3> HIDE DEF k
    <3>2. k <= i => rip.tracks[k].file <= rip.tracks[i].file
      BY <1>1, <3>1, RipFilesInOrder
    <3> QED BY <3>1, <3>2 DEF k
  <2> DEFINE s == rip.tracks[i].file
  <2>5. s \in 1 .. 2 /\ (i <= l => s <= 1) /\ (F <= i => 2 <= s)
    BY <2>2, <2>3, <2>4
  <2> HIDE DEF s, l, n
  <2>6. (i <= l => s = 1) /\ (l < i => s = 2)
    BY <1>3, <1>4, <2>5
  <2> QED BY <2>1, <2>6 DEF s
<1>6. /\ T[F].track_start = b + SessionGap /\ T[F].prev_session_leadout = 0
      /\ T[l].data_start = d
  <2> DEFINE k == F
  <2>1. k \in 1 .. n /\ k > 1 /\ k - 1 = l /\ FirstInFile(rip, k)
    BY <1>3, <1>4
  <2>2. OpensSession(rip, k)
    <3>1. rip.tracks[k].session = 2 /\ rip.tracks[k - 1].session = 1
      BY <1>2, <1>4, <2>1
    <3> HIDE DEF k
    <3> QED BY <2>1, <3>1 DEF OpensSession
  <2> HIDE DEF k, l
  <2>3. StartsAt(rip, k) = b + SessionGap
    BY Zenon, <2>1, <2>2 DEF StartsAt, Gap
  <2>4. T[k].track_start = StartsAt(rip, k) /\ T[k].prev_session_leadout = 0
    BY <1>1, <2>1, TrackOfRip
  <2>5. T[l].data_start = DataStart(rip, l)
    BY <1>1, <1>4, TrackOfRip
  <2> QED BY <2>3, <2>4, <2>5 DEF k
<1>7. b \in Nat /\ d \in Nat /\ d < b /\ SessionGap \in Nat
  BY <1>1, <1>4, TrackSpan, SheetAssumption DEF SheetAssumption
<1> HIDE DEF T, n, l, b, d
<1>8. l \in Nat /\ 1 \in 1 .. n /\ F \in 1 .. n /\ F # 1
  BY <1>3, <1>4
<1>9. marked = {F}
  <2>1. ASSUME NEW i \in 1 .. n, i <= l PROVE ~(T[i].session > 1)
    BY <1>5, <2>1
  <2>2. ASSUME NEW i \in 1 .. n, F < i PROVE ~Opens(i)
    <3>1. F \in 1 .. i - 1 /\ l < F /\ l < i
      BY <1>8, <2>2
    <3>2. T[F].session = 2 /\ T[i].session = 2
      BY <1>5, <1>8, <3>1
    <3> DEFINE k == F
    <3>3. k \in 1 .. i - 1 /\ ~(T[k].session < T[i].session)
      BY <3>1, <3>2
    <3> HIDE DEF k
    <3> QED BY <3>3
  <2>3. T[F].session > 1 /\ Opens(F)
    <3>1. l < F
      BY <1>8
    <3>2. T[F].session = 2
      BY <1>5, <1>8, <3>1
    <3>3. \A j \in 1 .. F - 1 : j \in 1 .. n /\ j <= l
      BY <1>3, <1>8
    <3>4. \A j \in 1 .. F - 1 : T[j].session = 1
      BY <1>5, <3>3
    <3> QED BY <3>2, <3>4
  <2> HIDE DEF Opens
  <2>4. \A i \in 1 .. n : i \in marked <=> i = F
    <3> TAKE i \in 1 .. n
    <3>1. CASE i <= l
      <4>1. i # F
        BY <1>8, <3>1
      <4> QED BY <1>3, <2>1, <3>1, <4>1
    <3>2. CASE i = F
      BY <1>3, <2>3, <3>2
    <3>3. CASE F < i
      <4>1. i # F
        BY <1>8, <3>3
      <4> QED BY <1>3, <2>2, <3>3, <4>1
    <3>4. i <= l \/ i = F \/ F < i
      BY <1>8
    <3> QED BY <3>1, <3>2, <3>3, <3>4
  <2> QED BY <1>3, <1>8, <2>4
<1>10. Toc!LastSessionStartTrack(T) = F
  <2>1. T # <<>>
    BY <1>3
  <2>2. Max({F}) = F
    <3>1. {F} \subseteq 0 .. F /\ {F} # {} /\ F \in Nat
      BY <1>8
    <3>2. Max({F}) \in {F}
      <4> DEFINE k == F
                 S == {k}
      <4>1. S \subseteq 0 .. k /\ S # {} /\ k \in Nat
        BY <3>1
      <4> HIDE DEF S, k
      <4>2. Max(S) \in S
        BY <4>1, MaxIn
      <4> QED BY <4>2 DEF S, k
    <3> QED BY <3>2
  <2>3. Toc!Max({F}) = F
    BY Zenon, <2>2, TocSame
  <2>4. T[F].track_number = F
    BY <1>5, <1>8
  <2>5. {F} # {}
    OBVIOUS
  <2>6. Toc!LastSessionStartTrack(T) = T[Toc!Max(marked)].track_number
    <3>1. marked # {}
      BY <1>9, <2>5
    <3> QED BY Zenon, <2>1, <3>1 DEF Toc!LastSessionStartTrack
  <2> HIDE DEF F, marked
  <2> QED BY Zenon, <1>9, <2>3, <2>4, <2>6
<1> HIDE DEF marked
<1>11. Toc!SessionCount(T) = 2
  <2>1. T # <<>> /\ Head(T) = T[1] /\ T[1].track_number = 1
    BY <1>3, <1>5, <1>8
  <2> QED BY Zenon, <1>8, <1>10, <2>1 DEF Toc!SessionCount
<1>12. ended = 1 .. l
  <2>1. \A i \in 1 .. n : T[i].track_number < F <=> i \in 1 .. l
    BY <1>3, <1>5, <1>8
  <2>2. 1 .. l \subseteq 1 .. n
    BY <1>3, <1>4
  <2> QED BY Zenon, <1>3, <2>1, <2>2
<1> HIDE DEF ended
<1>13. Toc!Max(ended) = l /\ ended # {}
  <2> DEFINE x == Max(ended)
  <2>1. ended \subseteq 0 .. l /\ l \in ended
    BY <1>4, <1>8, <1>12
  <2>2. x \in ended /\ \A y \in ended : x >= y
    BY <1>8, <2>1, MaxIn
  <2> HIDE DEF x
  <2>3. x = l
    BY <1>8, <2>1, <2>2
  <2>4. Toc!Max(ended) = x
    BY TocSame DEF x
  <2> QED BY <2>1, <2>3, <2>4
<1> DEFINE named == Toc!Numbered(T, {F})
<1>14. Toc!Max(named) = F
  <2>1. \A i \in 1 .. n : T[i].track_number \in {F} <=> i = F
    BY <1>5
  <2>2. named = {F}
    BY <1>3, <1>8, <2>1 DEF Toc!Numbered
  <2> DEFINE k == F
             S == {k}
  <2>3. S \subseteq 0 .. k /\ S # {} /\ k \in Nat
    BY <1>8
  <2> HIDE DEF S
  <2>4. Max(S) \in S
    <3> HIDE DEF k
    <3> QED BY <2>3, MaxIn
  <2>5. Max(S) = k
    BY <2>4 DEF S
  <2>6. Toc!Max(S) = k
    BY Zenon, <2>5, TocSame
  <2> QED BY Zenon, <2>2, <2>6 DEF S
<1> HIDE DEF F, named
<1> DEFINE x == Toc!SessionLeadoutLBA(T, files, layout.size, 1)
<1>15. x = IF 1 # 1 \/ 2 < 2 \/ ended = {} THEN Toc!LeadoutLBA(T, files, layout.size)
           ELSE IF T[F].prev_session_leadout > T[l].data_start
                   /\ T[F].prev_session_leadout < T[F].track_start
           THEN T[F].prev_session_leadout
           ELSE IF T[F].track_start > T[l].data_start + SessionGap
           THEN T[F].track_start - SessionGap
           ELSE T[F].track_start
  BY Zenon, <1>10, <1>11, <1>13, <1>14 DEF Toc!SessionLeadoutLBA, ended, named
<1> HIDE DEF x
<1>16. x = b
  <2>1. ~(T[F].prev_session_leadout > T[l].data_start)
    BY <1>6, <1>7
  <2>2. T[F].track_start > T[l].data_start + SessionGap /\ T[F].track_start - SessionGap = b
    BY <1>6, <1>7
  <2> QED BY <1>13, <1>15, <2>1, <2>2
<1>17. F \in 2 .. n
  BY <1>4 DEF F
<1> QED BY Zenon, <1>10, <1>11, <1>16, <1>17 DEF T, n, F, l, b, x

\* The tables of a rip that is served are those of its disc.
LEMMA TablesMatch ==
    ASSUME LoadInv PROVE TocMatchesDisc
<1> SUFFICES ASSUME step = "Ready" PROVE TocMatchesDisc
  BY DEF TocMatchesDisc
<1> DEFINE T == discTracks
           n == Len(rip.tracks)
           F == LastInFile(rip, 1) + 1
           toc == Toc!ReadTOC(T, files, layout.size, 0)
           full == Toc!ReadFullTOC(T, files, layout.size, 0)
           Own(s) == Toc!SessionTracks(T, s)
           A2(s) == Toc!SessionLeadoutLBA(T, files, layout.size, s)
           Describe(s) == [session |-> s, A0 |-> Head(Own(s)).track_number,
                           A1 |-> Toc!Last(Own(s)).track_number, A2 |-> A2(s),
                           tracks |-> [i \in DOMAIN Own(s) |-> Toc!TOCEntry(Own(s)[i])]]
           listed == {s \in Toc!Max({1, 0}) .. Toc!SessionCount(T) : Own(s) # <<>>}
<1>1. /\ toc # {}
      /\ \A entries \in toc :
            /\ Len(entries) = n + 1
            /\ \A i \in 1 .. n : entries[i].number = i /\ entries[i].start = DataStart(rip, i)
            /\ entries[n + 1].start = Behind(rip)[n].sectors
  BY TableOfRip
<1>2. /\ IsRip(rip) /\ Plain(rip) /\ files = Sizes(rip) /\ TracksOf(rip, T) /\ TracksAt(rip, T)
      /\ Len(files) = Len(rip.files)
  BY ServedFacts
<1>3. full = {{Describe(s) : s \in listed}}
  <2>1. ~(0 > Toc!SessionCount(T))
    <3>1. Toc!SessionCount(T) = 1 \/ Toc!SessionCount(T) = 2
      BY Zenon DEF Toc!SessionCount
    <3> DEFINE c == Toc!SessionCount(T)
    <3>2. c = 1 \/ c = 2
      BY <3>1
    <3> HIDE DEF c
    <3>3. ~(0 > c)
      BY <3>2
    <3> QED BY <3>3 DEF c
  <2> QED BY Zenon, <2>1 DEF Toc!ReadFullTOC
<1>4. full # {}
  BY Zenon, <1>3
<1>5. ASSUME OneFilePerSession, NEW sessions \in full
      PROVE  {s.A2 : s \in sessions}
               = {Behind(rip)[LastInFile(rip, f)].sectors : f \in DOMAIN rip.files}
  <2>1. /\ F \in 2 .. n /\ Toc!LastSessionStartTrack(T) = F /\ Toc!SessionCount(T) = 2
        /\ A2(1) = Behind(rip)[LastInFile(rip, 1)].sectors
    BY <1>5, SessionsOfRip
  <2>2. T \in Seq(Info) /\ Len(T) = n /\ n \in Nat \ {0} /\ DOMAIN T = 1 .. n
    BY <1>2, RipFields DEF TracksOf
  <2>3. Len(rip.files) = 2 /\ DOMAIN rip.files = 1 .. 2
    BY <1>2, <1>5, RipFields DEF OneFilePerSession
  <2>4. \A i \in 1 .. n : T[i].track_number = i
    BY <1>2, TrackOfRip
  <2>5. A2(2) = Behind(rip)[LastInFile(rip, 2)].sectors
    <3>1. A2(2) = Toc!LeadoutLBA(T, files, layout.size)
      <4>1. 2 # 1
        OBVIOUS
      <4> QED BY Zenon, <4>1 DEF Toc!SessionLeadoutLBA
    <3>2. LastInFile(rip, 2) = n
      <4>1. rip.tracks[n].file = 2 /\ n \in 1 .. n /\ 2 \in 1 .. Len(rip.files)
        <5>1. rip.tracks[n].file = Len(rip.files)
          BY <1>2, RipFilesInOrder
        <5>2. n \in 1 .. n
          BY <2>2
        <5> HIDE DEF n, T
        <5>3. 2 \in 1 .. Len(rip.files)
          BY <2>3
        <5> QED BY Zenon, <2>3, <5>1, <5>2, <5>3
      <4> DEFINE l == LastInFile(rip, 2)
      <4>2. l \in 1 .. n /\ n <= l
        BY <1>2, <4>1, LastInFileFacts
      <4> HIDE DEF l, n
      <4>3. l = n
        BY <2>2, <4>2
      <4> QED BY <4>3 DEF l
    <3>3. Toc!LeadoutLBA(T, files, layout.size) = Behind(rip)[n].sectors
      BY LeadoutOfRip
    <3> QED BY Zenon, <3>1, <3>2, <3>3
  <2> HIDE DEF T, n, F
  <2> DEFINE Session(i) == IF Toc!SessionCount(T) < 2
                              \/ T[i].track_number < Toc!LastSessionStartTrack(T)
                           THEN 1 ELSE 2
             places(s) == {i \in DOMAIN T : s = Session(i)}
  <2>6. \A s : Own(s) = Toc!At(T, places(s))
    BY Zenon DEF Toc!SessionTracks
  <2>7. 1 \in places(1) /\ F \in places(2) /\ 1 \in 1 .. Len(T) /\ F \in 1 .. Len(T)
    <3>1. 1 \in 1 .. n /\ F \in 1 .. n /\ T[1].track_number < F /\ ~(T[F].track_number < F)
          /\ ~(2 < 2)
      BY <2>1, <2>2, <2>4
    <3>2. Session(1) = 1 /\ Session(F) = 2
      BY <2>1, <3>1
    <3> HIDE DEF Session
    <3> QED BY <2>2, <3>1, <3>2
  <2> HIDE DEF places
  <2>8. Own(1) # <<>> /\ Own(2) # <<>>
    <3>1. Toc!At(T, places(1)) # <<>>
      <4> DEFINE S == places(1)
      <4>1. 1 \in S
        BY <2>7
      <4> HIDE DEF S
      <4>2. Toc!At(T, S) # <<>>
        BY <2>2, <2>7, <4>1, SomePicked
      <4> QED BY <4>2 DEF S
    <3>2. Toc!At(T, places(2)) # <<>>
      <4> DEFINE S == places(2)
      <4>1. F \in S
        BY <2>7
      <4> HIDE DEF S
      <4>2. Toc!At(T, S) # <<>>
        BY <2>2, <2>7, <4>1, SomePicked
      <4> QED BY <4>2 DEF S
    <3> QED BY Zenon, <2>6, <3>1, <3>2
  <2> HIDE DEF Own, A2
  <2>9. listed = {1, 2}
    <3>1. Toc!Max({1, 0}) = 1
      <4>1. Max({0, 1}) = 1
        <5>1. 1 \in Int /\ 1 >= 0
          OBVIOUS
        <5> QED BY <5>1, MaxZero
      <4>2. Toc!Max({1, 0}) = Max({1, 0})
        BY Zenon, TocSame
      <4>3. {1, 0} = {0, 1}
        OBVIOUS
      <4> QED BY Zenon, <4>1, <4>2, <4>3
    <3>2. Toc!Max({1, 0}) .. Toc!SessionCount(T) = {1, 2}
      <4>1. 1 .. 2 = {1, 2}
        OBVIOUS
      <4> QED BY Zenon, <2>1, <3>1, <4>1
    <3> QED BY Zenon, <2>8, <3>2
  <2>10. sessions = {Describe(1), Describe(2)}
    <3>1. sessions = {Describe(s) : s \in listed}
      BY Zenon, <1>3, <1>5
    <3> HIDE DEF Describe, listed
    <3> QED BY <2>9, <3>1
  <2>11. Describe(1).A2 = A2(1) /\ Describe(2).A2 = A2(2)
    BY Zenon
  <2> HIDE DEF Describe
  <2>12. {s.A2 : s \in sessions} = {A2(1), A2(2)}
    BY Zenon, <2>10, <2>11
  <2> DEFINE E == [f \in 1 .. 2 |-> Behind(rip)[LastInFile(rip, f)].sectors]
  <2>13. {Behind(rip)[LastInFile(rip, f)].sectors : f \in DOMAIN rip.files} = {E[f] : f \in 1 .. 2}
    BY Zenon, <2>3
  <2>14. E[1] = A2(1) /\ E[2] = A2(2)
    BY <2>1, <2>5
  <2> HIDE DEF E
  <2>15. {E[f] : f \in 1 .. 2} = {A2(1), A2(2)}
    BY <2>14
  <2> QED BY Zenon, <2>12, <2>13, <2>15
<1> HIDE DEF toc, full
<1> QED BY Zenon, <1>1, <1>4, <1>5 DEF TocMatchesDisc, T, n, toc, full

-----------------------------------------------------------------------------
(* A cue and bin image, from the start on                                    *)

\* Before a disc is loaded there is no image.
LEMMA CueStarts ==
    ASSUME DiscInit
    PROVE  CueInv /\ (format = "cue" => Device!Init)
<1>1. /\ cue_str \in Seq(Lines) /\ card \in Seq(Nat) /\ step = "Cue" /\ files = <<>>
      /\ m_nLogicalPos = 0 /\ m_CacheWindows = [w \in 1 .. NumCacheWindows |-> EmptyWindow]
      /\ asked = 0 /\ got = <<>> /\ outcome = "none"
  BY RipsAreTyped DEF DiscInit, InitOn
<1>2. EmptyWindow \in Window /\ EmptyWindow.nLen = 0
  BY DEF EmptyWindow, Window
<1>3. m_CacheWindows \in [1 .. NumCacheWindows -> Window]
      /\ \A w \in 1 .. NumCacheWindows : m_CacheWindows[w].nLen = 0
  BY <1>1, <1>2
<1>4. CueInv
  BY <1>1, <1>3 DEF CueInv
<1>5. format = "cue" => Device!Init
  BY <1>1, NotAstray DEF Device!Init, deviceImage, devicePos
<1> QED BY <1>4, <1>5

-----------------------------------------------------------------------------
(* The three devices, from the start on                                      *)

\* Before a disc is loaded there is no image.
LEMMA ImageStarts ==
    ASSUME Mds!TablesAssumption, Chd!DiscsAssumption, ImageInit
    PROVE  /\ format = "mds" => MdsInv /\ Device!Init
           /\ format = "chd" => ChdInv /\ Device!Init
<1>1. /\ table \in Tables /\ m_pFile = "none" /\ m_nCurrentLBA = 0 /\ filePos = 0
      /\ chd \in Discs /\ m_chd = "none" /\ m_currentOffset = 0 /\ m_lastTrackIndex = 1
      /\ m_hunkBuffer = m_cachedHunkNum /\ asked = 0 /\ got = <<>> /\ outcome = "none"
  BY DEF ImageInit, Mds!Init, Chd!Init
<1>2. MdsInv
  <2>1. 0 \in Nat /\ m_pFile \in {"none", "open", "closed"}
        /\ outcome # "sought" /\ outcome # "reading"
    BY <1>1
  <2> QED BY <1>1, <2>1, Zenon DEF MdsInv
<1>3. ChdInv
  BY <1>1, DiscFacts DEF ChdInv
<1>4. format = "mds" => Device!Init
  <2>1. FrameSize \in Nat => 0 * FrameSize = 0
    OBVIOUS
  <2> QED BY <1>1, <2>1, TableFacts, NotAstray DEF Device!Init, deviceImage, devicePos
<1>5. format = "chd" => Device!Init
  <2> SUFFICES ASSUME format = "chd" PROVE Device!Init
    OBVIOUS
  <2>1. deviceImage = <<>> /\ devicePos = 0
    BY <1>1 DEF deviceImage, devicePos
  <2>2. deviceTracked = 0 /\ deviceAstray = FALSE
    BY <1>1, <2>1 DEF deviceTracked, deviceAstray, Chd!Astray
  <2> QED BY <1>1, <2>1, <2>2 DEF Device!Init
<1> QED BY <1>2, <1>3, <1>4, <1>5

\* While the format is that of an Alcohol image or of a compressed disc, the
\* device of the format steps as the contract says.
LEMMA ImageSteps ==
    ASSUME Mds!TablesAssumption, Chd!DiscsAssumption, [ImageNext]_imageVars
    PROVE  /\ format' = format
           /\ format = "mds" /\ MdsInv => MdsInv' /\ [Device!Next]_(Device!vars)
           /\ format = "chd" /\ ChdInv => ChdInv' /\ [Device!Next]_(Device!vars)
<1>1. format' = format
  BY DEF ImageNext, CueNext, MdsNext, ChdNext, imageVars
<1>2. format = "mds" => Mds!Next \/ UNCHANGED Mds!vars
  BY DEF ImageNext, CueNext, MdsNext, ChdNext, imageVars, vars, reading, mdsOwn, Mds!vars,
         Mds!reading
<1>3. format = "chd" => Chd!Next \/ UNCHANGED Chd!vars
  BY DEF ImageNext, CueNext, MdsNext, ChdNext, imageVars, vars, reading, chdOwn, Chd!vars, Chd!reading,
         Chd!hunk
<1> QED BY <1>1, <1>2, <1>3, MdsStep, ChdStep

\* Each of the three devices keeps the contract of their callers.
LEMMA ImagesRefine ==
    ASSUME Mds!TablesAssumption, Chd!DiscsAssumption
    PROVE  ImageInit /\ [][ImageNext]_imageVars => ImplementsDevice
<1> DEFINE Inv == \/ format = "mds" /\ MdsInv
                  \/ format = "chd" /\ ChdInv
                  \/ format = "cue" /\ CueInv
<1>1. ImageInit => Inv /\ Device!Init
  BY ImageStarts, CueStarts DEF ImageInit
<1>2. ASSUME Inv, [ImageNext]_imageVars PROVE Inv' /\ [Device!Next]_(Device!vars)
  <2>1. format' = format
    BY <1>2 DEF ImageNext, CueNext, MdsNext, ChdNext, imageVars
  <2>2. CASE format = "cue"
    <3>1. DiscNext \/ UNCHANGED vars
      BY <1>2, <2>2 DEF ImageNext, CueNext, MdsNext, ChdNext, imageVars
    <3>2. CueInv
      BY <1>2, <2>2
    <3> QED BY <2>1, <2>2, <3>1, <3>2, CueStep
  <2>3. CASE format # "cue"
    BY <1>2, <2>1, <2>3, ImageSteps
  <2> QED BY <2>2, <2>3
<1> HIDE DEF Inv
<1> QED BY <1>1, <1>2, PTL DEF ImplementsDevice, Device!Spec

\* Of a rip that is served, whatever is done with the device, the sectors are found and
\* the tables are those of the disc.
LEMMA ImageLoads ==
    ImageInit /\ [][ImageNext]_imageVars => [](SectorsAreFound /\ TocMatchesDisc)
<1>1. ImageInit => LoadInv
  BY LoadStarts DEF ImageInit
<1>2. LoadInv /\ [ImageNext]_imageVars => LoadInv'
  <2> SUFFICES ASSUME LoadInv, [ImageNext]_imageVars PROVE LoadInv'
    OBVIOUS
  <2>1. DiscNext \/ UNCHANGED <<loading, rip>>
    BY DEF ImageNext, CueNext, MdsNext, ChdNext, imageVars, vars, cueOwn
  <2> QED BY <2>1, LoadSteps
<1>3. LoadInv => SectorsAreFound /\ TocMatchesDisc
  BY SectorsFound, TablesMatch
<1> QED BY <1>1, <1>2, <1>3, PTL
=============================================================================
