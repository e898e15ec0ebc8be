---------------------------- MODULE ImageProofs ----------------------------
(***************************************************************************)
(* That the devices of an Alcohol image, of a compressed disc and of a cue   *)
(* and bin image keep the contract of ImageDevice, for any tables, discs,    *)
(* sheets and data files.                                                    *)
(***************************************************************************)
EXTENDS DiscImages, FiniteSetTheorems, SequenceTheorems, TLAPS

-----------------------------------------------------------------------------
(* Arithmetic, and least numbers in place of induction                       *)

\* A product of counts is a count.
LEMMA TimesNat == ASSUME NEW a \in Nat, NEW b \in Nat PROVE a * b \in Nat
  OBVIOUS

\* The larger factor has the larger product.
LEMMA TimesLess ==
    ASSUME NEW a \in Nat, NEW b \in Nat, NEW s \in Nat, a <= b PROVE a * s <= b * s
<1>1. b * s = a * s + (b - a) * s
  OBVIOUS
<1>2. (b - a) * s \in Nat
  BY TimesNat
<1> QED BY <1>1, <1>2, TimesNat

\* The larger product has the larger factor.
LEMMA LessTimes ==
    ASSUME NEW a \in Nat, NEW b \in Nat, NEW s \in Nat \ {0}, a * s < b * s PROVE a < b
<1>1. a >= b => b * s <= a * s
  BY TimesLess
<1> QED BY <1>1, TimesNat

\* One more factor, one more term.
LEMMA TimesPlus ==
    ASSUME NEW a \in Int, NEW b \in Int, NEW s \in Int
    PROVE  (a + b) * s = a * s + b * s /\ (a - b) * s = a * s - b * s /\ 1 * s = s
  OBVIOUS

\* Frames that are whole and a rest.
LEMMA DivMod ==
    ASSUME NEW n \in Nat, NEW s \in Nat \ {0}
    PROVE  /\ n \div s \in Nat /\ n % s \in 0 .. s - 1
           /\ n = (n \div s) * s + (n % s)
  OBVIOUS

\* There is only one such division.
LEMMA DivModUnique ==
    ASSUME NEW q \in Nat, NEW s \in Nat \ {0}, NEW r \in 0 .. s - 1
    PROVE  (q * s + r) \div s = q /\ (q * s + r) % s = r
<1> DEFINE n == q * s + r
           d == n \div s
<1>1. n \in Nat /\ q * s \in Nat /\ r \in Nat
  BY TimesNat
<1>2. d \in Nat /\ n % s \in 0 .. s - 1 /\ n = d * s + (n % s)
  BY <1>1, DivMod
<1> HIDE DEF d, n
<1>3. n = q * s + r /\ (q + 1) * s = q * s + s /\ (d + 1) * s = d * s + s /\ d * s \in Nat
  BY <1>2, TimesPlus, TimesNat DEF n
<1>4. d < q + 1
  BY <1>1, <1>2, <1>3, LessTimes
<1>5. q < d + 1
  BY <1>1, <1>2, <1>3, LessTimes
<1>6. d = q
  BY <1>2, <1>4, <1>5
<1> QED BY <1>1, <1>2, <1>3, <1>6 DEF d, n

\* The place of a byte, counted from 1, in its frame.
LEMMA FramePlace ==
    ASSUME NEW i \in Nat \ {0}, NEW s \in Nat \ {0}
    PROVE  \E j \in Nat, k \in 1 .. s : i = j * s + k
<1>1. i - 1 \in Nat
  OBVIOUS
<1>2. PICK j \in Nat, r \in 0 .. s - 1 : i - 1 = j * s + r
  <2> DEFINE n == i - 1
  <2> HIDE DEF n
  <2>1. n \in Nat
    BY <1>1 DEF n
  <2>2. n \div s \in Nat /\ n % s \in 0 .. s - 1 /\ n = (n \div s) * s + (n % s)
    BY <2>1, DivMod
  <2>3. \E j \in Nat, r \in 0 .. s - 1 : n = j * s + r
    BY <2>2
  <2> QED BY <2>3 DEF n
<1>3. i = j * s + (r + 1) /\ r + 1 \in 1 .. s
  BY <1>2, TimesNat
<1> QED BY <1>3

\* An even number keeps parity.
LEMMA EvenPlus ==
    ASSUME NEW a \in Nat, NEW b \in Nat, a % 2 = 0
    PROVE  (a + b) % 2 = b % 2 /\ b % 2 \in {0, 1}
  OBVIOUS

LEMMA EvenMinus ==
    ASSUME NEW a \in Nat, NEW b \in Nat, b <= a, a % 2 = 0, b % 2 = 0
    PROVE  a - b \in Nat /\ (a - b) % 2 = 0
  OBVIOUS

\* A count of even things is even.
LEMMA EvenTimes ==
    ASSUME NEW n \in Nat, NEW s \in Nat, s % 2 = 0
    PROVE  (n * s) % 2 = 0
<1>1. PICK h \in Nat : s = 2 * h
  <2>1. s \div 2 \in Nat /\ s = 2 * (s \div 2)
    OBVIOUS
  <2> QED BY <2>1
<1>2. n * s = 2 * (n * h) /\ n * h \in Nat
  BY <1>1, TimesNat
<1> DEFINE q == n * h
<1> HIDE DEF q
<1>3. q \in Nat => (2 * q) % 2 = 0
  OBVIOUS
<1> QED BY <1>2, <1>3 DEF q

\* What fails of a number fails of a least one.
LEMMA LeastNumber ==
    ASSUME NEW S, S \subseteq Nat, S # {}
    PROVE  \E s \in S : \A t \in S : s <= t
<1>1. PICK s \in S : \A t \in S : <<t, s>> \notin OpToRel(<, Nat)
  BY NatLessThanWellFounded, WFMin, Zenon
<1>2. \A t \in S : ~(t < s)
  BY <1>1 DEF OpToRel
<1>3. \A t \in S : s <= t
  BY <1>2
<1> QED BY <1>3

\* Among numbers in a row one is the greatest.
LEMMA GreatestOf ==
    ASSUME NEW n \in Nat \ {0}, NEW f \in [1 .. n -> Nat]
    PROVE  \E m \in 1 .. n : \A i \in 1 .. n : f[i] <= f[m]
<1> DEFINE Has(k) == \E m \in 1 .. k : \A i \in 1 .. k : f[i] <= f[m]
           bad == {k \in 1 .. n : ~Has(k)}
<1>1. SUFFICES ASSUME bad # {} PROVE FALSE
  <2>1. n \in 1 .. n
    OBVIOUS
  <2> QED BY <2>1
<1>2. PICK k \in bad : \A l \in bad : k <= l
  <2>1. bad \subseteq Nat
    OBVIOUS
  <2> HIDE DEF bad
  <2> QED BY <1>1, <2>1, LeastNumber
<1>3. k \in 1 .. n /\ ~Has(k)
  BY <1>2
<1>4. k # 1
  BY <1>3
<1>5. k - 1 \in 1 .. n /\ k - 1 \notin bad
  <2>1. k - 1 \in 1 .. n /\ ~(k <= k - 1)
    BY <1>3, <1>4
  <2> HIDE DEF bad
  <2> QED BY <1>2, <2>1
<1>6. PICK m \in 1 .. k - 1 : \A i \in 1 .. k - 1 : f[i] <= f[m]
  BY <1>5
<1>7. CASE f[k] <= f[m]
  <2>1. m \in 1 .. k /\ \A i \in 1 .. k : f[i] <= f[m]
    BY <1>3, <1>6, <1>7
  <2> QED BY <1>3, <2>1
<1>8. CASE ~(f[k] <= f[m])
  <2>1. k \in 1 .. k /\ \A i \in 1 .. k : f[i] <= f[k]
    BY <1>3, <1>6, <1>8
  <2> QED BY <1>3, <2>1
<1> QED BY <1>7, <1>8

-----------------------------------------------------------------------------
(* What a device delivers                                                    *)

\* Bytes that are those of the image from a position on.
LEMMA DeliveredBytes ==
    ASSUME NEW B, NEW img \in Seq(B), NEW bytes \in Seq(B), NEW from \in Nat,
           from + Len(bytes) <= Len(img),
           \A i \in 1 .. Len(bytes) : bytes[i] = img[from + i]
    PROVE  bytes = SubSeq(img, from + 1, from + Len(bytes))
<1> DEFINE part == SubSeq(img, from + 1, from + Len(bytes))
<1>1. Len(bytes) \in Nat /\ Len(img) \in Nat
  OBVIOUS
<1>2. from + 1 \in 1 .. Len(img) + 1 /\ from + Len(bytes) \in from .. Len(img)
  BY <1>1
<1>3. part \in Seq(B) /\ Len(part) = Len(bytes)
      /\ \A i \in 1 .. Len(bytes) : part[i] = img[from + i]
  BY <1>1, <1>2, SubSeqProperties
<1> QED BY <1>1, <1>3, SeqEqual

\* A device whose tracks are all of its image is never astray.
LEMMA NotAstray ==
    /\ format # "chd" => deviceTracked = Len(deviceImage) /\ deviceAstray = FALSE
    /\ format' # "chd" => deviceTracked' = Len(deviceImage') /\ deviceAstray' = FALSE
  BY DEF deviceTracked, deviceAstray

\* Nor does a step of one that leaves the image alone.
LEMMA SameCueDevice ==
    ASSUME format = "cue", format' = format, UNCHANGED deviceImage
    PROVE  UNCHANGED <<deviceTracked, deviceAstray>>
<1>1. format # "chd" /\ format' # "chd"
  OBVIOUS
<1> QED BY <1>1, NotAstray

\* What bytes more, as a sequence joined to another, are one by one.
LEMMA JoinedBytes ==
    ASSUME NEW B, NEW old \in Seq(B), NEW bytes \in Seq(B)
    PROVE  /\ old \o bytes \in Seq(B) /\ Len(old \o bytes) - Len(old) = Len(bytes)
           /\ \A i \in DOMAIN old : (old \o bytes)[i] = old[i]
           /\ \A i \in 1 .. Len(bytes) : (old \o bytes)[Len(old) + i] = bytes[i]
<1>1. Len(old) \in Nat /\ Len(bytes) \in Nat /\ DOMAIN old = 1 .. Len(old)
  OBVIOUS
<1>2. /\ old \o bytes \in Seq(B) /\ Len(old \o bytes) = Len(old) + Len(bytes)
      /\ \A i \in 1 .. Len(old) + Len(bytes) :
            (old \o bytes)[i] = IF i <= Len(old) THEN old[i] ELSE bytes[i - Len(old)]
  BY ConcatProperties
<1>3. ASSUME NEW i \in 1 .. Len(bytes) PROVE (old \o bytes)[Len(old) + i] = bytes[i]
  <2>1. /\ Len(old) + i \in 1 .. Len(old) + Len(bytes) /\ ~(Len(old) + i <= Len(old))
        /\ (Len(old) + i) - Len(old) = i
    BY <1>1
  <2> QED BY <1>2, <2>1
<1> QED BY <1>1, <1>2, <1>3

\* The bytes of a part of an image.
LEMMA PartOfImage ==
    ASSUME NEW B, NEW img \in Seq(B), NEW from \in Nat, NEW to \in from + 1 .. Len(img),
           NEW part, part = SubSeq(img, from + 1, to)
    PROVE  /\ part \in Seq(B) /\ Len(part) = to - from
           /\ \A i \in 1 .. Len(part) : part[i] = img[from + i]
<1>1. Len(img) \in Nat /\ from + 1 \in Int /\ to \in Int /\ from + 1 <= to
      /\ \A i \in from + 1 .. to : img[i] \in B
  OBVIOUS
<1>2. /\ part \in Seq(B) /\ Len(part) = to - (from + 1) + 1
      /\ \A i \in 1 .. to - (from + 1) + 1 : part[i] = img[(from + 1) + i - 1]
  BY <1>1, SubSeqProperties
<1>3. to - (from + 1) + 1 = to - from /\ \A i \in Int : (from + 1) + i - 1 = from + i
  BY <1>1
<1> QED BY <1>2, <1>3

\* Bytes of the image, and a place behind them.
LEMMA DeliverInside ==
    ASSUME NEW B, deviceImage \in Seq(B), got \in Seq(B), asked \in Nat,
           outcome = "reading", devicePos \in Nat,
           devicePos' \in devicePos + 1 .. Len(deviceImage),
           got' = got \o SubSeq(deviceImage, devicePos + 1, devicePos'), Len(got') <= asked,
           format # "chd", UNCHANGED <<format, deviceImage, asked, outcome>>
    PROVE  Device!Deliver
<1> DEFINE img  == deviceImage
           from == devicePos
           to   == devicePos'
           part == SubSeq(img, from + 1, to)
           new  == got'
<1>1. /\ img \in Seq(B) /\ from \in Nat /\ to \in from + 1 .. Len(img) /\ new = got \o part
      /\ Len(new) <= asked
  OBVIOUS
<1>2. outcome = "reading" /\ UNCHANGED <<deviceImage, asked, outcome>>
      /\ UNCHANGED deviceTracked /\ deviceAstray' = FALSE
  BY NotAstray
<1> HIDE DEF img, from, to, new
<1>3. part = SubSeq(img, from + 1, to)
  OBVIOUS
<1> HIDE DEF part
<1>4. /\ part \in Seq(B) /\ Len(part) = to - from
      /\ \A i \in 1 .. Len(part) : part[i] = img[from + i]
  BY SMTT(20), <1>1, <1>3, PartOfImage
<1>5. /\ new \in Seq(B) /\ Len(new) - Len(got) = Len(part)
      /\ \A i \in DOMAIN got : new[i] = got[i]
      /\ \A i \in 1 .. Len(part) : new[Len(got) + i] = part[i]
  <2>1. got \in Seq(B) /\ part \in Seq(B)
    BY <1>4
  <2>2. /\ got \o part \in Seq(B) /\ Len(got \o part) - Len(got) = Len(part)
        /\ \A i \in DOMAIN got : (got \o part)[i] = got[i]
        /\ \A i \in 1 .. Len(part) : (got \o part)[Len(got) + i] = part[i]
    BY ONLY <2>1, JoinedBytes
  <2> QED BY <1>1, <2>2, Zenon
<1>6. Len(part) \in 1 .. asked - Len(got) /\ to = from + Len(part)
  <2>1. Len(got) \in Nat /\ Len(new) \in Nat /\ Len(part) \in Nat /\ asked \in Nat
    BY <1>4, <1>5
  <2>2. to \in Int /\ to >= from + 1 /\ from \in Nat /\ Len(new) <= asked
    BY <1>1
  <2>3. Len(part) = to - from /\ Len(new) - Len(got) = Len(part)
    BY <1>4, <1>5
  <2> HIDE DEF part
  <2> QED BY <2>1, <2>2, <2>3
<1>7. \A i \in 1 .. Len(part) : new[Len(got) + i] = img[from + i]
  BY <1>4, <1>5
<1> QED BY <1>2, <1>5, <1>6, <1>7 DEF Device!Deliver, img, from, to, new

-----------------------------------------------------------------------------
(* An Alcohol image: where its frames are                                    *)

\* A frame the file stores, where, and how far it is to the next.
Stored(lba) == Mds!FindTrackForLBA(lba) # {}
At(lba)     == IF Mds!m_bFlatOffsets THEN lba * FrameSize
               ELSE Mds!OffsetIn(Mds!FirstOf(Mds!FindTrackForLBA(lba)), lba)
Stride(lba) == Mds!FirstOf(Mds!FindTrackForLBA(lba)).size

LEMMA TableFacts ==
    ASSUME Mds!TablesAssumption, table \in Tables
    PROVE  /\ FrameSize \in Nat \ {0} /\ SubchannelSize \in Nat \ {0}
           /\ table.size \in Nat
           /\ Mds!tracks \in Seq([start : Nat, length : Nat, offset : Nat, subchannel : BOOLEAN,
                                  size : {FrameSize, FrameSize + SubchannelSize}])
           /\ DOMAIN Mds!tracks = 1 .. Len(Mds!tracks) /\ Len(Mds!tracks) \in Nat
           /\ Mds!SoundTable(table)
<1>1. Mds!SoundTable(table) /\ FrameSize \in Nat \ {0} /\ SubchannelSize \in Nat \ {0}
  BY DEF Mds!TablesAssumption
<1>2. Mds!tracks \in Seq([start : Nat, length : Nat, offset : Nat, subchannel : BOOLEAN,
                          size : {FrameSize, FrameSize + SubchannelSize}])
      /\ table.size \in Nat
  BY <1>1 DEF Mds!SoundTable, Mds!tracks
<1> QED BY <1>1, <1>2, LenProperties

LEMMA TrackFacts ==
    ASSUME Mds!TablesAssumption, table \in Tables, NEW i \in DOMAIN Mds!tracks
    PROVE  LET t == Mds!tracks[i]
           IN  /\ t.start \in Nat /\ t.length \in Nat /\ t.offset \in Nat /\ t.size \in Nat
               /\ t.size \in {FrameSize, FrameSize + SubchannelSize}
               /\ Mds!End(t) = t.start + t.length
               /\ t.subchannel <=> t.size # FrameSize
<1> DEFINE t == Mds!tracks[i]
<1>1. t \in [start : Nat, length : Nat, offset : Nat, subchannel : BOOLEAN,
             size : {FrameSize, FrameSize + SubchannelSize}]
  BY TableFacts, ElementOfSeq
<1>2. t.subchannel <=> t.size # FrameSize
  BY TableFacts DEF Mds!SoundTable, Mds!tracks
<1> QED BY <1>1, <1>2, TableFacts DEF Mds!End

\* The first track found is one of those found.
LEMMA FoundTrack ==
    ASSUME Mds!TablesAssumption, table \in Tables, NEW lba \in Nat, Stored(lba)
    PROVE  \E i \in DOMAIN Mds!tracks :
             /\ i = Mds!Min(Mds!FindTrackForLBA(lba))
             /\ Mds!FirstOf(Mds!FindTrackForLBA(lba)) = Mds!tracks[i]
             /\ i \in Mds!FindTrackForLBA(lba)
             /\ Mds!tracks[i].start <= lba /\ lba < Mds!End(Mds!tracks[i])
             /\ Stride(lba) = Mds!tracks[i].size
             /\ ~Mds!m_bFlatOffsets =>
                  At(lba) = Mds!tracks[i].offset + (lba - Mds!tracks[i].start) * Mds!tracks[i].size
<1> DEFINE S == Mds!FindTrackForLBA(lba)
           i == Mds!Min(S)
<1>1. S \subseteq DOMAIN Mds!tracks /\ S \subseteq Nat /\ S # {}
  <2>1. S \subseteq DOMAIN Mds!tracks /\ S # {}
    BY Zenon DEF Mds!FindTrackForLBA, Stored
  <2>2. DOMAIN Mds!tracks \subseteq Nat
    BY TableFacts
  <2> QED BY Zenon, <2>1, <2>2
<1>2. i \in S
  BY <1>1, LeastNumber DEF Mds!Min
<1>3. lba \in Mds!tracks[i].start .. Mds!tracks[i].start + Mds!tracks[i].length - 1
  BY <1>2 DEF Mds!FindTrackForLBA
<1>4. Mds!tracks[i].start <= lba /\ lba < Mds!End(Mds!tracks[i])
  BY <1>1, <1>2, <1>3, TrackFacts
<1> QED BY <1>1, <1>2, <1>4 DEF Mds!FirstOf, Stride, At, Mds!OffsetIn

LEMMA AtNat ==
    ASSUME Mds!TablesAssumption, table \in Tables, NEW lba \in Nat,
           Mds!m_bFlatOffsets \/ Stored(lba)
    PROVE  At(lba) \in Nat
<1>1. CASE Mds!m_bFlatOffsets
  BY <1>1, TableFacts, TimesNat DEF At
<1>2. CASE ~Mds!m_bFlatOffsets
  <2>1. PICK i \in DOMAIN Mds!tracks :
          /\ Mds!tracks[i].start <= lba
          /\ At(lba) = Mds!tracks[i].offset + (lba - Mds!tracks[i].start) * Mds!tracks[i].size
    BY <1>2, FoundTrack
  <2>2. lba - Mds!tracks[i].start \in Nat
    BY <2>1, TrackFacts
  <2> QED BY <2>1, <2>2, TrackFacts, TimesNat
<1> QED BY <1>1, <1>2

\* Frames that adjoin on the disc adjoin in the file.
LEMMA NextFrame ==
    ASSUME Mds!TablesAssumption, table \in Tables, ~Mds!m_bFlatOffsets,
           NEW lba \in Nat, NEW next \in Nat, next = lba + 1, Stored(lba), Stored(next)
    PROVE  At(next) = At(lba) + Stride(lba) /\ Stride(next) = Stride(lba)
<1>1. PICK i \in DOMAIN Mds!tracks :
        /\ Mds!tracks[i].start <= lba /\ lba < Mds!End(Mds!tracks[i])
        /\ Stride(lba) = Mds!tracks[i].size
        /\ At(lba) = Mds!tracks[i].offset + (lba - Mds!tracks[i].start) * Mds!tracks[i].size
  BY FoundTrack
<1>2. PICK j \in DOMAIN Mds!tracks :
        /\ Mds!tracks[j].start <= next /\ next < Mds!End(Mds!tracks[j])
        /\ Stride(next) = Mds!tracks[j].size
        /\ At(next) = Mds!tracks[j].offset + (next - Mds!tracks[j].start) * Mds!tracks[j].size
  BY FoundTrack
<1>3. CASE i = j
  <2>1. lba - Mds!tracks[i].start \in Int /\ Mds!tracks[i].size \in Int
    BY TrackFacts
  <2>2. (next - Mds!tracks[i].start) * Mds!tracks[i].size
          = (lba - Mds!tracks[i].start) * Mds!tracks[i].size + Mds!tracks[i].size
    <3>1. next - Mds!tracks[i].start = (lba - Mds!tracks[i].start) + 1
      BY TrackFacts
    <3> QED BY <2>1, <3>1, TimesPlus
  <2>3. (lba - Mds!tracks[i].start) * Mds!tracks[i].size \in Int /\ Mds!tracks[i].offset \in Int
    BY <2>1, TrackFacts
  <2> QED BY <1>1, <1>2, <1>3, <2>1, <2>2, <2>3
<1>4. CASE i # j
  <2>1. Mds!End(Mds!tracks[i]) <= Mds!tracks[j].start \/ Mds!End(Mds!tracks[j]) <= Mds!tracks[i].start
    BY <1>4, TableFacts DEF Mds!SoundTable, Mds!tracks
  <2>2. /\ Mds!tracks[j].start = next /\ Mds!End(Mds!tracks[i]) = next
        /\ Mds!tracks[i].length > 0 /\ Mds!tracks[j].length > 0
    <3>1. /\ Mds!tracks[i].start \in Nat /\ Mds!tracks[i].length \in Nat
          /\ Mds!End(Mds!tracks[i]) = Mds!tracks[i].start + Mds!tracks[i].length
      BY TrackFacts
    <3>2. /\ Mds!tracks[j].start \in Nat /\ Mds!tracks[j].length \in Nat
          /\ Mds!End(Mds!tracks[j]) = Mds!tracks[j].start + Mds!tracks[j].length
      BY TrackFacts
    <3> QED BY <1>1, <1>2, <2>1, <3>1, <3>2
  <2>3. /\ Mds!tracks[j].size = Mds!tracks[i].size
        /\ Mds!tracks[j].offset = Mds!tracks[i].offset + Mds!tracks[i].length * Mds!tracks[i].size
    BY <2>2, TableFacts DEF Mds!SoundTable, Mds!tracks
  <2>4. Mds!tracks[i].length = (lba - Mds!tracks[i].start) + 1
        /\ lba - Mds!tracks[i].start \in Int /\ Mds!tracks[i].size \in Int
        /\ Mds!tracks[i].offset \in Int
    BY <2>2, TrackFacts
  <2>5. Mds!tracks[i].length * Mds!tracks[i].size
          = (lba - Mds!tracks[i].start) * Mds!tracks[i].size + Mds!tracks[i].size
    BY <2>4, TimesPlus
  <2>6. next - Mds!tracks[j].start = 0 /\ 0 * Mds!tracks[j].size = 0
        /\ Mds!tracks[j].offset \in Int
    BY <2>2, TrackFacts
  <2>7. (lba - Mds!tracks[i].start) * Mds!tracks[i].size \in Int
    BY <2>4
  <2> QED BY <1>1, <1>2, <2>3, <2>4, <2>5, <2>6, <2>7
<1> QED BY <1>3, <1>4

\* So a run of stored frames is a run in the file.
LEMMA StoredRun ==
    ASSUME Mds!TablesAssumption, table \in Tables, ~Mds!m_bFlatOffsets,
           NEW lba \in Nat, NEW n \in Nat, \A j \in 0 .. n - 1 : Stored(lba + j)
    PROVE  \A j \in 0 .. n - 1 :
             At(lba + j) = At(lba) + j * Stride(lba) /\ Stride(lba + j) = Stride(lba)
<1> DEFINE Runs(j) == At(lba + j) = At(lba) + j * Stride(lba) /\ Stride(lba + j) = Stride(lba)
           bad == {j \in 0 .. n - 1 : ~Runs(j)}
<1>1. SUFFICES ASSUME bad # {} PROVE FALSE
  OBVIOUS
<1>2. PICK j \in bad : \A k \in bad : j <= k
  <2>1. bad \subseteq Nat
    OBVIOUS
  <2> HIDE DEF bad
  <2> QED BY <1>1, <2>1, LeastNumber
<1>3. j \in 0 .. n - 1 /\ Stored(lba) /\ n > 0
  <2>1. lba + 0 = lba /\ 0 \in 0 .. n - 1
    OBVIOUS
  <2> QED BY <2>1
<1>4. At(lba) \in Nat /\ Stride(lba) \in Nat
  BY <1>3, AtNat, FoundTrack, TrackFacts
<1>5. j # 0
  BY <1>4
<1>6. j - 1 \in 0 .. n - 1 /\ Runs(j - 1) /\ lba + (j - 1) \in Nat
      /\ lba + j = (lba + (j - 1)) + 1 /\ lba + j \in Nat
  BY <1>2, <1>3, <1>5
<1>7. /\ At(lba + j) = At(lba + (j - 1)) + Stride(lba + (j - 1))
      /\ Stride(lba + j) = Stride(lba + (j - 1))
  BY <1>3, <1>6, NextFrame
<1>8. (j - 1) * Stride(lba) = j * Stride(lba) - Stride(lba) /\ j * Stride(lba) \in Nat
  BY <1>3, <1>4, TimesPlus, TimesNat
<1> QED BY <1>4, <1>6, <1>7, <1>8

-----------------------------------------------------------------------------
(* An Alcohol image: the disc its callers see                                *)

LEMMA TotalFrames ==
    ASSUME Mds!TablesAssumption, table \in Tables
    PROVE  Mds!m_nTotalFrames \in Nat
<1>1. CASE Mds!m_bFlatOffsets
  <2>1. table.size \div FrameSize \in Nat
    BY TableFacts, DivMod
  <2> QED BY <1>1, <2>1 DEF Mds!m_nTotalFrames
<1>2. CASE ~Mds!m_bFlatOffsets
  <2> DEFINE n == Len(Mds!tracks)
             f == [i \in 1 .. n |-> Mds!End(Mds!tracks[i])]
             S == {Mds!End(Mds!tracks[i]) : i \in DOMAIN Mds!tracks}
  <2>1. n \in Nat \ {0} /\ DOMAIN Mds!tracks = 1 .. n
    BY <1>2, TableFacts DEF Mds!m_bFlatOffsets
  <2>2. \A i \in 1 .. n : Mds!End(Mds!tracks[i]) \in Nat
    BY <2>1, TrackFacts
  <2> HIDE DEF n
  <2>3. PICK m \in 1 .. n : \A i \in 1 .. n : f[i] <= f[m]
    <3>1. f \in [1 .. n -> Nat]
      BY <2>2
    <3> HIDE DEF f
    <3> QED BY <2>1, <3>1, GreatestOf
  <2>4. Mds!End(Mds!tracks[m]) \in S
        /\ \A e \in S : Mds!End(Mds!tracks[m]) >= e
    BY <2>1, <2>2, <2>3
  <2>5. S \subseteq Nat
    BY <2>1, <2>2
  <2>6. Mds!Max(S) \in S
    <3> HIDE DEF S
    <3> QED BY <2>4 DEF Mds!Max
  <2>7. Mds!m_nTotalFrames = Mds!Max(S)
    BY <1>2 DEF Mds!m_nTotalFrames
  <2> HIDE DEF S
  <2> QED BY <2>5, <2>6, <2>7
<1> QED BY <1>1, <1>2

\* Where the table is one of lengths, and no frame is missing from a count, none
\* is missing.
LEMMA AllStored ==
    ASSUME Mds!TablesAssumption, table \in Tables, ~Mds!m_bFlatOffsets, ~Mds!m_bHasUnstoredGaps,
           NEW lba \in 0 .. Mds!m_nTotalFrames - 1
    PROVE  Stored(lba)
<1> DEFINE all == 0 .. Mds!m_nTotalFrames - 1
           stored == {l \in all : Mds!FindTrackForLBA(l) # {}}
<1>1. Mds!m_nTotalFrames \in Nat
  BY TotalFrames
<1>2. IsFiniteSet(all) /\ Cardinality(all) = Mds!m_nTotalFrames
  <2>1. Cardinality(all) = IF 0 > Mds!m_nTotalFrames - 1 THEN 0
                           ELSE (Mds!m_nTotalFrames - 1) - 0 + 1
    BY <1>1, FS_Interval
  <2>2. IsFiniteSet(all)
    BY <1>1, FS_Interval
  <2> QED BY <1>1, <2>1, <2>2
<1>3. Cardinality(stored) = Mds!m_nTotalFrames
  <2>1. Mds!Cardinality(stored) = Mds!m_nTotalFrames
    BY DEF Mds!m_bHasUnstoredGaps, Mds!CountStoredFrames
  <2>2. Mds!Cardinality(stored) = Cardinality(stored)
    <3> HIDE DEF stored
    <3> QED BY Zenon DEF Mds!Cardinality, Cardinality
  <2> QED BY <2>1, <2>2
<1>4. stored \subseteq all
  OBVIOUS
<1>5. lba \in all
  OBVIOUS
<1> HIDE DEF all
<1>6. stored = all
  <2> HIDE DEF stored
  <2> QED BY <1>2, <1>3, <1>4, FS_Subset
<1> QED BY <1>5, <1>6 DEF Stored

\* A byte of the disc.
DiscByte(lba, k) ==
    IF Mds!m_bFlatOffsets \/ Stored(lba) THEN <<At(lba) + k - 1>> ELSE <<>>

LEMMA MdsImage ==
    ASSUME Mds!TablesAssumption, table \in Tables
    PROVE  /\ Mds!Image \in Seq(Seq(Int))
           /\ Len(Mds!Image) = Mds!m_nTotalFrames * FrameSize
           /\ \A lba \in 0 .. Mds!m_nTotalFrames - 1, k \in 1 .. FrameSize :
                Mds!Image[lba * FrameSize + k] = DiscByte(lba, k)
<1> DEFINE total == Mds!m_nTotalFrames
           N == total * FrameSize
           B(i) == DiscByte((i - 1) \div FrameSize, ((i - 1) % FrameSize) + 1)
<1>1. total \in Nat /\ FrameSize \in Nat \ {0} /\ N \in Nat
  BY TotalFrames, TableFacts, TimesNat
<1>2. \A i \in 1 .. N : /\ (i - 1) \div FrameSize \in Nat
                        /\ ((i - 1) % FrameSize) + 1 \in 1 .. FrameSize
  <2> TAKE i \in 1 .. N
  <2>1. i - 1 \in Nat
    BY <1>1
  <2> HIDE DEF N
  <2> QED BY <1>1, <2>1, DivMod
<1>3. Mds!Image = [i \in 1 .. N |-> B(i)]
  <2>1. \A i \in 1 .. N : Mds!Image[i] = B(i)
    <3> SUFFICES ASSUME NEW i \in 1 .. N PROVE Mds!Image[i] = B(i)
      OBVIOUS
    <3> DEFINE lba == (i - 1) \div FrameSize
               k == ((i - 1) % FrameSize) + 1
    <3>1. lba \in Nat /\ k \in 1 .. FrameSize
      BY <1>2
    <3>2. Mds!Image[i] = (IF Mds!m_bFlatOffsets THEN Mds!BytesAt(lba * FrameSize, FrameSize)
                          ELSE IF Mds!FindTrackForLBA(lba) = {} THEN Mds!SilentBytes(FrameSize)
                          ELSE Mds!BytesAt(Mds!OffsetIn(Mds!FirstOf(Mds!FindTrackForLBA(lba)), lba),
                                           FrameSize))[k]
      BY Zenon DEF Mds!Image
    <3> HIDE DEF lba, k
    <3>3. Mds!Image[i] = DiscByte(lba, k)
      BY <3>1, <3>2 DEF DiscByte, Stored, At, Mds!BytesAt, Mds!SilentBytes, Mds!Silence
    <3> QED BY <3>3 DEF lba, k
  <2>2. Mds!Image = [i \in 1 .. N |-> Mds!Image[i]]
    BY Zenon DEF Mds!Image
  <2> HIDE DEF N, B
  <2> QED BY <2>1, <2>2, Zenon
<1>4. \A i \in 1 .. N : B(i) \in Seq(Int)
  <2> TAKE i \in 1 .. N
  <2> DEFINE lba == (i - 1) \div FrameSize
             k == ((i - 1) % FrameSize) + 1
  <2>1. lba \in Nat /\ k \in 1 .. FrameSize
    BY <1>2
  <2> HIDE DEF lba, k
  <2>2. Mds!m_bFlatOffsets \/ Stored(lba) => At(lba) \in Nat
    BY <2>1, AtNat
  <2>3. DiscByte(lba, k) \in Seq(Int)
    BY <2>1, <2>2 DEF DiscByte
  <2> QED BY <2>3 DEF lba, k
<1>5. Mds!Image \in Seq(Seq(Int)) /\ Len(Mds!Image) = N
  <2> HIDE DEF N, B
  <2> QED BY <1>1, <1>3, <1>4
<1>6. ASSUME NEW lba \in 0 .. total - 1, NEW k \in 1 .. FrameSize
      PROVE  Mds!Image[lba * FrameSize + k] = DiscByte(lba, k)
  <2> DEFINE i == lba * FrameSize + k
  <2>1. lba \in Nat /\ lba + 1 \in Nat /\ k - 1 \in 0 .. FrameSize - 1 /\ lba + 1 <= total
    BY <1>1
  <2>2. (lba + 1) * FrameSize <= N /\ (lba + 1) * FrameSize = lba * FrameSize + FrameSize
        /\ lba * FrameSize \in Nat
    BY <1>1, <2>1, TimesLess, TimesPlus, TimesNat
  <2> HIDE DEF N, total
  <2>3. i \in 1 .. N /\ i - 1 = lba * FrameSize + (k - 1)
    BY <1>1, <2>1, <2>2
  <2>4. (i - 1) \div FrameSize = lba /\ ((i - 1) % FrameSize) + 1 = k
    BY <1>1, <2>1, <2>3, DivModUnique
  <2> HIDE DEF i
  <2>5. Mds!Image[i] = B(i)
    BY <1>3, <2>3
  <2> QED BY <2>4, <2>5 DEF i
<1> QED BY <1>5, <1>6

\* The bytes from a place in the file on.
LEMMA BytesOfFile ==
    ASSUME NEW offset \in Nat, NEW n \in Nat
    PROVE  /\ Mds!BytesAt(offset, n) \in Seq(Seq(Int)) /\ Len(Mds!BytesAt(offset, n)) = n
           /\ \A i \in 1 .. n : Mds!BytesAt(offset, n)[i] = <<offset + i - 1>>
           /\ Mds!SilentBytes(n) \in Seq(Seq(Int)) /\ Len(Mds!SilentBytes(n)) = n
           /\ \A i \in 1 .. n : Mds!SilentBytes(n)[i] = <<>>
  BY DEF Mds!BytesAt, Mds!SilentBytes, Mds!Silence

LEMMA SameTable ==
    ASSUME UNCHANGED table
    PROVE  /\ Mds!Image' = Mds!Image /\ Mds!m_nTotalFrames' = Mds!m_nTotalFrames
           /\ Mds!m_bFlatOffsets' = Mds!m_bFlatOffsets
           /\ \A lba : /\ Stored(lba)' = Stored(lba) /\ At(lba)' = At(lba)
                       /\ Stride(lba)' = Stride(lba)
<1>1. Mds!m_nTotalFrames' = Mds!m_nTotalFrames
  BY Zenon DEF Mds!m_nTotalFrames, Mds!m_bFlatOffsets, Mds!tracks, Mds!End
<1>2. Mds!m_bFlatOffsets' = Mds!m_bFlatOffsets
  BY Zenon DEF Mds!m_bFlatOffsets, Mds!tracks, Mds!End
<1>3. Mds!Image' = Mds!Image
  BY Zenon, <1>1, <1>2 DEF Mds!Image, Mds!tracks, Mds!FindTrackForLBA, Mds!FirstOf
<1>4. ASSUME NEW lba PROVE Stored(lba)' = Stored(lba)
  BY Zenon DEF Stored, Mds!FindTrackForLBA, Mds!tracks
<1>5. ASSUME NEW lba PROVE At(lba)' = At(lba)
  BY Zenon, <1>2 DEF At, Mds!FindTrackForLBA, Mds!FirstOf, Mds!OffsetIn, Mds!tracks
<1>6. ASSUME NEW lba PROVE Stride(lba)' = Stride(lba)
  BY Zenon DEF Stride, Mds!FindTrackForLBA, Mds!FirstOf, Mds!OffsetIn, Mds!tracks
<1> QED BY <1>1, <1>2, <1>3, <1>4, <1>5, <1>6

\* The frames of the disc whose bytes the file has.
Held(lba) == IF Mds!m_bFlatOffsets THEN lba < Mds!m_nTotalFrames ELSE Stored(lba)

\* It has all of each.
LEMMA FileHolds ==
    ASSUME Mds!TablesAssumption, table \in Tables, NEW lba \in Nat, Held(lba)
    PROVE  At(lba) \in Nat /\ At(lba) + FrameSize <= table.size
<1>1. /\ FrameSize \in Nat \ {0} /\ SubchannelSize \in Nat \ {0} /\ table.size \in Nat
      /\ At(lba) \in Nat
  BY TableFacts, AtNat DEF Held
<1>2. CASE Mds!m_bFlatOffsets
  <2> DEFINE total == table.size \div FrameSize
  <2>1. total \in Nat /\ table.size = total * FrameSize + (table.size % FrameSize)
        /\ table.size % FrameSize \in 0 .. FrameSize - 1
    BY <1>1, DivMod
  <2>2. lba < total /\ At(lba) = lba * FrameSize
    BY <1>2 DEF Held, At, Mds!m_nTotalFrames
  <2> HIDE DEF total
  <2>3. (lba + 1) * FrameSize <= total * FrameSize /\ (lba + 1) * FrameSize = lba * FrameSize + FrameSize
        /\ total * FrameSize \in Nat /\ lba * FrameSize \in Nat
    BY <1>1, <2>1, <2>2, TimesLess, TimesPlus, TimesNat
  <2> QED BY <1>1, <2>1, <2>2, <2>3
<1>3. CASE ~Mds!m_bFlatOffsets
  <2>1. PICK i \in DOMAIN Mds!tracks :
          /\ Mds!tracks[i].start <= lba /\ lba < Mds!End(Mds!tracks[i])
          /\ At(lba) = Mds!tracks[i].offset + (lba - Mds!tracks[i].start) * Mds!tracks[i].size
    BY <1>3, FoundTrack DEF Held
  <2> DEFINE start  == Mds!tracks[i].start
             length == Mds!tracks[i].length
             size   == Mds!tracks[i].size
             offset == Mds!tracks[i].offset
  <2>2. /\ start \in Nat /\ length \in Nat /\ size \in Nat /\ offset \in Nat
        /\ size \in {FrameSize, FrameSize + SubchannelSize} /\ Mds!End(Mds!tracks[i]) = start + length
    BY TrackFacts
  <2>3. offset + length * size <= table.size
    BY TableFacts DEF Mds!SoundTable, Mds!tracks
  <2>4. At(lba) = offset + (lba - start) * size /\ start <= lba /\ lba < start + length
    BY <2>1, <2>2
  <2> HIDE DEF start, length, size, offset
  <2>5. lba - start \in Nat /\ (lba - start) + 1 \in Nat /\ (lba - start) + 1 <= length
    BY <2>2, <2>4
  <2>6. ((lba - start) + 1) * size <= length * size
        /\ ((lba - start) + 1) * size = (lba - start) * size + size
        /\ (lba - start) * size \in Nat /\ length * size \in Nat
    BY <2>2, <2>5, TimesLess, TimesPlus, TimesNat
  <2>7. size >= FrameSize
    BY <1>1, <2>2
  <2> QED BY <1>1, <2>2, <2>3, <2>4, <2>6, <2>7
<1> QED BY <1>2, <1>3

\* Bytes that are those of the disc as far as the disc goes are a delivery.
LEMMA BytesDelivered ==
    ASSUME Mds!TablesAssumption, table \in Tables, format = "mds", m_pFile = "open",
           outcome = "reading", UNCHANGED <<format, table, m_pFile, asked, outcome>>,
           m_nCurrentLBA \in Nat, m_nCurrentLBA' \in Nat, asked \in Nat, got \in Seq(Seq(Int)),
           NEW bytes \in Seq(Seq(Int)), NEW b \in Nat, b = Len(bytes), b > 0, Len(got) + b <= asked,
           \A j \in Nat, k \in 1 .. FrameSize :
              j * FrameSize + k <= b /\ m_nCurrentLBA + j < Mds!m_nTotalFrames =>
                  bytes[j * FrameSize + k] = DiscByte(m_nCurrentLBA + j, k),
           got' = got \o bytes,
           \/ m_nCurrentLBA' * FrameSize = m_nCurrentLBA * FrameSize + b
           \/ /\ m_nCurrentLBA' >= Mds!m_nTotalFrames
              /\ m_nCurrentLBA * FrameSize + b >= Mds!m_nTotalFrames * FrameSize
    PROVE  Device!Deliver /\ got' \in Seq(Seq(Int)) /\ Len(got') = Len(got) + b
<1> DEFINE pos   == m_nCurrentLBA * FrameSize
           total == Mds!m_nTotalFrames
           end   == total * FrameSize
<1>1. /\ FrameSize \in Nat \ {0} /\ total \in Nat /\ pos \in Nat /\ end \in Nat
      /\ m_nCurrentLBA' * FrameSize \in Nat
  BY TableFacts, TotalFrames, TimesNat
<1>2. /\ deviceImage = Mds!Image /\ deviceImage' = Mds!Image
      /\ devicePos = pos /\ devicePos' = m_nCurrentLBA' * FrameSize
      /\ Len(deviceImage) = end
  BY SameTable, MdsImage DEF deviceImage, devicePos
<1>3. UNCHANGED deviceTracked /\ deviceAstray' = FALSE
  BY <1>2, NotAstray
<1>4. /\ got' \in Seq(Seq(Int)) /\ Len(got') - Len(got) = b
      /\ \A i \in DOMAIN got : got'[i] = got[i]
      /\ \A i \in 1 .. b : got'[Len(got) + i] = bytes[i]
  <2>1. /\ got \o bytes \in Seq(Seq(Int)) /\ Len(got \o bytes) - Len(got) = Len(bytes)
        /\ \A i \in DOMAIN got : (got \o bytes)[i] = got[i]
        /\ \A i \in 1 .. Len(bytes) : (got \o bytes)[Len(got) + i] = bytes[i]
    <3>1. got \in Seq(Seq(Int)) /\ bytes \in Seq(Seq(Int))
      OBVIOUS
    <3> QED BY ONLY <3>1, JoinedBytes
  <2> QED BY <2>1, Zenon
<1>5. ASSUME NEW i \in 1 .. b, pos + i <= end PROVE bytes[i] = Mds!Image[pos + i]
  <2>1. i \in Nat \ {0} /\ i <= b
    OBVIOUS
  <2>2. PICK j \in Nat, k \in 1 .. FrameSize : i = j * FrameSize + k
    BY <1>1, <2>1, FramePlace
  <2>3. /\ j * FrameSize \in Nat /\ (m_nCurrentLBA + j) * FrameSize = pos + j * FrameSize
        /\ pos + i = (m_nCurrentLBA + j) * FrameSize + k
    BY <1>1, <2>2, TimesNat, TimesPlus
  <2>4. m_nCurrentLBA + j < total
    <3> DEFINE here == (m_nCurrentLBA + j) * FrameSize
    <3>0. here \in Nat /\ here + k <= end
      BY <1>1, <1>5, <2>3, TimesNat
    <3>1. here < end
      <4> HIDE DEF here, end
      <4> QED BY <1>1, <3>0
    <3> HIDE DEF total
    <3> QED BY <1>1, <3>1, LessTimes
  <2>5. bytes[i] = DiscByte(m_nCurrentLBA + j, k)
    BY <2>1, <2>2, <2>4
  <2>6. Mds!Image[(m_nCurrentLBA + j) * FrameSize + k] = DiscByte(m_nCurrentLBA + j, k)
    <3>1. m_nCurrentLBA + j \in 0 .. Mds!m_nTotalFrames - 1
      BY <1>1, <2>4
    <3> QED BY <3>1, MdsImage
  <2> QED BY <2>3, <2>5, <2>6
<1> HIDE DEF pos, end, total
<1>6. b \in 1 .. asked - Len(got)
  <2>1. Len(got) \in Nat
    OBVIOUS
  <2> QED BY <2>1
<1>7. \/ devicePos' = devicePos + b
      \/ devicePos + b >= Len(deviceImage) /\ devicePos' \in Nat /\ devicePos' >= Len(deviceImage)
  <2>1. CASE m_nCurrentLBA' * FrameSize = m_nCurrentLBA * FrameSize + b
    BY <1>2, <2>1 DEF pos
  <2>2. CASE /\ m_nCurrentLBA' >= Mds!m_nTotalFrames
             /\ m_nCurrentLBA * FrameSize + b >= Mds!m_nTotalFrames * FrameSize
    <3>1. m_nCurrentLBA' * FrameSize >= total * FrameSize
      <4>1. total \in Nat /\ total <= m_nCurrentLBA'
        BY <1>1, <2>2 DEF total
      <4> QED BY <1>1, <4>1, TimesLess
    <3> QED BY <1>1, <1>2, <2>2, <3>1 DEF pos, end, total
  <2> QED BY <2>1, <2>2
<1>8. \A i \in 1 .. b : devicePos + i <= Len(deviceImage) => got'[Len(got) + i] = deviceImage[devicePos + i]
  BY <1>2, <1>4, <1>5
<1>9. Len(got') = Len(got) + b
  BY <1>4
<1> QED BY <1>2, <1>3, <1>4, <1>6, <1>7, <1>8, <1>9 DEF Device!Deliver

-----------------------------------------------------------------------------
(* An Alcohol image: its reads                                               *)

\* What a read of n frames more relies on: on the paths that do not look for
\* gaps the file stores those that are on the disc, and stands at the first; the
\* one strips because sectors carry subchannel, the other, which reads them at
\* once, because they carry none.
FramesLeft(n) ==
    /\ way = "gaps" => ~Mds!m_bFlatOffsets
    /\ way # "gaps" =>
          \A j \in 0 .. n - 1 : m_nCurrentLBA + j < Mds!m_nTotalFrames => Held(m_nCurrentLBA + j)
    /\ way # "gaps" /\ n > 0 /\ m_nCurrentLBA < Mds!m_nTotalFrames => filePos = At(m_nCurrentLBA)
    /\ way = "strip" /\ n > 0 /\ m_nCurrentLBA < Mds!m_nTotalFrames =>
          ~Mds!m_bFlatOffsets /\ Stride(m_nCurrentLBA) = FrameSize + SubchannelSize
    /\ way = "plain" /\ n > 0 =>
          /\ got = <<>>
          /\ m_nCurrentLBA < Mds!m_nTotalFrames =>
                Mds!m_bFlatOffsets \/ Stride(m_nCurrentLBA) = FrameSize

\* The one read of the file came to its end.
FileEnded ==
    /\ way = "plain" /\ got # <<>>
    /\ m_nCurrentLBA >= Mds!m_nTotalFrames

MdsInv ==
    /\ table \in Tables
    /\ m_pFile \in {"none", "open", "closed"} /\ (m_pFile = "none" => outcome = "none")
    /\ m_nCurrentLBA \in Nat /\ filePos \in Nat
    /\ outcome = "sought" => (Held(m_nCurrentLBA) => filePos = At(m_nCurrentLBA))
    /\ outcome = "reading" =>
          /\ m_pFile = "open" /\ way \in {"gaps", "strip", "plain"}
          /\ asked \in Nat /\ got \in Seq(Seq(Int)) /\ Len(got) <= asked
          /\ \/ \E d, n \in Nat : /\ asked = (d + n) * FrameSize /\ Len(got) = d * FrameSize
                                 /\ FramesLeft(n)
             \/ FileEnded

LEMMA LeastOfTwo ==
    ASSUME NEW a \in Nat, NEW b \in Nat
    PROVE  /\ Mds!Min({a, b}) \in Nat
           /\ a <= b => Mds!Min({a, b}) = a
           /\ b <= a => Mds!Min({a, b}) = b
<1>1. \E x \in {a, b} : \A y \in {a, b} : x <= y
  OBVIOUS
<1>2. /\ Mds!Min({a, b}) \in {a, b} /\ \A y \in {a, b} : Mds!Min({a, b}) <= y
  BY <1>1 DEF Mds!Min
<1> QED BY <1>2

\* The same of the frame where the device stands, before and after a step.
LEMMA SamePlace ==
    ASSUME UNCHANGED table
    PROVE  \A lba : m_nCurrentLBA' = lba =>
              /\ \A j : Held(m_nCurrentLBA + j)' <=> Held(lba + j)
              /\ (Held(m_nCurrentLBA)' <=> Held(lba)) /\ At(m_nCurrentLBA)' = At(lba)
              /\ Stride(m_nCurrentLBA)' = Stride(lba)
<1> TAKE lba
<1> SUFFICES ASSUME m_nCurrentLBA' = lba
             PROVE  /\ \A j : Held(m_nCurrentLBA + j)' <=> Held(lba + j)
                    /\ (Held(m_nCurrentLBA)' <=> Held(lba)) /\ At(m_nCurrentLBA)' = At(lba)
                    /\ Stride(m_nCurrentLBA)' = Stride(lba)
  OBVIOUS
<1>1. Mds!m_nTotalFrames' = Mds!m_nTotalFrames /\ Mds!m_bFlatOffsets' = Mds!m_bFlatOffsets
  BY SameTable
<1>2. Stored(m_nCurrentLBA)' = Stored(lba)
  BY Zenon DEF Stored, Mds!FindTrackForLBA, Mds!tracks
<1>3. At(m_nCurrentLBA)' = At(lba)
  BY Zenon, <1>1 DEF At, Mds!FindTrackForLBA, Mds!FirstOf, Mds!OffsetIn, Mds!tracks
<1>4. Stride(m_nCurrentLBA)' = Stride(lba)
  BY Zenon DEF Stride, Mds!FindTrackForLBA, Mds!FirstOf, Mds!tracks
<1>5. Held(m_nCurrentLBA)' <=> Held(lba)
  BY Zenon, <1>1, <1>2 DEF Held
<1>6. ASSUME NEW j PROVE Held(m_nCurrentLBA + j)' <=> Held(lba + j)
  <2>1. Stored(m_nCurrentLBA + j)' = Stored(lba + j)
    BY Zenon DEF Stored, Mds!FindTrackForLBA, Mds!tracks
  <2> QED BY Zenon, <1>1, <2>1 DEF Held
<1> QED BY <1>3, <1>4, <1>5, <1>6

\* A read that still wants bytes, and did not see the file end, wants frames.
LEMMA FramesWanted ==
    ASSUME Mds!TablesAssumption, MdsInv, outcome = "reading", Len(got) < asked, ~FileEnded
    PROVE  \E d \in Nat, n \in Nat \ {0} :
             /\ asked = (d + n) * FrameSize /\ Len(got) = d * FrameSize /\ FramesLeft(n)
<1>1. FrameSize \in Nat \ {0}
  BY TableFacts DEF MdsInv
<1>2. PICK d \in Nat, n \in Nat :
        asked = (d + n) * FrameSize /\ Len(got) = d * FrameSize /\ FramesLeft(n)
  BY DEF MdsInv
<1>3. d < d + n
  BY <1>1, <1>2, LessTimes
<1> QED BY <1>2, <1>3

\* A frame that a turn appends is delivered, and leaves the rest of the read.
LEMMA FrameDelivered ==
    ASSUME Mds!TablesAssumption, MdsInv, outcome = "reading", format = "mds",
           UNCHANGED <<format, table, m_pFile, way, asked, outcome>>,
           NEW d \in Nat, NEW rest \in Nat, NEW n \in Nat, n = 1 + rest,
           asked = (d + n) * FrameSize, Len(got) = d * FrameSize,
           NEW bytes \in Seq(Seq(Int)), Len(bytes) = FrameSize,
           m_nCurrentLBA < Mds!m_nTotalFrames =>
              \A k \in 1 .. FrameSize : bytes[k] = DiscByte(m_nCurrentLBA, k),
           got' = got \o bytes, m_nCurrentLBA' = m_nCurrentLBA + 1, filePos' \in Nat,
           FramesLeft(rest)'
    PROVE  MdsInv' /\ Device!Deliver
<1>1. FrameSize \in Nat \ {0} /\ Mds!m_nTotalFrames \in Nat /\ m_nCurrentLBA \in Nat
      /\ got \in Seq(Seq(Int)) /\ m_pFile = "open" /\ table \in Tables /\ asked \in Nat
      /\ way \in {"gaps", "strip", "plain"}
  BY TableFacts, TotalFrames DEF MdsInv
<1>2. /\ d * FrameSize + FrameSize = (d + 1) * FrameSize /\ d * FrameSize \in Nat
      /\ m_nCurrentLBA' * FrameSize = m_nCurrentLBA * FrameSize + FrameSize
      /\ (d + 1) * FrameSize <= (d + n) * FrameSize
  <2>1. (d + 1) * FrameSize = d * FrameSize + 1 * FrameSize /\ 1 * FrameSize = FrameSize
        /\ (m_nCurrentLBA + 1) * FrameSize = m_nCurrentLBA * FrameSize + 1 * FrameSize
    BY <1>1, TimesPlus
  <2> QED BY <1>1, <2>1, TimesNat, TimesLess
<1>3. Len(got) + FrameSize <= asked
  BY <1>1, <1>2
<1>4. ASSUME NEW j \in Nat, NEW k \in 1 .. FrameSize, j * FrameSize + k <= FrameSize,
             m_nCurrentLBA + j < Mds!m_nTotalFrames
      PROVE  bytes[j * FrameSize + k] = DiscByte(m_nCurrentLBA + j, k)
  <2>1. j * FrameSize < 1 * FrameSize
    <3> DEFINE p == j * FrameSize
    <3>1. p \in Nat /\ p + k <= FrameSize /\ 1 * FrameSize = FrameSize
      BY <1>1, <1>4, TimesNat
    <3> HIDE DEF p
    <3>2. p < FrameSize
      BY <1>1, <3>1
    <3> QED BY <3>1, <3>2 DEF p
  <2>2. j = 0
    BY <1>1, <2>1, LessTimes
  <2>3. j * FrameSize + k = k /\ m_nCurrentLBA + j = m_nCurrentLBA
    BY <1>1, <2>2
  <2> QED BY <1>4, <2>3
<1>5. Device!Deliver /\ got' \in Seq(Seq(Int)) /\ Len(got') = Len(got) + FrameSize
  <2>1. FrameSize \in Nat /\ FrameSize > 0 /\ m_nCurrentLBA' \in Nat /\ FrameSize = Len(bytes)
    BY <1>1
  <2>2. /\ Mds!TablesAssumption /\ table \in Tables /\ format = "mds" /\ m_pFile = "open"
        /\ outcome = "reading" /\ UNCHANGED <<format, table, m_pFile, asked, outcome>>
        /\ m_nCurrentLBA \in Nat /\ asked \in Nat /\ got \in Seq(Seq(Int))
        /\ bytes \in Seq(Seq(Int)) /\ got' = got \o bytes
    BY <1>1, Zenon
  <2>3. m_nCurrentLBA' * FrameSize = m_nCurrentLBA * FrameSize + FrameSize
    BY <1>2, Zenon
  <2>4. \A j \in Nat, k \in 1 .. FrameSize :
           j * FrameSize + k <= FrameSize /\ m_nCurrentLBA + j < Mds!m_nTotalFrames =>
               bytes[j * FrameSize + k] = DiscByte(m_nCurrentLBA + j, k)
    BY <1>4, Zenon
  <2> QED BY ONLY <1>3, <2>1, <2>2, <2>3, <2>4, BytesDelivered, ZenonT(60)
<1>6. asked' = ((d + 1) + rest) * FrameSize /\ Len(got') = (d + 1) * FrameSize /\ d + 1 \in Nat
  BY <1>2, <1>5
<1>7. \E e, k \in Nat : asked' = (e + k) * FrameSize' /\ Len(got') = e * FrameSize' /\ FramesLeft(k)'
  BY <1>6
<1>8. Len(got') <= asked' /\ asked' \in Nat
  BY <1>1, <1>3, <1>5
<1>9. m_nCurrentLBA' \in Nat
  BY <1>1
<1> QED BY <1>1, <1>5, <1>7, <1>8, <1>9 DEF MdsInv

\* A frame read across a gap is delivered, stored or silent.
LEMMA GapsDeliver ==
    ASSUME Mds!TablesAssumption, MdsInv, format = "mds", format' = format, Mds!ReadAcrossGaps
    PROVE  MdsInv' /\ Device!Deliver
<1>1. /\ outcome = "reading" /\ way = "gaps" /\ Len(got) < asked /\ table \in Tables
      /\ UNCHANGED <<format, table, m_pFile, way, asked, outcome>>
      /\ m_nCurrentLBA' = m_nCurrentLBA + 1
  BY DEF Mds!ReadAcrossGaps, Mds!Turn, MdsInv
<1>2. PICK d \in Nat, n \in Nat \ {0} :
        asked = (d + n) * FrameSize /\ Len(got) = d * FrameSize /\ FramesLeft(n)
  BY <1>1, FramesWanted DEF FileEnded
<1>3. /\ ~Mds!m_bFlatOffsets /\ filePos \in Nat
      /\ m_nCurrentLBA \in Nat /\ FrameSize \in Nat \ {0}
  BY <1>1, <1>2, TableFacts DEF FramesLeft, MdsInv
<1> DEFINE found == Mds!FindTrackForLBA(m_nCurrentLBA)
           offset == Mds!OffsetIn(Mds!FirstOf(found), m_nCurrentLBA)
           bytes == IF found = {} THEN Mds!SilentBytes(FrameSize) ELSE Mds!BytesAt(offset, FrameSize)
<1>4. got' = got \o bytes /\ filePos' = IF found = {} THEN filePos ELSE offset + FrameSize
  BY DEF Mds!ReadAcrossGaps
<1>5. found # {} => offset = At(m_nCurrentLBA) /\ offset \in Nat
  BY <1>1, <1>3, AtNat DEF At, Stored
<1>6. /\ bytes \in Seq(Seq(Int)) /\ Len(bytes) = FrameSize
      /\ \A k \in 1 .. FrameSize : bytes[k] = DiscByte(m_nCurrentLBA, k)
  <2>1. CASE found = {}
    BY <1>3, <2>1, BytesOfFile DEF DiscByte, Stored
  <2>2. CASE found # {}
    <3> HIDE DEF offset, found
    <3>1. found # {} <=> Stored(m_nCurrentLBA)
      BY DEF Stored, found
    <3>2. bytes = Mds!BytesAt(offset, FrameSize)
      BY <2>2
    <3> HIDE DEF bytes
    <3>3. /\ bytes \in Seq(Seq(Int)) /\ Len(bytes) = FrameSize
          /\ \A k \in 1 .. FrameSize : bytes[k] = <<offset + k - 1>>
      BY <1>3, <1>5, <2>2, <3>2, BytesOfFile
    <3>4. \A k : DiscByte(m_nCurrentLBA, k) = <<At(m_nCurrentLBA) + k - 1>>
      BY <2>2, <3>1 DEF DiscByte
    <3> QED BY <1>5, <2>2, <3>3, <3>4
  <2> QED BY <2>1, <2>2
<1>7. filePos' \in Nat
  BY <1>3, <1>4, <1>5
<1> HIDE DEF bytes, offset, found
<1>8. PICK rest \in Nat : n = 1 + rest
  <2>1. n - 1 \in Nat /\ n = 1 + (n - 1)
    OBVIOUS
  <2> QED BY <2>1
<1>9. FramesLeft(rest)'
  BY <1>1, <1>3, SameTable DEF FramesLeft
<1> QED BY <1>1, <1>2, <1>4, <1>6, <1>7, <1>8, <1>9, FrameDelivered

\* A frame is delivered without its subchannel, and the file stands at the next.
LEMMA StrippingDelivers ==
    ASSUME Mds!TablesAssumption, MdsInv, format = "mds", format' = format, Mds!ReadStripping
    PROVE  MdsInv' /\ Device!Deliver
<1>1. /\ outcome = "reading" /\ way = "strip" /\ Len(got) < asked /\ table \in Tables
      /\ UNCHANGED <<format, table, m_pFile, way, asked, outcome>>
      /\ m_nCurrentLBA' = m_nCurrentLBA + 1
      /\ filePos' = Mds!Min({filePos + FrameSize + SubchannelSize, table.size})
  BY DEF Mds!ReadStripping, Mds!Turn, MdsInv
<1>2. PICK d \in Nat, n \in Nat \ {0} :
        asked = (d + n) * FrameSize /\ Len(got) = d * FrameSize /\ FramesLeft(n)
  BY <1>1, FramesWanted DEF FileEnded
<1>3. /\ m_nCurrentLBA \in Nat /\ Mds!m_nTotalFrames \in Nat /\ filePos \in Nat
      /\ FrameSize \in Nat \ {0} /\ SubchannelSize \in Nat \ {0} /\ table.size \in Nat
  BY <1>1, TotalFrames, TableFacts DEF MdsInv
<1>4. ASSUME NEW j \in 0 .. n - 1, m_nCurrentLBA + j < Mds!m_nTotalFrames
      PROVE  ~Mds!m_bFlatOffsets /\ Stored(m_nCurrentLBA + j)
  <2>1. m_nCurrentLBA < Mds!m_nTotalFrames
    BY <1>3, <1>4
  <2> QED BY <1>1, <1>2, <1>4, <2>1 DEF FramesLeft, Held
<1>5. m_nCurrentLBA < Mds!m_nTotalFrames =>
        /\ ~Mds!m_bFlatOffsets /\ Stored(m_nCurrentLBA) /\ filePos = At(m_nCurrentLBA)
        /\ Stride(m_nCurrentLBA) = FrameSize + SubchannelSize
  <2>1. 0 \in 0 .. n - 1 /\ m_nCurrentLBA + 0 = m_nCurrentLBA
    BY <1>3
  <2> QED BY <1>1, <1>2, <1>4, <2>1 DEF FramesLeft
<1> DEFINE bytes == Mds!BytesAt(filePos, FrameSize)
<1>6. got' = got \o bytes
  BY DEF Mds!ReadStripping
<1>7. /\ bytes \in Seq(Seq(Int)) /\ Len(bytes) = FrameSize
      /\ m_nCurrentLBA < Mds!m_nTotalFrames =>
            \A k \in 1 .. FrameSize : bytes[k] = DiscByte(m_nCurrentLBA, k)
  <2>1. /\ bytes \in Seq(Seq(Int)) /\ Len(bytes) = FrameSize
        /\ \A k \in 1 .. FrameSize : bytes[k] = <<filePos + k - 1>>
    BY <1>3, BytesOfFile
  <2>2. m_nCurrentLBA < Mds!m_nTotalFrames =>
          \A k : DiscByte(m_nCurrentLBA, k) = <<filePos + k - 1>>
    BY <1>5 DEF DiscByte
  <2> QED BY <2>1, <2>2
<1> HIDE DEF bytes
<1>8. PICK rest \in Nat : n = 1 + rest
  <2>1. n - 1 \in Nat /\ n = 1 + (n - 1)
    OBVIOUS
  <2> QED BY <2>1
<1> DEFINE next == m_nCurrentLBA + 1
<1>9. rest > 0 /\ next < Mds!m_nTotalFrames =>
        /\ filePos' = At(next) /\ ~Mds!m_bFlatOffsets
        /\ Stride(next) = FrameSize + SubchannelSize
  <2> SUFFICES ASSUME rest > 0, next < Mds!m_nTotalFrames
               PROVE  /\ filePos' = At(next) /\ ~Mds!m_bFlatOffsets
                      /\ Stride(next) = FrameSize + SubchannelSize
    OBVIOUS
  <2>1. next \in Nat /\ 1 \in 0 .. n - 1 /\ m_nCurrentLBA < Mds!m_nTotalFrames
    BY <1>3, <1>8
  <2>2. ~Mds!m_bFlatOffsets /\ Stored(next)
    BY <1>4, <2>1
  <2>3. next = m_nCurrentLBA + 1
    OBVIOUS
  <2> HIDE DEF next
  <2>4. At(next) = At(m_nCurrentLBA) + Stride(m_nCurrentLBA) /\ Stride(next) = Stride(m_nCurrentLBA)
    BY <1>1, <1>3, <1>5, <2>1, <2>2, <2>3, NextFrame
  <2>5. At(next) + FrameSize <= table.size /\ At(next) \in Nat
    BY <1>1, <2>1, <2>2, FileHolds DEF Held
  <2>6. At(next) = filePos + FrameSize + SubchannelSize /\ At(next) <= table.size
    BY <1>3, <1>5, <2>1, <2>4, <2>5
  <2>7. filePos' = At(next)
    BY <1>1, <1>3, <2>5, <2>6, LeastOfTwo
  <2> QED BY <1>5, <2>1, <2>2, <2>4, <2>7
<1>10. filePos' \in Nat
  <2>1. filePos + FrameSize + SubchannelSize \in Nat
    BY <1>3
  <2> QED BY <1>1, <1>3, <2>1, LeastOfTwo
<1>11. FramesLeft(rest)'
  <2>1. ASSUME NEW j \in 0 .. rest - 1, next + j < Mds!m_nTotalFrames
        PROVE  Held(next + j)
    <3>1. next + j = m_nCurrentLBA + (j + 1) /\ j + 1 \in 0 .. n - 1
      BY <1>3, <1>8
    <3> QED BY <1>4, <2>1, <3>1 DEF Held
  <2> HIDE DEF next
  <2>2. m_nCurrentLBA' = next /\ way' = "strip"
    BY <1>1 DEF next
  <2>3. /\ At(m_nCurrentLBA)' = At(next) /\ Stride(m_nCurrentLBA)' = Stride(next)
        /\ Mds!m_bFlatOffsets' = Mds!m_bFlatOffsets /\ Mds!m_nTotalFrames' = Mds!m_nTotalFrames
    BY <1>1, <2>2, SamePlace, SameTable
  <2>4. ASSUME NEW j \in 0 .. rest - 1, (m_nCurrentLBA + j < Mds!m_nTotalFrames)'
        PROVE  Held(m_nCurrentLBA + j)'
    <3>1. Held(next + j)
      BY <2>1, <2>2, <2>3, <2>4
    <3> QED BY <1>1, <2>2, <3>1, SamePlace
  <2> QED BY <1>9, <2>2, <2>3, <2>4 DEF FramesLeft
<1> HIDE DEF next
<1> QED BY <1>1, <1>2, <1>6, <1>7, <1>8, <1>10, <1>11, FrameDelivered

\* Frames without subchannel that adjoin are delivered at once, and past the last
\* of them whatever the file has.
LEMMA PlainDelivers ==
    ASSUME Mds!TablesAssumption, MdsInv, format = "mds", format' = format, Mds!ReadPlain
    PROVE  MdsInv' /\ Device!Deliver
<1> DEFINE b == Mds!Min({asked, Mds!available})
           bytes == Mds!BytesAt(filePos, b)
<1>1. /\ outcome = "reading" /\ way = "plain" /\ Len(got) < asked /\ table \in Tables
      /\ m_pFile = "open"
      /\ UNCHANGED <<format, table, m_pFile, way, asked, outcome>>
      /\ m_nCurrentLBA' = m_nCurrentLBA + b \div FrameSize
      /\ got = <<>> /\ Mds!available > 0 /\ got' = bytes /\ filePos' = filePos + b
  BY DEF Mds!ReadPlain, Mds!Turn, MdsInv
<1>2. PICK d \in Nat, n \in Nat \ {0} :
        asked = (d + n) * FrameSize /\ Len(got) = d * FrameSize /\ FramesLeft(n)
  BY <1>1, FramesWanted DEF FileEnded
<1>3. /\ m_nCurrentLBA \in Nat /\ Mds!m_nTotalFrames \in Nat /\ FrameSize \in Nat \ {0}
      /\ filePos \in Nat /\ table.size \in Nat /\ asked \in Nat /\ got \in Seq(Seq(Int))
  BY <1>1, TotalFrames, TableFacts DEF MdsInv
<1>4. d = 0 /\ asked = n * FrameSize
  <2>1. d * FrameSize = 0
    BY <1>1, <1>2, <1>3
  <2>2. d = 0
    <3>1. d * FrameSize < 1 * FrameSize
      BY <1>3, <2>1
    <3> QED BY <1>3, <3>1, LessTimes
  <2> QED BY <1>2, <2>2
<1>5. /\ Mds!available = table.size - filePos /\ Mds!available \in Nat
      /\ b \in Nat /\ b > 0 /\ b <= asked /\ b <= Mds!available
      /\ b = asked \/ b = Mds!available
  <2>1. Mds!available = table.size - filePos /\ Mds!available \in Nat /\ asked > 0
    BY <1>1, <1>3 DEF Mds!available
  <2> QED BY SMTT(20), <1>1, <1>3, <2>1, LeastOfTwo
<1> HIDE DEF b
<1>6. ASSUME NEW j \in 0 .. n - 1, m_nCurrentLBA + j < Mds!m_nTotalFrames
      PROVE  /\ Mds!m_bFlatOffsets \/ Stored(m_nCurrentLBA + j)
             /\ At(m_nCurrentLBA + j) = filePos + j * FrameSize
             /\ (j + 1) * FrameSize <= Mds!available
  <2>1. /\ m_nCurrentLBA < Mds!m_nTotalFrames /\ j \in Nat
        /\ \A i \in 0 .. j : i \in 0 .. n - 1 /\ m_nCurrentLBA + i < Mds!m_nTotalFrames
    BY <1>3, <1>6
  <2>2. /\ filePos = At(m_nCurrentLBA)
        /\ Mds!m_bFlatOffsets \/ Stride(m_nCurrentLBA) = FrameSize
        /\ \A i \in 0 .. j : Held(m_nCurrentLBA + i)
    BY <1>1, <1>2, <2>1 DEF FramesLeft
  <2>3. /\ Mds!m_bFlatOffsets \/ Stored(m_nCurrentLBA + j)
        /\ At(m_nCurrentLBA + j) = At(m_nCurrentLBA) + j * FrameSize
    <3>1. CASE Mds!m_bFlatOffsets
      BY <1>3, <2>1, <3>1, TimesPlus DEF At
    <3>2. CASE ~Mds!m_bFlatOffsets
      <4>1. j + 1 \in Nat /\ j \in 0 .. (j + 1) - 1
            /\ \A i \in 0 .. (j + 1) - 1 : Stored(m_nCurrentLBA + i)
        BY <2>1, <2>2, <3>2 DEF Held
      <4> QED BY <1>1, <1>3, <2>2, <3>2, <4>1, StoredRun
    <3> QED BY <3>1, <3>2
  <2>4. At(m_nCurrentLBA + j) + FrameSize <= table.size
    <3>1. m_nCurrentLBA + j \in Nat /\ Held(m_nCurrentLBA + j)
      BY <1>3, <2>1, <2>2
    <3> QED BY <1>1, <3>1, FileHolds
  <2>5. (j + 1) * FrameSize = j * FrameSize + FrameSize /\ j * FrameSize \in Nat
    BY <1>3, <2>1, TimesPlus, TimesNat
  <2> DEFINE part == j * FrameSize
             more == (j + 1) * FrameSize
  <2>6. more = part + FrameSize /\ part \in Nat /\ At(m_nCurrentLBA + j) = filePos + part
    BY <2>2, <2>3, <2>5
  <2> HIDE DEF part, more
  <2>7. more <= Mds!available
    BY <1>3, <1>5, <2>4, <2>6
  <2> QED BY <2>2, <2>3, <2>7 DEF more
<1>7. bytes \in Seq(Seq(Int)) /\ Len(bytes) = b /\ \A i \in 1 .. b : bytes[i] = <<filePos + i - 1>>
  BY <1>3, <1>5, BytesOfFile
<1>8. got' = got \o bytes /\ Len(got) = 0
  <2> HIDE DEF bytes
  <2>1. <<>> \o bytes = bytes
    BY <1>7
  <2> QED BY <1>1, <2>1
<1>9. ASSUME NEW j \in Nat, NEW k \in 1 .. FrameSize, j * FrameSize + k <= b,
             m_nCurrentLBA + j < Mds!m_nTotalFrames
      PROVE  bytes[j * FrameSize + k] = DiscByte(m_nCurrentLBA + j, k)
  <2> DEFINE part == j * FrameSize
  <2>1. part \in Nat /\ part + k \in 1 .. b
    BY <1>3, <1>5, <1>9, TimesNat
  <2>2. j \in 0 .. n - 1
    <3>1. j * FrameSize < n * FrameSize
      <4>1. part < asked
        <5> HIDE DEF part
        <5> QED BY <1>3, <1>5, <2>1
      <4> QED BY <1>4, <4>1
    <3>2. j < n
      BY <1>3, <3>1, LessTimes
    <3> QED BY <3>2
  <2>3. bytes[part + k] = <<filePos + (part + k) - 1>>
    <3> HIDE DEF part, bytes
    <3> QED BY <1>7, <2>1
  <2>4. DiscByte(m_nCurrentLBA + j, k) = <<(filePos + part) + k - 1>>
    BY <1>6, <1>9, <2>2 DEF DiscByte
  <2> HIDE DEF part, bytes
  <2>5. filePos + (part + k) - 1 = (filePos + part) + k - 1
    BY <1>3, <2>1
  <2>6. bytes[part + k] = DiscByte(m_nCurrentLBA + j, k)
    BY <2>3, <2>4, <2>5
  <2> QED BY <2>6 DEF part
<1> HIDE DEF bytes
<1> DEFINE q == b \div FrameSize
           tail == b % FrameSize
<1>10. /\ q \in Nat /\ tail \in 0 .. FrameSize - 1 /\ b = q * FrameSize + tail
       /\ m_nCurrentLBA' = m_nCurrentLBA + q /\ m_nCurrentLBA' \in Nat
  <2>1. /\ q \in Nat /\ tail \in 0 .. FrameSize - 1 /\ b = q * FrameSize + tail
    BY <1>3, <1>5, DivMod
  <2>2. m_nCurrentLBA' = m_nCurrentLBA + q
    BY <1>1
  <2> HIDE DEF q
  <2> QED BY <1>3, <2>1, <2>2
<1>11. b = asked => q = n
  <2>1. 0 \in 0 .. FrameSize - 1 /\ n * FrameSize + 0 = n * FrameSize
    BY <1>3, TimesNat
  <2>2. (n * FrameSize + 0) \div FrameSize = n
    BY <1>3, <2>1, DivModUnique
  <2> QED BY <1>4, <2>1, <2>2
<1> HIDE DEF q, tail
<1>12. b < asked => /\ m_nCurrentLBA' >= Mds!m_nTotalFrames
                    /\ m_nCurrentLBA * FrameSize + b >= Mds!m_nTotalFrames * FrameSize
  <2> SUFFICES ASSUME b < asked
               PROVE  /\ m_nCurrentLBA' >= Mds!m_nTotalFrames
                      /\ m_nCurrentLBA * FrameSize + b >= Mds!m_nTotalFrames * FrameSize
    OBVIOUS
  <2>1. CASE m_nCurrentLBA >= Mds!m_nTotalFrames
    <3>1. m_nCurrentLBA * FrameSize >= Mds!m_nTotalFrames * FrameSize
          /\ m_nCurrentLBA * FrameSize \in Nat /\ Mds!m_nTotalFrames * FrameSize \in Nat
      BY <1>3, <2>1, TimesLess, TimesNat
    <3>2. m_nCurrentLBA' >= Mds!m_nTotalFrames
      BY <1>3, <1>10, <2>1
    <3> DEFINE x == m_nCurrentLBA * FrameSize
               y == Mds!m_nTotalFrames * FrameSize
    <3>3. x >= y /\ x \in Nat /\ y \in Nat
      BY <3>1
    <3> HIDE DEF x, y
    <3>4. x + b >= y
      BY <1>5, <3>3
    <3> QED BY <3>2, <3>4 DEF x, y
  <2>2. CASE m_nCurrentLBA < Mds!m_nTotalFrames
    <3> DEFINE w == Mds!m_nTotalFrames - m_nCurrentLBA
    <3>1. w \in Nat \ {0} /\ m_nCurrentLBA + w = Mds!m_nTotalFrames
      BY <1>3, <2>2
    <3> HIDE DEF w
    <3>2. w <= n
      <4> SUFFICES ASSUME w > n PROVE FALSE
        BY <3>1
      <4>1. n - 1 \in 0 .. n - 1 /\ m_nCurrentLBA + (n - 1) < Mds!m_nTotalFrames /\ (n - 1) + 1 = n
        BY <1>3, <3>1
      <4>2. n * FrameSize <= Mds!available
        BY <1>6, <4>1
      <4> QED BY <1>3, <1>4, <1>5, <4>2
    <3>3. w * FrameSize <= b
      <4>1. w - 1 \in 0 .. n - 1 /\ m_nCurrentLBA + (w - 1) < Mds!m_nTotalFrames /\ (w - 1) + 1 = w
        BY <1>3, <3>1, <3>2
      <4>2. w * FrameSize <= Mds!available
        BY <1>6, <4>1
      <4> QED BY <1>5, <4>2
    <3>4. w <= q
      <4> DEFINE whole == q * FrameSize
                 next  == (q + 1) * FrameSize
                 mine  == w * FrameSize
      <4>1. next = whole + FrameSize /\ whole \in Nat /\ mine \in Nat
            /\ b = whole + tail /\ mine <= b
        BY <1>3, <1>10, <3>1, <3>3, TimesPlus, TimesNat
      <4> HIDE DEF whole, next, mine
      <4>2. mine < next
        BY <1>3, <1>5, <1>10, <4>1
      <4>3. w < q + 1
        <5>1. w * FrameSize < (q + 1) * FrameSize /\ q + 1 \in Nat
          BY <1>10, <4>2 DEF mine, next
        <5> QED BY <1>3, <3>1, <5>1, LessTimes
      <4> QED BY <1>10, <3>1, <4>3
    <3>5. m_nCurrentLBA' >= Mds!m_nTotalFrames
      BY <1>3, <1>10, <3>1, <3>4
    <3>6. Mds!m_nTotalFrames * FrameSize = m_nCurrentLBA * FrameSize + w * FrameSize
          /\ m_nCurrentLBA * FrameSize \in Nat /\ w * FrameSize \in Nat
      BY <1>3, <3>1, TimesPlus, TimesNat
    <3> QED BY <1>5, <3>3, <3>5, <3>6
  <2> QED BY <1>3, <2>1, <2>2
<1>13. b = asked => m_nCurrentLBA' * FrameSize = m_nCurrentLBA * FrameSize + b
  <2> SUFFICES ASSUME b = asked PROVE m_nCurrentLBA' * FrameSize = m_nCurrentLBA * FrameSize + b
    OBVIOUS
  <2>1. m_nCurrentLBA' = m_nCurrentLBA + n /\ b = n * FrameSize
    BY <1>4, <1>10, <1>11
  <2> QED BY <1>3, <2>1, TimesPlus
<1>14. b = asked \/ b < asked
  BY <1>3, <1>5
<1>15. Device!Deliver /\ got' \in Seq(Seq(Int)) /\ Len(got') = Len(got) + b
  <2>1. Len(got) + b <= asked /\ b = Len(bytes)
    BY <1>5, <1>7, <1>8
  <2>2. \/ m_nCurrentLBA' * FrameSize = m_nCurrentLBA * FrameSize + b
        \/ /\ m_nCurrentLBA' >= Mds!m_nTotalFrames
           /\ m_nCurrentLBA * FrameSize + b >= Mds!m_nTotalFrames * FrameSize
    BY <1>12, <1>13, <1>14
  <2>3. \A j \in Nat, k \in 1 .. FrameSize :
          j * FrameSize + k <= b /\ m_nCurrentLBA + j < Mds!m_nTotalFrames =>
              bytes[j * FrameSize + k] = DiscByte(m_nCurrentLBA + j, k)
    BY <1>9
  <2>4. bytes \in Seq(Seq(Int)) /\ b \in Nat /\ b > 0 /\ m_nCurrentLBA' \in Nat
    BY <1>5, <1>7, <1>10
  <2>5. /\ table \in Tables /\ m_pFile = "open" /\ outcome = "reading"
        /\ UNCHANGED <<format, table, m_pFile, asked, outcome>>
        /\ m_nCurrentLBA \in Nat /\ asked \in Nat /\ got \in Seq(Seq(Int))
        /\ got' = got \o bytes
    BY <1>1, <1>3, <1>8
  <2> QED BY <2>1, <2>2, <2>3, <2>4, <2>5, BytesDelivered
<1>16. Len(got') = b /\ Len(got') <= asked
  BY <1>5, <1>8, <1>15
<1>17. CASE b = asked
  <2>1. FramesLeft(0)'
    BY <1>1 DEF FramesLeft
  <2>2. asked' = (n + 0) * FrameSize' /\ Len(got') = n * FrameSize' /\ n \in Nat
    BY <1>1, <1>4, <1>16, <1>17
  <2>3. \E e, k \in Nat : asked' = (e + k) * FrameSize' /\ Len(got') = e * FrameSize' /\ FramesLeft(k)'
    BY <2>1, <2>2
  <2>4. filePos' \in Nat
    BY <1>1, <1>3, <1>5
  <2> QED BY <1>1, <1>3, <1>10, <1>15, <1>16, <2>3, <2>4 DEF MdsInv
<1>18. CASE b < asked
  <2>1. FileEnded'
    <3>1. got' # <<>>
      BY <1>5, <1>16
    <3> QED BY <1>1, <1>12, <1>18, <3>1, SameTable DEF FileEnded
  <2>2. filePos' \in Nat
    BY <1>1, <1>3, <1>5
  <2> QED BY <1>1, <1>3, <1>10, <1>15, <1>16, <2>1, <2>2 DEF MdsInv
<1> QED BY <1>14, <1>15, <1>17, <1>18

\* The file ends only where the disc has.
LEMMA FileEndsIsEnd ==
    ASSUME Mds!TablesAssumption, MdsInv, format = "mds", format' = format, Mds!FileEnds
    PROVE  MdsInv' /\ Device!End
<1>1. /\ outcome = "reading" /\ outcome' = "end" /\ Len(got) < asked /\ table \in Tables
      /\ way \in {"strip", "plain"} /\ m_pFile = "open" /\ filePos' = table.size
      /\ way = "strip" => Mds!available < FrameSize
      /\ way = "plain" => Mds!available = 0
      /\ UNCHANGED <<format, table, m_pFile, m_nCurrentLBA, asked, got>>
  BY DEF Mds!FileEnds, Mds!Turn, MdsInv
<1>2. /\ m_nCurrentLBA \in Nat /\ Mds!m_nTotalFrames \in Nat /\ FrameSize \in Nat \ {0}
      /\ filePos \in Nat /\ table.size \in Nat /\ asked \in Nat /\ Len(got) \in Nat
  BY <1>1, TotalFrames, TableFacts DEF MdsInv
<1>3. m_nCurrentLBA >= Mds!m_nTotalFrames
  <2> SUFFICES ASSUME m_nCurrentLBA < Mds!m_nTotalFrames PROVE FALSE
    BY <1>2
  <2>1. ~FileEnded
    BY <1>2 DEF FileEnded
  <2>2. PICK d \in Nat, n \in Nat \ {0} :
          asked = (d + n) * FrameSize /\ Len(got) = d * FrameSize /\ FramesLeft(n)
    BY <1>1, <2>1, FramesWanted
  <2>3. 0 \in 0 .. n - 1 /\ m_nCurrentLBA + 0 = m_nCurrentLBA
    BY <1>2
  <2>4. Held(m_nCurrentLBA) /\ filePos = At(m_nCurrentLBA)
    BY <1>1, <2>2, <2>3 DEF FramesLeft
  <2>5. filePos + FrameSize <= table.size
    BY <1>1, <1>2, <2>4, FileHolds
  <2> QED BY <1>1, <1>2, <2>5 DEF Mds!available
<1>4. MdsInv'
  BY <1>1, <1>2 DEF MdsInv
<1>5. devicePos >= Len(deviceImage)
  <2>1. deviceImage = Mds!Image /\ devicePos = m_nCurrentLBA * FrameSize
    BY <1>1 DEF deviceImage, devicePos
  <2>2. Len(Mds!Image) = Mds!m_nTotalFrames * FrameSize
    BY <1>1, MdsImage
  <2>3. Mds!m_nTotalFrames * FrameSize <= m_nCurrentLBA * FrameSize
    BY <1>2, <1>3, TimesLess
  <2> QED BY <2>1, <2>2, <2>3, <1>2, TimesNat
<1>6. UNCHANGED <<deviceImage, devicePos, deviceTracked, deviceAstray>>
  <2>1. UNCHANGED <<deviceImage, devicePos>>
    BY <1>1, SameTable DEF deviceImage, devicePos
  <2> QED BY <1>1, <2>1, NotAstray
<1>7. Len(got) # asked
  BY <1>1, <1>2
<1> QED BY <1>1, <1>4, <1>5, <1>6, <1>7 DEF Device!End

\* A read starts on the path that suits what the file stores of it.
LEMMA MdsReadStarts ==
    ASSUME Mds!TablesAssumption, MdsInv, format = "mds", format' = format,
           NEW n \in Frames, Mds!Read(n)
    PROVE  MdsInv' /\ Device!Read
<1>1. /\ m_pFile = "open" /\ outcome = "sought" /\ outcome' = "reading" /\ table \in Tables
      /\ UNCHANGED <<format, table, m_pFile, filePos, m_nCurrentLBA>>
      /\ asked' = n * FrameSize /\ got' = <<>>
  BY DEF Mds!Read, Mds!Idle, MdsInv
<1>2. /\ n \in Nat \ {0} /\ FrameSize \in Nat \ {0} /\ Mds!m_nTotalFrames \in Nat
      /\ m_nCurrentLBA \in Nat /\ filePos \in Nat /\ n * FrameSize \in Nat \ {0}
  <2>1. n \in Nat \ {0} /\ FrameSize \in Nat \ {0}
    BY <1>1, TableFacts DEF Mds!TablesAssumption
  <2>2. n * FrameSize >= 1 * FrameSize /\ n * FrameSize \in Nat
    BY <2>1, TimesLess, TimesNat
  <2> QED BY <1>1, <2>1, <2>2, TotalFrames DEF MdsInv
<1> DEFINE gap == Mds!TouchesUnstoredGap(m_nCurrentLBA, n)
           found == Mds!FindTrackForLBA(m_nCurrentLBA)
           strips == /\ Mds!m_hasSubchannels /\ found # {}
                     /\ Mds!FirstOf(found).size = FrameSize + SubchannelSize
           onDisc == m_nCurrentLBA < Mds!m_nTotalFrames
<1>3. way' = IF gap THEN "gaps" ELSE IF strips THEN "strip" ELSE "plain"
  BY DEF Mds!Read
<1>4. gap => ~Mds!m_bFlatOffsets
  BY DEF Mds!TouchesUnstoredGap, Mds!m_bHasUnstoredGaps
<1>5. ASSUME ~gap, NEW j \in 0 .. n - 1, m_nCurrentLBA + j < Mds!m_nTotalFrames
      PROVE  Held(m_nCurrentLBA + j)
  <2>1. m_nCurrentLBA + j \in 0 .. Mds!m_nTotalFrames - 1
        /\ m_nCurrentLBA + j \in m_nCurrentLBA .. m_nCurrentLBA + n - 1
    BY <1>2, <1>5
  <2>2. CASE Mds!m_bHasUnstoredGaps
    <3>1. Stored(m_nCurrentLBA + j) /\ ~Mds!m_bFlatOffsets
      BY <1>5, <2>1, <2>2 DEF Mds!TouchesUnstoredGap, Stored, Mds!m_bHasUnstoredGaps
    <3> QED BY <3>1 DEF Held
  <2>3. CASE ~Mds!m_bHasUnstoredGaps
    <3> DEFINE lba == m_nCurrentLBA + j
    <3>1. lba \in 0 .. Mds!m_nTotalFrames - 1
      BY <2>1
    <3> HIDE DEF lba
    <3>2. ~Mds!m_bFlatOffsets => Stored(lba)
      BY <1>1, <2>3, <3>1, AllStored
    <3> QED BY <1>5, <3>2 DEF Held, lba
  <2> QED BY <2>2, <2>3
<1>6. ~gap /\ onDisc => Held(m_nCurrentLBA) /\ filePos = At(m_nCurrentLBA)
  <2> SUFFICES ASSUME ~gap, onDisc PROVE Held(m_nCurrentLBA) /\ filePos = At(m_nCurrentLBA)
    OBVIOUS
  <2>1. 0 \in 0 .. n - 1 /\ m_nCurrentLBA + 0 = m_nCurrentLBA
    BY <1>2
  <2>2. Held(m_nCurrentLBA)
    BY <1>5, <2>1
  <2> QED BY <1>1, <2>2 DEF MdsInv
<1>7. strips => ~Mds!m_bFlatOffsets /\ Stride(m_nCurrentLBA) = FrameSize + SubchannelSize
  <2> SUFFICES ASSUME strips
               PROVE  ~Mds!m_bFlatOffsets /\ Stride(m_nCurrentLBA) = FrameSize + SubchannelSize
    OBVIOUS
  <2>1. Stored(m_nCurrentLBA)
    BY DEF Stored
  <2>2. PICK i \in DOMAIN Mds!tracks :
          Mds!tracks[i].start <= m_nCurrentLBA /\ m_nCurrentLBA < Mds!End(Mds!tracks[i])
    BY <1>1, <1>2, <2>1, FoundTrack
  <2>3. Mds!End(Mds!tracks[i]) # 0
    BY <1>1, <1>2, <2>2, TrackFacts
  <2> QED BY <2>2, <2>3 DEF Mds!m_bFlatOffsets, Stride
<1>8. ~gap /\ ~strips /\ onDisc => Mds!m_bFlatOffsets \/ Stride(m_nCurrentLBA) = FrameSize
  <2> SUFFICES ASSUME ~gap, ~strips, onDisc, ~Mds!m_bFlatOffsets
               PROVE  Stride(m_nCurrentLBA) = FrameSize
    OBVIOUS
  <2>1. Stored(m_nCurrentLBA)
    BY <1>6 DEF Held
  <2>2. PICK i \in DOMAIN Mds!tracks : Mds!FirstOf(found) = Mds!tracks[i]
    BY <1>1, <1>2, <2>1, FoundTrack
  <2>3. /\ Mds!tracks[i].size \in {FrameSize, FrameSize + SubchannelSize}
        /\ Mds!tracks[i].subchannel <=> Mds!tracks[i].size # FrameSize
    BY <1>1, TrackFacts
  <2>4. Mds!tracks[i].size # FrameSize => Mds!m_hasSubchannels
    BY <2>3 DEF Mds!m_hasSubchannels
  <2> QED BY <2>1, <2>2, <2>3, <2>4 DEF Stored, Stride
<1> HIDE DEF gap, found, strips
<1>9. FramesLeft(n)'
  <2>1. /\ Mds!m_bFlatOffsets' = Mds!m_bFlatOffsets /\ Mds!m_nTotalFrames' = Mds!m_nTotalFrames
        /\ At(m_nCurrentLBA)' = At(m_nCurrentLBA) /\ Stride(m_nCurrentLBA)' = Stride(m_nCurrentLBA)
        /\ m_nCurrentLBA' = m_nCurrentLBA
    BY <1>1, SameTable, SamePlace
  <2>2. way' = "gaps" => ~Mds!m_bFlatOffsets'
    BY <1>3, <1>4, <2>1
  <2>3. ASSUME way' # "gaps", NEW j \in 0 .. n - 1, (m_nCurrentLBA + j < Mds!m_nTotalFrames)'
        PROVE  Held(m_nCurrentLBA + j)'
    <3>1. ~gap /\ m_nCurrentLBA + j < Mds!m_nTotalFrames
      BY <1>3, <2>1, <2>3
    <3>2. Held(m_nCurrentLBA + j)
      BY <1>5, <3>1
    <3> QED BY <1>1, <3>2, SamePlace
  <2>4. way' # "gaps" /\ (m_nCurrentLBA < Mds!m_nTotalFrames)' => filePos' = At(m_nCurrentLBA)'
    BY <1>1, <1>3, <1>6, <2>1
  <2>5. way' = "strip" =>
          ~Mds!m_bFlatOffsets' /\ Stride(m_nCurrentLBA)' = (FrameSize + SubchannelSize)'
    BY <1>3, <1>7, <2>1
  <2>6. way' = "plain" =>
          /\ got' = <<>>
          /\ (m_nCurrentLBA < Mds!m_nTotalFrames)' =>
                Mds!m_bFlatOffsets' \/ Stride(m_nCurrentLBA)' = FrameSize'
    BY <1>1, <1>3, <1>8, <2>1
  <2> QED BY <2>2, <2>3, <2>4, <2>5, <2>6 DEF FramesLeft
<1>10. MdsInv'
  <2>1. asked' = (0 + n) * FrameSize' /\ Len(got') = 0 * FrameSize' /\ got' \in Seq(Seq(Int))
    BY <1>1, <1>2
  <2>2. \E e, k \in Nat : asked' = (e + k) * FrameSize' /\ Len(got') = e * FrameSize' /\ FramesLeft(k)'
    BY <1>2, <1>9, <2>1
  <2>3. way' \in {"gaps", "strip", "plain"}
    BY <1>3
  <2>4. asked' \in Nat /\ Len(got') <= asked' /\ m_nCurrentLBA' \in Nat /\ filePos' \in Nat
    BY <1>1, <1>2
  <2> QED BY <1>1, <2>1, <2>2, <2>3, <2>4 DEF MdsInv
<1>11. UNCHANGED <<deviceImage, devicePos, deviceTracked, deviceAstray>>
  <2>1. UNCHANGED <<deviceImage, devicePos>>
    BY <1>1, SameTable DEF deviceImage, devicePos
  <2> QED BY <1>1, <2>1, NotAstray
<1> QED BY <1>1, <1>2, <1>10, <1>11 DEF Device!Read

\* A seek sets the position, and moves the file to a frame it stores.
LEMMA MdsSeeks ==
    ASSUME Mds!TablesAssumption, MdsInv, format = "mds", format' = format,
           NEW lba \in Nat, Mds!Seek(lba) \/ Mds!SeekFails(lba)
    PROVE  MdsInv' /\ Device!Seek
<1>1. /\ m_pFile = "open" /\ outcome # "reading" /\ outcome' \in {"sought", "card"}
      /\ table \in Tables /\ UNCHANGED <<format, table, m_pFile>>
      /\ asked' = 0 /\ got' = <<>> /\ m_nCurrentLBA' = lba
  BY DEF Mds!Seek, Mds!SeekFails, Mds!Idle, MdsInv
<1>2. /\ FrameSize \in Nat \ {0} /\ Mds!m_nTotalFrames \in Nat /\ filePos \in Nat
      /\ table.size \in Nat /\ lba * FrameSize \in Nat
  BY <1>1, TableFacts, TotalFrames, TimesNat DEF MdsInv
<1>3. \/ filePos' = IF Mds!m_bFlatOffsets THEN Mds!Min({lba * FrameSize, table.size})
                    ELSE IF Stored(lba) THEN At(lba) ELSE filePos
      \/ outcome' = "card" /\ filePos' = filePos
  BY DEF Mds!Seek, Mds!SeekFails, Stored, At
<1>4. filePos' \in Nat
  <2>1. Stored(lba) => At(lba) \in Nat
    BY <1>1, AtNat
  <2> QED BY <1>2, <1>3, <2>1, LeastOfTwo
<1>5. outcome' = "sought" /\ Held(lba) => filePos' = At(lba)
  <2> SUFFICES ASSUME outcome' = "sought", Held(lba) PROVE filePos' = At(lba)
    OBVIOUS
  <2>1. CASE Mds!m_bFlatOffsets
    <3>1. At(lba) = lba * FrameSize /\ At(lba) + FrameSize <= table.size
      BY <1>1, <2>1, FileHolds DEF At
    <3>2. lba * FrameSize <= table.size
      BY <1>2, <3>1
    <3> QED BY <1>2, <1>3, <2>1, <3>1, <3>2, LeastOfTwo
  <2>2. CASE ~Mds!m_bFlatOffsets
    BY <1>3, <2>2 DEF Held
  <2> QED BY <2>1, <2>2
<1>6. MdsInv'
  <2>1. (outcome = "sought" => (Held(m_nCurrentLBA) => filePos = At(m_nCurrentLBA)))'
    <3>1. (Held(m_nCurrentLBA)' <=> Held(lba)) /\ At(m_nCurrentLBA)' = At(lba)
      BY <1>1, SamePlace
    <3> QED BY <1>5, <3>1
  <2> QED BY <1>1, <1>4, <2>1 DEF MdsInv
<1>7. deviceImage' = deviceImage /\ devicePos' = lba * FrameSize
  BY <1>1, SameTable DEF deviceImage, devicePos
<1>8. UNCHANGED <<deviceImage, deviceTracked, deviceAstray>> /\ devicePos' \in Nat
  BY <1>1, <1>2, <1>7, NotAstray
<1> QED BY <1>1, <1>6, <1>8 DEF Device!Seek

\* Every step of the device of an Alcohol image is one of the contract.
LEMMA MdsStep ==
    ASSUME Mds!TablesAssumption, MdsInv, format = "mds", format' = format,
           Mds!Next \/ UNCHANGED Mds!vars
    PROVE  MdsInv' /\ [Device!Next]_(Device!vars)
<1>0. /\ deviceTracked = Len(deviceImage) /\ deviceAstray = FALSE
      /\ deviceTracked' = Len(deviceImage') /\ deviceAstray' = FALSE
  BY NotAstray
<1>1. CASE Mds!Load
  <2>1. /\ m_pFile = "none" /\ outcome = "none" /\ m_pFile' \in {"open", "closed"}
        /\ UNCHANGED <<table, filePos, m_nCurrentLBA, way, asked, got, outcome>>
    BY <1>1 DEF Mds!Load, Mds!reading, MdsInv
  <2>2. MdsInv'
    BY <2>1, SameTable DEF MdsInv
  <2>3. Device!Open
    <3>1. deviceImage = <<>> /\ devicePos' = devicePos
          /\ (deviceImage' = Mds!Image \/ deviceImage' = <<>>)
      BY <2>1, SameTable DEF deviceImage, devicePos
    <3>2. Mds!Image \in Seq(Seq(Int))
      BY MdsImage DEF MdsInv
    <3>3. Len(Mds!Image) \in Nat /\ Len(<<>>) = 0
      BY <3>2
    <3>4. deviceTracked' \in Nat
      BY <1>0, <3>1, <3>3
    <3> QED BY <1>0, <2>1, <3>1, <3>4 DEF Device!Open
  <2> QED BY <2>2, <2>3 DEF Device!Next
<1>2. CASE Mds!Delete
  <2>1. /\ m_pFile = "open" /\ outcome # "reading" /\ m_pFile' = "closed"
        /\ UNCHANGED <<table, filePos, m_nCurrentLBA, way, asked, got, outcome>>
    BY <1>2 DEF Mds!Delete, Mds!Idle, Mds!reading
  <2>2. MdsInv'
    <3>1. (outcome = "sought" => (Held(m_nCurrentLBA) => filePos = At(m_nCurrentLBA)))'
      <4>1. (Held(m_nCurrentLBA)' <=> Held(m_nCurrentLBA))
            /\ At(m_nCurrentLBA)' = At(m_nCurrentLBA)
        BY <2>1, SamePlace
      <4> QED BY <2>1, <4>1 DEF MdsInv
    <3> QED BY <2>1, <3>1 DEF MdsInv
  <2>3. Device!Close
    <3>1. deviceImage' = <<>> /\ devicePos' = devicePos
      BY <2>1 DEF deviceImage, devicePos
    <3>2. deviceTracked' = 0
      BY <1>0, <3>1
    <3> QED BY <1>0, <2>1, <3>1, <3>2 DEF Device!Close
  <2> QED BY <2>2, <2>3 DEF Device!Next
<1>3. CASE \E lba \in 0 .. Mds!m_nTotalFrames + Overrun : Mds!Seek(lba) \/ Mds!SeekFails(lba)
  BY <1>3, MdsSeeks DEF Device!Next
<1>4. CASE \E lba \in 0 .. Mds!m_nTotalFrames + Overrun : Mds!ReadSubchannel(lba)
  <2>1. /\ outcome = "whole"
        /\ UNCHANGED <<table, m_pFile, m_nCurrentLBA, way, asked, got, outcome>>
    BY <1>4 DEF Mds!ReadSubchannel, Mds!Idle, Mds!reading
  <2>2. filePos' \in Nat
    <3>1. PICK lba \in Nat : \E i \in Mds!FindTrackForLBA(lba) :
            filePos' = Mds!OffsetIn(Mds!tracks[i], lba) + FrameSize + SubchannelSize
      BY <1>4 DEF Mds!ReadSubchannel
    <3>2. PICK i \in Mds!FindTrackForLBA(lba) :
            filePos' = Mds!OffsetIn(Mds!tracks[i], lba) + FrameSize + SubchannelSize
      BY <3>1
    <3>3. i \in DOMAIN Mds!tracks /\ lba >= Mds!tracks[i].start /\ table \in Tables
      <4>1. /\ i \in DOMAIN Mds!tracks /\ table \in Tables
            /\ lba \in Mds!tracks[i].start .. Mds!tracks[i].start + Mds!tracks[i].length - 1
        BY <3>2 DEF Mds!FindTrackForLBA, MdsInv
      <4> QED BY <4>1, TrackFacts
    <3>4. /\ lba - Mds!tracks[i].start \in Nat /\ Mds!tracks[i].size \in Nat
          /\ Mds!tracks[i].offset \in Nat /\ FrameSize \in Nat /\ SubchannelSize \in Nat
      BY SMTT(20), <3>3, TrackFacts, TableFacts
    <3>5. (lba - Mds!tracks[i].start) * Mds!tracks[i].size \in Nat
      BY <3>4, TimesNat
    <3> DEFINE into == (lba - Mds!tracks[i].start) * Mds!tracks[i].size
    <3>6. filePos' = (Mds!tracks[i].offset + into) + FrameSize + SubchannelSize /\ into \in Nat
      BY <3>2, <3>5 DEF Mds!OffsetIn
    <3> HIDE DEF into
    <3> QED BY <3>4, <3>6
  <2>3. MdsInv'
    BY <2>1, <2>2 DEF MdsInv
  <2>4. UNCHANGED <<deviceImage, devicePos>>
    BY <2>1, SameTable DEF deviceImage, devicePos
  <2> QED BY <1>0, <2>1, <2>3, <2>4 DEF Device!vars
<1>5. CASE \E n \in Frames : Mds!Read(n)
  BY <1>5, MdsReadStarts DEF Device!Next
<1>6. CASE Mds!ReadAcrossGaps
  BY <1>6, GapsDeliver DEF Device!Next
<1>7. CASE Mds!ReadStripping
  BY <1>7, StrippingDelivers DEF Device!Next
<1>8. CASE Mds!ReadPlain
  BY <1>8, PlainDelivers DEF Device!Next
<1>9. CASE Mds!FileEnds
  BY <1>9, FileEndsIsEnd DEF Device!Next
<1>10. CASE Mds!CardFails
  <2>1. /\ outcome = "reading" /\ outcome' = "card"
        /\ UNCHANGED <<table, m_pFile, m_nCurrentLBA, way, asked, got>>
        /\ filePos' = filePos \/ filePos' = filePos + FrameSize
    BY <1>10 DEF Mds!CardFails, Mds!Turn
  <2>2. filePos' \in Nat
    BY <2>1, TableFacts DEF MdsInv
  <2>3. MdsInv'
    BY <2>1, <2>2 DEF MdsInv
  <2>4. UNCHANGED <<deviceImage, devicePos>>
    BY <2>1, SameTable DEF deviceImage, devicePos
  <2>5. Device!Fail
    BY <1>0, <2>1, <2>4 DEF Device!Fail
  <2> QED BY <2>3, <2>5 DEF Device!Next
<1>11. CASE Mds!ReadDone
  <2>1. /\ outcome = "reading" /\ Len(got) = asked /\ outcome' = "whole"
        /\ UNCHANGED <<table, m_pFile, filePos, m_nCurrentLBA, way, asked, got>>
    BY <1>11 DEF Mds!ReadDone
  <2>2. MdsInv'
    BY <2>1 DEF MdsInv
  <2>3. UNCHANGED <<deviceImage, devicePos>>
    BY <2>1, SameTable DEF deviceImage, devicePos
  <2>4. Device!End
    BY <1>0, <2>1, <2>3 DEF Device!End
  <2> QED BY <2>2, <2>4 DEF Device!Next
<1>12. CASE UNCHANGED Mds!vars
  <2>1. UNCHANGED <<table, m_pFile, filePos, m_nCurrentLBA, way, asked, got, outcome>>
    BY <1>12 DEF Mds!vars, Mds!reading
  <2>2. MdsInv'
    <3>1. /\ Mds!m_nTotalFrames' = Mds!m_nTotalFrames /\ Mds!m_bFlatOffsets' = Mds!m_bFlatOffsets
          /\ At(m_nCurrentLBA)' = At(m_nCurrentLBA) /\ Stride(m_nCurrentLBA)' = Stride(m_nCurrentLBA)
          /\ (Held(m_nCurrentLBA)' <=> Held(m_nCurrentLBA))
          /\ \A j : Held(m_nCurrentLBA + j)' <=> Held(m_nCurrentLBA + j)
      BY <2>1, SameTable, SamePlace
    <3>2. \A n : FramesLeft(n)' <=> FramesLeft(n)
      BY <2>1, <3>1, Zenon DEF FramesLeft
    <3>3. FileEnded' <=> FileEnded
      BY <2>1, <3>1 DEF FileEnded
    <3> QED BY <2>1, <3>1, <3>2, <3>3 DEF MdsInv
  <2>3. UNCHANGED <<deviceImage, devicePos>>
    BY <2>1, SameTable DEF deviceImage, devicePos
  <2> QED BY <1>0, <2>1, <2>2, <2>3 DEF Device!vars
<1> QED
  BY <1>1, <1>2, <1>3, <1>4, <1>5, <1>6, <1>7, <1>8, <1>9, <1>10, <1>11, <1>12 DEF Mds!Next

-----------------------------------------------------------------------------
(* A compressed disc: its tracks tile it                                     *)

nTracks == Len(chd.tracks)

LEMMA DiscFacts ==
    ASSUME Chd!DiscsAssumption, chd \in Discs
    PROVE  /\ FrameSize \in Nat \ {0} /\ FrameSize % 2 = 0 /\ FramesPerHunk \in Nat \ {0}
           /\ CookedSize \in 1 .. FrameSize /\ CookedSize % 2 = 0
           /\ nTracks \in Nat \ {0} /\ DOMAIN chd.tracks = 1 .. nTracks
           /\ \A i \in 1 .. nTracks : chd.tracks[i].frames \in Nat
           /\ Chd!totalFrames \in Nat
<1>1. chd.tracks \in Seq([type : {"AUDIO", "MODE1", "MODE1_RAW"}, frames : Nat])
      /\ chd.tracks # <<>>
  BY DEF Chd!DiscsAssumption
<1>2. nTracks \in Nat \ {0} /\ DOMAIN chd.tracks = 1 .. nTracks
  BY <1>1, EmptySeq, LenProperties DEF nTracks
<1>3. \A i \in 1 .. nTracks : chd.tracks[i].frames \in Nat
  <2> TAKE i \in 1 .. nTracks
  <2>1. chd.tracks[i] \in [type : {"AUDIO", "MODE1", "MODE1_RAW"}, frames : Nat]
    BY <1>1, <1>2, ElementOfSeq DEF nTracks
  <2> QED BY <2>1
<1>4. Chd!totalFrames \in Nat
  BY DEF Chd!DiscsAssumption, Chd!totalFrames
<1> QED BY <1>2, <1>3, <1>4 DEF Chd!DiscsAssumption

\* The function that adds the lengths up is well defined: it is on one track, and
\* on one track more than any on which it is.
LEMMA StartFrames ==
    ASSUME Chd!DiscsAssumption, chd \in Discs
    PROVE  \A i \in 1 .. nTracks + 1 :
             Chd!startFrame[i] =
                 IF i = 1 THEN 0 ELSE Chd!startFrame[i - 1] + chd.tracks[i - 1].frames
<1> DEFINE Sums(f, k) ==
             f = [i \in 1 .. k |-> IF i = 1 THEN 0 ELSE f[i - 1] + chd.tracks[i - 1].frames]
           N == nTracks + 1
           bad == {k \in 1 .. N : ~\E f : Sums(f, k)}
<1>1. N \in Nat /\ N \in 1 .. N
  BY DiscFacts
<1>2. bad = {}
  <2> SUFFICES ASSUME bad # {} PROVE FALSE
    OBVIOUS
  <2>1. PICK k \in bad : \A l \in bad : k <= l
    <3>1. bad \subseteq Nat
      OBVIOUS
    <3> HIDE DEF bad
    <3> QED BY <3>1, LeastNumber
  <2>2. k \in 1 .. N /\ ~\E f : Sums(f, k)
    BY <2>1
  <2>3. k # 1
    <3>1. Sums([i \in 1 .. 1 |-> 0], 1)
      OBVIOUS
    <3> QED BY <2>2, <3>1
  <2>4. k - 1 \in 1 .. N /\ ~(k <= k - 1)
    BY <1>1, <2>2, <2>3
  <2>5. PICK f : Sums(f, k - 1)
    BY <2>1, <2>4
  <2> DEFINE g == [i \in 1 .. k |-> IF i = k THEN f[k - 1] + chd.tracks[k - 1].frames ELSE f[i]]
  <2>6. Sums(g, k)
    <3>1. ASSUME NEW i \in 1 .. k
          PROVE  g[i] = IF i = 1 THEN 0 ELSE g[i - 1] + chd.tracks[i - 1].frames
      <4>1. CASE i = k
        <5>1. g[i] = f[k - 1] + chd.tracks[k - 1].frames
          BY <4>1
        <5>2. g[k - 1] = f[k - 1]
          BY <2>2, <2>4
        <5> QED BY <2>3, <4>1, <5>1, <5>2
      <4>2. CASE i # k
        <5>1. i \in 1 .. k - 1 /\ g[i] = f[i]
          BY <2>2, <4>2
        <5>2. f[i] = IF i = 1 THEN 0 ELSE f[i - 1] + chd.tracks[i - 1].frames
          BY <2>5, <5>1
        <5>3. i # 1 => i - 1 \in 1 .. k /\ i - 1 # k
          BY <2>2, <5>1
        <5>4. i # 1 => g[i - 1] = f[i - 1]
          BY <5>3
        <5> QED BY <5>1, <5>2, <5>4
      <4> QED BY <4>1, <4>2
    <3>2. g = [i \in 1 .. k |-> g[i]]
      OBVIOUS
    <3> HIDE DEF g
    <3> QED BY <3>1, <3>2
  <2> QED BY <2>2, <2>6
<1>3. \E f : Sums(f, N)
  BY <1>1, <1>2
<1>4. Chd!startFrame = CHOOSE f : Sums(f, N)
  BY DEF Chd!startFrame, nTracks
<1>5. Sums(Chd!startFrame, N)
  <2> HIDE DEF N, Sums
  <2> QED BY <1>3, <1>4
<1>6. ASSUME NEW f, Sums(f, N), NEW i \in 1 .. N
      PROVE  f[i] = IF i = 1 THEN 0 ELSE f[i - 1] + chd.tracks[i - 1].frames
  BY <1>6, Zenon
<1> QED BY <1>5, <1>6, Zenon

StartOf(i) == Chd!startFrame[i]

\* Each track starts where the one before it ends.
LEMMA NextStart ==
    ASSUME Chd!DiscsAssumption, chd \in Discs
    PROVE  /\ StartOf(1) = 0
           /\ \A i \in 1 .. nTracks : StartOf(i + 1) = StartOf(i) + chd.tracks[i].frames
           /\ \A i \in 1 .. nTracks + 1 : StartOf(i) \in Nat
           /\ Chd!endOfTracks = StartOf(nTracks + 1) /\ Chd!endOfTracks \in Nat
<1>1. nTracks \in Nat \ {0} /\ \A i \in 1 .. nTracks : chd.tracks[i].frames \in Nat
  BY DiscFacts
<1>2. StartOf(1) = 0
  <2>1. 1 \in 1 .. nTracks + 1
    BY <1>1
  <2> QED BY <2>1, StartFrames DEF StartOf
<1>3. ASSUME NEW i \in 1 .. nTracks PROVE StartOf(i + 1) = StartOf(i) + chd.tracks[i].frames
  <2>1. i + 1 \in 1 .. nTracks + 1 /\ i + 1 # 1 /\ (i + 1) - 1 = i
    BY <1>1
  <2> QED BY <2>1, StartFrames DEF StartOf
<1>4. \A i \in 1 .. nTracks + 1 : StartOf(i) \in Nat
  <2> DEFINE bad == {i \in 1 .. nTracks + 1 : StartOf(i) \notin Nat}
  <2> SUFFICES ASSUME bad # {} PROVE FALSE
    OBVIOUS
  <2>1. PICK k \in bad : \A l \in bad : k <= l
    <3>1. bad \subseteq Nat
      BY <1>1
    <3> HIDE DEF bad
    <3> QED BY <3>1, LeastNumber
  <2>2. k # 1 /\ k \in 1 .. nTracks + 1
    BY <1>2, <2>1
  <2>3. k - 1 \in 1 .. nTracks /\ k - 1 \in 1 .. nTracks + 1 /\ (k - 1) + 1 = k /\ ~(k <= k - 1)
    BY <1>1, <2>2
  <2>4. StartOf(k - 1) \in Nat
    BY <2>1, <2>3
  <2>5. StartOf(k) = StartOf(k - 1) + chd.tracks[k - 1].frames
    BY <1>3, <2>3
  <2> QED BY <1>1, <2>1, <2>3, <2>4, <2>5
<1>5. Chd!endOfTracks = StartOf(nTracks + 1)
  BY DEF Chd!endOfTracks, StartOf, nTracks
<1>6. nTracks + 1 \in 1 .. nTracks + 1
  BY <1>1
<1> QED BY <1>2, <1>3, <1>4, <1>5, <1>6

LEMMA StartsRise ==
    ASSUME Chd!DiscsAssumption, chd \in Discs,
           NEW i \in 1 .. nTracks + 1, NEW j \in 1 .. nTracks + 1, i <= j
    PROVE  StartOf(i) <= StartOf(j)
<1> DEFINE bad == {k \in 1 .. nTracks + 1 : i <= k /\ ~(StartOf(i) <= StartOf(k))}
<1>1. nTracks \in Nat \ {0} /\ \A k \in 1 .. nTracks : chd.tracks[k].frames \in Nat
  BY DiscFacts
<1> SUFFICES ASSUME bad # {} PROVE FALSE
  OBVIOUS
<1>2. PICK k \in bad : \A l \in bad : k <= l
  <2>1. bad \subseteq Nat
    BY <1>1
  <2> HIDE DEF bad
  <2> QED BY <2>1, LeastNumber
<1>3. k \in 1 .. nTracks + 1 /\ i <= k /\ ~(StartOf(i) <= StartOf(k)) /\ StartOf(i) \in Nat
  BY <1>2, NextStart
<1>4. k # i
  BY <1>3
<1>5. k - 1 \in 1 .. nTracks /\ k - 1 \in 1 .. nTracks + 1 /\ (k - 1) + 1 = k /\ ~(k <= k - 1)
      /\ i <= k - 1
  BY <1>1, <1>3, <1>4
<1>6. StartOf(i) <= StartOf(k - 1)
  BY <1>2, <1>5
<1>7. StartOf(k) = StartOf(k - 1) + chd.tracks[k - 1].frames /\ StartOf(k - 1) \in Nat
  BY <1>5, NextStart
<1> QED BY <1>1, <1>3, <1>5, <1>6, <1>7

\* A frame is in a track when it is between two starts.
LEMMA InTrackFacts ==
    ASSUME Chd!DiscsAssumption, chd \in Discs, NEW i \in 1 .. nTracks, NEW lba \in Nat
    PROVE  /\ Chd!InTrack(i, lba) <=> StartOf(i) <= lba /\ lba < StartOf(i + 1)
           /\ DOMAIN Chd!m_tracks = 1 .. nTracks
           /\ Chd!m_tracks[i].type = chd.tracks[i].type
<1>1. DOMAIN chd.tracks = 1 .. nTracks /\ chd.tracks[i].frames \in Nat /\ StartOf(i) \in Nat
      /\ StartOf(i + 1) = StartOf(i) + chd.tracks[i].frames
  BY DiscFacts, NextStart
<1>2. Chd!m_tracks[i] = [type |-> chd.tracks[i].type, start |-> StartOf(i),
                         frames |-> chd.tracks[i].frames]
  BY <1>1 DEF Chd!m_tracks, StartOf
<1>3. DOMAIN Chd!m_tracks = 1 .. nTracks
  BY <1>1 DEF Chd!m_tracks
<1>4. Chd!InTrack(i, lba) <=> lba \in StartOf(i) .. StartOf(i) + chd.tracks[i].frames - 1
  BY <1>2 DEF Chd!InTrack
<1> QED BY <1>1, <1>2, <1>3, <1>4

\* Every frame up to the end of the tracks is in one track, and only one.
LEMMA OneTrack ==
    ASSUME Chd!DiscsAssumption, chd \in Discs, NEW lba \in 0 .. Chd!endOfTracks - 1
    PROVE  \E i \in 1 .. nTracks : Chd!TrackOf(lba) = {i} /\ Chd!InTrack(i, lba)
<1>1. nTracks \in Nat \ {0} /\ Chd!endOfTracks \in Nat /\ lba \in Nat
  BY DiscFacts, NextStart
<1> DEFINE S == {j \in 1 .. nTracks + 1 : lba < StartOf(j)}
<1>2. PICK j \in S : \A k \in S : j <= k
  <2>1. nTracks + 1 \in S /\ S \subseteq Nat
    BY <1>1, NextStart
  <2> HIDE DEF S
  <2> QED BY <2>1, LeastNumber
<1>3. j \in 1 .. nTracks + 1 /\ lba < StartOf(j) /\ j # 1
  BY <1>1, <1>2, NextStart
<1> DEFINE i == j - 1
<1>4. i \in 1 .. nTracks /\ i \in 1 .. nTracks + 1 /\ i + 1 = j /\ ~(j <= i)
  BY <1>1, <1>3
<1>5. i \notin S
  <2> HIDE DEF S, i
  <2> QED BY <1>2, <1>4
<1>6. StartOf(i) \in Nat /\ StartOf(i) <= lba
  BY <1>1, <1>4, <1>5, NextStart
<1> HIDE DEF i
<1>7. Chd!InTrack(i, lba)
  BY <1>1, <1>3, <1>4, <1>6, InTrackFacts
<1>8. ASSUME NEW k \in 1 .. nTracks, Chd!InTrack(k, lba) PROVE k = i
  <2>1. StartOf(k) <= lba /\ lba < StartOf(k + 1) /\ k + 1 \in 1 .. nTracks + 1
        /\ k \in 1 .. nTracks + 1 /\ StartOf(k) \in Nat /\ StartOf(k + 1) \in Nat
    <3>1. k + 1 \in 1 .. nTracks + 1 /\ k \in 1 .. nTracks + 1
      BY <1>1
    <3> QED BY <1>1, <1>8, <3>1, InTrackFacts, NextStart
  <2>2. ~(k + 1 <= i)
    <3>1. k + 1 <= i => StartOf(k + 1) <= StartOf(i)
      BY <1>4, <2>1, StartsRise
    <3> QED BY <1>1, <1>6, <2>1, <3>1
  <2>3. ~(j <= k)
    <3>1. j <= k => StartOf(j) <= StartOf(k)
      BY <1>3, <2>1, StartsRise
    <3>2. StartOf(j) \in Nat
      BY <1>3, NextStart
    <3> QED BY <1>1, <1>3, <2>1, <3>1, <3>2
  <2> QED BY <1>1, <1>3, <1>4, <2>2, <2>3
<1>9. Chd!TrackOf(lba) = {k \in 1 .. nTracks : Chd!InTrack(k, lba)}
  BY <1>1, <1>4, InTrackFacts DEF Chd!TrackOf
<1> QED BY <1>4, <1>7, <1>8, <1>9

\* And past their end in none.
LEMMA TracksInOrder ==
    ASSUME Chd!DiscsAssumption, chd \in Discs, NEW lba \in Nat
    PROVE  \/ Chd!TrackOf(lba) = {} /\ lba >= Chd!endOfTracks
           \/ \E i \in 1 .. nTracks : Chd!TrackOf(lba) = {i} /\ Chd!InTrack(i, lba)
<1>1. nTracks \in Nat \ {0} /\ Chd!endOfTracks \in Nat
      /\ DOMAIN Chd!m_tracks = 1 .. nTracks
  BY DiscFacts, NextStart DEF Chd!m_tracks
<1>2. CASE lba < Chd!endOfTracks
  BY <1>1, <1>2, OneTrack
<1>3. CASE lba >= Chd!endOfTracks
  <2>1. ASSUME NEW k \in 1 .. nTracks, Chd!InTrack(k, lba) PROVE FALSE
    <3>1. k + 1 \in 1 .. nTracks + 1 /\ nTracks + 1 \in 1 .. nTracks + 1 /\ k + 1 <= nTracks + 1
      BY <1>1
    <3>2. StartOf(k + 1) <= Chd!endOfTracks /\ StartOf(k + 1) \in Nat
      BY <3>1, StartsRise, NextStart
    <3>3. lba < StartOf(k + 1)
      BY <2>1, InTrackFacts
    <3> QED BY <1>1, <1>3, <3>2, <3>3
  <2>2. Chd!TrackOf(lba) = {}
    BY <1>1, <2>1 DEF Chd!TrackOf
  <2> QED BY <1>3, <2>2
<1> QED BY <1>1, <1>2, <1>3

-----------------------------------------------------------------------------
(* A compressed disc: the disc its callers see                               *)

AudioAt(lba) == \E i \in Chd!TrackOf(lba) : Chd!IsAudio(i)

\* A byte of a frame, of a pair that is swapped or not.
FrameByte(lba, k, swap) ==
    <<lba, IF ~swap THEN k - 1 ELSE IF k % 2 = 0 THEN k - 2 ELSE k>>

\* A byte of the disc.
ChdByte(lba, k) == FrameByte(lba, k, AudioAt(lba))

LEMMA SectorBytes ==
    ASSUME Chd!DiscsAssumption, chd \in Discs, NEW lba \in Nat, NEW k \in 1 .. FrameSize
    PROVE  Chd!Sector(lba)[k] = ChdByte(lba, k) /\ ChdByte(lba, k) \in Seq(Int)
<1>1. FrameSize \in Nat \ {0} /\ FrameSize % 2 = 0 /\ k \in Nat
  BY DiscFacts
<1> DEFINE stored == [i \in 1 .. FrameSize |-> <<lba, i - 1>>]
<1>2. k % 2 = 0 => k - 1 \in 1 .. FrameSize
  BY <1>1
<1>3. k % 2 # 0 => k + 1 \in 1 .. FrameSize
  BY <1>1
<1>4. CASE AudioAt(lba)
  <2>1. Chd!Sector(lba)[k] = IF k % 2 = 0 THEN stored[k - 1] ELSE stored[k + 1]
    BY <1>4 DEF Chd!Sector, AudioAt
  <2>2. k % 2 = 0 => stored[k - 1] = <<lba, k - 2>>
    <3>1. (k - 1) - 1 = k - 2
      BY <1>1
    <3> QED BY <1>2, <3>1
  <2>3. k % 2 # 0 => stored[k + 1] = <<lba, k>>
    <3>1. (k + 1) - 1 = k
      BY <1>1
    <3> QED BY <1>3, <3>1
  <2> QED BY <1>1, <1>4, <2>1, <2>2, <2>3 DEF ChdByte, FrameByte
<1>5. CASE ~AudioAt(lba)
  <2>1. Chd!Sector(lba)[k] = stored[k]
    BY <1>5 DEF Chd!Sector, AudioAt
  <2> QED BY <1>1, <1>5, <2>1 DEF ChdByte, FrameByte
<1> QED BY <1>4, <1>5

LEMMA ChdImage ==
    ASSUME Chd!DiscsAssumption, chd \in Discs
    PROVE  /\ Chd!Image \in Seq(Seq(Int))
           /\ Len(Chd!Image) = Chd!totalFrames * FrameSize
           /\ Chd!totalFrames * FrameSize \in Nat
           /\ \A lba \in 0 .. Chd!totalFrames - 1, k \in 1 .. FrameSize :
                Chd!Image[lba * FrameSize + k] = ChdByte(lba, k)
<1> DEFINE total == Chd!totalFrames
           N == total * FrameSize
           B(i) == Chd!Sector((i - 1) \div FrameSize)[((i - 1) % FrameSize) + 1]
<1>1. total \in Nat /\ FrameSize \in Nat \ {0} /\ N \in Nat
  BY DiscFacts, TimesNat
<1>2. Chd!Image = [i \in 1 .. N |-> B(i)]
  BY Zenon DEF Chd!Image
<1>3. \A i \in 1 .. N : B(i) \in Seq(Int)
  <2> TAKE i \in 1 .. N
  <2> DEFINE lba == (i - 1) \div FrameSize
             k == ((i - 1) % FrameSize) + 1
  <2>1. lba \in Nat /\ k \in 1 .. FrameSize
    <3>1. i - 1 \in Nat
      BY <1>1
    <3> HIDE DEF N
    <3> QED BY <1>1, <3>1, DivMod
  <2> HIDE DEF lba, k
  <2>2. Chd!Sector(lba)[k] \in Seq(Int)
    BY <2>1, SectorBytes
  <2> QED BY <2>2 DEF lba, k
<1>4. Chd!Image \in Seq(Seq(Int)) /\ Len(Chd!Image) = N
  <2> HIDE DEF N, B
  <2> QED BY <1>1, <1>2, <1>3
<1>5. ASSUME NEW lba \in 0 .. total - 1, NEW k \in 1 .. FrameSize
      PROVE  Chd!Image[lba * FrameSize + k] = ChdByte(lba, k)
  <2> DEFINE i == lba * FrameSize + k
  <2>1. lba \in Nat /\ lba + 1 \in Nat /\ k - 1 \in 0 .. FrameSize - 1 /\ lba + 1 <= total
    BY <1>1
  <2>2. (lba + 1) * FrameSize <= N /\ (lba + 1) * FrameSize = lba * FrameSize + FrameSize
        /\ lba * FrameSize \in Nat
    BY <1>1, <2>1, TimesLess, TimesPlus, TimesNat
  <2> HIDE DEF N, total
  <2>3. i \in 1 .. N /\ i - 1 = lba * FrameSize + (k - 1)
    BY <1>1, <2>1, <2>2
  <2>4. (i - 1) \div FrameSize = lba /\ ((i - 1) % FrameSize) + 1 = k
    BY <1>1, <2>1, <2>3, DivModUnique
  <2> HIDE DEF i
  <2>5. Chd!Image[i] = Chd!Sector(lba)[k]
    BY <1>2, <2>3, <2>4
  <2>6. Chd!Sector(lba)[k] = ChdByte(lba, k)
    BY <2>1, SectorBytes
  <2> QED BY <2>5, <2>6 DEF i
<1> QED BY <1>1, <1>4, <1>5

-----------------------------------------------------------------------------
(* A compressed disc: its reads                                              *)

\* The buffer holds the hunk that is said to be kept.  Reads begin at a frame and
\* are of an even number of bytes, so that no copy divides a pair.
ChdInv ==
    /\ chd \in Discs
    /\ m_chd \in {"none", "open", "closed"} /\ (m_chd = "none" => outcome = "none")
    /\ m_currentOffset \in Nat
    /\ m_hunkBuffer = m_cachedHunkNum
    /\ m_lastTrackIndex \in 0 .. nTracks
    /\ outcome = "sought" => \E lba \in Nat : m_currentOffset = lba * FrameSize
    /\ outcome = "reading" =>
          /\ m_chd = "open" /\ asked \in Nat /\ got \in Seq(Seq(Int)) /\ Len(got) <= asked
          /\ asked % 2 = 0 /\ Len(got) % 2 = 0 /\ m_currentOffset % 2 = 0

LEMMA SameDisc ==
    ASSUME UNCHANGED chd
    PROVE  /\ Chd!Image' = Chd!Image /\ nTracks' = nTracks
           /\ Chd!endOfTracks' = Chd!endOfTracks
           /\ m_lastTrackIndex' = m_lastTrackIndex => Chd!Astray' = Chd!Astray
<1>1. nTracks' = nTracks
  BY DEF nTracks
<1>2. Chd!startFrame' = Chd!startFrame
  BY Zenon DEF Chd!startFrame
<1>3. Chd!totalFrames' = Chd!totalFrames
  BY Zenon DEF Chd!totalFrames
<1>4. Chd!m_tracks' = Chd!m_tracks
  BY <1>2, Zenon DEF Chd!m_tracks
<1>5. ASSUME NEW lba PROVE Chd!TrackOf(lba)' = Chd!TrackOf(lba)
  BY <1>4, Zenon DEF Chd!TrackOf, Chd!InTrack
<1>6. ASSUME NEW i PROVE Chd!IsAudio(i)' = Chd!IsAudio(i)
  BY <1>4, Zenon DEF Chd!IsAudio
<1>7. Chd!Image' = Chd!Image
  <2>1. ASSUME NEW lba PROVE Chd!Sector(lba)' = Chd!Sector(lba)
    BY <1>5, <1>6, Zenon DEF Chd!Sector
  <2> QED BY <1>3, <2>1, Zenon DEF Chd!Image
<1>8. ASSUME m_lastTrackIndex' = m_lastTrackIndex PROVE Chd!Astray' = Chd!Astray
  <2>1. ASSUME NEW lba PROVE Chd!Strays(lba)' = Chd!Strays(lba)
    BY Zenon DEF Chd!Strays
  <2> QED BY <1>3, <1>5, <1>6, <1>8, <2>1, Zenon DEF Chd!Astray
<1>9. Chd!endOfTracks' = Chd!endOfTracks
  BY <1>2, Zenon DEF Chd!endOfTracks
<1> QED BY <1>1, <1>7, <1>8, <1>9

\* What the callers see of a disc that stays as it is.
LEMMA SameChdDevice ==
    ASSUME format = "chd", UNCHANGED <<format, chd, m_chd>>
    PROVE  /\ UNCHANGED <<deviceImage, deviceTracked>>
           /\ devicePos = m_currentOffset /\ devicePos' = m_currentOffset'
           /\ deviceAstray = Chd!Astray /\ deviceAstray' = Chd!Astray'
           /\ m_chd = "open" => deviceImage = Chd!Image
           /\ m_chd = "open" => deviceTracked = Chd!endOfTracks * FrameSize
<1>1. UNCHANGED deviceImage
  BY SameDisc DEF deviceImage
<1>2. UNCHANGED deviceTracked
  BY <1>1, SameDisc DEF deviceTracked
<1>3. Chd!Astray \in BOOLEAN /\ Chd!Astray' \in BOOLEAN
  BY DEF Chd!Astray
<1>4. deviceAstray = Chd!Astray /\ deviceAstray' = Chd!Astray'
  BY <1>3 DEF deviceAstray
<1> QED BY <1>1, <1>2, <1>4 DEF devicePos, deviceImage, deviceTracked

\* The part of a frame that a turn copies.
Copied(lba, off, c) == [i \in 1 .. c |-> <<lba, off + i - 1>>]

Taken(lba, off, c, swap) ==
    IF swap THEN Chd!Swapped(Copied(lba, off, c)) ELSE Copied(lba, off, c)

\* Pairs that are not divided are swapped in the copy as they are in the frame.
LEMMA CopiedByte ==
    ASSUME NEW lba \in Nat, NEW off \in Nat, NEW c \in Nat, NEW i \in 1 .. c,
           NEW swap \in BOOLEAN, off % 2 = 0, c % 2 = 0
    PROVE  /\ Taken(lba, off, c, swap)[i] = FrameByte(lba, off + i, swap)
           /\ FrameByte(lba, off + i, swap) \in Seq(Int)
<1> DEFINE copied == Copied(lba, off, c)
<1>1. DOMAIN copied = 1 .. c /\ Len(copied) = c
      /\ \A j \in 1 .. c : copied[j] = <<lba, off + j - 1>>
  BY DEF Copied
<1>2. i \in Nat /\ ((off + i) % 2 = 0 <=> i % 2 = 0)
  <2>1. i \in Nat
    OBVIOUS
  <2> QED BY <2>1, EvenPlus
<1> HIDE DEF copied
<1>3. CASE swap
  <2>1. Chd!Swapped(copied)[i] = IF i % 2 = 0 THEN copied[i - 1]
                                 ELSE IF i < Len(copied) THEN copied[i + 1] ELSE copied[i]
    BY <1>1 DEF Chd!Swapped
  <2>2. CASE i % 2 = 0
    <3>1. i - 1 \in 1 .. c /\ off + (i - 1) - 1 = (off + i) - 2
      BY <1>2, <2>2
    <3>2. copied[i - 1] = <<lba, (off + i) - 2>>
      BY <1>1, <3>1
    <3> QED BY <1>2, <1>3, <2>1, <2>2, <3>2 DEF FrameByte, Taken, copied
  <2>3. CASE i % 2 # 0
    <3>1. i + 1 \in 1 .. c /\ i < c /\ off + (i + 1) - 1 = off + i
      BY <1>2, <2>3
    <3>2. copied[i + 1] = <<lba, off + i>>
      BY <1>1, <3>1
    <3> QED BY <1>1, <1>2, <1>3, <2>1, <2>3, <3>1, <3>2 DEF FrameByte, Taken, copied
  <2> QED BY <2>2, <2>3
<1>4. CASE ~swap
  BY <1>1, <1>4 DEF FrameByte, Taken, copied
<1>5. FrameByte(lba, off + i, swap) \in Seq(Int)
  BY DEF FrameByte
<1> QED BY <1>3, <1>4, <1>5

\* A turn copies the part of the frame that the read wants, and in the byte order
\* of its track what the disc has there.
LEMMA CopyOfFrame ==
    ASSUME Chd!DiscsAssumption, chd \in Discs, NEW swap \in BOOLEAN,
           NEW lba \in Nat, NEW off \in Nat, off < FrameSize, off % 2 = 0,
           NEW c \in Nat, c % 2 = 0, off + c <= FrameSize
    PROVE  LET bytes == Taken(lba, off, c, swap)
           IN  /\ bytes \in Seq(Seq(Int)) /\ Len(bytes) = c
               /\ lba < Chd!totalFrames /\ swap = AudioAt(lba) =>
                     \A i \in 1 .. c : bytes[i] = Chd!Image[lba * FrameSize + off + i]
<1> DEFINE bytes == Taken(lba, off, c, swap)
<1>1. FrameSize \in Nat \ {0} /\ Chd!totalFrames \in Nat /\ lba * FrameSize \in Nat
  BY DiscFacts, TimesNat
<1>2. \A i \in 1 .. c : /\ bytes[i] = FrameByte(lba, off + i, swap)
                        /\ FrameByte(lba, off + i, swap) \in Seq(Int)
  BY ZenonT(30), CopiedByte
<1>3. bytes = [i \in 1 .. c |-> bytes[i]]
  <2>1. ASSUME NEW x, DOMAIN x = 1 .. c
        PROVE  Chd!Swapped(x) = [i \in 1 .. c |-> Chd!Swapped(x)[i]]
    BY <2>1 DEF Chd!Swapped
  <2> DEFINE copied == Copied(lba, off, c)
  <2>2. DOMAIN copied = 1 .. c /\ copied = [i \in 1 .. c |-> copied[i]]
    BY DEF Copied
  <2> HIDE DEF copied
  <2>3. Chd!Swapped(copied) = [i \in 1 .. c |-> Chd!Swapped(copied)[i]]
    BY <2>1, <2>2
  <2> QED BY <2>2, <2>3 DEF copied, Taken
<1> HIDE DEF bytes
<1>4. bytes \in Seq(Seq(Int)) /\ Len(bytes) = c
  <2> DEFINE f(i) == FrameByte(lba, off + i, swap)
  <2>1. \A i \in 1 .. c : f(i) \in Seq(Int)
    BY <1>2
  <2>2. bytes = [i \in 1 .. c |-> f(i)]
    BY <1>2, <1>3
  <2> HIDE DEF f
  <2> QED BY <2>1, <2>2
<1>5. ASSUME lba < Chd!totalFrames, swap = AudioAt(lba), NEW i \in 1 .. c
      PROVE  bytes[i] = Chd!Image[lba * FrameSize + off + i]
  <2>1. off + i \in 1 .. FrameSize /\ lba \in 0 .. Chd!totalFrames - 1
    BY <1>1, <1>5
  <2>2. Chd!Image[lba * FrameSize + (off + i)] = ChdByte(lba, off + i)
    BY <2>1, ChdImage
  <2>3. lba * FrameSize + (off + i) = lba * FrameSize + off + i
    <3> DEFINE a == lba * FrameSize
    <3>1. a \in Nat /\ i \in Nat
      BY <1>1
    <3> HIDE DEF a
    <3>2. a + (off + i) = a + off + i
      BY <3>1
    <3> QED BY <3>2 DEF a
  <2> QED BY <1>2, <1>5, <2>2, <2>3 DEF ChdByte
<1> QED BY <1>4, <1>5 DEF bytes

\* The track that a turn takes the frame to be in is the one it is in, unless the
\* device is astray; and it can only lose its track past the last one.
LEMMA TrackIsFound ==
    ASSUME Chd!DiscsAssumption, chd \in Discs, m_lastTrackIndex \in 0 .. nTracks,
           Chd!absoluteFrame \in Nat
    PROVE  /\ Chd!TrackNow \in 0 .. nTracks
           /\ ~Chd!Astray /\ Chd!absoluteFrame < Chd!totalFrames =>
                (AudioAt(Chd!absoluteFrame) <=> Chd!IsAudio(Chd!TrackNow))
           /\ Chd!TrackNow = 0 =>
                m_lastTrackIndex = 0 \/ Chd!absoluteFrame >= Chd!endOfTracks
<1> DEFINE lba == Chd!absoluteFrame
<1>1. nTracks \in Nat /\ DOMAIN Chd!m_tracks = 1 .. nTracks /\ Chd!totalFrames \in Nat
  BY DiscFacts DEF Chd!m_tracks
<1>2. CASE m_lastTrackIndex = 0 /\ Chd!Strays(lba)
  <2>1. Chd!TrackNow = 0
    BY <1>2 DEF Chd!TrackNow
  <2>2. ~Chd!IsAudio(0)
    BY DEF Chd!IsAudio
  <2>3. ~Chd!Astray /\ lba < Chd!totalFrames => ~AudioAt(lba)
    BY <1>1, <1>2 DEF Chd!Astray, AudioAt
  <2> QED BY <1>1, <1>2, <2>1, <2>2, <2>3
<1>3. CASE m_lastTrackIndex # 0 /\ Chd!InTrack(m_lastTrackIndex, lba)
  <2>1. m_lastTrackIndex \in Chd!TrackOf(lba)
    BY <1>1, <1>3 DEF Chd!TrackOf
  <2>2. Chd!TrackOf(lba) = {m_lastTrackIndex}
    BY <2>1, TracksInOrder
  <2>3. Chd!TrackNow = m_lastTrackIndex
    BY <1>3 DEF Chd!TrackNow
  <2> QED BY <1>3, <2>2, <2>3 DEF AudioAt
<1>4. CASE ~(m_lastTrackIndex = 0 /\ Chd!Strays(lba))
           /\ ~(m_lastTrackIndex # 0 /\ Chd!InTrack(m_lastTrackIndex, lba))
  <2>1. Chd!TrackNow = IF Chd!TrackOf(lba) = {} THEN 0 ELSE Chd!Min(Chd!TrackOf(lba))
    BY <1>4 DEF Chd!TrackNow
  <2>2. CASE Chd!TrackOf(lba) = {} /\ lba >= Chd!endOfTracks
    <3>1. Chd!TrackNow = 0 /\ ~AudioAt(lba) /\ ~Chd!IsAudio(0)
      BY <2>1, <2>2 DEF AudioAt, Chd!IsAudio
    <3> QED BY <1>1, <2>2, <3>1
  <2>3. CASE \E i \in 1 .. nTracks : Chd!TrackOf(lba) = {i} /\ Chd!InTrack(i, lba)
    <3>1. PICK i \in 1 .. nTracks : Chd!TrackOf(lba) = {i}
      BY <2>3
    <3>2. Chd!Min({i}) = i
      BY <1>1 DEF Chd!Min
    <3>3. Chd!TrackNow = i /\ i # 0
      BY <1>1, <2>1, <3>1, <3>2
    <3> QED BY <1>1, <3>1, <3>3 DEF AudioAt
  <2> QED BY <2>2, <2>3, TracksInOrder
<1> QED BY <1>2, <1>3, <1>4

\* Where a turn stands in its frame.
LEMMA FrameAndPlace ==
    ASSUME FrameSize \in Nat \ {0}, m_currentOffset \in Nat
    PROVE  /\ Chd!absoluteFrame \in Nat /\ Chd!offsetInSector \in Nat
           /\ Chd!offsetInSector < FrameSize /\ Chd!absoluteFrame * FrameSize \in Nat
           /\ m_currentOffset = Chd!absoluteFrame * FrameSize + Chd!offsetInSector
<1> DEFINE p == m_currentOffset
           lba == Chd!absoluteFrame
           off == Chd!offsetInSector
<1>1. p \in Nat
  OBVIOUS
<1> HIDE DEF p
<1>2. p \div FrameSize \in Nat /\ p % FrameSize \in 0 .. FrameSize - 1
      /\ p = (p \div FrameSize) * FrameSize + (p % FrameSize)
  BY <1>1, DivMod
<1>3. lba = p \div FrameSize /\ off = p % FrameSize
  BY DEF p, Chd!absoluteFrame, Chd!offsetInSector
<1> HIDE DEF lba, off
<1>4. lba \in Nat /\ off \in Nat /\ off < FrameSize /\ p = lba * FrameSize + off
  BY <1>2, <1>3
<1> QED BY <1>4, TimesNat DEF p, lba, off

\* A turn delivers the part of a frame, whichever hunk was kept.
LEMMA FrameDelivers ==
    ASSUME Chd!DiscsAssumption, ChdInv, format = "chd", format' = format, Chd!ReadFrame
    PROVE  ChdInv' /\ Device!Deliver
<1> DEFINE lba == Chd!absoluteFrame
           off == Chd!offsetInSector
           total == Chd!totalFrames
           left == asked - Len(got)
           rest == FrameSize - off
           c == Chd!Min({left, rest})
           swap == Chd!IsAudio(Chd!TrackNow)
           bytes == Taken(lba, off, c, swap)
           end == Chd!endOfTracks
<1>1. /\ outcome = "reading" /\ Len(got) < asked /\ chd \in Discs /\ m_chd = "open"
      /\ UNCHANGED <<format, chd, m_chd, block, asked, outcome>>
      /\ m_cachedHunkNum' = Chd!hunkNum /\ m_lastTrackIndex' = Chd!TrackNow
      /\ m_hunkBuffer' = Chd!hunkNum /\ m_currentOffset' = m_currentOffset + c
  BY DEF Chd!ReadFrame, Chd!Turn, ChdInv
<1>2. /\ FrameSize \in Nat \ {0} /\ FrameSize % 2 = 0 /\ FramesPerHunk \in Nat \ {0}
      /\ total \in Nat /\ end \in Nat
  BY <1>1, DiscFacts, NextStart
<1>3. /\ m_currentOffset \in Nat /\ asked \in Nat /\ got \in Seq(Seq(Int)) /\ Len(got) \in Nat
      /\ asked % 2 = 0 /\ Len(got) % 2 = 0 /\ m_currentOffset % 2 = 0
  <2>1. /\ m_currentOffset \in Nat /\ asked \in Nat /\ got \in Seq(Seq(Int))
        /\ asked % 2 = 0 /\ Len(got) % 2 = 0 /\ m_currentOffset % 2 = 0
    BY <1>1, Zenon DEF ChdInv
  <2>2. Len(got) \in Nat
    BY <2>1, LenProperties
  <2> QED BY <2>1, <2>2
<1>4. /\ lba \in Nat /\ off \in Nat /\ off < FrameSize /\ lba * FrameSize \in Nat
      /\ m_currentOffset = lba * FrameSize + off
  BY <1>2, <1>3, FrameAndPlace
<1>5. off % 2 = 0
  <2>1. (lba * FrameSize) % 2 = 0
    BY <1>2, <1>4, EvenTimes
  <2>2. (lba * FrameSize + off) % 2 = off % 2
    BY <1>4, <2>1, EvenPlus
  <2> QED BY <1>3, <1>4, <2>2
<1>6. c \in Nat /\ c > 0 /\ c <= left /\ off + c <= FrameSize /\ c % 2 = 0
  <2>1. left \in Nat /\ left > 0 /\ left % 2 = 0
    <3> DEFINE d == Len(got)
    <3>1. d \in Nat /\ asked \in Nat /\ d < asked /\ d % 2 = 0 /\ asked % 2 = 0
      BY <1>1, <1>3
    <3> HIDE DEF d
    <3>2. asked - d \in Nat /\ asked - d > 0 /\ (asked - d) % 2 = 0
      BY <3>1, EvenMinus
    <3> QED BY <3>2 DEF d
  <2>2. rest \in Nat /\ rest > 0 /\ rest % 2 = 0 /\ off + rest = FrameSize
    <3> HIDE DEF off
    <3> QED BY <1>2, <1>4, <1>5, EvenMinus
  <2> HIDE DEF left, rest
  <2>3. c \in {left, rest} /\ c <= left /\ c <= rest
    BY <2>1, <2>2 DEF Chd!Min
  <2> HIDE DEF c, off
  <2> QED BY <1>2, <1>4, <2>1, <2>2, <2>3
<1>7. Chd!FrameInBuffer = lba
  BY <1>1, <1>2, <1>4, DivMod DEF Chd!FrameInBuffer, Chd!hunkNum
<1>8. /\ Chd!TrackNow \in 0 .. nTracks
      /\ ~Chd!Astray /\ lba < total => (AudioAt(lba) <=> swap)
      /\ Chd!TrackNow = 0 => m_lastTrackIndex = 0 \/ lba >= end
  BY <1>1, <1>4, TrackIsFound DEF ChdInv
<1>9. got' = got \o bytes
  BY <1>7 DEF Chd!ReadFrame, Copied, Taken
<1>10. swap \in BOOLEAN /\ AudioAt(lba) \in BOOLEAN
  BY DEF Chd!IsAudio, AudioAt
<1>11. /\ bytes \in Seq(Seq(Int)) /\ Len(bytes) = c
       /\ lba < total /\ swap = AudioAt(lba) =>
             \A i \in 1 .. c : bytes[i] = Chd!Image[lba * FrameSize + off + i]
  <2> HIDE DEF lba, off, c, swap
  <2>1. /\ Chd!DiscsAssumption /\ chd \in Discs /\ swap \in BOOLEAN /\ lba \in Nat /\ off \in Nat
        /\ off < FrameSize /\ off % 2 = 0 /\ c \in Nat /\ c % 2 = 0 /\ off + c <= FrameSize
    BY <1>1, <1>4, <1>5, <1>6, <1>10, Zenon
  <2> QED BY ONLY <2>1, CopyOfFrame, ZenonT(30)
<1> HIDE DEF bytes, c, off, lba, rest, swap, end
<1>12. /\ got' \in Seq(Seq(Int)) /\ Len(got') - Len(got) = c
       /\ \A i \in DOMAIN got : got'[i] = got[i]
       /\ \A i \in 1 .. c : got'[Len(got) + i] = bytes[i]
  <2>1. got \in Seq(Seq(Int)) /\ bytes \in Seq(Seq(Int))
    BY <1>3, <1>11
  <2>2. /\ got \o bytes \in Seq(Seq(Int)) /\ Len(got \o bytes) - Len(got) = Len(bytes)
        /\ \A i \in DOMAIN got : (got \o bytes)[i] = got[i]
        /\ \A i \in 1 .. Len(bytes) : (got \o bytes)[Len(got) + i] = bytes[i]
    BY ONLY <2>1, JoinedBytes
  <2> QED BY <1>9, <1>11, <2>2, Zenon
<1>13. /\ m_currentOffset' \in Nat /\ m_currentOffset' % 2 = 0
       /\ Len(got') % 2 = 0 /\ Len(got') <= asked /\ c \in 1 .. asked - Len(got)
  <2>1. (m_currentOffset + c) % 2 = 0 /\ (Len(got) + c) % 2 = 0
    BY <1>3, <1>6, EvenPlus
  <2>2. Len(got') \in Nat
    BY <1>12, LenProperties
  <2>3. Len(got') = Len(got) + c /\ Len(got') <= asked /\ c \in 1 .. asked - Len(got)
    <3> DEFINE d == Len(got)
               e == Len(got')
    <3>1. d \in Nat /\ e \in Nat /\ c \in Nat /\ c > 0 /\ c <= asked - d /\ e - d = c
      BY <1>3, <1>6, <1>12, <2>2, Zenon
    <3> HIDE DEF d, e
    <3>2. e = d + c /\ e <= asked /\ c \in 1 .. asked - d
      BY <1>3, <3>1
    <3> QED BY <3>2 DEF d, e
  <2> QED BY <1>1, <1>3, <1>6, <2>1, <2>3
<1>14. ChdInv'
  <2>1. m_lastTrackIndex' \in 0 .. nTracks'
    BY <1>1, <1>8, SameDisc
  <2> QED BY <1>1, <1>3, <1>12, <1>13, <2>1 DEF ChdInv
<1>15. /\ UNCHANGED <<deviceImage, deviceTracked>>
       /\ deviceImage = Chd!Image /\ deviceTracked = end * FrameSize
       /\ devicePos = m_currentOffset /\ devicePos' = m_currentOffset + c
       /\ deviceAstray = Chd!Astray /\ deviceAstray' = Chd!Astray'
  BY <1>1, SameChdDevice DEF end
<1>16. Len(deviceImage) = total * FrameSize /\ total * FrameSize \in Nat
  BY <1>1, <1>15, ChdImage
<1>17. \/ deviceAstray
       \/ \A i \in 1 .. c :
            devicePos + i <= Len(deviceImage) => got'[Len(got) + i] = deviceImage[devicePos + i]
  <2> SUFFICES ASSUME ~deviceAstray, NEW i \in 1 .. c, devicePos + i <= Len(deviceImage)
               PROVE  got'[Len(got) + i] = deviceImage[devicePos + i]
    OBVIOUS
  <2> DEFINE a == lba * FrameSize
             z == total * FrameSize
  <2>1. devicePos + i = a + off + i /\ a + off + i <= z /\ a < z
    <3>1. a \in Nat /\ z \in Nat /\ devicePos = a + off /\ Len(deviceImage) = z
      BY <1>4, <1>15, <1>16
    <3> HIDE DEF a, z
    <3> QED BY <1>4, <1>6, <3>1
  <2>2. lba < total
    BY <1>2, <1>4, <2>1, LessTimes
  <2>3. swap = AudioAt(lba)
    BY <1>8, <1>10, <1>15, <2>2
  <2>4. bytes[i] = Chd!Image[a + off + i]
    BY <1>11, <2>2, <2>3
  <2> QED BY <1>12, <1>15, <2>1, <2>4
<1>18. deviceAstray' \in BOOLEAN /\ (deviceAstray' => deviceAstray \/ devicePos' > deviceTracked)
  <2>1. Chd!Astray' \in BOOLEAN
    BY DEF Chd!Astray
  <2> SUFFICES ASSUME Chd!Astray' PROVE Chd!Astray \/ devicePos' > deviceTracked
    BY <1>15, <2>1
  <2>2. Chd!TrackNow = 0
    BY <1>1 DEF Chd!Astray
  <2>3. CASE m_lastTrackIndex = 0
    BY <1>1, <2>2, <2>3, SameDisc
  <2>4. CASE lba >= end
    <3> DEFINE a == lba * FrameSize
               z == end * FrameSize
    <3>1. z <= a
      BY <1>2, <1>4, <2>4, TimesLess
    <3>2. a \in Nat /\ z \in Nat /\ devicePos' = a + off + c /\ deviceTracked = z
      BY <1>2, <1>4, <1>15, TimesNat
    <3> HIDE DEF a, z
    <3> QED BY <1>4, <1>6, <3>1, <3>2
  <2> QED BY <1>8, <2>2, <2>3, <2>4
<1>19. devicePos' = devicePos + c /\ UNCHANGED <<asked, outcome>> /\ outcome = "reading"
  BY <1>1, <1>15
<1> HIDE DEF left, total
<1> QED BY <1>12, <1>13, <1>14, <1>15, <1>17, <1>18, <1>19 DEF Device!Deliver

\* A hunk that the container does not have is behind the disc.
LEMMA NoHunkIsEnd ==
    ASSUME Chd!DiscsAssumption, ChdInv, m_chd = "open", ~Chd!hunkThere
    PROVE  m_currentOffset >= Len(Chd!Image)
<1> DEFINE lba == Chd!absoluteFrame
           off == Chd!offsetInSector
           total == Chd!totalFrames
           H == FramesPerHunk
           q == lba \div H
           t == (total + H - 1) \div H
<1>1. chd \in Discs /\ m_currentOffset \in Nat
  BY DEF ChdInv
<1>2. FrameSize \in Nat \ {0} /\ H \in Nat \ {0} /\ total \in Nat
  BY <1>1, DiscFacts
<1>3. /\ lba \in Nat /\ off \in Nat /\ m_currentOffset = lba * FrameSize + off
      /\ lba * FrameSize \in Nat
  BY <1>1, <1>2, FrameAndPlace
<1>4. ~(q < t)
  BY DEF Chd!hunkThere, Chd!hunkNum, Chd!totalHunks
<1> HIDE DEF lba, off, total, H
<1>5. total + H - 1 \in Nat
  BY <1>2
<1>6. /\ q \in Nat /\ lba % H \in 0 .. H - 1 /\ lba = q * H + (lba % H)
      /\ t \in Nat /\ (total + H - 1) % H \in 0 .. H - 1
      /\ total + H - 1 = t * H + ((total + H - 1) % H)
  BY <1>2, <1>3, <1>5, DivMod
<1>7. lba >= total
  <2> DEFINE r == lba % H
             s == (total + H - 1) % H
             a == q * H
             b == t * H
  <2>1. t * H <= q * H /\ q * H \in Nat /\ t * H \in Nat
    <3> HIDE DEF q, t
    <3> QED BY <1>2, <1>4, <1>6, TimesLess, TimesNat
  <2>2. /\ a \in Nat /\ b \in Nat /\ b <= a /\ r \in 0 .. H - 1 /\ s \in 0 .. H - 1
        /\ lba = a + r /\ total + H - 1 = b + s
    BY <1>6, <2>1
  <2> HIDE DEF a, b, r, s
  <2> QED BY <1>2, <1>3, <2>2
<1>8. total * FrameSize <= lba * FrameSize /\ total * FrameSize \in Nat
  BY <1>2, <1>3, <1>7, TimesLess, TimesNat
<1>9. Len(Chd!Image) = total * FrameSize
  BY <1>1, ChdImage DEF total
<1> DEFINE a == lba * FrameSize
           z == total * FrameSize
<1>10. a \in Nat /\ z \in Nat /\ z <= a /\ m_currentOffset = a + off /\ Len(Chd!Image) = z
  BY <1>3, <1>8, <1>9
<1> HIDE DEF a, z
<1> QED BY <1>3, <1>10

\* A read of blocks begins at a frame and is of an even number of bytes.
LEMMA ChdReadStarts ==
    ASSUME Chd!DiscsAssumption, ChdInv, format = "chd", format' = format,
           NEW n \in Frames, Chd!Read(n)
    PROVE  ChdInv' /\ Device!Read
<1>1. /\ m_chd = "open" /\ outcome = "sought" /\ outcome' = "reading" /\ chd \in Discs
      /\ UNCHANGED <<format, chd, m_chd, m_currentOffset, m_cachedHunkNum, m_hunkBuffer,
                     m_lastTrackIndex>>
      /\ asked' = n * block' /\ got' = <<>>
      /\ block' \in {CookedSize, FrameSize}
  BY DEF Chd!Read, Chd!Idle, Chd!hunk, Chd!CueSectorLength, ChdInv
<1>2. /\ FrameSize \in Nat \ {0} /\ FrameSize % 2 = 0 /\ n \in Nat \ {0}
      /\ block' \in Nat \ {0} /\ block' % 2 = 0 /\ m_currentOffset \in Nat
  <2>1. n \in Nat \ {0}
    BY DEF Chd!DiscsAssumption
  <2>2. /\ FrameSize \in Nat \ {0} /\ FrameSize % 2 = 0
        /\ CookedSize \in 1 .. FrameSize /\ CookedSize % 2 = 0
    BY <1>1, DiscFacts
  <2>3. ASSUME NEW b \in {CookedSize, FrameSize} PROVE b \in Nat \ {0} /\ b % 2 = 0
    BY <2>2
  <2>4. m_currentOffset \in Nat
    BY DEF ChdInv
  <2>5. block' \in Nat \ {0} /\ block' % 2 = 0
    BY Zenon, <1>1, <2>3
  <2> QED BY <2>1, <2>2, <2>4, <2>5
<1>3. PICK lba \in Nat : m_currentOffset = lba * FrameSize
  BY <1>1 DEF ChdInv
<1>4. asked' \in Nat \ {0} /\ asked' % 2 = 0
  <2> DEFINE b == block'
  <2> HIDE DEF b
  <2>1. b \in Nat \ {0} /\ b % 2 = 0
    BY <1>2 DEF b
  <2>2. n * b \in Nat /\ (n * b) % 2 = 0 /\ 1 * b <= n * b
    <3>1. n * b \in Nat /\ (n * b) % 2 = 0
      BY <1>2, <2>1, TimesNat, EvenTimes
    <3>2. n \in Nat /\ 1 <= n
      BY <1>2
    <3>3. 1 * b <= n * b
      BY <2>1, <3>2, TimesLess
    <3> QED BY <3>1, <3>3
  <2>3. n * b \in Nat \ {0}
    BY <2>1, <2>2
  <2> QED BY <1>1, <2>2, <2>3 DEF b
<1>5. m_currentOffset % 2 = 0
  BY <1>2, <1>3, EvenTimes
<1>6. ChdInv'
  <2>1. Len(got') = 0 /\ got' \in Seq(Seq(Int)) /\ 0 % 2 = 0
    BY <1>1
  <2>2. m_lastTrackIndex' \in 0 .. nTracks'
    BY <1>1, SameDisc DEF ChdInv
  <2>3. asked' \in Nat /\ asked' % 2 = 0 /\ Len(got') <= asked' /\ Len(got') % 2 = 0
    <3>1. asked' \in Nat /\ asked' % 2 = 0
      BY <1>4, Zenon
    <3>2. \A a \in Nat : 0 <= a
      OBVIOUS
    <3> QED BY <2>1, <3>1, <3>2, Zenon
  <2>4. m_currentOffset' \in Nat /\ m_currentOffset' % 2 = 0 /\ m_hunkBuffer' = m_cachedHunkNum'
        /\ chd' \in Discs /\ m_chd' = "open"
    BY <1>1, <1>2, <1>5 DEF ChdInv
  <2> QED BY <1>1, <2>1, <2>2, <2>3, <2>4 DEF ChdInv
<1>7. UNCHANGED <<deviceImage, deviceTracked, devicePos, deviceAstray>>
  BY <1>1, SameChdDevice, SameDisc
<1> QED BY <1>1, <1>4, <1>6, <1>7 DEF Device!Read

\* Every step of the device of a compressed disc is one of the contract.
LEMMA ChdStep ==
    ASSUME Chd!DiscsAssumption, ChdInv, format = "chd", format' = format,
           Chd!Next \/ UNCHANGED Chd!vars
    PROVE  ChdInv' /\ [Device!Next]_(Device!vars)
<1>1. ASSUME UNCHANGED <<chd, m_currentOffset, m_lastTrackIndex, asked, got>>,
             m_hunkBuffer' = m_cachedHunkNum', m_chd' \in {"none", "open", "closed"},
             m_chd' = "none" => outcome' = "none", outcome' \in {outcome, "whole", "card", "end"},
             outcome' = "reading" => m_chd' = "open"
      PROVE  ChdInv'
  <2>1. nTracks' = nTracks
    BY <1>1, SameDisc
  <2>2. outcome' = "sought" => (\E lba \in Nat : m_currentOffset = lba * FrameSize)'
    BY <1>1 DEF ChdInv
  <2> QED BY <1>1, <2>1, <2>2 DEF ChdInv
<1>2. /\ chd \in Discs /\ Chd!endOfTracks * FrameSize \in Nat
      /\ FrameSize \in Nat \ {0} /\ Chd!totalFrames \in Nat /\ Overrun \in Nat
  <2>1. chd \in Discs
    BY DEF ChdInv
  <2>2. FrameSize \in Nat \ {0} /\ Chd!totalFrames \in Nat
    BY <2>1, DiscFacts
  <2>3. Chd!endOfTracks * FrameSize \in Nat
    BY <2>1, <2>2, NextStart, TimesNat
  <2> QED BY <2>1, <2>2, <2>3 DEF Chd!DiscsAssumption
<1>3. CASE Chd!Load
  <2>1. /\ m_chd = "none" /\ outcome = "none" /\ m_chd' \in {"open", "closed"}
        /\ UNCHANGED <<chd, m_currentOffset, m_cachedHunkNum, m_hunkBuffer, m_lastTrackIndex,
                       block, asked, got, outcome>>
    BY <1>3 DEF Chd!Load, Chd!reading, Chd!hunk, ChdInv
  <2>2. ChdInv'
    BY <1>1, <2>1 DEF ChdInv
  <2>3. deviceImage = <<>> /\ UNCHANGED devicePos
    BY <2>1 DEF deviceImage, devicePos
  <2>4. UNCHANGED deviceAstray
    BY <2>1, SameDisc DEF deviceAstray
  <2>5. deviceTracked' \in Nat
    <3>1. CASE m_chd' = "open"
      <4>1. deviceTracked' = Chd!endOfTracks' * FrameSize
        BY <3>1 DEF deviceTracked
      <4> QED BY <1>2, <2>1, <4>1, SameDisc
    <3>2. CASE m_chd' # "open"
      <4>1. deviceImage' = <<>> /\ deviceTracked' = Len(deviceImage')
        BY <3>2 DEF deviceImage, deviceTracked
      <4> QED BY <4>1
    <3> QED BY <3>1, <3>2
  <2>6. Device!Open
    BY <2>1, <2>3, <2>4, <2>5 DEF Device!Open
  <2> QED BY <2>2, <2>6 DEF Device!Next
<1>4. CASE Chd!Delete
  <2>1. /\ m_chd = "open" /\ outcome # "reading" /\ m_chd' = "closed"
        /\ UNCHANGED <<chd, m_currentOffset, m_cachedHunkNum, m_hunkBuffer, m_lastTrackIndex,
                       block, asked, got, outcome>>
    BY <1>4 DEF Chd!Delete, Chd!Idle, Chd!reading, Chd!hunk
  <2>2. ChdInv'
    BY <1>1, <2>1 DEF ChdInv
  <2>3. deviceImage' = <<>> /\ deviceTracked' = Len(deviceImage') /\ UNCHANGED devicePos
    BY <2>1 DEF deviceImage, devicePos, deviceTracked
  <2>4. UNCHANGED deviceAstray
    BY <2>1, SameDisc DEF deviceAstray
  <2>5. deviceTracked' = 0
    BY <2>3
  <2>6. Device!Close
    BY <2>1, <2>3, <2>4, <2>5 DEF Device!Close
  <2> QED BY <2>2, <2>6 DEF Device!Next
<1>5. CASE \E lba \in 0 .. Chd!totalFrames + Overrun : Chd!Seek(lba)
  <2>1. PICK lba \in 0 .. Chd!totalFrames + Overrun : Chd!Seek(lba)
    BY <1>5
  <2>2. /\ m_chd = "open" /\ outcome # "reading" /\ outcome' = "sought"
        /\ UNCHANGED <<chd, m_chd, m_cachedHunkNum, m_hunkBuffer, m_lastTrackIndex>>
        /\ asked' = 0 /\ got' = <<>> /\ m_currentOffset' = lba * FrameSize
    BY <2>1 DEF Chd!Seek, Chd!Idle, Chd!hunk
  <2>3. lba \in Nat /\ m_currentOffset' \in Nat
    BY <1>2, <2>2, TimesNat
  <2>4. ChdInv'
    <3>1. nTracks' = nTracks
      BY <2>2, SameDisc
    <3>2. (\E l \in Nat : m_currentOffset = l * FrameSize)'
      BY <2>2, <2>3
    <3> QED BY <2>2, <2>3, <3>1, <3>2 DEF ChdInv
  <2>5. UNCHANGED <<deviceImage, deviceTracked, deviceAstray>> /\ devicePos' \in Nat
    BY <2>2, <2>3, SameChdDevice, SameDisc
  <2>6. Device!Seek
    BY <2>2, <2>5 DEF Device!Seek
  <2> QED BY <2>4, <2>6 DEF Device!Next
<1>6. CASE \E lba \in 0 .. Chd!totalFrames - 1 : Chd!ReadSubchannel(lba)
  <2>1. /\ m_hunkBuffer' = m_cachedHunkNum'
        /\ UNCHANGED <<chd, m_chd, m_currentOffset, m_lastTrackIndex, block, asked, got, outcome>>
    BY <1>6 DEF Chd!ReadSubchannel, Chd!Idle, Chd!reading, ChdInv
  <2>2. ChdInv'
    BY <1>1, <2>1 DEF ChdInv
  <2>3. UNCHANGED Device!vars
    BY <2>1, SameChdDevice, SameDisc DEF Device!vars
  <2> QED BY <2>2, <2>3
<1>7. CASE \E n \in Frames : Chd!Read(n)
  BY <1>7, ChdReadStarts DEF Device!Next
<1>8. CASE Chd!ReadFrame
  BY <1>8, FrameDelivers DEF Device!Next
<1>9. CASE Chd!CardFails
  <2>1. /\ outcome = "reading" /\ outcome' = "card"
        /\ UNCHANGED <<chd, m_chd, m_currentOffset, m_cachedHunkNum, m_hunkBuffer,
                       m_lastTrackIndex, asked, got>>
    BY <1>9 DEF Chd!CardFails, Chd!Turn, Chd!hunk
  <2>2. ChdInv'
    BY <1>1, <2>1 DEF ChdInv
  <2>3. Device!Fail
    BY <2>1, SameChdDevice, SameDisc DEF Device!Fail
  <2> QED BY <2>2, <2>3 DEF Device!Next
<1>10. CASE Chd!ReadPastHunks
  <2>1. /\ outcome = "reading" /\ Len(got) < asked /\ outcome' = "end" /\ ~Chd!hunkThere
        /\ UNCHANGED <<chd, m_chd, m_currentOffset, m_cachedHunkNum, m_hunkBuffer,
                       m_lastTrackIndex, asked, got>>
    BY <1>10 DEF Chd!ReadPastHunks, Chd!Turn, Chd!hunk
  <2>2. ChdInv'
    BY <1>1, <2>1 DEF ChdInv
  <2>3. m_chd = "open" /\ asked \in Nat /\ Len(got) \in Nat
    <3>1. m_chd = "open" /\ asked \in Nat /\ got \in Seq(Seq(Int))
      BY <2>1, Zenon DEF ChdInv
    <3> QED BY <3>1, LenProperties
  <2>4. devicePos >= Len(deviceImage) /\ Len(got) # asked
    BY <2>1, <2>3, SameChdDevice, NoHunkIsEnd
  <2>5. UNCHANGED <<deviceImage, deviceTracked, deviceAstray, devicePos>>
    BY <2>1, SameChdDevice, SameDisc
  <2>6. Device!End
    BY <2>1, <2>4, <2>5 DEF Device!End
  <2> QED BY <2>2, <2>6 DEF Device!Next
<1>11. CASE Chd!ReadDone
  <2>1. /\ outcome = "reading" /\ Len(got) = asked /\ outcome' = "whole"
        /\ UNCHANGED <<chd, m_chd, m_currentOffset, m_cachedHunkNum, m_hunkBuffer,
                       m_lastTrackIndex, asked, got>>
    BY <1>11 DEF Chd!ReadDone, Chd!hunk
  <2>2. ChdInv'
    BY <1>1, <2>1 DEF ChdInv
  <2>3. Device!End
    BY <2>1, SameChdDevice, SameDisc DEF Device!End
  <2> QED BY <2>2, <2>3 DEF Device!Next
<1>12. CASE UNCHANGED Chd!vars
  <2>1. UNCHANGED <<chd, m_chd, m_currentOffset, m_cachedHunkNum, m_hunkBuffer,
                    m_lastTrackIndex, asked, got, outcome>>
    BY <1>12 DEF Chd!vars, Chd!reading, Chd!hunk
  <2>2. ChdInv'
    BY <1>1, <2>1 DEF ChdInv
  <2>3. UNCHANGED Device!vars
    BY <2>1, SameChdDevice, SameDisc DEF Device!vars
  <2> QED BY <2>2, <2>3
<1> QED
  BY <1>3, <1>4, <1>5, <1>6, <1>7, <1>8, <1>9, <1>10, <1>11, <1>12 DEF Chd!Next

-----------------------------------------------------------------------------
(* A cue and bin image: functions that are computed along a row               *)

\* What holds of the first, and of the next if of the last, holds along the row.
LEMMA AlongRow ==
    ASSUME NEW n \in Nat, NEW X, NEW f, f[0] \in X,
           \A i \in 1 .. n : f[i - 1] \in X => f[i] \in X
    PROVE  \A i \in 0 .. n : f[i] \in X
<1> DEFINE bad == {i \in 0 .. n : f[i] \notin X}
<1> SUFFICES ASSUME bad # {} PROVE FALSE
  OBVIOUS
<1>1. PICK k \in bad : \A l \in bad : k <= l
  <2>1. bad \subseteq Nat
    OBVIOUS
  <2> HIDE DEF bad
  <2> QED BY <2>1, LeastNumber
<1>2. k \in 1 .. n /\ k - 1 \in 0 .. n /\ ~(k <= k - 1)
  BY <1>1
<1>3. f[k - 1] \in X
  BY <1>1, <1>2
<1> QED BY <1>1, <1>2, <1>3

\* A function that starts with b and takes the steps of G.
IsRow(f, n, b, G) == f = [i \in 0 .. n |-> IF i = 0 THEN b ELSE G[i][f[i - 1]]]

\* Such a function exists, whatever the steps are.
LEMMA RowExists ==
    ASSUME NEW n \in Nat, NEW b, NEW G PROVE \E f : IsRow(f, n, b, G)
<1> DEFINE Row(f, k) == f = [i \in 0 .. k |-> IF i = 0 THEN b ELSE G[i][f[i - 1]]]
           bad == {k \in 0 .. n : ~\E f : Row(f, k)}
<1> SUFFICES ASSUME bad # {} PROVE FALSE
  <2>1. n \in 0 .. n
    OBVIOUS
  <2> QED BY <2>1 DEF IsRow
<1>1. PICK k \in bad : \A l \in bad : k <= l
  <2>1. bad \subseteq Nat
    OBVIOUS
  <2> HIDE DEF bad
  <2> QED BY <2>1, LeastNumber
<1>2. k \in 0 .. n /\ ~\E f : Row(f, k)
  BY <1>1
<1>3. k # 0
  <2>1. Row([i \in 0 .. 0 |-> b], 0)
    OBVIOUS
  <2> QED BY <1>2, <2>1
<1>4. k - 1 \in 0 .. n /\ ~(k <= k - 1)
  BY <1>2, <1>3
<1>5. PICK f : Row(f, k - 1)
  BY <1>1, <1>4
<1> DEFINE g == [i \in 0 .. k |-> IF i = k THEN G[k][f[k - 1]] ELSE f[i]]
<1>6. Row(g, k)
  <2>1. ASSUME NEW i \in 0 .. k
        PROVE  g[i] = IF i = 0 THEN b ELSE G[i][g[i - 1]]
    <3>1. CASE i = k
      <4>1. g[i] = G[k][f[k - 1]]
        BY <3>1
      <4>2. g[k - 1] = f[k - 1]
        BY <1>2, <1>3
      <4> QED BY <1>3, <3>1, <4>1, <4>2
    <3>2. CASE i # k
      <4>1. i \in 0 .. k - 1 /\ g[i] = f[i]
        BY <1>2, <3>2
      <4>2. f[i] = IF i = 0 THEN b ELSE G[i][f[i - 1]]
        BY <1>5, <4>1
      <4>3. i # 0 => i - 1 \in 0 .. k /\ i - 1 # k
        BY <1>2, <4>1
      <4>4. i # 0 => g[i - 1] = f[i - 1]
        BY <4>3
      <4> QED BY <4>1, <4>2, <4>4
    <3> QED BY <3>1, <3>2
  <2>2. g = [i \in 0 .. k |-> g[i]]
    OBVIOUS
  <2> HIDE DEF g
  <2> QED BY <2>1, <2>2
<1> QED BY <1>2, <1>6

StaysIn(G, n, X) == G \in [1 .. n -> [X -> X]]

Follows(f, n, b, G, X) ==
    /\ \A i \in 0 .. n : f[i] \in X
    /\ f[0] = b /\ \A i \in 1 .. n : f[i] = G[i][f[i - 1]]

\* If the steps stay in a set, so does the row.
LEMMA RowIn ==
    ASSUME NEW n \in Nat, NEW X, NEW b \in X, NEW G, StaysIn(G, n, X),
           NEW f, IsRow(f, n, b, G)
    PROVE  Follows(f, n, b, G, X)
<1>1. ASSUME NEW i \in 0 .. n PROVE f[i] = IF i = 0 THEN b ELSE G[i][f[i - 1]]
  BY Zenon DEF IsRow
<1>2. f[0] = b /\ \A i \in 1 .. n : f[i] = G[i][f[i - 1]]
  <2>1. 0 \in 0 .. n /\ \A i \in 1 .. n : i \in 0 .. n /\ i # 0
    OBVIOUS
  <2> QED BY Zenon, <1>1, <2>1
<1>3. \A i \in 1 .. n : f[i - 1] \in X => f[i] \in X
  <2> TAKE i \in 1 .. n
  <2> HAVE f[i - 1] \in X
  <2>1. G[i] \in [X -> X]
    BY DEF StaysIn
  <2> QED BY Zenon, <1>2, <2>1
<1>4. \A i \in 0 .. n : f[i] \in X
  BY <1>2, <1>3, AlongRow
<1> QED BY Zenon, <1>2, <1>4 DEF Follows
-----------------------------------------------------------------------------
(* A cue and bin image: what the parser keeps                                *)

\* The fields of a CUETrackInfo, and of the parser.
Info ==
    [file_index : Nat, file_mode : FileModes, file_offset : Int, track_number : Nat,
     track_mode : DOMAIN SectorSize, session : Nat, prev_session_leadout : Nat,
     sector_length : Nat, unstored_pregap_length : Nat, cumulative_offset : Int,
     file_start : Int, data_start : Int, track_start : Int]

Parser ==
    [info : Info, prevIndex01 : Nat, session : Nat, leadout : Nat, tracks : Seq(Info),
     prevFileSize : Nat, prevSectorLength : Nat, prevSession : Nat, sessionGap : Nat,
     index00 : Nat, index01 : Nat, gotFile : BOOLEAN, gotTrack : BOOLEAN,
     gotData : BOOLEAN, gotPause : BOOLEAN]

\* The length of a sector and the size of a file are counts.
LEMMA SectorLengthNat ==
    ASSUME NEW file_mode, NEW track_mode \in DOMAIN SectorSize
    PROVE  GetSectorLength(file_mode, track_mode) \in Nat /\ "AUDIO" \in DOMAIN SectorSize
  BY SheetAssumption DEF SheetAssumption, GetSectorLength

LEMMA FileSizeNat ==
    ASSUME NEW sizes \in Seq(Nat), NEW file PROVE FileSize(sizes, file) \in Nat
  BY DEF FileSize

\* A field at a time.
LEMMA InfoUpdates ==
    ASSUME NEW r \in Info
    PROVE  /\ \A v \in Nat :
                /\ [r EXCEPT !.file_index = v] \in Info
                /\ [r EXCEPT !.track_number = v] \in Info
                /\ [r EXCEPT !.session = v] \in Info
                /\ [r EXCEPT !.prev_session_leadout = v] \in Info
                /\ [r EXCEPT !.sector_length = v] \in Info
                /\ [r EXCEPT !.unstored_pregap_length = v] \in Info
           /\ \A v \in FileModes :
                /\ [r EXCEPT !.file_mode = v] \in Info
           /\ \A v \in Int :
                /\ [r EXCEPT !.file_offset = v] \in Info
                /\ [r EXCEPT !.cumulative_offset = v] \in Info
                /\ [r EXCEPT !.file_start = v] \in Info
                /\ [r EXCEPT !.data_start = v] \in Info
                /\ [r EXCEPT !.track_start = v] \in Info
           /\ \A v \in DOMAIN SectorSize :
                /\ [r EXCEPT !.track_mode = v] \in Info
<1>1. ASSUME NEW v \in Nat
      PROVE  /\ [r EXCEPT !.file_index = v] \in Info
             /\ [r EXCEPT !.track_number = v] \in Info
             /\ [r EXCEPT !.session = v] \in Info
             /\ [r EXCEPT !.prev_session_leadout = v] \in Info
             /\ [r EXCEPT !.sector_length = v] \in Info
             /\ [r EXCEPT !.unstored_pregap_length = v] \in Info
  <2>1. [r EXCEPT !.file_index = v] \in Info
    BY DEF Info
  <2>2. [r EXCEPT !.track_number = v] \in Info
    BY DEF Info
  <2>3. [r EXCEPT !.session = v] \in Info
    BY DEF Info
  <2>4. [r EXCEPT !.prev_session_leadout = v] \in Info
    BY DEF Info
  <2>5. [r EXCEPT !.sector_length = v] \in Info
    BY DEF Info
  <2>6. [r EXCEPT !.unstored_pregap_length = v] \in Info
    BY DEF Info
  <2> QED BY <2>1, <2>2, <2>3, <2>4, <2>5, <2>6
<1>2. ASSUME NEW v \in FileModes
      PROVE  [r EXCEPT !.file_mode = v] \in Info
  BY DEF Info
<1>3. ASSUME NEW v \in Int
      PROVE  /\ [r EXCEPT !.file_offset = v] \in Info
             /\ [r EXCEPT !.cumulative_offset = v] \in Info
             /\ [r EXCEPT !.file_start = v] \in Info
             /\ [r EXCEPT !.data_start = v] \in Info
             /\ [r EXCEPT !.track_start = v] \in Info
  <2>1. [r EXCEPT !.file_offset = v] \in Info
    BY DEF Info
  <2>2. [r EXCEPT !.cumulative_offset = v] \in Info
    BY DEF Info
  <2>3. [r EXCEPT !.file_start = v] \in Info
    BY DEF Info
  <2>4. [r EXCEPT !.data_start = v] \in Info
    BY DEF Info
  <2>5. [r EXCEPT !.track_start = v] \in Info
    BY DEF Info
  <2> QED BY <2>1, <2>2, <2>3, <2>4, <2>5
<1>4. ASSUME NEW v \in DOMAIN SectorSize
      PROVE  [r EXCEPT !.track_mode = v] \in Info
  BY DEF Info
<1> QED BY <1>1, <1>2, <1>3, <1>4

\* A parser stays one when a field of it is set to a value of its type.
LEMMA ParserUpdates ==
    ASSUME NEW r \in Parser
    PROVE  /\ \A v \in Info :
                /\ [r EXCEPT !.info = v] \in Parser
           /\ \A v \in Nat :
                /\ [r EXCEPT !.prevIndex01 = v] \in Parser
                /\ [r EXCEPT !.session = v] \in Parser
                /\ [r EXCEPT !.leadout = v] \in Parser
                /\ [r EXCEPT !.prevSectorLength = v] \in Parser
                /\ [r EXCEPT !.sessionGap = v] \in Parser
                /\ [r EXCEPT !.index00 = v] \in Parser
                /\ [r EXCEPT !.index01 = v] \in Parser
           /\ \A v \in Seq(Info) :
                /\ [r EXCEPT !.tracks = v] \in Parser
           /\ \A v \in BOOLEAN :
                /\ [r EXCEPT !.gotFile = v] \in Parser
                /\ [r EXCEPT !.gotTrack = v] \in Parser
                /\ [r EXCEPT !.gotData = v] \in Parser
                /\ [r EXCEPT !.gotPause = v] \in Parser
<1>1. ASSUME NEW v \in Info
      PROVE  [r EXCEPT !.info = v] \in Parser
  BY DEF Parser
<1>2. ASSUME NEW v \in Nat
      PROVE  /\ [r EXCEPT !.prevIndex01 = v] \in Parser
             /\ [r EXCEPT !.session = v] \in Parser
             /\ [r EXCEPT !.leadout = v] \in Parser
             /\ [r EXCEPT !.prevSectorLength = v] \in Parser
             /\ [r EXCEPT !.sessionGap = v] \in Parser
             /\ [r EXCEPT !.index00 = v] \in Parser
             /\ [r EXCEPT !.index01 = v] \in Parser
  <2>1. [r EXCEPT !.prevIndex01 = v] \in Parser
    BY DEF Parser
  <2>2. [r EXCEPT !.session = v] \in Parser
    BY DEF Parser
  <2>3. [r EXCEPT !.leadout = v] \in Parser
    BY DEF Parser
  <2>4. [r EXCEPT !.prevSectorLength = v] \in Parser
    BY DEF Parser
  <2>5. [r EXCEPT !.sessionGap = v] \in Parser
    BY DEF Parser
  <2>6. [r EXCEPT !.index00 = v] \in Parser
    BY DEF Parser
  <2>7. [r EXCEPT !.index01 = v] \in Parser
    BY DEF Parser
  <2> QED BY <2>1, <2>2, <2>3, <2>4, <2>5, <2>6, <2>7
<1>3. ASSUME NEW v \in Seq(Info)
      PROVE  [r EXCEPT !.tracks = v] \in Parser
  BY DEF Parser
<1>4. ASSUME NEW v \in BOOLEAN
      PROVE  /\ [r EXCEPT !.gotFile = v] \in Parser
             /\ [r EXCEPT !.gotTrack = v] \in Parser
             /\ [r EXCEPT !.gotData = v] \in Parser
             /\ [r EXCEPT !.gotPause = v] \in Parser
  <2>1. [r EXCEPT !.gotFile = v] \in Parser
    BY DEF Parser
  <2>2. [r EXCEPT !.gotTrack = v] \in Parser
    BY DEF Parser
  <2>3. [r EXCEPT !.gotData = v] \in Parser
    BY DEF Parser
  <2>4. [r EXCEPT !.gotPause = v] \in Parser
    BY DEF Parser
  <2> QED BY <2>1, <2>2, <2>3, <2>4
<1> QED BY <1>1, <1>2, <1>3, <1>4

\* The next call of next_track begins with a typed parser.
LEMMA NextCallParses ==
    ASSUME NEW sizes \in Seq(Nat), NEW p, p.info \in Info, p.prevIndex01 \in Nat,
           p.session \in Nat, p.leadout \in Nat, p.tracks \in Seq(Info)
    PROVE  NextCall(p, sizes) \in Parser
<1> DEFINE offset == p.info.cumulative_offset + p.info.unstored_pregap_length
           info == [p.info EXCEPT !.cumulative_offset = offset]
           fileSize == FileSize(sizes, p.info.file_index)
           length == GetSectorLength(p.info.file_mode, p.info.track_mode)
           session == p.info.session
<1>1. /\ p.info.cumulative_offset \in Int /\ p.info.unstored_pregap_length \in Nat
      /\ session \in Nat /\ p.info.track_mode \in DOMAIN SectorSize
  BY DEF Info
<1>2. info \in Info
  <2>1. offset \in Int
    BY <1>1
  <2> HIDE DEF offset
  <2> QED BY <2>1, InfoUpdates
<1>3. fileSize \in Nat /\ length \in Nat
  BY <1>1, FileSizeNat, SectorLengthNat
<1>4. NextCall(p, sizes) =
        [info |-> info, prevIndex01 |-> p.prevIndex01, session |-> p.session,
         leadout |-> p.leadout, tracks |-> p.tracks, prevFileSize |-> fileSize,
         prevSectorLength |-> length, prevSession |-> session, sessionGap |-> 0,
         index00 |-> 0, index01 |-> 0, gotFile |-> FALSE, gotTrack |-> FALSE,
         gotData |-> FALSE, gotPause |-> FALSE]
  BY DEF NextCall
<1> HIDE DEF info, fileSize, length, session
<1> QED BY <1>1, <1>2, <1>3, <1>4 DEF Parser

\* So does the first one.
LEMMA RestartParses ==
    ASSUME NEW sizes \in Seq(Nat) PROVE NextCall(Restart, sizes) \in Parser
<1>1. "AUDIO" \in DOMAIN SectorSize
  BY SheetAssumption DEF SheetAssumption
<1>2. NoTrack \in Info
  <2> DEFINE audio == "AUDIO"
             binary == "BINARY"
  <2>1. binary \in FileModes /\ audio \in DOMAIN SectorSize
    BY <1>1 DEF FileModes
  <2>2. NoTrack =
          [file_index |-> 0, file_mode |-> binary, file_offset |-> 0, track_number |-> 0,
           track_mode |-> audio, session |-> 0, prev_session_leadout |-> 0,
           sector_length |-> 0, unstored_pregap_length |-> 0, cumulative_offset |-> 0,
           file_start |-> 0, data_start |-> 0, track_start |-> 0]
    BY DEF NoTrack
  <2> HIDE DEF audio, binary
  <2> QED BY <2>1, <2>2 DEF Info
<1>3. /\ Restart.info \in Info /\ Restart.prevIndex01 \in Nat /\ Restart.session \in Nat
      /\ Restart.leadout \in Nat /\ Restart.tracks \in Seq(Info)
  BY <1>2 DEF Restart
<1> QED BY <1>3, NextCallParses

\* A quotient of numbers is a number.
LEMMA BlocksInt ==
    ASSUME NEW a \in Int, NEW b \in Nat, b > 0 PROVE a \div b \in Int
  OBVIOUS

\* A FILE line keeps the parser typed,
LEMMA FileLineParses ==
    ASSUME NEW p \in Parser, NEW line \in [cmd : {"FILE"}, mode : FileModes]
    PROVE  FileLine(p, line) \in Parser
<1>1. p.info \in Info /\ line.mode \in FileModes /\ p.prevFileSize \in Nat
  BY DEF Parser
<1>2. LastTrackBlocks(p) \in Int
  <2>1. p.info.file_offset \in Int /\ p.info.sector_length \in Nat
    BY <1>1 DEF Info
  <2>2. p.prevFileSize - p.info.file_offset \in Int
    BY <1>1, <2>1
  <2> QED BY <2>1, <2>2, BlocksInt DEF LastTrackBlocks
<1> DEFINE start == IF p.info.file_index > 0
                    THEN p.info.data_start + LastTrackBlocks(p) - p.info.cumulative_offset
                    ELSE p.info.file_start
           length == GetSectorLength(line.mode, "AUDIO")
           i1 == [p.info EXCEPT !.file_start = start]
           i2 == [i1 EXCEPT !.file_mode = line.mode]
           i3 == [i2 EXCEPT !.file_offset = 0]
           i4 == [i3 EXCEPT !.file_index = @ + 1]
           i5 == [i4 EXCEPT !.track_mode = "AUDIO"]
           p1 == [p EXCEPT !.info = i5]
           p2 == [p1 EXCEPT !.prevIndex01 = 0]
           p3 == [p2 EXCEPT !.prevSectorLength = length]
           p4 == [p3 EXCEPT !.gotFile = TRUE]
<1>3. start \in Int
  BY <1>1, <1>2 DEF Info
<1>4. length \in Nat /\ "AUDIO" \in DOMAIN SectorSize
  BY SectorLengthNat, SheetAssumption DEF SheetAssumption
<1>5. FileLine(p, line) = p4
  BY DEF FileLine
<1>6. 0 \in Nat /\ 0 \in Int
  OBVIOUS
<1> HIDE DEF start, length
<1>7. i1 \in Info
  BY Zenon, <1>1, <1>3, <1>4, <1>6, InfoUpdates
<1> HIDE DEF i1
<1>8. i2 \in Info
  BY Zenon, <1>1, <1>3, <1>4, <1>6, <1>7, InfoUpdates
<1> HIDE DEF i2
<1>9. i3 \in Info
  BY Zenon, <1>1, <1>3, <1>4, <1>6, <1>8, InfoUpdates
<1> HIDE DEF i3
<1>10. i4 \in Info
  <2>1. i3.file_index + 1 \in Nat
    BY <1>9 DEF Info
  <2> QED BY Zenon, <2>1, <1>1, <1>3, <1>4, <1>6, <1>9, InfoUpdates
<1> HIDE DEF i4
<1>11. i5 \in Info
  BY Zenon, <1>1, <1>3, <1>4, <1>6, <1>10, InfoUpdates
<1> HIDE DEF i5
<1>12. p1 \in Parser
  BY Zenon, <1>11, ParserUpdates
<1> HIDE DEF p1
<1>13. p2 \in Parser
  BY Zenon, <1>4, <1>6, <1>12, ParserUpdates
<1> HIDE DEF p2
<1>14. p3 \in Parser
  BY Zenon, <1>4, <1>6, <1>13, ParserUpdates
<1> HIDE DEF p3
<1>15. p4 \in Parser
  BY Zenon, <1>4, <1>6, <1>14, ParserUpdates
<1> HIDE DEF p4
<1> QED BY <1>5, <1>15

\* and so does a TRACK line,
LEMMA TrackLineParses ==
    ASSUME NEW p \in Parser,
           NEW line \in [cmd : {"TRACK"}, number : Nat, mode : DOMAIN SectorSize]
    PROVE  TrackLine(p, line) \in Parser
<1>1. /\ p.info \in Info /\ line.number \in Nat /\ line.mode \in DOMAIN SectorSize
      /\ p.session \in Nat /\ p.leadout \in Nat /\ p.sessionGap \in Nat
  BY DEF Parser
<1> DEFINE length == GetSectorLength(p.info.file_mode, line.mode)
           gap  == IF p.gotFile /\ p.prevSession > 0 /\ p.session > p.prevSession
                   THEN SessionGap ELSE p.sessionGap
           i1 == [p.info EXCEPT !.track_number = line.number]
           i2 == [i1 EXCEPT !.track_mode = line.mode]
           i3 == [i2 EXCEPT !.sector_length = length]
           i4 == [i3 EXCEPT !.session = p.session]
           i5 == [i4 EXCEPT !.prev_session_leadout = p.leadout]
           i6 == [i5 EXCEPT !.unstored_pregap_length = 0]
           i7 == [i6 EXCEPT !.data_start = 0]
           i8 == [i7 EXCEPT !.track_start = 0]
           p1 == [p EXCEPT !.info = i8]
           p2 == [p1 EXCEPT !.sessionGap = gap]
           p3 == [p2 EXCEPT !.leadout = 0]
           p4 == [p3 EXCEPT !.index00 = 0]
           p5 == [p4 EXCEPT !.index01 = 0]
           p6 == [p5 EXCEPT !.gotTrack = TRUE]
           p7 == [p6 EXCEPT !.gotData = FALSE]
           p8 == [p7 EXCEPT !.gotPause = FALSE]
<1>2. length \in Nat /\ gap \in Nat
  BY <1>1, SectorLengthNat, SheetAssumption DEF SheetAssumption
<1>3. TrackLine(p, line) = p8
  BY DEF TrackLine
<1>4. 0 \in Nat /\ 0 \in Int
  OBVIOUS
<1> HIDE DEF length, gap
<1>5. i1 \in Info
  BY Zenon, <1>1, <1>2, <1>4, InfoUpdates
<1> HIDE DEF i1
<1>6. i2 \in Info
  BY Zenon, <1>1, <1>2, <1>4, <1>5, InfoUpdates
<1> HIDE DEF i2
<1>7. i3 \in Info
  BY Zenon, <1>1, <1>2, <1>4, <1>6, InfoUpdates
<1> HIDE DEF i3
<1>8. i4 \in Info
  BY Zenon, <1>1, <1>2, <1>4, <1>7, InfoUpdates
<1> HIDE DEF i4
<1>9. i5 \in Info
  BY Zenon, <1>1, <1>2, <1>4, <1>8, InfoUpdates
<1> HIDE DEF i5
<1>10. i6 \in Info
  BY Zenon, <1>1, <1>2, <1>4, <1>9, InfoUpdates
<1> HIDE DEF i6
<1>11. i7 \in Info
  BY Zenon, <1>1, <1>2, <1>4, <1>10, InfoUpdates
<1> HIDE DEF i7
<1>12. i8 \in Info
  BY Zenon, <1>1, <1>2, <1>4, <1>11, InfoUpdates
<1> HIDE DEF i8
<1>13. p1 \in Parser
  BY Zenon, <1>12, ParserUpdates
<1> HIDE DEF p1
<1>14. p2 \in Parser
  BY Zenon, <1>2, <1>4, <1>13, ParserUpdates
<1> HIDE DEF p2
<1>15. p3 \in Parser
  BY Zenon, <1>2, <1>4, <1>14, ParserUpdates
<1> HIDE DEF p3
<1>16. p4 \in Parser
  BY Zenon, <1>2, <1>4, <1>15, ParserUpdates
<1> HIDE DEF p4
<1>17. p5 \in Parser
  BY Zenon, <1>2, <1>4, <1>16, ParserUpdates
<1> HIDE DEF p5
<1>18. p6 \in Parser
  BY Zenon, <1>2, <1>4, <1>17, ParserUpdates
<1> HIDE DEF p6
<1>19. p7 \in Parser
  BY Zenon, <1>2, <1>4, <1>18, ParserUpdates
<1> HIDE DEF p7
<1>20. p8 \in Parser
  BY Zenon, <1>2, <1>4, <1>19, ParserUpdates
<1> HIDE DEF p8
<1> QED BY <1>3, <1>20

\* an INDEX line,
LEMMA IndexLineParses ==
    ASSUME NEW p \in Parser, NEW line \in [cmd : {"INDEX"}, number : Nat, time : Nat]
    PROVE  IndexLine(p, line) \in Parser
<1> DEFINE lba == p.info.file_start + line.time + p.info.cumulative_offset
<1>1. p.info \in Info /\ line.number \in Nat /\ line.time \in Nat
  BY DEF Parser
<1>2. lba \in Int
  BY <1>1 DEF Info
<1> HIDE DEF lba
<1>3. [p.info EXCEPT !.track_start = lba] \in Info /\ [p.info EXCEPT !.data_start = lba] \in Info
  BY <1>1, <1>2 DEF Info
<1>4. CASE line.number = 0
  <2>1. IndexLine(p, line) =
          [p EXCEPT !.info = [p.info EXCEPT !.track_start = lba], !.index00 = line.time,
                    !.gotPause = TRUE]
    BY <1>4 DEF IndexLine, lba
  <2> QED BY <1>1, <1>3, <2>1 DEF Parser
<1>5. CASE line.number = 1
  <2>1. IndexLine(p, line) =
          [p EXCEPT !.info = [p.info EXCEPT !.data_start = lba], !.index01 = line.time,
                    !.gotData = TRUE]
    BY <1>5 DEF IndexLine, lba
  <2> QED BY <1>1, <1>3, <2>1 DEF Parser
<1>6. CASE line.number # 0 /\ line.number # 1
  BY <1>6 DEF IndexLine
<1> QED BY <1>4, <1>5, <1>6

\* and any line,
LEMMA ParseLineParses ==
    ASSUME NEW p \in Parser, NEW line \in Lines PROVE ParseLine(p, line) \in Parser
<1>1. CASE line \in [cmd : {"FILE"}, mode : FileModes]
  BY <1>1, FileLineParses DEF ParseLine
<1>2. CASE line \in [cmd : {"TRACK"}, number : Nat, mode : DOMAIN SectorSize]
  BY <1>2, TrackLineParses DEF ParseLine
<1>3. CASE line \in [cmd : {"SESSION"}, number : Nat]
  BY <1>3 DEF ParseLine, Parser
<1>4. CASE line \in [cmd : {"LEAD-OUT", "PREGAP"}, time : Nat]
  <2>1. [p.info EXCEPT !.unstored_pregap_length = line.time] \in Info
    BY <1>4 DEF Parser, Info
  <2>2. CASE line.cmd = "LEAD-OUT"
    BY <1>4, <2>2 DEF ParseLine, Parser
  <2>3. CASE line.cmd = "PREGAP"
    <3>1. ParseLine(p, line) =
            [p EXCEPT !.info = [p.info EXCEPT !.unstored_pregap_length = line.time]]
      BY <2>3 DEF ParseLine
    <3> QED BY <2>1, <3>1 DEF Parser
  <2> QED BY <1>4, <2>2, <2>3
<1>5. CASE line \in [cmd : {"INDEX"}, number : Nat, time : Nat]
  BY <1>5, IndexLineParses DEF ParseLine
<1> QED BY <1>1, <1>2, <1>3, <1>4, <1>5 DEF Lines

\* The placing of a pregap keeps the parser typed,
LEMMA PlacePregapParses == ASSUME NEW p \in Parser PROVE PlacePregap(p) \in Parser
<1> DEFINE start == p.info.data_start
           data == p.info.data_start + p.info.unstored_pregap_length
           i1 == [p.info EXCEPT !.track_start = start]
           i2 == [i1 EXCEPT !.data_start = data]
<1>1. p.info \in Info
  BY DEF Parser
<1>2. start \in Int /\ data \in Int
  BY <1>1 DEF Info
<1>3. [p EXCEPT !.info = i2]
        = [p EXCEPT !.info.track_start = p.info.data_start,
                    !.info.data_start = @ + p.info.unstored_pregap_length]
  BY <1>1 DEF Parser, Info
<1> HIDE DEF start, data
<1>4. i2 \in Info
  BY <1>1, <1>2, InfoUpdates
<1> HIDE DEF i2
<1> QED BY <1>3, <1>4, ParserUpdates DEF PlacePregap

\* and so does that of a session,
LEMMA PlaceSessionParses == ASSUME NEW p \in Parser PROVE PlaceSession(p) \in Parser
<1> DEFINE stored == p.gotPause /\ p.index01 > p.index00
           pregap == IF ~stored /\ p.info.unstored_pregap_length = 0 THEN TrackPregap ELSE 0
           cumulative == p.info.cumulative_offset + p.sessionGap
           start == p.info.track_start + p.sessionGap
           data == p.info.data_start + p.sessionGap + pregap
           unstored == p.info.unstored_pregap_length + pregap
           i1 == [p.info EXCEPT !.cumulative_offset = cumulative]
           i2 == [i1 EXCEPT !.track_start = start]
           i3 == [i2 EXCEPT !.data_start = data]
           i4 == [i3 EXCEPT !.unstored_pregap_length = unstored]
<1>1. p.info \in Info /\ p.sessionGap \in Nat
  BY DEF Parser
<1>2. pregap \in Nat
  BY SheetAssumption DEF SheetAssumption
<1> HIDE DEF pregap
<1>3. cumulative \in Int /\ start \in Int /\ data \in Int /\ unstored \in Nat
  BY <1>1, <1>2 DEF Info
<1>4. [p EXCEPT !.info = i4]
        = [p EXCEPT !.info.cumulative_offset = @ + p.sessionGap,
                    !.info.track_start = @ + p.sessionGap,
                    !.info.data_start = @ + p.sessionGap + pregap,
                    !.info.unstored_pregap_length = @ + pregap]
  BY <1>1 DEF Parser, Info
<1> HIDE DEF cumulative, start, data, unstored
<1>5. i4 \in Info
  <2>1. i1 \in Info
    BY <1>1, <1>3, InfoUpdates
  <2> HIDE DEF i1
  <2>2. i2 \in Info
    BY <1>3, <2>1, InfoUpdates
  <2> HIDE DEF i2
  <2>3. i3 \in Info
    BY <1>3, <2>2, InfoUpdates
  <2> HIDE DEF i3
  <2> QED BY <1>3, <2>3, InfoUpdates
<1> HIDE DEF i4
<1>6. [p EXCEPT !.info = i4] \in Parser
  BY <1>5, ParserUpdates
<1> HIDE DEF stored
<1>7. p.sessionGap # 0 => PlaceSession(p) = [p EXCEPT !.info = i4]
  BY <1>4 DEF PlaceSession, pregap, stored
<1> QED BY <1>6, <1>7 DEF PlaceSession

\* and of a track in its file.
LEMMA PlaceInFileParses == ASSUME NEW p \in Parser PROVE PlaceInFile(p) \in Parser
<1> DEFINE first == IF p.gotPause THEN p.index00 ELSE p.index01
           before == IF p.gotFile THEN 0 ELSE (first - p.prevIndex01) * p.prevSectorLength
           pause == IF p.gotPause
                    THEN (p.index01 - p.index00) * p.info.sector_length ELSE 0
           offset == p.info.file_offset + before + pause
           i1 == [p.info EXCEPT !.file_offset = offset]
<1>1. /\ p.info \in Info /\ p.index00 \in Nat /\ p.index01 \in Nat /\ p.prevIndex01 \in Nat
      /\ p.prevSectorLength \in Nat
  BY DEF Parser
<1>2. p.info.sector_length \in Nat /\ p.info.file_offset \in Int
  BY <1>1 DEF Info
<1>3. first - p.prevIndex01 \in Int /\ p.index01 - p.index00 \in Int
  BY <1>1
<1>4. \A a \in Int, b \in Nat : a * b \in Int
  OBVIOUS
<1>5. before \in Int /\ pause \in Int
  BY <1>1, <1>2, <1>3, <1>4
<1>6. PlaceInFile(p) = [[p EXCEPT !.info = i1] EXCEPT !.prevIndex01 = p.index01]
  BY DEF PlaceInFile
<1> HIDE DEF before, pause
<1>7. offset \in Int
  BY <1>2, <1>5
<1> HIDE DEF offset
<1>8. [p EXCEPT !.info = i1] \in Parser
  BY <1>1, <1>7, InfoUpdates, ParserUpdates
<1> QED BY <1>1, <1>6, <1>8, ParserUpdates

\* A line and the return of the track that it completes keep the parser typed.
LEMMA NextLineParses ==
    ASSUME NEW p \in Parser, NEW line \in Lines, NEW sizes \in Seq(Nat)
    PROVE  NextLine(p, line, sizes) \in Parser
<1>1. ParseLine(p, line) \in Parser
  BY ParseLineParses
<1>2. ASSUME NEW r \in Parser PROVE NextCall(FinishTrack(r), sizes) \in Parser
  <2> DEFINE q == PlaceInFile(PlaceSession(PlacePregap(r)))
             f == [q EXCEPT !.tracks = Append(@, q.info)]
  <2>1. q \in Parser
    BY PlacePregapParses, PlaceSessionParses, PlaceInFileParses
  <2>2. FinishTrack(r) = f
    BY DEF FinishTrack
  <2> HIDE DEF q
  <2>3. /\ f.info \in Info /\ f.prevIndex01 \in Nat /\ f.session \in Nat /\ f.leadout \in Nat
        /\ f.tracks \in Seq(Info)
    <3>1. q.info \in Info /\ q.tracks \in Seq(Info)
      BY <2>1 DEF Parser
    <3>2. Append(q.tracks, q.info) \in Seq(Info)
      BY <3>1
    <3>3. f \in Parser
      BY <2>1, <3>2, ParserUpdates
    <3> HIDE DEF f
    <3> QED BY <3>3 DEF Parser
  <2> QED BY <2>2, <2>3, NextCallParses
<1> DEFINE r == ParseLine(p, line)
<1>3. NextLine(p, line, sizes) =
        IF r.gotTrack /\ r.gotData THEN NextCall(FinishTrack(r), sizes) ELSE r
  BY DEF NextLine
<1> HIDE DEF r
<1> QED BY <1>1, <1>2, <1>3 DEF r

\* The parsers along the lines of a sheet are parsers, each made by its line.
LEMMA ParsersParse ==
    ASSUME NEW sheet \in Seq(Lines), NEW sizes \in Seq(Nat)
    PROVE  /\ \A i \in 0 .. Len(sheet) : Parsers(sheet, sizes)[i] \in Parser
           /\ Parsers(sheet, sizes)[0] = NextCall(Restart, sizes)
           /\ \A i \in 1 .. Len(sheet) :
                Parsers(sheet, sizes)[i] = NextLine(Parsers(sheet, sizes)[i - 1], sheet[i], sizes)
<1> DEFINE n == Len(sheet)
           b == NextCall(Restart, sizes)
           G == [i \in 1 .. n |-> [x \in Parser |-> NextLine(x, sheet[i], sizes)]]
           Parses(f) == f = [i \in 0 .. n |-> IF i = 0 THEN b
                                              ELSE NextLine(f[i - 1], sheet[i], sizes)]
<1>1. n \in Nat /\ b \in Parser
  BY RestartParses
<1>2. \A i \in 1 .. n, x \in Parser : NextLine(x, sheet[i], sizes) \in Parser
  BY NextLineParses
<1>3. Parsers(sheet, sizes) = CHOOSE f : Parses(f)
  BY DEF Parsers
<1> HIDE DEF n, b
<1>4. StaysIn(G, n, Parser)
  BY Zenon, <1>2 DEF StaysIn
<1>5. \A i \in 1 .. n, x \in Parser : G[i][x] = NextLine(x, sheet[i], sizes)
  BY Zenon
<1> HIDE DEF G
<1>6. PICK f : IsRow(f, n, b, G)
  BY <1>1, RowExists
<1>7. /\ \A i \in 0 .. n : f[i] \in Parser
      /\ f[0] = b /\ \A i \in 1 .. n : f[i] = G[i][f[i - 1]]
  <2>1. Follows(f, n, b, G, Parser)
    BY <1>1, <1>4, <1>6, RowIn
  <2> QED BY Zenon, <2>1 DEF Follows
<1>8. \A i \in 1 .. n : f[i] = NextLine(f[i - 1], sheet[i], sizes)
  <2>1. \A i \in 1 .. n : i - 1 \in 0 .. n
    BY <1>1
  <2> QED BY Zenon, <1>5, <1>7, <2>1
<1>9. Parses(f)
  <2>1. \A i \in 0 .. n : i # 0 => i \in 1 .. n
    BY <1>1
  <2>2. \A i \in 0 .. n : f[i] = IF i = 0 THEN b ELSE NextLine(f[i - 1], sheet[i], sizes)
    BY Zenon, <1>7, <1>8, <2>1
  <2>3. f = [i \in 0 .. n |-> f[i]]
    BY Zenon, <1>6 DEF IsRow
  <2> QED BY Zenon, <2>2, <2>3
<1> DEFINE g == CHOOSE h : Parses(h)
<1>10. Parses(g)
  BY Zenon, <1>9
<1> HIDE DEF g
<1>11. g[0] = b /\ \A i \in 1 .. n : g[i] = NextLine(g[i - 1], sheet[i], sizes)
  <2>1. 0 \in 0 .. n /\ \A i \in 1 .. n : i \in 0 .. n /\ i # 0
    BY <1>1
  <2> QED BY Zenon, <1>10, <2>1
<1>12. \A i \in 0 .. n : g[i] \in Parser
  <2>1. \A i \in 1 .. n : g[i - 1] \in Parser => g[i] \in Parser
    BY Zenon, <1>2, <1>11
  <2>2. g[0] \in Parser
    BY <1>1, <1>11
  <2> QED BY <1>1, <2>1, <2>2, AlongRow
<1> QED BY <1>3, <1>11, <1>12 DEF g, n, b

\* Whatever the sheet says, the tracks read of it are typed.
LEMMA TracksAreTyped ==
    ASSUME NEW sheet \in Seq(Lines), NEW sizes \in Seq(Nat)
    PROVE  Tracks(sheet, sizes) \in Seq(Info)
<1>1. Parsers(sheet, sizes)[Len(sheet)] \in Parser
  BY ParsersParse
<1> QED BY <1>1 DEF Tracks, Parser

-----------------------------------------------------------------------------
(* A cue and bin image: least and greatest                                   *)

\* A set of counts has a least member.
LEMMA MinIn ==
    ASSUME NEW S, S \subseteq Nat, S # {}
    PROVE  Min(S) \in S /\ \A s \in S : Min(S) <= s
<1>1. \E s \in S : \A t \in S : s <= t
  BY LeastNumber
<1> QED BY Zenon, <1>1 DEF Min

\* A bounded set of counts has a greatest member.
LEMMA MaxIn ==
    ASSUME NEW n \in Nat, NEW S, S \subseteq 0 .. n, S # {}
    PROVE  Max(S) \in S /\ \A s \in S : Max(S) >= s
<1> DEFINE T == {n - s : s \in S}
<1>1. T \subseteq Nat /\ T # {}
  <2>1. \A s \in S : n - s \in Nat
    OBVIOUS
  <2> QED BY <2>1
<1>2. PICK t \in T : \A u \in T : t <= u
  <2> HIDE DEF T
  <2> QED BY <1>1, LeastNumber
<1>3. PICK s \in S : t = n - s
  BY <1>2
<1>4. \A u \in S : s >= u
  <2> TAKE u \in S
  <2>1. n - u \in T
    OBVIOUS
  <2>2. n - s <= n - u
    BY <1>2, <1>3, <2>1
  <2> QED BY <2>2
<1>5. \E x \in S : \A y \in S : x >= y
  BY <1>4
<1> QED BY Zenon, <1>5 DEF Max

\* The greater of zero and a number.
LEMMA MaxZero ==
    ASSUME NEW n \in Int
    PROVE  Max({0, n}) \in Nat /\ (n <= 0 => Max({0, n}) = 0) /\ (n >= 0 => Max({0, n}) = n)
<1>1. \E x \in {0, n} : \A y \in {0, n} : x >= y
  OBVIOUS
<1>2. Max({0, n}) \in {0, n} /\ \A y \in {0, n} : Max({0, n}) >= y
  BY Zenon, <1>1 DEF Max
<1> QED BY <1>2

\* The lesser of two counts.
LEMMA MinOfTwo ==
    ASSUME NEW a \in Int, NEW b \in Int
    PROVE  Min({a, b}) \in {a, b} /\ Min({a, b}) <= a /\ Min({a, b}) <= b
<1>1. \E x \in {a, b} : \A y \in {a, b} : x =< y
  OBVIOUS
<1> QED BY <1>1 DEF Min

\* A row that never falls.
LEMMA RowRises ==
    ASSUME NEW n \in Nat, NEW f, \A i \in 0 .. n : f[i] \in Nat,
           \A i \in 1 .. n : f[i - 1] <= f[i]
    PROVE  \A i, j \in 0 .. n : i <= j => f[i] <= f[j]
<1> SUFFICES ASSUME NEW i \in 0 .. n PROVE \A j \in 0 .. n : i <= j => f[i] <= f[j]
  OBVIOUS
<1> DEFINE bad == {j \in 0 .. n : i <= j /\ f[j] < f[i]}
<1>1. SUFFICES ASSUME bad # {} PROVE FALSE
  OBVIOUS
<1>2. PICK k \in bad : \A l \in bad : k <= l
  <2>1. bad \subseteq Nat
    OBVIOUS
  <2> HIDE DEF bad
  <2> QED BY <1>1, <2>1, LeastNumber
<1>3. k \in 1 .. n /\ k - 1 \in 0 .. n /\ i <= k - 1 /\ ~(k <= k - 1)
  <2>1. k # i
    BY <1>2
  <2> QED BY <1>2, <2>1
<1>4. f[k - 1] >= f[i]
  BY <1>2, <1>3
<1>5. f[k - 1] <= f[k] /\ f[k] < f[i] /\ f[k] \in Nat /\ f[i] \in Nat /\ f[k - 1] \in Nat
  BY <1>2, <1>3
<1> QED BY <1>4, <1>5

\* A number below the last of a row that starts at zero lies between two that follow.
LEMMA RowBetween ==
    ASSUME NEW n \in Nat, NEW f, \A i \in 0 .. n : f[i] \in Nat, f[0] = 0,
           NEW o \in Nat, o < f[n]
    PROVE  \E i \in 1 .. n : f[i - 1] <= o /\ o < f[i]
<1> DEFINE above == {i \in 0 .. n : o < f[i]}
<1>1. n \in above /\ above \subseteq Nat
  OBVIOUS
<1>2. PICK k \in above : \A l \in above : k <= l
  <2> HIDE DEF above
  <2> QED BY <1>1, LeastNumber
<1>3. k \in 1 .. n /\ k - 1 \in 0 .. n /\ ~(k <= k - 1)
  BY <1>2
<1>4. f[k - 1] <= o
  <2>1. k - 1 \notin above
    <3> HIDE DEF above
    <3> QED BY <1>2, <1>3
  <2> QED BY <1>3, <2>1
<1> QED BY <1>2, <1>3, <1>4

-----------------------------------------------------------------------------
(* A cue and bin image: the layout of its files and holes                    *)

\* Where a file of tracks begins and ends on the disc are numbers.
LEMMA ExtentIsTyped ==
    ASSUME NEW tracks \in Seq(Info), NEW sizes \in Seq(Nat), NEW f \in DOMAIN sizes,
           \E i \in DOMAIN tracks : tracks[i].file_index = f,
           \A i \in DOMAIN tracks : tracks[i].file_index = f => tracks[i].sector_length > 0
    PROVE  /\ Extent(tracks, sizes, f).start \in Int /\ Extent(tracks, sizes, f).end \in Int
           /\ Extent(tracks, sizes, f).sector_length \in Nat \ {0}
<1> DEFINE own == {i \in DOMAIN tracks : tracks[i].file_index = f}
           first == tracks[Min(own)]
           last == tracks[Max(own)]
<1>1. own # {} /\ own \subseteq Nat /\ own \subseteq 0 .. Len(tracks) /\ Len(tracks) \in Nat
  OBVIOUS
<1>2. Min(own) \in own /\ Max(own) \in own
  <2> HIDE DEF own
  <2> QED BY <1>1, MinIn, MaxIn
<1>3. first \in Info /\ last \in Info /\ first.sector_length > 0 /\ last.sector_length > 0
  BY <1>2
<1>4. Extent(tracks, sizes, f) =
         [head  |-> first.file_offset \div first.sector_length,
          start |-> first.data_start - first.file_offset \div first.sector_length,
          end   |-> last.data_start
                      + Positive(sizes[f] - last.file_offset) \div last.sector_length,
          sector_length |-> last.sector_length]
  BY DEF Extent
<1> HIDE DEF own, first, last
<1>5. /\ first.file_offset \in Int /\ first.sector_length \in Nat /\ first.data_start \in Int
      /\ last.file_offset \in Int /\ last.sector_length \in Nat /\ last.data_start \in Int
  BY <1>3 DEF Info
<1>6. first.file_offset \div first.sector_length \in Int
  BY <1>3, <1>5, BlocksInt
<1>7. Positive(sizes[f] - last.file_offset) \in Nat
  <2> DEFINE d == sizes[f] - last.file_offset
  <2>1. d \in Int
    BY <1>5
  <2>2. Positive(d) = Max({0, d})
    BY DEF Positive
  <2> DEFINE m == Max({0, d})
  <2>4. m \in Nat
    <3> HIDE DEF d
    <3> QED BY <2>1, MaxZero
  <2> HIDE DEF d, m
  <2>3. Positive(d) \in Nat
    BY <2>2, <2>4 DEF m
  <2> QED BY <2>3 DEF d
<1>8. Positive(sizes[f] - last.file_offset) \div last.sector_length \in Int
  BY <1>3, <1>5, <1>7, BlocksInt
<1> DEFINE a == first.file_offset \div first.sector_length
           b == Positive(sizes[f] - last.file_offset) \div last.sector_length
<1>9. /\ Extent(tracks, sizes, f).start = first.data_start - a
      /\ Extent(tracks, sizes, f).end = last.data_start + b
      /\ Extent(tracks, sizes, f).sector_length = last.sector_length
  BY <1>4
<1>10. a \in Int /\ b \in Int
  BY <1>6, <1>8
<1> HIDE DEF a, b
<1>11. first.data_start - a \in Int /\ last.data_start + b \in Int
  BY SMTT(20), <1>5, <1>10
<1>12. last.sector_length \in Nat \ {0}
  BY <1>3, <1>5
<1> QED BY Zenon, <1>9, <1>11, <1>12

\* Where the image ends behind each file and its hole.
LEMMA LaidOutRow ==
    ASSUME NEW sizes \in Seq(Nat), NEW length \in [DOMAIN sizes -> Nat]
    PROVE  LET base == LaidOut(sizes, length)
           IN  /\ base[0] = 0 /\ \A i \in 0 .. Len(sizes) : base[i] \in Nat
               /\ \A i \in 1 .. Len(sizes) : base[i] = base[i - 1] + sizes[i] + length[i]
<1> DEFINE n == Len(sizes)
           G == [i \in 1 .. n |-> [x \in Nat |-> x + sizes[i] + length[i]]]
           Row(f) == f = [i \in 0 .. n |-> IF i = 0 THEN 0
                                           ELSE f[i - 1] + sizes[i] + length[i]]
<1>1. n \in Nat /\ 0 \in Nat
  OBVIOUS
<1>2. \A i \in 1 .. n, x \in Nat : x + sizes[i] + length[i] \in Nat
  <2>1. \A i \in 1 .. n : sizes[i] \in Nat /\ length[i] \in Nat
    OBVIOUS
  <2> HIDE DEF n
  <2> QED BY <2>1
<1>3. LaidOut(sizes, length) = CHOOSE f : Row(f)
  BY DEF LaidOut
<1> HIDE DEF n
<1>4. StaysIn(G, n, Nat)
  BY Zenon, <1>2 DEF StaysIn
<1>5. \A i \in 1 .. n, x \in Nat : G[i][x] = x + sizes[i] + length[i]
  BY Zenon
<1> HIDE DEF G
<1>6. PICK f : IsRow(f, n, 0, G)
  BY <1>1, RowExists
<1>7. /\ \A i \in 0 .. n : f[i] \in Nat
      /\ f[0] = 0 /\ \A i \in 1 .. n : f[i] = G[i][f[i - 1]]
  <2>1. Follows(f, n, 0, G, Nat)
    BY <1>1, <1>4, <1>6, RowIn
  <2> QED BY Zenon, <2>1 DEF Follows
<1>8. \A i \in 1 .. n : f[i] = f[i - 1] + sizes[i] + length[i]
  <2>1. \A i \in 1 .. n : i - 1 \in 0 .. n
    BY <1>1
  <2> QED BY Zenon, <1>5, <1>7, <2>1
<1>9. Row(f)
  <2>1. \A i \in 0 .. n : i # 0 => i \in 1 .. n
    BY <1>1
  <2>2. \A i \in 0 .. n : f[i] = IF i = 0 THEN 0 ELSE f[i - 1] + sizes[i] + length[i]
    BY Zenon, <1>7, <1>8, <2>1
  <2>3. f = [i \in 0 .. n |-> f[i]]
    BY Zenon, <1>6 DEF IsRow
  <2> QED BY Zenon, <2>2, <2>3
<1> DEFINE g == CHOOSE h : Row(h)
<1>10. Row(g)
  BY Zenon, <1>9
<1> HIDE DEF g
<1>11. g[0] = 0 /\ \A i \in 1 .. n : g[i] = g[i - 1] + sizes[i] + length[i]
  <2>1. 0 \in 0 .. n /\ \A i \in 1 .. n : i \in 0 .. n /\ i # 0
    BY <1>1
  <2> QED BY Zenon, <1>10, <2>1
<1>12. \A i \in 0 .. n : g[i] \in Nat
  <2>1. \A i \in 1 .. n : g[i - 1] \in Nat => g[i] \in Nat
    <3> TAKE i \in 1 .. n
    <3> HAVE g[i - 1] \in Nat
    <3> QED BY Zenon, <1>2, <1>11
  <2>2. g[0] \in Nat
    BY <1>11
  <2> QED BY <1>1, <2>1, <2>2, AlongRow
<1> QED BY <1>3, <1>11, <1>12 DEF g, n

InFileAt(sizes, lay, f, o) == lay.bases[f] <= o /\ o < lay.bases[f] + sizes[f]
InHoleAt(hole, o) == hole.base <= o /\ o < hole.base + hole.length

Hole == [start : Int, end : Int, sector_length : Nat, base : Nat, length : Nat]

\* The image is tiled: each of its bytes lies in a file or in a hole, in one only.
Tiled(sizes, lay) ==
    /\ lay.size \in Nat /\ lay.bases \in [DOMAIN sizes -> Nat] /\ lay.sparse \subseteq Hole
    /\ \A f \in DOMAIN sizes : lay.bases[f] + sizes[f] <= lay.size
    /\ \A hole \in lay.sparse : hole.base + hole.length <= lay.size
    /\ \A f, g \in DOMAIN sizes : f < g => lay.bases[f] + sizes[f] <= lay.bases[g]
    /\ \A f \in DOMAIN sizes, hole \in lay.sparse :
          lay.bases[f] + sizes[f] <= hole.base \/ hole.base + hole.length <= lay.bases[f]
    /\ \A o \in 0 .. lay.size - 1 :
          \/ \E f \in DOMAIN sizes : InFileAt(sizes, lay, f, o)
          \/ \E hole \in lay.sparse : InHoleAt(hole, o)

\* One file, or none, tiles its image.
LEMMA SingleTiles ==
    ASSUME NEW sizes \in Seq(Nat), Len(sizes) <= 1
    PROVE  Tiled(sizes, SingleLayout(sizes))
<1> DEFINE lay == SingleLayout(sizes)
<1> SUFFICES Tiled(sizes, lay)
  OBVIOUS
<1>1. /\ lay.bases = [i \in DOMAIN sizes |-> 0] /\ lay.sparse = {}
      /\ lay.size = IF sizes = <<>> THEN 0 ELSE sizes[1]
  BY DEF SingleLayout
<1> HIDE DEF lay
<1>2. CASE sizes = <<>>
  <2>1. DOMAIN sizes = {} /\ lay.size = 0 /\ lay.sparse = {}
    BY <1>1, <1>2
  <2>2. lay.bases \in [DOMAIN sizes -> Nat] /\ 0 \in Nat /\ 0 .. 0 - 1 = {}
    BY <1>1, <2>1
  <2> QED BY Zenon, <2>1, <2>2 DEF Tiled
<1>3. CASE sizes # <<>>
  <2>1. DOMAIN sizes = {1} /\ sizes[1] \in Nat
    <3> DEFINE n == Len(sizes)
    <3>1. n # 0
      BY <1>3, EmptySeq
    <3>2. n \in Nat /\ n <= 1 /\ DOMAIN sizes = 1 .. n
      OBVIOUS
    <3> HIDE DEF n
    <3>3. n = 1
      BY <3>1, <3>2
    <3> QED BY <3>2, <3>3
  <2>2. \A f \in DOMAIN sizes : f = 1 /\ lay.bases[f] = 0
    BY <1>1, <2>1
  <2>3. lay.size = sizes[1]
    BY <1>1, <1>3
  <2>4. \A f, g \in DOMAIN sizes : ~(f < g)
    BY <2>2
  <2>5. lay.bases \in [DOMAIN sizes -> Nat]
    BY <1>1
  <2>6. \A o \in 0 .. lay.size - 1 : InFileAt(sizes, lay, 1, o)
    BY <2>1, <2>2, <2>3 DEF InFileAt
  <2>7. 1 \in DOMAIN sizes /\ 0 + sizes[1] <= lay.size
    BY <2>1, <2>3
  <2>8. \A f \in DOMAIN sizes : lay.bases[f] + sizes[f] <= lay.size
    BY <2>1, <2>2, <2>3
  <2>9. lay.size \in Nat
    BY <2>1, <2>3
  <2> QED BY Zenon, <1>1, <2>4, <2>5, <2>6, <2>7, <2>8, <2>9 DEF Tiled
<1> QED BY <1>2, <1>3

\* The files and holes of a layout lie behind one another.
OnRow(sizes, length, base, lay) ==
    /\ base = LaidOut(sizes, length)
    /\ lay.bases = [i \in DOMAIN sizes |-> base[i - 1]] /\ lay.size = base[Len(sizes)]
    /\ lay.sparse \subseteq Hole
    /\ \A hole \in lay.sparse : \E i \in DOMAIN sizes :
          hole.base = base[i - 1] + sizes[i] /\ hole.length = length[i]
    /\ \A i \in DOMAIN sizes : length[i] # 0 => \E hole \in lay.sparse :
          hole.base = base[i - 1] + sizes[i] /\ hole.length = length[i]

\* Files in a row, with a hole before those that need one, tile the image.
LEMMA RowTiles ==
    ASSUME NEW sizes \in Seq(Nat), NEW length \in [DOMAIN sizes -> Nat], NEW lay, NEW base,
           OnRow(sizes, length, base, lay)
    PROVE  Tiled(sizes, lay)
<1> USE DEF OnRow
<1> DEFINE n == Len(sizes)
<1>1. n \in Nat /\ DOMAIN sizes = 1 .. n
  OBVIOUS
<1>2. /\ base[0] = 0 /\ \A i \in 0 .. n : base[i] \in Nat
      /\ \A i \in 1 .. n : base[i] = base[i - 1] + sizes[i] + length[i]
  BY Zenon, LaidOutRow
<1>3. \A i \in 1 .. n : sizes[i] \in Nat /\ length[i] \in Nat /\ i - 1 \in 0 .. n /\ i \in 0 .. n
  OBVIOUS
<1>4. lay.size = base[n]
  OBVIOUS
<1> HIDE DEF n
<1>5. \A i \in 1 .. n : base[i - 1] <= base[i]
  BY SMTT(20), <1>2, <1>3
<1>6. \A i, j \in 0 .. n : i <= j => base[i] <= base[j]
  BY <1>1, <1>2, <1>5, RowRises
<1>7. \A f \in DOMAIN sizes : lay.bases[f] = base[f - 1]
  OBVIOUS
<1>8. lay.size \in Nat
  BY <1>1, <1>2, <1>4
<1>9. lay.bases \in [DOMAIN sizes -> Nat]
  <2>1. \A i \in DOMAIN sizes : base[i - 1] \in Nat
    BY <1>1, <1>2, <1>3
  <2> QED BY <2>1
<1>10. \A i \in 1 .. n : base[i] <= lay.size
  BY <1>1, <1>3, <1>4, <1>6
<1>11. \A i \in 1 .. n : base[i - 1] + sizes[i] <= base[i]
  BY SMTT(20), <1>2, <1>3
<1>12. \A f \in DOMAIN sizes : lay.bases[f] + sizes[f] <= lay.size
  <2> TAKE f \in DOMAIN sizes
  <2>1. f \in 1 .. n /\ lay.bases[f] = base[f - 1]
    BY <1>1, <1>7
  <2>2. base[f - 1] + sizes[f] <= base[f] /\ base[f] <= lay.size
    BY <1>10, <1>11, <2>1
  <2>3. base[f - 1] \in Nat /\ sizes[f] \in Nat /\ base[f] \in Nat
    BY <1>2, <1>3, <2>1
  <2> QED BY <1>8, <2>1, <2>2, <2>3
<1>13. ASSUME NEW hole \in lay.sparse
       PROVE  \E i \in 1 .. n : hole.base = base[i - 1] + sizes[i] /\ hole.length = length[i]
                                /\ hole.base + hole.length = base[i]
  <2>1. PICK i \in 1 .. n : hole.base = base[i - 1] + sizes[i] /\ hole.length = length[i]
    BY <1>1
  <2>2. hole.base + hole.length = base[i - 1] + sizes[i] + length[i]
    BY <2>1
  <2>3. base[i] = base[i - 1] + sizes[i] + length[i]
    BY <1>2
  <2> QED BY Zenon, <2>1, <2>2, <2>3
<1>14. \A hole \in lay.sparse : hole.base + hole.length <= lay.size
  BY <1>10, <1>13
<1>15. ASSUME NEW f \in DOMAIN sizes, NEW g \in DOMAIN sizes, f < g
       PROVE  lay.bases[f] + sizes[f] <= lay.bases[g]
  <2>1. f \in 1 .. n /\ g \in 1 .. n /\ lay.bases[f] = base[f - 1] /\ lay.bases[g] = base[g - 1]
    BY <1>1, <1>7
  <2>2. f \in 0 .. n /\ g - 1 \in 0 .. n /\ f <= g - 1
    BY <1>1, <1>15, <2>1
  <2>3. base[f] <= base[g - 1]
    BY <1>6, <2>2
  <2>4. base[f - 1] + sizes[f] <= base[f]
    BY <1>11, <2>1
  <2>5. /\ base[f - 1] \in Nat /\ sizes[f] \in Nat /\ base[f] \in Nat /\ base[g - 1] \in Nat
    BY <1>2, <1>3, <2>1
  <2> DEFINE a == base[f - 1]
             b == base[f]
             c == base[g - 1]
             d == sizes[f]
  <2>6. lay.bases[f] = a /\ lay.bases[g] = c /\ a + d <= b /\ b <= c
        /\ a \in Nat /\ b \in Nat /\ c \in Nat /\ d \in Nat
    BY Zenon, <2>1, <2>3, <2>4, <2>5
  <2> HIDE DEF a, b, c, d
  <2>7. lay.bases[f] + d <= lay.bases[g]
    BY SMTT(20), <2>6
  <2> QED BY Zenon, <2>7 DEF d
<1>16. ASSUME NEW f \in DOMAIN sizes, NEW hole \in lay.sparse
       PROVE  lay.bases[f] + sizes[f] <= hole.base \/ hole.base + hole.length <= lay.bases[f]
  <2>1. PICK i \in 1 .. n : /\ hole.base = base[i - 1] + sizes[i] /\ hole.length = length[i]
                            /\ hole.base + hole.length = base[i]
    BY <1>13
  <2>2. f \in 1 .. n /\ lay.bases[f] = base[f - 1]
    BY <1>1, <1>7
  <2>3. /\ base[f - 1] \in Nat /\ sizes[f] \in Nat /\ base[f] \in Nat
        /\ base[i - 1] \in Nat /\ sizes[i] \in Nat /\ base[i] \in Nat
    BY <1>2, <1>3, <2>1, <2>2
  <2>4. CASE f < i
    <3>1. f \in 0 .. n /\ i - 1 \in 0 .. n /\ f <= i - 1
      BY SMTT(20), <1>1, <2>1, <2>2, <2>4
    <3>2. base[f] <= base[i - 1] /\ base[f - 1] + sizes[f] <= base[f]
      BY <1>6, <1>11, <2>2, <3>1
    <3> DEFINE a == base[f - 1]
               b == base[f]
               c == base[i - 1]
               d == sizes[f]
               e == sizes[i]
    <3>3. lay.bases[f] = a /\ hole.base = c + e /\ a + d <= b /\ b <= c
          /\ a \in Nat /\ b \in Nat /\ c \in Nat /\ d \in Nat /\ e \in Nat
      BY Zenon, <2>1, <2>2, <2>3, <3>2
    <3> HIDE DEF a, b, c, d, e
    <3>4. lay.bases[f] + d <= hole.base
      BY <3>3
    <3> QED BY Zenon, <3>4 DEF d
  <2>5. CASE f = i
    BY <2>1, <2>2, <2>3, <2>5
  <2>6. CASE i < f
    <3>1. i \in 0 .. n /\ f - 1 \in 0 .. n /\ i <= f - 1
      BY SMTT(20), <1>1, <2>1, <2>2, <2>6
    <3>2. base[i] <= base[f - 1]
      BY <1>6, <3>1
    <3> QED BY <2>1, <2>2, <3>2
  <2> QED BY <1>1, <2>1, <2>2, <2>4, <2>5, <2>6
<1>17. ASSUME NEW o \in 0 .. lay.size - 1
       PROVE  \/ \E f \in DOMAIN sizes : InFileAt(sizes, lay, f, o)
              \/ \E hole \in lay.sparse : InHoleAt(hole, o)
  <2>1. o \in Nat /\ o < base[n]
    BY <1>4, <1>8
  <2>2. PICK i \in 1 .. n : base[i - 1] <= o /\ o < base[i]
    BY <1>1, <1>2, <2>1, RowBetween
  <2>3. /\ base[i - 1] \in Nat /\ sizes[i] \in Nat /\ length[i] \in Nat
        /\ base[i] = base[i - 1] + sizes[i] + length[i]
    BY <1>2, <1>3
  <2>4. CASE o < base[i - 1] + sizes[i]
    BY <1>1, <1>7, <2>2, <2>4 DEF InFileAt
  <2>5. CASE ~(o < base[i - 1] + sizes[i])
    <3>1. length[i] # 0
      BY <2>1, <2>2, <2>3, <2>5
    <3>2. PICK hole \in lay.sparse : hole.base = base[i - 1] + sizes[i]
                                     /\ hole.length = length[i]
      BY <1>1, <3>1
    <3>3. InHoleAt(hole, o)
      BY <2>1, <2>2, <2>3, <2>5, <3>2 DEF InHoleAt
    <3> QED BY <3>3
  <2> QED BY <2>4, <2>5
<1> QED BY <1>8, <1>9, <1>12, <1>14, <1>15, <1>16, <1>17 DEF Tiled

\* Whatever the sheet says and however long its files are, each byte of the image
\* that the device lays out (RebuildLayout of CCueBinFileDevice) is that of one file
\* or of one hole between two sessions, and no two files or holes overlap.
THEOREM RebuildTiles ==
    ASSUME NEW sheet \in Seq(Lines), NEW sizes \in Seq(Nat),
           NEW lay \in RebuildLayout(sheet, sizes)
    PROVE  Tiled(sizes, lay)
<1>1. CASE Len(sizes) <= 1
  <2>1. RebuildLayout(sheet, sizes) = {SingleLayout(sizes)}
    BY Zenon, <1>1 DEF RebuildLayout
  <2>2. lay = SingleLayout(sizes)
    BY <2>1
  <2> QED BY <1>1, <2>2, SingleTiles
<1>2. CASE ~(Len(sizes) <= 1)
  <2> DEFINE tracks  == Tracks(sheet, sizes)
             placed  == {t \in Range(tracks) : t.file_index \in DOMAIN sizes}
             sound   == /\ \A t \in placed : t.sector_length > 0
                        /\ \A f \in DOMAIN sizes : \E t \in placed : t.file_index = f
             extents == [f \in DOMAIN sizes |-> Extent(tracks, sizes, f)]
             holes   == Holes(extents, sizes)
             sparse  == {[start |-> extents[i].end, end |-> extents[i + 1].start,
                          sector_length |-> extents[i].sector_length,
                          base |-> holes.base[i - 1] + sizes[i],
                          length |-> holes.length[i]] : i \in holes.gaps}
  <2>1. /\ sound
        /\ lay = [bases |-> [i \in DOMAIN sizes |-> holes.base[i - 1]],
                  sparse |-> sparse, size |-> holes.base[Len(sizes)]]
    BY <1>2 DEF RebuildLayout
  <2>2. tracks \in Seq(Info)
    BY TracksAreTyped
  <2> HIDE DEF tracks
  <2>3. ASSUME NEW f \in DOMAIN sizes
        PROVE  /\ extents[f].start \in Int /\ extents[f].end \in Int
               /\ extents[f].sector_length \in Nat
    <3>1. \E i \in DOMAIN tracks : tracks[i].file_index = f
      BY <2>1 DEF Range
    <3>2. \A i \in DOMAIN tracks : tracks[i].file_index = f => tracks[i].sector_length > 0
      BY <2>1 DEF Range
    <3>3. extents[f] = Extent(tracks, sizes, f)
      BY Zenon
    <3> HIDE DEF extents
    <3> QED BY <2>2, <3>1, <3>2, <3>3, ExtentIsTyped
  <2> DEFINE gaps == {i \in 1 .. Len(sizes) - 1 : extents[i + 1].start > extents[i].end}
             length == [i \in DOMAIN sizes |->
                          IF i \in gaps
                          THEN (extents[i + 1].start - extents[i].end) * extents[i].sector_length
                          ELSE 0]
  <2>4. holes = [gaps |-> gaps, length |-> length, base |-> LaidOut(sizes, length)]
    BY DEF Holes
  <2> HIDE DEF extents, holes, sound
  <2>5. \A i \in gaps : i \in DOMAIN sizes /\ i + 1 \in DOMAIN sizes
    OBVIOUS
  <2>6. \A i \in gaps : (extents[i + 1].start - extents[i].end) * extents[i].sector_length \in Nat
    <3> TAKE i \in gaps
    <3>1. /\ extents[i].end \in Int /\ extents[i].sector_length \in Nat
          /\ extents[i + 1].start \in Int /\ extents[i + 1].start > extents[i].end
      BY <2>3, <2>5
    <3>2. extents[i + 1].start - extents[i].end \in Nat
      BY <3>1
    <3> QED BY <3>1, <3>2, TimesNat
  <2>7. length \in [DOMAIN sizes -> Nat]
    <3> HIDE DEF gaps
    <3> QED BY <2>6
  <2> DEFINE base == LaidOut(sizes, length)
  <2>8. /\ lay.bases = [i \in DOMAIN sizes |-> base[i - 1]] /\ lay.size = base[Len(sizes)]
        /\ lay.sparse = {[start |-> extents[i].end, end |-> extents[i + 1].start,
                          sector_length |-> extents[i].sector_length,
                          base |-> base[i - 1] + sizes[i],
                          length |-> length[i]] : i \in gaps}
    <3> HIDE DEF gaps, length, base
    <3>1. holes.gaps = gaps /\ holes.length = length /\ holes.base = base
      BY <2>4 DEF base
    <3> QED BY <2>1, <3>1
  <2>9. \A i \in 0 .. Len(sizes) : base[i] \in Nat
    <3> HIDE DEF length
    <3> QED BY <2>7, LaidOutRow
  <2>10. \A i \in DOMAIN sizes : length[i] # 0 => i \in gaps
    <3> HIDE DEF gaps
    <3> QED OBVIOUS
  <2> HIDE DEF base, length
  <2>11. lay.sparse \subseteq Hole
    <3>1. ASSUME NEW i \in gaps
          PROVE  [start |-> extents[i].end, end |-> extents[i + 1].start,
                  sector_length |-> extents[i].sector_length,
                  base |-> base[i - 1] + sizes[i], length |-> length[i]] \in Hole
      <4>1. /\ extents[i].end \in Int /\ extents[i].sector_length \in Nat
            /\ extents[i + 1].start \in Int
        BY <2>3, <2>5
      <4>2. i \in DOMAIN sizes /\ i - 1 \in 0 .. Len(sizes)
        BY <2>5
      <4>3. base[i - 1] + sizes[i] \in Nat /\ length[i] \in Nat
        <5> HIDE DEF gaps
        <5> QED BY <2>7, <2>9, <4>2
      <4> QED BY <4>1, <4>3 DEF Hole
    <3> HIDE DEF gaps
    <3> QED BY <2>8, <3>1
  <2>12. \A hole \in lay.sparse : \E i \in DOMAIN sizes :
            hole.base = base[i - 1] + sizes[i] /\ hole.length = length[i]
    <3> TAKE hole \in lay.sparse
    <3>1. PICK i \in gaps : hole = [start |-> extents[i].end, end |-> extents[i + 1].start,
                                    sector_length |-> extents[i].sector_length,
                                    base |-> base[i - 1] + sizes[i], length |-> length[i]]
      <4> HIDE DEF gaps
      <4> QED BY <2>8
    <3> QED BY <2>5, <3>1
  <2>13. \A i \in DOMAIN sizes : length[i] # 0 => \E hole \in lay.sparse :
            hole.base = base[i - 1] + sizes[i] /\ hole.length = length[i]
    <3> TAKE i \in DOMAIN sizes
    <3> HAVE length[i] # 0
    <3> DEFINE hole == [start |-> extents[i].end, end |-> extents[i + 1].start,
                        sector_length |-> extents[i].sector_length,
                        base |-> base[i - 1] + sizes[i], length |-> length[i]]
    <3>1. hole \in lay.sparse
      <4>1. i \in gaps
        BY <2>10
      <4> HIDE DEF gaps
      <4> QED BY <2>8, <4>1
    <3>2. hole.base = base[i - 1] + sizes[i] /\ hole.length = length[i]
      OBVIOUS
    <3> QED BY <3>1, <3>2
  <2>14. base = LaidOut(sizes, length)
    BY DEF base
  <2>15. OnRow(sizes, length, base, lay)
    BY Zenon, <2>8, <2>11, <2>12, <2>13, <2>14 DEF OnRow
  <2> QED BY <2>7, <2>15, RowTiles
<1> QED BY <1>1, <1>2

-----------------------------------------------------------------------------
(* A cue and bin image: its bytes                                            *)

Bytes == Nat \X Nat

\* A byte in a file is in that file alone.
LEMMA FileAtOffset ==
    ASSUME files \in Seq(Nat), Tiled(files, layout), NEW o \in Nat,
           NEW f \in DOMAIN files, InFileAt(files, layout, f, o)
    PROVE  FileIndexForOffset(o) = {f} /\ Min({f}) = f
<1>1. f \in FileIndexForOffset(o)
  BY DEF FileIndexForOffset, InFileAt
<1>2. ASSUME NEW g \in FileIndexForOffset(o) PROVE g = f
  <2>1. g \in DOMAIN files /\ layout.bases[g] <= o /\ o < layout.bases[g] + files[g]
    BY DEF FileIndexForOffset
  <2>2. layout.bases[f] <= o /\ o < layout.bases[f] + files[f]
    BY DEF InFileAt
  <2>3. /\ layout.bases[f] \in Nat /\ layout.bases[g] \in Nat /\ files[f] \in Nat
        /\ files[g] \in Nat /\ f \in Nat /\ g \in Nat
    BY SMTT(20), <2>1 DEF Tiled
  <2>4. f < g => layout.bases[f] + files[f] <= layout.bases[g]
    BY <2>1 DEF Tiled
  <2>5. g < f => layout.bases[g] + files[g] <= layout.bases[f]
    BY <2>1 DEF Tiled
  <2> QED BY SMTT(20), <2>1, <2>2, <2>3, <2>4, <2>5
<1>3. FileIndexForOffset(o) = {f}
  BY <1>1, <1>2
<1>4. {f} \subseteq Nat /\ {f} # {}
  OBVIOUS
<1>5. Min({f}) \in {f}
  BY <1>4, MinIn
<1> QED BY <1>3, <1>5

\* A byte in a hole is in no file.
LEMMA NoFileInHole ==
    ASSUME files \in Seq(Nat), Tiled(files, layout), NEW o \in Nat,
           NEW hole \in layout.sparse, InHoleAt(hole, o)
    PROVE  FileIndexForOffset(o) = {}
<1> SUFFICES ASSUME NEW g \in FileIndexForOffset(o) PROVE FALSE
  OBVIOUS
<1>1. g \in DOMAIN files /\ layout.bases[g] <= o /\ o < layout.bases[g] + files[g]
  BY DEF FileIndexForOffset
<1>2. hole.base <= o /\ o < hole.base + hole.length
  BY DEF InHoleAt
<1>3. /\ layout.bases[g] \in Nat /\ files[g] \in Nat
      /\ hole.base \in Nat /\ hole.length \in Nat
  <2>1. hole \in Hole /\ layout.bases \in [DOMAIN files -> Nat]
    BY DEF Tiled
  <2> QED BY <1>1, <2>1 DEF Hole
<1>4. layout.bases[g] + files[g] <= hole.base \/ hole.base + hole.length <= layout.bases[g]
  BY <1>1 DEF Tiled
<1> QED BY <1>1, <1>2, <1>3, <1>4

CueByte(o) ==
    LET in == FileIndexForOffset(o)
    IN  IF in = {} THEN Silence ELSE <<Min(in), o - layout.bases[Min(in)]>>

\* A byte of the image is one of a file or a filler.
LEMMA CueByteTyped ==
    ASSUME files \in Seq(Nat), Tiled(files, layout), NEW o \in Nat
    PROVE  /\ CueByte(o) \in Bytes
           /\ \A f \in DOMAIN files :
                 InFileAt(files, layout, f, o) => CueByte(o) = <<f, o - layout.bases[f]>>
           /\ \A hole \in layout.sparse : InHoleAt(hole, o) => CueByte(o) = Silence
<1>1. ASSUME NEW f \in DOMAIN files, InFileAt(files, layout, f, o)
      PROVE  CueByte(o) = <<f, o - layout.bases[f]>> /\ CueByte(o) \in Bytes
  <2>1. FileIndexForOffset(o) = {f} /\ Min({f}) = f
    BY <1>1, FileAtOffset
  <2>2. CueByte(o) = <<f, o - layout.bases[f]>>
    BY <2>1 DEF CueByte
  <2>3. o - layout.bases[f] \in Nat
    BY <1>1 DEF InFileAt, Tiled
  <2> QED BY <2>2, <2>3 DEF Bytes
<1>2. ASSUME FileIndexForOffset(o) = {}
      PROVE  CueByte(o) = Silence /\ CueByte(o) \in Bytes
  BY <1>2 DEF CueByte, Silence, Bytes
<1>3. ASSUME NEW hole \in layout.sparse, InHoleAt(hole, o)
      PROVE  CueByte(o) = Silence
  BY <1>2, <1>3, NoFileInHole
<1>4. CueByte(o) \in Bytes
  <2>1. CASE FileIndexForOffset(o) = {}
    BY <1>2, <2>1
  <2>2. CASE FileIndexForOffset(o) # {}
    <3>1. PICK f \in DOMAIN files : InFileAt(files, layout, f, o)
      BY <2>2 DEF FileIndexForOffset, InFileAt
    <3> QED BY <1>1, <3>1
  <2> QED BY <2>1, <2>2
<1> QED BY <1>1, <1>3, <1>4

\* The image of the device has the bytes of its layout, in order.
LEMMA CueImage ==
    ASSUME files \in Seq(Nat), Tiled(files, layout)
    PROVE  /\ Image \in Seq(Bytes) /\ Len(Image) = layout.size /\ layout.size \in Nat
           /\ \A o \in 0 .. layout.size - 1 : Image[o + 1] = CueByte(o)
<1>1. layout.size \in Nat
  BY DEF Tiled
<1>2. Image = [i \in 1 .. layout.size |-> CueByte(i - 1)]
  BY DEF Image, CueByte
<1>3. \A i \in 1 .. layout.size : CueByte(i - 1) \in Bytes
  <2> TAKE i \in 1 .. layout.size
  <2> DEFINE o == i - 1
  <2>1. o \in Nat
    BY <1>1
  <2> HIDE DEF o
  <2>2. CueByte(o) \in Bytes
    BY <2>1, CueByteTyped
  <2> QED BY <2>2 DEF o
<1> DEFINE n == layout.size
<1>4. n \in Nat /\ Image = [i \in 1 .. n |-> CueByte(i - 1)]
      /\ \A i \in 1 .. n : CueByte(i - 1) \in Bytes
  BY <1>1, <1>2, <1>3
<1> HIDE DEF n
<1>5. Image \in Seq(Bytes) /\ Len(Image) = n
  BY <1>4
<1>6. \A o \in 0 .. n - 1 : Image[o + 1] = CueByte(o)
  <2> TAKE o \in 0 .. n - 1
  <2>1. o + 1 \in 1 .. n /\ (o + 1) - 1 = o
    BY <1>4
  <2>2. Image[o + 1] = CueByte((o + 1) - 1)
    BY Zenon, <1>4, <2>1
  <2> QED BY <2>1, <2>2
<1> QED BY <1>1, <1>5, <1>6 DEF n

\* A function on the first numbers is a sequence.
LEMMA RowIsSeq ==
    ASSUME NEW S, NEW n \in Nat, NEW q, q = [i \in 1 .. n |-> q[i]],
           \A i \in 1 .. n : q[i] \in S
    PROVE  q \in Seq(S) /\ Len(q) = n
  OBVIOUS

\* Bytes of a file that follow each other in the image.
LEMMA RunOfFile ==
    ASSUME files \in Seq(Nat), Tiled(files, layout), NEW f \in DOMAIN files, NEW at \in Nat,
           NEW n \in Nat, at + n <= files[f], NEW p \in Nat, p = layout.bases[f] + at
    PROVE  /\ BytesOf(f, at, n) \in Seq(Bytes) /\ Len(BytesOf(f, at, n)) = n
           /\ p + n <= layout.size
           /\ \A i \in 1 .. n : BytesOf(f, at, n)[i] = Image[p + i]
<1>1. /\ layout.bases[f] \in Nat /\ files[f] \in Nat /\ layout.size \in Nat /\ f \in Nat
      /\ layout.bases[f] + files[f] <= layout.size
  BY SMTT(20) DEF Tiled
<1>2. p + n <= layout.size
  BY SMTT(20), <1>1
<1>3. ASSUME NEW i \in 1 .. n
      PROVE  <<f, at + i - 1>> = Image[p + i] /\ <<f, at + i - 1>> \in Bytes
  <2> DEFINE o == p + i - 1
  <2>1. o \in 0 .. layout.size - 1 /\ o \in Nat /\ o + 1 = p + i
        /\ o - layout.bases[f] = at + i - 1 /\ at + i - 1 \in Nat
        /\ layout.bases[f] <= o /\ o < layout.bases[f] + files[f]
    <3> DEFINE b == layout.bases[f]
               s == files[f]
    <3>1. b \in Nat /\ s \in Nat /\ b + s <= layout.size /\ layout.size \in Nat
          /\ p = b + at /\ at + n <= s
      BY <1>1
    <3> HIDE DEF b, s
    <3> DEFINE c == layout.size
    <3>2. i \in Nat /\ 1 <= i /\ i <= n /\ c \in Nat /\ b + s <= c
      BY <3>1
    <3> HIDE DEF c
    <3>5. o \in Nat /\ o + 1 = p + i
      BY SMTT(20), <3>1, <3>2
    <3>6. o < b + s
      BY <3>1, <3>2
    <3>7. o - b = at + i - 1 /\ at + i - 1 \in Nat /\ b <= o
      BY SMTT(20), <3>1, <3>2
    <3>3. o \in Nat /\ o < c /\ o + 1 = p + i /\ o - b = at + i - 1 /\ at + i - 1 \in Nat
          /\ b <= o /\ o < b + s
      <4> HIDE DEF o
      <4>1. o < c
        BY <3>1, <3>2, <3>5, <3>6
      <4> QED BY Zenon, <4>1, <3>5, <3>6, <3>7
    <3>4. o \in 0 .. c - 1
      BY <3>2, <3>3
    <3> QED BY Zenon, <3>3, <3>4 DEF b, s, c
  <2> HIDE DEF o
  <2>2. CueByte(o) = <<f, o - layout.bases[f]>>
    BY <2>1, CueByteTyped DEF InFileAt
  <2>3. Image[o + 1] = CueByte(o)
    BY <2>1, CueImage
  <2>4. f \in Nat
    BY <1>1
  <2>5. <<f, at + i - 1>> \in Bytes
    BY <2>1, <2>4 DEF Bytes
  <2> QED BY <2>1, <2>2, <2>3, <2>5
<1>4. BytesOf(f, at, n) = [i \in 1 .. n |-> <<f, at + i - 1>>]
  BY DEF BytesOf
<1>5. \A i \in 1 .. n : <<f, at + i - 1>> \in Bytes
  BY Zenon, <1>3
<1>6. BytesOf(f, at, n) \in Seq(Bytes) /\ Len(BytesOf(f, at, n)) = n
  <2> DEFINE q == BytesOf(f, at, n)
  <2>1. q = [i \in 1 .. n |-> q[i]] /\ \A i \in 1 .. n : q[i] \in Bytes
    BY Zenon, <1>4, <1>5
  <2> HIDE DEF q
  <2> QED BY <2>1, RowIsSeq DEF q
<1>7. \A i \in 1 .. n : BytesOf(f, at, n)[i] = Image[p + i]
  <2> TAKE i \in 1 .. n
  <2>1. BytesOf(f, at, n)[i] = <<f, at + i - 1>>
    BY Zenon, <1>4
  <2> QED BY <1>3, <2>1
<1> QED BY <1>2, <1>6, <1>7

\* What is left of the hole at an offset that no file has.
LEMMA LeftOfHole ==
    ASSUME files \in Seq(Nat), Tiled(files, layout), NEW o \in Nat
    PROVE  /\ SparseBytesAt(o) \in Nat
           /\ SparseBytesAt(o) > 0 => \E hole \in layout.sparse :
                 InHoleAt(hole, o) /\ SparseBytesAt(o) = hole.base + hole.length - o
           /\ SparseBytesAt(o) = 0 => \A hole \in layout.sparse : ~InHoleAt(hole, o)
<1> DEFINE inHole == {hole \in layout.sparse :
                        o >= hole.base /\ o < hole.base + hole.length}
           lefts == {hole.base + hole.length - o : hole \in inHole}
           S == {0} \cup lefts
           n == layout.size
<1>1. SparseBytesAt(o) = Max(S) /\ n \in Nat
  BY DEF SparseBytesAt, Tiled
<1>2. ASSUME NEW hole \in inHole
      PROVE  hole \in layout.sparse /\ InHoleAt(hole, o)
             /\ hole.base + hole.length - o \in 0 .. n /\ hole.base + hole.length - o > 0
  <2>1. hole \in Hole /\ hole.base + hole.length <= layout.size /\ layout.size \in Nat
    BY DEF Tiled
  <2>2. hole.base \in Nat /\ hole.length \in Nat
    BY <2>1 DEF Hole
  <2> QED BY <2>1, <2>2 DEF InHoleAt
<1>3. ASSUME NEW hole \in layout.sparse, InHoleAt(hole, o) PROVE hole \in inHole
  <2>1. hole \in Hole
    BY DEF Tiled
  <2>2. hole.base \in Nat /\ hole.length \in Nat
    BY <2>1 DEF Hole
  <2> QED BY <1>3, <2>2 DEF InHoleAt
<1>4. S \subseteq 0 .. n /\ S # {}
  <2> HIDE DEF inHole, n
  <2>1. lefts \subseteq 0 .. n
    BY <1>2
  <2> QED BY <1>1, <2>1
<1> DEFINE m == Max(S)
<1>5. m \in S /\ \A s \in S : m >= s
  <2> HIDE DEF S, n
  <2> QED BY <1>1, <1>4, MaxIn
<1>6. SparseBytesAt(o) = m /\ m \in 0 .. n
  BY <1>1, <1>4, <1>5
<1> HIDE DEF m, n
<1>7. m > 0 => \E hole \in inHole : m = hole.base + hole.length - o
  <2> HIDE DEF inHole
  <2> QED BY <1>5
<1>8. m = 0 => inHole = {}
  <2> SUFFICES ASSUME m = 0, NEW hole \in inHole PROVE FALSE
    OBVIOUS
  <2>1. hole.base + hole.length - o \in S
    <3> HIDE DEF inHole
    <3> QED OBVIOUS
  <2>2. m >= hole.base + hole.length - o
    <3> HIDE DEF S
    <3> QED BY <1>5, <2>1
  <2> QED BY <1>2, <2>2
<1> HIDE DEF inHole
<1>9. m \in Nat
  BY <1>1, <1>6
<1>10. m > 0 => \E hole \in layout.sparse :
          InHoleAt(hole, o) /\ m = hole.base + hole.length - o
  BY <1>2, <1>7
<1>11. m = 0 => \A hole \in layout.sparse : ~InHoleAt(hole, o)
  BY <1>3, <1>8
<1> QED BY Zenon, <1>6, <1>9, <1>10, <1>11

-----------------------------------------------------------------------------
(* A cue and bin image: where a sector is                                    *)

\* Where a sector lies in its file is a count.
LEMMA OffsetInFileNat ==
    ASSUME NEW track \in Info, NEW lba \in Nat PROVE OffsetInFile(track, lba) \in Nat
<1>1. /\ track.data_start \in Int /\ track.file_offset \in Int
      /\ track.sector_length \in Nat
  BY DEF Info
<1> DEFINE rel == lba - track.data_start
           at == IF rel < 0 /\ track.unstored_pregap_length > 0 THEN 0 ELSE rel
           n == track.file_offset + at * track.sector_length
<1>2. at \in Int
  BY <1>1
<1>3. OffsetInFile(track, lba) = Max({0, n})
  BY DEF OffsetInFile
<1> HIDE DEF at
<1>4. \A a \in Int, b \in Nat : a * b \in Int
  OBVIOUS
<1>5. n \in Int
  BY <1>1, <1>2, <1>4
<1> HIDE DEF n
<1> QED BY <1>3, <1>5, MaxZero

\* The track of a sector is one of the sheet.
LEMMA TrackForLBAIsInfo ==
    ASSUME NEW tracks \in Seq(Info), tracks # <<>>, NEW lba \in Nat
    PROVE  TrackForLBA(tracks, lba) \in Info
<1> DEFINE later == {i \in 2 .. Len(tracks) : lba < tracks[i].track_start}
<1>1. TrackForLBA(tracks, lba) = IF later = {} THEN Last(tracks) ELSE tracks[Min(later) - 1]
  BY DEF TrackForLBA
<1>2. later \subseteq Nat /\ later \subseteq 2 .. Len(tracks)
  OBVIOUS
<1> HIDE DEF later
<1> DEFINE n == Len(tracks)
<1>3. n \in Nat /\ n # 0 /\ DOMAIN tracks = 1 .. n /\ \A i \in 1 .. n : tracks[i] \in Info
  BY EmptySeq
<1>4. CASE later = {}
  <2>1. Last(tracks) = tracks[n]
    BY DEF Last
  <2> HIDE DEF n
  <2>2. n \in 1 .. n
    BY <1>3
  <2> QED BY <1>1, <1>3, <1>4, <2>1, <2>2
<1>5. CASE later # {}
  <2> DEFINE k == Min(later)
  <2>1. k \in later
    BY <1>2, <1>5, MinIn
  <2>2. k \in 2 .. n
    BY <1>2, <2>1
  <2> HIDE DEF k, n
  <2>3. k - 1 \in 1 .. n
    BY <1>3, <2>2
  <2> QED BY <1>1, <1>3, <1>5, <2>3 DEF k
<1> QED BY <1>4, <1>5

\* Where a sector lies in the image is a count.
LEMMA OffsetOfSectorNat ==
    ASSUME cue_str \in Seq(Lines), files \in Seq(Nat), Tiled(files, layout),
           NEW lba \in Nat, NEW offset \in GetByteOffsetForLBA(lba)
    PROVE  offset \in Nat
<1> DEFINE inHole == {hole \in layout.sparse : lba \in hole.start .. hole.end - 1}
<1>1. CASE Len(files) <= 1
  <2>1. offset = CueLBAToByteOffset(cue_str, lba)
    BY <1>1 DEF GetByteOffsetForLBA
  <2> DEFINE tracks == Tracks(cue_str, <<>>)
  <2>2. tracks \in Seq(Info)
    <3>1. <<>> \in Seq(Nat)
      OBVIOUS
    <3> QED BY <3>1, TracksAreTyped
  <2>3. offset = IF tracks = <<>> THEN lba * SectorSize["AUDIO"]
                 ELSE OffsetInFile(TrackForLBA(tracks, lba), lba)
    BY <2>1 DEF CueLBAToByteOffset
  <2> HIDE DEF tracks
  <2>4. CASE tracks = <<>>
    <3>1. SectorSize["AUDIO"] \in Nat
      BY SheetAssumption DEF SheetAssumption
    <3> QED BY <2>3, <2>4, <3>1, TimesNat
  <2>5. CASE tracks # <<>>
    BY <2>2, <2>3, <2>5, TrackForLBAIsInfo, OffsetInFileNat
  <2> QED BY <2>4, <2>5
<1>2. CASE ~(Len(files) <= 1) /\ inHole # {}
  <2>1. PICK hole \in inHole :
           offset = hole.base + (lba - hole.start) * hole.sector_length
    BY <1>2 DEF GetByteOffsetForLBA
  <2>2. hole \in Hole /\ hole.start <= lba
    <3>1. hole \in Hole
      BY DEF Tiled
    <3> QED BY <3>1 DEF Hole
  <2>3. hole.base \in Nat /\ hole.sector_length \in Nat /\ lba - hole.start \in Nat
    BY <2>2 DEF Hole
  <2> DEFINE a == (lba - hole.start) * hole.sector_length
  <2>4. a \in Nat
    BY <2>3, TimesNat
  <2>5. offset = hole.base + a
    BY <2>1
  <2> HIDE DEF a
  <2> QED BY <2>3, <2>4, <2>5
<1>3. CASE ~(Len(files) <= 1) /\ inHole = {}
  <2>1. PICK loc \in {l \in CueResolveLBA(cue_str, lba, files) : l.file \in DOMAIN files} :
           offset = layout.bases[loc.file] + loc.offset
    BY <1>3 DEF GetByteOffsetForLBA
  <2> DEFINE tracks == Tracks(cue_str, files)
             track  == TrackForLBA(tracks, lba)
  <2>2. /\ tracks # <<>>
        /\ loc = [file |-> Max({1, track.file_index}), offset |-> OffsetInFile(track, lba)]
    BY <2>1 DEF CueResolveLBA
  <2>3. track \in Info
    <3>1. tracks \in Seq(Info)
      BY TracksAreTyped
    <3> HIDE DEF tracks
    <3> QED BY <2>2, <3>1, TrackForLBAIsInfo
  <2> HIDE DEF track
  <2>4. loc.offset \in Nat
    BY <2>2, <2>3, OffsetInFileNat
  <2>5. layout.bases[loc.file] \in Nat
    BY <2>1 DEF Tiled
  <2> QED BY <2>1, <2>4, <2>5
<1> QED BY <1>1, <1>2, <1>3

-----------------------------------------------------------------------------
(* A cue and bin image: the contract                                         *)

Window == [nStart : Nat, nLen : Nat, file : Nat, at : Nat]

\* A window that is not given up holds a stretch of a file, in its place.
Holds(win) ==
    win.nLen > 0 =>
        /\ win.file \in DOMAIN files
        /\ win.nStart = layout.bases[win.file] + win.at
        /\ win.at + win.nLen <= files[win.file]

CueInv ==
    /\ cue_str \in Seq(Lines) /\ card \in Seq(Nat) /\ files \in Seq(Nat)
    /\ step \in {"Cue", "First", "Files", "Failed", "Ready", "Deleted"}
    /\ m_CacheWindows \in [1 .. NumCacheWindows -> Window]
    /\ asked \in Nat /\ got \in Seq(Bytes)
    /\ outcome = "reading" => step = "Ready" /\ Len(got) <= asked
    /\ step \in {"Cue", "First", "Files"} =>
          /\ outcome = "none" /\ m_nLogicalPos = 0
          /\ \A w \in 1 .. NumCacheWindows : m_CacheWindows[w].nLen = 0
    /\ step = "Ready" =>
          /\ Tiled(files, layout) /\ m_nLogicalPos \in 0 .. layout.size
          /\ \A w \in 1 .. NumCacheWindows : Holds(m_CacheWindows[w])

\* A step that leaves the rip and its layout leaves the image.
LEMMA SameRip ==
    ASSUME UNCHANGED loading
    PROVE  /\ Tiled(files, layout)' = Tiled(files, layout) /\ Image' = Image
           /\ UNCHANGED <<cue_str, card, step, opened, closes, files, layout>>
<1>1. UNCHANGED <<cue_str, card, step, opened, closes, files, layout>>
  BY DEF loading
<1>2. Tiled(files, layout)' = Tiled(files, layout)
  BY Zenon, <1>1 DEF Tiled, InFileAt, InHoleAt, Hole
<1>3. Image' = Image
  BY Zenon, <1>1 DEF Image, FileIndexForOffset, Silence
<1> QED BY <1>1, <1>2, <1>3

\* What a step of Seek and Read has to keep.
LEMMA CueKeeps ==
    ASSUME CueInv, step = "Ready", UNCHANGED loading, m_nLogicalPos' \in 0 .. layout.size,
           m_CacheWindows' \in [1 .. NumCacheWindows -> Window],
           \A w \in 1 .. NumCacheWindows : Holds(m_CacheWindows'[w]),
           asked' \in Nat, got' \in Seq(Bytes), outcome' = "reading" => Len(got') <= asked'
    PROVE  CueInv'
<1>1. UNCHANGED <<cue_str, card, step, opened, closes, files, layout>>
      /\ Tiled(files, layout)' = Tiled(files, layout)
  BY SameRip
<1>2. \A w \in 1 .. NumCacheWindows : Holds(m_CacheWindows[w])'
  BY <1>1 DEF Holds
<1>3. Tiled(files, layout)' /\ (m_nLogicalPos \in 0 .. layout.size)'
  BY <1>1 DEF CueInv
<1>4. step' = "Ready" /\ cue_str' \in Seq(Lines) /\ card' \in Seq(Nat) /\ files' \in Seq(Nat)
  BY <1>1 DEF CueInv
<1> QED BY <1>2, <1>3, <1>4 DEF CueInv

\* Bytes of the image, as they follow, are what the contract delivers.
LEMMA CueDelivers ==
    ASSUME CueInv, format = "cue", format' = format, step = "Ready", outcome = "reading",
           UNCHANGED loading, UNCHANGED asked, NEW bytes \in Seq(Bytes), Serve(bytes),
           Len(bytes) > 0, Len(bytes) <= remaining, m_nLogicalPos + Len(bytes) <= layout.size,
           \A i \in 1 .. Len(bytes) : bytes[i] = Image[m_nLogicalPos + i],
           m_CacheWindows' \in [1 .. NumCacheWindows -> Window],
           \A w \in 1 .. NumCacheWindows : Holds(m_CacheWindows'[w])
    PROVE  CueInv' /\ Device!Deliver
<1>1. /\ got' = got \o bytes /\ m_nLogicalPos' = m_nLogicalPos + Len(bytes)
      /\ outcome' = "reading" /\ asked' = asked
  BY DEF Serve
<1>2. /\ files \in Seq(Nat) /\ Tiled(files, layout) /\ asked \in Nat /\ got \in Seq(Bytes)
      /\ m_nLogicalPos \in 0 .. layout.size /\ Len(got) <= asked
  BY DEF CueInv
<1>3. Image \in Seq(Bytes) /\ Len(Image) = layout.size /\ layout.size \in Nat
  BY <1>2, CueImage
<1>4. m_nLogicalPos \in Nat /\ Len(bytes) \in Nat /\ Len(got) \in Nat
  BY <1>2, <1>3
<1>5. bytes = SubSeq(Image, m_nLogicalPos + 1, m_nLogicalPos + Len(bytes))
  BY <1>3, <1>4, DeliveredBytes
<1>6. got' \in Seq(Bytes) /\ Len(got') = Len(got) + Len(bytes)
  BY <1>1, <1>2
<1>7. Len(got') <= asked'
  BY <1>1, <1>2, <1>4, <1>6 DEF remaining
<1>8. m_nLogicalPos' \in m_nLogicalPos + 1 .. layout.size /\ m_nLogicalPos' \in 0 .. layout.size
  BY <1>1, <1>3, <1>4
<1>9. CueInv'
  BY <1>1, <1>2, <1>6, <1>7, <1>8, CueKeeps
<1>10. /\ deviceImage = Image /\ deviceImage' = Image
       /\ devicePos = m_nLogicalPos /\ devicePos' = m_nLogicalPos'
  BY SameRip DEF deviceImage, devicePos
<1>11. /\ devicePos' \in devicePos + 1 .. Len(deviceImage)
       /\ got' = got \o SubSeq(deviceImage, devicePos + 1, devicePos')
  BY <1>1, <1>3, <1>5, <1>8, <1>10
<1>12. Device!Deliver
  <2>1. /\ deviceImage \in Seq(Bytes) /\ devicePos \in Nat /\ format # "chd"
        /\ UNCHANGED <<format, deviceImage, asked, outcome>> /\ Len(got') <= asked
    BY <1>1, <1>3, <1>4, <1>7, <1>10
  <2> QED BY <1>2, <1>11, <2>1, DeliverInside
<1> QED BY <1>9, <1>12

\* What is known whenever the read loop takes a turn.
LEMMA TurnFacts ==
    ASSUME CueInv, Turn
    PROVE  /\ step = "Ready" /\ outcome = "reading" /\ UNCHANGED loading /\ UNCHANGED asked
           /\ files \in Seq(Nat) /\ Tiled(files, layout) /\ layout.size \in Nat
           /\ m_nLogicalPos \in Nat /\ m_nLogicalPos \in 0 .. layout.size
           /\ remaining \in Nat \ {0} /\ asked \in Nat /\ got \in Seq(Bytes)
           /\ Len(got) \in Nat /\ Len(got) <= asked
           /\ m_CacheWindows \in [1 .. NumCacheWindows -> Window]
           /\ \A w \in 1 .. NumCacheWindows : Holds(m_CacheWindows[w])
<1>1. step = "Ready" /\ outcome = "reading" /\ UNCHANGED loading /\ UNCHANGED asked
      /\ remaining > 0
  BY DEF Turn, Serving
<1>2. /\ files \in Seq(Nat) /\ Tiled(files, layout) /\ m_nLogicalPos \in 0 .. layout.size
      /\ asked \in Nat /\ got \in Seq(Bytes) /\ Len(got) <= asked
      /\ m_CacheWindows \in [1 .. NumCacheWindows -> Window]
      /\ \A w \in 1 .. NumCacheWindows : Holds(m_CacheWindows[w])
  BY <1>1 DEF CueInv
<1>3. layout.size \in Nat
  BY <1>2 DEF Tiled
<1>4. Len(got) \in Nat
  BY <1>2
<1> HIDE DEF Tiled
<1>5. remaining \in Nat \ {0}
  BY <1>1, <1>2, <1>4 DEF remaining
<1> QED BY <1>1, <1>2, <1>3, <1>4, <1>5

\* Where in its file the position is that a window has.
LEMMA PlaceInWindow ==
    ASSUME NEW p \in Nat, NEW start \in Nat, NEW length \in Nat, NEW a \in Nat,
           NEW r \in Nat, NEW b \in Nat, NEW s \in Nat,
           p >= start, p + r <= start + length, start = b + a, a + length <= s
    PROVE  /\ a + p - start \in Nat /\ p = b + (a + p - start)
           /\ (a + p - start) + r <= s
  OBVIOUS

\* A turn of the read loop that the cache serves delivers the next bytes of the image.
LEMMA CacheHitDelivers ==
    ASSUME CueInv, format = "cue", format' = format, CacheHit
    PROVE  CueInv' /\ Device!Deliver
<1>1. Turn /\ CacheHits # {} /\ UNCHANGED m_CacheWindows
  BY DEF CacheHit
<1> DEFINE w == Min(CacheHits)
           win == m_CacheWindows[w]
           at == win.at + m_nLogicalPos - win.nStart
           bytes == BytesOf(win.file, at, remaining)
<1>2. w \in 1 .. NumCacheWindows /\ Hits(w)
  <2>1. CacheHits \subseteq 1 .. NumCacheWindows /\ \A v \in CacheHits : Hits(v)
    BY <1>1, TurnFacts DEF CacheHits
  <2>2. CacheHits \subseteq Nat
    BY <2>1
  <2>3. Min(CacheHits) \in CacheHits
    BY <1>1, <2>2, MinIn
  <2> QED BY <2>1, <2>3
<1>3. Serve(bytes)
  BY DEF CacheHit
<1> HIDE DEF w
<1>4. /\ remaining <= win.nLen /\ m_nLogicalPos >= win.nStart
      /\ m_nLogicalPos + remaining <= win.nStart + win.nLen
  BY <1>2 DEF Hits
<1>5. win \in Window /\ Holds(win)
  BY <1>1, <1>2, TurnFacts
<1> HIDE DEF win
<1>6. win.nStart \in Nat /\ win.nLen \in Nat /\ win.file \in Nat /\ win.at \in Nat
  BY <1>5 DEF Window
<1>7. remaining \in Nat \ {0} /\ m_nLogicalPos \in Nat /\ Tiled(files, layout)
      /\ files \in Seq(Nat)
  BY <1>1, TurnFacts
<1>8. /\ win.file \in DOMAIN files /\ win.nStart = layout.bases[win.file] + win.at
      /\ win.at + win.nLen <= files[win.file]
  BY <1>4, <1>5, <1>6, <1>7 DEF Holds
<1> DEFINE b == layout.bases[win.file]
           s == files[win.file]
<1>9. b \in Nat /\ s \in Nat
  BY <1>7, <1>8 DEF Tiled
<1>10. win.nStart = b + win.at /\ win.at + win.nLen <= s
  BY <1>8
<1>11. at \in Nat /\ m_nLogicalPos = b + at /\ at + remaining <= s
  <2> DEFINE p == m_nLogicalPos
             r == remaining
             start == win.nStart
             length == win.nLen
             a == win.at
  <2>1. p \in Nat /\ r \in Nat /\ start \in Nat /\ length \in Nat /\ a \in Nat
        /\ b \in Nat /\ s \in Nat /\ p >= start /\ p + r <= start + length
        /\ start = b + a /\ a + length <= s
    BY <1>4, <1>6, <1>7, <1>9, <1>10
  <2>2. at = a + p - start
    BY Zenon
  <2> HIDE DEF b, s, p, r, start, length, a
  <2>3. at \in Nat /\ p = b + at /\ at + r <= s
    BY <2>1, <2>2, PlaceInWindow
  <2> QED BY <2>3 DEF p, r
<1> HIDE DEF at
<1>12. /\ bytes \in Seq(Bytes) /\ Len(bytes) = remaining
       /\ m_nLogicalPos + remaining <= layout.size
       /\ \A i \in 1 .. remaining : bytes[i] = Image[m_nLogicalPos + i]
  <2> DEFINE f == win.file
             n == remaining
  <2>1. f \in DOMAIN files /\ at \in Nat /\ n \in Nat /\ at + n <= files[f]
        /\ m_nLogicalPos = layout.bases[f] + at
    BY <1>7, <1>8, <1>11
  <2>2. bytes = BytesOf(f, at, n)
    BY Zenon
  <2> HIDE DEF bytes, b, s, f, n
  <2>3. m_nLogicalPos \in Nat /\ files \in Seq(Nat) /\ Tiled(files, layout)
    BY <1>7
  <2>4. /\ BytesOf(f, at, n) \in Seq(Bytes) /\ Len(BytesOf(f, at, n)) = n
        /\ m_nLogicalPos + n <= layout.size
        /\ \A i \in 1 .. n : BytesOf(f, at, n)[i] = Image[m_nLogicalPos + i]
    BY SMTT(20), <2>1, <2>3, RunOfFile
  <2> QED BY Zenon, <2>2, <2>4 DEF n
<1> HIDE DEF bytes
<1>13. m_CacheWindows' \in [1 .. NumCacheWindows -> Window]
       /\ \A v \in 1 .. NumCacheWindows : Holds(m_CacheWindows'[v])
  BY <1>1, TurnFacts
<1>14. step = "Ready" /\ outcome = "reading" /\ UNCHANGED loading /\ UNCHANGED asked
  BY <1>1, TurnFacts
<1>15. Len(bytes) > 0 /\ Len(bytes) <= remaining
       /\ m_nLogicalPos + Len(bytes) <= layout.size
       /\ \A i \in 1 .. Len(bytes) : bytes[i] = Image[m_nLogicalPos + i]
  BY <1>7, <1>12
<1> QED BY <1>3, <1>12, <1>13, <1>14, <1>15, CueDelivers

\* The same from a hole between two sessions,
LEMMA HoleDelivers ==
    ASSUME CueInv, format = "cue", format' = format, ReadHole
    PROVE  CueInv' /\ Device!Deliver
<1> DEFINE left == SparseBytesAt(m_nLogicalPos)
           n == Min({remaining, left})
           bytes == [i \in 1 .. n |-> Silence]
<1>1. Turn /\ left > 0 /\ Serve(bytes) /\ UNCHANGED m_CacheWindows
  BY DEF ReadHole, cache
<1>2. /\ remaining \in Nat \ {0} /\ m_nLogicalPos \in Nat /\ Tiled(files, layout)
      /\ files \in Seq(Nat) /\ layout.size \in Nat
  BY <1>1, TurnFacts
<1>3. PICK hole \in layout.sparse :
         InHoleAt(hole, m_nLogicalPos) /\ left = hole.base + hole.length - m_nLogicalPos
  BY <1>1, <1>2, LeftOfHole
<1>4. left \in Nat
  BY <1>2, LeftOfHole
<1> HIDE DEF left
<1>5. n \in Nat /\ n > 0 /\ n <= remaining /\ n <= left
  <2>1. remaining \in Int /\ left \in Int
    BY <1>2, <1>4
  <2>2. n \in {remaining, left} /\ n <= remaining /\ n <= left
    BY <2>1, MinOfTwo
  <2> HIDE DEF n, bytes
  <2> QED BY <1>1, <1>2, <1>4, <2>2
<1> HIDE DEF n
<1>6. hole.base \in Nat /\ hole.length \in Nat /\ hole.base + hole.length <= layout.size
      /\ hole.base <= m_nLogicalPos
  <2>1. hole \in Hole /\ hole.base + hole.length <= layout.size
    BY <1>2 DEF Tiled
  <2> QED BY <1>3, <2>1 DEF Hole, InHoleAt
<1>7. bytes \in Seq(Bytes) /\ Len(bytes) = n /\ \A i \in 1 .. n : bytes[i] = Silence
  <2>1. Silence \in Bytes
    BY DEF Silence, Bytes
  <2> QED BY <1>5, <2>1
<1> HIDE DEF bytes
<1>8. m_nLogicalPos + n <= layout.size
  BY <1>2, <1>3, <1>5, <1>6
<1>9. \A i \in 1 .. n : bytes[i] = Image[m_nLogicalPos + i]
  <2> TAKE i \in 1 .. n
  <2> DEFINE o == m_nLogicalPos + i - 1
  <2>1. /\ o \in Nat /\ o < layout.size /\ o + 1 = m_nLogicalPos + i
        /\ hole.base <= o /\ o < hole.base + hole.length
    BY <1>2, <1>3, <1>5, <1>6, <1>8
  <2> HIDE DEF o
  <2>2. CueByte(o) = Silence
    BY <1>2, <2>1, CueByteTyped DEF InHoleAt
  <2>3. o \in 0 .. layout.size - 1
    BY <1>2, <2>1
  <2>4. Image[o + 1] = CueByte(o)
    BY <1>2, <2>3, CueImage
  <2> QED BY <1>7, <2>1, <2>2, <2>4
<1>10. m_CacheWindows' \in [1 .. NumCacheWindows -> Window]
       /\ \A v \in 1 .. NumCacheWindows : Holds(m_CacheWindows'[v])
  BY <1>1, TurnFacts
<1>11. step = "Ready" /\ outcome = "reading" /\ UNCHANGED loading /\ UNCHANGED asked
  BY <1>1, TurnFacts
<1>12. Serve(bytes) /\ Len(bytes) > 0 /\ Len(bytes) <= remaining
       /\ m_nLogicalPos + Len(bytes) <= layout.size
       /\ \A i \in 1 .. Len(bytes) : bytes[i] = Image[m_nLogicalPos + i]
  BY <1>1, <1>5, <1>7, <1>8, <1>9
<1> QED BY <1>7, <1>10, <1>11, <1>12, CueDelivers

\* Where the position is in a file.
LEMMA FileFacts ==
    ASSUME CueInv, Turn, InFile # {}
    PROVE  /\ fileAt \in DOMAIN files /\ nInFile \in Nat /\ fileAt \in Nat
           /\ available \in Nat \ {0} /\ nInFile + available = files[fileAt]
           /\ m_nLogicalPos = layout.bases[fileAt] + nInFile
           /\ wanted \in Nat \ {0} /\ wanted <= remaining /\ wanted <= available
<1>1. /\ remaining \in Nat \ {0} /\ m_nLogicalPos \in Nat /\ Tiled(files, layout)
      /\ files \in Seq(Nat)
  BY TurnFacts
<1>2. fileAt \in InFile
  <2>1. InFile \subseteq Nat
    BY <1>1 DEF InFile, FileIndexForOffset
  <2>2. Min(InFile) \in InFile
    BY <2>1, MinIn
  <2> QED BY <2>2 DEF fileAt
<1>3. /\ fileAt \in DOMAIN files /\ m_nLogicalPos >= layout.bases[fileAt]
      /\ m_nLogicalPos < layout.bases[fileAt] + files[fileAt]
  BY <1>2 DEF InFile, FileIndexForOffset
<1>4. layout.bases[fileAt] \in Nat /\ files[fileAt] \in Nat /\ fileAt \in Nat
  BY <1>1, <1>3 DEF Tiled
<1>5. nInFile = m_nLogicalPos - layout.bases[fileAt] /\ available = files[fileAt] - nInFile
  BY DEF nInFile, available
<1> DEFINE b == layout.bases[fileAt]
           s == files[fileAt]
<1>6. /\ nInFile = m_nLogicalPos - b /\ available = s - nInFile /\ b \in Nat /\ s \in Nat
      /\ m_nLogicalPos >= b /\ m_nLogicalPos < b + s
  BY Zenon, <1>3, <1>4, <1>5
<1> HIDE DEF b, s
<1>7. nInFile \in Nat /\ available \in Nat \ {0} /\ nInFile + available = s
      /\ m_nLogicalPos = b + nInFile
  BY <1>1, <1>6
<1>8. wanted \in Nat \ {0} /\ wanted <= remaining /\ wanted <= available
  <2>1. wanted = Min({remaining, available})
    BY DEF wanted
  <2>2. remaining \in Int /\ available \in Int
    BY <1>1, <1>7
  <2>3. /\ wanted \in {remaining, available} /\ wanted <= remaining /\ wanted <= available
    BY <2>1, <2>2, MinOfTwo
  <2> QED BY <1>1, <1>7, <2>3
<1> QED BY <1>3, <1>4, <1>7, <1>8 DEF b, s

\* Bytes of the file at the position, as far as they are wanted.
LEMMA FileDelivers ==
    ASSUME CueInv, format = "cue", format' = format, Turn, InFile # {},
           Serve(BytesOf(fileAt, nInFile, wanted)),
           m_CacheWindows' \in [1 .. NumCacheWindows -> Window],
           \A w \in 1 .. NumCacheWindows : Holds(m_CacheWindows'[w])
    PROVE  CueInv' /\ Device!Deliver
<1> DEFINE bytes == BytesOf(fileAt, nInFile, wanted)
           n == wanted
           f == fileAt
           at == nInFile
<1>1. /\ f \in DOMAIN files /\ at \in Nat /\ n \in Nat \ {0} /\ n <= remaining
      /\ m_nLogicalPos = layout.bases[f] + at /\ at + n <= files[f]
  <2>1. /\ fileAt \in DOMAIN files /\ nInFile \in Nat
        /\ available \in Nat \ {0} /\ nInFile + available = files[fileAt]
        /\ m_nLogicalPos = layout.bases[fileAt] + nInFile
        /\ wanted \in Nat \ {0} /\ wanted <= remaining /\ wanted <= available
    BY FileFacts
  <2> QED BY <2>1
<1>2. /\ Tiled(files, layout) /\ files \in Seq(Nat) /\ m_nLogicalPos \in Nat
      /\ step = "Ready" /\ outcome = "reading" /\ UNCHANGED loading /\ UNCHANGED asked
  BY TurnFacts
<1>3. bytes = BytesOf(f, at, n) /\ Serve(bytes)
  BY Zenon
<1> HIDE DEF bytes, n, f, at
<1>4. /\ BytesOf(f, at, n) \in Seq(Bytes) /\ Len(BytesOf(f, at, n)) = n
      /\ m_nLogicalPos + n <= layout.size
      /\ \A i \in 1 .. n : BytesOf(f, at, n)[i] = Image[m_nLogicalPos + i]
  BY SMTT(20), <1>1, <1>2, RunOfFile
<1>5. bytes \in Seq(Bytes) /\ Len(bytes) > 0 /\ Len(bytes) <= remaining
      /\ m_nLogicalPos + Len(bytes) <= layout.size
      /\ \A i \in 1 .. Len(bytes) : bytes[i] = Image[m_nLogicalPos + i]
  BY <1>1, <1>3, <1>4
<1> QED BY <1>2, <1>3, <1>5, CueDelivers

\* from a window filled anew,
LEMMA RefillDelivers ==
    ASSUME CueInv, format = "cue", format' = format, Refill
    PROVE  CueInv' /\ Device!Deliver
<1> DEFINE n == Min({available, CacheSize})
           win == [nStart |-> m_nLogicalPos, nLen |-> n, file |-> fileAt, at |-> nInFile]
<1>1. /\ Turn /\ InFile # {} /\ Serve(BytesOf(fileAt, nInFile, wanted))
      /\ m_CacheWindows' = [m_CacheWindows EXCEPT ![Victim] = win]
  BY DEF Refill
<1>2. /\ fileAt \in DOMAIN files /\ nInFile \in Nat /\ fileAt \in Nat
      /\ available \in Nat \ {0} /\ nInFile + available = files[fileAt]
      /\ m_nLogicalPos = layout.bases[fileAt] + nInFile
  BY <1>1, FileFacts
<1>3. n \in Nat /\ n <= available
  <2>1. CacheSize \in Nat \ {0}
    BY CacheAssumption DEF CacheAssumption
  <2>2. available \in Int /\ CacheSize \in Int
    BY <1>2, <2>1
  <2>3. n \in {available, CacheSize} /\ n <= available
    BY <2>2, MinOfTwo
  <2> QED BY <1>2, <2>1, <2>3
<1> HIDE DEF n
<1>4. m_nLogicalPos \in Nat /\ m_CacheWindows \in [1 .. NumCacheWindows -> Window]
      /\ \A w \in 1 .. NumCacheWindows : Holds(m_CacheWindows[w])
  BY <1>1, TurnFacts
<1>5. win \in Window
  BY <1>2, <1>3, <1>4 DEF Window
<1>6. Holds(win)
  BY <1>2, <1>3 DEF Holds
<1> HIDE DEF win
<1>7. /\ m_CacheWindows' \in [1 .. NumCacheWindows -> Window]
      /\ \A w \in 1 .. NumCacheWindows : m_CacheWindows'[w] \in {m_CacheWindows[w], win}
  BY <1>1, <1>4, <1>5
<1>8. \A w \in 1 .. NumCacheWindows : Holds(m_CacheWindows'[w])
  BY <1>4, <1>6, <1>7
<1> QED BY <1>1, <1>7, <1>8, FileDelivers

\* and from the file itself.
LEMMA ThroughDelivers ==
    ASSUME CueInv, format = "cue", format' = format, ReadThrough
    PROVE  CueInv' /\ Device!Deliver
<1>1. /\ Turn /\ InFile # {} /\ Serve(BytesOf(fileAt, nInFile, wanted))
      /\ UNCHANGED m_CacheWindows
  BY DEF ReadThrough, cache
<1>2. m_CacheWindows' \in [1 .. NumCacheWindows -> Window]
      /\ \A w \in 1 .. NumCacheWindows : Holds(m_CacheWindows'[w])
  BY <1>1, TurnFacts
<1> QED BY <1>1, <1>2, FileDelivers

\* Past the end of the image nothing is delivered, and the read is over.
LEMMA NothingEnds ==
    ASSUME CueInv, format = "cue", format' = format, ReadNothing
    PROVE  CueInv' /\ Device!End
<1>1. /\ Turn /\ InFile = {} /\ SparseBytesAt(m_nLogicalPos) = 0
      /\ outcome' = IF m_nLogicalPos = layout.size THEN "end" ELSE "lost"
      /\ UNCHANGED <<got, m_nLogicalPos, m_CacheWindows>>
  BY DEF ReadNothing, cache
<1>2. /\ step = "Ready" /\ outcome = "reading" /\ UNCHANGED loading /\ UNCHANGED asked
      /\ files \in Seq(Nat) /\ Tiled(files, layout) /\ layout.size \in Nat
      /\ m_nLogicalPos \in Nat /\ m_nLogicalPos \in 0 .. layout.size
      /\ remaining \in Nat \ {0} /\ asked \in Nat /\ got \in Seq(Bytes)
      /\ m_CacheWindows \in [1 .. NumCacheWindows -> Window]
      /\ \A w \in 1 .. NumCacheWindows : Holds(m_CacheWindows[w])
  BY <1>1, TurnFacts
<1>3. m_nLogicalPos = layout.size
  <2> SUFFICES ASSUME m_nLogicalPos # layout.size PROVE FALSE
    OBVIOUS
  <2>1. m_nLogicalPos \in 0 .. layout.size - 1
    BY <1>2
  <2>2. CASE \E f \in DOMAIN files : InFileAt(files, layout, f, m_nLogicalPos)
    BY <1>1, <2>2 DEF InFile, FileIndexForOffset, InFileAt
  <2>3. CASE \E hole \in layout.sparse : InHoleAt(hole, m_nLogicalPos)
    BY <1>1, <1>2, <2>3, LeftOfHole
  <2> QED BY <1>2, <2>1, <2>2, <2>3 DEF Tiled
<1>4. outcome' = "end"
  BY <1>1, <1>3
<1>5. CueInv'
  <2>1. m_nLogicalPos' \in 0 .. layout.size /\ asked' \in Nat /\ got' \in Seq(Bytes)
        /\ m_CacheWindows' \in [1 .. NumCacheWindows -> Window]
        /\ \A w \in 1 .. NumCacheWindows : Holds(m_CacheWindows'[w])
    BY <1>1, <1>2
  <2> QED BY <1>2, <1>4, <2>1, CueKeeps
<1>6. /\ deviceImage = Image /\ deviceImage' = Image
      /\ devicePos = m_nLogicalPos /\ devicePos' = m_nLogicalPos'
  BY <1>2, SameRip DEF deviceImage, devicePos
<1>7. Len(Image) = layout.size
  BY <1>2, CueImage
<1>8. Len(got) # asked
  BY <1>2 DEF remaining
<1>9. UNCHANGED <<deviceImage, deviceTracked, devicePos, deviceAstray>>
  BY <1>1, <1>6, SameCueDevice
<1>10. devicePos >= Len(deviceImage)
  BY <1>2, <1>3, <1>6, <1>7
<1>11. Device!End
  BY <1>1, <1>2, <1>4, <1>8, <1>9, <1>10 DEF Device!End
<1> QED BY <1>5, <1>11

\* A call to the card that fails ends the read.
LEMMA CueCardFails ==
    ASSUME CueInv, format = "cue", format' = format, CardFails
    PROVE  CueInv' /\ Device!Fail
<1>1. /\ Turn /\ outcome' = "card" /\ UNCHANGED <<got, m_nLogicalPos>>
      /\ \/ UNCHANGED m_CacheWindows
         \/ m_CacheWindows' = [m_CacheWindows EXCEPT ![Victim] = Spoiled(@)]
  BY DEF CardFails
<1>2. /\ step = "Ready" /\ outcome = "reading" /\ UNCHANGED loading /\ UNCHANGED asked
      /\ m_nLogicalPos \in 0 .. layout.size /\ asked \in Nat /\ got \in Seq(Bytes)
      /\ m_CacheWindows \in [1 .. NumCacheWindows -> Window]
      /\ \A w \in 1 .. NumCacheWindows : Holds(m_CacheWindows[w])
  BY <1>1, TurnFacts
<1>3. ASSUME NEW win \in Window PROVE Spoiled(win) \in Window /\ Holds(Spoiled(win))
  <2>1. Spoiled(win) \in Window /\ Spoiled(win).nLen = 0
    BY DEF Spoiled, Window
  <2>2. ~(0 > 0)
    OBVIOUS
  <2> QED BY Zenon, <2>1, <2>2 DEF Holds
<1>4. /\ m_CacheWindows' \in [1 .. NumCacheWindows -> Window]
      /\ \A w \in 1 .. NumCacheWindows : Holds(m_CacheWindows'[w])
  <2>1. CASE UNCHANGED m_CacheWindows
    BY <1>2, <2>1
  <2>2. CASE m_CacheWindows' = [m_CacheWindows EXCEPT ![Victim] = Spoiled(@)]
    <3>1. \A w \in 1 .. NumCacheWindows :
             /\ m_CacheWindows[w] \in Window
             /\ m_CacheWindows'[w] \in {m_CacheWindows[w], Spoiled(m_CacheWindows[w])}
      BY <1>2, <2>2
    <3>2. DOMAIN m_CacheWindows' = 1 .. NumCacheWindows
          /\ m_CacheWindows' = [w \in DOMAIN m_CacheWindows' |-> m_CacheWindows'[w]]
      BY <1>2, <2>2
    <3>3. \A w \in 1 .. NumCacheWindows :
             m_CacheWindows'[w] \in Window /\ Holds(m_CacheWindows'[w])
      BY <1>2, <1>3, <3>1
    <3> QED BY <3>2, <3>3
  <2> QED BY <1>1, <2>1, <2>2
<1>5. CueInv'
  <2>1. m_nLogicalPos' \in 0 .. layout.size /\ asked' \in Nat /\ got' \in Seq(Bytes)
    BY <1>1, <1>2
  <2> QED BY <1>1, <1>2, <1>4, <2>1, CueKeeps
<1>6. /\ deviceImage' = deviceImage /\ devicePos' = devicePos
  BY <1>1, <1>2, SameRip DEF deviceImage, devicePos
<1>7. Device!Fail
  BY <1>1, <1>2, <1>6, NotAstray DEF Device!Fail
<1> QED BY <1>5, <1>7

\* The steps of the loader before a device is served leave everything else alone.
LEMMA CueLoads ==
    ASSUME CueInv, format = "cue", format' = format, Load
    PROVE  CueInv' /\ (Device!Open \/ UNCHANGED Device!vars)
<1>1. /\ UNCHANGED <<cue_str, card, m_nLogicalPos, m_CacheWindows, useOrder, asked, got, outcome>>
      /\ step \in {"Cue", "First", "Files"}
  BY DEF Load, ReadCue, FirstUnusable, FirstEmpty, Construct, NextUnusable, NextEmpty, Reject,
         AddDataFile, Opening, Loading, cache, reading
<1>2. /\ cue_str \in Seq(Lines) /\ card \in Seq(Nat) /\ files \in Seq(Nat)
      /\ m_CacheWindows \in [1 .. NumCacheWindows -> Window] /\ asked \in Nat
      /\ got \in Seq(Bytes) /\ outcome = "none" /\ m_nLogicalPos = 0
      /\ \A w \in 1 .. NumCacheWindows : m_CacheWindows[w].nLen = 0
  BY <1>1 DEF CueInv
<1>3. /\ step' \in {"First", "Files", "Failed", "Ready"} /\ files' \in Seq(Nat)
      /\ step' = "Ready" => Tiled(files', layout')
  <2>1. CASE ReadCue \/ FirstUnusable \/ FirstEmpty \/ NextUnusable \/ NextEmpty \/ Reject
    <3>1. step' \in {"First", "Failed"} /\ UNCHANGED files
      BY <2>1 DEF ReadCue, FirstUnusable, FirstEmpty, NextUnusable, NextEmpty, Reject
    <3> QED BY <1>2, <3>1
  <2>2. CASE Construct
    <3> DEFINE n == card[1]
    <3>1. n \in Nat
      BY <1>2, <2>2 DEF Construct, Opening
    <3>2. /\ step' \in {"Files", "Ready"} /\ files' = <<n>>
          /\ layout' = SingleLayout(<<n>>)
      BY <2>2 DEF Construct
    <3> HIDE DEF n
    <3>3. <<n>> \in Seq(Nat) /\ Len(<<n>>) <= 1
      BY <3>1
    <3>4. Tiled(<<n>>, SingleLayout(<<n>>))
      BY <3>3, SingleTiles
    <3> QED BY <3>2, <3>3, <3>4
  <2>3. CASE AddDataFile
    <3> DEFINE n == card[nextFile]
               fs == Append(files, n)
    <3>1. n \in Nat
      BY <1>2, <2>3 DEF AddDataFile, Opening
    <3>2. /\ step' \in {"Files", "Ready"} /\ files' = fs
          /\ layout' \in RebuildLayout(cue_str, fs)
      BY <2>3 DEF AddDataFile
    <3> HIDE DEF n
    <3>3. fs \in Seq(Nat)
      BY <1>2, <3>1
    <3> HIDE DEF fs
    <3>4. Tiled(fs, layout')
      BY <1>2, <3>2, <3>3, RebuildTiles
    <3> QED BY <3>2, <3>3, <3>4
  <2> QED BY <2>1, <2>2, <2>3 DEF Load
<1>4. CueInv'
  <2>1. step' = "Ready" => Tiled(files, layout)' /\ (m_nLogicalPos \in 0 .. layout.size)'
    <3>1. ASSUME step' = "Ready" PROVE Tiled(files, layout)'
      BY <1>3, <3>1 DEF Tiled, InFileAt, InHoleAt, Hole
    <3>2. Tiled(files, layout)' => (layout.size \in Nat)'
      BY DEF Tiled
    <3>3. (layout.size \in Nat)' => (m_nLogicalPos \in 0 .. layout.size)'
      BY <1>1, <1>2
    <3> QED BY <3>1, <3>2, <3>3
  <2>2. \A w \in 1 .. NumCacheWindows : Holds(m_CacheWindows[w])'
    <3> TAKE w \in 1 .. NumCacheWindows
    <3>1. ~(m_CacheWindows'[w].nLen > 0)
      BY <1>1, <1>2
    <3> QED BY <3>1 DEF Holds
  <2> QED BY <1>1, <1>2, <1>3, <2>1, <2>2 DEF CueInv
<1>5. deviceImage = <<>> /\ devicePos' = devicePos
  BY <1>1 DEF deviceImage, devicePos
<1>6. step' # "Ready" => deviceImage' = <<>>
  BY DEF deviceImage
<1>7. CASE step' = "Ready"
  <2>1. layout'.size \in Nat
    BY <1>4, <1>7 DEF CueInv, Tiled
  <2>2. Len(Image') \in Nat
    <3> DEFINE n == layout'.size
    <3>1. n \in Nat /\ Image' = [i \in 1 .. n |-> (CueByte(i - 1))']
      BY <2>1 DEF Image, CueByte
    <3> HIDE DEF n
    <3>2. Len(Image') = n
      BY <3>1
    <3> QED BY <3>1, <3>2
  <2>3. deviceImage' = Image'
    BY <1>7 DEF deviceImage
  <2>4. deviceTracked' \in Nat
    BY <2>2, <2>3, NotAstray
  <2> QED BY <1>1, <1>2, <1>4, <1>5, <2>4, NotAstray DEF Device!Open
<1>8. CASE step' # "Ready"
  BY <1>1, <1>4, <1>5, <1>6, <1>8, NotAstray DEF Device!vars
<1> QED BY <1>7, <1>8

\* A seek is one of the contract.
LEMMA CueSeeks ==
    ASSUME CueInv, format = "cue", format' = format, NEW lba \in Sectors, Seek(lba)
    PROVE  CueInv' /\ Device!Seek
<1>1. /\ step = "Ready" /\ UNCHANGED loading /\ outcome # "reading" /\ outcome' = "sought"
      /\ asked' = 0 /\ got' = <<>> /\ UNCHANGED m_CacheWindows
  BY DEF Seek, Serving, cache
<1>2. /\ cue_str \in Seq(Lines) /\ files \in Seq(Nat) /\ Tiled(files, layout)
      /\ m_CacheWindows \in [1 .. NumCacheWindows -> Window]
      /\ \A w \in 1 .. NumCacheWindows : Holds(m_CacheWindows[w])
  BY <1>1 DEF CueInv
<1>3. layout.size \in Nat /\ lba \in Nat
  BY <1>2 DEF Tiled, Sectors
<1>4. PICK offset \in GetByteOffsetForLBA(lba) : offset <= layout.size /\ m_nLogicalPos' = offset
  BY DEF Seek
<1>5. offset \in Nat
  BY <1>2, <1>3, OffsetOfSectorNat
<1>6. m_nLogicalPos' \in 0 .. layout.size
  BY <1>3, <1>4, <1>5
<1>7. asked' \in Nat /\ got' \in Seq(Bytes) /\ outcome' # "reading"
  BY <1>1
<1>8. /\ m_CacheWindows' \in [1 .. NumCacheWindows -> Window]
      /\ \A w \in 1 .. NumCacheWindows : Holds(m_CacheWindows'[w])
  BY <1>1, <1>2
<1>9. CueInv'
  BY <1>1, <1>6, <1>7, <1>8, CueKeeps
<1>10. /\ deviceImage = Image /\ deviceImage' = Image /\ devicePos' = m_nLogicalPos'
  BY <1>1, SameRip DEF deviceImage, devicePos
<1>11. Len(Image) = layout.size
  BY <1>2, CueImage
<1>12. UNCHANGED <<deviceImage, deviceTracked, deviceAstray>> /\ devicePos' \in Nat
  <2>1. UNCHANGED deviceImage
    BY <1>10, <1>1, SameRip
  <2>2. devicePos' \in Nat
    BY <1>3, <1>6, <1>10
  <2> QED BY <2>1, <2>2, SameCueDevice
<1>13. Device!Seek
  BY <1>1, <1>12 DEF Device!Seek
<1> QED BY <1>9, <1>13

\* So is the start of a read,
LEMMA CueReadStarts ==
    ASSUME CueInv, format = "cue", format' = format, NEW nSize \in ReadSizes, Read(nSize)
    PROVE  CueInv' /\ Device!Read
<1>1. /\ step = "Ready" /\ UNCHANGED loading /\ outcome # "reading" /\ outcome' = "reading"
      /\ asked' = nSize /\ got' = <<>> /\ UNCHANGED <<m_nLogicalPos, m_CacheWindows>>
  BY DEF Read, Serving, cache
<1>2. nSize \in Nat \ {0}
  BY CacheAssumption DEF CacheAssumption
<1>3. /\ m_CacheWindows \in [1 .. NumCacheWindows -> Window]
      /\ m_nLogicalPos \in 0 .. layout.size
      /\ \A w \in 1 .. NumCacheWindows : Holds(m_CacheWindows[w])
  BY <1>1 DEF CueInv
<1>4. asked' \in Nat /\ got' \in Seq(Bytes) /\ Len(got') <= asked'
  BY <1>1, <1>2
<1>5. m_nLogicalPos' \in 0 .. layout.size
      /\ m_CacheWindows' \in [1 .. NumCacheWindows -> Window]
      /\ \A w \in 1 .. NumCacheWindows : Holds(m_CacheWindows'[w])
  BY <1>1, <1>3
<1>6. CueInv'
  BY <1>1, <1>4, <1>5, CueKeeps
<1>7. deviceImage' = deviceImage /\ devicePos' = devicePos
  BY <1>1, SameRip DEF deviceImage, devicePos
<1>8. Device!Read
  BY <1>1, <1>2, <1>7, NotAstray DEF Device!Read
<1> QED BY <1>6, <1>8

\* its end,
LEMMA CueReadDone ==
    ASSUME CueInv, format = "cue", format' = format, ReadDone
    PROVE  CueInv' /\ Device!End
<1>1. /\ step = "Ready" /\ UNCHANGED loading /\ outcome = "reading" /\ outcome' = "whole"
      /\ remaining = 0 /\ UNCHANGED <<asked, got, m_nLogicalPos, m_CacheWindows>>
  BY DEF ReadDone, Serving, cache
<1>2. /\ m_CacheWindows \in [1 .. NumCacheWindows -> Window]
      /\ m_nLogicalPos \in 0 .. layout.size /\ asked \in Nat /\ got \in Seq(Bytes)
      /\ \A w \in 1 .. NumCacheWindows : Holds(m_CacheWindows[w])
  BY <1>1 DEF CueInv
<1>3. asked' \in Nat /\ got' \in Seq(Bytes) /\ m_nLogicalPos' \in 0 .. layout.size
      /\ m_CacheWindows' \in [1 .. NumCacheWindows -> Window]
      /\ \A w \in 1 .. NumCacheWindows : Holds(m_CacheWindows'[w])
  BY <1>1, <1>2
<1>4. CueInv'
  BY <1>1, <1>3, CueKeeps
<1>5. deviceImage' = deviceImage /\ devicePos' = devicePos
  BY <1>1, SameRip DEF deviceImage, devicePos
<1>6. Len(got) = asked
  <2> DEFINE n == Len(got)
  <2>1. n \in Nat /\ asked - n = 0
    BY <1>1, <1>2 DEF remaining
  <2> HIDE DEF n
  <2>2. n = asked
    BY <1>2, <2>1
  <2> QED BY <2>2 DEF n
<1>7. Device!End
  BY <1>1, <1>5, <1>6, NotAstray DEF Device!End
<1> QED BY <1>4, <1>7

\* and what the destructor leaves.
LEMMA CueDeleted ==
    ASSUME CueInv, format = "cue", format' = format, Delete
    PROVE  CueInv' /\ Device!Close
<1>1. /\ step = "Ready" /\ step' = "Deleted" /\ outcome # "reading"
      /\ UNCHANGED <<cue_str, card, files, layout, m_nLogicalPos, m_CacheWindows, asked, got,
                     outcome>>
  BY DEF Delete, Loading, cache, reading
<1>2. CueInv'
  BY <1>1 DEF CueInv
<1>3. Device!Close
  <2>1. deviceImage' = <<>> /\ Len(deviceImage') = 0 /\ UNCHANGED devicePos
    BY <1>1 DEF deviceImage, devicePos
  <2> QED BY <1>1, <2>1, NotAstray DEF Device!Close
<1> QED BY <1>2, <1>3

\* A device of a cue and bin image steps as the contract says.
LEMMA CueStep ==
    ASSUME CueInv, format = "cue", format' = format, DiscNext \/ UNCHANGED vars
    PROVE  CueInv' /\ [Device!Next]_(Device!vars)
<1>1. CASE Load
  BY <1>1, CueLoads DEF Device!Next
<1>2. CASE Delete
  BY <1>2, CueDeleted DEF Device!Next
<1>3. CASE \E lba \in Sectors : Seek(lba)
  BY <1>3, CueSeeks DEF Device!Next
<1>4. CASE \E nSize \in ReadSizes : Read(nSize)
  BY <1>4, CueReadStarts DEF Device!Next
<1>5. CASE ReadWithinFile
  BY <1>5, CacheHitDelivers, HoleDelivers, NothingEnds, ThroughDelivers, RefillDelivers,
     CueCardFails DEF ReadWithinFile, Device!Next
<1>6. CASE ReadDone
  BY <1>6, CueReadDone DEF Device!Next
<1>7. CASE UNCHANGED vars
  <2>1. /\ UNCHANGED <<loading, m_nLogicalPos, m_CacheWindows, asked, got, outcome>>
        /\ UNCHANGED <<cue_str, card, step, files, layout>>
    BY <1>7 DEF vars, loading, cache, reading
  <2>2. CueInv'
    <3>1. Tiled(files, layout)' = Tiled(files, layout)
      BY <2>1, SameRip
    <3>2. \A w \in 1 .. NumCacheWindows : Holds(m_CacheWindows[w])' = Holds(m_CacheWindows[w])
      BY <2>1 DEF Holds
    <3> QED BY <2>1, <3>1, <3>2 DEF CueInv
  <2>3. UNCHANGED <<deviceImage, devicePos>>
    BY <2>1, SameRip DEF deviceImage, devicePos
  <2>4. UNCHANGED Device!vars
    BY <2>1, <2>3, NotAstray DEF Device!vars
  <2> QED BY <2>2, <2>4
<1> QED BY <1>1, <1>2, <1>3, <1>4, <1>5, <1>6, <1>7 DEF DiscNext, Use
=============================================================================
