--------------------------- MODULE ServicesProofs ---------------------------
(***************************************************************************)
(* What holds of the parts that share no state, for any values of their      *)
(* constants.  A behaviour of ServicesSpec is, seen by one part, a behaviour *)
(* of that part.  The proofs about the images, the player and the display    *)
(* are modules of their own; the others are here.                            *)
(***************************************************************************)
EXTENDS Services, RipProofs, FiniteSetTheorems, WellFoundedInduction, TLAPS

PlayerProved == INSTANCE CDPlayerProofs
ScreenProved == INSTANCE DisplayProofs

-----------------------------------------------------------------------------
(* Seen by one part                                                          *)

Steps == ServicesInit /\ [][ServicesNext]_allVars

LEMMA SpecSteps == ServicesSpec => Steps
  BY DEF ServicesSpec, Steps

LEMMA CardAlone == Steps => Msd!Init /\ [][Msd!Next]_Msd!vars
<1>1. ServicesInit => Msd!Init
  BY DEF ServicesInit
<1>2. [ServicesNext]_allVars => [Msd!Next]_Msd!vars
  BY DEF ServicesNext, ImagesRun, PlayerRuns, CardRuns, LogRuns, TraceRuns, FtpRuns, StartRuns,
         DisplayRuns, allVars, msdVars, Msd!vars, Msd!transferVars, Msd!cardVars
<1> QED BY <1>1, <1>2, PTL DEF Steps

LEMMA LogAlone == Steps => Log!Init /\ [][Log!Next]_Log!vars
<1>1. ServicesInit => Log!Init
  BY DEF ServicesInit
<1>2. [ServicesNext]_allVars => [Log!Next]_Log!vars
  BY DEF ServicesNext, ImagesRun, PlayerRuns, CardRuns, LogRuns, TraceRuns, FtpRuns, StartRuns,
         DisplayRuns, allVars, logVars, Log!vars, Log!fileVars
<1> QED BY <1>1, <1>2, PTL DEF Steps

LEMMA TraceAlone == Steps => Trace!Init /\ [][Trace!Next]_Trace!vars
<1>1. ServicesInit => Trace!Init
  BY DEF ServicesInit
<1>2. [ServicesNext]_allVars => [Trace!Next]_Trace!vars
  BY DEF ServicesNext, ImagesRun, PlayerRuns, CardRuns, LogRuns, TraceRuns, FtpRuns, StartRuns,
         DisplayRuns, allVars, traceVars, Trace!vars, Trace!captureVars, Trace!exportVars
<1> QED BY <1>1, <1>2, PTL DEF Steps

LEMMA FtpAlone == Steps => Ftp!Init /\ [][Ftp!Next]_Ftp!ftpVars
<1>1. ServicesInit => Ftp!Init
  BY DEF ServicesInit
<1>2. [ServicesNext]_allVars => [Ftp!Next]_Ftp!ftpVars
  BY DEF ServicesNext, ImagesRun, PlayerRuns, CardRuns, LogRuns, TraceRuns, FtpRuns, StartRuns,
         DisplayRuns, allVars, sessionVars, Ftp!ftpVars, Ftp!dataVars
<1> QED BY <1>1, <1>2, PTL DEF Steps

LEMMA StartAlone == Steps => Start!Init /\ [][Start!Next]_Start!startVars
<1>1. ServicesInit => Start!Init
  BY DEF ServicesInit
<1>2. [ServicesNext]_allVars => [Start!Next]_Start!startVars
  BY DEF ServicesNext, ImagesRun, PlayerRuns, CardRuns, LogRuns, TraceRuns, FtpRuns, StartRuns,
         DisplayRuns, allVars, startVars, Start!startVars, Start!cardVars, Start!bootVars, Start!userVars
<1> QED BY <1>1, <1>2, PTL DEF Steps

-----------------------------------------------------------------------------
(* The card as a disk                                                        *)

LEMMA CardConstants ==
    ASSUME Msd!MsdAssumption
    PROVE  /\ CardBlocks \in Nat \ {0} /\ ByteSpace \in Nat \ {0} /\ MaxChunk \in Nat \ {0}
           /\ \A count \in Counts : count \in Nat \ {0}
  BY DEF Msd!MsdAssumption

LEMMA CardNumbers ==
    ASSUME Msd!TypeOK
    PROVE  /\ m_nblock_address \in Nat /\ m_nnumber_blocks \in Nat
           /\ m_nnumber_blocks_chunk \in Nat /\ moved \in Nat
           /\ m_currentDevicePointer \in Nat /\ position \in Nat
  BY DEF Msd!TypeOK

\* What a command asks for.
LEMMA CommandCounts ==
    ASSUME Msd!MsdAssumption, NEW cbw \in Msd!CBWs \cup {Msd!NoCBW}
    PROVE  /\ cbw.op \in {"none", "TestUnitReady", "RequestSense", "Reply", "Start", "Stop",
                          "Refused", "Read", "Write"}
           /\ cbw.block \in Nat /\ cbw.count \in Nat
           /\ cbw.op \in {"Read", "Write"} => cbw.count > 0
<1>1. CASE cbw \in Msd!Simple
  BY <1>1 DEF Msd!Simple
<1>2. CASE cbw \in [op : {"Read", "Write"}, block : Msd!Blocks, count : Counts]
  BY <1>2, CardConstants DEF Msd!Blocks
<1>3. CASE cbw = Msd!NoCBW
  BY <1>3 DEF Msd!NoCBW
<1> QED BY <1>1, <1>2, <1>3 DEF Msd!CBWs

LEMMA ChunkBounds ==
    ASSUME Msd!MsdAssumption, NEW count \in Nat
    PROVE  Msd!Chunk(count) \in 0 .. count /\ (count > 0 => Msd!Chunk(count) > 0)
  BY CardConstants DEF Msd!Chunk

LEMMA WrappedNat ==
    ASSUME Msd!MsdAssumption, NEW from \in Nat PROVE Msd!Wrapped(from) \in Nat
  BY CardConstants DEF Msd!Wrapped

\* What a read or a write still has to move.
MovingInv ==
    /\ m_nState \in {"DataInRead", "DataOut", "DataOutWrite"} => m_nnumber_blocks > 0
    /\ m_nState = "DataInRead" => m_CBW.op = "Read"
    /\ m_nState = "DataIn" =>
         m_CBW.op = "Read" \/ (m_CBW.op = "Reply" /\ m_nnumber_blocks = 0)
    /\ m_nState = "SendReqSenseReply" => m_CBW.op = "RequestSense"
    /\ m_nState \in {"DataOut", "DataOutWrite"} =>
         m_CBW.op = "Write" /\ m_nnumber_blocks_chunk = Msd!Chunk(m_nnumber_blocks)
    /\ m_nState \in {"DataIn", "DataInRead", "DataOut", "DataOutWrite"}
       /\ m_CBW.op \in {"Read", "Write"} =>
         bmCSWStatus = "OK" /\ moved + m_nnumber_blocks = m_CBW.count
    /\ Msd!GoodMeansMoved

LEMMA CardCommand ==
    ASSUME Msd!MsdAssumption, Msd!TypeOK, MovingInv, Msd!HandleSCSICommand
    PROVE  Msd!TypeOK' /\ MovingInv'
<1>1. PICK cbw \in Msd!CBWs :
        /\ Msd!Receive(cbw)
        /\ Msd!HandleWithoutData(cbw) \/ Msd!HandleReply(cbw) \/ Msd!HandleReadWrite(cbw)
  BY DEF Msd!HandleSCSICommand
<1>2. m_CBW' = cbw /\ UNCHANGED <<m_currentDevicePointer, position, written>>
  BY <1>1 DEF Msd!Receive, Msd!cardVars
<1>3. CASE Msd!HandleWithoutData(cbw)
  <2>1. /\ m_nState' = "SentCSW" /\ queued' = {"status"} /\ bmCSWStatus' \in {"OK", "FAIL"}
        /\ cbw.op \notin {"Read", "Write"}
        /\ UNCHANGED <<m_nblock_address, m_nnumber_blocks, m_nnumber_blocks_chunk, moved>>
    BY <1>3 DEF Msd!HandleWithoutData, Msd!Answer, Msd!SendCSW, Msd!Queue, Msd!transferVars
  <2>2. m_MMSDReady' \in BOOLEAN
    <3>1. m_MMSDReady' = TRUE \/ m_MMSDReady' = FALSE \/ m_MMSDReady' = m_MMSDReady
      BY <1>3, Zenon DEF Msd!HandleWithoutData
    <3> QED BY <3>1 DEF Msd!TypeOK
  <2> QED BY <1>2, <2>1, <2>2 DEF Msd!TypeOK, MovingInv, Msd!GoodMeansMoved
<1>4. CASE Msd!HandleReply(cbw)
  <2>1. m_nnumber_blocks' = m_nnumber_blocks \/ (cbw.op = "Reply" /\ m_nnumber_blocks' = 0)
    BY <1>4 DEF Msd!HandleReply, Msd!transferVars
  <2>2. cbw.op \in {"RequestSense", "Reply"} /\ bmCSWStatus' = "OK" /\ queued' = {"data in"}
        /\ (cbw.op = "RequestSense" => m_nState' = "SendReqSenseReply")
        /\ (cbw.op = "Reply" => m_nState' = "DataIn" /\ m_nnumber_blocks' = 0)
        /\ UNCHANGED <<m_nblock_address, m_nnumber_blocks_chunk, moved, m_MMSDReady>>
    BY <1>4 DEF Msd!HandleReply, Msd!Queue, Msd!transferVars
  <2>3. m_nnumber_blocks' \in Nat
    BY <2>1, CardNumbers
  <2>4. Msd!TypeOK'
    BY <1>1, <1>2, <2>2, <2>3 DEF Msd!TypeOK
  <2>5. MovingInv'
    BY <1>2, <2>2 DEF MovingInv, Msd!GoodMeansMoved
  <2> QED BY <2>4, <2>5
<1>5. CASE Msd!HandleReadWrite(cbw)
  <2>1. cbw.op \in {"Read", "Write"} /\ cbw.block \in Nat /\ cbw.count \in Nat /\ cbw.count > 0
    BY <1>5, CommandCounts DEF Msd!HandleReadWrite
  <2>2. Msd!Chunk(cbw.count) \in Nat
    BY <2>1, ChunkBounds
  <2>3. CASE m_MMSDReady
    <3>1. /\ m_nblock_address' = cbw.block /\ m_nnumber_blocks' = cbw.count /\ moved' = 0
          /\ bmCSWStatus' = "OK" /\ UNCHANGED m_MMSDReady
          /\ \/ /\ cbw.op = "Read" /\ m_nState' = "DataInRead" /\ queued' = {}
                /\ UNCHANGED m_nnumber_blocks_chunk
             \/ /\ cbw.op = "Write" /\ m_nState' = "DataOut" /\ queued' = {"data out"}
                /\ m_nnumber_blocks_chunk' = Msd!Chunk(cbw.count)
      BY <1>5, <2>3 DEF Msd!HandleReadWrite, Msd!Queue
    <3>2. m_nblock_address' \in Nat /\ m_nnumber_blocks' \in Nat /\ m_nnumber_blocks' > 0
          /\ moved' \in Nat /\ m_nnumber_blocks_chunk' \in Nat
          /\ moved' + m_nnumber_blocks' = cbw.count
      <4>1. m_nblock_address' = cbw.block /\ m_nnumber_blocks' = cbw.count /\ moved' = 0
        BY <3>1
      <4>2. m_nnumber_blocks_chunk' \in Nat
        BY <2>2, <3>1, CardNumbers
      <4> QED BY <2>1, <4>1, <4>2
    <3>3. Msd!TypeOK'
      BY <1>1, <1>2, <3>1, <3>2 DEF Msd!TypeOK
    <3>4. MovingInv'
      BY <1>2, <3>1, <3>2, Zenon DEF MovingInv, Msd!GoodMeansMoved
    <3> QED BY <3>3, <3>4
  <2>4. CASE ~m_MMSDReady
    <3>1. /\ m_nState' = "SentCSW" /\ queued' = {"status"} /\ bmCSWStatus' = "FAIL"
          /\ UNCHANGED <<m_nblock_address, m_nnumber_blocks, m_nnumber_blocks_chunk, moved,
                         m_MMSDReady>>
      BY <1>5, <2>4 DEF Msd!HandleReadWrite, Msd!Fail, Msd!Answer, Msd!SendCSW, Msd!Queue, Msd!transferVars
    <3> QED BY <1>2, <3>1 DEF Msd!TypeOK, MovingInv, Msd!GoodMeansMoved
  <2> QED BY <2>3, <2>4
<1> QED BY <1>1, <1>3, <1>4, <1>5

LEMMA CardTransfer ==
    ASSUME Msd!MsdAssumption, Msd!TypeOK, MovingInv,
           \/ Msd!OnSuspend \/ Msd!OnActivate \/ Msd!RefuseCBW
           \/ Msd!StatusSent \/ Msd!DataInComplete \/ Msd!DataOutComplete
    PROVE  Msd!TypeOK' /\ MovingInv'
<1>1. CASE Msd!OnSuspend \/ Msd!OnActivate \/ Msd!RefuseCBW
  BY <1>1 DEF Msd!TypeOK, MovingInv, Msd!GoodMeansMoved, Msd!transferVars, Msd!cardVars, Msd!Queue, Msd!OnSuspend,
              Msd!OnActivate, Msd!RefuseCBW
<1>2. CASE Msd!StatusSent \/ Msd!DataOutComplete
  BY <1>2 DEF Msd!TypeOK, MovingInv, Msd!GoodMeansMoved, Msd!transferVars, Msd!cardVars, Msd!Queue, Msd!StatusSent,
              Msd!DataOutComplete
<1>3. CASE Msd!DataInComplete
  <2>1. /\ m_nState \in {"DataIn", "SendReqSenseReply"}
        /\ IF m_nState = "DataIn" /\ m_nnumber_blocks > 0
           THEN m_nState' = "DataInRead" /\ queued' = {}
           ELSE m_nState' = "SentCSW" /\ queued' = {"status"}
        /\ UNCHANGED <<m_CBW, m_MMSDReady, bmCSWStatus, Msd!transferVars, Msd!cardVars>>
    BY <1>3 DEF Msd!DataInComplete, Msd!SendCSW, Msd!Queue
  <2>2. Msd!TypeOK'
    BY <2>1 DEF Msd!TypeOK, Msd!transferVars, Msd!cardVars
  <2>3. m_CBW.count \in Nat /\ m_nnumber_blocks \in Nat /\ moved \in Nat
    BY CommandCounts, CardNumbers DEF Msd!TypeOK
  <2>4. MovingInv'
    BY <2>1, <2>3 DEF MovingInv, Msd!GoodMeansMoved, Msd!transferVars
  <2> QED BY <2>2, <2>4
<1> QED BY <1>1, <1>2, <1>3

LEMMA CardRead ==
    ASSUME Msd!MsdAssumption, Msd!TypeOK, MovingInv, Msd!UpdateRead PROVE Msd!TypeOK' /\ MovingInv'
<1> DEFINE from  == Msd!Wrapped(m_nblock_address)
           batch == Msd!Chunk(m_nnumber_blocks)
<1>1. from \in Nat /\ batch \in 0 .. m_nnumber_blocks /\ batch \in Nat
  BY ChunkBounds, WrappedNat, CardNumbers
<1>2. /\ m_nState = "DataInRead"
      /\ UNCHANGED <<m_CBW, m_MMSDReady, m_nnumber_blocks_chunk, m_currentDevicePointer, written>>
  BY DEF Msd!UpdateRead
<1>3. m_CBW.op = "Read" /\ m_CBW.count \in Nat /\ moved + m_nnumber_blocks = m_CBW.count
      /\ bmCSWStatus = "OK"
  BY <1>2, CommandCounts DEF Msd!TypeOK, MovingInv
<1>4. \/ /\ position' = from + batch
         /\ m_nblock_address' = m_nblock_address + batch
         /\ m_nnumber_blocks' = m_nnumber_blocks - batch
         /\ moved' = moved + batch
         /\ queued' = {"data in"} /\ m_nState' = "DataIn"
         /\ UNCHANGED bmCSWStatus
      \/ /\ bmCSWStatus' = "FAIL" /\ queued' = {"status"} /\ m_nState' = "SentCSW"
         /\ position' = from
         /\ UNCHANGED <<m_nblock_address, m_nnumber_blocks, moved>>
  BY DEF Msd!UpdateRead, Msd!Fail, Msd!Answer, Msd!SendCSW, Msd!Queue
<1> HIDE DEF from, batch
<1>5. m_nblock_address \in Nat /\ m_nnumber_blocks \in Nat /\ moved \in Nat /\ position \in Nat
  BY CardNumbers
<1>6. /\ m_nblock_address' \in Nat /\ m_nnumber_blocks' \in Nat
      /\ moved' \in Nat /\ position' \in Nat
      /\ m_nState' = "DataIn" => moved' + m_nnumber_blocks' = m_CBW.count
  <2>1. CASE m_nState' = "DataIn"
    <3>1. /\ position' = from + batch
          /\ m_nblock_address' = m_nblock_address + batch
          /\ m_nnumber_blocks' = m_nnumber_blocks - batch
          /\ moved' = moved + batch
      BY <1>4, <2>1
    <3> QED BY <1>1, <1>3, <1>5, <3>1
  <2>2. CASE m_nState' = "SentCSW"
    BY <1>1, <1>4, <1>5, <2>2
  <2> QED BY <1>4, <2>1, <2>2
<1>7. Msd!TypeOK'
  BY <1>2, <1>4, <1>6 DEF Msd!TypeOK
<1>8. MovingInv'
  BY <1>2, <1>3, <1>4, <1>6 DEF MovingInv, Msd!GoodMeansMoved
<1> QED BY <1>7, <1>8

LEMMA CardWrite ==
    ASSUME Msd!MsdAssumption, Msd!TypeOK, MovingInv, Msd!UpdateWrite PROVE Msd!TypeOK' /\ MovingInv'
<1> DEFINE target == Msd!Wrapped(m_nblock_address)
           from   == Msd!SeekTo(target)
<1>1. target \in Nat /\ from \in Nat
  BY WrappedNat, CardNumbers DEF Msd!SeekTo
<1>2. m_nState = "DataOutWrite" /\ UNCHANGED <<m_CBW, m_MMSDReady>>
  BY DEF Msd!UpdateWrite
<1>3. /\ m_nnumber_blocks_chunk = Msd!Chunk(m_nnumber_blocks) /\ m_nnumber_blocks \in Nat
      /\ m_nnumber_blocks_chunk \in 0 .. m_nnumber_blocks
      /\ m_CBW.op = "Write" /\ bmCSWStatus = "OK" /\ moved + m_nnumber_blocks = m_CBW.count
      /\ m_nblock_address \in Nat /\ moved \in Nat /\ m_nnumber_blocks_chunk \in Nat
      /\ m_CBW.count \in Nat
  <2>1. m_CBW.count \in Nat /\ m_CBW.op = "Write" /\ bmCSWStatus = "OK"
    BY <1>2, CommandCounts DEF Msd!TypeOK, MovingInv
  <2> QED BY <1>2, <2>1, ChunkBounds, CardNumbers DEF MovingInv
<1>4. PICK taken \in 0 .. m_nnumber_blocks_chunk :
        /\ ~Msd!Beyond(from, taken)
        /\ position' = from + taken
        /\ written' = written \/ (taken # 0 /\ written' = [asked |-> m_nblock_address, at |-> from])
        /\ moved' = moved + taken
        /\ \/ /\ Msd!Accepted(taken) /\ bmCSWStatus' = "OK"
              /\ m_nblock_address' = m_nblock_address + m_nnumber_blocks_chunk
              /\ m_nnumber_blocks' = m_nnumber_blocks - m_nnumber_blocks_chunk
              /\ m_currentDevicePointer' = Msd!Wrapped(target + taken)
              /\ \/ /\ m_nnumber_blocks' = 0 /\ m_nState' = "SentCSW" /\ queued' = {"status"}
                    /\ m_nnumber_blocks_chunk' = m_nnumber_blocks_chunk
                 \/ /\ m_nnumber_blocks' # 0 /\ m_nState' = "DataOut" /\ queued' = {"data out"}
                    /\ m_nnumber_blocks_chunk' = Msd!Chunk(m_nnumber_blocks')
           \/ /\ bmCSWStatus' = "FAIL" /\ m_nState' = "SentCSW" /\ queued' = {"status"}
              /\ m_currentDevicePointer' = target
              /\ UNCHANGED <<m_nblock_address, m_nnumber_blocks, m_nnumber_blocks_chunk>>
  BY <1>3 DEF Msd!UpdateWrite, Msd!Fail, Msd!Answer, Msd!SendCSW, Msd!Queue
<1> HIDE DEF target, from
<1>5. taken \in Nat /\ target + taken \in Nat
  BY <1>1, <1>3
<1>6. written' \in [asked : Nat, at : Msd!Blocks] /\ position' \in Nat /\ moved' \in Nat
  <2>1. ~(from + taken > CardBlocks) /\ CardBlocks \in Nat
    BY <1>4, CardConstants DEF Msd!Beyond
  <2>2. taken # 0 => from \in Msd!Blocks
    BY <1>1, <1>5, <2>1 DEF Msd!Blocks
  <2>3. written \in [asked : Nat, at : Msd!Blocks]
    BY DEF Msd!TypeOK
  <2>4. written' \in [asked : Nat, at : Msd!Blocks]
    <3>1. written' = written \/ (taken # 0 /\ written' = [asked |-> m_nblock_address, at |-> from])
      BY <1>4
    <3> QED BY <1>3, <2>2, <2>3, <3>1
  <2>5. position' = from + taken /\ moved' = moved + taken
    BY <1>4
  <2> QED BY <1>1, <1>3, <1>5, <2>4, <2>5
<1>7. /\ m_nblock_address' \in Nat /\ m_nnumber_blocks' \in Nat
      /\ m_nnumber_blocks_chunk' \in Nat /\ m_currentDevicePointer' \in Nat
      /\ \/ /\ m_nState' = "SentCSW" /\ queued' = {"status"}
            /\ bmCSWStatus' = "FAIL" \/ (bmCSWStatus' = "OK" /\ moved' = m_CBW.count)
         \/ /\ m_nState' = "DataOut" /\ queued' = {"data out"} /\ bmCSWStatus' = "OK"
            /\ m_nnumber_blocks' > 0 /\ m_nnumber_blocks_chunk' = Msd!Chunk(m_nnumber_blocks')
            /\ moved' + m_nnumber_blocks' = m_CBW.count
  <2>1. CASE /\ Msd!Accepted(taken) /\ bmCSWStatus' = "OK"
             /\ m_nblock_address' = m_nblock_address + m_nnumber_blocks_chunk
             /\ m_nnumber_blocks' = m_nnumber_blocks - m_nnumber_blocks_chunk
             /\ m_currentDevicePointer' = Msd!Wrapped(target + taken)
    <3>1. moved' = moved + m_nnumber_blocks_chunk /\ UNCHANGED m_CBW
      BY <1>2, <1>4, <2>1 DEF Msd!Accepted
    <3>2. /\ m_nblock_address' \in Nat /\ m_nnumber_blocks' \in Nat
          /\ moved' + m_nnumber_blocks' = m_CBW.count
      BY <1>3, <2>1, <3>1
    <3>3. m_currentDevicePointer' \in Nat /\ Msd!Chunk(m_nnumber_blocks') \in Nat
      BY <1>5, <2>1, <3>2, WrappedNat, ChunkBounds
    <3>4. \/ /\ m_nnumber_blocks' = 0 /\ m_nState' = "SentCSW" /\ queued' = {"status"}
             /\ m_nnumber_blocks_chunk' = m_nnumber_blocks_chunk
          \/ /\ m_nnumber_blocks' # 0 /\ m_nState' = "DataOut" /\ queued' = {"data out"}
             /\ m_nnumber_blocks_chunk' = Msd!Chunk(m_nnumber_blocks')
      BY <1>4, <2>1
    <3>5. moved' \in Nat
      BY <1>6
    <3>6. (m_nnumber_blocks' = 0 => moved' = m_CBW.count)
          /\ (m_nnumber_blocks' # 0 => m_nnumber_blocks' > 0)
      BY <1>3, <3>2, <3>5
    <3>7. m_nnumber_blocks_chunk' \in Nat
      BY <1>3, <3>3, <3>4
    <3> QED BY <2>1, <3>2, <3>3, <3>4, <3>6, <3>7, Zenon
  <2>2. CASE /\ bmCSWStatus' = "FAIL" /\ m_nState' = "SentCSW" /\ queued' = {"status"}
             /\ m_currentDevicePointer' = target
             /\ UNCHANGED <<m_nblock_address, m_nnumber_blocks, m_nnumber_blocks_chunk>>
    BY <1>1, <1>3, <2>2
  <2> QED BY <1>4, <2>1, <2>2
<1>8. Msd!TypeOK'
  BY <1>2, <1>6, <1>7 DEF Msd!TypeOK
<1>9. MovingInv'
  BY <1>2, <1>3, <1>7 DEF MovingInv, Msd!GoodMeansMoved
<1> QED BY <1>8, <1>9

LEMMA CardKeeps ==
    ASSUME Msd!MsdAssumption PROVE Msd!Init /\ [][Msd!Next]_Msd!vars => [](Msd!TypeOK /\ MovingInv)
<1>1. ASSUME Msd!Init PROVE Msd!TypeOK /\ MovingInv
  <2>1. 0 \in Msd!Blocks
    BY CardConstants DEF Msd!Blocks
  <2> QED BY <1>1, <2>1 DEF Msd!Init, Msd!TypeOK, MovingInv, Msd!GoodMeansMoved, Msd!NoCBW
<1>2. ASSUME Msd!TypeOK, MovingInv, [Msd!Next]_Msd!vars PROVE Msd!TypeOK' /\ MovingInv'
  <2>1. CASE UNCHANGED Msd!vars
    BY <2>1, <1>2 DEF Msd!TypeOK, MovingInv, Msd!GoodMeansMoved, Msd!vars, Msd!transferVars, Msd!cardVars
  <2> QED BY <1>2, <2>1, CardCommand, CardTransfer, CardRead, CardWrite DEF Msd!Next
<1> QED BY <1>1, <1>2, PTL

\* A read or a write of the card is answered OK only when every block of it was
\* moved: GoodMeansMoved, of CUSBMMSDGadget's interrupts and Update, for any card,
\* batch and counts.
THEOREM CardCorrect == ServicesSpec => []GoodMeansMoved
<1>1. Msd!TypeOK /\ MovingInv => GoodMeansMoved
  BY DEF MovingInv, GoodMeansMoved
<1>2. Msd!MsdAssumption
  BY ServicesAssumption
<1> QED BY <1>1, <1>2, SpecSteps, CardAlone, CardKeeps, PTL

-----------------------------------------------------------------------------
(* The trace of the commands                                                 *)

Records == {"START", "STOP", "TRIGGER", "EVENT"}
Rings   == {r \in [records : Seq(Records), dropped : Nat] : Len(r.records) <= Capacity}

\* A record goes behind those there are, or is dropped by a full buffer.
LEMMA RecordGoesBehind ==
    ASSUME Trace!TraceAssumption, NEW r \in Rings, NEW type \in Records
    PROVE  /\ Trace!Recorded(r, type) \in Rings
           /\ Len(Trace!Recorded(r, type).records) >= Len(r.records)
           /\ \A i \in 1 .. Len(r.records) : Trace!Recorded(r, type).records[i] = r.records[i]
           /\ \/ Len(Trace!Recorded(r, type).records) >= Capacity
                 /\ Len(Trace!Recorded(r, type).records) = Len(r.records)
              \/ /\ Len(Trace!Recorded(r, type).records) = Len(r.records) + 1
                 /\ Trace!Recorded(r, type).records[Len(r.records) + 1] = type
<1>1. Capacity \in Nat \ {0}
  BY DEF Trace!TraceAssumption
<1>2. r \in [records : Seq(Records), dropped : Nat] /\ Len(r.records) <= Capacity
  BY DEF Rings
<1>3. r.records \in Seq(Records) /\ Len(r.records) \in Nat /\ r.dropped \in Nat
  BY <1>2
<1>4. CASE Len(r.records) < Capacity
  <2> DEFINE n == Trace!Recorded(r, type)
  <2>1. n = [r EXCEPT !.records = Append(r.records, type)]
    BY <1>4 DEF Trace!Recorded
  <2>2. n.records = Append(r.records, type) /\ n.dropped = r.dropped
    BY <1>2, <2>1
  <2>3. n.records \in Seq(Records) /\ Len(n.records) = Len(r.records) + 1
        /\ n.records[Len(r.records) + 1] = type
        /\ \A i \in 1 .. Len(r.records) : n.records[i] = r.records[i]
    BY <1>3, <2>2
  <2>4. n \in [records : Seq(Records), dropped : Nat]
    BY <1>2, <2>1, <2>3
  <2> QED BY <1>1, <1>3, <1>4, <2>3, <2>4 DEF Rings
<1>5. CASE ~(Len(r.records) < Capacity)
  <2> DEFINE n == Trace!Recorded(r, type)
  <2>1. n = [r EXCEPT !.dropped = r.dropped + 1]
    BY <1>5 DEF Trace!Recorded
  <2>2. n.records = r.records /\ n \in [records : Seq(Records), dropped : Nat]
    BY <1>2, <1>3, <2>1
  <2> QED BY <1>1, <1>2, <1>3, <1>5, <2>2 DEF Rings
<1> QED BY <1>4, <1>5

\* An export has the records its header promises before it, and a stop that is due
\* was set by a trigger the buffer holds, or is never reached.
TriggerAt(i) == ring.records[i] = "TRIGGER" /\ m_nStopAtRecordCount = i + POST_TRIGGER_RECORDS
TraceInv ==
    /\ Trace!TypeOK
    /\ ring \in Rings
    /\ task = "ResetReadCursor" => recordCount <= Trace!Count /\ nRecordsWritten = 0
    /\ task = "Copy" /\ export = "buffer" =>
         recordCount <= m_nReadRemaining + nRecordsWritten /\ nRecordsWritten <= recordCount
    /\ Trace!ExportIsConsistent
    /\ m_nStopAtRecordCount # 0 =>
         m_nStopAtRecordCount > Capacity \/ \E i \in 1 .. Trace!Count : TriggerAt(i)

LEMMA TraceNumbers ==
    ASSUME Trace!TraceAssumption, TraceInv
    PROVE  /\ m_nStopAtRecordCount \in Nat /\ recordCount \in Nat
           /\ m_nReadRemaining \in Nat /\ nRecordsWritten \in Nat
           /\ Trace!Count \in Nat /\ Trace!Count <= Capacity
           /\ Capacity \in Nat \ {0} /\ POST_TRIGGER_RECORDS \in Nat \ {0} /\ MaxDropped \in Nat
<1>1. ring.records \in Seq(Records) /\ Len(ring.records) <= Capacity
  BY DEF TraceInv, Rings
<1>2. Len(ring.records) \in Nat
  BY <1>1
<1> QED BY <1>1, <1>2 DEF TraceInv, Trace!TypeOK, Trace!TraceAssumption, Trace!Count

\* What an interrupt may do to the buffer and to the stop that is due.
Interrupted ==
    /\ ring' \in Rings /\ Trace!Count' >= Trace!Count
    /\ \A i \in 1 .. Trace!Count : ring'.records[i] = ring.records[i]
    /\ UNCHANGED <<task, export, recordCount, m_nReadRemaining, nRecordsWritten>>

LEMMA EventInterrupts ==
    ASSUME Trace!TraceAssumption, TraceInv, NEW type \in Records, ring' = Trace!Recorded(ring, type),
           UNCHANGED <<task, Trace!exportVars>>
    PROVE  Interrupted
  BY RecordGoesBehind DEF Interrupted, TraceInv, Trace!Count, Trace!exportVars

\* The end of a command: a stop that comes due was set by an earlier trigger.
LEMMA CommandInterrupts ==
    ASSUME Trace!TraceAssumption, TraceInv, NEW failed \in BOOLEAN, Trace!TraceCommandComplete(failed)
    PROVE  /\ Interrupted /\ {m_bEnabled', m_bTriggerFired', m_bErrorTrigger'} \subseteq BOOLEAN
           /\ m_nStopAtRecordCount' \in Nat
           /\ m_nStopAtRecordCount' # 0 =>
                \/ m_nStopAtRecordCount' > Capacity
                \/ \E i \in 1 .. Trace!Count' : TriggerAt(i)'
           /\ ~m_bEnabled' =>
                \E i \in 1 .. Trace!Count :
                    ring.records[i] = "TRIGGER" /\ Len(ring'.records) - i >= POST_TRIGGER_RECORDS
<1> DEFINE done   == Trace!Recorded(ring, "EVENT")
           fires  == failed /\ m_bErrorTrigger /\ ~m_bTriggerFired
           marked == IF fires THEN Trace!Recorded(done, "TRIGGER") ELSE done
           stopAt == IF fires THEN Len(marked.records) + POST_TRIGGER_RECORDS
                     ELSE m_nStopAtRecordCount
           stops  == stopAt # 0 /\ Len(marked.records) >= stopAt
<1>1. /\ ring' = IF stops THEN Trace!Recorded(marked, "STOP") ELSE marked
      /\ m_bEnabled' = ~stops
      /\ m_bTriggerFired' = (m_bTriggerFired \/ fires)
      /\ m_nStopAtRecordCount' = IF stops THEN 0 ELSE stopAt
      /\ UNCHANGED <<m_bErrorTrigger, task, export, recordCount, m_nReadRemaining,
                     nRecordsWritten>>
  BY DEF Trace!TraceCommandComplete, Trace!exportVars
<1>2. ring \in Rings /\ "EVENT" \in Records /\ "TRIGGER" \in Records /\ "STOP" \in Records
  BY DEF TraceInv, Records
<1>3. /\ done \in Rings /\ Len(done.records) >= Trace!Count
      /\ \A i \in 1 .. Trace!Count : done.records[i] = ring.records[i]
  BY <1>2, RecordGoesBehind DEF Trace!Count
<1>4. \A r \in Rings : Len(r.records) \in Nat /\ Len(r.records) <= Capacity
  BY DEF Rings
<1>5. /\ marked \in Rings /\ Len(marked.records) >= Len(done.records)
      /\ \A i \in 1 .. Len(done.records) : marked.records[i] = done.records[i]
  <2>1. CASE fires
    BY <1>2, <1>3, <2>1, RecordGoesBehind
  <2>2. CASE ~fires
    BY <1>3, <1>4, <2>2
  <2> QED BY <2>1, <2>2
<1>6. /\ Len(Trace!Recorded(marked, "STOP").records) >= Len(marked.records)
      /\ \A i \in 1 .. Len(marked.records) :
            Trace!Recorded(marked, "STOP").records[i] = marked.records[i]
      /\ Trace!Recorded(marked, "STOP") \in Rings
  BY <1>2, <1>5, RecordGoesBehind
<1>7. fires => stopAt = Len(marked.records) + POST_TRIGGER_RECORDS /\ stopAt \in Nat /\ ~stops
               /\ Len(marked.records) > 0
               /\ (Len(marked.records) = Capacity \/ marked.records[Len(marked.records)] = "TRIGGER")
  <2>1. SUFFICES ASSUME fires PROVE
            /\ stopAt = Len(marked.records) + POST_TRIGGER_RECORDS
            /\ Len(marked.records) > 0
            /\ Len(marked.records) = Capacity \/ marked.records[Len(marked.records)] = "TRIGGER"
    BY <1>4, <1>5, TraceNumbers
  <2>2. marked = Trace!Recorded(done, "TRIGGER")
    BY <2>1
  <2>3. \/ Len(marked.records) >= Capacity
        \/ Len(marked.records) = Len(done.records) + 1 /\ marked.records[Len(done.records) + 1] = "TRIGGER"
    BY <1>2, <1>3, <2>2, RecordGoesBehind
  <2>4. /\ Len(marked.records) \in Nat /\ Len(done.records) \in Nat
        /\ Len(marked.records) <= Capacity /\ Capacity \in Nat \ {0}
    BY <1>3, <1>4, <1>5, TraceNumbers
  <2> QED BY <2>1, <2>3, <2>4
<1>8. ~fires => stopAt = m_nStopAtRecordCount /\ stopAt \in Nat
  BY TraceNumbers
<1> HIDE DEF done, fires, marked, stopAt, stops
<1>9. Trace!Count' = Len(ring'.records)
  BY DEF Trace!Count
<1>10. /\ ring' \in Rings /\ Trace!Count' >= Len(marked.records)
       /\ \A i \in 1 .. Len(marked.records) : ring'.records[i] = marked.records[i]
  <2>1. CASE stops
    BY <1>1, <1>6, <1>9, <2>1
  <2>2. CASE ~stops
    BY <1>1, <1>4, <1>5, <1>9, <2>2
  <2> QED BY <2>1, <2>2
<1>11. Trace!Count \in Nat /\ Len(done.records) \in Nat /\ Len(marked.records) \in Nat /\ Trace!Count' \in Nat
  BY <1>3, <1>4, <1>5, <1>9, <1>10, TraceNumbers
<1>12. \A i \in 1 .. Trace!Count :
          /\ i \in 1 .. Len(marked.records) /\ i \in 1 .. Trace!Count'
          /\ marked.records[i] = ring.records[i] /\ ring'.records[i] = ring.records[i]
  BY <1>3, <1>5, <1>10, <1>11
<1>13. Interrupted
  BY <1>1, <1>3, <1>5, <1>10, <1>11, <1>12 DEF Interrupted
<1>14. {m_bEnabled', m_bTriggerFired', m_bErrorTrigger'} \subseteq BOOLEAN
  BY <1>1 DEF TraceInv, Trace!TypeOK, fires, stops
<1>15. m_nStopAtRecordCount' \in Nat
  BY <1>1, <1>7, <1>8
<1>16. ASSUME m_nStopAtRecordCount' # 0 PROVE
           m_nStopAtRecordCount' > Capacity \/ \E i \in 1 .. Trace!Count' : TriggerAt(i)'
  <2>1. m_nStopAtRecordCount' = stopAt
    BY <1>1, <1>16
  <2>2. CASE fires /\ Len(marked.records) = Capacity
    BY <1>7, <2>1, <2>2, TraceNumbers
  <2>3. CASE fires /\ marked.records[Len(marked.records)] = "TRIGGER" /\ Len(marked.records) > 0
    <3>1. Len(marked.records) \in 1 .. Trace!Count' /\ Len(marked.records) \in 1 .. Len(marked.records)
      BY <1>10, <1>11, <2>3
    <3>2. ring'.records[Len(marked.records)] = "TRIGGER"
      BY <1>10, <2>3, <3>1
    <3> QED BY <1>7, <2>1, <2>3, <3>1, <3>2 DEF TriggerAt
  <2>4. CASE ~fires
    <3>1. m_nStopAtRecordCount' = m_nStopAtRecordCount
      BY <1>8, <2>1, <2>4
    <3>2. CASE \E i \in 1 .. Trace!Count : TriggerAt(i)
      BY <1>12, <3>1, <3>2 DEF TriggerAt
    <3> QED BY <1>16, <3>1, <3>2 DEF TraceInv
  <2> QED BY <1>7, <2>2, <2>3, <2>4
<1>17. ASSUME ~m_bEnabled' PROVE
           \E i \in 1 .. Trace!Count :
                ring.records[i] = "TRIGGER" /\ Len(ring'.records) - i >= POST_TRIGGER_RECORDS
  <2>1. stops /\ ~fires /\ stopAt = m_nStopAtRecordCount
    BY <1>1, <1>7, <1>8, <1>17
  <2>2. m_nStopAtRecordCount # 0 /\ Len(marked.records) >= m_nStopAtRecordCount
    BY <2>1 DEF stops
  <2>3. ~(m_nStopAtRecordCount > Capacity)
    BY <1>4, <1>5, <1>11, <2>2, TraceNumbers
  <2>4. PICK i \in 1 .. Trace!Count : TriggerAt(i)
    BY <2>2, <2>3 DEF TraceInv
  <2>5. i \in Nat /\ Len(ring'.records) >= m_nStopAtRecordCount
    BY <1>9, <1>10, <1>11, <2>2, TraceNumbers
  <2>6. Len(ring'.records) - i >= POST_TRIGGER_RECORDS
    BY <1>9, <1>11, <2>4, <2>5, TraceNumbers DEF TriggerAt
  <2> QED BY <2>4, <2>6 DEF TriggerAt
<1> QED BY <1>13, <1>14, <1>15, <1>16, <1>17

\* Whatever an interrupt records, an export that is under way stays as it promised.
LEMMA InterruptKeeps ==
    ASSUME Trace!TraceAssumption, TraceInv, Trace!Interrupt, ring'.dropped <= MaxDropped
    PROVE  TraceInv'
<1>1. Interrupted /\ {m_bEnabled', m_bTriggerFired', m_bErrorTrigger'} \subseteq BOOLEAN
      /\ m_nStopAtRecordCount' \in Nat
      /\ (m_nStopAtRecordCount' # 0 =>
                m_nStopAtRecordCount' > Capacity \/ \E i \in 1 .. Trace!Count' : TriggerAt(i)')
  <2>1. CASE Trace!TraceEvent
    <3>1. Interrupted
      BY <2>1, EventInterrupts DEF Trace!TraceEvent, Records
    <3>2. UNCHANGED <<m_bEnabled, m_bErrorTrigger, m_bTriggerFired, m_nStopAtRecordCount>>
      BY <2>1 DEF Trace!TraceEvent, Trace!captureVars
    <3>3. \A i \in 1 .. Trace!Count : i \in 1 .. Trace!Count'
      <4>1. Trace!Count \in Nat /\ Trace!Count' \in Nat /\ Trace!Count' >= Trace!Count
        BY <3>1, TraceNumbers DEF Interrupted, Rings, Trace!Count
      <4> QED BY <4>1
    <3>4. \A i \in 1 .. Trace!Count : TriggerAt(i) => TriggerAt(i)'
      BY <3>1, <3>2 DEF Interrupted, TriggerAt
    <3>5. {m_bEnabled', m_bTriggerFired', m_bErrorTrigger'} \subseteq BOOLEAN
      BY <3>2 DEF TraceInv, Trace!TypeOK
    <3>6. m_nStopAtRecordCount' \in Nat
      BY <3>2, TraceNumbers
    <3>7. m_nStopAtRecordCount' # 0 =>
                m_nStopAtRecordCount' > Capacity \/ \E i \in 1 .. Trace!Count' : TriggerAt(i)'
      BY <3>2, <3>3, <3>4 DEF TraceInv
    <3> QED BY <3>1, <3>5, <3>6, <3>7
  <2>2. ASSUME NEW failed \in BOOLEAN, Trace!TraceCommandComplete(failed)
        PROVE  /\ Interrupted
               /\ {m_bEnabled', m_bTriggerFired', m_bErrorTrigger'} \subseteq BOOLEAN
               /\ m_nStopAtRecordCount' \in Nat
               /\ (m_nStopAtRecordCount' # 0 =>
                     m_nStopAtRecordCount' > Capacity \/ \E i \in 1 .. Trace!Count' : TriggerAt(i)')
    BY <2>2, CommandInterrupts
  <2> QED BY <2>1, <2>2 DEF Trace!Interrupt
<1>2. /\ ring' \in Rings /\ Trace!Count' >= Trace!Count /\ Trace!Count' \in Nat
      /\ UNCHANGED <<task, export, recordCount, m_nReadRemaining, nRecordsWritten>>
  BY <1>1 DEF Interrupted, Rings, Trace!Count
<1>3. Trace!TypeOK'
  <2>1. ring'.records \in Seq(Records) /\ Trace!Count' <= Capacity /\ ring'.dropped \in Nat
    BY <1>2 DEF Rings, Trace!Count
  <2>2. ring'.dropped \in 0 .. MaxDropped
    BY <2>1, TraceNumbers
  <2>3. task' \in {"Idle", "Record", "Stop", "Disable", "ResetReadCursor", "Copy", "Exported"}
        /\ export' \in {"none", "buffer", "card"}
        /\ {m_nStopAtRecordCount', recordCount', m_nReadRemaining', nRecordsWritten'} \subseteq Nat
    BY <1>1, <1>2 DEF TraceInv, Trace!TypeOK
  <2> QED BY <1>1, <2>1, <2>2, <2>3 DEF Trace!TypeOK, Records
<1>4. task' = "ResetReadCursor" => recordCount' <= Trace!Count' /\ nRecordsWritten' = 0
  <2>1. recordCount \in Nat /\ Trace!Count \in Nat
    BY TraceNumbers
  <2> QED BY <1>2, <2>1 DEF TraceInv
<1> QED BY <1>1, <1>2, <1>3, <1>4 DEF TraceInv, Trace!ExportIsConsistent

\* The task that starts and stops captures, and records.
LEMMA TaskKeepsCapture ==
    ASSUME Trace!TraceAssumption, TraceInv, ring'.dropped <= MaxDropped,
           Trace!TraceImageRead \/ Trace!StopCapture \/ Trace!RecordInTask \/ Trace!Disable \/ Trace!StartCapture
    PROVE  TraceInv'
<1>1. CASE Trace!TraceImageRead \/ Trace!StopCapture
  BY <1>1 DEF Trace!TraceImageRead, Trace!StopCapture, Trace!CheckEnabled, TraceInv, Trace!TypeOK, Trace!ExportIsConsistent,
              TriggerAt, Trace!Count, Trace!captureVars, Trace!exportVars
<1>2. CASE Trace!Disable
  <2>1. /\ m_bEnabled' = FALSE /\ m_nStopAtRecordCount' = 0 /\ task' = "Idle"
        /\ UNCHANGED <<ring, m_bErrorTrigger, m_bTriggerFired, Trace!exportVars>>
    BY <1>2 DEF Trace!Disable
  <2>2. {m_nStopAtRecordCount', recordCount', m_nReadRemaining', nRecordsWritten'} \subseteq Nat
    BY <2>1, TraceNumbers DEF Trace!exportVars
  <2>3. {m_bEnabled', m_bErrorTrigger', m_bTriggerFired'} \subseteq BOOLEAN
    BY <2>1 DEF TraceInv, Trace!TypeOK
  <2>4. Trace!TypeOK'
    BY <2>1, <2>2, <2>3, Zenon DEF TraceInv, Trace!TypeOK, Trace!Count, Trace!exportVars
  <2> QED BY <2>1, <2>4 DEF TraceInv, Trace!ExportIsConsistent, Trace!Count
<1>3. CASE Trace!RecordInTask
  <2>1. PICK type \in Records : ring' = Trace!Recorded(ring, type)
    BY <1>3 DEF Trace!RecordInTask, Records
  <2>2. /\ ring' \in Rings /\ Trace!Count' >= Trace!Count
        /\ \A i \in 1 .. Trace!Count : ring'.records[i] = ring.records[i]
    BY <2>1, RecordGoesBehind DEF TraceInv, Trace!Count
  <2>3. /\ task' \in {"Idle", "Disable"} /\ UNCHANGED <<Trace!captureVars, Trace!exportVars>>
    BY <1>3 DEF Trace!RecordInTask
  <2>4. Trace!Count' \in Nat /\ Trace!Count' <= Capacity /\ ring'.dropped \in Nat /\ ring'.records \in Seq(Records)
    BY <2>2 DEF Rings, Trace!Count
  <2>5. ring'.dropped \in 0 .. MaxDropped
    BY <2>4, TraceNumbers
  <2>6. Trace!TypeOK'
    BY <2>3, <2>4, <2>5 DEF TraceInv, Trace!TypeOK, Trace!captureVars, Trace!exportVars, Records
  <2>7. \A i \in 1 .. Trace!Count : i \in 1 .. Trace!Count' /\ (TriggerAt(i) => TriggerAt(i)')
    <3>1. Trace!Count \in Nat
      BY TraceNumbers
    <3> QED BY <2>2, <2>3, <2>4, <3>1 DEF TriggerAt, Trace!captureVars
  <2>8. m_nStopAtRecordCount' # 0 =>
            m_nStopAtRecordCount' > Capacity \/ \E i \in 1 .. Trace!Count' : TriggerAt(i)'
    BY <2>3, <2>7 DEF TraceInv, Trace!captureVars
  <2> QED BY <2>2, <2>3, <2>6, <2>8 DEF TraceInv, Trace!ExportIsConsistent
<1>4. CASE Trace!StartCapture
  <2>1. Trace!Empty \in Rings /\ "START" \in Records
    BY TraceNumbers DEF Trace!Empty, Rings, Records
  <2>2. ring' \in Rings
    BY <1>4, <2>1, RecordGoesBehind DEF Trace!StartCapture
  <2>3. Trace!Count' <= Capacity /\ ring'.dropped \in Nat /\ ring'.records \in Seq(Records)
    BY <2>2 DEF Rings, Trace!Count
  <2>4. ring'.dropped \in 0 .. MaxDropped
    BY <2>3, TraceNumbers
  <2>5. task = "Idle" /\ m_nStopAtRecordCount' = 0 /\ UNCHANGED <<task, Trace!exportVars>>
        /\ m_bEnabled' \in BOOLEAN /\ m_bErrorTrigger' \in BOOLEAN /\ m_bTriggerFired' \in BOOLEAN
    BY <1>4 DEF Trace!StartCapture, Trace!StopCount
  <2>6. Trace!TypeOK'
    BY <2>3, <2>4, <2>5 DEF TraceInv, Trace!TypeOK, Trace!exportVars, Records
  <2> QED BY <2>2, <2>5, <2>6 DEF TraceInv, Trace!ExportIsConsistent
<1> QED BY <1>1, <1>2, <1>3, <1>4

\* The task that exports.
LEMMA TaskKeepsExport ==
    ASSUME Trace!TraceAssumption, TraceInv,
           Trace!BeginExport \/ Trace!ResetReadCursor \/ Trace!ReadNextRecord \/ Trace!EndExport
    PROVE  TraceInv'
<1>1. UNCHANGED <<ring, Trace!captureVars>>
  BY DEF Trace!BeginExport, Trace!ResetReadCursor, Trace!ReadNextRecord, Trace!EndExport
<1>2. Trace!Count' = Trace!Count /\ Trace!Count \in Nat
  BY <1>1, TraceNumbers DEF Trace!Count
<1>3. /\ ring' \in Rings
      /\ m_nStopAtRecordCount' # 0 =>
            m_nStopAtRecordCount' > Capacity \/ \E i \in 1 .. Trace!Count' : TriggerAt(i)'
  BY <1>1, <1>2 DEF TraceInv, TriggerAt, Trace!captureVars
<1>4. ASSUME task' \in {"Idle", "ResetReadCursor", "Copy", "Exported"},
             export' \in {"none", "buffer", "card"}, recordCount' \in Nat,
             m_nReadRemaining' \in Nat, nRecordsWritten' \in Nat
      PROVE  Trace!TypeOK'
  BY <1>1, <1>2, <1>4 DEF TraceInv, Trace!TypeOK, Trace!captureVars
<1>5. /\ recordCount \in Nat /\ m_nReadRemaining \in Nat /\ nRecordsWritten \in Nat
      /\ export \in {"none", "buffer", "card"}
  BY TraceNumbers DEF TraceInv, Trace!TypeOK
<1>6. CASE Trace!BeginExport
  BY <1>1, <1>2, <1>3, <1>4, <1>5, <1>6 DEF Trace!BeginExport, TraceInv, Trace!ExportIsConsistent
<1>7. CASE Trace!ResetReadCursor
  <2>1. /\ recordCount' = recordCount /\ nRecordsWritten' = 0 /\ nRecordsWritten = 0
        /\ m_nReadRemaining' = Trace!Count /\ recordCount <= Trace!Count /\ task' = "Copy" /\ export' = export
    BY <1>7 DEF Trace!ResetReadCursor, TraceInv
  <2>2. recordCount' <= m_nReadRemaining' + nRecordsWritten' /\ nRecordsWritten' <= recordCount'
    BY <1>2, <1>5, <2>1
  <2> QED BY <1>2, <1>3, <1>4, <1>5, <2>1, <2>2 DEF TraceInv, Trace!ExportIsConsistent
<1>8. CASE Trace!ReadNextRecord
  <2>1. /\ task = "Copy" /\ task' = "Copy" /\ export' = export /\ recordCount' = recordCount
        /\ m_nReadRemaining' = m_nReadRemaining - 1 /\ nRecordsWritten' = nRecordsWritten + 1
        /\ m_nReadRemaining > 0 /\ (export = "buffer" => nRecordsWritten < recordCount)
    BY <1>8 DEF Trace!ReadNextRecord, Trace!CopiesOn
  <2>2. m_nReadRemaining' \in Nat /\ nRecordsWritten' \in Nat
    BY <1>5, <2>1
  <2>3. export = "buffer" =>
            recordCount <= m_nReadRemaining' + nRecordsWritten' /\ nRecordsWritten' <= recordCount
    <3>1. export = "buffer" => recordCount <= m_nReadRemaining + nRecordsWritten
      BY <2>1 DEF TraceInv
    <3> QED BY <1>5, <2>1, <3>1
  <2> QED BY <1>2, <1>3, <1>4, <1>5, <2>1, <2>2, <2>3 DEF TraceInv, Trace!ExportIsConsistent
<1>9. CASE Trace!EndExport
  <2>1. CASE task' = "Idle" /\ export' = "none"
             /\ recordCount' = 0 /\ m_nReadRemaining' = 0 /\ nRecordsWritten' = 0
    BY <1>3, <1>4, <2>1 DEF TraceInv, Trace!ExportIsConsistent
  <2>2. CASE task = "Copy" /\ (~Trace!CopiesOn \/ export = "card") /\ task' = "Exported"
             /\ UNCHANGED <<export, recordCount, m_nReadRemaining, nRecordsWritten>>
    <3>1. export = "buffer" => recordCount = nRecordsWritten
      <4>1. export = "buffer" =>
              /\ recordCount <= m_nReadRemaining + nRecordsWritten /\ nRecordsWritten <= recordCount
              /\ ~(m_nReadRemaining > 0 /\ nRecordsWritten < recordCount)
        BY <2>2 DEF Trace!CopiesOn, TraceInv
      <4> QED BY <1>5, <4>1
    <3> QED BY <1>3, <1>4, <1>5, <2>2, <3>1 DEF TraceInv, Trace!ExportIsConsistent
  <2> QED BY <1>9, <2>1, <2>2 DEF Trace!EndExport, Trace!exportVars
<1> QED BY <1>6, <1>7, <1>8, <1>9

LEMMA TraceKeeps ==
    ASSUME Trace!TraceAssumption PROVE Trace!Init /\ [][Trace!Next]_Trace!vars => []TraceInv
<1>1. ASSUME Trace!Init PROVE TraceInv
  <2>1. Trace!Empty \in Rings /\ Trace!Empty.records \in Seq(Records) /\ Len(Trace!Empty.records) = 0
        /\ Trace!Empty.dropped = 0
    BY DEF Trace!Empty, Rings, Records, Trace!TraceAssumption
  <2>2. 0 \in 0 .. MaxDropped /\ 0 <= Capacity
    BY DEF Trace!TraceAssumption
  <2>3. ring \in Rings /\ ring.records \in Seq(Records) /\ Trace!Count = 0 /\ ring.dropped = 0
    BY <1>1, <2>1 DEF Trace!Init, Trace!Count
  <2>4. {m_nStopAtRecordCount, recordCount, m_nReadRemaining, nRecordsWritten} \subseteq Nat
    BY <1>1 DEF Trace!Init
  <2>5. {m_bEnabled, m_bErrorTrigger, m_bTriggerFired} \subseteq BOOLEAN
    BY <1>1, Zenon DEF Trace!Init
  <2>6. task = "Idle" /\ export = "none"
    BY <1>1 DEF Trace!Init
  <2>7. Trace!TypeOK
    <3>1. ring.dropped \in 0 .. MaxDropped
      BY <2>2, <2>3
    <3> QED BY <2>2, <2>3, <2>4, <2>5, <2>6, <3>1, Zenon DEF Trace!TypeOK, Records
  <2> QED BY <1>1, <2>3, <2>7 DEF Trace!Init, TraceInv, Trace!ExportIsConsistent
<1>2. ASSUME TraceInv, [Trace!Next]_Trace!vars PROVE TraceInv'
  <2>1. CASE UNCHANGED Trace!vars
    BY <1>2, <2>1 DEF TraceInv, Trace!TypeOK, Trace!ExportIsConsistent, Trace!Count, TriggerAt, Trace!vars, Trace!captureVars,
                      Trace!exportVars
  <2>2. CASE Trace!Next
    BY <1>2, <2>2, InterruptKeeps, TaskKeepsCapture, TaskKeepsExport DEF Trace!Next, Trace!Task
  <2> QED BY <1>2, <2>1, <2>2
<1> QED BY <1>1, <1>2, PTL

\* Only the end of a command stops a capture while the tasks stand still.
LEMMA StopsAfterTrigger ==
    ASSUME Trace!TraceAssumption, TraceInv, Trace!Next, m_bEnabled, ~m_bEnabled', UNCHANGED task
    PROVE  \E i \in 1 .. Trace!Count :
              ring.records[i] = "TRIGGER" /\ Len(ring'.records) - i >= POST_TRIGGER_RECORDS
<1>1. \E failed \in BOOLEAN : Trace!TraceCommandComplete(failed)
  BY DEF Trace!Next, Trace!Interrupt, Trace!Task, Trace!TraceEvent, Trace!TraceImageRead, Trace!StopCapture, Trace!CheckEnabled, Trace!RecordInTask,
         Trace!Disable, Trace!StartCapture, Trace!BeginExport, Trace!ResetReadCursor, Trace!ReadNextRecord, Trace!EndExport, Trace!captureVars
<1> QED BY <1>1, CommandInterrupts

LEMMA TraceInvariant == Steps => []TraceInv
<1>1. Trace!TraceAssumption
  BY ServicesAssumption
<1> QED BY <1>1, TraceAlone, TraceKeeps, PTL

\* A download of the trace holds as many records as its header says, however much
\* is recorded meanwhile: ExportIsConsistent, of CTraceLab::ExportToBuffer.
THEOREM ExportCorrect == ServicesSpec => []ExportIsConsistent
<1>1. TraceInv => ExportIsConsistent
  BY DEF TraceInv, ExportIsConsistent
<1> QED BY <1>1, SpecSteps, TraceInvariant, PTL

\* A capture that stops by itself was triggered, and holds what was to follow the
\* trigger: AutoStopFollowsTrigger, of CTraceLab::CheckAutoStop.
THEOREM AutoStopCorrect == ServicesSpec => AutoStopFollowsTrigger
<1>1. Trace!TraceAssumption
  BY ServicesAssumption
<1>2. TraceInv /\ [Trace!Next]_Trace!vars =>
        [m_bEnabled /\ ~m_bEnabled' /\ UNCHANGED task =>
            \E i \in 1 .. Trace!Count :
                ring.records[i] = "TRIGGER"
                /\ Len(ring'.records) - i >= POST_TRIGGER_RECORDS]_Trace!vars
  BY <1>1, StopsAfterTrigger
<1> QED BY <1>2, SpecSteps, TraceAlone, TraceInvariant, PTL
        DEF AutoStopFollowsTrigger, Trace!AutoStopFollowsTrigger

-----------------------------------------------------------------------------
(* The FTP sessions                                                          *)

Slots == 0 .. MaxSessions - 1

FtpInv ==
    /\ Ftp!TypeOK
    /\ IsFiniteSet(Ftp!Live)
    /\ \A c \in Ftp!Live, d \in Ftp!Live : c # d => m_nSlot[c] # m_nSlot[d]
    /\ \A c \in Clients : m_pDataSocket[c] = "listening" =>
          /\ c \in Ftp!Live
          /\ m_TransferMode[c] = "Passive"
          /\ m_nDataSocketPort[c] = Ftp!PassivePort(m_nSlot[c])

\* A set of slots that is not empty has a least one.
LEMMA LeastSlot ==
    ASSUME NEW S, S \subseteq Nat, S # {}
    PROVE  \E s \in S : \A t \in S : s <= t
<1>1. PICK s \in S : \A t \in S : <<t, s>> \notin OpToRel(<, Nat)
  BY NatLessThanWellFounded, WFMin, Zenon
<1>2. \A t \in S : ~(t < s)
  BY <1>1 DEF OpToRel
<1>3. \A t \in S : s <= t
  BY <1>2
<1> QED BY <1>3

\* The cardinality of the module of the server is that of the theorems on finite sets.
LEMMA SameCardinality ==
    ASSUME NEW S PROVE Ftp!Cardinality(S) = Cardinality(S)
  BY Zenon DEF Ftp!Cardinality, Cardinality

\* While a session may still be taken, a slot is free: the live sessions are
\* fewer than the slots.
LEMMA SlotIsFree ==
    ASSUME Ftp!FtpAssumption, Ftp!TypeOK, IsFiniteSet(Ftp!Live), ~Ftp!IsFull
    PROVE  Slots \ Ftp!SlotsInUse # {}
<1>1. SUFFICES ASSUME Slots \subseteq Ftp!SlotsInUse PROVE FALSE
  OBVIOUS
<1>2. IsFiniteSet(Slots) /\ Cardinality(Slots) = MaxSessions
  BY FS_Interval DEF Slots, Ftp!FtpAssumption
<1>3. Cardinality(Ftp!Live) < Cardinality(Slots)
  <2>1. Cardinality(Ftp!Live) \in Nat
    BY FS_CardinalityType
  <2>2. ~(Cardinality(Ftp!Live) >= MaxSessions) /\ MaxSessions \in Nat
    BY SameCardinality DEF Ftp!IsFull, Ftp!FtpAssumption
  <2> QED BY <1>2, <2>1, <2>2
<1> DEFINE Holder == [s \in Slots |-> CHOOSE c \in Ftp!Live : m_nSlot[c] = s]
<1>4. \A s \in Slots : Holder[s] \in Ftp!Live /\ m_nSlot[Holder[s]] = s
  BY <1>1 DEF Ftp!SlotsInUse
<1>5. Holder \in [Slots -> Ftp!Live]
  BY <1>4
<1> HIDE DEF Holder
<1>6. \E s, t \in Slots : s # t /\ Holder[s] = Holder[t]
  BY <1>2, <1>3, <1>5, FS_PigeonHole
<1> QED BY <1>4, <1>6

\* The constructor of a session finds a slot that no live session has.
LEMMA FreeSlotIsFree ==
    ASSUME Ftp!FtpAssumption, Ftp!TypeOK, IsFiniteSet(Ftp!Live), ~Ftp!IsFull
    PROVE  Ftp!FreeSlot \in Slots \ Ftp!SlotsInUse
<1>1. Slots \ Ftp!SlotsInUse # {}
  BY SlotIsFree
<1> DEFINE free == Slots \ Ftp!SlotsInUse
<1>2. free \subseteq Nat
  BY DEF Slots, Ftp!FtpAssumption
<1>3. free # {}
  BY <1>1
<1> HIDE DEF free
<1>4. \E s \in free : \A t \in free : s <= t
  BY <1>2, <1>3, LeastSlot
<1> USE DEF free
<1> QED BY <1>1, <1>4 DEF Ftp!FreeSlot, Slots

LEMMA AcceptKeeps ==
    ASSUME Ftp!FtpAssumption, FtpInv, NEW c \in Clients, Ftp!Accept(c) PROVE FtpInv'
<1>1. Ftp!FreeSlot \in Slots /\ \A d \in Ftp!Live : m_nSlot[d] # Ftp!FreeSlot
  BY FreeSlotIsFree DEF FtpInv, Ftp!Accept, Ftp!SlotsInUse
<1>2. Ftp!FreeSlot # Ftp!NoSlot
  BY <1>1 DEF Slots, Ftp!NoSlot, Ftp!FtpAssumption
<1>3. Ftp!Live' = Ftp!Live \cup {c}
  BY <1>2 DEF Ftp!Live, Ftp!Accept, FtpInv, Ftp!TypeOK
<1>4. IsFiniteSet(Ftp!Live')
  BY <1>3, FS_AddElement DEF FtpInv
<1>5. Ftp!TypeOK'
  BY <1>1 DEF Ftp!Accept, FtpInv, Ftp!TypeOK, Slots, Ftp!dataVars
<1>6. \A d \in Ftp!Live', f \in Ftp!Live' : d # f => m_nSlot'[d] # m_nSlot'[f]
  BY <1>1, <1>3 DEF Ftp!Accept, FtpInv, Ftp!TypeOK, Ftp!Live
<1>7. \A d \in Clients : m_pDataSocket'[d] = "listening" => d # c
  BY DEF Ftp!Accept, FtpInv, Ftp!dataVars
<1> QED BY <1>3, <1>4, <1>5, <1>6, <1>7 DEF Ftp!Accept, FtpInv, Ftp!TypeOK, Ftp!dataVars

LEMMA EndKeeps ==
    ASSUME Ftp!FtpAssumption, FtpInv, NEW c \in Clients, Ftp!End(c) PROVE FtpInv'
<1>1. Ftp!Live' = Ftp!Live \ {c}
  BY DEF Ftp!Live, Ftp!End, FtpInv, Ftp!TypeOK
<1>2. IsFiniteSet(Ftp!Live')
  BY <1>1, FS_RemoveElement DEF FtpInv
<1>3. Ftp!TypeOK'
  BY DEF Ftp!End, FtpInv, Ftp!TypeOK, Ftp!NoSlot, Ftp!FtpAssumption
<1>4. \A d \in Ftp!Live' : d # c /\ d \in Ftp!Live /\ m_nSlot'[d] = m_nSlot[d]
  BY <1>1 DEF Ftp!End, FtpInv, Ftp!TypeOK, Ftp!Live
<1>5. \A d \in Clients : m_pDataSocket'[d] = "listening" =>
         /\ d # c /\ m_pDataSocket[d] = "listening"
         /\ UNCHANGED <<m_TransferMode[d], m_nDataSocketPort[d], m_nSlot[d]>>
  BY DEF Ftp!End, FtpInv, Ftp!TypeOK
<1> QED BY <1>1, <1>2, <1>3, <1>4, <1>5 DEF FtpInv, Ftp!PassivePort

\* The commands of a session leave the slots alone.
LEMMA CommandKeeps ==
    ASSUME Ftp!FtpAssumption, FtpInv, NEW c \in Clients,
           Ftp!LogIn(c) \/ Ftp!Port(c) \/ Ftp!Passive(c) \/ Ftp!BeginTransfer(c) \/ Ftp!EndTransfer(c)
    PROVE  FtpInv'
<1>1. UNCHANGED m_nSlot
  BY DEF Ftp!LogIn, Ftp!Port, Ftp!Passive, Ftp!BeginTransfer, Ftp!EndTransfer
<1>2. Ftp!Live' = Ftp!Live
  BY <1>1 DEF Ftp!Live
<1>3. CASE Ftp!LogIn(c)
  BY <1>1, <1>2, <1>3 DEF Ftp!LogIn, FtpInv, Ftp!TypeOK, Ftp!dataVars, Ftp!PassivePort
<1>4. CASE Ftp!Port(c)
  BY <1>1, <1>2, <1>4 DEF Ftp!Port, FtpInv, Ftp!TypeOK, Ftp!PassivePort
<1>5. CASE Ftp!Passive(c)
  <2>1. c \in Ftp!Live /\ m_nSlot[c] \in Slots
    BY <1>5 DEF Ftp!Passive, Ftp!May, Ftp!Live, FtpInv, Ftp!TypeOK, Slots, Ftp!NoSlot, Ftp!FtpAssumption
  <2>2. Ftp!TypeOK'
    BY <1>5, <2>1 DEF Ftp!Passive, FtpInv, Ftp!TypeOK, Slots
  <2> QED BY <1>1, <1>2, <1>5, <2>1, <2>2 DEF Ftp!Passive, FtpInv, Ftp!TypeOK, Ftp!PassivePort
<1>6. CASE Ftp!BeginTransfer(c)
  BY <1>1, <1>2, <1>6 DEF Ftp!BeginTransfer, FtpInv, Ftp!TypeOK, Ftp!dataVars, Ftp!PassivePort
<1>7. CASE Ftp!EndTransfer(c)
  BY <1>1, <1>2, <1>7 DEF Ftp!EndTransfer, FtpInv, Ftp!TypeOK, Ftp!PassivePort
<1> QED BY <1>3, <1>4, <1>5, <1>6, <1>7

LEMMA FtpKeeps ==
    ASSUME Ftp!FtpAssumption PROVE Ftp!Init /\ [][Ftp!Next]_Ftp!ftpVars => []FtpInv
<1>1. Ftp!Init => FtpInv
  <2>1. SUFFICES ASSUME Ftp!Init PROVE FtpInv
    OBVIOUS
  <2>2. Ftp!Live = {}
    BY <2>1 DEF Ftp!Init, Ftp!Live
  <2>3. Ftp!TypeOK
    BY <2>1 DEF Ftp!Init, Ftp!TypeOK, Ftp!NoSlot, Ftp!FtpAssumption
  <2> QED BY <2>1, <2>2, <2>3, FS_EmptySet DEF Ftp!Init, FtpInv
<1>2. ASSUME FtpInv, [Ftp!Next]_Ftp!ftpVars PROVE FtpInv'
  <2>1. CASE Ftp!Next
    BY <1>2, <2>1, AcceptKeeps, EndKeeps, CommandKeeps DEF Ftp!Next
  <2>2. CASE UNCHANGED Ftp!ftpVars
    BY <1>2, <2>2 DEF Ftp!ftpVars, Ftp!dataVars, FtpInv, Ftp!TypeOK, Ftp!Live, Ftp!PassivePort
  <2> QED BY <1>2, <2>1, <2>2
<1> QED BY <1>1, <1>2, PTL

\* A session that listens is alone on its port, whatever transfers broke off and
\* whichever sessions ended before: PassivePortIsOwn, of CFTPWorker's slots, for
\* any number of clients and of sessions.
THEOREM PassivePortCorrect == ServicesSpec => []PassivePortIsOwn
<1>1. FtpInv => PassivePortIsOwn
  BY DEF FtpInv, PassivePortIsOwn, Ftp!PassivePortIsOwn, Ftp!Live
<1>2. Ftp!FtpAssumption
  BY ServicesAssumption
<1> QED BY <1>1, <1>2, SpecSteps, FtpAlone, FtpKeeps, PTL

-----------------------------------------------------------------------------
(* The log daemon                                                            *)

\* A file that is open was never closed, and its failures are too few to give up.
LogInv ==
    /\ Log!TypeOK
    /\ m_bFileInitialized =>
         fileCloses = 0 /\ m_nConsecutiveWriteFailures < MaxConsecutiveWriteFailures

LEMMA LogNumbers ==
    ASSUME Log!LogAssumption
    PROVE  MaxEvents \in Nat \ {0} /\ MaxConsecutiveWriteFailures \in Nat \ {0}
  BY DEF Log!LogAssumption

LEMMA LogWrites ==
    ASSUME Log!LogAssumption, LogInv, Log!Write PROVE LogInv'
<1>1. /\ queue > 0 /\ queue' = queue - 1 /\ UNCHANGED <<logged, m_Event>>
      /\ m_bFileInitialized /\ daemon = "Drain"
      /\ daemon' \in {"Drain", "Sleep"}
  BY DEF Log!Write
<1>2. /\ logged \in Nat /\ logged <= MaxEvents /\ queue \in Nat /\ queue <= logged
      /\ fileCloses = 0 /\ m_nConsecutiveWriteFailures \in Nat
      /\ m_nConsecutiveWriteFailures < MaxConsecutiveWriteFailures
  BY <1>1, LogNumbers DEF LogInv, Log!TypeOK
<1>3. queue' \in 0 .. logged'
  BY <1>1, <1>2
<1>4. /\ m_bFileInitialized' \in BOOLEAN /\ m_bWritesGaveUp' \in BOOLEAN
      /\ \/ m_nConsecutiveWriteFailures' = 0 /\ UNCHANGED <<m_bFileInitialized, fileCloses>>
         \/ /\ m_nConsecutiveWriteFailures' = m_nConsecutiveWriteFailures + 1
            /\ \/ ~m_bFileInitialized' /\ fileCloses' = fileCloses + 1
               \/ ~Log!GivesUp /\ UNCHANGED <<m_bFileInitialized, fileCloses>>
  BY DEF Log!Write, LogInv, Log!TypeOK
<1>5. /\ m_nConsecutiveWriteFailures' \in 0 .. MaxConsecutiveWriteFailures
      /\ fileCloses' \in 0 .. 1
      /\ m_bFileInitialized' =>
            fileCloses' = 0 /\ m_nConsecutiveWriteFailures' < MaxConsecutiveWriteFailures
  BY <1>2, <1>4, LogNumbers DEF Log!GivesUp
<1> QED BY <1>1, <1>3, <1>4, <1>5 DEF LogInv, Log!TypeOK

LEMMA LogKeeps ==
    ASSUME Log!LogAssumption PROVE Log!Init /\ [][Log!Next]_Log!vars => []LogInv
<1>1. ASSUME Log!Init PROVE LogInv
  <2>1. logged = 0 /\ queue = 0 /\ fileCloses \in 0 .. 1 /\ m_nConsecutiveWriteFailures = 0
        /\ (m_bFileInitialized => fileCloses = 0)
    BY <1>1 DEF Log!Init
  <2>2. m_Event \in BOOLEAN /\ m_bFileInitialized \in BOOLEAN /\ m_bWritesGaveUp \in BOOLEAN
        /\ daemon = "Start"
    BY <1>1, Zenon DEF Log!Init
  <2>3. logged \in 0 .. MaxEvents /\ queue \in 0 .. logged
        /\ m_nConsecutiveWriteFailures \in 0 .. MaxConsecutiveWriteFailures
        /\ m_nConsecutiveWriteFailures < MaxConsecutiveWriteFailures
    BY <2>1, LogNumbers
  <2> QED BY <2>1, <2>2, <2>3, Zenon DEF LogInv, Log!TypeOK
<1>2. ASSUME LogInv, [Log!Next]_Log!vars PROVE LogInv'
  <2>1. logged \in Nat /\ queue \in Nat /\ logged <= MaxEvents /\ queue <= logged
    BY <1>2, LogNumbers DEF LogInv, Log!TypeOK
  <2>2. ASSUME logged' \in Nat, logged' <= MaxEvents, queue' \in Nat, queue' <= logged',
               m_Event' \in BOOLEAN, daemon' \in {"Start", "Clear", "Drain", "Sleep", "Wait"},
               UNCHANGED Log!fileVars
        PROVE  LogInv'
    <3>1. logged' \in 0 .. MaxEvents /\ queue' \in 0 .. logged'
      BY <2>2, LogNumbers
    <3> QED BY <1>2, <2>2, <3>1 DEF LogInv, Log!TypeOK, Log!fileVars
  <2>3. m_Event \in BOOLEAN /\ daemon \in {"Start", "Clear", "Drain", "Sleep", "Wait"}
    BY <1>2 DEF LogInv, Log!TypeOK
  <2>4. CASE Log!Log
    <3>1. /\ logged < MaxEvents /\ logged' = logged + 1 /\ queue' = queue + 1
          /\ UNCHANGED <<daemon, Log!fileVars>>
      BY <2>4 DEF Log!Log
    <3>2. m_Event' \in BOOLEAN
      BY <2>3, <2>4 DEF Log!Log
    <3>3. logged' \in Nat /\ queue' \in Nat /\ logged' <= MaxEvents /\ queue' <= logged'
      BY <2>1, <3>1, LogNumbers
    <3> QED BY <2>2, <2>3, <3>1, <3>2, <3>3
  <2>5. CASE Log!Register \/ Log!Clear \/ Log!Wait \/ Log!Drained \/ Log!WakeUp
    <3>1. /\ daemon' \in {"Clear", "Drain", "Wait"} /\ (m_Event' = FALSE \/ m_Event' = m_Event)
          /\ UNCHANGED <<logged, queue, Log!fileVars>>
      BY <2>5 DEF Log!Register, Log!Clear, Log!Wait, Log!Drained, Log!WakeUp, Log!Round
    <3> QED BY <2>1, <2>2, <2>3, <3>1
  <2>6. CASE Log!Skip
    <3>1. queue > 0 /\ queue' = queue - 1 /\ UNCHANGED <<logged, m_Event, daemon, Log!fileVars>>
      BY <2>6 DEF Log!Skip
    <3>2. queue' \in Nat /\ queue' <= logged'
      BY <2>1, <3>1
    <3> QED BY <2>1, <2>2, <2>3, <3>1, <3>2
  <2>7. CASE UNCHANGED Log!vars
    BY <2>1, <2>2, <2>3, <2>7 DEF Log!vars
  <2> QED BY <1>2, <2>4, <2>5, <2>6, <2>7, LogWrites DEF Log!Next, Log!Daemon
<1> QED BY <1>1, <1>2, PTL

-----------------------------------------------------------------------------
(* Start-up: types                                                           *)

LEMMA StartType ==
    ASSUME Start!StartAssumption, Start!Init PROVE Start!TypeOK
<1>1. 0 \in 0..MaxCuts /\ 0 \in 0..MaxFaults /\ 0 \in 0..MaxUploads
  BY DEF Start!StartAssumption
<1>2. volume \in [Start!Images -> {"absent", "part", "whole"}]
  BY DEF Start!Init, Start!Nothing
<1>3. system \in [SystemFiles -> {"old", "part", "new"}]
  BY DEF Start!Init
<1>4. toUnlink \in Seq(Start!ArchiveFiles)
  BY DEF Start!Init
<1> QED BY <1>1, <1>2, <1>3, <1>4 DEF Start!Init, Start!TypeOK, Start!Stages

LEMMA UnlinkLists ==
    Start!Own \in Seq(Start!ArchiveFiles) /\ Start!CleanUp \in Seq(Start!ArchiveFiles)
  BY DEF Start!Own, Start!CleanUp, Start!ArchiveFiles

LEMMA FaultType ==
    ASSUME Start!StartAssumption, Start!TypeOK, Start!Works \/ Start!Fails
    PROVE faults' \in 0..MaxFaults
  BY DEF Start!StartAssumption, Start!TypeOK, Start!Works, Start!Fails

LEMMA OffType ==
    ASSUME Start!TypeOK, Start!Off
    PROVE  /\ stage' \in Start!Stages /\ m_upgradeRequired' \in BOOLEAN
           /\ handled' \subseteq Shipped \cup SystemFiles
           /\ current' \in {Start!NoFile} \cup Shipped \cup SystemFiles
           /\ toUnlink' \in Seq(Start!ArchiveFiles)
           /\ UNCHANGED Start!cardVars
<1>1. toUnlink' \in Seq(Start!ArchiveFiles)
  BY DEF Start!Off
<1> QED BY <1>1 DEF Start!Off, Start!Stages

LEMMA BootType ==
    ASSUME Start!StartAssumption, Start!TypeOK, UNCHANGED <<Start!userVars, cuts>>,
           Start!Initialize \/ Start!ChooseMode \/ Start!MountImages \/ Start!Restart
    PROVE  Start!TypeOK'
<1>1. faults' \in 0..MaxFaults
  BY FaultType DEF Start!Initialize, Start!ChooseMode, Start!MountImages, Start!Restart
<1>2. CASE Start!Initialize
  BY <1>1, <1>2 DEF Start!Initialize, Start!To, Start!TypeOK, Start!Stages, Start!cardVars,
     Start!bootVars, Start!userVars
<1>3. CASE Start!ChooseMode
  BY <1>1, <1>3 DEF Start!ChooseMode, Start!To, Start!TypeOK, Start!Stages, Start!cardVars,
     Start!bootVars, Start!userVars
<1>4. CASE Start!MountImages
  BY <1>1, <1>4 DEF Start!MountImages, Start!To, Start!TypeOK, Start!Stages, Start!cardVars,
     Start!bootVars, Start!userVars
<1>5. CASE Start!Restart
  BY <1>1, <1>5, OffType DEF Start!Restart, Start!TypeOK, Start!cardVars, Start!userVars
<1> QED BY <1>2, <1>3, <1>4, <1>5

LEMMA SetupType ==
    ASSUME Start!StartAssumption, Start!TypeOK, UNCHANGED <<Start!userVars, cuts>>,
           \/ Start!ResizeSecondPartition \/ Start!FormatPartition
           \/ Start!CopyMount \/ Start!CopyImage \/ Start!CopyEnds \/ Start!Remount
    PROVE  Start!TypeOK'
<1>1. faults' \in 0..MaxFaults
  BY FaultType DEF Start!ResizeSecondPartition, Start!FormatPartition, Start!CopyMount,
     Start!CopyImage, Start!CopyEnds, Start!Remount
<1>2. CASE Start!ResizeSecondPartition
  BY <1>1, <1>2 DEF Start!ResizeSecondPartition, Start!To, Start!TypeOK, Start!Stages,
     Start!cardVars, Start!bootVars, Start!userVars
<1>3. CASE Start!FormatPartition
  BY <1>1, <1>3 DEF Start!FormatPartition, Start!Nothing, Start!To, Start!TypeOK, Start!Stages,
     Start!cardVars, Start!bootVars, Start!userVars
<1>4. CASE Start!CopyMount
  BY <1>1, <1>4 DEF Start!CopyMount, Start!To, Start!TypeOK, Start!Stages, Start!cardVars,
     Start!bootVars, Start!userVars
<1>5. CASE Start!CopyImage
  BY <1>1, <1>5 DEF Start!CopyImage, Start!TypeOK, Start!userVars
<1>6. CASE Start!CopyEnds
  BY <1>1, <1>6 DEF Start!CopyEnds, Start!To, Start!TypeOK, Start!Stages, Start!cardVars,
     Start!bootVars, Start!userVars
<1>7. CASE Start!Remount
  BY <1>1, <1>7 DEF Start!Remount, Start!To, Start!TypeOK, Start!Stages, Start!cardVars,
     Start!bootVars, Start!userVars
<1> QED BY <1>2, <1>3, <1>4, <1>5, <1>6, <1>7

LEMMA UpgradeType ==
    ASSUME Start!StartAssumption, Start!TypeOK, UNCHANGED <<Start!userVars, cuts>>,
           \/ Start!Verify \/ Start!ExtractFile \/ Start!ExtractEnds
           \/ Start!Unlink \/ Start!UpgradeEnds
    PROVE  Start!TypeOK'
<1>1. faults' \in 0..MaxFaults
  BY FaultType DEF Start!Verify, Start!ExtractFile, Start!ExtractEnds, Start!Unlink,
     Start!UpgradeEnds
<1>2. CASE Start!Verify
  BY <1>1, <1>2, UnlinkLists
  DEF Start!Verify, Start!Verified, Start!Unlinking, Start!TypeOK, Start!Stages,
     Start!bootVars, Start!userVars
<1>3. CASE Start!ExtractFile
  BY <1>1, <1>3, UnlinkLists DEF Start!ExtractFile, Start!Unlinking, Start!TypeOK,
     Start!Stages, Start!userVars
<1>4. CASE Start!ExtractEnds
  BY <1>1, <1>4, UnlinkLists DEF Start!ExtractEnds, Start!Unlinking, Start!TypeOK,
     Start!Stages, Start!cardVars, Start!userVars
<1>5. CASE Start!Unlink
  <2>1. toUnlink' \in Seq(Start!ArchiveFiles)
    BY <1>5 DEF Start!Unlink, Start!TypeOK
  <2>2. archives' \subseteq Start!ArchiveFiles
    BY <1>5 DEF Start!Unlink, Start!TypeOK
  <2> QED BY <1>1, <1>5, <2>1, <2>2 DEF Start!Unlink, Start!TypeOK, Start!userVars
<1>6. CASE Start!UpgradeEnds
  BY <1>1, <1>6 DEF Start!UpgradeEnds, Start!To, Start!TypeOK, Start!Stages, Start!cardVars,
     Start!bootVars, Start!userVars
<1> QED BY <1>2, <1>3, <1>4, <1>5, <1>6

LEMMA UserType ==
    ASSUME Start!StartAssumption, Start!TypeOK, Start!User PROVE Start!TypeOK'
<1>1. UNCHANGED <<cuts, faults>>
  BY DEF Start!User
<1>2. CASE \E file \in Start!ArchiveFiles : Start!Upload(file)
  BY <1>1, <1>2 DEF Start!Upload, Start!TypeOK, Start!StartAssumption, Start!bootVars
<1>3. CASE \E f \in Start!Images, is \in {"whole", "absent"} : Start!ChangeImage(f, is)
  BY <1>1, <1>3 DEF Start!ChangeImage, Start!TypeOK, Start!bootVars
<1> QED BY <1>2, <1>3 DEF Start!User

LEMMA PowerType ==
    ASSUME Start!StartAssumption, Start!TypeOK,
           Start!Switch(Start!SwitchOff) \/ Start!Switch(Start!PowerCycle) \/ Start!PowerCut
    PROVE  Start!TypeOK'
<1>1. Start!Off /\ UNCHANGED Start!userVars /\ faults' \in 0..MaxFaults
  BY FaultType DEF Start!Switch, Start!SwitchOff, Start!PowerCycle, Start!PowerCut
<1>2. cuts' \in 0..MaxCuts
  BY DEF Start!Switch, Start!SwitchOff, Start!PowerCycle, Start!PowerCut, Start!TypeOK,
     Start!StartAssumption
<1> QED BY <1>1, <1>2, OffType DEF Start!TypeOK, Start!cardVars, Start!userVars

\* Every variable keeps its type, through any number of boots.
THEOREM StartUpTypes ==
    ASSUME Start!StartAssumption PROVE Start!Spec => []Start!TypeOK
<1>1. Start!Init => Start!TypeOK
  BY StartType
<1>2. ASSUME Start!TypeOK, [Start!Next]_Start!startVars PROVE Start!TypeOK'
  <2>1. CASE Start!Device
    BY <1>2, <2>1, BootType, SetupType, UpgradeType DEF Start!Device, Start!Step
  <2>2. CASE Start!User
    BY <1>2, <2>2, UserType
  <2>3. CASE Start!Switch(Start!SwitchOff) \/ Start!Switch(Start!PowerCycle) \/ Start!PowerCut
    BY <1>2, <2>3, PowerType
  <2>4. CASE UNCHANGED Start!startVars
    BY <1>2, <2>4 DEF Start!startVars, Start!cardVars, Start!bootVars, Start!userVars,
       Start!TypeOK
  <2> QED BY <1>2, <2>1, <2>2, <2>3, <2>4 DEF Start!Next
<1> QED BY <1>1, <1>2, PTL DEF Start!Spec

-----------------------------------------------------------------------------
(* Start-up: the upgrade                                                     *)

\* With no failed call, a system of two versions still has its archive, so the
\* next boot takes the upgrade up again; the archive goes only when it is whole.
UpgradePending ==
    faults = 0 =>
        /\ ~Start!Whole => Start!ArchiveMatches
        /\ stage = "Choose" /\ ~Start!Whole => m_upgradeRequired
        /\ stage \in {"Mount", "Running", "Discard", "CleanUp"} => Start!Whole
        /\ stage \in {"Off", "Choose", "Verify"} => handled = {}
        /\ stage = "Extract" =>
              Start!ArchiveMatches /\ \A f \in handled \cap SystemFiles : system[f] = "new"

LEMMA NoFaultBefore ==
    ASSUME Start!TypeOK, Start!StartAssumption, Start!Works \/ Start!Fails \/ UNCHANGED faults,
       faults' = 0
    PROVE  faults = 0 /\ UNCHANGED faults
  BY DEF Start!TypeOK, Start!StartAssumption, Start!Works, Start!Fails

LEMMA StepFaults ==
    ASSUME Start!Step PROVE Start!Works \/ Start!Fails
  BY DEF Start!Step, Start!Initialize, Start!ChooseMode, Start!MountImages, Start!Restart,
     Start!ResizeSecondPartition,
         Start!FormatPartition, Start!CopyMount, Start!CopyImage, Start!CopyEnds,
            Start!Remount, Start!Verify, Start!ExtractFile,
         Start!ExtractEnds, Start!Unlink, Start!UpgradeEnds

\* A step that leaves the system and the archive alone keeps them in agreement.
LEMMA SameSystem ==
    ASSUME UNCHANGED <<system, archives, crcMatches>>
    PROVE  (Start!Whole' <=> Start!Whole) /\ (Start!ArchiveMatches' <=> Start!ArchiveMatches)
  BY DEF Start!Whole, Start!ArchiveMatches

LEMMA UpgradeBoot ==
    ASSUME UpgradePending, faults = 0, UNCHANGED faults,
           Start!Initialize \/ Start!ChooseMode \/ Start!MountImages \/ Start!Restart
    PROVE  UpgradePending'
<1>1. UNCHANGED <<system, archives, crcMatches>>
  BY DEF Start!Initialize, Start!ChooseMode, Start!MountImages, Start!Restart, Start!To,
     Start!Off, Start!cardVars
<1>2. ~Start!Fails
  BY DEF Start!Fails, Start!Works
<1>3. CASE Start!Initialize
  BY <1>1, <1>2, <1>3, SameSystem DEF Start!Initialize, Start!To, Start!bootVars,
     UpgradePending, Start!ArchiveMatches
<1>4. CASE Start!ChooseMode
  BY <1>1, <1>2, <1>4, SameSystem DEF Start!ChooseMode, Start!To, Start!bootVars, UpgradePending
<1>5. CASE Start!MountImages
  BY <1>1, <1>2, <1>5, SameSystem DEF Start!MountImages, Start!To, Start!bootVars, UpgradePending
<1>6. CASE Start!Restart
  BY <1>1, <1>6, SameSystem DEF Start!Restart, Start!Off, UpgradePending
<1> QED BY <1>3, <1>4, <1>5, <1>6

LEMMA UpgradeSetup ==
    ASSUME UpgradePending, faults = 0, UNCHANGED faults,
           \/ Start!ResizeSecondPartition \/ Start!FormatPartition
           \/ Start!CopyMount \/ Start!CopyImage \/ Start!CopyEnds \/ Start!Remount
    PROVE  UpgradePending'
<1>1. UNCHANGED <<system, archives, crcMatches>>
  BY DEF Start!ResizeSecondPartition, Start!FormatPartition, Start!CopyMount, Start!CopyImage,
     Start!CopyEnds, Start!Remount,
         Start!To, Start!cardVars
<1>2. stage' \in {"Halted", "Format", "Formatting", "CopyMount", "Copy", "Remount",
   "Reboot"}
  BY DEF Start!ResizeSecondPartition, Start!FormatPartition, Start!CopyMount, Start!CopyImage,
     Start!CopyEnds, Start!Remount, Start!To
<1> QED BY <1>1, <1>2, SameSystem DEF UpgradePending

LEMMA UpgradeUpgrade ==
    ASSUME Start!TypeOK, UpgradePending, faults = 0, UNCHANGED faults,
           \/ Start!Verify \/ Start!ExtractFile \/ Start!ExtractEnds
           \/ Start!Unlink \/ Start!UpgradeEnds
    PROVE  UpgradePending'
<1>1. ~Start!Fails
  BY DEF Start!Fails, Start!Works
<1>2. CASE Start!Verify
  <2>1. UNCHANGED <<system, archives, crcMatches>>
    BY <1>2 DEF Start!Verify, Start!Verified
  <2>2. stage = "Verify" /\ handled' = {}
    BY <1>2 DEF Start!Verify, Start!Unlinking, Start!bootVars, UpgradePending
  <2>3. \/ stage' = "Extract" /\ Start!ArchiveMatches
        \/ stage' = "Discard" /\ ~Start!ArchiveMatches
    BY <1>1, <1>2 DEF Start!Verify, Start!Unlinking
  <2> QED BY <2>1, <2>2, <2>3, SameSystem DEF UpgradePending
<1>3. CASE Start!ExtractFile
  <2>1. UNCHANGED <<archives, crcMatches, stage>> /\ stage = "Extract"
    BY <1>1, <1>3 DEF Start!ExtractFile
  <2>2. \A f \in handled' \cap SystemFiles : system'[f] = "new"
    BY <1>1, <1>3 DEF Start!ExtractFile, UpgradePending, Start!TypeOK
  <2> QED BY <2>1, <2>2 DEF UpgradePending, Start!ArchiveMatches
<1>4. CASE Start!ExtractEnds
  <2>1. UNCHANGED <<system, archives, crcMatches>> /\ stage' = "CleanUp"
    BY <1>4 DEF Start!ExtractEnds, Start!Unlinking, Start!cardVars
  <2>2. \A f \in SystemFiles : system[f] = "new"
    BY <1>4 DEF Start!ExtractEnds, UpgradePending
  <2> QED BY <2>1, <2>2, SameSystem DEF UpgradePending, Start!Whole
<1>5. CASE Start!Unlink
  <2>1. Start!Whole
    BY <1>5 DEF Start!Unlink, UpgradePending
  <2> QED BY <1>5, <2>1 DEF Start!Unlink, UpgradePending, Start!Whole
<1>6. CASE Start!UpgradeEnds
  <2>1. UNCHANGED <<system, archives, crcMatches>> /\ stage' \in {"Reboot", "Halted"}
    BY <1>6 DEF Start!UpgradeEnds, Start!To, Start!cardVars
  <2> QED BY <2>1, SameSystem DEF UpgradePending
<1> QED BY <1>2, <1>3, <1>4, <1>5, <1>6

LEMMA UpgradeUser ==
    ASSUME UpgradePending, faults = 0, Start!User PROVE UpgradePending'
<1>1. UNCHANGED <<system, stage, m_upgradeRequired, handled, faults>>
  BY DEF Start!User, Start!Upload, Start!ChangeImage, Start!bootVars
<1>2. Start!ArchiveMatches => Start!ArchiveMatches'
  BY DEF Start!User, Start!Upload, Start!ChangeImage, Start!ArchiveMatches
<1>3. Start!Whole' <=> Start!Whole
  BY <1>1 DEF Start!Whole
<1>4. stage # "Extract"
  BY DEF Start!User, Start!Upload, Start!ChangeImage, Start!Reachable
<1> QED BY <1>1, <1>2, <1>3, <1>4 DEF UpgradePending

LEMMA UpgradePower ==
    ASSUME UpgradePending, faults = 0, Start!Off PROVE UpgradePending'
<1>1. UNCHANGED <<system, archives, crcMatches>>
  BY DEF Start!Off, Start!cardVars
<1> QED BY <1>1, SameSystem DEF Start!Off, UpgradePending

\* Whatever is cut, and however often, an upgrade is whole before the main loop
\* is reached again: UpgradeIsWhole, of performUpgrade and the boots around it.
THEOREM UpgradeCorrect ==
    ASSUME Start!StartAssumption PROVE Start!Spec => []Start!UpgradeIsWhole
<1>1. Start!Init => UpgradePending
  BY DEF Start!Init, UpgradePending, Start!Whole
<1>2. ASSUME Start!TypeOK, UpgradePending, [Start!Next]_Start!startVars PROVE UpgradePending'
  <2>1. SUFFICES ASSUME faults' = 0 PROVE UpgradePending'
    BY DEF UpgradePending
  <2>2. faults = 0 /\ UNCHANGED faults
    BY <1>2, <2>1, NoFaultBefore, StepFaults
    DEF Start!Next, Start!Device, Start!User, Start!Switch, Start!SwitchOff, Start!PowerCycle,
       Start!PowerCut, Start!startVars
  <2>3. CASE Start!Device
    BY <1>2, <2>2, <2>3, UpgradeBoot, UpgradeSetup, UpgradeUpgrade DEF Start!Device, Start!Step
  <2>4. CASE Start!User
    BY <1>2, <2>2, <2>4, UpgradeUser
  <2>5. CASE Start!Switch(Start!SwitchOff) \/ Start!Switch(Start!PowerCycle) \/ Start!PowerCut
    BY <1>2, <2>2, <2>5, UpgradePower DEF Start!Switch, Start!SwitchOff, Start!PowerCycle,
       Start!PowerCut
  <2>6. CASE UNCHANGED Start!startVars
    BY <1>2, <2>6, SameSystem DEF Start!startVars, Start!cardVars, Start!bootVars, UpgradePending
  <2> QED BY <1>2, <2>3, <2>4, <2>5, <2>6 DEF Start!Next
<1>3. UpgradePending => Start!UpgradeIsWhole
  BY DEF UpgradePending, Start!UpgradeIsWhole
<1> QED BY <1>1, <1>2, <1>3, StartUpTypes, PTL DEF Start!Spec

-----------------------------------------------------------------------------
(* Start-up: the images of the user                                          *)

\* With no failed call, the user's images lie on a grown volume, which setup
\* does not touch; while setup is at work there are none.
ImagesSafe ==
    faults = 0 =>
        /\ \A f \in added : volume[f] = "whole"
        /\ added = {} \/ filesystem = "full"
        /\ stage \in {"Resize", "Format"} => filesystem # "full"
        /\ stage \in {"Formatting", "CopyMount", "Copy", "Remount"} => added = {}

LEMMA ImagesBoot ==
    ASSUME ImagesSafe, faults = 0, UNCHANGED <<faults, added>>,
           Start!Initialize \/ Start!ChooseMode \/ Start!MountImages \/ Start!Restart
    PROVE  ImagesSafe'
<1>1. UNCHANGED <<volume, filesystem>>
  BY DEF Start!Initialize, Start!ChooseMode, Start!MountImages, Start!Restart, Start!To,
     Start!Off, Start!cardVars
<1>2. ~Start!Fails
  BY DEF Start!Fails, Start!Works
<1>3. /\ stage' \in {"Resize", "Format"} => filesystem # "full"
      /\ stage' \notin {"Formatting", "CopyMount", "Copy", "Remount"}
  BY <1>2 DEF Start!Initialize, Start!ChooseMode, Start!IsAdequate, Start!MountImages,
     Start!Restart, Start!To, Start!Off
<1> QED BY <1>1, <1>3 DEF ImagesSafe

LEMMA ImagesSetup ==
    ASSUME Start!TypeOK, ImagesSafe, faults = 0, UNCHANGED <<faults, added>>,
           \/ Start!ResizeSecondPartition \/ Start!FormatPartition
           \/ Start!CopyMount \/ Start!CopyImage \/ Start!CopyEnds \/ Start!Remount
    PROVE  ImagesSafe'
<1>1. ~Start!Fails
  BY DEF Start!Fails, Start!Works
<1>2. added = {}
  BY DEF ImagesSafe, Start!ResizeSecondPartition, Start!FormatPartition, Start!CopyMount,
     Start!CopyImage,
         Start!CopyEnds, Start!Remount
<1>3. stage' \in {"Resize", "Format"} => filesystem' # "full"
  BY <1>1 DEF ImagesSafe, Start!ResizeSecondPartition, Start!FormatPartition, Start!CopyMount,
     Start!CopyImage,
              Start!CopyEnds, Start!Remount, Start!To
<1> QED BY <1>2, <1>3 DEF ImagesSafe

LEMMA ImagesUpgrade ==
    ASSUME ImagesSafe, faults = 0, UNCHANGED <<faults, added>>,
           \/ Start!Verify \/ Start!ExtractFile \/ Start!ExtractEnds
           \/ Start!Unlink \/ Start!UpgradeEnds
    PROVE  ImagesSafe'
<1>1. UNCHANGED <<volume, filesystem>>
  BY DEF Start!Verify, Start!ExtractFile, Start!ExtractEnds, Start!Unlink, Start!UpgradeEnds,
     Start!To, Start!cardVars
<1>2. stage' \in {"Extract", "Discard", "CleanUp", "Reboot", "Halted"}
  BY DEF Start!Verify, Start!ExtractFile, Start!ExtractEnds, Start!Unlink, Start!UpgradeEnds,
     Start!Unlinking, Start!To
<1> QED BY <1>1, <1>2 DEF ImagesSafe

LEMMA ImagesUser ==
    ASSUME Start!TypeOK, ImagesSafe, faults = 0, Start!User PROVE ImagesSafe'
<1>1. stage \in {"Running", "Off"} /\ UNCHANGED <<stage, filesystem, faults>>
  BY DEF Start!User, Start!Upload, Start!ChangeImage, Start!Reachable
<1>2. CASE \E file \in Start!ArchiveFiles : Start!Upload(file)
  BY <1>1, <1>2 DEF Start!Upload, ImagesSafe
<1>3. CASE \E f \in Start!Images, is \in {"whole", "absent"} : Start!ChangeImage(f, is)
  BY <1>1, <1>3 DEF Start!ChangeImage, ImagesSafe, Start!TypeOK
<1> QED BY <1>2, <1>3 DEF Start!User

LEMMA ImagesPower ==
    ASSUME ImagesSafe, faults = 0, Start!Off, UNCHANGED added PROVE ImagesSafe'
  BY DEF Start!Off, Start!cardVars, ImagesSafe

\* Whatever is cut, and however often, setup formats no volume that holds an
\* image of the user: ImagesSurvive, of checkPartitionExists and performSetup.
THEOREM ImagesCorrect ==
    ASSUME Start!StartAssumption PROVE Start!Spec => []Start!ImagesSurvive
<1>1. Start!Init => ImagesSafe
  BY DEF Start!Init, ImagesSafe
<1>2. ASSUME Start!TypeOK, ImagesSafe, [Start!Next]_Start!startVars PROVE ImagesSafe'
  <2>1. SUFFICES ASSUME faults' = 0 PROVE ImagesSafe'
    BY DEF ImagesSafe
  <2>2. faults = 0 /\ UNCHANGED faults
    BY <1>2, <2>1, NoFaultBefore, StepFaults
    DEF Start!Next, Start!Device, Start!User, Start!Switch, Start!SwitchOff, Start!PowerCycle,
       Start!PowerCut, Start!startVars
  <2>3. CASE Start!Device
    BY <1>2, <2>2, <2>3, ImagesBoot, ImagesSetup, ImagesUpgrade DEF Start!Device, Start!Step,
       Start!userVars
  <2>4. CASE Start!User
    BY <1>2, <2>2, <2>4, ImagesUser
  <2>5. CASE Start!Switch(Start!SwitchOff) \/ Start!Switch(Start!PowerCycle) \/ Start!PowerCut
    BY <1>2, <2>2, <2>5, ImagesPower
    DEF Start!Switch, Start!SwitchOff, Start!PowerCycle, Start!PowerCut, Start!userVars
  <2>6. CASE UNCHANGED Start!startVars
    BY <1>2, <2>6 DEF Start!startVars, Start!cardVars, Start!userVars, ImagesSafe
  <2> QED BY <1>2, <2>3, <2>4, <2>5, <2>6 DEF Start!Next
<1>3. ImagesSafe => Start!ImagesSurvive
  BY DEF ImagesSafe, Start!ImagesSurvive
<1> QED BY <1>1, <1>2, <1>3, StartUpTypes, PTL DEF Start!Spec

-----------------------------------------------------------------------------
(* The player and the display.  Their proofs are modules of their own, which *)
(* are instances of the same parts.                                          *)

LEMMA DisplayAlone == Steps => Screen!Init /\ [][Screen!Next]_Screen!vars
<1>1. ServicesInit => Screen!Init
  BY DEF ServicesInit
<1>2. [ServicesNext]_allVars => [Screen!Next]_Screen!vars
  BY DEF ServicesNext, ImagesRun, PlayerRuns, CardRuns, LogRuns, TraceRuns, FtpRuns, StartRuns,
         DisplayRuns, allVars, displayVars, Screen!vars, Screen!powerVars, Screen!pageVars, Screen!artVars, Screen!timeouts
<1> QED BY <1>1, <1>2, PTL DEF Steps

LEMMA DisplaySame ==
    /\ Screen!DisplayAssumption => ScreenProved!DisplayAssumption
    /\ Screen!Init => ScreenProved!Init
    /\ [Screen!Next]_Screen!vars => [ScreenProved!Next]_ScreenProved!vars
    /\ ScreenProved!TypeOK => Screen!TypeOK
    /\ ScreenProved!DisplayInOrder => Screen!DisplayInOrder
  BY DEF Screen!Places, ScreenProved!Places, Screen!DisplayAssumption,
         ScreenProved!DisplayAssumption, Screen!Buttons, ScreenProved!Buttons, Screen!Pages,
         ScreenProved!Pages, Screen!NoPage, ScreenProved!NoPage, Screen!powerVars,
         ScreenProved!powerVars, Screen!pageVars, ScreenProved!pageVars, Screen!artVars,
         ScreenProved!artVars, Screen!timeouts, ScreenProved!timeouts, Screen!vars,
         ScreenProved!vars, Screen!HasLowPower, ScreenProved!HasLowPower, Screen!Init,
         ScreenProved!Init, Screen!Views, ScreenProved!Views, Screen!View, ScreenProved!View,
         Screen!Show, ScreenProved!Show, Screen!Left, ScreenProved!Left, Screen!Entered,
         ScreenProved!Entered, Screen!Refreshed, ScreenProved!Refreshed, Screen!Links,
         ScreenProved!Links, Screen!KeepsPage, ScreenProved!KeepsPage, Screen!Pressed,
         ScreenProved!Pressed, Screen!SetTimeouts, ScreenProved!SetTimeouts, Screen!Lit,
         ScreenProved!Lit, Screen!WakeFlags, ScreenProved!WakeFlags, Screen!WokenViews,
         ScreenProved!WokenViews, Screen!Serve, ScreenProved!Serve, Screen!HandleButtonPress,
         ScreenProved!HandleButtonPress, Screen!QueueButtonPress,
         ScreenProved!QueueButtonPress, Screen!ProcessPendingInput,
         ScreenProved!ProcessPendingInput, Screen!GoOn, ScreenProved!GoOn, Screen!StartRound,
         ScreenProved!StartRound, Screen!NoTimeouts, ScreenProved!NoTimeouts,
         Screen!WakeForGood, ScreenProved!WakeForGood, Screen!LowPowerDue,
         ScreenProved!LowPowerDue, Screen!SleepDue, ScreenProved!SleepDue, Screen!HasDiscArt,
         ScreenProved!HasDiscArt, Screen!EnterLowPower, ScreenProved!EnterLowPower,
         Screen!Dim, ScreenProved!Dim, Screen!EnterSleep, ScreenProved!EnterSleep,
         Screen!WarningOver, ScreenProved!WarningOver, Screen!Darken, ScreenProved!Darken,
         Screen!StayAsItIs, ScreenProved!StayAsItIs, Screen!SkipsArt, ScreenProved!SkipsArt,
         Screen!AtHome, ScreenProved!AtHome, Screen!CheckDiscArtTimer,
         ScreenProved!CheckDiscArtTimer, Screen!KeepPage, ScreenProved!KeepPage,
         Screen!LeavePage, ScreenProved!LeavePage, Screen!EnterPage, ScreenProved!EnterPage,
         Screen!Round, ScreenProved!Round, Screen!TimePasses, ScreenProved!TimePasses,
         Screen!ChangeDisc, ScreenProved!ChangeDisc, Screen!ChangeTimeouts,
         ScreenProved!ChangeTimeouts, Screen!Next, ScreenProved!Next, Screen!TypeOK,
         ScreenProved!TypeOK, Screen!DisplayInOrder, ScreenProved!DisplayInOrder

LEMMA PlayerAlone == Steps => Player!Init /\ [][Player!Next]_Player!vars
<1>1. ServicesInit => Player!Init
  BY DEF ServicesInit
<1>2. [ServicesNext]_allVars => [Player!Next]_Player!vars
  BY DEF ServicesNext, ImagesRun, PlayerRuns, CardRuns, LogRuns, TraceRuns, FtpRuns, StartRuns,
         DisplayRuns, allVars, playVars, Player!vars, Player!player, Player!buffer, Player!running, Player!mounting, Player!history
<1> QED BY <1>1, <1>2, PTL DEF Steps

LEMMA PlayerSame ==
    /\ Player!PlayerAssumption => PlayerProved!PlayerAssumption
    /\ Player!Init => PlayerProved!Init
    /\ [Player!Next]_Player!vars => [PlayerProved!Next]_PlayerProved!vars
    /\ PlayerProved!TypeOK => Player!TypeOK
    /\ PlayerProved!RunDeviceIsAlive => Player!RunDeviceIsAlive
  BY DEF Player!PlayerAssumption, PlayerProved!PlayerAssumption, Player!PlayStates,
         PlayerProved!PlayStates, Player!RunSteps, PlayerProved!RunSteps, Player!MountSteps,
         PlayerProved!MountSteps, Player!player, PlayerProved!player, Player!buffer,
         PlayerProved!buffer, Player!running, PlayerProved!running, Player!mounting,
         PlayerProved!mounting, Player!history, PlayerProved!history, Player!vars,
         PlayerProved!vars, Player!NoSound, PlayerProved!NoSound, Player!TestSound,
         PlayerProved!TestSound, Player!Least, PlayerProved!Least, Player!Init,
         PlayerProved!Init, Player!Lands, PlayerProved!Lands, Player!Interrupt,
         PlayerProved!Interrupt, Player!PlayAudio, PlayerProved!PlayAudio, Player!Seek,
         PlayerProved!Seek, Player!Pause, PlayerProved!Pause, Player!Resume,
         PlayerProved!Resume, Player!GetState, PlayerProved!GetState, Player!Command,
         PlayerProved!Command, Player!Turn, PlayerProved!Turn, Player!RunTop,
         PlayerProved!RunTop, Player!SeekAddress, PlayerProved!SeekAddress, Player!PlayOn,
         PlayerProved!PlayOn, Player!StartFill, PlayerProved!StartFill, Player!FinishPlay,
         PlayerProved!FinishPlay, Player!NotPlaying, PlayerProved!NotPlaying,
         Player!PreReadSeekFails, PlayerProved!PreReadSeekFails, Player!ReadFails,
         PlayerProved!ReadFails, Player!ReadSound, PlayerProved!ReadSound, Player!Write,
         PlayerProved!Write, Player!Feed, PlayerProved!Feed, Player!WriteFails,
         PlayerProved!WriteFails, Player!NoFeed, PlayerProved!NoFeed, Player!Account,
         PlayerProved!Account, Player!Read, PlayerProved!Read, Player!Play, PlayerProved!Play,
         Player!Run, PlayerProved!Run, Player!EnsureAudioInitialized,
         PlayerProved!EnsureAudioInitialized, Player!SetDevice, PlayerProved!SetDevice,
         Player!ClearPlayer, PlayerProved!ClearPlayer, Player!AssignDevice,
         PlayerProved!AssignDevice, Player!DeleteDevice, PlayerProved!DeleteDevice,
         Player!AdoptDevice, PlayerProved!AdoptDevice, Player!AnnounceMedium,
         PlayerProved!AnnounceMedium, Player!SoundTest, PlayerProved!SoundTest, Player!Mount,
         PlayerProved!Mount, Player!Next, PlayerProved!Next, Player!TypeOK,
         PlayerProved!TypeOK, Player!RunDeviceIsAlive, PlayerProved!RunDeviceIsAlive

LEMMA SoundSame == PlayerProved!SoundIsAsked => Player!SoundIsAsked
<1>1. [m_BufferReadPos' > m_BufferReadPos =>
          \/ m_ReadBuffer.of = PlayerProved!TestSound
          \/ /\ m_ReadBuffer.of = play.on
             /\ PlayerProved!NextUnit >= play.lba * SectorUnits
             /\ PlayerProved!NextUnit' <= (play.lba + play.blocks) * SectorUnits
             /\ PlayerProved!NextUnit <= due]_PlayerProved!vars
      => [m_BufferReadPos' > m_BufferReadPos =>
                   \/ m_ReadBuffer.of = Player!TestSound
                   \/ /\ m_ReadBuffer.of = play.on
                      /\ Player!NextUnit >= play.lba * SectorUnits
                      /\ Player!NextUnit' <= (play.lba + play.blocks) * SectorUnits
                      /\ Player!NextUnit <= due]_Player!vars
  BY DEF Player!player, PlayerProved!player, Player!buffer, PlayerProved!buffer,
         Player!running, PlayerProved!running, Player!mounting, PlayerProved!mounting,
         Player!history, PlayerProved!history, Player!vars, PlayerProved!vars,
         Player!TestSound, PlayerProved!TestSound, Player!NextUnit, PlayerProved!NextUnit
<1> QED BY <1>1, PTL DEF PlayerProved!SoundIsAsked, Player!SoundIsAsked

\* The audio task reads only devices that exist: RunDeviceIsAlive, of CCDPlayer::Run
\* and CUSBCDGadget::SetDevice, for any devices, commands and interleaving.
THEOREM DeviceAliveCorrect == ServicesSpec => []RunDeviceIsAlive
<1>1. Player!PlayerAssumption
  BY ServicesAssumption
<1>2. PlayerProved!RunDeviceIsAlive => RunDeviceIsAlive
  BY PlayerSame DEF RunDeviceIsAlive
<1>3. PlayerProved!Init /\ [][PlayerProved!Next]_PlayerProved!vars
        => []PlayerProved!RunDeviceIsAlive
  BY <1>1, PlayerSame, PlayerProved!DeviceCorrect
<1> QED BY <1>2, <1>3, SpecSteps, PlayerAlone, PlayerSame, PTL

\* The sound device is given what the host asked for: SoundIsAsked, of
\* CCDPlayer::Run and its commands, if none lands between a write and its account,
\* nor where the mount clears the player.
THEOREM SoundAskedCorrect ==
    ASSUME PlayerProved!QuietSteps PROVE ServicesSpec => SoundIsAsked
<1>1. Player!PlayerAssumption
  BY ServicesAssumption
<1>2. PlayerProved!Init /\ [][PlayerProved!Next]_PlayerProved!vars => PlayerProved!SoundIsAsked
  BY <1>1, PlayerSame, PlayerProved!SoundCorrect
<1>3. PlayerProved!SoundIsAsked => SoundIsAsked
  BY SoundSame DEF SoundIsAsked
<1> QED BY <1>2, <1>3, SpecSteps, PlayerAlone, PlayerSame, PTL

\* No system runs half upgraded, for any files and any number of power cuts:
\* UpgradeIsWhole, of the upgrade in CKernel::Initialize's order.
THEOREM UpgradeWholeCorrect == ServicesSpec => []UpgradeIsWhole
<1>1. Start!StartAssumption
  BY ServicesAssumption
<1>2. Start!UpgradeIsWhole => UpgradeIsWhole
  BY DEF UpgradeIsWhole
<1>3. Start!Spec => []Start!UpgradeIsWhole
  BY <1>1, UpgradeCorrect
<1> QED BY <1>2, <1>3, SpecSteps, StartAlone, PTL DEF Start!Spec

\* No image the user added is lost, for any files and any number of power cuts:
\* ImagesSurvive, of setup and upgrade.
THEOREM ImagesSurviveCorrect == ServicesSpec => []ImagesSurvive
<1>1. Start!StartAssumption
  BY ServicesAssumption
<1>2. Start!ImagesSurvive => ImagesSurvive
  BY DEF ImagesSurvive
<1>3. Start!Spec => []Start!ImagesSurvive
  BY <1>1, ImagesCorrect
<1> QED BY <1>2, <1>3, SpecSteps, StartAlone, PTL DEF Start!Spec

\* The flags of the display say what its panel shows, and only the page shown asks
\* for another: DisplayInOrder, if no button lands between two stores that belong
\* together.
THEOREM DisplayOrderCorrect ==
    ASSUME ScreenProved!QuietPresses PROVE ServicesSpec => []DisplayInOrder
<1>1. ScreenProved!DisplayInOrder => DisplayInOrder
  BY DisplaySame DEF DisplayInOrder
<1>2. ScreenProved!Init /\ [][ScreenProved!Next]_ScreenProved!vars
        => []ScreenProved!DisplayInOrder
  BY ScreenProved!DisplayCorrect
<1> QED BY <1>1, <1>2, SpecSteps, DisplayAlone, DisplaySame, PTL

-----------------------------------------------------------------------------
(* The files of a cue and bin image                                          *)

\* The sizes of the files on the card.
CardSizes == {card[f] : f \in Nat}

\* While the loader goes through the files, those it opened are those it adopted.
FilesInv ==
    /\ FilesAreClosedOnce
    /\ files \in Seq(CardSizes)
    /\ step \in {"Cue", "First"} => opened = {}
    /\ step \in {"Files", "Ready"} => opened = 1 .. Len(files)

\* The destructor closes the files that were adopted, each of them once.
LEMMA DestroyedOnce ==
    ASSUME files \in Seq(CardSizes), NEW times, NEW f \in DOMAIN closes, times[f] \in Nat
    PROVE  Destroyed(Adopted, times)[f] = times[f] + IF f \in 1 .. Len(files) THEN 1 ELSE 0
<1> DEFINE own == {i \in DOMAIN Adopted : Adopted[i] = f}
<1>1. DOMAIN Adopted = 1 .. Len(files) /\ \A i \in 1 .. Len(files) : Adopted[i] = i
  BY DEF Adopted
<1>2. own = IF f \in 1 .. Len(files) THEN {f} ELSE {}
  BY <1>1
<1>3. Cardinality(own) = IF f \in 1 .. Len(files) THEN 1 ELSE 0
  BY <1>2, FS_Singleton, FS_EmptySet
<1> QED BY <1>3 DEF Destroyed

LEMMA LoadKeepsFiles ==
    ASSUME FilesInv, Load \/ Delete PROVE FilesInv'
<1>1. step \in {"Cue", "First", "Files", "Ready"}
  BY DEF Load, Delete, Opening, Loading, ReadCue, FirstUnusable, FirstEmpty, Construct, NextUnusable,
         NextEmpty, Reject, AddDataFile
<1>2. \A f \in DOMAIN closes : closes[f] = 0
  BY <1>1 DEF FilesInv, FilesAreClosedOnce
<1>3. UNCHANGED card /\ CardSizes' = CardSizes
  BY DEF CardSizes, Load, Delete, Opening, Loading, ReadCue, FirstUnusable, FirstEmpty, Construct,
         NextUnusable, NextEmpty, Reject, AddDataFile
<1>4. Len(files) \in Nat /\ nextFile = Len(files) + 1 /\ nextFile \notin 1 .. Len(files)
  BY DEF FilesInv, nextFile
<1>5. CASE ReadCue \/ FirstUnusable
  BY <1>2, <1>3, <1>5 DEF ReadCue, FirstUnusable, Opening, Loading, FilesInv, FilesAreClosedOnce
<1>6. CASE FirstEmpty
  <2>1. closes' = Closed({1}, closes) /\ opened' = {1} /\ step' = "Failed" /\ files' = files
    BY <1>6 DEF FirstEmpty
  <2>2. FilesAreClosedOnce'
    BY <1>2, <2>1 DEF Closed, FilesAreClosedOnce
  <2> QED BY <1>3, <2>1, <2>2 DEF FilesInv
<1>7. CASE Construct
  <2>1. /\ closes' = closes /\ opened' = {1} /\ files' = <<card[1]>>
        /\ step' \in {"Files", "Ready"}
    BY <1>7 DEF Construct
  <2>2. card[1] \in CardSizes
    BY DEF CardSizes
  <2>3. files' \in Seq(CardSizes) /\ Len(files') = 1 /\ 1 .. 1 = {1}
    BY <2>1, <2>2
  <2> QED BY <1>2, <1>3, <2>1, <2>3 DEF FilesInv, FilesAreClosedOnce
<1>8. CASE NextUnusable \/ Delete
  <2>1. /\ step \in {"Files", "Ready"} /\ step' \in {"Failed", "Deleted"}
        /\ closes' = Destroyed(Adopted, closes) /\ UNCHANGED <<opened, files>>
    BY <1>8 DEF NextUnusable, Delete, Opening, Loading
  <2>2. opened' = 1 .. Len(files)
    BY <2>1 DEF FilesInv
  <2>3. DOMAIN closes' = DOMAIN closes
    BY <2>1 DEF Destroyed
  <2>4. \A f \in DOMAIN closes : closes'[f] = IF f \in 1 .. Len(files) THEN 1 ELSE 0
    BY <1>2, <2>1, DestroyedOnce DEF FilesInv
  <2> QED BY <1>3, <2>1, <2>2, <2>3, <2>4 DEF FilesInv, FilesAreClosedOnce
<1>9. CASE NextEmpty \/ Reject
  <2> DEFINE times == Closed({nextFile}, closes)
  <2>1. /\ step = "Files" /\ step' = "Failed" /\ opened' = opened \cup {nextFile}
        /\ closes' = Destroyed(Adopted, times) /\ UNCHANGED files
    BY <1>9 DEF NextEmpty, Reject, Opening, Loading, AfterRejection
  <2>2. opened' = 1 .. Len(files) \cup {nextFile}
    BY <2>1 DEF FilesInv
  <2>3. DOMAIN closes' = DOMAIN closes
    BY <2>1 DEF Destroyed
  <2>4. \A f \in DOMAIN closes : times[f] = IF f = nextFile THEN 1 ELSE 0
    BY <1>2 DEF Closed
  <2> HIDE DEF times
  <2>5. \A f \in DOMAIN closes :
            closes'[f] = times[f] + IF f \in 1 .. Len(files) THEN 1 ELSE 0
    BY <2>1, <2>4, DestroyedOnce DEF FilesInv
  <2>6. \A f \in DOMAIN closes :
            closes'[f] = IF f \in 1 .. Len(files) \cup {nextFile} THEN 1 ELSE 0
    BY <1>4, <2>4, <2>5
  <2> QED BY <1>3, <2>1, <2>2, <2>3, <2>6 DEF FilesInv, FilesAreClosedOnce
<1>10. CASE AddDataFile
  <2>1. /\ closes' = closes /\ opened' = opened \cup {nextFile} /\ step = "Files"
        /\ files' = Append(files, card[nextFile]) /\ step' \in {"Files", "Ready"}
    BY <1>10 DEF AddDataFile, Opening, Loading
  <2>2. card[nextFile] \in CardSizes
    BY <1>4 DEF CardSizes
  <2>3. files' \in Seq(CardSizes) /\ Len(files') = Len(files) + 1
    BY <2>1, <2>2 DEF FilesInv
  <2>4. opened' = 1 .. Len(files')
    BY <1>4, <2>1, <2>3 DEF FilesInv
  <2> QED BY <1>2, <1>3, <2>1, <2>3, <2>4 DEF FilesInv, FilesAreClosedOnce
<1> QED BY <1>5, <1>6, <1>7, <1>8, <1>9, <1>10 DEF Load

LEMMA UseKeepsFiles ==
    ASSUME FilesInv, UNCHANGED loading PROVE FilesInv'
  BY DEF loading, FilesInv, FilesAreClosedOnce, CardSizes

\* Reading an image leaves its files alone.
LEMMA UseLeavesFiles == Use => UNCHANGED loading
  BY DEF Use, Seek, Read, ReadWithinFile, ReadDone, CacheHit, ReadHole, ReadNothing, ReadThrough,
         Refill, CardFails, Turn, Serving

\* Only a cue and bin image has files, and only the loader and the destructor
\* open or close them.
LEMMA FilesAlone ==
    /\ ServicesInit => FilesInv
    /\ [ServicesNext]_allVars => Load \/ Delete \/ UNCHANGED loading
<1>1. ServicesInit => FilesInv
  BY DEF ServicesInit, ImageInit, DiscInit, InitOn, FilesInv, FilesAreClosedOnce
<1>2. ImageNext => Load \/ Delete \/ UNCHANGED loading
  BY UseLeavesFiles DEF ImageNext, CueNext, MdsNext, ChdNext, DiscNext, cueOwn
<1>3. UNCHANGED imageVars => UNCHANGED loading
  BY DEF imageVars, vars
<1>4. [ServicesNext]_allVars => ImageNext \/ UNCHANGED imageVars
  BY DEF ServicesNext, ImagesRun, PlayerRuns, CardRuns, LogRuns, TraceRuns, FtpRuns, StartRuns,
         DisplayRuns, allVars
<1> QED BY <1>1, <1>2, <1>3, <1>4

\* For any rip, any card and wherever the load fails (loadCueBinIsoFileDevice,
\* AddDataFile, the destructor of CCueBinFileDevice), each file that was opened
\* is closed once when the device is gone, and is open while it is served.
THEOREM FilesClosedCorrect == ServicesSpec => []FilesAreClosedOnce
<1>1. FilesInv /\ [ServicesNext]_allVars => FilesInv'
  BY FilesAlone, LoadKeepsFiles, UseKeepsFiles
<1>2. FilesInv => FilesAreClosedOnce
  BY DEF FilesInv
<1> QED BY <1>1, <1>2, FilesAlone, SpecSteps, PTL DEF Steps

-----------------------------------------------------------------------------
(* Images                                                                    *)

LEMMA ImagesAlone == Steps => ImageInit /\ [][ImageNext]_imageVars
<1>1. ServicesInit => ImageInit
  BY DEF ServicesInit
<1>2. [ServicesNext]_allVars => [ImageNext]_imageVars
  BY DEF ServicesNext, ImagesRun, PlayerRuns, CardRuns, LogRuns, TraceRuns, FtpRuns, StartRuns,
         DisplayRuns, allVars
<1> QED BY <1>1, <1>2, PTL DEF Steps

\* ImplementsDevice, for each of the three formats (CCueBinFileDevice,
\* CMDSFileDevice, CCHDFileDevice): for any sheet and data files, any table of
\* tracks that Alcohol writes and any compressed disc, a reader is given the bytes
\* of the image and nothing else, in order from where it sought, across the files,
\* holes, cache windows, gaps, tracks and hunks, whatever calls to the card fail.
THEOREM FormatsRefine == ServicesSpec => ImplementsDevice
<1>1. Mds!TablesAssumption /\ Chd!DiscsAssumption
  BY ImagesAssumption DEF ImagesAssumption
<1>2. ImageInit /\ [][ImageNext]_imageVars => ImplementsDevice
  BY <1>1, ImagesRefine
<1> QED BY <1>2, ImagesAlone, SpecSteps, PTL

\* SectorsAreFound: of any rip that loads, each sector of the disc is read from the
\* file, and the offset in it, at which the rip stores it, and a silent one from a hole
\* or as the start of the data behind it (CUEParser::next_track, RebuildLayout,
\* GetByteOffsetForLBA, GetTrackInfoForLBA): sectors of different sizes, pregaps, pauses,
\* gaps between sessions and trailing bytes of a file move none out of its place.
THEOREM SectorsFoundCorrect == ServicesSpec => []SectorsAreFound
<1>1. SectorsAreFound /\ TocMatchesDisc => SectorsAreFound
  OBVIOUS
<1> QED BY <1>1, ImageLoads, ImagesAlone, SpecSteps, PTL

\* TocMatchesDisc: the table of contents of any rip that loads is that of the disc
\* (DoReadTOC, DoReadFullTOC, GetLeadoutLBA, GetSessionLeadoutLBA): each track starts
\* where its data does, and each of two sessions is led out where its last frame ends.
THEOREM TocCorrect == ServicesSpec => []TocMatchesDisc
<1>1. SectorsAreFound /\ TocMatchesDisc => TocMatchesDisc
  OBVIOUS
<1> QED BY <1>1, ImageLoads, ImagesAlone, SpecSteps, PTL

-----------------------------------------------------------------------------
(* Types                                                                     *)

\* Every part keeps its types, for any values of the constants and any
\* interleaving: TypeOK.
THEOREM ServicesTypes == ServicesSpec => []TypeOK
<1> DEFINE Proved == /\ PlayerProved!TypeOK /\ Start!TypeOK /\ ScreenProved!TypeOK
                     /\ Msd!TypeOK /\ LogInv /\ TraceInv /\ FtpInv
<1>1. Proved => TypeOK
  BY PlayerSame, DisplaySame DEF TypeOK, LogInv, TraceInv, FtpInv
<1>2. /\ Player!PlayerAssumption /\ Start!StartAssumption /\ Msd!MsdAssumption
      /\ Log!LogAssumption /\ Trace!TraceAssumption /\ Ftp!FtpAssumption
  BY ServicesAssumption
<1>3. Steps => []PlayerProved!TypeOK
  <2>1. PlayerProved!Init /\ [][PlayerProved!Next]_PlayerProved!vars => []PlayerProved!TypeOK
    BY <1>2, PlayerSame, PlayerProved!PlayerTypes
  <2> QED BY <2>1, PlayerAlone, PlayerSame, PTL
<1>4. Steps => []Start!TypeOK
  <2>1. Start!Spec => []Start!TypeOK
    BY <1>2, StartUpTypes
  <2> QED BY <2>1, StartAlone, PTL DEF Start!Spec
<1>5. Steps => []ScreenProved!TypeOK
  BY DisplayAlone, DisplaySame, ScreenProved!DisplayTypes, PTL
<1>6. Steps => [](Msd!TypeOK /\ LogInv)
  BY <1>2, CardAlone, CardKeeps, LogAlone, LogKeeps, PTL
<1>7. Steps => [](TraceInv /\ FtpInv)
  BY <1>2, TraceInvariant, FtpAlone, FtpKeeps, PTL
<1> QED BY <1>1, <1>3, <1>4, <1>5, <1>6, <1>7, SpecSteps, PTL
=============================================================================
