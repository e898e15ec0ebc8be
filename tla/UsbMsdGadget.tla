---------------------------- MODULE UsbMsdGadget ----------------------------
(***************************************************************************)
(* CUSBMMSDGadget: the mode in which the SD card itself is handed to the     *)
(* host.  Interrupts (OnTransferComplete, HandleSCSICommand, OnActivate,     *)
(* OnSuspend) prepare a transfer and leave it to Update, called by           *)
(* SDCARDService::Run, to move the blocks.  Positions are counted in blocks. *)
(* The block device is Circle's: Seek sets its position, Read and Write move *)
(* it on by what they transfer, as Update counts on.  A command is handled,  *)
(* and a call of Update runs, without another interrupt in between.          *)
(***************************************************************************)
EXTENDS Integers

CONSTANTS
    CardBlocks,     \* blocks of the card
    ByteSpace,      \* blocks whose byte address fits in 32 bits (2^32 / 512)
    MaxChunk,       \* blocks of a transfer (16)
    Counts          \* numbers of blocks a host asks for

MsdAssumption ==
    /\ {CardBlocks, ByteSpace, MaxChunk} \subseteq Nat \ {0}
    /\ Counts \subseteq Nat \ {0}

VARIABLES
    m_nState, m_CBW, m_nblock_address, m_nnumber_blocks, m_nnumber_blocks_chunk,
    m_currentDevicePointer, m_MMSDReady, bmCSWStatus,
    queued,         \* the transfers begun and not complete
    position,       \* of the block device
    written,        \* by the last write: the block it was for, and the block it began at
    moved           \* blocks of the command the device has taken or given

transferVars == <<m_nblock_address, m_nnumber_blocks, m_nnumber_blocks_chunk, moved>>
cardVars     == <<m_currentDevicePointer, position, written>>
vars == <<m_nState, m_CBW, m_MMSDReady, bmCSWStatus, queued, transferVars, cardVars>>

Blocks  == 0 .. CardBlocks - 1
NoCBW   == [op |-> "none", block |-> 0, count |-> 0]
Simple  == [op : {"TestUnitReady", "RequestSense", "Reply", "Start", "Stop", "Refused"},
            block : {0}, count : {0}]
CBWs    == Simple \cup [op : {"Read", "Write"}, block : Blocks, count : Counts]

Init ==
    /\ m_nState = "Init" /\ m_CBW = NoCBW /\ queued = {}
    /\ m_MMSDReady = TRUE /\ bmCSWStatus = "OK"
    /\ m_nblock_address = 0 /\ m_nnumber_blocks = 0 /\ m_nnumber_blocks_chunk = 0 /\ moved = 0
    /\ m_currentDevicePointer = 0 /\ position = 0
    /\ written = [asked |-> 0, at |-> 0]

-----------------------------------------------------------------------------
\* The buses of this gadget carry one transfer at a time.
Queue(transfer, nState) == queued' = {transfer} /\ m_nState' = nState
SendCSW == Queue("status", "SentCSW")
Answer(status) == bmCSWStatus' = status /\ SendCSW
Fail == Answer("FAIL")
Chunk(count) == IF count > MaxChunk THEN MaxChunk ELSE count

\* OnSuspend deletes the endpoints; what the device was doing is forgotten.
OnSuspend ==
    /\ m_nState # "Init"
    /\ m_nState' = "Init" /\ queued' = {}
    /\ UNCHANGED <<m_CBW, m_MMSDReady, bmCSWStatus, transferVars, cardVars>>

OnActivate ==
    /\ m_nState = "Init"
    /\ m_MMSDReady' = TRUE
    /\ Queue("cbw", "ReceiveCBW")
    /\ UNCHANGED <<m_CBW, bmCSWStatus, transferVars, cardVars>>

\* A CBW of the wrong length or signature, or for another LUN, leaves nothing queued.
RefuseCBW ==
    /\ "cbw" \in queued
    /\ queued' = {}
    /\ UNCHANGED <<m_nState, m_CBW, m_MMSDReady, bmCSWStatus, transferVars, cardVars>>

Receive(cbw) ==
    /\ m_nState = "ReceiveCBW" /\ "cbw" \in queued
    /\ m_CBW' = cbw
    /\ UNCHANGED cardVars

\* HandleSCSICommand, by what the commands do.
HandleWithoutData(cbw) ==
    /\ cbw.op \in {"TestUnitReady", "Start", "Stop", "Refused"}
    /\ m_MMSDReady' = CASE cbw.op = "Start" -> TRUE [] cbw.op = "Stop" -> FALSE [] OTHER -> m_MMSDReady
    /\ Answer(IF cbw.op = "Refused" \/ (cbw.op = "TestUnitReady" /\ ~m_MMSDReady) THEN "FAIL" ELSE "OK")
    /\ UNCHANGED transferVars

HandleReply(cbw) ==
    /\ \/ cbw.op = "RequestSense" /\ Queue("data in", "SendReqSenseReply") /\ UNCHANGED transferVars
       \/ /\ cbw.op = "Reply" /\ Queue("data in", "DataIn")
          /\ m_nnumber_blocks' = 0
          /\ UNCHANGED <<m_nblock_address, m_nnumber_blocks_chunk, moved>>
    /\ bmCSWStatus' = "OK"
    /\ UNCHANGED m_MMSDReady

HandleReadWrite(cbw) ==
    /\ cbw.op \in {"Read", "Write"}
    /\ IF m_MMSDReady
       THEN /\ m_nblock_address' = cbw.block /\ m_nnumber_blocks' = cbw.count /\ moved' = 0
            /\ bmCSWStatus' = "OK"
            /\ \/ /\ cbw.op = "Read"
                  /\ m_nState' = "DataInRead" /\ queued' = {}
                  /\ UNCHANGED m_nnumber_blocks_chunk
               \/ /\ cbw.op = "Write"
                  /\ Queue("data out", "DataOut")
                  /\ m_nnumber_blocks_chunk' = Chunk(cbw.count)
       ELSE Fail /\ UNCHANGED transferVars
    /\ UNCHANGED m_MMSDReady

HandleSCSICommand ==
    \E cbw \in CBWs :
        /\ Receive(cbw)
        /\ HandleWithoutData(cbw) \/ HandleReply(cbw) \/ HandleReadWrite(cbw)

\* OnTransferComplete, for what is not a command.  Only a command clears
\* m_MMSDReady, so it still holds when a batch of its own completes.
StatusSent ==
    /\ m_nState = "SentCSW" /\ "status" \in queued
    /\ Queue("cbw", "ReceiveCBW")
    /\ UNCHANGED <<m_CBW, m_MMSDReady, bmCSWStatus, transferVars, cardVars>>

DataInComplete ==
    /\ m_nState \in {"DataIn", "SendReqSenseReply"} /\ "data in" \in queued
    /\ IF m_nState = "DataIn" /\ m_nnumber_blocks > 0
       THEN m_nState' = "DataInRead" /\ queued' = {}
       ELSE SendCSW
    /\ UNCHANGED <<m_CBW, m_MMSDReady, bmCSWStatus, transferVars, cardVars>>

DataOutComplete ==
    /\ m_nState = "DataOut" /\ "data out" \in queued
    /\ m_nState' = "DataOutWrite" /\ queued' = {}
    /\ UNCHANGED <<m_CBW, m_MMSDReady, bmCSWStatus, transferVars, cardVars>>

-----------------------------------------------------------------------------
\* 32-bit products: BLOCK_SIZE * m_nblock_address, and m_currentDevicePointer.
Wrapped(block) == block % ByteSpace
Beyond(from, count) == from + count > CardBlocks

\* Update, a batch of a read: the seek is made every time, and not recorded.
UpdateRead ==
    LET from  == Wrapped(m_nblock_address)
        batch == Chunk(m_nnumber_blocks)
    IN  /\ m_nState = "DataInRead"
        /\ \/ /\ ~Beyond(from, batch)
              /\ position' = from + batch
              /\ m_nblock_address' = m_nblock_address + batch
              /\ m_nnumber_blocks' = m_nnumber_blocks - batch
              /\ moved' = moved + batch
              /\ Queue("data in", "DataIn")
              /\ UNCHANGED bmCSWStatus
           \/ /\ Fail
              /\ position' = from
              /\ UNCHANGED <<m_nblock_address, m_nnumber_blocks, moved>>
        /\ UNCHANGED <<m_CBW, m_MMSDReady, m_nnumber_blocks_chunk, m_currentDevicePointer, written>>

\* Where the write begins: a seek to where the last write is thought to have ended is spared.
SeekTo(target) == IF m_currentDevicePointer = target THEN position ELSE target

\* mutant of Accepted: a write is judged by its result alone, not by its length.
AcceptedInPart(taken) == taken > 0

\* The device takes any number of the blocks offered, fewer when it fails.
Accepted(taken) == taken = m_nnumber_blocks_chunk

UpdateWrite ==
    LET target == Wrapped(m_nblock_address)
        from   == SeekTo(target)
    IN  /\ m_nState = "DataOutWrite"
        /\ \E taken \in 0 .. m_nnumber_blocks_chunk :
            /\ ~Beyond(from, taken)
            /\ position' = from + taken
            /\ written' = IF taken = 0 THEN written
                          ELSE [asked |-> m_nblock_address, at |-> from]
            /\ moved' = moved + taken
            /\ IF Accepted(taken)
               THEN /\ m_nblock_address' = m_nblock_address + m_nnumber_blocks_chunk
                    /\ m_nnumber_blocks' = m_nnumber_blocks - m_nnumber_blocks_chunk
                    /\ m_currentDevicePointer' = Wrapped(target + taken)
                    /\ IF m_nnumber_blocks' = 0
                       THEN SendCSW /\ UNCHANGED m_nnumber_blocks_chunk
                       ELSE /\ Queue("data out", "DataOut")
                            /\ m_nnumber_blocks_chunk' = Chunk(m_nnumber_blocks')
                    /\ UNCHANGED bmCSWStatus
               ELSE /\ Fail
                    /\ m_currentDevicePointer' = target
                    /\ UNCHANGED <<m_nblock_address, m_nnumber_blocks, m_nnumber_blocks_chunk>>
        /\ UNCHANGED <<m_CBW, m_MMSDReady>>

Next ==
    \/ OnSuspend \/ OnActivate \/ RefuseCBW \/ HandleSCSICommand
    \/ StatusSent \/ DataInComplete \/ DataOutComplete
    \/ UpdateRead \/ UpdateWrite

Spec == Init /\ [][Next]_vars

-----------------------------------------------------------------------------
TypeOK ==
    /\ m_nState \in {"Init", "ReceiveCBW", "DataIn", "DataOut", "SentCSW",
                     "SendReqSenseReply", "DataInRead", "DataOutWrite"}
    /\ m_CBW \in CBWs \cup {NoCBW}
    /\ m_MMSDReady \in BOOLEAN /\ bmCSWStatus \in {"OK", "FAIL"}
    /\ queued \subseteq {"cbw", "data in", "data out", "status"}
    /\ {m_nblock_address, m_nnumber_blocks, m_nnumber_blocks_chunk, moved,
        m_currentDevicePointer, position} \subseteq Nat
    /\ written \in [asked : Nat, at : Blocks]

\* A read or a write is answered OK only when the device moved every block of it.
GoodMeansMoved ==
    m_nState = "SentCSW" /\ bmCSWStatus = "OK" /\ m_CBW.op \in {"Read", "Write"}
        => moved = m_CBW.count

\* What the host writes to a block goes to that block of the card, whatever was
\* read or written before ("Seek to the correct block address",
\* usbmsdgadget.cpp:634).
BlocksLandWhereAsked == written.at = written.asked
=============================================================================
