------------------------------ MODULE TraceLab ------------------------------
(***************************************************************************)
(* CTraceLab and CTraceRingBuffer: the trace of the drive's commands.        *)
(* Interrupts record events at any moment; Update records some from task     *)
(* level; the web server, another task, starts and stops captures and        *)
(* exports what was recorded, also while recording goes on.  Times, payloads *)
(* and the size of records are left out: the buffer holds Capacity records.  *)
(***************************************************************************)
EXTENDS Integers, Sequences

CONSTANTS
    Capacity,               \* records the buffer holds
    POST_TRIGGER_RECORDS,   \* records kept after the trigger
    MaxDropped              \* bound: records that find the buffer full

TraceAssumption ==
    {Capacity, POST_TRIGGER_RECORDS, MaxDropped} \subseteq Nat \ {0}

VARIABLES
    ring,                   \* m_RingBuffer: its records, and the number of those dropped
    m_bEnabled, m_bErrorTrigger, m_bTriggerFired, m_nStopAtRecordCount,
    task,                   \* where the task that traces or exports stands
    export,                 \* "none", "buffer" (ExportToBuffer), "card" (SaveToSD)
    recordCount,            \* of the header of the export
    m_nReadRemaining,       \* records the read cursor has before it
    nRecordsWritten

captureVars == <<m_bEnabled, m_bErrorTrigger, m_bTriggerFired, m_nStopAtRecordCount>>
exportVars  == <<export, recordCount, m_nReadRemaining, nRecordsWritten>>
vars == <<ring, captureVars, task, exportVars>>

Empty == [records |-> <<>>, dropped |-> 0]
Init ==
    /\ ring = Empty
    /\ m_bEnabled = FALSE /\ m_bErrorTrigger = FALSE /\ m_bTriggerFired = FALSE
    /\ m_nStopAtRecordCount = 0
    /\ task = "Idle" /\ export = "none"
    /\ recordCount = 0 /\ m_nReadRemaining = 0 /\ nRecordsWritten = 0

\* WriteRecord: a full buffer keeps what it has.
Recorded(r, type) ==
    IF Len(r.records) < Capacity
    THEN [r EXCEPT !.records = Append(@, type)]
    ELSE [r EXCEPT !.dropped = @ + 1]
Count == Len(ring.records)

-----------------------------------------------------------------------------
\* Interrupts.
TraceEvent ==
    /\ m_bEnabled
    /\ ring' = Recorded(ring, "EVENT")
    /\ UNCHANGED <<captureVars, task, exportVars>>

\* TraceCommandComplete, with FireErrorTrigger and CheckAutoStop; Update's call of
\* it, for a read that failed, is taken as one step as well.
TraceCommandComplete(failed) ==
    LET done   == Recorded(ring, "EVENT")
        fires  == failed /\ m_bErrorTrigger /\ ~m_bTriggerFired
        marked == IF fires THEN Recorded(done, "TRIGGER") ELSE done
        stopAt == IF fires THEN Len(marked.records) + POST_TRIGGER_RECORDS
                  ELSE m_nStopAtRecordCount
        stops  == stopAt # 0 /\ Len(marked.records) >= stopAt
    IN  /\ m_bEnabled
        /\ ring' = IF stops THEN Recorded(marked, "STOP") ELSE marked
        /\ m_bEnabled' = ~stops
        /\ m_bTriggerFired' = (m_bTriggerFired \/ fires)
        /\ m_nStopAtRecordCount' = IF stops THEN 0 ELSE stopAt
        /\ UNCHANGED <<m_bErrorTrigger, task, exportVars>>

-----------------------------------------------------------------------------
\* Tasks.  Update's records, and StopCapture, test m_bEnabled before they record:
\* an interrupt may stop the capture in between.
CheckEnabled(next) ==
    /\ task = "Idle" /\ m_bEnabled
    /\ task' = next
    /\ UNCHANGED <<ring, captureVars, exportVars>>
TraceImageRead == CheckEnabled("Record")
StopCapture == CheckEnabled("Stop")

RecordInTask ==
    /\ \/ task = "Record" /\ ring' = Recorded(ring, "EVENT") /\ task' = "Idle"
       \/ task = "Stop" /\ ring' = Recorded(ring, "STOP") /\ task' = "Disable"
    /\ UNCHANGED <<captureVars, exportVars>>

Disable ==
    /\ task = "Disable"
    /\ m_bEnabled' = FALSE /\ m_nStopAtRecordCount' = 0 /\ task' = "Idle"
    /\ UNCHANGED <<ring, m_bErrorTrigger, m_bTriggerFired, exportVars>>

\* mutant of StopCount: a new capture starts with the count at which the last one was to stop.
StopCountKept == m_nStopAtRecordCount

\* StartCapture clears m_bEnabled first, so nothing is recorded during it.
StopCount == 0
StartCapture ==
    /\ task = "Idle"
    /\ ring' = Recorded(Empty, "START")
    /\ m_bEnabled' = TRUE
    /\ m_bErrorTrigger' \in BOOLEAN /\ m_bTriggerFired' = FALSE
    /\ m_nStopAtRecordCount' = StopCount
    /\ UNCHANGED <<task, exportVars>>

\* An export reads the count of records for its header, then sets the cursor,
\* then copies record by record.
BeginExport ==
    /\ task = "Idle" /\ Count > 0
    /\ export' \in {"buffer", "card"}
    /\ recordCount' = Count /\ nRecordsWritten' = 0
    /\ task' = "ResetReadCursor"
    /\ UNCHANGED <<ring, captureVars, m_nReadRemaining>>

ResetReadCursor ==
    /\ task = "ResetReadCursor"
    /\ m_nReadRemaining' = Count
    /\ task' = "Copy"
    /\ UNCHANGED <<ring, captureVars, export, recordCount, nRecordsWritten>>

\* mutant of CopiesOn: the copy ends where the cursor does.
CopiesWhatIsThere == m_nReadRemaining > 0

\* ExportToBuffer stops at the count of its header, SaveToSD does not.
CopiesOn == m_nReadRemaining > 0 /\ (export = "card" \/ nRecordsWritten < recordCount)

ReadNextRecord ==
    /\ task = "Copy" /\ CopiesOn
    /\ m_nReadRemaining' = m_nReadRemaining - 1
    /\ nRecordsWritten' = nRecordsWritten + 1
    /\ UNCHANGED <<ring, captureVars, task, export, recordCount>>

\* SaveToSD also ends at a write that fails, and reports success.
EndExport ==
    \/ /\ task = "Copy" /\ (~CopiesOn \/ export = "card")
       /\ task' = "Exported"
       /\ UNCHANGED <<ring, captureVars, exportVars>>
    \/ /\ task = "Exported"
       /\ task' = "Idle" /\ export' = "none"
       /\ recordCount' = 0 /\ m_nReadRemaining' = 0 /\ nRecordsWritten' = 0
       /\ UNCHANGED <<ring, captureVars>>

Interrupt == TraceEvent \/ \E failed \in BOOLEAN : TraceCommandComplete(failed)
Task ==
    \/ TraceImageRead \/ StopCapture \/ RecordInTask \/ Disable \/ StartCapture
    \/ BeginExport \/ ResetReadCursor \/ ReadNextRecord \/ EndExport

Next == (Interrupt \/ Task) /\ ring'.dropped <= MaxDropped
Spec == Init /\ [][Next]_vars

-----------------------------------------------------------------------------
TypeOK ==
    /\ ring.records \in Seq({"START", "STOP", "TRIGGER", "EVENT"}) /\ Count <= Capacity
    /\ ring.dropped \in 0 .. MaxDropped
    /\ {m_bEnabled, m_bErrorTrigger, m_bTriggerFired} \subseteq BOOLEAN
    /\ task \in {"Idle", "Record", "Stop", "Disable", "ResetReadCursor", "Copy", "Exported"}
    /\ export \in {"none", "buffer", "card"}
    /\ {m_nStopAtRecordCount, recordCount, m_nReadRemaining, nRecordsWritten} \subseteq Nat

\* A download holds as many records as its header says, "even if capture continues
\* during the export" (tracelab.cpp:381-382).
ExportIsConsistent ==
    task = "Exported" /\ export = "buffer" => nRecordsWritten = recordCount

\* A capture that ends by itself was triggered, and holds the records promised
\* after the trigger, whatever was started, stopped and triggered before.
AutoStopFollowsTrigger ==
    [][m_bEnabled /\ ~m_bEnabled' /\ UNCHANGED task =>
        \E i \in 1 .. Count :
            ring.records[i] = "TRIGGER" /\ Len(ring'.records) - i >= POST_TRIGGER_RECORDS]_vars
=============================================================================
