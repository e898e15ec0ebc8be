------------------------------- MODULE FileLog -------------------------------
(***************************************************************************)
(* CFileLogDaemon: the task that drains Circle's log queue into a file.      *)
(* Loggers of every level add events and set the daemon's event by the       *)
(* notification handler; the daemon clears it, drains the queue and waits.   *)
(* Events above the configured level are read and dropped.                   *)
(***************************************************************************)
EXTENDS Integers

CONSTANTS
    MaxEvents,                      \* bound: events logged in a run
    MaxConsecutiveWriteFailures     \* 8

LogAssumption == {MaxEvents, MaxConsecutiveWriteFailures} \subseteq Nat \ {0}

VARIABLES
    logged,                         \* events ever logged
    queue,                          \* events in Circle's queue
    m_Event,                        \* the daemon's event is set
    daemon,                         \* where Run stands
    m_bFileInitialized, m_nConsecutiveWriteFailures, m_bWritesGaveUp,
    fileCloses                          \* times the file was closed

fileVars == <<m_bFileInitialized, m_nConsecutiveWriteFailures, m_bWritesGaveUp, fileCloses>>
vars == <<logged, queue, m_Event, daemon, fileVars>>

\* Initialize: the file opens and takes its header, or there is no logging.
Init ==
    /\ logged = 0 /\ queue = 0 /\ m_Event = FALSE /\ daemon = "Start"
    /\ \/ m_bFileInitialized = TRUE /\ fileCloses = 0
       \/ m_bFileInitialized = FALSE /\ fileCloses \in {0, 1}  \* never opened, or no header
    /\ m_nConsecutiveWriteFailures = 0 /\ m_bWritesGaveUp = FALSE

-----------------------------------------------------------------------------
\* Circle calls the handler for each event once it is registered.
Log ==
    /\ logged < MaxEvents
    /\ logged' = logged + 1 /\ queue' = queue + 1
    /\ m_Event' = IF daemon = "Start" THEN m_Event ELSE TRUE
    /\ UNCHANGED <<daemon, fileVars>>

Register ==
    /\ daemon = "Start"
    /\ daemon' = "Clear"
    /\ UNCHANGED <<logged, queue, m_Event, fileVars>>

\* mutant of Round: the event is cleared once the queue is empty.
RoundClearingLate == [Clear |-> "Wait", Wait |-> "Drain", Drain |-> "Clear"]

\* What Run does next: Clear, DrainOnce, Wait.
Round == [Clear |-> "Drain", Drain |-> "Wait", Wait |-> "Clear"]

Clear ==
    /\ daemon = "Clear"
    /\ m_Event' = FALSE
    /\ daemon' = Round["Clear"]
    /\ UNCHANGED <<logged, queue, fileVars>>

Wait ==
    /\ daemon = "Wait" /\ m_Event
    /\ daemon' = Round["Wait"]
    /\ UNCHANGED <<logged, queue, m_Event, fileVars>>

\* ReadEvent finds the queue empty.
Drained ==
    /\ daemon = "Drain" /\ queue = 0
    /\ daemon' = Round["Drain"]
    /\ UNCHANGED <<logged, queue, m_Event, fileVars>>

\* An event above the level, or with no file to write to.
Skip ==
    /\ daemon = "Drain" /\ queue > 0
    /\ queue' = queue - 1
    /\ UNCHANGED <<logged, m_Event, daemon, fileVars>>

\* LogMessage and what DrainOnce makes of its result.  After a failure it sleeps,
\* and gives up for good after too many in a row.
GivesUp == m_nConsecutiveWriteFailures + 1 >= MaxConsecutiveWriteFailures

Write ==
    /\ daemon = "Drain" /\ queue > 0 /\ m_bFileInitialized
    /\ queue' = queue - 1
    /\ \/ /\ m_nConsecutiveWriteFailures' = 0
          /\ UNCHANGED <<daemon, m_bFileInitialized, m_bWritesGaveUp, fileCloses>>
       \/ /\ m_nConsecutiveWriteFailures' = m_nConsecutiveWriteFailures + 1
          /\ IF GivesUp
             THEN /\ m_bWritesGaveUp' = TRUE /\ m_bFileInitialized' = FALSE
                  /\ fileCloses' = fileCloses + 1
                  /\ UNCHANGED daemon
             ELSE /\ daemon' = "Sleep"
                  /\ UNCHANGED <<m_bFileInitialized, m_bWritesGaveUp, fileCloses>>
    /\ UNCHANGED <<logged, m_Event>>

WakeUp ==
    /\ daemon = "Sleep"
    /\ daemon' = "Drain"
    /\ UNCHANGED <<logged, queue, m_Event, fileVars>>

Daemon == Register \/ Clear \/ Wait \/ Drained \/ Skip \/ Write \/ WakeUp
Next == Log \/ Daemon
\* The scheduler gives the daemon its turn.
Fairness == WF_vars(Daemon)
Spec == Init /\ [][Next]_vars /\ Fairness

-----------------------------------------------------------------------------
TypeOK ==
    /\ logged \in 0 .. MaxEvents /\ queue \in 0 .. logged
    /\ m_Event \in BOOLEAN /\ m_bFileInitialized \in BOOLEAN /\ m_bWritesGaveUp \in BOOLEAN
    /\ daemon \in {"Start", "Clear", "Drain", "Sleep", "Wait"}
    /\ m_nConsecutiveWriteFailures \in 0 .. MaxConsecutiveWriteFailures
    /\ fileCloses \in 0 .. 1

\* However events come in around the daemon's clear, drain and wait, before it has
\* registered itself and while it sleeps after a failed write, each is taken from
\* the queue: the daemon never waits for an event it has cleared.
EventsAreDrained == queue > 0 ~> queue = 0
=============================================================================
