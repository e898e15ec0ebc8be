------------------------------ MODULE FtpServer ------------------------------
(***************************************************************************)
(* CFTPDaemon and its CFTPWorker tasks: sessions come and go, and each       *)
(* transfer opens a data connection, to the client (PORT) or from it (PASV). *)
(* Tasks switch only where one yields: between commands and in a transfer.   *)
(* Left out: directories, names and listings, and the data itself; the       *)
(* files that appear and vanish are the card changes of MountService.        *)
(***************************************************************************)
EXTENDS Integers, FiniteSets

CONSTANTS
    Clients,            \* more than the server takes at once
    MaxSessions,        \* 4
    PassivePortBase     \* 9000

FtpAssumption == MaxSessions \in Nat \ {0} /\ PassivePortBase \in Nat

VARIABLES
    m_nSlot,            \* of each client: its session's slot, NoSlot without a session
    loggedIn,           \* what CheckLoggedIn answers
    m_TransferMode, m_pDataSocket, m_nDataSocketPort,
    transfer            \* the command whose data connection is open or awaited

dataVars == <<m_TransferMode, m_pDataSocket, m_nDataSocketPort>>
ftpVars == <<m_nSlot, loggedIn, dataVars, transfer>>

NoSlot == -1
ClientPort == 0         \* a port the client named, or none
Transfers == {"RETR", "STOR", "LIST"}
PassivePort(slot) == PassivePortBase + slot
Live == {c \in Clients : m_nSlot[c] # NoSlot}
SlotsInUse == {m_nSlot[c] : c \in Live}

Init ==
    /\ m_nSlot = [c \in Clients |-> NoSlot]
    /\ loggedIn = [c \in Clients |-> FALSE]
    /\ m_TransferMode = [c \in Clients |-> "Active"]
    /\ m_pDataSocket = [c \in Clients |-> "none"]
    /\ m_nDataSocketPort = [c \in Clients |-> ClientPort]
    /\ transfer = [c \in Clients |-> "none"]

-----------------------------------------------------------------------------
\* mutant of IsFull: the limit is tested as if this session were not yet counted.
IsFullLate == Cardinality(Live) > MaxSessions

\* CFTPDaemon::Run turns a client away.
IsFull == Cardinality(Live) >= MaxSessions

\* The lowest slot that is free, the first when none is.
FreeSlot ==
    LET free == (0 .. MaxSessions - 1) \ SlotsInUse
    IN  IF free = {} THEN 0 ELSE CHOOSE s \in free : \A t \in free : s <= t

Accept(c) ==
    /\ c \notin Live /\ ~IsFull
    /\ m_nSlot' = [m_nSlot EXCEPT ![c] = FreeSlot]
    /\ UNCHANGED <<loggedIn, dataVars, transfer>>

\* QUIT, a closed connection or a timeout: the worker and all it holds is deleted.
End(c) ==
    /\ c \in Live /\ transfer[c] = "none"
    /\ m_nSlot' = [m_nSlot EXCEPT ![c] = NoSlot]
    /\ loggedIn' = [loggedIn EXCEPT ![c] = FALSE]
    /\ m_TransferMode' = [m_TransferMode EXCEPT ![c] = "Active"]
    /\ m_pDataSocket' = [m_pDataSocket EXCEPT ![c] = "none"]
    /\ m_nDataSocketPort' = [m_nDataSocketPort EXCEPT ![c] = ClientPort]
    /\ UNCHANGED transfer

\* USER and PASS set what every later command is checked against.
LogIn(c) ==
    /\ c \in Live /\ transfer[c] = "none"
    /\ \E known \in BOOLEAN : loggedIn' = [loggedIn EXCEPT ![c] = known]
    /\ UNCHANGED <<m_nSlot, dataVars, transfer>>

May(c) == c \in Live /\ loggedIn[c] /\ transfer[c] = "none"

\* An address that cannot be parsed leaves the port, but not the mode and the socket.
Port(c) ==
    /\ May(c)
    /\ m_pDataSocket' = [m_pDataSocket EXCEPT ![c] = "none"]
    /\ m_TransferMode' = [m_TransferMode EXCEPT ![c] = "Active"]
    /\ \/ m_nDataSocketPort' = [m_nDataSocketPort EXCEPT ![c] = ClientPort]
       \/ UNCHANGED m_nDataSocketPort
    /\ UNCHANGED <<m_nSlot, loggedIn, transfer>>

\* A socket already listening is used again; binding or listening may fail.
Passive(c) ==
    /\ May(c) /\ m_pDataSocket[c] = "none"
    /\ m_TransferMode' = [m_TransferMode EXCEPT ![c] = "Passive"]
    /\ m_nDataSocketPort' = [m_nDataSocketPort EXCEPT ![c] = PassivePort(m_nSlot[c])]
    /\ \E opened \in {"none", "listening"} :
            m_pDataSocket' = [m_pDataSocket EXCEPT ![c] = opened]
    /\ UNCHANGED <<m_nSlot, loggedIn, transfer>>

\* OpenDataConnection, once the file is open and 150 is sent.
BeginTransfer(c) ==
    /\ May(c)
    /\ m_TransferMode[c] = "Active" \/ m_pDataSocket[c] = "listening"
    /\ \E command \in Transfers : transfer' = [transfer EXCEPT ![c] = command]
    /\ UNCHANGED <<m_nSlot, loggedIn, dataVars>>

\* A download or a listing that breaks off leaves the listening socket open.
ClosesListener(c, done) ==
    m_TransferMode[c] = "Passive" /\ (done \/ transfer[c] = "STOR")

EndTransfer(c) ==
    /\ transfer[c] # "none"
    /\ \E done \in BOOLEAN :
        m_pDataSocket' = IF ClosesListener(c, done)
                         THEN [m_pDataSocket EXCEPT ![c] = "none"] ELSE m_pDataSocket
    /\ transfer' = [transfer EXCEPT ![c] = "none"]
    /\ UNCHANGED <<m_nSlot, loggedIn, m_TransferMode, m_nDataSocketPort>>

Next == \E c \in Clients :
    \/ Accept(c) \/ End(c) \/ LogIn(c) \/ Port(c) \/ Passive(c)
    \/ BeginTransfer(c) \/ EndTransfer(c)

Spec == Init /\ [][Next]_ftpVars

-----------------------------------------------------------------------------
TypeOK ==
    /\ m_nSlot \in [Clients -> -1 .. MaxSessions - 1]
    /\ loggedIn \in [Clients -> BOOLEAN]
    /\ m_TransferMode \in [Clients -> {"Active", "Passive"}]
    /\ m_pDataSocket \in [Clients -> {"none", "listening"}]
    /\ m_nDataSocketPort \in [Clients -> {ClientPort} \cup {PassivePort(s) : s \in 0 .. MaxSessions - 1}]
    /\ transfer \in [Clients -> {"none"} \cup Transfers]

\* A session that listens is in passive mode, on the port its reply to PASV names,
\* and no other session answers there: slots are never shared between live
\* sessions (ftpworker.h:91-93), whatever sockets, modes and ports transfers that
\* broke off, and sessions that ended, have left.
PassivePortIsOwn ==
    \A c \in Live : m_pDataSocket[c] = "listening" =>
        /\ m_TransferMode[c] = "Passive"
        /\ m_nDataSocketPort[c] = PassivePort(m_nSlot[c])
        /\ \A d \in Live \ {c} : m_nSlot[d] # m_nSlot[c]
=============================================================================
