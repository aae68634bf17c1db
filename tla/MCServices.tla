----------------------------- MODULE MCServices ----------------------------
(***************************************************************************)
(* The sessions the client opens to its daemons, on small instances: the    *)
(* table of OSD sessions (SessionRegistry), the manager session and its     *)
(* commands (MgrClient), and the tickets they connect with (Cephx).  A      *)
(* behaviour is one of one of them, `part`; the variables of the others    *)
(* are unused.                                                              *)
(***************************************************************************)
EXTENDS Naturals, TLC

CONSTANTS Callers, Addresses, MaxEpoch, MaxRounds,
          Targets, MaxAttempts, MaxChanges, MaxCreations,
          Connectors, Services, AllowCRC, Validity, MaxTime, MaxIssued

VARIABLES
    part,
    osdMap, generation, next, closed, sessions, creations, creation, caller, watcher, closer,
    target, changes, entry, mgrCreations, started, command, executed, alive, opened, mgrCloser,
    now, issued, state, gate, conn, service

registryVars == <<osdMap, generation, next, closed, sessions, creations, creation, caller, watcher, closer>>
mgrVars == <<target, changes, entry, mgrCreations, started, command, executed, alive, opened, mgrCloser>>
cephxVars == <<now, issued, state, gate, conn, service>>
servicesVars == <<part, registryVars, mgrVars, cephxVars>>

R == INSTANCE SessionRegistry
M == INSTANCE MgrClient WITH Commands <- Callers, creations <- mgrCreations, closer <- mgrCloser
X == INSTANCE Cephx WITH Callers <- Connectors

\* The variables of the parts that do not run.
Unused == "unused"
NoRegistry ==
    /\ osdMap = Unused /\ generation = Unused /\ next = Unused /\ closed = Unused
    /\ sessions = Unused /\ creations = Unused /\ creation = Unused /\ caller = Unused
    /\ watcher = Unused /\ closer = Unused
NoManager ==
    /\ target = Unused /\ changes = Unused /\ entry = Unused /\ mgrCreations = Unused
    /\ started = Unused /\ command = Unused /\ executed = Unused /\ alive = Unused
    /\ opened = Unused /\ mgrCloser = Unused
NoCephx ==
    /\ now = Unused /\ issued = Unused /\ state = Unused /\ gate = Unused /\ conn = Unused
    /\ service = Unused

ServicesInit ==
    \/ part = "registry" /\ R!Init /\ NoManager /\ NoCephx
    \/ part = "manager" /\ M!Init /\ NoRegistry /\ NoCephx
    \/ part = "cephx" /\ X!Init /\ NoRegistry /\ NoManager
ServicesNext ==
    /\ UNCHANGED part
    /\ \/ part = "registry" /\ R!Next /\ UNCHANGED <<mgrVars, cephxVars>>
       \/ part = "manager" /\ M!Next /\ UNCHANGED <<registryVars, cephxVars>>
       \/ part = "cephx" /\ X!Next /\ UNCHANGED <<registryVars, mgrVars>>
ServicesSpec == ServicesInit /\ [][ServicesNext]_servicesVars

\* Operations are alike, and so are commands.
Symmetry == Permutations(Callers)

\* A session to an OSD is created once, handed out only while fresh, and never forgotten.
RegistrySafe == part = "registry" => R!NoSessionLeaks /\ R!SingleFlight /\ R!HandedOutIsFresh

\* The manager session is created once, never forgotten, and used by commands that found
\* its manager active (getSession, createSession, invalidate).
ManagerSafe ==
    part = "manager" =>
        M!MgrTypeOK /\ M!NoManagerSessionLeaks /\ M!OneCreation /\ M!SubmitsToFound

\* Who connected is whom the ticket names, an honest peer is accepted, and a ticket and
\* its key are stored together.
TicketsSafe == part = "cephx" => X!ConnectedIsAuthentic /\ X!HonestIsAccepted /\ X!StoredTogether

\* The tickets stored are the newest issued, also when two handshakes overlap
\* (Connector.Connect: connectGate).
TicketsAdvance == [][part = "cephx" => X!AdvanceStep]_servicesVars
=============================================================================
