\* SessionRegistry: two operations, two addresses.  MgrClient: two commands, two
\* managers.  Cephx: two connections and a service key of four units of validity.
CONSTANTS
    Callers = {c1, c2}
    Addresses = {1, 2}
    MaxEpoch = 2
    MaxRounds = 1
    Targets = {11, 12}
    MaxAttempts = 2
    MaxChanges = 2
    MaxCreations = 2
    Connectors = {1, 2}
    Services = {1}
    AllowCRC = FALSE
    Validity = 4
    MaxTime = 6
    MaxIssued = 2
SPECIFICATION ServicesSpec
SYMMETRY Symmetry
INVARIANTS RegistrySafe ManagerSafe TicketsSafe
PROPERTY TicketsAdvance
CHECK_DEADLOCK FALSE
