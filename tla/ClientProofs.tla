---------------------------- MODULE ClientProofs ----------------------------
(***************************************************************************)
(* Close of a client (module Client) leaves nothing behind, for every      *)
(* number of callers and of attempts to connect.                           *)
(***************************************************************************)
EXTENDS Client, TLAPS

-----------------------------------------------------------------------------
(***************************************************************************)
(* The inductive invariant.                                                *)
(***************************************************************************)
Stages == {"new", "gate", "check", "publish", "monitor", "build", "install", "returned"}
Endings == {"new", "cancel", "flush", "finish", "stop", "workers", "wait", "bounded", "returned"}

\* The types, without the sets of records that the provers find hard.
Types ==
    /\ DOMAIN field = {"monitor", "objects", "manager", "connected"}
    /\ field.monitor \in Nat /\ field.objects \in Nat /\ field.manager \in Nat
    /\ attempts \in Nat
    /\ DOMAIN connect = Connectors
    /\ \A c \in Connectors :
           /\ DOMAIN connect[c] = {"pc", "attempt"}
           /\ connect[c].pc \in Stages /\ connect[c].attempt \in Nat
    /\ DOMAIN operation = Operations
    /\ DOMAIN closer = Closers
    /\ \A d \in Closers : DOMAIN closer[d] = {"pc", "took"} /\ closer[d].pc \in Endings

\* One Connect is past the gate, and one caller closes, for whom the others wait.
OneAtATime ==
    /\ gate <=> \A c \in Connectors : ~Past(c)
    /\ \A c, e \in Connectors : Past(c) /\ Past(e) => c = e
    /\ \A d, e \in Closers : Closes(d) /\ Closes(e) => d = e
    /\ ~closing => \A d \in Closers : ~Closes(d)

\* Only a Connect that has built a monitor client has an attempt, and only the
\* closer between its two critical sections holds what it took.
Hands ==
    /\ \A c \in Connectors :
           connect[c].pc \in {"new", "gate", "check", "returned"} => connect[c].attempt = 0
    /\ \A d \in Closers : closer[d].pc # "stop" => closer[d].took = {}
    /\ \A d \in Closers : closer[d].pc \in {"stop", "workers"} => closed
    /\ \A d \in Closers : closer[d].pc \in {"cancel", "flush", "finish"} => ~closed

\* A closed client has no fields, and what is done is quiet.
Ended ==
    /\ closed => closing /\ field = NoFields
    /\ done => closed /\ running = {} /\ NoWorkers

\* Attempts are numbered from 1.
Numbered ==
    /\ field.monitor <= attempts
    /\ \A c \in Connectors :
           /\ connect[c].attempt <= attempts
           /\ connect[c].pc \in {"publish", "monitor", "build", "install"} => connect[c].attempt # 0
    /\ \A x \in running : \E p \in Parts, n \in 1..attempts : x = <<p, n>>

\* What the fields hold while a Connect is under way: nothing that it would overwrite.
Fields ==
    /\ ~field.connected => field.objects = 0 /\ field.manager = 0
    /\ ~field.connected /\ <<"monitor", field.monitor>> \in running =>
           \E c \in Connectors : connect[c].attempt = field.monitor
    /\ \A c \in Connectors :
           /\ connect[c].pc \in {"publish", "monitor", "build", "install"} => ~field.connected
           /\ connect[c].pc = "publish" => <<"monitor", field.monitor>> \notin running
           /\ connect[c].pc \in {"monitor", "build", "install"} /\ ~closed =>
                  field.monitor = connect[c].attempt
           /\ connect[c].pc \in {"publish", "monitor", "build"} =>
                  /\ <<"objects", connect[c].attempt>> \notin running
                  /\ <<"manager", connect[c].attempt>> \notin running

\* What runs is a field, or in somebody's hands.
Kept(x) ==
    \/ x \in Taken
    \/ \E c \in Connectors : \E p \in Parts : x = <<p, connect[c].attempt>>
    \/ \E d \in Closers : x \in closer[d].took

AllKept == \A x \in running : Kept(x)

Inv == Types /\ OneAtATime /\ Hands /\ Ended /\ Numbered /\ Fields /\ AllKept

-----------------------------------------------------------------------------
(***************************************************************************)
(* The steps.                                                              *)
(***************************************************************************)

\* No part has the number 0 or one that is not given yet.
LEMMA Positive ==
    ASSUME Types, Numbered, NEW p
    PROVE  <<p, 0>> \notin running /\ <<p, attempts + 1>> \notin running
    BY DEF Types, Numbered

\* While a Connect is past the gate, no other has anything.
LEMMA Alone ==
    ASSUME Types, OneAtATime, Hands, NEW c \in Connectors, Past(c)
    PROVE  \A e \in Connectors : e # c => connect[e].pc \in {"new", "gate", "returned"} /\ connect[e].attempt = 0
    BY DEF Types, OneAtATime, Hands, Past

\* What runs is a field, of the Connect that is past the gate, or taken by a closer.
LEMMA KeptAlone ==
    ASSUME Types, OneAtATime, Hands, Numbered, AllKept, NEW c \in Connectors, Past(c), NEW x \in running
    PROVE  \/ x \in Taken
           \/ \E p \in Parts : x = <<p, connect[c].attempt>>
           \/ \E d \in Closers : x \in closer[d].took
<1>1. \A p : <<p, 0>> \notin running
    BY Positive
<1> QED
    BY <1>1, Alone DEF AllKept, Kept

\* A Connect begins, if no close has.
LEMMA StartConnectKeeps ==
    ASSUME Inv, NEW c \in Connectors, StartConnect(c)
    PROVE  Inv'
<1>0. Types /\ OneAtATime /\ Hands /\ Ended /\ Numbered /\ Fields /\ AllKept
    BY DEF Inv
<1>1. connect' = [connect EXCEPT ![c].pc = (IF closed \/ closing THEN "returned" ELSE "gate")]
    BY DEF StartConnect
<1>2. /\ DOMAIN connect' = Connectors
      /\ connect'[c] = [connect[c] EXCEPT !.pc = (IF closed \/ closing THEN "returned" ELSE "gate")]
      /\ \A e \in Connectors : e # c => connect'[e] = connect[e]
    BY <1>0, <1>1 DEF Types
<1>3. /\ DOMAIN connect'[c] = {"pc", "attempt"}
      /\ connect'[c].pc = (IF closed \/ closing THEN "returned" ELSE "gate") /\ connect'[c].attempt = connect[c].attempt
    BY <1>0, <1>2 DEF Types
<1>4. /\ connect[c].pc = "new"
      /\ UNCHANGED <<closing, closed, done, gate, field, running, attempts, operation, closer>>
    BY DEF StartConnect
<1>5. Types'
    BY <1>0, <1>2, <1>3, <1>4 DEF Types, Stages, Endings
<1>6. OneAtATime'
    BY <1>0, <1>2, <1>3, <1>4 DEF OneAtATime, Past, Closes
<1>7. Hands'
    BY <1>0, <1>2, <1>3, <1>4 DEF Hands
<1>8. Ended'
    BY <1>0, <1>2, <1>3, <1>4 DEF Ended, NoWorkers
<1>9. Numbered'
    BY <1>0, <1>2, <1>3, <1>4 DEF Numbered, Parts
<1>10. Fields'
    BY <1>0, <1>2, <1>3, <1>4 DEF Fields
<1>11. AllKept'
    BY <1>0, <1>2, <1>3, <1>4 DEF AllKept, Kept, Taken, Parts
<1> QED
    BY <1>5, <1>6, <1>7, <1>8, <1>9, <1>10, <1>11 DEF Inv

\* It takes the token of the gate.
LEMMA EnterGateKeeps ==
    ASSUME Inv, NEW c \in Connectors, EnterGate(c)
    PROVE  Inv'
<1>0. Types /\ OneAtATime /\ Hands /\ Ended /\ Numbered /\ Fields /\ AllKept
    BY DEF Inv
<1>1. connect' = [connect EXCEPT ![c].pc = "check"]
    BY DEF EnterGate
<1>2. /\ DOMAIN connect' = Connectors
      /\ connect'[c] = [connect[c] EXCEPT !.pc = "check"]
      /\ \A e \in Connectors : e # c => connect'[e] = connect[e]
    BY <1>0, <1>1 DEF Types
<1>3. /\ DOMAIN connect'[c] = {"pc", "attempt"}
      /\ connect'[c].pc = "check" /\ connect'[c].attempt = connect[c].attempt
    BY <1>0, <1>2 DEF Types
<1>4. /\ connect[c].pc = "gate"
      /\ gate /\ gate' = FALSE
      /\ UNCHANGED <<closing, closed, done, field, running, attempts, operation, closer>>
    BY DEF EnterGate
<1>5. Types'
    BY <1>0, <1>2, <1>3, <1>4 DEF Types, Stages, Endings
<1>6. OneAtATime'
    BY <1>0, <1>2, <1>3, <1>4 DEF OneAtATime, Past, Closes
<1>7. Hands'
    BY <1>0, <1>2, <1>3, <1>4 DEF Hands
<1>8. Ended'
    BY <1>0, <1>2, <1>3, <1>4 DEF Ended, NoWorkers
<1>9. Numbered'
    BY <1>0, <1>2, <1>3, <1>4 DEF Numbered, Parts
<1>10. Fields'
    BY <1>0, <1>2, <1>3, <1>4 DEF Fields
<1>11. AllKept'
    BY <1>0, <1>2, <1>3, <1>4 DEF AllKept, Kept, Taken, Parts
<1> QED
    BY <1>5, <1>6, <1>7, <1>8, <1>9, <1>10, <1>11 DEF Inv

\* Its context ends before.
LEMMA LeaveQueueKeeps ==
    ASSUME Inv, NEW c \in Connectors, LeaveQueue(c)
    PROVE  Inv'
<1>0. Types /\ OneAtATime /\ Hands /\ Ended /\ Numbered /\ Fields /\ AllKept
    BY DEF Inv
<1>1. connect' = [connect EXCEPT ![c].pc = "returned"]
    BY DEF LeaveQueue
<1>2. /\ DOMAIN connect' = Connectors
      /\ connect'[c] = [connect[c] EXCEPT !.pc = "returned"]
      /\ \A e \in Connectors : e # c => connect'[e] = connect[e]
    BY <1>0, <1>1 DEF Types
<1>3. /\ DOMAIN connect'[c] = {"pc", "attempt"}
      /\ connect'[c].pc = "returned" /\ connect'[c].attempt = connect[c].attempt
    BY <1>0, <1>2 DEF Types
<1>4. /\ connect[c].pc = "gate"
      /\ UNCHANGED <<closing, closed, done, gate, field, running, attempts, operation, closer>>
    BY DEF LeaveQueue
<1>5. Types'
    BY <1>0, <1>2, <1>3, <1>4 DEF Types, Stages, Endings
<1>6. OneAtATime'
    BY <1>0, <1>2, <1>3, <1>4 DEF OneAtATime, Past, Closes
<1>7. Hands'
    BY <1>0, <1>2, <1>3, <1>4 DEF Hands
<1>8. Ended'
    BY <1>0, <1>2, <1>3, <1>4 DEF Ended, NoWorkers
<1>9. Numbered'
    BY <1>0, <1>2, <1>3, <1>4 DEF Numbered, Parts
<1>10. Fields'
    BY <1>0, <1>2, <1>3, <1>4 DEF Fields
<1>11. AllKept'
    BY <1>0, <1>2, <1>3, <1>4 DEF AllKept, Kept, Taken, Parts
<1> QED
    BY <1>5, <1>6, <1>7, <1>8, <1>9, <1>10, <1>11 DEF Inv

\* Its monitor client is connected.
LEMMA MonitorConnectsKeeps ==
    ASSUME Inv, NEW c \in Connectors, MonitorConnects(c)
    PROVE  Inv'
<1>0. Types /\ OneAtATime /\ Hands /\ Ended /\ Numbered /\ Fields /\ AllKept
    BY DEF Inv
<1>1. connect' = [connect EXCEPT ![c].pc = "build"]
    BY DEF MonitorConnects
<1>2. /\ DOMAIN connect' = Connectors
      /\ connect'[c] = [connect[c] EXCEPT !.pc = "build"]
      /\ \A e \in Connectors : e # c => connect'[e] = connect[e]
    BY <1>0, <1>1 DEF Types
<1>3. /\ DOMAIN connect'[c] = {"pc", "attempt"}
      /\ connect'[c].pc = "build" /\ connect'[c].attempt = connect[c].attempt
    BY <1>0, <1>2 DEF Types
<1>4. /\ connect[c].pc = "monitor"
      /\ UNCHANGED <<closing, closed, done, gate, field, running, attempts, operation, closer>>
    BY DEF MonitorConnects
<1>5. Types'
    BY <1>0, <1>2, <1>3, <1>4 DEF Types, Stages, Endings
<1>6. OneAtATime'
    BY <1>0, <1>2, <1>3, <1>4 DEF OneAtATime, Past, Closes
<1>7. Hands'
    BY <1>0, <1>2, <1>3, <1>4 DEF Hands
<1>8. Ended'
    BY <1>0, <1>2, <1>3, <1>4 DEF Ended, NoWorkers
<1>9. Numbered'
    BY <1>0, <1>2, <1>3, <1>4 DEF Numbered, Parts
<1>10. Fields'
    BY <1>0, <1>2, <1>3, <1>4 DEF Fields
<1>11. AllKept'
    BY <1>0, <1>2, <1>3, <1>4 DEF AllKept, Kept, Taken, Parts
<1> QED
    BY <1>5, <1>6, <1>7, <1>8, <1>9, <1>10, <1>11 DEF Inv

\* The objecter and the manager client are built.
LEMMA BuildObjectsKeeps ==
    ASSUME Inv, NEW c \in Connectors, BuildObjects(c)
    PROVE  Inv'
<1>0. Types /\ OneAtATime /\ Hands /\ Ended /\ Numbered /\ Fields /\ AllKept
    BY DEF Inv
<1>1. connect' = [connect EXCEPT ![c].pc = "install"]
    BY DEF BuildObjects
<1>2. /\ DOMAIN connect' = Connectors
      /\ connect'[c] = [connect[c] EXCEPT !.pc = "install"]
      /\ \A e \in Connectors : e # c => connect'[e] = connect[e]
    BY <1>0, <1>1 DEF Types
<1>3. /\ DOMAIN connect'[c] = {"pc", "attempt"}
      /\ connect'[c].pc = "install" /\ connect'[c].attempt = connect[c].attempt
    BY <1>0, <1>2 DEF Types
<1>4. /\ connect[c].pc = "build"
      /\ running' = running \cup {<<"objects", connect[c].attempt>>, <<"manager", connect[c].attempt>>}
      /\ UNCHANGED <<closing, closed, done, gate, field, attempts, operation, closer>>
    BY DEF BuildObjects
<1>5. Types'
    BY <1>0, <1>2, <1>3, <1>4 DEF Types, Stages, Endings
<1>6. OneAtATime'
    BY <1>0, <1>2, <1>3, <1>4 DEF OneAtATime, Past, Closes
<1>7. Hands'
    BY <1>0, <1>2, <1>3, <1>4 DEF Hands
<1>8. Ended'
    BY <1>0, <1>2, <1>3, <1>4 DEF Ended, NoWorkers
<1>9. Numbered'
    <2>1. connect[c].attempt \in 1..attempts
        BY <1>0, <1>4 DEF Numbered, Types
    <2>2. \A x \in running' : \E p \in Parts, n \in 1..attempts : x = <<p, n>>
        BY <1>0, <1>4, <2>1 DEF Numbered, Parts
    <2> QED
        BY <1>0, <1>2, <1>3, <1>4, <2>1, <2>2 DEF Numbered
<1>10. Fields'
    <2>1. /\ Past(c)
          /\ \A e \in Connectors : e # c => connect[e].pc \in {"new", "gate", "returned"} /\ connect[e].attempt = 0
        BY <1>0, <1>4, Alone DEF Past
    <2>2. \A n : <<"monitor", n>> \in running' => <<"monitor", n>> \in running
        BY <1>4
    <2> QED
        BY <1>0, <1>2, <1>3, <1>4, <2>1, <2>2 DEF Fields
<1>11. AllKept'
    BY <1>0, <1>2, <1>3, <1>4 DEF AllKept, Kept, Taken, Parts
<1> QED
    BY <1>5, <1>6, <1>7, <1>8, <1>9, <1>10, <1>11 DEF Inv

\* They are refused their configuration.
LEMMA BuildFailsKeeps ==
    ASSUME Inv, NEW c \in Connectors, BuildFails(c)
    PROVE  Inv'
<1>0. Types /\ OneAtATime /\ Hands /\ Ended /\ Numbered /\ Fields /\ AllKept
    BY DEF Inv
<1>1. connect' = [connect EXCEPT ![c] = [pc |-> "returned", attempt |-> 0]]
    BY DEF BuildFails, Leave
<1>2. /\ DOMAIN connect' = Connectors
      /\ connect'[c] = [pc |-> "returned", attempt |-> 0]
      /\ \A e \in Connectors : e # c => connect'[e] = connect[e]
    BY <1>0, <1>1 DEF Types
<1>3. /\ DOMAIN connect'[c] = {"pc", "attempt"}
      /\ connect'[c].pc = "returned" /\ connect'[c].attempt = 0
    BY <1>2
<1>4. /\ connect[c].pc = "build"
      /\ running' = running \ {<<"monitor", connect[c].attempt>>}
      /\ gate' = TRUE
      /\ UNCHANGED <<closing, closed, done, field, attempts, operation, closer>>
    BY DEF BuildFails, Leave
<1>5. Types'
    BY <1>0, <1>2, <1>3, <1>4 DEF Types, Stages, Endings
<1>6. OneAtATime'
    BY <1>0, <1>2, <1>3, <1>4 DEF OneAtATime, Past, Closes
<1>7. Hands'
    BY <1>0, <1>2, <1>3, <1>4 DEF Hands
<1>8. Ended'
    BY <1>0, <1>2, <1>3, <1>4 DEF Ended, NoWorkers
<1>9. Numbered'
    <2>1. /\ \A x \in running' : \E p \in Parts, n \in 1..attempts : x = <<p, n>>
          /\ 0 <= attempts
        BY <1>0, <1>4 DEF Numbered, Types
    <2> QED
        BY <1>0, <1>2, <1>3, <1>4, <2>1 DEF Numbered
<1>10. Fields'
    BY <1>0, <1>2, <1>3, <1>4 DEF Fields
<1>11. AllKept'
    <2>1. Past(c)
        BY <1>4 DEF Past
    <2>2. ASSUME NEW x \in running
          PROVE  x \in Taken \/ (\E p \in Parts : x = <<p, connect[c].attempt>>) \/ \E d \in Closers : x \in closer[d].took
        BY <1>0, <2>1, KeptAlone
    <2>3. \A x \in running' : x \in Taken \/ \E d \in Closers : x \in closer[d].took
        BY <1>0, <1>4, <2>2 DEF Fields, Parts
    <2> QED
        BY <1>4, <2>3 DEF AllKept, Kept, Taken
<1> QED
    BY <1>5, <1>6, <1>7, <1>8, <1>9, <1>10, <1>11 DEF Inv

\* The monitor client does not connect.
LEMMA ConnectFailsKeeps ==
    ASSUME Inv, NEW c \in Connectors, ConnectFails(c)
    PROVE  Inv'
<1>0. Types /\ OneAtATime /\ Hands /\ Ended /\ Numbered /\ Fields /\ AllKept
    BY DEF Inv
<1>1. connect' = [connect EXCEPT ![c] = [pc |-> "returned", attempt |-> 0]]
    BY DEF ConnectFails, Leave
<1>2. /\ DOMAIN connect' = Connectors
      /\ connect'[c] = [pc |-> "returned", attempt |-> 0]
      /\ \A e \in Connectors : e # c => connect'[e] = connect[e]
    BY <1>0, <1>1 DEF Types
<1>3. /\ DOMAIN connect'[c] = {"pc", "attempt"}
      /\ connect'[c].pc = "returned" /\ connect'[c].attempt = 0
    BY <1>2
<1>4. /\ connect[c].pc = "monitor"
      /\ running' = running \ {<<"monitor", connect[c].attempt>>}
      /\ gate' = TRUE
      /\ field' = IF field.monitor = connect[c].attempt THEN [field EXCEPT !.monitor = 0] ELSE field
      /\ UNCHANGED <<closing, closed, done, attempts, operation, closer>>
    BY DEF ConnectFails, Leave
<1>5. Types'
    <2>1. /\ DOMAIN field' = DOMAIN field /\ field'.monitor \in Nat
          /\ field'.objects = field.objects /\ field'.manager = field.manager
        BY <1>0, <1>4 DEF Types
    <2> QED
        BY <1>0, <1>2, <1>3, <1>4, <2>1 DEF Types, Stages
<1>6. OneAtATime'
    BY <1>0, <1>2, <1>3, <1>4 DEF OneAtATime, Past, Closes
<1>7. Hands'
    BY <1>0, <1>2, <1>3, <1>4 DEF Hands
<1>8. Ended'
    <2>1. connect[c].pc \notin {"new", "returned"} /\ ~done
        BY <1>0, <1>4 DEF Ended, NoWorkers
    <2>2. connect[c].attempt # 0 /\ NoFields.monitor = 0
        BY <1>0, <1>4 DEF Numbered, NoFields
    <2>3. closed => field' = NoFields
        BY <1>0, <1>4, <2>2 DEF Ended
    <2> QED
        BY <1>0, <1>4, <2>1, <2>3 DEF Ended
<1>9. Numbered'
    <2>1. /\ \A x \in running' : \E p \in Parts, n \in 1..attempts : x = <<p, n>>
          /\ 0 <= attempts
        BY <1>0, <1>4 DEF Numbered, Types
    <2>2. field'.monitor <= attempts
        BY <1>0, <1>4, <2>1 DEF Numbered, Types
    <2> QED
        BY <1>0, <1>2, <1>3, <1>4, <2>1, <2>2 DEF Numbered
<1>10. Fields'
    <2>1. /\ Past(c)
          /\ \A e \in Connectors : e # c => connect[e].pc \in {"new", "gate", "returned"} /\ connect[e].attempt = 0
        BY <1>0, <1>4, Alone DEF Past
    <2>2. /\ field'.objects = field.objects /\ field'.manager = field.manager /\ field'.connected = field.connected
          /\ field'.monitor = (IF field.monitor = connect[c].attempt THEN 0 ELSE field.monitor)
        BY <1>0, <1>4 DEF Types
    <2>3. <<"monitor", 0>> \notin running
        BY <1>0, Positive
    <2>4. ~field.connected
        BY <1>0, <1>4 DEF Fields
    <2>5. <<"monitor", field'.monitor>> \notin running'
        BY <1>0, <1>4, <2>1, <2>2, <2>3, <2>4 DEF Fields
    <2> QED
        BY <1>0, <1>2, <1>3, <1>4, <2>1, <2>2, <2>5 DEF Fields
<1>11. AllKept'
    <2>1. Past(c)
        BY <1>4 DEF Past
    <2>2. ASSUME NEW x \in running
          PROVE  x \in Taken \/ (\E p \in Parts : x = <<p, connect[c].attempt>>) \/ \E d \in Closers : x \in closer[d].took
        BY <1>0, <2>1, KeptAlone
    <2>3. \A x \in running' : x \in Taken \/ \E d \in Closers : x \in closer[d].took
        BY <1>0, <1>4, <2>2 DEF Fields, Parts
    <2>4. \A x \in running' : x \in Taken => x \in Taken'
        BY <1>0, <1>4 DEF Taken, Types
    <2> QED
        BY <1>4, <2>3, <2>4 DEF AllKept, Kept
<1> QED
    BY <1>5, <1>6, <1>7, <1>8, <1>9, <1>10, <1>11 DEF Inv

\* beginOperation admits an operation while no close has begun.
LEMMA BeginOperationKeeps ==
    ASSUME Inv, NEW o \in Operations, BeginOperation(o)
    PROVE  Inv'
<1>0. Types /\ OneAtATime /\ Hands /\ Ended /\ Numbered /\ Fields /\ AllKept
    BY DEF Inv
<1>4. /\ operation[o] = "new"
      /\ \E s \in {"running", "refused"} : operation' = [operation EXCEPT ![o] = s]
      /\ Admissible \/ operation' = [operation EXCEPT ![o] = "refused"]
      /\ UNCHANGED <<closing, closed, done, gate, field, running, attempts, connect, closer>>
    BY DEF BeginOperation
<1>5. Types'
    BY <1>0, <1>4 DEF Types, Stages, Endings
<1>6. OneAtATime'
    BY <1>0, <1>4 DEF OneAtATime, Past, Closes
<1>7. Hands'
    BY <1>0, <1>4 DEF Hands
<1>8. Ended'
    BY <1>0, <1>4 DEF Ended, NoWorkers, Admissible, Types
<1>9. Numbered'
    BY <1>0, <1>4 DEF Numbered, Parts
<1>10. Fields'
    BY <1>0, <1>4 DEF Fields
<1>11. AllKept'
    BY <1>0, <1>4 DEF AllKept, Kept, Taken, Parts
<1> QED
    BY <1>5, <1>6, <1>7, <1>8, <1>9, <1>10, <1>11 DEF Inv

\* It ends.
LEMMA EndOperationKeeps ==
    ASSUME Inv, NEW o \in Operations, EndOperation(o)
    PROVE  Inv'
<1>0. Types /\ OneAtATime /\ Hands /\ Ended /\ Numbered /\ Fields /\ AllKept
    BY DEF Inv
<1>4. /\ operation[o] = "running"
      /\ operation' = [operation EXCEPT ![o] = "returned"]
      /\ UNCHANGED <<closing, closed, done, gate, field, running, attempts, connect, closer>>
    BY DEF EndOperation
<1>5. Types'
    BY <1>0, <1>4 DEF Types, Stages, Endings
<1>6. OneAtATime'
    BY <1>0, <1>4 DEF OneAtATime, Past, Closes
<1>7. Hands'
    BY <1>0, <1>4 DEF Hands
<1>8. Ended'
    BY <1>0, <1>4 DEF Ended, NoWorkers, Types
<1>9. Numbered'
    BY <1>0, <1>4 DEF Numbered, Parts
<1>10. Fields'
    BY <1>0, <1>4 DEF Fields
<1>11. AllKept'
    BY <1>0, <1>4 DEF AllKept, Kept, Taken, Parts
<1> QED
    BY <1>5, <1>6, <1>7, <1>8, <1>9, <1>10, <1>11 DEF Inv

\* The first Close closes, the others wait.
LEMMA BeginCloseKeeps ==
    ASSUME Inv, NEW d \in Closers, BeginClose(d)
    PROVE  Inv'
<1>0. Types /\ OneAtATime /\ Hands /\ Ended /\ Numbered /\ Fields /\ AllKept
    BY DEF Inv
<1>1. closer' = [closer EXCEPT ![d].pc = (IF ~closed /\ ~closing THEN "finish" ELSE "wait")]
    BY DEF BeginClose, First
<1>2. /\ DOMAIN closer' = Closers
      /\ closer'[d] = [closer[d] EXCEPT !.pc = (IF ~closed /\ ~closing THEN "finish" ELSE "wait")]
      /\ \A e \in Closers : e # d => closer'[e] = closer[e]
    BY <1>0, <1>1 DEF Types
<1>3. /\ DOMAIN closer'[d] = {"pc", "took"}
      /\ closer'[d].pc = (IF ~closed /\ ~closing THEN "finish" ELSE "wait") /\ closer'[d].took = closer[d].took
    BY <1>0, <1>2 DEF Types
<1>4. /\ closer[d].pc = "new"
      /\ closing' = TRUE
      /\ UNCHANGED <<closed, done, gate, field, running, attempts, connect, operation>>
    BY DEF BeginClose, First
<1>5. Types'
    BY <1>0, <1>2, <1>3, <1>4 DEF Types, Stages, Endings
<1>6. OneAtATime'
    BY <1>0, <1>2, <1>3, <1>4 DEF OneAtATime, Past, Closes
<1>7. Hands'
    BY <1>0, <1>2, <1>3, <1>4 DEF Hands
<1>8. Ended'
    BY <1>0, <1>2, <1>3, <1>4 DEF Ended, NoWorkers
<1>9. Numbered'
    BY <1>0, <1>2, <1>3, <1>4 DEF Numbered, Parts
<1>10. Fields'
    BY <1>0, <1>2, <1>3, <1>4 DEF Fields
<1>11. AllKept'
    BY <1>0, <1>2, <1>3, <1>4 DEF AllKept, Kept, Taken, Parts
<1> QED
    BY <1>5, <1>6, <1>7, <1>8, <1>9, <1>10, <1>11 DEF Inv

\* The first Shutdown closes, the others wait.
LEMMA BeginShutdownKeeps ==
    ASSUME Inv, NEW d \in Closers, BeginShutdown(d)
    PROVE  Inv'
<1>0. Types /\ OneAtATime /\ Hands /\ Ended /\ Numbered /\ Fields /\ AllKept
    BY DEF Inv
<1>1. closer' = [closer EXCEPT ![d].pc = (IF ~closed /\ ~closing THEN "cancel" ELSE "bounded")]
    BY DEF BeginShutdown, First
<1>2. /\ DOMAIN closer' = Closers
      /\ closer'[d] = [closer[d] EXCEPT !.pc = (IF ~closed /\ ~closing THEN "cancel" ELSE "bounded")]
      /\ \A e \in Closers : e # d => closer'[e] = closer[e]
    BY <1>0, <1>1 DEF Types
<1>3. /\ DOMAIN closer'[d] = {"pc", "took"}
      /\ closer'[d].pc = (IF ~closed /\ ~closing THEN "cancel" ELSE "bounded") /\ closer'[d].took = closer[d].took
    BY <1>0, <1>2 DEF Types
<1>4. /\ closer[d].pc = "new"
      /\ closing' = TRUE
      /\ UNCHANGED <<closed, done, gate, field, running, attempts, connect, operation>>
    BY DEF BeginShutdown, First
<1>5. Types'
    BY <1>0, <1>2, <1>3, <1>4 DEF Types, Stages, Endings
<1>6. OneAtATime'
    BY <1>0, <1>2, <1>3, <1>4 DEF OneAtATime, Past, Closes
<1>7. Hands'
    BY <1>0, <1>2, <1>3, <1>4 DEF Hands
<1>8. Ended'
    BY <1>0, <1>2, <1>3, <1>4 DEF Ended, NoWorkers
<1>9. Numbered'
    BY <1>0, <1>2, <1>3, <1>4 DEF Numbered, Parts
<1>10. Fields'
    BY <1>0, <1>2, <1>3, <1>4 DEF Fields
<1>11. AllKept'
    BY <1>0, <1>2, <1>3, <1>4 DEF AllKept, Kept, Taken, Parts
<1> QED
    BY <1>5, <1>6, <1>7, <1>8, <1>9, <1>10, <1>11 DEF Inv

\* Shutdown ends the client's life.
LEMMA CancelLifetimeKeeps ==
    ASSUME Inv, NEW d \in Closers, CancelLifetime(d)
    PROVE  Inv'
<1>0. Types /\ OneAtATime /\ Hands /\ Ended /\ Numbered /\ Fields /\ AllKept
    BY DEF Inv
<1>1. closer' = [closer EXCEPT ![d].pc = "flush"]
    BY DEF CancelLifetime
<1>2. /\ DOMAIN closer' = Closers
      /\ closer'[d] = [closer[d] EXCEPT !.pc = "flush"]
      /\ \A e \in Closers : e # d => closer'[e] = closer[e]
    BY <1>0, <1>1 DEF Types
<1>3. /\ DOMAIN closer'[d] = {"pc", "took"}
      /\ closer'[d].pc = "flush" /\ closer'[d].took = closer[d].took
    BY <1>0, <1>2 DEF Types
<1>4. /\ closer[d].pc = "cancel"
      /\ UNCHANGED <<closing, closed, done, gate, field, running, attempts, connect, operation>>
    BY DEF CancelLifetime
<1>5. Types'
    BY <1>0, <1>2, <1>3, <1>4 DEF Types, Stages, Endings
<1>6. OneAtATime'
    BY <1>0, <1>2, <1>3, <1>4 DEF OneAtATime, Past, Closes
<1>7. Hands'
    BY <1>0, <1>2, <1>3, <1>4 DEF Hands
<1>8. Ended'
    BY <1>0, <1>2, <1>3, <1>4 DEF Ended, NoWorkers
<1>9. Numbered'
    BY <1>0, <1>2, <1>3, <1>4 DEF Numbered, Parts
<1>10. Fields'
    BY <1>0, <1>2, <1>3, <1>4 DEF Fields
<1>11. AllKept'
    BY <1>0, <1>2, <1>3, <1>4 DEF AllKept, Kept, Taken, Parts
<1> QED
    BY <1>5, <1>6, <1>7, <1>8, <1>9, <1>10, <1>11 DEF Inv

\* Its Flush returns.
LEMMA FlushReturnsKeeps ==
    ASSUME Inv, NEW d \in Closers, FlushReturns(d)
    PROVE  Inv'
<1>0. Types /\ OneAtATime /\ Hands /\ Ended /\ Numbered /\ Fields /\ AllKept
    BY DEF Inv
<1>1. closer' = [closer EXCEPT ![d].pc = "finish"]
    BY DEF FlushReturns
<1>2. /\ DOMAIN closer' = Closers
      /\ closer'[d] = [closer[d] EXCEPT !.pc = "finish"]
      /\ \A e \in Closers : e # d => closer'[e] = closer[e]
    BY <1>0, <1>1 DEF Types
<1>3. /\ DOMAIN closer'[d] = {"pc", "took"}
      /\ closer'[d].pc = "finish" /\ closer'[d].took = closer[d].took
    BY <1>0, <1>2 DEF Types
<1>4. /\ closer[d].pc = "flush"
      /\ UNCHANGED <<closing, closed, done, gate, field, running, attempts, connect, operation>>
    BY DEF FlushReturns
<1>5. Types'
    BY <1>0, <1>2, <1>3, <1>4 DEF Types, Stages, Endings
<1>6. OneAtATime'
    BY <1>0, <1>2, <1>3, <1>4 DEF OneAtATime, Past, Closes
<1>7. Hands'
    BY <1>0, <1>2, <1>3, <1>4 DEF Hands
<1>8. Ended'
    BY <1>0, <1>2, <1>3, <1>4 DEF Ended, NoWorkers
<1>9. Numbered'
    BY <1>0, <1>2, <1>3, <1>4 DEF Numbered, Parts
<1>10. Fields'
    BY <1>0, <1>2, <1>3, <1>4 DEF Fields
<1>11. AllKept'
    BY <1>0, <1>2, <1>3, <1>4 DEF AllKept, Kept, Taken, Parts
<1> QED
    BY <1>5, <1>6, <1>7, <1>8, <1>9, <1>10, <1>11 DEF Inv

\* finishClose takes the parts: from the fields into the closer's hands.
LEMMA FinishCloseKeeps ==
    ASSUME Inv, NEW d \in Closers, FinishClose(d)
    PROVE  Inv'
<1>0. Types /\ OneAtATime /\ Hands /\ Ended /\ Numbered /\ Fields /\ AllKept
    BY DEF Inv
<1>1. closer' = [closer EXCEPT ![d] = [pc |-> "stop", took |-> Taken]]
    BY DEF FinishClose
<1>2. /\ DOMAIN closer' = Closers
      /\ closer'[d] = [pc |-> "stop", took |-> Taken]
      /\ \A e \in Closers : e # d => closer'[e] = closer[e]
    BY <1>0, <1>1 DEF Types
<1>3. /\ DOMAIN closer'[d] = {"pc", "took"}
      /\ closer'[d].pc = "stop" /\ closer'[d].took = Taken
    BY <1>2
<1>4. /\ closer[d].pc = "finish"
      /\ closed' = TRUE
      /\ field' = NoFields
      /\ UNCHANGED <<closing, done, gate, running, attempts, connect, operation>>
    BY DEF FinishClose
<1>5. Types'
    <2>1. /\ DOMAIN field' = {"monitor", "objects", "manager", "connected"} /\ field'.monitor = 0
          /\ field'.objects = 0 /\ field'.manager = 0
        BY <1>4 DEF NoFields
    <2> QED
        BY <1>0, <1>2, <1>3, <1>4, <2>1 DEF Types, Endings
<1>6. OneAtATime'
    BY <1>0, <1>2, <1>3, <1>4 DEF OneAtATime, Past, Closes
<1>7. Hands'
    BY <1>0, <1>2, <1>3, <1>4 DEF Hands, OneAtATime, Closes
<1>8. Ended'
    <2>1. closing
        BY <1>0, <1>4 DEF OneAtATime, Closes
    <2>2. ~done
        BY <1>0, <1>4 DEF Ended, Hands
    <2> QED
        BY <1>4, <2>1, <2>2 DEF Ended
<1>9. Numbered'
    <2>1. field'.monitor = 0 /\ 0 <= attempts
        BY <1>0, <1>4 DEF NoFields, Types
    <2> QED
        BY <1>0, <1>4, <2>1 DEF Numbered
<1>10. Fields'
    <2>1. field'.monitor = 0 /\ field'.objects = 0 /\ field'.manager = 0 /\ field'.connected = FALSE
        BY <1>4 DEF NoFields
    <2>2. <<"monitor", 0>> \notin running
        BY <1>0, Positive
    <2> QED
        BY <1>0, <1>4, <2>1, <2>2 DEF Fields
<1>11. AllKept'
    <2>1. closer'[d].took = Taken /\ (\A e \in Closers : e # d => closer'[e].took = closer[e].took) /\ closer[d].took = {}
        BY <1>0, <1>2, <1>3, <1>4 DEF Hands
    <2> QED
        BY <1>0, <1>4, <2>1 DEF AllKept, Kept
<1> QED
    BY <1>5, <1>6, <1>7, <1>8, <1>9, <1>10, <1>11 DEF Inv

\* It closes what it has taken.
LEMMA StopAllKeeps ==
    ASSUME Inv, NEW d \in Closers, StopAll(d)
    PROVE  Inv'
<1>0. Types /\ OneAtATime /\ Hands /\ Ended /\ Numbered /\ Fields /\ AllKept
    BY DEF Inv
<1>1. closer' = [closer EXCEPT ![d] = [pc |-> "workers", took |-> {}]]
    BY DEF StopAll
<1>2. /\ DOMAIN closer' = Closers
      /\ closer'[d] = [pc |-> "workers", took |-> {}]
      /\ \A e \in Closers : e # d => closer'[e] = closer[e]
    BY <1>0, <1>1 DEF Types
<1>3. /\ DOMAIN closer'[d] = {"pc", "took"}
      /\ closer'[d].pc = "workers" /\ closer'[d].took = {}
    BY <1>2
<1>4. /\ closer[d].pc = "stop"
      /\ running' = running \ closer[d].took
      /\ UNCHANGED <<closing, closed, done, gate, field, attempts, connect, operation>>
    BY DEF StopAll
<1>5. Types'
    BY <1>0, <1>2, <1>3, <1>4 DEF Types, Stages, Endings
<1>6. OneAtATime'
    BY <1>0, <1>2, <1>3, <1>4 DEF OneAtATime, Past, Closes
<1>7. Hands'
    BY <1>0, <1>2, <1>3, <1>4 DEF Hands
<1>8. Ended'
    BY <1>0, <1>2, <1>3, <1>4 DEF Ended, NoWorkers
<1>9. Numbered'
    BY <1>0, <1>2, <1>3, <1>4 DEF Numbered, Parts
<1>10. Fields'
    BY <1>0, <1>2, <1>3, <1>4 DEF Fields
<1>11. AllKept'
    BY <1>0, <1>2, <1>3, <1>4 DEF AllKept, Kept, Taken, Parts
<1> QED
    BY <1>5, <1>6, <1>7, <1>8, <1>9, <1>10, <1>11 DEF Inv

\* When no worker is left nothing runs: every part has been taken or was closed by its Connect.
LEMMA WaitWorkersKeeps ==
    ASSUME Inv, NEW d \in Closers, WaitWorkers(d)
    PROVE  Inv'
<1>0. Types /\ OneAtATime /\ Hands /\ Ended /\ Numbered /\ Fields /\ AllKept
    BY DEF Inv
<1>1. closer' = [closer EXCEPT ![d].pc = "returned"]
    BY DEF WaitWorkers
<1>2. /\ DOMAIN closer' = Closers
      /\ closer'[d] = [closer[d] EXCEPT !.pc = "returned"]
      /\ \A e \in Closers : e # d => closer'[e] = closer[e]
    BY <1>0, <1>1 DEF Types
<1>3. /\ DOMAIN closer'[d] = {"pc", "took"}
      /\ closer'[d].pc = "returned" /\ closer'[d].took = closer[d].took
    BY <1>0, <1>2 DEF Types
<1>4. /\ closer[d].pc = "workers"
      /\ NoWorkers
      /\ done' = TRUE
      /\ UNCHANGED <<closing, closed, gate, field, running, attempts, connect, operation>>
    BY DEF WaitWorkers
<1>5. Types'
    BY <1>0, <1>2, <1>3, <1>4 DEF Types, Stages, Endings
<1>6. OneAtATime'
    BY <1>0, <1>2, <1>3, <1>4 DEF OneAtATime, Past, Closes
<1>7. Hands'
    BY <1>0, <1>2, <1>3, <1>4 DEF Hands
<1>8. Ended'
    <2>1. closed
        BY <1>0, <1>4 DEF Hands
    <2>2. field.monitor = 0 /\ field.objects = 0 /\ field.manager = 0
        BY <1>0, <2>1 DEF Ended, NoFields
    <2>3. \A c \in Connectors : connect[c].attempt = 0
        BY <1>0, <1>4 DEF NoWorkers, Hands
    <2>4. \A e \in Closers : closer[e].took = {}
        BY <1>0, <1>4 DEF OneAtATime, Closes, Hands
    <2>5. \A x \in running : \E p : x = <<p, 0>>
        BY <1>0, <2>2, <2>3, <2>4 DEF AllKept, Kept, Taken
    <2>6. running = {}
        BY <1>0, <2>5, Positive
    <2> QED
        BY <1>0, <1>4, <2>1, <2>6 DEF Ended, NoWorkers
<1>9. Numbered'
    BY <1>0, <1>2, <1>3, <1>4 DEF Numbered, Parts
<1>10. Fields'
    BY <1>0, <1>2, <1>3, <1>4 DEF Fields
<1>11. AllKept'
    BY <1>0, <1>2, <1>3, <1>4 DEF AllKept, Kept, Taken, Parts
<1> QED
    BY <1>5, <1>6, <1>7, <1>8, <1>9, <1>10, <1>11 DEF Inv

\* Another caller sees that the client is closed.
LEMMA WaitClosedKeeps ==
    ASSUME Inv, NEW d \in Closers, WaitClosed(d)
    PROVE  Inv'
<1>0. Types /\ OneAtATime /\ Hands /\ Ended /\ Numbered /\ Fields /\ AllKept
    BY DEF Inv
<1>1. closer' = [closer EXCEPT ![d].pc = "returned"]
    BY DEF WaitClosed
<1>2. /\ DOMAIN closer' = Closers
      /\ closer'[d] = [closer[d] EXCEPT !.pc = "returned"]
      /\ \A e \in Closers : e # d => closer'[e] = closer[e]
    BY <1>0, <1>1 DEF Types
<1>3. /\ DOMAIN closer'[d] = {"pc", "took"}
      /\ closer'[d].pc = "returned" /\ closer'[d].took = closer[d].took
    BY <1>0, <1>2 DEF Types
<1>4. /\ closer[d].pc \in {"wait", "bounded"}
      /\ UNCHANGED <<closing, closed, done, gate, field, running, attempts, connect, operation>>
    BY DEF WaitClosed
<1>5. Types'
    BY <1>0, <1>2, <1>3, <1>4 DEF Types, Stages, Endings
<1>6. OneAtATime'
    BY <1>0, <1>2, <1>3, <1>4 DEF OneAtATime, Past, Closes
<1>7. Hands'
    BY <1>0, <1>2, <1>3, <1>4 DEF Hands
<1>8. Ended'
    BY <1>0, <1>2, <1>3, <1>4 DEF Ended, NoWorkers
<1>9. Numbered'
    BY <1>0, <1>2, <1>3, <1>4 DEF Numbered, Parts
<1>10. Fields'
    BY <1>0, <1>2, <1>3, <1>4 DEF Fields
<1>11. AllKept'
    BY <1>0, <1>2, <1>3, <1>4 DEF AllKept, Kept, Taken, Parts
<1> QED
    BY <1>5, <1>6, <1>7, <1>8, <1>9, <1>10, <1>11 DEF Inv

\* Or does not wait so long.
LEMMA GiveUpWaitingKeeps ==
    ASSUME Inv, NEW d \in Closers, GiveUpWaiting(d)
    PROVE  Inv'
<1>0. Types /\ OneAtATime /\ Hands /\ Ended /\ Numbered /\ Fields /\ AllKept
    BY DEF Inv
<1>1. closer' = [closer EXCEPT ![d].pc = "returned"]
    BY DEF GiveUpWaiting
<1>2. /\ DOMAIN closer' = Closers
      /\ closer'[d] = [closer[d] EXCEPT !.pc = "returned"]
      /\ \A e \in Closers : e # d => closer'[e] = closer[e]
    BY <1>0, <1>1 DEF Types
<1>3. /\ DOMAIN closer'[d] = {"pc", "took"}
      /\ closer'[d].pc = "returned" /\ closer'[d].took = closer[d].took
    BY <1>0, <1>2 DEF Types
<1>4. /\ closer[d].pc = "bounded"
      /\ UNCHANGED <<closing, closed, done, gate, field, running, attempts, connect, operation>>
    BY DEF GiveUpWaiting
<1>5. Types'
    BY <1>0, <1>2, <1>3, <1>4 DEF Types, Stages, Endings
<1>6. OneAtATime'
    BY <1>0, <1>2, <1>3, <1>4 DEF OneAtATime, Past, Closes
<1>7. Hands'
    BY <1>0, <1>2, <1>3, <1>4 DEF Hands
<1>8. Ended'
    BY <1>0, <1>2, <1>3, <1>4 DEF Ended, NoWorkers
<1>9. Numbered'
    BY <1>0, <1>2, <1>3, <1>4 DEF Numbered, Parts
<1>10. Fields'
    BY <1>0, <1>2, <1>3, <1>4 DEF Fields
<1>11. AllKept'
    BY <1>0, <1>2, <1>3, <1>4 DEF AllKept, Kept, Taken, Parts
<1> QED
    BY <1>5, <1>6, <1>7, <1>8, <1>9, <1>10, <1>11 DEF Inv

\* A monitor client is built, or there is nothing to do.
LEMMA BuildMonitorKeeps ==
    ASSUME Inv, NEW c \in Connectors, BuildMonitor(c)
    PROVE  Inv'
<1>0. Types /\ OneAtATime /\ Hands /\ Ended /\ Numbered /\ Fields /\ AllKept
    BY DEF Inv
<1>1. /\ Past(c)
      /\ \A e \in Connectors : e # c => connect[e].pc \in {"new", "gate", "returned"} /\ connect[e].attempt = 0
    BY <1>0, Alone DEF Past, BuildMonitor
<1>2. /\ connect[c].pc = "check"
      /\ connect[c].attempt = 0 /\ UNCHANGED <<closing, closed, done, field, operation, closer>>
    BY <1>0 DEF BuildMonitor, Hands
<1>3. CASE Leave(c) /\ UNCHANGED <<running, attempts>>
    <2>1. /\ DOMAIN connect' = Connectors /\ connect'[c] = [pc |-> "returned", attempt |-> 0]
          /\ \A e \in Connectors : e # c => connect'[e] = connect[e]
        BY <1>0, <1>3 DEF Types, Leave
    <2>2. /\ DOMAIN connect'[c] = {"pc", "attempt"} /\ connect'[c].pc = "returned"
          /\ connect'[c].attempt = 0 /\ gate' = TRUE
        BY <1>3, <2>1 DEF Leave
    <2>3. Types'
        BY <1>0, <1>2, <1>3, <2>1, <2>2 DEF Types, Stages
    <2>4. OneAtATime'
        BY <1>0, <1>1, <1>2, <1>3, <2>1, <2>2 DEF OneAtATime, Past, Closes
    <2>5. Hands' /\ Ended'
        BY <1>0, <1>2, <1>3, <2>1, <2>2 DEF Hands, Ended, NoWorkers
    <2>6. Numbered'
        BY <1>0, <1>2, <1>3, <2>1, <2>2 DEF Numbered
    <2>7. Fields'
        BY <1>0, <1>2, <1>3, <2>1, <2>2 DEF Fields
    <2>8. AllKept'
        BY <1>0, <1>2, <1>3, <2>1, <2>2 DEF AllKept, Kept, Taken
    <2> QED
        BY <2>3, <2>4, <2>5, <2>6, <2>7, <2>8 DEF Inv
<1>4. CASE /\ NeedsConnect
           /\ attempts' = attempts + 1
           /\ running' = running \cup {<<"monitor", attempts + 1>>}
           /\ connect' = [connect EXCEPT ![c] = [pc |-> "publish", attempt |-> attempts + 1]]
           /\ UNCHANGED gate
    <2> DEFINE a == attempts + 1
    <2>1. /\ DOMAIN connect' = Connectors /\ connect'[c] = [pc |-> "publish", attempt |-> a]
          /\ \A e \in Connectors : e # c => connect'[e] = connect[e]
        BY <1>0, <1>4 DEF Types
    <2>2. DOMAIN connect'[c] = {"pc", "attempt"} /\ connect'[c].pc = "publish" /\ connect'[c].attempt = a
        BY <2>1
    <2>3. ~closed /\ ~closing /\ ~field.connected
        BY <1>4 DEF NeedsConnect
    <2>4. a \in Nat /\ attempts < a /\ a # 0 /\ attempts <= a /\ field.monitor < a /\ attempts' = a
        BY <1>0, <1>4 DEF Types, Numbered
    <2>5. Types'
        BY <1>0, <1>2, <2>1, <2>2, <2>4 DEF Types, Stages
    <2>6. OneAtATime'
        BY <1>0, <1>1, <1>2, <1>4, <2>1, <2>2 DEF OneAtATime, Past, Closes
    <2>7. Hands' /\ Ended'
        BY <1>0, <1>2, <2>1, <2>2, <2>3 DEF Hands, Ended
    <2>8. Numbered'
        <3>1. \A n \in 1..attempts : n \in 1..a
            BY <1>0, <2>4 DEF Types
        <3>2. \A x \in running' : \E p \in Parts, n \in 1..a : x = <<p, n>>
            BY <1>0, <1>4, <2>4, <3>1 DEF Numbered, Parts
        <3>3. \A e \in Connectors : connect'[e].attempt <= a
            BY <1>0, <2>1, <2>2, <2>4 DEF Numbered, Types
        <3>4. field'.monitor <= a
            BY <1>0, <1>2, <2>4 DEF Types
        <3>5. \A e \in Connectors : connect'[e].pc \in {"publish", "monitor", "build", "install"} => connect'[e].attempt # 0
            BY <1>0, <2>1, <2>2, <2>4 DEF Numbered
        <3> QED
            BY <2>4, <3>2, <3>3, <3>4, <3>5 DEF Numbered
    <2>9. /\ <<"monitor", field.monitor>> \notin running'
          /\ <<"objects", a>> \notin running' /\ <<"manager", a>> \notin running'
        <3>1. \A p : <<p, 0>> \notin running /\ <<p, a>> \notin running
            BY <1>0, Positive
        <3>2. \A e \in Connectors : connect[e].attempt = 0
            BY <1>1, <1>2
        <3>3. <<"monitor", field.monitor>> \notin running
            BY <1>0, <2>3, <3>1, <3>2 DEF Fields
        <3>4. field.monitor # a
            BY <1>0, <2>4 DEF Types
        <3> QED
            BY <1>4, <3>1, <3>3, <3>4
    <2>10. Fields'
        BY <1>0, <1>1, <1>2, <2>1, <2>2, <2>3, <2>9 DEF Fields
    <2>11. AllKept'
        <3>1. ASSUME NEW x \in running
              PROVE  x \in Taken \/ \E d \in Closers : x \in closer[d].took
            <4>1. \A p : x # <<p, connect[c].attempt>>
                BY <1>0, <1>2, Positive
            <4> QED
                BY <1>0, <1>1, <4>1, KeptAlone
        <3> QED
            BY <1>2, <1>4, <2>1, <2>2, <3>1 DEF AllKept, Kept, Taken, Parts
    <2> QED
        BY <2>5, <2>6, <2>7, <2>8, <2>10, <2>11 DEF Inv
<1> QED
    BY <1>3, <1>4 DEF BuildMonitor

\* The monitor client is published, or closed again.
LEMMA PublishMonitorKeeps ==
    ASSUME Inv, NEW c \in Connectors, PublishMonitor(c)
    PROVE  Inv'
<1> DEFINE a == connect[c].attempt
<1>0. Types /\ OneAtATime /\ Hands /\ Ended /\ Numbered /\ Fields /\ AllKept
    BY DEF Inv
<1>1. /\ Past(c)
      /\ \A e \in Connectors : e # c => connect[e].pc \in {"new", "gate", "returned"} /\ connect[e].attempt = 0
    BY <1>0, Alone DEF Past, PublishMonitor
<1>2. connect[c].pc = "publish" /\ UNCHANGED <<closing, closed, done, attempts, operation, closer>>
    BY DEF PublishMonitor
<1>3. /\ a \in Nat /\ a <= attempts /\ 0 <= attempts /\ a # 0 /\ ~field.connected /\ <<"monitor", field.monitor>> \notin running
      /\ <<"objects", a>> \notin running /\ <<"manager", a>> \notin running /\ ~done
    BY <1>0, <1>2 DEF Types, Numbered, Fields, Ended, NoWorkers
<1>4. ASSUME NEW x \in running
      PROVE  x \in Taken \/ x = <<"monitor", a>> \/ \E d \in Closers : x \in closer[d].took
    BY <1>0, <1>1, <1>3, KeptAlone DEF Parts
<1>5. CASE running' = running \ {<<"monitor", a>>} /\ Leave(c) /\ UNCHANGED field
    <2>1. /\ DOMAIN connect' = Connectors /\ connect'[c] = [pc |-> "returned", attempt |-> 0]
          /\ \A e \in Connectors : e # c => connect'[e] = connect[e]
        BY <1>0, <1>5 DEF Types, Leave
    <2>2. /\ DOMAIN connect'[c] = {"pc", "attempt"} /\ connect'[c].pc = "returned"
          /\ connect'[c].attempt = 0 /\ gate' = TRUE
        BY <1>5, <2>1 DEF Leave
    <2>3. Types'
        BY <1>0, <1>2, <1>5, <2>1, <2>2 DEF Types, Stages
    <2>4. OneAtATime'
        BY <1>0, <1>1, <1>2, <2>1, <2>2 DEF OneAtATime, Past, Closes
    <2>5. Hands' /\ Ended'
        BY <1>0, <1>2, <1>3, <1>5, <2>1, <2>2 DEF Hands, Ended
    <2>6. Numbered'
        <3>1. \A x \in running' : \E p \in Parts, n \in 1..attempts : x = <<p, n>>
            BY <1>0, <1>5 DEF Numbered
        <3> QED
            BY <1>0, <1>2, <1>3, <1>5, <2>1, <2>2, <3>1 DEF Numbered
    <2>7. Fields'
        BY <1>0, <1>1, <1>2, <1>3, <1>5, <2>1, <2>2 DEF Fields
    <2>8. AllKept'
        BY <1>2, <1>4, <1>5 DEF AllKept, Kept, Taken
    <2> QED
        BY <2>3, <2>4, <2>5, <2>6, <2>7, <2>8 DEF Inv
<1>6. CASE /\ ~closed
           /\ field' = [field EXCEPT !.monitor = a]
           /\ connect' = [connect EXCEPT ![c].pc = "monitor"]
           /\ UNCHANGED <<running, gate>>
    <2>1. /\ DOMAIN connect' = Connectors /\ connect'[c] = [connect[c] EXCEPT !.pc = "monitor"]
          /\ \A e \in Connectors : e # c => connect'[e] = connect[e]
        BY <1>0, <1>6 DEF Types
    <2>2. DOMAIN connect'[c] = {"pc", "attempt"} /\ connect'[c].pc = "monitor" /\ connect'[c].attempt = a
        BY <1>0, <2>1 DEF Types
    <2>3. /\ DOMAIN field' = {"monitor", "objects", "manager", "connected"} /\ field'.monitor = a
          /\ field'.objects = field.objects /\ field'.manager = field.manager /\ field'.connected = field.connected
        BY <1>0, <1>6 DEF Types
    <2>4. Types'
        BY <1>0, <1>2, <1>3, <2>1, <2>2, <2>3 DEF Types, Stages
    <2>5. OneAtATime'
        BY <1>0, <1>1, <1>2, <1>6, <2>1, <2>2 DEF OneAtATime, Past, Closes
    <2>6. Hands' /\ Ended'
        BY <1>0, <1>2, <1>3, <1>6, <2>1, <2>2 DEF Hands, Ended
    <2>7. Numbered'
        BY <1>0, <1>2, <1>3, <1>6, <2>1, <2>2, <2>3 DEF Numbered
    <2>8. Fields'
        BY <1>0, <1>1, <1>2, <1>3, <1>6, <2>1, <2>2, <2>3 DEF Fields
    <2>9. \A x \in running : x \in Taken => x \in Taken'
        BY <1>3, <2>3 DEF Taken
    <2>10. <<"monitor", a>> \in Taken'
        BY <2>3 DEF Taken
    <2>11. AllKept'
        BY <1>2, <1>4, <1>6, <2>9, <2>10 DEF AllKept, Kept
    <2> QED
        BY <2>4, <2>5, <2>6, <2>7, <2>8, <2>11 DEF Inv
<1> QED
    BY <1>5, <1>6 DEF PublishMonitor

\* The three are installed, or closed again.
LEMMA InstallKeeps ==
    ASSUME Inv, NEW c \in Connectors, Install(c)
    PROVE  Inv'
<1> DEFINE a == connect[c].attempt
<1>0. Types /\ OneAtATime /\ Hands /\ Ended /\ Numbered /\ Fields /\ AllKept
    BY DEF Inv
<1>1. /\ Past(c)
      /\ \A e \in Connectors : e # c => connect[e].pc \in {"new", "gate", "returned"} /\ connect[e].attempt = 0
    BY <1>0, Alone DEF Past, Install
<1>2. /\ connect[c].pc = "install"
      /\ UNCHANGED <<closing, closed, done, attempts, operation, closer>> /\ Leave(c)
    BY DEF Install
<1>3. /\ DOMAIN connect' = Connectors /\ connect'[c] = [pc |-> "returned", attempt |-> 0]
      /\ \A e \in Connectors : e # c => connect'[e] = connect[e]
    BY <1>0, <1>2 DEF Types, Leave
<1>4. /\ DOMAIN connect'[c] = {"pc", "attempt"} /\ connect'[c].pc = "returned"
      /\ connect'[c].attempt = 0 /\ gate' = TRUE
    BY <1>2, <1>3 DEF Leave
<1>5. /\ a \in Nat /\ a <= attempts /\ 0 <= attempts /\ a # 0 /\ ~field.connected /\ ~done
      /\ field.objects = 0 /\ field.manager = 0 /\ (~closed => field.monitor = a)
    <2>1. a \in Nat /\ a <= attempts /\ 0 <= attempts /\ a # 0
        BY <1>0, <1>2 DEF Types, Numbered
    <2>2. ~done
        BY <1>0, <1>2 DEF Ended, NoWorkers
    <2>3. ~field.connected /\ (~closed => field.monitor = a)
        BY <1>0, <1>2 DEF Fields
    <2>4. field.objects = 0 /\ field.manager = 0
        BY <1>0, <2>3 DEF Fields
    <2> QED
        BY <2>1, <2>2, <2>3, <2>4
<1>6. ASSUME NEW x \in running
      PROVE  x \in Taken \/ (\E p \in Parts : x = <<p, a>>) \/ \E d \in Closers : x \in closer[d].took
    BY <1>0, <1>1, KeptAlone
<1>7. OneAtATime'
    BY <1>0, <1>1, <1>2, <1>3, <1>4 DEF OneAtATime, Past, Closes
<1>8. Hands'
    BY <1>0, <1>2, <1>3, <1>4 DEF Hands
<1>9. \A p : <<p, 0>> \notin running
    BY <1>0, Positive
<1>10. CASE /\ ~closed
            /\ field' = [monitor |-> field.monitor, objects |-> a, manager |-> a, connected |-> TRUE]
            /\ UNCHANGED running
    <2>1. /\ DOMAIN field' = {"monitor", "objects", "manager", "connected"} /\ field'.monitor = a
          /\ field'.objects = a /\ field'.manager = a /\ field'.connected = TRUE
        BY <1>5, <1>10
    <2>2. Types'
        BY <1>0, <1>2, <1>3, <1>4, <1>5, <2>1 DEF Types, Stages
    <2>3. Ended'
        BY <1>2, <1>5, <1>10 DEF Ended
    <2>4. Numbered'
        BY <1>0, <1>2, <1>3, <1>4, <1>5, <1>10, <2>1 DEF Numbered
    <2>5. Fields'
        BY <1>1, <1>3, <1>4, <2>1 DEF Fields
    <2>6. \A p \in Parts : <<p, a>> \in Taken'
        BY <2>1 DEF Taken, Parts
    <2>7. \A x \in running : x \in Taken => x \in Taken'
        BY <1>5, <1>9, <1>10, <2>1, SMTT(30) DEF Taken
    <2>8. AllKept'
        BY <1>2, <1>6, <1>10, <2>6, <2>7 DEF AllKept, Kept
    <2> QED
        BY <1>7, <1>8, <2>2, <2>3, <2>4, <2>5, <2>8 DEF Inv
<1>11. CASE running' = running \ Refused(a) /\ UNCHANGED field
    <2>1. Types'
        BY <1>0, <1>2, <1>3, <1>4, <1>11 DEF Types, Stages
    <2>2. Ended'
        BY <1>0, <1>2, <1>5, <1>11 DEF Ended
    <2>3. \A p \in Parts : <<p, a>> \notin running'
        BY <1>11 DEF Refused
    <2>4. Numbered'
        <3>1. \A x \in running' : \E p \in Parts, n \in 1..attempts : x = <<p, n>>
            BY <1>0, <1>11 DEF Numbered
        <3> QED
            BY <1>0, <1>2, <1>3, <1>4, <1>5, <1>11, <3>1 DEF Numbered
    <2>5. Fields'
        <3>1. <<"monitor", field.monitor>> \in running' => \E e \in Connectors : connect'[e].attempt = field.monitor
            BY <1>0, <1>3, <1>5, <1>11, <2>3 DEF Fields, Parts
        <3> QED
            BY <1>1, <1>3, <1>4, <1>5, <1>11, <3>1 DEF Fields
    <2>6. AllKept'
        <3>1. \A x \in running' : x \in Taken \/ \E d \in Closers : x \in closer[d].took
            BY <1>6, <1>11, <2>3
        <3> QED
            BY <1>2, <1>11, <3>1 DEF AllKept, Kept, Taken
    <2> QED
        BY <1>7, <1>8, <2>1, <2>2, <2>4, <2>5, <2>6 DEF Inv
<1> QED
    BY <1>10, <1>11 DEF Install, MayInstall

-----------------------------------------------------------------------------
\* The client as New returns it.
LEMMA ClientInitial == Init => Inv
<1> SUFFICES ASSUME Init PROVE Inv
    OBVIOUS
<1>1. /\ DOMAIN field = {"monitor", "objects", "manager", "connected"} /\ field = NoFields
      /\ field.monitor = 0 /\ field.objects = 0 /\ field.manager = 0
    BY DEF Init, NoFields
<1>2. DOMAIN connect = Connectors /\ \A c \in Connectors : connect[c] = [pc |-> "new", attempt |-> 0]
    BY DEF Init
<1>3. \A c \in Connectors : DOMAIN connect[c] = {"pc", "attempt"} /\ connect[c].pc = "new" /\ connect[c].attempt = 0
    <2>1. LET r == [pc |-> "new", attempt |-> 0] IN DOMAIN r = {"pc", "attempt"} /\ r.pc = "new" /\ r.attempt = 0
        OBVIOUS
    <2> QED
        BY <1>2, <2>1, Zenon
<1>4. DOMAIN closer = Closers /\ \A d \in Closers : closer[d] = [pc |-> "new", took |-> {}]
    BY DEF Init
<1>5. \A d \in Closers : DOMAIN closer[d] = {"pc", "took"} /\ closer[d].pc = "new" /\ closer[d].took = {}
    BY <1>4
<1>6. /\ DOMAIN operation = Operations /\ attempts = 0 /\ running = {}
      /\ gate = TRUE /\ ~closing /\ ~closed /\ ~done
    BY DEF Init
<1>7. Types
    BY <1>1, <1>2, <1>3, <1>4, <1>5, <1>6 DEF Types, Stages, Endings
<1>8. OneAtATime
    BY <1>3, <1>5, <1>6 DEF OneAtATime, Past, Closes
<1>9. Hands /\ Ended /\ Numbered
    BY <1>1, <1>3, <1>5, <1>6 DEF Hands, Ended, Numbered
<1>10. Fields /\ AllKept
    BY <1>1, <1>3, <1>6 DEF Fields, AllKept
<1> QED
    BY <1>7, <1>8, <1>9, <1>10 DEF Inv

\* The invariant is inductive.
LEMMA ClientStep == Inv /\ [Next]_vars => Inv'
<1> SUFFICES ASSUME Inv, [Next]_vars PROVE Inv'
    OBVIOUS
<1>1. ASSUME NEW c \in Connectors, StartConnect(c) \/ ConnectStep(c) PROVE Inv'
    BY <1>1, StartConnectKeeps, EnterGateKeeps, LeaveQueueKeeps, BuildMonitorKeeps, PublishMonitorKeeps, ConnectFailsKeeps,
       MonitorConnectsKeeps, BuildObjectsKeeps, BuildFailsKeeps, InstallKeeps DEF ConnectStep
<1>2. ASSUME NEW o \in Operations, BeginOperation(o) \/ EndOperation(o) PROVE Inv'
    BY <1>2, BeginOperationKeeps, EndOperationKeeps
<1>3. ASSUME NEW d \in Closers, BeginClose(d) \/ BeginShutdown(d) \/ CloserStep(d) PROVE Inv'
    BY <1>3, BeginCloseKeeps, BeginShutdownKeeps, CancelLifetimeKeeps, FlushReturnsKeeps, FinishCloseKeeps, StopAllKeeps,
       WaitWorkersKeeps, WaitClosedKeeps, GiveUpWaitingKeeps DEF CloserStep
<1>4. CASE UNCHANGED vars
    BY <1>4, SMTT(30) DEF vars, Inv, Types, OneAtATime, Past, Closes, Hands, Ended, NoWorkers, Numbered, Fields, AllKept, Kept, Taken
<1> QED
    BY <1>1, <1>2, <1>3, <1>4 DEF Next

\* The gate has two values, as a channel of one token.
LEMMA GateIsBoolean == Spec => [](gate \in BOOLEAN)
<1> DEFINE G == gate \in BOOLEAN
<1>1. Init => G
    BY DEF Init
<1>2. G /\ [Next]_vars => G'
    <2> SUFFICES ASSUME gate \in BOOLEAN, [Next]_vars PROVE gate' \in BOOLEAN
        OBVIOUS
    <2>1. gate' = gate \/ gate' = TRUE \/ gate' = FALSE
        BY Zenon DEF Next, ConnectStep, CloserStep, StartConnect, EnterGate, LeaveQueue, BuildMonitor, PublishMonitor,
               ConnectFails, MonitorConnects, BuildObjects, BuildFails, Install, Leave, BeginOperation, EndOperation,
               BeginClose, BeginShutdown, CancelLifetime, FlushReturns, FinishClose, StopAll, WaitWorkers, WaitClosed,
               GiveUpWaiting, vars
    <2> QED
        BY <2>1
<1> HIDE DEF G
<1>3. Spec => []G
    BY <1>1, <1>2, PTL DEF Spec
<1> QED
    BY <1>3 DEF G

\* When Close or Shutdown has returned nothing the client started runs on, and until then
\* whatever runs is a field of the client or in the hands of one caller: for any number of
\* callers of Connect, of operations and of Close.
THEOREM ClosedClientIsQuiet == Spec => []ClientSafe
<1>1. Spec => []Inv
    BY ClientInitial, ClientStep, PTL DEF Spec
<1>2. Inv /\ gate \in BOOLEAN => ClientSafe
    <2> SUFFICES ASSUME Inv, gate \in BOOLEAN PROVE ClientSafe
        OBVIOUS
    <2>1. Types /\ OneAtATime /\ Hands /\ Ended /\ Numbered /\ Fields /\ AllKept
        BY DEF Inv
    <2>2. gate = (\A c \in Connectors : ~Past(c))
        BY <2>1, Zenon DEF OneAtATime
    <2>3. field.monitor \in 0..attempts
        BY <2>1 DEF Types, Numbered
    <2>4. ClientTypeOK
        BY <2>1, <2>2, <2>3 DEF ClientTypeOK, Ended, OneAtATime
    <2>5. ClosedIsQuiet
        BY <2>1 DEF ClosedIsQuiet, Ended
    <2>6. NothingLost
        <3> DEFINE held == UNION {Parts \X {connect[c].attempt} : c \in Connectors}
                   taken == UNION {closer[d].took : d \in Closers}
        <3>1. \A c \in Connectors : Parts \X {connect[c].attempt} \subseteq held
            BY Zenon
        <3>2. \A d \in Closers : closer[d].took \subseteq taken
            BY Zenon
        <3> HIDE DEF held, taken
        <3>3. \A c \in Connectors, p \in Parts : <<p, connect[c].attempt>> \in held
            BY <3>1
        <3>4. running \subseteq Taken \cup held \cup taken
            BY <2>1, <3>2, <3>3 DEF AllKept, Kept
        <3> QED
            BY <3>4 DEF NothingLost, held, taken
    <2> QED
        BY <2>4, <2>5, <2>6 DEF ClientSafe
<1> QED
    BY <1>1, <1>2, GateIsBoolean, PTL

=============================================================================
