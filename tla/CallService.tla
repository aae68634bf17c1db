---------------------------- MODULE CallService -----------------------------
(***************************************************************************)
(* What a messenger session promises those who call it, without transports, *)
(* sequences, replays or resets: a call is executed at most once by the     *)
(* daemon, gets one result that never changes, and the result tells the     *)
(* truth about the execution.  Module SessionPeer is shown to implement it. *)
(***************************************************************************)
EXTENDS Naturals

CONSTANT Requests

VARIABLES
  called,    \* the calls that were made
  twoWay,    \* the calls that wait for a reply of the daemon (Submit, not Send)
  executed,  \* how often the daemon has executed each call
  outcome    \* what each caller was told

serviceVars == <<called, twoWay, executed, outcome>>

Outcomes == {"none", "answered", "failed", "unknown", "canceled"}

ServiceInit ==
  /\ called = {}
  /\ twoWay \in SUBSET Requests
  /\ executed = [r \in Requests |-> 0]
  /\ outcome = [r \in Requests |-> "none"]

\* What one step does to one call.
Stays(r) ==
  /\ (r \in called') = (r \in called)
  /\ (r \in twoWay') = (r \in twoWay)
  /\ executed'[r] = executed[r]
  /\ outcome'[r] = outcome[r]

\* The call is made; it may be refused at once.
Begins(r) ==
  /\ r \notin called /\ r \in called'
  /\ executed'[r] = executed[r]
  /\ outcome'[r] \in {"none", "failed", "canceled"}

\* The daemon executes it, perhaps after the caller was told that nobody knows or has
\* gone away, but never after an error that says it was not executed.
Executes(r) ==
  /\ r \in called /\ r \in called'
  /\ (r \in twoWay') = (r \in twoWay)
  /\ executed[r] = 0 /\ executed'[r] = 1
  /\ outcome[r] # "failed"
  /\ outcome'[r] = outcome[r]

\* The caller is told: of success, when a call that waits for a reply was executed; of a
\* definite failure, when it was not.
Ends(r) ==
  /\ r \in called /\ r \in called'
  /\ (r \in twoWay') = (r \in twoWay)
  /\ executed'[r] = executed[r]
  /\ outcome[r] = "none"
  /\ outcome'[r] \in Outcomes \ {"none"}
  /\ outcome'[r] = "answered" /\ r \in twoWay => executed[r] = 1
  /\ outcome'[r] = "failed" => executed[r] = 0

ServiceNext == \A r \in Requests : Stays(r) \/ Begins(r) \/ Executes(r) \/ Ends(r)

ServiceSpec == ServiceInit /\ [][ServiceNext]_serviceVars
=============================================================================
