------------------------------ MODULE MgrClient ------------------------------
(***************************************************************************)
(* The manager client (src/internal/mgr/client.go): commands follow the    *)
(* active manager the MgrMap names.  They share one session and the        *)
(* attempts to create it, leave a session whose manager is no longer the   *)
(* active one, and may be closed at any time.                              *)
(*                                                                         *)
(* A target is a manager, 0 when none is active, Unsupported when the      *)
(* active one lacks the features required; a session is the number under   *)
(* which it was opened, 0 for none.  The managers are external: they *)
(* execute what reaches them and reply.                                    *)
(***************************************************************************)
EXTENDS Naturals, FiniteSets

CONSTANTS
    Commands,      \* the callers of Command
    Targets,       \* the managers that may be active
    MaxAttempts,   \* Config.MaxAttempts
    MaxChanges,    \* bound on the changes of the MgrMap
    MaxCreations   \* bound on the session creations

VARIABLES
    target,    \* the active manager according to the MgrMap
    changes,   \* how often it changed
    entry,     \* Client.session: the session and its target
    creations, \* the session creations, in the order they were started
    started,   \* how many were started
    command,   \* the callers of Command
    executed,  \* how often a manager executed each command
    alive,     \* the sessions that were not stopped
    opened,    \* how many sessions were opened
    closer     \* a caller of Close

vars == <<target, changes, entry, creations, started, command, executed, alive, opened,
          closer>>

NoEntry == [session |-> 0, target |-> 0]
NoCreation == [pc |-> "none", target |-> 0, stale |-> 0, created |-> 0, replaced |-> 0,
               waiters |-> 0, abandoned |-> FALSE, failed |-> FALSE, result |-> NoEntry]
Creations == 1..MaxCreations
Unsupported == 99
Closed == closer # "idle"

\* A creation is in client.creations until it completes.
Listed(i) == creations[i].pc \notin {"none", "completed"}

Init ==
    /\ target \in Targets \cup {0}
    /\ changes = 0
    /\ entry = NoEntry
    /\ creations = [i \in Creations |-> NoCreation]
    /\ started = 0
    /\ command = [c \in Commands |-> [pc |-> "target", target |-> 0, at |-> 0,
                                      on |-> NoEntry, reply |-> "none", then |-> "none",
                                      stops |-> 0, attempt |-> 1]]
    /\ executed = [c \in Commands |-> 0]
    /\ alive = {}
    /\ opened = 0
    /\ closer = "idle"

ChangeManager ==
    /\ changes < MaxChanges
    /\ changes' = changes + 1
    /\ target' \in (Targets \cup {0, Unsupported}) \ {target}
    /\ UNCHANGED <<entry, creations, started, command, executed, alive, opened, closer>>

(***************************************************************************)
(* Command: every attempt finds the target, then a session to it, then     *)
(* submits.                                                                *)
(***************************************************************************)
Retried(c) ==
    [command[c] EXCEPT !.pc = IF command[c].attempt = MaxAttempts THEN "failed"
                              ELSE "target",
                       !.attempt = IF @ = MaxAttempts THEN @ ELSE @ + 1,
                       !.target = 0, !.at = 0, !.on = NoEntry, !.reply = "none",
                       !.then = "none", !.stops = 0]

Returned(c, how) ==
    [command[c] EXCEPT !.pc = how, !.target = 0, !.at = 0, !.on = NoEntry,
                       !.reply = "none", !.then = "none", !.stops = 0]

\* currentTarget; without an active manager the attempt counts and waits.
FindTarget(c) ==
    /\ command[c].pc = "target"
    /\ command' = [command EXCEPT ![c] =
           IF target = Unsupported THEN Returned(c, "failed")
           ELSE IF target # 0 THEN [@ EXCEPT !.pc = "session", !.target = target]
           ELSE IF Closed THEN Returned(c, "closed") ELSE Retried(c)]
    /\ UNCHANGED <<target, changes, entry, creations, started, executed, alive, opened,
                   closer>>

\* getSession's first part, under the lock: creations for another target than
\* the current one are abandoned; the session is used if it is the target's;
\* otherwise the caller waits for a creation, its own if there is none.
AbandonOthers ==
    [i \in Creations |-> IF Listed(i) /\ creations[i].target # target
                         THEN [creations[i] EXCEPT !.abandoned = TRUE]
                         ELSE creations[i]]

Joinable == {i \in Creations : Listed(i) /\ creations[i].target = target
                               /\ ~creations[i].abandoned}

GetSession(c) ==
    /\ command[c].pc = "session"
    /\ IF Closed
       THEN /\ command' = [command EXCEPT ![c] = Returned(c, "closed")]
            /\ UNCHANGED <<entry, creations, started>>
       ELSE \/ /\ command[c].target # target
               /\ creations' = AbandonOthers
               /\ command' = [command EXCEPT ![c] = Retried(c)]
               /\ UNCHANGED <<entry, started>>
            \/ /\ command[c].target = target /\ entry.session # 0
               /\ entry.target = target
               /\ creations' = AbandonOthers
               /\ command' = [command EXCEPT ![c].pc = "submit", ![c].on = entry]
               /\ UNCHANGED <<entry, started>>
            \/ /\ command[c].target = target
               /\ entry.session = 0 \/ entry.target # target
               /\ Joinable # {}
               /\ \E i \in Joinable :
                     /\ creations' = [AbandonOthers EXCEPT ![i].waiters = @ + 1]
                     /\ command' = [command EXCEPT ![c].pc = "wait", ![c].at = i]
               /\ UNCHANGED <<entry, started>>
            \/ /\ command[c].target = target
               /\ entry.session = 0 \/ entry.target # target
               /\ Joinable = {}
               /\ started < MaxCreations
               /\ started' = started + 1
               /\ creations' = [AbandonOthers EXCEPT ![started + 1] =
                      [NoCreation EXCEPT !.pc = "stale", !.target = target,
                                         !.stale = entry.session, !.waiters = 1]]
               /\ entry' = NoEntry
               /\ command' = [command EXCEPT ![c].pc = "wait", ![c].at = started + 1]
    /\ UNCHANGED <<target, changes, executed, alive, opened, closer>>

\* getSession's second part: the creation has completed, or the client closed.
\* The last waiter to leave abandons a creation that is not complete.
LeaveCreation(c, i) ==
    creations' = [creations EXCEPT ![i].waiters = @ - 1,
                                   ![i].abandoned = @ \/ /\ creations[i].waiters = 1
                                                         /\ creations[i].pc # "completed"]

SessionCreated(c) ==
    /\ command[c].pc = "wait"
    /\ LET i == command[c].at IN
       /\ creations[i].pc = "completed" \/ Closed
       /\ LeaveCreation(c, i)
       /\ command' = [command EXCEPT ![c] =
              IF Closed THEN Returned(c, "closed")
              ELSE IF creations[i].failed THEN Retried(c)
              ELSE [@ EXCEPT !.pc = "submit", !.at = 0, !.on = creations[i].result]]
    /\ UNCHANGED <<target, changes, entry, started, executed, alive, opened, closer>>

\* The caller's context ends while it waits for a target or a session.
WaitCanceled(c) ==
    /\ command[c].pc \in {"target", "session", "wait"}
    /\ IF command[c].pc = "wait" THEN LeaveCreation(c, command[c].at)
       ELSE UNCHANGED creations
    /\ command' = [command EXCEPT ![c] = Returned(c, "canceled")]
    /\ UNCHANGED <<target, changes, entry, started, executed, alive, opened, closer>>

(***************************************************************************)
(* createSession.                                                          *)
(***************************************************************************)
Factory(i) ==
    /\ creations[i].pc = "stale"
    /\ \/ /\ alive' = (alive \ {creations[i].stale}) \cup {opened + 1}
          /\ opened' = opened + 1
          /\ creations' = [creations EXCEPT ![i].pc = "created", ![i].stale = 0,
                                            ![i].created = opened + 1]
       \/ /\ alive' = alive \ {creations[i].stale}
          /\ creations' = [creations EXCEPT ![i].pc = "created", ![i].stale = 0,
                                            ![i].failed = TRUE]
          /\ UNCHANGED opened
    /\ UNCHANGED <<target, changes, entry, started, command, executed, closer>>

\* What is wrong with the session created, under the lock.
CreationFails(i) == \/ creations[i].failed \/ Closed \/ creations[i].abandoned
                    \/ creations[i].target # target

Install(i) ==
    /\ creations[i].pc = "created"
    /\ IF CreationFails(i)
       THEN /\ creations' = [creations EXCEPT ![i].pc = "stop", ![i].failed = TRUE]
            /\ UNCHANGED entry
       ELSE IF entry.session # 0 /\ entry.target = creations[i].target
       THEN /\ creations' = [creations EXCEPT ![i].pc = "stop", ![i].result = entry]
            /\ UNCHANGED entry
       ELSE /\ entry' = [session |-> creations[i].created, target |-> creations[i].target]
            /\ creations' = [creations EXCEPT ![i].pc = "stop", ![i].result = entry',
                                              ![i].created = 0,
                                              ![i].replaced = entry.session]
    /\ UNCHANGED <<target, changes, started, command, executed, alive, opened, closer>>

\* What was created in vain, or replaced, is stopped; then the waiters are told.
CreationStops(i) ==
    /\ creations[i].pc = "stop"
    /\ alive' = alive \ {creations[i].created, creations[i].replaced}
    /\ creations' = [creations EXCEPT ![i].pc = "completed", ![i].created = 0,
                                      ![i].replaced = 0]
    /\ UNCHANGED <<target, changes, entry, started, command, executed, opened, closer>>

(***************************************************************************)
(* submitPendingAware: a goroutine submits; its answer, the caller's       *)
(* cancellation, Close, and every tick the MgrMap are waited for.          *)
(***************************************************************************)
Submit(c) ==
    /\ command[c].pc = "submit"
    /\ command' = [command EXCEPT ![c].pc = "pending", ![c].reply = "queued"]
    /\ UNCHANGED <<target, changes, entry, creations, started, executed, alive, opened,
                   closer>>

\* The manager (external) executes the command, and the reply arrives.
Execute(c) ==
    /\ command[c].reply = "queued" /\ command[c].then \in {"none", "look"}
    /\ command[c].on.session \in alive
    /\ executed' = [executed EXCEPT ![c] = @ + 1]
    /\ command' = [command EXCEPT ![c].reply = "sent"]
    /\ UNCHANGED <<target, changes, entry, creations, started, alive, opened, closer>>

ReplyArrives(c) ==
    /\ command[c].reply = "sent" /\ command[c].then \in {"none", "look"}
    /\ command[c].on.session \in alive
    /\ command' = [command EXCEPT ![c].reply = "ok"]
    /\ UNCHANGED <<target, changes, entry, creations, started, executed, alive, opened,
                   closer>>

\* invalidate's first part: the client forgets the session if it is still its own,
\* and the caller is to stop it.
Invalidates(c) == command[c].on.session # 0 /\ entry = command[c].on

\* MUTANT of Invalidate: the session is forgotten and goes on.
InvalidateForgets(c, outcome) ==
    /\ entry' = IF Invalidates(c) THEN NoEntry ELSE entry
    /\ command' = [command EXCEPT ![c].pc = "invalidate", ![c].then = outcome]

Invalidate(c, outcome) ==
    /\ entry' = IF Invalidates(c) THEN NoEntry ELSE entry
    /\ command' = [command EXCEPT ![c].pc = "invalidate", ![c].then = outcome,
                                  ![c].stops = IF Invalidates(c) THEN command[c].on.session
                                                 ELSE 0]

\* What Submit may say when it does not return the reply: a command that a manager
\* may have seen is unknown, one that was not sent has failed.
Losses(c) == CASE command[c].reply = "sent" -> {"unknown"}
               [] command[c].reply = "queued" -> {"unknown", "retry"}
               [] OTHER -> {"retry"}

\* The reply; one that does not decode, or is of another transaction, costs the
\* session.
SubmitReplies(c) ==
    /\ command[c].pc = "pending"
    /\ command[c].reply = "ok"
    /\ command' = [command EXCEPT ![c] = Returned(c, "ok")]
    /\ UNCHANGED <<target, changes, entry, creations, started, executed, alive, opened,
                   closer>>

ReplyMalformed(c) ==
    /\ command[c].pc = "pending"
    /\ command[c].reply = "ok"
    /\ Invalidate(c, "failed")
    /\ UNCHANGED <<target, changes, creations, started, executed, alive, opened, closer>>

\* Submit fails: the session was stopped under the command, has ended, or refuses it.
SubmitFails(c) ==
    /\ command[c].pc = "pending"
    /\ command[c].reply # "ok"
    /\ \E outcome \in Losses(c) : Invalidate(c, outcome)
    /\ UNCHANGED <<target, changes, creations, started, executed, alive, opened, closer>>

\* A tick finds another target: what was submitted is canceled, the session
\* invalidated, and only then is the outcome looked at.
GiveUpSession(c) ==
    /\ command[c].pc = "pending"
    /\ target # command[c].on.target
    /\ Invalidate(c, "look")
    /\ UNCHANGED <<target, changes, creations, started, executed, alive, opened, closer>>

\* invalidate's second part, and the end of the attempt.  A lost command is not
\* repeated; one that was not sent, or was answered while the session was given
\* up, is.
Invalidated(c) ==
    /\ command[c].pc = "invalidate"
    /\ alive' = alive \ {command[c].stops}
    /\ \E outcome \in IF command[c].then = "look" THEN Losses(c) ELSE {command[c].then} :
          command' = [command EXCEPT ![c] =
              IF outcome = "retry" THEN Retried(c) ELSE Returned(c, outcome)]
    /\ UNCHANGED <<target, changes, entry, creations, started, executed, opened, closer>>

\* The caller's context or the client ends: what is unknown is said to be, and costs
\* the session.
SubmitCanceled(c) ==
    /\ command[c].pc = "pending"
    /\ \E outcome \in Losses(c) :
          IF outcome = "unknown" THEN Invalidate(c, outcome)
          ELSE /\ command' = [command EXCEPT ![c] =
                       Returned(c, IF Closed THEN "closed" ELSE "canceled")]
               /\ UNCHANGED entry
    /\ UNCHANGED <<target, changes, creations, started, executed, alive, opened, closer>>

(***************************************************************************)
(* Close: everything is told to end, and the goroutines that create and    *)
(* stop sessions are waited for.                                           *)
(***************************************************************************)
CloseBegins ==
    /\ closer = "idle"
    /\ closer' = "wait"
    /\ alive' = alive \ {entry.session}
    /\ entry' = NoEntry
    /\ creations' = [i \in Creations |->
           IF Listed(i) THEN [creations[i] EXCEPT !.abandoned = TRUE] ELSE creations[i]]
    /\ UNCHANGED <<target, changes, started, command, executed, opened>>

CloseReturns ==
    /\ closer = "wait"
    /\ \A c \in Commands : command[c].stops = 0
    /\ \A i \in Creations : ~Listed(i)
    /\ closer' = "returned"
    /\ UNCHANGED <<target, changes, entry, creations, started, command, executed, alive,
                   opened>>

Next ==
    \/ ChangeManager \/ CloseBegins \/ CloseReturns
    \/ \E c \in Commands :
          \/ FindTarget(c) \/ GetSession(c) \/ SessionCreated(c) \/ WaitCanceled(c)
          \/ Submit(c) \/ Execute(c) \/ ReplyArrives(c) \/ SubmitReplies(c)
          \/ ReplyMalformed(c) \/ SubmitFails(c) \/ GiveUpSession(c) \/ Invalidated(c)
          \/ SubmitCanceled(c)
    \/ \E i \in Creations : Factory(i) \/ Install(i) \/ CreationStops(i)

Spec == Init /\ [][Next]_vars

-----------------------------------------------------------------------------
(***************************************************************************)
(* Properties.                                                             *)
(***************************************************************************)
\* Every variable has the type the code declares it with.
MgrTypeOK ==
    /\ target \in Targets \cup {0, Unsupported}
    /\ entry.session \in 0..opened
    /\ \A i \in Creations : creations[i].waiters \in 0..Cardinality(Commands)
    /\ \A c \in Commands : command[c].attempt \in 1..MaxAttempts

\* No session is forgotten: one that runs is the client's, or in the hands of a
\* creation or of invalidate; and when Close has returned none runs.
NoManagerSessionLeaks ==
    /\ alive \subseteq {entry.session} \cup {command[c].stops : c \in Commands}
           \cup UNION {{creations[i].stale, creations[i].created, creations[i].replaced} :
                       i \in Creations}
    /\ closer = "returned" => alive = {}

\* Callers share one attempt: there are never two creations under way for the
\* current manager that a caller waits for.
OneCreation ==
    \A i, j \in Creations :
        Listed(i) /\ Listed(j) /\ i # j /\ creations[i].target = creations[j].target =>
            creations[i].abandoned \/ creations[j].abandoned

\* A command is submitted on a session to the manager its attempt found active,
\* whoever created that session and whatever became of the map since (getSession).
SubmitsToFound ==
    \A c \in Commands : command[c].pc \in {"submit", "pending"} =>
        command[c].on.session # 0 /\ command[c].on.target = command[c].target

\* A command is executed at most once: after a failover it is not submitted to
\* the new manager when the old one executed it.
ManagerCommandOnce == \A c \in Commands : executed[c] <= 1
=============================================================================
