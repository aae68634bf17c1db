------------------------------ MODULE Objecter ------------------------------
(***************************************************************************)
(* How the objecter carries out one operation over a changing cluster      *)
(* (executeRoutedResultInto of src/internal/objecter/client.go): an        *)
(* attempt routes by the client's OSD map, takes a session, registers      *)
(* itself so that the map watcher can cancel it when its route changes,    *)
(* submits, and its answer decides whether the operation returns or makes  *)
(* another attempt, under the same transaction id or a new one.  What an   *)
(* earlier attempt may have done is remembered and joined to every later   *)
(* error.                                                                  *)
(*                                                                         *)
(* A session answers as the modules SessionPeer and OSDSession show: with  *)
(* a reply to the request, with an error of unknown outcome once the       *)
(* request may have reached the OSD, or with a definite error before that. *)
(* The OSDs are external: one handles the requests it received in order,   *)
(* drops those sent before it last became primary, and recognizes by the   *)
(* transaction id a request it has already carried out.                    *)
(***************************************************************************)
EXTENDS Naturals, Sequences, FiniteSets

CONSTANTS
    Ops,            \* operations
    Sensitivity,    \* values of outcomeSensitive: TRUE for mutations, class calls
    OSDs,           \* OSDs that can be primary
    Replies,        \* the replies an OSD gives besides the operation's result
    PrimaryReturns, \* whether an OSD can become primary again
    MaxEpoch,       \* bound on the epoch of the OSD map
    MaxAttempts     \* Config.MaxAttempts

VARIABLES
    cluster,   \* the primary of each epoch, from 1 to the newest
    epoch,     \* the epoch of the client's OSD map
    closed,    \* Client.closed
    op,        \* the operations
    watcher,   \* watchOSDMaps: last epoch, attempts of its pass still to check
    received,  \* the requests each OSD received and has not handled
    log,       \* the transactions carried out, and how often each
    applied    \* how often each operation took effect

vars == <<cluster, epoch, closed, op, watcher, received, log, applied>>
osdVars == <<received, log, applied>>

Primary == cluster[epoch]

\* The epoch since which the newest map's primary has been primary.
PrimarySince ==
    CHOOSE e \in 1..Len(cluster) :
        /\ \A f \in e..Len(cluster) : cluster[f] = cluster[Len(cluster)]
        /\ e = 1 \/ cluster[e - 1] # cluster[e]

Step(o, r) == op' = [op EXCEPT ![o] = r]

(***************************************************************************)
(* The end of an operation.  preserveOutcomeUnknown joins an unknown       *)
(* outcome kept from an earlier attempt to the error returned.             *)
(***************************************************************************)
Idle(sensitive) ==
    [pc |-> "loop", sensitive |-> sensitive, attempt |-> 0, tid |-> 1,
     unknown |-> FALSE, osd |-> 0, at |-> 0, remapped |-> FALSE,
     canceled |-> FALSE, result |-> "none"]

Returned(r, result, unknown) ==
    [Idle(r.sensitive) EXCEPT !.pc = "returned", !.result = result, !.unknown = unknown]

Fail(o, unknown) == Step(o, Returned(op[o], "error", unknown))

\* The next attempt: the loop of executeRoutedResultInto.
Again(o, r) ==
    Step(o, [r EXCEPT !.pc = "loop", !.attempt = @ + 1, !.osd = 0, !.at = 0,
                      !.remapped = FALSE])

(***************************************************************************)
(* Before the submission.                                                  *)
(***************************************************************************)
Cancel(o) ==
    /\ op[o].pc # "returned"
    /\ ~op[o].canceled
    /\ Step(o, [op[o] EXCEPT !.canceled = TRUE])
    /\ UNCHANGED <<cluster, epoch, closed, watcher, osdVars>>

\* The attempts are used up, or the context ended, or no route or session is
\* found: the error returned keeps what an earlier attempt left unknown.
GiveUp(o) ==
    /\ op[o].pc = "loop"
    /\ op[o].attempt = MaxAttempts \/ op[o].canceled
    /\ Fail(o, op[o].unknown)
    /\ UNCHANGED <<cluster, epoch, closed, watcher, osdVars>>

Route(o) ==
    /\ op[o].pc = "loop"
    /\ op[o].attempt < MaxAttempts
    /\ ~op[o].canceled
    /\ Step(o, [op[o] EXCEPT !.pc = "session", !.osd = Primary, !.at = epoch])
    /\ UNCHANGED <<cluster, epoch, closed, watcher, osdVars>>

\* getSessionContext finds the map moved (ErrStaleMap), or fails.
SessionStale(o) ==
    /\ op[o].pc = "session"
    /\ epoch > op[o].at
    /\ Again(o, op[o])
    /\ UNCHANGED <<cluster, epoch, closed, watcher, osdVars>>

SessionFails(o) ==
    /\ op[o].pc = "session"
    /\ Fail(o, op[o].unknown)
    /\ UNCHANGED <<cluster, epoch, closed, watcher, osdVars>>

\* beginRoutedAttempt registers the attempt, then looks at the map again.
Register(o) ==
    /\ op[o].pc = "session"
    /\ IF closed THEN Fail(o, op[o].unknown)
       ELSE Step(o, [op[o] EXCEPT !.pc = "registered"])
    /\ UNCHANGED <<cluster, epoch, closed, watcher, osdVars>>

CheckRoute(o) ==
    /\ op[o].pc = "registered"
    /\ Step(o, [op[o] EXCEPT !.pc = "submit",
                    !.remapped = @ \/ (epoch > op[o].at /\ Primary # op[o].osd)])
    /\ UNCHANGED <<cluster, epoch, closed, watcher, osdVars>>

(***************************************************************************)
(* The submission and its answer.  finishSubmit takes the attempt out of   *)
(* the register in the same step.                                          *)
(***************************************************************************)
Send(o) ==
    /\ op[o].pc = "submit"
    /\ Step(o, [op[o] EXCEPT !.pc = "waiting"])
    /\ received' = [received EXCEPT ![op[o].osd] = Append(@,
           [op |-> o, tid |-> op[o].tid, attempt |-> op[o].attempt,
            epoch |-> op[o].at])]
    /\ UNCHANGED <<cluster, epoch, closed, watcher, log, applied>>

\* MUTANT of AnswerError: what may have executed is sent again under a new
\* transaction id.
AnswerErrorAfresh(o, unknown, recoverable) ==
    IF op[o].sensitive /\ unknown /\ recoverable
    THEN Again(o, [op[o] EXCEPT !.unknown = TRUE, !.tid = @ + 1])
    ELSE Fail(o, op[o].unknown \/ unknown)

\* The branches taken on an error of the submission.  An error of unknown
\* outcome of an outcome-sensitive operation is kept for good.
AnswerError(o, unknown, recoverable) ==
    LET kept == op[o].unknown \/ (unknown /\ op[o].sensitive)
        r == [op[o] EXCEPT !.unknown = kept]
    IN  CASE op[o].remapped /\ ~op[o].canceled -> Again(o, r)
          [] closed /\ (op[o].canceled \/ ~op[o].remapped) -> Fail(o, kept)
          [] OTHER ->
               IF unknown /\ op[o].sensitive
               THEN IF recoverable THEN Again(o, r)
                    ELSE Step(o, [r EXCEPT !.pc = "primary", !.remapped = FALSE])
               ELSE IF op[o].canceled THEN Fail(o, kept) ELSE Again(o, r)

\* An error before the request was handed to the OSD; a saturated queue ends
\* the operation.
NotSent(o) ==
    /\ op[o].pc = "submit"
    /\ AnswerError(o, FALSE, TRUE)
    /\ UNCHANGED <<cluster, epoch, closed, watcher, osdVars>>

Saturated(o) ==
    /\ op[o].pc = "submit"
    /\ ~op[o].remapped
    /\ Fail(o, op[o].unknown)
    /\ UNCHANGED <<cluster, epoch, closed, watcher, osdVars>>

\* MUTANT of Lost: an attempt that was canceled for a remap goes on waiting.
LostUncanceled(o) ==
    /\ op[o].pc = "waiting"
    /\ ~op[o].remapped
    /\ \E recoverable \in BOOLEAN : AnswerError(o, TRUE, recoverable)
    /\ UNCHANGED <<cluster, epoch, closed, watcher, osdVars>>

\* The wait ends without a reply: the session could not reconnect or resume
\* (recoverable), was stopped by another operation's invalidate, or the
\* attempt's context ended.
Lost(o) ==
    /\ op[o].pc = "waiting"
    /\ \E recoverable \in BOOLEAN : AnswerError(o, TRUE, recoverable)
    /\ UNCHANGED <<cluster, epoch, closed, watcher, osdVars>>

\* waitForPrimaryChange, after an unknown outcome on a session that is not
\* known to be gone: another attempt only when another OSD became primary.
PrimaryChanged(o) ==
    /\ op[o].pc = "primary"
    /\ ~op[o].canceled
    /\ epoch > op[o].at
    /\ Primary # op[o].osd
    /\ Again(o, op[o])
    /\ UNCHANGED <<cluster, epoch, closed, watcher, osdVars>>

PrimaryUnchanged(o) ==
    /\ op[o].pc = "primary"
    /\ Fail(o, TRUE)
    /\ UNCHANGED <<cluster, epoch, closed, watcher, osdVars>>

\* The branches taken on a reply.  A redirect or EAGAIN says that the request
\* was not carried out: the error kept is overwritten, and an outcome-sensitive
\* operation goes on under a new transaction id.
NextTransaction(o) ==
    [op[o] EXCEPT !.unknown = FALSE,
                  !.tid = IF op[o].sensitive THEN @ + 1 ELSE @]

AnswerReply(o, reply) ==
    CASE reply = "ok" -> Step(o, Returned(op[o], "ok", FALSE))
      [] reply = "errno" -> Fail(o, FALSE)
      [] reply \in {"eagain", "redirect"} -> Again(o, NextTransaction(o))
      [] reply \in {"malformed", "notDurable"} -> Fail(o, op[o].sensitive)
      [] reply = "oversized" -> Fail(o, FALSE)

(***************************************************************************)
(* The cluster, external: a new map, and an OSD that handles the oldest    *)
(* request it received.  Its reply reaches the attempt if that still       *)
(* waits; a request sent before the OSD became primary is dropped.         *)
(***************************************************************************)
ClusterChange(p) ==
    /\ Len(cluster) < MaxEpoch
    /\ \/ PrimaryReturns
       \/ p = cluster[Len(cluster)]
       \/ \A e \in DOMAIN cluster : cluster[e] # p
    /\ cluster' = Append(cluster, p)
    /\ UNCHANGED <<epoch, closed, op, watcher, osdVars>>

Deliver(request, p, reply) ==
    LET o == request.op
    IN  IF /\ op[o].pc = "waiting"
           /\ op[o].attempt = request.attempt
           /\ op[o].osd = p
        THEN AnswerReply(o, reply)
        ELSE UNCHANGED op

Done(request) == <<request.op, request.tid>> \in log

Drops(p) ==
    /\ received[p] # << >>
    /\ \/ cluster[Len(cluster)] # p
       \/ Head(received[p]).epoch < PrimarySince
    /\ received' = [received EXCEPT ![p] = Tail(@)]
    /\ UNCHANGED <<cluster, epoch, closed, op, watcher, log, applied>>

Accepts(p) ==
    /\ received[p] # << >>
    /\ cluster[Len(cluster)] = p
    /\ Head(received[p]).epoch >= PrimarySince
    /\ received' = [received EXCEPT ![p] = Tail(@)]
    /\ UNCHANGED <<cluster, epoch, closed, watcher>>

Executes(p) ==
    /\ Accepts(p)
    /\ LET request == Head(received[p])
       IN  /\ IF op[request.op].sensitive /\ ~Done(request)
              THEN /\ log' = log \cup {<<request.op, request.tid>>}
                   /\ applied' = [applied EXCEPT ![request.op] = @ + 1]
              ELSE UNCHANGED <<log, applied>>
           /\ \E reply \in {"ok"} \cup
                  (Replies \cap {"malformed", "notDurable", "oversized"}) :
                  Deliver(request, p, reply)

Refuses(p) ==
    /\ Accepts(p)
    /\ ~Done(Head(received[p]))
    /\ \E reply \in Replies \cap {"eagain", "redirect", "errno", "malformed"} :
           Deliver(Head(received[p]), p, reply)
    /\ UNCHANGED <<log, applied>>

(***************************************************************************)
(* The client's map and the goroutine of watchOSDMaps: a pass takes the    *)
(* attempts registered when it starts and resolves each again.             *)
(***************************************************************************)
MapUpdate ==
    /\ \E e \in epoch + 1..Len(cluster) : epoch' = e
    /\ UNCHANGED <<cluster, closed, op, watcher, osdVars>>

Registered(o) == op[o].pc \in {"registered", "submit", "waiting"} /\ ~closed

StartPass ==
    /\ watcher.pending = {}
    /\ epoch > watcher.after
    /\ ~closed
    /\ watcher' = [after |-> epoch,
                   pending |-> {<<o, op[o].attempt>> : o \in {x \in Ops : Registered(x)}}]
    /\ UNCHANGED <<cluster, epoch, closed, op, osdVars>>

\* remapAttempt marks and cancels the attempt if it is still registered.
CheckAttempt(o) ==
    /\ \E n \in 0..MaxAttempts :
           /\ <<o, n>> \in watcher.pending
           /\ watcher' = [watcher EXCEPT !.pending = @ \ {<<o, n>>}]
           /\ IF Registered(o) /\ op[o].attempt = n /\ Primary # op[o].osd
              THEN Step(o, [op[o] EXCEPT !.remapped = TRUE])
              ELSE UNCHANGED op
    /\ UNCHANGED <<cluster, epoch, closed, osdVars>>

\* Close cancels every registered attempt: its wait may end.
Close ==
    /\ ~closed
    /\ closed' = TRUE
    /\ UNCHANGED <<cluster, epoch, op, watcher, osdVars>>

-----------------------------------------------------------------------------
Init ==
    /\ cluster = <<CHOOSE p \in OSDs : TRUE>>
    /\ epoch = 1
    /\ closed = FALSE
    /\ op \in [Ops -> {Idle(sensitive) : sensitive \in Sensitivity}]
    /\ watcher = [after |-> 1, pending |-> {}]
    /\ received = [p \in OSDs |-> << >>]
    /\ log = {}
    /\ applied = [o \in Ops |-> 0]

\* The steps the operation's goroutine takes by itself.
Proceed(o) ==
    \/ GiveUp(o) \/ Route(o) \/ SessionStale(o) \/ Register(o) \/ CheckRoute(o)
    \/ Send(o) \/ PrimaryChanged(o) \/ PrimaryUnchanged(o)

Interrupted(o) == (op[o].remapped \/ op[o].canceled \/ closed) /\ Lost(o)

OSDStep(p) == Drops(p) \/ Executes(p) \/ Refuses(p)

WatcherStep == StartPass \/ \E o \in Ops : CheckAttempt(o)

Next ==
    \/ \E o \in Ops :
           \/ Proceed(o) \/ Lost(o) \/ Cancel(o) \/ SessionFails(o)
           \/ NotSent(o) \/ Saturated(o)
    \/ \E p \in OSDs : ClusterChange(p) \/ OSDStep(p)
    \/ MapUpdate
    \/ WatcherStep
    \/ Close

Spec == Init /\ [][Next]_vars

\* An operation's goroutine runs; a submission whose context ended returns; an
\* OSD handles what it received; the monitors bring the newest map; the watcher
\* runs.  No operation need be canceled, no session need fail.
Fairness ==
    /\ \A o \in Ops : WF_vars(Proceed(o)) /\ WF_vars(Interrupted(o))
    /\ \A p \in OSDs : WF_vars(OSDStep(p))
    /\ WF_vars(MapUpdate)
    /\ WF_vars(WatcherStep)

LiveSpec == Spec /\ Fairness

-----------------------------------------------------------------------------
(***************************************************************************)
(* Properties.                                                             *)
(***************************************************************************)
\* The shape of the state.
ObjecterTypeOK ==
    /\ cluster \in Seq(OSDs) /\ Len(cluster) \in 1..MaxEpoch
    /\ epoch \in 1..Len(cluster)
    /\ \A o \in Ops :
           /\ op[o].pc \in {"loop", "session", "registered", "submit",
                            "waiting", "primary", "returned"}
           /\ op[o].attempt \in 0..MaxAttempts
           /\ op[o].tid \in 1..MaxAttempts + 1
           /\ op[o].result \in {"none", "ok", "error"}
    /\ \A p \in OSDs : Len(received[p]) \in 0..Cardinality(Ops) * MaxAttempts

\* An operation takes effect at most once, however often it is sent again:
\* over a lost session, to another primary, after EAGAIN or a redirect.
AtMostOnce == \A o \in Ops : applied[o] <= 1

\* What the operation returns is true, then and ever after: success means that
\* it took effect, and an error that is not ErrOutcomeUnknown that it did not
\* and will not, although requests of earlier attempts may still be on the way.
OutcomeIsTrue ==
    \A o \in Ops : op[o].sensitive /\ op[o].pc = "returned" =>
        /\ op[o].result = "ok" => applied[o] = 1
        /\ op[o].result = "error" /\ ~op[o].unknown => applied[o] = 0

\* No attempt is left waiting for an OSD that the client's map has replaced:
\* it is marked for another attempt, or the watcher has the map or the attempt
\* still to look at.
NoAttemptLeftBehind ==
    \A o \in Ops :
        op[o].pc = "waiting" /\ Primary # op[o].osd /\ ~closed =>
            \/ op[o].remapped
            \/ watcher.after < epoch
            \/ <<o, op[o].attempt>> \in watcher.pending

AllReturned == \A o \in Ops : op[o].pc = "returned"

=============================================================================
