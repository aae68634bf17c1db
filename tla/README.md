# A TLA+ verification of rados-go

rados-go is a Ceph RADOS client written in Go. This directory holds TLA+ models of its parts, the
TLC configurations that check them on small instances, and TLAPS proofs of safety properties for
instances of any size. `PROJECT.json` maps each definition to the source lines it models and lists
runs, mutants, hazards, findings and theorems. Paths below are relative to `src/`.

## The system and its models

| Part | Source | What it does | Model |
|---|---|---|---|
| Messenger session | `internal/msgr/session.go`, `session_control.go` | One goroutine (`sessionOwner.run`) owns all state of a connection to a daemon: admission, sequences, acknowledgment, handshake, replay, reset, controls. Pumps read, write, connect and renew beside it. | `SessionOwner`, `Session`, `SessionPeer`, `CallService` |
| Frames and transport | `internal/msgr/frame.go`, `secure.go`, `transport.go`, `message.go` | Segments, checksums, secure records and their nonces | `Frames` |
| Receive budget | `internal/msgr/receive_budget.go`, `receive_scratch.go` | Byte budget that the sessions share for what they read | `ReceiveBudget` |
| OSD session | `internal/objecter/osd_session.go` | Requests of one OSD, its backoffs and their acknowledgment | `OSDSession` |
| Table of OSD sessions | `internal/objecter/client.go` | Creation, replacement and invalidation of OSD sessions | `SessionRegistry` |
| Objecter | `internal/objecter/client.go` | Attempts of an operation over map changes, redirects and faults | `Objecter` |
| Mutations | `internal/objecter/mutation.go` | Admission limits, transaction ids, `Flush`, `BeginShutdown` | `Mutation` |
| Watches | `internal/objecter/watch.go`, `coordination.go` | Registration, keepalive, recovery, delivery | `Watch` |
| Object operations | `object.go`, `metadata.go`, `internal/osd/messages.go` | What each method sends, compound operations, errors | `Operations` |
| Listing | `object.go`, `internal/objecter/client.go` | Partitions, cursors and pages of a pool's objects | `Enumeration` |
| Monitor client | `internal/mon/client.go` | Sessions, failover and commands; maps | `MonClient`, `MonMaps` |
| Administration | `admin.go`, `snapshot.go` | Pool, snapshot, application and blocklist operations | `Admin` |
| Manager client | `internal/mgr/client.go` | Commands to the active manager | `MgrClient` |
| Client lifecycle | `client.go` | `Connect`, operations, `Flush`, `Shutdown`, `Close` | `Client` |
| Change broker | `changes.go` | Publishes map and session changes to bounded subscriptions | `ClusterChanges` |
| cephx | `internal/cephx/*` | Tickets, authorizers, renewal | `Cephx` |
| Cluster maps | `internal/maps/*` | Incrementals, shared tables, placement | `OSDMaps`, `Placement` |
| CRUSH | `internal/crush/*` | Rules, validation of the graph, stable modulo | `Crush`, `Placement` |
| Encodings | `internal/encoding`, `internal/*/messages.go`, `internal/maps` and others | A bounded decoder and the layouts it reads | `Wire`, `Formats`, `WireChannel` |

Everything that talks to a daemon does so through a messenger session: the objecter owns one per
OSD, the monitor client one to its monitor, the manager client one to the active manager. The
session is where interleavings, faults and retries meet, and its guarantees (one result per call,
replay under a stable identity, an honest "outcome unknown") are what the parts above it build on.
A model of a part above takes the part below as what that one was shown to promise: `OSDSession`
has an abstract messenger that fails, resets and reconnects; `Objecter` has sessions that answer
truthfully, with "unknown" or with a definite error; `Admin` has maps that arrive in order, as in
`MonMaps`; `Client` has parts that run or are closed.

## The models

### The messenger session

**`SessionOwner`: the owner's methods.** The Go type `sessionOwner` is one record, and each method
is an operator from an owner to the owner it leaves (`HandleFault`, `HandleConnected`,
`HandleFrame`, `Submit`, `Cancel`, `Dispatch`, `Stop`, ...). A request is the number of its
admission, so the linked list of pending requests is a set in numeric order. Some fields are not in
the Go struct: `handed` and `wire` are history (what was ever given to a write pump, and what was
written on this transport), `writing` and `connecting` are the tasks the write pumps and the
connector hold, and `stuck` is set when the owner sends on an unbuffered channel whose receiver is
not waiting. Left out, because the owner never reads them back: events, diagnostics, the reset
signal, addresses, features and credentials. A message weighs one byte, so the byte limits are
limits on numbers. Encoding errors in `dispatch` do not occur (admission has validated the
message), random cookies are fresh numbers, and `StateWait` is passed within one handler.

**`Session`: the goroutines.** Callers (`CallSubmit`, `CallCancel`, `CallReturn`, ...), pumps
(`ReadPump`, `WritePump`, `Connected`, `RenewalDue`) and timers. One owner step is one iteration of
`run`: one case of its `select` and the `dispatch` before the next `select`, which no other
goroutine can observe apart from each other. A write pump of a transport that is gone may still
finish, late; a read pump's late frame is dropped by its generation and is covered by `TakeFrame`'s
guard. The peer is unconstrained: any frame of `PeerTags` with any number may be read at any time,
so the safety properties hold against every daemon. Calls are made in the order of their numbers,
which loses nothing because they are alike.

**`SessionPeer`: with a daemon.** The arbitrary peer is replaced by one that keeps messenger v2.1
the way the session expects (external to this repository): it numbers and acknowledges messages,
drops sequences it has seen, replays what is not acknowledged after a reconnect, and answers an
unknown cookie with a reset, partial or full. Connections are FIFO until they break, and then lose
what is under way.

**`CallService`: the promise.** Without transports, sequences, replays or resets: a call is executed
at most once, gets one result that never changes, and the result tells the truth about the
execution. `ImplementsCallService` states that `SessionPeer`, with a daemon that does not forget its
sessions, implements it, under the mapping that ends `SessionPeer`.

### The object layer

**`OSDSession`.** Callers of `SubmitTarget`, the goroutine `receive` and the goroutine `sendACKs`
take steps of one critical section each (`session.mu`, `ackMu`). The messenger below is abstract
(`raw`): a lossy connection with a control generation that each fault raises. A fault fails what was
sent, fails what was not as well (a lossy connection) or keeps it (before the daemon is identified),
signals a reset, and drops what is undelivered or not, by its configuration. Answers to requests do not pass through `Incoming`, so they may overtake backoff
messages and be overtaken. The OSD is external: it drops a request in a range it has blocked, and
may block, unblock, share a map or notify a watch at any time. `receive` takes a message
(`TakeIncoming`) and handles it (`HandleIncoming`) in two steps, because a fault may come between.
A backoff's range is a set of objects of one placement group. The reference counts of waiters and
the capacity of `ackWake` are left out: they decide when a map entry is deleted and whether a wakeup
is repeated, and every waiter looks again after each one.

**`Mutation`.** `client` is the record of the fields that mutations share, and each action is what
one goroutine does under one hold of `client.mu`: `BeginMutation`, `AdmitMutation` (one turn of the
admission loop), `CompleteMutation`, `BeginFlush`, `CheckFlush`, `TakeTransaction` (ids taken by
reads), `BeginShutdown`, `Close`. The channel `mutationChanged`, closed and replaced, is the step
from "blocked" to "woken"; someone woken may still be overtaken by their context. A payload is its
number of bytes; its copies, their cache and the leases are left out. Ids wrap at `MaxUint64`.
`history` records what was admitted before each `Flush` and which outcomes were unknown.

**`Objecter`.** The loop of `executeRoutedResultInto`: an attempt routes by the client's map, takes
a session, registers so that the map watcher can cancel it, submits, and its answer decides whether
the operation returns or tries again, under the same transaction id or a new one. The OSDs are
external: one drops requests sent before it last became primary and recognises by its id a request
it has carried out. With `PrimaryReturns = FALSE` no OSD loses an object and gets it back within
one map update, and no reply exceeds its budget (see *Observations*).

**`Watch`, `Operations`, `Enumeration`.** A watch has a keeper goroutine (keepalive, recovery), the
goroutine that forwards to the caller, and `Close`; the OSD notifies it or tells it that it was
disconnected, and the `Close` of the whole client stops it and waits for its goroutine. `Operations`
follows every method of `object.go` and `metadata.go` to the request it builds and the error it
returns, with write snapshot contexts in and out of order, and lets goroutines share a `ReadOp` or
`WriteOp`. `Enumeration` lists partitions page by page while objects come and go
and groups split.

### The services

**`SessionRegistry`** is the table of sessions for one OSD (entries of two OSDs do not interact) with
creations outside the lock, the map watcher and `Close`. **`MgrClient`** is the same for the manager
and its commands; `invalidate` forgets a session under the lock (`Invalidate`) and stops it
afterwards (`Invalidated`), and only then is the outcome of a withdrawn submission looked at.
**`Cephx`** holds tickets, renewals and authorizers, with connections that are made again when a
renewal is due, the transport breaks or an attempt failed; encryption is symbolic, and a peer is
honest, stale (it repeats an earlier answer) or foreign (it has other keys). **`MonClient`** is the
life of the monitor client: `Connect`, the goroutine that keeps a session and fails over, commands,
`Close`; a session that `start` opened for a client that was closed meanwhile is stopped after
`startDone` (`StartAbandons`). **`MonMaps`** is what it makes of the messages: a map is its epoch, its cluster and
the set of epochs whose changes went into it. **`Admin`** is what an administrative operation makes
visible in the map its caller reads. **`Client`** is any number of goroutines that call `Connect`,
operations, `Shutdown` and `Close`. **`ClusterChanges`** is the broker, with a subscriber that reads
the state and then applies changes.

### Maps, placement and encodings

**`OSDMaps`** has a heap of tables: a snapshot made by an incremental shares each table it does not
touch, so an assignment without a clone is seen through older snapshots. **`Crush`** runs the loops of
FIRSTN and INDEP over an arbitrary choice function whose values are fixed when first asked for.
**`Placement`** asks for the group of a hash, the validity of a graph, or the primary of a group, and
compares the answer with what it must be. **`Wire`** is the decoder with its limits on input, counts
and nesting, **`Formats`** one layout per decoding function under the function's name, and
**`WireChannel`** encodes a value, cuts, extends or corrupts it and decodes it. A fixed-width field is
one cell. In **`Frames`** a checksum or tag is one cell that holds what it covers, so it fits nothing
else. **`ReceiveBudget`** takes the steps of a secure read in their order. A frame is then with the
read pump of its transport, in the channel to the owner, with the owner, or with who received the
message; a session that loses its transport gets another while the old pump may still hold a frame.

## Runs

| Run | Module | Properties | Question |
|---|---|---|---|
| `session_handshake` | `Session` | `NeverStuck`, `CurrentGeneration`, `AckReserve` | Every frame in every handshake state, renewal and a changed identity |
| `session_control` | `Session` | `OneResult`, `Accounting`, `Reconnecting`, `DefiniteFailures`, `OwnerConsistent` | The monitor client's policy; requests, one-way messages and controls at their limits, with cancellation |
| `peer_replay` | `SessionPeer` | `SentIsCovered`, `AscendingWire`, `ImplementsCallService` | Broken connections to a daemon that keeps its state |
| `peer_reset` | `SessionPeer` | `DefiniteNotExecuted`, `EveryCallReturns` | A daemon, lossless or lossy, that restarts |
| `session_outcome` | `Session` | `OutcomeUnknownReported` | Finding 1 |
| `osd_fault` | `OSDSession` | `NothingForgotten`, `AckSafe`, `EveryCallReturns` | Backoffs, and a transport that is lost around them |
| `object_layer` | `MCObjectLayer` | `FlushCovers`, `NoLostWakeup`, `DistinctTransactions`, `OperationsSafe`, `WatchSafe`, `EverythingEnds` | Mutations and `Flush`; an operation whose primary changes; a watch that loses its connection, primary, caller and client |
| `monitor_layer` | `MCMonitorLayer` | `MapsSafe`, `GenerationCoversTransitions`, `MonitorSafe`, `ClientSafe`, `EverythingSettles` | Maps of failing monitors; sessions and commands; `Connect`, `Close` and `Shutdown` at once |
| `services` | `MCServices` | `RegistrySafe`, `ManagerSafe`, `TicketsSafe`, `TicketsAdvance` | Shared creation of OSD and manager sessions; connections that overlap, tickets that expire, peers without keys |
| `manager_once` | `MgrClient` | `ManagerCommandOnce` | Finding 2 |
| `maps` | `MCMaps` | `SnapshotsMatch`, `PlacementSafe`, `ChangesSafe`, `ListingSafe`, `PoolChangeIsVisible` | Snapshots, placement, subscribers, listings, administration |
| `wire` | `MCWire` | `RequestsSafe`, `EncodingSafe`, `FramesSafe`, `BudgetSafe` | Operations, encodings, frames and the memory for them |

The `MC` modules put models that do not share state side by side: a behaviour is one of one of them,
chosen by `part`, and the variables of the others stand still. A property of such a module speaks of
the part it names, and the run checks each part as it would alone.

**Bounds.** The head of each `.cfg` says what its numbers allow.

* Sessions: `MaxRequests` is two where requests meet (one is enough to overtake, block or outlive
  the other) and one where only the handshake matters. `MaxGeneration` is 3 or 4 with an arbitrary
  peer: every attempt and every fault raises it, which leaves room for two transports and a failed
  attempt between them; with the daemon, `MaxFaults` and `MaxRestarts` are the real bounds.
  `MaxUint64` is 2 with an arbitrary peer, so that sequences and ids run out, and 9 with the daemon,
  where they do not.
* `osd_fault`: one caller, one backoff and two transports let an acknowledgment outlive its
  transport, a block end between a check and a wait, and a dropped request outlive its block.
* `object_layer`: with three mutations one is refused for its bytes, one for the number of places,
  and one is admitted after the watermark of the `Flush`; with three epochs and two OSDs an operation
  moves to another primary under way (it does not move back: see `PrimaryReturns`); with two faults a
  watch is lost while it recovers.
* `monitor_layer`: three epochs are the least with a gap; four sessions fail over twice and close.
  Two of each caller of the client meet each other.
* `services`: two callers share a creation; a ticket lives 4 units so that its renewal is due before
  it ends, and time goes on to 6; the callers are alike, which the symmetry uses.
* `maps`, `wire`: sizes around each limit, and as many elements as it takes for one to be before,
  between and after others. The receive budget has two sessions with one transport each at once, or
  one session with two transports in turn.

`CHECK_DEADLOCK FALSE` stands where the bounded system really ends: all calls have returned, the
session is stopped, the question is answered.

**Fairness.** A goroutine that can run does: Go's scheduler and blocking channels guarantee this.
`SessionPeer` assumes the least, that as long as some goroutine, the daemon or the connection can take
a step one of them does (weak fairness of `Progress` with its `ENABLED` written out as
`CanProgress`). The others have weak fairness of each goroutine and of the external daemons' answers.
Strong fairness stands where Go chooses at random among the ready cases of a `select`: the resets and
the end of the messenger in `OSDSession`, the timer in `MonMaps`. In `Mutation` a mutation that runs ends
(it has a deadline or its session settles it). In `Client`, what waits on a daemon ends when the
client's lifetime is cancelled. Faults, cancellations and closing need not happen.

**Mutants.** Each property of a passing run has an operator in the modules that is a plausible slip in
the definition it replaces (a dropped reset, a missing guard, a swapped order), under which TLC
finds that property violated. No specification uses them.

## Findings

1. `session_outcome` (`OutcomeUnknownReported`). A request was written, its transport broke, it waits
   for its replay, and its context is done. If `dispatch` meets it before the caller's cancel command
   does, it returns the plain context error (`internal/msgr/session.go:880-888`) although the request
   may have executed. `docs/p01/api-contract.md:90-92` promises an error that matches
   `ErrOutcomeUnknown`. `cancel` and `failAll` keep the promise.
2. `manager_once` (`ManagerCommandOnce`). The active manager changes while a command waits for its
   reply. `submitPendingAware` withdraws the submission, takes its result and retries unless that is
   `ErrOutcomeUnknown` (`internal/mgr/client.go:249`), so a reply that had arrived is thrown away and
   the command is submitted to the new manager. The test at `internal/mgr/client_test.go:177` says that
   a command must not be retried when its outcome is unknown; one with a known outcome is.

### Observations

Met while modelling; no run asks for them.

* After `dispatch` has settled a cancelled request it returns without looking at the next, which waits
  for an unrelated event (`session.go:886`). `NoIdleWriter` has this in its hypothesis, and
  `EveryCallReturns` is run without cancellation.
* `handleFault` marks the requests of the replay list unsent before the reconnect, so that acknowledged
  ones are written again (`session.go:1362`), while `docs/p02/security.md:31` says they are trimmed. The
  daemon drops the duplicates by their sequence; `ImplementsCallService` covers it.
* The error of a watch that overflowed can be lost: `forward` may see `Done` before `Errors`
  (`coordination.go:165-175`, `docs/p09/provenance.md:11`).
* An application or blocklist change waits for a map newer than the present one, not for the one its
  command made (`admin.go:310-316`, `docs/p01/public-api.md:237`): it may return before it is visible,
  or, with nothing changed, wait for an unrelated map.
* `Close` of the monitor client may return while `start` is still about to stop the session it opened
  (`internal/mon/client.go:253-257`, `267-289`): `NoSessionLeaks` counts that session as `start`'s.
* A full map that was asked for stays asked for when the request is lost with a transport that the
  session replaces by itself (`internal/mon/client.go:831-836`). A client that is two or more epochs
  behind then waits for a failover or a newer map; `EverythingSettles` exempts it (`Orphaned`).
* An invalid `WithWriteSnapshot` is refused by `mutate` (`object.go:443`) but not by `executeWrite`
  (`metadata.go:360`) nor by reads: these are admitted, take a transaction id, and fail in
  `encodeRequest` (`internal/osd/messages.go:182`). Nothing is sent.
* The allowance of three first records per session is for "the active decoder, read-ahead frame, and
  owner-held frame" (`internal/msgr/receive_budget.go:18`). A read pump that is held up with a frame
  over a whole reconnect has a fourth, the next read is refused (`receive_budget.go:208`) and the
  session fails (`session.go:713`). `AllowanceSuffices` has this in its hypothesis.
* A primary that names an object twice in one page has it listed twice
  (`internal/objecter/client.go:757-762`); the primaries of `Enumeration` do not.
* Two pools that exchange names in one incremental: the result follows Go's map order
  (`internal/maps/incremental.go:273`). A full map with a duplicate pool id keeps the last
  (`osdmap.go:167`).
* An OSD that loses an object and gets it back within one map update ignores the request it was sent
  before, and nothing cancels the attempt (`docs/p13/tasks.md:106`); `PrimaryReturns` excludes it. A
  reply above the budget ends an operation with a definite error (`internal/objecter/client.go:605`).
* A creation that read the older map may be published after `invalidateUnusableSessions` looked; such a
  session stays until the next map (`docs/p13/README.md:30`).
* `SplitCursor` and cursors at the end of a pool are outside the contract of listings
  (`docs/p01/public-api.md:254`).

## Proofs

| Module | Content |
|---|---|
| `SessionOwnerProofs` | The invariant `Inv` of the owner, and that its building blocks (settling, failing, replaying, queueing, reconnecting) keep it |
| `SessionHandlerProofs` | That each handler and `Dispatch` keeps it |
| `SessionProofs` | The invariant `SInv` of the session and four theorems |
| `SessionBooksProofs` | The invariant `SBooks` of the owner's books, a lemma per method, and four theorems |
| `OSDSessionProofs` | The invariant `OSDInv` and two theorems |
| `MutationProofs` | The invariant `Inv` of the client's mutations and three theorems |
| `ClientProofs` | The invariant `Inv` of a client's life and its theorem |
| `AdminProofs` | The invariant `AdminInv` and its theorem |

Each theorem is `Spec => []P` for a property `P` that a run checks (`DistinctTIDs` is a conjunct of one),
for every value of the constants that meets the named `ASSUME`s of its module; these say that limits
are natural numbers and enumerated sets are of the right kind.

**The session: who acts next** (`SessionProofs`, any number of calls, all limits and policies, an
arbitrary peer).

* `NeverStuckAlways`: the owner never blocks on `connectorRequests` or `writeTasks`.
* `OneResultAlways`: each admitted call is pending or has exactly one result.
* `ReconnectingAlways`: without a transport, the connector is at work or the session has given up and
  holds nothing.
* `CurrentGenerationAlways`: scoped controls and unread messages do not outlive their transport.

None of these is inductive alone. The owner does not block on the connector because `connectPending`,
the connector's task and the generation agree; it does not block on a write pump because `writeBusy`
agrees with the task or the unread result of the *current* generation, and tasks of older generations
are told apart by theirs. Results are sent once because the pending set, the callers' states and the
results agree in both directions. `Inv(o, called, done)` states this of an owner, the calls that reached
it and the unread result of a write pump. The same `Inv` is kept by each method, and `SInv`
instantiates it with the session's variables.

**The session: its books** (`SessionBooksProofs`, under the same assumptions).

* `AccountingAlways`: `inFlight`, `controlCount` and `retainedBytes` are the sizes of what the owner
  holds and stay within the limits, so that no path leaks an admission slot.
* `DefiniteFailuresAlways`: an error without `ErrOutcomeUnknown` is given only to a message no write pump ever
  had, with the two exceptions the property names.
* `AckReserveAlways`: when the acknowledgment timer fires there is room for its frame.
* `DistinctTIDsAlways`: a reply completes one request.

`Good(o, called)` joins four statements about an owner: `Counted` (counters are cardinalities, and what
was sent is pending), `Honest` (what was handed to a pump is marked as possibly executed while it is
pending, and results tell it), `Distinct` (ids), and `Reserve` (a pending acknowledgment leaves a place
in the queue). `DefiniteFailures` needs `Honest` because `prepareReplay` takes a
request off the sent list that was written before; `Accounting` needs that `failAll`, which sets the
counters to zero, settles all that is counted; `DistinctTIDs` needs that the search of `takeTID`
finds an id that is not pending, which is a least-element argument over the naturals. Most methods
change none of the fields concerned: `SamePage` says so, and `PageBooks` carries the books over.

**The OSD session** (`OSDSessionProofs`, any callers, objects, ranges, backoff ids, limits and faults).

* `NothingIsForgotten`: `NothingForgotten`. A request the OSD dropped is covered by a block that the
  session knows or will read, and nobody sleeps through the end of a block.
* `AcknowledgmentsAreSafe`: `AckSafe`. Backoffs are of the present transport, acknowledgments stay
  within their reserve and on the transport they answer, and a late failure does not end the session.

Blocks and unblocks are in flight while requests are dropped, so what the session will know follows
from the order of the messages. `Ordered(q, g, K, B)` says it of the messages `q` on their way, the
generation `g`, the known backoffs `K` and the OSD's blocks `B`: between two blocks of an id is its
unblock (`Alternate`), what the OSD blocks is known or on its way and its end is not (`Announced`),
and what it no longer blocks has its end on its way (`Retracted`). A lemma for each step (send, take,
lose all, lose none) says how it is kept; the rest of `OSDInv` ties requests, wakeups and
acknowledgments to it.

**Mutations** (`MutationProofs`, any number of mutations and flushes, all limits).

* `FlushIsComplete`: `FlushCovers`. A successful `Flush` has waited for all that was admitted before it.
* `WakeupsAreNotLost`: `NoLostWakeup`. Nobody sleeps while what they wait for is there.
* `TransactionsAreDistinct`: `DistinctTransactions`. No two mutations share an id.

`FlushCovers` needs that sequences of admitted calls are distinct, at most `nextMutation`, and pending
exactly while the call runs (`Sequenced`); that `unknownMutation` is the least sequence with an unknown
outcome (`Unknowns`); and that the watermark of a `Flush` separates what came before it from what came
after (`Watermarks`). Ids are distinct because they lie below `nextTransaction`, which stops short of
wrapping (`Transactions`).

**The client** (`ClientProofs`, any number of callers). `ClosedClientIsQuiet`: `ClientSafe`. When `Close`
has returned nothing runs, and until then every part that was started is a field of the client, in the
hands of the `Connect` that made it, or among what a closer took. The invariant adds that one `Connect`
is past the gate and one closer closes (`OneAtATime`), what each holds at each point (`Hands`), what the
fields are while a `Connect` is under way (`Fields`), and that numbers of attempts are fresh (`Numbered`).

**Administration** (`AdminProofs`, any calls, maps and lost sessions). `PoolChangesAreVisible`:
`PoolChangeIsVisible`. `AdminInv` says at each point of a call that the map of the epoch it was answered
with shows the change, and keeps this as maps are added (`KeptGrows`).

### What is only model-checked

* Liveness (`EveryCallReturns`, `EverythingEnds`, `EverythingSettles`): fairness is out of the prover's reach.
* `ImplementsCallService`, `SentIsCovered`, `DefiniteNotExecuted`: properties of the session with a
  daemon. `AscendingWire`: its invariant is about the order of the replay list and is not written
  yet. `TypeOK` and `NoIdleWriter`, conjuncts of `OwnerConsistent`: the provers do not type `SelectSeq`,
  with which queues are filtered.
* Everything of the modules without a proof module: `Objecter`, `Watch`, `Operations`, `Enumeration`,
  `SessionRegistry`, `MgrClient`, `Cephx`, `MonClient`, `MonMaps`, `ClusterChanges`, `OSDMaps`, `Crush`,
  `Placement`, `Wire`, `Frames`, `ReceiveBudget`. `Wire` and others compute by recursion over data, on which the
  provers have no induction; a least-element argument (lemma `Least`) is within reach and is used where
  it suffices.
* The invariant `SBooks` quantifies over all sets, which TLC cannot evaluate; the properties it implies are
  those of the runs.

## What is not modelled

DNS and `ceph.conf` parsing, keyring parsing, configuration checks, feature bits and errno names, the
CRUSH logarithm tables: input and constants without state. The banner exchange. `OSDCommand` and
`PGCommand`, which repeat the attempt loop of `Objecter` with fewer outcomes. `Notify` and advisory
locks, except for their layouts. The cache of mutation payloads. Events, diagnostics and counters that
nothing reads back. Tools, probes and examples.

## Running

    tlc -workers 2 -config MCSessionControl.cfg Session
    tlapm SessionBooksProofs.tla
