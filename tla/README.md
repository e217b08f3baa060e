# A TLA+ development of hermes-mesh

hermes-mesh is a messaging plugin: every agent runs a gateway process, and a
gateway sends a message by an HTTP POST to the gateway of its recipient. All
gateways of a host share a few JSON files under `~/.hermes/fleet/mesh`. The
interesting behaviour is in how many processes work on those files and on
messages that may be lost, late, repeated or refused. This directory models
that behaviour, checks it with TLC and proves its main invariants with TLAPS.

- [Inventory of the system](#inventory-of-the-system)
- [The modules](#the-modules)
- [What the runs check](#what-the-runs-check)
- [What is proved](#what-is-proved)
- [Where code and documentation disagree](#where-code-and-documentation-disagree)
- [Assumptions and what is not modelled](#assumptions-and-what-is-not-modelled)
- [What could come next](#what-could-come-next)

## Inventory of the system

| component | state | operations | how it interacts |
|---|---|---|---|
| `open_threads.py`, lease registry | rows of `open-threads.json`: id, opener, peer, expiry, resized | `claim`, `touch`, `release_if_party`, `release_if_party_status`, `lease_for` | every operation but `lease_for` is a read-modify-write under a file lock; called by each gateway's `handle_mesh_send` |
| `threads.py`, closed-anchor registry | entries of `closed-threads.json`, each pending or real; a cache of them | `record`, `promote`, `withdraw`, `is_closed` | written by sender, recipient and outbox reapers |
| `session_relay.handle_mesh_send` | local variables of one call | guard, gate, checks, pending close, delivery, rollback or bookkeeping | calls both registries, the delivery, the outbox and the notifications |
| `session_relay._deliver_webhook` | attempt number, deadline, last exception | up to three POSTs over the resolved addresses | talks to the recipient's `_handle_mesh` |
| `outbox.py` | one file per undelivered message, dead-letter folder | `queue_message`, `retry_outbox` | one reaper thread per gateway, all over one directory |
| `adapter.MeshAdapter` | seen message ids, rate buckets, inbox (256), tasks | `_handle_mesh`, processor loop, reaper loop, `connect`, `disconnect` | one event loop; runs agent turns one by one |
| delivery-status notifications | none | `_send_delivery_error`, `_send_receive_dsn` | a message sent because another one failed |
| `identity.py`, `auth.py`, `registry_bridge.py` | identity files, a cache, key files | lookup, register, deregister, sync | resolve targets and keys for sends and checks |
| `float.py` | rate and wall budget of one call | chunk a text, post the parts | best-effort copy to Telegram |
| `common.py`, `network.py`, `__init__.py`, `scripts/` | metrics | token validation, plugin set-up, one-shot tools | helpers |

What makes each one correct, and what is hard about it:

- **Leases.** A recipient talks to one third party at a time, two agents share
  one thread whoever opened it, an agent has at most three outbound threads, and
  no lease is held for ever. Hard: concurrent claims from several processes, a
  clock read before the lock, message ids chosen by callers, expiry in the middle
  of an operation, crashes, a damaged file and fail-open degradations.
- **Closes.** A thread is closed exactly when a terminal message (`reply=end`)
  arrived; while one is in flight it reads as closed; a failed one leaves it open;
  a real close is never undone. Hard: sender, recipient and reapers settle the
  same anchor; answers are lost; copies arrive late; gateways die in between.
- **Delivery.** An outcome never claims more than the answers prove, and a
  delivery ends within its budget. Hard: timeouts, several addresses, retries.
- **Outbox.** Every message is delivered or dead-lettered. Hard: two reapers on
  one file, a crash between delivery and unlink, an item that raises.
- **Inbound.** No message is taken twice, an accepted one is handled, a refused
  one can be retried. Hard: replay windows, a full inbox, restart and shutdown.
- **Notifications, identity, float.** No notification answers a notification; no
  key is replaced by accident; no character is lost or entity split.

`PROJECT.json` lists the hazards at their lines, with the property that watches
each one or the reason why none does.

## The modules

`OpenThreads` holds the operations on lease rows as pure operators: what `claim`
asks of the rows (`PairRows`, `BusyRows`, `OutboundRows`), what it writes
(`NewLease`), `Touched` and `ReleaseIfParty`. The file's list becomes a set, so
"the first row that matches" is "some row that matches"; time is counted in units
of a lease.

`LeaseGate` runs them. Its state is the clock, the rows, whether the file is
readable, and for each slot of `Calls` a program counter and the local variables
of one `handle_mesh_send` call, in any gateway process. The actions follow the
function:

| action | code |
|---|---|
| `AskInThread`, `Ask`, `End` | a validated call reaches the gate, `reply` yes or end; `lease_for` without the lock; `_now()` before the lock of `claim` |
| `AskDamaged`, `MoveAside` | `lease_for` reads a corrupt file, and moves aside whatever stands there a step later |
| `ClaimTraffic`, `ClaimBusy`, `ClaimCapped`, `ClaimNew` | the four answers of `claim`, each one locked step |
| `EarlyReturn` | invalid session, unresolvable target or sender, after the claim |
| `Delivered`, `NotDelivered` | the outcome of `_deliver_webhook`, and the branch of the outbox |
| `Rollback`, `Touch`, `Release` | the locked bookkeeping steps; an end without `thread` probes `ref`, the delivery id of the answer and its own id in turn |
| `Degrade`, `Corrupt` | a lock or write fails; the file is damaged |
| `Crash`, `Tick` | a gateway dies; time passes |

The clock a step works with was stored by an *earlier* step, as in the code. The
merge branch of `claim` (438-442) has no action: the pair check before it already
returns for every row it could match. A notice (`reply=no`) touches no lease.

`lease_for` works without the lock, so its backup of a corrupt file
(`open_threads.py:87-93`, 479) may hit the good file that a locked operation of
another process has written meanwhile; the live leases in it are gone.
`OnlyPartiesRelease` names that as its one exception. (The backup itself is
`mesh_core`'s; the model lets the move take the file or leave it.)
`RefusalsAreJustified` says on what ground a single message is refused; two agents
that are both busy with third parties refuse each other rightly, and for how long is
`LeaseLifetime`'s matter.

`Doors` is the abstract specification: each agent has a door, at most one other
agent stands in it, and nobody takes over an occupied door. `LeaseGate` maps the
live rows to doors (`doorHolder`) and implements it (`ImplementsDoors`).

`ClosedThreads` holds the four functions of `threads.py` as maps on one anchor's
state: open, pending, closed. `Terminator` runs them for terminal messages: the
workers are the live sends and the outbox reapers, the registry files are the
sender's and the recipient's (one file when `SharedRegistry`), and a message may
have a copy on the wire whose worker still waits (`copy`) and abandoned ones
(`late`). `SendEnd`, `RecordPending`, `Post`, `Confirmed`, `NoAnswer`, `Promote`,
`Withdraw` and `Enqueue` are the live send; `Pick`, `DropClosedRef`, `Unresolved`,
`Unlink`, `Reschedule`, `DeadLetter` and `Raise` are a reaper, which shares the
delivery steps; `Arrive` and `ArriveLate` are the recipient's handler, `Lost` the
network, `Forget` the eviction or loss of the seen-set, `Crash` a gateway's death or
a write that fails.

The outbox writes its files in place (`outbox.py:105-106`, 319-323) and without a
lock: `Enqueue` and `Reschedule` only open the file, which empties it (`torn`), and
`Dump` fills it. In between a worker may die, another reaper may open the same file
too and leave a mixture, or the file may be unlinked or moved to `dead/` under the
writer, who goes on writing to it there (`hand`). A file that is not JSON is passed
over by every sweep (265-266), so what it held is lost: `Pick` needs a whole one.

`Closing` is what the two registries promise: a commitment in two phases, in which
the sender promises a close, may withdraw it, and makes it real only when the
recipient, which closes first, has taken the terminator. `Terminator` maps each side's
file and the landed messages to it (`ImplementsClosing`).

A crash, a raising delivery or a failing file operation sets the history variable
`faulty`, on which the properties that a fault really breaks are conditional.

`Delivery` is one call of `_deliver_webhook` with its clock, which `Terminator` and
`Notices` abstract to "answered or not".

| action | code |
|---|---|
| `OutOfTime`, `StartAttempt` | top of the loop; the attempt's timeout is full, then what remains, and at least a second |
| `Continue`, `NoAnswer` | the socket operations on one address: TCP connect, TLS handshake, sends, each read; every one may take the whole timeout, or fail |
| `Accepted`, `Refused`, `Garbled` | what `_pinned_request` and `json.loads` make of the answer |
| `NextAddress` | the loop over the resolved addresses, which goes on after *every* error, a refusal included, and keeps the last exception only |
| `Retry`, `GiveUp` | the `except` clause: extension, sleep, reason |

`Inbound` is the receiving side of one adapter. A request is an id and the time it
was stamped; a retry of the outbox is the same id stamped anew, a repetition the
same copy. `Receive` checks the stamp, then the request waits in `handling` for
its signature; `Reject`, `Duplicate`, `Accept` and `Busy` are what the code does
after that `await`, in one step because there is no other. `Take`, `EndTurn` and
`Resume` are the processor loop. `Disconnect`, `WaitedLongEnough`,
`ProcessorGone` and `Cleanup` are the awaits of `disconnect`, with the one
cancellation that `wait_for` sends and the places where the code takes it for the
turn's; `Connect` reuses the adapter, `Restart` begins a new process.

`Registration` is the identity of one agent as several gateways of a host see it:
the identity file, which is truncated by `Open` and filled by `Dump` and may be torn
between or by two writers, the keypair file, and a cached lookup in each gateway.
`Register`, `UseExisting`, `KeyTrapGuard`, `Mint`, `DryRun`, `Exists` are
`_register_one` in its order; `Sync` and `Deregister` are the other tools; `Sign` is
any send, which generates a missing pair; `Lookup` fills caches, `Refresh` empties
them; `Crash` and `Lose` are the faults. Sends honour `private_key_path`
(`auth.py:29-31`): a gateway in `Configured` signs with a pair of its own (`OwnKey`),
while registrations look at the default one only. A call's flags are chosen where the code
first looks at them, which changes no behaviour and saves states. The histories
`behind` and `outdated` say which cache, and which decision, is older than the
file's last write.

`Notices` composes gateways that notify each other. Each has an event loop, which
answers requests, and a worker for tool calls and the reaper. `Refuse` is the point
of the module: a refused request without the header makes the *loop itself* deliver
a notice, so it answers nobody, its asker included, until that delivery has ended
(`Rest` then answers the asker). `Send`, `FailedLive` and `DeadLetter` notify from
the worker, the asker if the message was a reply (`Told`); `Queue` loses the header,
as `queue_message` does; the outbox is one directory, of which every gateway's
`Sweep` takes any item, one that another reaper is delivering included;
`DropClosedRef` drops a reply to a closed thread; `Timeout` is the socket timeout of
whoever waits.

The `MC*` modules give the constants small values; `*_proofs`, `LeaseGate_steps` and
`Terminator_closing` hold the theorems. Definitions whose comment calls them mutants are wrong on
purpose: each breaks one property and shows that the property can fail.

## What the runs check

| run | instance | shows |
|---|---|---|
| `lease_races` | 3 agents, 1 id, 2 calls, cap 1, leases of 1 or 2 units, clock to 2, I/O faults | `TypeOK`, `OneThreadPerRecipient`, `OneThreadPerPair`, `OutboundCap`, `LeaseLifetime`, `OnlyPartiesRelease`, `RefusalsAreJustified`, `ImplementsDoors` |
| `terminator` | 1 message, 2 reapers, 2 posts per delivery, 2 attempts, crashes, raising deliveries and failing file operations, fair | `TypeOK`, `ClosedInFlight`, `NothingStaysPending`, `NoGhostClose`, `LandedIsClosed`, `ClosesAreFinal`, `OutboxLosesNothing`, `ImplementsClosing`, `OutboxDrains` |
| `delivery` | 2 addresses, 3 operations on each, 3 attempts, 3 s timeout in half seconds, sleeps that last longer, fair | `TypeOK`, `Ceiling`, `SilenceIsRetried`, `RetryIsNotStarved`, `NeverGoesBack`, `Returns` |
| `inbound` | 2 ids, 2 requests at a time, window 1, cap 2, inbox 2, 3 accepted messages, time to 2, 1 disconnect or crash, fair | `TypeOK`, `SeenHasEntered`, `Remembered`, `ReplayNeedsAWait`, `Serves`, `StopsWithRoom` |
| `registration` | 2 gateways, one of them with a `private_key_path`, 2 minted keys, fair | `TypeOK`, `SignaturesVerify`, `MintsOnlyUnseen`, `OverwritesOnlyUnseen`, `RotatesOnlyForeign`, `Forgotten` |
| `notices` | 2 gateways, 1 message, a reply or not, notices of depth 2, outbox on or off, fair | `TypeOK`, `RefusalsDoNotChain`, `NoticesOfQueued`, `LoopsResume` |
| `lease_rollback`, `lease_resize`, `terminator_shared`, `terminator_reapers`, `inbound_shutdown`, `registration_rotate` | similar | one violated claim each, see below |

Why the bounds are enough.

- *Leases.* Three agents are a recipient, her partner and a third party; every
  property speaks of at most two rows. One id is the *worst* case, since then every
  lease has the id of every other and naming one names all. Two calls race, and a
  slot is reused as soon as its call returned, so a history holds any number of
  calls. The clock lets a lease be opened, resized and expire while another call
  still works with an older reading. Cap 1 makes the cap bite with two calls.
- *Terminator.* Two reapers are the smallest number that overlap, and two posts and
  two attempts give a retry at each of both levels, and three writers of one file
  (the live send creates it) with every overlap of their truncations and dumps;
  messages share no state but a reaper's time, so one message shows what can happen
  to each.
- *Delivery.* Three attempts and two addresses are the code's default and a host
  with both families. The timeout is two floors long, so that an attempt can be full,
  shortened, or raised to the floor; `MaxLag` keeps sleeps inexact. Three operations
  on an address (`PerAddress`) are a connection, a handshake or send, and an answer;
  the code has no such limit, see below.
- *Inbound.* Window 1 and two further units of time let an id be accepted, forgotten
  and accepted again, and a copy wait from within its window to past it. Three
  accepted messages fill an inbox of 2. The cap never evicts with two ids: it is
  covered by the theorem `RemembersIds`, and the run shows that a cap which takes
  one entry too many is noticed. Two requests at a time race. One stop is a
  disconnect and reconnect, or a restart, in any state; a second adds only another
  one.
- *Registration.* Two gateways are a writer and a stale reader, or two writers, and
  one that signs with the default pair and one that does not; two minted keys are an
  old and a new one beside the foreign key.
- *Notices.* Depth 2 is the first at which a notice answers a notice. Two gateways
  and one message already make both loops wait for each other, and a loop for itself
  through the retries of its own worker. A request whose sender gave up is lost in
  the model: what its peer does with it later is what it could have done just before.

The proofs remove the bounds for most invariants and action properties.

Bounds that only the model has are `MaxClock`, `PerAddress`, `MaxLag`, `Pending`,
`MaxAccepted`, `Skew`, `Horizon`, `MaxStops`, `MaxKeys`, `Messages` and `MaxDepth`;
the others are settings of the code. `Skew` is 0 in the runs, and a sender's clock that is ahead is
left to `ReplayNeedsAWait`'s proof. Symmetry is used in runs without liveness.
`CHECK_DEADLOCK FALSE` appears where the system rightly stops: every message is
settled (`terminator`, `notices`), the call has returned (`delivery`), or the model's time and
messages are used up (`inbound`).

Fairness, stated as `FairSpec` in each module and weak throughout:

- `Terminator`: a worker that has a message goes on, because each step is
  straight-line code and a wait for an answer ends with a socket timeout; each reaper
  picks a queued file sooner or later, because `_outbox_reaper_loop` wakes up at a
  fixed interval and a sweep visits every file. Nothing is assumed of the network,
  the recipient or the seen-set. `OutboxDrains` exempts messages in runs with a
  fault (an exception leaves the file as it was, see `Raise`) and files that two
  writers have spoiled.
- `Delivery`: the call goes on, since every socket operation has a timeout. That
  there are finitely many is the peer's doing: the code has no limit against one
  whose answer drips in without end, so `Returns` holds for answers that end.
- `Inbound`: the event loop runs what is ready and turns end (`Process`), the 30
  seconds pass (`WaitedLongEnough`) and `disconnect` goes on. That a turn ends is the
  agent runtime's promise.
- `Registration`: a cached entry expires (`MESH_IDENTITY_CACHE_TTL`, one second by
  default); nothing else need ever happen.
- `Notices`: the loop's own socket times out and its code goes on. Workers, reapers,
  peers and the network may stop for ever.

Some results need their fine print.

- `Ceiling` bounds a call only for a peer that needs at most `PerAddress` operations on
  each address. The code limits their time one by one, and not their number, so
  it keeps no bound of its own; and the comment's "worst case is 2 x timeout"
  (`session_relay.py:518`) counts one operation to an attempt, although connect,
  handshake, sends and reads may each take the attempt's timeout, at each address.
- "delivered" is the peer's word, given with any status below 400 and a JSON object
  or a token that says duplicate. Nothing in `Delivery` makes it arrival; `Terminator`
  models a recipient that keeps its word.
- An attempt ends with the exception of its *last* address (`session_relay.py:294-301`),
  so `SilenceIsRetried` and `RetryIsNotStarved` speak of that. What follows is below,
  among the disagreements without a run.
- `Serves` excludes an adapter that came up again with the stopper of an earlier
  disconnect in its inbox, which ends the new processor at once (`clean`).
- `ReplayNeedsAWait` does not say that a replay needs a wrong clock: with correct
  ones, a copy stamped at 0, entered at 0, that comes again at 1 with a window of 1
  and waits until 2 for its signature is taken again. A copy whose signature
  verifies without its stamp (the fallback, `adapter.py:653-661`) is one with a stamp
  of its own, against which only the window helps (`Remembered`).

## What is proved

For every value of the constants, with faults, crashes and any number of calls:

- `LeaseGate_proofs!Typing`, from which the others start.
- `OneRecipientOneThread`, `OnePairOneThread`: inductive as they stand, once the
  registry steps are reduced to "rows go", "one row is resized" and "one row is
  added whose door was free" (`RegistrySteps`). The subtle point is `ClaimNew`: it
  decides on a stale clock, and is safe only because the rows it takes for dead
  are *dropped by the same write*; the proof uses just that.
- `LeasesEnd`: the row's own opening time bounds its expiry; a resize must not
  count from a clock beyond the default lease, which needs that `touch` finds the
  row live at the time it uses.
- `OutboundCapped`: cardinality of an agent's rows never grows except by a claim
  that counted the rows it keeps.
- `LeaseGate_steps` proves what single steps may do, from `ClocksArePast`: a stored
  clock is never ahead of the real one, so a row that is live now was live when the
  claim read its clock (`ClaimSeesLive`). `PartiesRelease` (`OnlyPartiesRelease`) and
  `RefusalsJustified` (`RefusalsAreJustified`) follow action by action.
- `DoorsImplemented` (`ImplementsDoors`): `LeaseGate` refines `Doors`. With one thread
  per recipient the mapped door is the opener of that thread (`DoorValue`). A step
  that drops rows, and a tick, is a `Close` (`ShrinksClose`); a claim opens its
  recipient's door, which `ClaimSeesLive` and the two checks show free
  (`ClaimsOpen`); a resize may revive a row that expired while `touch` waited for the
  lock, and then opens a door that is free by `OneRecipientOneThread`
  (`TouchesOpen`).
- `Terminator_proofs!Typing`, strengthened with `WorkerOK` (a stored attempt is
  below the limit, a post is made below the retry limit, only a waiting worker has
  a copy on the wire).
- `NoGhosts` (`NoGhostClose`), strengthened with `Confirmations`: a worker about
  to promote has seen an answer, and an answer comes from a recipient that holds
  the message.
- `LandedCloses` (`LandedIsClosed`), strengthened with "no entry of the recipient's
  file is pending".
- `ClosesFinal` (`ClosesAreFinal`), in shared files too.
- `PendingSettles` (`NothingStaysPending`): strengthened with who holds a pending
  entry (`HoldersHold`). `InFlightClosed` (`ClosedInFlight`): the message of a live
  send is in no queue and in no other worker's hand yet (`Alone`), so nobody else
  withdraws its entry.
- `NothingLost` (`OutboxLosesNothing`), strengthened with "a reaper about to unlink a
  file has posted nothing, or its message landed" (`Unlinkable`). Reapers may
  rewrite, unlink and dead-letter the file of another's item. The text of a message
  that has not landed goes in four ways, and no other: its thread is closed and it
  is dropped; the last attempt's move to `dead/` fails and the code unlinks the file
  (`outbox.py:284-285`), or the move puts a spoiled file over an earlier one; a write
  stops halfway, by a crash or an error that `except OSError: pass` hides
  (319-323); or two reapers, with nothing dying or failing, write their texts over
  each other (`Refilled`).
- `OneReaperSpoilsNothing`: with at most one reaper to an outbox, and no fault, every
  file in it can be read or is being written, so the last of the four needs a second
  reaper. A lock around the sweep, or a write to a temporary file and `os.replace` as
  the registries do it, would mend both this and `ConfirmedDeliveryCloses`'s case.
- `Terminator_closing!ClosingImplemented` (`ImplementsClosing`): with separate files,
  `Terminator` refines `Closing`. The step proof reads off `Moves` which of the five
  things a step may do to a file it did (`ClosingStep`); `Confirm` needs
  `Confirmations`, `Receive` that no entry of the recipient's file is ever pending
  (`RecipientReal`). `NoGhosts` and `LandedCloses` are about
  states; this says that nothing else ever happens to a close.
- `OneReaperCloses`: with at most one reaper to an outbox, `ConfirmedDeliveryCloses`
  holds, in shared files too, and crashes and raising deliveries do not matter. The
  inductive part (`ReapedClosed`) is that the anchor of a delivery in progress is
  never open: only its own worker reopens it (`Alone`), and that ends the delivery
  (`ReopensEnds`). It says exactly what the run `terminator_reapers` loses: a
  lock, or one reaper per outbox, would mend it.
- `Delivery_proofs!Typing`, `SilenceRetried`, `RetryInFull` (`RetryIsNotStarved`):
  one strengthening for both, which relates deadline, extension and clock to the
  exceptions the attempts ended with. The step is
  `Retry`: after a silent first attempt the sleep leaves a second of the extended
  budget, so that the second attempt starts (`SleepBounds`, with
  `MaxLag < Second`, the assumption that the proof shows to be needed), and with the
  whole timeout but for the pause, whatever the first one spent.
- `EndsWithinBound` (`Ceiling`): the clock of a call never passes `Bound`. `InTime` is
  inductive: an attempt began at the latest where its timeout fits what was left
  (or, later than the first, `MaxLag` after the deadline with the floor of a
  second), and has spent at most one such timeout on each operation that ended
  (`Ended`). The products are dealt with once, in `Times`, `OneMore` and
  `WithinBound`; the bound is the larger of two cases, a last attempt that starts
  with a whole timeout left and one that starts in the last moment with a second.
- `Forward` (`NeverGoesBack`): every step but the wire's comes to a later stage,
  address or attempt. `Stages` bounds the stages of an attempt and `Typing` the
  attempts, so a call takes at most `Retries * ((PerAddress + 1) * Addresses + 2)` steps; that it
  takes them is the fairness that `Returns` is checked with.
- `Inbound_proofs!Typing`, `DuplicatesEntered`, `RemembersIds`, `ReplaysNeedWaits`:
  the strengthening says that the latest entry of each id is either still in the
  window or older than the window's time or than `Cap` later entries. The cap needs cardinality: the
  entries after the n-th number at most `accepted - n` (`FewLater`).
- `Registration_proofs!Typing`; `Verifiable` (`SignaturesVerify`), strengthened with
  what a call in progress and the file hold: the key of the pair on this host
  (`Paired`, kept by `PairKept` when a missing pair is minted); from the same
  invariant, `OnlyForeignRotated` (`RotatesOnlyForeign`): a rotation without a given
  key hits only a key from elsewhere, or follows a lost keypair file;
  `MintsUnseen` and `OverwritesUnseen`, from `Informed`: whoever took an agent for
  new is outdated if the file says otherwise, and a cached absence is behind if the
  file holds an identity.
- `Notices_proofs!Typing`; `OnlyQueuedAreNoticed` (`NoticesOfQueued`), strengthened
  to requests and jobs without a header: they are messages or notices that were
  queued.
- `NoRefusalChains` (`RefusalsDoNotChain`), with `Typing`: only a loop owes an answer,
  and only to a worker. The notice that a loop delivers has the header, so the loop
  it waits for answers at once instead of sending a notice first; what a loop can be
  kept waiting by is a loop that is busy with a worker's request.

`NoGhosts`, `LandedCloses` and `ClosingImplemented` assume separate registry files:
with a shared one the recipient closes the anchor before it enqueues, and the
sender's withdrawal can drop it again. `OneReaperCloses` assumes a single reaper,
which a host with one gateway has. `Moves` states once what a step may do to the registries and the
inbox. The assumptions are the named `ASSUME`s of the modules, which TLC evaluates in
the runs.

Only model-checked are the liveness properties `OutboxDrains`, `Returns`, `Serves`,
`StopsWithRoom`, `Forgotten` and `LoopsResume`: fairness and ENABLED are outside the
prover's reach. Every invariant and every action property of the passing runs, and
both refinements, are proved.

## Where code and documentation disagree

- `lease_rollback` (`FailedSendRollsBack`): "A failed send rolls the claim back" (`session_relay.py:916`),
  but the returns at 1015, 1022, 1052 and 1064 keep the claim.
- `lease_resize` (`ResizedByAParty`): "resized by the holder on her first reply" (`open_threads.py:19`),
  but `touch` does not ask who replies.
- `terminator_shared` (`AcceptedStaysClosed`): "recipient gateway records the terminal anchor on receive"
  (`adapter.py:473`), but with one registry per host the sender's pending entry
  turns that record into a no-op, and a lost answer withdraws it.
- `terminator_reapers` (`ConfirmedDeliveryCloses`): "the reaper's confirmed delivery is what closes the thread"
  (`tests/test_outbox_terminal_close.py:100`), but a second reaper of the same
  outbox may withdraw the pending entry first.
- `inbound_shutdown` (`DisconnectEnds`): disconnect is to "allow the processor to drain the inbox [...]
  before cancelling it" (`adapter.py:342-343`), but with a full inbox there is no
  stopper, and the single cancellation is taken for the turn's: the loop drains the
  inbox, waits for more, and `disconnect` waits for it for ever.
- `registration_rotate` (`KeysNeverRotate`): "NEVER over an existing identity" (`session_relay.py:1315`)
  holds for `_register_one`, but a first send generates without asking, and
  registering again with overwrite publishes that key.

More are visible in the models and have no run of their own:

- A dry run without a key stores a new keypair (`session_relay.py:1379` promises
  "without writing"; `Mint` then `DryRun`).
- "DSN responses never spawn DSNs" (`tests/test_dsn.py:155`) fails for a notice that
  went through the outbox, which `NoticesOfQueued` shows to be the only way.
- A peer that answered is not to earn an extension of the budget
  (`session_relay.py:558-559`); one that answers 503 at its first address and times
  out at its second does (`Refused`, `NextAddress`, `NoAnswer`, then `Extends`).
- "A timeout means we do not know" (`session_relay.py:345`, and 528-529): a timeout at
  the first address followed by a refused connection at the last one reads as
  unreachable and, its budget spent, is not retried.
- `_register_one` is to load "the EXISTING local keypair" (`session_relay.py:1314`); for
  an agent with a `private_key_path` it publishes, or mints, the default pair (1318,
  1332), and the key-trap guard looks only there. Passing `public_key` avoids it.
  `SignaturesVerify` is therefore about the gateways that are not `Configured`.

## Assumptions and what is not modelled

- A locked operation is atomic, and `os.replace` makes its write so. A crash inside
  one leaves the file before or after it.
- All processes of a host see one clock that does not run backwards.
- Agents' names, ids, texts and reasons are opaque; argument validation, metrics,
  wording of refusals and the Telegram copy are left out.
- `Terminator`: an agent sends each terminal message once; registry writes there
  succeed (the code logs and goes on when they do not). Of the outbox's file
  operations opening, writing and moving may fail. Two texts written over each other
  leave one of them whole or a mixture that is no JSON, which is what follows from
  their lengths and the order of the two writes. The item's `ref` may be
  closed by another anchor at any time, so `DropClosedRef` is always possible.
- `Delivery`: a target that does not resolve returns before the loop; no address is blocked
  after resolution, since both use one policy; sleeps end at most `MaxLag` late, less than a second.
  A TLS handshake is one of the operations of `conn.request`.
- `Inbound`: verification, rate limit, envelope and closed-thread checks are a choice
  between `Reject` and going on; the clock does not jump. `Cleanup` drops connections
  that are still open.
- `Registration`: generating a pair and storing it is one step of the external
  `mesh_core`; validation of names and URLs, and fields other than the key, are left
  out. A cache entry may expire at any time; a changed mtime only makes it sooner.
- `Notices`: the rate limit of notifications, and whether the target of one is
  known, are a choice, and so is which attempt is an item's last. One delivery is one
  request; `Delivery` has the attempts. Items are distinguished by what they say, so
  two equal ones count once. Torn files are `Terminator`'s.
- Not called by the gateway and left out: `open_thread`, `expire`, `conflict`,
  `release`, `load`, `get` (leases); `clear`, `list_closed` (closes).
- Cryptography, DNS, TLS, aiohttp, the agent runtime and the `mesh_core` package
  are outside.

- The outbox's back-off times and the order of one sweep: in the
  models a queued item may be picked at any time, which includes every schedule the
  code has, but not that one item keeps the others waiting.
- `float.py` is sequential string arithmetic and a best-effort request; a model would
  restate it character by character. `common.py`, `network.py`, `__init__.py` and the
  one-shot scripts keep no state a property depends on.

## What could come next

Written in this order: `OpenThreads`, `LeaseGate`, `Doors`, `ClosedThreads`,
`Terminator`, `Closing`, `Delivery`, `Inbound`, `Registration`, `Notices`. Each composes with
the next through what it promises: `Delivery` justifies the posts of `Terminator`
and the timeouts of `Notices`, `Inbound` the forgetting in `Terminator`. Open:

1. `Outbox`: sweeps that visit several files in order, with back-off times and an
   item that raises; that no item starves another.
2. The mtime cache of `threads.py` between a writer and a reader process.
3. An abstract specification of `Inbound` (a mailbox that hands over each message
   once per window) and its refinement.
4. The safety half of `OutboxDrains`: with several reapers an attempt count may fall
   back, but the least one in the file or in a reaper's hands only grows.
