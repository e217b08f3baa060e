------------------------------ MODULE Inbound ------------------------------
(***************************************************************************)
(* The receiving side of one gateway (hermes_mesh/adapter.py): handlers    *)
(* that check a request's timestamp, await its signature and then admit    *)
(* it; the ids seen within the replay window; the bounded inbox and the    *)
(* processor that gives each message its own turn; disconnect, reconnect   *)
(* and restarts.                                                           *)
(*                                                                         *)
(* A copy is a signed request: a message id and the time it was stamped.   *)
(* A retry of the outbox is a new copy of the same id with a stamp of its  *)
(* own; so is a repetition whose signature verifies without the timestamp  *)
(* (the fallback of _verify_ed25519), for its stamp may be any.  One or    *)
(* two awaits, the wait for the signature is one.  Everything from there   *)
(* to the answer runs without an await: one step.                          *)
(***************************************************************************)
EXTENDS Integers, Sequences, FiniteSets

CONSTANTS
    Ids,       \* message ids
    Pending,   \* bound: different requests that are handled at a time
    TTL,       \* _replay_window_ttl
    Cap,       \* _replay_window_size
    InboxSize, \* maxsize of _mesh_inbox
    MaxAccepted, \* bound: messages accepted between restarts
    Skew,      \* bound: how far a sender's clock may be off
    Horizon,   \* bound: the time at which the model stops
    MaxStops   \* bound: disconnects and crashes

ASSUME InboundAssumption ==
    /\ IsFiniteSet(Ids) /\ Pending \in Nat
    /\ TTL \in Nat /\ Cap \in Nat \ {0} /\ InboxSize \in Nat \ {0}
    /\ MaxAccepted \in Nat /\ Skew \in Nat /\ Horizon \in Nat /\ MaxStops \in Nat

VARIABLES
    now,       \* time.time() of this gateway
    handling,  \* the requests that await their signature
    seen,      \* _seen_message_ids; nth gives their order of insertion
    accepted,  \* history: messages accepted since the restart
    entry,     \* history: the latest entry of each id since the restart
    inbox,     \* _mesh_inbox
    processor, \* where _mesh_processor_loop is
    mode,      \* the adapter: up, in disconnect, or down
    waited,    \* disconnect's 30 seconds are over
    clean,     \* history: no connect has found a stopper in the inbox
    stops      \* disconnects and crashes so far

window == <<seen, accepted, entry>>
queue == <<inbox, processor>>
adapter == <<mode, waited, clean, stops>>
vars == <<now, handling, window, queue, adapter>>

Stamps == (-Skew) .. (Horizon + Skew)
Request == [id : Ids, stamp : Stamps, at : 0 .. Horizon]
Seen == [id : Ids, at : 0 .. Horizon, nth : Nat]
Entry == [stamp : Stamps, at : 0 .. Horizon, nth : Nat]
None == [none |-> TRUE]

TurnOver == "turn over"  \* the turn's task is done, the loop not resumed yet

TypeOK ==
    /\ now \in 0 .. Horizon
    /\ handling \subseteq Request
    /\ seen \subseteq Seen
    /\ accepted \in Nat
    /\ entry \in [Ids -> Entry \cup {None}]
    /\ inbox \in Seq({"message", "stop"}) /\ Len(inbox) <= InboxSize
    /\ processor \in {"get", "turn", TurnOver, "stopped"}
    /\ mode \in {"up", "stopping", "closing", "down"}
    /\ waited \in BOOLEAN /\ clean \in BOOLEAN
    /\ stops \in 0 .. MaxStops

Init ==
    /\ now = 0 /\ handling = {}
    /\ seen = {} /\ accepted = 0
    /\ entry = [i \in Ids |-> None]
    /\ inbox = <<>> /\ processor = "get"
    /\ mode = "up" /\ waited = FALSE /\ clean = TRUE /\ stops = 0
-----------------------------------------------------------------------------
Tick ==
    /\ now < Horizon /\ now' = now + 1
    /\ UNCHANGED <<handling, window, queue, adapter>>

\* Mutant: only stamps in the future are refused.
WithinWindowAhead(stamp) == stamp - now <= TTL

\* _validate_timestamp
WithinWindow(stamp) == stamp - now <= TTL /\ now - stamp <= TTL

\* The server listens until the very end of disconnect.  The wire may hold, and
\* repeat, any copy that was stamped before now by a clock off by at most Skew.
\* One stamped outside the window is answered 401 and leaves no trace.
Receive(i) ==
    /\ mode # "down"
    /\ \E stamp \in (-Skew) .. (now + Skew) :
           /\ WithinWindow(stamp)
           /\ handling' = handling \cup {[id |-> i, stamp |-> stamp, at |-> now]}
    /\ Cardinality(handling') <= Pending
    /\ UNCHANGED <<now, window, queue, adapter>>

\* The request has its answer; another one just like it may still wait.
Answered(r) == handling' \in {handling, handling \ {r}}

\* A signature that verifies neither with the timestamp nor without it, or any of
\* the checks before the replay window: the request is answered and forgotten.
Reject(r) ==
    /\ Answered(r)
    /\ UNCHANGED <<now, window, queue, adapter>>

SeenIds == {s.id : s \in seen}

\* Mutant: the cap takes one entry too many.
ExpiredOneMore(entries) ==
    LET fresh == {s \in entries : now - s.at <= TTL}
    IN  {s \in fresh : Cardinality({t \in fresh : t.nth > s.nth}) < Cap - 1}

\* Entries past their time go; then the oldest ones, down to the cap.
Expired(entries) ==
    LET fresh == {s \in entries : now - s.at <= TTL}
    IN  {s \in fresh : Cardinality({t \in fresh : t.nth > s.nth}) < Cap}

Duplicate(r) ==
    /\ r.id \in SeenIds
    /\ Answered(r)
    /\ UNCHANGED <<now, window, queue, adapter>>

Insert(r) == Expired(seen \cup {[id |-> r.id, at |-> now, nth |-> accepted + 1]})

Accept(r) ==
    /\ r.id \notin SeenIds
    /\ Len(inbox) < InboxSize /\ accepted < MaxAccepted
    /\ inbox' = Append(inbox, "message")
    /\ accepted' = accepted + 1
    /\ seen' = Insert(r)
    /\ entry' = [entry EXCEPT
                    ![r.id] = [stamp |-> r.stamp, at |-> now, nth |-> accepted + 1]]
    /\ Answered(r)
    /\ UNCHANGED <<now, processor, adapter>>

\* Mutant: the id is recorded before the inbox is asked.
BusyRecorded(r) ==
    /\ r.id \notin SeenIds
    /\ Len(inbox) = InboxSize
    /\ accepted' = accepted + 1
    /\ seen' = Insert(r)
    /\ Answered(r)
    /\ UNCHANGED <<now, entry, queue, adapter>>

\* QueueFull: 503, and the id is not recorded.
Busy(r) ==
    /\ r.id \notin SeenIds
    /\ Len(inbox) = InboxSize
    /\ Answered(r)
    /\ UNCHANGED <<now, window, queue, adapter>>
-----------------------------------------------------------------------------
\* Mutant: the stopper is taken for a message that fails.
TakeAnything ==
    /\ processor = "get" /\ inbox # <<>>
    /\ inbox' = Tail(inbox)
    /\ processor' = IF Head(inbox) = "stop" THEN "get" ELSE "turn"
    /\ UNCHANGED <<now, handling, window, adapter>>

\* The processor takes a message and starts its turn, or takes the stopper.
Take ==
    /\ processor = "get" /\ inbox # <<>>
    /\ inbox' = Tail(inbox)
    /\ processor' = IF Head(inbox) = "stop" THEN "stopped" ELSE "turn"
    /\ UNCHANGED <<now, handling, window, adapter>>

\* The agent's turn ends, fails or is interrupted: _task is done.
EndTurn ==
    /\ processor = "turn" /\ processor' = TurnOver
    /\ UNCHANGED <<now, handling, window, inbox, adapter>>

\* Mutant: the loop ends with the turn.
ResumeOnce ==
    /\ processor = TurnOver /\ processor' = "stopped"
    /\ UNCHANGED <<now, handling, window, inbox, adapter>>

Resume ==
    /\ processor = TurnOver /\ processor' = "get"
    /\ UNCHANGED <<now, handling, window, inbox, adapter>>
-----------------------------------------------------------------------------
\* Mutant: the stopper is put whether there is room or not.
DisconnectAnyway ==
    /\ mode = "up" /\ stops < MaxStops
    /\ inbox' = Append(inbox, "stop")
    /\ mode' = "stopping" /\ waited' = FALSE /\ stops' = stops + 1
    /\ UNCHANGED <<now, handling, window, processor, clean>>

\* disconnect: the stopper, if the inbox has room for it.
Disconnect ==
    /\ mode = "up" /\ stops < MaxStops
    /\ inbox' = IF Len(inbox) < InboxSize THEN Append(inbox, "stop") ELSE inbox
    /\ mode' = "stopping" /\ waited' = FALSE /\ stops' = stops + 1
    /\ UNCHANGED <<now, handling, window, processor, clean>>

\* wait_for's 30 seconds are over: it cancels the processor, once.  In a turn
\* the cancellation goes through to the turn's task, which ends it, and the
\* loop goes on.  It ends only a loop that awaits the inbox, or whose turn was
\* over already.
WaitedLongEnough ==
    /\ mode = "stopping" /\ ~waited /\ processor # "stopped"
    /\ waited' = TRUE
    /\ processor' = IF processor = "turn" THEN TurnOver ELSE "stopped"
    /\ UNCHANGED <<now, handling, window, inbox, mode, clean, stops>>

\* disconnect goes on to the outbox reaper and the background tasks.
ProcessorGone ==
    /\ mode = "stopping" /\ processor = "stopped"
    /\ mode' = "closing"
    /\ UNCHANGED <<now, handling, window, queue, waited, clean, stops>>

\* The server closes, with the connections that are still open.
Cleanup ==
    /\ mode = "closing"
    /\ handling' = {}
    /\ mode' = "down"
    /\ UNCHANGED <<now, window, queue, waited, clean, stops>>

HoldsStopper == \E k \in 1 .. Len(inbox) : inbox[k] = "stop"

\* connect of the same adapter: inbox and window are what they were.
Connect ==
    /\ mode = "down"
    /\ mode' = "up" /\ processor' = "get"
    /\ clean' = (clean /\ ~HoldsStopper)
    /\ UNCHANGED <<now, handling, window, inbox, waited, stops>>

\* The process dies and the gateway starts anew: inbox and window are lost.
Restart ==
    /\ stops < MaxStops /\ stops' = stops + 1
    /\ handling' = {}
    /\ seen' = {} /\ accepted' = 0 /\ entry' = [i \in Ids |-> None]
    /\ inbox' = <<>> /\ processor' = "get"
    /\ mode' = "up" /\ waited' = FALSE /\ clean' = TRUE
    /\ UNCHANGED now

Process == Take \/ EndTurn \/ Resume

Next ==
    \/ Tick
    \/ \E i \in Ids : Receive(i)
    \/ \E r \in handling : Reject(r) \/ Duplicate(r) \/ Accept(r) \/ Busy(r)
    \/ Process
    \/ Disconnect \/ WaitedLongEnough \/ ProcessorGone \/ Cleanup \/ Connect
    \/ Restart

Spec == Init /\ [][Next]_vars

\* The event loop runs what is ready, turns end, and the wait is bounded.
FairSpec ==
    /\ Spec
    /\ WF_vars(Process)
    /\ WF_vars(WaitedLongEnough)
    /\ WF_vars(ProcessorGone)
    /\ WF_vars(Cleanup)
-----------------------------------------------------------------------------
\* In both, what happened before a restart does not count.
Reenters(i) == entry[i] # None /\ entry'[i] \notin {None, entry[i]}
Evicted(i) == accepted - entry[i].nth >= Cap

\* An id enters the inbox again only after its time, or after Cap further
\* messages, or after a restart (_expire_seen_messages evicts "by TTL and cap
\* instead of nuking the whole set").
Remembered ==
    [][\A i \in Ids : Reenters(i) =>
           now - entry[i].at > TTL \/ Evicted(i)]_vars

\* A request with the same stamp enters twice only if its second copy waited for
\* its signature for longer than the stamp was old when it first entered: the stamp
\* is checked before that await, the window after it, and expires by then.  (No wait
\* at all is needed if the stamp was still ahead of the clock; and a copy with
\* another stamp is Remembered's.)
ReplayNeedsAWait ==
    [][\A r \in handling :
           LET first == entry[r.id]
           IN  /\ Reenters(r.id) /\ ~Evicted(r.id)
               /\ first.stamp = r.stamp /\ entry'[r.id].stamp = r.stamp
               => first.at - first.stamp < now - r.at]_vars

\* Whoever is in the window has entered the inbox: a refused message is never
\* taken for one that was delivered.
SeenHasEntered == \A s \in seen : entry[s.id] # None /\ entry[s.id].nth = s.nth

\* While the adapter stays up its messages get their turns, unless it came up
\* with the stopper of an earlier disconnect in its inbox.
Serves ==
    mode = "up" /\ clean /\ inbox # <<>> ~> inbox = <<>> \/ mode # "up"

\* A disconnect whose stopper found room comes to an end, or the process dies.
Closed == mode \in {"down", "up"}
StopsWithRoom == mode = "stopping" /\ HoldsStopper ~> Closed

\* What disconnect says of itself: it lets the processor drain the inbox
\* "before cancelling it".
DisconnectEnds == mode = "stopping" ~> Closed
=============================================================================
