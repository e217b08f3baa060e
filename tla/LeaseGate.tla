------------------------------ MODULE LeaseGate ------------------------------
(***************************************************************************)
(* The lease life of handle_mesh_send (hermes_mesh/session_relay.py): the  *)
(* busy gate before delivery, the rollback of a failed send, and the       *)
(* bookkeeping after a delivery, run by concurrent calls in any number of  *)
(* gateway processes over one registry file.                               *)
(*                                                                         *)
(* Each locked read-modify-write of open_threads.py is one step; the clock *)
(* it works with was read in an EARLIER step, before the lock, as the code *)
(* does, so other calls may run, and time may pass, between the two.  What *)
(* a call does before it first looks at shared state joins that look.      *)
(*                                                                         *)
(* A notice (reply=no) neither reads nor writes a lease: it is a stutter   *)
(* of this module.                                                         *)
(***************************************************************************)
EXTENDS OpenThreads, Sequences

CONSTANTS
    Calls,      \* slots for concurrent handle_mesh_send calls
    Routes,     \* the pairs <<sender, recipient>> that write to each other
    MaxClock,   \* bound: the clock stops there
    IOFaults    \* whether the registry's reads, writes and locks may fail

ASSUME GateAssumption ==
    /\ Routes \subseteq Agents \X Agents
    /\ MaxClock \in Nat
    /\ IOFaults \in BOOLEAN

VARIABLES
    clock,      \* time.time(), shared by every process of the host
    registry,   \* the rows of the registry file
    readable,   \* FALSE while the file on disk is corrupt
    pc,         \* where each call is; its outcome once it returned
    call        \* its arguments and local variables

vars == <<clock, registry, readable, pc, call>>

\* A slot whose call returned is free for the next one: "busy" and "capped"
\* are the two refusals, "failed" is an error, "idle" is everything else.
Returned == {"idle", "busy", "capped", "failed"}
Working == {"aside", "claim", "send", "rollback", "touch", "release"}

Call == [from : Agents, to : Agents, reply : {"yes", "end"},
         id : Ids, ref : Ids \cup {NoId}, now : Nat,
         held : BOOLEAN, probes : Seq(Ids)]

NoCall == [from |-> NoId, held |-> FALSE]

TypeOK ==
    /\ clock \in Nat
    /\ registry \subseteq Lease
    /\ IsFiniteSet(registry)
    /\ readable \in BOOLEAN
    /\ pc \in [Calls -> Returned \cup Working]
    /\ call \in [Calls -> Call \cup {NoCall}]
    /\ \A c \in Calls : pc[c] \in Working => call[c] \in Call

Init ==
    /\ clock = 0
    /\ registry = {}
    /\ readable = TRUE
    /\ pc = [c \in Calls |-> "idle"]
    /\ call = [c \in Calls |-> NoCall]

Goto(c, label) == pc' = [pc EXCEPT ![c] = label]

Return(c, outcome) == Goto(c, outcome) /\ call' = [call EXCEPT ![c] = NoCall]

\* A locked read of a corrupt file moves it aside, unless that fails, and goes
\* on from [].  Rows that did not change are not written.
WriteRows(rows) ==
    /\ registry' = rows
    /\ readable' = TRUE \/ (rows = registry /\ UNCHANGED readable)
-----------------------------------------------------------------------------
Present(x) == IF x = NoId THEN <<>> ELSE <<x>>

\* Mutants: empty fields are probed too; a claim may exceed the cap by one.
ProbeIdsUnfiltered(ref, delivery, id, thread) ==
    IF thread # NoId THEN <<thread>> ELSE <<ref, delivery, id>>

\* A reply=end without `thread` probes ref, the delivery id the peer answered
\* with, and its own id; with it, only that.
ProbeIds(ref, delivery, id, thread) ==
    IF thread # NoId THEN <<thread>>
    ELSE Present(ref) \o Present(delivery) \o <<id>>

AskCall(from, to, id, ref, now, held) ==
    [from |-> from, to |-> to, reply |-> "yes", id |-> id, ref |-> ref,
     now |-> now, held |-> held, probes |-> <<>>]

\* lease_for(ref): some live row with that id.
LeasesFor(ref) ==
    {rec \in registry : rec.thread_id = ref /\ Live(rec, clock)}

\* A validated reply=yes call reaches the gate.  If ref names the live thread
\* of its pair (an unlocked read) it skips the claim and counts as holding it.
AskInThread(c) ==
    /\ pc[c] \in Returned
    /\ \E from, to \in Agents, id, ref \in Ids :
         /\ <<from, to>> \in Routes
         /\ \E rec \in LeasesFor(ref) : Parties(rec) = {from, to}
         /\ call' = [call EXCEPT ![c] = AskCall(from, to, id, ref, 0, TRUE)]
    /\ Goto(c, "send")
    /\ UNCHANGED <<clock, registry, readable>>

\* It goes on to claim, with now = _now() read before the lock, when ref is
\* absent or names no live thread of the pair ...
Ask(c) ==
    /\ pc[c] \in Returned
    /\ \E from, to \in Agents, id \in Ids, ref \in Ids \cup {NoId} :
         /\ <<from, to>> \in Routes
         /\ readable \/ ref = NoId
         /\ \/ LeasesFor(ref) = {}
            \/ \E rec \in LeasesFor(ref) : Parties(rec) # {from, to}
         /\ call' = [call EXCEPT ![c] =
                        AskCall(from, to, id, ref, clock, FALSE)]
    /\ Goto(c, "claim")
    /\ UNCHANGED <<clock, registry, readable>>

\* ... or when it read a corrupt file, without the lock.  That file is then
\* moved aside in a step of its own, and by now a locked operation of another
\* call may have put a good one in its place.  The move may fail.
AskDamaged(c) ==
    /\ pc[c] \in Returned
    /\ ~readable
    /\ \E from, to \in Agents, id, ref \in Ids :
         /\ <<from, to>> \in Routes
         /\ call' = [call EXCEPT ![c] = AskCall(from, to, id, ref, 0, FALSE)]
    /\ Goto(c, "aside")
    /\ UNCHANGED <<clock, registry, readable>>

MoveAside(c) ==
    /\ pc[c] = "aside"
    /\ \/ registry' = {} /\ readable' = TRUE
       \/ UNCHANGED <<registry, readable>>
    /\ call' = [call EXCEPT ![c].now = clock]
    /\ Goto(c, "claim")
    /\ UNCHANGED clock

\* A validated reply=end call: no gate, and its recipient plays no part in
\* the bookkeeping, which asks only who is ending what.
End(c) ==
    /\ pc[c] \in Returned
    /\ \E from \in Agents, id \in Ids, ref, delivery, thread \in Ids \cup {NoId} :
         /\ call' = [call EXCEPT ![c] =
                [from |-> from, to |-> from, reply |-> "end", id |-> id,
                 ref |-> NoId, now |-> 0, held |-> FALSE,
                 probes |-> ProbeIds(ref, delivery, id, thread)]]
         /\ Goto(c, "send")
    /\ UNCHANGED <<clock, registry, readable>>

\* The claim holds a lease, new or not: on to the delivery.
Admit(c) ==
    /\ call' = [call EXCEPT ![c].held = TRUE, ![c].now = 0]
    /\ Goto(c, "send")

\* claim, decided on the rows live at the `now` read before the lock.
ClaimRows(c) == LiveRows(registry, call[c].now)

ClaimTraffic(c) ==
    /\ pc[c] = "claim"
    /\ PairRows(ClaimRows(c), call[c].from, call[c].to) # {}
    /\ Admit(c)
    /\ UNCHANGED <<clock, registry, readable>>

ClaimBusy(c) ==
    /\ pc[c] = "claim"
    /\ PairRows(ClaimRows(c), call[c].from, call[c].to) = {}
    /\ BusyRows(ClaimRows(c), call[c].from, call[c].to) # {}
    /\ Return(c, "busy")
    /\ UNCHANGED <<clock, registry, readable>>

DoorFree(c) ==
    /\ PairRows(ClaimRows(c), call[c].from, call[c].to) = {}
    /\ BusyRows(ClaimRows(c), call[c].from, call[c].to) = {}

ClaimCapped(c) ==
    /\ pc[c] = "claim"
    /\ DoorFree(c)
    /\ Cardinality(OutboundRows(ClaimRows(c), call[c].from)) >= MaxOutbound
    /\ Return(c, "capped")
    /\ UNCHANGED <<clock, registry, readable>>

ClaimNewOverCap(c) ==
    LET k == call[c] IN
    /\ pc[c] = "claim"
    /\ DoorFree(c)
    /\ Cardinality(OutboundRows(ClaimRows(c), k.from)) <= MaxOutbound
    /\ WriteRows(ClaimRows(c) \cup {NewLease(k.id, k.from, k.to, k.now)})
    /\ Admit(c)
    /\ UNCHANGED clock

\* The write drops the rows that were dead at `now`.
ClaimNew(c) ==
    LET k == call[c] IN
    /\ pc[c] = "claim"
    /\ DoorFree(c)
    /\ Cardinality(OutboundRows(ClaimRows(c), k.from)) < MaxOutbound
    /\ WriteRows(ClaimRows(c) \cup {NewLease(k.id, k.from, k.to, k.now)})
    /\ Admit(c)
    /\ UNCHANGED clock
-----------------------------------------------------------------------------
\* Session selectors, the target and the sender's key are checked after the
\* claim; each early return leaves the registry alone.
EarlyReturn(c) ==
    /\ pc[c] = "send"
    /\ Return(c, "failed")
    /\ UNCHANGED <<clock, registry, readable>>

\* _deliver_webhook succeeded: a held claim is past any rollback.  touch reads
\* its clock before the lock.
Delivered(c) ==
    LET k == call[c] IN
    /\ pc[c] = "send"
    /\ \/ k.reply = "end" /\ Goto(c, "release") /\ UNCHANGED call
       \/ /\ k.reply = "yes" /\ k.ref # NoId
          /\ Goto(c, "touch")
          /\ call' = [call EXCEPT ![c].now = clock, ![c].held = FALSE]
       \/ k.reply = "yes" /\ k.ref = NoId /\ Return(c, "idle")
    /\ UNCHANGED <<clock, registry, readable>>

\* _deliver_webhook failed.  An enabled outbox queues the message and keeps
\* the claim; without it a held claim is rolled back.
NotDelivered(c) ==
    /\ pc[c] = "send"
    /\ \/ Return(c, "idle")
       \/ call[c].held /\ Goto(c, "rollback") /\ UNCHANGED call
       \/ ~call[c].held /\ Return(c, "failed")
    /\ UNCHANGED <<clock, registry, readable>>

\* release_if_party(task_id, from_agent)
Rollback(c) ==
    /\ pc[c] = "rollback"
    /\ WriteRows(ReleaseIfParty(registry, call[c].id, call[c].from))
    /\ Return(c, "failed")
    /\ UNCHANGED clock

\* touch(ref, resize_to): some live row of that id, resized unless it was.
Touch(c) ==
    LET named == {rec \in registry : /\ rec.thread_id = call[c].ref
                                     /\ Live(rec, call[c].now)}
    IN
    /\ pc[c] = "touch"
    /\ \/ \E rec \in named :
            WriteRows((registry \ {rec}) \cup {Touched(rec, call[c].now)})
       \/ named = {} /\ WriteRows(registry)
    /\ Return(c, "idle")
    /\ UNCHANGED clock

\* release_if_party_status, once per probed id.
Release(c) ==
    LET k == call[c] IN
    /\ pc[c] = "release"
    /\ WriteRows(ReleaseIfParty(registry, Head(k.probes), k.from))
    /\ IF Len(k.probes) > 1
       THEN Goto(c, "release") /\ call' = [call EXCEPT ![c].probes = Tail(@)]
       ELSE Return(c, "idle")
    /\ UNCHANGED clock

\* The lock or the write failed: every operation degrades to doing nothing,
\* and a degraded claim lets the send through without a lease.
Degrade(c) ==
    /\ IOFaults
    /\ \/ /\ pc[c] = "claim" /\ Goto(c, "send")
          /\ call' = [call EXCEPT ![c].now = 0]
       \/ pc[c] = "rollback" /\ Return(c, "failed")
       \/ pc[c] = "touch" /\ Return(c, "idle")
       \/ /\ pc[c] = "release" /\ Len(call[c].probes) > 1
          /\ call' = [call EXCEPT ![c].probes = Tail(@)]
          /\ UNCHANGED pc
       \/ /\ pc[c] = "release" /\ Len(call[c].probes) <= 1
          /\ Return(c, "idle")
    /\ UNCHANGED <<clock, registry, readable>>

\* The gateway process dies: the call is gone, its lease is not.
Crash(c) ==
    /\ pc[c] \in Working
    /\ Return(c, "idle")
    /\ UNCHANGED <<clock, registry, readable>>

\* The file is damaged: none of its rows will be read again.
Corrupt ==
    /\ IOFaults
    /\ readable
    /\ registry' = {}
    /\ readable' = FALSE
    /\ UNCHANGED <<clock, pc, call>>

Tick ==
    /\ clock < MaxClock
    /\ clock' = clock + 1
    /\ UNCHANGED <<registry, readable, pc, call>>

Step(c) ==
    \/ AskInThread(c) \/ Ask(c) \/ AskDamaged(c) \/ MoveAside(c) \/ End(c)
    \/ ClaimTraffic(c) \/ ClaimBusy(c) \/ ClaimCapped(c) \/ ClaimNew(c)
    \/ EarlyReturn(c) \/ Delivered(c) \/ NotDelivered(c)
    \/ Rollback(c) \/ Touch(c) \/ Release(c) \/ Degrade(c) \/ Crash(c)

Next == Tick \/ Corrupt \/ \E c \in Calls : Step(c)

Spec == Init /\ [][Next]_vars
-----------------------------------------------------------------------------
\* A recipient is talked to by one third party at a time: two rows with one
\* peer need one of them to be a thread she has with herself.  The claim is
\* decided on a clock read before the lock (open_threads.py:412-469).
OneThreadPerRecipient ==
    \A r, s \in registry :
        r # s /\ r.peer = s.peer =>
            r.opened_by = r.peer \/ s.opened_by = s.peer

\* Two agents share one thread whichever of them opened it: both may claim at
\* the same moment, in opposite directions (open_threads.py:427-429).
OneThreadPerPair ==
    \A r, s \in registry : Parties(r) = Parties(s) => r = s

\* No agent ever holds more outbound leases than MAX_OUTBOUND_THREADS, however
\* many of its calls pass the gate together (open_threads.py:443-453).
OutboundCap ==
    \A a \in Agents : Cardinality(OutboundRows(registry, a)) <= MaxOutbound

\* Whatever replies it receives, a lease ends at most one default length plus
\* one resize after it was opened: a busy recipient becomes addressable again
\* (self-releasing on expiry, open_threads.py:19-20).
LeaseLifetime ==
    \A r \in registry :
        r.lease_until <= r.opened_at + Clamp(DefaultLease)
                         + (IF r.resized THEN Clamp(ResizeLease) ELSE 0)

SameThread(r, s) ==
    /\ r.thread_id = s.thread_id /\ Parties(r) = Parties(s)
    /\ r.opened_by = s.opened_by /\ r.opened_at = s.opened_at

\* While the file is readable a lease that has not expired disappears only by
\* a step of one of its parties: not by a third party's release or rollback
\* that names its id, nor by a claim whose clock is stale
\* (open_threads.py:244-249).  One thing does take it: a call that had read a
\* corrupt file without the lock, and moves aside the good one that has
\* replaced it (open_threads.py:87-93, 479).
OnlyPartiesRelease ==
    [][\A r \in registry :
          Live(r, clock) /\ readable' /\ ~(\E s \in registry' : SameThread(r, s))
          => \/ \E c \in Calls : pc[c] = "aside" /\ pc'[c] = "claim"
             \/ \E c \in Calls : /\ pc[c] \in {"rollback", "release"}
                                 /\ <<pc[c], call[c]>>' # <<pc[c], call[c]>>
                                 /\ call[c].from \in Parties(r)]_vars

\* E-BUSY and the cap never refuse a message inside a live thread of its two
\* parties, and a recipient is busy only on account of a third party that
\* reaches her, never of a thread she opened (open_threads.py:416-432).
RefusalsAreJustified ==
    [][\A c \in Calls :
          pc[c] = "claim" /\ pc'[c] \in {"busy", "capped"} =>
            /\ \A r \in registry :
                  Live(r, clock) => Parties(r) # {call[c].from, call[c].to}
            /\ pc'[c] = "busy" =>
                  \E r \in registry : /\ r.peer = call[c].to
                                      /\ r.opened_by # call[c].from]_vars
-----------------------------------------------------------------------------
\* The third party that holds a door: the opener of the live row with that
\* agent as its peer.
doorHolder ==
    [a \in Agents |->
        LET held == {rec \in registry :
                        rec.peer = a /\ rec.opened_by # a /\ Live(rec, clock)}
        IN  IF held = {} THEN NoId ELSE (CHOOSE rec \in held : TRUE).opened_by]

D == INSTANCE Doors WITH door <- doorHolder, Nobody <- NoId

\* The registry, the gate, expiry, crashes and faults implement the doors: a
\* door is never taken over from a holder whose lease is live, even by claims
\* decided on a stale clock (open_threads.py:401-406, the check-then-act race).
ImplementsDoors == D!Spec

\* "A failed send rolls the claim back" (session_relay.py:916): a call that
\* returns an error leaves no live lease under its id that it opened.
FailedSendRollsBack ==
    [][\A c \in Calls :
          pc[c] \in Working /\ pc'[c] = "failed" /\ call[c].held
          => ~\E r \in registry' :
                 /\ r.thread_id = call[c].id /\ r.opened_by = call[c].from
                 /\ Live(r, clock)]_vars

\* "resized by the holder on her first reply" (open_threads.py:19): a lease is
\* resized by a message of one of its two parties.
ResizedByAParty ==
    [][\A r \in registry, s \in registry' :
          SameThread(r, s) /\ ~r.resized /\ s.resized =>
            \E c \in Calls : /\ pc[c] = "touch"
                             /\ pc'[c] # "touch"
                             /\ call[c].from \in Parties(r)]_vars
=============================================================================
