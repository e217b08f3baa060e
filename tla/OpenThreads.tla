----------------------------- MODULE OpenThreads -----------------------------
(***************************************************************************)
(* The open-thread lease registry of hermes_mesh/open_threads.py, as the   *)
(* operations its functions perform on the rows of the registry file.      *)
(*                                                                         *)
(* The file is a JSON list; its order is abstracted to a set, so that "the *)
(* first row that matches" becomes "some row that matches".  Time is in    *)
(* abstract units of the lease length.  Reply counters are left out: no    *)
(* decision of the code reads them.                                        *)
(***************************************************************************)
EXTENDS Integers, FiniteSets

CONSTANTS
    Agents,        \* agent names that open threads and are reached by them
    Ids,           \* message ids, which are also thread ids
    NoId,          \* an absent `ref` or `thread` field; nobody, of an agent
    MaxOutbound,   \* MAX_OUTBOUND_THREADS
    DefaultLease,  \* DEFAULT_LEASE_MINUTES
    ResizeLease,   \* MESH_LEASE_RESIZE_MINUTES: any integer the operator set
    MaxLease       \* MAX_LEASE_MINUTES

ASSUME RegistryAssumption ==
    /\ NoId \notin Ids \cup Agents
    /\ MaxOutbound \in Nat \ {0}
    /\ DefaultLease \in Int
    /\ ResizeLease \in Int
    /\ MaxLease \in Nat \ {0}

Lease == [thread_id : Ids, opened_by : Agents, peer : Agents,
          opened_at : Nat, lease_until : Nat, resized : BOOLEAN]

\* max(1, min(int(minutes), MAX_LEASE_MINUTES))
Clamp(minutes) ==
    IF minutes > MaxLease THEN MaxLease
    ELSE IF minutes < 1 THEN 1 ELSE minutes

Parties(rec) == {rec.opened_by, rec.peer}

Live(rec, now) == rec.lease_until > now

LiveRows(rows, now) == {rec \in rows : Live(rec, now)}

\* Mutants: only the opener's direction continues a thread; a recipient is
\* busy by the threads she opened; by any thread she is in; every reply
\* resizes; an id alone releases.
PairRowsOneWay(rows, by, to) ==
    {rec \in rows : rec.opened_by = by /\ rec.peer = to}

BusyRowsOwnReach(rows, by, to) ==
    {rec \in rows : rec.opened_by = to /\ rec.peer \notin {by, to}}

BusyRowsAnyThread(rows, by, to) ==
    {rec \in rows : to \in Parties(rec) /\ by \notin Parties(rec)}

TouchedEveryReply(rec, now) ==
    [rec EXCEPT !.lease_until = now + Clamp(ResizeLease), !.resized = TRUE]

ReleaseBare(rows, id, who) == {rec \in rows : rec.thread_id # id}

\* The live row of the pair: a message between its two parties, in either
\* direction, continues a conversation and makes no claim.
PairRows(rows, by, to) == {rec \in rows : Parties(rec) = {by, to}}

\* The rows that make `to` busy for `by`: she is the peer of a third party.
BusyRows(rows, by, to) ==
    {rec \in rows : rec.peer = to /\ rec.opened_by \notin {by, to}}

OutboundRows(rows, by) == {rec \in rows : rec.opened_by = by}

NewLease(id, by, to, now) ==
    [thread_id |-> id, opened_by |-> by, peer |-> to, opened_at |-> now,
     lease_until |-> now + Clamp(DefaultLease), resized |-> FALSE]

\* touch: the first reply that names the lease resizes it, once.
Touched(rec, now) ==
    IF rec.resized THEN rec
    ELSE [rec EXCEPT !.lease_until = now + Clamp(ResizeLease),
                     !.resized = TRUE]

\* release_if_party: every row with that id of which `who` is a party goes.
ReleaseIfParty(rows, id, who) ==
    {rec \in rows : ~(rec.thread_id = id /\ who \in Parties(rec))}
=============================================================================
