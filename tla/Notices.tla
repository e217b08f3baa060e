------------------------------- MODULE Notices -------------------------------
(***************************************************************************)
(* Delivery-status notifications between gateways (_send_delivery_error in *)
(* session_relay.py, _send_receive_dsn in adapter.py, dead letters in      *)
(* outbox.py).  A gateway that refuses a request tells its sender so from  *)
(* the event loop itself, and answers nothing until that is delivered; a   *)
(* notification that fails is queued, and re-delivered without the header  *)
(* that marks it.  Delivery tells how one delivery spends its attempts;    *)
(* here it is one request that is answered, times out or does not arrive.  *)
(***************************************************************************)
EXTENDS Integers

CONSTANTS
    Agents,       \* one gateway each
    Nobody,       \* no thread waits for the answer
    Messages,     \* bound: what is sent, each once, as <<sender, recipient>>
    MaxDepth      \* bound: notices about notices about ...

ASSUME NoticesAssumption ==
    /\ MaxDepth \in Nat
    /\ Messages \subseteq Agents \X Agents

VARIABLES
    enabled,  \* MESH_OUTBOX_ENABLED
    replies,  \* the messages that have a ref
    sent,     \* messages sent
    job,      \* per thread, the delivery it makes
    answer,   \* per thread, what came of it
    pending,  \* requests that wait for the event loop of their recipient
    outbox,   \* queued items: one directory for every gateway's reaper
    queued    \* history: depths of notices that were queued

vars == <<enabled, replies, sent, job, answer, pending, outbox, queued>>

\* A thread that handles requests, and one for tool calls and the reaper.
Threads == Agents \X {"loop", "worker"}
Loop(a) == <<a, "loop">>
Worker(a) == <<a, "worker">>

\* A message has depth 0, a notice is one deeper than what it is about.
Note == [from : Agents, to : Agents, depth : 0 .. MaxDepth]
Message(m) == [from |-> m[1], to |-> m[2], depth |-> 0]
\* item: it is a file of the outbox.
\* asker: the thread that waits for this loop to answer its own request.
Job == [note : Note, header : BOOLEAN, item : BOOLEAN,
        asker : Threads \cup {Nobody}]
Request == [note : Note, header : BOOLEAN, waiter : Threads]

ASSUME NobodyAssumption == Nobody \notin Threads \cup Job

TypeOK ==
    /\ enabled \in BOOLEAN
    /\ replies \subseteq Messages
    /\ sent \subseteq Messages
    /\ job \in [Threads -> Job \cup {Nobody}]
    /\ \A t \in Threads : job[t] # Nobody /\ job[t].item => t[2] = "worker"
    /\ answer \in [Threads -> {"none", "accepted", "failed"}]
    /\ pending \subseteq Request
    /\ outbox \subseteq Note
    /\ queued \subseteq 0 .. MaxDepth

Init ==
    /\ enabled \in BOOLEAN /\ replies \in SUBSET Messages
    /\ sent = {} /\ queued = {} /\ outbox = {}
    /\ job = [t \in Threads |-> Nobody]
    /\ answer = [t \in Threads |-> "none"]
    /\ pending = {}

Idle(t) == job[t] = Nobody
Waits(t) == ~Idle(t) /\ answer[t] = "none"
-----------------------------------------------------------------------------
\* Thread t delivers a note, beside the other requests.
Post(t, note, header, item, asker, others) ==
    /\ job' = [job EXCEPT ![t] = [note |-> note, header |-> header,
                                  item |-> item, asker |-> asker]]
    /\ answer' = [answer EXCEPT ![t] = "none"]
    /\ pending' = others \cup {[note |-> note, header |-> header, waiter |-> t]}

\* What the threads know once t has been answered so.
Answered(t, how) == IF t = Nobody THEN answer ELSE [answer EXCEPT ![t] = how]

\* Thread t is done; a loop now answers the request that it refused.
Rest(t) ==
    /\ job' = [job EXCEPT ![t] = Nobody]
    /\ answer' = [Answered(job[t].asker, "failed") EXCEPT ![t] = "none"]
    /\ UNCHANGED pending

Notice(from, to, about) == [from |-> from, to |-> to, depth |-> about.depth + 1]

\* Who is told that a message failed: the one who asked if it was a reply, else
\* its sender.
IsReply(note) == <<note.from, note.to>> \in replies
Told(about) == IF IsReply(about) THEN about.to ELSE about.from

\* _send_delivery_error: the thread itself delivers the notice; the rate limit,
\* an unknown target or disabled notifications make it silent.
Report(t, about) ==
    \/ /\ about.depth < MaxDepth
       /\ Post(t, Notice(about.from, Told(about), about), TRUE, FALSE, Nobody, pending)
    \/ job' = [job EXCEPT ![t] = Nobody] /\ answer' = [answer EXCEPT ![t] = "none"]
       /\ UNCHANGED pending

\* queue_message, for what could not be delivered.
Queue(note) ==
    /\ outbox' = outbox \cup {note}
    /\ queued' = IF note.depth > 0 THEN queued \cup {note.depth} ELSE queued

\* handle_mesh_send.
Send(a, b) ==
    /\ Idle(Worker(a)) /\ <<a, b>> \in Messages \ sent
    /\ sent' = sent \cup {<<a, b>>}
    /\ \/ Post(Worker(a), Message(<<a, b>>), FALSE, FALSE, Nobody, pending)
       \* The target does not resolve.
       \/ Report(Worker(a), Message(<<a, b>>))
    /\ UNCHANGED <<enabled, replies, outbox, queued>>

\* Mutant: the sweep runs on the event loop (asyncio.to_thread is left out).
SweepOnLoop(a) ==
    /\ enabled /\ Idle(Loop(a))
    /\ \E note \in outbox :
         Post(Loop(a), note, FALSE, TRUE, Nobody, pending)
    /\ UNCHANGED <<enabled, replies, sent, outbox, queued>>

\* retry_outbox and _attempt_item, of an item that any gateway queued and that
\* another reaper may be delivering; nothing in it says it had a header.
Sweep(a) ==
    /\ enabled /\ Idle(Worker(a))
    /\ \E note \in outbox :
         Post(Worker(a), note, FALSE, TRUE, Nobody, pending)
    /\ UNCHANGED <<enabled, replies, sent, outbox, queued>>

\* _attempt_item finds the thread closed that a reply refers to: it is dropped
\* without a word.  A notice never is.
DropClosedRef(a) ==
    /\ enabled /\ Idle(Worker(a))
    /\ \E note \in outbox :
         /\ note.depth = 0 /\ IsReply(note)
         /\ outbox' = outbox \ {note}
    /\ UNCHANGED <<enabled, replies, sent, job, answer, pending, queued>>
-----------------------------------------------------------------------------
\* _handle_mesh on a free loop takes the request in.
Accept(a) ==
    /\ Idle(Loop(a))
    /\ \E r \in pending :
         /\ r.note.to = a
         /\ pending' = pending \ {r}
         /\ answer' = Answered(r.waiter, "accepted")
    /\ UNCHANGED <<enabled, replies, sent, job, outbox, queued>>

\* Mutant: notifications are answered with notifications.
RefuseAll(a) ==
    /\ Idle(Loop(a))
    /\ \E r \in pending :
         /\ r.note.to = a
         /\ \/ /\ r.note.depth < MaxDepth
               /\ Post(Loop(a), Notice(a, r.note.from, r.note), TRUE, FALSE, r.waiter,
                       pending \ {r})
            \/ /\ pending' = pending \ {r}
               /\ answer' = Answered(r.waiter, "failed")
               /\ UNCHANGED job
    /\ UNCHANGED <<enabled, replies, sent, outbox, queued>>

\* Mutant: the notice goes without the header.
RefuseBare(a) ==
    /\ Idle(Loop(a))
    /\ \E r \in pending :
         /\ r.note.to = a
         /\ \/ /\ ~r.header /\ r.note.depth < MaxDepth
               /\ Post(Loop(a), Notice(a, r.note.from, r.note), FALSE, FALSE, r.waiter,
                       pending \ {r})
            \/ /\ pending' = pending \ {r}
               /\ answer' = Answered(r.waiter, "failed")
               /\ UNCHANGED job
    /\ UNCHANGED <<enabled, replies, sent, outbox, queued>>

\* _handle_mesh refuses (busy, rate-limited, unauthorized, not found).  Unless
\* the request has the header, the loop first sends a notice, and waits.
Refuse(a) ==
    /\ Idle(Loop(a))
    /\ \E r \in pending :
         /\ r.note.to = a
         /\ \/ /\ ~r.header /\ r.note.depth < MaxDepth
               /\ Post(Loop(a), Notice(a, r.note.from, r.note), TRUE, FALSE, r.waiter,
                       pending \ {r})
            \/ /\ pending' = pending \ {r}
               /\ answer' = Answered(r.waiter, "failed")
               /\ UNCHANGED job
    /\ UNCHANGED <<enabled, replies, sent, outbox, queued>>

\* t waits no longer, and no loop owes it an answer.
GiveUp(t, requests) ==
    /\ answer' = [answer EXCEPT ![t] = "failed"]
    /\ pending' = requests
    /\ job' = [w \in Threads |->
                 IF ~Idle(w) /\ job[w].asker = t THEN [job[w] EXCEPT !.asker = Nobody]
                 ELSE job[w]]

\* Mutant: no timeout on a socket that was connected.
TimeoutNever(t) == FALSE /\ UNCHANGED vars

\* No answer in time: the request or the answer was lost, or the peer's loop is
\* busy.  What a peer does with a request after that is what it would have done
\* just before, so the model loses the request.
Timeout(t) ==
    /\ Waits(t)
    /\ GiveUp(t, {r \in pending : r.waiter # t})
    /\ UNCHANGED <<enabled, replies, sent, outbox, queued>>
-----------------------------------------------------------------------------
\* A confirmed delivery; an item of the outbox is unlinked.
Delivered(t) ==
    /\ ~Idle(t) /\ answer[t] = "accepted"
    /\ Rest(t)
    /\ outbox' = IF job[t].item THEN outbox \ {job[t].note} ELSE outbox
    /\ UNCHANGED <<enabled, replies, sent, queued>>

\* A live delivery failed: it is queued, or else a message is reported.
FailedLive(t) ==
    /\ ~Idle(t) /\ answer[t] = "failed" /\ ~job[t].item
    /\ IF enabled
       THEN Queue(job[t].note) /\ Rest(t)
       ELSE /\ IF job[t].note.depth = 0 THEN Report(t, job[t].note) ELSE Rest(t)
            /\ UNCHANGED <<outbox, queued>>
    /\ UNCHANGED <<enabled, replies, sent>>

\* The item is due again later: its file is written anew, even if another
\* reaper has unlinked it meanwhile.
Reschedule(t) ==
    /\ ~Idle(t) /\ answer[t] = "failed" /\ job[t].item
    /\ Rest(t)
    /\ outbox' = outbox \cup {job[t].note}
    /\ UNCHANGED <<enabled, replies, sent, queued>>

\* The last attempt failed: a dead message is reported, a dead notice is not.
\* Which attempt is the last is Terminator's; here any may be.
DeadLetter(t) ==
    /\ ~Idle(t) /\ answer[t] = "failed" /\ job[t].item
    /\ outbox' = outbox \ {job[t].note}
    /\ IF job[t].note.depth = 0 THEN Report(t, job[t].note) ELSE Rest(t)
    /\ UNCHANGED <<enabled, replies, sent, queued>>

\* What a thread in a delivery does by itself.
Proceed(t) ==
    \/ Timeout(t) \/ Delivered(t)
    \/ FailedLive(t) \/ Reschedule(t) \/ DeadLetter(t)

Next ==
    \/ \E a, b \in Agents : Send(a, b)
    \/ \E a \in Agents : Sweep(a) \/ DropClosedRef(a) \/ Accept(a) \/ Refuse(a)
    \/ \E t \in Threads : Proceed(t)

Spec == Init /\ [][Next]_vars

\* A socket of an event loop times out and the loop runs on; nothing is asked
\* of other threads, of peers or of the reaper.
FairSpec == Spec /\ \A a \in Agents : WF_vars(Proceed(Loop(a)))
-----------------------------------------------------------------------------
Notes == {r.note : r \in pending}
         \cup {job[t].note : t \in {w \in Threads : ~Idle(w)}}
         \cup outbox

\* "DSN responses never spawn DSNs" (tests/test_dsn.py:155-157), as far as it
\* goes: a notice about a notice exists only if that one was queued, to be
\* re-delivered without its header (outbox.py:211-219, adapter.py:596-597).
NoticesOfQueued ==
    \A n \in Notes : n.depth > 1 => n.depth - 1 \in queued

Owes(t) == ~Idle(t) /\ job[t].asker # Nobody

\* A thread that keeps another waiting for its answer is an event loop, and the
\* other is none: the notice that a loop delivers makes no other loop send one
\* first, so that a loop waits for loops that are busy with requests of
\* workers, and never along a chain of refusals (adapter.py:596-597,
\* session_relay.py:656-667).
RefusalsDoNotChain ==
    \A t \in Threads : Owes(t) => t[2] = "loop" /\ job[t].asker[2] = "worker"

\* Event loops that notify each other, or themselves, wait for each other's
\* answer, and every one comes back: no cycle of them blocks a gateway for good
\* (adapter.py:585-608).
LoopsResume == \A a \in Agents : ~Idle(Loop(a)) ~> Idle(Loop(a))
=============================================================================
