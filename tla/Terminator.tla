----------------------------- MODULE Terminator -----------------------------
(***************************************************************************)
(* The life of a terminal message (reply=end) and of the anchor it closes: *)
(* handle_mesh_send on the sender, the webhook attempts, the recipient's   *)
(* handler, and the outbox reapers that retry a failed send.               *)
(*                                                                         *)
(* A worker is a live send (named by its message) or a reaper; each locked *)
(* registry operation, file operation and webhook post is a step of it.  A *)
(* file is written in place, in two steps: open("w") empties it, the dump  *)
(* fills it, and nobody locks it in between.                               *)
(* The agent sends each terminal message once.                             *)
(***************************************************************************)
EXTENDS ClosedThreads, Naturals

CONSTANTS
    Msgs,            \* terminal messages; a message is also its anchor
    Reapers,         \* gateway processes that sweep the sender's outbox
    NoMsg,           \* no message in hand
    Retries,         \* _DELIVERY_RETRIES
    MaxAttempts,     \* MESH_OUTBOX_MAX_ATTEMPTS
    OutboxEnabled,   \* MESH_OUTBOX_ENABLED
    SharedRegistry,  \* both gateways of one host, one closed-threads.json
    Faults           \* whether gateways may die, deliveries raise, files fail

ASSUME TerminatorAssumption ==
    /\ Msgs \cap Reapers = {}
    /\ NoMsg \notin Msgs
    /\ Retries \in Nat \ {0}
    /\ MaxAttempts \in Nat \ {0}
    /\ OutboxEnabled \in BOOLEAN
    /\ SharedRegistry \in BOOLEAN
    /\ Faults \in BOOLEAN

VARIABLES
    registry,  \* per registry file, what it says of each anchor
    file,      \* per folder, the file of each message: none, whole or torn
    attempt,   \* the attempt number stored in the outbox file
    hand,      \* where the file is now that a worker opened for writing
    pc,        \* where each worker is
    job,       \* the message it has in hand
    posts,     \* webhook posts made in this delivery
    mine,      \* the attempt number a reaper read and incremented
    copy,      \* the copy on the wire whose answer the worker awaits
    late,      \* messages with abandoned copies still on the wire
    seen,      \* the recipient's _seen_message_ids
    landed,    \* history: messages that entered the recipient's inbox
    faulty     \* history: a gateway died, a delivery raised, a file operation failed

outbox == <<file, attempt, hand>>
recipient == <<seen, landed>>
worker == <<pc, job, posts, mine, copy>>
vars == <<registry, outbox, worker, late, recipient, faulty>>

Workers == Msgs \cup Reapers

\* Whose file each side's gateway writes.
SenderFile == "sender"
RecipientFile == IF SharedRegistry THEN "sender" ELSE "recipient"
Files == {SenderFile, RecipientFile}

\* MESH_OUTBOX_DIR and its dead/ folder.
Places == {"outbox", "dead"}
queued == {m \in Msgs : file["outbox"][m] # "none"}

TypeOK ==
    /\ registry \in [Files -> [Msgs -> AnchorStates]]
    /\ file \in [Places -> [Msgs -> {"none", "torn", "whole"}]]
    /\ hand \in [Workers -> Places \cup {"none", "gone"}]
    /\ attempt \in [Msgs -> 0 .. MaxAttempts]
    /\ pc \in [Workers -> {"ready", "idle", "record", "post", "wait",
                           "promote", "withdraw", "unlink", "reschedule", "dump"}]
    /\ job \in [Workers -> Msgs \cup {NoMsg}]
    /\ \A w \in Workers : pc[w] \notin {"ready", "idle"} => job[w] \in Msgs
    /\ posts \in [Workers -> 0 .. Retries]
    /\ mine \in [Workers -> 0 .. MaxAttempts]
    /\ copy \in [Workers -> {"none", "sent", "landed", "busy"}]
    /\ late \subseteq Msgs
    /\ seen \subseteq Msgs /\ landed \subseteq Msgs
    /\ faulty \in BOOLEAN

Init ==
    /\ registry = [f \in Files |-> [m \in Msgs |-> "open"]]
    /\ file = [p \in Places |-> [m \in Msgs |-> "none"]]
    /\ hand = [w \in Workers |-> "none"]
    /\ attempt = [m \in Msgs |-> 0]
    /\ pc = [w \in Workers |-> IF w \in Msgs THEN "ready" ELSE "idle"]
    /\ job = [w \in Workers |-> NoMsg]
    /\ posts = [w \in Workers |-> 0]
    /\ mine = [w \in Workers |-> 0]
    /\ copy = [w \in Workers |-> "none"]
    /\ late = {} /\ seen = {} /\ landed = {} /\ faulty = FALSE

Goto(w, label) == pc' = [pc EXCEPT ![w] = label]

\* A worker lets go of its message.
Finish(w) ==
    /\ Goto(w, "idle")
    /\ job' = [job EXCEPT ![w] = NoMsg]
    /\ posts' = [posts EXCEPT ![w] = 0]
    /\ mine' = [mine EXCEPT ![w] = 0]
    /\ copy' = [copy EXCEPT ![w] = "none"]

OnAnchor(reg, m, state) == registry' = [registry EXCEPT ![reg][m] = state]

\* The file of m leaves the outbox for dead/ or altogether; who has it open for
\* writing goes on writing to it there, and a file it replaces is gone.
Leaves(m, to) ==
    hand' = [w \in Workers |->
               CASE job[w] = m /\ hand[w] = "outbox" -> to
                 [] job[w] = m /\ hand[w] = to -> "gone"
                 [] OTHER -> hand[w]]

\* open(path, "w"): the file is there, and empty.
Truncate(w) ==
    /\ file' = [file EXCEPT !["outbox"][job[w]] = "torn"]
    /\ hand' = [hand EXCEPT ![w] = "outbox"]
    /\ Goto(w, "dump")
-----------------------------------------------------------------------------
\* Mutant: the live send posts without its pending record.
SendEndUnrecorded(m) ==
    /\ pc[m] = "ready"
    /\ job' = [job EXCEPT ![m] = m]
    /\ Goto(m, "post")
    /\ UNCHANGED <<registry, outbox, posts, mine, copy, late, recipient, faulty>>

\* handle_mesh_send(reply=end), past auth resolution.
SendEnd(m) ==
    /\ pc[m] = "ready"
    /\ job' = [job EXCEPT ![m] = m]
    /\ Goto(m, "record")
    /\ UNCHANGED <<registry, outbox, posts, mine, copy, late, recipient, faulty>>

\* Mutant: a reaper retries with the attempt number it read.
PickSameAttempt(r, m) ==
    /\ pc[r] = "idle" /\ file["outbox"][m] = "whole"
    /\ job' = [job EXCEPT ![r] = m]
    /\ mine' = [mine EXCEPT ![r] = attempt[m]]
    /\ Goto(r, "record")
    /\ UNCHANGED <<registry, outbox, posts, copy, late, recipient, faulty>>

\* retry_outbox reads a due item and counts the attempt; it passes over a file
\* that is not JSON, in this sweep and every other.
Pick(r, m) ==
    /\ pc[r] = "idle" /\ file["outbox"][m] = "whole"
    /\ job' = [job EXCEPT ![r] = m]
    /\ mine' = [mine EXCEPT ![r] = attempt[m] + 1]
    /\ Goto(r, "record")
    /\ UNCHANGED <<registry, outbox, posts, copy, late, recipient, faulty>>

\* _attempt_item: the thread the item answers was closed meanwhile (another
\* anchor, so any time); the item is dropped as if it had been delivered.
DropClosedRef(r) ==
    /\ r \in Reapers /\ pc[r] = "record"
    /\ OnAnchor(SenderFile, job[r], Withdrawn(registry[SenderFile][job[r]]))
    /\ Goto(r, "unlink")
    /\ UNCHANGED <<outbox, job, posts, mine, copy, late, recipient, faulty>>

\* _attempt_item: target or sender cannot be resolved; the attempt failed.
Unresolved(r) ==
    /\ r \in Reapers /\ pc[r] = "record"
    /\ OnAnchor(SenderFile, job[r], Withdrawn(registry[SenderFile][job[r]]))
    /\ Goto(r, "reschedule")
    /\ UNCHANGED <<outbox, job, posts, mine, copy, late, recipient, faulty>>

\* record(anchor, pending=True), before the delivery begins.
RecordPending(w) ==
    /\ pc[w] = "record"
    /\ OnAnchor(SenderFile, job[w], Recorded(registry[SenderFile][job[w]], TRUE))
    /\ Goto(w, "post")
    /\ UNCHANGED <<outbox, job, posts, mine, copy, late, recipient, faulty>>

\* One webhook attempt of _deliver_webhook.
Post(w) ==
    /\ pc[w] = "post"
    /\ posts' = [posts EXCEPT ![w] = @ + 1]
    /\ copy' = [copy EXCEPT ![w] = "sent"]
    /\ Goto(w, "wait")
    /\ UNCHANGED <<registry, outbox, job, mine, late, recipient, faulty>>

\* Mutant: the recipient enqueues a terminator without recording its anchor.
HandleUnrecorded(m, answer) ==
    /\ answer = IF m \in seen THEN "landed" ELSE answer
    /\ seen' = IF answer = "landed" THEN seen \cup {m} ELSE seen
    /\ landed' = IF answer = "landed" THEN landed \cup {m} ELSE landed
    /\ UNCHANGED registry

\* _handle_mesh on a terminator: exempt from the THREAD_CLOSED guard; a
\* duplicate is answered from the seen-set; otherwise the anchor is recorded,
\* then the message enqueued, or refused with 503 when the inbox is full.
Handle(m, answer) ==
    \/ /\ m \in seen /\ answer = "landed"
       /\ UNCHANGED <<registry, seen, landed>>
    \/ /\ m \notin seen
       /\ OnAnchor(RecipientFile, m, Recorded(registry[RecipientFile][m], FALSE))
       /\ \/ /\ answer = "landed"
             /\ seen' = seen \cup {m} /\ landed' = landed \cup {m}
          \/ answer = "busy" /\ UNCHANGED <<seen, landed>>

Arrive(w) ==
    /\ copy[w] = "sent"
    /\ \E answer \in {"landed", "busy"} :
         Handle(job[w], answer) /\ copy' = [copy EXCEPT ![w] = answer]
    /\ UNCHANGED <<outbox, pc, job, posts, mine, late, faulty>>

\* A copy whose sender gave up on it arrives, the last one or not, and its
\* answer reaches nobody.
ArriveLate(m) ==
    /\ m \in late
    /\ \E answer \in {"landed", "busy"} : Handle(m, answer)
    /\ late' \in {late, late \ {m}}
    /\ UNCHANGED <<outbox, worker, faulty>>

Lost(m) ==
    /\ m \in late
    /\ late' = late \ {m}
    /\ UNCHANGED <<registry, outbox, worker, recipient, faulty>>

\* The seen-set forgets: TTL, cap, or a restart of the recipient.
Forget(m) ==
    /\ m \in seen
    /\ seen' = seen \ {m}
    /\ UNCHANGED <<registry, outbox, worker, late, landed, faulty>>

\* Mutant: any answer is a confirmation, the 503 of a full inbox included.
ConfirmedByAnyAnswer(w) ==
    /\ pc[w] = "wait" /\ copy[w] \in {"landed", "busy"}
    /\ copy' = [copy EXCEPT ![w] = "none"]
    /\ Goto(w, "promote")
    /\ UNCHANGED <<registry, outbox, job, posts, mine, late, recipient, faulty>>

Confirmed(w) ==
    /\ pc[w] = "wait" /\ copy[w] = "landed"
    /\ copy' = [copy EXCEPT ![w] = "none"]
    /\ Goto(w, "promote")
    /\ UNCHANGED <<registry, outbox, job, posts, mine, late, recipient, faulty>>

\* Mutant: one retry too many.
NoAnswerExtraPost(w) ==
    /\ pc[w] = "wait"
    /\ copy' = [copy EXCEPT ![w] = "none"]
    /\ late' = IF copy[w] = "sent" THEN late \cup {job[w]} ELSE late
    /\ Goto(w, IF posts[w] <= Retries THEN "post" ELSE "withdraw")
    /\ UNCHANGED <<registry, outbox, job, posts, mine, recipient, faulty>>

\* A timeout, whatever became of the copy, or a refusal.
NoAnswer(w) ==
    /\ pc[w] = "wait"
    /\ copy' = [copy EXCEPT ![w] = "none"]
    /\ late' = IF copy[w] = "sent" THEN late \cup {job[w]} ELSE late
    /\ Goto(w, IF posts[w] < Retries THEN "post" ELSE "withdraw")
    /\ UNCHANGED <<registry, outbox, job, posts, mine, recipient, faulty>>

Promote(w) ==
    /\ pc[w] = "promote"
    /\ OnAnchor(SenderFile, job[w], Promoted(registry[SenderFile][job[w]]))
    /\ IF w \in Reapers
       THEN Goto(w, "unlink") /\ UNCHANGED <<job, posts, mine, copy>>
       ELSE Finish(w)
    /\ UNCHANGED <<outbox, late, recipient, faulty>>

\* Mutant: the queueing return comes before the withdrawal.
WithdrawUnlessQueued(w) ==
    /\ pc[w] = "withdraw"
    /\ IF w \in Msgs /\ OutboxEnabled THEN UNCHANGED registry
       ELSE OnAnchor(SenderFile, job[w], Withdrawn(registry[SenderFile][job[w]]))
    /\ Goto(w, "reschedule")
    /\ UNCHANGED <<outbox, job, posts, mine, copy, late, recipient, faulty>>

Withdraw(w) ==
    /\ pc[w] = "withdraw"
    /\ OnAnchor(SenderFile, job[w], Withdrawn(registry[SenderFile][job[w]]))
    /\ Goto(w, "reschedule")
    /\ UNCHANGED <<outbox, job, posts, mine, copy, late, recipient, faulty>>

\* A live send creates its file, or gives the message up without an outbox.
Enqueue(m) ==
    /\ m \in Msgs /\ pc[m] = "reschedule"
    /\ IF OutboxEnabled
       THEN Truncate(m) /\ UNCHANGED <<job, posts, mine, copy>>
       ELSE Finish(m) /\ UNCHANGED <<file, hand>>
    /\ UNCHANGED <<registry, attempt, late, recipient, faulty>>

\* path.unlink() after a success; if another reaper already removed the file
\* the sweep ends in FileNotFoundError.
Unlink(r) ==
    /\ pc[r] = "unlink"
    /\ file' = [file EXCEPT !["outbox"][job[r]] = "none"]
    /\ Leaves(job[r], "gone")
    /\ Finish(r)
    /\ UNCHANGED <<registry, attempt, late, recipient, faulty>>

\* The file is opened to be rewritten, even if it is gone.
Reschedule(r) ==
    /\ r \in Reapers /\ pc[r] = "reschedule" /\ mine[r] < MaxAttempts
    /\ Truncate(r)
    /\ UNCHANGED <<registry, attempt, job, posts, mine, copy, late, recipient, faulty>>

\* Another writer has filled the file that w is about to fill.
Refilled(w) == hand[w] \in Places /\ file[hand[w]][job[w]] = "whole"

Fill(w, text) == file' = [file EXCEPT ![hand[w]][job[w]] = text]

\* json.dump and close.  Over a text that another writer put there since this
\* one's open it leaves that one's tail, if that is the longer; a file that has
\* been unlinked meanwhile is filled for nobody.
Dump(w) ==
    /\ pc[w] = "dump"
    /\ IF hand[w] = "gone" THEN UNCHANGED file
       ELSE Fill(w, "whole") \/ (Refilled(w) /\ Fill(w, "torn"))
    /\ attempt' = IF hand[w] = "outbox"
                  THEN [attempt EXCEPT ![job[w]] = mine[w]] ELSE attempt
    /\ hand' = [hand EXCEPT ![w] = "none"]
    /\ Finish(w)
    /\ UNCHANGED <<registry, late, recipient, faulty>>

\* The last attempt failed: os.replace to dead/, then withdraw once more; a
\* file that cannot be moved is unlinked, one that is gone ends the sweep.
DeadLetter(r) ==
    /\ r \in Reapers /\ pc[r] = "reschedule" /\ mine[r] >= MaxAttempts
    /\ IF job[r] \in queued
       THEN /\ \/ /\ file' = [file EXCEPT !["dead"][job[r]] = file["outbox"][job[r]],
                                          !["outbox"][job[r]] = "none"]
                  /\ Leaves(job[r], "dead")
                  /\ UNCHANGED faulty
               \/ /\ Faults /\ faulty' = TRUE
                  /\ file' = [file EXCEPT !["outbox"][job[r]] = "none"]
                  /\ Leaves(job[r], "gone")
            /\ OnAnchor(SenderFile, job[r],
                        Withdrawn(registry[SenderFile][job[r]]))
       ELSE UNCHANGED <<file, hand, registry, faulty>>
    /\ Finish(r)
    /\ UNCHANGED <<attempt, late, recipient>>

\* The gateway process of a worker dies, or a file operation or a live send's
\* delivery raises, or a reaper's write fails: record and file stay as they are,
\* but for what part of a text was written over another one.
Crash(w) ==
    /\ Faults /\ pc[w] \notin {"ready", "idle"}
    /\ late' = IF copy[w] = "sent" THEN late \cup {job[w]} ELSE late
    /\ hand' = [hand EXCEPT ![w] = "none"]
    /\ Finish(w)
    /\ faulty' = TRUE
    /\ UNCHANGED file \/ (Refilled(w) /\ Fill(w, "torn"))
    /\ UNCHANGED <<registry, attempt, recipient>>

\* A reaper's delivery raises before its first post (signing, say): the record
\* is withdrawn, and the exception ends the sweep with the file as it was.
Raise(r) ==
    /\ Faults /\ r \in Reapers /\ pc[r] = "post" /\ posts[r] = 0
    /\ OnAnchor(SenderFile, job[r], Withdrawn(registry[SenderFile][job[r]]))
    /\ Finish(r)
    /\ faulty' = TRUE
    /\ UNCHANGED <<outbox, late, recipient>>

Step(w) ==
    \/ RecordPending(w) \/ Post(w) \/ Confirmed(w) \/ NoAnswer(w)
    \/ Promote(w) \/ Withdraw(w) \/ Enqueue(w)
    \/ Unlink(w) \/ Reschedule(w) \/ Dump(w) \/ DeadLetter(w)

Next ==
    \/ \E m \in Msgs : SendEnd(m) \/ ArriveLate(m) \/ Lost(m) \/ Forget(m)
    \/ \E r \in Reapers : DropClosedRef(r) \/ Unresolved(r)
                          \/ Raise(r) \/ \E m \in Msgs : Pick(r, m)
    \/ \E w \in Workers : Step(w) \/ Arrive(w) \/ Crash(w)

Spec == Init /\ [][Next]_vars

\* A worker runs on once it has a message (a wait ends by its timeout), and
\* each reaper loop wakes up again and again; the network promises nothing.
Fairness ==
    /\ \A w \in Workers : WF_vars(Step(w))
    /\ \A r \in Reapers : \A m \in Msgs : WF_vars(Pick(r, m))

FairSpec == Spec /\ Fairness
-----------------------------------------------------------------------------
Delivering(w) == pc[w] \in {"post", "wait", "promote"}
InHand(m) == \E w \in Workers : job[w] = m

\* The sender never counts a thread as closed for good by a terminator that
\* its recipient never took: a pending record becomes a close only through an
\* answer that proves arrival (threads.py:193-196, outbox.py:225).
NoGhostClose ==
    \A m \in Msgs :
        registry[SenderFile][m] = "closed" => m \in landed

\* From the first post of a live send to its settlement its anchor reads as
\* closed, so that no reply slips past the guard meanwhile; a reaper promises
\* less, see ConfirmedDeliveryCloses (session_relay.py:1066-1072).
ClosedInFlight ==
    \A m \in Msgs : Delivering(m) => IsClosed(registry[SenderFile][m])

\* While no gateway dies, no pending record outlives the delivery that made it,
\* however two reapers overlap: a terminator that was not delivered leaves its
\* thread open, queued or dead (session_relay.py:1113-1117, outbox.py:286-290).
NothingStaysPending ==
    \A m \in Msgs :
        registry[SenderFile][m] = "pending" => InHand(m) \/ faulty

\* A terminator in the recipient's inbox has closed its thread there: the
\* recipient's own replies to it are refused (adapter.py:473-478).
LandedIsClosed ==
    \A m \in Msgs : m \in landed => registry[RecipientFile][m] = "closed"

\* The anchor log is append-only: whatever fails later, no real close is ever
\* retracted (threads.py:167, 222-223).
ClosesAreFinal ==
    [][\A f \in Files, m \in Msgs :
          registry[f][m] = "closed" => registry'[f][m] = "closed"]_vars

\* The text of m is in a file, or a worker is about to write it to one.
Kept(m) ==
    \/ \E p \in Places : file[p][m] = "whole"
    \/ \E w \in Workers : job[w] = m /\ hand[w] \in Places

\* A file no sweep can read and nobody is about to fill.
Spoiled(m) ==
    /\ file["outbox"][m] = "torn"
    /\ \A w \in Workers : job[w] = m => hand[w] # "outbox"

\* Once a message is in the outbox, the outbox or its dead-letter folder keeps its
\* text until its recipient has it, with four exceptions: its thread is closed, so
\* it is dropped before any post; its last attempt failed and the move to dead/ did
\* too, or moved a file spoiled by then over an earlier one; a write to its file
\* fails halfway; or fills it over the text of another worker, which had truncated
\* it at the same time (outbox.py:3-6, 105-106, 262-266, 283-285, 319-323).
OutboxLosesNothing ==
    [][\A m \in Msgs :
          Kept(m) /\ ~Kept(m)'
          => \/ m \in landed
             \/ \E r \in Reapers :
                   /\ job[r] = m
                   /\ \/ pc[r] = "unlink" /\ posts[r] = 0
                      \/ mine[r] >= MaxAttempts /\ (faulty' \/ Spoiled(m))
             \/ \E w \in Workers :
                   job[w] = m /\ pc[w] = "dump" /\ (faulty' \/ Refilled(w))]_vars

\* Of each thread the two registries make a commitment in two phases, whatever
\* attempts, reapers, crashes and late copies lie between the phases.
C == INSTANCE Closing WITH
        Anchors <- Msgs, taken <- landed,
        sender <- registry[SenderFile], recipient <- registry[RecipientFile]

\* Two gateways with a file each implement that commitment: pending before the
\* first post, closed at the recipient before its inbox, closed for good only
\* upon proof of arrival, else withdrawn (threads.py:166-248, adapter.py:473).
ImplementsClosing == C!Spec

\* Unless a gateway dies or a delivery or a file operation fails, or two workers
\* write their texts over each other, no terminator stays in the outbox: two reapers
\* may rewrite, unlink and dead-letter its file under each other, but it is
\* delivered, dropped or dead-lettered in the end (outbox.py:3-6, 262-323).
OutboxDrains ==
    \A m \in Msgs :
        m \in queued ~> faulty \/ Spoiled(m) \/ (m \notin queued /\ ~InHand(m))

\* "recipient gateway records the terminal anchor on receive" (adapter.py:473):
\* once it accepted a terminator and every delivery of it has ended, the
\* thread is closed in the registry the recipient reads.
AcceptedStaysClosed ==
    \A m \in Msgs :
        m \in landed /\ ~InHand(m) => IsClosed(registry[RecipientFile][m])

\* "the reaper's confirmed delivery is what closes the thread"
\* (test_outbox_terminal_close.py:100): a reaper that saw its delivery
\* confirmed and promoted the anchor leaves it closed.
ConfirmedDeliveryCloses ==
    [][\A r \in Reapers :
          pc[r] = "promote" /\ pc'[r] = "unlink"
          => registry'[SenderFile][job[r]] = "closed"]_vars
=============================================================================
