--------------------------- MODULE Terminator_proofs ---------------------------
(***************************************************************************)
(* Proofs about Terminator for any number of terminal messages, reapers,   *)
(* retries and attempts, crashes and raising deliveries included.          *)
(***************************************************************************)
EXTENDS Terminator, TLAPS

\* The registry's functions map anchor states to anchor states.
LEMMA AnchorOps ==
  ASSUME NEW s \in AnchorStates
  PROVE  /\ \A pending \in BOOLEAN : Recorded(s, pending) \in AnchorStates
         /\ Promoted(s) \in AnchorStates
         /\ Withdrawn(s) \in AnchorStates
  BY DEF AnchorStates, Recorded, Promoted, Withdrawn

\* A registry step changes one anchor in one file.
LEMMA OnAnchorStep ==
  ASSUME registry \in [Files -> [Msgs -> AnchorStates]],
         NEW reg \in Files, NEW m \in Msgs, NEW s \in AnchorStates,
         OnAnchor(reg, m, s)
  PROVE  /\ registry' \in [Files -> [Msgs -> AnchorStates]]
         /\ \A f \in Files, n \in Msgs :
               registry'[f][n] = IF f = reg /\ n = m THEN s
                                 ELSE registry[f][n]
  BY DEF OnAnchor

\* What the type invariant needs of the workers: a file never stores the last
\* attempt number, a post is made below the retry limit, only a worker that waits
\* for an answer has a copy on the wire, and one about to write has its file open.
WorkerOK ==
    /\ \A m \in Msgs : attempt[m] < MaxAttempts
    /\ \A w \in Workers : pc[w] \in {"ready", "idle", "record"} => posts[w] = 0
    /\ \A w \in Workers : pc[w] = "post" => posts[w] < Retries
    /\ \A w \in Workers : copy[w] # "none" => pc[w] = "wait"
    /\ \A w \in Workers : pc[w] = "dump" => mine[w] < MaxAttempts
    /\ \A w \in Msgs : mine[w] = 0
    /\ \A w \in Workers : hand[w] # "none" <=> pc[w] = "dump"

TypeInv == TypeOK /\ WorkerOK

\* A worker that lets go of its message.
LEMMA FinishType ==
  ASSUME TypeInv, NEW w \in Workers, Finish(w)
  PROVE  /\ pc' = [pc EXCEPT ![w] = "idle"]
         /\ job' \in [Workers -> Msgs \cup {NoMsg}]
         /\ \A v \in Workers : pc'[v] \notin {"ready", "idle"} => job'[v] \in Msgs
         /\ posts' \in [Workers -> 0 .. Retries]
         /\ mine' \in [Workers -> 0 .. MaxAttempts]
         /\ copy' \in [Workers -> {"none", "sent", "landed", "busy"}]
         /\ \A v \in Workers :
               pc'[v] \in {"ready", "idle", "record"} => posts'[v] = 0
         /\ \A v \in Workers : pc'[v] = "post" => posts'[v] < Retries
         /\ \A v \in Workers : copy'[v] # "none" => pc'[v] = "wait"
         /\ \A v \in Workers : pc'[v] = "dump" => mine'[v] < MaxAttempts
         /\ \A v \in Msgs : mine'[v] = 0
  BY TerminatorAssumption DEF TypeInv, TypeOK, WorkerOK, Finish, Goto, Workers

\* A file that leaves the outbox takes its writers with it.
LEMMA LeavesType ==
  ASSUME TypeInv, NEW m \in Msgs, NEW to \in {"dead", "gone"}, Leaves(m, to)
  PROVE  /\ hand' \in [Workers -> Places \cup {"none", "gone"}]
         /\ \A w \in Workers : hand'[w] # "none" <=> hand[w] # "none"
  BY DEF TypeInv, TypeOK, Leaves, Places

\* A file opened for writing, and a text written to wherever the file is.
LEMMA WriteType ==
  ASSUME TypeInv, NEW w \in Workers, job[w] \in Msgs
  PROVE  /\ [file EXCEPT !["outbox"][job[w]] = "torn"]
               \in [Places -> [Msgs -> {"none", "torn", "whole"}]]
         /\ [file EXCEPT !["outbox"][job[w]] = "none"]
               \in [Places -> [Msgs -> {"none", "torn", "whole"}]]
         /\ \A text \in {"torn", "whole"} :
              hand[w] \in Places /\ Fill(w, text) =>
                file' \in [Places -> [Msgs -> {"none", "torn", "whole"}]]
<1>1. ASSUME NEW p \in Places, NEW s \in {"none", "torn", "whole"}
      PROVE  [file EXCEPT ![p][job[w]] = s]
                \in [Places -> [Msgs -> {"none", "torn", "whole"}]]
  BY DEF TypeInv, TypeOK
<1>2. "outbox" \in Places
  BY DEF Places
<1> QED
  BY <1>1, <1>2 DEF Fill

\* A worker that lets go of its message, with whatever file it had open.
LEMMA FinishInv ==
  ASSUME TypeInv, NEW w \in Workers, Finish(w),
         registry' \in [Files -> [Msgs -> AnchorStates]],
         file' \in [Places -> [Msgs -> {"none", "torn", "whole"}]],
         hand' \in [Workers -> Places \cup {"none", "gone"}],
         \A v \in Workers : hand'[v] # "none" <=> v # w /\ hand[v] # "none",
         attempt' \in [Msgs -> 0 .. MaxAttempts],
         \A m \in Msgs : attempt'[m] < MaxAttempts,
         late' \subseteq Msgs, seen' \subseteq Msgs, landed' \subseteq Msgs,
         faulty' \in BOOLEAN
  PROVE  TypeInv'
<1>1. \A v \in Workers : hand'[v] # "none" <=> pc'[v] = "dump"
  BY DEF Finish, Goto, TypeInv, TypeOK, WorkerOK
<1>2. pc' \in [Workers -> {"ready", "idle", "record", "post", "wait",
                          "promote", "withdraw", "unlink", "reschedule", "dump"}]
  BY DEF Finish, Goto, TypeInv, TypeOK
<1> QED
  BY <1>1, <1>2, FinishType DEF TypeInv, TypeOK, WorkerOK

LEMMA TruncateType ==
  ASSUME TypeInv, NEW w \in Workers, job[w] \in Msgs, mine[w] < MaxAttempts,
         posts[w] \in 0 .. Retries, copy[w] = "none", Truncate(w),
         UNCHANGED <<registry, attempt, job, posts, mine, copy, late, recipient, faulty>>
  PROVE  TypeInv'
<1>1. /\ file' \in [Places -> [Msgs -> {"none", "torn", "whole"}]]
      /\ hand' = [hand EXCEPT ![w] = "outbox"]
      /\ pc' = [pc EXCEPT ![w] = "dump"]
  BY WriteType DEF Truncate, Goto
<1>2. hand' \in [Workers -> Places \cup {"none", "gone"}]
  BY <1>1 DEF TypeInv, TypeOK, Places
<1> QED
  BY <1>1, <1>2 DEF recipient, TypeInv, TypeOK, WorkerOK

\* What a handler does to the recipient's side.
LEMMA HandleType ==
  ASSUME TypeInv, NEW m \in Msgs, NEW answer \in {"landed", "busy"},
         Handle(m, answer)
  PROVE  /\ registry' \in [Files -> [Msgs -> AnchorStates]]
         /\ seen' \subseteq Msgs
         /\ landed' \subseteq Msgs
<1>1. RecipientFile \in Files
  BY DEF Files
<1>2. registry[RecipientFile][m] \in AnchorStates
  BY <1>1 DEF TypeInv, TypeOK
<1>3. Recorded(registry[RecipientFile][m], FALSE) \in AnchorStates
  BY <1>2, AnchorOps
<1> QED
  BY <1>1, <1>3, OnAnchorStep DEF TypeInv, TypeOK, Handle

\* What a registry operation does to the sender's file.
LEMMA SettleType ==
  ASSUME TypeInv, NEW m \in Msgs,
         \/ OnAnchor(SenderFile, m, Recorded(registry[SenderFile][m], TRUE))
         \/ OnAnchor(SenderFile, m, Promoted(registry[SenderFile][m]))
         \/ OnAnchor(SenderFile, m, Withdrawn(registry[SenderFile][m]))
  PROVE  registry' \in [Files -> [Msgs -> AnchorStates]]
<1>1. SenderFile \in Files
  BY DEF Files
<1>2. registry[SenderFile][m] \in AnchorStates
  BY <1>1 DEF TypeInv, TypeOK
<1> QED
  BY <1>1, <1>2, AnchorOps, OnAnchorStep DEF TypeInv, TypeOK
-----------------------------------------------------------------------------
LEMMA TypeInit == Init => TypeInv
<1> SUFFICES ASSUME Init PROVE TypeInv
  OBVIOUS
<1>1. WorkerOK
  BY TerminatorAssumption DEF Init, WorkerOK, Workers
<1>2. /\ registry \in [Files -> [Msgs -> AnchorStates]]
      /\ pc \in [Workers -> {"ready", "idle", "record", "post", "wait",
                             "promote", "withdraw", "unlink", "reschedule", "dump"}]
      /\ \A w \in Workers : pc[w] \in {"ready", "idle"}
  BY DEF Init, AnchorStates
<1>3. /\ attempt \in [Msgs -> 0 .. MaxAttempts]
      /\ job \in [Workers -> Msgs \cup {NoMsg}]
      /\ posts \in [Workers -> 0 .. Retries]
      /\ mine \in [Workers -> 0 .. MaxAttempts]
      /\ copy \in [Workers -> {"none", "sent", "landed", "busy"}]
  BY TerminatorAssumption DEF Init
<1>4. /\ late = {} /\ seen = {} /\ landed = {} /\ faulty = FALSE
      /\ file \in [Places -> [Msgs -> {"none", "torn", "whole"}]]
      /\ hand \in [Workers -> Places \cup {"none", "gone"}]
  BY DEF Init
<1> QED
  BY <1>1, <1>2, <1>3, <1>4 DEF TypeInv, TypeOK

LEMMA TypeStep == TypeInv /\ [Next]_vars => TypeInv'
<1> SUFFICES ASSUME TypeInv, [Next]_vars PROVE TypeInv'
  OBVIOUS
<1> USE TerminatorAssumption DEF TypeInv
<1>1. CASE UNCHANGED vars
  BY <1>1 DEF vars, outbox, worker, recipient, TypeOK, WorkerOK
<1>2. ASSUME NEW m \in Msgs, SendEnd(m) PROVE TypeInv'
  <2>1. m \in Workers
    BY DEF Workers
  <2> QED
    BY <1>2, <2>1 DEF SendEnd, Goto, outbox, recipient, TypeOK, WorkerOK
<1>3. ASSUME NEW m \in Msgs, ArriveLate(m) PROVE TypeInv'
  <2>1. /\ registry' \in [Files -> [Msgs -> AnchorStates]]
        /\ seen' \subseteq Msgs
        /\ landed' \subseteq Msgs
    BY <1>3, HandleType DEF ArriveLate
  <2> QED
    BY <1>3, <2>1 DEF ArriveLate, outbox, worker, TypeOK, WorkerOK
<1>4. ASSUME NEW m \in Msgs, Lost(m) \/ Forget(m) PROVE TypeInv'
  BY <1>4 DEF Lost, Forget, outbox, worker, recipient, TypeOK, WorkerOK
<1>5. ASSUME NEW r \in Reapers, DropClosedRef(r) \/ Unresolved(r) PROVE TypeInv'
  <2>1. r \in Workers
    BY DEF Workers
  <2>2. job[r] \in Msgs
    BY <1>5, <2>1 DEF DropClosedRef, Unresolved, TypeOK
  <2>3. registry' \in [Files -> [Msgs -> AnchorStates]]
    BY <1>5, <2>2, SettleType DEF DropClosedRef, Unresolved
  <2>4. /\ pc' = [pc EXCEPT ![r] = pc'[r]] /\ pc'[r] \in {"unlink", "reschedule"}
        /\ UNCHANGED <<outbox, job, posts, mine, copy, late, recipient, faulty>>
        /\ pc[r] = "record"
    BY <1>5, <2>1 DEF DropClosedRef, Unresolved, Goto, TypeOK
  <2> QED
    BY <2>1, <2>2, <2>3, <2>4 DEF outbox, recipient, TypeOK, WorkerOK
<1>6. ASSUME NEW r \in Reapers, Raise(r) PROVE TypeInv'
  <2>1. r \in Workers /\ Finish(r)
    BY <1>6 DEF Workers, Raise
  <2>2. job[r] \in Msgs
    BY <1>6, <2>1 DEF Raise, TypeOK
  <2>3. registry' \in [Files -> [Msgs -> AnchorStates]]
    BY <1>6, <2>2, SettleType DEF Raise
  <2>4. UNCHANGED <<outbox, late, recipient>> /\ faulty' \in BOOLEAN
        /\ hand[r] = "none"
    BY <1>6, <2>1 DEF Raise, WorkerOK
  <2> QED
    BY <2>1, <2>3, <2>4, FinishInv DEF outbox, recipient, TypeOK, WorkerOK
<1>7. ASSUME NEW r \in Reapers, NEW m \in Msgs, Pick(r, m) PROVE TypeInv'
  <2>1. r \in Workers
    BY DEF Workers
  <2>2. attempt[m] + 1 \in 0 .. MaxAttempts
    BY DEF TypeOK, WorkerOK
  <2> QED
    BY <1>7, <2>1, <2>2 DEF Pick, Goto, outbox, recipient, TypeOK, WorkerOK
<1>8. ASSUME NEW w \in Workers, Arrive(w) PROVE TypeInv'
  <2>1. job[w] \in Msgs /\ pc[w] = "wait"
    BY <1>8 DEF Arrive, TypeOK, WorkerOK
  <2>2. /\ registry' \in [Files -> [Msgs -> AnchorStates]]
        /\ seen' \subseteq Msgs
        /\ landed' \subseteq Msgs
    BY <1>8, <2>1, HandleType DEF Arrive
  <2> QED
    BY <1>8, <2>1, <2>2 DEF Arrive, outbox, TypeOK, WorkerOK
<1>9. ASSUME NEW w \in Workers, Crash(w) PROVE TypeInv'
  <2>1. /\ Finish(w) /\ UNCHANGED <<registry, attempt, recipient>>
        /\ faulty' \in BOOLEAN /\ hand' = [hand EXCEPT ![w] = "none"]
    BY <1>9 DEF Crash
  <2>2. late' \subseteq Msgs /\ job[w] \in Msgs
    BY <1>9 DEF Crash, TypeOK
  <2>3. file' \in [Places -> [Msgs -> {"none", "torn", "whole"}]]
    BY <1>9, <2>2, WriteType DEF Crash, Refilled, TypeOK
  <2> QED
    BY <2>1, <2>2, <2>3, FinishInv DEF recipient, TypeOK, WorkerOK
<1>10. ASSUME NEW w \in Workers, Step(w) PROVE TypeInv'
  <2>1. CASE RecordPending(w)
    <3>1. job[w] \in Msgs /\ posts[w] = 0
      BY <2>1 DEF RecordPending, TypeOK, WorkerOK
    <3>2. registry' \in [Files -> [Msgs -> AnchorStates]]
      BY <2>1, <3>1, SettleType DEF RecordPending
    <3> QED
      BY <2>1, <3>1, <3>2
      DEF RecordPending, Goto, outbox, recipient, TypeOK, WorkerOK
  <2>2. CASE Post(w)
    <3>1. posts[w] + 1 \in 0 .. Retries
      BY <2>2 DEF Post, TypeOK, WorkerOK
    <3> QED
      BY <2>2, <3>1 DEF Post, Goto, outbox, recipient, TypeOK, WorkerOK
  <2>3. CASE Confirmed(w)
    BY <2>3 DEF Confirmed, Goto, outbox, recipient, TypeOK, WorkerOK
  <2>4. CASE NoAnswer(w)
    BY <2>4 DEF NoAnswer, Goto, outbox, recipient, TypeOK, WorkerOK
  <2>5. CASE Promote(w)
    <3>1. job[w] \in Msgs
      BY <2>5 DEF Promote, TypeOK
    <3>2. registry' \in [Files -> [Msgs -> AnchorStates]]
      BY <2>5, <3>1, SettleType DEF Promote
    <3>3. CASE w \in Reapers
      <4>1. /\ pc' = [pc EXCEPT ![w] = "unlink"] /\ pc[w] = "promote"
            /\ UNCHANGED <<outbox, job, posts, mine, copy, late, recipient, faulty>>
        BY <2>5, <3>3 DEF Promote, Goto
      <4> QED
        BY <3>1, <3>2, <4>1 DEF outbox, recipient, TypeOK, WorkerOK
    <3>4. CASE w \notin Reapers
      <4>1. Finish(w) /\ UNCHANGED <<outbox, late, recipient, faulty>>
        BY <2>5, <3>4 DEF Promote
      <4>2. hand[w] = "none"
        BY <2>5 DEF Promote, WorkerOK
      <4> QED
        BY <3>2, <4>1, <4>2, FinishInv DEF outbox, recipient, TypeOK, WorkerOK
    <3> QED
      BY <3>3, <3>4
  <2>6. CASE Withdraw(w)
    <3>1. job[w] \in Msgs
      BY <2>6 DEF Withdraw, TypeOK
    <3>2. registry' \in [Files -> [Msgs -> AnchorStates]]
      BY <2>6, <3>1, SettleType DEF Withdraw
    <3> QED
      BY <2>6, <3>1, <3>2
      DEF Withdraw, Goto, outbox, recipient, TypeOK, WorkerOK
  <2>7. CASE Enqueue(w)
    <3>1. w \in Msgs /\ job[w] \in Msgs /\ mine[w] = 0 /\ copy[w] = "none"
      BY <2>7 DEF Enqueue, TypeOK, WorkerOK
    <3>2. CASE OutboxEnabled
      BY <2>7, <3>1, <3>2, TruncateType DEF Enqueue, TypeOK
    <3>3. CASE ~OutboxEnabled
      <4>1. Finish(w) /\ UNCHANGED <<registry, outbox, late, recipient, faulty>>
        BY <2>7, <3>3 DEF Enqueue, outbox
      <4>2. hand[w] = "none"
        BY <2>7 DEF Enqueue, WorkerOK
      <4> QED
        BY <4>1, <4>2, FinishInv DEF outbox, recipient, TypeOK, WorkerOK
    <3> QED
      BY <3>2, <3>3
  <2>8. CASE Unlink(w)
    <3>1. /\ Finish(w) /\ UNCHANGED <<registry, attempt, late, recipient, faulty>>
          /\ Leaves(job[w], "gone") /\ job[w] \in Msgs /\ hand[w] = "none"
      BY <2>8 DEF Unlink, TypeOK, WorkerOK
    <3>2. file' \in [Places -> [Msgs -> {"none", "torn", "whole"}]]
      BY <2>8, <3>1, WriteType DEF Unlink
    <3> QED
      BY <3>1, <3>2, FinishInv, LeavesType DEF recipient, TypeOK, WorkerOK
  <2>9. CASE Reschedule(w)
    <3>1. job[w] \in Msgs /\ copy[w] = "none" /\ mine[w] < MaxAttempts
      BY <2>9 DEF Reschedule, TypeOK, WorkerOK
    <3> QED
      BY <2>9, <3>1, TruncateType DEF Reschedule, TypeOK
  <2>10. CASE DeadLetter(w)
    <3>1. Finish(w) /\ UNCHANGED <<attempt, late, recipient>> /\ faulty' \in BOOLEAN
      BY <2>10 DEF DeadLetter, TypeOK
    <3>2. job[w] \in Msgs /\ hand[w] = "none"
      BY <2>10 DEF DeadLetter, TypeOK, WorkerOK
    <3>3. registry' \in [Files -> [Msgs -> AnchorStates]]
      BY <2>10, <3>2, SettleType DEF DeadLetter, TypeOK
    <3>4. file' \in [Places -> [Msgs -> {"none", "torn", "whole"}]]
      BY <2>10, <3>2, WriteType DEF DeadLetter, TypeOK, Places
    <3>5. /\ hand' \in [Workers -> Places \cup {"none", "gone"}]
          /\ \A v \in Workers : hand'[v] # "none" <=> hand[v] # "none"
      BY <2>10, <3>2, LeavesType DEF DeadLetter, TypeOK
    <3> QED
      BY <3>1, <3>2, <3>3, <3>4, <3>5, FinishInv DEF recipient, TypeOK, WorkerOK
  <2>11. CASE Dump(w)
    <3>1. /\ Finish(w) /\ UNCHANGED <<registry, late, recipient, faulty>>
          /\ hand' = [hand EXCEPT ![w] = "none"]
          /\ job[w] \in Msgs /\ mine[w] \in 0 .. MaxAttempts /\ mine[w] < MaxAttempts
      BY <2>11 DEF Dump, TypeOK, WorkerOK
    <3>2. \/ UNCHANGED file
          \/ hand[w] \in Places /\ (Fill(w, "whole") \/ Fill(w, "torn"))
      BY <2>11 DEF Dump, TypeOK, WorkerOK
    <3>3. file' \in [Places -> [Msgs -> {"none", "torn", "whole"}]]
      BY <3>1, <3>2, WriteType DEF TypeOK
    <3>4. /\ attempt' \in [Msgs -> 0 .. MaxAttempts]
          /\ \A m \in Msgs : attempt'[m] < MaxAttempts
      BY <2>11, <3>1 DEF Dump, TypeOK, WorkerOK
    <3> QED
      BY <3>1, <3>3, <3>4, FinishInv DEF recipient, TypeOK, WorkerOK
  <2> QED
    BY <1>10, <2>1, <2>2, <2>3, <2>4, <2>5, <2>6, <2>7, <2>8, <2>9, <2>10, <2>11
    DEF Step
<1> QED
  BY <1>1, <1>2, <1>3, <1>4, <1>5, <1>6, <1>7, <1>8, <1>9, <1>10 DEF Next

\* The terminator's type invariant: registry, outbox and workers stay
\* well-formed, and no file is ever tried beyond MESH_OUTBOX_MAX_ATTEMPTS
\* (outbox.py:271-323).
THEOREM Typing == Spec => []TypeOK
<1>1. Spec => []TypeInv
  BY TypeInit, TypeStep, PTL DEF Spec
<1>2. TypeInv => TypeOK
  BY DEF TypeInv
<1> QED
  BY <1>1, <1>2, PTL
-----------------------------------------------------------------------------
\* The four ways a step touches a registry file.
RecordsPending == \E m \in Msgs :
    OnAnchor(SenderFile, m, Recorded(registry[SenderFile][m], TRUE))

WithdrawsPending == \E m \in Msgs :
    OnAnchor(SenderFile, m, Withdrawn(registry[SenderFile][m]))

Promotes == \E w \in Workers :
    /\ pc[w] = "promote" /\ job[w] \in Msgs
    /\ OnAnchor(SenderFile, job[w], Promoted(registry[SenderFile][job[w]]))

Closes(m) ==
    OnAnchor(RecipientFile, m, Recorded(registry[RecipientFile][m], FALSE))

\* A handler closes its anchor on the recipient's side before the message
\* lands, and every other step leaves the recipient's inbox alone.
LEMMA HandleMoves ==
  ASSUME NEW m \in Msgs, NEW answer \in {"landed", "busy"}, Handle(m, answer),
         seen \subseteq landed
  PROVE  /\ UNCHANGED registry \/ Closes(m)
         /\ landed \subseteq landed'
         /\ seen' \subseteq landed'
         /\ \A n \in landed' : n \in landed \/ (n = m /\ Closes(m))
         /\ answer = "landed" => m \in landed'
  BY DEF Handle, Closes

LEMMA Moves ==
  ASSUME TypeInv, [Next]_vars, seen \subseteq landed
  PROVE  /\ \/ UNCHANGED registry
            \/ RecordsPending \/ WithdrawsPending \/ Promotes
            \/ \E m \in Msgs : Closes(m)
         /\ landed \subseteq landed'
         /\ seen' \subseteq landed'
         /\ \A m \in landed' : m \in landed \/ Closes(m)
         /\ \A m, n \in landed' : m \in landed \/ n \in landed \/ m = n
<1> USE DEF recipient, RecordsPending, WithdrawsPending, Promotes
<1>1. CASE UNCHANGED vars
  BY <1>1 DEF vars
<1>2. ASSUME NEW m \in Msgs, SendEnd(m) \/ Lost(m) \/ Forget(m)
      PROVE  UNCHANGED <<registry, landed>> /\ seen' \subseteq seen
  BY <1>2 DEF SendEnd, Lost, Forget
<1>3. ASSUME NEW m \in Msgs, ArriveLate(m)
      PROVE  \E answer \in {"landed", "busy"} : Handle(m, answer)
  BY <1>3 DEF ArriveLate
<1>4. ASSUME NEW r \in Reapers, DropClosedRef(r) \/ Unresolved(r) \/ Raise(r)
      PROVE  WithdrawsPending /\ UNCHANGED <<seen, landed>>
  <2>1. r \in Workers /\ pc[r] \notin {"ready", "idle"}
    BY <1>4 DEF Workers, DropClosedRef, Unresolved, Raise
  <2>2. job[r] \in Msgs
    BY <2>1 DEF TypeInv, TypeOK
  <2> QED
    BY <1>4, <2>2 DEF DropClosedRef, Unresolved, Raise
<1>5. ASSUME NEW r \in Reapers, NEW m \in Msgs, Pick(r, m)
      PROVE  UNCHANGED <<registry, seen, landed>>
  BY <1>5 DEF Pick
<1>6. ASSUME NEW w \in Workers, Arrive(w)
      PROVE  /\ job[w] \in Msgs
             /\ \E answer \in {"landed", "busy"} : Handle(job[w], answer)
  <2>1. pc[w] \notin {"ready", "idle"}
    BY <1>6 DEF Arrive, TypeInv, WorkerOK
  <2> QED
    BY <1>6, <2>1 DEF Arrive, TypeInv, TypeOK
<1>7. ASSUME NEW w \in Workers, Crash(w)
      PROVE  UNCHANGED <<registry, seen, landed>>
  BY <1>7 DEF Crash
<1>8. ASSUME NEW w \in Workers, Step(w)
      PROVE  /\ \/ UNCHANGED registry
                \/ RecordsPending \/ WithdrawsPending \/ Promotes
             /\ UNCHANGED <<seen, landed>>
  <2>1. CASE RecordPending(w) \/ Withdraw(w) \/ Promote(w) \/ DeadLetter(w)
    <3>1. job[w] \in Msgs
      BY <2>1 DEF RecordPending, Withdraw, Promote, DeadLetter, TypeInv, TypeOK
    <3> QED
      BY <2>1, <3>1 DEF RecordPending, Withdraw, Promote, DeadLetter
  <2>2. CASE Post(w) \/ Confirmed(w) \/ NoAnswer(w)
    BY <2>2 DEF Post, Confirmed, NoAnswer
  <2>3. CASE Enqueue(w) \/ Unlink(w) \/ Reschedule(w) \/ Dump(w)
    BY <2>3 DEF Enqueue, Unlink, Reschedule, Dump
  <2> QED
    BY <1>8, <2>1, <2>2, <2>3 DEF Step
<1>9. CASE \E m \in Msgs, answer \in {"landed", "busy"} : Handle(m, answer)
  BY <1>9, HandleMoves
<1> QED
  BY <1>1, <1>2, <1>3, <1>4, <1>5, <1>6, <1>7, <1>8, <1>9 DEF Next
-----------------------------------------------------------------------------
\* What a worker believes is so: a confirmation, and the promotion that follows
\* it, come from an answer of the recipient that holds the message.
Confirmations ==
    /\ seen \subseteq landed
    /\ \A w \in Workers : copy[w] = "landed" => job[w] \in landed
    /\ \A w \in Workers : pc[w] = "promote" => job[w] \in landed

\* A worker between messages has no copy on the wire and promotes nothing.
LEMMA FinishConfirms ==
  ASSUME TypeInv, Confirmations, NEW w \in Workers, Finish(w),
         landed \subseteq landed', seen' \subseteq landed'
  PROVE  Confirmations'
  BY DEF TypeInv, TypeOK, Confirmations, Finish, Goto

LEMMA ConfirmationsStep ==
  TypeInv /\ Confirmations /\ [Next]_vars => Confirmations'
<1> SUFFICES ASSUME TypeInv, Confirmations, [Next]_vars PROVE Confirmations'
  OBVIOUS
<1>0. landed \subseteq landed' /\ seen' \subseteq landed'
  BY Moves DEF Confirmations
<1> USE DEF TypeInv, TypeOK, Confirmations
<1>1. CASE UNCHANGED vars
  BY <1>1 DEF vars, worker, recipient
<1>2. ASSUME NEW m \in Msgs, SendEnd(m) PROVE Confirmations'
  <2>1. m \in Workers /\ pc[m] = "ready" /\ copy[m] # "landed"
    BY <1>2 DEF Workers, SendEnd, WorkerOK
  <2> QED
    BY <1>0, <1>2, <2>1 DEF SendEnd, Goto
<1>3. ASSUME NEW m \in Msgs, ArriveLate(m) \/ Lost(m) \/ Forget(m)
      PROVE  Confirmations'
  BY <1>0, <1>3 DEF ArriveLate, Lost, Forget, worker
<1>4. ASSUME NEW r \in Reapers, DropClosedRef(r) \/ Unresolved(r)
      PROVE  Confirmations'
  BY <1>0, <1>4 DEF DropClosedRef, Unresolved, Goto, Workers
<1>5. ASSUME NEW r \in Reapers, Raise(r) PROVE Confirmations'
  BY <1>0, <1>5, FinishConfirms DEF Raise, Workers
<1>6. ASSUME NEW r \in Reapers, NEW m \in Msgs, Pick(r, m)
      PROVE  Confirmations'
  <2>1. r \in Workers /\ copy[r] # "landed"
    BY <1>6 DEF Workers, Pick, WorkerOK
  <2> QED
    BY <1>0, <1>6, <2>1 DEF Pick, Goto
<1>7. ASSUME NEW w \in Workers, Arrive(w) PROVE Confirmations'
  <2>1. PICK answer \in {"landed", "busy"} :
          Handle(job[w], answer) /\ copy' = [copy EXCEPT ![w] = answer]
    BY <1>7 DEF Arrive
  <2>2. job[w] \in Msgs
    BY <1>7 DEF Arrive, WorkerOK
  <2>3. answer = "landed" => job[w] \in landed'
    BY <2>1, <2>2, HandleMoves
  <2> QED
    BY <1>0, <1>7, <2>1, <2>3 DEF Arrive
<1>8. ASSUME NEW w \in Workers, Crash(w) PROVE Confirmations'
  BY <1>0, <1>8, FinishConfirms DEF Crash
<1>9. ASSUME NEW w \in Workers, Step(w) PROVE Confirmations'
  <2>1. CASE RecordPending(w) \/ Withdraw(w)
    BY <1>0, <2>1 DEF RecordPending, Withdraw, Goto
  <2>2. CASE Post(w) \/ Confirmed(w) \/ NoAnswer(w)
    BY <1>0, <2>2 DEF Post, Confirmed, NoAnswer, Goto
  <2>3. CASE Promote(w)
    <3>1. CASE w \in Reapers
      BY <1>0, <2>3, <3>1 DEF Promote, Goto
    <3>2. CASE w \notin Reapers
      BY <1>0, <2>3, <3>2, FinishConfirms DEF Promote
    <3> QED
      BY <3>1, <3>2
  <2>4. CASE Finish(w) /\ (Enqueue(w) \/ Unlink(w) \/ Dump(w) \/ DeadLetter(w))
    BY <1>0, <2>4, FinishConfirms DEF Enqueue, Unlink, Dump, DeadLetter
  <2>5. CASE Truncate(w) /\ UNCHANGED <<job, copy>>
    BY <1>0, <2>5 DEF Truncate, Goto
  <2> QED
    BY <1>9, <2>1, <2>2, <2>3, <2>4, <2>5
    DEF Step, Enqueue, Unlink, Reschedule, Dump, DeadLetter
<1> QED
  BY <1>1, <1>2, <1>3, <1>4, <1>5, <1>6, <1>7, <1>8, <1>9 DEF Next

LEMMA ConfirmationsHold == Spec => [](TypeInv /\ Confirmations)
<1>1. Init => Confirmations
  BY DEF Init, Confirmations, Workers
<1> QED
  BY <1>1, TypeInit, TypeStep, ConfirmationsStep, PTL DEF Spec
-----------------------------------------------------------------------------
\* A reaper about to unlink a file has posted nothing, or its message landed.
Unlinkable ==
    \A w \in Workers :
        pc[w] = "unlink" => w \in Reapers /\ (posts[w] = 0 \/ job[w] \in landed)

LEMMA UnlinkableStep ==
  ASSUME TypeInv, Confirmations, Unlinkable, [Next]_vars
  PROVE  Unlinkable'
<1> SUFFICES ASSUME NEW r \in Workers, pc'[r] = "unlink"
             PROVE  r \in Reapers /\ (posts'[r] = 0 \/ job'[r] \in landed')
  BY DEF Unlinkable
<1> DEFINE Same == pc[r] = pc'[r] /\ job'[r] = job[r] /\ posts'[r] = posts[r]
<1> USE DEF TypeInv, TypeOK
<1>0. landed \subseteq landed'
  BY Moves DEF Confirmations
<1>1. CASE UNCHANGED vars
  BY <1>0, <1>1 DEF Unlinkable, vars, worker
<1>2. ASSUME NEW m \in Msgs, SendEnd(m) \/ ArriveLate(m) \/ Lost(m) \/ Forget(m)
      PROVE  Same
  BY <1>0, <1>2 DEF SendEnd, ArriveLate, Lost, Forget, worker, Goto
<1>3. ASSUME NEW s \in Reapers, DropClosedRef(s)
      PROVE  Same \/ (r \in Reapers /\ posts'[r] = 0)
  BY <1>0, <1>3 DEF DropClosedRef, Goto, WorkerOK
<1>4. ASSUME NEW s \in Reapers,
             Unresolved(s) \/ Raise(s) \/ \E m \in Msgs : Pick(s, m)
      PROVE  Same
  BY <1>0, <1>4 DEF Unresolved, Raise, Pick, Finish, Goto
<1>5. ASSUME NEW w \in Workers, Arrive(w) \/ Crash(w) PROVE Same
  BY <1>0, <1>5 DEF Arrive, Crash, Finish, Goto
<1>6. ASSUME NEW w \in Workers, Promote(w)
      PROVE  Same \/ (r \in Reapers /\ job'[r] = job[r] /\ job[r] \in landed)
  BY <1>0, <1>6 DEF Promote, Finish, Goto, Confirmations
<1>7. ASSUME NEW w \in Workers, Step(w), ~Promote(w) PROVE Same
  BY <1>0, <1>7 DEF Step, RecordPending, Post, Confirmed, NoAnswer, Withdraw,
     Enqueue, Unlink, Reschedule, Dump, DeadLetter, Truncate, Finish, Goto
<1>8. CASE Same
  BY <1>0, <1>8 DEF Unlinkable
<1> QED
  BY <1>0, <1>1, <1>2, <1>3, <1>4, <1>5, <1>6, <1>7, <1>8 DEF Next

\* What a step does to the text of a message, when its worker has no file open
\* before it or closes it with it.
LEMMA Losses ==
  ASSUME TypeInv, Unlinkable, NEW w \in Workers, NEW m \in Msgs,
         \/ Unlink(w) \/ DeadLetter(w) \/ Dump(w) \/ Crash(w)
         \/ Enqueue(w) \/ Reschedule(w),
         Kept(m), ~Kept(m)'
  PROVE  /\ job[w] = m
         /\ \/ m \in landed
            \/ w \in Reapers /\ pc[w] = "unlink" /\ posts[w] = 0
            \/ w \in Reapers /\ mine[w] >= MaxAttempts /\ (faulty' \/ Spoiled(m))
            \/ pc[w] = "dump" /\ (faulty' \/ Refilled(w))
<1> USE DEF TypeInv, TypeOK
<1>1. /\ \A p \in Places : file'[p][m] # "whole"
      /\ \A v \in Workers : job'[v] = m => hand'[v] \notin Places
  BY DEF Kept
<1>2. pc[w] \notin {"ready", "idle"} /\ job[w] \in Msgs
  BY DEF Unlink, DeadLetter, Dump, Crash, Enqueue, Reschedule
<1>3. CASE Unlink(w)
  <2>1. hand[w] = "none" /\ \A v \in Workers : v # w => job'[v] = job[v]
    BY <1>3 DEF Unlink, Finish, WorkerOK
  <2>2. CASE job[w] # m
    <3>1. \A p \in Places : file'[p][m] = file[p][m]
      BY <1>2, <1>3, <2>2 DEF Unlink, Places
    <3>2. \A v \in Workers : job[v] = m => job'[v] = m /\ hand'[v] = hand[v]
      BY <1>3, <2>1, <2>2 DEF Unlink, Leaves
    <3> QED  BY <1>1, <3>1, <3>2 DEF Kept
  <2> QED  BY <1>3, <2>2 DEF Unlink, Unlinkable
<1>4. CASE DeadLetter(w)
  <2>1. hand[w] = "none" /\ \A v \in Workers : v # w => job'[v] = job[v]
    BY <1>4 DEF DeadLetter, Finish, WorkerOK
  <2>2. w \in Reapers /\ mine[w] >= MaxAttempts
    BY <1>4 DEF DeadLetter
  <2>3. CASE job[w] # m \/ job[w] \notin queued
    <3>1. \A p \in Places : file'[p][m] = file[p][m]
      BY <1>2, <1>4, <2>3 DEF DeadLetter, Places
    <3>2. \A v \in Workers : job[v] = m /\ hand[v] # "none"
                              => job'[v] = m /\ hand'[v] = hand[v]
      BY <1>4, <2>1, <2>3 DEF DeadLetter, Leaves
    <3> QED  BY <1>1, <3>1, <3>2 DEF Kept, Places
  <2>4. CASE job[w] = m /\ job[w] \in queued /\ ~faulty'
    <3>1. /\ Leaves(m, "dead")
          /\ file'["dead"][m] = file["outbox"][m]
      BY <1>4, <2>4 DEF DeadLetter, Places
    <3>2. file["outbox"][m] = "torn"
      BY <1>1, <2>4, <3>1 DEF queued, Places
    <3>3. \A v \in Workers : job[v] = m /\ hand[v] = "outbox" => FALSE
      BY <1>1, <2>1, <3>1 DEF Leaves, Places
    <3> QED  BY <2>2, <2>4, <3>2, <3>3 DEF Spoiled
  <2> QED  BY <2>2, <2>3, <2>4
<1>5. CASE Dump(w)
  <2>1. /\ pc[w] = "dump" /\ hand' = [hand EXCEPT ![w] = "none"]
        /\ \A v \in Workers : v # w => job'[v] = job[v]
        /\ hand[w] \in Places \cup {"gone"}
    BY <1>5 DEF Dump, Finish, WorkerOK
  <2>2. CASE hand[w] = "gone" \/ job[w] # m
    <3>1. \A p \in Places : file'[p][m] = file[p][m]
      BY <1>2, <1>5, <2>1, <2>2 DEF Dump, Fill
    <3>2. \A v \in Workers : job[v] = m /\ hand[v] \in Places
                              => job'[v] = m /\ hand'[v] = hand[v]
      BY <2>1, <2>2 DEF Places
    <3> QED  BY <1>1, <3>1, <3>2 DEF Kept
  <2>3. CASE hand[w] \in Places /\ job[w] = m
    <3>1. ~Fill(w, "whole")
      BY <1>1, <1>2, <2>3 DEF Fill
    <3> QED  BY <1>5, <2>1, <2>3, <3>1 DEF Dump, Places
  <2> QED  BY <2>1, <2>2, <2>3
<1>6. CASE Crash(w)
  <2>1. /\ hand' = [hand EXCEPT ![w] = "none"] /\ faulty'
        /\ \A v \in Workers : v # w => job'[v] = job[v]
    BY <1>6 DEF Crash, Finish
  <2>2. CASE pc[w] # "dump" \/ job[w] # m
    <3>1. \A p \in Places : file'[p][m] = file[p][m]
      BY <1>2, <1>6, <2>2 DEF Crash, Fill, Refilled, WorkerOK, Places
    <3>2. \A v \in Workers : job[v] = m /\ hand[v] \in Places
                              => job'[v] = m /\ hand'[v] = hand[v]
      BY <2>1, <2>2 DEF WorkerOK, Places
    <3> QED  BY <1>1, <3>1, <3>2 DEF Kept
  <2> QED  BY <2>1, <2>2
<1>7. CASE Truncate(w) /\ UNCHANGED job
  <2>1. /\ hand' = [hand EXCEPT ![w] = "outbox"]
        /\ file' = [file EXCEPT !["outbox"][job[w]] = "torn"]
    BY <1>7 DEF Truncate
  <2>2. job[w] # m
    BY <1>1, <1>7, <2>1 DEF Places
  <2>3. \A p \in Places : file'[p][m] = file[p][m]
    BY <1>2, <2>1, <2>2 DEF Places
  <2>4. \A v \in Workers : job[v] = m => job'[v] = m /\ hand'[v] = hand[v]
    BY <1>7, <2>1, <2>2
  <2> QED  BY <1>1, <2>3, <2>4 DEF Kept
<1>8. CASE Enqueue(w) /\ Finish(w) /\ UNCHANGED <<file, hand>>
  <2>1. hand[w] = "none" /\ \A v \in Workers : v # w => job'[v] = job[v]
    BY <1>8 DEF Enqueue, Finish, WorkerOK
  <2> QED  BY <1>1, <1>8, <2>1 DEF Kept, Places
<1> QED
  BY <1>3, <1>4, <1>5, <1>6, <1>7, <1>8 DEF Enqueue, Reschedule

\* The outbox keeps the text of a message, for any number of reapers that work on
\* one file and write it in place, but for the four exceptions of the property.
THEOREM NothingLost == Spec => OutboxLosesNothing
<1> DEFINE Reason(m) ==
             \/ m \in landed
             \/ \E r \in Reapers :
                   /\ job[r] = m
                   /\ \/ pc[r] = "unlink" /\ posts[r] = 0
                      \/ mine[r] >= MaxAttempts /\ (faulty' \/ Spoiled(m))
             \/ \E w \in Workers :
                   job[w] = m /\ pc[w] = "dump" /\ (faulty' \/ Refilled(w))
<1>1. Init => Unlinkable
  BY DEF Init, Unlinkable, Workers
<1>2. TypeInv /\ Confirmations /\ Unlinkable /\ [Next]_vars => Unlinkable'
  BY UnlinkableStep
<1>3. TypeInv /\ Unlinkable /\ [Next]_vars
      => [\A m \in Msgs : Kept(m) /\ ~Kept(m)' => Reason(m)]_vars
  <2> SUFFICES ASSUME TypeInv, Unlinkable, Next,
                      NEW m \in Msgs, Kept(m), ~Kept(m)'
               PROVE  Reason(m)
    OBVIOUS
  <2> USE DEF outbox, worker, TypeInv, TypeOK
  <2>0. ASSUME UNCHANGED <<file, hand>>,
               \A w \in Workers : hand[w] # "none" => job'[w] = job[w]
        PROVE  FALSE
    BY <2>0 DEF Kept, Places
  <2>1. ASSUME NEW n \in Msgs, SendEnd(n) \/ ArriveLate(n) \/ Lost(n) \/ Forget(n)
        PROVE  FALSE
    BY <2>0, <2>1 DEF SendEnd, ArriveLate, Lost, Forget, WorkerOK
  <2>2. ASSUME NEW r \in Reapers,
               \/ DropClosedRef(r) \/ Unresolved(r) \/ Raise(r)
               \/ \E n \in Msgs : Pick(r, n)
        PROVE  FALSE
    BY <2>0, <2>2
    DEF DropClosedRef, Unresolved, Raise, Pick, Finish, WorkerOK
  <2>3. ASSUME NEW w \in Workers, Arrive(w) PROVE FALSE
    BY <2>0, <2>3 DEF Arrive
  <2>4. ASSUME NEW w \in Workers,
               \/ RecordPending(w) \/ Post(w) \/ Confirmed(w) \/ NoAnswer(w)
               \/ Promote(w) \/ Withdraw(w)
        PROVE  FALSE
    BY <2>0, <2>4
    DEF RecordPending, Post, Confirmed, NoAnswer, Promote, Withdraw, Finish, WorkerOK
  <2>5. PICK w \in Workers : \/ Unlink(w) \/ DeadLetter(w) \/ Dump(w) \/ Crash(w)
                             \/ Enqueue(w) \/ Reschedule(w)
    BY <2>1, <2>2, <2>3, <2>4 DEF Next, Step
  <2> QED  BY <2>5, Losses
<1> QED
  BY <1>1, <1>2, <1>3, ConfirmationsHold, PTL DEF Spec, OutboxLosesNothing
-----------------------------------------------------------------------------
\* With a registry file of its own, a sender never counts a thread as closed
\* for good by a terminator its recipient never took, whatever the network
\* loses, delays or answers late and whoever crashes (threads.py:193-196).
THEOREM NoGhosts ==
  ASSUME SharedRegistry = FALSE
  PROVE  Spec => []NoGhostClose
<1>1. Init => NoGhostClose
  BY DEF Init, NoGhostClose, Files
<1>2. TypeInv /\ Confirmations /\ NoGhostClose /\ [Next]_vars => NoGhostClose'
  <2> SUFFICES ASSUME TypeInv, Confirmations, NoGhostClose, [Next]_vars,
                      NEW m \in Msgs, registry'[SenderFile][m] = "closed"
               PROVE  m \in landed'
    BY DEF NoGhostClose
  <2>1. landed \subseteq landed'
    BY Moves DEF Confirmations
  <2>2. SenderFile \in Files /\ RecipientFile \in Files
        /\ SenderFile # RecipientFile
    BY DEF Files, SenderFile, RecipientFile
  <2>3. registry \in [Files -> [Msgs -> AnchorStates]]
    BY DEF TypeInv, TypeOK
  <2>4. registry[SenderFile][m] = "closed" => m \in landed
    BY DEF NoGhostClose
  <2>5. CASE UNCHANGED registry
    BY <2>1, <2>4, <2>5
  <2>6. CASE RecordsPending \/ WithdrawsPending
    <3>1. registry[SenderFile][m] = "closed"
      BY <2>2, <2>3, <2>6, OnAnchorStep, AnchorOps
      DEF RecordsPending, WithdrawsPending, Recorded, Withdrawn, AnchorStates
    <3> QED
      BY <2>1, <2>4, <3>1
  <2>7. CASE Promotes
    <3>1. PICK w \in Workers :
            /\ pc[w] = "promote" /\ job[w] \in Msgs
            /\ OnAnchor(SenderFile, job[w], Promoted(registry[SenderFile][job[w]]))
      BY <2>7 DEF Promotes
    <3>2. job[w] \in landed
      BY <3>1 DEF Confirmations
    <3>3. m # job[w] => registry[SenderFile][m] = "closed"
      BY <2>2, <2>3, <3>1 DEF OnAnchor
    <3> QED
      BY <2>1, <2>4, <3>2, <3>3
  <2>8. CASE \E n \in Msgs : Closes(n)
    <3>1. registry'[SenderFile] = registry[SenderFile]
      BY <2>2, <2>3, <2>8 DEF Closes, OnAnchor
    <3> QED
      BY <2>1, <2>4, <3>1
  <2> QED
    BY <2>5, <2>6, <2>7, <2>8, Moves DEF Confirmations
<1> QED
  BY <1>1, <1>2, ConfirmationsHold, PTL DEF Spec

\* With a registry file of its own, a recipient that has the terminator in its
\* inbox has closed the thread (adapter.py:473-478).
THEOREM LandedCloses ==
  ASSUME SharedRegistry = FALSE
  PROVE  Spec => []LandedIsClosed
<1> DEFINE Settled == /\ LandedIsClosed
                      /\ \A m \in Msgs : registry[RecipientFile][m] # "pending"
<1>1. Init => Settled
  BY DEF Init, LandedIsClosed, Files
<1>2. TypeInv /\ Confirmations /\ Settled /\ [Next]_vars => Settled'
  <2> SUFFICES ASSUME TypeInv, Confirmations, Settled, [Next]_vars PROVE Settled'
    OBVIOUS
  <2>1. \A m \in landed' : m \in landed \/ Closes(m)
    BY Moves DEF Confirmations
  <2>2. SenderFile \in Files /\ RecipientFile \in Files
        /\ SenderFile # RecipientFile
    BY DEF Files, SenderFile, RecipientFile
  <2>3. registry \in [Files -> [Msgs -> AnchorStates]]
    BY DEF TypeInv, TypeOK
  <2>4. CASE \E n \in Msgs : Closes(n)
    <3>1. PICK n \in Msgs : Closes(n)
      BY <2>4
    <3>2. registry'[RecipientFile][n] = "closed"
      BY <2>2, <2>3, <3>1 DEF Closes, OnAnchor, Recorded, AnchorStates
    <3>3. \A m \in Msgs : m # n =>
            registry'[RecipientFile][m] = registry[RecipientFile][m]
      BY <2>2, <2>3, <3>1 DEF Closes, OnAnchor
    <3>4. \A m \in Msgs : Closes(m) => registry'[RecipientFile][m] = "closed"
      BY <2>2, <2>3 DEF Closes, OnAnchor, Recorded, AnchorStates
    <3> QED
      BY <2>1, <3>2, <3>3, <3>4 DEF LandedIsClosed
  <2>5. CASE ~\E n \in Msgs : Closes(n)
    <3>1. registry'[RecipientFile] = registry[RecipientFile]
      BY <2>2, <2>3, <2>5, Moves
      DEF Confirmations, RecordsPending, WithdrawsPending, Promotes, OnAnchor
    <3> QED
      BY <2>1, <2>5, <3>1 DEF LandedIsClosed
  <2> QED
    BY <2>4, <2>5
<1>3. Settled => LandedIsClosed
  OBVIOUS
<1> QED
  BY <1>1, <1>2, <1>3, ConfirmationsHold, PTL DEF Spec

\* No real close is ever retracted, in either file, shared or not
\* (threads.py:167, 222-223).
THEOREM ClosesFinal == Spec => ClosesAreFinal
<1> DEFINE Stays == \A f \in Files, m \in Msgs :
                      registry[f][m] = "closed" => registry'[f][m] = "closed"
<1>1. TypeInv /\ Confirmations /\ [Next]_vars => [Stays]_vars
  <2> SUFFICES ASSUME TypeInv, Confirmations, [Next]_vars PROVE Stays
    OBVIOUS
  <2> SUFFICES ASSUME NEW f \in Files, NEW m \in Msgs,
                      registry[f][m] = "closed"
               PROVE  registry'[f][m] = "closed"
    OBVIOUS
  <2>1. SenderFile \in Files /\ RecipientFile \in Files
    BY DEF Files
  <2>2. registry \in [Files -> [Msgs -> AnchorStates]]
    BY DEF TypeInv, TypeOK
  <2> QED
    BY <2>1, <2>2, Moves
    DEF Confirmations, RecordsPending, WithdrawsPending, Promotes, Closes,
        OnAnchor, Recorded, Promoted, Withdrawn
<1> QED
  BY <1>1, ConfirmationsHold, PTL DEF Spec, ClosesAreFinal
-----------------------------------------------------------------------------
\* What each step may do to the sender's entry of one anchor: only a worker
\* that has the message in hand makes it pending or open.
LEMMA EntryMoves ==
  ASSUME TypeInv, [Next]_vars, NEW m \in Msgs,
         registry'[SenderFile][m] # registry[SenderFile][m]
  PROVE  \/ registry[SenderFile][m] = "open" /\ registry'[SenderFile][m] = "closed"
         \/ \E w \in Workers :
              /\ job[w] = m
              /\ \/ RecordPending(w) /\ registry'[SenderFile][m] = "pending"
                 \/ Promote(w) /\ registry'[SenderFile][m] = "closed"
                 \/ /\ \/ Withdraw(w) \/ DeadLetter(w) \/ Raise(w)
                       \/ DropClosedRef(w) \/ Unresolved(w)
                    /\ registry'[SenderFile][m] = "open"
<1> DEFINE old == registry[SenderFile][m]
           new == registry'[SenderFile][m]
<1>1. SenderFile \in Files /\ RecipientFile \in Files
  BY DEF Files
<1>2. registry \in [Files -> [Msgs -> AnchorStates]] /\ old \in AnchorStates
  BY <1>1 DEF TypeInv, TypeOK
<1>3. ASSUME NEW n \in Msgs, NEW answer \in {"landed", "busy"}, Handle(n, answer)
      PROVE  old = "open" /\ new = "closed"
  BY <1>1, <1>2, <1>3 DEF Handle, OnAnchor, Recorded, AnchorStates
<1>4. ASSUME NEW w \in Workers, job[w] \in Msgs,
             OnAnchor(SenderFile, job[w], Recorded(registry[SenderFile][job[w]], TRUE))
      PROVE  job[w] = m /\ new = "pending"
  BY <1>1, <1>2, <1>4 DEF OnAnchor, Recorded, AnchorStates
<1>5. ASSUME NEW w \in Workers, job[w] \in Msgs,
             OnAnchor(SenderFile, job[w], Promoted(registry[SenderFile][job[w]]))
      PROVE  job[w] = m /\ new = "closed"
  BY <1>1, <1>2, <1>5 DEF OnAnchor, Promoted, AnchorStates
<1>6. ASSUME NEW w \in Workers, job[w] \in Msgs,
             OnAnchor(SenderFile, job[w], Withdrawn(registry[SenderFile][job[w]]))
      PROVE  job[w] = m /\ new = "open"
  BY <1>1, <1>2, <1>6 DEF OnAnchor, Withdrawn, AnchorStates
<1>7. \A w \in Workers : pc[w] \notin {"ready", "idle"} => job[w] \in Msgs
  BY DEF TypeInv, TypeOK
<1>8. ASSUME NEW n \in Msgs, SendEnd(n) \/ ArriveLate(n) \/ Lost(n) \/ Forget(n)
      PROVE  old = "open" /\ new = "closed"
  BY <1>3, <1>8 DEF SendEnd, ArriveLate, Lost, Forget
<1>9. ASSUME NEW r \in Reapers, NEW n \in Msgs, Pick(r, n) PROVE FALSE
  BY <1>9 DEF Pick
<1>10. ASSUME NEW r \in Reapers, DropClosedRef(r) \/ Unresolved(r) \/ Raise(r)
       PROVE  job[r] = m /\ new = "open" /\ r \in Workers
  BY <1>6, <1>7, <1>10 DEF DropClosedRef, Unresolved, Raise, Workers
<1>11. ASSUME NEW w \in Workers, Arrive(w)
       PROVE  old = "open" /\ new = "closed"
  <2>1. job[w] \in Msgs
    BY <1>11, <1>7 DEF Arrive, TypeInv, WorkerOK
  <2> QED
    BY <1>3, <1>11, <2>1 DEF Arrive
<1>12. ASSUME NEW w \in Workers, Step(w)
       PROVE  /\ job[w] = m
              /\ \/ RecordPending(w) /\ new = "pending"
                 \/ Promote(w) /\ new = "closed"
                 \/ (Withdraw(w) \/ DeadLetter(w)) /\ new = "open"
  <2>1. CASE RecordPending(w)
    BY <1>4, <1>7, <2>1 DEF RecordPending
  <2>2. CASE Promote(w)
    BY <1>5, <1>7, <2>2 DEF Promote
  <2>3. CASE Withdraw(w) \/ DeadLetter(w)
    BY <1>6, <1>7, <2>3 DEF Withdraw, DeadLetter
  <2>4. CASE Post(w) \/ Confirmed(w) \/ NoAnswer(w) \/ Enqueue(w)
             \/ Unlink(w) \/ Reschedule(w) \/ Dump(w)
    BY <2>4 DEF Post, Confirmed, NoAnswer, Enqueue, Unlink, Reschedule, Dump
  <2> QED
    BY <1>12, <2>1, <2>2, <2>3, <2>4 DEF Step
<1>13. ASSUME NEW w \in Workers, Crash(w) PROVE FALSE
  BY <1>13 DEF Crash
<1>14. CASE UNCHANGED vars
  BY <1>14 DEF vars
<1> HIDE DEF old, new
<1> QED
  BY <1>8, <1>9, <1>10, <1>11, <1>12, <1>13, <1>14 DEF Next, old, new

Holding == {"post", "wait", "promote", "withdraw"}

\* The inductive form of NothingStaysPending: the worker that holds a pending
\* anchor has not settled it yet.
PendingHeld ==
    \A m \in Msgs :
        registry[SenderFile][m] = "pending" =>
            faulty \/ \E w \in Workers : job[w] = m /\ pc[w] \in Holding

\* A worker that holds an anchor holds it after the step, settles it, or died.
LEMMA HoldersHold ==
  ASSUME TypeInv, [Next]_vars, NEW w \in Workers, job[w] \in Msgs,
         pc[w] \in Holding
  PROVE  \/ job'[w] = job[w] /\ pc'[w] \in Holding
         \/ registry'[SenderFile][job[w]] # "pending"
         \/ faulty'
<1> USE DEF TypeInv, TypeOK, Holding
<1>1. SenderFile \in Files
  BY DEF Files
<1>2. CASE UNCHANGED vars
  BY <1>2 DEF vars, worker
<1>3. ASSUME NEW m \in Msgs,
             SendEnd(m) \/ ArriveLate(m) \/ Lost(m) \/ Forget(m)
      PROVE  job'[w] = job[w] /\ pc'[w] = pc[w]
  BY <1>3 DEF SendEnd, ArriveLate, Lost, Forget, worker, Goto
<1>4. ASSUME NEW r \in Reapers, DropClosedRef(r) \/ Unresolved(r)
      PROVE  job'[w] = job[w] /\ pc'[w] = pc[w]
  BY <1>4 DEF DropClosedRef, Unresolved, Goto
<1>5. ASSUME NEW r \in Reapers, NEW m \in Msgs, Pick(r, m)
      PROVE  job'[w] = job[w] /\ pc'[w] = pc[w]
  BY <1>5 DEF Pick, Goto
<1>6. ASSUME NEW v \in Workers, Arrive(v)
      PROVE  job'[w] = job[w] /\ pc'[w] = pc[w]
  BY <1>6 DEF Arrive
<1>7. ASSUME NEW v \in Workers, Crash(v) \/ Raise(v) PROVE faulty'
  BY <1>7 DEF Crash, Raise
<1>8. ASSUME NEW v \in Workers, Step(v), v # w
      PROVE  job'[w] = job[w] /\ pc'[w] = pc[w]
  BY <1>8 DEF Step, RecordPending, Post, Confirmed, NoAnswer, Promote, Withdraw,
              Enqueue, Unlink, Reschedule, Dump, DeadLetter, Truncate, Finish, Goto
<1>9. CASE Step(w)
  <2>1. CASE Post(w) \/ Confirmed(w) \/ NoAnswer(w)
    BY <2>1 DEF Post, Confirmed, NoAnswer, Goto
  <2>2. CASE Promote(w)
    BY <1>1, <2>2 DEF Promote, OnAnchor, Promoted
  <2>3. CASE Withdraw(w)
    BY <1>1, <2>3 DEF Withdraw, OnAnchor, Withdrawn
  <2> QED
    BY <1>9, <2>1, <2>2, <2>3
    DEF Step, RecordPending, Enqueue, Unlink, Reschedule, Dump, DeadLetter
<1> QED
  BY <1>2, <1>3, <1>4, <1>5, <1>6, <1>7, <1>8, <1>9 DEF Next, Workers

\* While no gateway dies and no delivery raises, no pending record outlives the
\* delivery that made it, however many reapers overlap, in shared or separate
\* files (session_relay.py:1113-1117, outbox.py:286-290).
THEOREM PendingSettles == Spec => []NothingStaysPending
<1>1. Init => PendingHeld
  BY DEF Init, PendingHeld, Files
<1>2. TypeInv /\ PendingHeld /\ [Next]_vars => PendingHeld'
  <2> SUFFICES ASSUME TypeInv, PendingHeld, [Next]_vars, NEW m \in Msgs,
                      registry'[SenderFile][m] = "pending"
               PROVE  (faulty \/ \E w \in Workers : job[w] = m /\ pc[w] \in Holding)'
    BY DEF PendingHeld
  <2>1. CASE registry[SenderFile][m] = "pending"
    <3>1. CASE faulty
      BY <3>1 DEF Next, vars, SendEnd, ArriveLate, Lost, Forget, DropClosedRef,
         Unresolved, Raise, Pick, Step, Arrive, Crash, RecordPending, Post,
         Confirmed, NoAnswer, Promote, Withdraw, Enqueue, Unlink, Reschedule,
         Dump, DeadLetter
    <3>2. CASE ~faulty
      <4>1. PICK w \in Workers : job[w] = m /\ pc[w] \in Holding
        BY <2>1, <3>2 DEF PendingHeld
      <4> QED
        BY <4>1, HoldersHold
    <3> QED
      BY <3>1, <3>2
  <2>2. CASE registry[SenderFile][m] # "pending"
    <3>1. PICK w \in Workers : job[w] = m /\ RecordPending(w)
      BY <2>2, EntryMoves
    <3>2. job'[w] = m /\ pc'[w] = "post"
      BY <3>1 DEF RecordPending, Goto, TypeInv, TypeOK
    <3> QED
      BY <3>2 DEF Holding
  <2> QED
    BY <2>1, <2>2
<1>3. PendingHeld => NothingStaysPending
  BY DEF PendingHeld, NothingStaysPending, InHand
<1> QED
  BY <1>1, <1>2, <1>3, TypeInit, TypeStep, PTL DEF Spec
-----------------------------------------------------------------------------
\* A live send is alone with its message until it ends: nobody else can have it
\* in hand before its text is in the outbox.
Alone ==
    \A m \in Msgs : pc[m] # "idle" =>
        /\ file["outbox"][m] # "whole"
        /\ \A w \in Workers : job[w] = m => w = m
        /\ pc[m] # "ready" => job[m] = m

LEMMA AloneFinish ==
  ASSUME TypeInv, Alone, NEW w \in Workers, Finish(w),
         \A m \in Msgs : file'["outbox"][m] = "whole" =>
            file["outbox"][m] = "whole" \/ m = w \/ pc[m] = "idle"
  PROVE  Alone'
<1> SUFFICES ASSUME NEW m \in Msgs, pc'[m] # "idle"
             PROVE  /\ file'["outbox"][m] # "whole"
                    /\ \A v \in Workers : job'[v] = m => v = m
                    /\ pc'[m] # "ready" => job'[m] = m
  BY DEF Alone
<1>1. m # w /\ pc'[m] = pc[m] /\ job'[m] = job[m]
  BY DEF Finish, Goto, TypeInv, TypeOK, Workers
<1>2. \A v \in Workers : job'[v] = m => job[v] = m
  BY TerminatorAssumption DEF Finish, TypeInv, TypeOK
<1> QED
  BY <1>1, <1>2 DEF Alone

LEMMA AloneStep == TypeInv /\ Alone /\ [Next]_vars => Alone'
<1> SUFFICES ASSUME TypeInv, Alone, [Next]_vars PROVE Alone'
  OBVIOUS
<1> USE TerminatorAssumption DEF TypeInv, TypeOK
<1>1. CASE UNCHANGED vars
  BY <1>1 DEF vars, outbox, worker, Alone
<1>2. ASSUME NEW m \in Msgs, SendEnd(m) PROVE Alone'
  <2>1. pc' = [pc EXCEPT ![m] = "record"] /\ job' = [job EXCEPT ![m] = m]
        /\ file' = file /\ pc[m] = "ready" /\ m \in Workers
    BY <1>2 DEF SendEnd, Goto, outbox, Workers
  <2> QED
    BY <2>1 DEF Alone, Workers
<1>3. ASSUME NEW m \in Msgs, ArriveLate(m) \/ Lost(m) \/ Forget(m)
      PROVE  Alone'
  BY <1>3 DEF ArriveLate, Lost, Forget, outbox, worker, Alone
<1>4. ASSUME NEW r \in Reapers, DropClosedRef(r) \/ Unresolved(r) PROVE Alone'
  <2>1. /\ pc' = [pc EXCEPT ![r] = pc'[r]] /\ UNCHANGED <<job, file>>
        /\ r \notin Msgs
    BY <1>4 DEF DropClosedRef, Unresolved, Goto, outbox, Workers
  <2> QED
    BY <2>1 DEF Alone, Workers
<1>5. ASSUME NEW r \in Reapers, NEW m \in Msgs, Pick(r, m) PROVE Alone'
  <2>1. /\ pc' = [pc EXCEPT ![r] = "record"] /\ job' = [job EXCEPT ![r] = m]
        /\ file' = file /\ r \notin Msgs /\ file["outbox"][m] = "whole"
    BY <1>5 DEF Pick, Goto, outbox
  <2> QED
    BY <2>1 DEF Alone, Workers
<1>6. ASSUME NEW w \in Workers, Arrive(w) PROVE Alone'
  BY <1>6 DEF Arrive, outbox, Alone
<1>7. ASSUME NEW w \in Workers, Crash(w) \/ (w \in Reapers /\ Raise(w))
      PROVE  Alone'
  <2>1. Finish(w) /\ job[w] \in Msgs
    BY <1>7 DEF Crash, Raise
  <2>2. \A m \in Msgs : file'["outbox"][m] = "whole" => file["outbox"][m] = "whole"
    BY <1>7, <2>1 DEF Crash, Raise, Refilled, Fill, outbox, Places
  <2> QED
    BY <2>1, <2>2, AloneFinish
<1>8. ASSUME NEW w \in Workers,
             \/ RecordPending(w) \/ Post(w) \/ Confirmed(w) \/ NoAnswer(w)
             \/ Withdraw(w)
      PROVE  Alone'
  <2>1. /\ pc' = [pc EXCEPT ![w] = pc'[w]] /\ UNCHANGED <<job, file>>
        /\ pc[w] \notin {"ready", "idle"}
    BY <1>8 DEF RecordPending, Post, Confirmed, NoAnswer, Withdraw, Goto, outbox
  <2> QED
    BY <2>1 DEF Alone, Workers
<1>9. ASSUME NEW w \in Workers, Promote(w) PROVE Alone'
  <2>1. CASE w \in Reapers
    <3>1. /\ pc' = [pc EXCEPT ![w] = "unlink"] /\ UNCHANGED <<job, file>>
          /\ w \notin Msgs
      BY <1>9, <2>1 DEF Promote, Goto, outbox
    <3> QED
      BY <3>1 DEF Alone, Workers
  <2>2. CASE w \notin Reapers
    BY <1>9, <2>2, AloneFinish DEF Promote, outbox
  <2> QED
    BY <2>1, <2>2
<1>10. ASSUME NEW w \in Workers, Finish(w),
              Enqueue(w) \/ Unlink(w) \/ Dump(w) \/ DeadLetter(w)
       PROVE  Alone'
  <2>1. job[w] \in Msgs
    BY <1>10 DEF Enqueue, Unlink, Dump, DeadLetter
  <2>2. \A m \in Msgs : file'["outbox"][m] = "whole" =>
                        file["outbox"][m] = "whole" \/ m = job[w]
    BY <1>10, <2>1 DEF Enqueue, Unlink, Dump, DeadLetter, Truncate, Fill, Places
  <2>3. \A m \in Msgs : m = job[w] => m = w \/ pc[m] = "idle"
    BY DEF Alone
  <2> QED
    BY <1>10, <2>2, <2>3, AloneFinish
<1>11. ASSUME NEW w \in Workers, Truncate(w) /\ UNCHANGED job,
              pc[w] = "reschedule"
       PROVE  Alone'
  <2>1. /\ pc' = [pc EXCEPT ![w] = "dump"] /\ job[w] \in Msgs
        /\ \A m \in Msgs : file'["outbox"][m] = "whole" => file["outbox"][m] = "whole"
    BY <1>11 DEF Truncate, Goto, Places
  <2> QED
    BY <1>11, <2>1 DEF Alone, Workers
<1> QED
  BY <1>1, <1>2, <1>3, <1>4, <1>5, <1>6, <1>7, <1>8, <1>9, <1>10, <1>11
  DEF Next, Step, Workers, Enqueue, Reschedule, Unlink, Dump, DeadLetter

\* From its first post to its settlement a live send keeps its anchor closed,
\* whatever reapers, late copies, a shared registry or crashes do meanwhile
\* (session_relay.py:1066-1072).
THEOREM InFlightClosed == Spec => []ClosedInFlight
<1>1. Init => Alone /\ ClosedInFlight
  <2> SUFFICES ASSUME Init PROVE Alone /\ ClosedInFlight
    OBVIOUS
  <2>1. \A w \in Workers : pc[w] \in {"ready", "idle"} /\ job[w] = NoMsg
    BY DEF Init
  <2>2. \A m \in Msgs : file["outbox"][m] = "none"
    BY DEF Init, Places
  <2> QED
    BY <2>1, <2>2, TerminatorAssumption
    DEF Alone, ClosedInFlight, Delivering, Workers, Init
<1>2. /\ TypeInv /\ Alone /\ ClosedInFlight /\ [Next]_vars
      => ClosedInFlight'
  <2> SUFFICES ASSUME TypeInv, Alone, ClosedInFlight, [Next]_vars,
                      NEW m \in Msgs, pc'[m] \in {"post", "wait", "promote"}
               PROVE  registry'[SenderFile][m] # "open"
    BY DEF ClosedInFlight, Delivering, IsClosed
  <2>1. SenderFile \in Files /\ m \in Workers
    BY DEF Files, Workers
  <2>2. CASE \E w \in Workers :
                /\ job[w] = m
                /\ \/ Withdraw(w) \/ DeadLetter(w) \/ Raise(w)
                   \/ DropClosedRef(w) \/ Unresolved(w)
    <3>1. PICK w \in Workers :
                /\ job[w] = m
                /\ \/ Withdraw(w) \/ DeadLetter(w) \/ Raise(w)
                   \/ DropClosedRef(w) \/ Unresolved(w)
      BY <2>2
    <3>2. pc'[w] \notin {"post", "wait", "promote"}
          /\ \A v \in Workers : v # w => pc'[v] = pc[v]
      BY <3>1 DEF Withdraw, DeadLetter, Raise, DropClosedRef, Unresolved,
                  Finish, Goto, TypeInv, TypeOK
    <3>3. w # m /\ pc[m] # "idle"
      BY <2>1, <3>2
    <3> QED
      BY <3>1, <3>3 DEF Alone
  <2>3. CASE pc[m] \in {"post", "wait", "promote"}
    <3>1. registry[SenderFile][m] # "open"
      BY <2>3 DEF ClosedInFlight, Delivering, IsClosed
    <3> QED
      BY <2>2, <3>1, EntryMoves
  <2>4. CASE RecordPending(m)
    <3>1. job[m] = m
      BY <2>4 DEF RecordPending, Alone
    <3> QED
      BY <2>1, <2>4, <3>1
      DEF RecordPending, OnAnchor, Recorded, TypeInv, TypeOK
  <2>5. pc[m] \in {"post", "wait", "promote"} \/ RecordPending(m)
    <3> USE DEF TypeInv, TypeOK
    <3>1. CASE UNCHANGED vars
      BY <3>1 DEF vars, worker
    <3>2. ASSUME NEW n \in Msgs,
                 SendEnd(n) \/ ArriveLate(n) \/ Lost(n) \/ Forget(n)
          PROVE  pc[m] = pc'[m]
      BY <2>1, <3>2 DEF SendEnd, ArriveLate, Lost, Forget, worker, Goto
    <3>3. ASSUME NEW r \in Reapers,
                 \/ DropClosedRef(r) \/ Unresolved(r) \/ Raise(r)
                 \/ \E n \in Msgs : Pick(r, n)
          PROVE  pc[m] = pc'[m]
      BY <2>1, <3>3 DEF DropClosedRef, Unresolved, Raise, Pick, Finish, Goto
    <3>4. ASSUME NEW w \in Workers, Arrive(w) \/ Crash(w)
          PROVE  pc[m] = pc'[m]
      BY <2>1, <3>4 DEF Arrive, Crash, Finish, Goto
    <3>5. ASSUME NEW w \in Workers, Step(w), w # m
          PROVE  pc[m] = pc'[m]
      BY <2>1, <3>5 DEF Step, RecordPending, Post, Confirmed, NoAnswer, Promote,
         Withdraw, Enqueue, Unlink, Reschedule, Dump, DeadLetter, Truncate, Finish, Goto
    <3>6. CASE Step(m)
      BY <2>1, <3>6 DEF Step, RecordPending, Post, Confirmed, NoAnswer, Promote,
         Withdraw, Enqueue, Unlink, Reschedule, Dump, DeadLetter, Truncate, Finish, Goto
    <3> QED
      BY <3>1, <3>2, <3>3, <3>4, <3>5, <3>6 DEF Next
  <2> QED
    BY <2>3, <2>4, <2>5
<1> QED
  BY <1>1, <1>2, AloneStep, TypeInit, TypeStep, PTL DEF Spec
=============================================================================
