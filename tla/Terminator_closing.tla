-------------------------- MODULE Terminator_closing --------------------------
(***************************************************************************)
(* The refinement of Closing: what the sender, the recipient's handler,    *)
(* the reapers and their crashes do to the two registries of a host each   *)
(* is a commitment in two phases, for any number of messages and reapers.  *)
(* Then what a second reaper breaks, and one alone does not: the close of  *)
(* a confirmed terminator, and the file of a queued one.                   *)
(***************************************************************************)
EXTENDS Terminator_proofs

\* The recipient of a host of its own closes for real, and at once.
RecipientReal == \A m \in Msgs : registry[RecipientFile][m] # "pending"

\* With separate files the sender's entries and the recipient's move apart.
LEMMA Apart ==
  ASSUME SharedRegistry = FALSE
  PROVE  SenderFile \in Files /\ RecipientFile \in Files /\ SenderFile # RecipientFile
  BY DEF Files, SenderFile, RecipientFile

LEMMA RecipientRealStep ==
  ASSUME SharedRegistry = FALSE, TypeInv, Confirmations, RecipientReal, [Next]_vars
  PROVE  RecipientReal'
<1>1. registry \in [Files -> [Msgs -> AnchorStates]]
  BY DEF TypeInv, TypeOK
<1>2. CASE \E n \in Msgs : Closes(n)
  BY <1>1, <1>2, Apart DEF Closes, OnAnchor, Recorded, AnchorStates, RecipientReal
<1>3. CASE ~\E n \in Msgs : Closes(n)
  <2>1. registry'[RecipientFile] = registry[RecipientFile]
    BY <1>1, <1>3, Apart, Moves
    DEF Confirmations, RecordsPending, WithdrawsPending, Promotes, OnAnchor
  <2> QED  BY <2>1 DEF RecipientReal
<1> QED  BY <1>2, <1>3

\* A step on the sender's file is one phase of the commitment, or nothing.
LEMMA SenderTurns ==
  ASSUME SharedRegistry = FALSE, TypeInv, UNCHANGED landed,
         NEW m \in Msgs, NEW s \in AnchorStates, OnAnchor(SenderFile, m, s)
  PROVE  /\ registry'[RecipientFile] = registry[RecipientFile]
         /\ registry'[SenderFile] = [registry[SenderFile] EXCEPT ![m] = s]
         /\ s = registry[SenderFile][m] => UNCHANGED registry
<1>1. registry \in [Files -> [Msgs -> AnchorStates]]
  BY DEF TypeInv, TypeOK
<1>2. registry'[RecipientFile] = registry[RecipientFile]
  BY <1>1, Apart DEF OnAnchor
<1>3. registry'[SenderFile] = [registry[SenderFile] EXCEPT ![m] = s]
  BY <1>1, Apart DEF OnAnchor
<1>4. ASSUME s = registry[SenderFile][m] PROVE UNCHANGED registry
  <2>1. registry' = [registry EXCEPT ![SenderFile][m] = registry[SenderFile][m]]
    BY <1>4 DEF OnAnchor
  <2> QED  BY <1>1, <2>1, Apart
<1> QED  BY <1>2, <1>3, <1>4

\* Every step of the two gateways is a step of the commitment, or changes
\* nothing of it.
LEMMA ClosingStep ==
  ASSUME SharedRegistry = FALSE, TypeInv, Confirmations, RecipientReal, [Next]_vars
  PROVE  C!Next \/ UNCHANGED C!vars
<1> USE DEF C!vars
<1>1. /\ registry \in [Files -> [Msgs -> AnchorStates]]
      /\ SenderFile \in Files /\ RecipientFile \in Files /\ SenderFile # RecipientFile
  BY Apart DEF TypeInv, TypeOK
<1>2. ASSUME NEW m \in Msgs, Closes(m), landed' \in {landed, landed \cup {m}}
      PROVE  C!Next
  <2>1. Recorded(registry[RecipientFile][m], FALSE) = "closed"
    BY <1>1 DEF Recorded, RecipientReal, AnchorStates
  <2>2. /\ registry'[RecipientFile] = [registry[RecipientFile] EXCEPT ![m] = "closed"]
        /\ registry'[SenderFile] = registry[SenderFile]
    BY <1>1, <1>2, <2>1 DEF Closes, OnAnchor
  <2>3. C!Receive(m)
    BY <1>2, <2>2 DEF C!Receive
  <2> QED  BY <2>3 DEF C!Next
<1>3. CASE landed' # landed
  <2>1. PICK m \in landed' : m \notin landed
    BY <1>3, Moves DEF Confirmations
  <2>2. Closes(m) /\ landed' = landed \cup {m} /\ m \in Msgs
    BY <2>1, Moves, TypeStep DEF Confirmations, TypeInv, TypeOK
  <2> QED  BY <1>2, <2>2
<1>4. CASE landed' = landed
  <2>1. CASE UNCHANGED registry
    BY <1>4, <2>1
  <2>2. CASE RecordsPending
    <3>1. PICK m \in Msgs :
            OnAnchor(SenderFile, m, Recorded(registry[SenderFile][m], TRUE))
      BY <2>2 DEF RecordsPending
    <3>2. CASE registry[SenderFile][m] = "open"
      <4>1. C!Promise(m)
        BY <1>4, <3>1, <3>2, SenderTurns DEF Recorded, AnchorStates, C!Promise, C!Turn
      <4> QED  BY <4>1 DEF C!Next
    <3>3. CASE registry[SenderFile][m] # "open"
      BY <1>1, <1>4, <3>1, <3>3, SenderTurns DEF Recorded
    <3> QED  BY <3>2, <3>3
  <2>3. CASE WithdrawsPending
    <3>1. PICK m \in Msgs :
            OnAnchor(SenderFile, m, Withdrawn(registry[SenderFile][m]))
      BY <2>3 DEF WithdrawsPending
    <3>2. CASE registry[SenderFile][m] = "pending"
      <4>1. C!Withdraw(m)
        BY <1>4, <3>1, <3>2, SenderTurns DEF Withdrawn, AnchorStates, C!Withdraw, C!Turn
      <4> QED  BY <4>1 DEF C!Next
    <3>3. CASE registry[SenderFile][m] # "pending"
      BY <1>1, <1>4, <3>1, <3>3, SenderTurns DEF Withdrawn
    <3> QED  BY <3>2, <3>3
  <2>4. CASE Promotes
    <3>1. PICK w \in Workers :
            /\ pc[w] = "promote" /\ job[w] \in Msgs
            /\ OnAnchor(SenderFile, job[w], Promoted(registry[SenderFile][job[w]]))
      BY <2>4 DEF Promotes
    <3>2. job[w] \in landed
      BY <3>1 DEF Confirmations
    <3>3. CASE registry[SenderFile][job[w]] = "pending"
      <4>1. C!Confirm(job[w])
        BY <1>4, <3>1, <3>2, <3>3, SenderTurns DEF Promoted, AnchorStates, C!Confirm, C!Turn
      <4> QED  BY <3>1, <4>1 DEF C!Next
    <3>4. CASE registry[SenderFile][job[w]] # "pending"
      BY <1>1, <1>4, <3>1, <3>4, SenderTurns DEF Promoted
    <3> QED  BY <3>3, <3>4
  <2>5. CASE \E m \in Msgs : Closes(m)
    BY <1>2, <1>4, <2>5
  <2> QED  BY <2>1, <2>2, <2>3, <2>4, <2>5, Moves DEF Confirmations
<1> QED  BY <1>3, <1>4

\* Two gateways with a registry file each implement the two-phase commitment,
\* however many workers overlap and whoever crashes: nobody closes for good what
\* was not promised and taken, and no close is undone (threads.py:166-248).
THEOREM ClosingImplemented ==
  ASSUME SharedRegistry = FALSE
  PROVE  Spec => ImplementsClosing
<1>1. Init => C!Init /\ RecipientReal
  BY DEF Init, C!Init, RecipientReal, Files
<1>2. TypeInv /\ Confirmations /\ RecipientReal /\ [Next]_vars => RecipientReal'
  BY RecipientRealStep
<1>3. TypeInv /\ Confirmations /\ RecipientReal /\ [Next]_vars
      => [C!Next]_<<registry[SenderFile], registry[RecipientFile], landed>>
  BY ClosingStep DEF C!vars
<1> QED
  BY <1>1, <1>2, <1>3, ConfirmationsHold, PTL DEF Spec, ImplementsClosing, C!Spec, C!vars
-----------------------------------------------------------------------------
\* A worker is in a delivery because it was before, with the same message, or
\* because it has just recorded it as pending.
LEMMA DeliveryBegins ==
  ASSUME TypeInv, [Next]_vars, NEW w \in Workers,
         pc'[w] \in {"post", "wait", "promote"}
  PROVE  /\ job'[w] = job[w]
         /\ pc[w] \in {"post", "wait", "promote"} \/ RecordPending(w)
<1> USE DEF TypeInv, TypeOK
<1>1. CASE UNCHANGED vars
  BY <1>1 DEF vars, worker
<1>2. ASSUME NEW n \in Msgs, SendEnd(n) \/ ArriveLate(n) \/ Lost(n) \/ Forget(n)
      PROVE  pc[w] = pc'[w] /\ job'[w] = job[w]
  BY <1>2 DEF SendEnd, ArriveLate, Lost, Forget, worker, Goto
<1>3. ASSUME NEW r \in Reapers,
             \/ DropClosedRef(r) \/ Unresolved(r) \/ Raise(r)
             \/ \E n \in Msgs : Pick(r, n)
      PROVE  pc[w] = pc'[w] /\ job'[w] = job[w]
  BY <1>3 DEF DropClosedRef, Unresolved, Raise, Pick, Finish, Goto
<1>4. ASSUME NEW v \in Workers, Arrive(v) \/ Crash(v)
      PROVE  pc[w] = pc'[w] /\ job'[w] = job[w]
  BY <1>4 DEF Arrive, Crash, Finish, Goto
<1>5. ASSUME NEW v \in Workers, Step(v), v # w
      PROVE  pc[w] = pc'[w] /\ job'[w] = job[w]
  BY <1>5 DEF Step, RecordPending, Post, Confirmed, NoAnswer, Promote, Withdraw,
              Enqueue, Unlink, Reschedule, Dump, DeadLetter, Truncate, Finish, Goto
<1>6. CASE Step(w)
  BY <1>6 DEF Step, RecordPending, Post, Confirmed, NoAnswer, Promote, Withdraw,
              Enqueue, Unlink, Reschedule, Dump, DeadLetter, Truncate, Finish, Goto
<1> QED
  BY <1>1, <1>2, <1>3, <1>4, <1>5, <1>6 DEF Next

\* A worker that turns an entry back to open ends its own delivery by that.
Reopens(w) == \/ Withdraw(w) \/ DeadLetter(w) \/ Raise(w)
              \/ DropClosedRef(w) \/ Unresolved(w)

LEMMA ReopensEnds ==
  ASSUME TypeInv, NEW w \in Workers, Reopens(w)
  PROVE  pc'[w] \notin {"post", "wait", "promote"} /\ pc[w] \notin {"ready", "idle"}
  BY DEF Reopens, Withdraw, DeadLetter, Raise, DropClosedRef, Unresolved,
         Finish, Goto, TypeInv, TypeOK

\* The one reaper of an outbox reads the anchor it delivers as closed.
ReapedClosed ==
    \A r \in Reapers :
        Delivering(r) => registry[SenderFile][job[r]] # "open"

LEMMA ReapedClosedStep ==
  ASSUME \A r, s \in Reapers : r = s,
         TypeInv, Alone, ReapedClosed, [Next]_vars
  PROVE  ReapedClosed'
<1> SUFFICES ASSUME NEW r \in Reapers, pc'[r] \in {"post", "wait", "promote"}
             PROVE  registry'[SenderFile][job'[r]] # "open"
  BY DEF ReapedClosed, Delivering
<1>1. /\ r \in Workers /\ r \notin Msgs /\ job'[r] = job[r] /\ job[r] \in Msgs
      /\ pc[r] \in {"post", "wait", "promote"} \/ RecordPending(r)
  <2>1. r \in Workers /\ r \notin Msgs
    BY TerminatorAssumption DEF Workers
  <2>2. job'[r] = job[r] /\ (pc[r] \in {"post", "wait", "promote"} \/ RecordPending(r))
    BY <2>1, DeliveryBegins
  <2>3. pc[r] \notin {"ready", "idle"}
    BY <2>2 DEF RecordPending
  <2> QED  BY <2>1, <2>2, <2>3 DEF TypeInv, TypeOK
<1>2. ASSUME NEW w \in Workers, job[w] = job[r], Reopens(w) PROVE FALSE
  <2>1. w # r /\ pc[w] \notin {"ready", "idle"}
    BY <1>1, <1>2, ReopensEnds
  <2>2. w \in Msgs
    BY <2>1 DEF Workers
  <2>3. job[w] = w
    BY <2>1, <2>2 DEF Alone
  <2> QED  BY <1>1, <1>2, <2>1, <2>2, <2>3 DEF Alone
<1>3. CASE RecordPending(r)
  <2>1. SenderFile \in Files
    BY DEF Files
  <2> QED  BY <1>1, <1>3, <2>1 DEF RecordPending, OnAnchor, Recorded, TypeInv, TypeOK
<1>4. CASE pc[r] \in {"post", "wait", "promote"}
  <2>1. registry[SenderFile][job[r]] # "open"
    BY <1>4 DEF ReapedClosed, Delivering
  <2>2. \/ registry'[SenderFile][job[r]] = registry[SenderFile][job[r]]
        \/ registry'[SenderFile][job[r]] # "open"
        \/ \E w \in Workers : job[w] = job[r] /\ Reopens(w)
    BY <1>1, EntryMoves DEF Reopens
  <2> QED  BY <1>1, <1>2, <2>1, <2>2
<1> QED  BY <1>1, <1>3, <1>4

\* With one reaper to an outbox a confirmed delivery does close the thread,
\* in shared or separate files: what breaks ConfirmedDeliveryCloses is a second
\* reaper that gives the same item up in between (outbox.py:225-226).
THEOREM OneReaperCloses ==
  ASSUME \A r, s \in Reapers : r = s
  PROVE  Spec => ConfirmedDeliveryCloses
<1> DEFINE Made == \A r \in Reapers :
                     pc[r] = "promote" /\ pc'[r] = "unlink"
                     => registry'[SenderFile][job[r]] = "closed"
<1>1. Init => Alone /\ ReapedClosed
  <2> SUFFICES ASSUME Init PROVE Alone /\ ReapedClosed
    OBVIOUS
  <2>1. \A w \in Workers : pc[w] \in {"ready", "idle"} /\ job[w] = NoMsg
    BY DEF Init
  <2>2. \A m \in Msgs : file["outbox"][m] = "none" /\ pc[m] = "ready"
    BY DEF Init, Workers, Places
  <2> QED
    BY <2>1, <2>2, TerminatorAssumption DEF Alone, ReapedClosed, Delivering, Workers
<1>2. TypeInv /\ Alone /\ ReapedClosed /\ [Next]_vars => ReapedClosed'
  BY ReapedClosedStep
<1>3. TypeInv /\ ReapedClosed /\ [Next]_vars => [Made]_vars
  <2> SUFFICES ASSUME TypeInv, ReapedClosed, Next, NEW r \in Reapers,
                      pc[r] = "promote", pc'[r] = "unlink"
               PROVE  registry'[SenderFile][job[r]] = "closed"
    OBVIOUS
  <2> USE DEF TypeInv, TypeOK
  <2>0. r \in Workers /\ SenderFile \in Files /\ job[r] \in Msgs
    BY DEF Workers, Files
  <2>1. Promote(r)
    <3>1. ASSUME NEW n \in Msgs, SendEnd(n) \/ ArriveLate(n) \/ Lost(n) \/ Forget(n)
          PROVE  FALSE
      BY <2>0, <3>1 DEF SendEnd, ArriveLate, Lost, Forget, worker, Goto
    <3>2. ASSUME NEW s \in Reapers,
                 \/ DropClosedRef(s) \/ Unresolved(s) \/ Raise(s)
                 \/ \E n \in Msgs : Pick(s, n)
          PROVE  FALSE
      BY <2>0, <3>2 DEF DropClosedRef, Unresolved, Raise, Pick, Finish, Goto
    <3>3. ASSUME NEW v \in Workers, Arrive(v) \/ Crash(v) PROVE FALSE
      BY <2>0, <3>3 DEF Arrive, Crash, Finish, Goto
    <3>4. ASSUME NEW v \in Workers, Step(v), v # r PROVE FALSE
      BY <2>0, <3>4 DEF Step, RecordPending, Post, Confirmed, NoAnswer, Promote,
         Withdraw, Enqueue, Unlink, Reschedule, Dump, DeadLetter, Truncate, Finish, Goto
    <3>5. Step(r)
      BY <3>1, <3>2, <3>3, <3>4 DEF Next
    <3> QED
      BY <3>5 DEF Step, RecordPending, Post, Confirmed, NoAnswer, Withdraw,
         Enqueue, Unlink, Reschedule, Dump, DeadLetter, Truncate, Finish, Goto
  <2>2. registry[SenderFile][job[r]] \in {"pending", "closed"}
    BY <2>0 DEF ReapedClosed, Delivering, AnchorStates
  <2> QED  BY <2>0, <2>1, <2>2 DEF Promote, OnAnchor, Promoted
<1> QED
  BY <1>1, <1>2, <1>3, AloneStep, TypeInit, TypeStep, PTL DEF Spec, ConfirmedDeliveryCloses
-----------------------------------------------------------------------------
\* Who has a file open for writing finds it as empty as the open left it, and an
\* empty file has a writer, while nothing fails.
SoleWriters ==
    /\ \A w \in Workers : hand[w] = "outbox" => file["outbox"][job[w]] = "torn"
    /\ \A m \in Msgs : file["outbox"][m] = "torn" =>
          faulty \/ \E w \in Workers : job[w] = m /\ hand[w] = "outbox"

\* What a step does to the files in the outbox and to their writers.
FilesStand ==
    /\ UNCHANGED <<file, hand>>
    /\ \A w \in Workers : hand[w] # "none" => job'[w] = job[w]
    /\ faulty => faulty'

LEMMA FileMoves ==
  ASSUME TypeInv, [Next]_vars
  PROVE  \/ FilesStand
         \/ \E w \in Workers :
               \/ Unlink(w) \/ Dump(w) \/ DeadLetter(w) \/ Crash(w)
               \/ pc[w] = "reschedule" /\ Truncate(w) /\ UNCHANGED <<job, faulty>>
<1> USE DEF TypeInv, TypeOK, WorkerOK, FilesStand, outbox, worker
<1>1. CASE UNCHANGED vars
  BY <1>1 DEF vars
<1>2. ASSUME NEW m \in Msgs, SendEnd(m) \/ ArriveLate(m) \/ Lost(m) \/ Forget(m)
      PROVE  FilesStand
  BY <1>2 DEF SendEnd, ArriveLate, Lost, Forget, Workers
<1>3. ASSUME NEW r \in Reapers,
             DropClosedRef(r) \/ Unresolved(r) \/ \E m \in Msgs : Pick(r, m)
      PROVE  FilesStand
  BY <1>3 DEF DropClosedRef, Unresolved, Pick, Workers
<1>4. ASSUME NEW w \in Workers, Raise(w) \/ Arrive(w) PROVE FilesStand
  BY <1>4 DEF Raise, Arrive, Finish
<1>5. ASSUME NEW w \in Workers,
             \/ RecordPending(w) \/ Post(w) \/ Confirmed(w) \/ NoAnswer(w)
             \/ Promote(w) \/ Withdraw(w)
      PROVE  FilesStand
  BY <1>5 DEF RecordPending, Post, Confirmed, NoAnswer, Promote, Withdraw, Finish
<1>6. ASSUME NEW w \in Workers, Enqueue(w) \/ Reschedule(w)
      PROVE  \/ FilesStand
             \/ pc[w] = "reschedule" /\ Truncate(w) /\ UNCHANGED <<job, faulty>>
  BY <1>6 DEF Enqueue, Reschedule, Finish
<1> QED
  BY <1>1, <1>2, <1>3, <1>4, <1>5, <1>6 DEF Next, Step, Workers

LEMMA SoleWritersStep ==
  ASSUME \A r, s \in Reapers : r = s,
         TypeInv, Alone, SoleWriters, [Next]_vars
  PROVE  SoleWriters'
<1> USE DEF TypeInv, TypeOK
<1>1. \A w \in Workers : hand[w] # "none" <=> pc[w] = "dump"
  BY DEF WorkerOK
<1>2. ASSUME NEW v \in Workers, NEW w \in Workers,
             hand[v] # "none", hand[w] # "none", job[v] = job[w]
      PROVE  v = w
  <2>1. pc[v] = "dump" /\ pc[w] = "dump"
    BY <1>1, <1>2
  <2>2. CASE v \in Msgs
    BY <1>2, <2>1, <2>2 DEF Alone
  <2>3. CASE w \in Msgs
    BY <1>2, <2>1, <2>3 DEF Alone
  <2> QED  BY <2>2, <2>3 DEF Workers
<1>3. CASE FilesStand
  <2>1. \A w \in Workers : hand[w] = "outbox" => hand'[w] = "outbox" /\ job'[w] = job[w]
    BY <1>3 DEF FilesStand
  <2>2. \A w \in Workers : hand'[w] = "outbox" => hand[w] = "outbox"
    BY <1>3 DEF FilesStand
  <2>3. file' = file /\ (faulty => faulty')
    BY <1>3 DEF FilesStand
  <2>4. \A w \in Workers : hand'[w] = "outbox" => file'["outbox"][job'[w]] = "torn"
    BY <2>1, <2>2, <2>3 DEF SoleWriters
  <2>5. \A m \in Msgs : file'["outbox"][m] = "torn" =>
          faulty' \/ \E w \in Workers : job'[w] = m /\ hand'[w] = "outbox"
    BY <2>1, <2>3 DEF SoleWriters
  <2> QED  BY <2>4, <2>5 DEF SoleWriters
<1>4. ASSUME NEW w \in Workers, Unlink(w) \/ DeadLetter(w) PROVE SoleWriters'
  <2>1. /\ hand[w] = "none" /\ job[w] \in Msgs /\ (faulty => faulty')
        /\ \A v \in Workers : v # w => job'[v] = job[v]
    BY <1>1, <1>4 DEF Unlink, DeadLetter, Finish
  <2>2. CASE UNCHANGED <<file, hand>>
    BY <2>1, <2>2 DEF SoleWriters
  <2>3. CASE \E to \in {"dead", "gone"} : Leaves(job[w], to)
             /\ \A m \in Msgs : file'["outbox"][m] =
                    IF m = job[w] THEN "none" ELSE file["outbox"][m]
    <3>1. \A v \in Workers : hand'[v] = "outbox" <=>
                              hand[v] = "outbox" /\ job[v] # job[w]
      BY <2>3 DEF Leaves, Places
    <3>2. \A v \in Workers : hand[v] = "outbox" => job[v] \in Msgs
      BY <1>1
    <3>3. \A v \in Workers : hand'[v] = "outbox" =>
            hand[v] = "outbox" /\ job'[v] = job[v] /\ job[v] # job[w] /\ job[v] \in Msgs
      BY <2>1, <3>1, <3>2
    <3>4. \A v \in Workers : hand'[v] = "outbox" => file'["outbox"][job'[v]] = "torn"
      BY <2>3, <3>3 DEF SoleWriters
    <3>5. ASSUME NEW m \in Msgs, file'["outbox"][m] = "torn", ~faulty'
          PROVE  \E v \in Workers : job'[v] = m /\ hand'[v] = "outbox"
      <4>1. file["outbox"][m] = "torn" /\ ~faulty /\ m # job[w]
        BY <2>1, <2>3, <3>5
      <4>2. PICK v \in Workers : job[v] = m /\ hand[v] = "outbox"
        BY <4>1 DEF SoleWriters
      <4>3. v # w
        BY <2>1, <4>2
      <4> QED  BY <2>1, <3>1, <4>1, <4>2, <4>3
    <3> QED  BY <3>4, <3>5 DEF SoleWriters
  <2> QED  BY <1>4, <2>1, <2>2, <2>3 DEF Unlink, DeadLetter, Places
<1>5. ASSUME NEW w \in Workers, Dump(w) \/ Crash(w) PROVE SoleWriters'
  <2>1. /\ hand' = [hand EXCEPT ![w] = "none"] /\ job[w] \in Msgs
        /\ \A v \in Workers : v # w => job'[v] = job[v]
        /\ faulty => faulty'
    BY <1>5 DEF Dump, Crash, Finish
  <2>2. ASSUME NEW m \in Msgs, file'["outbox"][m] # file["outbox"][m]
        PROVE  /\ job[w] = m /\ hand[w] = "outbox"
               /\ ~faulty' => file'["outbox"][m] = "whole"
    <3>1. Refilled(w) => hand[w] = "dead"
      BY <2>1 DEF Refilled, Places, SoleWriters
    <3>2. Fill(w, "whole") \/ Fill(w, "torn")
      BY <1>5, <2>2 DEF Dump, Crash
    <3>3. hand[w] \in Places
      BY <1>1, <1>5, <2>2 DEF Dump, Crash, Refilled
    <3>4. job[w] = m /\ hand[w] = "outbox"
      BY <2>1, <2>2, <3>2, <3>3 DEF Fill, Places
    <3>5. ~Refilled(w)
      BY <3>1, <3>4
    <3> QED  BY <1>5, <2>1, <2>2, <3>4, <3>5 DEF Dump, Crash, Fill, Places
  <2>3. ASSUME NEW v \in Workers, hand'[v] = "outbox"
        PROVE  file'["outbox"][job'[v]] = "torn"
    <3>1. v # w /\ hand[v] = "outbox" /\ job'[v] = job[v] /\ job[v] \in Msgs
      BY <1>1, <2>1, <2>3
    <3>2. file["outbox"][job[v]] = "torn"
      BY <3>1 DEF SoleWriters
    <3>3. file'["outbox"][job[v]] = file["outbox"][job[v]]
      BY <1>2, <2>2, <3>1
    <3> QED  BY <3>1, <3>2, <3>3
  <2>4. ASSUME NEW m \in Msgs, file'["outbox"][m] = "torn", ~faulty'
        PROVE  \E v \in Workers : job'[v] = m /\ hand'[v] = "outbox"
    <3>1. file["outbox"][m] = "torn" /\ ~faulty
      BY <2>1, <2>2, <2>4
    <3>2. PICK v \in Workers : job[v] = m /\ hand[v] = "outbox"
      BY <3>1 DEF SoleWriters
    <3>3. v # w
      <4>1. CASE v = w
        <5>1. Dump(w) /\ ~Refilled(w)
          BY <1>5, <2>4, <3>1, <3>2, <4>1 DEF Crash, Refilled
        <5>2. Fill(w, "whole")
          BY <3>2, <4>1, <5>1 DEF Dump
        <5> QED  BY <2>1, <2>4, <3>2, <4>1, <5>2 DEF Fill, Places
      <4> QED  BY <4>1
    <3> QED  BY <2>1, <3>2, <3>3
  <2> QED  BY <2>3, <2>4 DEF SoleWriters
<1>6. ASSUME NEW w \in Workers, pc[w] = "reschedule", Truncate(w),
             UNCHANGED <<job, faulty>>
      PROVE  SoleWriters'
  <2>1. /\ hand' = [hand EXCEPT ![w] = "outbox"] /\ job[w] \in Msgs
        /\ \A m \in Msgs : file'["outbox"][m] =
              IF m = job[w] THEN "torn" ELSE file["outbox"][m]
    BY <1>6 DEF Truncate, Places
  <2>2. \A v \in Workers : hand[v] = "outbox" => job[v] \in Msgs
    BY <1>1
  <2>3. ASSUME NEW v \in Workers, hand'[v] = "outbox"
        PROVE  file'["outbox"][job'[v]] = "torn"
    <3>1. job'[v] = job[v] /\ job[v] \in Msgs
      BY <1>6, <2>1, <2>2, <2>3
    <3>2. CASE job[v] = job[w]
      BY <2>1, <3>1, <3>2
    <3>3. CASE job[v] # job[w]
      <4>1. hand[v] = "outbox"
        BY <2>1, <2>3, <3>3
      <4> QED  BY <2>1, <3>1, <3>3, <4>1 DEF SoleWriters
    <3> QED  BY <3>2, <3>3
  <2>4. ASSUME NEW m \in Msgs, file'["outbox"][m] = "torn", ~faulty'
        PROVE  \E v \in Workers : job'[v] = m /\ hand'[v] = "outbox"
    <3>1. CASE m = job[w]
      BY <1>6, <2>1, <3>1
    <3>2. CASE m # job[w]
      <4>1. file["outbox"][m] = "torn" /\ ~faulty
        BY <1>6, <2>1, <2>4, <3>2
      <4>2. PICK v \in Workers : job[v] = m /\ hand[v] = "outbox"
        BY <4>1 DEF SoleWriters
      <4> QED  BY <1>6, <2>1, <3>2, <4>2
    <3> QED  BY <3>1, <3>2
  <2> QED  BY <2>3, <2>4 DEF SoleWriters
<1> QED  BY <1>3, <1>4, <1>5, <1>6, FileMoves

\* With one reaper to an outbox and nothing failing, every file in it is readable
\* or being written: only a second reaper, or a crash or a failed write between
\* open and dump, leaves a file that is passed over for ever (outbox.py:262-266,
\* 319-323).
THEOREM OneReaperSpoilsNothing ==
  ASSUME \A r, s \in Reapers : r = s
  PROVE  Spec => [](\A m \in Msgs : Spoiled(m) => faulty)
<1>1. Init => Alone /\ SoleWriters
  <2> SUFFICES ASSUME Init PROVE Alone /\ SoleWriters
    OBVIOUS
  <2>1. \A w \in Workers : job[w] = NoMsg /\ hand[w] = "none"
    BY DEF Init
  <2>2. \A m \in Msgs : file["outbox"][m] = "none" /\ pc[m] = "ready"
    BY DEF Init, Workers, Places
  <2> QED
    BY <2>1, <2>2, TerminatorAssumption DEF Alone, SoleWriters, Workers
<1>2. TypeInv /\ Alone /\ SoleWriters /\ [Next]_vars => SoleWriters'
  BY SoleWritersStep
<1>3. SoleWriters => \A m \in Msgs : Spoiled(m) => faulty
  BY DEF SoleWriters, Spoiled
<1> QED
  BY <1>1, <1>2, <1>3, AloneStep, TypeInit, TypeStep, PTL DEF Spec
=============================================================================
