--------------------------- MODULE Notices_proofs ---------------------------
(***************************************************************************)
(* What holds of notifications for any gateways and messages, and however  *)
(* deep notices about notices get.                                         *)
(***************************************************************************)
EXTENDS Notices, TLAPS

LEMMA ThreadsOf ==
    /\ \A a \in Agents : Loop(a) \in Threads /\ Worker(a) \in Threads
    /\ \A a \in Agents : Loop(a)[2] = "loop" /\ Worker(a)[2] = "worker"
BY DEF Loop, Worker, Threads

\* What TypeOK says of the threads and their requests.
ThreadsOK ==
    /\ job \in [Threads -> Job \cup {Nobody}]
    /\ \A t \in Threads : job[t] # Nobody /\ job[t].item => t[2] = "worker"
    /\ answer \in [Threads -> {"none", "accepted", "failed"}]
    /\ pending \subseteq Request

\* Posting a well-formed note keeps the threads and requests well-formed.
LEMMA PostTyped ==
    ASSUME TypeOK, NEW t \in Threads, NEW note \in Note, NEW header \in BOOLEAN,
           NEW item \in BOOLEAN, NEW asker \in Threads \cup {Nobody},
           NEW others \in SUBSET pending, item => t[2] = "worker",
           Post(t, note, header, item, asker, others)
    PROVE  ThreadsOK'
<1> DEFINE mine == [note |-> note, header |-> header, item |-> item, asker |-> asker]
<1>1. mine \in Job /\ mine.item = item
  BY DEF Job
<1>2. [note |-> note, header |-> header, waiter |-> t] \in Request
  BY DEF Request
<1>3. job' = [job EXCEPT ![t] = mine]
  BY DEF Post
<1> HIDE DEF mine
<1>4. \A w \in Threads : job'[w] # Nobody /\ job'[w].item => w[2] = "worker"
  BY <1>1, <1>3 DEF TypeOK
<1> QED  BY <1>1, <1>2, <1>3, <1>4 DEF Post, TypeOK, ThreadsOK

LEMMA RestTyped ==
    ASSUME TypeOK, NEW t \in Threads, Rest(t)
    PROVE  ThreadsOK'
BY DEF Rest, Answered, TypeOK, ThreadsOK

\* What is reported is a note that may go one deeper.
LEMMA ReportTyped ==
    ASSUME TypeOK, NEW t \in Threads, NEW about \in Note, Report(t, about)
    PROVE  ThreadsOK'
<1>1. CASE /\ about.depth < MaxDepth
           /\ Post(t, Notice(about.from, Told(about), about), TRUE, FALSE, Nobody, pending)
  <2>1. Notice(about.from, Told(about), about) \in Note
    BY <1>1, NoticesAssumption DEF Notice, Note, Told
  <2>2. FALSE \in BOOLEAN /\ pending \in SUBSET pending /\ TRUE \in BOOLEAN
    OBVIOUS
  <2> QED  BY <1>1, <2>1, <2>2, PostTyped
<1>2. CASE /\ job' = [job EXCEPT ![t] = Nobody] /\ answer' = [answer EXCEPT ![t] = "none"]
           /\ UNCHANGED pending
  BY <1>2 DEF TypeOK, ThreadsOK
<1> QED  BY <1>1, <1>2 DEF Report

LEMMA JobTyped ==
    ASSUME TypeOK, NEW t \in Threads, ~Idle(t)
    PROVE  job[t] \in Job
BY DEF TypeOK, Idle

LEMMA GiveUpTyped ==
    ASSUME TypeOK, NEW t \in Threads, GiveUp(t, {r \in pending : r.waiter # t})
    PROVE  ThreadsOK'
<1>1. ASSUME NEW w \in Threads, ~Idle(w)
      PROVE  /\ [job[w] EXCEPT !.asker = Nobody] \in Job
             /\ [job[w] EXCEPT !.asker = Nobody].item = job[w].item
  BY <1>1, JobTyped DEF Job
<1>2. \A w \in Threads :
        /\ job'[w] \in Job \cup {Nobody}
        /\ job'[w] # Nobody => job[w] # Nobody /\ job'[w].item = job[w].item
  BY <1>1 DEF GiveUp, TypeOK, Idle
<1>3. job' \in [Threads -> Job \cup {Nobody}]
  BY <1>2 DEF GiveUp
<1>4. \A w \in Threads : job'[w] # Nobody /\ job'[w].item => w[2] = "worker"
  BY <1>2 DEF TypeOK
<1> QED  BY <1>3, <1>4 DEF GiveUp, TypeOK, ThreadsOK

\* The state stays well-formed: only workers deliver items, and nothing is
\* queued or sent that is not a note.
THEOREM Typing == Spec => []TypeOK
<1>1. Init => TypeOK
  BY DEF Init, TypeOK
<1>2. ASSUME TypeOK, [Next]_vars
      PROVE  TypeOK'
  <2> USE <1>2, NoticesAssumption
  <2>0. ASSUME ThreadsOK', UNCHANGED <<enabled, replies>>, sent' \subseteq Messages,
               outbox' \subseteq Note, queued' \subseteq 0 .. MaxDepth
        PROVE  TypeOK'
    BY <2>0 DEF TypeOK, ThreadsOK
  <2> SUFFICES ASSUME Next PROVE TypeOK'
    BY DEF TypeOK, vars
  <2>1. ASSUME NEW a \in Agents, NEW b \in Agents, Send(a, b) PROVE TypeOK'
    <3>0. /\ Worker(a) \in Threads /\ FALSE \in BOOLEAN
          /\ pending \in SUBSET pending /\ Nobody \in Threads \cup {Nobody}
      BY ThreadsOf
    <3>1. Message(<<a, b>>) \in Note
      BY DEF Message, Note
    <3>2. UNCHANGED <<enabled, replies, outbox, queued>> /\ sent' \subseteq Messages
      BY <2>1 DEF Send, TypeOK
    <3>3. CASE Post(Worker(a), Message(<<a, b>>), FALSE, FALSE, Nobody, pending)
      <4>1. ThreadsOK'
        BY <3>0, <3>1, <3>3, PostTyped
      <4> QED  BY <2>0, <3>2, <4>1 DEF TypeOK
    <3>4. CASE Report(Worker(a), Message(<<a, b>>))
      <4>1. ThreadsOK'
        BY <3>0, <3>1, <3>4, ReportTyped
      <4> QED  BY <2>0, <3>2, <4>1 DEF TypeOK
    <3> QED  BY <2>1, <3>3, <3>4 DEF Send
  <2>2. ASSUME NEW a \in Agents, Sweep(a) PROVE TypeOK'
    <3>1. PICK note \in outbox : Post(Worker(a), note, FALSE, TRUE, Nobody, pending)
      BY <2>2 DEF Sweep
    <3>2. /\ Worker(a) \in Threads /\ pending \in SUBSET pending
          /\ FALSE \in BOOLEAN /\ TRUE \in BOOLEAN /\ Nobody \in Threads \cup {Nobody}
          /\ Worker(a)[2] = "worker" /\ note \in Note
      BY ThreadsOf DEF TypeOK
    <3>3. ThreadsOK'
      BY <3>1, <3>2, PostTyped
    <3> QED  BY <2>0, <2>2, <3>3 DEF Sweep, TypeOK
  <2>3. ASSUME NEW a \in Agents, Accept(a) PROVE TypeOK'
    BY <2>3 DEF Accept, Answered, TypeOK
  <2>4. ASSUME NEW a \in Agents, Refuse(a) PROVE TypeOK'
    <3>1. PICK r \in pending :
         \/ /\ ~r.header /\ r.note.depth < MaxDepth
            /\ Post(Loop(a), Notice(a, r.note.from, r.note), TRUE, FALSE, r.waiter, pending \ {r})
         \/ /\ pending' = pending \ {r}
            /\ answer' = Answered(r.waiter, "failed")
            /\ UNCHANGED job
      BY <2>4 DEF Refuse
    <3>2. r.note \in Note /\ r.waiter \in Threads
      BY DEF TypeOK, Request
    <3>3. UNCHANGED <<enabled, replies, sent, outbox, queued>>
      BY <2>4 DEF Refuse
    <3>4. CASE /\ r.note.depth < MaxDepth
               /\ Post(Loop(a), Notice(a, r.note.from, r.note), TRUE, FALSE, r.waiter, pending \ {r})
      <4>1. Notice(a, r.note.from, r.note) \in Note
        BY <3>2, <3>4 DEF Notice, Note
      <4>2. /\ pending \ {r} \in SUBSET pending /\ TRUE \in BOOLEAN /\ FALSE \in BOOLEAN
            /\ Loop(a) \in Threads /\ r.waiter \in Threads \cup {Nobody}
        BY <3>2, ThreadsOf
      <4>3. ThreadsOK'
        BY <3>4, <4>1, <4>2, PostTyped
      <4> QED  BY <2>0, <3>3, <4>3 DEF TypeOK
    <3>5. CASE /\ pending' = pending \ {r}
               /\ answer' = Answered(r.waiter, "failed")
               /\ UNCHANGED job
      BY <3>2, <3>3, <3>5 DEF TypeOK, Answered
    <3> QED  BY <3>1, <3>4, <3>5
  <2>5. ASSUME NEW t \in Threads, Timeout(t) PROVE TypeOK'
    BY <2>0, <2>5, GiveUpTyped DEF Timeout, TypeOK
  <2>6. ASSUME NEW t \in Threads, Delivered(t) PROVE TypeOK'
    <3>1. ThreadsOK' /\ outbox' \subseteq Note
      BY <2>6, RestTyped DEF Delivered, TypeOK
    <3> QED  BY <2>0, <2>6, <3>1 DEF Delivered, TypeOK
  <2>7. ASSUME NEW t \in Threads, FailedLive(t) PROVE TypeOK'
    <3>1. job[t].note \in Note /\ UNCHANGED <<enabled, replies, sent>>
      BY <2>7, JobTyped DEF FailedLive, Job
    <3>2. CASE Queue(job[t].note) /\ Rest(t)
      <4>1. outbox' \subseteq Note /\ queued' \subseteq 0 .. MaxDepth
        BY <3>1, <3>2 DEF Queue, TypeOK, Note
      <4> QED  BY <2>0, <3>1, <3>2, <4>1, RestTyped DEF TypeOK
    <3>3. CASE Report(t, job[t].note) /\ UNCHANGED <<outbox, queued>>
      BY <2>0, <3>1, <3>3, ReportTyped DEF TypeOK
    <3>4. CASE Rest(t) /\ UNCHANGED <<outbox, queued>>
      BY <2>0, <3>1, <3>4, RestTyped DEF TypeOK
    <3> QED  BY <2>7, <3>2, <3>3, <3>4 DEF FailedLive
  <2>8. ASSUME NEW t \in Threads, Reschedule(t) PROVE TypeOK'
    <3>1. ThreadsOK' /\ job[t].note \in Note
      BY <2>8, RestTyped, JobTyped DEF Reschedule, Job
    <3> QED  BY <2>0, <2>8, <3>1 DEF Reschedule, TypeOK
  <2>9. ASSUME NEW t \in Threads, DeadLetter(t) PROVE TypeOK'
    <3>1. job[t].note \in Note
      BY <2>9, JobTyped DEF DeadLetter, Job
    <3>2. ThreadsOK'
      BY <2>9, <3>1, ReportTyped, RestTyped DEF DeadLetter
    <3> QED  BY <2>0, <2>9, <3>2 DEF DeadLetter, TypeOK
  <2>10. ASSUME NEW a \in Agents, DropClosedRef(a) PROVE TypeOK'
    BY <2>10 DEF DropClosedRef, TypeOK
  <2> QED
    BY <2>1, <2>2, <2>3, <2>4, <2>5, <2>6, <2>7, <2>8, <2>9, <2>10 DEF Next, Proceed
<1> QED  BY <1>1, <1>2, PTL DEF Spec

\* Where a note is, it is known how it got there: a notice about a notice stems
\* from a queued one, and travels without its header only once queued itself.
Traced(n) == n.depth > 1 => n.depth - 1 \in queued
Requeued(n) == n.depth > 0 => n.depth \in queued

Tracing ==
    /\ \A r \in pending : Traced(r.note) /\ (~r.header => Requeued(r.note))
    /\ \A t \in Threads : job[t] # Nobody =>
          Traced(job[t].note) /\ (job[t].item => Requeued(job[t].note))
    /\ \A n \in outbox : Traced(n) /\ Requeued(n)

\* What a step has to keep: requests, jobs and items that are new are traced.
LEMMA PostTraced ==
    ASSUME TypeOK, Tracing, UNCHANGED queued, NEW t \in Threads, NEW note \in Note,
           NEW header \in BOOLEAN, NEW item \in BOOLEAN,
           NEW asker \in Threads \cup {Nobody}, NEW others \in SUBSET pending,
           Post(t, note, header, item, asker, others),
           Traced(note), ~header => Requeued(note), item => Requeued(note)
    PROVE  /\ \A r \in pending' : Traced(r.note)' /\ (~r.header => Requeued(r.note)')
           /\ \A w \in Threads : job'[w] # Nobody =>
                Traced(job[w].note)' /\ (job'[w].item => Requeued(job[w].note)')
<1>1. \A w \in Threads : job'[w] = IF w = t THEN [note |-> note, header |-> header,
                                     item |-> item, asker |-> asker] ELSE job[w]
  BY DEF Post, TypeOK
<1>2. pending' = others \cup {[note |-> note, header |-> header, waiter |-> t]}
  BY DEF Post
<1> QED  BY <1>1, <1>2 DEF Tracing, Traced, Requeued

LEMMA ReportTraced ==
    ASSUME TypeOK, Tracing, UNCHANGED queued, NEW t \in Threads, NEW about \in Note,
           about.depth = 0, Report(t, about)
    PROVE  /\ \A r \in pending' : Traced(r.note)' /\ (~r.header => Requeued(r.note)')
           /\ \A w \in Threads : job'[w] # Nobody =>
                Traced(job[w].note)' /\ (job'[w].item => Requeued(job[w].note)')
<1>1. CASE /\ about.depth < MaxDepth
           /\ Post(t, Notice(about.from, Told(about), about), TRUE, FALSE, Nobody, pending)
  <2>1. /\ Notice(about.from, Told(about), about) \in Note
        /\ Traced(Notice(about.from, Told(about), about))
    BY <1>1, NoticesAssumption DEF Notice, Note, Traced, Told
  <2>2. /\ FALSE \in BOOLEAN /\ pending \in SUBSET pending /\ TRUE \in BOOLEAN
        /\ Nobody \in Threads \cup {Nobody}
        /\ ~TRUE => Requeued(Notice(about.from, Told(about), about))
        /\ FALSE => Requeued(Notice(about.from, Told(about), about))
    OBVIOUS
  <2> QED  BY <1>1, <2>1, <2>2, PostTraced
<1>2. CASE /\ job' = [job EXCEPT ![t] = Nobody] /\ answer' = [answer EXCEPT ![t] = "none"]
           /\ UNCHANGED pending
  BY <1>2 DEF Tracing, Traced, Requeued, TypeOK
<1> QED  BY <1>1, <1>2 DEF Report

\* Going to rest adds no note.
LEMMA RestTraced ==
    ASSUME TypeOK, NEW t \in Threads, Rest(t)
    PROVE  UNCHANGED pending /\ \A w \in Threads : job'[w] \in {job[w], Nobody}
BY DEF Rest, TypeOK

\* A notice about a notice exists only if that one was queued, however deep
\* they get: what keeps its header is never notified about.
THEOREM OnlyQueuedAreNoticed == Spec => []NoticesOfQueued
<1>1. Init => Tracing
  BY DEF Init, Tracing
<1>2. ASSUME TypeOK, TypeOK', Tracing, [Next]_vars
      PROVE  Tracing'
  <2> USE <1>2, NoticesAssumption
  <2> SUFFICES ASSUME Next PROVE Tracing'
    BY DEF Tracing, Traced, Requeued, vars
  <2>1. ASSUME NEW a \in Agents, NEW b \in Agents, Send(a, b) PROVE Tracing'
    <3>0. /\ Worker(a) \in Threads /\ Nobody \in Threads \cup {Nobody}
          /\ pending \in SUBSET pending /\ FALSE \in BOOLEAN
      BY ThreadsOf
    <3>1. /\ Message(<<a, b>>) \in Note /\ Message(<<a, b>>).depth = 0
          /\ Traced(Message(<<a, b>>)) /\ Requeued(Message(<<a, b>>))
      BY DEF Message, Note, Traced, Requeued
    <3>2. UNCHANGED <<outbox, queued>>
      BY <2>1 DEF Send
    <3>3. /\ \A r \in pending' : Traced(r.note)' /\ (~r.header => Requeued(r.note)')
          /\ \A w \in Threads : job'[w] # Nobody =>
               Traced(job[w].note)' /\ (job'[w].item => Requeued(job[w].note)')
      <4>1. CASE Post(Worker(a), Message(<<a, b>>), FALSE, FALSE, Nobody, pending)
        BY <3>0, <3>1, <3>2, <4>1, PostTraced
      <4>2. CASE Report(Worker(a), Message(<<a, b>>))
        BY <3>0, <3>1, <3>2, <4>2, ReportTraced
      <4> QED  BY <2>1, <4>1, <4>2 DEF Send
    <3> QED  BY <3>2, <3>3 DEF Tracing, Traced, Requeued
  <2>2. ASSUME NEW a \in Agents, Sweep(a) PROVE Tracing'
    <3>1. PICK note \in outbox : Post(Worker(a), note, FALSE, TRUE, Nobody, pending)
      BY <2>2 DEF Sweep
    <3>2. /\ Worker(a) \in Threads /\ pending \in SUBSET pending /\ FALSE \in BOOLEAN
          /\ TRUE \in BOOLEAN /\ Nobody \in Threads \cup {Nobody}
      BY ThreadsOf
    <3>3. note \in Note /\ Traced(note) /\ Requeued(note)
      BY DEF TypeOK, Tracing
    <3>4. UNCHANGED <<outbox, queued>>
      BY <2>2 DEF Sweep
    <3>5. /\ \A r \in pending' : Traced(r.note)' /\ (~r.header => Requeued(r.note)')
          /\ \A w \in Threads : job'[w] # Nobody =>
               Traced(job[w].note)' /\ (job'[w].item => Requeued(job[w].note)')
      BY <3>1, <3>2, <3>3, <3>4, PostTraced
    <3> QED  BY <3>4, <3>5 DEF Tracing, Traced, Requeued
  <2>3. ASSUME NEW a \in Agents, Accept(a) PROVE Tracing'
    BY <2>3 DEF Accept, Tracing, Traced, Requeued
  <2>4. ASSUME NEW a \in Agents, Refuse(a) PROVE Tracing'
    <3>1. PICK r \in pending :
         \/ /\ ~r.header /\ r.note.depth < MaxDepth
            /\ Post(Loop(a), Notice(a, r.note.from, r.note), TRUE, FALSE, r.waiter, pending \ {r})
         \/ /\ pending' = pending \ {r}
            /\ answer' = Answered(r.waiter, "failed")
            /\ UNCHANGED job
      BY <2>4 DEF Refuse
    <3>2. r.note \in Note /\ r.waiter \in Threads
      BY DEF TypeOK, Request
    <3>3. UNCHANGED <<outbox, queued>>
      BY <2>4 DEF Refuse
    <3>4. CASE /\ ~r.header /\ r.note.depth < MaxDepth
               /\ Post(Loop(a), Notice(a, r.note.from, r.note), TRUE, FALSE, r.waiter, pending \ {r})
      <4>1. /\ Notice(a, r.note.from, r.note) \in Note
            /\ Notice(a, r.note.from, r.note).depth = r.note.depth + 1
        BY <3>2, <3>4 DEF Notice, Note
      <4>2. Traced(Notice(a, r.note.from, r.note))
        BY <3>2, <3>4, <4>1 DEF Traced, Requeued, Tracing, Note
      <4>3. /\ pending \ {r} \in SUBSET pending /\ TRUE \in BOOLEAN /\ FALSE \in BOOLEAN
            /\ Loop(a) \in Threads /\ r.waiter \in Threads \cup {Nobody}
            /\ ~TRUE => Requeued(Notice(a, r.note.from, r.note))
            /\ FALSE => Requeued(Notice(a, r.note.from, r.note))
        BY <3>2, ThreadsOf
      <4>4. /\ \A q \in pending' : Traced(q.note)' /\ (~q.header => Requeued(q.note)')
            /\ \A w \in Threads : job'[w] # Nobody =>
                 Traced(job[w].note)' /\ (job'[w].item => Requeued(job[w].note)')
        BY <3>2, <3>3, <3>4, <4>1, <4>2, <4>3, PostTraced
      <4> QED  BY <3>3, <4>4 DEF Tracing, Traced, Requeued
    <3>5. CASE pending' = pending \ {r} /\ UNCHANGED job
      BY <3>3, <3>5 DEF Tracing, Traced, Requeued
    <3> QED  BY <3>1, <3>4, <3>5
  <2>5. ASSUME NEW t \in Threads, Timeout(t) PROVE Tracing'
    <3>1. \A w \in Threads : job'[w] # Nobody =>
             job[w] # Nobody /\ job'[w].note = job[w].note /\ job'[w].item = job[w].item
      <4>1. ASSUME NEW w \in Threads, job'[w] # Nobody
            PROVE  job[w] # Nobody /\ job'[w].note = job[w].note /\ job'[w].item = job[w].item
        <5>1. job'[w] = IF ~Idle(w) /\ job[w].asker = t THEN [job[w] EXCEPT !.asker = Nobody]
                        ELSE job[w]
          BY <2>5 DEF Timeout, GiveUp
        <5>2. CASE Idle(w)
          BY <4>1, <5>1, <5>2 DEF Idle
        <5>3. CASE ~Idle(w)
          BY <5>1, <5>3, JobTyped DEF Idle, Job
        <5> QED  BY <5>2, <5>3
      <4> QED  BY <4>1
    <3>2. pending' \subseteq pending /\ UNCHANGED <<outbox, queued>>
      BY <2>5 DEF Timeout, GiveUp
    <3> QED  BY <3>1, <3>2 DEF Tracing, Traced, Requeued
  <2>6. ASSUME NEW t \in Threads, Delivered(t) PROVE Tracing'
    <3>1. UNCHANGED queued /\ outbox' \subseteq outbox
      BY <2>6 DEF Delivered
    <3> QED  BY <2>6, <3>1, RestTraced DEF Delivered, Tracing, Traced, Requeued
  <2>7. ASSUME NEW t \in Threads, FailedLive(t) PROVE Tracing'
    <3>1. job[t] \in Job /\ job[t].note \in Note /\ Traced(job[t].note)
      BY <2>7, JobTyped DEF FailedLive, Job, Tracing, Idle
    <3>2. CASE Queue(job[t].note) /\ Rest(t)
      <4>1. /\ queued \subseteq queued' /\ outbox' = outbox \cup {job[t].note}
            /\ job[t].note.depth > 0 => job[t].note.depth \in queued'
        BY <3>2 DEF Queue
      <4>2. \A n \in outbox' : Traced(n)' /\ Requeued(n)'
        BY <3>1, <4>1 DEF Tracing, Traced, Requeued
      <4> QED  BY <3>2, <4>1, <4>2, RestTraced DEF Tracing, Traced, Requeued
    <3>3. CASE job[t].note.depth = 0 /\ Report(t, job[t].note) /\ UNCHANGED <<outbox, queued>>
      BY <3>1, <3>3, ReportTraced DEF Tracing, Traced, Requeued
    <3>4. CASE Rest(t) /\ UNCHANGED <<outbox, queued>>
      BY <3>4, RestTraced DEF Tracing, Traced, Requeued
    <3> QED  BY <2>7, <3>2, <3>3, <3>4 DEF FailedLive
  <2>8. ASSUME NEW t \in Threads, Reschedule(t) PROVE Tracing'
    <3>1. Traced(job[t].note) /\ Requeued(job[t].note)
      BY <2>8 DEF Reschedule, Tracing, Idle
    <3>2. UNCHANGED queued /\ outbox' = outbox \cup {job[t].note}
      BY <2>8 DEF Reschedule
    <3>3. \A n \in outbox' : Traced(n)' /\ Requeued(n)'
      BY <3>1, <3>2 DEF Tracing, Traced, Requeued
    <3> QED  BY <2>8, <3>2, <3>3, RestTraced DEF Reschedule, Tracing, Traced, Requeued
  <2>9. ASSUME NEW t \in Threads, DeadLetter(t) PROVE Tracing'
    <3>1. UNCHANGED queued /\ outbox' \subseteq outbox
      BY <2>9 DEF DeadLetter
    <3>2. job[t].note \in Note
      BY <2>9, JobTyped DEF DeadLetter, Job
    <3>3. CASE job[t].note.depth = 0 /\ Report(t, job[t].note)
      BY <3>1, <3>2, <3>3, ReportTraced DEF Tracing, Traced, Requeued
    <3>4. CASE Rest(t)
      BY <3>1, <3>4, RestTraced DEF Tracing, Traced, Requeued
    <3> QED  BY <2>9, <3>3, <3>4 DEF DeadLetter
  <2>10. ASSUME NEW a \in Agents, DropClosedRef(a) PROVE Tracing'
    BY <2>10 DEF DropClosedRef, Tracing, Traced, Requeued
  <2> QED
    BY <2>1, <2>2, <2>3, <2>4, <2>5, <2>6, <2>7, <2>8, <2>9, <2>10 DEF Next, Proceed
<1>3. Tracing => NoticesOfQueued
  BY DEF Tracing, Traced, NoticesOfQueued, Notes, Idle
<1> QED  BY <1>1, <1>2, <1>3, Typing, PTL DEF Spec
-----------------------------------------------------------------------------
\* What a loop posts has the header, so that nobody it reaches owes it an
\* answer: those who are owed one are workers, and loops owe it.
Marked ==
    /\ \A r \in pending : r.waiter[2] = "loop" => r.header
    /\ \A r \in pending : r.waiter[2] \in {"loop", "worker"}
    /\ RefusalsDoNotChain

\* A worker, or a loop with the header, may post for nobody.
LEMMA PostMarked ==
    ASSUME TypeOK, Marked, NEW t \in Threads, NEW note, NEW header, NEW item,
           NEW asker \in Threads \cup {Nobody}, NEW others \in SUBSET pending,
           t[2] = "loop" => header,
           asker # Nobody => t[2] = "loop" /\ asker[2] = "worker",
           Post(t, note, header, item, asker, others)
    PROVE  Marked'
<1> DEFINE mine == [note |-> note, header |-> header, item |-> item, asker |-> asker]
           new == [note |-> note, header |-> header, waiter |-> t]
<1>1. /\ job' = [job EXCEPT ![t] = mine] /\ pending' = others \cup {new}
      /\ mine.asker = asker
  BY DEF Post
<1>2. new.waiter = t /\ new.header = header /\ t[2] \in {"loop", "worker"}
  BY DEF Threads
<1> HIDE DEF mine, new
<1>3. \A w \in Threads : job'[w] = IF w = t THEN mine ELSE job[w]
  BY <1>1 DEF TypeOK
<1>4. RefusalsDoNotChain'
  BY <1>1, <1>3 DEF Marked, RefusalsDoNotChain, Owes, Idle
<1>5. \A r \in pending' : r \in pending \/ r = new
  BY <1>1
<1>6. \A r \in pending' : r.waiter[2] = "loop" => r.header
  BY <1>2, <1>5 DEF Marked
<1>7. \A r \in pending' : r.waiter[2] \in {"loop", "worker"}
  BY <1>2, <1>5 DEF Marked
<1> QED  BY <1>4, <1>6, <1>7 DEF Marked

\* Threads that end a delivery, or are let go, owe nobody; nor do others more.
LEMMA LeavesMarked ==
    ASSUME TypeOK, Marked, pending' \subseteq pending,
           \A w \in Threads : ~Idle(w)' /\ job'[w].asker # Nobody
                             => ~Idle(w) /\ job'[w].asker = job[w].asker
    PROVE  Marked'
BY DEF Marked, RefusalsDoNotChain, Owes

LEMMA RestMarked ==
    ASSUME TypeOK, Marked, NEW t \in Threads, Rest(t)
    PROVE  Marked'
<1>1. \A w \in Threads : job'[w] = IF w = t THEN Nobody ELSE job[w]
  BY DEF Rest, TypeOK
<1>2. UNCHANGED pending
  BY DEF Rest
<1>3. \A w \in Threads : ~Idle(w)' /\ job'[w].asker # Nobody
                        => ~Idle(w) /\ job'[w].asker = job[w].asker
  BY <1>1 DEF Idle
<1> QED  BY <1>2, <1>3, LeavesMarked

\* A worker, or a loop, reports with the header.
LEMMA ReportMarked ==
    ASSUME TypeOK, Marked, NEW t \in Threads, NEW about, Report(t, about)
    PROVE  Marked'
<1>1. CASE Post(t, Notice(about.from, Told(about), about), TRUE, FALSE, Nobody, pending)
  <2>1. pending \in SUBSET pending /\ Nobody \in Threads \cup {Nobody}
    OBVIOUS
  <2> QED  BY <1>1, <2>1, PostMarked
<1>2. CASE job' = [job EXCEPT ![t] = Nobody] /\ UNCHANGED pending
  <2>1. \A w \in Threads : job'[w] = IF w = t THEN Nobody ELSE job[w]
    BY <1>2 DEF TypeOK
  <2>2. \A w \in Threads : ~Idle(w)' /\ job'[w].asker # Nobody
                          => ~Idle(w) /\ job'[w].asker = job[w].asker
    BY <2>1 DEF Idle
  <2> QED  BY <1>2, <2>2, LeavesMarked
<1> QED  BY <1>1, <1>2 DEF Report

\* However many gateways notify each other or themselves, none keeps a loop
\* waiting while it delivers a notice of its own.
THEOREM NoRefusalChains == Spec => []RefusalsDoNotChain
<1>1. Init => Marked
  BY DEF Init, Marked, RefusalsDoNotChain, Owes, Idle
<1>2. ASSUME TypeOK, Marked, [Next]_vars
      PROVE  Marked'
  <2> USE <1>2
  <2> SUFFICES ASSUME Next PROVE Marked'
    BY DEF Marked, RefusalsDoNotChain, Owes, Idle, vars
  <2>0. pending \in SUBSET pending /\ Nobody \in Threads \cup {Nobody}
    OBVIOUS
  <2>1. ASSUME NEW a \in Agents, NEW b \in Agents, Send(a, b) PROVE Marked'
    <3>1. Worker(a) \in Threads /\ Worker(a)[2] # "loop"
      BY ThreadsOf
    <3>2. CASE Post(Worker(a), Message(<<a, b>>), FALSE, FALSE, Nobody, pending)
      BY <2>0, <3>1, <3>2, PostMarked
    <3>3. CASE Report(Worker(a), Message(<<a, b>>))
      BY <3>1, <3>3, ReportMarked
    <3> QED  BY <2>1, <3>2, <3>3 DEF Send
  <2>2. ASSUME NEW a \in Agents, Sweep(a) PROVE Marked'
    <3>1. Worker(a) \in Threads /\ Worker(a)[2] # "loop"
      BY ThreadsOf
    <3>2. PICK note \in outbox : Post(Worker(a), note, FALSE, TRUE, Nobody, pending)
      BY <2>2 DEF Sweep
    <3> QED  BY <2>0, <3>1, <3>2, PostMarked
  <2>3. ASSUME NEW a \in Agents, Accept(a) \/ DropClosedRef(a) PROVE Marked'
    <3>1. pending' \subseteq pending /\ UNCHANGED job
      BY <2>3 DEF Accept, DropClosedRef
    <3> QED  BY <3>1, LeavesMarked DEF Idle
  <2>4. ASSUME NEW a \in Agents, Refuse(a) PROVE Marked'
    <3>1. PICK r \in pending :
         \/ /\ ~r.header
            /\ Post(Loop(a), Notice(a, r.note.from, r.note), TRUE, FALSE, r.waiter, pending \ {r})
         \/ pending' = pending \ {r} /\ UNCHANGED job
      BY <2>4 DEF Refuse
    <3>2. CASE /\ ~r.header
               /\ Post(Loop(a), Notice(a, r.note.from, r.note), TRUE, FALSE, r.waiter, pending \ {r})
      <4>1. r.waiter \in Threads \cup {Nobody} /\ r.waiter[2] = "worker"
        BY <3>2 DEF TypeOK, Request, Marked
      <4>2. Loop(a) \in Threads /\ Loop(a)[2] = "loop" /\ pending \ {r} \in SUBSET pending
        BY ThreadsOf
      <4> QED  BY <3>2, <4>1, <4>2, PostMarked
    <3>3. CASE pending' = pending \ {r} /\ UNCHANGED job
      BY <3>3, LeavesMarked DEF Idle
    <3> QED  BY <3>1, <3>2, <3>3
  <2>5. ASSUME NEW t \in Threads, Timeout(t) PROVE Marked'
    <3>1. pending' \subseteq pending
      BY <2>5 DEF Timeout, GiveUp
    <3>2. \A w \in Threads : ~Idle(w)' /\ job'[w].asker # Nobody
                            => ~Idle(w) /\ job'[w].asker = job[w].asker
      <4> SUFFICES ASSUME NEW w \in Threads, ~Idle(w)', job'[w].asker # Nobody
                   PROVE  ~Idle(w) /\ job'[w].asker = job[w].asker
        OBVIOUS
      <4>1. job'[w] = IF ~Idle(w) /\ job[w].asker = t THEN [job[w] EXCEPT !.asker = Nobody]
                      ELSE job[w]
        BY <2>5 DEF Timeout, GiveUp
      <4>2. CASE Idle(w)
        BY <4>1, <4>2 DEF Idle
      <4>3. CASE ~Idle(w)
        BY <4>1, <4>3, JobTyped DEF Job
      <4> QED  BY <4>2, <4>3
    <3> QED  BY <3>1, <3>2, LeavesMarked
  <2>6. ASSUME NEW t \in Threads,
               Delivered(t) \/ FailedLive(t) \/ Reschedule(t) \/ DeadLetter(t)
        PROVE  Marked'
    BY <2>6, RestMarked, ReportMarked DEF Delivered, FailedLive, Reschedule, DeadLetter
  <2> QED
    BY <2>1, <2>2, <2>3, <2>4, <2>5, <2>6 DEF Next, Proceed
<1>3. Marked => RefusalsDoNotChain
  BY DEF Marked
<1> QED  BY <1>1, <1>2, <1>3, Typing, PTL DEF Spec
=============================================================================
