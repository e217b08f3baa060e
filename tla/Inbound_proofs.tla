--------------------------- MODULE Inbound_proofs ---------------------------
(***************************************************************************)
(* Proofs about the replay window: for any messages, any number of         *)
(* concurrent requests, any window size and any clock error.               *)
(***************************************************************************)
EXTENDS Inbound, FiniteSetTheorems, TLAPS

\* Entries with different ordinals between two bounds are not many.
LEMMA FewLater ==
    ASSUME NEW E, NEW m \in Nat, NEW n \in Nat, m <= n,
           \A s \in E : s.nth \in Nat /\ m < s.nth /\ s.nth <= n,
           \A s, t \in E : s.nth = t.nth => s = t
    PROVE  Cardinality(E) <= n - m
<1> DEFINE T == (m + 1) .. n
           f == [s \in E |-> s.nth]
<1>1. f \in [E -> T]
  OBVIOUS
<1>2. f \in Injection(E, T)
  BY <1>1 DEF Injection, IsInjective
<1>3. IsFiniteSet(T) /\ Cardinality(T) = n - m
  <2>1. m + 1 \in Int /\ n \in Int
    OBVIOUS
  <2>2. IsFiniteSet((m + 1) .. n)
        /\ Cardinality((m + 1) .. n) = IF m + 1 > n THEN 0 ELSE n - (m + 1) + 1
    BY <2>1, FS_Interval, ZenonT(30)
  <2> QED
    BY <2>2
<1> HIDE DEF f, T
<1> QED
  BY <1>2, <1>3, FS_Injection

LEMMA InitTyped == Init => TypeOK
<1> SUFFICES ASSUME Init PROVE TypeOK
  OBVIOUS
<1>1. entry \in [Ids -> Entry \cup {None}] /\ inbox \in Seq({"message", "stop"})
  BY DEF Init
<1>2. Len(inbox) <= InboxSize
  BY InboundAssumption DEF Init
<1>3. seen \subseteq Seen /\ handling \subseteq Request
  BY DEF Init
<1>4. /\ now \in 0 .. Horizon /\ accepted \in Nat
      /\ processor = "get" /\ mode = "up" /\ waited = FALSE /\ clean = TRUE
      /\ stops \in 0 .. MaxStops
  BY InboundAssumption DEF Init
<1> QED
  BY <1>1, <1>2, <1>3, <1>4 DEF TypeOK

LEMMA InsertTyped ==
    ASSUME TypeOK, NEW r \in handling
    PROVE  Insert(r) \subseteq Seen
  BY InboundAssumption DEF Insert, Expired, TypeOK, Seen, Request

\* Every step keeps the state well-formed.
LEMMA StepTyped == TypeOK /\ [Next]_vars => TypeOK'
<1> SUFFICES ASSUME TypeOK, [Next]_vars PROVE TypeOK'
  OBVIOUS
<1> USE InboundAssumption DEF TypeOK, window, queue, adapter
<1>1. CASE Tick
  BY <1>1 DEF Tick
<1>2. ASSUME NEW i \in Ids, Receive(i) PROVE TypeOK'
  BY <1>2 DEF Receive, Request, Stamps
<1>3. ASSUME NEW r \in handling, Reject(r) \/ Duplicate(r) \/ Busy(r)
      PROVE  TypeOK'
  BY <1>3 DEF Reject, Duplicate, Busy, Answered
<1>4. ASSUME NEW r \in handling, Accept(r) PROVE TypeOK'
  <2>1. seen' \subseteq Seen
    BY <1>4, InsertTyped DEF Accept
  <2>2. r \in Request /\ r.id \in Ids /\ r.stamp \in Stamps
    BY DEF Request
  <2>3. [stamp |-> r.stamp, at |-> now, nth |-> accepted + 1] \in Entry
    BY <2>2 DEF Entry
  <2>4. entry' \in [Ids -> Entry \cup {None}]
    BY <1>4, <2>2, <2>3 DEF Accept
  <2>5. inbox' \in Seq({"message", "stop"}) /\ Len(inbox') <= InboxSize
    BY <1>4 DEF Accept
  <2> QED
    BY <1>4, <2>1, <2>4, <2>5 DEF Accept, Answered
<1>5. CASE Take
  BY <1>5 DEF Take
<1>6. CASE EndTurn \/ Resume \/ WaitedLongEnough
  BY <1>6 DEF EndTurn, Resume, WaitedLongEnough, TurnOver
<1>7. CASE Disconnect
  <2>1. Append(inbox, "stop") \in Seq({"message", "stop"})
        /\ Len(Append(inbox, "stop")) = Len(inbox) + 1 /\ Len(inbox) \in Nat
    OBVIOUS
  <2>2. inbox' \in Seq({"message", "stop"}) /\ Len(inbox') <= InboxSize
    BY <1>7, <2>1 DEF Disconnect
  <2>3. stops' \in 0 .. MaxStops
    BY <1>7 DEF Disconnect
  <2> QED
    BY <1>7, <2>2, <2>3 DEF Disconnect
<1>8. CASE ProcessorGone \/ Cleanup \/ Connect
  BY <1>8 DEF ProcessorGone, Cleanup, Connect
<1>9. CASE Restart
  <2>1. entry' \in [Ids -> Entry \cup {None}] /\ inbox' \in Seq({"message", "stop"})
    BY <1>9 DEF Restart
  <2>2. Len(inbox') <= InboxSize /\ seen' \subseteq Seen /\ handling' \subseteq Request
    BY <1>9 DEF Restart
  <2>3. /\ now' \in 0 .. Horizon /\ accepted' \in Nat /\ stops' \in 0 .. MaxStops
        /\ processor' = "get" /\ mode' = "up" /\ waited' = FALSE /\ clean' = TRUE
    BY <1>9 DEF Restart
  <2> QED
    BY <2>1, <2>2, <2>3
<1>10. CASE UNCHANGED vars
  BY <1>10 DEF vars
<1> QED
  BY <1>1, <1>2, <1>3, <1>4, <1>5, <1>6, <1>7, <1>8, <1>9, <1>10
     DEF Next, Process

\* The inbox never holds more than its size, whatever requests, stoppers and
\* restarts come together, and window and history stay well-formed.
THEOREM Typing == Spec => []TypeOK
<1> QED
  BY InitTyped, StepTyped, PTL DEF Spec
-----------------------------------------------------------------------------
\* What is in the window, seen from the history: ordinals are unique, and an
\* entry that is neither too old nor pushed out is still there.
Ordinals ==
    /\ \A s \in seen : s.nth \in 1 .. accepted /\ s.at <= now
    /\ \A s, t \in seen : s.nth = t.nth => s = t
    /\ \A i \in Ids : entry[i] # None =>
           entry[i].nth \in 1 .. accepted /\ entry[i].at <= now
Held(i) == [id |-> i, at |-> entry[i].at, nth |-> entry[i].nth]
Kept ==
    \A i \in Ids :
        entry[i] # None /\ now - entry[i].at <= TTL /\ ~Evicted(i)
        => Held(i) \in seen
Timely == \A r \in handling : r.at - r.stamp <= TTL /\ r.at <= now
IInv == Ordinals /\ Kept /\ Timely /\ SeenHasEntered

LEMMA InitIInv == Init => IInv
  BY DEF Init, IInv, Ordinals, Kept, Timely, SeenHasEntered

\* An insertion keeps the window and the history together.
LEMMA AcceptIInv ==
    ASSUME TypeOK, IInv, NEW r \in handling, Accept(r)
    PROVE  IInv'
<1> DEFINE new == [id |-> r.id, at |-> now, nth |-> accepted + 1]
           all == seen \cup {new}
           fresh == {s \in all : now - s.at <= TTL}
           later(s) == {t \in fresh : t.nth > s.nth}
<1> USE InboundAssumption DEF TypeOK, IInv
<1>1. /\ r.id \in Ids /\ r.id \notin SeenIds
      /\ accepted' = accepted + 1 /\ now' = now /\ now \in Nat /\ accepted \in Nat
      /\ seen' = {s \in fresh : Cardinality(later(s)) < Cap}
      /\ entry' = [entry EXCEPT ![r.id] =
                       [stamp |-> r.stamp, at |-> now, nth |-> accepted + 1]]
  BY DEF Accept, Insert, Expired, Request
<1>2. /\ \A s \in all : s.nth \in 1 .. accepted + 1 /\ s.at <= now /\ s.at \in Nat
      /\ \A s, t \in all : s.nth = t.nth => s = t
  BY <1>1 DEF Ordinals, Seen
<1>3. seen' \subseteq all
  BY <1>1
<1>4. entry'[r.id] = [stamp |-> r.stamp, at |-> now, nth |-> accepted + 1]
      /\ \A i \in Ids \ {r.id} : entry'[i] = entry[i]
  BY <1>1
<1>5. Ordinals'
  <2>1. \A s \in seen' : s.nth \in 1 .. accepted' /\ s.at <= now'
    BY <1>1, <1>2, <1>3
  <2>2. \A s, t \in seen' : s.nth = t.nth => s = t
    BY <1>2, <1>3
  <2>3. \A i \in Ids : entry'[i] # None =>
            entry'[i].nth \in 1 .. accepted' /\ entry'[i].at <= now'
    BY <1>1, <1>4 DEF Ordinals
  <2> QED
    BY <2>1, <2>2, <2>3 DEF Ordinals
<1>6. Kept'
  <2> SUFFICES ASSUME NEW i \in Ids, entry'[i] # None,
                      now' - entry'[i].at <= TTL,
                      ~(accepted' - entry'[i].nth >= Cap)
               PROVE  Held(i)' \in seen'
    BY DEF Kept, Evicted
  <2>1. Held(i)' \in fresh
    <3>1. CASE i = r.id
      BY <1>1, <1>4, <3>1 DEF Held
    <3>2. CASE i # r.id
      <4>1. entry[i] # None /\ entry'[i] = entry[i] /\ entry[i] \in Entry
        BY <1>4, <3>2
      <4>2. Held(i) \in seen
        BY <1>1, <4>1 DEF Kept, Evicted, Entry
      <4> QED
        BY <1>1, <4>1, <4>2 DEF Held
    <3> QED
      BY <3>1, <3>2
  <2>2. /\ Held(i)'.nth = entry'[i].nth
        /\ entry'[i].nth \in Nat /\ entry'[i].nth <= accepted + 1
    BY <1>1, <1>5 DEF Held, Ordinals
  <2> DEFINE E == later(Held(i)')
  <2>3. \A s \in E : s.nth \in Nat /\ entry'[i].nth < s.nth /\ s.nth <= accepted + 1
    BY <1>2, <2>2
  <2>4. \A s, t \in E : s.nth = t.nth => s = t
    BY <1>2
  <2> DEFINE m == entry'[i].nth
             n == accepted + 1
  <2> HIDE DEF E
  <2>5. entry'[i].nth <= accepted + 1 /\ accepted + 1 \in Nat /\ entry'[i].nth \in Nat
    BY <1>1, <2>2
  <2>8. Cardinality(E) <= n - m
    <3>1. m <= n /\ m \in Nat /\ n \in Nat
      BY <2>5
    <3>2. \A s \in E : s.nth \in Nat /\ m < s.nth /\ s.nth <= n
      BY <2>3
    <3> HIDE DEF m, n
    <3> QED
      BY <2>4, <3>1, <3>2, FewLater
  <2>6. Cardinality(E) \in Nat
    <3> DEFINE f == [s \in E |-> s.nth]
    <3>1. f \in [E -> 1 .. accepted + 1]
      BY <2>2, <2>3
    <3>2. f \in Injection(E, 1 .. accepted + 1)
      BY <3>1, <2>4 DEF Injection, IsInjective
    <3>3. IsFiniteSet(1 .. accepted + 1)
      BY <2>5, FS_Interval
    <3> HIDE DEF f
    <3> QED
      BY <3>2, <3>3, FS_Injection, FS_CardinalityType
  <2>7. Cardinality(E) < Cap
    BY <1>1, <2>5, <2>6, <2>8
  <2> QED
    BY <1>1, <2>1, <2>7 DEF E
<1>7. Timely'
  BY <1>1 DEF Accept, Answered, Timely
<1>8. SeenHasEntered'
  <2> SUFFICES ASSUME NEW s \in seen'
               PROVE  entry'[s.id] # None /\ entry'[s.id].nth = s.nth
    BY DEF SeenHasEntered
  <2>1. CASE s \in seen
    <3>1. s.id \in Ids \ {r.id}
      BY <1>1, <2>1 DEF SeenIds, Seen
    <3> QED
      BY <1>4, <2>1, <3>1 DEF SeenHasEntered
  <2>2. CASE s = new
    BY <1>4, <2>2 DEF None
  <2> QED
    BY <1>3, <2>1, <2>2
<1> QED
  BY <1>5, <1>6, <1>7, <1>8

LEMMA StepIInv == TypeOK /\ IInv /\ [Next]_vars => IInv'
<1> SUFFICES ASSUME TypeOK, IInv, [Next]_vars PROVE IInv'
  OBVIOUS
<1> USE InboundAssumption DEF IInv, window, queue, adapter
<1>1. CASE Tick
  <2>1. now' = now + 1 /\ now \in Nat /\ UNCHANGED <<handling, seen, accepted, entry>>
    BY <1>1 DEF Tick, TypeOK
  <2>2. Kept'
    <3> SUFFICES ASSUME NEW i \in Ids, entry'[i] # None,
                        now' - entry'[i].at <= TTL,
                        ~(accepted' - entry'[i].nth >= Cap)
                 PROVE  Held(i)' \in seen'
      BY DEF Kept, Evicted
    <3>1. entry[i] # None /\ entry[i] \in Entry /\ entry[i].at \in Nat
      BY <2>1 DEF TypeOK, Entry
    <3>2. Held(i) \in seen
      BY <2>1, <3>1, InboundAssumption DEF Kept, Evicted
    <3> QED
      BY <2>1, <3>2 DEF Held
  <2>3. Ordinals' /\ SeenHasEntered'
    BY <2>1 DEF Ordinals, SeenHasEntered, TypeOK, Seen, Entry
  <2>4. Timely'
    BY <2>1 DEF Timely, TypeOK, Request
  <2> QED
    BY <2>2, <2>3, <2>4
<1>2. ASSUME NEW i \in Ids, Receive(i) PROVE IInv'
  <2>1. UNCHANGED <<now, seen, accepted, entry>> /\ now \in Nat
    BY <1>2 DEF Receive, TypeOK
  <2>2. Timely'
    BY <1>2, <2>1 DEF Receive, Timely, WithinWindow
  <2> QED
    BY <2>1, <2>2 DEF Ordinals, Kept, Evicted, Held, SeenHasEntered
<1>3. ASSUME NEW r \in handling, Reject(r) \/ Duplicate(r) \/ Busy(r)
      PROVE  IInv'
  <2>1. UNCHANGED <<now, seen, accepted, entry>> /\ handling' \subseteq handling
    BY <1>3 DEF Reject, Duplicate, Busy, Answered
  <2> QED
    BY <2>1 DEF Ordinals, Kept, Evicted, Held, SeenHasEntered, Timely
<1>4. ASSUME NEW r \in handling, Accept(r) PROVE IInv'
  BY <1>4, AcceptIInv
<1>5. CASE Restart
  BY <1>5 DEF Restart, Ordinals, Kept, Timely, SeenHasEntered, TypeOK
<1>6. CASE \/ Process \/ Disconnect \/ WaitedLongEnough \/ ProcessorGone
           \/ Cleanup \/ Connect \/ UNCHANGED vars
  <2>1. UNCHANGED <<now, seen, accepted, entry>> /\ handling' \subseteq handling
    BY <1>6 DEF Process, Take, EndTurn, Resume, Disconnect, WaitedLongEnough,
       ProcessorGone, Cleanup, Connect, vars
  <2> QED
    BY <2>1 DEF Ordinals, Kept, Evicted, Held, SeenHasEntered, Timely
<1> QED
  BY <1>1, <1>2, <1>3, <1>4, <1>5, <1>6 DEF Next

LEMMA Inductive == Spec => [](TypeOK /\ IInv)
<1> QED
  BY InitTyped, StepTyped, InitIInv, StepIInv, PTL DEF Spec

\* Only a message that entered the inbox is ever answered as a duplicate.
THEOREM DuplicatesEntered == Spec => []SeenHasEntered
<1>1. IInv => SeenHasEntered
  BY DEF IInv
<1> QED
  BY <1>1, Inductive, PTL

\* A step that lets an id in again: its window entry is gone, so it was old or
\* pushed out.
LEMMA ReentryStep ==
    ASSUME TypeOK, IInv, [Next]_vars, NEW i \in Ids, Reenters(i)
    PROVE  now - entry[i].at > TTL \/ Evicted(i)
<1>1. PICK r \in handling : Accept(r) /\ r.id = i
  <2>1. \A r \in handling : Accept(r) => r.id = i
    BY DEF Accept, Reenters, TypeOK, Request
  <2>2. ~Restart
    BY DEF Restart, Reenters
  <2>3. entry' # entry
    BY DEF Reenters
  <2> QED
    BY <2>1, <2>2, <2>3 DEF Next, Process, Tick, Receive, Reject, Duplicate, Busy,
       Take, EndTurn, Resume, Disconnect, WaitedLongEnough, ProcessorGone,
       Cleanup, Connect, vars, window
<1>2. Held(i) \notin seen
  BY <1>1 DEF Accept, SeenIds, Held
<1>3. entry[i] # None /\ entry[i] \in Entry /\ now \in Nat /\ TTL \in Nat
  BY InboundAssumption DEF Reenters, TypeOK
<1> QED
  BY <1>2, <1>3 DEF IInv, Kept, Entry

\* No message enters the inbox again within its window, whatever its copies,
\* retries and verification times, unless Cap others came after it.
THEOREM RemembersIds == Spec => Remembered
<1>1. TypeOK /\ IInv /\ [Next]_vars =>
      [\A i \in Ids : Reenters(i) =>
           now - entry[i].at > TTL \/ Evicted(i)]_vars
  BY ReentryStep
<1> QED
  BY <1>1, Inductive, PTL DEF Spec, Remembered

\* A request with the same stamp is taken twice only if the second copy's wait for
\* its signature was longer than the stamp was old when the first was taken.
THEOREM ReplaysNeedWaits == Spec => ReplayNeedsAWait
<1>1. TypeOK /\ IInv /\ [Next]_vars =>
      [\A r \in handling :
           LET first == entry[r.id]
           IN  /\ Reenters(r.id) /\ ~Evicted(r.id)
               /\ first.stamp = r.stamp /\ entry'[r.id].stamp = r.stamp
               => first.at - first.stamp < now - r.at]_vars
  <2> SUFFICES ASSUME TypeOK, IInv, [Next]_vars, NEW r \in handling,
                      Reenters(r.id), ~Evicted(r.id), entry[r.id].stamp = r.stamp
               PROVE  entry[r.id].at - entry[r.id].stamp < now - r.at
    OBVIOUS
  <2>1. r.id \in Ids /\ r.at \in Nat /\ r.stamp \in Int /\ now \in Nat
    BY InboundAssumption DEF TypeOK, Request, Stamps
  <2>2. now - entry[r.id].at > TTL
    BY <2>1, ReentryStep
  <2>3. r.at - r.stamp <= TTL
    BY DEF IInv, Timely
  <2>4. entry[r.id].at \in Nat /\ TTL \in Nat
    BY <2>1, InboundAssumption DEF TypeOK, Entry, Reenters
  <2> QED
    BY <2>1, <2>2, <2>3, <2>4
<1> QED
  BY <1>1, Inductive, PTL DEF Spec, ReplayNeedsAWait
=============================================================================
