--------------------------- MODULE LeaseGate_steps ---------------------------
(***************************************************************************)
(* Proofs of what single steps of LeaseGate may do: who releases a lease,  *)
(* when a claim is refused, and that the registry implements the doors.    *)
(* All three rest on one fact about stale clocks: they lie in the past, so *)
(* a row that is live now was live when the claim read its clock.          *)
(***************************************************************************)
EXTENDS LeaseGate_proofs

ClocksArePast ==
    \A c \in Calls : pc[c] \in {"claim", "touch"} => call[c].now <= clock

LEMMA ClocksStayPast == TypeOK /\ ClocksArePast /\ [Next]_vars => ClocksArePast'
<1> SUFFICES ASSUME TypeOK, ClocksArePast, [Next]_vars PROVE ClocksArePast'
  OBVIOUS
<1> USE DEF TypeOK, ClocksArePast
<1>1. CASE UNCHANGED vars
  BY <1>1 DEF vars
<1>2. CASE Tick
  <2>1. \A c \in Calls : pc[c] \in {"claim", "touch"} => call[c].now \in Nat
    BY DEF Working, Call
  <2> QED
    BY <1>2, <2>1 DEF Tick
<1>3. CASE Corrupt
  BY <1>3 DEF Corrupt
<1>4. ASSUME NEW c \in Calls, Step(c) PROVE ClocksArePast'
  <2>1. CASE Ask(c)
    BY <2>1 DEF Ask, AskCall, Goto
  <2>2. CASE Delivered(c)
    <3>1. pc[c] = "send" /\ clock' = clock
      BY <2>2 DEF Delivered
    <3>2. CASE pc'[c] = "touch"
      BY <2>2, <3>1, <3>2 DEF Delivered, Goto, Return, Call, Working
    <3>3. CASE pc'[c] # "touch"
      BY <2>2, <3>1, <3>3 DEF Delivered, Goto, Return
    <3> QED
      BY <3>2, <3>3
  <2>3. CASE AskInThread(c) \/ AskDamaged(c) \/ End(c)
    BY <2>3 DEF AskInThread, AskDamaged, End, Goto
  <2>4. CASE ClaimTraffic(c) \/ ClaimBusy(c) \/ ClaimCapped(c) \/ ClaimNew(c)
    BY <2>4
    DEF ClaimTraffic, ClaimBusy, ClaimCapped, ClaimNew, Admit, Return, Goto
  <2>5. CASE EarlyReturn(c) \/ NotDelivered(c) \/ Rollback(c) \/ Touch(c)
    BY <2>5 DEF EarlyReturn, NotDelivered, Rollback, Touch, Return, Goto
  <2>6. CASE Release(c) \/ Degrade(c) \/ Crash(c)
    BY <2>6 DEF Release, Degrade, Crash, Return, Goto
  <2>7. CASE MoveAside(c)
    <3>1. call[c] \in Call /\ clock \in Nat
      BY <2>7 DEF MoveAside, Working
    <3>2. call'[c].now = clock /\ clock' = clock
      BY <2>7, <3>1 DEF MoveAside, Call
    <3> QED
      BY <2>7, <3>1, <3>2 DEF MoveAside, Goto
  <2> QED
    BY <1>4, <2>1, <2>2, <2>3, <2>4, <2>5, <2>6, <2>7 DEF Step
<1> QED
  BY <1>1, <1>2, <1>3, <1>4 DEF Next

LEMMA PastClocks == Spec => [](TypeOK /\ ClocksArePast)
<1>1. Init => ClocksArePast
  BY DEF Init, ClocksArePast
<1> QED
  BY <1>1, ClocksStayPast, Typing, PTL DEF Spec

\* A claim sees every row that is live at the moment it has the lock.
LEMMA ClaimSeesLive ==
  ASSUME TypeOK, ClocksArePast, NEW c \in Calls, pc[c] = "claim",
         NEW r \in registry, Live(r, clock)
  PROVE  r \in ClaimRows(c)
<1>1. call[c].now \in Nat /\ call[c].now <= clock /\ clock \in Nat
  BY DEF TypeOK, ClocksArePast, Working, Call
<1>2. r.lease_until \in Nat
  BY DEF TypeOK, Lease
<1> QED
  BY <1>1, <1>2 DEF ClaimRows, LiveRows, Live
-----------------------------------------------------------------------------
\* A lease that has not expired disappears from a readable file only by a
\* release or a rollback of one of its parties, for every way ids are reused
\* (open_threads.py:244-249), or because a call that had read a corrupt file
\* without the lock moves this one aside (open_threads.py:87-93, 479).
THEOREM PartiesRelease == Spec => OnlyPartiesRelease
<1> DEFINE Gone(r) == /\ Live(r, clock) /\ readable'
                      /\ ~\E s \in registry' : SameThread(r, s)
           Moved == \E c \in Calls : pc[c] = "aside" /\ pc'[c] = "claim"
           ByParty(r) == \E c \in Calls : /\ pc[c] \in {"rollback", "release"}
                                          /\ <<pc[c], call[c]>>' # <<pc[c], call[c]>>
                                          /\ call[c].from \in Parties(r)
<1>1. TypeOK /\ ClocksArePast /\ [Next]_vars =>
        [\A r \in registry :
          Live(r, clock) /\ readable' /\ ~(\E s \in registry' : SameThread(r, s))
          => \/ \E c \in Calls : pc[c] = "aside" /\ pc'[c] = "claim"
             \/ \E c \in Calls : /\ pc[c] \in {"rollback", "release"}
                                 /\ <<pc[c], call[c]>>' # <<pc[c], call[c]>>
                                 /\ call[c].from \in Parties(r)]_vars
  <2> SUFFICES ASSUME TypeOK, ClocksArePast, [Next]_vars,
                      NEW r \in registry, Gone(r)
               PROVE  Moved \/ ByParty(r)
    OBVIOUS
  <2>1. r \notin registry'
    BY DEF SameThread
  <2>2. Next
    BY <2>1 DEF vars
  <2>3. ~Tick /\ ~Corrupt
    BY <2>1 DEF Tick, Corrupt
  <2>4. PICK c \in Calls : Step(c)
    BY <2>2, <2>3 DEF Next
  <2>5. CASE ClaimNew(c)
    <3>1. r \in ClaimRows(c)
      BY <2>5, ClaimSeesLive DEF ClaimNew
    <3> QED
      BY <2>1, <2>5, <3>1 DEF ClaimNew, WriteRows
  <2>6. CASE Touch(c)
    <3>1. PICK rec \in registry :
            registry' = (registry \ {rec}) \cup {Touched(rec, call[c].now)}
      BY <2>1, <2>6 DEF Touch, WriteRows
    <3>2. r = rec
      BY <2>1, <3>1
    <3>3. SameThread(rec, Touched(rec, call[c].now))
      BY DEF SameThread, Touched, Parties, TypeOK, Lease
    <3> QED
      BY <3>1, <3>2, <3>3
  <2>7. CASE Rollback(c)
    <3>1. pc[c] = "rollback" /\ pc' = [pc EXCEPT ![c] = "failed"]
          /\ registry' = ReleaseIfParty(registry, call[c].id, call[c].from)
      BY <2>7 DEF Rollback, WriteRows, Return, Goto
    <3>2. pc'[c] # pc[c]
      BY <3>1 DEF TypeOK
    <3> QED
      BY <2>1, <3>1, <3>2 DEF ReleaseIfParty
  <2>8. CASE Release(c)
    <3>1. pc[c] = "release" /\ call[c] \in Call
      BY <2>8 DEF Release, TypeOK, Working
    <3>2. registry' = ReleaseIfParty(registry, Head(call[c].probes), call[c].from)
      BY <2>8 DEF Release, WriteRows
    <3>3. <<pc[c], call[c]>>' # <<pc[c], call[c]>>
      <4>1. CASE Len(call[c].probes) > 1
        <5>1. call'[c].probes = Tail(call[c].probes)
          BY <2>8, <3>1, <4>1 DEF Release, TypeOK, Call
        <5>2. Len(Tail(call[c].probes)) # Len(call[c].probes)
          BY <3>1, <4>1 DEF Call
        <5> QED
          BY <5>1, <5>2
      <4>2. CASE ~(Len(call[c].probes) > 1)
        BY <2>8, <3>1, <4>2 DEF Release, Return, Goto, TypeOK
      <4> QED
        BY <4>1, <4>2
    <3> QED
      BY <2>1, <3>1, <3>2, <3>3 DEF ReleaseIfParty
  <2>9. CASE MoveAside(c)
    BY <2>9 DEF MoveAside, Goto, TypeOK
  <2>10. CASE ~(\/ ClaimNew(c) \/ Touch(c) \/ Rollback(c) \/ Release(c)
               \/ MoveAside(c))
    <3>1. registry' = registry
      BY <2>4, <2>10 DEF Step, AskInThread, Ask, AskDamaged, End, ClaimTraffic,
         ClaimBusy, ClaimCapped, EarlyReturn, Delivered, NotDelivered, Degrade,
         Crash
    <3> QED
      BY <2>1, <3>1
  <2> QED
    BY <2>5, <2>6, <2>7, <2>8, <2>9, <2>10
<1> QED
  BY <1>1, PastClocks, PTL DEF Spec, OnlyPartiesRelease
-----------------------------------------------------------------------------
\* A claim is refused only from outside every live thread of its pair, and as
\* busy only on account of a third party that reaches the recipient
\* (open_threads.py:416-432).
THEOREM RefusalsJustified == Spec => RefusalsAreJustified
<1> DEFINE Refused(c) == pc[c] = "claim" /\ pc'[c] \in {"busy", "capped"}
           Justified(c) ==
             /\ \A r \in registry :
                   Live(r, clock) => Parties(r) # {call[c].from, call[c].to}
             /\ pc'[c] = "busy" =>
                   \E r \in registry : /\ r.peer = call[c].to
                                       /\ r.opened_by # call[c].from
           Just == \A c \in Calls : Refused(c) => Justified(c)
<1>1. TypeOK /\ ClocksArePast /\ [Next]_vars => [Just]_vars
  <2> SUFFICES ASSUME TypeOK, ClocksArePast, [Next]_vars,
                      NEW c \in Calls, Refused(c)
               PROVE  Justified(c)
    OBVIOUS
  <2>1. ClaimBusy(c) \/ (ClaimCapped(c) /\ pc'[c] = "capped")
    <3>1. pc' # pc
      BY DEF TypeOK
    <3>2. PICK d \in Calls : Step(d)
      BY <3>1 DEF Next, Tick, Corrupt, vars
    <3>3. d = c
      BY <3>2 DEF TypeOK, Step, AskInThread, Ask, AskDamaged, MoveAside, End, ClaimTraffic, ClaimBusy,
         ClaimCapped, ClaimNew, Admit, EarlyReturn, Delivered, NotDelivered,
         Rollback, Touch, Release, Degrade, Crash, Return, Goto
    <3>4. ClaimTraffic(c) \/ ClaimBusy(c) \/ ClaimCapped(c) \/ ClaimNew(c)
          \/ Degrade(c) \/ Crash(c)
      BY <3>2, <3>3 DEF Step, AskInThread, Ask, AskDamaged, MoveAside, End, EarlyReturn, Delivered,
         NotDelivered, Rollback, Touch, Release, Returned
    <3> QED
      BY <3>4 DEF TypeOK, ClaimTraffic, ClaimCapped, ClaimNew, Admit, Degrade,
         Crash, Return, Goto
  <2>2. PairRows(ClaimRows(c), call[c].from, call[c].to) = {}
    BY <2>1 DEF ClaimBusy, ClaimCapped, DoorFree
  <2>3. ASSUME NEW r \in registry, Live(r, clock)
        PROVE  Parties(r) # {call[c].from, call[c].to}
    <3>1. r \in ClaimRows(c)
      BY <2>3, ClaimSeesLive
    <3> QED
      BY <2>2, <3>1 DEF PairRows
  <2>4. ASSUME pc'[c] = "busy"
        PROVE  \E r \in registry : /\ r.peer = call[c].to
                                   /\ r.opened_by # call[c].from
    <3>1. PICK r \in BusyRows(ClaimRows(c), call[c].from, call[c].to) : TRUE
      BY <2>1, <2>4 DEF ClaimBusy
    <3> QED
      BY <3>1 DEF BusyRows, ClaimRows, LiveRows
  <2> QED
    BY <2>3, <2>4
<1> QED
  BY <1>1, PastClocks, PTL DEF Spec, RefusalsAreJustified
-----------------------------------------------------------------------------
(* The refinement.  DoorsOf is doorHolder as a function of the rows and the  *)
(* clock, so that both the state before a step and the one after it are      *)
(* instances of the same lemma.                                              *)

HoldersOf(rows, now, a) ==
    {rec \in rows : rec.peer = a /\ rec.opened_by # a /\ Live(rec, now)}

DoorsOf(rows, now) ==
    [a \in Agents |-> IF HoldersOf(rows, now, a) = {} THEN NoId
                      ELSE (CHOOSE rec \in HoldersOf(rows, now, a) : TRUE).opened_by]

LEMMA DoorsAreRows ==
  /\ doorHolder = DoorsOf(registry, clock)
  /\ doorHolder' = DoorsOf(registry', clock')
  BY DEF doorHolder, DoorsOf, HoldersOf, Live

\* With one thread per recipient, the door has the opener of that thread.
LEMMA DoorValue ==
  ASSUME NEW rows \in SUBSET Lease, NEW now, NEW a \in Agents,
         \A r, s \in HoldersOf(rows, now, a) : r = s
  PROVE  /\ DoorsOf(rows, now)[a] \in Agents \cup {NoId}
         /\ HoldersOf(rows, now, a) = {} => DoorsOf(rows, now)[a] = NoId
         /\ \A r \in HoldersOf(rows, now, a) :
               DoorsOf(rows, now)[a] = r.opened_by
<1>1. CASE HoldersOf(rows, now, a) = {}
  BY <1>1 DEF DoorsOf
<1>2. ASSUME NEW r \in HoldersOf(rows, now, a)
      PROVE  /\ DoorsOf(rows, now)[a] = r.opened_by
             /\ r.opened_by \in Agents
  <2>1. HoldersOf(rows, now, a) # {}
    BY <1>2
  <2>2. (CHOOSE rec \in HoldersOf(rows, now, a) : TRUE) = r
    BY <1>2
  <2>3. r \in Lease
    BY <1>2 DEF HoldersOf
  <2> QED
    BY <2>1, <2>2, <2>3 DEF DoorsOf, Lease
<1> QED
  BY <1>1, <1>2

\* A step that gives no door to a new holder frees doors, or leaves them.
LEMMA Closing ==
  ASSUME NEW rows \in SUBSET Lease, NEW now, NEW next \in SUBSET Lease, NEW then,
         NEW a \in Agents,
         \A r, s \in HoldersOf(rows, now, a) : r = s,
         \A r, s \in HoldersOf(next, then, a) : r = s,
         \A s \in HoldersOf(next, then, a) :
            \E r \in HoldersOf(rows, now, a) : r.opened_by = s.opened_by
  PROVE  DoorsOf(next, then)[a] \in {DoorsOf(rows, now)[a], NoId}
<1>1. CASE HoldersOf(next, then, a) = {}
  BY <1>1, DoorValue
<1>2. ASSUME NEW s \in HoldersOf(next, then, a)
      PROVE  DoorsOf(next, then)[a] = DoorsOf(rows, now)[a]
  <2>1. PICK r \in HoldersOf(rows, now, a) : r.opened_by = s.opened_by
    OBVIOUS
  <2>2. DoorsOf(rows, now)[a] = r.opened_by
    BY DoorValue
  <2>3. DoorsOf(next, then)[a] = s.opened_by
    BY DoorValue
  <2> QED
    BY <2>1, <2>2, <2>3
<1> QED
  BY <1>1, <1>2

\* Doors with the same holders are the same doors.
LEMMA SameDoors ==
  ASSUME NEW rows, NEW now, NEW next, NEW then, NEW a \in Agents,
         HoldersOf(next, then, a) = HoldersOf(rows, now, a)
  PROVE  DoorsOf(next, then)[a] = DoorsOf(rows, now)[a]
  BY DEF DoorsOf

LEMMA OneHolder ==
  ASSUME NEW rows, NEW now, NEW a \in Agents,
         \A r, s \in rows : r # s /\ r.peer = s.peer =>
            r.opened_by = r.peer \/ s.opened_by = s.peer
  PROVE  \A r, s \in HoldersOf(rows, now, a) : r = s
  BY DEF HoldersOf

\* Every step that adds no row frees doors or stutters.
LEMMA CloseStep ==
  ASSUME TypeOK, TypeOK', OneThreadPerRecipient, OneThreadPerRecipient',
         \A a \in Agents : \A s \in HoldersOf(registry', clock', a) :
            \E r \in HoldersOf(registry, clock, a) : r.opened_by = s.opened_by
  PROVE  D!Close
<1>1. registry \in SUBSET Lease /\ registry' \in SUBSET Lease
  BY DEF TypeOK
<1>2. \A a \in Agents : /\ \A r, s \in HoldersOf(registry, clock, a) : r = s
                        /\ \A r, s \in HoldersOf(registry', clock', a) : r = s
  BY OneHolder DEF OneThreadPerRecipient
<1>3. \A a \in Agents :
        DoorsOf(registry', clock')[a] \in {DoorsOf(registry, clock)[a], NoId}
  BY <1>1, <1>2, Closing
<1> DEFINE freed == {a \in Agents : DoorsOf(registry', clock')[a] = NoId}
<1>4. doorHolder' = [a \in Agents |-> DoorsOf(registry', clock')[a]]
  BY DoorsAreRows DEF DoorsOf
<1>5. \A a \in Agents :
        DoorsOf(registry', clock')[a] = IF a \in freed THEN NoId ELSE doorHolder[a]
  BY <1>3, DoorsAreRows
<1>6. doorHolder' = [a \in Agents |-> IF a \in freed THEN NoId ELSE doorHolder[a]]
  BY <1>4, <1>5
<1>7. freed \in SUBSET Agents
  OBVIOUS
<1> QED
  BY <1>6, <1>7 DEF D!Close

\* A step that gives one free door to the opener of a row opens that door.
LEMMA OpenStep ==
  ASSUME TypeOK, TypeOK', OneThreadPerRecipient, OneThreadPerRecipient',
         NEW new \in registry', new.peer \in Agents,
         new \in HoldersOf(registry', clock', new.peer),
         HoldersOf(registry, clock, new.peer) = {},
         \A a \in Agents \ {new.peer} :
            HoldersOf(registry', clock', a) = HoldersOf(registry, clock, a)
  PROVE  D!Open(new.peer, new.opened_by) /\ new.opened_by \in Agents
<1> DEFINE p == new.peer
<1>1. registry \in SUBSET Lease /\ registry' \in SUBSET Lease
  BY DEF TypeOK
<1>2. /\ \A r, s \in HoldersOf(registry, clock, p) : r = s
      /\ \A r, s \in HoldersOf(registry', clock', p) : r = s
  BY OneHolder DEF OneThreadPerRecipient
<1>3. DoorsOf(registry, clock)[p] = NoId
  BY <1>1, <1>2, DoorValue
<1>4. DoorsOf(registry', clock')[p] = new.opened_by
  BY <1>1, <1>2, DoorValue
<1>5. \A a \in Agents \ {p} :
        DoorsOf(registry', clock')[a] = DoorsOf(registry, clock)[a]
  BY SameDoors
<1>6. new.opened_by # p
  BY DEF HoldersOf
<1>7. new.opened_by \in Agents
  BY <1>1 DEF Lease
<1>8. doorHolder' = [doorHolder EXCEPT ![p] = new.opened_by]
  <2>1. doorHolder = [a \in Agents |-> DoorsOf(registry, clock)[a]]
    BY DoorsAreRows DEF DoorsOf
  <2>2. doorHolder' = [a \in Agents |-> DoorsOf(registry', clock')[a]]
    BY DoorsAreRows DEF DoorsOf
  <2> QED
    BY <2>1, <2>2, <1>4, <1>5
<1> QED
  BY <1>3, <1>6, <1>7, <1>8, DoorsAreRows DEF D!Open

\* A claim opens its recipient's door, which was free, or changes no door.
LEMMA ClaimsOpen ==
  ASSUME TypeOK, TypeOK', OneThreadPerRecipient, OneThreadPerRecipient',
         ClocksArePast, NEW c \in Calls, ClaimNew(c)
  PROVE  D!Next
<1> DEFINE k == call[c]
           new == NewLease(k.id, k.from, k.to, k.now)
<1>1. /\ k \in Call /\ pc[c] = "claim" /\ clock' = clock
      /\ registry' = ClaimRows(c) \cup {new}
  BY DEF ClaimNew, WriteRows, TypeOK, Working
<1>2. new \in Lease /\ new.opened_by = k.from /\ new.peer = k.to
  BY <1>1, NewLeaseType DEF NewLease, Call
<1>3. \A r \in registry : Live(r, clock) => r \in ClaimRows(c)
  BY <1>1, ClaimSeesLive
<1>4. ClaimRows(c) \subseteq registry
  BY DEF ClaimRows, LiveRows
<1>5. \A r \in ClaimRows(c) : r.peer = k.to => r.opened_by = k.to
  <2>1. \A r \in ClaimRows(c) : r.peer = k.to => r.opened_by \in {k.from, k.to}
    BY DEF ClaimNew, DoorFree, BusyRows
  <2>2. \A r \in ClaimRows(c) : Parties(r) # {k.from, k.to}
    BY DEF ClaimNew, DoorFree, PairRows
  <2> QED
    BY <2>1, <2>2 DEF Parties
<1> HIDE DEF new
<1>6. CASE new \in HoldersOf(registry', clock', k.to)
  <2>1. HoldersOf(registry, clock, k.to) = {}
    BY <1>3, <1>5 DEF HoldersOf
  <2>2. \A a \in Agents \ {k.to} :
          HoldersOf(registry', clock', a) = HoldersOf(registry, clock, a)
    BY <1>1, <1>2, <1>3, <1>4 DEF HoldersOf
  <2>3. k.to \in Agents /\ new \in registry'
    BY <1>1 DEF Call
  <2>4. D!Open(new.peer, new.opened_by) /\ new.opened_by \in Agents
    BY <1>2, <1>6, <2>1, <2>2, <2>3, OpenStep
  <2> QED
    BY <1>2, <2>3, <2>4 DEF D!Next
<1>7. CASE new \notin HoldersOf(registry', clock', k.to)
  <2>1. \A a \in Agents :
          HoldersOf(registry', clock', a) \subseteq HoldersOf(registry, clock, a)
    BY <1>1, <1>2, <1>4, <1>7 DEF HoldersOf
  <2> QED
    BY <2>1, CloseStep DEF D!Next
<1> QED
  BY <1>6, <1>7

\* A resize keeps a door, frees it, or opens one that had fallen free while
\* the call waited for the lock: the row it revives had expired by then.
LEMMA TouchesOpen ==
  ASSUME TypeOK, TypeOK', OneThreadPerRecipient, OneThreadPerRecipient',
         NEW c \in Calls, NEW rec \in registry, TouchStep(c, rec),
         clock' = clock
  PROVE  D!Next
<1> DEFINE new == Touched(rec, call[c].now)
<1>1. rec \in Lease /\ call[c].now \in Nat
  BY DEF TypeOK, TouchStep, Call
<1>2. new.opened_by = rec.opened_by /\ new.peer = rec.peer
  BY <1>1, TouchedKeeps
<1>3. registry' = (registry \ {rec}) \cup {new}
  BY DEF TouchStep
<1> HIDE DEF new
<1>4. CASE rec \in HoldersOf(registry, clock, rec.peer)
  <2>1. \A a \in Agents : \A s \in HoldersOf(registry', clock', a) :
          \E r \in HoldersOf(registry, clock, a) : r.opened_by = s.opened_by
    BY <1>2, <1>3, <1>4 DEF HoldersOf
  <2> QED
    BY <2>1, CloseStep DEF D!Next
<1>5. CASE /\ rec \notin HoldersOf(registry, clock, rec.peer)
           /\ new \in HoldersOf(registry', clock', rec.peer)
  <2>1. rec.opened_by # rec.peer
    BY <1>2, <1>5 DEF HoldersOf
  <2>2. HoldersOf(registry, clock, rec.peer) = {}
    BY <1>5, <2>1 DEF HoldersOf, LiveRows, OneThreadPerRecipient
  <2>3. \A a \in Agents \ {rec.peer} :
          HoldersOf(registry', clock', a) = HoldersOf(registry, clock, a)
    BY <1>2, <1>3 DEF HoldersOf
  <2>4. rec.peer \in Agents /\ new \in registry'
    BY <1>1, <1>3 DEF Lease
  <2>5. D!Open(new.peer, new.opened_by) /\ new.opened_by \in Agents
    BY <1>2, <1>5, <2>2, <2>3, <2>4, OpenStep
  <2> QED
    BY <1>2, <2>4, <2>5 DEF D!Next
<1>6. CASE /\ rec \notin HoldersOf(registry, clock, rec.peer)
           /\ new \notin HoldersOf(registry', clock', rec.peer)
  <2>1. \A a \in Agents :
          HoldersOf(registry', clock', a) \subseteq HoldersOf(registry, clock, a)
    BY <1>2, <1>3, <1>6 DEF HoldersOf
  <2> QED
    BY <2>1, CloseStep DEF D!Next
<1> QED
  BY <1>4, <1>5, <1>6

\* Time and the other operations only free doors.
LEMMA ShrinksClose ==
  ASSUME TypeOK, TypeOK', OneThreadPerRecipient, OneThreadPerRecipient',
         registry' \subseteq registry, clock' >= clock
  PROVE  D!Next
<1>1. \A r \in registry : r.lease_until \in Nat
  BY DEF TypeOK, Lease
<1>2. clock \in Nat /\ clock' \in Nat
  BY DEF TypeOK
<1>3. \A a \in Agents :
        HoldersOf(registry', clock', a) \subseteq HoldersOf(registry, clock, a)
  BY <1>1, <1>2 DEF HoldersOf, Live
<1> QED
  BY <1>3, CloseStep DEF D!Next

\* The registry, with its gate, expiry, crashes and I/O faults, implements the
\* doors: nobody takes a door over from an agent whose lease is live.
THEOREM DoorsImplemented == Spec => ImplementsDoors
<1>1. Init => D!Init
  <2> SUFFICES ASSUME Init PROVE D!Init
    OBVIOUS
  <2>1. \A a \in Agents : {rec \in registry : rec.peer = a /\ rec.opened_by # a
                                             /\ Live(rec, clock)} = {}
    BY DEF Init
  <2> QED
    BY <2>1 DEF doorHolder, D!Init
<1>2. /\ TypeOK /\ TypeOK' /\ OneThreadPerRecipient /\ OneThreadPerRecipient'
      /\ ClocksArePast /\ [Next]_vars
      => [D!Next]_doorHolder
  <2> SUFFICES ASSUME TypeOK, TypeOK', OneThreadPerRecipient,
                      OneThreadPerRecipient', ClocksArePast, [Next]_vars
               PROVE  D!Next
    OBVIOUS
  <2>1. clock' = clock \/ (Tick /\ registry' = registry)
    BY DEF Next, vars, Tick, Corrupt, Step, AskInThread, Ask, AskDamaged, MoveAside, End, ClaimTraffic,
       ClaimBusy, ClaimCapped, ClaimNew, EarlyReturn, Delivered, NotDelivered,
       Rollback, Touch, Release, Degrade, Crash
  <2>2. clock \in Nat
    BY DEF TypeOK
  <2>3. CASE registry' \subseteq registry
    <3>1. clock' >= clock
      BY <2>1, <2>2 DEF Tick
    <3> QED
      BY <2>3, <3>1, ShrinksClose
  <2>4. ASSUME NEW c \in Calls, ClaimNew(c) PROVE D!Next
    BY <2>4, ClaimsOpen
  <2>5. ASSUME NEW c \in Calls, NEW rec \in registry, TouchStep(c, rec)
        PROVE  D!Next
    BY <2>1, <2>3, <2>5, TouchesOpen
  <2> QED
    BY <2>3, <2>4, <2>5, RegistrySteps
<1> QED
  BY <1>1, <1>2, Typing, OneRecipientOneThread, PastClocks, PTL
  DEF Spec, ImplementsDoors, D!Spec
=============================================================================
