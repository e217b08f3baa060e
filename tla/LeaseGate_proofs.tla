--------------------------- MODULE LeaseGate_proofs ---------------------------
(***************************************************************************)
(* Proofs about LeaseGate for every set of agents, ids and calls, every    *)
(* lease length and every number of concurrent calls, faults included.     *)
(***************************************************************************)
EXTENDS LeaseGate, FiniteSetTheorems, TLAPS

\* Every lease length, configured or default, is a positive number of units.
LEMMA ClampType == \A m \in Int : Clamp(m) \in Nat \ {0}
  BY RegistryAssumption DEF Clamp

\* The rows the four operations write are rows.
LEMMA NewLeaseType ==
  ASSUME NEW id \in Ids, NEW by \in Agents, NEW to \in Agents, NEW now \in Nat
  PROVE  NewLease(id, by, to, now) \in Lease
  BY ClampType, RegistryAssumption DEF NewLease, Lease

LEMMA TouchedType ==
  ASSUME NEW rec \in Lease, NEW now \in Nat
  PROVE  Touched(rec, now) \in Lease
<1>1. now + Clamp(ResizeLease) \in Nat
  BY ClampType, RegistryAssumption
<1>2. [rec EXCEPT !.lease_until = now + Clamp(ResizeLease), !.resized = TRUE]
        \in Lease
  BY <1>1 DEF Lease
<1> QED
  BY <1>2 DEF Touched

\* The updates of a call's local variables keep it a call.
LEMMA CallUpdates ==
  ASSUME NEW k \in Call, NEW n \in Nat
  PROVE  /\ [k EXCEPT !.held = TRUE, !.now = n] \in Call
         /\ [k EXCEPT !.now = n, !.held = FALSE] \in Call
         /\ [k EXCEPT !.now = n] \in Call
         /\ Len(k.probes) > 1 => [k EXCEPT !.probes = Tail(@)] \in Call
<1>1. [k EXCEPT !.held = TRUE, !.now = n] \in Call
  BY DEF Call
<1>2. [k EXCEPT !.now = n] \in Call
  BY DEF Call
<1>4. [k EXCEPT !.now = n, !.held = FALSE] \in Call
  BY DEF Call
<1>3. ASSUME Len(k.probes) > 1
      PROVE  [k EXCEPT !.probes = Tail(@)] \in Call
  <2>1. Tail(k.probes) \in Seq(Ids)
    BY <1>3 DEF Call
  <2> QED
    BY <2>1 DEF Call
<1> QED
  BY <1>1, <1>2, <1>3, <1>4

\* The gate's type invariant: program counters, arguments and rows stay
\* well-formed through every interleaving, crash and I/O fault.
THEOREM Typing == Spec => []TypeOK
<1>1. Init => TypeOK
  BY FS_EmptySet DEF Init, TypeOK, Returned, Working
<1>2. TypeOK /\ [Next]_vars => TypeOK'
  <2> SUFFICES ASSUME TypeOK, [Next]_vars PROVE TypeOK'
    OBVIOUS
  <2> USE DEF TypeOK, Returned, Working
  <2>1. CASE UNCHANGED vars
    BY <2>1 DEF vars
  <2>2. CASE Tick
    BY <2>2 DEF Tick
  <2>3. CASE Corrupt
    BY <2>3, FS_EmptySet DEF Corrupt
  <2>4. ASSUME NEW c \in Calls, Step(c) PROVE TypeOK'
    <3>1. CASE AskInThread(c)
      BY <3>1 DEF AskInThread, AskCall, Goto, Call
    <3>2. CASE Ask(c)
      BY <3>2 DEF Ask, AskCall, Goto, Call
    <3>3. CASE End(c)
      <4>1. \A ref, delivery, thread \in Ids \cup {NoId}, id \in Ids :
              ProbeIds(ref, delivery, id, thread) \in Seq(Ids)
        BY DEF ProbeIds, Present
      <4>2. PICK from \in Agents, id \in Ids,
                 ref \in Ids \cup {NoId}, delivery \in Ids \cup {NoId},
                 thread \in Ids \cup {NoId} :
              /\ call' = [call EXCEPT ![c] =
                    [from |-> from, to |-> from, reply |-> "end", id |-> id,
                     ref |-> NoId, now |-> 0, held |-> FALSE,
                     probes |-> ProbeIds(ref, delivery, id, thread)]]
              /\ Goto(c, "send")
        BY <3>3 DEF End
      <4>3. ProbeIds(ref, delivery, id, thread) \in Seq(Ids)
        BY <4>1
      <4> QED
        BY <3>3, <4>2, <4>3 DEF End, Goto, Call
    <3>4. CASE ClaimTraffic(c)
      <4>1. call[c] \in Call
        BY <3>4 DEF ClaimTraffic
      <4>2. [call[c] EXCEPT !.held = TRUE, !.now = 0] \in Call
        BY <4>1, CallUpdates
      <4>3. call' = [call EXCEPT ![c] = [call[c] EXCEPT !.held = TRUE, !.now = 0]]
        BY <3>4 DEF ClaimTraffic, Admit
      <4> QED
        BY <3>4, <4>2, <4>3 DEF ClaimTraffic, Admit, Goto
    <3>5. CASE ClaimBusy(c)
      BY <3>5 DEF ClaimBusy, Return, Goto
    <3>6. CASE ClaimCapped(c)
      BY <3>6 DEF ClaimCapped, Return, Goto
    <3>7. CASE ClaimNew(c)
      <4> DEFINE k == call[c]
                 new == NewLease(k.id, k.from, k.to, k.now)
      <4>1. k \in Call
        BY <3>7 DEF ClaimNew
      <4>2. new \in Lease
        BY <4>1, NewLeaseType DEF Call
      <4>3. ClaimRows(c) \subseteq registry
        BY DEF ClaimRows, LiveRows
      <4>4. IsFiniteSet(ClaimRows(c) \cup {new})
        BY <4>3, FS_Subset, FS_AddElement
      <4>5. /\ registry' = ClaimRows(c) \cup {new}
            /\ readable' \in {readable, TRUE}
        BY <3>7 DEF ClaimNew, WriteRows
      <4>6. registry' \subseteq Lease /\ IsFiniteSet(registry')
        BY <4>2, <4>3, <4>4, <4>5
      <4> QED
        BY <3>7, <4>1, <4>5, <4>6 DEF ClaimNew, Admit, Goto, Call
    <3>8. CASE EarlyReturn(c)
      BY <3>8 DEF EarlyReturn, Return, Goto
    <3>9. CASE Delivered(c)
      <4>1. call[c] \in Call /\ clock \in Nat
        BY <3>9 DEF Delivered
      <4>2. [call[c] EXCEPT !.now = clock, !.held = FALSE] \in Call
        BY <4>1, CallUpdates
      <4>3. ASSUME call' = [call EXCEPT ![c] =
                      [call[c] EXCEPT !.now = clock, !.held = FALSE]],
                   pc' = [pc EXCEPT ![c] = "touch"]
            PROVE  TypeOK'
        BY <3>9, <4>2, <4>3 DEF Delivered
      <4>4. CASE pc' = [pc EXCEPT ![c] = "touch"]
        BY <3>9, <4>3, <4>4 DEF Delivered, Return, Goto
      <4>5. CASE pc' # [pc EXCEPT ![c] = "touch"]
        BY <3>9, <4>1, <4>5 DEF Delivered, Return, Goto
      <4> QED
        BY <4>4, <4>5
    <3>10. CASE NotDelivered(c)
      BY <3>10 DEF NotDelivered, Return, Goto
    <3>11. CASE Rollback(c)
      <4>1. ReleaseIfParty(registry, call[c].id, call[c].from) \subseteq registry
        BY DEF ReleaseIfParty
      <4> QED
        BY <3>11, <4>1, FS_Subset DEF Rollback, WriteRows, Return, Goto
    <3>12. CASE Touch(c)
      <4>1. call[c] \in Call
        BY <3>12 DEF Touch
      <4>2. registry' \subseteq Lease /\ IsFiniteSet(registry')
        <5>1. ASSUME NEW rec \in registry
              PROVE  /\ Touched(rec, call[c].now) \in Lease
                     /\ IsFiniteSet((registry \ {rec}) \cup {Touched(rec, call[c].now)})
          <6>1. IsFiniteSet(registry \ {rec})
            BY FS_Subset
          <6> QED
            BY <4>1, <6>1, TouchedType, FS_AddElement DEF Call
        <5> QED
          BY <3>12, <5>1 DEF Touch, WriteRows
      <4> QED
        BY <3>12, <4>2 DEF Touch, WriteRows, Return, Goto
    <3>13. CASE Release(c)
      <4>1. call[c] \in Call
        BY <3>13 DEF Release
      <4>2. /\ registry' \subseteq Lease /\ IsFiniteSet(registry')
            /\ readable' \in BOOLEAN /\ clock' \in Nat
        <5>1. ReleaseIfParty(registry, Head(call[c].probes), call[c].from)
                \subseteq registry
          BY DEF ReleaseIfParty
        <5> QED
          BY <3>13, <5>1, FS_Subset DEF Release, WriteRows
      <4>3. CASE Len(call[c].probes) > 1
        <5>1. [call[c] EXCEPT !.probes = Tail(@)] \in Call
          BY <4>1, <4>3, CallUpdates
        <5>2. call' = [call EXCEPT ![c] = [call[c] EXCEPT !.probes = Tail(@)]]
          BY <3>13, <4>3 DEF Release
        <5> QED
          BY <3>13, <4>2, <4>3, <5>1, <5>2 DEF Release, Goto
      <4>4. CASE ~(Len(call[c].probes) > 1)
        BY <3>13, <4>2, <4>4 DEF Release, Return, Goto
      <4> QED
        BY <4>3, <4>4
    <3>14. CASE Degrade(c)
      <4>1. call[c] \in Call /\ UNCHANGED <<clock, registry, readable>>
        BY <3>14 DEF Degrade
      <4>2. CASE pc[c] = "claim"
        <5>1. [call[c] EXCEPT !.now = 0] \in Call
          BY <4>1, CallUpdates
        <5>2. call' = [call EXCEPT ![c] = [call[c] EXCEPT !.now = 0]]
          BY <3>14, <4>2 DEF Degrade
        <5> QED
          BY <3>14, <4>1, <4>2, <5>1, <5>2 DEF Degrade, Goto
      <4>3. CASE pc[c] = "release" /\ Len(call[c].probes) > 1
        <5>1. [call[c] EXCEPT !.probes = Tail(@)] \in Call
          BY <4>1, <4>3, CallUpdates
        <5>2. call[c].probes \in Seq(Ids)
          BY <4>1 DEF Call
        <5>3. ~(Len(call[c].probes) <= 1)
          BY <4>3, <5>2
        <5>4. /\ pc' = pc
              /\ call' = [call EXCEPT ![c] = [call[c] EXCEPT !.probes = Tail(@)]]
          BY <3>14, <4>3, <5>3 DEF Degrade
        <5> QED
          BY <4>1, <4>3, <5>1, <5>4
      <4>4. CASE Return(c, "failed") \/ Return(c, "idle")
        BY <4>1, <4>4 DEF Return, Goto
      <4> QED
        BY <3>14, <4>2, <4>3, <4>4 DEF Degrade
    <3>15. CASE Crash(c)
      BY <3>15 DEF Crash, Return, Goto
    <3>16. CASE AskDamaged(c)
      BY <3>16 DEF AskDamaged, AskCall, Goto, Call
    <3>17. CASE MoveAside(c)
      <4>1. call[c] \in Call /\ clock \in Nat
        BY <3>17 DEF MoveAside
      <4>2. [call[c] EXCEPT !.now = clock] \in Call
        BY <4>1, CallUpdates
      <4>3. /\ call' = [call EXCEPT ![c] = [call[c] EXCEPT !.now = clock]]
            /\ registry' \in {registry, {}} /\ readable' \in {readable, TRUE}
            /\ pc' = [pc EXCEPT ![c] = "claim"] /\ clock' = clock
        BY <3>17 DEF MoveAside, Goto
      <4> QED
        BY <4>1, <4>2, <4>3, FS_EmptySet
    <3> QED
      BY <2>4, <3>1, <3>2, <3>3, <3>4, <3>5, <3>6, <3>7, <3>8, <3>9, <3>10,
         <3>11, <3>12, <3>13, <3>14, <3>15, <3>16, <3>17 DEF Step
  <2> QED
    BY <2>1, <2>2, <2>3, <2>4 DEF Next
<1> QED
  BY <1>1, <1>2, PTL DEF Spec
-----------------------------------------------------------------------------
\* A resize changes neither who is in a lease nor when it was opened.
LEMMA TouchedKeeps ==
  ASSUME NEW rec \in Lease, NEW now \in Nat
  PROVE  /\ Touched(rec, now).opened_by = rec.opened_by
         /\ Touched(rec, now).peer = rec.peer
         /\ Touched(rec, now).opened_at = rec.opened_at
         /\ Parties(Touched(rec, now)) = Parties(rec)
  BY DEF Touched, Lease, Parties

TouchStep(c, rec) ==
    /\ call[c] \in Call
    /\ Live(rec, call[c].now)
    /\ registry' = (registry \ {rec}) \cup {Touched(rec, call[c].now)}

\* Every step of the system does one of three things to the registry file:
\* it drops rows, it adds the row of a claim, or it resizes one row.
LEMMA RegistrySteps ==
  ASSUME TypeOK, [Next]_vars
  PROVE  \/ registry' \subseteq registry
         \/ \E c \in Calls : ClaimNew(c)
         \/ \E c \in Calls : \E rec \in registry : TouchStep(c, rec)
<1>1. CASE UNCHANGED vars
  BY <1>1 DEF vars
<1>2. CASE Tick
  BY <1>2 DEF Tick
<1>3. CASE Corrupt
  BY <1>3 DEF Corrupt
<1>4. ASSUME NEW c \in Calls, Step(c)
      PROVE  \/ registry' \subseteq registry
             \/ ClaimNew(c)
             \/ \E rec \in registry : TouchStep(c, rec)
  <2>1. CASE Touch(c)
    <3>1. call[c] \in Call
      BY <2>1 DEF Touch, TypeOK, Working
    <3> QED
      BY <2>1, <3>1 DEF Touch, WriteRows, TouchStep
  <2>2. CASE Rollback(c) \/ Release(c)
    BY <2>2 DEF Rollback, Release, WriteRows, ReleaseIfParty
  <2>3. CASE ~(Touch(c) \/ Rollback(c) \/ Release(c) \/ ClaimNew(c))
    BY <1>4, <2>3 DEF Step, AskInThread, Ask, AskDamaged, MoveAside, End,
       ClaimTraffic, ClaimBusy, ClaimCapped, EarlyReturn, Delivered, NotDelivered, Degrade, Crash
  <2> QED
    BY <2>1, <2>2, <2>3
<1> QED
  BY <1>1, <1>2, <1>3, <1>4 DEF Next

\* At most one third party ever has a thread with a recipient, whatever the
\* number of senders and however stale the clock their claims work with.
THEOREM OneRecipientOneThread == Spec => []OneThreadPerRecipient
<1>1. Init => OneThreadPerRecipient
  BY DEF Init, OneThreadPerRecipient
<1>2. TypeOK /\ OneThreadPerRecipient /\ [Next]_vars => OneThreadPerRecipient'
  <2> SUFFICES ASSUME TypeOK, OneThreadPerRecipient, [Next]_vars
               PROVE  OneThreadPerRecipient'
    OBVIOUS
  <2> USE DEF OneThreadPerRecipient
  <2>1. CASE registry' \subseteq registry
    BY <2>1
  <2>2. ASSUME NEW c \in Calls, ClaimNew(c) PROVE OneThreadPerRecipient'
    <3> DEFINE k == call[c]
               new == NewLease(k.id, k.from, k.to, k.now)
    <3>1. registry' = ClaimRows(c) \cup {new} /\ ClaimRows(c) \subseteq registry
      BY <2>2 DEF ClaimNew, WriteRows, ClaimRows, LiveRows
    <3>2. new.opened_by = k.from /\ new.peer = k.to
      BY DEF NewLease
    <3>3. \A r \in ClaimRows(c) : r.peer = k.to => r.opened_by \in {k.from, k.to}
      BY <2>2 DEF ClaimNew, DoorFree, BusyRows
    <3>4. \A r \in ClaimRows(c) : Parties(r) # {k.from, k.to}
      BY <2>2 DEF ClaimNew, DoorFree, PairRows
    <3>5. \A r \in ClaimRows(c) : r.peer = k.to => r.opened_by = k.to
      BY <3>3, <3>4 DEF Parties
    <3> HIDE DEF new
    <3> QED
      BY <3>1, <3>2, <3>5
  <2>3. ASSUME NEW c \in Calls, NEW rec \in registry, TouchStep(c, rec)
        PROVE  OneThreadPerRecipient'
    <3>1. rec \in Lease /\ call[c].now \in Nat
      BY <2>3 DEF TypeOK, TouchStep, Call
    <3> QED
      BY <2>3, <3>1, TouchedKeeps DEF TouchStep
  <2> QED
    BY <2>1, <2>2, <2>3, RegistrySteps
<1> QED
  BY <1>1, <1>2, Typing, PTL DEF Spec

\* Two agents never hold two threads with each other, in whichever
\* directions and at whatever moment they open them.
THEOREM OnePairOneThread == Spec => []OneThreadPerPair
<1>1. Init => OneThreadPerPair
  BY DEF Init, OneThreadPerPair
<1>2. TypeOK /\ OneThreadPerPair /\ [Next]_vars => OneThreadPerPair'
  <2> SUFFICES ASSUME TypeOK, OneThreadPerPair, [Next]_vars
               PROVE  OneThreadPerPair'
    OBVIOUS
  <2> USE DEF OneThreadPerPair
  <2>1. CASE registry' \subseteq registry
    BY <2>1
  <2>2. ASSUME NEW c \in Calls, ClaimNew(c) PROVE OneThreadPerPair'
    <3> DEFINE k == call[c]
               new == NewLease(k.id, k.from, k.to, k.now)
    <3>1. registry' = ClaimRows(c) \cup {new} /\ ClaimRows(c) \subseteq registry
      BY <2>2 DEF ClaimNew, WriteRows, ClaimRows, LiveRows
    <3>2. Parties(new) = {k.from, k.to}
      BY DEF NewLease, Parties
    <3>3. \A r \in ClaimRows(c) : Parties(r) # {k.from, k.to}
      BY <2>2 DEF ClaimNew, DoorFree, PairRows
    <3> HIDE DEF new
    <3> QED
      BY <3>1, <3>2, <3>3
  <2>3. ASSUME NEW c \in Calls, NEW rec \in registry, TouchStep(c, rec)
        PROVE  OneThreadPerPair'
    <3>1. rec \in Lease /\ call[c].now \in Nat
      BY <2>3 DEF TypeOK, TouchStep, Call
    <3>2. Parties(Touched(rec, call[c].now)) = Parties(rec)
      BY <3>1, TouchedKeeps
    <3> QED
      BY <2>3, <3>2 DEF TouchStep
  <2> QED
    BY <2>1, <2>2, <2>3, RegistrySteps
<1> QED
  BY <1>1, <1>2, Typing, PTL DEF Spec

\* A lease is over at most one default length and one resize after it was
\* opened, for every configured length and however many replies name it.
THEOREM LeasesEnd == Spec => []LeaseLifetime
<1>1. Init => LeaseLifetime
  BY DEF Init, LeaseLifetime
<1>2. TypeOK /\ LeaseLifetime /\ [Next]_vars => LeaseLifetime'
  <2> SUFFICES ASSUME TypeOK, LeaseLifetime, [Next]_vars
               PROVE  LeaseLifetime'
    OBVIOUS
  <2> USE DEF LeaseLifetime
  <2>1. CASE registry' \subseteq registry
    BY <2>1
  <2>2. ASSUME NEW c \in Calls, ClaimNew(c) PROVE LeaseLifetime'
    <3> DEFINE k == call[c]
               new == NewLease(k.id, k.from, k.to, k.now)
    <3>1. registry' = ClaimRows(c) \cup {new} /\ ClaimRows(c) \subseteq registry
      BY <2>2 DEF ClaimNew, WriteRows, ClaimRows, LiveRows
    <3>2. k.now \in Nat
      BY <2>2 DEF ClaimNew, TypeOK, Working, Call
    <3>3. new.lease_until = new.opened_at + Clamp(DefaultLease) + 0
          /\ ~new.resized
      BY <3>2, ClampType, RegistryAssumption DEF NewLease
    <3>4. new.lease_until <= new.opened_at + Clamp(DefaultLease)
                + (IF new.resized THEN Clamp(ResizeLease) ELSE 0)
      BY <3>2, <3>3, ClampType, RegistryAssumption DEF NewLease
    <3> HIDE DEF new
    <3> QED
      BY <3>1, <3>4
  <2>3. ASSUME NEW c \in Calls, NEW rec \in registry, TouchStep(c, rec)
        PROVE  LeaseLifetime'
    <3> DEFINE now == call[c].now
               t == Touched(rec, now)
    <3>1. rec \in Lease /\ now \in Nat
      BY <2>3 DEF TypeOK, TouchStep, Call
    <3>2. /\ Clamp(DefaultLease) \in Nat
          /\ Clamp(ResizeLease) \in Nat
      BY ClampType, RegistryAssumption
    <3>3. CASE rec.resized
      BY <2>3, <3>3 DEF TouchStep, Touched
    <3>4. CASE ~rec.resized
      <4>1. rec.lease_until > now
        BY <2>3 DEF TouchStep, Live
      <4>2. rec.lease_until <= rec.opened_at + Clamp(DefaultLease) + 0
        BY <3>4
      <4>3. /\ t.lease_until = now + Clamp(ResizeLease)
            /\ t.opened_at = rec.opened_at
            /\ t.resized
        BY <3>1, <3>4 DEF Touched, Lease
      <4>4. t.lease_until <= t.opened_at + Clamp(DefaultLease)
                               + Clamp(ResizeLease)
        BY <3>1, <3>2, <4>1, <4>2, <4>3 DEF Lease
      <4> HIDE DEF t
      <4> QED
        BY <2>3, <4>3, <4>4 DEF TouchStep, t
    <3> QED
      BY <3>3, <3>4
  <2> QED
    BY <2>1, <2>2, <2>3, RegistrySteps
<1> QED
  BY <1>1, <1>2, Typing, PTL DEF Spec

\* The rows of one opener are finitely many, and their number is a natural.
LEMMA OutboundFinite ==
  ASSUME NEW rows, IsFiniteSet(rows), NEW a
  PROVE  /\ IsFiniteSet(OutboundRows(rows, a))
         /\ Cardinality(OutboundRows(rows, a)) \in Nat
<1>1. OutboundRows(rows, a) \subseteq rows
  BY DEF OutboundRows
<1> QED
  BY <1>1, FS_Subset, FS_CardinalityType

\* Dropping rows never gives an opener more of them.
LEMMA OutboundMonotonic ==
  ASSUME NEW rows, IsFiniteSet(rows), NEW fewer \in SUBSET rows, NEW a
  PROVE  Cardinality(OutboundRows(fewer, a)) <= Cardinality(OutboundRows(rows, a))
<1>1. OutboundRows(fewer, a) \subseteq OutboundRows(rows, a)
  BY DEF OutboundRows
<1> QED
  BY <1>1, OutboundFinite, FS_Subset

\* No agent ever holds more than MAX_OUTBOUND_THREADS leases it opened, for
\* every cap, even when its calls pass the gate concurrently.
THEOREM OutboundCapped == Spec => []OutboundCap
<1>1. Init => OutboundCap
  <2>1. ASSUME Init, NEW a \in Agents PROVE OutboundRows(registry, a) = {}
    BY <2>1 DEF Init, OutboundRows
  <2> QED
    BY <2>1, FS_EmptySet, RegistryAssumption DEF OutboundCap
<1>2. TypeOK /\ OutboundCap /\ [Next]_vars => OutboundCap'
  <2> SUFFICES ASSUME TypeOK, OutboundCap, [Next]_vars, NEW a \in Agents
               PROVE  Cardinality(OutboundRows(registry', a)) <= MaxOutbound
    BY DEF OutboundCap
  <2>0. /\ IsFiniteSet(registry) /\ registry \subseteq Lease
        /\ Cardinality(OutboundRows(registry, a)) <= MaxOutbound
        /\ MaxOutbound \in Nat
    BY RegistryAssumption DEF TypeOK, OutboundCap
  <2>1. CASE registry' \subseteq registry
    <3>1. /\ Cardinality(OutboundRows(registry', a))
                <= Cardinality(OutboundRows(registry, a))
          /\ IsFiniteSet(registry')
      BY <2>0, <2>1, OutboundMonotonic, FS_Subset
    <3> QED
      BY <2>0, <3>1, OutboundFinite
  <2>2. ASSUME NEW c \in Calls, ClaimNew(c)
        PROVE  Cardinality(OutboundRows(registry', a)) <= MaxOutbound
    <3> DEFINE k == call[c]
               new == NewLease(k.id, k.from, k.to, k.now)
               kept == OutboundRows(ClaimRows(c), a)
    <3>1. registry' = ClaimRows(c) \cup {new} /\ ClaimRows(c) \subseteq registry
      BY <2>2 DEF ClaimNew, WriteRows, ClaimRows, LiveRows
    <3>2. /\ IsFiniteSet(kept)
          /\ Cardinality(kept) \in Nat
          /\ Cardinality(kept) <= MaxOutbound
      <4>1. /\ IsFiniteSet(ClaimRows(c))
            /\ Cardinality(kept) <= Cardinality(OutboundRows(registry, a))
        BY <2>0, <3>1, FS_Subset, OutboundMonotonic
      <4> QED
        BY <2>0, <4>1, OutboundFinite
    <3>3. new.opened_by = k.from
      BY DEF NewLease
    <3>4. CASE a = k.from
      <4>1. OutboundRows(registry', a) = kept \cup {new}
        BY <3>1, <3>3, <3>4 DEF OutboundRows
      <4>2. Cardinality(kept) < MaxOutbound
        BY <2>2, <3>4 DEF ClaimNew
      <4> HIDE DEF kept, new
      <4>3. Cardinality(kept \cup {new}) <= Cardinality(kept) + 1
        BY <3>2, FS_AddElement
      <4>4. IsFiniteSet(kept \cup {new}) /\ Cardinality(kept \cup {new}) \in Nat
        BY <3>2, FS_AddElement, FS_CardinalityType
      <4> QED
        BY <2>0, <3>2, <4>1, <4>2, <4>3, <4>4
    <3>5. CASE a # k.from
      <4>1. OutboundRows(registry', a) = kept
        BY <3>1, <3>3, <3>5 DEF OutboundRows
      <4> QED
        BY <3>2, <4>1
    <3> QED
      BY <3>4, <3>5
  <2>3. ASSUME NEW c \in Calls, NEW rec \in registry, TouchStep(c, rec)
        PROVE  Cardinality(OutboundRows(registry', a)) <= MaxOutbound
    <3> DEFINE t == Touched(rec, call[c].now)
               old == OutboundRows(registry, a)
    <3>1. rec \in Lease /\ call[c].now \in Nat
      BY <2>0, <2>3 DEF TypeOK, TouchStep, Call
    <3>2. t.opened_by = rec.opened_by
      BY <3>1, TouchedKeeps
    <3>3. registry' = (registry \ {rec}) \cup {t}
      BY <2>3 DEF TouchStep
    <3>4. IsFiniteSet(old) /\ Cardinality(old) \in Nat
      BY <2>0, OutboundFinite
    <3>5. CASE rec.opened_by = a
      <4>1. OutboundRows(registry', a) = (old \ {rec}) \cup {t} /\ rec \in old
        BY <3>2, <3>3, <3>5 DEF OutboundRows
      <4> HIDE DEF old, t
      <4>2. /\ IsFiniteSet(old \ {rec})
            /\ Cardinality(old \ {rec}) = Cardinality(old) - 1
        BY <3>4, <4>1, FS_RemoveElement
      <4>3. Cardinality((old \ {rec}) \cup {t}) <= Cardinality(old)
        <5> DEFINE rest == old \ {rec}
        <5>1. IsFiniteSet(rest) /\ Cardinality(rest) = Cardinality(old) - 1
          BY <4>2
        <5> HIDE DEF rest
        <5>2. Cardinality(rest \cup {t}) =
                IF t \in rest THEN Cardinality(rest) ELSE Cardinality(rest) + 1
          BY <5>1, FS_AddElement
        <5>3. Cardinality(rest \cup {t}) <= Cardinality(old)
          BY <3>4, <5>1, <5>2
        <5> QED
          BY <5>3 DEF rest
      <4>4. /\ IsFiniteSet((old \ {rec}) \cup {t})
            /\ Cardinality((old \ {rec}) \cup {t}) \in Nat
        BY <4>2, FS_AddElement, FS_CardinalityType
      <4> QED
        BY <2>0, <3>4, <4>1, <4>3, <4>4 DEF old
    <3>6. CASE rec.opened_by # a
      <4>1. OutboundRows(registry', a) = old
        BY <3>2, <3>3, <3>6 DEF OutboundRows
      <4> QED
        BY <2>0, <4>1
    <3> QED
      BY <3>5, <3>6
  <2> QED
    BY <2>1, <2>2, <2>3, RegistrySteps
<1> QED
  BY <1>1, <1>2, Typing, PTL DEF Spec
=============================================================================
