------------------------- MODULE Registration_proofs -------------------------
(***************************************************************************)
(* What holds of one agent's identity and keypair for any number of        *)
(* gateways and of minted pairs.                                           *)
(***************************************************************************)
EXTENDS Registration, TLAPS

\* Found returns what a cache may hold.
LEMMA FoundTyped ==
    ASSUME TypeOK, NEW g \in Gateways
    PROVE  Found(g) \in Keys \cup {Absent, Unknown}
BY DEF Found, OnDisk, TypeOK

\* The state stays well-formed, and a call that goes on has a key to publish.
THEOREM Typing == Spec => []TypeOK
<1>1. Init => TypeOK
  <2> SUFFICES ASSUME Init PROVE TypeOK
    OBVIOUS
  <2>1. 0 \in Keys /\ 0 \in 0 .. MaxKeys
    BY RegistrationAssumption DEF Keys
  <2>2. foreign \in BOOLEAN /\ lost \in BOOLEAN
    BY DEF Init
  <2>3. identity \in Keys \cup {Absent, Torn} /\ keypair \in Keys \cup {NoKey}
    BY <2>1 DEF Init
  <2> QED  BY <2>1, <2>2, <2>3 DEF Init, TypeOK
<1>2. ASSUME TypeOK, [Next]_vars
      PROVE  TypeOK'
  <2> USE <1>2, RegistrationAssumption
  <2>0. \A n \in Keys : n \in 0 .. MaxKeys
    BY DEF Keys
  <2> SUFFICES ASSUME Next PROVE TypeOK'
    BY DEF TypeOK, vars
  <2>1. ASSUME NEW g \in Gateways, Sign(g) PROVE TypeOK'
    BY <2>1 DEF TypeOK, Sign, LoadOrGenerate, Keys
  <2>2. CASE Lose
    BY <2>2 DEF TypeOK, Lose
  <2>3. ASSUME NEW g \in Gateways, Lookup(g) PROVE TypeOK'
    BY <2>3, FoundTyped DEF TypeOK, Lookup, Look, host
  <2>4. ASSUME NEW g \in Gateways, Refresh(g) PROVE TypeOK'
    BY <2>4 DEF TypeOK, Refresh, host
  <2>5. ASSUME NEW g \in Gateways, Register(g) PROVE TypeOK'
    BY <2>5 DEF TypeOK, Register, Publish, Goto, host, Keys
  <2>6. ASSUME NEW g \in Gateways, UseExisting(g) PROVE TypeOK'
    BY <2>6 DEF TypeOK, UseExisting, Publish, Goto, host
  <2>7. ASSUME NEW g \in Gateways, KeyTrapGuard(g) PROVE TypeOK'
    BY <2>7, FoundTyped DEF TypeOK, KeyTrapGuard, Decide, Look, Leave, Goto, host
  <2>8. ASSUME NEW g \in Gateways, Mint(g) PROVE TypeOK'
    <3>1. keypair' \in Keys /\ minted' \in 0 .. MaxKeys
      BY <2>8 DEF Mint, LoadOrGenerate, TypeOK, Keys
    <3> QED  BY <2>8, <3>1 DEF TypeOK, Mint, Publish, Goto
  <2>9. ASSUME NEW g \in Gateways, DryRun(g) PROVE TypeOK'
    BY <2>9 DEF TypeOK, DryRun, Return, Leave, Goto, host
  <2>10. ASSUME NEW g \in Gateways, Exists(g) PROVE TypeOK'
    <3>1. CASE /\ overwrite' = [overwrite EXCEPT ![g] = TRUE]
               /\ Goto(g, "open")
               /\ UNCHANGED <<cache, behind, outdated, key>>
      BY <2>10, <3>1 DEF TypeOK, Exists, Goto, host
    <3>2. CASE Decide(g) /\ Found(g) # Absent /\ Leave(g)
      BY <2>10, <3>2, FoundTyped DEF TypeOK, Exists, Decide, Look, Leave, Goto, host
    <3>3. CASE /\ Decide(g) /\ Found(g) = Absent
               /\ Goto(g, "open") /\ UNCHANGED <<key, overwrite>>
      BY <2>10, <3>3 DEF TypeOK, Exists, Decide, Look, Goto, host
    <3> QED  BY <2>10, <3>1, <3>2, <3>3 DEF Exists
  <2>11. ASSUME NEW g \in Gateways, Sync(g) PROVE TypeOK'
    <3>1. 0 \in Keys
      BY DEF Keys
    <3> QED  BY <2>11, <3>1 DEF TypeOK, Sync, Goto, host
  <2>12. ASSUME NEW g \in Gateways, Open(g) PROVE TypeOK'
    BY <2>12 DEF TypeOK, Open, Goto
  <2>13. ASSUME NEW g \in Gateways, Dump(g) PROVE TypeOK'
    BY <2>13 DEF TypeOK, Dump, Leave, Goto
  <2>14. ASSUME NEW g \in Gateways, DumpFails(g) PROVE TypeOK'
    BY <2>14 DEF TypeOK, DumpFails, Return, Leave, Goto
  <2>15. ASSUME NEW g \in Gateways, Deregister(g) PROVE TypeOK'
    BY <2>15 DEF TypeOK, Deregister
  <2>16. ASSUME NEW g \in Gateways, Crash(g) PROVE TypeOK'
    BY <2>16 DEF TypeOK, Crash, Return, Leave, Goto, host
  <2> QED
    BY <2>1, <2>2, <2>3, <2>4, <2>5, <2>6, <2>7, <2>8, <2>9, <2>10, <2>11,
       <2>12, <2>13, <2>14, <2>15, <2>16 DEF Next
<1> QED  BY <1>1, <1>2, PTL DEF Spec

\* What keeps published keys and the keypair together: on a host that has lost
\* no keypair, every key of its own on its way into the identity file, or in it,
\* is that of the pair; where a key from elsewhere may be is on record.
Paired ==
    /\ \A g \in Gateways : pc[g] = "dump" /\ key[g] = 0 => foreign
    /\ ~lost => \A g \in Gateways : key[g] \in Keys \ {0} => key[g] = keypair
    /\ ~lost /\ identity \in Keys \ {0} => identity = keypair
    /\ identity = 0 => foreign

\* Whatever key the pair is given when there is none, nobody was holding one.
LEMMA PairKept ==
    ASSUME TypeOK, Paired, LoadOrGenerate, ~lost
    PROVE  /\ \A g \in Gateways : key[g] \in Keys \ {0} => key[g] = keypair'
           /\ identity \in Keys \ {0} => identity = keypair'
<1>1. CASE keypair # NoKey
  BY <1>1 DEF LoadOrGenerate, Paired
<1>2. CASE keypair = NoKey
  BY <1>2, RegistrationAssumption DEF Paired, Keys
<1> QED  BY <1>1, <1>2

LEMMA StaysPaired == Spec => []Paired
<1>1. Init => Paired
  BY RegistrationAssumption DEF Init, Paired, Keys
<1>2. ASSUME TypeOK, TypeOK', Paired, [Next]_vars
      PROVE  Paired'
  <2> USE <1>2, RegistrationAssumption
  <2> SUFFICES ASSUME Next PROVE Paired'
    BY DEF Paired, vars, Keys
  <2>1. ASSUME NEW h \in Gateways, Sign(h) PROVE Paired'
    <3>1. ~lost => /\ \A g \in Gateways : key[g] \in Keys \ {0} => key[g] = keypair'
                   /\ identity \in Keys \ {0} => identity = keypair'
      BY <2>1, PairKept DEF Sign
    <3> QED  BY <2>1, <3>1 DEF Paired, Sign, Keys
  <2>2. CASE Lose
    BY <2>2 DEF Paired, Lose, Keys
  <2>3. ASSUME NEW g \in Gateways, Lookup(g) \/ Refresh(g) PROVE Paired'
    BY <2>3 DEF Paired, Lookup, Refresh, host, Keys
  <2>4. ASSUME NEW g \in Gateways, Register(g) PROVE Paired'
    BY <2>4 DEF Paired, TypeOK, Register, Publish, Goto, host, Keys
  <2>5. ASSUME NEW g \in Gateways, UseExisting(g) PROVE Paired'
    BY <2>5 DEF Paired, TypeOK, UseExisting, Publish, Goto, host, Keys
  <2>6. ASSUME NEW g \in Gateways, KeyTrapGuard(g) PROVE Paired'
    BY <2>6 DEF Paired, TypeOK, KeyTrapGuard, Decide, Look, Leave, Goto, host, Keys
  <2>7. ASSUME NEW g \in Gateways, Mint(g) PROVE Paired'
    <3>1. ~lost => /\ \A h \in Gateways : key[h] \in Keys \ {0} => key[h] = keypair'
                   /\ identity \in Keys \ {0} => identity = keypair'
      BY <2>7, PairKept DEF Mint
    <3> QED  BY <2>7, <3>1 DEF Paired, TypeOK, Mint, Publish, Goto, Keys
  <2>8. ASSUME NEW g \in Gateways, DryRun(g) PROVE Paired'
    BY <2>8 DEF Paired, TypeOK, DryRun, Return, Leave, Goto, host, Keys
  <2>9. ASSUME NEW g \in Gateways, Exists(g) PROVE Paired'
    <3>1. key' \in {key, [key EXCEPT ![g] = NoKey]}
      BY <2>9 DEF Exists, Leave
    <3>2. \A h \in Gateways : pc'[h] = "dump" => pc[h] = "dump"
      BY <2>9 DEF TypeOK, Exists, Leave, Goto
    <3>3. UNCHANGED <<identity, keypair, foreign, lost>>
      BY <2>9 DEF Exists, host
    <3> QED  BY <3>1, <3>2, <3>3 DEF Paired, TypeOK, Keys
  <2>10. ASSUME NEW g \in Gateways, Sync(g) PROVE Paired'
    BY <2>10 DEF Paired, TypeOK, Sync, Goto, host, Keys
  <2>11. ASSUME NEW g \in Gateways, Open(g) PROVE Paired'
    <3>1. identity' = Torn /\ Torn \notin Keys /\ 0 \in Keys
      BY <2>11 DEF Open, Keys
    <3>2. UNCHANGED <<keypair, lost, key>> /\ foreign' = (foreign \/ key[g] = 0)
      BY <2>11 DEF Open
    <3>3. \A h \in Gateways : pc'[h] = "dump" => pc[h] = "dump" \/ h = g
      BY <2>11 DEF TypeOK, Open, Goto
    <3> QED  BY <3>1, <3>2, <3>3 DEF Paired
  <2>12. ASSUME NEW g \in Gateways, Dump(g) PROVE Paired'
    <3>1. identity' \in {identity, key[g], Torn}
      BY <2>12 DEF Dump
    <3>2. /\ pc' = [pc EXCEPT ![g] = "idle"]
          /\ key' = [key EXCEPT ![g] = NoKey]
          /\ UNCHANGED <<keypair, foreign, lost>>
      BY <2>12 DEF Dump, Leave, Goto
    <3>3. key[g] \in Keys /\ (key[g] = 0 => foreign)
      BY <2>12 DEF Dump, TypeOK, Paired
    <3> QED  BY <3>1, <3>2, <3>3 DEF Paired, TypeOK, Keys
  <2>13. ASSUME NEW g \in Gateways, DumpFails(g) PROVE Paired'
    BY <2>13 DEF Paired, TypeOK, DumpFails, Return, Leave, Goto, Keys
  <2>14. ASSUME NEW g \in Gateways, Deregister(g) PROVE Paired'
    BY <2>14 DEF Paired, Deregister, Keys
  <2>15. ASSUME NEW g \in Gateways, Crash(g) PROVE Paired'
    BY <2>15 DEF Paired, TypeOK, Crash, Return, Leave, Goto, host, Keys
  <2> QED
    BY <2>1, <2>2, <2>3, <2>4, <2>5, <2>6, <2>7, <2>8, <2>9, <2>10, <2>11,
       <2>12, <2>13, <2>14, <2>15 DEF Next
<1> QED  BY <1>1, <1>2, Typing, PTL DEF Spec

\* As long as every key came from this host and the keypair file was kept, the
\* identity publishes the key that every gateway without a configured path
\* signs with, whichever those are.
THEOREM Verifiable == Spec => []SignaturesVerify
<1>1. Paired => SignaturesVerify
  BY DEF Paired, SignaturesVerify, SignsWith, Keys
<1> QED  BY <1>1, StaysPaired, PTL

\* No registration replaces a key of this host by another one, whatever first
\* sends and registrations run beside it, while the keypair file is kept.
THEOREM OnlyForeignRotated == Spec => RotatesOnlyForeign
<1>1. ASSUME TypeOK, Paired, [Next]_vars
      PROVE  [\A g \in Gateways :
                 pc[g] = "open" /\ pc'[g] = "dump" /\ key[g] # 0 /\ ~lost
                 => identity \notin Keys \ {0} \/ key[g] = identity]_vars
  BY <1>1 DEF Paired, TypeOK
<1> QED  BY <1>1, Typing, StaysPaired, PTL DEF Spec, RotatesOnlyForeign

\* What a gateway relies on: it took the agent for unknown only where no
\* identity has been written since it looked.
Informed ==
    /\ \A g \in Gateways : cache[g] = Absent => identity \notin Keys \/ g \in behind
    /\ \A g \in Gateways : pc[g] = "mint" \/ (pc[g] = "open" /\ ~overwrite[g])
                            => identity \notin Keys \/ g \in outdated

\* A decision taken on an absent entry is informed or recorded as outdated.
LEMMA Decided ==
    ASSUME TypeOK, Informed, NEW g \in Gateways, Decide(g), UNCHANGED identity
    PROVE  /\ \A h \in Gateways : cache'[h] = Absent => identity \notin Keys \/ h \in behind'
           /\ Found(g) = Absent => identity \notin Keys \/ g \in outdated'
           /\ \A h \in Gateways \ {g} : h \in outdated' <=> h \in outdated
<1>1. CASE cache[g] # Unknown
  BY <1>1 DEF Decide, Look, Found, Informed, TypeOK
<1>2. CASE cache[g] = Unknown
  BY <1>2, RegistrationAssumption DEF Decide, Look, Found, OnDisk, Informed, TypeOK, Keys
<1> QED  BY <1>1, <1>2

LEMMA StaysInformed == Spec => []Informed
<1>1. Init => Informed
  BY RegistrationAssumption DEF Init, Informed
<1>2. ASSUME TypeOK, Informed, [Next]_vars
      PROVE  Informed'
  <2> USE <1>2
  <2> SUFFICES ASSUME Next PROVE Informed'
    BY DEF Informed, vars, Keys
  <2>1. ASSUME NEW g \in Gateways, Sign(g) PROVE Informed'
    BY <2>1 DEF Informed, Sign, Keys
  <2>2. CASE Lose
    BY <2>2 DEF Informed, Lose, Keys
  <2>3. ASSUME NEW g \in Gateways, Lookup(g) PROVE Informed'
    <3>1. CASE cache[g] # Unknown
      BY <2>3, <3>1 DEF Informed, TypeOK, Lookup, Look, Found, host, Keys
    <3>2. CASE cache[g] = Unknown
      BY <2>3, <3>2, RegistrationAssumption
         DEF Informed, TypeOK, Lookup, Look, Found, OnDisk, host, Keys
    <3> QED  BY <3>1, <3>2
  <2>4. ASSUME NEW g \in Gateways, Refresh(g) PROVE Informed'
    BY <2>4, RegistrationAssumption DEF Informed, TypeOK, Refresh, host, Keys
  <2>5. ASSUME NEW g \in Gateways, Register(g) PROVE Informed'
    BY <2>5 DEF Informed, TypeOK, Register, Publish, Goto, host, Keys
  <2>6. ASSUME NEW g \in Gateways, UseExisting(g) PROVE Informed'
    BY <2>6 DEF Informed, TypeOK, UseExisting, Publish, Goto, host, Keys
  <2>7. ASSUME NEW g \in Gateways, KeyTrapGuard(g) PROVE Informed'
    <3>1. Decide(g) /\ UNCHANGED identity
      BY <2>7 DEF KeyTrapGuard, host
    <3>2. CASE Found(g) # Absent
      BY <2>7, <3>1, <3>2, Decided DEF Informed, TypeOK, KeyTrapGuard, Leave, Goto, Keys
    <3>3. CASE Found(g) = Absent
      BY <2>7, <3>1, <3>3, Decided DEF Informed, TypeOK, KeyTrapGuard, Goto, Keys
    <3> QED  BY <3>2, <3>3
  <2>8. ASSUME NEW g \in Gateways, Mint(g) PROVE Informed'
    BY <2>8 DEF Informed, TypeOK, Mint, Publish, Goto, Keys
  <2>9. ASSUME NEW g \in Gateways, DryRun(g) PROVE Informed'
    BY <2>9 DEF Informed, TypeOK, DryRun, Return, Leave, Goto, host, Keys
  <2>10. ASSUME NEW g \in Gateways, Exists(g) PROVE Informed'
    <3>0. UNCHANGED identity
      BY <2>10 DEF Exists, host
    <3>1. CASE /\ overwrite' = [overwrite EXCEPT ![g] = TRUE]
               /\ Goto(g, "open")
               /\ UNCHANGED <<cache, behind, outdated, key>>
      BY <3>0, <3>1 DEF Informed, TypeOK, Goto, Keys
    <3>2. CASE Decide(g) /\ Found(g) # Absent /\ Leave(g)
      BY <3>0, <3>2, Decided DEF Informed, TypeOK, Leave, Goto, Keys
    <3>3. CASE /\ Decide(g) /\ Found(g) = Absent
               /\ Goto(g, "open") /\ UNCHANGED <<key, overwrite>>
      BY <3>0, <3>3, Decided DEF Informed, TypeOK, Goto, Keys
    <3> QED  BY <2>10, <3>1, <3>2, <3>3 DEF Exists
  <2>11. ASSUME NEW g \in Gateways, Sync(g) PROVE Informed'
    BY <2>11 DEF Informed, TypeOK, Sync, Goto, host, Keys
  <2>12. ASSUME NEW g \in Gateways, Open(g) PROVE Informed'
    BY <2>12, RegistrationAssumption DEF Informed, TypeOK, Open, Goto, Keys
  <2>13. ASSUME NEW g \in Gateways, Dump(g) PROVE Informed'
    <3>0. /\ cache' = [cache EXCEPT ![g] = Unknown]
          /\ pc' = [pc EXCEPT ![g] = "idle"]
          /\ overwrite' = [overwrite EXCEPT ![g] = FALSE]
      BY <2>13 DEF Dump, Leave, Goto
    <3>1. CASE g \in orphan
      BY <2>13, <3>0, <3>1, RegistrationAssumption DEF Informed, TypeOK, Dump, Keys
    <3>2. CASE g \notin orphan
      <4>1. behind' = Gateways /\ outdated' = {w \in Gateways \ {g} : pc[w] # "idle"}
        BY <2>13, <3>2 DEF Dump
      <4> QED  BY <3>0, <4>1 DEF Informed, TypeOK
    <3> QED  BY <3>1, <3>2
  <2>14. ASSUME NEW g \in Gateways, DumpFails(g) PROVE Informed'
    BY <2>14, RegistrationAssumption
       DEF Informed, TypeOK, DumpFails, Return, Leave, Goto, Keys
  <2>15. ASSUME NEW g \in Gateways, Deregister(g) PROVE Informed'
    BY <2>15, RegistrationAssumption DEF Informed, TypeOK, Deregister, Keys
  <2>16. ASSUME NEW g \in Gateways, Crash(g) PROVE Informed'
    BY <2>16, RegistrationAssumption
       DEF Informed, TypeOK, Crash, Return, Leave, Goto, host, Keys
  <2> QED
    BY <2>1, <2>2, <2>3, <2>4, <2>5, <2>6, <2>7, <2>8, <2>9, <2>10, <2>11,
       <2>12, <2>13, <2>14, <2>15, <2>16 DEF Next
<1> QED  BY <1>1, <1>2, Typing, PTL DEF Spec

\* The key-trap guard mints over an identity only if that was written after
\* its gateway last read the file.
THEOREM MintsUnseen == Spec => MintsOnlyUnseen
<1>1. ASSUME Informed
      PROVE  [\A g \in Gateways :
                 pc[g] = "mint" /\ pc'[g] = "check" /\ keypair' # keypair
                 => identity \notin Keys \/ g \in outdated]_vars
  BY <1>1 DEF Informed
<1> QED  BY <1>1, StaysInformed, PTL DEF Spec, MintsOnlyUnseen

\* A registration without overwrite replaces an identity only if that was
\* written after its gateway last read the file.
THEOREM OverwritesUnseen == Spec => OverwritesOnlyUnseen
<1>1. ASSUME Informed
      PROVE  [\A g \in Gateways :
                 pc[g] = "open" /\ pc'[g] = "dump" /\ ~overwrite[g]
                 => identity \notin Keys \/ g \in outdated]_vars
  BY <1>1 DEF Informed
<1> QED  BY <1>1, StaysInformed, PTL DEF Spec, OverwritesOnlyUnseen
=============================================================================
