---------------------------- MODULE Registration ----------------------------
(***************************************************************************)
(* One agent's identity and keypair on one host: mesh_register, sync,      *)
(* deregister and refresh (session_relay.py, registry_bridge.py), the      *)
(* identity file and the cache in front of it (identity.py), and the       *)
(* keypair that sends mint on first use (auth.py), used by several gateway *)
(* processes at once without a lock.                                       *)
(*                                                                         *)
(* Key 0 is a public key from elsewhere: passed explicitly, or found in    *)
(* the peer registry.  Key n > 0 is the n-th pair minted on this host, in  *)
(* the default file, the only one that registrations look at.  A gateway   *)
(* whose configuration sets private_key_path signs with another pair.      *)
(***************************************************************************)
EXTENDS Integers

CONSTANTS
    Gateways,   \* gateway processes; each runs one tool call at a time
    Configured, \* those of them that set private_key_path to another file
    OwnKey,     \* the pair in that file
    NoKey,      \* no keypair file, or no key passed
    Absent,     \* no identity file
    Torn,       \* an identity file that is truncated or mixed
    Unknown,    \* no cache entry
    MaxKeys     \* bound: keypairs minted

ASSUME RegistrationAssumption ==
    /\ MaxKeys \in Nat
    /\ Configured \subseteq Gateways
    /\ \A v \in {OwnKey, NoKey, Absent, Torn, Unknown} : v \notin 0 .. MaxKeys
    /\ Absent # Torn /\ Unknown # Absent

VARIABLES
    identity,  \* the public key in identity.yaml, or what is wrong with it
    keypair,   \* the pair in the default file, ~/.mesh/keys/<name>.pem
    minted,    \* pairs minted so far
    cache,     \* per gateway, the cached lookup
    pc,        \* where each gateway's call is
    key,       \* the key its call will publish, once chosen
    overwrite, \* whether its call may replace an identity
    orphan,    \* writers whose open file has been removed
    behind,    \* history: caches older than the file's last write
    outdated,  \* history: calls that decided on a look older than that
    foreign,   \* history: an identity came from elsewhere
    lost       \* history: the keypair file was lost

vars == <<identity, keypair, minted, cache, pc, key, overwrite, orphan,
          behind, outdated, foreign, lost>>
host == <<identity, keypair, minted, orphan>>

Keys == 0 .. MaxKeys

TypeOK ==
    /\ identity \in Keys \cup {Absent, Torn}
    /\ keypair \in Keys \cup {NoKey}
    /\ minted \in 0 .. MaxKeys
    /\ cache \in [Gateways -> Keys \cup {Absent, Unknown}]
    /\ pc \in [Gateways -> {"idle", "key", "mint", "check", "open", "dump"}]
    /\ key \in [Gateways -> Keys \cup {NoKey}]
    /\ overwrite \in [Gateways -> BOOLEAN]
    /\ \A g \in Gateways : pc[g] \in {"check", "open", "dump"} => key[g] \in Keys
    /\ orphan \subseteq Gateways
    /\ behind \subseteq Gateways /\ outdated \subseteq Gateways
    /\ foreign \in BOOLEAN /\ lost \in BOOLEAN

\* A host before its first use, or one whose vault was copied from elsewhere.
Init ==
    /\ identity \in {Absent, 0}
    /\ keypair = NoKey /\ minted = 0
    /\ cache = [g \in Gateways |-> Unknown]
    /\ pc = [g \in Gateways |-> "idle"]
    /\ key = [g \in Gateways |-> NoKey]
    /\ overwrite = [g \in Gateways |-> FALSE]
    /\ orphan = {} /\ behind = {} /\ outdated = {}
    /\ foreign = (identity = 0) /\ lost = FALSE

Goto(g, label) == pc' = [pc EXCEPT ![g] = label]

Leave(g) ==
    /\ Goto(g, "idle")
    /\ key' = [key EXCEPT ![g] = NoKey]
    /\ overwrite' = [overwrite EXCEPT ![g] = FALSE]
Return(g) == Leave(g) /\ outdated' = outdated \ {g}

Publish(g, k) == Goto(g, "check") /\ key' = [key EXCEPT ![g] = k]
-----------------------------------------------------------------------------
\* A file that does not parse to an identity counts as none.
OnDisk == IF identity \in Keys THEN identity ELSE Absent

\* get_raw_agent_identity: the cached entry if there is one, else the file.
Found(g) == IF cache[g] # Unknown THEN cache[g] ELSE OnDisk

Look(g) ==
    /\ cache' = [cache EXCEPT ![g] = Found(g)]
    /\ behind' = IF cache[g] # Unknown THEN behind ELSE behind \ {g}

Decide(g) ==
    /\ Look(g)
    /\ outdated' = IF g \in behind' THEN outdated \cup {g} ELSE outdated \ {g}

\* Any other lookup: verifying a message, resolving a target, listing.
Lookup(g) ==
    /\ Look(g)
    /\ UNCHANGED <<host, pc, key, overwrite, outdated, foreign, lost>>

\* Mutant: an entry whose file is gone has no mtime to compare and stays.
RefreshChanged(g) ==
    /\ identity # Absent
    /\ cache' = [cache EXCEPT ![g] = Unknown]
    /\ UNCHANGED <<host, pc, key, overwrite, behind, outdated, foreign, lost>>

\* mesh_refresh_identities, the TTL, or a changed mtime.
Refresh(g) ==
    /\ cache' = [cache EXCEPT ![g] = Unknown]
    /\ UNCHANGED <<host, pc, key, overwrite, behind, outdated, foreign, lost>>

\* load_or_generate_keypair without a configured path: the pair in the default
\* file, or a new one in it.
LoadOrGenerate ==
    IF keypair # NoKey THEN UNCHANGED <<keypair, minted>>
    ELSE /\ minted < MaxKeys
         /\ minted' = minted + 1
         /\ keypair' = minted + 1

\* What a gateway's messages are signed with.
SignsWith(g) == IF g \in Configured THEN OwnKey ELSE keypair

\* A send, notification, outbox retry or registry call of the agent signs.
\* Where a path is configured the default file is neither read nor made.
Sign(g) ==
    /\ g \notin Configured
    /\ LoadOrGenerate
    /\ UNCHANGED <<identity, cache, pc, key, overwrite, orphan, behind, outdated, foreign, lost>>
-----------------------------------------------------------------------------
\* _register_one, its arguments validated.  The flags are chosen where the
\* code first looks at them.
Register(g) ==
    /\ pc[g] = "idle"
    /\ \/ Publish(g, 0)
       \/ Goto(g, "key") /\ UNCHANGED key
    /\ UNCHANGED <<host, cache, overwrite, behind, outdated, foreign, lost>>

\* Mutant: registering always makes a new pair.
UseExistingNever(g) ==
    /\ pc[g] = "key" /\ minted < MaxKeys
    /\ minted' = minted + 1 /\ keypair' = minted + 1
    /\ Publish(g, minted + 1)
    /\ UNCHANGED <<identity, cache, overwrite, orphan, behind, outdated, foreign, lost>>

\* existing_public_key: the pair that is there.
UseExisting(g) ==
    /\ pc[g] = "key" /\ keypair # NoKey
    /\ Publish(g, keypair)
    /\ UNCHANGED <<host, cache, overwrite, behind, outdated, foreign, lost>>

\* Mutant: without a pair one is generated, whoever has the identity.
KeyTrapGuardOff(g) ==
    /\ pc[g] = "key" /\ keypair = NoKey
    /\ Decide(g)
    /\ Goto(g, "mint")
    /\ UNCHANGED <<host, key, overwrite, foreign, lost>>

\* The key-trap guard: no pair and an identity is refused; neither goes on.
KeyTrapGuard(g) ==
    /\ pc[g] = "key" /\ keypair = NoKey
    /\ Decide(g)
    /\ IF Found(g) # Absent
       THEN Leave(g)
       ELSE Goto(g, "mint") /\ UNCHANGED <<key, overwrite>>
    /\ UNCHANGED <<host, foreign, lost>>

\* Mutant: publishes what existing_public_key returned, not the new pair.
MintUnread(g) ==
    /\ pc[g] = "mint"
    /\ LoadOrGenerate
    /\ Publish(g, keypair)
    /\ UNCHANGED <<identity, cache, overwrite, orphan, behind, outdated, foreign, lost>>

\* get_public_key for what the guard took for a brand-new agent.
Mint(g) ==
    /\ pc[g] = "mint"
    /\ LoadOrGenerate
    /\ Publish(g, keypair')
    /\ UNCHANGED <<identity, cache, overwrite, orphan, behind, outdated, foreign, lost>>

DryRun(g) ==
    /\ pc[g] = "check"
    /\ Return(g)
    /\ UNCHANGED <<host, cache, behind, foreign, lost>>

\* Mutant: the flag is not looked at.
ExistsNever(g) ==
    /\ pc[g] = "check"
    /\ overwrite' \in {[overwrite EXCEPT ![g] = flag] : flag \in BOOLEAN}
    /\ Goto(g, "open")
    /\ UNCHANGED <<host, cache, behind, outdated, key, foreign, lost>>

\* Without overwrite an identity that is found is left alone.
Exists(g) ==
    /\ pc[g] = "check"
    /\ \/ /\ overwrite' = [overwrite EXCEPT ![g] = TRUE]
          /\ Goto(g, "open")
          /\ UNCHANGED <<cache, behind, outdated, key>>
       \/ /\ Decide(g)
          /\ IF Found(g) # Absent
             THEN Leave(g)
             ELSE Goto(g, "open") /\ UNCHANGED <<key, overwrite>>
    /\ UNCHANGED <<host, foreign, lost>>

\* sync_peer: the registry's key, over whatever is there.
Sync(g) ==
    /\ pc[g] = "idle"
    /\ key' = [key EXCEPT ![g] = 0]
    /\ overwrite' = [overwrite EXCEPT ![g] = TRUE]
    /\ Goto(g, "open")
    /\ UNCHANGED <<host, cache, behind, outdated, foreign, lost>>

\* write_agent_identity: open(..., "w") makes or truncates the file ...
Open(g) ==
    /\ pc[g] = "open"
    /\ identity' = Torn
    /\ orphan' = orphan \ {g}
    /\ foreign' = (foreign \/ key[g] = 0)
    /\ Goto(g, "dump")
    /\ UNCHANGED <<keypair, minted, cache, key, overwrite, behind, outdated, lost>>

\* ... and the dump fills it, unless it was removed meanwhile; over another
\* writer's dump of another length it leaves a mixture.  Then the gateway pops
\* its own cache entry.
Dump(g) ==
    /\ pc[g] = "dump"
    /\ IF g \in orphan
       THEN UNCHANGED <<identity, behind>> /\ outdated' = outdated \ {g}
       ELSE /\ identity' \in {key[g]}
                             \cup (IF identity \in Keys THEN {Torn} ELSE {})
            /\ behind' = Gateways
            /\ outdated' = {w \in Gateways \ {g} : pc[w] # "idle"}
    /\ cache' = [cache EXCEPT ![g] = Unknown]
    /\ Leave(g)
    /\ UNCHANGED <<keypair, minted, orphan, foreign, lost>>

\* The dump raises, and nothing puts the old identity back.
DumpFails(g) ==
    /\ pc[g] = "dump"
    /\ identity' = IF g \in orphan THEN identity ELSE Torn
    /\ Return(g)
    /\ UNCHANGED <<keypair, minted, cache, orphan, behind, foreign, lost>>

\* handle_mesh_deregister: rmtree of the agent's directory; keys and caches stay.
Deregister(g) ==
    /\ pc[g] = "idle" /\ identity # Absent
    /\ identity' = Absent
    /\ orphan' = {w \in Gateways : pc[w] = "dump"}
    /\ UNCHANGED <<keypair, minted, cache, pc, key, overwrite, behind, outdated, foreign, lost>>

\* The process dies in a call, and starts again without a cache.
Crash(g) ==
    /\ pc[g] # "idle"
    /\ Return(g)
    /\ cache' = [cache EXCEPT ![g] = Unknown]
    /\ UNCHANGED <<host, behind, foreign, lost>>

\* The keypair file is deleted, or not carried along with the vault.
Lose ==
    /\ keypair # NoKey
    /\ keypair' = NoKey /\ lost' = TRUE
    /\ UNCHANGED <<identity, minted, cache, pc, key, overwrite, orphan, behind, outdated, foreign>>

Next ==
    \/ Lose
    \/ \E g \in Gateways :
         \/ Sign(g) \/ Lookup(g) \/ Refresh(g) \/ Register(g) \/ UseExisting(g)
         \/ KeyTrapGuard(g) \/ Mint(g) \/ DryRun(g) \/ Exists(g) \/ Sync(g)
         \/ Open(g) \/ Dump(g) \/ DumpFails(g) \/ Deregister(g)
         \/ Crash(g)

Spec == Init /\ [][Next]_vars

\* Entries expire (MESH_IDENTITY_CACHE_TTL); nothing else need ever happen.
FairSpec == Spec /\ \A g \in Gateways : WF_vars(Refresh(g))
-----------------------------------------------------------------------------
\* As long as every key came from this host and its keypair file was kept, the
\* key an identity publishes is the one that each gateway signs with, unless it
\* is configured to sign with another, however registrations, first sends, torn
\* writes and crashes interleave: peers can verify the messages
\* (session_relay.py:1312-1316).  A configured gateway's they cannot: the
\* registration takes the default pair (1318, 1332).
SignaturesVerify ==
    ~foreign /\ ~lost /\ identity \in Keys
    => \A g \in Gateways \ Configured : identity = SignsWith(g)

\* The key-trap guard fails only against what its gateway could not see: where
\* a registration mints a pair although the agent has an identity, the file
\* was written after that gateway last read it (session_relay.py:1321-1330).
MintsOnlyUnseen ==
    [][\A g \in Gateways :
          pc[g] = "mint" /\ pc'[g] = "check" /\ keypair' # keypair
          => identity \notin Keys \/ g \in outdated]_vars

\* Nor does a registration without overwrite replace an identity, but one that
\* was written after its gateway last read the file: neither the cache nor the
\* gap between check and write hides an older one (session_relay.py:1344-1345).
OverwritesOnlyUnseen ==
    [][\A g \in Gateways :
          pc[g] = "open" /\ pc'[g] = "dump" /\ ~overwrite[g]
          => identity \notin Keys \/ g \in outdated]_vars

\* A registration that was given no key rotates the agent's key only where the
\* identity carries one from elsewhere, or the keypair file has been lost: it
\* never replaces one key of this host by another (session_relay.py:1312-1320).
RotatesOnlyForeign ==
    [][\A g \in Gateways :
          pc[g] = "open" /\ pc'[g] = "dump" /\ key[g] # 0 /\ ~lost
          => identity \notin Keys \ {0} \/ key[g] = identity]_vars

\* An agent that was deregistered for good is in the end found by no gateway,
\* although deregister leaves their caches alone (session_relay.py:1441).
Forgotten ==
    <>[](identity = Absent) => \A g \in Gateways : <>[](Found(g) = Absent)

\* "NEVER over an existing identity: generating here would silently rotate the
\* agent's key" (session_relay.py:1314-1315): a registration that was given no
\* key leaves the key of the identity it replaces as it was.
KeysNeverRotate ==
    [][\A g \in Gateways :
          pc[g] = "open" /\ pc'[g] = "dump" /\ key[g] # 0
          => identity \notin Keys \/ key[g] = identity]_vars
=============================================================================
