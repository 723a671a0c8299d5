----------------------------- MODULE SigningKeys -----------------------------
(***************************************************************************)
(* The life of the signing keys, internal/signingkeys: Bootstrap and the   *)
(* retire sweep at start-up, Rotate with its trailing sweep, and           *)
(* EmergencyRetire, against token requests that read the active key and    *)
(* sign with it a little later.  One server process runs at a time; it may *)
(* crash at any point.                                                     *)
(*                                                                         *)
(* Transactions that hold their row lock from the first write to the       *)
(* commit are one step.  What is read before that, outside a lock, is a    *)
(* step of its own.                                                        *)
(***************************************************************************)
EXTENDS Naturals

CONSTANTS
    Keys, NoKey,
    Tasks,      \* requests that may be in flight together
    AccessTTL,  \* the longest access_token_ttl_secs that settings accept
    Grace,      \* 15m + 24h + 30s, the age at which a retiring key is retired
    MaxDelay,   \* how long a request may take (the server's WriteTimeout)
    MaxClock    \* bound on the clock

ASSUME KeyAssumption == NoKey \notin Keys

ASSUME TimeAssumption ==
    /\ AccessTTL \in Nat /\ Grace \in Nat /\ MaxDelay \in Nat /\ MaxClock \in Nat
    /\ Grace >= AccessTTL + 2 * MaxDelay

VARIABLES
    clock,
    keyStatus,  \* signing_keys.status, "none" for a key not generated yet
    rotatedAt,  \* signing_keys.rotated_at
    server,     \* "down", "booting" (Bootstrap is done) or "up"
    stage, key, since,  \* a request's step, the key it read and when
    todo,       \* the ids a sweep has listed
    tokenExp,   \* the latest expiry of a token each key has signed
    \* History, read by properties only:
    emergency,  \* keys retired by EmergencyRetire
    shared      \* keys that a rotation read while another was about to replace them

history == <<emergency, shared>>
keysVars == <<clock, keyStatus, rotatedAt, server, stage, key, since, todo, tokenExp, history>>

KeysTypeOK ==
    /\ clock \in Nat
    /\ keyStatus \in [Keys -> {"none", "active", "retiring", "retired"}]
    /\ rotatedAt \in [Keys -> Nat] /\ tokenExp \in [Keys -> Nat]
    /\ server \in {"down", "booting", "up"}
    /\ stage \in [Tasks -> {"idle", "sign", "rotate", "list", "sweep"}]
    /\ key \in [Tasks -> Keys \cup {NoKey}]
    /\ since \in [Tasks -> Nat]
    /\ todo \in [Tasks -> SUBSET Keys]
    /\ emergency \subseteq Keys /\ shared \subseteq Keys

Active == {k \in Keys : keyStatus[k] = "active"}

\* ListPublishable and BuildJWKSet: the keys a verifier can fetch.
Publishable == {k \in Keys : keyStatus[k] \in {"active", "retiring"}}

\* Mutant: every retiring key is listed.
ListRetiring == {k \in Keys : keyStatus[k] = "retiring"}

ListRetirable == {k \in Keys : keyStatus[k] = "retiring" /\ rotatedAt[k] + Grace < clock}

\* Time does not pass a request that has used up its delay.
KeysTick ==
    /\ clock < MaxClock
    /\ \A p \in Tasks : stage[p] \in {"sign", "rotate"} => clock < since[p] + MaxDelay
    /\ clock' = clock + 1
    /\ UNCHANGED <<keyStatus, rotatedAt, server, stage, key, since, todo, tokenExp, history>>

-----------------------------------------------------------------------------
\* Mutant: every boot generates a key.
BootstrapAlways ==
    /\ server = "down"
    /\ server' = "booting"
    /\ \E k \in Keys : /\ keyStatus[k] = "none"
                       /\ keyStatus' = [keyStatus EXCEPT ![k] = "active"]
    /\ UNCHANGED <<clock, rotatedAt, stage, key, since, todo, tokenExp, history>>

\* Bootstrap: generate a key if GetActive finds none.
Bootstrap ==
    /\ server = "down"
    /\ server' = "booting"
    /\ \/ Active # {} /\ UNCHANGED keyStatus
       \/ /\ Active = {}
          /\ \E k \in Keys : /\ keyStatus[k] = "none"
                             /\ keyStatus' = [keyStatus EXCEPT ![k] = "active"]
    /\ UNCHANGED <<clock, rotatedAt, stage, key, since, todo, tokenExp, history>>

\* RetireSweep at start-up.  It stops at the first error, which is not fatal.
BootSweep ==
    /\ server = "booting"
    /\ \E done \in SUBSET ListRetirable :
         keyStatus' = [k \in Keys |-> IF k \in done THEN "retired" ELSE keyStatus[k]]
    /\ server' = "up"
    /\ UNCHANGED <<clock, rotatedAt, stage, key, since, todo, tokenExp, history>>

Crash ==
    /\ server' = "down"
    /\ stage' = [p \in Tasks |-> "idle"]
    /\ key' = [p \in Tasks |-> NoKey]
    /\ since' = [p \in Tasks |-> 0]
    /\ todo' = [p \in Tasks |-> {}]
    /\ UNCHANGED <<clock, keyStatus, rotatedAt, tokenExp, history>>

Move(p, label) == stage' = [stage EXCEPT ![p] = label]

Done(p) ==
    /\ Move(p, "idle")
    /\ key' = [key EXCEPT ![p] = NoKey]
    /\ since' = [since EXCEPT ![p] = 0]
    /\ todo' = [todo EXCEPT ![p] = {}]

\* GetActive; LIMIT 1 picks any active key.
GetActive(p, label) ==
    /\ server = "up" /\ stage[p] = "idle"
    /\ \E k \in Active : key' = [key EXCEPT ![p] = k]
    /\ since' = [since EXCEPT ![p] = clock]
    /\ Move(p, label)
    /\ UNCHANGED <<clock, keyStatus, rotatedAt, server, todo, tokenExp, emergency>>

-----------------------------------------------------------------------------
\* /token reads the key, then takes the time and signs.
TokenRequest(p) == GetActive(p, "sign") /\ UNCHANGED shared

Sign(p) ==
    /\ stage[p] = "sign"
    /\ tokenExp' = [tokenExp EXCEPT ![key[p]] = clock + AccessTTL]
    /\ Done(p)
    /\ UNCHANGED <<clock, keyStatus, rotatedAt, server, history>>

\* Rotate's transaction begins, which fixes now(), and reads the active key.
RotateBegin(p) ==
    /\ GetActive(p, "rotate")
    /\ shared' = shared \cup
         {key[q] : q \in {q \in Tasks : stage[q] = "rotate" /\ key[q] = key'[p]}}

\* Mutant: MarkRetiring without AND status = 'active'.
RotateCommitUnconditional(p) ==
    /\ stage[p] = "rotate"
    /\ \E n \in Keys :
         /\ keyStatus[n] = "none"
         /\ keyStatus' = [keyStatus EXCEPT ![n] = "active", ![key[p]] = "retiring"]
    /\ rotatedAt' = [rotatedAt EXCEPT ![key[p]] = since[p]]
    /\ Move(p, "list")
    /\ UNCHANGED <<clock, server, key, since, todo, tokenExp, history>>

\* Mutant: the new key waits for an activation that does not come.
RotateCommitInactive(p) ==
    /\ stage[p] = "rotate"
    /\ keyStatus' = [keyStatus EXCEPT ![key[p]] = "retiring"]
    /\ rotatedAt' = [rotatedAt EXCEPT ![key[p]] = since[p]]
    /\ Move(p, "list")
    /\ UNCHANGED <<clock, server, key, since, todo, tokenExp, history>>

\* MarkRetiring, which matches no row if another Rotate was faster, Insert,
\* audit and commit.  The number of rows is not looked at.
RotateCommit(p) ==
    /\ stage[p] = "rotate"
    /\ \E n \in Keys :
         /\ keyStatus[n] = "none"
         /\ IF keyStatus[key[p]] = "active"
              THEN /\ keyStatus' = [keyStatus EXCEPT ![n] = "active", ![key[p]] = "retiring"]
                   /\ rotatedAt' = [rotatedAt EXCEPT ![key[p]] = since[p]]
              ELSE /\ keyStatus' = [keyStatus EXCEPT ![n] = "active"]
                   /\ UNCHANGED rotatedAt
    /\ Move(p, "list")
    /\ UNCHANGED <<clock, server, key, since, todo, tokenExp, history>>

\* RetireSweep after the commit: ListRetirable ...
SweepList(p) ==
    /\ stage[p] = "list"
    /\ todo' = [todo EXCEPT ![p] = ListRetirable]
    /\ Move(p, "sweep")
    /\ UNCHANGED <<clock, keyStatus, rotatedAt, server, key, since, tokenExp, history>>

\* ... and a transaction with MarkRetired for each id.
SweepOne(p, k) ==
    /\ stage[p] = "sweep" /\ k \in todo[p]
    /\ keyStatus' = IF keyStatus[k] = "retiring" THEN [keyStatus EXCEPT ![k] = "retired"]
                    ELSE keyStatus
    /\ todo' = [todo EXCEPT ![p] = @ \ {k}]
    /\ UNCHANGED <<clock, rotatedAt, server, stage, key, since, tokenExp, history>>

\* The request ends: the sweep is through, or something failed.
EndRequest(p) ==
    /\ stage[p] # "idle"
    /\ Done(p)
    /\ UNCHANGED <<clock, keyStatus, rotatedAt, server, tokenExp, history>>

\* SELECT ... FOR UPDATE, the switch on the status, MarkRetired and commit.
EmergencyRetire(k) ==
    /\ server = "up" /\ keyStatus[k] = "retiring"
    /\ keyStatus' = [keyStatus EXCEPT ![k] = "retired"]
    /\ emergency' = emergency \cup {k}
    /\ UNCHANGED <<clock, rotatedAt, server, stage, key, since, todo, tokenExp, shared>>

-----------------------------------------------------------------------------
KeysInit ==
    /\ clock = 0 /\ server = "down" /\ emergency = {} /\ shared = {}
    /\ keyStatus = [k \in Keys |-> "none"]
    /\ rotatedAt = [k \in Keys |-> 0] /\ tokenExp = [k \in Keys |-> 0]
    /\ stage = [p \in Tasks |-> "idle"]
    /\ key = [p \in Tasks |-> NoKey]
    /\ since = [p \in Tasks |-> 0]
    /\ todo = [p \in Tasks |-> {}]

Handler(p) ==
    \/ TokenRequest(p) \/ Sign(p)
    \/ RotateBegin(p) \/ RotateCommit(p) \/ SweepList(p) \/ EndRequest(p)
    \/ \E k \in Keys : SweepOne(p, k)

KeysNext ==
    \/ KeysTick \/ Bootstrap \/ BootSweep \/ Crash
    \/ \E k \in Keys : EmergencyRetire(k)
    \/ \E p \in Tasks : Handler(p)

KeysSpec == KeysInit /\ [][KeysNext]_keysVars

-----------------------------------------------------------------------------
(* Properties *)

\* A server that takes requests always has a key to sign with, through
\* rotations that race, emergency retirements and crashes (Bootstrap, Rotate,
\* the "active" case of EmergencyRetire).
KeyAvailable == server = "up" => Active # {}

\* A token that has not expired can be verified with a published key unless
\* an admin retired the key on purpose, even one that was signed by a request
\* that had read the key before it was rotated (RetireSweep: "otherwise
\* tokens signed by the key could still be in flight when we stop
\* publishing it").
Verifiable ==
    \A k \in Keys \ emergency : clock < tokenExp[k] => k \in Publishable

\* A key only moves forward: active, retiring, retired (docs/security.md,
\* "Signing keys").  A Rotate that read the key before another one replaced
\* it does not bring it back.
Lifecycle ==
    [][\A k \in Keys :
          /\ keyStatus[k] = "retired" => keyStatus'[k] = "retired"
          /\ keyStatus[k] = "retiring" => keyStatus'[k] \in {"retiring", "retired"}
          /\ keyStatus[k] = "active" => keyStatus'[k] \in {"active", "retiring"}]_keysVars

\* There is one active key at most until two rotations have overlapped, the
\* second reading the key before the first had made it retiring: its
\* MarkRetiring then matches no row, which nobody looks at ("previous active
\* is now retiring", test/integration/signing_key_rotate_test.go).  Crashes,
\* boots and emergency retirements never lead to a second one.
OneActiveKey ==
    \A k, l \in Active : k # l => shared # {}

-----------------------------------------------------------------------------
(* The strengthening that is proved. *)

\* Nobody is at work while the server is down, and every request that has
\* read a key did so at most MaxDelay ago.
RequestInv ==
    /\ server # "up" => \A p \in Tasks : stage[p] = "idle"
    /\ \A p \in Tasks : stage[p] \in {"sign", "rotate"} =>
         /\ key[p] \in Keys /\ keyStatus[key[p]] # "none"
         /\ since[p] <= clock /\ clock <= since[p] + MaxDelay

\* A key that is retiring was rotated at most MaxDelay before the rotation
\* took effect, so nobody reads it later than that and nothing it signs
\* outlives the grace period; a key that is retired is past it.
AgeInv ==
    \A k \in Keys :
      /\ keyStatus[k] = "none" => tokenExp[k] = 0
      /\ keyStatus[k] = "active" => tokenExp[k] <= clock + AccessTTL
      /\ keyStatus[k] \in {"retiring", "retired"} =>
           /\ tokenExp[k] <= rotatedAt[k] + 2 * MaxDelay + AccessTTL
           /\ \A p \in Tasks : stage[p] = "sign" /\ key[p] = k =>
                since[p] <= rotatedAt[k] + MaxDelay
      /\ keyStatus[k] = "retired" /\ k \notin emergency => rotatedAt[k] + Grace < clock

\* A listed key was past the grace period when it was listed.
SweepInv ==
    \A p \in Tasks : \A k \in todo[p] :
        keyStatus[k] \in {"retiring", "retired"} /\ rotatedAt[k] + Grace < clock

\* Unless two rotations have shared a key, the key of a rotation is the active
\* one.
RotationInv ==
    shared = {} =>
      /\ OneActiveKey
      /\ \A p, q \in Tasks : stage[p] = "rotate" /\ stage[q] = "rotate" => p = q
      /\ \A p \in Tasks : stage[p] = "rotate" => keyStatus[key[p]] = "active"

LifeInv ==
    /\ KeysTypeOK /\ RequestInv /\ AgeInv /\ SweepInv
    /\ server # "down" => Active # {}

KeyInv == LifeInv /\ RotationInv

=============================================================================
