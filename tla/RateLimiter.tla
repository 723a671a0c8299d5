----------------------------- MODULE RateLimiter -----------------------------
(***************************************************************************)
(* The rate limiters, for one key of one of them: the sliding window per   *)
(* address of internal/middleware/ratelimit.go, a sorted set whose scores  *)
(* are the clock of the handler, or the fixed window per client of         *)
(* internal/authserver/token.go, a counter.  A pipeline is no transaction: *)
(* its commands are steps, between which other requests run theirs and     *)
(* after any of which the connection may be lost.  A time is kept as its   *)
(* age, how long ago it was, so that the clock needs no bound.             *)
(***************************************************************************)
EXTENDS Naturals, FiniteSets

CONSTANTS
    Procs,              \* requests in flight
    Members, NoMember,  \* the names of members of the set
    Limit, Window,
    MaxDelay,           \* bound on the age of a request in flight
    MaxCount            \* bound on the counter

RateConstants ==
    /\ NoMember \notin Members
    /\ Limit \in Nat \ {0} /\ Window \in Nat \ {0} /\ MaxDelay \in Nat /\ MaxCount \in Nat

ASSUME RateAssumption == RateConstants

VARIABLES
    kind,               \* the limiter: "sliding" or "fixed"
    zset,               \* members with the age of their score
    count,              \* the counter
    ttl,                \* time to live of the key, 0 for none
    pc,
    member, age,        \* of a request: its member, and the age of its time.Now()
    \* History, read by properties only:
    before,             \* requests that were in flight when it arrived
    fresh,              \* members added since the last EXPIRE
    admitted,           \* requests counted in whose window is not over
    calls,              \* token requests counted in whose window is not over
    stuck               \* an error has left the counter without its EXPIRE

locals == <<member, age, before>>
sliding == <<zset, locals, fresh, admitted>>
fixed == <<count, calls, stuck>>
vars == <<kind, ttl, pc, sliding, fixed>>

Aged == [member : Members, age : Nat]

\* A counted token request: the nth of this life of the counter, or of an
\* earlier one.
Calls == [nth : 1..Limit, life : {"this", "last"}, age : 0..(Window - 1)]

Pipeline == {"remove", "add", "card", "expireOver", "expireUnder", "serve", "reject"}

TypeOK ==
    /\ kind \in {"sliding", "fixed"}
    /\ zset \subseteq Aged /\ ttl \in Nat /\ count \in Nat
    /\ pc \in [Procs -> {"idle", "lifetime"} \cup Pipeline]
    /\ member \in [Procs -> Members \cup {NoMember}] /\ age \in [Procs -> Nat]
    /\ before \in [Procs -> SUBSET Members]
    /\ admitted \subseteq Aged /\ fresh \subseteq Members
    /\ calls \subseteq Calls /\ stuck \in BOOLEAN

Goto(p, label) == pc' = [pc EXCEPT ![p] = label]

Return(p) ==
    /\ Goto(p, "idle")
    /\ member' = [member EXCEPT ![p] = NoMember] /\ age' = [age EXCEPT ![p] = 0]
    /\ before' = [before EXCEPT ![p] = {}]

InFlight == {member[p] : p \in Procs} \ {NoMember}

\* The age of what every request in flight finds too old goes no further.
Older(S) ==
    {[m EXCEPT !.age = IF @ < Window + MaxDelay THEN @ + 1 ELSE @] : m \in S}

Within(S) == {m \in S : m.age < Window}

OlderCall(c) ==
    [nth |-> c.nth, life |-> IF ttl = 1 THEN "last" ELSE c.life, age |-> c.age + 1]

\* Time passes.  A key whose time has come is gone, and with it the members
\* for which it was not yet renewed.
Tick ==
    /\ \A p \in Procs : age[p] < MaxDelay
    /\ age' = [p \in Procs |-> IF pc[p] = "idle" THEN 0 ELSE age[p] + 1]
    /\ ttl' = IF ttl = 0 THEN 0 ELSE ttl - 1
    /\ IF ttl = 1
       THEN zset' = {} /\ admitted' = {a \in Within(Older(admitted)) : a.member \notin fresh}
       ELSE zset' = Older(zset) /\ admitted' = Within(Older(admitted))
    /\ count' = IF ttl = 1 THEN 0 ELSE count
    /\ calls' = {OlderCall(c) : c \in {d \in calls : d.age + 1 < Window}}
    /\ UNCHANGED <<kind, pc, member, before, fresh, stuck>>

-----------------------------------------------------------------------------
(* RateLimiter.allow *)

Allow(p) ==
    /\ pc[p] = "idle" /\ kind = "sliding"
    /\ \E m \in Members \ (InFlight \cup {n.member : n \in zset \cup admitted}) :
         member' = [member EXCEPT ![p] = m]
    /\ before' = [before EXCEPT ![p] = InFlight]
    /\ Goto(p, "remove")
    /\ UNCHANGED <<kind, zset, ttl, age, fresh, admitted, fixed>>

\* A set that is empty is no key, and has no lifetime.
Keep(S) == zset' = S /\ ttl' = IF S = {} THEN 0 ELSE ttl

\* Mutant: the window is open at its beginning.
ZRemRangeByScoreBelow(p) ==
    /\ pc[p] = "remove"
    /\ Keep({m \in zset : m.age <= age[p] + Window})
    /\ Goto(p, "add")
    /\ UNCHANGED <<kind, locals, fresh, admitted, fixed>>

ZRemRangeByScore(p) ==
    /\ pc[p] = "remove"
    /\ Keep({m \in zset : m.age < age[p] + Window})
    /\ Goto(p, "add")
    /\ UNCHANGED <<kind, locals, fresh, admitted, fixed>>

ZAdd(p) ==
    /\ pc[p] = "add"
    /\ zset' = zset \cup {[member |-> member[p], age |-> age[p]]}
    /\ fresh' = fresh \cup {member[p]}
    /\ Goto(p, "card")
    /\ UNCHANGED <<kind, ttl, locals, admitted, fixed>>

\* Mutant: the request does not count itself.
ZCardOfOthers(p) ==
    /\ pc[p] = "card"
    /\ IF Cardinality({m \in zset : m.member # member[p]}) > Limit
       THEN Goto(p, "expireOver") /\ UNCHANGED admitted
       ELSE /\ Goto(p, "expireUnder")
            /\ admitted' = admitted \cup Within({m \in zset : m.member = member[p]})
    /\ UNCHANGED <<kind, zset, ttl, locals, fresh, fixed>>

ZCard(p) ==
    /\ pc[p] = "card"
    /\ IF Cardinality(zset) > Limit
       THEN Goto(p, "expireOver") /\ UNCHANGED admitted
       ELSE /\ Goto(p, "expireUnder")
            /\ admitted' = admitted \cup Within({m \in zset : m.member = member[p]})
    /\ UNCHANGED <<kind, zset, ttl, locals, fresh, fixed>>

Expire(p) ==
    /\ pc[p] \in {"expireOver", "expireUnder"}
    /\ ttl' = IF zset = {} THEN 0 ELSE 2 * Window
    /\ fresh' = {}
    /\ Goto(p, IF pc[p] = "expireOver" THEN "reject" ELSE "serve")
    /\ UNCHANGED <<kind, zset, locals, admitted, fixed>>

\* The handler runs.
ServeHTTP(p) ==
    /\ pc[p] = "serve"
    /\ Return(p)
    /\ UNCHANGED <<kind, zset, ttl, fresh, admitted, fixed>>

\* 429: the request no longer counts ...
ZRem(p) ==
    /\ pc[p] = "reject"
    /\ Keep({m \in zset : m.member # member[p]})
    /\ Return(p)
    /\ UNCHANGED <<kind, fresh, admitted, fixed>>

\* ... unless the ZREM failed, which is ignored.
ZRemFails(p) ==
    /\ pc[p] = "reject"
    /\ Return(p)
    /\ UNCHANGED <<kind, zset, ttl, fresh, admitted, fixed>>

\* An error of Exec, after some of the commands or all of them: 503, or
\* without FailClosed the handler runs all the same and uncounted.
PipelineFails(p) ==
    /\ pc[p] \in Pipeline
    /\ Return(p)
    /\ UNCHANGED <<kind, zset, ttl, fresh, admitted, fixed>>

-----------------------------------------------------------------------------
(* TokenHandler.rateLimitCheck *)

NewCall == [nth |-> count + 1, life |-> "this", age |-> 0]

\* Mutant: the count before this request is compared.
CountInOneMore == calls' = IF count <= Limit THEN calls \cup {NewCall} ELSE calls

\* Allowed if the count, with this request, is within the limit.
CountIn == calls' = IF count + 1 <= Limit THEN calls \cup {NewCall} ELSE calls

\* The first request has yet to give the counter its lifetime.
Incr(p) ==
    /\ pc[p] = "idle" /\ kind = "fixed" /\ count < MaxCount
    /\ count' = count + 1
    /\ CountIn
    /\ IF count = 0 THEN Goto(p, "lifetime") ELSE UNCHANGED pc
    /\ UNCHANGED <<kind, ttl, sliding, stuck>>

\* An error of INCR, before or after it has counted: the request is allowed,
\* and there is no EXPIRE.
IncrFails(p) ==
    /\ pc[p] = "idle" /\ kind = "fixed"
    /\ \/ UNCHANGED <<count, stuck>>
       \/ count < MaxCount /\ count' = count + 1 /\ stuck' = (stuck \/ count = 0)
    /\ UNCHANGED <<kind, ttl, pc, sliding, calls>>

ExpireCounter(p) ==
    /\ pc[p] = "lifetime"
    /\ ttl' = Window
    /\ Return(p)
    /\ UNCHANGED <<kind, zset, fresh, admitted, fixed>>

\* Its error is ignored.
ExpireCounterFails(p) ==
    /\ pc[p] = "lifetime"
    /\ stuck' = TRUE
    /\ Return(p)
    /\ UNCHANGED <<kind, ttl, zset, fresh, admitted, count, calls>>

-----------------------------------------------------------------------------
Init ==
    /\ kind \in {"sliding", "fixed"}
    /\ zset = {} /\ ttl = 0 /\ count = 0
    /\ pc = [p \in Procs |-> "idle"]
    /\ member = [p \in Procs |-> NoMember] /\ age = [p \in Procs |-> 0]
    /\ before = [p \in Procs |-> {}] /\ fresh = {} /\ admitted = {}
    /\ calls = {} /\ stuck = FALSE

Next ==
    \/ Tick
    \/ \E p \in Procs :
         \/ Allow(p) \/ ZRemRangeByScore(p) \/ ZAdd(p) \/ ZCard(p) \/ Expire(p)
         \/ ServeHTTP(p) \/ ZRem(p) \/ ZRemFails(p) \/ PipelineFails(p)
         \/ Incr(p) \/ IncrFails(p) \/ ExpireCounter(p) \/ ExpireCounterFails(p)

Spec == Init /\ [][Next]_vars

-----------------------------------------------------------------------------
(* Properties *)

\* "5 requests per minute per IP" by a "sliding window": of the requests that
\* arrived within the last window no more than the limit have been counted in,
\* however their commands interleave, and although a late command carries an
\* old score.  One that the key's expiry forgot, because the pipeline had not
\* yet renewed its lifetime, is not among them (allow).
SlidingBound == Cardinality(admitted) <= Limit

\* A request is rejected only if there are more than Limit, itself included,
\* that arrived since its window began or were in flight when it arrived:
\* nothing older counts against it (ZREMRANGEBYSCORE), although two that
\* overlap may both be rejected.
UnderLimitAdmitted ==
    [][\A p \in Procs :
         pc[p] = "card" /\ pc'[p] = "expireOver" =>
           Cardinality({m \in zset : m.age < age[p] + Window \/ m.member \in before[p]}) > Limit]_vars

\* A client gets at most two limits of counted token requests within a window,
\* because a counter lives for at least one; and the counter has a lifetime
\* unless an error came between its INCR and its EXPIRE, after which no request
\* makes up for it (rateLimitCheck).
TokenWindow ==
    /\ Cardinality(calls) <= 2 * Limit
    /\ count > 0 /\ ttl = 0 => stuck \/ \E p \in Procs : pc[p] = "lifetime"

-----------------------------------------------------------------------------
(* The invariant behind these. *)

\* Every request that counts against the limit is in the set with its own
\* time, so that the next ZCARD sees it, and a key that is about to expire
\* takes along only what is over or what no EXPIRE has covered (allow).
SetInv ==
    /\ IsFiniteSet(zset) /\ admitted \subseteq zset /\ SlidingBound
    /\ \A a \in admitted : a.age < Window
    /\ \A m \in zset : m.member \in fresh \/ m.age + ttl >= Window
    /\ ttl <= 2 * Window
    /\ zset = {} /\ count = 0 => ttl = 0

Undecided == {"remove", "add", "card", "expireOver", "reject"}

\* Requests in flight have members of their own, which count for nothing
\* before ZCARD or after a rejection; of two, one arrived no later than the
\* other or knows of it; and what a request counts is in its window or was in
\* flight when it arrived (allow).
RequestInv ==
    /\ \A p \in Procs :
         /\ pc[p] \in Pipeline <=> member[p] # NoMember
         /\ pc[p] = "idle" => age[p] = 0
         /\ pc[p] \in Undecided => \A a \in admitted : a.member # member[p]
         /\ pc[p] \in {"add", "card"} =>
              \A m \in zset : m.age < age[p] + Window \/ m.member \in before[p]
    /\ \A p, q \in Procs :
         /\ p # q /\ member[p] = member[q] => member[p] = NoMember
         /\ pc[p] \in Pipeline /\ pc[q] \in Pipeline => member[q] \in before[p] \/ age[q] <= age[p]

\* Counted token requests are told apart by their number and the life of the
\* counter: an earlier life than the last is out of the window, because its
\* successor has lived for one (rateLimitCheck).
CounterInv ==
    /\ \A c \in calls :
         /\ c.life = "this" => c.nth <= count
         /\ c.life = "last" /\ ttl > 0 => c.age + ttl >= Window
    /\ \A c, d \in calls : c.nth = d.nth /\ c.life = d.life => c = d
    /\ \A p \in Procs : pc[p] = "lifetime" => count > 0 /\ ttl = 0
    /\ \A p, q \in Procs : pc[p] = "lifetime" /\ pc[q] = "lifetime" => p = q
    /\ count > 0 /\ ttl = 0 => stuck \/ \E p \in Procs : pc[p] = "lifetime"

\* A key belongs to one of the two limiters.
KindInv ==
    /\ kind = "sliding" => count = 0 /\ calls = {} /\ \A p \in Procs : pc[p] # "lifetime"
    /\ kind = "fixed" => zset = {} /\ \A p \in Procs : pc[p] \in {"idle", "lifetime"}

RateInv == TypeOK /\ KindInv /\ SetInv /\ RequestInv /\ CounterInv

=============================================================================
