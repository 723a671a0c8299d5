-------------------------- MODULE RateLimiterProofs --------------------------
(***************************************************************************)
(* Proofs about RateLimiter, for any number of requests in flight, any     *)
(* limit, window and delay.  RateInv is inductive: SetInv is about what    *)
(* the sorted set holds when it is counted, RequestInv about what a        *)
(* request in flight may count, CounterInv about the lives of the token    *)
(* endpoint's counter.                                                     *)
(***************************************************************************)
EXTENDS RateLimiter, TLAPS, FiniteSetTheorems

\* The image of a finite set under ageing is finite and no larger.
LEMMA OlderFinite ==
  ASSUME RateConstants, NEW S, S \subseteq Aged, IsFiniteSet(S)
  PROVE  /\ IsFiniteSet(Older(S))
         /\ Cardinality(Older(S)) <= Cardinality(S)
         /\ Older(S) \subseteq Aged
<1> DEFINE Later(m) == [m EXCEPT !.age = IF @ < Window + MaxDelay THEN @ + 1 ELSE @]
           f == [m \in S |-> Later(m)]
<1>1. f \in Surjection(S, Older(S))
  BY Zenon DEF Surjection, Older
<1>2. Older(S) \subseteq Aged
  BY DEF Older, Aged, RateConstants
<1> QED
  BY <1>1, <1>2, FS_Surjection

\* The limiters begin in their invariant.
LEMMA RateInit == ASSUME RateConstants, Init PROVE RateInv
<1>1. TypeOK
  BY Zenon DEF Init, TypeOK, RateConstants, Aged, Pipeline, Calls
<1>2. KindInv
  BY Zenon DEF Init, KindInv
<1>3. SetInv
  BY FS_EmptySet DEF Init, SetInv, SlidingBound, RateConstants
<1>4. RequestInv
  BY Zenon DEF Init, RequestInv, Pipeline, Undecided, RateConstants
<1>5. CounterInv
  BY DEF Init, CounterInv
<1> QED
  BY <1>1, <1>2, <1>3, <1>4, <1>5, Zenon DEF RateInv

\* Types, across one command of either limiter.
LEMMA RateType == ASSUME RateConstants, TypeOK, RequestInv, [Next]_vars PROVE TypeOK'
<1> USE DEF RateConstants, TypeOK, Goto, Return, locals, sliding, fixed
<1>1. CASE Tick
  <2>1. Older(zset) \subseteq Aged /\ Within(Older(admitted)) \subseteq Aged
    BY DEF Older, Within, Aged
  <2>2. zset' \subseteq Aged /\ admitted' \subseteq Aged
    BY <1>1, <2>1 DEF Tick
  <2>3. calls' \subseteq Calls
    <3> SUFFICES ASSUME NEW c \in calls, c.age + 1 < Window PROVE OlderCall(c) \in Calls
      BY <1>1 DEF Tick
    <3>1. c.nth \in 1..Limit /\ c.life \in {"this", "last"} /\ c.age \in Nat
      BY DEF Calls
    <3>2. c.age + 1 \in 0..(Window - 1)
      BY <3>1
    <3> QED
      BY <3>1, <3>2, Zenon DEF Calls, OlderCall
  <2>4. ttl' \in Nat /\ count' \in Nat
    BY <1>1 DEF Tick
  <2>5. age' \in [Procs -> Nat]
    <3>1. age' = [p \in Procs |-> IF pc[p] = "idle" THEN 0 ELSE age[p] + 1]
      BY <1>1, Zenon DEF Tick
    <3>2. age \in [Procs -> Nat]
      BY Zenon
    <3> HIDE DEF TypeOK
    <3> QED
      BY <3>1, <3>2
  <2> QED
    BY <1>1, <2>2, <2>3, <2>4, <2>5, Zenon DEF Tick
<1>2. ASSUME NEW p \in Procs, Allow(p) PROVE TypeOK'
  <2>1. InFlight \subseteq Members
    BY Zenon DEF InFlight
  <2> QED
    BY <1>2, <2>1 DEF Allow, Pipeline
<1>3. ASSUME NEW p \in Procs, ZRemRangeByScore(p) PROVE TypeOK'
  BY <1>3, Zenon DEF ZRemRangeByScore, Keep, Pipeline
<1>4. ASSUME NEW p \in Procs, RequestInv, ZAdd(p) PROVE TypeOK'
  <2>1. member[p] \in Members
    BY <1>4, Zenon DEF ZAdd, RequestInv, Pipeline
  <2> QED
    BY <1>4, <2>1 DEF ZAdd, Pipeline, Aged
<1>5. ASSUME NEW p \in Procs, ZCard(p) PROVE TypeOK'
  BY <1>5, Zenon DEF ZCard, Pipeline, Within
<1>6. ASSUME NEW p \in Procs, Expire(p) PROVE TypeOK'
  BY <1>6 DEF Expire, Pipeline
<1>7. ASSUME NEW p \in Procs, ServeHTTP(p) \/ ZRemFails(p) \/ PipelineFails(p) PROVE TypeOK'
  BY <1>7 DEF ServeHTTP, ZRemFails, PipelineFails
<1>8. ASSUME NEW p \in Procs, ZRem(p) PROVE TypeOK'
  BY <1>8, Zenon DEF ZRem, Keep
<1>9. ASSUME NEW p \in Procs, Incr(p) PROVE TypeOK'
  <2>1. calls' \subseteq Calls
    BY <1>9 DEF Incr, CountIn, NewCall, Calls
  <2> QED
    BY <1>9, <2>1 DEF Incr
<1>10. ASSUME NEW p \in Procs, IncrFails(p) PROVE TypeOK'
  <2>1. stuck' \in BOOLEAN
    BY <1>10, Zenon DEF IncrFails
  <2> QED
    BY <1>10, <2>1 DEF IncrFails
<1>11. ASSUME NEW p \in Procs, ExpireCounter(p) \/ ExpireCounterFails(p) PROVE TypeOK'
  <2>1. stuck' \in BOOLEAN
    BY <1>11, Zenon DEF ExpireCounter, ExpireCounterFails
  <2> QED
    BY <1>11, <2>1 DEF ExpireCounter, ExpireCounterFails
<1>12. CASE UNCHANGED vars
  BY <1>12, Zenon DEF vars
<1> QED
  BY <1>1, <1>2, <1>3, <1>4, <1>5, <1>6, <1>7, <1>8, <1>9, <1>10, <1>11, <1>12 DEF Next

\* A request never changes from one limiter to the other.
LEMMA KindStep == ASSUME TypeOK, KindInv, [Next]_vars PROVE KindInv'
<1> USE DEF KindInv
<1>1. CASE Tick
  <2>1. zset = {} => Older(zset) = {}
    BY Zenon DEF Older
  <2>2. calls = {} => calls' = {}
    BY <1>1, Zenon DEF Tick
  <2> QED
    BY <1>1, <2>1, <2>2, Zenon DEF Tick
<1>2. ASSUME NEW p \in Procs, kind' = kind, UNCHANGED <<count, calls>>, kind = "sliding",
             \E label \in {"idle"} \cup Pipeline : Goto(p, label)
      PROVE  KindInv'
  BY <1>2, Zenon DEF Goto, Pipeline, TypeOK
<1>3. ASSUME NEW p \in Procs,
             Allow(p) \/ ZRemRangeByScore(p) \/ ZAdd(p) \/ ZCard(p) \/ Expire(p)
      PROVE  KindInv'
  <2>1. kind' = kind /\ UNCHANGED <<count, calls>>
    BY <1>3, Zenon DEF Allow, ZRemRangeByScore, ZAdd, ZCard, Expire, fixed
  <2>2. kind = "sliding"
    BY <1>3, Zenon DEF Allow, ZRemRangeByScore, ZAdd, ZCard, Expire, TypeOK
  <2>3. \E label \in {"idle"} \cup Pipeline : Goto(p, label)
    BY <1>3, Zenon DEF Allow, ZRemRangeByScore, ZAdd, ZCard, Expire, Pipeline
  <2> QED
    BY <1>2, <2>1, <2>2, <2>3, Zenon
<1>4. ASSUME NEW p \in Procs, ServeHTTP(p) \/ ZRem(p) \/ ZRemFails(p) \/ PipelineFails(p)
      PROVE  KindInv'
  <2>1. kind' = kind /\ UNCHANGED <<count, calls>>
    BY <1>4, Zenon DEF ServeHTTP, ZRem, ZRemFails, PipelineFails, fixed
  <2>2. kind = "sliding"
    BY <1>4, Zenon DEF ServeHTTP, ZRem, ZRemFails, PipelineFails, Pipeline, TypeOK
  <2>3. Goto(p, "idle")
    BY <1>4, Zenon DEF ServeHTTP, ZRem, ZRemFails, PipelineFails, Return
  <2> QED
    BY <1>2, <2>1, <2>2, <2>3, Zenon
<1>5. ASSUME NEW p \in Procs, Incr(p) \/ IncrFails(p) \/ ExpireCounter(p) \/ ExpireCounterFails(p)
      PROVE  KindInv'
  <2>1. kind = "fixed" /\ kind' = kind /\ zset' = zset
    BY <1>5, Zenon DEF Incr, IncrFails, ExpireCounter, ExpireCounterFails, sliding, TypeOK
  <2>2. pc' = pc \/ \E label \in {"idle", "lifetime"} : pc' = [pc EXCEPT ![p] = label]
    BY <1>5, Zenon DEF Incr, IncrFails, ExpireCounter, ExpireCounterFails, Return, Goto
  <2> QED
    BY <2>1, <2>2, Zenon DEF TypeOK
<1>6. CASE UNCHANGED vars
  BY <1>6, Zenon DEF vars, sliding, fixed
<1> QED
  BY <1>1, <1>3, <1>4, <1>5, <1>6, Zenon DEF Next

\* Time passes: what is counted ages with its member, and what the key's
\* expiry takes along is over or was never covered by an EXPIRE.
LEMMA SetTick == ASSUME RateConstants, TypeOK, SetInv, Tick PROVE SetInv'
<1>a. /\ Window \in Nat \ {0} /\ MaxDelay \in Nat /\ Limit \in Nat
      /\ ttl \in Nat /\ zset \subseteq Aged /\ admitted \subseteq Aged
  BY Zenon DEF RateConstants, TypeOK
<1>b. /\ IsFiniteSet(zset) /\ admitted \subseteq zset /\ Cardinality(admitted) <= Limit
      /\ \A a \in admitted : a.age < Window
      /\ \A m \in zset : m.member \in fresh \/ m.age + ttl >= Window
      /\ ttl <= 2 * Window /\ (zset = {} /\ count = 0 => ttl = 0)
  BY Zenon DEF SetInv, SlidingBound
<1>c. /\ IsFiniteSet(admitted) /\ Cardinality(admitted) \in Nat
  BY <1>b, FS_Subset, FS_CardinalityType
<1>d. /\ IsFiniteSet(Older(zset)) /\ IsFiniteSet(Older(admitted)) /\ Older(admitted) \subseteq Aged
      /\ Older(zset) \subseteq Aged /\ Cardinality(Older(admitted)) <= Cardinality(admitted)
  BY <1>a, <1>b, <1>c, OlderFinite, Zenon
<1>1. IsFiniteSet(zset')
  BY <1>d, FS_EmptySet, Zenon DEF Tick
<1>2. admitted' \subseteq Older(admitted) /\ \A a \in admitted' : a.age < Window
  BY Zenon DEF Tick, Within
<1>3. SlidingBound'
  <2>1. IsFiniteSet(admitted') /\ Cardinality(admitted') <= Cardinality(Older(admitted))
    BY <1>2, <1>d, FS_Subset, Zenon
  <2>2. Cardinality(admitted') \in Nat /\ Cardinality(Older(admitted)) \in Nat
    BY <2>1, <1>d, FS_CardinalityType, Zenon
  <2> QED
    BY <1>a, <1>b, <1>c, <1>d, <2>1, <2>2 DEF SlidingBound
<1>4. admitted' \subseteq zset'
  <2>1. CASE ttl # 1
    BY <1>b, <2>1 DEF Tick, Within, Older
  <2>2. CASE ttl = 1
    <3> SUFFICES ASSUME NEW a \in admitted' PROVE FALSE
      BY Zenon
    <3>1. PICK m \in admitted :
            a = [m EXCEPT !.age = IF @ < Window + MaxDelay THEN @ + 1 ELSE @]
      BY <1>2, Zenon DEF Older
    <3>2. m.age \in Nat /\ m.age < Window /\ a.member = m.member /\ a.age = m.age + 1
      BY <1>a, <1>b, <3>1 DEF Aged
    <3>3. a.member \notin fresh /\ a.age < Window
      BY <1>2, <2>2, Zenon DEF Tick
    <3> QED
      BY <1>a, <1>b, <2>2, <3>2, <3>3
  <2> QED
    BY <2>1, <2>2, Zenon
<1>5. \A m \in zset' : m.member \in fresh' \/ m.age + ttl' >= Window
  <2> SUFFICES ASSUME NEW a \in zset' PROVE a.member \in fresh \/ a.age + ttl' >= Window
    BY Zenon DEF Tick
  <2>1. ttl # 1 /\ zset' = Older(zset) /\ ttl' = IF ttl = 0 THEN 0 ELSE ttl - 1
    BY Zenon DEF Tick
  <2>2. PICK m \in zset : a = [m EXCEPT !.age = IF @ < Window + MaxDelay THEN @ + 1 ELSE @]
    BY <2>1, Zenon DEF Older
  <2>3. /\ m.age \in Nat /\ a.member = m.member
        /\ a.age = IF m.age < Window + MaxDelay THEN m.age + 1 ELSE m.age
    BY <1>a, <2>2, Zenon DEF Aged
  <2> QED
    BY <1>a, <1>b, <2>1, <2>3
<1>6. ttl' <= 2 * Window
  BY <1>a, <1>b DEF Tick
<1>7. zset' = {} /\ count' = 0 => ttl' = 0
  <2>1. CASE ttl = 1
    BY <2>1 DEF Tick
  <2>2. CASE ttl # 1
    <3>1. Older(zset) = {} => zset = {}
      BY Zenon DEF Older
    <3> QED
      BY <1>b, <2>2, <3>1, Zenon DEF Tick
  <2> QED
    BY <2>1, <2>2, Zenon
<1> QED
  BY <1>1, <1>2, <1>3, <1>4, <1>5, <1>6, <1>7, Zenon DEF SetInv

\* A step that counts no further request and takes none of the counted ones
\* out of the set keeps SetInv, if it leaves lifetimes that still cover the set.
LEMMA SetFrame ==
  ASSUME RateConstants, SetInv, admitted' = admitted, zset' \subseteq zset, admitted \subseteq zset',
         count' = count,
         \/ ttl' = ttl /\ fresh' = fresh /\ zset' # {}
         \/ ttl' = 0 /\ zset' = {}
         \/ UNCHANGED <<zset, ttl, fresh>>
  PROVE  SetInv'
<1>1. IsFiniteSet(zset')
  BY FS_Subset, Zenon DEF SetInv
<1>2. SlidingBound'
  BY Zenon DEF SetInv, SlidingBound
<1>3. \A a \in admitted' : a.age < Window
  BY Zenon DEF SetInv
<1>4. \A m \in zset' : m.member \in fresh' \/ m.age + ttl' >= Window
  BY Zenon DEF SetInv
<1>5. ttl' <= 2 * Window /\ (zset' = {} /\ count' = 0 => ttl' = 0)
  BY DEF SetInv, RateConstants
<1> QED
  BY <1>1, <1>2, <1>3, <1>4, <1>5, Zenon DEF SetInv

\* SetInv across one command of either limiter.
LEMMA SetStep == ASSUME RateConstants, RateInv, [Next]_vars PROVE SetInv'
<1> USE DEF RateInv
<1>1. CASE Tick
  BY <1>1, SetTick, Zenon
<1>2. ASSUME NEW p \in Procs, Allow(p) PROVE SetInv'
  BY <1>2, SetFrame, Zenon DEF Allow, SetInv, fixed
<1>3. ASSUME NEW p \in Procs, ZRemRangeByScore(p) PROVE SetInv'
  <2> DEFINE S == {m \in zset : m.age < age[p] + Window}
  <2>1. admitted \subseteq S
    BY DEF SetInv, TypeOK, RateConstants, Aged
  <2>2. zset' = S /\ ttl' = (IF S = {} THEN 0 ELSE ttl) /\ UNCHANGED <<fresh, admitted, count>>
    BY <1>3, Zenon DEF ZRemRangeByScore, Keep, fixed
  <2>3. S \subseteq zset
    BY Zenon
  <2> HIDE DEF S
  <2> QED
    BY <2>1, <2>2, <2>3, SetFrame, Zenon
<1>4. ASSUME NEW p \in Procs, ZAdd(p) PROVE SetInv'
  <2>1. IsFiniteSet(zset')
    BY <1>4, FS_AddElement, Zenon DEF SetInv, ZAdd
  <2>2. admitted' = admitted /\ ttl' = ttl /\ count' = count /\ zset \subseteq zset'
    BY <1>4, Zenon DEF ZAdd, fixed
  <2>3. \A m \in zset' : m.member \in fresh' \/ m.age + ttl' >= Window
    BY <1>4 DEF SetInv, ZAdd
  <2>4. zset' # {}
    BY <1>4, Zenon DEF ZAdd
  <2> QED
    BY <2>1, <2>2, <2>3, <2>4, Zenon DEF SetInv, SlidingBound
<1>5. ASSUME NEW p \in Procs, ZCard(p) PROVE SetInv'
  <2>1. CASE admitted' = admitted
    BY <1>5, <2>1, SetFrame, Zenon DEF ZCard, SetInv, fixed
  <2>2. CASE /\ ~(Cardinality(zset) > Limit)
             /\ admitted' = admitted \cup Within({m \in zset : m.member = member[p]})
    <3>1. admitted' \subseteq zset /\ \A a \in admitted' : a.age < Window
      BY <2>2, Zenon DEF SetInv, Within
    <3>2. Cardinality(admitted') <= Cardinality(zset)
      BY <3>1, FS_Subset, Zenon DEF SetInv
    <3>3. Cardinality(admitted') \in Nat /\ Cardinality(zset) \in Nat /\ Limit \in Nat
      BY <3>1, FS_Subset, FS_CardinalityType, Zenon DEF SetInv, RateConstants
    <3>4. SlidingBound'
      BY <2>2, <3>2, <3>3 DEF SlidingBound
    <3>5. UNCHANGED <<zset, ttl, fresh, count>>
      BY <1>5, Zenon DEF ZCard, fixed
    <3> QED
      BY <3>1, <3>4, <3>5, Zenon DEF SetInv
  <2> QED
    BY <1>5, <2>1, <2>2, Zenon DEF ZCard
<1>6. ASSUME NEW p \in Procs, Expire(p) PROVE SetInv'
  <2>1. UNCHANGED <<zset, admitted, count>> /\ ttl' = IF zset = {} THEN 0 ELSE 2 * Window
    BY <1>6, Zenon DEF Expire, fixed
  <2>2. \A m \in zset : m.age \in Nat
    BY Zenon DEF TypeOK, Aged
  <2> QED
    BY <2>1, <2>2 DEF SetInv, SlidingBound, RateConstants
<1>7. ASSUME NEW p \in Procs, ZRem(p) PROVE SetInv'
  <2> DEFINE S == {m \in zset : m.member # member[p]}
  <2>1. admitted \subseteq S
    BY <1>7, Zenon DEF SetInv, RequestInv, ZRem, Undecided
  <2>2. zset' = S /\ ttl' = (IF S = {} THEN 0 ELSE ttl) /\ UNCHANGED <<fresh, admitted, count>>
    BY <1>7, Zenon DEF ZRem, Keep, fixed
  <2>3. S \subseteq zset
    BY Zenon
  <2> HIDE DEF S
  <2> QED
    BY <2>1, <2>2, <2>3, SetFrame, Zenon
<1>8. ASSUME NEW p \in Procs, ServeHTTP(p) \/ ZRemFails(p) \/ PipelineFails(p) PROVE SetInv'
  <2>1. UNCHANGED <<zset, ttl, fresh, admitted, count>>
    BY <1>8, Zenon DEF ServeHTTP, ZRemFails, PipelineFails, fixed
  <2> QED
    BY <2>1, SetFrame, Zenon DEF SetInv
<1>9. ASSUME NEW p \in Procs, Incr(p) \/ IncrFails(p) \/ ExpireCounter(p) \/ ExpireCounterFails(p)
      PROVE  SetInv'
  <2>1. UNCHANGED <<zset, admitted>> /\ zset = {}
    BY <1>9, Zenon DEF Incr, IncrFails, ExpireCounter, ExpireCounterFails, sliding, KindInv,
       TypeOK
  <2>2. CASE Incr(p) \/ IncrFails(p)
    <3>1. ttl' = ttl /\ (count' = 0 => count = 0)
      BY <2>2 DEF Incr, IncrFails, TypeOK
    <3> QED
      BY <2>1, <3>1, Zenon DEF SetInv, SlidingBound
  <2>3. CASE ExpireCounter(p)
    <3>1. ttl' = Window /\ count' = count /\ count > 0
      BY <2>3, Zenon DEF ExpireCounter, CounterInv, fixed
    <3> QED
      BY <2>1, <3>1 DEF SetInv, SlidingBound, RateConstants
  <2>4. CASE ExpireCounterFails(p)
    BY <2>1, <2>4, Zenon DEF ExpireCounterFails, SetInv, SlidingBound
  <2> QED
    BY <1>9, <2>2, <2>3, <2>4, Zenon
<1>10. CASE UNCHANGED vars
  BY <1>10, SetFrame, Zenon DEF vars, sliding, fixed, SetInv
<1> QED
  BY <1>1, <1>2, <1>3, <1>4, <1>5, <1>6, <1>7, <1>8, <1>9, <1>10, Zenon DEF Next

\* A command of a request's pipeline leaves the requests' own data alone.
LEMMA RequestCommand ==
  ASSUME TypeOK, RequestInv, NEW p \in Procs, NEW label \in Pipeline,
         pc[p] \in Pipeline, Goto(p, label), UNCHANGED <<member, age, before>>,
         \A q \in Procs : pc'[q] \in Undecided => \A a \in admitted' : a.member # member[q],
         \A q \in Procs : pc'[q] \in {"add", "card"} =>
           \A m \in zset' : m.age < age[q] + Window \/ m.member \in before[q]
  PROVE  RequestInv'
<1>1. \A q \in Procs : pc'[q] \in Pipeline <=> pc[q] \in Pipeline
  BY Zenon DEF TypeOK, Goto
<1>2. \A q \in Procs : pc'[q] = "idle" => pc[q] = "idle"
  BY Zenon DEF TypeOK, Goto, Pipeline
<1> QED
  BY <1>1, <1>2, Zenon DEF RequestInv

\* A request that returns is forgotten.
LEMMA RequestReturn ==
  ASSUME TypeOK, RequestInv, NEW p \in Procs, Return(p), admitted' = admitted, zset' \subseteq zset
  PROVE  RequestInv'
<1>1. /\ pc'[p] = "idle" /\ member'[p] = NoMember /\ age'[p] = 0
      /\ \A q \in Procs : q # p => /\ pc'[q] = pc[q] /\ member'[q] = member[q]
                                   /\ age'[q] = age[q] /\ before'[q] = before[q]
  BY Zenon DEF TypeOK, Return, Goto
<1>2. "idle" \notin Pipeline /\ "idle" \notin Undecided
  BY Zenon DEF Pipeline, Undecided
<1>3. ASSUME NEW q \in Procs
      PROVE  /\ pc'[q] \in Pipeline <=> member'[q] # NoMember
             /\ pc'[q] = "idle" => age'[q] = 0
             /\ pc'[q] \in Undecided => \A a \in admitted' : a.member # member'[q]
             /\ pc'[q] \in {"add", "card"} =>
                  \A m \in zset' : m.age < age'[q] + Window \/ m.member \in before'[q]
  <2>1. CASE q = p
    BY <1>1, <1>2, <2>1, Zenon
  <2>2. CASE q # p
    BY <1>1, <2>2 DEF RequestInv
  <2> QED
    BY <2>1, <2>2, Zenon
<1>4. ASSUME NEW q \in Procs, NEW r \in Procs
      PROVE  /\ q # r /\ member'[q] = member'[r] => member'[q] = NoMember
             /\ pc'[q] \in Pipeline /\ pc'[r] \in Pipeline =>
                  member'[r] \in before'[q] \/ age'[r] <= age'[q]
  BY <1>1, <1>2 DEF RequestInv
<1> QED
  BY <1>3, <1>4, Zenon DEF RequestInv

\* Time passes for all requests in flight alike.
LEMMA RequestTick == ASSUME RateConstants, TypeOK, RequestInv, Tick PROVE RequestInv'
<1>1. /\ UNCHANGED <<pc, member, before>>
      /\ \A q \in Procs : age'[q] = IF pc[q] = "idle" THEN 0 ELSE age[q] + 1
  BY Zenon DEF Tick
<1>2. \A q \in Procs : age[q] \in Nat
  BY Zenon DEF TypeOK
<1>3. \A a \in Older(admitted) : \E b \in admitted : a.member = b.member
  BY Zenon DEF Older, TypeOK, Aged
<1>4. admitted' \subseteq Older(admitted) /\ zset' \subseteq Older(zset)
  BY Zenon DEF Tick, Within
<1>5. ASSUME NEW q \in Procs, pc[q] \in {"add", "card"}, NEW m \in zset'
      PROVE  m.age < age'[q] + Window \/ m.member \in before[q]
  <2>1. PICK n \in zset : m = [n EXCEPT !.age = IF @ < Window + MaxDelay THEN @ + 1 ELSE @]
    BY <1>4, Zenon DEF Older
  <2>2. n.age \in Nat /\ m.age \in Nat /\ m.age <= n.age + 1 /\ m.member = n.member
    BY <2>1 DEF TypeOK, Aged, RateConstants
  <2>3. n.age < age[q] + Window \/ n.member \in before[q]
    BY <1>5, Zenon DEF RequestInv
  <2>4. age'[q] = age[q] + 1
    BY <1>1, <1>5, Zenon
  <2> QED
    BY <1>2, <2>2, <2>3, <2>4 DEF RateConstants
<1>6. ASSUME NEW q \in Procs, NEW r \in Procs, pc[q] \in Pipeline, pc[r] \in Pipeline
      PROVE  member[r] \in before[q] \/ age'[r] <= age'[q]
  <2>1. age'[q] = age[q] + 1 /\ age'[r] = age[r] + 1
    <3>1. pc[q] # "idle" /\ pc[r] # "idle"
      BY <1>6, Zenon DEF Pipeline
    <3> QED
      BY <1>1, <3>1, Zenon
  <2>2. member[r] \in before[q] \/ age[r] <= age[q]
    BY <1>6, Zenon DEF RequestInv
  <2> QED
    BY <1>2, <2>1, <2>2
<1>7. ASSUME NEW q \in Procs, pc[q] \in Undecided, NEW a \in admitted'
      PROVE  a.member # member[q]
  BY <1>3, <1>4, <1>7, Zenon DEF RequestInv
<1>8. \A q \in Procs : pc[q] = "idle" => age'[q] = 0
  BY <1>1, Zenon
<1> QED
  BY <1>1, <1>5, <1>6, <1>7, <1>8, Zenon DEF RequestInv

\* A new request has a member of its own, knows of those in flight and is no
\* older than they are.
LEMMA RequestAllow ==
  ASSUME RateConstants, TypeOK, RequestInv, SetInv, NEW p \in Procs, Allow(p)
  PROVE  RequestInv'
<1>1. PICK m \in Members \ (InFlight \cup {n.member : n \in zset \cup admitted}) :
        member' = [member EXCEPT ![p] = m]
  BY Zenon DEF Allow
<1>2. /\ pc'[p] = "remove" /\ member'[p] = m /\ before'[p] = InFlight /\ age' = age
      /\ \A q \in Procs : q # p => pc'[q] = pc[q] /\ member'[q] = member[q] /\ before'[q] = before[q]
      /\ UNCHANGED <<zset, admitted>> /\ pc[p] = "idle"
  BY <1>1, Zenon DEF TypeOK, Allow, Goto
<1>3. /\ \A q \in Procs : member[q] # m
      /\ \A a \in admitted : a.member # m
      /\ m # NoMember
  <2>1. \A q \in Procs : member[q] = NoMember \/ member[q] \in InFlight
    BY Zenon DEF InFlight
  <2> QED
    BY <1>1, <2>1, Zenon DEF RateConstants
<1>4. age[p] = 0 /\ \A q \in Procs : age[q] \in Nat
  BY <1>2, Zenon DEF RequestInv, TypeOK
<1>5. "remove" \in Pipeline
  BY Zenon DEF Pipeline
<1>6. ASSUME NEW q \in Procs
      PROVE  /\ pc'[q] \in Pipeline <=> member'[q] # NoMember
             /\ pc'[q] = "idle" => age'[q] = 0
             /\ pc'[q] \in Undecided => \A a \in admitted' : a.member # member'[q]
             /\ pc'[q] \in {"add", "card"} =>
                  \A n \in zset' : n.age < age'[q] + Window \/ n.member \in before'[q]
  <2>1. CASE q = p
    BY <1>2, <1>3, <1>5, <2>1
  <2>2. CASE q # p
    BY <1>2, <2>2 DEF RequestInv
  <2> QED
    BY <2>1, <2>2, Zenon
<1>7. ASSUME NEW q \in Procs, NEW r \in Procs, q # r, member'[q] = member'[r]
      PROVE  member'[q] = NoMember
  BY <1>2, <1>3, <1>7 DEF RequestInv
<1>8. ASSUME NEW q \in Procs, NEW r \in Procs, pc'[q] \in Pipeline, pc'[r] \in Pipeline
      PROVE  member'[r] \in before'[q] \/ age'[r] <= age'[q]
  <2>1. CASE r = p
    BY <1>2, <1>4, <2>1
  <2>2. CASE r # p /\ q = p
    <3>1. member[r] # NoMember
      BY <1>2, <1>8, <2>2, Zenon DEF RequestInv
    <3> QED
      BY <1>2, <2>2, <3>1, Zenon DEF InFlight
  <2>3. CASE r # p /\ q # p
    BY <1>2, <1>8, <2>3, Zenon DEF RequestInv
  <2> QED
    BY <2>1, <2>2, <2>3, Zenon
<1> QED
  BY <1>6, <1>7, <1>8, Zenon DEF RequestInv

\* RequestInv across one command of either limiter.
LEMMA RequestStep == ASSUME RateConstants, RateInv, [Next]_vars PROVE RequestInv'
<1> USE DEF RateInv
<1>a. /\ \A q \in Procs : age[q] \in Nat
      /\ "add" \in Pipeline /\ "card" \in Pipeline /\ "expireOver" \in Pipeline
      /\ "expireUnder" \in Pipeline /\ "serve" \in Pipeline /\ "reject" \in Pipeline
  BY Zenon DEF TypeOK, Pipeline
<1>b. ASSUME NEW p \in Procs, NEW label, Goto(p, label)
      PROVE  pc'[p] = label /\ \A q \in Procs : q # p => pc'[q] = pc[q]
  BY <1>b, Zenon DEF Goto, TypeOK
<1>1. CASE Tick
  BY <1>1, RequestTick, Zenon
<1>2. ASSUME NEW p \in Procs, Allow(p) PROVE RequestInv'
  BY <1>2, RequestAllow, Zenon
<1>3. ASSUME NEW p \in Procs, ZRemRangeByScore(p) PROVE RequestInv'
  <2>1. /\ pc[p] = "remove" /\ Goto(p, "add") /\ UNCHANGED <<member, age, before, admitted>>
        /\ zset' = {m \in zset : m.age < age[p] + Window}
    BY <1>3, Zenon DEF ZRemRangeByScore, Keep, locals
  <2>2. pc'[p] = "add" /\ \A q \in Procs : q # p => pc'[q] = pc[q]
    BY <2>1, <1>b, Zenon
  <2>3. \A q \in Procs : pc'[q] \in Undecided => \A a \in admitted' : a.member # member[q]
    BY <2>1, <2>2 DEF RequestInv, Undecided
  <2>4. \A q \in Procs : pc'[q] \in {"add", "card"} =>
          \A m \in zset' : m.age < age[q] + Window \/ m.member \in before[q]
    BY <2>1, <2>2 DEF RequestInv
  <2>5. pc[p] \in Pipeline
    BY <2>1, Zenon DEF Pipeline
  <2> QED
    BY <1>a, <2>1, <2>3, <2>4, <2>5, RequestCommand, Zenon
<1>4. ASSUME NEW p \in Procs, ZAdd(p) PROVE RequestInv'
  <2>1. /\ pc[p] = "add" /\ Goto(p, "card") /\ UNCHANGED <<member, age, before, admitted>>
        /\ zset' = zset \cup {[member |-> member[p], age |-> age[p]]}
    BY <1>4, Zenon DEF ZAdd, locals
  <2>2. pc'[p] = "card" /\ \A q \in Procs : q # p => pc'[q] = pc[q]
    BY <2>1, <1>b, Zenon
  <2>3. \A q \in Procs : pc'[q] \in Undecided => \A a \in admitted' : a.member # member[q]
    BY <2>1, <2>2 DEF RequestInv, Undecided
  <2>4. ASSUME NEW q \in Procs, pc'[q] \in {"add", "card"}, NEW m \in zset'
        PROVE  m.age < age[q] + Window \/ m.member \in before[q]
    <3>1. pc[q] \in {"add", "card"}
      BY <2>1, <2>2, <2>4, Zenon
    <3>2. CASE m \in zset
      BY <3>1, <3>2, Zenon DEF RequestInv
    <3>3. CASE m = [member |-> member[p], age |-> age[p]]
      <4>1. member[p] \in before[q] \/ age[p] <= age[q]
        BY <2>1, <3>1, <1>a, Zenon DEF RequestInv
      <4>2. age[p] \in Nat /\ age[q] \in Nat /\ Window \in Nat \ {0}
        BY <1>a, Zenon DEF RateConstants
      <4> QED
        BY <3>3, <4>1, <4>2
    <3> QED
      BY <2>1, <2>4, <3>2, <3>3, Zenon
  <2>5. pc[p] \in Pipeline
    BY <2>1, Zenon DEF Pipeline
  <2> QED
    BY <1>a, <2>1, <2>3, <2>4, <2>5, RequestCommand, Zenon
<1>5. ASSUME NEW p \in Procs, ZCard(p) PROVE RequestInv'
  <2>1. /\ pc[p] = "card" /\ UNCHANGED <<member, age, before, zset>>
        /\ \/ Goto(p, "expireOver") /\ admitted' = admitted
           \/ /\ Goto(p, "expireUnder")
              /\ admitted' = admitted \cup Within({m \in zset : m.member = member[p]})
    BY <1>5, Zenon DEF ZCard, locals
  <2>2. PICK label \in {"expireOver", "expireUnder"} :
          /\ Goto(p, label)
          /\ label = "expireOver" => admitted' = admitted
    BY <2>1, Zenon
  <2>3. pc'[p] = label /\ \A q \in Procs : q # p => pc'[q] = pc[q]
    BY <2>2, <1>b, Zenon
  <2>4. ASSUME NEW q \in Procs, pc'[q] \in Undecided, NEW a \in admitted'
        PROVE  a.member # member[q]
    <3>1. pc[q] \in Undecided
      BY <2>1, <2>3, <2>4, Zenon DEF Undecided
    <3>2. CASE a \in admitted
      BY <3>1, <3>2, Zenon DEF RequestInv
    <3>3. CASE a \notin admitted
      <4>1. q # p
        BY <2>2, <2>3, <2>4, <3>3, Zenon DEF Undecided
      <4>2. a.member = member[p]
        BY <2>1, <2>4, <3>3, Zenon DEF Within
      <4> QED
        BY <2>1, <4>1, <4>2, <1>a, Zenon DEF RequestInv
    <3> QED
      BY <3>2, <3>3, Zenon
  <2>5. \A q \in Procs : pc'[q] \in {"add", "card"} =>
          \A m \in zset' : m.age < age[q] + Window \/ m.member \in before[q]
    BY <2>1, <2>2, <2>3 DEF RequestInv
  <2>6. pc[p] \in Pipeline /\ label \in Pipeline
    BY <2>1, <2>2, Zenon DEF Pipeline
  <2> QED
    BY <2>1, <2>2, <2>4, <2>5, <2>6, RequestCommand, Zenon
<1>6. ASSUME NEW p \in Procs, Expire(p) PROVE RequestInv'
  <2>1. /\ pc[p] \in {"expireOver", "expireUnder"} /\ UNCHANGED <<member, age, before, zset, admitted>>
        /\ Goto(p, IF pc[p] = "expireOver" THEN "reject" ELSE "serve")
    BY <1>6, Zenon DEF Expire, locals
  <2>2. PICK label \in {"reject", "serve"} :
          Goto(p, label) /\ (label = "reject" => pc[p] = "expireOver")
    BY <2>1, Zenon
  <2>3. pc'[p] = label /\ \A q \in Procs : q # p => pc'[q] = pc[q]
    BY <2>2, <1>b, Zenon
  <2>4. \A q \in Procs : pc'[q] \in Undecided => \A a \in admitted' : a.member # member[q]
    BY <2>1, <2>2, <2>3 DEF RequestInv, Undecided
  <2>5. \A q \in Procs : pc'[q] \in {"add", "card"} =>
          \A m \in zset' : m.age < age[q] + Window \/ m.member \in before[q]
    BY <2>1, <2>2, <2>3, Zenon DEF RequestInv
  <2>6. pc[p] \in Pipeline /\ label \in Pipeline
    BY <2>1, <2>2, Zenon DEF Pipeline
  <2> QED
    BY <2>1, <2>2, <2>4, <2>5, <2>6, RequestCommand, Zenon
<1>7. ASSUME NEW p \in Procs, ServeHTTP(p) \/ ZRem(p) \/ ZRemFails(p) \/ PipelineFails(p)
      PROVE  RequestInv'
  <2>1. Return(p) /\ admitted' = admitted /\ zset' \subseteq zset
    BY <1>7, Zenon DEF ServeHTTP, ZRem, ZRemFails, PipelineFails, Keep
  <2> QED
    BY <2>1, RequestReturn, Zenon
<1>8. ASSUME NEW p \in Procs, ExpireCounter(p) \/ ExpireCounterFails(p)
      PROVE  RequestInv'
  <2>1. Return(p) /\ admitted' = admitted /\ zset' \subseteq zset
    BY <1>8, Zenon DEF ExpireCounter, ExpireCounterFails
  <2> QED
    BY <2>1, RequestReturn, Zenon
<1>9. ASSUME NEW p \in Procs, Incr(p) \/ IncrFails(p) PROVE RequestInv'
  <2>1. /\ UNCHANGED <<member, age, before, zset, admitted>>
        /\ pc' = pc \/ (pc[p] = "idle" /\ Goto(p, "lifetime"))
    <3>1. UNCHANGED <<member, age, before, zset, admitted>>
      BY <1>9 DEF Incr, IncrFails, sliding, locals
    <3>2. pc' = pc \/ (pc[p] = "idle" /\ Goto(p, "lifetime"))
      BY <1>9, Zenon DEF Incr, IncrFails
    <3> QED
      BY <3>1, <3>2, Zenon
  <2>2. "lifetime" \notin Pipeline /\ "lifetime" \notin Undecided /\ "idle" \notin Pipeline
    BY Zenon DEF Pipeline, Undecided
  <2>3. \A q \in Procs : \/ pc'[q] = pc[q]
                         \/ pc'[q] = "lifetime" /\ pc[q] = "idle"
    BY <2>1, <1>b, Zenon
  <2>4. \A q \in Procs : /\ pc'[q] \in Pipeline <=> pc[q] \in Pipeline
                         /\ pc'[q] = "idle" => pc[q] = "idle"
                         /\ pc'[q] \in Undecided => pc[q] \in Undecided
                         /\ pc'[q] \in {"add", "card"} => pc[q] \in {"add", "card"}
    BY <2>2, <2>3, Zenon
  <2> QED
    BY <2>1, <2>4, Zenon DEF RequestInv
<1>10. CASE UNCHANGED vars
  BY <1>10, Zenon DEF vars, sliding, locals, RequestInv
<1> QED
  BY <1>1, <1>2, <1>3, <1>4, <1>5, <1>6, <1>7, <1>8, <1>9, <1>10, Zenon DEF Next

\* A life of the counter that ends becomes the last one, and then no counted
\* request of the one before is left.
LEMMA CounterTick == ASSUME RateConstants, TypeOK, CounterInv, Tick PROVE CounterInv'
<1>1. ASSUME NEW c \in calls'
      PROVE  \E d \in calls : /\ d.age + 1 < Window /\ c = OlderCall(d)
                              /\ c.nth = d.nth /\ c.age = d.age + 1
                              /\ c.life = (IF ttl = 1 THEN "last" ELSE d.life)
  BY <1>1 DEF Tick, OlderCall
<1>2. /\ ttl \in Nat /\ count \in Nat /\ Window \in Nat
      /\ ttl' = (IF ttl = 0 THEN 0 ELSE ttl - 1) /\ count' = (IF ttl = 1 THEN 0 ELSE count)
      /\ UNCHANGED <<pc, stuck>>
  BY Zenon DEF Tick, TypeOK, RateConstants
<1>3. \A d \in calls : d.age \in Nat /\ d.life \in {"this", "last"}
  BY DEF TypeOK, Calls
<1>4. \A d \in calls : d.age + 1 < Window /\ ttl = 1 => d.life = "this"
  BY <1>2, <1>3 DEF CounterInv
<1>5. ASSUME NEW c \in calls'
      PROVE  /\ c.life = "this" => c.nth <= count'
             /\ c.life = "last" /\ ttl' > 0 => c.age + ttl' >= Window
  <2>1. PICK d \in calls : /\ d.age + 1 < Window /\ c.nth = d.nth /\ c.age = d.age + 1
                           /\ c.life = (IF ttl = 1 THEN "last" ELSE d.life)
    BY <1>1, Zenon
  <2> QED
    BY <1>2, <1>3, <2>1 DEF CounterInv
<1>6. ASSUME NEW c \in calls', NEW d \in calls', c.nth = d.nth, c.life = d.life PROVE c = d
  <2>1. PICK x \in calls : /\ x.age + 1 < Window /\ c = OlderCall(x) /\ c.nth = x.nth
                           /\ c.life = (IF ttl = 1 THEN "last" ELSE x.life)
    BY <1>1, Zenon
  <2>2. PICK y \in calls : /\ y.age + 1 < Window /\ d = OlderCall(y) /\ d.nth = y.nth
                           /\ d.life = (IF ttl = 1 THEN "last" ELSE y.life)
    BY <1>1, Zenon
  <2>3. x.nth = y.nth
    BY <1>6, <2>1, <2>2, Zenon
  <2>4. x.life = y.life
    <3>1. CASE ttl = 1
      BY <1>4, <2>1, <2>2, <3>1
    <3>2. CASE ttl # 1
      <4>1. c.life = x.life
        BY <2>1, <3>2, Zenon
      <4>2. d.life = y.life
        BY <2>2, <3>2, Zenon
      <4> QED
        BY <1>6, <4>1, <4>2, Zenon
    <3> QED
      BY <3>1, <3>2, Zenon
  <2>5. x = y
    BY <2>3, <2>4, Zenon DEF CounterInv
  <2> QED
    BY <2>1, <2>2, <2>5, Zenon
<1>7. \A p \in Procs : pc'[p] = "lifetime" => count' > 0 /\ ttl' = 0
  BY <1>2 DEF CounterInv
<1>8. \A p, q \in Procs : pc'[p] = "lifetime" /\ pc'[q] = "lifetime" => p = q
  BY <1>2, Zenon DEF CounterInv
<1>9. count' > 0 /\ ttl' = 0 => stuck' \/ \E p \in Procs : pc'[p] = "lifetime"
  BY <1>2 DEF CounterInv
<1> QED
  BY <1>5, <1>6, <1>7, <1>8, <1>9, Zenon DEF CounterInv

\* CounterInv across one command of either limiter.
LEMMA CounterStep == ASSUME RateConstants, RateInv, [Next]_vars, KindInv' PROVE CounterInv'
<1> USE DEF RateInv
<1>a. ttl \in Nat /\ count \in Nat /\ stuck \in BOOLEAN /\ Window \in Nat \ {0}
  BY Zenon DEF TypeOK, RateConstants
<1>b. \A p \in Procs : pc[p] = "lifetime" => count > 0 /\ ttl = 0
  BY Zenon DEF CounterInv
<1>1. CASE Tick
  BY <1>1, CounterTick, Zenon
<1>2. ASSUME NEW p \in Procs,
             \/ Allow(p) \/ ZRemRangeByScore(p) \/ ZAdd(p) \/ ZCard(p) \/ Expire(p)
             \/ ServeHTTP(p) \/ ZRem(p) \/ ZRemFails(p) \/ PipelineFails(p)
      PROVE  CounterInv'
  <2>1. kind' = kind
    BY <1>2, Zenon DEF Allow, ZRemRangeByScore, ZAdd, ZCard, Expire,
                       ServeHTTP, ZRem, ZRemFails, PipelineFails
  <2>2. kind = "sliding"
    BY <1>2 DEF Allow, ZRemRangeByScore, ZAdd, ZCard, Expire, ServeHTTP, ZRem, ZRemFails,
                PipelineFails, Pipeline, KindInv, TypeOK
  <2> QED
    BY <2>1, <2>2 DEF KindInv, CounterInv
<1>3. ASSUME NEW p \in Procs, Incr(p) PROVE CounterInv'
  <2>1. /\ pc[p] = "idle" /\ ttl' = ttl /\ stuck' = stuck /\ count' = count + 1
        /\ calls' = calls \/ calls' = calls \cup {NewCall}
        /\ IF count = 0 THEN Goto(p, "lifetime") ELSE pc' = pc
    BY <1>3, Zenon DEF Incr, CountIn
  <2>2. NewCall.nth = count + 1 /\ NewCall.life = "this"
    BY Zenon DEF NewCall
  <2>3. ASSUME NEW c \in calls'
        PROVE  /\ c.life = "this" => c.nth <= count'
               /\ c.life = "last" /\ ttl' > 0 => c.age + ttl' >= Window
    <3>1. CASE c \in calls
      <4>1. c.nth \in Nat
        BY <3>1 DEF TypeOK, Calls
      <4> QED
        BY <1>a, <2>1, <3>1, <4>1 DEF CounterInv
    <3>2. CASE c = NewCall
      BY <1>a, <2>1, <2>2, <3>2
    <3> QED
      BY <2>1, <3>1, <3>2, Zenon
  <2>4. \A c \in calls : ~(c.nth = NewCall.nth /\ c.life = NewCall.life)
    <3>1. \A c \in calls : c.life = "this" => c.nth # count + 1
      BY <1>a DEF CounterInv, TypeOK, Calls
    <3> QED
      BY <2>2, <3>1, Zenon
  <2>5. \A c, d \in calls' : c.nth = d.nth /\ c.life = d.life => c = d
    BY <2>1, <2>4 DEF CounterInv
  <2>6. CASE count = 0
    <3>1. ttl = 0
      BY <1>3, <2>6, Zenon DEF SetInv, KindInv, Incr
    <3>2. \A q \in Procs : pc'[q] = "lifetime" <=> q = p
      BY <1>a, <1>b, <2>1, <2>6 DEF Goto, TypeOK
    <3> QED
      BY <1>a, <2>1, <2>3, <2>5, <3>1, <3>2 DEF CounterInv
  <2>7. CASE count # 0
    <3>1. pc' = pc /\ count > 0 /\ count' > 0
      BY <1>a, <2>1, <2>7
    <3> QED
      BY <2>1, <2>3, <2>5, <3>1, Zenon DEF CounterInv
  <2> QED
    BY <2>6, <2>7, Zenon
<1>4. ASSUME NEW p \in Procs, IncrFails(p) PROVE CounterInv'
  <2>1. UNCHANGED <<ttl, pc, calls>>
    BY <1>4, Zenon DEF IncrFails
  <2>2. CASE UNCHANGED <<count, stuck>>
    BY <2>1, <2>2, Zenon DEF CounterInv
  <2>3. CASE count' = count + 1 /\ stuck' = (stuck \/ count = 0)
    <3>1. \A c \in calls : c.life = "this" => c.nth <= count'
      BY <1>a, <2>3 DEF CounterInv, TypeOK, Calls
    <3>2. count' > 0 /\ (count # 0 => count > 0)
      BY <1>a, <2>3
    <3>3. ~ stuck' => ~ stuck /\ count # 0
      BY <2>3, Zenon
    <3> QED
      BY <2>1, <3>1, <3>2, <3>3, Zenon DEF CounterInv
  <2> QED
    BY <1>4, <2>2, <2>3, Zenon DEF IncrFails
<1>5. ASSUME NEW p \in Procs, ExpireCounter(p) PROVE CounterInv'
  <2>1. /\ pc[p] = "lifetime" /\ ttl' = Window /\ UNCHANGED <<count, calls, stuck>>
        /\ pc' = [pc EXCEPT ![p] = "idle"]
    BY <1>5, Zenon DEF ExpireCounter, Return, Goto, fixed
  <2>2. \A q \in Procs : pc'[q] # "lifetime"
    BY <2>1, Zenon DEF CounterInv, TypeOK
  <2>3. \A c \in calls : c.age \in Nat
    BY DEF TypeOK, Calls
  <2>4. \A c \in calls' : /\ c.life = "this" => c.nth <= count'
                          /\ c.life = "last" /\ ttl' > 0 => c.age + ttl' >= Window
    BY <1>a, <2>1, <2>3 DEF CounterInv
  <2>5. ~ (ttl' = 0)
    BY <1>a, <2>1, Zenon
  <2> QED
    BY <2>1, <2>2, <2>4, <2>5, Zenon DEF CounterInv
<1>6. ASSUME NEW p \in Procs, ExpireCounterFails(p) PROVE CounterInv'
  <2>1. /\ stuck' = TRUE /\ UNCHANGED <<ttl, count, calls>> /\ pc' = [pc EXCEPT ![p] = "idle"]
    BY <1>6, Zenon DEF ExpireCounterFails, Return, Goto
  <2>2. \A q \in Procs : pc'[q] = "lifetime" => pc[q] = "lifetime"
    BY <2>1, Zenon DEF TypeOK
  <2> QED
    BY <2>1, <2>2, Zenon DEF CounterInv
<1>7. CASE UNCHANGED vars
  BY <1>7, Zenon DEF vars, fixed, CounterInv
<1> QED
  BY <1>1, <1>2, <1>3, <1>4, <1>5, <1>6, <1>7, Zenon DEF Next

\* The limiters keep their invariant: what counts against a limit is in the
\* set with its own time, and counted token requests are told apart by their
\* number and the life of the counter.
THEOREM RateInvariant == Spec => []RateInv
<1>1. Init => RateInv
  BY RateInit, RateAssumption, Zenon
<1>2. RateInv /\ [Next]_vars => RateInv'
  <2> SUFFICES ASSUME RateInv, [Next]_vars PROVE RateInv'
    BY Zenon
  <2>1. TypeOK' /\ KindInv'
    BY RateType, KindStep, RateAssumption, Zenon DEF RateInv
  <2>2. SetInv' /\ RequestInv'
    BY SetStep, RequestStep, RateAssumption, Zenon
  <2>3. CounterInv'
    BY <2>1, CounterStep, RateAssumption, Zenon
  <2> QED
    BY <2>1, <2>2, <2>3, Zenon DEF RateInv
<1> QED
  BY <1>1, <1>2, PTL DEF Spec

\* Of the requests of the last window no more than the limit were counted in,
\* whatever the number of requests in flight and however the commands of their
\* pipelines interleave (RateLimiter.allow).
THEOREM SlidingBoundHolds == Spec => []SlidingBound
<1>1. RateInv => SlidingBound
  BY Zenon DEF RateInv, SetInv
<1> QED
  BY <1>1, RateInvariant, PTL

\* A client gets at most two limits of counted token requests in a window, and
\* its counter has a lifetime unless an error came between INCR and EXPIRE
\* (rateLimitCheck).
THEOREM TokenWindowHolds == Spec => []TokenWindow
<1>1. RateInv => TokenWindow
  <2> SUFFICES ASSUME RateInv PROVE Cardinality(calls) <= 2 * Limit
    BY Zenon DEF RateInv, CounterInv, TokenWindow
  <2> DEFINE T == (1..Limit) \X {"this", "last"}
             f == [c \in calls |-> <<c.nth, c.life>>]
  <2>1. f \in Injection(calls, T)
    <3>1. \A c \in calls : c.nth \in 1..Limit /\ c.life \in {"this", "last"}
      BY Zenon DEF RateInv, TypeOK, Calls
    <3>2. f \in [calls -> T]
      BY <3>1, Zenon
    <3>3. ASSUME NEW c \in calls, NEW d \in calls, f[c] = f[d] PROVE c = d
      <4>1. c.nth = d.nth /\ c.life = d.life
        BY <3>3, Zenon
      <4> QED
        BY <4>1, Zenon DEF RateInv, CounterInv
    <3> HIDE DEF f, T
    <3> QED
      BY <3>2, <3>3, Zenon DEF Injection, IsInjective
  <2>2. Limit \in Nat /\ IsFiniteSet(1..Limit) /\ Cardinality(1..Limit) = Limit
    BY RateAssumption, FS_Interval DEF RateConstants
  <2>3. IsFiniteSet({"this", "last"}) /\ Cardinality({"this", "last"}) = 2
    <3>1. IsFiniteSet({"this"}) /\ Cardinality({"this"}) = 1
      BY FS_Singleton, Zenon
    <3>2. "last" \notin {"this"} /\ {"this", "last"} = {"this"} \cup {"last"}
      BY Zenon
    <3> QED
      BY <3>1, <3>2, FS_AddElement
  <2>4. IsFiniteSet(T) /\ Cardinality(T) = Limit * 2
    <3>1. IsFiniteSet(T) /\ Cardinality(T) = Cardinality(1..Limit) * Cardinality({"this", "last"})
      BY <2>2, <2>3, FS_Product, Zenon
    <3> QED
      BY <2>2, <2>3, <3>1, Zenon
  <2> HIDE DEF T, f
  <2>5. Cardinality(calls) <= Cardinality(T)
    BY <2>1, <2>4, FS_Injection, Zenon
  <2> QED
    BY <2>2, <2>4, <2>5
<1> QED
  BY <1>1, RateInvariant, PTL

\* A request is rejected only by more than Limit that arrived since its window
\* began or were in flight when it arrived (ZREMRANGEBYSCORE before ZCARD in
\* RateLimiter.allow).
THEOREM UnderLimitHolds == Spec => UnderLimitAdmitted
<1>1. ASSUME RateInv, [Next]_vars, NEW p \in Procs, pc[p] = "card", pc'[p] = "expireOver"
      PROVE  Cardinality({m \in zset : m.age < age[p] + Window \/ m.member \in before[p]}) > Limit
  <2>1. {m \in zset : m.age < age[p] + Window \/ m.member \in before[p]} = zset
    BY <1>1, Zenon DEF RateInv, RequestInv
  <2>2. Cardinality(zset) > Limit
    <3>1. CASE UNCHANGED pc
      BY <1>1, <3>1, Zenon
    <3>2. ASSUME NEW q \in Procs, ZCard(q) PROVE Cardinality(zset) > Limit
      BY <1>1, <3>2, Zenon DEF ZCard, Goto, RateInv, TypeOK
    <3>3. ASSUME NEW q \in Procs, NEW label, label # "expireOver", Goto(q, label) PROVE FALSE
      BY <1>1, <3>3, Zenon DEF Goto, RateInv, TypeOK
    <3>4. CASE Tick
      BY <3>1, <3>4, Zenon DEF Tick
    <3>5. ASSUME NEW q \in Procs, Allow(q) \/ ZRemRangeByScore(q) \/ ZAdd(q) PROVE FALSE
      BY <3>3, <3>5, Zenon DEF Allow, ZRemRangeByScore, ZAdd
    <3>6. ASSUME NEW q \in Procs, Expire(q) PROVE FALSE
      BY <3>3, <3>6, Zenon DEF Expire
    <3>7. ASSUME NEW q \in Procs,
                 \/ ServeHTTP(q) \/ ZRem(q) \/ ZRemFails(q) \/ PipelineFails(q)
                 \/ ExpireCounter(q) \/ ExpireCounterFails(q)
          PROVE  FALSE
      BY <3>3, <3>7 DEF ServeHTTP, ZRem, ZRemFails, PipelineFails,
                        ExpireCounter, ExpireCounterFails, Return
    <3>8. ASSUME NEW q \in Procs, Incr(q) \/ IncrFails(q) PROVE Cardinality(zset) > Limit
      BY <3>1, <3>3, <3>8, Zenon DEF Incr, IncrFails
    <3>9. CASE UNCHANGED vars
      BY <3>1, <3>9, Zenon DEF vars
    <3> QED
      BY <1>1, <3>2, <3>4, <3>5, <3>6, <3>7, <3>8, <3>9, Zenon DEF Next
  <2> QED
    BY <2>1, <2>2, Zenon
<1>2. RateInv /\ [Next]_vars =>
        [\A p \in Procs : pc[p] = "card" /\ pc'[p] = "expireOver" =>
           Cardinality({m \in zset : m.age < age[p] + Window \/ m.member \in before[p]}) > Limit]_vars
  BY <1>1, Zenon
<1> QED
  BY <1>2, RateInvariant, PTL DEF Spec, UnderLimitAdmitted

=============================================================================
