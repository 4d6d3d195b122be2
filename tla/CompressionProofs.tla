-------------------------- MODULE CompressionProofs --------------------------
(***************************************************************************)
(* The store that workers share, and what the compression of requests, the *)
(* compression API and the MCP server make of it: first RedisCcrStore, for *)
(* any originals, workers, callers, Ttl and number of failures, and what   *)
(* the contract it implements is worth, then what is composed with it, for *)
(* any requests.                                                           *)
(***************************************************************************)
EXTENDS Compression, Integers, TLAPS, WellFoundedInduction, SequenceTheorems, FiniteSetTheorems

USE TtlNat, BoundsNat, NoHashIsNone

LEMMA ExpiryNat == clock \in Nat => Expiry \in Nat /\ Expiry > clock
  BY DEF Expiry

\* The answer to a lookup is a lookup that is no longer pending.
LEMMA AnsweredLookup ==
  ASSUME asked \in [Callers -> Lookup], clock \in Nat, NEW c \in Callers,
         NEW after, after = [asked[c] EXCEPT !.answer = "none", !.at = clock]
  PROVE  after \in Lookup /\ after.answer = "none"
  <1>1. asked[c] \in Lookup
    OBVIOUS
  <1>2. QED
    BY <1>1 DEF Lookup, Answers

LEMMA InitIInv == RedisInit => RedisIInv
  BY ExpiryNat DEF RedisInit, RedisIInv, RedisTypeOK, HeldAtServer, PromiseKept, LookupsPending,
     CallsMeanIt, NothingFromTheFuture, OnlyLookups, Idle, NoLookup, Call, Steps, Lookup, Answers

(***************************************************************************)
(* What a failing command may have done: it extends the life of an         *)
(* original that was offered, and takes nothing away.                      *)
(***************************************************************************)
LEMMA FateExtends ==
  ASSUME RedisIInv, NEW c \in Callers, NEW fate \in Fates, call[c].step # "idle", Fate(c, fate)
  PROVE  /\ keys' \in [Hashes -> Nat] /\ late' \subseteq offered
         /\ \A h \in Hashes : /\ keys'[h] >= keys[h] /\ keys'[h] <= Expiry
                              /\ keys'[h] > 0 => h \in offered
  <1>1. call[c].hash \in Hashes /\ (call[c].op = "put" => call[c].hash \in offered)
    BY DEF RedisIInv, CallsMeanIt
  <1>2. Expiry \in Nat
    BY ExpiryNat DEF RedisIInv, RedisTypeOK
  <1>3. CASE keys' = [keys EXCEPT ![call[c].hash] = Expiry] /\ UNCHANGED late /\ call[c].op = "put"
    BY <1>1, <1>2, <1>3 DEF RedisIInv, RedisTypeOK, NothingFromTheFuture
  <1>4. CASE late' = late \cup {call[c].hash} /\ UNCHANGED keys /\ call[c].op = "put"
    BY <1>1, <1>2, <1>4 DEF RedisIInv, RedisTypeOK, NothingFromTheFuture
  <1>5. CASE UNCHANGED server
    BY <1>2, <1>5 DEF RedisIInv, RedisTypeOK, NothingFromTheFuture, server
  <1>6. QED
    BY <1>3, <1>4, <1>5 DEF Fate

(***************************************************************************)
(* A step that leaves the clock, the callers' answers and the promises     *)
(* alone, and only extends lives at the server, keeps what was said of the *)
(* server.                                                                 *)
(***************************************************************************)
LEMMA NextIInv == RedisIInv /\ [RedisNext]_redisVars => RedisIInv'
  <1> SUFFICES ASSUME RedisIInv, [RedisNext]_redisVars
               PROVE  RedisIInv'
    OBVIOUS
  <1> USE DEF RedisIInv, RedisTypeOK, HeldAtServer, PromiseKept, LookupsPending, CallsMeanIt,
      NothingFromTheFuture, OnlyLookups, Call, Steps, Lookup, Answers, server, history
  <1>0. Expiry \in Nat /\ Expiry > clock
    BY ExpiryNat
  <1>1. CASE Tick
    BY <1>0, <1>1 DEF Tick, Expiry
  <1>2. ASSUME NEW h \in Hashes, LateApplies(h)
        PROVE  RedisIInv'
    BY <1>0, <1>2 DEF LateApplies, Expiry
  <1>3. ASSUME NEW h \in Hashes, NEW c \in Callers, BeginPut(c, h)
        PROVE  RedisIInv'
    <2>1. RedisTypeOK'
      BY <1>3 DEF BeginPut, Idle, Expiry
    <2>2. HeldAtServer' /\ PromiseKept'
      BY <1>3 DEF BeginPut, Idle, Expiry
    <2>3. LookupsPending'
      BY <1>3 DEF BeginPut, Idle, Expiry
    <2>4. CallsMeanIt'
      BY <1>3 DEF BeginPut, Idle, Expiry
    <2>5. NothingFromTheFuture' /\ OnlyLookups'
      BY <1>3 DEF BeginPut, Idle, Expiry
    <2>6. QED
      BY <2>1, <2>2, <2>3, <2>4, <2>5
  <1>4. ASSUME NEW h \in Hashes, NEW c \in Callers, BeginGet(c, h)
        PROVE  RedisIInv'
    <2>1. RedisTypeOK'
      BY <1>4 DEF BeginGet, Idle, Expiry
    <2>2. HeldAtServer' /\ PromiseKept'
      BY <1>4 DEF BeginGet, Idle, Expiry
    <2>3. LookupsPending'
      BY <1>4 DEF BeginGet, Idle, Expiry
    <2>4. CallsMeanIt'
      BY <1>4 DEF BeginGet, Idle, Expiry
    <2>5. NothingFromTheFuture' /\ OnlyLookups'
      BY <1>4 DEF BeginGet, Idle, Expiry
    <2>6. QED
      BY <2>1, <2>2, <2>3, <2>4, <2>5
  <1>5. ASSUME NEW c \in Callers, Lock(c)
        PROVE  RedisIInv'
    <2>1. RedisTypeOK'
      BY <1>5 DEF Lock, Step, Expiry
    <2>2. HeldAtServer' /\ PromiseKept' /\ LookupsPending'
      BY <1>5 DEF Lock, Step, Expiry
    <2>3. CallsMeanIt'
      BY <1>5 DEF Lock, Step, Expiry
    <2>4. NothingFromTheFuture' /\ OnlyLookups'
      BY <1>5 DEF Lock, Step, Expiry
    <2>5. QED
      BY <2>1, <2>2, <2>3, <2>4
  <1>14. ASSUME NEW c \in Callers, Reconnect(c)
         PROVE  RedisIInv'
    <2>1. RedisTypeOK'
      BY <1>14 DEF Reconnect, Step, Expiry
    <2>2. HeldAtServer' /\ PromiseKept' /\ LookupsPending'
      BY <1>14 DEF Reconnect, Step, Expiry
    <2>3. CallsMeanIt'
      BY <1>14 DEF Reconnect, Step, Expiry
    <2>4. NothingFromTheFuture' /\ OnlyLookups'
      BY <1>14 DEF Reconnect, Step, Expiry
    <2>5. QED
      BY <2>1, <2>2, <2>3, <2>4
  <1>6. ASSUME NEW c \in Callers, PutAnswered(c)
        PROVE  RedisIInv'
    BY <1>0, <1>6 DEF PutAnswered, Trying, Expiry
  <1>7. ASSUME NEW c \in Callers, GetAnswered(c)
        PROVE  RedisIInv'
    <2>1. RedisTypeOK'
      BY <1>7 DEF GetAnswered, Trying, Visible, Expiry
    <2>2. HeldAtServer' /\ PromiseKept'
      BY <1>7 DEF GetAnswered, Trying, Visible, Expiry
    <2>3. LookupsPending'
      BY <1>7 DEF GetAnswered, Trying, Visible, Expiry
    <2>4. CallsMeanIt'
      BY <1>7 DEF GetAnswered, Trying, Visible, Expiry
    <2>5. NothingFromTheFuture' /\ OnlyLookups'
      BY <1>7 DEF GetAnswered, Trying, Visible, Expiry
    <2>6. QED
      BY <2>1, <2>2, <2>3, <2>4, <2>5
  <1>8. ASSUME NEW c \in Callers, NEW fate \in Fates, FirstFails(c, fate)
        PROVE  RedisIInv'
    BY <1>0, <1>8, FateExtends DEF FirstFails, Fault, Step, Expiry
  <1>9. ASSUME NEW c \in Callers, ReconnectFails(c)
        PROVE  RedisIInv'
    BY <1>9 DEF ReconnectFails, Fault, Errs, Expiry
  <1>10. ASSUME NEW c \in Callers, NEW fate \in Fates, SecondFails(c, fate)
         PROVE  RedisIInv'
    BY <1>0, <1>10, FateExtends DEF SecondFails, Fault, Errs, Expiry
  <1>11. ASSUME NEW c \in Callers, Return(c)
         PROVE  RedisIInv'
    <2>1. RedisTypeOK'
      BY <1>11 DEF Return, Idle, Expiry
    <2>2. HeldAtServer' /\ PromiseKept'
      BY <1>11 DEF Return, Idle, Expiry
    <2>3. LookupsPending'
      BY <1>11 DEF Return, Idle, Expiry
    <2>4. CallsMeanIt'
      BY <1>11 DEF Return, Idle, Expiry
    <2>5. NothingFromTheFuture' /\ OnlyLookups'
      BY <1>11 DEF Return, Idle, Expiry
    <2>6. QED
      BY <2>1, <2>2, <2>3, <2>4, <2>5
  <1>12. ASSUME NEW w \in Workers, Dies(w)
         PROVE  RedisIInv'
    <2> DEFINE dead(c) == at[c] = w /\ asked[c].answer = "pending"
    <2> DEFINE after(c) == [asked[c] EXCEPT !.answer = "none", !.at = clock]
    <2>1. ASSUME NEW c \in Callers
          PROVE  /\ call'[c] = IF at[c] = w THEN Idle ELSE call[c]
                 /\ asked'[c] \in Lookup
                 /\ dead(c) => asked'[c].answer = "none"
                 /\ ~dead(c) => asked'[c] = asked[c]
      <3>1. after(c) \in Lookup /\ after(c).answer = "none"
        <4>1. PICK then : then = after(c)
          OBVIOUS
        <4> HIDE DEF Lookup, Answers
        <4>2. then \in Lookup /\ then.answer = "none"
          BY <4>1, AnsweredLookup, Zenon
        <4>3. QED
          BY <4>1, <4>2, Zenon
      <3>2. call'[c] = IF at[c] = w THEN Idle ELSE call[c]
        BY <1>12 DEF Dies
      <3>3. asked'[c] = IF dead(c) THEN after(c) ELSE asked[c]
        BY <1>12 DEF Dies
      <3>4. QED
        <4> HIDE DEF after, dead
        <4>1. QED
          BY <3>1, <3>2, <3>3
    <2>2. UNCHANGED <<clock, server, at, offered, held>> /\ faults' = faults + 1
      BY <1>12 DEF Dies, Fault
    <2>8. conn' \in [Workers -> BOOLEAN]
      BY <1>12 DEF Dies
    <2>7. asked' = [c \in Callers |-> asked'[c]] /\ call' = [c \in Callers |-> call'[c]]
      BY <1>12 DEF Dies
    <2>3. RedisTypeOK'
      BY <2>1, <2>2, <2>7, <2>8 DEF Idle
    <2>4. LookupsPending' /\ OnlyLookups' /\ PromiseKept' /\ HeldAtServer'
      BY <2>1, <2>2
    <2>5. CallsMeanIt'
      BY <2>1, <2>2 DEF Idle
    <2>6. QED
      BY <2>2, <2>3, <2>4, <2>5 DEF Expiry
  <1>13. CASE UNCHANGED redisVars
    BY <1>13 DEF redisVars, Expiry
  <1>15. QED
    BY <1>1, <1>2, <1>3, <1>4, <1>5, <1>6, <1>7, <1>8, <1>9, <1>10, <1>11, <1>12, <1>13, <1>14
    DEF RedisNext, Progress

(***************************************************************************)
(* What put has acknowledged is found at every worker until its time is    *)
(* up, however often a command failed, was retried, applied twice or       *)
(* applied late: put and get of RedisCcrStore.                             *)
(***************************************************************************)
THEOREM SharedByWorkers == RedisSpec => [](PromiseKept /\ HeldAtServer)
  <1>1. RedisIInv => PromiseKept /\ HeldAtServer
    BY DEF RedisIInv
  <1>2. QED
    BY InitIInv, NextIInv, <1>1, PTL DEF RedisSpec

(***************************************************************************)
(* Every step of the shared store is a step of the contract or none.       *)
(***************************************************************************)
LEMMA StepRefines == RedisIInv /\ [RedisNext]_redisVars => [Promise!Next]_(Promise!vars)
  <1> SUFFICES ASSUME RedisIInv, [RedisNext]_redisVars
               PROVE  Promise!Next \/ UNCHANGED Promise!vars
    BY DEF Promise!vars
  <1> USE DEF RedisIInv, RedisTypeOK, Call, Lookup, Answers
  <1>1. CASE Tick
    <2>1. Promise!Tick
      BY <1>1 DEF Tick, Promise!Tick, history
    <2>2. QED
      BY <2>1 DEF Promise!Next
  <1>2. ASSUME NEW h \in Hashes, NEW c \in Callers, BeginPut(c, h)
        PROVE  Promise!Next
    <2>1. Promise!Offer(h)
      BY <1>2 DEF BeginPut, Promise!Offer
    <2>2. QED
      BY <2>1 DEF Promise!Next
  <1>3. ASSUME NEW h \in Hashes, NEW c \in Callers, BeginGet(c, h)
        PROVE  Promise!Next
    <2>1. Promise!Ask(c, h)
      BY <1>3 DEF BeginGet, Promise!Ask, OnlyLookups
    <2>2. QED
      BY <2>1 DEF Promise!Next
  <1>4. ASSUME NEW c \in Callers, GetAnswered(c)
        PROVE  Promise!Next
    <2> DEFINE h == call[c].hash
    <2>1. asked[c].answer = "pending" /\ asked[c].hash = h /\ h \in Hashes
      BY <1>4 DEF GetAnswered, Trying, CallsMeanIt
    <2>2. CASE Visible(h)
      <3>1. h \in offered
        BY <2>1, <2>2 DEF Visible, NothingFromTheFuture
      <3>2. Promise!Found(c)
        BY <1>4, <2>1, <2>2, <3>1 DEF GetAnswered, Promise!Found, Promise!AnswerWith
      <3>3. QED
        BY <3>2 DEF Promise!Next
    <2>3. CASE ~Visible(h)
      <3>1. asked[c].owed <= clock
        BY <2>1, <2>3 DEF Visible, LookupsPending, HeldAtServer
      <3>2. Promise!Miss(c)
        BY <1>4, <2>1, <2>3, <3>1 DEF GetAnswered, Promise!Miss, Promise!AnswerWith
      <3>3. QED
        BY <3>2 DEF Promise!Next
    <2>4. QED
      BY <2>2, <2>3
  <1>5. ASSUME NEW c \in Callers, Return(c)
        PROVE  Promise!Next \/ UNCHANGED Promise!vars
    <2>1. CASE UNCHANGED held
      BY <1>5, <2>1 DEF Return, Promise!vars
    <2>2. CASE call[c].answer = "ok" /\ call[c].until > held[call[c].hash]
      <3>1. call[c].hash \in Hashes /\ call[c].hash \in offered
        BY <1>5, <2>2 DEF Return, CallsMeanIt
      <3>2. held' = [held EXCEPT ![call[c].hash] = call[c].until]
        BY <1>5, <2>2 DEF Return
      <3>3. held'[call[c].hash] = call[c].until /\ call[c].until \in Nat
        BY <3>1, <3>2
      <3>4. held'[call[c].hash] \in Nat /\ held'[call[c].hash] >= held[call[c].hash]
        BY <2>2, <3>1, <3>3
      <3>5. UNCHANGED <<clock, offered, asked>>
        BY <1>5 DEF Return
      <3>6. Promise!Acknowledge(call[c].hash)
        BY <3>1, <3>2, <3>3, <3>4, <3>5 DEF Promise!Acknowledge
      <3>7. QED
        BY <3>1, <3>6 DEF Promise!Next
    <2>3. QED
      BY <1>5, <2>1, <2>2 DEF Return
  <1>6. ASSUME NEW c \in Callers, Errs(c), UNCHANGED clock, call[c].step \in {"reconnect", "second"}
        PROVE  Promise!Next \/ UNCHANGED Promise!vars
    <2>1. CASE call[c].op = "get" /\ asked[c].answer = "pending"
      <3>1. Promise!Abandon({c})
        BY <1>6, <2>1 DEF Errs, Promise!Abandon
      <3>2. QED
        BY <3>1 DEF Promise!Next
    <2>2. CASE call[c].op # "get"
      BY <1>6, <2>2 DEF Errs, Promise!vars
    <2>3. QED
      BY <1>6, <2>1, <2>2 DEF CallsMeanIt
  <1>7. ASSUME NEW w \in Workers, Dies(w)
        PROVE  Promise!Next
    <2> DEFINE dead == {c \in Callers : at[c] = w /\ asked[c].answer = "pending"}
    <2>1. Promise!Abandon(dead)
      BY <1>7 DEF Dies, Promise!Abandon
    <2>2. QED
      BY <2>1 DEF Promise!Next
  <1>8. ASSUME UNCHANGED <<clock, history>>
        PROVE  UNCHANGED Promise!vars
    BY <1>8 DEF history, Promise!vars
  <1>9. QED
    BY <1>1, <1>2, <1>3, <1>4, <1>5, <1>6, <1>7, <1>8
    DEF RedisNext, Progress, Lock, PutAnswered, FirstFails, Reconnect, ReconnectFails,
        SecondFails, LateApplies, redisVars

(***************************************************************************)
(* RedisCcrStore keeps the contract of the trait CcrStore: what the other  *)
(* backends promise in one process, it promises to all of them.            *)
(***************************************************************************)
THEOREM RedisImplementation == RedisSpec => ImplementsPromise
  <1>1. RedisInit => Promise!Init
    BY DEF RedisInit, Promise!Init, NoLookup
  <1>2. QED
    BY <1>1, InitIInv, NextIInv, StepRefines, PTL DEF RedisSpec, ImplementsPromise, Promise!Spec

-----------------------------------------------------------------------------
(***************************************************************************)
(* The MCP server calls the store one line at a time, for a text that can  *)
(* be stored and for a hash that is well-formed, and for nothing else.     *)
(***************************************************************************)
LEMMA McpUsesTheStore ==
  ASSUME Other \in Callers, SessionNext
  PROVE  RedisNext \/ UNCHANGED redisVars
  <1>1. ASSUME NEW line \in Written,
               Hear(line) \/ CompressAlone(line) \/ RetrieveAlone(line)
        PROVE  UNCHANGED redisVars
    BY <1>1 DEF Hear, CompressAlone, RetrieveAlone
  <1>2. ASSUME NEW line \in Written, CompressShared(line)
        PROVE  RedisNext
    <2>1. line.text \in Hashes /\ BeginPut(Other, line.text)
      BY <1>2 DEF CompressShared, ToCompress, Transforms
    <2>2. QED
      BY <2>1 DEF RedisNext
  <1>3. ASSUME NEW line \in Written, RetrieveShared(line)
        PROVE  RedisNext
    <2>1. line.hash \in Hashes /\ BeginGet(Other, line.hash)
      BY <1>3 DEF RetrieveShared, ToRetrieve, WellFormed
    <2>2. QED
      BY <2>1 DEF RedisNext
  <1>4. CASE CompressedShared \/ RetrievedShared
    BY <1>4 DEF CompressedShared, RetrievedShared, RedisNext
  <1>5. CASE PurgeThread
    BY <1>5 DEF PurgeThread
  <1>6. CASE \E line \in Written : Undecodable(line)
    BY <1>6 DEF Undecodable, RedisNext
  <1>7. QED
    BY <1>1, <1>2, <1>3, <1>4, <1>5, <1>6 DEF SessionNext

(***************************************************************************)
(* However a request, a call of the compression API, a lookup and the      *)
(* death of a worker are interleaved, the store sees only what it allows.  *)
(***************************************************************************)
LEMMA StepUsesTheStore == [Next]_vars => [RedisNext]_redisVars
  <1> SUFFICES ASSUME [Next]_vars
               PROVE  RedisNext \/ UNCHANGED redisVars
    OBVIOUS
  <1>1. Handler \in Callers /\ Other \in Callers
    BY CallersDiffer
  <1>2. CASE StoreStep
    BY <1>2 DEF StoreStep, RedisNext
  <1>3. CASE Begin \/ NothingStored \/ \E again \in BOOLEAN : Finish(again)
    BY <1>3 DEF Begin, NothingStored, Finish
  <1>4. CASE Compress
    BY <1>1, <1>4 DEF Compress, RedisNext
  <1>5. CASE Compressed \/ BlockCompressed \/ \E c \in Callers : Retrieved(c)
    BY <1>1, <1>5 DEF Compressed, BlockCompressed, Retrieved, RedisNext
  <1>6. CASE \E w \in Workers : Lost(w)
    BY <1>6 DEF Lost, RedisNext
  <1>7. CASE \E text \in Hashes, kind \in Kinds : CompressBlock(text, kind)
    BY <1>1, <1>7 DEF CompressBlock, RedisNext
  <1>8. CASE \E c \in Callers : \E h \in Hashes : Retrieve(c, h)
    BY <1>8 DEF Retrieve, RedisNext
  <1>9. CASE McpStep
    BY <1>9, McpUsesTheStore, CallersDiffer DEF McpStep
  <1>10. CASE UNCHANGED vars
    BY <1>10 DEF vars
  <1>11. QED
    BY <1>2, <1>3, <1>4, <1>5, <1>6, <1>7, <1>8, <1>9, <1>10 DEF Next

LEMMA UsesTheStore == Spec => RedisSpec
  <1>1. Init => RedisInit
    BY DEF Init
  <1>2. QED
    BY <1>1, StepUsesTheStore, PTL DEF Spec, RedisSpec

(***************************************************************************)
(* The proxies of one Redis, its API and an MCP server together keep the   *)
(* contract of CcrStore.                                                   *)
(***************************************************************************)
THEOREM ProxiesKeepThePromise == Spec => ImplementsPromise
  BY UsesTheStore, RedisImplementation, PTL

-----------------------------------------------------------------------------
(***************************************************************************)
(* What the store does to the promises, and to the put of a caller         *)
(***************************************************************************)
\* No step of the store takes back what it has promised.
LEMMA PromisesGrow ==
  ASSUME RedisIInv, [RedisNext]_redisVars, NEW h, Redeemed(h)
  PROVE  Redeemed(h)'
  <1>1. ASSUME NEW c \in Callers, Return(c)
        PROVE  held'[h] >= held[h]
    BY <1>1 DEF Return, RedisIInv, RedisTypeOK, Redeemed, Call
  <1>2. held \in [Hashes -> Nat] /\ h \in Hashes
    BY DEF RedisIInv, RedisTypeOK, Redeemed
  <1>3. CASE UNCHANGED held
    BY <1>3 DEF Redeemed
  <1>4. CASE \E c \in Callers : Return(c)
    <2>1. held' \in [Hashes -> Nat]
      BY NextIInv DEF RedisIInv, RedisTypeOK
    <2>2. QED
      BY <1>1, <1>2, <1>4, <2>1 DEF Redeemed
  <1>5. QED
    BY <1>3, <1>4 DEF RedisNext, Tick, LateApplies, BeginPut, BeginGet, Progress, Lock,
       PutAnswered, GetAnswered, FirstFails, Reconnect, ReconnectFails, SecondFails, Errs, Dies,
       redisVars, history

\* Every put there is was there before, and is for the same original.
PutsStay == \A c \in Callers : call'[c].op = "put" => call[c].op = "put" /\ call'[c].hash = call[c].hash

LEMMA StepsKeepPuts ==
  ASSUME RedisIInv
  PROVE  /\ UNCHANGED call => PutsStay
         /\ \A c \in Callers : Progress(c) \/ Return(c) => PutsStay
         /\ \A c \in Callers : \A h \in Hashes : BeginGet(c, h) => PutsStay
         /\ \A w \in Workers : Dies(w) => PutsStay
  <1> USE DEF RedisIInv, RedisTypeOK, Call, PutsStay
  <1>1. ASSUME UNCHANGED call PROVE PutsStay
    BY <1>1
  <1>2. ASSUME NEW c \in Callers, NEW step, Step(c, step) PROVE PutsStay
    BY <1>2 DEF Step
  <1>3. ASSUME NEW c \in Callers, Progress(c) PROVE PutsStay
    BY <1>2, <1>3 DEF Progress, Lock, PutAnswered, GetAnswered, FirstFails, Reconnect, ReconnectFails,
       SecondFails, Errs
  <1>4. ASSUME NEW c \in Callers, Return(c) PROVE PutsStay
    BY <1>4 DEF Return, Idle
  <1>5. ASSUME NEW c \in Callers, NEW h \in Hashes, BeginGet(c, h) PROVE PutsStay
    BY <1>5 DEF BeginGet, Idle
  <1>6. ASSUME NEW w \in Workers, Dies(w) PROVE PutsStay
    BY <1>6 DEF Dies, Idle
  <1>7. QED
    BY <1>1, <1>3, <1>4, <1>5, <1>6

\* An acknowledged original is redeemable once put has returned.
LEMMA ReturnRedeems ==
  ASSUME RedisIInv, NEW c \in Callers, Return(c), call[c].answer = "ok"
  PROVE  \A h : h = call[c].hash => Redeemed(h)'
  <1>1. call[c].hash \in Hashes /\ call[c].until > 0 /\ call[c].until \in Nat
    BY DEF RedisIInv, RedisTypeOK, CallsMeanIt, Call, Return
  <1>2. held' = IF call[c].until > held[call[c].hash]
                THEN [held EXCEPT ![call[c].hash] = call[c].until] ELSE held
    BY DEF Return
  <1>3. held \in [Hashes -> Nat]
    BY DEF RedisIInv, RedisTypeOK
  <1>4. held'[call[c].hash] > 0
    BY <1>1, <1>2, <1>3
  <1>5. QED
    BY <1>1, <1>4 DEF Redeemed

-----------------------------------------------------------------------------
(***************************************************************************)
(* Texts                                                                   *)
(***************************************************************************)
\* Latest is the largest of some positions, and 0 where there is none.
LEMMA LatestIsLargest ==
  ASSUME NEW n \in Nat, NEW S \in SUBSET (1..n)
  PROVE  /\ Latest(S) \in S \cup {0} /\ (S # {} => Max(S) \in S)
         /\ \A x \in S : x <= Latest(S)
  <1>1. CASE S = {}
    BY <1>1 DEF Latest
  <1>2. CASE S # {}
    <2> DEFINE R == {ss \in Nat \X Nat : ss[1] < ss[2]}
               T == {x \in Nat : n - x \in S}
    <2>1. IsWellFoundedOn(R, Nat)
      BY NatLessThanWellFounded DEF OpToRel
    <2>2. \A x, y \in Nat : <<y, x>> \notin R => x <= y
      OBVIOUS
    <2>3. T \subseteq Nat /\ T # {}
      <3>1. PICK x \in S : TRUE
        BY <1>2
      <3>2. n - x \in T
        OBVIOUS
      <3>3. QED
        BY <3>2
    <2> HIDE DEF R
    <2>4. PICK t \in T : \A y \in T : <<y, t>> \notin R
      BY <2>1, <2>3, WFMin
    <2>5. n - t \in S /\ \A y \in S : n - t >= y
      <3>1. \A y \in S : n - y \in T
        OBVIOUS
      <3>2. \A y \in T : t <= y
        BY <2>2, <2>4
      <3>3. QED
        BY <3>1, <3>2
    <2>6. Max(S) \in S /\ \A y \in S : y <= Max(S)
      BY <2>5 DEF Max
    <2>7. QED
      BY <1>2, <2>6 DEF Latest
  <1>3. QED
    BY <1>1, <1>2

\* A sequence is one of its own elements.
LEMMA OfItsElements ==
  ASSUME NEW S, NEW q \in Seq(S)
  PROVE  q \in Seq({q[k] : k \in DOMAIN q})
  <1> DEFINE R == {q[k] : k \in DOMAIN q}
  <1>1. Len(q) \in Nat /\ DOMAIN q = 1..Len(q) /\ q = [k \in 1..Len(q) |-> q[k]]
    OBVIOUS
  <1>2. \A k \in 1..Len(q) : q[k] \in R
    BY <1>1
  <1> HIDE DEF R
  <1>3. q \in [1..Len(q) -> R]
    BY <1>1, <1>2
  <1>4. QED
    BY <1>1, <1>3, SeqDef DEF R

\* What is said after a text is redeemable if both are.
LEMMA BackedTogether ==
  ASSUME NEW s, NEW t, Backed(s), Backed(t)
  PROVE  Backed(s \o t)
  <1> DEFINE S == {s[k] : k \in DOMAIN s} \cup {t[k] : k \in DOMAIN t}
  <1>1. s \in Seq(S) /\ t \in Seq(S)
    BY DEF Backed
  <1>2. \A p \in S : p.is = "summary" => Redeemed(p.of)
    BY DEF Backed
  <1> HIDE DEF S
  <1>3. s \o t \in Seq(S)
    BY <1>1
  <1>4. \A k \in DOMAIN (s \o t) : (s \o t)[k] \in S
    BY <1>3
  <1>5. s \o t \in Seq({(s \o t)[k] : k \in DOMAIN (s \o t)})
    BY <1>3, OfItsElements
  <1>6. QED
    BY <1>2, <1>4, <1>5 DEF Backed

\* One piece that is no summary, or one of what is redeemable.
LEMMA PieceBacked ==
  ASSUME NEW p, p.is = "summary" => Redeemed(p.of)
  PROVE  Backed(<<p>>)
  BY DEF Backed

\* The client's words need no original.
LEMMA WordsBacked ==
  ASSUME NEW text \in ClientText
  PROVE  Backed(text)
  <1> DEFINE words == [is : {"own"}, of : STRING, facts : {<<>>}]
  <1>1. text \in Seq(words)
    BY DEF ClientText
  <1>2. \A p \in words : p.is # "summary"
    OBVIOUS
  <1> HIDE DEF words
  <1>3. QED
    BY <1>1, <1>2, OfItsElements DEF Backed

\* What is read of a message are the client's words.
LEMMA ReadWords ==
  ASSUME NEW dialect, NEW m \in ClientMessage, OneItem(m),
         NEW blocks, blocks = ReadMessage(dialect, m).blocks
  PROVE  /\ Len(blocks) \in Nat /\ DOMAIN blocks = 1..Len(blocks)
         /\ \A j \in DOMAIN blocks : blocks[j].text \in ClientText
  <1>1. m.items \in Seq(ClientItem) /\ NoText \in ClientText
    BY DEF ClientMessage, ClientText, NoText
  <1>2. \A j \in DOMAIN m.items : m.items[j].text \in ClientText
    <2>1. \A item \in ClientItem : item.text \in ClientText
      BY DEF ClientItem
    <2>2. QED
      BY <1>1, <2>1
  <1>3. CASE dialect = "responses" /\ m.type \in OutputTypes
    <2>1. blocks = <<[kind |-> m.type, text |-> m.items[1].text]>>
      BY <1>3 DEF ReadMessage
    <2>2. 1 \in DOMAIN m.items
      BY <1>1, <1>3 DEF OneItem
    <2>3. QED
      BY <1>2, <2>1, <2>2
  <1>4. CASE m.shape = "scalar" /\ ~(dialect = "responses" /\ m.type \in OutputTypes)
    <2>1. \E kind : blocks = <<[kind |-> kind, text |-> m.items[1].text]>>
      BY <1>4 DEF ReadMessage
    <2>2. 1 \in DOMAIN m.items
      BY <1>1, <1>4 DEF OneItem
    <2>3. QED
      BY <1>2, <2>1, <2>2
  <1>5. CASE m.shape = "blocks" /\ ~(dialect = "responses" /\ m.type \in OutputTypes)
    <2>1. blocks = [j \in DOMAIN m.items |-> ReadBlock(m.items[j])]
      BY <1>5 DEF ReadMessage
    <2>2. Len(blocks) = Len(m.items) /\ DOMAIN blocks = 1..Len(m.items)
      BY <1>1, <2>1
    <2>3. \A j \in DOMAIN blocks : blocks[j].text \in ClientText
      BY <1>1, <1>2, <2>1 DEF ReadBlock
    <2>4. QED
      BY <1>1, <2>2, <2>3
  <1>6. CASE m.shape \notin {"scalar", "blocks"} /\ ~(dialect = "responses" /\ m.type \in OutputTypes)
    <2>1. blocks = <<>>
      BY <1>6 DEF ReadMessage
    <2>2. QED
      BY <2>1
  <1>7. QED
    BY <1>3, <1>4, <1>5, <1>6

-----------------------------------------------------------------------------
(***************************************************************************)
(* A request                                                               *)
(***************************************************************************)
\* The request is one that may arrive.
Arrived == \E k \in DOMAIN Cases : case \in Cases[k]

LEMMA ArrivedBody ==
  ASSUME Arrived
  PROVE  /\ case.body \in ClientBody /\ case.body.messages \in Seq(ClientMessage)
         /\ \A i \in DOMAIN case.body.messages :
                case.body.messages[i] \in ClientMessage /\ OneItem(case.body.messages[i])
         /\ case.verbosity # "summary"
  <1>1. /\ case.body \in ClientBody
        /\ \A i \in DOMAIN case.body.messages : OneItem(case.body.messages[i])
        /\ case.verbosity \in {"default", "terse", "full"}
    BY WhatArrives DEF Arrived
  <1>2. case.body.messages \in Seq(ClientMessage)
    BY <1>1 DEF ClientBody
  <1>3. \A i \in DOMAIN case.body.messages : case.body.messages[i] \in ClientMessage
    BY <1>2
  <1>4. QED
    BY <1>1, <1>2, <1>3

\* A note goes on words of the client's.
LEMMA TailWords ==
  ASSUME Arrived, NEW note, NEW l \in TailFor(Talk, Frozen, note)
  PROVE  Backed(TextAt(l))
  <1> DEFINE ms == case.body.messages
             i == NewestUser(Talk)
             blocks == Talk[i].blocks
             texts == {j \in DOMAIN blocks : blocks[j].kind = "text"}
  <1>1. Len(ms) \in Nat /\ DOMAIN ms = 1..Len(ms)
    BY ArrivedBody
  <1>2. Talk = [n \in 1..Len(ms) |-> ReadMessage(case.dialect, ms[n])]
    BY <1>1 DEF Talk, Conversation
  <1>3. i \in 0..Len(ms)
    <2> DEFINE users == {n \in DOMAIN Talk : Talk[n].role = "user"}
    <2>1. users \in SUBSET (1..Len(ms)) /\ \A n \in users : n \in 0..Len(ms)
      BY <1>2
    <2> HIDE DEF users
    <2>2. Latest(users) \in users \cup {0}
      BY <1>1, <2>1, LatestIsLargest
    <2>3. i = Latest(users)
      BY DEF NewestUser, users
    <2>4. 0 \in 0..Len(ms)
      BY <1>1
    <2> HIDE DEF ms, i
    <2>5. QED
      BY <2>1, <2>2, <2>3, <2>4
  <1>4. i # 0 /\ texts # {} /\ l = <<i, Max(texts)>>
    BY DEF TailFor
  <1>5. ms[i] \in ClientMessage /\ OneItem(ms[i]) /\ blocks = ReadMessage(case.dialect, ms[i]).blocks
    <2>1. i \in 1..Len(ms)
      BY <1>1, <1>3, <1>4
    <2> HIDE DEF i
    <2>2. QED
      BY <1>1, <1>2, <2>1, ArrivedBody
  <1> HIDE DEF blocks, i, ms
  <1>6. /\ Len(blocks) \in Nat /\ DOMAIN blocks = 1..Len(blocks)
        /\ \A j \in DOMAIN blocks : blocks[j].text \in ClientText
    BY <1>5, ReadWords
  <1>7. Max(texts) \in texts
    BY <1>4, <1>6, LatestIsLargest
  <1>8. TextAt(l) \in ClientText
    BY <1>4, <1>6, <1>7 DEF TextAt, blocks, i
  <1>9. QED
    BY <1>8, WordsBacked

LEMMA NotesBacked ==
  ASSUME NEW to, NEW tail, NEW pieces, Backed(pieces),
         \A l \in DOMAIN to : Backed(to[l]), \A l \in tail : Backed(TextAt(l))
  PROVE  \A l \in DOMAIN WithNote(to, tail, pieces) : Backed(WithNote(to, tail, pieces)[l])
  <1> SUFFICES ASSUME NEW l \in DOMAIN to \cup tail
               PROVE  Backed(WithNote(to, tail, pieces)[l])
    BY DEF WithNote
  <1>1. CASE l \in tail /\ l \in DOMAIN to
    BY <1>1, BackedTogether DEF WithNote
  <1>2. CASE l \in tail /\ l \notin DOMAIN to
    BY <1>2, BackedTogether DEF WithNote
  <1>3. CASE l \notin tail
    BY <1>3 DEF WithNote
  <1>4. QED
    BY <1>1, <1>2, <1>3

\* Rewriting puts edits into a body, and changes no other text.
LEMMA RebuiltBacked ==
  ASSUME NEW body \in ClientBody, NEW e, \A l \in DOMAIN e : Backed(e[l])
  PROVE  /\ BodyBacked(Rebuild(body, e))
         /\ {"messages", "options"} \subseteq DOMAIN Rebuild(body, e)
  <1> DEFINE built == Rebuild(body, e)
  <1>1. {"messages", "options", "spaced"} \subseteq DOMAIN body /\ body.messages \in Seq(ClientMessage)
    BY DEF ClientBody
  <1>2. ASSUME NEW i \in DOMAIN body.messages
        PROVE  /\ body.messages[i].items \in Seq(ClientItem)
               /\ \A j \in DOMAIN body.messages[i].items : Backed(body.messages[i].items[j].text)
               /\ {"items", "spaced"} \subseteq DOMAIN body.messages[i]
    <2>1. body.messages[i] \in ClientMessage
      BY <1>1
    <2>2. body.messages[i].items \in Seq(ClientItem)
          /\ {"items", "spaced"} \subseteq DOMAIN body.messages[i]
      BY <2>1 DEF ClientMessage
    <2>3. \A item \in ClientItem : item.text \in ClientText
      BY DEF ClientItem
    <2>4. QED
      BY <2>2, <2>3, WordsBacked
  <1>3. CASE DOMAIN e = {}
    BY <1>1, <1>2, <1>3 DEF Rebuild, BodyBacked
  <1>4. CASE DOMAIN e # {}
    <2> DEFINE rewritten(i) == \E l \in DOMAIN e : l[1] = i
               message(i) == IF rewritten(i) THEN RewriteMessage(body.messages[i], i, e)
                             ELSE body.messages[i]
    <2>1. built = [body EXCEPT !.spaced = FALSE,
                               !.messages = [i \in DOMAIN body.messages |-> message(i)]]
      BY <1>4 DEF Rebuild
    <2>2. /\ built.messages = [i \in DOMAIN body.messages |-> message(i)]
          /\ DOMAIN built = DOMAIN body
      BY <1>1, <2>1
    <2> HIDE DEF built
    <2>3. ASSUME NEW i \in DOMAIN body.messages, NEW j \in DOMAIN message(i).items
          PROVE  Backed(message(i).items[j].text)
      <3>1. CASE rewritten(i)
        <4> DEFINE items == body.messages[i].items
        <4>1. message(i).items = [n \in DOMAIN items |->
                                    IF <<i, n>> \in DOMAIN e
                                    THEN [items[n] EXCEPT !.text = e[<<i, n>>]] ELSE items[n]]
          BY <1>2, <3>1 DEF RewriteMessage
        <4>2. j \in DOMAIN items /\ items[j] \in ClientItem /\ Backed(items[j].text)
          BY <1>2, <2>3, <4>1
        <4>3. "text" \in DOMAIN items[j]
          BY <4>2 DEF ClientItem
        <4>4. CASE <<i, j>> \in DOMAIN e
          <5>1. message(i).items[j].text = e[<<i, j>>]
            BY <4>1, <4>2, <4>3, <4>4
          <5>2. QED
            BY <4>4, <5>1
        <4>5. CASE <<i, j>> \notin DOMAIN e
          BY <4>1, <4>2, <4>5
        <4>6. QED
          BY <4>4, <4>5
      <3>2. CASE ~rewritten(i)
        BY <1>2, <2>3, <3>2
      <3>3. QED
        BY <3>1, <3>2
    <2>4. QED
      BY <1>1, <2>2, <2>3 DEF BodyBacked, built
  <1>5. QED
    BY <1>3, <1>4

-----------------------------------------------------------------------------
(***************************************************************************)
(* Whose put is on its way                                                 *)
(***************************************************************************)
\* A caller that begins a put leaves the other's call alone.
LEMMA BeganPut ==
  ASSUME RedisIInv, NEW c \in Callers, NEW h, BeginPut(c, h)
  PROVE  /\ call'[c].op = "put" /\ call'[c].hash = h
         /\ \A d \in Callers \ {c} : call'[d] = call[d]
  BY DEF BeginPut, Idle, RedisIInv, RedisTypeOK

\* The server's lines are the other caller's.
LEMMA McpPuts ==
  ASSUME RedisIInv, SessionNext
  PROVE  PutsStay \/ \E line \in Written : CompressShared(line)
  <1>1. Other \in Callers
    BY CallersDiffer
  <1>2. CASE UNCHANGED call
    BY <1>2, StepsKeepPuts
  <1>3. CASE \E line \in Written : RetrieveShared(line)
    <2>1. PICK h \in Hashes : BeginGet(Other, h)
      BY <1>3 DEF RetrieveShared, ToRetrieve, WellFormed
    <2>2. QED
      BY <1>1, <2>1, StepsKeepPuts
  <1>4. CASE CompressedShared \/ RetrievedShared
    BY <1>1, <1>4, StepsKeepPuts DEF CompressedShared, RetrievedShared
  <1>5. CASE \E line \in Written : Undecodable(line)
    BY <1>5, StepsKeepPuts DEF Undecodable
  <1>6. QED
    BY <1>2, <1>3, <1>4, <1>5 DEF SessionNext, Hear, CompressAlone, RetrieveAlone, PurgeThread, redisVars

\* A put is begun for a block of the request, for the API, or for a line of the server's.
LEMMA WhoPuts ==
  ASSUME RedisIInv, [Next]_vars
  PROVE  \/ PutsStay
         \/ Compress
         \/ \E text \in Hashes, kind \in Kinds : CompressBlock(text, kind)
         \/ McpStep /\ \E line \in Written : CompressShared(line)
  <1>1. Handler \in Callers /\ Other \in Callers
    BY CallersDiffer
  <1>2. CASE UNCHANGED call
    BY <1>2, StepsKeepPuts
  <1>3. CASE \E c \in Callers : Progress(c) \/ Return(c)
    BY <1>3, StepsKeepPuts
  <1>4. CASE \E w \in Workers : Dies(w)
    BY <1>4, StepsKeepPuts
  <1>5. CASE \E c \in Callers : \E h \in Hashes : BeginGet(c, h)
    BY <1>5, StepsKeepPuts
  <1>6. CASE McpStep
    BY <1>6, McpPuts DEF McpStep
  <1>7. QED
    BY <1>1, <1>2, <1>3, <1>4, <1>5, <1>6 DEF Next, StoreStep, Tick, LateApplies, Begin, Compressed,
       NothingStored, Finish, Lost, BlockCompressed, Retrieve, Retrieved, vars, redisVars

\* An answered call is over.
LEMMA ReturnEnds ==
  ASSUME RedisIInv, NEW c \in Callers, Return(c)
  PROVE  call'[c].op = "none"
  BY DEF Return, Idle, RedisIInv, RedisTypeOK

-----------------------------------------------------------------------------
(***************************************************************************)
(* Every action keeps the summaries backed                                 *)
(***************************************************************************)
LEMMA BackedStays ==
  ASSUME RedisIInv, [RedisNext]_redisVars, NEW text, Backed(text)
  PROVE  Backed(text)'
  BY PromisesGrow DEF Backed

\* What a request forwards has the texts of the body that is left.
LEMMA ForwardedTexts ==
  ASSUME NEW body, {"messages", "options"} \subseteq DOMAIN body, Forward(body)
  PROVE  sent'.messages = body.messages
  <1>1. \A b, member, value : {"messages", "options"} \subseteq DOMAIN b =>
          /\ InsertMember(b, member, value).messages = b.messages
          /\ {"messages", "options"} \subseteq DOMAIN InsertMember(b, member, value)
    BY DEF InsertMember
  <1>2. ShapeOpenAi(body, case.mode).messages = body.messages
    BY <1>1 DEF ShapeOpenAi
  <1>3. QED
    BY <1>2 DEF Forward

LEMMA SentBacked ==
  ASSUME RedisIInv, [Next]_vars, NEW body, BodyBacked(body), sent'.messages = body.messages
  PROVE  BodyBacked(sent)'
  <1>1. [RedisNext]_redisVars
    BY StepUsesTheStore
  <1>2. QED
    BY <1>1, BackedStays DEF BodyBacked

\* One edit more.
LEMMA EditsBacked ==
  ASSUME RedisIInv, [Next]_vars, NEW l, NEW text,
         \A k \in DOMAIN edits : Backed(edits[k]),
         edits' \in {edits, With(l, text)}, edits' = edits \/ Backed(text)'
  PROVE  \A k \in DOMAIN edits' : Backed(edits[k])'
  <1>1. [RedisNext]_redisVars
    BY StepUsesTheStore
  <1>2. CASE edits' = edits
    BY <1>1, <1>2, BackedStays
  <1>3. CASE edits' = With(l, text) /\ Backed(text)'
    BY <1>1, <1>3, BackedStays DEF With
  <1>4. QED
    BY <1>2, <1>3

\* What Finish makes of the edits: notes, which are no summaries, on words or on edits.
LEMMA FinishedBacked ==
  ASSUME RequestBacked, NEW again \in BOOLEAN, Finish(again)
  PROVE  \E body : /\ BodyBacked(body) /\ {"messages", "options"} \subseteq DOMAIN body
                   /\ Forward(body)
  <1> DEFINE facts == IF case.mode = "payg" THEN MemoryBlock(case.memory, case.lines, Asks) ELSE <<>>
             tail == IF facts = <<>> THEN {} ELSE TailFor(Talk, Frozen, "memory")
             kept == IF tail \subseteq DOMAIN edits /\ ~again THEN {} ELSE tail
             remembers == <<[is |-> "memory", of |-> "none", facts |-> facts]>>
             remembered == WithNote(edits, kept, remembers)
             notes == UNION {TailFor(Talk, Frozen, note) : note \in Note(case.verbosity)}
             asks == <<Piece(case.verbosity, "none")>>
             noted == WithNote(remembered, notes, asks)
             final == [l \in {k \in DOMAIN noted : k[1] > Frozen} |-> noted[l]]
  <1>1. Forward(Rebuild(case.body, final))
    BY DEF Finish
  <1>2. Arrived /\ \A l \in DOMAIN edits : Backed(edits[l])
    BY DEF RequestBacked, Arrived
  <1>3. Backed(remembers)
    BY PieceBacked
  <1>4. Backed(asks)
    BY <1>2, ArrivedBody, PieceBacked DEF Piece
  <1>5. \A l \in kept : Backed(TextAt(l))
    BY <1>2, TailWords
  <1>6. \A l \in notes : Backed(TextAt(l))
    BY <1>2, TailWords
  <1> HIDE DEF facts, kept, remembers, notes, asks
  <1>7. \A l \in DOMAIN remembered : Backed(remembered[l])
    BY <1>2, <1>3, <1>5, NotesBacked
  <1> HIDE DEF remembered
  <1>8. \A l \in DOMAIN noted : Backed(noted[l])
    BY <1>4, <1>6, <1>7, NotesBacked
  <1> HIDE DEF noted
  <1>9. \A l \in DOMAIN final : Backed(final[l])
    BY <1>8
  <1>10. case.body \in ClientBody
    BY <1>2, ArrivedBody
  <1> HIDE DEF final
  <1>11. BodyBacked(Rebuild(case.body, final))
         /\ {"messages", "options"} \subseteq DOMAIN Rebuild(case.body, final)
    BY <1>9, <1>10, RebuiltBacked
  <1>12. QED
    BY <1>1, <1>11

LEMMA ArrivedBacked ==
  ASSUME Arrived
  PROVE  BodyBacked(case.body) /\ {"messages", "options"} \subseteq DOMAIN case.body
  <1>1. case.body \in ClientBody
    BY ArrivedBody
  <1> DEFINE e == <<>>
  <1>2. DOMAIN e = {} /\ Rebuild(case.body, e) = case.body
    BY DEF Rebuild
  <1>3. QED
    BY <1>1, <1>2, RebuiltBacked

LEMMA NextRequestBacked ==
  ASSUME RedisIInv, RequestBacked, [Next]_vars
  PROVE  RequestBacked'
  <1>1. Handler \in Callers /\ Other \in Callers /\ Handler # Other
    BY CallersDiffer
  <1>2. Arrived /\ Arrived'
    BY DEF RequestBacked, Arrived, Next, StoreStep, Begin, Compress, Compressed, NothingStored, Finish,
       Lost, CompressBlock, BlockCompressed, McpStep, Retrieve, Retrieved, vars, requestVars
  <1>3. \A l \in DOMAIN edits' : Backed(edits[l])'
    <2>1. \A k \in DOMAIN edits : Backed(edits[k])
      BY DEF RequestBacked
    <2>2. CASE UNCHANGED edits
      BY <2>1, <2>2, EditsBacked
    <2>3. CASE Compressed
      <3>1. PICK name, text : name = Name(Head(todo)) /\ text = <<Piece("summary", name)>>
        OBVIOUS
      <3>2. edits' \in {edits, With(Head(todo), text)}
        BY <2>3, <3>1 DEF Compressed
      <3>3. CASE edits' = edits
        BY <2>2, <3>3
      <3>4. CASE edits' # edits
        <4>1. call[Handler].answer = "ok" /\ call[Handler].hash = name
          BY <2>3, <3>1, <3>4 DEF Compressed, RequestBacked
        <4>2. Redeemed(name)'
          BY <1>1, <2>3, <4>1, ReturnRedeems DEF Compressed
        <4>3. Backed(text)'
          BY <3>1, <4>2 DEF Backed, Piece
        <4>4. QED
          BY <2>1, <3>2, <4>3, EditsBacked
      <3>5. QED
        BY <3>3, <3>4
    <2>4. CASE NothingStored
      <3>1. PICK name, text : name = Name(Head(todo)) /\ text = <<Piece("tidied", name)>>
        OBVIOUS
      <3>2. edits' \in {edits, With(Head(todo), text)}
        BY <2>4, <3>1 DEF NothingStored
      <3>3. Backed(text)'
        BY <3>1 DEF Backed, Piece
      <3>4. QED
        BY <2>1, <3>2, <3>3, EditsBacked
    <2>5. QED
      BY <2>2, <2>3, <2>4 DEF Next, StoreStep, Begin, Compress, Finish, Lost, CompressBlock,
         BlockCompressed, McpStep, Retrieve, Retrieved, vars, requestVars
  <1>4. BodyBacked(sent)'
    <2>1. ASSUME UNCHANGED sent PROVE BodyBacked(sent)'
      <3>1. PICK body : body = sent
        OBVIOUS
      <3>2. QED
        BY <2>1, <3>1, SentBacked DEF RequestBacked
    <2>2. ASSUME NEW body, BodyBacked(body), {"messages", "options"} \subseteq DOMAIN body, Forward(body)
          PROVE  BodyBacked(sent)'
      BY <2>2, ForwardedTexts, SentBacked
    <2>3. CASE Begin
      <3>1. PICK body : body = case.body
        OBVIOUS
      <3>2. UNCHANGED sent \/ Forward(body)
        BY <2>3, <3>1 DEF Begin
      <3>3. QED
        BY <1>2, <2>1, <2>2, <3>1, <3>2, ArrivedBacked
    <2>4. CASE \E again \in BOOLEAN : Finish(again)
      BY <2>2, <2>4, FinishedBacked
    <2>5. QED
      BY <2>1, <2>3, <2>4 DEF Next, StoreStep, Compress, Compressed, NothingStored, Lost,
         CompressBlock, BlockCompressed, McpStep, Retrieve, Retrieved, vars, requestVars
  <1>5. (call[Handler].op = "put" =>
           stage = "zone" /\ todo # <<>> /\ call[Handler].hash = Name(Head(todo)))'
    <2> SUFFICES ASSUME call'[Handler].op = "put"
                 PROVE  /\ stage' = "zone" /\ todo' # <<>>
                        /\ call'[Handler].hash = Name(Head(todo))'
      OBVIOUS
    <2>1. CASE Compress
      <3>1. call'[Handler].hash = Name(Head(todo)) /\ UNCHANGED <<stage, todo, case>>
        BY <1>1, <2>1, BeganPut DEF Compress, requestVars
      <3>2. QED
        BY <2>1, <3>1 DEF Compress, Name, TextAt, Talk
    <2>2. CASE ~Compress
      <3>1. call[Handler].op = "put" /\ call'[Handler].hash = call[Handler].hash
        <4>1. CASE PutsStay
          BY <1>1, <4>1 DEF PutsStay
        <4>2. CASE \E text \in Hashes, kind \in Kinds : CompressBlock(text, kind)
          BY <1>1, <4>2, BeganPut DEF CompressBlock
        <4>3. CASE \E line \in Written : CompressShared(line)
          BY <1>1, <4>3, BeganPut DEF CompressShared
        <4>4. QED
          BY <2>2, <4>1, <4>2, <4>3, WhoPuts
      <3>2. stage = "zone" /\ todo # <<>> /\ call[Handler].hash = Name(Head(todo))
        BY <3>1 DEF RequestBacked
      <3>3. call[Handler].step # "idle"
        BY <1>1, <3>1 DEF RedisIInv, CallsMeanIt
      <3>4. ~Compressed
        BY <1>1, ReturnEnds DEF Compressed
      <3>5. UNCHANGED <<stage, todo, case>>
        <4>1. ASSUME NEW w \in Workers, Lost(w) PROVE UNCHANGED <<stage, todo, case>>
          <5>1. at[Handler] # w
            BY <1>1, <4>1 DEF Lost, Dies, Idle
          <5>2. QED
            BY <4>1, <5>1 DEF Lost
        <4>2. QED
          BY <2>2, <3>2, <3>3, <3>4, <4>1 DEF Next, StoreStep, Begin, NothingStored, Finish,
             CompressBlock, BlockCompressed, McpStep, Retrieve, Retrieved, vars, requestVars
      <3>6. QED
        BY <3>1, <3>2, <3>5 DEF Name, TextAt, Talk
    <2>3. QED
      BY <2>1, <2>2
  <1>6. QED
    BY <1>2, <1>3, <1>4, <1>5 DEF RequestBacked, Arrived

LEMMA NextBlockBacked ==
  ASSUME RedisIInv, BlockBacked, [Next]_vars
  PROVE  BlockBacked'
  <1>1. Handler \in Callers /\ Other \in Callers /\ Handler # Other
    BY CallersDiffer
  <1>2. UNCHANGED case
    BY DEF Next, StoreStep, Begin, Compress, Compressed, NothingStored, Finish,
       Lost, CompressBlock, BlockCompressed, McpStep, Retrieve, Retrieved, vars, requestVars
  <1>3. [RedisNext]_redisVars
    BY StepUsesTheStore
  <1>4. Backed(NoText)' /\ \A t : Backed(Own(t))'
    BY DEF Backed, NoText, Own, Piece
  <1>5. CASE \E text \in Hashes, kind \in Kinds : CompressBlock(text, kind)
    <2>1. PICK text \in Hashes, kind \in Kinds : CompressBlock(text, kind)
      BY <1>5
    <2>2. block' = [text |-> text, reply |-> NoText] /\ ~case.mcp.on
      BY <2>1 DEF CompressBlock, NoBlock
    <2>3. call'[Other].hash = text
      BY <1>1, <2>1, BeganPut DEF CompressBlock
    <2>4. QED
      BY <1>2, <1>4, <2>2, <2>3 DEF BlockBacked
  <1>6. CASE BlockCompressed
    <2>1. ~case.mcp.on /\ call'[Other].op = "none"
      BY <1>1, <1>6, ReturnEnds DEF BlockCompressed, BlockBacked, NoBlock
    <2>2. PICK text : text = block.text
      OBVIOUS
    <2>3. PICK reply : reply = IF call[Other].answer = "ok" /\ text \in Smaller
                               THEN <<Piece("summary", text)>> ELSE Own(text)
      OBVIOUS
    <2>4. block' = [text |-> text, reply |-> reply]
      BY <1>6, <2>2, <2>3 DEF BlockCompressed, BlockBacked
    <2>5. Backed(reply)'
      <3>1. CASE call[Other].answer = "ok" /\ text \in Smaller
        <4>1. call[Other].hash = text
          BY <1>6, <2>1, <2>2 DEF BlockCompressed, BlockBacked
        <4>2. Redeemed(text)'
          BY <1>1, <1>6, <3>1, <4>1, ReturnRedeems DEF BlockCompressed
        <4>3. QED
          BY <2>3, <3>1, <4>2 DEF Backed, Piece
      <3>2. CASE ~(call[Other].answer = "ok" /\ text \in Smaller)
        BY <1>4, <2>3, <3>2
      <3>3. QED
        BY <3>1, <3>2
    <2>6. QED
      BY <1>2, <2>1, <2>4, <2>5 DEF BlockBacked
  <1>7. CASE \E w \in Workers : Lost(w)
    <2>1. PICK w \in Workers : Lost(w)
      BY <1>7
    <2>2. CASE block' = NoBlock /\ w = at[Other]
      <3>1. call'[Other].op = "none"
        BY <1>1, <2>1, <2>2 DEF Lost, Dies, Idle
      <3>2. QED
        BY <1>2, <1>4, <2>2, <3>1 DEF BlockBacked, NoBlock
    <2>3. CASE block' = block
      <3>1. PICK reply : reply = block.reply
        OBVIOUS
      <3>2. Backed(reply)'
        BY <1>3, <3>1, BackedStays DEF BlockBacked
      <3>3. PutsStay
        BY <2>1, StepsKeepPuts DEF Lost
      <3>4. QED
        BY <1>1, <1>2, <2>3, <3>1, <3>2, <3>3 DEF BlockBacked, PutsStay
    <2>4. QED
      BY <2>1, <2>2, <2>3 DEF Lost
  <1>8. ASSUME UNCHANGED block,
               case.mcp.on \/ (call'[Other].op = "put" =>
                                 call[Other].op = "put" /\ call'[Other].hash = call[Other].hash)
        PROVE  BlockBacked'
    <2>1. PICK reply : reply = block.reply
      OBVIOUS
    <2>2. Backed(reply)'
      BY <1>3, <2>1, BackedStays DEF BlockBacked
    <2>3. QED
      BY <1>2, <1>8, <2>1, <2>2 DEF BlockBacked
  <1>9. CASE Compress
    BY <1>1, <1>8, <1>9, BeganPut DEF Compress, clients
  <1>10. CASE McpStep
    BY <1>8, <1>10 DEF McpStep
  <1>11. CASE PutsStay /\ UNCHANGED block
    BY <1>1, <1>8, <1>11 DEF PutsStay
  <1>12. QED
    BY <1>5, <1>6, <1>7, <1>9, <1>10, <1>11, WhoPuts DEF Next, StoreStep, Begin, Compressed,
       NothingStored, Finish, Retrieve, Retrieved, vars, clients

-----------------------------------------------------------------------------
(***************************************************************************)
(* The MCP server                                                          *)
(***************************************************************************)
\* Only what was compressed is answered with a summary.
LEMMA NoSummaryHeard ==
  ASSUME NEW line \in Written, line.form # "undecodable", NEW stats,
         NEW k \in DOMAIN RepliesTo(line, stats)
  PROVE  RepliesTo(line, stats)[k].says # "summary"
  <1>1. line.form \in {"blank", "garbled", "request"}
    <2>1. PICK l \in Lines : line = [l EXCEPT !.id = IF @ = NoId THEN NoId ELSE Len(session.read) + 1]
      BY DEF Written
    <2>2. line.form = l.form
      BY <2>1, LineForms
    <2>3. QED
      BY <2>2, LineForms
  <1>2. CallTool(line, stats).says # "summary"
    BY DEF CallTool, ToolNames, Failure, Success, Reply, ToolResult
  <1>3. Handle(line, stats) = <<>> \/ \E reply : Handle(line, stats) = <<reply>> /\ reply.says # "summary"
    <2>1. \A id, says : Success(id, says).says = says /\ Failure(id, says).says = says
      BY DEF Success, Failure, Reply
    <2>2. CASE line.method = "initialize"
      BY <2>1, <2>2 DEF Handle
    <2>3. CASE line.method = "tools/list"
      BY <2>1, <2>3 DEF Handle
    <2>4. CASE line.method = "tools/call"
      BY <1>2, <2>4 DEF Handle
    <2>5. CASE line.method = "notifications/"
      BY <2>5 DEF Handle
    <2>6. CASE line.method \notin {"initialize", "tools/list", "tools/call", "notifications/"}
      BY <2>1, <2>6 DEF Handle
    <2>7. QED
      BY <2>2, <2>3, <2>4, <2>5, <2>6
  <1>4. \/ RepliesTo(line, stats) = <<>>
        \/ \E reply : RepliesTo(line, stats) = <<reply>> /\ reply.says # "summary"
    <2>1. CASE line.form = "blank"
      BY <2>1 DEF RepliesTo
    <2>2. CASE line.form = "garbled"
      <3>1. Failure(NoId, "parse error").says # "summary"
        BY DEF Failure, Reply
      <3>2. QED
        BY <2>2, <3>1 DEF RepliesTo
    <2>3. CASE line.form = "request"
      BY <1>3, <2>3 DEF RepliesTo
    <2>4. QED
      BY <1>1, <2>1, <2>2, <2>3
  <1>5. QED
    BY <1>4

\* What a line that has been dealt with changes.
LEMMA AnswerGives ==
  ASSUME SessionBacked, NEW line, NEW replies, NEW stats, NEW kept, Answer(line, replies, stats, kept)
  PROVE  /\ DOMAIN session' = DOMAIN session
         /\ session'.store = session.store /\ session'.kept = kept
         /\ session'.given = [h \in Hashes |-> IF Gives(replies, h) THEN Expiry ELSE session.given[h]]
  <1>1. DOMAIN session = {"store", "read", "doing", "replies", "stats", "kept", "given"}
    BY DEF SessionBacked
  <1>2. PICK given : given = [h \in Hashes |-> IF Gives(replies, h) THEN Expiry ELSE session.given[h]]
    OBVIOUS
  <1>3. PICK read, all : read = Append(session.read, line) /\ all = session.replies \o replies
    OBVIOUS
  <1>4. session' = [session EXCEPT !.read = read, !.doing = NoLine, !.replies = all,
                                   !.stats = stats, !.kept = kept, !.given = given]
    BY Zenon, <1>2, <1>3 DEF Answer
  <1>5. QED
    BY <1>1, <1>2, <1>4

\* The life of what a server without a Redis has given away.
LEMMA KeptLong ==
  ASSUME RedisIInv
  PROVE  Expiry \in Nat /\ Expiry >= Ttl /\ Expiry > clock
  <1>1. clock \in Nat
    BY DEF RedisIInv, RedisTypeOK
  <1>2. Ttl \in Nat
    BY TtlNat
  <1>3. CASE Ttl = 0
    BY <1>1, <1>3 DEF Expiry
  <1>4. CASE Ttl # 0
    BY <1>1, <1>2, <1>4 DEF Expiry
  <1>5. QED
    BY <1>3, <1>4

\* The server is started again, after its worker or a line of its client has ended it.
LEMMA RestartBacked ==
  ASSUME RedisIInv, SessionBacked, UNCHANGED <<case, clock, held>>, Restarted, call'[Other].op # "put"
  PROVE  SessionBacked'
  <1>1. Expiry' = Expiry /\ clock \in Nat
    BY DEF Expiry, RedisIInv, RedisTypeOK
  <1>2. PICK kept : kept = IF session.store = "file" THEN session.kept ELSE Nothing
    OBVIOUS
  <1>3. PICK given : given = IF session.store = "memory" THEN Nothing ELSE session.given
    OBVIOUS
  <1>4. session' = Session(session.store, kept, given)
    BY <1>2, <1>3 DEF Restarted
  <1>5. /\ DOMAIN session' = {"store", "read", "doing", "replies", "stats", "kept", "given"}
        /\ session'.store = session.store /\ session'.kept = kept /\ session'.given = given
    BY <1>4 DEF Session
  <1>6. kept \in [Hashes -> Nat] /\ given \in [Hashes -> Nat]
    BY <1>2, <1>3 DEF Nothing, SessionBacked
  <1>7. ~case.mcp.on => given = Nothing
    BY <1>3 DEF SessionBacked
  <1>8. ASSUME NEW h \in Hashes
        PROVE  /\ given[h] <= Expiry
               /\ IF session.store = "redis" THEN given[h] > 0 => Redeemed(h)
                  ELSE given[h] > clock => kept[h] >= given[h]
    <2>1. Nothing[h] = 0 /\ Expiry \in Nat
      BY KeptLong DEF Nothing
    <2>2. /\ session.given[h] <= Expiry
          /\ IF session.store = "redis" THEN session.given[h] > 0 => Redeemed(h)
             ELSE session.given[h] > clock => session.kept[h] >= session.given[h]
      BY DEF SessionBacked
    <2>3. session.store \in {"redis", "file", "memory"}
      BY DEF SessionBacked
    <2>4. QED
      BY <1>1, <1>2, <1>3, <2>1, <2>2, <2>3
  <1>9. QED
    BY <1>1, <1>5, <1>6, <1>7, <1>8 DEF SessionBacked, Redeemed

\* A marker that was given stays good, whatever the server does next.
LEMMA McpBacked ==
  ASSUME RedisIInv, SessionBacked, case.mcp.on, UNCHANGED case, SessionNext
  PROVE  SessionBacked'
  <1>0. Handler \in Callers /\ Other \in Callers /\ Handler # Other
    BY CallersDiffer
  <1>1. [RedisNext]_redisVars
    BY <1>0, McpUsesTheStore
  <1>2. \A h : Redeemed(h) => Redeemed(h)'
    BY <1>1, PromisesGrow
  <1>3. clock' = clock
    BY DEF SessionNext, Hear, Undecodable, CompressShared, RetrieveShared, CompressedShared, RetrievedShared,
       CompressAlone, RetrieveAlone, PurgeThread, BeginPut, BeginGet, Return, Dies, redisVars
  <1>x. Expiry' = Expiry /\ Expiry \in Nat
    BY <1>3, KeptLong DEF Expiry
  <1>4. ASSUME NEW line, NEW replies, NEW stats, NEW kept \in [Hashes -> Nat],
               Answer(line, replies, stats, kept), call'[Other].op # "put",
               \A h \in Hashes : session.store = "redis" \/ kept[h] = session.kept[h] \/ kept[h] = Expiry,
               \A k \in DOMAIN replies : replies[k].says = "summary" =>
                  IF session.store = "redis" THEN Redeemed(replies[k].of)'
                  ELSE kept[replies[k].of] = Expiry
        PROVE  SessionBacked'
    <2>1. /\ DOMAIN session' = DOMAIN session
          /\ session'.store = session.store /\ session'.kept = kept
          /\ session'.given = [h \in Hashes |-> IF Gives(replies, h) THEN Expiry ELSE session.given[h]]
      BY <1>4, AnswerGives
    <2>2. session.given \in [Hashes -> Nat] /\ session'.given \in [Hashes -> Nat]
      BY <1>x, <2>1 DEF SessionBacked
    <2>3. ASSUME NEW h \in Hashes
          PROVE  /\ session'.given[h] <= Expiry'
                 /\ IF session'.store = "redis" THEN session'.given[h] > 0 => Redeemed(h)'
                    ELSE session'.given[h] > clock' => session'.kept[h] >= session'.given[h]
      <3>1. CASE Gives(replies, h)
        <4>1. PICK k \in DOMAIN replies : replies[k].says = "summary" /\ replies[k].of = h
          BY <3>1 DEF Gives
        <4>2. IF session.store = "redis" THEN Redeemed(h)' ELSE kept[h] = Expiry
          BY <1>4, <4>1
        <4>3. session'.given[h] = Expiry
          BY <2>1, <3>1
        <4>4. QED
          BY <1>x, <2>1, <4>2, <4>3
      <3>2. CASE ~Gives(replies, h)
        <4>1. session'.given[h] = session.given[h]
          BY <2>1, <3>2
        <4>2. /\ session.given[h] <= Expiry
              /\ IF session.store = "redis" THEN session.given[h] > 0 => Redeemed(h)
                 ELSE session.given[h] > clock => session.kept[h] >= session.given[h]
          BY DEF SessionBacked
        <4>3. session.given[h] \in Nat /\ kept[h] \in Nat /\ session.kept[h] \in Nat
          BY <1>4, <2>2 DEF SessionBacked
        <4>4. CASE session.store = "redis"
          BY <1>2, <1>x, <2>1, <4>1, <4>2, <4>4
        <4>5. CASE session.store # "redis"
          BY <1>3, <1>4, <1>x, <2>1, <4>1, <4>2, <4>3, <4>5
        <4>6. QED
          BY <4>4, <4>5
      <3>3. QED
        BY <3>1, <3>2
    <2>4. QED
      BY <1>4, <2>1, <2>2, <2>3 DEF SessionBacked
  <1>5. \A line : Reads(line) => call[Other].op # "put"
    BY DEF Reads, SessionBacked
  <1>6. ASSUME NEW line \in Written, Hear(line)
        PROVE  SessionBacked'
    <2>1. PICK stats : stats = Counted(session.stats, line)
      OBVIOUS
    <2>2. PICK replies, kept : replies = RepliesTo(line, stats) /\ kept = session.kept
      OBVIOUS
    <2>3. Answer(line, replies, stats, kept) /\ call'[Other].op # "put"
      BY <1>5, <1>6, <2>1, <2>2 DEF Hear, redisVars
    <2>4. line.form # "undecodable"
      BY <1>6 DEF Hear
    <2>5. \A k \in DOMAIN replies : replies[k].says # "summary"
      BY <2>2, <2>4, NoSummaryHeard
    <2>6. QED
      BY <1>4, <2>2, <2>3, <2>5 DEF SessionBacked
  <1>7. ASSUME NEW line \in Written, CompressShared(line)
        PROVE  SessionBacked'
    <2>1. call'[Other].hash = line.text
      BY <1>0, <1>7, BeganPut DEF CompressShared
    <2>2. line # NoLine
      BY <1>7 DEF CompressShared, ToCompress, Calls, IsCall, NoLine
    <2>3. /\ DOMAIN session' = DOMAIN session /\ session'.doing = line
          /\ session.store = "redis" /\ session'.store = session.store /\ session'.kept = session.kept
          /\ session'.given = session.given
      BY <1>7 DEF CompressShared, Awaits, SessionBacked
    <2>4. QED
      BY <1>2, <1>3, <1>x, <2>1, <2>2, <2>3 DEF SessionBacked, Doing
  <1>8. ASSUME NEW line \in Written, RetrieveShared(line)
        PROVE  SessionBacked'
    <2>1. call'[Other].op = "get"
      BY <1>0, <1>8 DEF RetrieveShared, BeginGet, Idle, RedisIInv, RedisTypeOK
    <2>3. /\ DOMAIN session' = DOMAIN session
          /\ session'.store = session.store /\ session'.kept = session.kept
          /\ session'.given = session.given
      BY <1>8 DEF RetrieveShared, Awaits, SessionBacked
    <2>4. QED
      BY <1>2, <1>3, <1>x, <2>1, <2>3 DEF SessionBacked
  <1>9. CASE CompressedShared
    <2>1. call'[Other].op = "none"
      BY <1>0, <1>9, ReturnEnds DEF CompressedShared
    <2>2. PICK line, stored, kept : /\ line = session.doing /\ kept = session.kept
                                    /\ stored = (call[Other].answer = "ok")
      OBVIOUS
    <2>3. PICK replies, stats : /\ replies = <<Summarized(line, stored)>>
                                /\ stats = WithCompression(session.stats, line.text, stored)
      OBVIOUS
    <2>4. Answer(line, replies, stats, kept)
      BY <1>9, <2>2, <2>3 DEF CompressedShared
    <2>5. session.store = "redis" /\ call[Other].hash = line.text
      BY <1>9, <2>2 DEF CompressedShared, SessionBacked
    <2>6. ASSUME NEW k \in DOMAIN replies, replies[k].says = "summary"
          PROVE  Redeemed(replies[k].of)'
      <3>1. PICK of : of = replies[k].of
        OBVIOUS
      <3>2. stored /\ of = line.text
        BY <2>3, <2>6, <3>1 DEF Summarized, ToolResult, Reply
      <3>3. Redeemed(of)'
        BY <1>0, <1>9, <2>2, <2>5, <3>2, ReturnRedeems DEF CompressedShared
      <3>4. QED
        BY <3>1, <3>3
    <2>7. kept \in [Hashes -> Nat] /\ \A h \in Hashes : kept[h] = session.kept[h]
      BY <2>2 DEF SessionBacked
    <2>8. QED
      BY <1>4, <2>1, <2>4, <2>5, <2>6, <2>7
  <1>10. CASE RetrievedShared
    <2>1. call'[Other].op = "none"
      BY <1>0, <1>10, ReturnEnds DEF RetrievedShared
    <2>2. PICK line, kept, stats : line = session.doing /\ kept = session.kept /\ stats = session.stats
      OBVIOUS
    <2>3. PICK replies : replies = <<Retrieval(line, call[Other].answer = "found")>>
      OBVIOUS
    <2>4. Answer(line, replies, stats, kept)
      BY <1>10, <2>2, <2>3 DEF RetrievedShared
    <2>5. \A k \in DOMAIN replies : replies[k].says # "summary"
      BY <2>3 DEF Retrieval, ToolResult, Reply
    <2>6. kept \in [Hashes -> Nat] /\ \A h \in Hashes : kept[h] = session.kept[h]
      BY <2>2 DEF SessionBacked
    <2>7. QED
      BY <1>4, <2>1, <2>4, <2>5, <2>6
  <1>11. ASSUME NEW line \in Written, CompressAlone(line)
         PROVE  SessionBacked'
    <2>1. call'[Other].op # "put" /\ session.store # "redis" /\ line.text \in Hashes
      BY <1>5, <1>11 DEF CompressAlone, redisVars, ToCompress, Transforms
    <2>2. PICK stored \in BOOLEAN :
            Answer(line, <<Summarized(line, stored)>>,
                   WithCompression(Counted(session.stats, line), line.text, stored),
                   IF stored THEN [session.kept EXCEPT ![line.text] = Expiry] ELSE session.kept)
      BY <1>11 DEF CompressAlone
    <2>3. PICK replies, stats, kept :
            /\ replies = <<Summarized(line, stored)>>
            /\ stats = WithCompression(Counted(session.stats, line), line.text, stored)
            /\ kept = IF stored THEN [session.kept EXCEPT ![line.text] = Expiry] ELSE session.kept
      OBVIOUS
    <2>4. Answer(line, replies, stats, kept)
      BY <2>2, <2>3
    <2>5. session.kept \in [Hashes -> Nat]
      BY DEF SessionBacked
    <2>6. Expiry \in Nat
      BY KeptLong
    <2>7. kept \in [Hashes -> Nat]
      BY <2>3, <2>5, <2>6
    <2>8. \A h \in Hashes : kept[h] = session.kept[h] \/ kept[h] = Expiry
      BY <2>3, <2>5, <2>6
    <2>9. \A k \in DOMAIN replies : replies[k].says = "summary" =>
             replies[k].of = line.text /\ kept[line.text] = Expiry
      BY <2>1, <2>3, <2>5, <2>6 DEF Summarized, ToolResult, Reply
    <2>10. QED
      BY <1>4, <2>1, <2>4, <2>7, <2>8, <2>9
  <1>12. ASSUME NEW line \in Written, RetrieveAlone(line)
         PROVE  SessionBacked'
    <2>1. call'[Other].op # "put"
      BY <1>5, <1>12 DEF RetrieveAlone, redisVars
    <2>2. PICK kept, stats : kept = session.kept /\ stats = Counted(session.stats, line)
      OBVIOUS
    <2>3. PICK replies : replies = <<Retrieval(line, session.kept[line.hash] > clock)>>
      OBVIOUS
    <2>4. Answer(line, replies, stats, kept)
      BY <1>12, <2>2, <2>3 DEF RetrieveAlone
    <2>5. \A k \in DOMAIN replies : replies[k].says # "summary"
      BY <2>3 DEF Retrieval, ToolResult, Reply
    <2>6. kept \in [Hashes -> Nat] /\ \A h \in Hashes : kept[h] = session.kept[h]
      BY <2>2 DEF SessionBacked
    <2>7. QED
      BY <1>4, <2>1, <2>4, <2>5, <2>6
  <1>13. CASE PurgeThread
    <2>1. session.kept \in [Hashes -> Nat] /\ clock \in Nat /\ Ttl \in Nat
      BY TtlNat DEF SessionBacked, RedisIInv, RedisTypeOK
    <2>2. PICK kept : kept = [h \in Hashes |-> IF session.kept[h] > clock THEN session.kept[h] ELSE 0]
      OBVIOUS
    <2>3. session' = [session EXCEPT !.kept = kept] /\ UNCHANGED redisVars
      BY <1>13, <2>2 DEF PurgeThread
    <2>4. /\ DOMAIN session' = DOMAIN session /\ session'.kept = kept
          /\ session'.store = session.store /\ session'.given = session.given
          /\ session'.doing = session.doing
      BY <2>3 DEF SessionBacked
    <2>5. session.given \in [Hashes -> Nat]
      BY DEF SessionBacked
    <2>6. kept \in [Hashes -> Nat]
          /\ \A h \in Hashes : session.given[h] > clock /\ session.kept[h] >= session.given[h] =>
                                  kept[h] >= session.given[h]
      BY <2>1, <2>2, <2>5
    <2>7. UNCHANGED <<call, held, clock>>
      BY <2>3 DEF redisVars, history
    <2>8. QED
      BY <1>2, <1>3, <1>x, <2>3, <2>4, <2>6, <2>7 DEF SessionBacked, Doing
  <1>14. ASSUME NEW line \in Written, Undecodable(line)
         PROVE  SessionBacked'
    <2>1. Restarted /\ Dies(at[Other])
      BY <1>14 DEF Undecodable
    <2>2. UNCHANGED <<held, clock>> /\ call'[Other].op = "none"
      BY <1>0, <2>1 DEF Dies, Idle
    <2>3. QED
      BY <2>1, <2>2, RestartBacked
  <1>15. QED
    BY <1>6, <1>7, <1>8, <1>9, <1>10, <1>11, <1>12, <1>13, <1>14 DEF SessionNext

LEMMA AddingGrows ==
  ASSUME NEW m \in Nat, NEW n \in Nat, n >= m, NEW k \in Nat
  PROVE  m + k \in Nat /\ n + k \in Nat /\ n + k >= m + k
  OBVIOUS

LEMMA ExpiryGrows ==
  ASSUME clock \in Nat, clock' \in Nat, clock' >= clock
  PROVE  Expiry \in Nat /\ Expiry' \in Nat /\ Expiry' >= Expiry
  <1> DEFINE span == IF Ttl = 0 THEN 1 ELSE Ttl
  <1>1. span \in Nat
    BY TtlNat
  <1>2. Expiry = clock + span /\ Expiry' = clock' + span
    BY DEF Expiry
  <1> HIDE DEF span
  <1>3. QED
    BY <1>1, <1>2, AddingGrows

LEMMA NextSessionBacked ==
  ASSUME RedisIInv, SessionBacked, [Next]_vars
  PROVE  SessionBacked'
  <1>1. Handler \in Callers /\ Other \in Callers /\ Handler # Other
    BY CallersDiffer
  <1>2. UNCHANGED case
    BY DEF Next, StoreStep, Begin, Compress, Compressed, NothingStored, Finish,
       Lost, CompressBlock, BlockCompressed, McpStep, Retrieve, Retrieved, vars, requestVars
  <1>3. [RedisNext]_redisVars
    BY StepUsesTheStore
  <1>4. \A h : Redeemed(h) => Redeemed(h)'
    BY <1>3, PromisesGrow
  <1>5. clock \in Nat /\ clock' \in Nat /\ clock' >= clock /\ Ttl \in Nat
    <2>1. clock' = clock \/ clock' = clock + 1
      BY <1>3 DEF RedisNext, Tick, LateApplies, BeginPut, BeginGet, Progress, Lock,
         PutAnswered, GetAnswered, FirstFails, Reconnect, ReconnectFails, SecondFails, Return, Dies,
         redisVars
    <2>2. QED
      BY <2>1, TtlNat DEF RedisIInv, RedisTypeOK
  <1>6. ASSUME UNCHANGED session,
               case.mcp.on => (call'[Other].op = "put" =>
                                 call[Other].op = "put" /\ call'[Other].hash = call[Other].hash)
        PROVE  SessionBacked'
    <2>1. Expiry \in Nat /\ Expiry' \in Nat /\ Expiry' >= Expiry
      BY <1>5, ExpiryGrows
    <2>2. ASSUME NEW h \in Hashes
          PROVE  /\ session.given[h] <= Expiry'
                 /\ IF session.store = "redis" THEN session.given[h] > 0 => Redeemed(h)'
                    ELSE session.given[h] > clock' => session.kept[h] >= session.given[h]
      <3>1. session.kept[h] \in Nat /\ session.given[h] \in Nat
        BY DEF SessionBacked
      <3>2. /\ session.given[h] <= Expiry
            /\ IF session.store = "redis" THEN session.given[h] > 0 => Redeemed(h)
               ELSE session.given[h] > clock => session.kept[h] >= session.given[h]
        BY DEF SessionBacked
      <3>3. QED
        BY <1>4, <1>5, <2>1, <3>1, <3>2
    <2>3. QED
      BY <1>2, <1>6, <2>2 DEF SessionBacked, Doing
  <1>7. CASE McpStep
    BY <1>2, <1>7, McpBacked DEF McpStep
  <1>8. CASE \E w \in Workers : Lost(w)
    <2>1. PICK w \in Workers : Lost(w)
      BY <1>8
    <2>2. CASE w = at[Other]
      <3>1. Dies(w) /\ Restarted
        BY <2>1, <2>2 DEF Lost
      <3>2. call'[Other].op = "none" /\ UNCHANGED <<clock, held>>
        BY <1>1, <2>2, <3>1 DEF Dies, Idle
      <3>3. QED
        BY <1>2, <3>1, <3>2, RestartBacked
    <2>3. CASE w # at[Other]
      <3>1. PutsStay
        BY <2>1, StepsKeepPuts DEF Lost
      <3>2. QED
        BY <1>1, <1>6, <2>1, <2>3, <3>1 DEF Lost, PutsStay
    <2>4. QED
      BY <2>2, <2>3
  <1>9. CASE Compress
    BY <1>1, <1>6, <1>9, BeganPut DEF Compress, clients
  <1>10. CASE \E text \in Hashes, kind \in Kinds : CompressBlock(text, kind)
    BY <1>6, <1>10 DEF CompressBlock
  <1>11. CASE PutsStay /\ UNCHANGED session
    BY <1>1, <1>6, <1>11 DEF PutsStay
  <1>12. QED
    BY <1>7, <1>8, <1>9, <1>10, <1>11, WhoPuts DEF Next, StoreStep, Begin, Compressed, NothingStored,
       Finish, BlockCompressed, Retrieve, Retrieved, vars, clients

-----------------------------------------------------------------------------
LEMMA InitBacked == Init => IInv
  <1> SUFFICES ASSUME Init
               PROVE  IInv
    OBVIOUS
  <1>1. RedisIInv
    BY InitIInv DEF Init
  <1>2. \A c \in Callers : call[c].op = "none"
    BY DEF Init, RedisInit, Idle
  <1>3. Handler \in Callers /\ Other \in Callers
    BY CallersDiffer
  <1>4. RequestBacked
    <2>1. Arrived
      BY DEF Init, Arrived
    <2>2. BodyBacked(case.body)
      BY <2>1, ArrivedBacked
    <2>3. QED
      BY <1>2, <1>3, <2>1, <2>2 DEF Init, RequestBacked, Arrived
  <1>5. BlockBacked
    BY <1>2, <1>3 DEF Init, BlockBacked, NoBlock, NoText, Backed
  <1>6. SessionBacked
    <2>1. PICK store : store = StoreOf(case.mcp)
      OBVIOUS
    <2>2. session = Session(store, Nothing, Nothing)
      BY <2>1 DEF Init, SessionInit
    <2>3. store \in {"redis", "file", "memory"}
      BY <2>1 DEF StoreOf
    <2>4. Expiry \in Nat /\ clock \in Nat
      BY <1>1, KeptLong DEF RedisIInv, RedisTypeOK
    <2>5. QED
      BY <1>2, <1>3, <2>2, <2>3, <2>4 DEF SessionBacked, Session, Nothing
  <1>7. QED
    BY <1>1, <1>4, <1>5, <1>6 DEF IInv

LEMMA NextBacked == IInv /\ [Next]_vars => IInv'
  <1> SUFFICES ASSUME IInv, [Next]_vars
               PROVE  IInv'
    OBVIOUS
  <1>1. RedisIInv'
    BY StepUsesTheStore, NextIInv DEF IInv
  <1>2. RequestBacked' /\ BlockBacked' /\ SessionBacked'
    BY NextRequestBacked, NextBlockBacked, NextSessionBacked DEF IInv
  <1>3. QED
    BY <1>1, <1>2 DEF IInv

\* What was acknowledged is at the server until its time is up.
LEMMA RedeemedMeansThere ==
  ASSUME RedisIInv, NEW h, Redeemed(h)
  PROVE  held[h] > 0 /\ (held[h] > clock => Visible(h))
  BY DEF RedisIInv, RedisTypeOK, HeldAtServer, Redeemed, Visible

(***************************************************************************)
(* No summary is used anywhere before its original was acknowledged, and   *)
(* none is ever used in its place: whatever is on its way out of           *)
(* compress_dialect, of the compression API or of the MCP server is        *)
(* backed, for any requests, workers, failures and life of an original.    *)
(***************************************************************************)
THEOREM SummariesAreBacked == Spec => []IInv
  BY InitBacked, NextBacked, PTL DEF Spec

(***************************************************************************)
(* A marker that has left the proxy can be redeemed at every worker until  *)
(* its time is up: what "Calls ccr_retrieve and lands on worker B"         *)
(* (redis_store.rs:7) needs, for requests, the API and the MCP server.     *)
(***************************************************************************)
THEOREM MarkersAreRedeemable == Spec => []MarkersRedeemable
  <1>1. IInv => MarkersRedeemable
    <2> SUFFICES ASSUME IInv
                 PROVE  MarkersRedeemable
      OBVIOUS
    <2>1. RedisIInv /\ RequestBacked /\ BlockBacked /\ SessionBacked
      BY DEF IInv
    <2>2. ASSUME NEW p \in SentPieces, p.is = "summary"
          PROVE  Redeemed(p.of)
      <3>1. PICK i \in DOMAIN sent.messages : \E j \in DOMAIN sent.messages[i].items :
                  p \in {sent.messages[i].items[j].text[k] : k \in DOMAIN sent.messages[i].items[j].text}
        BY <2>2 DEF SentPieces
      <3>2. PICK j \in DOMAIN sent.messages[i].items :
                  \E k \in DOMAIN sent.messages[i].items[j].text : p = sent.messages[i].items[j].text[k]
        BY <3>1
      <3>3. Backed(sent.messages[i].items[j].text)
        BY <2>1 DEF RequestBacked, BodyBacked
      <3>4. QED
        BY <2>2, <3>2, <3>3 DEF Backed
    <2>3. ASSUME NEW k \in DOMAIN block.reply, block.reply[k].is = "summary"
          PROVE  Redeemed(block.reply[k].of)
      BY <2>1, <2>3 DEF BlockBacked, Backed
    <2>4. session.store = "redis" => \A h \in Hashes : session.given[h] > 0 => Redeemed(h)
      BY <2>1 DEF SessionBacked
    <2>5. \A h \in Told : Redeemed(h)
      BY <2>2, <2>3, <2>4 DEF Told
    <2>6. \A h \in Told : held[h] > 0 /\ (held[h] > clock => Visible(h))
      BY <2>1, <2>5, RedeemedMeansThere
    <2>7. ASSUME session.store # "redis", NEW h \in Hashes, session.given[h] > clock
          PROVE  session.kept[h] > clock
      <3>1. session.kept[h] \in Nat /\ session.given[h] \in Nat /\ clock \in Nat
        BY <2>1 DEF SessionBacked, RedisIInv, RedisTypeOK
      <3>2. session.kept[h] >= session.given[h]
        BY <2>1, <2>7 DEF SessionBacked
      <3>3. QED
        BY <2>7, <3>1, <3>2
    <2>8. QED
      BY <2>6, <2>7 DEF MarkersRedeemable
  <1>2. QED
    BY SummariesAreBacked, <1>1, PTL

-----------------------------------------------------------------------------
(***************************************************************************)
(* Replies and what they count: of a list of lines and a list of replies,  *)
(* whatever session they are in                                            *)
(***************************************************************************)
Answered(line) == line.form = "garbled" \/ (line.form = "request" /\ line.method # "notifications/")
IsList(s) == s \in Seq({s[k] : k \in DOMAIN s})
Owing(read) == {i \in DOMAIN read : Answered(read[i])}
Before(replies, k, says) == Cardinality({j \in 1..(k - 1) : replies[j].says \in says})

Fits(line, replies, k) ==
  LET reply == replies[k]
  IN  /\ reply.id = (IF line.form = "request" THEN line.id ELSE NoId)
      /\ reply.says = "stats" =>
           /\ reply.stats.compressions = Before(replies, k, Summaries)
           /\ reply.stats.retrievals = Before(replies, k, Lookups)
           /\ reply.stats.calls > reply.stats.compressions + reply.stats.retrievals

InStep(read, replies) ==
  /\ Len(replies) = Cardinality(Owing(read))
  /\ \A i \in Owing(read) : Fits(read[i], replies, Cardinality(Owing(read) \cap 1..i))

LEMMA OneMoreElement ==
  ASSUME NEW s, IsList(s), NEW x
  PROVE  /\ IsList(Append(s, x))
         /\ DOMAIN s = 1..Len(s) /\ Len(s) \in Nat
         /\ DOMAIN Append(s, x) = 1..(Len(s) + 1) /\ Len(Append(s, x)) = Len(s) + 1
         /\ \A i \in 1..Len(s) : Append(s, x)[i] = s[i]
         /\ Append(s, x)[Len(s) + 1] = x
         /\ s \o <<x>> = Append(s, x) /\ s \o <<>> = s
<1> DEFINE S == {s[k] : k \in DOMAIN s}
           T == S \cup {x}
           t == Append(s, x)
<1>1. s \in Seq(S)
  BY DEF IsList
<1>2. s \in Seq(T) /\ x \in T /\ Len(s) \in Nat /\ DOMAIN s = 1..Len(s)
  BY <1>1
<1> HIDE DEF S, T
<1>3. /\ t \in Seq(T) /\ Len(t) = Len(s) + 1
      /\ \A i \in 1..Len(s) : t[i] = s[i]
      /\ t[Len(s) + 1] = x
  BY <1>2, AppendProperties
<1>4. DOMAIN t = 1..(Len(s) + 1)
  BY <1>2, <1>3
<1>5. s \o <<x>> = t
  BY <1>2, AppendIsConcat
<1>6. s \o <<>> = s
  BY <1>1, ConcatEmptySeq
<1>7. IsList(t)
  <2> HIDE DEF t
  <2> DEFINE U == {t[k] : k \in DOMAIN t}
  <2>1. \A k \in 1..Len(t) : t[k] \in U
    BY <1>3, <1>4
  <2>2. t = [k \in 1..Len(t) |-> t[k]]
    BY <1>3
  <2> HIDE DEF U
  <2>3. t \in Seq(U)
    <3>1. Len(t) \in Nat
      BY <1>2, <1>3
    <3>2. t \in [1..Len(t) -> U]
      BY <2>1, <2>2
    <3> QED
      BY <3>1, <3>2, SeqDef
  <2> QED
    BY <2>3 DEF IsList, U
<1> QED
  BY <1>2, <1>3, <1>4, <1>5, <1>6, <1>7

\* Sets of positions are finite, and have as many members as fit.
LEMMA Positions ==
  ASSUME NEW n \in Nat, NEW S \in SUBSET (1..n)
  PROVE  /\ IsFiniteSet(S) /\ Cardinality(S) \in Nat
         /\ Cardinality(S \cup {n + 1}) = Cardinality(S) + 1
         /\ \A U \in SUBSET S : Cardinality(U) <= Cardinality(S) /\ Cardinality(U) \in Nat
                                  /\ (U # {} => Cardinality(U) > 0)
<1>1. IsFiniteSet(1..n)
  BY FS_Interval
<1>2. IsFiniteSet(S)
  BY <1>1, FS_Subset
<1>3. Cardinality(S) \in Nat
  BY <1>2, FS_CardinalityType
<1>4. n + 1 \notin S
  OBVIOUS
<1>5. Cardinality(S \cup {n + 1}) = Cardinality(S) + 1
  BY <1>2, <1>4, FS_AddElement
<1>6. ASSUME NEW U \in SUBSET S
      PROVE  Cardinality(U) <= Cardinality(S) /\ Cardinality(U) \in Nat
               /\ (U # {} => Cardinality(U) > 0)
  <2>1. IsFiniteSet(U) /\ Cardinality(U) <= Cardinality(S)
    BY <1>2, FS_Subset
  <2>2. Cardinality(U) \in Nat
    BY <2>1, FS_CardinalityType
  <2>3. Cardinality(U) = 0 <=> U = {}
    BY <2>1, FS_EmptySet
  <2>4. U # {} => Cardinality(U) > 0
    <3> HIDE DEF IsList
    <3>1. Cardinality(U) # 0 => Cardinality(U) > 0
      BY <2>2
    <3> QED
      BY <2>3, <3>1
  <2> QED
    BY <2>1, <2>2, <2>4
<1> QED
  BY <1>2, <1>3, <1>5, <1>6

LEMMA CountBefore ==
  ASSUME NEW replies, IsList(replies), NEW r, NEW says
  PROVE  /\ \A k \in 1..(Len(replies) + 1) :
               Before(Append(replies, r), k, says) = Before(replies, k, says)
         /\ Before(replies, Len(replies) + 1, says) \in Nat
         /\ Before(Append(replies, r), Len(replies) + 2, says)
              = Before(replies, Len(replies) + 1, says) + (IF r.says \in says THEN 1 ELSE 0)
<1> DEFINE n == Len(replies)
           after == Append(replies, r)
           S == {j \in 1..n : replies[j].says \in says}
           T == {j \in 1..(n + 1) : after[j].says \in says}
<1>1. /\ n \in Nat /\ \A i \in 1..n : after[i] = replies[i]
      /\ after[n + 1] = r
  BY OneMoreElement
<1>2. ASSUME NEW k \in 1..(n + 1)
      PROVE  Before(after, k, says) = Before(replies, k, says)
  <2>1. \A j \in 1..(k - 1) : after[j] = replies[j]
    BY <1>1, <1>2
  <2>2. {j \in 1..(k - 1) : after[j].says \in says} = {j \in 1..(k - 1) : replies[j].says \in says}
    BY <2>1
  <2> QED
    BY <2>2 DEF Before
<1>3. Before(replies, n + 1, says) = Cardinality(S)
  <2>1. (n + 1) - 1 = n
    BY <1>1
  <2> QED
    BY <2>1 DEF Before
<1>4. Before(after, n + 2, says) = Cardinality(T)
  <2>1. (n + 2) - 1 = n + 1
    BY <1>1
  <2> QED
    BY <2>1 DEF Before
<1>5. IsFiniteSet(S) /\ Cardinality(S) \in Nat /\ Cardinality(S \cup {n + 1}) = Cardinality(S) + 1
  <2>1. S \in SUBSET (1..n)
    OBVIOUS
  <2> HIDE DEF S
  <2> QED
    BY <1>1, <2>1, Positions
<1>6. T = IF r.says \in says THEN S \cup {n + 1} ELSE S
  BY <1>1
<1>7. Cardinality(T) = Cardinality(S) + (IF r.says \in says THEN 1 ELSE 0)
  <2> HIDE DEF S, T
  <2>1. CASE r.says \in says
    BY <1>5, <1>6, <2>1
  <2>2. CASE r.says \notin says
    BY <1>5, <1>6, <2>2
  <2> QED
    BY <2>1, <2>2
<1> HIDE DEF n, after, S, T
<1>8. /\ \A k \in 1..(n + 1) : Before(after, k, says) = Before(replies, k, says)
      /\ Before(replies, n + 1, says) \in Nat
      /\ Before(after, n + 2, says) = Before(replies, n + 1, says) + (IF r.says \in says THEN 1 ELSE 0)
  BY <1>2, <1>3, <1>4, <1>5, <1>7
<1> QED
  BY <1>8 DEF n, after

LEMMA CountStays ==
  ASSUME NEW replies, IsList(replies), NEW r, NEW says
  PROVE  \A k \in 1..(Len(replies) + 1) :
           Before(Append(replies, r), k, says) = Before(replies, k, says)
<1>1. IsList(replies)
  OBVIOUS
<1> QED
  BY ONLY <1>1, CountBefore

LEMMA OwingOneMore ==
  ASSUME NEW read, IsList(read), NEW line
  PROVE  LET n == Len(read)
         IN  /\ n \in Nat /\ Owing(read) \in SUBSET (1..n)
             /\ Owing(Append(read, line)) =
                  IF Answered(line) THEN Owing(read) \cup {n + 1} ELSE Owing(read)
             /\ \A i \in Owing(read) : i \in 1..n /\ Append(read, line)[i] = read[i]
             /\ Append(read, line)[n + 1] = line
<1> DEFINE n == Len(read)
           after == Append(read, line)
<1>1. /\ n \in Nat /\ DOMAIN read = 1..n /\ DOMAIN after = 1..(n + 1)
      /\ \A i \in 1..n : after[i] = read[i]
      /\ after[n + 1] = line
  BY OneMoreElement
<1> HIDE DEF n, after
<1>2. Owing(read) \in SUBSET (1..n)
  BY <1>1 DEF Owing
<1>3. Owing(after) = IF Answered(line) THEN Owing(read) \cup {n + 1} ELSE Owing(read)
  <2>1. \A i \in 1..(n + 1) : i \in 1..n \/ i = n + 1
    BY <1>1
  <2>2. 1..n \subseteq 1..(n + 1) /\ n + 1 \in 1..(n + 1)
    BY <1>1
  <2> QED
    BY <1>1, <2>1, <2>2 DEF Owing
<1>4. \A i \in Owing(read) : i \in 1..n /\ after[i] = read[i]
  BY <1>1, <1>2
<1> QED
  BY <1>1, <1>2, <1>3, <1>4 DEF n, after

\* A line that wants no reply gets none.
LEMMA Unanswered ==
  ASSUME NEW read, NEW replies, IsList(read), InStep(read, replies), NEW line, ~Answered(line)
  PROVE  InStep(Append(read, line), replies)
<1>1. /\ Owing(Append(read, line)) = Owing(read)
      /\ \A i \in Owing(read) : Append(read, line)[i] = read[i]
  BY OwingOneMore
<1> QED
  BY <1>1 DEF InStep

\* One that wants a reply gets the next.
LEMMA AnsweredNext ==
  ASSUME NEW read, NEW replies, IsList(read), IsList(replies), InStep(read, replies),
         NEW line, Answered(line), NEW r, Fits(line, Append(replies, r), Len(replies) + 1)
  PROVE  InStep(Append(read, line), Append(replies, r))
<1> DEFINE n == Len(read)
           m == Len(replies)
           more == Append(read, line)
           after == Append(replies, r)
           S == Owing(read)
           T == Owing(more)
<1>1. /\ n \in Nat /\ S \in SUBSET (1..n) /\ T = S \cup {n + 1}
      /\ \A i \in S : i \in 1..n /\ more[i] = read[i]
      /\ more[n + 1] = line
  BY OwingOneMore
<1>2. /\ m \in Nat /\ Len(after) = m + 1 /\ \A i \in 1..m : after[i] = replies[i]
  BY OneMoreElement
<1>3. m = Cardinality(S) /\ \A i \in S : Fits(read[i], replies, Cardinality(S \cap 1..i))
  BY DEF InStep
<1>4. Fits(line, after, m + 1)
  OBVIOUS
<1>5. ASSUME NEW says
      PROVE  \A k \in 1..(m + 1) : Before(after, k, says) = Before(replies, k, says)
  BY CountStays
<1> HIDE DEF n, m, more, after, S, T
<1>6. Cardinality(T) = m + 1
  BY <1>1, <1>3, Positions
<1>7. ASSUME NEW i \in S
      PROVE  Fits(more[i], after, Cardinality(T \cap 1..i))
  <2> DEFINE k == Cardinality(S \cap 1..i)
  <2>1. i \in 1..n /\ T \cap 1..i = S \cap 1..i /\ i \in S \cap 1..i
    BY <1>1
  <2>2. k \in 1..m
    <3>1. S \cap 1..i \in SUBSET S /\ S \cap 1..i # {}
      BY <2>1
    <3>2. k <= Cardinality(S) /\ k \in Nat /\ k > 0
      BY <1>1, <3>1, Positions
    <3> QED
      BY <1>2, <1>3, <3>2
  <2> HIDE DEF k
  <2>3. after[k] = replies[k] /\ \A says : Before(after, k, says) = Before(replies, k, says)
    <3>1. k \in 1..(m + 1)
      BY <1>2, <2>2
    <3> QED
      BY <1>2, <1>5, <2>2, <3>1
  <2>4. Fits(read[i], replies, k)
    BY <1>3 DEF k
  <2>5. more[i] = read[i]
    BY <1>1
  <2>6. Fits(more[i], after, k)
    BY <2>3, <2>4, <2>5 DEF Fits
  <2> QED
    BY <2>1, <2>6 DEF k
<1>8. Fits(more[n + 1], after, Cardinality(T \cap 1..(n + 1)))
  <2>1. T \cap 1..(n + 1) = T
    <3>1. \A i \in T : i \in 1..(n + 1)
      BY <1>1
    <3> QED
      BY <3>1
  <2> QED
    BY <1>1, <1>4, <1>6, <2>1
<1>9. \A i \in T : Fits(more[i], after, Cardinality(T \cap 1..i))
  BY <1>1, <1>7, <1>8
<1> QED
  BY <1>2, <1>6, <1>9 DEF InStep, T, more, after
\* A line that is answered leaves the lists in step, and the counts of what was told one on.
LEMMA AnsweredBy ==
  ASSUME NEW read, NEW replies, IsList(read), IsList(replies), InStep(read, replies),
         NEW line, Answered(line), NEW r,
         r.id = (IF line.form = "request" THEN line.id ELSE NoId),
         r.says = "stats" =>
           /\ r.stats.compressions = Before(replies, Len(replies) + 1, Summaries)
           /\ r.stats.retrievals = Before(replies, Len(replies) + 1, Lookups)
           /\ r.stats.calls > r.stats.compressions + r.stats.retrievals
  PROVE  /\ IsList(Append(read, line)) /\ IsList(replies \o <<r>>)
         /\ InStep(Append(read, line), replies \o <<r>>)
         /\ \A says : Before(replies \o <<r>>, Len(replies \o <<r>>) + 1, says)
                        = Before(replies, Len(replies) + 1, says)
                            + (IF r.says \in says THEN 1 ELSE 0)
<1> DEFINE after == Append(replies, r)
           m == Len(replies)
<1>1. IsList(Append(read, line))
  BY OneMoreElement
<1>2. IsList(after) /\ m \in Nat /\ Len(after) = m + 1 /\ after[m + 1] = r /\ replies \o <<r>> = after
  BY OneMoreElement
<1>3. \A says : Before(after, m + 1, says) = Before(replies, m + 1, says)
  <2> SUFFICES ASSUME NEW says
               PROVE  Before(after, m + 1, says) = Before(replies, m + 1, says)
    OBVIOUS
  <2>1. \A k \in 1..(Len(replies) + 1) :
           Before(Append(replies, r), k, says) = Before(replies, k, says)
    BY CountStays
  <2>2. m + 1 \in 1..(m + 1)
    BY <1>2
  <2> QED
    BY <2>1, <2>2
<1>4. \A says : Before(after, m + 2, says)
                  = Before(replies, m + 1, says) + (IF r.says \in says THEN 1 ELSE 0)
  BY CountBefore
<1>5. Fits(line, after, m + 1)
  <2> HIDE DEF after, m
  <2>1. after[m + 1] = r
    BY <1>2
  <2>2. r.says = "stats" =>
           /\ r.stats.compressions = Before(after, m + 1, Summaries)
           /\ r.stats.retrievals = Before(after, m + 1, Lookups)
           /\ r.stats.calls > r.stats.compressions + r.stats.retrievals
    BY <1>3 DEF m
  <2> QED
    BY ONLY <2>1, <2>2, r.id = (IF line.form = "request" THEN line.id ELSE NoId) DEF Fits
<1>6. InStep(Append(read, line), after)
  BY <1>5, AnsweredNext
<1> HIDE DEF after, m
<1>7. Len(after) + 1 = m + 2
  BY <1>2
<1>8. \A says : Before(after, Len(after) + 1, says)
                  = Before(replies, Len(replies) + 1, says) + (IF r.says \in says THEN 1 ELSE 0)
  BY <1>4, <1>7 DEF m
<1>9. replies \o <<r>> = after
  BY <1>2
<1> QED
  BY <1>1, <1>2, <1>6, <1>8, <1>9

-----------------------------------------------------------------------------
(***************************************************************************)
(* What a session counts                                                   *)
(***************************************************************************)
StatsOf == [calls : Nat, compressions : Nat, retrievals : Nat]

LEMMA CountedIs ==
  ASSUME NEW stats \in StatsOf, NEW line
  PROVE  /\ Counted(stats, line) \in StatsOf
         /\ Counted(stats, line).calls =
              stats.calls + (IF IsCall(line) /\ line.tool # Missing THEN 1 ELSE 0)
         /\ Counted(stats, line).compressions = stats.compressions
         /\ Counted(stats, line).retrievals =
              stats.retrievals + (IF Calls(line, "headroom_retrieve") /\ line.hash # Missing
                                  THEN 1 ELSE 0)
<1> DEFINE call1 == IF IsCall(line) /\ line.tool # Missing THEN 1 ELSE 0
           look == IF Calls(line, "headroom_retrieve") /\ line.hash # Missing THEN 1 ELSE 0
<1>1. call1 \in Nat /\ look \in Nat
  OBVIOUS
<1>2. Counted(stats, line) = [stats EXCEPT !.calls = @ + call1, !.retrievals = @ + look]
  BY DEF Counted
<1> HIDE DEF call1, look
<1>3. /\ Counted(stats, line) \in StatsOf
      /\ Counted(stats, line).calls = stats.calls + call1
      /\ Counted(stats, line).compressions = stats.compressions
      /\ Counted(stats, line).retrievals = stats.retrievals + look
  <2> DEFINE one == [stats EXCEPT !.calls = @ + call1]
  <2>1. /\ one \in StatsOf /\ one.calls = stats.calls + call1
        /\ one.compressions = stats.compressions /\ one.retrievals = stats.retrievals
    BY <1>1 DEF StatsOf
  <2>2. Counted(stats, line) = [one EXCEPT !.retrievals = @ + look]
    BY <1>2, Zenon
  <2> HIDE DEF one
  <2> QED
    BY <1>1, <2>1, <2>2 DEF StatsOf
<1> QED
  BY <1>3 DEF call1, look

LEMMA CompressionIs ==
  ASSUME NEW stats \in StatsOf, NEW text, NEW stored \in BOOLEAN
  PROVE  /\ WithCompression(stats, text, stored) \in StatsOf
         /\ WithCompression(stats, text, stored).calls = stats.calls
         /\ WithCompression(stats, text, stored).retrievals = stats.retrievals
         /\ WithCompression(stats, text, stored).compressions =
              stats.compressions + (IF stored /\ text \in Smaller THEN 1 ELSE 0)
<1> DEFINE more == IF stored /\ text \in Smaller THEN 1 ELSE 0
<1>1. more \in Nat
  OBVIOUS
<1>2. WithCompression(stats, text, stored) = [stats EXCEPT !.compressions = @ + more]
  BY DEF WithCompression
<1> HIDE DEF more
<1>3. /\ WithCompression(stats, text, stored) \in StatsOf
      /\ WithCompression(stats, text, stored).calls = stats.calls
      /\ WithCompression(stats, text, stored).retrievals = stats.retrievals
      /\ WithCompression(stats, text, stored).compressions = stats.compressions + more
  BY <1>1, <1>2 DEF StatsOf
<1> QED
  BY <1>3 DEF more

\* What a line that needs no store is answered: nothing, or one reply.
LEMMA HeardReplies ==
  ASSUME NEW line, line.form \in {"blank", "garbled", "request"},
         ~ToCompress(line), ~ToRetrieve(line), NEW stats
  PROVE  /\ ~Answered(line) => RepliesTo(line, stats) = <<>> /\ ~IsCall(line)
         /\ Answered(line) =>
              \E r : /\ RepliesTo(line, stats) = <<r>>
                     /\ r.id = (IF line.form = "request" THEN line.id ELSE NoId)
                     /\ r.says = "stats" => r.stats = stats /\ Calls(line, "headroom_stats")
                     /\ r.says \notin Summaries
                     /\ r.says \in Lookups <=> /\ Calls(line, "headroom_retrieve")
                                               /\ line.hash # Missing
<1> USE DEF Summaries, Lookups, Answered, IsCall, Calls, Success, Failure, Reply, ToolResult
<1>1. CASE line.form = "blank"
  BY <1>1 DEF RepliesTo
<1>2. CASE line.form = "garbled"
  <2>1. RepliesTo(line, stats) = <<Failure(NoId, "parse error")>>
    BY <1>2 DEF RepliesTo
  <2> DEFINE r == Failure(NoId, "parse error")
  <2>2. r.id = NoId /\ r.says = "parse error"
    OBVIOUS
  <2> HIDE DEF r
  <2>3. Answered(line) /\ ~IsCall(line) /\ line.form # "request"
    BY <1>2
  <2>4. r.says \notin Summaries /\ r.says \notin Lookups /\ r.says # "stats"
    BY <2>2
  <2> QED
    BY <2>1, <2>2, <2>3, <2>4 DEF r
<1>3. CASE line.form = "request"
  <2>0. RepliesTo(line, stats) = Handle(line, stats)
    BY <1>3 DEF RepliesTo
  <2>1. CASE line.method = "initialize"
    <3>1. Handle(line, stats) = <<Success(line.id, "initialized")>>
      BY <2>1 DEF Handle
    <3> QED
      BY <1>3, <2>0, <2>1, <3>1
  <2>2. CASE line.method = "tools/list"
    <3>1. Handle(line, stats) = <<Success(line.id, "tools")>>
      BY <2>2 DEF Handle
    <3> QED
      BY <1>3, <2>0, <2>2, <3>1
  <2>3. CASE line.method = "notifications/"
    <3>1. Handle(line, stats) = <<>>
      BY <2>3 DEF Handle
    <3> QED
      BY <1>3, <2>0, <2>3, <3>1
  <2>4. CASE line.method = "tools/call"
    <3>0. Handle(line, stats) = <<CallTool(line, stats)>>
      BY <2>4 DEF Handle
    <3> SUFFICES ASSUME NEW r, r = CallTool(line, stats)
                 PROVE  /\ r.id = line.id
                        /\ r.says = "stats" => r.stats = stats /\ Calls(line, "headroom_stats")
                        /\ r.says \notin Summaries
                        /\ r.says \in Lookups <=> /\ Calls(line, "headroom_retrieve")
                                                  /\ line.hash # Missing
      BY <1>3, <2>0, <2>4, <3>0
    <3>1. CASE line.tool \notin ToolNames
      <4>1. r = Failure(line.id, "invalid params")
        BY <3>1 DEF CallTool, ToolNames
      <4>2. r.id = line.id /\ r.says = "invalid params"
        BY ONLY <4>1 DEF Failure, Reply
      <4>3. ~Calls(line, "headroom_retrieve")
        BY <3>1 DEF ToolNames
      <4> QED
        BY ONLY <4>2, <4>3 DEF Summaries, Lookups
    <3>2. CASE line.tool = "headroom_stats"
      <4>1. r = Reply(line.id, "stats", Missing, stats)
        BY <3>2 DEF CallTool, ToolNames
      <4> QED
        BY <1>3, <2>4, <3>2, <4>1
    <3>3. CASE line.tool = "headroom_compress"
      <4>1. r = ToolResult(line.id, "content", line.text) \/ r = Failure(line.id, "invalid params")
        BY <3>3 DEF CallTool, ToolNames
      <4>2. r.id = line.id /\ (r.says = "content" \/ r.says = "invalid params")
        <5>1. CASE r = ToolResult(line.id, "content", line.text)
          BY ONLY <5>1 DEF ToolResult, Reply
        <5>2. CASE r = Failure(line.id, "invalid params")
          BY ONLY <5>2 DEF Failure, Reply
        <5> QED
          BY <4>1, <5>1, <5>2
      <4>3. ~Calls(line, "headroom_retrieve")
        BY <3>3
      <4> QED
        BY ONLY <4>2, <4>3 DEF Summaries, Lookups
    <3>4. CASE line.tool = "headroom_retrieve"
      <4>1. r = IF line.hash # Missing
                THEN ToolResult(line.id, "malformed", line.hash) ELSE Failure(line.id, "invalid params")
        BY <3>4 DEF CallTool, ToolNames
      <4>2. r.id = line.id /\ r.says = IF line.hash # Missing THEN "malformed" ELSE "invalid params"
        BY ONLY <4>1 DEF ToolResult, Failure, Reply
      <4>3. Calls(line, "headroom_retrieve")
        BY <1>3, <2>4, <3>4
      <4> QED
        BY ONLY <4>2, <4>3 DEF Summaries, Lookups
    <3> QED
      BY <3>1, <3>2, <3>3, <3>4 DEF ToolNames
  <2>5. CASE line.method \notin {"initialize", "tools/list", "notifications/", "tools/call"}
    <3>1. Handle(line, stats) = <<Failure(line.id, "method not found")>>
      BY <2>5 DEF Handle
    <3> DEFINE r == Failure(line.id, "method not found")
    <3>2. r.id = line.id /\ r.says = "method not found"
      OBVIOUS
    <3> HIDE DEF r
    <3>3. Answered(line) /\ ~IsCall(line)
      BY <1>3, <2>5
    <3>4. r.says \notin Summaries /\ r.says \notin Lookups /\ r.says # "stats"
      BY <3>2
    <3> QED
      BY <1>3, <2>0, <3>1, <3>2, <3>3, <3>4 DEF r
  <2> QED
    BY <2>1, <2>2, <2>3, <2>4, <2>5
<1> QED
  BY <1>1, <1>2, <1>3
Tallied(stats, replies, compressing, retrieving) ==
  /\ stats \in StatsOf
  /\ stats.compressions = Before(replies, Len(replies) + 1, Summaries)
  /\ stats.retrievals = Before(replies, Len(replies) + 1, Lookups) + retrieving
  /\ stats.calls >= stats.compressions + stats.retrievals + compressing

\* What the thread waits for, when it waits.
Pending(tool) == IF Doing /\ Calls(session.doing, tool) THEN 1 ELSE 0
Served ==
  Doing => /\ case.mcp.on
           /\ \/ ToCompress(session.doing) /\ call[Other].op = "put"
              \/ ToRetrieve(session.doing) /\ call[Other].op = "get"

(***************************************************************************)
(* The inductive invariant of a session: a call is counted when it is      *)
(* read, a retrieval with it, a compression only when it has come to a     *)
(* summary, so that while one is in the store the counts are ahead of what *)
(* the client was told by the one the thread waits for.                    *)
(***************************************************************************)
SessionCounts ==
  /\ IsList(session.read) /\ IsList(session.replies)
  /\ InStep(session.read, session.replies)
  /\ Tallied(session.stats, session.replies, Pending("headroom_compress"), Pending("headroom_retrieve"))
  /\ Served

\* The undecided lines that are answered are those of a method other than notifications/.
LEMMA CountsHold == SessionCounts => SessionKeepsCount
<1> SUFFICES ASSUME SessionCounts
             PROVE  SessionKeepsCount
  OBVIOUS
<1> DEFINE more == {i \in Undecided : ~Notifies(i)}
           owing == Owing(session.read)
<1>2. owing = Due \cup more
  BY DEF Owing, Answered, Due, Undecided, IsRequest, HasId, Notifies
<1>3. /\ Len(session.replies) = Cardinality(owing)
      /\ \A i \in owing : Fits(session.read[i], session.replies, Cardinality(owing \cap 1..i))
  BY DEF SessionCounts, InStep
<1> HIDE DEF owing
<1>4. /\ Len(session.replies) = Cardinality(Due \cup more)
      /\ \A i \in Due \cup more :
            Fits(session.read[i], session.replies, Cardinality((Due \cup more) \cap 1..i))
  BY <1>2, <1>3
<1>5. more \in SUBSET Undecided
  OBVIOUS
<1> QED
  BY <1>4, <1>5 DEF SessionKeepsCount, Fits, Before, ToldBefore, IsRequest

\* A line is dealt with.
LEMMA Concluded ==
  ASSUME SessionBacked, NEW line, NEW replies, NEW stats, NEW kept, Answer(line, replies, stats, kept),
         IsList(Append(session.read, line)), IsList(session.replies \o replies),
         InStep(Append(session.read, line), session.replies \o replies),
         Tallied(stats, session.replies \o replies, 0, 0)
  PROVE  SessionCounts'
<1> DEFINE given == [h \in Hashes |-> IF Gives(replies, h) THEN Expiry ELSE session.given[h]]
           read == Append(session.read, line)
           all == session.replies \o replies
<1>1. session' = [session EXCEPT !.read = read, !.doing = NoLine, !.replies = all,
                                 !.stats = stats, !.kept = kept, !.given = given]
  BY Zenon DEF Answer
<1>2. DOMAIN session = {"store", "read", "doing", "replies", "stats", "kept", "given"}
  BY DEF SessionBacked
<1>3. IsList(read) /\ IsList(all) /\ InStep(read, all) /\ Tallied(stats, all, 0, 0)
  OBVIOUS
<1> HIDE DEF given, read, all
<1>4. /\ session'.read = read /\ session'.replies = all /\ session'.stats = stats
      /\ session'.doing = NoLine
  BY <1>1, <1>2
<1>5. ~Doing'
  BY <1>4 DEF Doing
<1>6. Pending("headroom_compress")' = 0 /\ Pending("headroom_retrieve")' = 0
  BY <1>5 DEF Pending
<1>7. IsList(session'.read) /\ IsList(session'.replies) /\ InStep(session'.read, session'.replies)
  BY <1>3, <1>4
<1>8. Tallied(session'.stats, session'.replies, Pending("headroom_compress")', Pending("headroom_retrieve")')
  BY <1>3, <1>4, <1>6
<1> QED
  BY <1>5, <1>7, <1>8 DEF SessionCounts, Served, IsList, InStep, Owing, Fits, Before, Tallied

\* It is dealt with by one reply.
LEMMA ConcludedBy ==
  ASSUME SessionBacked, NEW line, NEW r, NEW stats \in StatsOf, NEW kept, Answer(line, <<r>>, stats, kept),
         IsList(session.read), IsList(session.replies), InStep(session.read, session.replies),
         Answered(line), r.id = (IF line.form = "request" THEN line.id ELSE NoId),
         r.says = "stats" => r.stats = stats,
         stats.compressions = Before(session.replies, Len(session.replies) + 1, Summaries)
                                + (IF r.says \in Summaries THEN 1 ELSE 0),
         stats.retrievals = Before(session.replies, Len(session.replies) + 1, Lookups)
                              + (IF r.says \in Lookups THEN 1 ELSE 0),
         stats.calls >= stats.compressions + stats.retrievals,
         r.says = "stats" => stats.calls > stats.compressions + stats.retrievals
  PROVE  SessionCounts'
<1> DEFINE replies == session.replies
           before == Len(replies) + 1
<1>1. r.says = "stats" =>
           /\ r.stats.compressions = Before(replies, before, Summaries)
           /\ r.stats.retrievals = Before(replies, before, Lookups)
           /\ r.stats.calls > r.stats.compressions + r.stats.retrievals
  <2> SUFFICES ASSUME r.says = "stats"
               PROVE  /\ r.stats.compressions = Before(replies, before, Summaries)
                      /\ r.stats.retrievals = Before(replies, before, Lookups)
                      /\ r.stats.calls > r.stats.compressions + r.stats.retrievals
    OBVIOUS
  <2>1. r.says \notin Summaries /\ r.says \notin Lookups
    BY DEF Summaries, Lookups
  <2>2. Before(replies, before, Summaries) \in Nat /\ Before(replies, before, Lookups) \in Nat
    BY CountBefore
  <2> HIDE DEF before, replies
  <2> QED
    BY <2>1, <2>2 DEF replies, before
<1>2. /\ IsList(Append(session.read, line)) /\ IsList(replies \o <<r>>)
      /\ InStep(Append(session.read, line), replies \o <<r>>)
      /\ \A says : Before(replies \o <<r>>, Len(replies \o <<r>>) + 1, says)
                     = Before(replies, before, says) + (IF r.says \in says THEN 1 ELSE 0)
  <2>1. /\ IsList(session.read) /\ IsList(replies) /\ InStep(session.read, replies) /\ Answered(line)
        /\ r.id = (IF line.form = "request" THEN line.id ELSE NoId)
    OBVIOUS
  <2> QED
    BY ONLY <1>1, <2>1, AnsweredBy
<1>3. Tallied(stats, replies \o <<r>>, 0, 0)
  <2>1. stats.calls \in Nat /\ stats.compressions \in Nat /\ stats.retrievals \in Nat
    BY DEF StatsOf
  <2>2. /\ stats.compressions = Before(replies \o <<r>>, Len(replies \o <<r>>) + 1, Summaries)
        /\ stats.retrievals = Before(replies \o <<r>>, Len(replies \o <<r>>) + 1, Lookups)
    BY <1>2
  <2> HIDE DEF replies
  <2>3. stats.retrievals = Before(replies \o <<r>>, Len(replies \o <<r>>) + 1, Lookups) + 0
    BY <2>1, <2>2
  <2>4. stats.calls >= stats.compressions + stats.retrievals + 0
    BY <2>1
  <2> QED
    BY <2>2, <2>3, <2>4 DEF Tallied
<1> QED
  BY <1>2, <1>3, Concluded
LEMMA Read ==
  ASSUME NEW line \in Written, line.form # "undecodable"
  PROVE  line.form \in {"blank", "garbled", "request"}
<1>1. PICK l \in Lines : line = [l EXCEPT !.id = IF @ = NoId THEN NoId ELSE Len(session.read) + 1]
  BY DEF Written
<1>2. line.form = l.form
  BY <1>1, LineForms
<1> QED
  BY <1>2, LineForms

\* The counts of a thread that waits for nothing are those of what was told.
LEMMA Idling ==
  ASSUME SessionCounts, ~Doing
  PROVE  /\ session.stats \in StatsOf
         /\ session.stats.compressions = Before(session.replies, Len(session.replies) + 1, Summaries)
         /\ session.stats.retrievals = Before(session.replies, Len(session.replies) + 1, Lookups)
         /\ session.stats.calls >= session.stats.compressions + session.stats.retrievals
<1>1. Pending("headroom_compress") = 0 /\ Pending("headroom_retrieve") = 0
  BY DEF Pending
<1> DEFINE stats == session.stats
           c == Before(session.replies, Len(session.replies) + 1, Summaries)
           r == Before(session.replies, Len(session.replies) + 1, Lookups)
<1>2. c \in Nat /\ r \in Nat
  BY CountBefore DEF SessionCounts
<1>3. /\ stats \in StatsOf /\ stats.compressions = c /\ stats.retrievals = r + 0
      /\ stats.calls >= stats.compressions + stats.retrievals + 0
  BY <1>1 DEF SessionCounts, Tallied
<1>4. stats.calls \in Nat
  BY <1>3 DEF StatsOf
<1> HIDE DEF stats, c, r
<1>5. stats.retrievals = r /\ stats.calls >= stats.compressions + stats.retrievals
  BY <1>2, <1>3, <1>4
<1> QED
  BY <1>3, <1>5 DEF stats, c, r

LEMMA HearCounts ==
  ASSUME SessionBacked, SessionCounts, NEW line \in Written, Hear(line)
  PROVE  SessionCounts'
<1> DEFINE stats == Counted(session.stats, line)
           before == Len(session.replies) + 1
<1>1. ~Doing /\ ~ToCompress(line) /\ ~ToRetrieve(line)
  BY DEF Hear, Reads
<1>2. Answer(line, RepliesTo(line, stats), stats, session.kept)
  BY DEF Hear
<1>3. /\ session.stats \in StatsOf
      /\ session.stats.compressions = Before(session.replies, before, Summaries)
      /\ session.stats.retrievals = Before(session.replies, before, Lookups)
      /\ session.stats.calls >= session.stats.compressions + session.stats.retrievals
  BY <1>1, Idling
<1>4. /\ stats \in StatsOf
      /\ stats.calls = session.stats.calls + (IF IsCall(line) /\ line.tool # Missing THEN 1 ELSE 0)
      /\ stats.compressions = session.stats.compressions
      /\ stats.retrievals = session.stats.retrievals
            + (IF Calls(line, "headroom_retrieve") /\ line.hash # Missing THEN 1 ELSE 0)
  BY <1>3, CountedIs
<1>5. IsList(session.read) /\ IsList(session.replies) /\ InStep(session.read, session.replies)
  BY DEF SessionCounts
<1>6. line.form \in {"blank", "garbled", "request"}
  BY Read DEF Hear
<1>7. /\ ~Answered(line) => RepliesTo(line, stats) = <<>> /\ ~IsCall(line)
      /\ Answered(line) =>
           \E r : /\ RepliesTo(line, stats) = <<r>>
                  /\ r.id = (IF line.form = "request" THEN line.id ELSE NoId)
                  /\ r.says = "stats" => r.stats = stats /\ Calls(line, "headroom_stats")
                  /\ r.says \notin Summaries
                  /\ r.says \in Lookups <=> /\ Calls(line, "headroom_retrieve")
                                            /\ line.hash # Missing
  BY <1>1, <1>6, HeardReplies
<1>8. /\ session.stats.calls \in Nat /\ session.stats.compressions \in Nat
      /\ session.stats.retrievals \in Nat
  BY <1>3 DEF StatsOf
<1> HIDE DEF stats, before
<1>9. CASE ~Answered(line)
  <2>1. RepliesTo(line, stats) = <<>> /\ ~IsCall(line) /\ ~Calls(line, "headroom_retrieve")
    BY <1>7, <1>9 DEF Calls
  <2>2. /\ stats.calls = session.stats.calls /\ stats.compressions = session.stats.compressions
        /\ stats.retrievals = session.stats.retrievals
    BY <1>4, <1>8, <2>1
  <2>3. session.replies \o <<>> = session.replies /\ IsList(Append(session.read, line))
    BY <1>5, OneMoreElement
  <2>4. InStep(Append(session.read, line), session.replies)
    BY <1>5, <1>9, Unanswered
  <2>5. Tallied(stats, session.replies, 0, 0)
    <3>1. stats.retrievals = Before(session.replies, before, Lookups) + 0
      BY <1>3, <1>8, <2>2
    <3>2. stats.calls >= stats.compressions + stats.retrievals + 0
      BY <1>3, <1>8, <2>2
    <3> QED
      BY <1>3, <1>4, <2>2, <3>1, <3>2 DEF Tallied, before
  <2>6. Answer(line, <<>>, stats, session.kept)
    BY <1>2, <2>1
  <2>7. IsList(session.replies \o <<>>) /\ InStep(Append(session.read, line), session.replies \o <<>>)
        /\ Tallied(stats, session.replies \o <<>>, 0, 0)
    BY <1>5, <2>3, <2>4, <2>5
  <2> QED
    BY <2>3, <2>6, <2>7, Concluded
<1>10. CASE Answered(line)
  <2>1. PICK r : /\ RepliesTo(line, stats) = <<r>>
                 /\ r.id = (IF line.form = "request" THEN line.id ELSE NoId)
                 /\ r.says = "stats" => r.stats = stats /\ Calls(line, "headroom_stats")
                 /\ r.says \notin Summaries
                 /\ r.says \in Lookups <=> /\ Calls(line, "headroom_retrieve")
                                           /\ line.hash # Missing
    BY <1>7, <1>10
  <2>2. Answer(line, <<r>>, stats, session.kept)
    BY <1>2, <2>1
  <2>3. /\ stats.compressions = Before(session.replies, before, Summaries)
                                  + (IF r.says \in Summaries THEN 1 ELSE 0)
        /\ stats.retrievals = Before(session.replies, before, Lookups)
                                + (IF r.says \in Lookups THEN 1 ELSE 0)
    BY ONLY <1>3, <1>4, <1>8, <2>1
  <2>4. stats.calls >= stats.compressions + stats.retrievals
    <3>1. Calls(line, "headroom_retrieve") => IsCall(line) /\ line.tool # Missing
      BY DEF Calls, Missing
    <3> QED
      BY ONLY <1>3, <1>4, <1>8, <3>1
  <2>5. r.says = "stats" => stats.calls > stats.compressions + stats.retrievals
    <3>1. Calls(line, "headroom_stats") =>
            IsCall(line) /\ line.tool # Missing /\ ~Calls(line, "headroom_retrieve")
      BY DEF Calls, Missing
    <3> QED
      BY ONLY <1>3, <1>4, <1>8, <2>1, <3>1
  <2>6. /\ r.id = (IF line.form = "request" THEN line.id ELSE NoId)
        /\ r.says = "stats" => r.stats = stats
    BY <2>1
  <2> QED
    BY ONLY SessionBacked, <1>4, <1>5, <1>10, <2>2, <2>3, <2>4, <2>5, <2>6, ConcludedBy DEF before
<1> QED
  BY <1>9, <1>10

\* A put or a get that needs no Redis.
LEMMA AloneCounts ==
  ASSUME SessionBacked, SessionCounts, NEW line \in Written, CompressAlone(line) \/ RetrieveAlone(line)
  PROVE  SessionCounts'
<1> DEFINE counted == Counted(session.stats, line)
           before == Len(session.replies) + 1
<1>1. ~Doing
  BY DEF CompressAlone, RetrieveAlone, Reads
<1>3. /\ session.stats \in StatsOf
      /\ session.stats.compressions = Before(session.replies, before, Summaries)
      /\ session.stats.retrievals = Before(session.replies, before, Lookups)
      /\ session.stats.calls >= session.stats.compressions + session.stats.retrievals
  BY <1>1, Idling
<1>4. /\ counted \in StatsOf
      /\ counted.calls = session.stats.calls + (IF IsCall(line) /\ line.tool # Missing THEN 1 ELSE 0)
      /\ counted.compressions = session.stats.compressions
      /\ counted.retrievals = session.stats.retrievals
            + (IF Calls(line, "headroom_retrieve") /\ line.hash # Missing THEN 1 ELSE 0)
  BY <1>3, CountedIs
<1>5. IsList(session.read) /\ IsList(session.replies) /\ InStep(session.read, session.replies)
  BY DEF SessionCounts
<1>8. /\ session.stats.calls \in Nat /\ session.stats.compressions \in Nat
      /\ session.stats.retrievals \in Nat
  BY <1>3 DEF StatsOf
<1> HIDE DEF counted, before
<1>9. CASE CompressAlone(line)
  <2>1. PICK stored \in BOOLEAN :
          \E kept : Answer(line, <<Summarized(line, stored)>>,
                          WithCompression(counted, line.text, stored), kept)
    BY <1>9 DEF CompressAlone, counted
  <2>2. /\ Answered(line) /\ IsCall(line) /\ line.tool # Missing
        /\ ~Calls(line, "headroom_retrieve") /\ line.form = "request"
    BY <1>9 DEF CompressAlone, ToCompress, Calls, IsCall, Missing, Answered
  <2> DEFINE r == Summarized(line, stored)
             stats == WithCompression(counted, line.text, stored)
             one == IF stored /\ line.text \in Smaller THEN 1 ELSE 0
  <2>3. r.id = line.id /\ r.says = IF stored /\ line.text \in Smaller THEN "summary" ELSE "content"
    BY DEF Summarized, ToolResult, Reply
  <2>4. /\ stats \in StatsOf /\ stats.calls = counted.calls
        /\ stats.retrievals = counted.retrievals /\ stats.compressions = counted.compressions + one
    BY <1>4, CompressionIs
  <2>5. /\ one = IF r.says \in Summaries THEN 1 ELSE 0
        /\ r.says \notin Lookups /\ r.says # "stats"
        /\ one \in {0, 1}
    BY <2>3 DEF Summaries, Lookups
  <2>6. PICK kept : Answer(line, <<r>>, stats, kept)
    BY <2>1
  <2> HIDE DEF r, stats, one
  <2>7. /\ stats.compressions = Before(session.replies, before, Summaries)
                                  + (IF r.says \in Summaries THEN 1 ELSE 0)
        /\ stats.retrievals = Before(session.replies, before, Lookups)
                                + (IF r.says \in Lookups THEN 1 ELSE 0)
        /\ stats.calls >= stats.compressions + stats.retrievals
    BY ONLY <1>3, <1>4, <1>8, <2>2, <2>4, <2>5
  <2>8. r.id = (IF line.form = "request" THEN line.id ELSE NoId)
    BY <2>2, <2>3
  <2> QED
    BY ONLY SessionBacked, <1>5, <2>2, <2>4, <2>5, <2>6, <2>7, <2>8, ConcludedBy DEF before
<1>10. CASE RetrieveAlone(line)
  <2> DEFINE r == Retrieval(line, session.kept[line.hash] > clock)
  <2>1. Answer(line, <<r>>, counted, session.kept)
    BY <1>10 DEF RetrieveAlone, counted
  <2>2. /\ Answered(line) /\ IsCall(line) /\ line.tool # Missing
        /\ Calls(line, "headroom_retrieve") /\ line.form = "request" /\ line.hash # Missing
    BY <1>10, MissingIsNoHash DEF RetrieveAlone, ToRetrieve, Calls, IsCall, WellFormed, Missing, Answered
  <2>3. r.id = line.id /\ (r.says = "original" \/ r.says = "expired")
    BY DEF Retrieval, ToolResult, Reply
  <2> HIDE DEF r
  <2>5. r.says \notin Summaries /\ r.says \in Lookups /\ r.says # "stats"
    BY <2>3 DEF Summaries, Lookups
  <2>7. /\ counted.compressions = Before(session.replies, before, Summaries)
                                  + (IF r.says \in Summaries THEN 1 ELSE 0)
        /\ counted.retrievals = Before(session.replies, before, Lookups)
                                + (IF r.says \in Lookups THEN 1 ELSE 0)
        /\ counted.calls >= counted.compressions + counted.retrievals
    BY ONLY <1>3, <1>4, <1>8, <2>2, <2>5
  <2>8. r.id = (IF line.form = "request" THEN line.id ELSE NoId)
    BY <2>2, <2>3
  <2> QED
    BY ONLY SessionBacked, <1>4, <1>5, <2>1, <2>2, <2>5, <2>7, <2>8, ConcludedBy DEF before
<1> QED
  BY <1>9, <1>10
\* The thread begins to wait.
LEMMA WaitingCounts ==
  ASSUME RedisIInv, SessionBacked, SessionCounts, case.mcp.on, UNCHANGED case,
         NEW line \in Written, CompressShared(line) \/ RetrieveShared(line)
  PROVE  SessionCounts'
<1> DEFINE counted == Counted(session.stats, line)
           before == Len(session.replies) + 1
           c == IF ToCompress(line) THEN 1 ELSE 0
           r == IF ToRetrieve(line) THEN 1 ELSE 0
<1>1. ~Doing /\ Other \in Callers
  BY CallersDiffer DEF CompressShared, RetrieveShared, Reads
<1>2. /\ session' = [session EXCEPT !.doing = line, !.stats = counted]
      /\ DOMAIN session = {"store", "read", "doing", "replies", "stats", "kept", "given"}
  BY DEF CompressShared, RetrieveShared, Awaits, SessionBacked
<1>3. /\ session.stats \in StatsOf
      /\ session.stats.compressions = Before(session.replies, before, Summaries)
      /\ session.stats.retrievals = Before(session.replies, before, Lookups)
      /\ session.stats.calls >= session.stats.compressions + session.stats.retrievals
  BY <1>1, Idling
<1>4. /\ counted \in StatsOf
      /\ counted.calls = session.stats.calls + (IF IsCall(line) /\ line.tool # Missing THEN 1 ELSE 0)
      /\ counted.compressions = session.stats.compressions
      /\ counted.retrievals = session.stats.retrievals
            + (IF Calls(line, "headroom_retrieve") /\ line.hash # Missing THEN 1 ELSE 0)
  BY <1>3, CountedIs
<1>5. /\ session.stats.calls \in Nat /\ session.stats.compressions \in Nat
      /\ session.stats.retrievals \in Nat
  BY <1>3 DEF StatsOf
<1>6. \/ ToCompress(line) /\ call'[Other].op = "put"
      \/ ToRetrieve(line) /\ call'[Other].op = "get"
  <2>1. CASE CompressShared(line)
    BY <1>1, <2>1, BeganPut DEF CompressShared
  <2>2. CASE RetrieveShared(line)
    <3>1. ToRetrieve(line) /\ BeginGet(Other, line.hash)
      BY <2>2 DEF RetrieveShared
    <3>2. call'[Other].op = "get"
      BY <1>1, <3>1 DEF BeginGet, Idle, RedisIInv, RedisTypeOK
    <3> QED
      BY <3>1, <3>2
  <2> QED
    BY <2>1, <2>2
<1>7. /\ line.form = "request" /\ IsCall(line) /\ line.tool # Missing
      /\ ToCompress(line) <=> Calls(line, "headroom_compress")
      /\ ToRetrieve(line) <=> Calls(line, "headroom_retrieve")
      /\ Calls(line, "headroom_retrieve") => line.hash # Missing
      /\ ~(ToCompress(line) /\ ToRetrieve(line))
  BY <1>6, MissingIsNoHash DEF ToCompress, ToRetrieve, Calls, IsCall, WellFormed, Missing
<1> HIDE DEF counted, before, c, r
<1>8. /\ session'.doing = line /\ session'.stats = counted
      /\ session'.read = session.read /\ session'.replies = session.replies
  BY <1>2
<1>9. Doing'
  BY <1>7, <1>8 DEF Doing, NoLine
<1>10. Pending("headroom_compress")' = c /\ Pending("headroom_retrieve")' = r
  <2>1. /\ Calls(session.doing, "headroom_compress")' <=> ToCompress(line)
        /\ Calls(session.doing, "headroom_retrieve")' <=> ToRetrieve(line)
    BY <1>7, <1>8 DEF Calls, IsCall
  <2> QED
    BY <1>9, <2>1 DEF Pending, c, r
<1>11. Tallied(counted, session.replies, c, r)
  <2>1. c \in {0, 1} /\ r \in {0, 1} /\ c + r = 1
    BY <1>6, <1>7 DEF c, r
  <2>2. r = IF Calls(line, "headroom_retrieve") /\ line.hash # Missing THEN 1 ELSE 0
    BY <1>7 DEF r
  <2>3. /\ counted.calls = session.stats.calls + 1
        /\ counted.retrievals = Before(session.replies, before, Lookups) + r
    BY ONLY <1>3, <1>4, <1>7, <2>2
  <2>4. counted.calls >= counted.compressions + counted.retrievals + c
    BY ONLY <1>3, <1>4, <1>5, <2>1, <2>3
  <2> QED
    BY ONLY <1>3, <1>4, <2>3, <2>4 DEF Tallied, before
<1>12. IsList(session.read) /\ IsList(session.replies) /\ InStep(session.read, session.replies)
  BY DEF SessionCounts
<1>13. Served'
  <2>1. case'.mcp.on
    OBVIOUS
  <2>2. \/ ToCompress(session'.doing) /\ call'[Other].op = "put"
        \/ ToRetrieve(session'.doing) /\ call'[Other].op = "get"
    BY <1>6, <1>8
  <2> QED
    BY <2>1, <2>2 DEF Served, ToCompress, ToRetrieve, Calls, IsCall
<1>14. Tallied(session'.stats, session'.replies, Pending("headroom_compress")', Pending("headroom_retrieve")')
  BY <1>8, <1>10, <1>11
<1>15. IsList(session'.read) /\ IsList(session'.replies) /\ InStep(session'.read, session'.replies)
  BY <1>8, <1>12
<1> QED
  BY <1>13, <1>14, <1>15 DEF SessionCounts, IsList, InStep, Owing, Fits, Before, Tallied

\* The answer it has waited for.
LEMMA ServedCounts ==
  ASSUME SessionBacked, SessionCounts, CompressedShared \/ RetrievedShared
  PROVE  SessionCounts'
<1> DEFINE before == Len(session.replies) + 1
           stats == session.stats
           line == session.doing
           c == Pending("headroom_compress")
           n == Pending("headroom_retrieve")
<1>1. Doing
  BY DEF CompressedShared, RetrievedShared
<1>2. IsList(session.read) /\ IsList(session.replies) /\ InStep(session.read, session.replies)
  BY DEF SessionCounts
<1>3. /\ stats \in StatsOf
      /\ stats.compressions = Before(session.replies, before, Summaries)
      /\ stats.retrievals = Before(session.replies, before, Lookups) + n
      /\ stats.calls >= stats.compressions + stats.retrievals + c
  BY DEF SessionCounts, Tallied
<1>4. /\ stats.calls \in Nat /\ stats.compressions \in Nat /\ stats.retrievals \in Nat
  BY <1>3 DEF StatsOf
<1>5. /\ Before(session.replies, before, Summaries) \in Nat
      /\ Before(session.replies, before, Lookups) \in Nat
  BY <1>2, CountBefore
<1> HIDE DEF before, stats, line, c, n
<1>6. CASE CompressedShared
  <2>1. ToCompress(line)
    BY <1>1, <1>6 DEF CompressedShared, SessionCounts, Served, line
  <2>2. Answered(line) /\ line.form = "request" /\ Calls(line, "headroom_compress")
        /\ ~Calls(line, "headroom_retrieve")
    BY <2>1 DEF ToCompress, Calls, IsCall, Answered
  <2>3. c = 1 /\ n = 0
    BY <1>1, <2>2 DEF c, n, Pending, line
  <2> DEFINE stored == call[Other].answer = "ok"
             r == Summarized(line, stored)
             after == WithCompression(stats, line.text, stored)
             one == IF stored /\ line.text \in Smaller THEN 1 ELSE 0
  <2>4. r.id = line.id /\ r.says = IF stored /\ line.text \in Smaller THEN "summary" ELSE "content"
    BY DEF Summarized, ToolResult, Reply
  <2>5. stored \in BOOLEAN
    OBVIOUS
  <2>6. Answer(line, <<r>>, after, session.kept)
    BY <1>6 DEF CompressedShared, line, stats
  <2> HIDE DEF stored
  <2>7. /\ after \in StatsOf /\ after.calls = stats.calls
        /\ after.retrievals = stats.retrievals /\ after.compressions = stats.compressions + one
    BY <1>3, <2>5, CompressionIs
  <2>8. /\ one = IF r.says \in Summaries THEN 1 ELSE 0
        /\ r.says \notin Lookups /\ r.says # "stats"
        /\ one \in {0, 1}
    BY <2>4 DEF Summaries, Lookups
  <2> HIDE DEF r, after, one
  <2>9. /\ after.compressions = Before(session.replies, before, Summaries)
                                  + (IF r.says \in Summaries THEN 1 ELSE 0)
        /\ after.retrievals = Before(session.replies, before, Lookups)
                                + (IF r.says \in Lookups THEN 1 ELSE 0)
        /\ after.calls >= after.compressions + after.retrievals
    BY ONLY <1>3, <1>4, <1>5, <2>3, <2>7, <2>8
  <2>10. r.id = (IF line.form = "request" THEN line.id ELSE NoId)
    BY <2>2, <2>4
  <2> QED
    BY ONLY SessionBacked, <1>2, <2>2, <2>6, <2>7, <2>8, <2>9, <2>10, ConcludedBy DEF before
<1>7. CASE RetrievedShared
  <2>1. ToRetrieve(line)
    BY <1>1, <1>7 DEF RetrievedShared, SessionCounts, Served, line
  <2>2. Answered(line) /\ line.form = "request" /\ Calls(line, "headroom_retrieve")
        /\ ~Calls(line, "headroom_compress")
    BY <2>1 DEF ToRetrieve, Calls, IsCall, Answered
  <2>3. c = 0 /\ n = 1
    BY <1>1, <2>2 DEF c, n, Pending, line
  <2> DEFINE r == Retrieval(line, call[Other].answer = "found")
  <2>4. r.id = line.id /\ (r.says = "original" \/ r.says = "expired")
    BY DEF Retrieval, ToolResult, Reply
  <2>6. Answer(line, <<r>>, stats, session.kept)
    BY <1>7 DEF RetrievedShared, line, stats
  <2> HIDE DEF r
  <2>8. r.says \notin Summaries /\ r.says \in Lookups /\ r.says # "stats"
    BY <2>4 DEF Summaries, Lookups
  <2>9. /\ stats.compressions = Before(session.replies, before, Summaries)
                                  + (IF r.says \in Summaries THEN 1 ELSE 0)
        /\ stats.retrievals = Before(session.replies, before, Lookups)
                                + (IF r.says \in Lookups THEN 1 ELSE 0)
        /\ stats.calls >= stats.compressions + stats.retrievals
    BY ONLY <1>3, <1>4, <1>5, <2>3, <2>8
  <2>10. r.id = (IF line.form = "request" THEN line.id ELSE NoId)
    BY <2>2, <2>4
  <2> QED
    BY ONLY SessionBacked, <1>2, <1>3, <2>2, <2>6, <2>8, <2>9, <2>10, ConcludedBy DEF before
<1> QED
  BY <1>6, <1>7

\* Nothing is counted while nobody is served.
LEMMA SameCounts ==
  ASSUME SessionCounts, session'.read = session.read, session'.replies = session.replies,
         session'.stats = session.stats, session'.doing = session.doing,
         UNCHANGED case, Doing => call'[Other].op = call[Other].op
  PROVE  SessionCounts'
<1>1. IsList(session'.read) /\ IsList(session'.replies) /\ InStep(session'.read, session'.replies)
  BY DEF SessionCounts
<1>2. Doing' = Doing
  BY DEF Doing
<1>3. /\ Pending("headroom_compress")' = Pending("headroom_compress")
      /\ Pending("headroom_retrieve")' = Pending("headroom_retrieve")
  BY DEF Pending, Doing, Calls, IsCall
<1>4. Tallied(session'.stats, session'.replies, Pending("headroom_compress")', Pending("headroom_retrieve")')
  BY <1>3 DEF SessionCounts
<1>5. Served'
  BY <1>2 DEF SessionCounts, Served, ToCompress, ToRetrieve, Calls, IsCall
<1> QED
  BY <1>1, <1>4, <1>5 DEF SessionCounts, IsList, InStep, Owing, Fits, Before, Tallied

\* A session that has just begun.
LEMMA NewCounts ==
  ASSUME NEW store, NEW kept, NEW given, NEW s, s = Session(store, kept, given)
  PROVE  /\ IsList(s.read) /\ IsList(s.replies) /\ InStep(s.read, s.replies)
         /\ Tallied(s.stats, s.replies, 0, 0) /\ s.doing = NoLine
<1>1. s.read = <<>> /\ s.replies = <<>> /\ s.stats = NoStats /\ s.doing = NoLine
  BY DEF Session
<1>2. IsList(<<>>)
  BY DEF IsList
<1>3. \A k, says : k = 1 => Before(<<>>, k, says) = 0
  BY FS_EmptySet DEF Before
<1>4. InStep(<<>>, <<>>)
  <2>1. Owing(<<>>) = {}
    BY DEF Owing
  <2> QED
    BY <2>1, FS_EmptySet DEF InStep
<1>5. Tallied(NoStats, <<>>, 0, 0)
  BY <1>3 DEF Tallied, NoStats, StatsOf
<1> QED
  BY <1>1, <1>2, <1>4, <1>5
\* What the others do leaves the operation of the server's caller what it is.
LEMMA OpsStay ==
  ASSUME RedisIInv, NEW c \in Callers
  PROVE  /\ UNCHANGED call => call'[c].op = call[c].op
         /\ \A d \in Callers : Progress(d) => call'[c].op = call[c].op
         /\ \A d \in Callers : d # c /\ Return(d) => call'[c].op = call[c].op
         /\ \A d \in Callers : \A h : d # c /\ BeginPut(d, h) => call'[c].op = call[c].op
         /\ \A w \in Workers : w # at[c] /\ Dies(w) => call'[c].op = call[c].op
<1> USE DEF RedisIInv, RedisTypeOK, Call
<1>1. ASSUME NEW d \in Callers, Progress(d)
      PROVE  call'[c].op = call[c].op
  <2>1. ASSUME NEW step, Step(d, step) PROVE call'[c].op = call[c].op
    BY <2>1 DEF Step
  <2>2. CASE Lock(d) \/ Reconnect(d) \/ \E fate \in Fates : FirstFails(d, fate)
    BY <2>1, <2>2 DEF Lock, Reconnect, FirstFails
  <2>3. CASE PutAnswered(d)
    BY <2>3 DEF PutAnswered
  <2>4. CASE GetAnswered(d)
    BY <2>4 DEF GetAnswered
  <2>5. CASE ReconnectFails(d) \/ \E fate \in Fates : SecondFails(d, fate)
    <3>1. Errs(d)
      BY <2>5 DEF ReconnectFails, SecondFails
    <3> QED
      BY <3>1 DEF Errs
  <2> QED
    BY <1>1, <2>2, <2>3, <2>4, <2>5 DEF Progress
<1>2. ASSUME NEW d \in Callers, d # c, Return(d)
      PROVE  call'[c].op = call[c].op
  BY <1>2 DEF Return
<1>3. ASSUME NEW d \in Callers, NEW h, d # c, BeginPut(d, h)
      PROVE  call'[c].op = call[c].op
  BY <1>3 DEF BeginPut
<1>4. ASSUME NEW w \in Workers, w # at[c], Dies(w)
      PROVE  call'[c].op = call[c].op
  BY <1>4 DEF Dies
<1> QED
  BY <1>1, <1>2, <1>3, <1>4

LEMMA PurgeCounts ==
  ASSUME SessionBacked, SessionCounts, UNCHANGED case, PurgeThread
  PROVE  SessionCounts'
<1>1. DOMAIN session = {"store", "read", "doing", "replies", "stats", "kept", "given"}
  BY DEF SessionBacked
<1>2. PICK kept : session' = [session EXCEPT !.kept = kept]
  BY DEF PurgeThread
<1>3. /\ session'.read = session.read /\ session'.replies = session.replies
      /\ session'.stats = session.stats /\ session'.doing = session.doing
  BY <1>1, <1>2
<1>4. call' = call
  BY DEF PurgeThread, redisVars
<1> QED
  BY <1>3, <1>4, SameCounts

LEMMA BegunCounts ==
  ASSUME NEW store, NEW kept, NEW given
  PROVE  /\ session = Session(store, kept, given) => SessionCounts
         /\ session' = Session(store, kept, given) => SessionCounts'
<1> DEFINE s == Session(store, kept, given)
<1>1. /\ IsList(s.read) /\ IsList(s.replies) /\ InStep(s.read, s.replies)
      /\ Tallied(s.stats, s.replies, 0, 0) /\ s.doing = NoLine
  BY NewCounts
<1> HIDE DEF s
<1>2. ASSUME session = s PROVE SessionCounts
  <2>1. ~Doing /\ Pending("headroom_compress") = 0 /\ Pending("headroom_retrieve") = 0
    BY <1>1, <1>2 DEF Doing, Pending
  <2> QED
    BY <1>1, <1>2, <2>1 DEF SessionCounts, Served
<1>3. ASSUME session' = s PROVE SessionCounts'
  <2>1. ~Doing'
    BY <1>1, <1>3 DEF Doing
  <2>2. Pending("headroom_compress")' = 0 /\ Pending("headroom_retrieve")' = 0
    BY <2>1 DEF Pending
  <2>3. IsList(session'.read) /\ IsList(session'.replies) /\ InStep(session'.read, session'.replies)
    BY <1>1, <1>3
  <2>4. Tallied(session'.stats, session'.replies, Pending("headroom_compress")', Pending("headroom_retrieve")')
    BY <1>1, <1>3, <2>2
  <2> QED
    BY <2>1, <2>3, <2>4 DEF SessionCounts, Served, IsList, InStep, Owing, Fits, Before, Tallied
<1> QED
  BY <1>2, <1>3 DEF s

LEMMA NextCounts ==
  ASSUME IInv, SessionCounts, [Next]_vars
  PROVE  SessionCounts'
<1>1. RedisIInv /\ SessionBacked /\ BlockBacked
  BY DEF IInv
<1>2. Handler \in Callers /\ Other \in Callers /\ Handler # Other
  BY CallersDiffer
<1>3. UNCHANGED case
  BY DEF Next, StoreStep, Begin, Compress, Compressed, NothingStored, Finish,
     Lost, CompressBlock, BlockCompressed, McpStep, Retrieve, Retrieved, vars, requestVars
<1>4. CASE McpStep
  <2>1. case.mcp.on /\ SessionNext
    BY <1>4 DEF McpStep
  <2>2. ASSUME NEW line \in Written, Hear(line) PROVE SessionCounts'
    BY <1>1, <2>2, HearCounts
  <2>3. ASSUME NEW line \in Written, CompressShared(line) \/ RetrieveShared(line) PROVE SessionCounts'
    BY <1>1, <1>3, <2>1, <2>3, WaitingCounts
  <2>4. ASSUME NEW line \in Written, CompressAlone(line) \/ RetrieveAlone(line) PROVE SessionCounts'
    BY <1>1, <2>4, AloneCounts
  <2>5. CASE CompressedShared \/ RetrievedShared
    BY <1>1, <2>5, ServedCounts
  <2>6. CASE PurgeThread
    BY <1>1, <1>3, <2>6, PurgeCounts
  <2>7. ASSUME NEW line \in Written, Undecodable(line) PROVE SessionCounts'
    BY <2>7, BegunCounts DEF Undecodable, Restarted
  <2> QED
    BY <2>1, <2>2, <2>3, <2>4, <2>5, <2>6, <2>7 DEF SessionNext
<1>5. ASSUME NEW w \in Workers, Lost(w), w = at[Other]
      PROVE  SessionCounts'
  <2>1. Restarted
    BY <1>5 DEF Lost
  <2> QED
    BY <2>1, BegunCounts DEF Restarted
<1>6. ASSUME UNCHANGED session, Doing => call'[Other].op = call[Other].op
      PROVE  SessionCounts'
  BY <1>3, <1>6, SameCounts
<1>7. Doing => case.mcp.on /\ block = NoBlock
  BY <1>1 DEF SessionCounts, Served, BlockBacked
<1>8. CASE ~McpStep /\ ~(\E w \in Workers : Lost(w) /\ w = at[Other])
  <2>1. UNCHANGED session
    BY <1>8 DEF Next, StoreStep, Begin, Compress, Compressed, NothingStored, Finish, Lost, CompressBlock,
       BlockCompressed, Retrieve, Retrieved, vars, clients
  <2>2. ASSUME Doing
        PROVE  call'[Other].op = call[Other].op
    <3>1. case.mcp.on /\ block.text = "none"
      BY <1>7, <2>2 DEF NoBlock
    <3>2. CASE UNCHANGED call
      BY <1>1, <1>2, <3>2, OpsStay
    <3>3. CASE \E c \in Callers : Progress(c)
      BY <1>1, <1>2, <3>3, OpsStay
    <3>4. CASE Compress \/ Compressed
      BY <1>1, <1>2, <3>4, OpsStay DEF Compress, Compressed
    <3>5. CASE \E w \in Workers : Lost(w)
      BY <1>1, <1>2, <1>8, <3>5, OpsStay DEF Lost
    <3> QED
      BY <1>8, <3>1, <3>2, <3>3, <3>4, <3>5 DEF Next, StoreStep, Tick, LateApplies, Begin, NothingStored,
         Finish, CompressBlock, BlockCompressed, Retrieve, Retrieved, vars, redisVars
  <2> QED
    BY <1>6, <2>1, <2>2
<1> QED
  BY <1>4, <1>5, <1>8

(***************************************************************************)
(* A client that counts replies stays in step with the server, whatever it *)
(* writes but a line without an id whose method is none of notifications/, *)
(* to which there is no more than one reply, and what headroom_stats says  *)
(* is what it was told before: for any lines, any number of them, any      *)
(* store, its failures, and restarts.                                      *)
(***************************************************************************)
THEOREM SessionsKeepCount == Spec => []SessionKeepsCount
<1>1. Init => SessionCounts
  BY BegunCounts DEF Init, SessionInit
<1>2. IInv /\ SessionCounts /\ [Next]_vars => SessionCounts'
  BY NextCounts
<1> QED
  BY <1>1, <1>2, CountsHold, SummariesAreBacked, PTL DEF Spec

-----------------------------------------------------------------------------
(***************************************************************************)
(* Places in a conversation                                                *)
(***************************************************************************)
\* A finite set of places is listed: every position has its place.
LEMMA PlacesInOrder ==
  ASSUME NEW places \in SUBSET (Nat \X Nat), IsFiniteSet(places)
  PROVE  InOrder(places) \in Seq(places)
<1> DEFINE n == Cardinality(places)
           upTo(l) == {k \in places : NotAfter(k, l)}
           rank == [l \in places |-> Cardinality(upTo(l))]
<1>1. n \in Nat
  BY FS_CardinalityType
<1>2. ASSUME NEW l \in places
      PROVE  IsFiniteSet(upTo(l)) /\ rank[l] \in 1..n
  <2>1. upTo(l) \in SUBSET places /\ l \in upTo(l)
    BY DEF NotAfter
  <2> HIDE DEF upTo
  <2>2. IsFiniteSet(upTo(l)) /\ Cardinality(upTo(l)) <= n
    BY <2>1, FS_Subset
  <2>3. Cardinality(upTo(l)) \in Nat /\ Cardinality(upTo(l)) # 0
    BY <2>1, <2>2, FS_CardinalityType, FS_EmptySet
  <2> QED
    BY <1>1, <2>2, <2>3
<1>3. ASSUME NEW l \in places, NEW k \in places, rank[l] = rank[k]
      PROVE  l = k
  <2>1. ASSUME NEW x \in places, NEW y \in places, ~NotAfter(y, x)
        PROVE  rank[x] # rank[y]
    <3>1. upTo(x) \in SUBSET upTo(y) /\ y \in upTo(y) \ upTo(x)
      BY <2>1 DEF NotAfter
    <3>2. IsFiniteSet(upTo(y))
      BY <1>2
    <3> HIDE DEF upTo
    <3>3. Cardinality(upTo(x)) # Cardinality(upTo(y))
      BY <3>1, <3>2, FS_Subset
    <3> QED
      BY <3>3
  <2>2. NotAfter(l, k) /\ NotAfter(k, l)
    BY <1>3, <2>1
  <2> QED
    BY <2>2 DEF NotAfter
<1> HIDE DEF upTo
<1>4. rank \in Injection(places, 1..n)
  BY <1>2, <1>3 DEF Injection, IsInjective
<1>5. IsFiniteSet(1..n) /\ Cardinality(1..n) = n
  BY <1>1, FS_Interval
<1>6. rank \in Surjection(places, 1..n)
  BY <1>4, <1>5, FS_Injection
<1>7. \A k \in 1..n : \E l \in places : rank[l] = k
  BY <1>6 DEF Surjection
<1>8. ASSUME NEW k \in 1..n
      PROVE  (CHOOSE l \in places : Cardinality({j \in places : NotAfter(j, l)}) = k) \in places
  <2>1. \E l \in places : Cardinality({j \in places : NotAfter(j, l)}) = k
    BY <1>7 DEF upTo
  <2> QED
    BY <2>1
<1>9. InOrder(places) \in [1..n -> places]
  BY <1>8 DEF InOrder
<1> QED
  BY <1>1, <1>9, SeqDef

\* Every place of the live zone is above the floor, and of text or the output of a tool.
LEMMA LivePlaces ==
  ASSUME NEW n \in Nat, NEW talk, DOMAIN talk = 1..n, NEW frozen \in Nat,
         \A i \in 1..n : Len(talk[i].blocks) \in Nat /\ DOMAIN talk[i].blocks = 1..Len(talk[i].blocks)
  PROVE  \E places \in SUBSET {l \in Nat \X Nat :
                                 /\ l[1] \in 1..n /\ l[1] > frozen /\ l[2] \in DOMAIN talk[l[1]].blocks
                                 /\ talk[l[1]].blocks[l[2]].kind \in {"text"} \cup ToolOutputs} :
           LiveZone(talk, frozen) \in Seq(places)
<1> DEFINE above == {i \in DOMAIN talk : i > frozen}
           In(i, category) == {j \in DOMAIN talk[i].blocks :
                                 Category(talk[i].role, talk[i].blocks[j]) = category}
           having(category) == {i \in above : In(i, category) # {}}
           users == {i \in above : talk[i].role = "user"}
           Owner(category) == IF category = "user_text"
                              THEN Latest(having(category) \cap {Latest(users)})
                              ELSE Latest(having(category))
           mine(c) == {<<Owner(c), j>> : j \in IF Owner(c) = 0 THEN {} ELSE In(Owner(c), c)}
           kinds == ToolOutputs \cup {"user_text"}
           live == UNION {mine(c) : c \in kinds}
           Good == {l \in Nat \X Nat :
                      /\ l[1] \in 1..n /\ l[1] > frozen /\ l[2] \in DOMAIN talk[l[1]].blocks
                      /\ talk[l[1]].blocks[l[2]].kind \in {"text"} \cup ToolOutputs}
<1>1. LiveZone(talk, frozen) = InOrder(live)
  BY DEF LiveZone
<1>2. ASSUME NEW c \in kinds, Owner(c) # 0
      PROVE  Owner(c) \in 1..n /\ Owner(c) > frozen
  <2>1. having(c) \in SUBSET (1..n) /\ having(c) \cap {Latest(users)} \in SUBSET (1..n)
    OBVIOUS
  <2>2. \A i \in having(c) : i \in 1..n /\ i > frozen
    OBVIOUS
  <2> HIDE DEF having, users
  <2>3. Owner(c) \in having(c)
    BY <1>2, <2>1, LatestIsLargest
  <2> QED
    BY <2>2, <2>3
<1>3. ASSUME NEW c \in kinds, NEW i \in 1..n, NEW j \in In(i, c)
      PROVE  j \in DOMAIN talk[i].blocks /\ j \in Nat /\ talk[i].blocks[j].kind \in {"text"} \cup ToolOutputs
  <2>1. j \in DOMAIN talk[i].blocks /\ j \in Nat
    OBVIOUS
  <2>2. Category(talk[i].role, talk[i].blocks[j]) = c /\ c # "none"
    BY DEF ToolOutputs, OutputTypes
  <2>3. talk[i].blocks[j].kind \in {"text"} \cup ToolOutputs
    BY <2>2 DEF Category
  <2> QED
    BY <2>1, <2>3
<1> HIDE DEF Owner, In
<1>4. ASSUME NEW c \in kinds
      PROVE  mine(c) \subseteq Good /\ IsFiniteSet(mine(c))
  <2>1. CASE Owner(c) = 0
    <3>1. mine(c) = {}
      BY <2>1
    <3> QED
      BY <3>1, FS_EmptySet
  <2>2. CASE Owner(c) # 0
    <3>1. mine(c) = {<<Owner(c), j>> : j \in In(Owner(c), c)}
      BY <2>2
    <3>2. Owner(c) \in 1..n /\ Owner(c) > frozen
      BY <1>2, <2>2
    <3>3. mine(c) \subseteq Good
      <4> HIDE DEF mine, kinds
      <4>1. ASSUME NEW j \in In(Owner(c), c)
            PROVE  <<Owner(c), j>> \in Good
        <5>1. Owner(c) \in 1..n
          BY <3>2
        <5> HIDE DEF Good
        <5>2. PICK i : i = Owner(c)
          OBVIOUS
        <5>3. /\ j \in DOMAIN talk[i].blocks /\ j \in Nat
              /\ talk[i].blocks[j].kind \in {"text"} \cup ToolOutputs
          BY <1>3, <5>1, <5>2
        <5>4. <<i, j>> \in Good
          BY <3>2, <5>2, <5>3 DEF Good
        <5> QED
          BY <5>2, <5>4
      <4> QED
        BY <3>1, <4>1
    <3>4. IsFiniteSet(mine(c))
      <4> DEFINE m == Len(talk[Owner(c)].blocks)
                 place == [j \in 1..m |-> <<Owner(c), j>>]
                 row == {<<Owner(c), j>> : j \in 1..m}
      <4>1. m \in Nat /\ DOMAIN talk[Owner(c)].blocks = 1..m
        BY <3>2
      <4> HIDE DEF m
      <4>2. place \in Surjection(1..m, row)
        BY DEF Surjection
      <4>3. IsFiniteSet(1..m)
        BY <4>1, FS_Interval
      <4> HIDE DEF place
      <4>4. IsFiniteSet(row)
        BY <4>2, <4>3, FS_Surjection
      <4>5. mine(c) \in SUBSET row
        BY <1>3, <3>1, <3>2, <4>1
      <4> HIDE DEF row, mine
      <4> QED
        BY <4>4, <4>5, FS_Subset
    <3> QED
      BY <3>3, <3>4
  <2> QED
    BY <2>1, <2>2
<1> HIDE DEF mine, Good
<1>5. live \subseteq Good /\ live \subseteq Nat \X Nat
  BY <1>4 DEF Good
<1>6. IsFiniteSet(live)
  <2> DEFINE a == mine("tool_result") \cup mine("function_call_output")
             b == mine("local_shell_call_output") \cup mine("apply_patch_call_output")
  <2>1. live = (a \cup b) \cup mine("user_text")
    BY DEF ToolOutputs, OutputTypes
  <2>2. IsFiniteSet(a)
    BY <1>4, FS_Union DEF ToolOutputs, OutputTypes
  <2>3. IsFiniteSet(b)
    BY <1>4, FS_Union DEF ToolOutputs, OutputTypes
  <2>4. IsFiniteSet(mine("user_text"))
    BY <1>4
  <2> HIDE DEF a, b, live
  <2>5. IsFiniteSet(a \cup b)
    BY <2>2, <2>3, FS_Union
  <2>6. IsFiniteSet((a \cup b) \cup mine("user_text"))
    BY <2>4, <2>5, FS_Union
  <2> QED
    BY <2>1, <2>6
<1> HIDE DEF live, kinds
<1>7. LiveZone(talk, frozen) \in Seq(live)
  BY <1>1, <1>5, <1>6, PlacesInOrder
<1> QED
  BY <1>5, <1>7 DEF Good

Speaks == {"text"} \cup ToolOutputs
Places == {l \in Nat \X Nat : /\ l[1] \in DOMAIN Talk /\ l[1] > Frozen
                              /\ l[2] \in DOMAIN Talk[l[1]].blocks
                              /\ Talk[l[1]].blocks[l[2]].kind \in Speaks}

\* What is read of an item of text, or of the output of a tool, is its text.
LEMMA ReadPlace ==
  ASSUME NEW dialect, NEW m \in ClientMessage, OneItem(m),
         NEW blocks, blocks = ReadMessage(dialect, m).blocks,
         NEW j \in DOMAIN blocks, blocks[j].kind \in Speaks
  PROVE  /\ j \in DOMAIN m.items /\ m.items[j].type \in Speaks
         /\ blocks[j].text = m.items[j].text /\ m.items[j].text \in ClientText
         /\ Len(m.items[j].text) <= 1
         /\ blocks[j].kind = "text" => Len(m.items[j].text) = 1
<1>1. m.items \in Seq(ClientItem) /\ \A k \in DOMAIN m.items : m.items[k] \in ClientItem
  BY DEF ClientMessage
<1>2. ASSUME NEW k \in DOMAIN m.items, m.items[k].type \in Speaks
      PROVE  /\ m.items[k].text \in ClientText /\ Len(m.items[k].text) <= 1
             /\ m.items[k].type = "text" => Len(m.items[k].text) = 1
  <2>1. m.items[k] \in ClientItem /\ Spoken(m.items[k])
    BY <1>1 DEF OneItem
  <2>2. m.items[k].text \in ClientText
    BY <2>1 DEF ClientItem
  <2>3. m.items[k].type = "text" => Len(m.items[k].text) = 1
    BY <2>1 DEF Spoken
  <2>4. CASE m.items[k].type = "text"
    <3>1. Len(m.items[k].text) = 1
      BY <2>3, <2>4
    <3>2. Len(m.items[k].text) <= 1
      BY <3>1
    <3> QED
      BY <2>2, <3>1, <3>2
  <2>5. CASE m.items[k].type \in ToolOutputs
    <3>1. Len(m.items[k].text) <= 1
      BY <2>1, <2>5 DEF Spoken
    <3> QED
      BY <2>2, <2>3, <3>1
  <2> QED
    BY <1>2, <2>4, <2>5 DEF Speaks
<1>3. CASE dialect = "responses" /\ m.type \in OutputTypes
  <2>1. blocks = <<[kind |-> m.type, text |-> m.items[1].text]>> /\ j = 1
    BY <1>3 DEF ReadMessage
  <2>2. 1 \in DOMAIN m.items /\ m.items[1].type = "text"
    BY <1>1, <1>3 DEF OneItem
  <2> QED
    BY <1>2, <2>1, <2>2 DEF Speaks
<1>4. CASE m.shape = "scalar" /\ ~(dialect = "responses" /\ m.type \in OutputTypes)
  <2>1. PICK kind : blocks = <<[kind |-> kind, text |-> m.items[1].text]>>
    BY <1>4 DEF ReadMessage
  <2>3. j = 1 /\ blocks[j].text = m.items[1].text
    BY <2>1
  <2>2. 1 \in DOMAIN m.items /\ m.items[1].type = "text"
    BY <1>1, <1>4 DEF OneItem
  <2> QED
    BY <1>2, <2>2, <2>3 DEF Speaks
<1>5. CASE m.shape = "blocks" /\ ~(dialect = "responses" /\ m.type \in OutputTypes)
  <2>1. blocks = [k \in DOMAIN m.items |-> ReadBlock(m.items[k])]
    BY <1>5 DEF ReadMessage
  <2>2. j \in DOMAIN m.items /\ blocks[j] = ReadBlock(m.items[j])
    BY <2>1
  <2>3. m.items[j].type = blocks[j].kind /\ blocks[j].text = m.items[j].text
    BY <2>2 DEF ReadBlock, Speaks, ToolOutputs, OutputTypes, Sacrosanct
  <2> QED
    BY <1>2, <2>2, <2>3
<1>6. CASE m.shape \notin {"scalar", "blocks"} /\ ~(dialect = "responses" /\ m.type \in OutputTypes)
  <2>1. blocks = <<>>
    BY <1>6 DEF ReadMessage
  <2> QED
    BY <2>1
<1> QED
  BY <1>3, <1>4, <1>5, <1>6

\* The conversation has a message for every one of the body, and what may be cached is frozen.
LEMMA TalkIsRead ==
  ASSUME Arrived, NEW n, n = Len(case.body.messages)
  PROVE  /\ n \in Nat /\ DOMAIN case.body.messages = 1..n /\ DOMAIN Talk = 1..n
         /\ Frozen \in Nat
         /\ \A i \in 1..n : /\ Talk[i].blocks = ReadMessage(case.dialect, case.body.messages[i]).blocks
                            /\ Len(Talk[i].blocks) \in Nat
                            /\ DOMAIN Talk[i].blocks = 1..Len(Talk[i].blocks)
                            /\ Cached(i) => i <= Frozen
<1> DEFINE ms == case.body.messages
<1>1. n \in Nat /\ DOMAIN ms = 1..n
  BY ArrivedBody
<1>2. Talk = [i \in 1..n |-> ReadMessage(case.dialect, ms[i])]
  BY <1>1 DEF Talk, Conversation
<1>3. ASSUME NEW i \in 1..n
      PROVE  /\ Talk[i].blocks = ReadMessage(case.dialect, ms[i]).blocks
             /\ Len(Talk[i].blocks) \in Nat /\ DOMAIN Talk[i].blocks = 1..Len(Talk[i].blocks)
  <2>1. ms[i] \in ClientMessage /\ OneItem(ms[i])
    BY <1>1, ArrivedBody
  <2>2. Talk[i].blocks = ReadMessage(case.dialect, ms[i]).blocks
    BY <1>2
  <2> HIDE DEF ms
  <2> QED
    BY <2>1, <2>2, ReadWords
<1> DEFINE marks == {i \in DOMAIN ms : HasCacheControl(ms[i])}
<1>4. marks \in SUBSET (1..n)
  BY <1>1
<1>5. Latest(marks) \in 0..n /\ \A i \in marks : i <= Latest(marks)
  <2> HIDE DEF marks
  <2>1. Latest(marks) \in marks \cup {0}
    BY <1>1, <1>4, LatestIsLargest
  <2>2. \A i \in marks : i <= Latest(marks)
    BY <1>1, <1>4, LatestIsLargest
  <2>3. PICK latest : latest = Latest(marks)
    OBVIOUS
  <2>4. latest \in marks \/ latest = 0
    BY <2>1, <2>3
  <2>5. latest \in 0..n
    <3>1. n \in Nat
      BY <1>1
    <3>2. \A x \in 1..n : x \in 0..n
      BY <3>1
    <3>3. 0 \in 0..n
      BY <3>1
    <3> QED
      BY <1>4, <2>4, <3>2, <3>3
  <2> QED
    BY <2>2, <2>3, <2>5
<1>6. FrozenMessageCount(case.body) = IF "messages" \notin case.body.members THEN n ELSE Latest(marks)
  BY DEF FrozenMessageCount
<1> HIDE DEF marks
<1>7. Frozen = IF case.dialect = "anthropic" THEN FrozenMessageCount(case.body)
               ELSE IF n = 0 THEN 0 ELSE n - 1
  BY DEF Frozen, FrozenFloor
<1>8. Frozen \in Nat
  BY <1>1, <1>5, <1>6, <1>7
<1>9. ASSUME NEW i \in 1..n, Cached(i)
      PROVE  i <= Frozen
  <2>1. CASE case.dialect = "anthropic"
    <3>1. PICK k \in i..n : HasCacheControl(ms[k])
      BY <1>9, <2>1 DEF Cached
    <3>2. k \in marks /\ k <= n /\ i <= k /\ k \in Nat
      BY <1>1, <3>1 DEF marks
    <3>3. k <= Latest(marks)
      BY <1>5, <3>2
    <3> HIDE DEF ms
    <3>4. Frozen = n \/ Frozen = Latest(marks)
      BY <1>6, <1>7, <2>1
    <3> QED
      BY <1>1, <1>5, <3>2, <3>3, <3>4
  <2>2. CASE case.dialect # "anthropic"
    BY <1>1, <1>7, <1>9, <2>2 DEF Cached
  <2> QED
    BY <2>1, <2>2
<1> QED
  BY <1>1, <1>2, <1>3, <1>8, <1>9

\* At a place stands an item that nobody has cached, and its words, in one piece.
LEMMA PlaceText ==
  ASSUME Arrived, NEW l \in Places, NEW i, NEW j, i = l[1], j = l[2]
  PROVE  /\ l = <<i, j>> /\ i \in DOMAIN case.body.messages /\ i \in Nat /\ i > Frozen
         /\ ~Cached(i)
         /\ j \in DOMAIN case.body.messages[i].items
         /\ case.body.messages[i].items[j].type \in Speaks
         /\ TextAt(l) = case.body.messages[i].items[j].text /\ TextAt(l) \in ClientText
         /\ Len(TextAt(l)) <= 1
         /\ Talk[i].blocks[j].kind = "text" \/ Name(l) # "none" => Len(TextAt(l)) = 1
<1>1. PICK n : n = Len(case.body.messages)
  OBVIOUS
<1>2. /\ n \in Nat /\ DOMAIN case.body.messages = 1..n /\ DOMAIN Talk = 1..n /\ Frozen \in Nat
      /\ \A k \in 1..n : /\ Talk[k].blocks = ReadMessage(case.dialect, case.body.messages[k]).blocks
                         /\ Cached(k) => k <= Frozen
  BY <1>1, TalkIsRead
<1>3. /\ l = <<i, j>> /\ i \in Nat /\ i \in 1..n /\ i > Frozen
      /\ j \in DOMAIN Talk[i].blocks /\ Talk[i].blocks[j].kind \in Speaks
  BY <1>2 DEF Places
<1>4. ~Cached(i) /\ TextAt(l) = Talk[i].blocks[j].text
  BY <1>2, <1>3 DEF TextAt
<1>5. PICK m, blocks : m = case.body.messages[i] /\ blocks = Talk[i].blocks
  OBVIOUS
<1>6. m \in ClientMessage /\ OneItem(m)
  BY <1>2, <1>3, <1>5, ArrivedBody
<1>7. blocks = ReadMessage(case.dialect, m).blocks /\ j \in DOMAIN blocks /\ blocks[j].kind \in Speaks
  BY <1>2, <1>3, <1>5
<1>8. /\ j \in DOMAIN m.items /\ m.items[j].type \in Speaks
      /\ blocks[j].text = m.items[j].text /\ m.items[j].text \in ClientText
      /\ Len(m.items[j].text) <= 1
      /\ blocks[j].kind = "text" => Len(m.items[j].text) = 1
  BY <1>6, <1>7, ReadPlace
<1>9. Name(l) # "none" => Len(TextAt(l)) = 1
  <2>1. Name(l) # "none" => TextAt(l) # <<>>
    BY DEF Name, NoText
  <2> DEFINE words == [is : {"own"}, of : STRING, facts : {<<>>}]
  <2>2. TextAt(l) \in Seq(words) /\ Len(TextAt(l)) <= 1
    BY <1>4, <1>5, <1>8 DEF ClientText
  <2> HIDE DEF words
  <2>3. PICK t : t = TextAt(l)
    OBVIOUS
  <2>4. t \in Seq(words) /\ Len(t) <= 1 /\ (t # <<>> => Len(t) \in Nat \ {0})
    BY <2>2, <2>3, EmptySeq
  <2>5. t # <<>> => Len(t) = 1
    <3>1. \A x \in Nat \ {0} : x <= 1 => x = 1
      OBVIOUS
    <3> QED
      BY <2>4, <3>1
  <2> QED
    BY <2>1, <2>3, <2>5
<1> QED
  BY <1>2, <1>3, <1>4, <1>5, <1>8, <1>9

\* A note goes on a text, and not on one that has it already.
LEMMA TailPlaces ==
  ASSUME Arrived, NEW note, NEW l \in TailFor(Talk, Frozen, note)
  PROVE  l \in Places /\ Len(TextAt(l)) = 1 /\ note \notin Appended(TextAt(l))
<1> DEFINE i == NewestUser(Talk)
           blocks == Talk[i].blocks
           texts == {j \in DOMAIN blocks : blocks[j].kind = "text"}
<1>1. PICK n : n = Len(case.body.messages)
  OBVIOUS
<1>2. /\ n \in Nat /\ DOMAIN Talk = 1..n /\ Frozen \in Nat
      /\ \A k \in 1..n : Len(Talk[k].blocks) \in Nat /\ DOMAIN Talk[k].blocks = 1..Len(Talk[k].blocks)
  BY <1>1, TalkIsRead
<1>3. i \in 0..n
  <2> DEFINE users == {k \in DOMAIN Talk : Talk[k].role = "user"}
  <2>1. users \in SUBSET (1..n) /\ \A k \in users : k \in 0..n
    BY <1>2
  <2> HIDE DEF users
  <2>2. Latest(users) \in users \cup {0}
    BY <1>2, <2>1, LatestIsLargest
  <2>3. i = Latest(users)
    BY DEF NewestUser, users
  <2>4. 0 \in 0..n
    BY <1>2
  <2> HIDE DEF i
  <2> QED
    BY <2>1, <2>2, <2>3, <2>4
<1>4. ~(i <= Frozen) /\ texts # {} /\ l = <<i, Max(texts)>>
      /\ note \notin Appended(Talk[i].blocks[l[2]].text)
  BY DEF TailFor
<1> HIDE DEF i
<1>5. i \in 1..n /\ i > Frozen
  BY <1>2, <1>3, <1>4
<1>6. Max(texts) \in texts
  <2>1. PICK m : m = Len(blocks)
    OBVIOUS
  <2>2. m \in Nat /\ DOMAIN blocks = 1..m
    BY <1>2, <1>5, <2>1
  <2>3. texts \in SUBSET (1..m)
    BY <2>2
  <2> HIDE DEF texts
  <2> QED
    BY <1>4, <2>2, <2>3, LatestIsLargest
<1>7. /\ l \in Places /\ Talk[l[1]].blocks[l[2]].kind = "text" /\ i = l[1]
  <2>3. l[1] = i /\ l[2] = Max(texts) /\ l = <<l[1], l[2]>>
    BY <1>4
  <2>4. Max(texts) \in DOMAIN blocks /\ blocks[Max(texts)].kind = "text"
    BY <1>6
  <2>5. DOMAIN blocks \subseteq Nat
    BY <1>2, <1>5
  <2>1. l[2] \in DOMAIN blocks /\ blocks[l[2]].kind = "text" /\ l[2] \in Nat
    BY <2>3, <2>4, <2>5
  <2> QED
    BY <1>2, <1>4, <1>5, <2>1 DEF Places, Speaks
<1>8. Len(TextAt(l)) = 1
  BY <1>7, PlaceText
<1> QED
  BY <1>4, <1>7, <1>8 DEF TextAt

\* What a rebuilt body is: edits in the texts they are for, and nothing else.
LEMMA RebuiltMessages ==
  ASSUME NEW body \in ClientBody, NEW e, NEW out, out = Rebuild(body, e)
  PROVE  /\ {"messages", "options"} \subseteq DOMAIN out /\ out.options = body.options
         /\ DOMAIN out.messages = DOMAIN body.messages
         /\ \A i \in DOMAIN body.messages :
              out.messages[i] = IF \E l \in DOMAIN e : l[1] = i
                                THEN RewriteMessage(body.messages[i], i, e) ELSE body.messages[i]
<1>1. {"messages", "options", "spaced"} \subseteq DOMAIN body
  BY DEF ClientBody
<1> DEFINE message(i) == IF \E l \in DOMAIN e : l[1] = i
                         THEN RewriteMessage(body.messages[i], i, e) ELSE body.messages[i]
<1>2. CASE DOMAIN e = {}
  BY <1>1, <1>2 DEF Rebuild
<1>3. CASE DOMAIN e # {}
  <2>1. out = [body EXCEPT !.spaced = FALSE,
                           !.messages = [i \in DOMAIN body.messages |-> message(i)]]
    BY <1>3 DEF Rebuild
  <2> HIDE DEF message
  <2>2. /\ out.messages = [i \in DOMAIN body.messages |-> message(i)]
        /\ DOMAIN out = DOMAIN body /\ out.options = body.options
    BY <1>1, <2>1
  <2> QED
    BY <1>1, <2>2 DEF message
<1> QED
  BY <1>2, <1>3

\* A message is another one's but for its texts, and for who wrote the whitespace.
SameButTexts(was, is) ==
  is = [was EXCEPT !.spaced = is.spaced,
          !.items = [j \in DOMAIN @ |-> [@[j] EXCEPT !.text = is.items[j].text]]]

\* A rewritten message is the client's but for the texts that were edited.
LEMMA RewrittenTexts ==
  ASSUME NEW m \in ClientMessage, NEW i, NEW e, NEW out, out = RewriteMessage(m, i, e)
  PROVE  /\ DOMAIN out.items = DOMAIN m.items
         /\ \A j \in DOMAIN m.items :
              out.items[j].text = IF <<i, j>> \in DOMAIN e THEN e[<<i, j>>] ELSE m.items[j].text
         /\ SameButTexts(m, out)
<1>1. {"items", "spaced"} \subseteq DOMAIN m /\ m.items \in Seq(ClientItem)
  BY DEF ClientMessage
<1>2. \A j \in DOMAIN m.items : "text" \in DOMAIN m.items[j] /\ m.items[j] = [x \in DOMAIN m.items[j] |-> m.items[j][x]]
  <2>1. \A item \in ClientItem : "text" \in DOMAIN item /\ item = [x \in DOMAIN item |-> item[x]]
    BY DEF ClientItem
  <2> QED
    BY <1>1, <2>1
<1> DEFINE item(j) == IF <<i, j>> \in DOMAIN e THEN [m.items[j] EXCEPT !.text = e[<<i, j>>]]
                      ELSE m.items[j]
           items == [j \in DOMAIN m.items |-> item(j)]
<1>3. out = [m EXCEPT !.spaced = FALSE, !.items = items]
  BY DEF RewriteMessage
<1>4. /\ \A j \in DOMAIN m.items : item(j).text = IF <<i, j>> \in DOMAIN e THEN e[<<i, j>>] ELSE m.items[j].text
      /\ \A j \in DOMAIN m.items : item(j) = [m.items[j] EXCEPT !.text = item(j).text]
  BY <1>2
<1> HIDE DEF item
<1>5. /\ DOMAIN items = DOMAIN m.items /\ \A j \in DOMAIN m.items : items[j] = item(j)
      /\ items = [j \in DOMAIN m.items |-> [m.items[j] EXCEPT !.text = items[j].text]]
  BY <1>4
<1> HIDE DEF items
<1>6. out.items = items /\ out.spaced = FALSE
  BY <1>1, <1>3
<1>7. out = [m EXCEPT !.spaced = out.spaced, !.items = items]
  BY <1>3, <1>6
<1>8. out = [m EXCEPT !.spaced = out.spaced,
               !.items = [j \in DOMAIN m.items |-> [m.items[j] EXCEPT !.text = out.items[j].text]]]
  BY <1>5, <1>6, <1>7
<1>9. SameButTexts(m, out)
  BY <1>8 DEF SameButTexts
<1> QED
  BY <1>1, <1>4, <1>5, <1>6, <1>9

\* What a place has become in the zone: a summary, or the text without its waste.
Edit(l) ==
  /\ l \in Places /\ Name(l) # "none"
  /\ \/ case.mode = "payg" /\ edits[l] = <<Piece("summary", Name(l))>>
     \/ case.mode = "oauth" /\ edits[l] = <<Piece("tidied", Name(l))>>

\* Whatever becomes of a block, it is a text of a note or two at the most, as allowed.
LEMMA BecomesAllowed ==
  ASSUME Arrived, NEW l \in Places, Len(TextAt(l)) = 1, l \in DOMAIN edits => Edit(l),
         NEW remembers \in BOOLEAN, NEW asks \in BOOLEAN,
         remembers => case.mode = "payg" /\ "memory" \notin Appended(TextAt(l)),
         asks => case.verbosity \in Note(case.verbosity) /\ case.verbosity \notin Appended(TextAt(l)),
         l \in DOMAIN edits \/ remembers \/ asks,
         NEW b, b = (IF l \in DOMAIN edits THEN edits[l][1] ELSE TextAt(l)[1]),
         NEW memory, memory.is = "memory", NEW verbosity, verbosity.is = case.verbosity,
         NEW text,
         text = (IF remembers THEN IF asks THEN <<b, memory, verbosity>> ELSE <<b, memory>>
                 ELSE IF asks THEN <<b, verbosity>> ELSE <<b>>)
  PROVE  TextMayBecome(l, TextAt(l), text) /\ text # TextAt(l)
<1>1. PICK was : was = TextAt(l)
  OBVIOUS
<1>2. was \in Seq([is : {"own"}, of : STRING, facts : {<<>>}]) /\ Len(was) = 1
  <2>1. TextAt(l) \in ClientText
    BY PlaceText
  <2> QED
    BY <1>1, <2>1 DEF ClientText
<1>3. was[1].is = "own" /\ DOMAIN was = {1} /\ was # NoText
  <2> DEFINE words == [is : {"own"}, of : STRING, facts : {<<>>}]
  <2>1. \A w \in words : w.is = "own"
    OBVIOUS
  <2>2. was \in Seq(words)
    BY <1>2
  <2> HIDE DEF words
  <2>4. Len(was) = 1
    BY <1>2
  <2>5. DOMAIN was = 1..1 /\ was[1] \in words
    BY <2>2, <2>4, ElementOfSeq
  <2>3. was # <<>>
    BY <2>4, EmptySeq
  <2> QED
    BY <2>1, <2>3, <2>5 DEF NoText
<1>4. /\ b.of = was[1].of
      /\ b.is \in {"own", "summary", "tidied"}
      /\ b.is = "summary" => case.mode = "payg"
      /\ b.is = "tidied" => case.mode = "oauth"
      /\ l \in DOMAIN edits => b.is # "own" /\ b = edits[l][1]
  <2>1. CASE l \in DOMAIN edits
    <3>1. Name(l) = was[1].of
      BY <1>1, <1>3 DEF Name
    <3> QED
      BY <2>1, <3>1 DEF Edit, Piece
  <2>2. CASE l \notin DOMAIN edits
    BY <1>1, <1>3, <2>2
  <2> QED
    BY <2>1, <2>2
<1>5. asks => case.verbosity \in {"terse", "full"}
  <2>1. case.verbosity \in {"default", "terse", "full"}
    BY WhatArrives DEF Arrived
  <2> QED
    BY <2>1 DEF Note
<1>6. /\ b.is \in Allowed
      /\ remembers => "memory" \in Allowed
      /\ asks => case.verbosity \in Allowed
  <2>1. /\ case.mode = "payg" => {"own", "summary", "memory"} \subseteq Allowed
        /\ case.mode = "oauth" => {"own", "tidied"} \subseteq Allowed
        /\ "own" \in Allowed /\ Note(case.verbosity) \subseteq Allowed
    BY DEF Allowed
  <2> QED
    BY <1>4, <2>1
<1>7. b # was[1] \/ Len(text) # 1
  <2>1. l \in DOMAIN edits => b # was[1]
    BY <1>3, <1>4
  <2>2. remembers \/ asks => Len(text) # 1
    OBVIOUS
  <2> QED
    BY <2>1, <2>2
<1> HIDE DEF Allowed
<1>8. TextMayBecome(l, was, text) /\ text[1] = b /\ text # NoText
  <2>1. CASE remembers /\ asks
    <3>1. text = <<b, memory, verbosity>>
      BY <2>1
    <3> QED
      BY <1>1, <1>4, <1>5, <1>6, <2>1, <3>1 DEF TextMayBecome, NoText
  <2>2. CASE remembers /\ ~asks
    <3>1. text = <<b, memory>>
      BY <2>2
    <3> QED
      BY <1>1, <1>4, <1>6, <2>2, <3>1 DEF TextMayBecome, NoText
  <2>3. CASE ~remembers /\ asks
    <3>1. text = <<b, verbosity>>
      BY <2>3
    <3> QED
      BY <1>1, <1>4, <1>5, <1>6, <2>3, <3>1 DEF TextMayBecome, NoText
  <2>4. CASE ~remembers /\ ~asks
    <3>1. text = <<b>>
      BY <2>4
    <3> QED
      BY <1>1, <1>4, <1>6, <2>4, <3>1 DEF TextMayBecome, NoText
  <2> QED
    BY <2>1, <2>2, <2>3, <2>4
<1>9. text # was
  BY <1>2, <1>7, <1>8
<1> QED
  BY <1>1, <1>8, <1>9

LEMMA OneMorePiece ==
  ASSUME NEW x, NEW y, NEW z
  PROVE  <<x>> \o <<y>> = <<x, y>> /\ <<x, y>> \o <<z>> = <<x, y, z>>
<1> DEFINE S == {x, y, z}
<1>1. /\ <<x>> \in Seq(S) /\ <<y>> \in Seq(S) /\ <<z>> \in Seq(S)
      /\ <<x, y>> \in Seq(S) /\ <<x, y, z>> \in Seq(S)
  OBVIOUS
<1>2. ASSUME NEW s \in Seq(S), NEW t \in Seq(S), NEW u \in Seq(S), Len(u) = Len(s) + Len(t),
             \A i \in 1..Len(u) : u[i] = IF i <= Len(s) THEN s[i] ELSE t[i - Len(s)]
      PROVE  s \o t = u
  <2>1. s \o t \in Seq(S) /\ Len(s \o t) = Len(u)
    BY <1>2, ConcatProperties
  <2>2. \A i \in 1..Len(u) : (s \o t)[i] = u[i]
    BY <1>2, ConcatProperties
  <2> QED
    BY <2>1, <2>2, SeqEqual
<1> HIDE DEF S
<1>3. <<x>> \o <<y>> = <<x, y>>
  <2>1. PICK s, t, u : s = <<x>> /\ t = <<y>> /\ u = <<x, y>>
    OBVIOUS
  <2>2. /\ Len(s) = 1 /\ Len(t) = 1 /\ Len(u) = 2
        /\ \A i \in 1..2 : u[i] = IF i <= 1 THEN s[i] ELSE t[i - 1]
    BY <2>1
  <2>3. s \in Seq(S) /\ t \in Seq(S) /\ u \in Seq(S)
    BY <1>1, <2>1
  <2>5. Len(u) = Len(s) + Len(t)
    BY <2>2
  <2>6. \A i \in 1..Len(u) : u[i] = IF i <= Len(s) THEN s[i] ELSE t[i - Len(s)]
    BY <2>2
  <2>4. s \o t = u
    BY <1>2, <2>3, <2>5, <2>6
  <2> QED
    BY <2>1, <2>4
<1>4. <<x, y>> \o <<z>> = <<x, y, z>>
  <2>1. PICK s, t, u : s = <<x, y>> /\ t = <<z>> /\ u = <<x, y, z>>
    OBVIOUS
  <2>2. /\ Len(s) = 2 /\ Len(t) = 1 /\ Len(u) = 3
        /\ \A i \in 1..3 : u[i] = IF i <= 2 THEN s[i] ELSE t[i - 2]
    BY <2>1
  <2>3. s \in Seq(S) /\ t \in Seq(S) /\ u \in Seq(S)
    BY <1>1, <2>1
  <2>5. Len(u) = Len(s) + Len(t)
    BY <2>2
  <2>6. \A i \in 1..Len(u) : u[i] = IF i <= Len(s) THEN s[i] ELSE t[i - Len(s)]
    BY <2>2
  <2>4. s \o t = u
    BY <1>2, <2>3, <2>5, <2>6
  <2> QED
    BY <2>1, <2>4
<1> QED
  BY <1>3, <1>4

\* What Finish makes of the edits are texts that the places may have.
LEMMA FinishedTexts ==
  ASSUME Arrived, \A l \in DOMAIN edits : Edit(l), NEW again \in BOOLEAN, Finish(again)
  PROVE  \E e : /\ Forward(Rebuild(case.body, e))
                /\ \A l \in DOMAIN e : /\ l \in Places /\ e[l] # TextAt(l)
                                       /\ TextMayBecome(l, TextAt(l), e[l])
<1> DEFINE facts == IF case.mode = "payg" THEN MemoryBlock(case.memory, case.lines, Asks) ELSE <<>>
           tail == IF facts = <<>> THEN {} ELSE TailFor(Talk, Frozen, "memory")
           kept == IF tail \subseteq DOMAIN edits /\ ~again THEN {} ELSE tail
           memory == [is |-> "memory", of |-> "none", facts |-> facts]
           remembered == WithNote(edits, kept, <<memory>>)
           notes == UNION {TailFor(Talk, Frozen, note) : note \in Note(case.verbosity)}
           verbosity == Piece(case.verbosity, "none")
           noted == WithNote(remembered, notes, <<verbosity>>)
           final == [l \in {k \in DOMAIN noted : k[1] > Frozen} |-> noted[l]]
<1>1. Forward(Rebuild(case.body, final))
  BY DEF Finish
<1>2. ASSUME NEW l \in kept
      PROVE  /\ case.mode = "payg" /\ l \in Places /\ Len(TextAt(l)) = 1
             /\ "memory" \notin Appended(TextAt(l))
  <2>1. l \in TailFor(Talk, Frozen, "memory") /\ facts # <<>>
    OBVIOUS
  <2>2. case.mode = "payg"
    BY <2>1
  <2> QED
    BY <2>1, <2>2, TailPlaces
<1>3. ASSUME NEW l \in notes
      PROVE  /\ case.verbosity \in Note(case.verbosity) /\ l \in Places /\ Len(TextAt(l)) = 1
             /\ case.verbosity \notin Appended(TextAt(l))
  <2>1. PICK note \in Note(case.verbosity) : l \in TailFor(Talk, Frozen, note)
    OBVIOUS
  <2>2. note = case.verbosity
    BY <2>1 DEF Note
  <2> QED
    BY <2>1, <2>2, TailPlaces
<1>4. memory.is = "memory" /\ verbosity.is = case.verbosity
  BY DEF Piece
<1>5. /\ DOMAIN remembered = DOMAIN edits \cup kept
      /\ \A l \in DOMAIN edits \cup kept :
           remembered[l] = IF l \in kept
                           THEN (IF l \in DOMAIN edits THEN edits[l] ELSE TextAt(l)) \o <<memory>>
                           ELSE edits[l]
  BY DEF WithNote
<1>6. /\ DOMAIN noted = DOMAIN remembered \cup notes
      /\ \A l \in DOMAIN remembered \cup notes :
           noted[l] = IF l \in notes
                      THEN (IF l \in DOMAIN remembered THEN remembered[l] ELSE TextAt(l)) \o <<verbosity>>
                      ELSE remembered[l]
  BY DEF WithNote
<1>7. DOMAIN final \subseteq DOMAIN noted /\ \A l \in DOMAIN final : final[l] = noted[l]
  OBVIOUS
<1> HIDE DEF kept, notes, memory, verbosity, remembered, noted, final
<1>8. ASSUME NEW l \in DOMAIN final
      PROVE  l \in Places /\ final[l] # TextAt(l) /\ TextMayBecome(l, TextAt(l), final[l])
  <2> DEFINE b == IF l \in DOMAIN edits THEN edits[l][1] ELSE TextAt(l)[1]
             remembers == l \in kept
             asks == l \in notes
             text == IF remembers THEN IF asks THEN <<b, memory, verbosity>> ELSE <<b, memory>>
                     ELSE IF asks THEN <<b, verbosity>> ELSE <<b>>
  <2>1. l \in DOMAIN edits \/ remembers \/ asks
    BY <1>5, <1>6, <1>7
  <2>2. l \in Places /\ Len(TextAt(l)) = 1
    <3>1. l \in DOMAIN edits => Edit(l)
      OBVIOUS
    <3>2. l \in DOMAIN edits => l \in Places /\ Name(l) # "none"
      BY <3>1 DEF Edit
    <3>3. l \in DOMAIN edits => Len(TextAt(l)) = 1
      BY <3>2, PlaceText
    <3> QED
      BY <1>2, <1>3, <2>1, <3>2, <3>3
  <2>3. (IF l \in DOMAIN edits THEN edits[l] ELSE TextAt(l)) = <<b>>
    <3>1. TextAt(l) \in Seq([is : {"own"}, of : STRING, facts : {<<>>}])
      BY <2>2, PlaceText DEF ClientText
    <3>2. TextAt(l) = <<TextAt(l)[1]>>
      BY <2>2, <3>1
    <3>3. l \in DOMAIN edits => edits[l] = <<edits[l][1]>>
      BY DEF Edit
    <3> QED
      BY <3>2, <3>3
  <2>4. final[l] = text
    <3>1. PICK base : base = IF l \in DOMAIN edits THEN edits[l] ELSE TextAt(l)
      OBVIOUS
    <3>2. base = <<b>>
      BY <2>3, <3>1
    <3> HIDE DEF b
    <3>3. /\ <<b>> \o <<memory>> = <<b, memory>>
          /\ <<b>> \o <<verbosity>> = <<b, verbosity>>
          /\ <<b, memory>> \o <<verbosity>> = <<b, memory, verbosity>>
      BY OneMorePiece
    <3>4. final[l] = noted[l]
      BY <1>7
    <3>5. CASE remembers
      <4>1. remembered[l] = <<b, memory>> /\ l \in DOMAIN remembered
        BY <1>5, <3>1, <3>2, <3>3, <3>5
      <4>2. noted[l] = IF asks THEN <<b, memory>> \o <<verbosity>> ELSE <<b, memory>>
        BY <1>6, <4>1
      <4> QED
        BY <3>3, <3>4, <3>5, <4>2
    <3>6. CASE ~remembers /\ asks
      <4>1. l \in DOMAIN remembered <=> l \in DOMAIN edits
        BY <1>5, <3>6
      <4>2. l \in DOMAIN remembered => remembered[l] = base
        BY <1>5, <3>1, <3>6
      <4>3. noted[l] = base \o <<verbosity>>
        BY <1>6, <3>1, <3>6, <4>1, <4>2
      <4> QED
        BY <3>2, <3>3, <3>4, <3>6, <4>3
    <3>7. CASE ~remembers /\ ~asks
      <4>1. l \in DOMAIN edits /\ l \in DOMAIN remembered
        BY <1>5, <2>1, <3>7
      <4>2. noted[l] = edits[l]
        BY <1>5, <1>6, <3>7, <4>1
      <4> QED
        BY <3>1, <3>2, <3>4, <3>7, <4>1, <4>2
    <3> QED
      BY <3>5, <3>6, <3>7
  <2>5. /\ l \in DOMAIN edits => Edit(l)
        /\ remembers \in BOOLEAN /\ asks \in BOOLEAN
        /\ remembers => case.mode = "payg" /\ "memory" \notin Appended(TextAt(l))
        /\ asks => case.verbosity \in Note(case.verbosity) /\ case.verbosity \notin Appended(TextAt(l))
    BY <1>2, <1>3
  <2>11. PICK p, m, v : p = b /\ m = memory /\ v = verbosity
    OBVIOUS
  <2>6. PICK r \in BOOLEAN, a \in BOOLEAN : (r <=> remembers) /\ (a <=> asks)
    OBVIOUS
  <2>7. m.is = "memory" /\ v.is = case.verbosity
    BY <1>4, <2>11
  <2>8. final[l] = IF r THEN IF a THEN <<p, m, v>> ELSE <<p, m>>
                   ELSE IF a THEN <<p, v>> ELSE <<p>>
    BY <2>4, <2>6, <2>11
  <2>9. p = IF l \in DOMAIN edits THEN edits[l][1] ELSE TextAt(l)[1]
    BY <2>11
  <2> HIDE DEF b, remembers, asks, text
  <2>10. TextMayBecome(l, TextAt(l), final[l]) /\ final[l] # TextAt(l)
    BY <2>1, <2>2, <2>5, <2>6, <2>7, <2>8, <2>9, BecomesAllowed
  <2> QED
    BY <2>2, <2>10
<1> QED
  BY <1>1, <1>8

-----------------------------------------------------------------------------
(***************************************************************************)
(* What a request leaves as                                                *)
(***************************************************************************)
\* OnlyLiveTextChanges of the messages and of the options of a body.
KeptMessage(i, was, is) ==
  LET changed == {j \in DOMAIN was.items : was.items[j].text # is.items[j].text}
  IN  /\ SameButTexts(was, is)
      /\ Cached(i) \/ changed = {} => is = was
      /\ \A j \in changed :
           /\ was.items[j].type \in Speaks
           /\ TextMayBecome(<<i, j>>, was.items[j].text, is.items[j].text)

KeptMessages(messages) ==
  /\ DOMAIN messages = DOMAIN case.body.messages
  /\ \A i \in DOMAIN messages : KeptMessage(i, case.body.messages[i], messages[i])

KeptOptions(options) ==
  \A member \in DOMAIN options :
    case.body.options[member] # "none" => options[member] = case.body.options[member]

LEMMA TwoParts ==
  OnlyLiveTextChanges <=> (stage = "forwarded" => KeptMessages(sent.messages) /\ KeptOptions(sent.options))
BY DEF OnlyLiveTextChanges, KeptMessages, KeptMessage, KeptOptions, SameButTexts, Speaks

LEMMA TwoPartsNext ==
  OnlyLiveTextChanges' <=>
    (stage' = "forwarded" => KeptMessages(sent.messages)' /\ KeptOptions(sent.options)')
BY DEF OnlyLiveTextChanges, KeptMessages, KeptMessage, KeptOptions, SameButTexts, Speaks

\* A body with edits at places is the client's everywhere else.
LEMMA RebuiltKept ==
  ASSUME Arrived, NEW e,
         \A l \in DOMAIN e : l \in Places /\ e[l] # TextAt(l) /\ TextMayBecome(l, TextAt(l), e[l])
  PROVE  /\ KeptMessages(Rebuild(case.body, e).messages)
         /\ {"messages", "options"} \subseteq DOMAIN Rebuild(case.body, e)
         /\ Rebuild(case.body, e).options = case.body.options
<1>1. PICK out : out = Rebuild(case.body, e)
  OBVIOUS
<1>2. PICK body : body = case.body
  OBVIOUS
<1>3. body \in ClientBody
  BY <1>2, ArrivedBody
<1>4. /\ {"messages", "options"} \subseteq DOMAIN out /\ out.options = body.options
      /\ DOMAIN out.messages = DOMAIN body.messages
      /\ \A i \in DOMAIN body.messages :
           out.messages[i] = IF \E l \in DOMAIN e : l[1] = i
                             THEN RewriteMessage(body.messages[i], i, e) ELSE body.messages[i]
  BY <1>1, <1>2, <1>3, RebuiltMessages
<1>5. ASSUME NEW i \in DOMAIN body.messages
      PROVE  KeptMessage(i, body.messages[i], out.messages[i])
  <2>1. PICK was, is : was = body.messages[i] /\ is = out.messages[i]
    OBVIOUS
  <2>2. was \in ClientMessage
    BY <1>2, <1>5, <2>1, ArrivedBody
  <2>3. CASE \E l \in DOMAIN e : l[1] = i
    <3>1. is = RewriteMessage(was, i, e)
      BY <1>4, <2>1, <2>3
    <3>2. /\ DOMAIN is.items = DOMAIN was.items
          /\ \A j \in DOMAIN was.items :
               is.items[j].text = IF <<i, j>> \in DOMAIN e THEN e[<<i, j>>] ELSE was.items[j].text
          /\ SameButTexts(was, is)
      BY <2>2, <3>1, RewrittenTexts
    <3>3. ASSUME NEW l \in DOMAIN e, l[1] = i, NEW j, j = l[2]
          PROVE  /\ ~Cached(i) /\ l = <<i, j>> /\ j \in DOMAIN was.items
                 /\ was.items[j].type \in Speaks
                 /\ was.items[j].text # e[l] /\ is.items[j].text = e[l]
                 /\ TextMayBecome(l, was.items[j].text, e[l])
      <4>1. /\ l = <<i, j>> /\ ~Cached(i) /\ j \in DOMAIN was.items
            /\ was.items[j].type \in Speaks /\ TextAt(l) = was.items[j].text
        BY <1>2, <2>1, <3>3, PlaceText
      <4>2. is.items[j].text = e[l]
        BY <3>2, <4>1
      <4>3. TextMayBecome(l, TextAt(l), e[l]) /\ e[l] # TextAt(l)
        OBVIOUS
      <4>4. PICK text : text = TextAt(l)
        OBVIOUS
      <4> QED
        BY <4>1, <4>2, <4>3
    <3>4. ~Cached(i) /\ \E j \in DOMAIN was.items : was.items[j].text # is.items[j].text
      BY <2>3, <3>3
    <3>5. ASSUME NEW j \in DOMAIN was.items, was.items[j].text # is.items[j].text
          PROVE  /\ was.items[j].type \in Speaks
                 /\ TextMayBecome(<<i, j>>, was.items[j].text, is.items[j].text)
      <4>1. PICK l : l = <<i, j>>
        OBVIOUS
      <4>2. l \in DOMAIN e /\ l[1] = i /\ j = l[2]
        BY <3>2, <3>5, <4>1
      <4>3. /\ was.items[j].type \in Speaks /\ is.items[j].text = e[l]
            /\ TextMayBecome(l, was.items[j].text, e[l])
        BY <3>3, <4>2
      <4> QED
        BY <4>1, <4>3
    <3> HIDE DEF Speaks
    <3>6. KeptMessage(i, was, is)
      BY <3>2, <3>4, <3>5 DEF KeptMessage
    <3> QED
      BY <2>1, <3>6
  <2>4. CASE ~\E l \in DOMAIN e : l[1] = i
    <3>1. is = was
      BY <1>4, <2>1, <2>4
    <3>2. SameButTexts(was, was)
      <4>1. was.items \in Seq(ClientItem)
        BY <2>2 DEF ClientMessage
      <4>2. \A item \in ClientItem : [item EXCEPT !.text = item.text] = item
        BY DEF ClientItem
      <4>3. was.items = [j \in DOMAIN was.items |-> was.items[j]]
        BY <4>1
      <4>4. \A j \in DOMAIN was.items : was.items[j] \in ClientItem
        BY <4>1
      <4>5. was.items = [j \in DOMAIN was.items |-> [was.items[j] EXCEPT !.text = was.items[j].text]]
        BY <4>2, <4>3, <4>4
      <4>6. was = [was EXCEPT !.spaced = was.spaced, !.items = was.items]
        BY <2>2 DEF ClientMessage
      <4> QED
        BY <4>5, <4>6 DEF SameButTexts
    <3>3. KeptMessage(i, was, is)
      BY <3>1, <3>2 DEF KeptMessage
    <3> QED
      BY <2>1, <3>3
  <2> QED
    BY <2>3, <2>4
<1>6. KeptMessages(out.messages)
  BY <1>2, <1>4, <1>5 DEF KeptMessages
<1> QED
  BY <1>1, <1>2, <1>4, <1>6

\* Of what the client chose, nothing is overwritten.
LEMMA ForwardedOptions ==
  ASSUME Arrived, NEW body, {"messages", "options"} \subseteq DOMAIN body, Forward(body),
         body.options = case.body.options
  PROVE  KeptOptions(sent'.options)
<1> DEFINE Keeps(b) == "options" \in DOMAIN b /\ KeptOptions(b.options)
<1>1. ASSUME NEW b, NEW member, NEW value, Keeps(b),
             member \in {"prompt_cache_key", "reasoning_effort"}, DOMAIN b.options = DOMAIN case.body.options
      PROVE  Keeps(InsertMember(b, member, value))
             /\ DOMAIN InsertMember(b, member, value).options = DOMAIN case.body.options
  <2>1. DOMAIN case.body.options = {"prompt_cache_key", "reasoning_effort"}
    <3>1. case.body \in ClientBody
      BY ArrivedBody
    <3> QED
      BY <3>1 DEF ClientBody
  <2>2. CASE b.options[member] = "none"
    <3>1. InsertMember(b, member, value) = [b EXCEPT !.options = [b.options EXCEPT ![member] = value]]
      BY <2>2 DEF InsertMember
    <3>2. InsertMember(b, member, value).options = [b.options EXCEPT ![member] = value]
          /\ "options" \in DOMAIN InsertMember(b, member, value)
      BY <1>1, <3>1
    <3> QED
      BY <1>1, <2>1, <2>2, <3>2 DEF KeptOptions
  <2>3. CASE b.options[member] # "none"
    BY <1>1, <2>3 DEF InsertMember
  <2> QED
    BY <2>2, <2>3
<1>2. Keeps(body) /\ DOMAIN body.options = DOMAIN case.body.options
  BY DEF KeptOptions
<1> HIDE DEF Keeps
<1>3. Keeps(ShapeOpenAi(body, case.mode))
  BY <1>1, <1>2 DEF ShapeOpenAi
<1> QED
  BY <1>2, <1>3 DEF Forward, Keeps

\* What makes OnlyLiveTextChanges inductive: what is still to be looked at and what has become of
\* it are places of the live zone, and only who pays by use has his texts stored.
LiveEdits ==
  /\ todo \in Seq(Places)
  /\ \A l \in DOMAIN edits : Edit(l)
  /\ call[Handler].op = "put" => case.mode = "payg"
  /\ OnlyLiveTextChanges

LEMMA ArrivedKept ==
  ASSUME Arrived
  PROVE  /\ KeptMessages(case.body.messages) /\ KeptOptions(case.body.options)
         /\ {"messages", "options"} \subseteq DOMAIN case.body
<1> DEFINE e == <<>>
<1>1. DOMAIN e = {} /\ Rebuild(case.body, e) = case.body
  BY DEF Rebuild
<1> HIDE DEF e
<1>2. KeptMessages(Rebuild(case.body, e).messages)
      /\ {"messages", "options"} \subseteq DOMAIN Rebuild(case.body, e)
  BY <1>1, RebuiltKept
<1>3. KeptOptions(case.body.options)
  BY DEF KeptOptions
<1> QED
  BY <1>1, <1>2, <1>3

LEMMA InitLive == Init => LiveEdits
<1> SUFFICES ASSUME Init PROVE LiveEdits
  OBVIOUS
<1>1. IInv
  BY InitBacked
<1>2. Arrived
  BY <1>1 DEF IInv, RequestBacked, Arrived
<1>3. todo = <<>> /\ edits = <<>> /\ sent = case.body
  BY DEF Init
<1>4. call[Handler].op # "put"
  BY <1>1, <1>3 DEF IInv, RequestBacked
<1>5. OnlyLiveTextChanges
  BY <1>2, <1>3, ArrivedKept, TwoParts
<1> QED
  BY <1>3, <1>4, <1>5 DEF LiveEdits

\* The zone is made of places.
LEMMA ZoneOfPlaces ==
  ASSUME Arrived
  PROVE  LiveZone(Talk, Frozen) \in Seq(Places)
<1>1. PICK n : n = Len(case.body.messages)
  OBVIOUS
<1>2. /\ n \in Nat /\ DOMAIN Talk = 1..n /\ Frozen \in Nat
      /\ \A i \in 1..n : Len(Talk[i].blocks) \in Nat /\ DOMAIN Talk[i].blocks = 1..Len(Talk[i].blocks)
  BY <1>1, TalkIsRead
<1>3. PICK talk, frozen : talk = Talk /\ frozen = Frozen
  OBVIOUS
<1>4. /\ DOMAIN talk = 1..n /\ frozen \in Nat
      /\ \A i \in 1..n : Len(talk[i].blocks) \in Nat /\ DOMAIN talk[i].blocks = 1..Len(talk[i].blocks)
  BY <1>2, <1>3
<1>5. PICK places \in SUBSET {l \in Nat \X Nat :
                                /\ l[1] \in 1..n /\ l[1] > frozen /\ l[2] \in DOMAIN talk[l[1]].blocks
                                /\ talk[l[1]].blocks[l[2]].kind \in {"text"} \cup ToolOutputs} :
        LiveZone(talk, frozen) \in Seq(places)
  BY <1>2, <1>4, LivePlaces
<1>6. places \subseteq Places
  BY <1>2, <1>3, <1>5 DEF Places, Speaks
<1>7. PICK zone : zone = LiveZone(talk, frozen)
  OBVIOUS
<1>8. zone \in Seq(Places)
  BY <1>5, <1>6, <1>7
<1> QED
  BY <1>3, <1>7, <1>8

\* One edit more, of a place.
LEMMA EditsLive ==
  ASSUME UNCHANGED case, \A l \in DOMAIN edits : Edit(l), NEW l \in Places, NEW text, Name(l) # "none",
         \/ case.mode = "payg" /\ text = <<Piece("summary", Name(l))>>
         \/ case.mode = "oauth" /\ text = <<Piece("tidied", Name(l))>>,
         edits' \in {edits, With(l, text)}
  PROVE  \A k \in DOMAIN edits' : Edit(k)'
<1>1. Places' = Places /\ \A k : Name(k)' = Name(k)
  BY DEF Places, Name, TextAt, Talk, Frozen
<1>2. ASSUME NEW k \in DOMAIN edits'
      PROVE  /\ k \in Places /\ Name(k) # "none"
             /\ \/ case.mode = "payg" /\ edits'[k] = <<Piece("summary", Name(k))>>
                \/ case.mode = "oauth" /\ edits'[k] = <<Piece("tidied", Name(k))>>
  <2>1. CASE edits' = edits
    BY <2>1 DEF Edit
  <2>2. CASE edits' = With(l, text) /\ k = l
    <3>1. edits'[k] = text
      BY <2>2 DEF With
    <3> QED
      BY <2>2, <3>1
  <2>3. CASE edits' = With(l, text) /\ k # l
    <3>1. k \in DOMAIN edits /\ edits'[k] = edits[k]
      BY <2>3 DEF With
    <3> QED
      BY <3>1 DEF Edit
  <2> QED
    BY <2>1, <2>2, <2>3
<1> QED
  BY <1>1, <1>2 DEF Edit

LEMMA NextLive == IInv /\ LiveEdits /\ [Next]_vars => LiveEdits'
<1> SUFFICES ASSUME IInv, LiveEdits, [Next]_vars PROVE LiveEdits'
  OBVIOUS
<1>1. Handler \in Callers /\ Other \in Callers /\ Handler # Other
  BY CallersDiffer
<1>2. RedisIInv /\ RequestBacked /\ Arrived
  BY DEF IInv, RequestBacked, Arrived
<1>3. UNCHANGED case
  BY DEF Next, StoreStep, Begin, Compress, Compressed, NothingStored, Finish,
     Lost, CompressBlock, BlockCompressed, McpStep, Retrieve, Retrieved, vars, requestVars
<1>4. Places' = Places /\ \A k : Name(k)' = Name(k)
  BY <1>3 DEF Places, Name, TextAt, Talk, Frozen
<1>5. todo \in Seq(Places) /\ \A l \in DOMAIN edits : Edit(l)
  BY DEF LiveEdits
<1>6. todo # <<>> => Head(todo) \in Places /\ Tail(todo) \in Seq(Places)
  BY <1>5
<1>7. (todo \in Seq(Places))'
  <2>1. CASE UNCHANGED todo
    BY <1>4, <1>5, <2>1
  <2>2. CASE Begin
    BY <1>2, <1>4, <1>5, <2>2, ZoneOfPlaces DEF Begin
  <2>3. CASE Compressed \/ NothingStored
    <3>1. todo # <<>> /\ todo' = Tail(todo)
      BY <1>2, <2>3 DEF Compressed, NothingStored, RequestBacked
    <3> QED
      BY <1>4, <1>6, <3>1
  <2> QED
    BY <2>1, <2>2, <2>3 DEF Next, StoreStep, Compress, Finish, Lost, CompressBlock, BlockCompressed,
       McpStep, Retrieve, Retrieved, vars, requestVars
<1>8. (\A l \in DOMAIN edits : Edit(l))'
  <2>1. CASE UNCHANGED edits
    BY <1>3, <1>4, <1>5, <2>1 DEF Edit
  <2>2. CASE Compressed /\ edits' # edits
    <3>1. PICK l, text : l = Head(todo) /\ text = <<Piece("summary", Name(l))>>
      OBVIOUS
    <3>2. /\ todo # <<>> /\ case.mode = "payg" /\ call[Handler].op = "put"
          /\ call[Handler].hash = Name(l)
      BY <1>2, <2>2, <3>1 DEF Compressed, RequestBacked, LiveEdits
    <3>3. Name(l) # "none"
      <4>1. call[Handler].hash \in Hashes
        BY <1>1, <1>2, <3>2 DEF RedisIInv, RedisTypeOK, CallsMeanIt, Call
      <4> QED
        BY <3>2, <4>1, MissingIsNoHash DEF Missing
    <3>4. edits' \in {edits, With(l, text)}
      BY <2>2, <3>1 DEF Compressed
    <3> QED
      BY <1>3, <1>5, <1>6, <3>1, <3>2, <3>3, <3>4, EditsLive
  <2>3. CASE NothingStored /\ edits' # edits
    <3>1. PICK l, text : l = Head(todo) /\ text = <<Piece("tidied", Name(l))>>
      OBVIOUS
    <3>2. todo # <<>> /\ case.mode = "oauth" /\ Name(l) \in Tidier
      BY <2>3, <3>1 DEF NothingStored
    <3>3. Name(l) # "none"
      BY <3>2, NoTextIsWide
    <3>4. edits' \in {edits, With(l, text)}
      BY <2>3, <3>1 DEF NothingStored
    <3> QED
      BY <1>3, <1>5, <1>6, <3>1, <3>2, <3>3, <3>4, EditsLive
  <2> QED
    BY <2>1, <2>2, <2>3 DEF Next, StoreStep, Begin, Compress, Finish, Lost, CompressBlock,
       BlockCompressed, McpStep, Retrieve, Retrieved, vars, requestVars
<1>9. (call[Handler].op = "put" => case.mode = "payg")'
  <2> SUFFICES ASSUME call'[Handler].op = "put" PROVE case.mode = "payg"
    BY <1>3
  <2>1. CASE Compress
    BY <2>1 DEF Compress
  <2>2. CASE ~Compress
    <3>1. CASE PutsStay
      BY <1>1, <3>1 DEF PutsStay, LiveEdits
    <3>2. CASE \E text \in Hashes, kind \in Kinds : CompressBlock(text, kind)
      <4>1. call'[Handler] = call[Handler]
        BY <1>1, <1>2, <3>2, BeganPut DEF CompressBlock
      <4> QED
        BY <4>1 DEF LiveEdits
    <3>3. CASE \E line \in Written : CompressShared(line)
      <4>1. call'[Handler] = call[Handler]
        BY <1>1, <1>2, <3>3, BeganPut DEF CompressShared
      <4> QED
        BY <4>1 DEF LiveEdits
    <3> QED
      BY <1>2, <2>2, <3>1, <3>2, <3>3, WhoPuts
  <2> QED
    BY <2>1, <2>2
<1>10. OnlyLiveTextChanges'
  <2>1. ASSUME NEW messages, KeptMessages(messages), sent'.messages = messages, UNCHANGED edits
        PROVE  KeptMessages(sent.messages)'
    <3>1. Allowed' = Allowed /\ \A i : Cached(i)' <=> Cached(i)
      BY <1>3 DEF Allowed, Cached
    <3>2. DOMAIN sent'.messages = DOMAIN case'.body.messages
      BY <1>3, <2>1 DEF KeptMessages
    <3>3. ASSUME NEW i \in DOMAIN sent'.messages
          PROVE  KeptMessage(i, case.body.messages[i], sent.messages[i])'
      <4>1. PICK was, is : was = case.body.messages[i] /\ is = sent'.messages[i]
        OBVIOUS
      <4>2. KeptMessage(i, was, is)
        BY <2>1, <3>3, <4>1 DEF KeptMessages
      <4>3. case'.body.messages[i] = was /\ sent'.messages[i] = is
        BY <1>3, <4>1
      <4>4. SameButTexts(was, is)
        BY <4>2 DEF KeptMessage
      <4>5. SameButTexts(case'.body.messages[i], sent'.messages[i])
        BY <4>3, <4>4
      <4> HIDE DEF SameButTexts, Allowed, Cached
      <4> QED
        BY <2>1, <3>1, <4>2, <4>3, <4>5 DEF KeptMessage, TextMayBecome
    <3> QED
      BY <3>2, <3>3 DEF KeptMessages
  <2>2. ASSUME NEW options, KeptOptions(options), sent'.options = options
        PROVE  KeptOptions(sent.options)'
    BY <1>3, <2>2 DEF KeptOptions
  <2>3. ASSUME NEW body, Forward(body), {"messages", "options"} \subseteq DOMAIN body,
               body.options = case.body.options, KeptMessages(body.messages), UNCHANGED edits
        PROVE  OnlyLiveTextChanges'
    <3>1. PICK messages, options : messages = body.messages /\ options = sent'.options
      OBVIOUS
    <3>2. sent'.messages = messages
      BY <2>3, <3>1, ForwardedTexts
    <3>3. KeptOptions(sent'.options)
      BY <1>2, <2>3, ForwardedOptions
    <3>4. KeptMessages(sent.messages)'
      BY <2>1, <2>3, <3>1, <3>2
    <3>5. KeptOptions(sent.options)'
      BY <2>2, <3>1, <3>3
    <3> QED
      BY <3>4, <3>5, TwoPartsNext
  <2>4. CASE \E again \in BOOLEAN : Finish(again)
    <3>1. PICK again \in BOOLEAN : Finish(again)
      BY <2>4
    <3>2. PICK e : /\ Forward(Rebuild(case.body, e))
                   /\ \A l \in DOMAIN e : /\ l \in Places /\ e[l] # TextAt(l)
                                          /\ TextMayBecome(l, TextAt(l), e[l])
      BY <1>2, <1>5, <3>1, FinishedTexts
    <3>3. PICK body : body = Rebuild(case.body, e)
      OBVIOUS
    <3>4. /\ KeptMessages(body.messages) /\ {"messages", "options"} \subseteq DOMAIN body
          /\ body.options = case.body.options
      BY <1>2, <3>2, <3>3, RebuiltKept
    <3>5. UNCHANGED edits
      BY <3>1 DEF Finish
    <3> QED
      BY <2>3, <3>2, <3>3, <3>4, <3>5
  <2>5. CASE Begin /\ stage' = "forwarded"
    <3>1. PICK body : body = case.body
      OBVIOUS
    <3>2. Forward(body) /\ UNCHANGED edits
      BY <2>5, <3>1 DEF Begin
    <3>3. KeptMessages(body.messages) /\ {"messages", "options"} \subseteq DOMAIN body
      BY <1>2, <3>1, ArrivedKept
    <3> QED
      BY <2>3, <3>1, <3>2, <3>3
  <2>6. CASE stage' = "forwarded" /\ stage = "forwarded" /\ UNCHANGED <<edits, sent>>
    <3>1. KeptMessages(sent.messages) /\ KeptOptions(sent.options)
      BY <2>6, TwoParts DEF LiveEdits
    <3>2. PICK messages, options : messages = sent.messages /\ options = sent.options
      OBVIOUS
    <3>3. KeptMessages(messages) /\ KeptOptions(options)
      BY <3>1, <3>2
    <3>4. sent'.messages = messages /\ sent'.options = options
      BY <2>6, <3>2
    <3>5. KeptMessages(sent.messages)'
      BY <2>1, <2>6, <3>3, <3>4
    <3>6. KeptOptions(sent.options)'
      BY <2>2, <3>3, <3>4
    <3> QED
      BY <3>5, <3>6, TwoPartsNext
  <2>7. CASE stage' # "forwarded"
    BY <2>7, TwoPartsNext
  <2> QED
    BY <2>4, <2>5, <2>6, <2>7 DEF Next, StoreStep, Begin, Compress, Compressed, NothingStored, Lost,
       CompressBlock, BlockCompressed, McpStep, Retrieve, Retrieved, vars, requestVars
<1> QED
  BY <1>7, <1>8, <1>9, <1>10 DEF LiveEdits

(***************************************************************************)
(* Of what the client wrote, only live text and tool output changes, and   *)
(* only in the ways its policy allows, whatever is compressed, retried or  *)
(* lost meanwhile (compress_dialect, rebuild).                             *)
(***************************************************************************)
THEOREM OnlyLiveTextIsChanged == Spec => []OnlyLiveTextChanges
<1>1. LiveEdits => OnlyLiveTextChanges
  BY DEF LiveEdits
<1> QED
  BY SummariesAreBacked, InitLive, NextLive, <1>1, PTL DEF Spec
=============================================================================
