---------------------------- MODULE RedisCcrStore ----------------------------
(***************************************************************************)
(* RedisCcrStore (headroom-core/src/ccr/redis_store.rs): one Redis for     *)
(* several workers, so that a marker written by one is redeemable at any   *)
(* other.                                                                  *)
(*                                                                         *)
(* A worker has one connection behind a mutex; an operation that fails is  *)
(* tried once more on a fresh connection.  A command that failed may have  *)
(* been applied, or may still be on its way in the dropped connection.     *)
(* Only the server has a clock.  It is taken not to lose what it has       *)
(* acknowledged: what the code assumes of it, and cannot see.              *)
(***************************************************************************)
EXTENDS Naturals

CONSTANTS
    Hashes,      \* the originals
    NoHash,      \* the hash of a caller that is not calling
    Workers,     \* the processes, with one connection each
    Callers,     \* the threads of all of them
    Ttl,         \* CCR_TTL in whole seconds: 0 for less than one
    MaxClock,    \* bound on the clock
    MaxFaults    \* bound on failures of the network, the server and the workers

ASSUME TtlNat == Ttl \in Nat
ASSUME BoundsNat == MaxClock \in Nat /\ MaxFaults \in Nat
ASSUME NoHashIsNone == NoHash \notin Hashes

VARIABLES
    clock,    \* the server's
    keys,     \* keys[h]: when the server's entry expires (0: never stored)
    late,     \* originals in commands of dropped connections, still to be applied
    at,       \* at[c]: the worker a caller runs in
    conn,     \* conn[w]: is the connection in the worker's mutex alive?
    call,     \* call[c]: the operation a caller is in
    faults,   \* how many failures there have been
    offered,  \* history: the originals of puts that have begun
    held,     \* history: until when an acknowledged put promised an original
    asked     \* history: the latest lookup of each caller

server == <<keys, late>>
history == <<offered, held, asked>>
redisVars == <<clock, server, at, conn, call, faults, history>>

Steps == {"idle", "waiting", "first", "reconnect", "second", "done"}
Call == [op: {"none", "put", "get"}, hash: Hashes \cup {NoHash}, step: Steps,
         until: Nat, answer: {"none", "ok", "found", "miss", "error"}]
Idle == [op |-> "none", hash |-> NoHash, step |-> "idle", until |-> 0, answer |-> "none"]

Answers == {"none", "pending", "found", "miss"}
Lookup == [hash: Hashes \cup {NoHash}, owed: Nat, answer: Answers, at: Nat]
NoLookup == [hash |-> NoHash, owed |-> 0, answer |-> "none", at |-> 0]

RedisTypeOK ==
    /\ clock \in Nat /\ faults \in Nat
    /\ keys \in [Hashes -> Nat] /\ late \subseteq Hashes
    /\ at \in [Callers -> Workers]
    /\ conn \in [Workers -> BOOLEAN]
    /\ call \in [Callers -> Call]
    /\ offered \subseteq Hashes
    /\ held \in [Hashes -> Nat]
    /\ asked \in [Callers -> Lookup]

RedisInit ==
    /\ clock = 0 /\ faults = 0
    /\ keys = [h \in Hashes |-> 0] /\ late = {}
    /\ at \in [Callers -> Workers]
    /\ conn = [w \in Workers |-> TRUE]
    /\ call = [c \in Callers |-> Idle]
    /\ offered = {}
    /\ held = [h \in Hashes |-> 0]
    /\ asked = [c \in Callers |-> NoLookup]

-----------------------------------------------------------------------------
Tick ==
    /\ clock < MaxClock
    /\ clock' = clock + 1
    /\ UNCHANGED <<server, at, conn, call, faults, history>>

\* A failure, of which there are only so many.
Fault == faults < MaxFaults /\ faults' = faults + 1

\* The server's answer to GET: an expired key is as good as none.
Visible(h) == keys[h] > clock

\* SET EX takes whole seconds and refuses zero.
Expiry == clock + (IF Ttl = 0 THEN 1 ELSE Ttl)

Step(c, step) == call' = [call EXCEPT ![c].step = step]

BeginPut(c, h) ==
    /\ call[c].step = "idle"
    /\ call' = [call EXCEPT ![c] = [Idle EXCEPT !.op = "put", !.hash = h, !.step = "waiting"]]
    /\ offered' = offered \cup {h}
    /\ UNCHANGED <<clock, server, at, conn, faults, held, asked>>

BeginGet(c, h) ==
    /\ call[c].step = "idle"
    /\ call' = [call EXCEPT ![c] = [Idle EXCEPT !.op = "get", !.hash = h, !.step = "waiting"]]
    /\ asked' = [asked EXCEPT ![c] =
                    [hash |-> h, owed |-> held[h], answer |-> "pending", at |-> clock]]
    /\ UNCHANGED <<clock, server, at, conn, faults, offered, held>>

\* self.connection.lock(), whose guard lives until the operation is over.
Holds(c) == call[c].step \in {"first", "reconnect", "second"}

Lock(c) ==
    /\ call[c].step = "waiting"
    /\ \A d \in Callers: at[d] = at[c] => ~Holds(d)
    /\ Step(c, "first")
    /\ UNCHANGED <<clock, server, at, conn, faults, history>>

\* The command is in the first try on the worker's connection, in the second on a fresh one.
Trying(c) == call[c].step = "second" \/ (call[c].step = "first" /\ conn[at[c]])

(***************************************************************************)
(* op returns Ok.  A fresh connection that worked replaces the old one.    *)
(***************************************************************************)
PutAnswered(c) ==
    /\ call[c].op = "put" /\ Trying(c)
    /\ keys' = [keys EXCEPT ![call[c].hash] = Expiry]
    /\ call' = [call EXCEPT ![c].step = "done", ![c].answer = "ok", ![c].until = Expiry]
    /\ conn' = [conn EXCEPT ![at[c]] = TRUE]
    /\ UNCHANGED <<clock, late, at, faults, history>>

GetAnswered(c) ==
    /\ call[c].op = "get" /\ Trying(c)
    /\ LET answer == IF Visible(call[c].hash) THEN "found" ELSE "miss"
       IN  /\ call' = [call EXCEPT ![c].step = "done", ![c].answer = answer]
           /\ asked' = [asked EXCEPT ![c] = [@ EXCEPT !.answer = answer, !.at = clock]]
    /\ conn' = [conn EXCEPT ![at[c]] = TRUE]
    /\ UNCHANGED <<clock, server, at, faults, offered, held>>

\* What has become of a command whose answer never came.
Fate(c, fate) ==
    LET h == call[c].hash
    IN  CASE fate = "applied" /\ call[c].op = "put"
               -> keys' = [keys EXCEPT ![h] = Expiry] /\ UNCHANGED late
          [] fate = "late" /\ call[c].op = "put"
               -> late' = late \cup {h} /\ UNCHANGED keys
          [] OTHER -> UNCHANGED server

(***************************************************************************)
(* The first try fails, by itself or because the connection was dead.      *)
(***************************************************************************)
FirstFails(c, fate) ==
    /\ call[c].step = "first"
    /\ IF conn[at[c]] THEN Fault /\ Fate(c, fate) ELSE UNCHANGED <<faults, server>>
    /\ conn' = [conn EXCEPT ![at[c]] = FALSE]
    /\ Step(c, "reconnect")
    /\ UNCHANGED <<clock, at, history>>

Reconnect(c) ==
    /\ call[c].step = "reconnect"
    /\ Step(c, "second")
    /\ UNCHANGED <<clock, server, at, conn, faults, history>>

\* FAULT for Errs: a failure is reported as a miss.
ErrsAsMiss(c) ==
    /\ call' = [call EXCEPT ![c].step = "done", ![c].answer = "miss"]
    /\ asked' = IF call[c].op = "get"
                THEN [asked EXCEPT ![c] = [@ EXCEPT !.answer = "miss", !.at = clock]]
                ELSE asked
    /\ UNCHANGED <<offered, held>>

\* An error is all the caller gets, and no answer at all to its lookup.
Errs(c) ==
    /\ call' = [call EXCEPT ![c].step = "done", ![c].answer = "error"]
    /\ asked' = IF call[c].op = "get"
                THEN [asked EXCEPT ![c] = [@ EXCEPT !.answer = "none", !.at = clock]]
                ELSE asked
    /\ UNCHANGED <<offered, held>>

ReconnectFails(c) ==
    /\ call[c].step = "reconnect"
    /\ Fault /\ Errs(c)
    /\ UNCHANGED <<clock, server, at, conn>>

(* The dead connection stays in the mutex: the next operation finds it.    *)
SecondFails(c, fate) ==
    /\ call[c].step = "second"
    /\ Fault /\ Fate(c, fate) /\ Errs(c)
    /\ UNCHANGED <<clock, at, conn>>

\* The caller has its answer; a put that returned Ok has made its promise.
Return(c) ==
    /\ call[c].step = "done"
    /\ held' = IF call[c].answer = "ok" /\ call[c].until > held[call[c].hash]
               THEN [held EXCEPT ![call[c].hash] = call[c].until] ELSE held
    /\ call' = [call EXCEPT ![c] = Idle]
    /\ UNCHANGED <<clock, server, at, conn, faults, offered, asked>>

\* A command of a dropped connection reaches the server after all.
LateApplies(h) ==
    /\ h \in late
    /\ keys' = [keys EXCEPT ![h] = Expiry]
    /\ late' = late \ {h}
    /\ UNCHANGED <<clock, at, conn, call, faults, history>>

(***************************************************************************)
(* A worker dies and is started again, with a connection of its own.       *)
(***************************************************************************)
Dies(w) ==
    /\ Fault
    /\ call' = [c \in Callers |-> IF at[c] = w THEN Idle ELSE call[c]]
    /\ asked' = [c \in Callers |->
                    IF at[c] = w /\ asked[c].answer = "pending"
                    THEN [asked[c] EXCEPT !.answer = "none", !.at = clock] ELSE asked[c]]
    /\ conn' = [conn EXCEPT ![w] = TRUE]
    /\ UNCHANGED <<clock, server, at, offered, held>>

\* What runs between the beginning of an operation and its return.
Fates == {"unknown", "applied", "late"}

Progress(c) ==
    \/ Lock(c) \/ PutAnswered(c) \/ GetAnswered(c)
    \/ \E fate \in Fates: FirstFails(c, fate) \/ SecondFails(c, fate)
    \/ Reconnect(c) \/ ReconnectFails(c)

RedisNext ==
    \/ Tick
    \/ \E h \in Hashes: LateApplies(h) \/ \E c \in Callers: BeginPut(c, h) \/ BeginGet(c, h)
    \/ \E c \in Callers: Progress(c) \/ Return(c)
    \/ \E w \in Workers: Dies(w)

RedisSpec == RedisInit /\ [][RedisNext]_redisVars

-----------------------------------------------------------------------------
\* What put acknowledged is at the server, whatever was retried, applied twice or applied late.
HeldAtServer == \A h \in Hashes: keys[h] >= held[h]

(***************************************************************************)
(* "Calls ccr_retrieve and lands on worker B" (redis_store.rs:7): a miss   *)
(* at any worker means that what a put at any worker had promised when the *)
(* lookup began has run out.                                               *)
(***************************************************************************)
PromiseKept ==
    \A c \in Callers: asked[c].answer = "miss" => asked[c].owed <= asked[c].at

\* The inductive invariant of both.
LookupsPending ==
    \A c \in Callers:
        asked[c].answer = "pending" => /\ asked[c].hash \in Hashes
                                       /\ asked[c].owed <= held[asked[c].hash]
CallsMeanIt ==
    \A c \in Callers:
        /\ call[c].step # "idle" => call[c].hash \in Hashes /\ call[c].op \in {"put", "get"}
        /\ call[c].op = "get" /\ call[c].step # "done" =>
               asked[c].answer = "pending" /\ asked[c].hash = call[c].hash
        /\ call[c].answer = "ok" => call[c].op = "put" /\ keys[call[c].hash] >= call[c].until
                                                      /\ call[c].until > 0
        /\ call[c].answer # "none" => call[c].step = "done"
        /\ call[c].op = "put" => call[c].step # "idle" /\ call[c].hash \in offered
NothingFromTheFuture ==
    /\ \A h \in Hashes: keys[h] <= Expiry /\ (keys[h] > 0 => h \in offered)
    /\ late \subseteq offered
OnlyLookups ==
    \A c \in Callers: asked[c].answer = "pending" =>
                         call[c].op = "get" /\ call[c].step \notin {"idle", "done"}

RedisIInv == /\ RedisTypeOK /\ HeldAtServer /\ PromiseKept
             /\ LookupsPending /\ CallsMeanIt /\ NothingFromTheFuture /\ OnlyLookups

-----------------------------------------------------------------------------
(* The store implements the contract of the trait.                         *)
Promise == INSTANCE CcrPromise WITH Readers <- Callers

ImplementsPromise == Promise!Spec
=============================================================================
