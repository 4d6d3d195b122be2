-------------------------- MODULE InMemoryCcrStore --------------------------
(***************************************************************************)
(* InMemoryCcrStore (headroom-core/src/ccr/in_memory.rs): one hash map     *)
(* behind a mutex, shared by every request handler of the proxy.           *)
(*                                                                         *)
(* Each operation reads the clock BEFORE it takes the lock, so between the *)
(* two any other thread may run and time may pass: every operation is two  *)
(* steps here.  What happens under the lock is one step.                   *)
(*                                                                         *)
(* An original is named by its hash (ContentHash::of is modelled as        *)
(* injective), so an entry is its expiry alone.                            *)
(***************************************************************************)
EXTENDS Naturals

CONSTANTS
    Hashes,           \* the originals
    Threads,          \* the threads that call the store
    NoHash,           \* the hash of a thread that is not calling
    Ttl,              \* CCR_TTL, in ticks of the clock
    MaxClock          \* bound on the clock

ASSUME TtlAssumption == Ttl \in Nat \ {0}
ASSUME ClockAssumption == MaxClock \in Nat
ASSUME NoHashAssumption == NoHash \notin Hashes

VARIABLES
    clock,     \* Instant::now()
    entries,   \* the map: expires_at of every hash in it
    call,      \* call[t]: the operation thread t is in, with the time it has read
    held,      \* history: until when the acknowledged puts promised every original
    asked      \* history: the latest lookup of each thread and its answer

vars == <<clock, entries, call, held, asked>>

Operations == {"idle", "put", "get", "purge"}

\* "at" is expires_at for a put, and now for a get and a purge.
Call == [op: Operations, hash: Hashes \cup {NoHash}, at: Nat]
Idle == [op |-> "idle", hash |-> NoHash, at |-> 0]

Answers == {"none", "pending", "found", "miss"}
Lookup == [hash: Hashes \cup {NoHash}, owed: Nat, answer: Answers, at: Nat]

TypeOK ==
    /\ clock \in Nat
    /\ DOMAIN entries \subseteq Hashes
    /\ entries \in [DOMAIN entries -> Nat]
    /\ call \in [Threads -> Call]
    /\ \A t \in Threads: call[t].op \in {"put", "get"} => call[t].hash \in Hashes
    /\ held \in [Hashes -> Nat]
    /\ asked \in [Threads -> Lookup]

Init ==
    /\ clock = 0
    /\ entries = [h \in {} |-> 0]
    /\ call = [t \in Threads |-> Idle]
    /\ held = [h \in Hashes |-> 0]
    /\ asked = [t \in Threads |->
                    [hash |-> NoHash, owed |-> 0, answer |-> "none", at |-> 0]]

-----------------------------------------------------------------------------
Tick ==
    /\ clock < MaxClock
    /\ clock' = clock + 1
    /\ UNCHANGED <<entries, call, held, asked>>

InFlight(op, h) == {t \in Threads: call[t].op = op /\ call[t].hash = h}

Begin(t, op, h, at) ==
    /\ call[t] = Idle
    /\ call' = [call EXCEPT ![t] = [op |-> op, hash |-> h, at |-> at]]

\* put: let expires_at = Instant::now() + ttl
PutBegin(t, h) ==
    /\ Begin(t, "put", h, clock + Ttl)
    /\ UNCHANGED <<clock, entries, held, asked>>

(***************************************************************************)
(* What the acknowledged puts of h have promised, once one of those in     *)
(* flight returns Ok.  The last of several insertions decides what the map *)
(* holds, and it may be the one that read the clock first: so all that can *)
(* be promised now is the expiry of the oldest put still in flight.        *)
(***************************************************************************)
Expiries(h) == {call[t].at: t \in InFlight("put", h)}
Oldest(h) == CHOOSE at \in Expiries(h): \A other \in Expiries(h): at <= other
Promised(h) == IF Oldest(h) > held[h] THEN Oldest(h) ELSE held[h]

\* FAULT for PutInsert: or_insert, an entry already there keeps its expiry.
PutInsertKeepsFirst(t) ==
    LET h == call[t].hash
        expiresAt == call[t].at
    IN  /\ call[t].op = "put"
        /\ entries' = [k \in DOMAIN entries \cup {h} |->
                          IF k \in DOMAIN entries THEN entries[k] ELSE expiresAt]
        /\ held' = [held EXCEPT ![h] = Promised(h)]
        /\ call' = [call EXCEPT ![t] = Idle]
        /\ UNCHANGED <<clock, asked>>

\* put: entries.insert(hash, Entry { .. }), then Ok(()).
PutInsert(t) ==
    LET h == call[t].hash
        expiresAt == call[t].at
    IN  /\ call[t].op = "put"
        /\ entries' = [k \in DOMAIN entries \cup {h} |->
                          IF k = h THEN expiresAt ELSE entries[k]]
        /\ held' = [held EXCEPT ![h] = Promised(h)]
        /\ call' = [call EXCEPT ![t] = Idle]
        /\ UNCHANGED <<clock, asked>>

\* get: let now = Instant::now()
GetBegin(t, h) ==
    /\ Begin(t, "get", h, clock)
    /\ asked' = [asked EXCEPT ![t] =
                    [hash |-> h, owed |-> held[h], answer |-> "pending", at |-> clock]]
    /\ UNCHANGED <<clock, entries, held>>

\* FAULT for Live: the last tick of an entry's life counts as expired.
LiveButForLastTick(h, now) == h \in DOMAIN entries /\ entries[h] > now + 1

\* The entry is there and expires_at > now, with now read before the lock.
Live(h, now) == h \in DOMAIN entries /\ entries[h] > now

\* get: the lookup under the lock.
GetLookup(t) ==
    /\ call[t].op = "get"
    /\ asked' = [asked EXCEPT ![t] = [@ EXCEPT
           !.answer = IF Live(call[t].hash, call[t].at) THEN "found" ELSE "miss",
           !.at = clock]]
    /\ call' = [call EXCEPT ![t] = Idle]
    /\ UNCHANGED <<clock, entries, held>>

\* purge_expired: let now = Instant::now()
PurgeBegin(t) ==
    /\ Begin(t, "purge", NoHash, clock)
    /\ UNCHANGED <<clock, entries, held, asked>>

\* FAULT for PurgeRetain: the predicate of retain inverted.
PurgeRetainExpired(t) ==
    /\ call[t].op = "purge"
    /\ entries' = [k \in {h \in DOMAIN entries: ~Live(h, call[t].at)} |-> entries[k]]
    /\ call' = [call EXCEPT ![t] = Idle]
    /\ UNCHANGED <<clock, held, asked>>

\* purge_expired: entries.retain(|_, entry| entry.expires_at > now)
PurgeRetain(t) ==
    /\ call[t].op = "purge"
    /\ entries' = [k \in {h \in DOMAIN entries: Live(h, call[t].at)} |-> entries[k]]
    /\ call' = [call EXCEPT ![t] = Idle]
    /\ UNCHANGED <<clock, held, asked>>

Next ==
    \/ Tick
    \/ \E t \in Threads:
        \/ \E h \in Hashes: PutBegin(t, h) \/ GetBegin(t, h)
        \/ PutInsert(t) \/ GetLookup(t) \/ PurgeBegin(t) \/ PurgeRetain(t)

Spec == Init /\ [][Next]_vars

-----------------------------------------------------------------------------
(***************************************************************************)
(* Stores original under hash, retrievable for at least ttl (mod.rs:62):   *)
(* until the time an acknowledged put promised, the entry is in the map    *)
(* and has not expired, whatever refreshes, lookups and purges run.  Puts  *)
(* of one original that overlap promise the expiry of the oldest of them.  *)
(***************************************************************************)
HeldUntilPromised ==
    \A h \in Hashes: held[h] > clock => h \in DOMAIN entries /\ entries[h] >= held[h]

(***************************************************************************)
(* The same promise as the caller of get sees it: a miss means that what   *)
(* had been promised when the lookup began has run out when it ends, even  *)
(* though get compares with a time it read before it took the lock.        *)
(***************************************************************************)
PromiseKept ==
    \A t \in Threads: asked[t].answer = "miss" => asked[t].owed <= asked[t].at

(***************************************************************************)
(* An entry leaves the map only when its own expiry has passed: a purge    *)
(* working from an old reading of the clock never removes a live entry.    *)
(***************************************************************************)
OnlyExpiredLeave ==
    [][\A h \in DOMAIN entries: h \notin DOMAIN entries' => entries[h] <= clock]_vars

(***************************************************************************)
(* The same of every put by itself, and false: of two puts of one original *)
(* in flight together the one that read the clock first may insert last,   *)
(* and the entry then expires before the other one's ttl has passed.       *)
(***************************************************************************)
RefreshNeverShortens ==
    [][\A h \in DOMAIN entries \cap DOMAIN entries': entries'[h] >= entries[h]]_vars

\* What the puts still to come or in flight will insert is no earlier than the promise.
PutsInOrder ==
    /\ \A h \in Hashes: held[h] <= clock + Ttl
    /\ \A t \in Threads: call[t].op = "put" =>
          /\ held[call[t].hash] <= call[t].at
          /\ Ttl <= call[t].at /\ call[t].at <= clock + Ttl

\* No thread compares with a time later than the clock.
ReadingsNotAhead ==
    \A t \in Threads: call[t].op \in {"get", "purge"} => call[t].at <= clock

\* A lookup in progress belongs to a thread in get, and asks for what is still promised.
LookupsInProgress ==
    \A t \in Threads:
        /\ call[t].op = "get" <=> asked[t].answer = "pending"
        /\ call[t].op = "get" => /\ asked[t].hash = call[t].hash
                                 /\ asked[t].owed <= held[asked[t].hash]

\* Whatever is in the map was promised by a put.
OnlyPromisedStored == \A h \in DOMAIN entries: held[h] > 0

\* The inductive invariant behind HeldUntilPromised, PromiseKept and the refinement.
IInv ==
    /\ TypeOK
    /\ HeldUntilPromised
    /\ PromiseKept
    /\ PutsInOrder
    /\ ReadingsNotAhead
    /\ LookupsInProgress
    /\ OnlyPromisedStored

-----------------------------------------------------------------------------
(***************************************************************************)
(* The store implements the contract of the trait: a put offers its        *)
(* original when it begins and acknowledges it when it inserts.            *)
(***************************************************************************)
Offered == {h \in Hashes: held[h] > 0 \/ InFlight("put", h) # {}}

Promise == INSTANCE CcrPromise WITH Readers <- Threads, offered <- Offered

ImplementsPromise == Promise!Spec
=============================================================================
