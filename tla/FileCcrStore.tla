---------------------------- MODULE FileCcrStore ----------------------------
(***************************************************************************)
(* FileCcrStore (headroom-core/src/ccr/persistent.rs): a directory with,   *)
(* for each original, a body <hash>, a sidecar <hash>.exp that holds its   *)
(* expiry, and while it is being written a temporary <hash>.tmp.           *)
(*                                                                         *)
(* The store has no lock.  The directory is shared by the threads of the   *)
(* proxy, its purge task and the MCP server's threads, so every call of    *)
(* std::fs is a step of its own and any process may die between two of     *)
(* them.  An I/O error makes put return early and leaves the directory as  *)
(* a crash at the same place does: PutAbort stands for both.               *)
(***************************************************************************)
EXTENDS Integers, Sequences

CONSTANTS
    Hashes,        \* the originals
    Putters,       \* threads that store originals
    Readers,       \* threads that redeem markers
    Sweepers,      \* threads that run purge_expired
    NoFile, NoPath, NoHash,
    Second,        \* the ticks of the clock in a second: a sidecar holds whole seconds
    Ttl,           \* CCR_TTL
    RecoveryTtl,   \* RECOVERY_TTL: the expiry given to an entry without one
    AbandonedAfter,\* ABANDONED_AFTER: the age at which a temporary counts as stray
    Start,         \* when the directory is created, empty
    MaxClock       \* bound on the clock

ASSUME TtlAssumption ==
    /\ Second \in Nat \ {0}
    /\ Ttl \in Nat /\ Ttl >= Second
    /\ AbandonedAfter \in Nat
\* RECOVERY_TTL and CCR_TTL are both a day.
ASSUME RecoveryAssumption == RecoveryTtl \in Nat /\ RecoveryTtl >= Ttl
ASSUME ClockAssumption == Start \in Nat /\ MaxClock \in Nat
ASSUME NothingAssumption == NoFile \notin Nat /\ NoHash \notin Hashes

VARIABLES
    clock,     \* SystemTime::now()
    files,     \* the directory: the text of every file in it
    modified,  \* modified[h]: the modification time of <h>.tmp, if there is one
    handle,    \* the files the actors have open for writing
    put,       \* put[p]: the put thread p is in
    get,       \* get[r]: the get thread r is in, and the expiry it has read
    sweep,     \* sweep[s]: the purge thread s is in
    offered,   \* history: the originals some put has begun to store
    shared,    \* history: the originals whose temporary two puts have had at once
    promised,  \* history: until when the acknowledged puts promised every original
    asked      \* history: the latest lookup of each reader and its answer

directory == <<files, modified, handle>>
history == <<offered, shared, promised>>

vars == <<clock, files, modified, handle, put, get, sweep, offered, shared, promised, asked>>

Kinds == {"body", "tmp", "exp"}
Paths == Hashes \X Kinds
Body(h) == <<h, "body">>
Tmp(h) == <<h, "tmp">>
Exp(h) == <<h, "exp">>

ASSUME PathAssumption == NoPath \notin Paths

Actors == Putters \cup Sweepers
ASSUME ActorsDiffer == Putters \cap Sweepers = {}

FS == INSTANCE FileSystem

(***************************************************************************)
(* A body or a temporary is Empty (truncated, or not yet written) or the   *)
(* Whole original; a sidecar is Empty or the expiry it spells.             *)
(***************************************************************************)
Empty == 0
Whole == 1

\* History in it: "sole", no other put has had its temporary so far; "unswept", no sweep
\* has been under way since it began.
PutSteps == {"idle", "create", "write", "rename", "truncate", "stamp"}
Put == [at: PutSteps, hash: Hashes \cup {NoHash}, until: Nat, sole: BOOLEAN, unswept: BOOLEAN]
NoPut == [at |-> "idle", hash |-> NoHash, until |-> 0, sole |-> FALSE, unswept |-> FALSE]

GetSteps == {"idle", "exists", "expiry", "now", "body"}
Get == [at: GetSteps, expiry: Nat]
NoGet == [at |-> "idle", expiry |-> 0]

\* History in it: "alone", no put and no other sweep has been under way since it began.
SweepSteps == {"idle", "scan", "date", "stamp"}
Sweep == [at: SweepSteps, now: Nat, todo: SUBSET Paths, doomed: Seq(Paths),
          undated: Hashes \cup {NoHash}, alone: BOOLEAN]
NoSweep == [at |-> "idle", now |-> 0, todo |-> {}, doomed |-> <<>>,
            undated |-> NoHash, alone |-> FALSE]

Answers == {"none", "pending", "found", "torn", "miss"}
Lookup == [hash: Hashes \cup {NoHash}, owed: Nat, answer: Answers, at: Nat]

TypeOK ==
    /\ clock \in Nat
    /\ files \in [Paths -> Nat \cup {NoFile}]
    /\ modified \in [Hashes -> Nat]
    /\ handle \in [Actors -> Paths \cup {NoPath}]
    /\ put \in [Putters -> Put]
    /\ get \in [Readers -> Get]
    /\ sweep \in [Sweepers -> Sweep]
    /\ offered \subseteq Hashes
    /\ shared \subseteq Hashes
    /\ promised \in [Hashes -> Nat]
    /\ asked \in [Readers -> Lookup]

Init ==
    /\ clock = Start
    /\ files = [p \in Paths |-> NoFile]
    /\ modified = [h \in Hashes |-> 0]
    /\ handle = [a \in Actors |-> NoPath]
    /\ put = [p \in Putters |-> NoPut]
    /\ get = [r \in Readers |-> NoGet]
    /\ sweep = [s \in Sweepers |-> NoSweep]
    /\ offered = {}
    /\ shared = {}
    /\ promised = [h \in Hashes |-> 0]
    /\ asked = [r \in Readers |->
                    [hash |-> NoHash, owed |-> 0, answer |-> "none", at |-> 0]]

Tick ==
    /\ clock < MaxClock
    /\ clock' = clock + 1
    /\ UNCHANGED <<directory, put, get, sweep, history, asked>>

\* epoch_secs: the fraction of a second is dropped.
EpochSecs(at) == (at \div Second) * Second

\* expiry_of: a sidecar that is absent or does not parse tells nothing.
Dated(h) == FS!Exists(Exp(h)) /\ files[Exp(h)] # Empty
ExpiredAt(h, now) == Dated(h) /\ files[Exp(h)] <= now

-----------------------------------------------------------------------------
(***************************************************************************)
(* put                                                                     *)
(***************************************************************************)
PutsOf(h) == {p \in Putters: put[p].at # "idle" /\ put[p].hash = h}
\* Those that have created <h>.tmp and not renamed it yet.
WritersOf(h) == {p \in PutsOf(h): put[p].at \in {"write", "rename"}}
Putting == \E p \in Putters: put[p].at # "idle"
Sweeping == \E s \in Sweepers: sweep[s].at # "idle"

\* let expires_at = SystemTime::now() + ttl
PutBegin(p, h) ==
    /\ put[p].at = "idle"
    /\ put' = [put EXCEPT ![p] = [at |-> "create", hash |-> h, until |-> clock + Ttl,
                                  sole |-> FALSE, unswept |-> ~Sweeping]]
    /\ sweep' = [s \in Sweepers |-> [sweep[s] EXCEPT !.alone = FALSE]]
    /\ offered' = offered \cup {h}
    /\ UNCHANGED <<clock, directory, get, shared, promised, asked>>

\* Who has the temporary of p's original when p creates it.
Created(p) ==
    LET others == WritersOf(put[p].hash)
    IN  /\ put' = [q \in Putters |->
                      IF q = p THEN [put[p] EXCEPT !.at = "write", !.sole = (others = {})]
                      ELSE IF q \in others THEN [put[q] EXCEPT !.sole = FALSE]
                      ELSE put[q]]
        /\ shared' = IF others = {} THEN shared ELSE shared \cup {put[p].hash}

\* FAULT for PutCreate: the original is written in place.
PutCreateInPlace(p) ==
    /\ put[p].at = "create"
    /\ FS!Create(p, Body(put[p].hash), Empty)
    /\ Created(p)
    /\ UNCHANGED <<clock, modified, get, sweep, offered, promised, asked>>

\* File::create(<hash>.tmp), truncating a leftover, or what another put is writing there.
PutCreate(p) ==
    /\ put[p].at = "create"
    /\ FS!Create(p, Tmp(put[p].hash), Empty)
    /\ modified' = [modified EXCEPT ![put[p].hash] = clock]
    /\ Created(p)
    /\ UNCHANGED <<clock, get, sweep, offered, promised, asked>>

\* write_all, sync_all, and the file is closed.
PutWrite(p) ==
    /\ put[p].at = "write"
    /\ FS!WriteAndClose(p, Whole)
    /\ modified' = IF handle[p] = Tmp(put[p].hash)
                   THEN [modified EXCEPT ![put[p].hash] = clock]
                   ELSE modified
    /\ put' = [put EXCEPT ![p].at = "rename"]
    /\ UNCHANGED <<clock, get, sweep, history, asked>>

\* fs::rename(<hash>.tmp, <hash>)
PutRename(p) ==
    LET h == put[p].hash
    IN  /\ put[p].at = "rename"
        /\ FS!Rename(Tmp(h), Body(h))
        /\ modified' = [modified EXCEPT ![h] = 0]
        /\ put' = [put EXCEPT ![p].at = "truncate", ![p].sole = FALSE]
        /\ shared' = IF put[p].sole THEN shared \ {h} ELSE shared
        /\ UNCHANGED <<clock, get, sweep, offered, promised, asked>>

\* The rename fails because somebody took the temporary away: put returns the error.
PutRenameFails(p) ==
    /\ put[p].at = "rename"
    /\ ~FS!Exists(Tmp(put[p].hash))
    /\ put' = [put EXCEPT ![p] = NoPut]
    /\ UNCHANGED <<clock, directory, get, sweep, history, asked>>

\* fs::write(<hash>.exp), first half: the sidecar is created empty or truncated.
PutTruncateSidecar(p) ==
    /\ put[p].at = "truncate"
    /\ FS!Create(p, Exp(put[p].hash), Empty)
    /\ put' = [put EXCEPT ![p].at = "stamp"]
    /\ UNCHANGED <<clock, modified, get, sweep, history, asked>>

(***************************************************************************)
(* What the acknowledged puts of h have promised once put p is one of      *)
(* them.  A sidecar holds what was written to it last, so as long as older *)
(* puts of h are in flight no more than the oldest of them can be; and a   *)
(* put that met a sweep promises nothing, for the sweep may have deleted   *)
(* what it stored.                                                         *)
(***************************************************************************)
Expiries(h) == {put[p].until: p \in PutsOf(h)}
Oldest(h) == CHOOSE at \in Expiries(h): \A other \in Expiries(h): at <= other
Promised(p) ==
    LET h == put[p].hash
    IN  IF put[p].unswept /\ Oldest(h) > promised[h] THEN Oldest(h) ELSE promised[h]

\* fs::write(<hash>.exp), second half, and Ok(()): the marker goes into the prompt.
PutStamp(p) ==
    /\ put[p].at = "stamp"
    /\ FS!WriteAndClose(p, EpochSecs(put[p].until))
    /\ put' = [put EXCEPT ![p] = NoPut]
    /\ promised' = [promised EXCEPT ![put[p].hash] = Promised(p)]
    /\ UNCHANGED <<clock, modified, get, sweep, offered, shared, asked>>

\* An I/O error, or the process dies: nothing is undone.
PutAbort(p) ==
    /\ put[p].at # "idle"
    /\ FS!Close(p)
    /\ put' = [put EXCEPT ![p] = NoPut]
    /\ UNCHANGED <<clock, modified, get, sweep, history, asked>>

-----------------------------------------------------------------------------
(***************************************************************************)
(* get                                                                     *)
(***************************************************************************)
AnswerWith(r, answer) ==
    /\ get' = [get EXCEPT ![r] = NoGet]
    /\ asked' = [asked EXCEPT ![r] = [@ EXCEPT !.answer = answer, !.at = clock]]

\* get goes on to its next step.
GoOn(r, step, expiry) ==
    /\ get' = [get EXCEPT ![r] = [at |-> step, expiry |-> expiry]]
    /\ UNCHANGED asked

\* The call.  Nothing has been looked at yet.
GetBegin(r, h) ==
    /\ get[r].at = "idle"
    /\ get' = [get EXCEPT ![r] = [at |-> "exists", expiry |-> 0]]
    /\ asked' = [asked EXCEPT ![r] =
                    [hash |-> h, owed |-> promised[h], answer |-> "pending", at |-> clock]]
    /\ UNCHANGED <<clock, directory, put, sweep, history>>

\* if !path.exists() { return Ok(None) }
GetExists(r) ==
    /\ get[r].at = "exists"
    /\ IF FS!Exists(Body(asked[r].hash)) THEN GoOn(r, "expiry", 0) ELSE AnswerWith(r, "miss")
    /\ UNCHANGED <<clock, directory, put, sweep, history>>

\* if let Some(expiry) = expiry_of(..): an unknown expiry fails open.
GetExpiry(r) ==
    LET h == asked[r].hash
    IN  /\ get[r].at = "expiry"
        /\ IF Dated(h) THEN GoOn(r, "now", files[Exp(h)]) ELSE GoOn(r, "body", 0)
        /\ UNCHANGED <<clock, directory, put, sweep, history>>

\* if expiry <= SystemTime::now() { return Ok(None) }
GetNow(r) ==
    /\ get[r].at = "now"
    /\ IF get[r].expiry <= clock THEN AnswerWith(r, "miss") ELSE GoOn(r, "body", 0)
    /\ UNCHANGED <<clock, directory, put, sweep, history>>

\* fs::read(&path); a file that has gone meanwhile is an ordinary miss.
GetBody(r) ==
    LET body == Body(asked[r].hash)
    IN  /\ get[r].at = "body"
        /\ AnswerWith(r, IF ~FS!Exists(body) THEN "miss"
                         ELSE IF files[body] = Whole THEN "found" ELSE "torn")
        /\ UNCHANGED <<clock, directory, put, sweep, history>>

\* Any other I/O error is returned: the caller learns nothing of the original.
GetFails(r) ==
    /\ get[r].at = "body"
    /\ AnswerWith(r, "none")
    /\ UNCHANGED <<clock, directory, put, sweep, history>>

-----------------------------------------------------------------------------
(***************************************************************************)
(* purge_expired                                                           *)
(***************************************************************************)
\* read_dir and now, both taken before the first entry is looked at.
PurgeBegin(s) ==
    /\ sweep[s].at = "idle"
    /\ sweep' = [t \in Sweepers |->
                    IF t = s THEN [at |-> "scan", now |-> clock, doomed |-> <<>>,
                                   todo |-> {p \in Paths: FS!Exists(p)},
                                   undated |-> NoHash, alone |-> ~Putting /\ ~Sweeping]
                    ELSE [sweep[t] EXCEPT !.alone = FALSE]]
    /\ put' = [p \in Putters |-> [put[p] EXCEPT !.unswept = FALSE]]
    /\ UNCHANGED <<clock, directory, get, history, asked>>

\* The sweep is between two entries.
Scanning(s) == sweep[s].at = "scan" /\ sweep[s].doomed = <<>>

Decide(s, path, doomed) ==
    /\ sweep' = [sweep EXCEPT ![s] = [sweep[s] EXCEPT !.todo = @ \ {path}, !.doomed = doomed]]
    /\ UNCHANGED <<clock, directory, put, get, history, asked>>

\* older_than: the file is there and more than ABANDONED_AFTER has passed since its time.
Stray(h, now) == FS!Exists(Tmp(h)) /\ modified[h] + AbandonedAfter < now

\* A temporary: removed when it is an abandoned write.
PurgeTemporary(s, h) ==
    /\ Scanning(s) /\ Tmp(h) \in sweep[s].todo
    /\ Decide(s, Tmp(h), IF Stray(h, sweep[s].now) THEN <<Tmp(h)>> ELSE <<>>)

\* A sidecar: removed when its body is gone.
PurgeSidecar(s, h) ==
    /\ Scanning(s) /\ Exp(h) \in sweep[s].todo
    /\ Decide(s, Exp(h), IF FS!Exists(Body(h)) THEN <<>> ELSE <<Exp(h)>>)

\* A body with an expiry: removed with its sidecar when expiry <= now.
PurgeDated(s, h) ==
    /\ Scanning(s) /\ Body(h) \in sweep[s].todo /\ Dated(h)
    /\ Decide(s, Body(h), IF ExpiredAt(h, sweep[s].now) THEN <<Body(h), Exp(h)>> ELSE <<>>)

\* FAULT for PurgeUndated: what cannot be dated is skipped.
PurgeUndatedSkips(s, h) ==
    /\ Scanning(s) /\ Body(h) \in sweep[s].todo /\ ~Dated(h)
    /\ Decide(s, Body(h), <<>>)

\* FAULT for PurgeUndated: what cannot be dated counts as expired.
PurgeUndatedRemoves(s, h) ==
    /\ Scanning(s) /\ Body(h) \in sweep[s].todo /\ ~Dated(h)
    /\ Decide(s, Body(h), <<Body(h), Exp(h)>>)

\* A body without one is kept, and is to be dated.
PurgeUndated(s, h) ==
    /\ Scanning(s) /\ Body(h) \in sweep[s].todo /\ ~Dated(h)
    /\ sweep' = [sweep EXCEPT ![s] = [sweep[s] EXCEPT !.todo = @ \ {Body(h)},
                                                      !.at = "date", !.undated = h]]
    /\ UNCHANGED <<clock, directory, put, get, history, asked>>

\* fs::write(<hash>.exp, now + RECOVERY_TTL), first half ..
PurgeTruncateSidecar(s) ==
    /\ sweep[s].at = "date"
    /\ FS!Create(s, Exp(sweep[s].undated), Empty)
    /\ sweep' = [sweep EXCEPT ![s].at = "stamp"]
    /\ UNCHANGED <<clock, modified, put, get, history, asked>>

\* .. and second.
PurgeStamp(s) ==
    /\ sweep[s].at = "stamp"
    /\ FS!WriteAndClose(s, EpochSecs(sweep[s].now + RecoveryTtl))
    /\ sweep' = [sweep EXCEPT ![s].at = "scan", ![s].undated = NoHash]
    /\ UNCHANGED <<clock, modified, put, get, history, asked>>

\* remove_file on what was decided, whatever has happened to it since.
PurgeRemove(s) ==
    LET path == Head(sweep[s].doomed)
    IN  /\ sweep[s].doomed # <<>>
        /\ FS!Unlink(path)
        /\ modified' = [h \in Hashes |-> IF path = Tmp(h) THEN 0 ELSE modified[h]]
        /\ sweep' = [sweep EXCEPT ![s].doomed = Tail(@)]
        /\ UNCHANGED <<clock, put, get, history, asked>>

PurgeEnd(s) ==
    /\ Scanning(s) /\ sweep[s].todo = {}
    /\ sweep' = [sweep EXCEPT ![s] = NoSweep]
    /\ UNCHANGED <<clock, directory, put, get, history, asked>>

\* The process dies in the middle of a sweep.
PurgeCrash(s) ==
    /\ sweep[s].at # "idle"
    /\ FS!Close(s)
    /\ sweep' = [sweep EXCEPT ![s] = NoSweep]
    /\ UNCHANGED <<clock, modified, put, get, history, asked>>

-----------------------------------------------------------------------------
PutStep(p) ==
    \/ PutCreate(p) \/ PutWrite(p) \/ PutRename(p) \/ PutRenameFails(p)
    \/ PutTruncateSidecar(p) \/ PutStamp(p)

GetStep(r) == GetExists(r) \/ GetExpiry(r) \/ GetNow(r) \/ GetBody(r) \/ GetFails(r)

PurgeStep(s) ==
    \/ \E h \in Hashes: \/ PurgeTemporary(s, h) \/ PurgeSidecar(s, h)
                        \/ PurgeDated(s, h) \/ PurgeUndated(s, h)
    \/ PurgeTruncateSidecar(s) \/ PurgeStamp(s) \/ PurgeRemove(s) \/ PurgeEnd(s)

Next ==
    \/ Tick
    \/ \E p \in Putters: (\E h \in Hashes: PutBegin(p, h)) \/ PutStep(p) \/ PutAbort(p)
    \/ \E r \in Readers: (\E h \in Hashes: GetBegin(r, h)) \/ GetStep(r)
    \/ \E s \in Sweepers: PurgeBegin(s) \/ PurgeStep(s) \/ PurgeCrash(s)

Spec == Init /\ [][Next]_vars

-----------------------------------------------------------------------------
(***************************************************************************)
(* A reader must never observe a half-written entry and hand a model       *)
(* truncated content while calling it the original (persistent.rs:113).    *)
(* False: two puts of one original write the one <hash>.tmp, and what the  *)
(* later one has just truncated the earlier one renames.                   *)
(***************************************************************************)
NoTornRead == \A r \in Readers: asked[r].answer # "torn"

(***************************************************************************)
(* How far that goes.  Two puts have to have had the temporary at once,    *)
(* and the harm lasts only until a put that had it to itself has renamed   *)
(* it: a half is read of no other original, whatever aborts, crashes and   *)
(* sweeps.                                                                 *)
(***************************************************************************)
TornOnlyWhileShared ==
    [][\A r \in Readers: asked[r].answer = "pending" /\ asked'[r].answer = "torn"
                            => asked[r].hash \in shared]_vars

(***************************************************************************)
(* Retrievable for at least ttl (mod.rs:62), less the fraction of a second *)
(* a sidecar cannot hold: a lookup misses only when the time the           *)
(* acknowledged puts had promised by its start has run out, whatever       *)
(* overlaps it, and whatever aborts or crashes after those puts.           *)
(***************************************************************************)
PromiseKept ==
    \A r \in Readers: asked[r].answer = "miss" => EpochSecs(asked[r].owed) <= asked[r].at

(***************************************************************************)
(* What a put has stored is there when it returns Ok.  False when a sweep  *)
(* is under way: one that has read an expired sidecar deletes the body,    *)
(* and the sidecar, that a put has renewed meanwhile.                      *)
(***************************************************************************)
AcknowledgedIsThere ==
    [][\A p \in Putters: PutStamp(p) => FS!Exists(Body(put[p].hash))]_vars

(***************************************************************************)
(* An entry whose expiry is lost is not immortal, a crash strands no file  *)
(* for ever (persistent.rs:32): a sweep that no put and no other sweep     *)
(* overlapped leaves no body that is expired or undated, no sidecar        *)
(* without its body and no abandoned temporary, in whatever order it came  *)
(* across them and whatever crashes had left behind.                       *)
(***************************************************************************)
Clean(now) ==
    \A h \in Hashes:
        /\ FS!Exists(Body(h)) => Dated(h) /\ ~ExpiredAt(h, now)
        /\ FS!Exists(Exp(h)) => FS!Exists(Body(h))
        /\ ~Stray(h, now)

SweepCleans ==
    [][\A s \in Sweepers: PurgeEnd(s) /\ sweep[s].alone => Clean(sweep[s].now)]_vars

-----------------------------------------------------------------------------
(***************************************************************************)
(* What makes these inductive.  Whoever is at work has nothing open but    *)
(* the file it is writing, which for a put is the temporary, or the body   *)
(* if another put has renamed that under it.                               *)
(***************************************************************************)
Active(p) == put[p].at # "idle"

PutAtWork(p) ==
    /\ Active(p) => put[p].hash \in offered
    /\ \/ handle[p] = NoPath
       \/ put[p].at = "write" /\ handle[p] \in {Tmp(put[p].hash), Body(put[p].hash)}
       \/ put[p].at = "stamp" /\ handle[p] = Exp(put[p].hash)

Dating(s) == sweep[s].at \in {"date", "stamp"}

SweepAtWork(s) ==
    /\ sweep[s].at # "scan" => sweep[s].doomed = <<>>
    /\ Dating(s) => sweep[s].undated \in Hashes
    /\ \/ handle[s] = NoPath
       \/ sweep[s].at = "stamp" /\ handle[s] = Exp(sweep[s].undated)

GetAtWork(r) ==
    /\ get[r].at # "idle" <=> asked[r].answer = "pending"
    /\ get[r].at # "idle" => asked[r].hash \in Hashes

AtWork ==
    /\ \A p \in Putters: PutAtWork(p)
    /\ \A s \in Sweepers: SweepAtWork(s)
    /\ \A r \in Readers: GetAtWork(r)
    /\ \A h \in Hashes: FS!Exists(Body(h)) => h \in offered

\* A sweep that stayed alone has seen to every file, is about to, or has it in its list.
Cleaning(s, h) ==
    LET todo == sweep[s].todo  doomed == sweep[s].doomed  now == sweep[s].now
    IN  /\ FS!Exists(Tmp(h)) => Tmp(h) \in todo \/ doomed = <<Tmp(h)>> \/ ~Stray(h, now)
        /\ FS!Exists(Exp(h)) => \/ Exp(h) \in todo \/ FS!Exists(Body(h))
                                \/ doomed \in {<<Exp(h)>>, <<Body(h), Exp(h)>>}
        /\ FS!Exists(Body(h)) => \/ Body(h) \in todo \/ doomed = <<Body(h), Exp(h)>>
                                 \/ Dating(s) /\ sweep[s].undated = h
                                 \/ Dated(h) /\ ~ExpiredAt(h, now)
        /\ Body(h) \in todo => FS!Exists(Body(h)) /\ doomed # <<Body(h), Exp(h)>>
        /\ doomed = <<Exp(h)>> => ~FS!Exists(Body(h))

SweepsAlone ==
    \A s \in Sweepers: sweep[s].at # "idle" /\ sweep[s].alone =>
        /\ ~Putting /\ \A t \in Sweepers: sweep[t].at # "idle" => t = s
        /\ Dating(s) => FS!Exists(Body(sweep[s].undated))
        /\ sweep[s].at = "stamp" => handle[s] = Exp(sweep[s].undated)
        /\ \/ sweep[s].doomed = <<>>
           \/ \E h \in Hashes: sweep[s].doomed \in {<<Tmp(h)>>, <<Exp(h)>>, <<Body(h), Exp(h)>>}
        /\ \A h \in Hashes: Cleaning(s, h)

(***************************************************************************)
(* A put that has had its temporary to itself so far renames what is whole *)
(* or gone; the original of one that has not is shared, and only such an   *)
(* original's body may be less than whole.                                 *)
(***************************************************************************)
Writing(p) == put[p].at \in {"write", "rename"}

OwnTemporary(p) ==
    LET h == put[p].hash  tmp == Tmp(h)
    IN  Writing(p) =>
        IF put[p].sole
        THEN /\ \A q \in Putters: Writing(q) /\ put[q].hash = h => q = p
             /\ put[p].at = "write" => IF handle[p] = NoPath THEN ~FS!Exists(tmp)
                                                            ELSE handle[p] = tmp
             /\ put[p].at = "rename" => files[tmp] \in {NoFile, Whole}
        ELSE h \in shared

WholeBodies == \A h \in Hashes: h \notin shared => files[Body(h)] \in {NoFile, Whole}

NothingTorn == (\A p \in Putters: OwnTemporary(p)) /\ WholeBodies

(***************************************************************************)
(* What was promised is there, with no earlier expiry: a put in flight     *)
(* writes no earlier one, a put that promises met no sweep, and a sweep    *)
(* has doomed only what has run out, and dates what it finds undated later *)
(* than any promise made before it began.                                  *)
(***************************************************************************)
Owed(h) == EpochSecs(promised[h])

Kept ==
    \A h \in Hashes: Owed(h) > clock =>
        FS!Exists(Body(h)) /\ (Dated(h) => files[Exp(h)] >= Owed(h))

PutOwes(p) ==
    LET h == put[p].hash
    IN  Active(p) =>
        /\ promised[h] <= put[p].until /\ put[p].until <= clock + Ttl
        /\ put[p].unswept => /\ ~Sweeping
                             /\ put[p].at \in {"truncate", "stamp"} => FS!Exists(Body(h))
                             /\ put[p].at = "stamp" => handle[p] # NoPath

SweepSpares(s) ==
    sweep[s].at # "idle" =>
        /\ sweep[s].now <= clock
        /\ \A h \in Hashes: promised[h] <= sweep[s].now + Ttl
        /\ \A i \in DOMAIN sweep[s].doomed, h \in Hashes:
               sweep[s].doomed[i] \in {Body(h), Exp(h)} => Owed(h) <= clock

GetOwed(r) ==
    LET owed == asked[r].owed
    IN  /\ get[r].at # "idle" => owed <= promised[asked[r].hash]
        /\ get[r].at = "now" => EpochSecs(owed) <= clock \/ EpochSecs(owed) <= get[r].expiry

Retained ==
    /\ Kept
    /\ \A h \in Hashes: promised[h] <= clock + Ttl
    /\ \A p \in Putters: PutOwes(p)
    /\ \A s \in Sweepers: SweepSpares(s)
    /\ \A r \in Readers: GetOwed(r)

IInv == TypeOK /\ AtWork /\ SweepsAlone /\ NothingTorn /\ Retained

(***************************************************************************)
(* The store implements the contract of the trait CcrStore, its promises   *)
(* cut to whole seconds: what was promised is found.  That what is found   *)
(* is the whole original is what TornOnlyWhileShared is about.             *)
(***************************************************************************)
Seen(answer) == IF answer = "torn" THEN "found" ELSE answer

Promise == INSTANCE CcrPromise WITH
    held <- [h \in Hashes |-> EpochSecs(promised[h])],
    asked <- [r \in Readers |-> [asked[r] EXCEPT !.owed = EpochSecs(@), !.answer = Seen(@)]]

ImplementsPromise == Promise!Spec
=============================================================================
