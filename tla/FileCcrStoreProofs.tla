------------------------- MODULE FileCcrStoreProofs -------------------------
(***************************************************************************)
(* Theorems about FileCcrStore, for any originals, threads, ttl and bound  *)
(* on the clock.  Puts and sweeps die anywhere in all of them, and puts of *)
(* one original overlap one another, the lookups and the sweeps.           *)
(***************************************************************************)
EXTENDS FileCcrStore, WellFoundedInduction, TLAPS

USE TtlAssumption, RecoveryAssumption, ClockAssumption, NothingAssumption

-----------------------------------------------------------------------------
\* The whole seconds of a time: less than a second below it, and in its order.
LEMMA WholeSeconds ==
  ASSUME NEW t \in Nat
  PROVE  EpochSecs(t) \in Nat /\ EpochSecs(t) <= t /\ t < EpochSecs(t) + Second
  BY DEF EpochSecs

LEMMA InOrder ==
  ASSUME NEW s \in Nat, NEW t \in Nat, s <= t
  PROVE  EpochSecs(s) <= EpochSecs(t)
  BY DEF EpochSecs

\* A file is of one original and one kind.
LEMMA Apart ==
  ASSUME NEW g, NEW h
  PROVE  /\ Body(g) # Tmp(h) /\ Body(g) # Exp(h) /\ Tmp(g) # Exp(h)
         /\ (Body(g) = Body(h) <=> g = h) /\ (Tmp(g) = Tmp(h) <=> g = h)
         /\ (Exp(g) = Exp(h) <=> g = h)
  BY DEF Body, Tmp, Exp

LEMMA InDirectory ==
  ASSUME NEW h \in Hashes
  PROVE  Body(h) \in Paths /\ Tmp(h) \in Paths /\ Exp(h) \in Paths
  BY DEF Body, Tmp, Exp, Paths, Kinds

\* Some numbers have a smallest.
LEMMA SmallestExists ==
  ASSUME NEW S \in SUBSET Nat, S # {}
  PROVE  \E x \in S: \A y \in S: x <= y
  <1> DEFINE R == {ss \in Nat \X Nat: ss[1] < ss[2]}
  <1>1. IsWellFoundedOn(R, Nat)
    BY NatLessThanWellFounded DEF OpToRel
  <1>2. \A x, y \in Nat: <<y, x>> \notin R => x <= y
    OBVIOUS
  <1> HIDE DEF R
  <1>3. \E x \in S: \A y \in S: <<y, x>> \notin R
    BY <1>1, WFMin
  <1>4. QED
    BY <1>2, <1>3

\* The oldest put of an original in flight is one of them.
LEMMA OldestInFlight ==
  ASSUME TypeOK, NEW p \in Putters, Active(p)
  PROVE  /\ Oldest(put[p].hash) \in Nat
         /\ \A q \in PutsOf(put[p].hash): Oldest(put[p].hash) <= put[q].until
  <1> DEFINE h == put[p].hash
  <1>1. p \in PutsOf(h) /\ \A q \in PutsOf(h): put[q].until \in Nat
    BY DEF PutsOf, Active, TypeOK, Put
  <1>2. Expiries(h) \in SUBSET Nat /\ Expiries(h) # {}
    BY <1>1 DEF Expiries
  <1>3. \E at \in Expiries(h): \A other \in Expiries(h): at <= other
    BY <1>2, SmallestExists
  <1>4. Oldest(h) \in Expiries(h) /\ \A other \in Expiries(h): Oldest(h) <= other
    BY <1>3 DEF Oldest
  <1>5. QED
    BY <1>2, <1>4 DEF Expiries

\* A put that returns takes nothing back, and adds at most what every put of its
\* original in flight will have written.
LEMMA PromisedIs ==
  ASSUME TypeOK, NEW p \in Putters, Active(p), put[p].hash \in Hashes
  PROVE  /\ Promised(p) \in Nat /\ Promised(p) >= promised[put[p].hash]
         /\ \/ Promised(p) = promised[put[p].hash]
            \/ /\ put[p].unswept
               /\ \A q \in PutsOf(put[p].hash): Promised(p) <= put[q].until
  <1>1. promised[put[p].hash] \in Nat
    BY DEF TypeOK
  <1>2. QED
    BY <1>1, OldestInFlight DEF Promised

-----------------------------------------------------------------------------
(***************************************************************************)
(* Type correctness                                                        *)
(***************************************************************************)
Contents == Nat \cup {NoFile}
Places == Paths \cup {NoPath}

DirectoryOK ==
  files \in [Paths -> Contents] /\ modified \in [Hashes -> Nat] /\ handle \in [Actors -> Places]

LEMMA CreateOK ==
  ASSUME DirectoryOK, NEW a \in Actors, NEW p \in Paths, NEW text \in Contents, FS!Create(a, p, text)
  PROVE  files' \in [Paths -> Contents] /\ handle' \in [Actors -> Places]
  BY DEF DirectoryOK, FS!Create, Places

LEMMA WriteOK ==
  ASSUME DirectoryOK, NEW a \in Actors, NEW text \in Contents, FS!WriteAndClose(a, text)
  PROVE  files' \in [Paths -> Contents] /\ handle' \in [Actors -> Places]
  BY DEF DirectoryOK, FS!WriteAndClose, Places

LEMMA CloseOK ==
  ASSUME DirectoryOK, NEW a \in Actors, FS!Close(a)
  PROVE  files' \in [Paths -> Contents] /\ handle' \in [Actors -> Places]
  BY DEF DirectoryOK, FS!Close, Places

LEMMA MovedOK ==
  ASSUME DirectoryOK, NEW p, NEW q \in Places, handle' = FS!HandlesMoved(p, q)
  PROVE  handle' \in [Actors -> Places]
  BY DEF DirectoryOK, FS!HandlesMoved, Places

LEMMA RenameOK ==
  ASSUME DirectoryOK, NEW p \in Paths, NEW q \in Paths, FS!Rename(p, q)
  PROVE  files' \in [Paths -> Contents] /\ handle' \in [Actors -> Places]
  <1>1. handle' \in [Actors -> Places]
    BY MovedOK DEF FS!Rename, Places
  <1>2. QED
    BY <1>1 DEF DirectoryOK, FS!Rename, Contents

LEMMA UnlinkOK ==
  ASSUME DirectoryOK, NEW p \in Paths, FS!Unlink(p)
  PROVE  files' \in [Paths -> Contents] /\ handle' \in [Actors -> Places]
  <1>1. handle' \in [Actors -> Places]
    BY MovedOK DEF FS!Unlink, Places
  <1>2. QED
    BY <1>1 DEF DirectoryOK, FS!Unlink, Contents

LEMMA InitTypeOK == Init => TypeOK
  BY DEF Init, TypeOK, Put, NoPut, PutSteps, Get, NoGet, GetSteps, Sweep, NoSweep, SweepSteps,
         Lookup, Answers

\* Whoever is in the middle of a put or a get knows of what.
LEMMA KnownOriginal ==
  ASSUME TypeOK, AtWork
  PROVE  /\ \A p \in Putters: Active(p) => put[p].hash \in Hashes
         /\ \A r \in Readers: get[r].at # "idle" => asked[r].hash \in Hashes
  BY DEF TypeOK, AtWork, PutAtWork, GetAtWork

LEMMA Remembering ==
  /\ \A one \in Put: [one EXCEPT !.sole = FALSE] \in Put
  /\ \A one \in Put: [one EXCEPT !.unswept = FALSE] \in Put
  /\ \A one \in Sweep: [one EXCEPT !.alone = FALSE] \in Sweep
  <1>1. ASSUME NEW one \in Put
        PROVE  [one EXCEPT !.sole = FALSE] \in Put /\ [one EXCEPT !.unswept = FALSE] \in Put
    BY DEF Put
  <1>2. ASSUME NEW one \in Sweep
        PROVE  [one EXCEPT !.alone = FALSE] \in Sweep
    BY DEF Sweep
  <1>3. QED
    BY <1>1, <1>2

\* Creating the temporary changes of the puts only who has it.
LEMMA WhoWrites ==
  ASSUME TypeOK, NEW p \in Putters, put[p].at = "create", Created(p)
  PROVE  /\ put' \in [Putters -> Put]
         /\ put'[p].at = "write" /\ put'[p].sole = (WritersOf(put[p].hash) = {})
         /\ \A q \in Putters: /\ put'[q].hash = put[q].hash /\ put'[q].until = put[q].until
                             /\ put'[q].unswept = put[q].unswept
         /\ \A q \in Putters \ {p}: put'[q].at = put[q].at
         /\ \A q \in Putters \ {p}:
                put'[q].sole = (put[q].sole /\ q \notin WritersOf(put[p].hash))
  <1> DEFINE others == WritersOf(put[p].hash)
  <1>1. \A q \in Putters: put[q] \in Put
    BY DEF TypeOK
  <1>2. /\ put' = [q \in Putters |->
                     IF q = p THEN [put[p] EXCEPT !.at = "write", !.sole = (others = {})]
                     ELSE IF q \in others THEN [put[q] EXCEPT !.sole = FALSE]
                     ELSE put[q]]
    BY DEF Created
  <1> HIDE DEF others
  <1>3. [put[p] EXCEPT !.at = "write", !.sole = (others = {})] \in Put
    BY <1>1 DEF Put, PutSteps
  <1>4. put' \in [Putters -> Put]
    BY <1>1, <1>2, <1>3, Remembering
  <1>5. /\ put'[p].at = "write" /\ put'[p].sole = (others = {}) /\ put'[p].hash = put[p].hash
        /\ put'[p].until = put[p].until /\ put'[p].unswept = put[p].unswept
    BY <1>1, <1>2 DEF Put
  <1>6. ASSUME NEW q \in Putters \ {p}
        PROVE  /\ put'[q].hash = put[q].hash /\ put'[q].until = put[q].until
               /\ put'[q].unswept = put[q].unswept /\ put'[q].at = put[q].at
               /\ put'[q].sole = (put[q].sole /\ q \notin others)
    <2>1. put[q] \in Put /\ put[q].sole \in BOOLEAN
      BY <1>1 DEF Put
    <2>2. put'[q] = IF q \in others THEN [put[q] EXCEPT !.sole = FALSE] ELSE put[q]
      BY <1>2
    <2>3. CASE q \in others
      BY <2>1, <2>2, <2>3 DEF Put
    <2>4. CASE q \notin others
      BY <2>1, <2>2, <2>4
    <2>5. QED
      BY <2>3, <2>4
  <1>7. QED
    BY <1>4, <1>5, <1>6 DEF others

LEMMA PutTypes ==
  ASSUME TypeOK, AtWork, NEW p \in Putters,
         PutStep(p) \/ PutAbort(p) \/ (\E h \in Hashes: PutBegin(p, h))
  PROVE  TypeOK'
  <1> DEFINE h == put[p].hash
  <1>a. /\ DirectoryOK /\ p \in Actors /\ put[p] \in Put /\ clock \in Nat
        /\ promised \in [Hashes -> Nat] /\ shared \subseteq Hashes
    BY DEF TypeOK, DirectoryOK, Contents, Places, Actors
  <1>b. ASSUME files' \in [Paths -> Contents], modified' \in [Hashes -> Nat],
               handle' \in [Actors -> Places], put' \in [Putters -> Put],
               promised' \in [Hashes -> Nat], shared' \subseteq Hashes,
               UNCHANGED <<clock, get, sweep, offered, asked>>
        PROVE  TypeOK'
    BY <1>b DEF TypeOK, Contents, Places
  <1>c. ASSUME NEW step \in PutSteps
        PROVE  [put EXCEPT ![p].at = step] \in [Putters -> Put]
    BY <1>a DEF TypeOK, Put
  <1>d. [put EXCEPT ![p] = NoPut] \in [Putters -> Put]
    BY DEF TypeOK, Put, NoPut, PutSteps
  <1>e. modified \in [Hashes -> Nat]
    BY DEF TypeOK
  <1>f. Empty \in Contents /\ Whole \in Contents
    BY DEF Empty, Whole, Contents
  <1>1. ASSUME NEW g \in Hashes, PutBegin(p, g)
        PROVE  TypeOK'
    <2>1. [at |-> "create", hash |-> g, until |-> clock + Ttl, sole |-> FALSE,
           unswept |-> ~Sweeping] \in Put
      BY <1>a DEF Put, PutSteps
    <2>2. \A s \in Sweepers: [sweep[s] EXCEPT !.alone = FALSE] \in Sweep
      BY Remembering DEF TypeOK
    <2>3. put' \in [Putters -> Put] /\ sweep' \in [Sweepers -> Sweep]
      BY <1>1, <2>1, <2>2 DEF PutBegin, TypeOK
    <2>4. /\ UNCHANGED <<clock, directory, get, shared, promised, asked>>
          /\ offered' = offered \cup {g}
      BY <1>1 DEF PutBegin
    <2>5. QED
      BY <2>3, <2>4 DEF TypeOK, directory
  <1>2. CASE PutCreate(p)
    <2>1. h \in Hashes
      BY <1>2, KnownOriginal DEF PutCreate, Active
    <2>2. files' \in [Paths -> Contents] /\ handle' \in [Actors -> Places]
      BY <1>2, <1>a, <1>f, <2>1, CreateOK, InDirectory DEF PutCreate
    <2>3. modified' \in [Hashes -> Nat] /\ shared' \subseteq Hashes
      BY <1>2, <1>a, <1>e, <2>1 DEF PutCreate, Created
    <2>4. put' \in [Putters -> Put]
      BY <1>2, WhoWrites DEF PutCreate
    <2>5. QED
      BY <1>2, <1>a, <1>b, <2>2, <2>3, <2>4 DEF PutCreate
  <1>3. CASE PutWrite(p)
    <2>1. files' \in [Paths -> Contents] /\ handle' \in [Actors -> Places]
      BY <1>3, <1>a, <1>f, WriteOK DEF PutWrite
    <2>2. modified' \in [Hashes -> Nat]
      BY <1>3, <1>a, <1>e DEF PutWrite
    <2>3. QED
      BY <1>3, <1>a, <1>b, <1>c, <2>1, <2>2 DEF PutWrite, history, PutSteps
  <1>4. CASE PutRename(p)
    <2>1. h \in Hashes
      BY <1>4, KnownOriginal DEF PutRename, Active
    <2>2. files' \in [Paths -> Contents] /\ handle' \in [Actors -> Places]
      BY <1>4, <1>a, <2>1, RenameOK, InDirectory DEF PutRename
    <2>3. modified' \in [Hashes -> Nat] /\ shared' \subseteq Hashes
      BY <1>4, <1>a, <1>e DEF PutRename
    <2>4. put' \in [Putters -> Put]
      BY <1>4, <1>a DEF PutRename, TypeOK, Put, PutSteps
    <2>5. QED
      BY <1>4, <1>a, <1>b, <2>2, <2>3, <2>4 DEF PutRename
  <1>5. CASE PutRenameFails(p)
    BY <1>5, <1>a, <1>b, <1>d, <1>e DEF PutRenameFails, DirectoryOK, directory, history
  <1>6. CASE PutTruncateSidecar(p)
    <2>1. h \in Hashes
      BY <1>6, KnownOriginal DEF PutTruncateSidecar, Active
    <2>2. files' \in [Paths -> Contents] /\ handle' \in [Actors -> Places]
      BY <1>6, <1>a, <1>f, <2>1, CreateOK, InDirectory DEF PutTruncateSidecar
    <2>3. QED
      BY <1>6, <1>a, <1>b, <1>c, <1>e, <2>2 DEF PutTruncateSidecar, history, PutSteps
  <1>7. CASE PutStamp(p)
    <2>1. put[p].until \in Nat /\ h \in Hashes /\ Active(p)
      BY <1>7, <1>a, KnownOriginal DEF Put, PutStamp, Active
    <2>2. EpochSecs(put[p].until) \in Contents
      BY <2>1, WholeSeconds DEF Contents
    <2>3. files' \in [Paths -> Contents] /\ handle' \in [Actors -> Places]
      BY <1>7, <1>a, <2>2, WriteOK DEF PutStamp
    <2>4. promised' \in [Hashes -> Nat]
      BY <1>7, <1>a, <2>1, PromisedIs DEF PutStamp
    <2>5. QED
      BY <1>7, <1>a, <1>b, <1>d, <1>e, <2>3, <2>4 DEF PutStamp
  <1>8. CASE PutAbort(p)
    <2>1. files' \in [Paths -> Contents] /\ handle' \in [Actors -> Places]
      BY <1>8, <1>a, CloseOK DEF PutAbort
    <2>2. QED
      BY <1>8, <1>a, <1>b, <1>d, <1>e, <2>1 DEF PutAbort, history
  <1>9. QED
    BY <1>1, <1>2, <1>3, <1>4, <1>5, <1>6, <1>7, <1>8 DEF PutStep

\* What answering a lookup writes down.
LEMMA Answered ==
  ASSUME TypeOK, NEW r \in Readers, NEW answer, AnswerWith(r, answer)
  PROVE  /\ asked'[r] = [asked[r] EXCEPT !.answer = answer, !.at = clock]
         /\ asked'[r].answer = answer /\ asked'[r].hash = asked[r].hash
         /\ asked'[r].owed = asked[r].owed /\ asked'[r].at = clock
  <1>1. asked[r] \in Lookup /\ asked'[r] = [asked[r] EXCEPT !.answer = answer, !.at = clock]
    BY DEF AnswerWith, TypeOK
  <1>2. QED
    BY <1>1 DEF Lookup

LEMMA GetTypes ==
  ASSUME TypeOK, AtWork, NEW r \in Readers, GetStep(r) \/ (\E h \in Hashes: GetBegin(r, h))
  PROVE  TypeOK'
  <1>a. UNCHANGED <<clock, directory, put, sweep, history>>
    BY DEF GetStep, GetBegin, GetExists, GetExpiry, GetNow, GetBody, GetFails
  <1>b. ASSUME get' \in [Readers -> Get], asked' \in [Readers -> Lookup]
        PROVE  TypeOK'
    BY <1>a, <1>b DEF TypeOK, directory, history
  <1>c. ASSUME NEW answer \in Answers, AnswerWith(r, answer)
        PROVE  TypeOK'
    <2>1. asked[r] \in Lookup /\ clock \in Nat
      BY DEF TypeOK
    <2>2. [asked[r] EXCEPT !.answer = answer, !.at = clock] \in Lookup
      BY <2>1 DEF Lookup
    <2>3. get' \in [Readers -> Get] /\ asked' \in [Readers -> Lookup]
      BY <1>c, <2>2 DEF AnswerWith, TypeOK, Get, GetSteps, NoGet
    <2>4. QED
      BY <1>b, <2>3
  <1>d. ASSUME NEW step \in GetSteps, NEW expiry \in Nat, GoOn(r, step, expiry)
        PROVE  TypeOK'
    BY <1>b, <1>d DEF TypeOK, GoOn, Get
  <1>1. ASSUME NEW h \in Hashes, GetBegin(r, h)
        PROVE  TypeOK'
    <2>1. [hash |-> h, owed |-> promised[h], answer |-> "pending", at |-> clock] \in Lookup
      BY DEF Lookup, Answers, TypeOK
    <2>2. QED
      BY <1>1, <1>b, <2>1 DEF GetBegin, TypeOK, Get, GetSteps
  <1>2. CASE GetExists(r)
    BY <1>2, <1>c, <1>d DEF GetExists, Answers, GetSteps
  <1>3. CASE GetExpiry(r)
    <2>1. CASE Dated(asked[r].hash)
      <3>1. asked[r].hash \in Hashes /\ files \in [Paths -> Contents]
        BY <1>3, KnownOriginal DEF TypeOK, Contents, GetExpiry
      <3>2. files[Exp(asked[r].hash)] # NoFile /\ GoOn(r, "now", files[Exp(asked[r].hash)])
        BY <1>3, <2>1 DEF GetExpiry, Dated, FS!Exists
      <3>3. files[Exp(asked[r].hash)] \in Nat
        BY <3>1, <3>2, InDirectory DEF Contents
      <3>4. QED
        BY <1>d, <3>2, <3>3 DEF GetSteps
    <2>2. CASE ~Dated(asked[r].hash)
      BY <1>3, <1>d, <2>2 DEF GetExpiry, GetSteps
    <2>3. QED
      BY <2>1, <2>2
  <1>4. CASE GetNow(r)
    BY <1>4, <1>c, <1>d DEF GetNow, Answers, GetSteps
  <1>5. CASE GetBody(r)
    BY <1>5, <1>c DEF GetBody, Answers
  <1>6. CASE GetFails(r)
    BY <1>6, <1>c DEF GetFails, Answers
  <1>7. QED
    BY <1>1, <1>2, <1>3, <1>4, <1>5, <1>6 DEF GetStep

LEMMA PurgeTypes ==
  ASSUME TypeOK, AtWork, NEW s \in Sweepers, PurgeBegin(s) \/ PurgeStep(s) \/ PurgeCrash(s)
  PROVE  TypeOK'
  <1> DEFINE one == sweep[s]
  <1>a. DirectoryOK /\ s \in Actors /\ one \in Sweep /\ clock \in Nat
    BY DEF TypeOK, DirectoryOK, Contents, Places, Actors
  <1>b. ASSUME files' \in [Paths -> Contents], modified' \in [Hashes -> Nat],
               handle' \in [Actors -> Places], sweep' \in [Sweepers -> Sweep],
               put' \in [Putters -> Put], UNCHANGED <<clock, get, history, asked>>
        PROVE  TypeOK'
    BY <1>b DEF TypeOK, Contents, Places, history
  <1>c. ASSUME NEW new \in Sweep
        PROVE  [sweep EXCEPT ![s] = new] \in [Sweepers -> Sweep]
    BY DEF TypeOK
  <1>d. /\ one.now \in Nat /\ one.todo \subseteq Paths /\ one.doomed \in Seq(Paths)
        /\ put \in [Putters -> Put] /\ NoSweep \in Sweep
    BY <1>a DEF TypeOK, Sweep, NoSweep, SweepSteps
  <1>e. files \in [Paths -> Contents] /\ modified \in [Hashes -> Nat] /\ handle \in [Actors -> Places]
    BY <1>a DEF DirectoryOK
  <1>f. ASSUME NEW path \in Paths, NEW doomed \in Seq(Paths), Decide(s, path, doomed)
        PROVE  TypeOK'
    <2>1. [one EXCEPT !.todo = one.todo \ {path}, !.doomed = doomed] \in Sweep
      BY <1>a DEF Sweep
    <2>2. sweep' = [sweep EXCEPT ![s] = [one EXCEPT !.todo = one.todo \ {path}, !.doomed = doomed]]
      BY <1>f DEF Decide
    <2>3. sweep' \in [Sweepers -> Sweep]
      BY <1>c, <2>1, <2>2
    <2>4. QED
      BY <1>b, <1>d, <1>e, <1>f, <2>3 DEF Decide, directory
  <1>g. Empty \in Contents
    BY DEF Empty, Contents
  <1>1. CASE PurgeBegin(s)
    <2>1. [at |-> "scan", now |-> clock, doomed |-> <<>>, todo |-> {p \in Paths: FS!Exists(p)},
           undated |-> NoHash, alone |-> ~Putting /\ ~Sweeping] \in Sweep
      BY <1>a DEF Sweep, SweepSteps
    <2>2. \A t \in Sweepers: [sweep[t] EXCEPT !.alone = FALSE] \in Sweep
      BY Remembering DEF TypeOK
    <2>3. \A p \in Putters: [put[p] EXCEPT !.unswept = FALSE] \in Put
      BY Remembering DEF TypeOK
    <2>4. put' \in [Putters -> Put] /\ sweep' \in [Sweepers -> Sweep]
      BY <1>1, <2>1, <2>2, <2>3 DEF PurgeBegin
    <2>5. QED
      BY <1>1, <1>b, <1>e, <2>4 DEF PurgeBegin, directory
  <1>2. ASSUME NEW h \in Hashes, PurgeTemporary(s, h) \/ PurgeSidecar(s, h) \/ PurgeDated(s, h)
        PROVE  TypeOK'
    <2>1. /\ Body(h) \in Paths /\ Tmp(h) \in Paths /\ Exp(h) \in Paths
      BY InDirectory
    <2>2. /\ <<Tmp(h)>> \in Seq(Paths) /\ <<Exp(h)>> \in Seq(Paths)
          /\ <<Body(h), Exp(h)>> \in Seq(Paths) /\ <<>> \in Seq(Paths)
      BY <2>1
    <2>3. QED
      BY <1>2, <1>f, <2>1, <2>2 DEF PurgeTemporary, PurgeSidecar, PurgeDated
  <1>3. ASSUME NEW h \in Hashes, PurgeUndated(s, h)
        PROVE  TypeOK'
    <2>1. [one EXCEPT !.todo = one.todo \ {Body(h)}, !.at = "date", !.undated = h] \in Sweep
      BY <1>a DEF Sweep, SweepSteps
    <2>2. sweep' = [sweep EXCEPT ![s] = [one EXCEPT !.todo = one.todo \ {Body(h)},
                                                    !.at = "date", !.undated = h]]
      BY <1>3 DEF PurgeUndated
    <2>3. sweep' \in [Sweepers -> Sweep]
      BY <1>c, <2>1, <2>2
    <2>4. QED
      BY <1>3, <1>b, <1>d, <1>e, <2>3 DEF PurgeUndated, directory
  <1>4. CASE PurgeTruncateSidecar(s)
    <2>1. one.undated \in Hashes
      BY <1>4 DEF PurgeTruncateSidecar, AtWork, SweepAtWork, Dating
    <2>2. files' \in [Paths -> Contents] /\ handle' \in [Actors -> Places]
      BY <1>4, <1>a, <1>g, <2>1, CreateOK, InDirectory DEF PurgeTruncateSidecar
    <2>3. [one EXCEPT !.at = "stamp"] \in Sweep
      BY <1>a DEF Sweep, SweepSteps
    <2>4. QED
      BY <1>4, <1>b, <1>c, <1>d, <1>e, <2>2, <2>3 DEF PurgeTruncateSidecar
  <1>5. CASE PurgeStamp(s)
    <2>1. EpochSecs(one.now + RecoveryTtl) \in Contents
      <3>1. one.now + RecoveryTtl \in Nat
        BY <1>d
      <3>2. QED
        BY <3>1, WholeSeconds DEF Contents
    <2>2. files' \in [Paths -> Contents] /\ handle' \in [Actors -> Places]
      BY <1>5, <1>a, <2>1, WriteOK DEF PurgeStamp
    <2>3. [one EXCEPT !.at = "scan", !.undated = NoHash] \in Sweep
      BY <1>a DEF Sweep, SweepSteps
    <2>4. sweep' = [sweep EXCEPT ![s] = [one EXCEPT !.at = "scan", !.undated = NoHash]]
      BY <1>5 DEF PurgeStamp, TypeOK
    <2>5. QED
      BY <1>5, <1>b, <1>c, <1>d, <1>e, <2>2, <2>3, <2>4 DEF PurgeStamp
  <1>6. CASE PurgeRemove(s)
    <2>1. Head(one.doomed) \in Paths /\ Tail(one.doomed) \in Seq(Paths)
      BY <1>6, <1>d DEF PurgeRemove
    <2>2. files' \in [Paths -> Contents] /\ handle' \in [Actors -> Places]
      BY <1>6, <1>a, <2>1, UnlinkOK DEF PurgeRemove
    <2>3. [one EXCEPT !.doomed = Tail(@)] \in Sweep
      BY <1>a, <2>1 DEF Sweep
    <2>4. modified' \in [Hashes -> Nat]
      BY <1>6, <1>e DEF PurgeRemove
    <2>5. QED
      BY <1>6, <1>b, <1>c, <1>d, <2>2, <2>3, <2>4 DEF PurgeRemove
  <1>7. CASE PurgeEnd(s)
    BY <1>7, <1>b, <1>c, <1>d, <1>e DEF PurgeEnd, directory
  <1>8. CASE PurgeCrash(s)
    <2>1. files' \in [Paths -> Contents] /\ handle' \in [Actors -> Places]
      BY <1>8, <1>a, CloseOK DEF PurgeCrash
    <2>2. QED
      BY <1>8, <1>b, <1>c, <1>d, <1>e, <2>1 DEF PurgeCrash
  <1>9. QED
    BY <1>1, <1>2, <1>3, <1>4, <1>5, <1>6, <1>7, <1>8 DEF PurgeStep

LEMMA NextTypeOK == TypeOK /\ AtWork /\ [Next]_vars => TypeOK'
  <1> SUFFICES ASSUME TypeOK, AtWork, [Next]_vars
               PROVE  TypeOK'
    OBVIOUS
  <1>1. CASE Tick
    BY <1>1 DEF Tick, TypeOK, directory, history
  <1>2. CASE UNCHANGED vars
    BY <1>2 DEF vars, TypeOK
  <1>3. QED
    BY <1>1, <1>2, PutTypes, GetTypes, PurgeTypes DEF Next

-----------------------------------------------------------------------------
(***************************************************************************)
(* Who has what open                                                       *)
(***************************************************************************)
\* What becomes of the handles when a file moves from p to q, or goes.
LEMMA WhereHandlesAre ==
  ASSUME NEW p, NEW q, NEW a \in Actors, handle' = FS!HandlesMoved(p, q)
  PROVE  handle'[a] = handle[a] \/ handle'[a] = NoPath \/ (handle[a] = p /\ handle'[a] = q)
  BY DEF FS!HandlesMoved

\* A sweep, or a put, that somebody else's step left where it was.
SameSweep(s) ==
  /\ sweep'[s].at = sweep[s].at /\ sweep'[s].doomed = sweep[s].doomed
  /\ sweep'[s].undated = sweep[s].undated
SamePut(p) == put'[p].at = put[p].at /\ put'[p].hash = put[p].hash

\* Everybody but p goes on with what it had.
LEMMA WhileOnePuts ==
  ASSUME TypeOK, AtWork, NEW p \in Putters, UNCHANGED <<get, asked>>, offered \subseteq offered',
         PutAtWork(p)',
         \A a \in Actors \ {p} : \/ handle'[a] = handle[a] \/ handle'[a] = NoPath
                                 \/ \E h \in Hashes : handle[a] = Tmp(h) /\ handle'[a] = Body(h),
         \A q \in Putters \ {p} : SamePut(q),
         \A s \in Sweepers : SameSweep(s),
         \A h \in Hashes : FS!Exists(Body(h))' => h \in offered'
  PROVE  AtWork'
  <1>1. ASSUME NEW q \in Putters \ {p}
        PROVE  PutAtWork(q)'
    <2>1. PutAtWork(q) /\ q \in Actors \ {p}
      BY DEF AtWork, Actors
    <2>2. put'[q].at = put[q].at /\ put'[q].hash = put[q].hash
      BY DEF SamePut
    <2>3. ASSUME NEW h \in Hashes, handle[q] = Tmp(h), handle'[q] = Body(h)
          PROVE  put[q].at = "write" /\ handle'[q] = Body(put[q].hash)
      <3>1. handle[q] # NoPath
        BY <2>3, InDirectory, PathAssumption
      <3>2. QED
        BY <2>1, <2>3, <3>1, Apart DEF PutAtWork
    <2>4. QED
      BY <2>1, <2>2, <2>3 DEF PutAtWork, Active
  <1>2. ASSUME NEW s \in Sweepers
        PROVE  SweepAtWork(s)'
    <2>1. SweepAtWork(s) /\ s \in Actors \ {p}
      BY ActorsDiffer DEF AtWork, Actors
    <2>2. \A h \in Hashes : handle[s] # Tmp(h)
      BY <2>1, Apart, InDirectory, PathAssumption DEF SweepAtWork, Dating
    <2>3. SameSweep(s)
      OBVIOUS
    <2>4. QED
      BY <2>1, <2>2, <2>3 DEF SweepAtWork, SameSweep, Dating
  <1>3. QED
    BY <1>1, <1>2 DEF AtWork, GetAtWork

LEMMA WhileOneSweeps ==
  ASSUME TypeOK, AtWork, NEW s \in Sweepers, UNCHANGED <<get, asked, offered>>, SweepAtWork(s)',
         \A a \in Actors \ {s} : handle'[a] = handle[a] \/ handle'[a] = NoPath,
         \A p \in Putters : SamePut(p),
         \A t \in Sweepers \ {s} : SameSweep(t),
         \A h \in Hashes : files'[Body(h)] = files[Body(h)] \/ files'[Body(h)] = NoFile
  PROVE  AtWork'
  <1>1. ASSUME NEW p \in Putters
        PROVE  PutAtWork(p)'
    <2>1. PutAtWork(p) /\ p \in Actors \ {s}
      BY ActorsDiffer DEF AtWork, Actors
    <2>2. put'[p].at = put[p].at /\ put'[p].hash = put[p].hash
      BY DEF SamePut
    <2>3. QED
      BY <2>1, <2>2 DEF PutAtWork, Active
  <1>2. ASSUME NEW t \in Sweepers \ {s}
        PROVE  SweepAtWork(t)'
    <2>1. SweepAtWork(t) /\ t \in Actors \ {s}
      BY DEF AtWork, Actors
    <2>2. SameSweep(t)
      OBVIOUS
    <2>3. QED
      BY <2>1, <2>2 DEF SweepAtWork, SameSweep, Dating
  <1>3. QED
    BY <1>1, <1>2 DEF AtWork, GetAtWork, FS!Exists

\* What is written and closed changes no file but the one the actor had open.
LEMMA OneFileWritten ==
  ASSUME TypeOK, NEW a \in Actors, NEW text, FS!WriteAndClose(a, text)
  PROVE  /\ \A path \in Paths : files'[path] = IF handle[a] = path THEN text ELSE files[path]
         /\ handle'[a] = NoPath /\ \A b \in Actors \ {a} : handle'[b] = handle[b]
  BY DEF TypeOK, FS!WriteAndClose

LEMMA OneFileCreated ==
  ASSUME TypeOK, NEW a \in Actors, NEW path \in Paths, NEW text, FS!Create(a, path, text)
  PROVE  /\ \A other \in Paths : files'[other] = IF other = path THEN text ELSE files[other]
         /\ handle'[a] = path /\ \A b \in Actors \ {a} : handle'[b] = handle[b]
  BY DEF TypeOK, FS!Create

LEMMA OneFileRenamed ==
  ASSUME TypeOK, NEW p \in Paths, NEW q \in Paths, p # q, FS!Rename(p, q)
  PROVE  /\ files[p] # NoFile /\ files'[q] = files[p] /\ files'[p] = NoFile
         /\ \A path \in Paths \ {p, q} : files'[path] = files[path]
         /\ \A a \in Actors : \/ handle'[a] = handle[a] \/ handle'[a] = NoPath
                              \/ handle[a] = p /\ handle'[a] = q
         /\ \A a \in Actors : handle[a] \notin {p, q} => handle'[a] = handle[a]
  BY DEF TypeOK, FS!Rename, FS!HandlesMoved, FS!Exists

LEMMA OneFileRemoved ==
  ASSUME TypeOK, NEW p \in Paths, FS!Unlink(p)
  PROVE  /\ files'[p] = NoFile /\ \A path \in Paths \ {p} : files'[path] = files[path]
         /\ \A a \in Actors : handle'[a] = IF handle[a] = p THEN NoPath ELSE handle[a]
  BY DEF TypeOK, FS!Unlink, FS!HandlesMoved

LEMMA PutsAtWork ==
  ASSUME TypeOK, AtWork, NEW p \in Putters,
         PutStep(p) \/ PutAbort(p) \/ (\E h \in Hashes: PutBegin(p, h))
  PROVE  AtWork'
  <1> DEFINE h == put[p].hash
  <1>a. p \in Actors /\ PutAtWork(p) /\ put[p] \in Put
    BY DEF TypeOK, AtWork, Actors
  <1>b. \A g \in Hashes : FS!Exists(Body(g)) => g \in offered
    BY DEF AtWork
  <1>c. Active(p) => h \in Hashes /\ h \in offered
    BY <1>a, KnownOriginal DEF PutAtWork
  <1>1. ASSUME NEW g \in Hashes, PutBegin(p, g)
        PROVE  AtWork'
    <2>1. /\ UNCHANGED <<directory, get, asked>> /\ offered' = offered \cup {g} /\ put[p].at = "idle"
          /\ put'[p].at = "create" /\ put'[p].hash = g
          /\ \A q \in Putters \ {p} : put'[q] = put[q]
      BY <1>1 DEF PutBegin, TypeOK
    <2>2. PutAtWork(p)'
      BY <1>a, <2>1 DEF PutAtWork, Active, directory
    <2>3. \A s \in Sweepers : SameSweep(s)
      BY <1>1 DEF PutBegin, TypeOK, Sweep, SameSweep
    <2>4. QED
      BY <1>b, <2>1, <2>2, <2>3, WhileOnePuts DEF SamePut, directory, FS!Exists
  <1>d. ASSUME PutStep(p) \/ PutAbort(p)
        PROVE  /\ UNCHANGED <<get, asked, sweep, offered>>
               /\ \A q \in Putters \ {p} : SamePut(q)
               /\ Active(p)
    <2>1. UNCHANGED <<get, asked, sweep, offered>> /\ Active(p)
      BY <1>d DEF PutStep, PutCreate, PutWrite, PutRename, PutRenameFails, PutTruncateSidecar,
                  PutStamp, PutAbort, Active, history
    <2>2. CASE PutCreate(p)
      BY <2>1, <2>2, WhoWrites DEF PutCreate, SamePut
    <2>3. CASE ~PutCreate(p)
      <3>1. PICK new : put' = [put EXCEPT ![p] = new]
        BY <1>d, <2>3 DEF PutStep, PutWrite, PutRename, PutRenameFails, PutTruncateSidecar,
                          PutStamp, PutAbort
      <3>2. QED
        BY <2>1, <3>1 DEF SamePut, TypeOK
    <2>4. QED
      BY <2>1, <2>2, <2>3
  <1>e. ASSUME PutStep(p) \/ PutAbort(p), PutAtWork(p)',
               \A a \in Actors \ {p} : \/ handle'[a] = handle[a] \/ handle'[a] = NoPath
                                       \/ \E g \in Hashes : handle[a] = Tmp(g) /\ handle'[a] = Body(g),
               \A g \in Hashes : FS!Exists(Body(g))' => FS!Exists(Body(g)) \/ g = h
        PROVE  AtWork'
    BY <1>b, <1>c, <1>d, <1>e, WhileOnePuts DEF SameSweep
  <1>f. ASSUME PutStep(p) \/ PutAbort(p), handle'[p] = NoPath, put' = [put EXCEPT ![p] = NoPut]
        PROVE  PutAtWork(p)'
    BY <1>f DEF PutAtWork, Active, NoPut, TypeOK
  <1>g. ASSUME PutStep(p), NEW step, put' = [put EXCEPT ![p].at = step]
        PROVE  put'[p].at = step /\ put'[p].hash = h
    BY <1>a, <1>g DEF TypeOK, Put
  <1>2. CASE PutCreate(p)
    <2>1. h \in Hashes
      BY <1>2, <1>c DEF PutCreate, Active
    <2>2. /\ \A other \in Paths : files'[other] = IF other = Tmp(h) THEN Empty ELSE files[other]
          /\ handle'[p] = Tmp(h) /\ \A b \in Actors \ {p} : handle'[b] = handle[b]
      BY <1>2, <1>a, <2>1, OneFileCreated, InDirectory DEF PutCreate
    <2>3. put'[p].at = "write" /\ put'[p].hash = h
      BY <1>2, WhoWrites DEF PutCreate
    <2>4. PutAtWork(p)'
      BY <1>2, <1>c, <1>d, <2>2, <2>3 DEF PutStep, PutAtWork, Active
    <2>5. \A g \in Hashes : FS!Exists(Body(g))' => FS!Exists(Body(g)) \/ g = h
      BY <2>1, <2>2, InDirectory, Apart DEF FS!Exists
    <2>6. QED
      BY <1>2, <1>e, <2>2, <2>4, <2>5 DEF PutStep
  <1>3. CASE PutWrite(p)
    <2>1. /\ \A path \in Paths : files'[path] = IF handle[p] = path THEN Whole ELSE files[path]
          /\ handle'[p] = NoPath /\ \A b \in Actors \ {p} : handle'[b] = handle[b]
      BY <1>3, <1>a, OneFileWritten DEF PutWrite
    <2>2. PutAtWork(p)'
      BY <1>3, <1>c, <1>d, <1>g, <2>1 DEF PutWrite, PutStep, PutAtWork, Active
    <2>3. ASSUME NEW g \in Hashes, FS!Exists(Body(g))'
          PROVE  FS!Exists(Body(g)) \/ g = h
      <3>1. handle[p] = Body(g) => g = h
        BY <1>3, <1>a, InDirectory, PathAssumption, Apart DEF PutWrite, PutAtWork
      <3>2. QED
        BY <2>1, <2>3, <3>1, InDirectory DEF FS!Exists
    <2>4. QED
      BY <1>3, <1>e, <2>1, <2>2, <2>3 DEF PutStep
  <1>4. CASE PutRename(p)
    <2>1. h \in Hashes /\ FS!Rename(Tmp(h), Body(h))
      BY <1>4, <1>c DEF PutRename, Active
    <2>2. /\ \A path \in Paths \ {Tmp(h), Body(h)} : files'[path] = files[path]
          /\ \A a \in Actors : \/ handle'[a] = handle[a] \/ handle'[a] = NoPath
                               \/ handle[a] = Tmp(h) /\ handle'[a] = Body(h)
      BY <2>1, OneFileRenamed, InDirectory, Apart
    <2>3. handle[p] = NoPath
      BY <1>4, <1>a DEF PutRename, PutAtWork
    <2>4. PutAtWork(p)'
      <3>1. handle'[p] = NoPath
        BY <1>a, <2>1, <2>2, <2>3, InDirectory, PathAssumption
      <3>2. put'[p].at = "truncate" /\ put'[p].hash = h
        BY <1>4, <1>a DEF PutRename, TypeOK, Put
      <3>3. QED
        BY <1>4, <1>c, <1>d, <3>1, <3>2 DEF PutRename, PutStep, PutAtWork, Active
    <2>5. \A g \in Hashes : FS!Exists(Body(g))' => FS!Exists(Body(g)) \/ g = h
      BY <2>2, InDirectory, Apart DEF FS!Exists
    <2>6. QED
      BY <1>4, <1>e, <2>1, <2>2, <2>4, <2>5 DEF PutStep
  <1>5. CASE PutRenameFails(p)
    <2>1. handle[p] = NoPath /\ UNCHANGED <<files, handle>>
      BY <1>5, <1>a DEF PutRenameFails, PutAtWork, directory
    <2>2. QED
      BY <1>5, <1>e, <1>f, <2>1 DEF PutRenameFails, PutStep, FS!Exists
  <1>6. CASE PutTruncateSidecar(p)
    <2>1. h \in Hashes /\ FS!Create(p, Exp(h), Empty)
      BY <1>6, <1>c DEF PutTruncateSidecar, Active
    <2>2. /\ \A other \in Paths : files'[other] = IF other = Exp(h) THEN Empty ELSE files[other]
          /\ handle'[p] = Exp(h) /\ \A b \in Actors \ {p} : handle'[b] = handle[b]
      BY <1>a, <2>1, OneFileCreated, InDirectory
    <2>3. PutAtWork(p)'
      BY <1>6, <1>c, <1>d, <1>g, <2>2 DEF PutTruncateSidecar, PutStep, PutAtWork, Active
    <2>4. \A g \in Hashes : FS!Exists(Body(g))' => FS!Exists(Body(g)) \/ g = h
      BY <2>2, InDirectory, Apart DEF FS!Exists
    <2>5. QED
      BY <1>6, <1>e, <2>2, <2>3, <2>4 DEF PutStep
  <1>7. CASE PutStamp(p)
    <2>1. /\ \A path \in Paths : files'[path] =
               IF handle[p] = path THEN EpochSecs(put[p].until) ELSE files[path]
          /\ handle'[p] = NoPath /\ \A b \in Actors \ {p} : handle'[b] = handle[b]
      BY <1>7, <1>a, OneFileWritten DEF PutStamp
    <2>2. \A g \in Hashes : handle[p] # Body(g)
      <3>1. put[p].at = "stamp"
        BY <1>7 DEF PutStamp
      <3>2. handle[p] = NoPath \/ handle[p] = Exp(h)
        BY <1>a, <3>1 DEF PutAtWork
      <3>3. QED
        BY <3>2, InDirectory, PathAssumption, Apart
    <2>3. QED
      BY <1>7, <1>e, <1>f, <2>1, <2>2, InDirectory DEF PutStamp, PutStep, FS!Exists
  <1>8. CASE PutAbort(p)
    <2>1. UNCHANGED files /\ handle'[p] = NoPath /\ \A b \in Actors \ {p} : handle'[b] = handle[b]
      BY <1>8, <1>a DEF PutAbort, FS!Close, TypeOK
    <2>2. QED
      BY <1>8, <1>e, <1>f, <2>1 DEF PutAbort, FS!Exists
  <1>9. QED
    BY <1>1, <1>2, <1>3, <1>4, <1>5, <1>6, <1>7, <1>8 DEF PutStep

LEMMA GetsAtWork ==
  ASSUME TypeOK, AtWork, NEW r \in Readers, GetStep(r) \/ (\E h \in Hashes: GetBegin(r, h))
  PROVE  AtWork'
  <1>a. UNCHANGED <<directory, put, sweep, offered>>
    BY DEF GetStep, GetBegin, GetExists, GetExpiry, GetNow, GetBody, GetFails, history
  <1>b. ASSUME GetAtWork(r)', \A q \in Readers \ {r} : get'[q] = get[q] /\ asked'[q] = asked[q]
        PROVE  AtWork'
    BY <1>a, <1>b DEF AtWork, PutAtWork, SweepAtWork, GetAtWork, Active, Dating, FS!Exists, directory
  <1>c. ASSUME NEW answer \in {"none", "found", "torn", "miss"}, AnswerWith(r, answer)
        PROVE  AtWork'
    <2>1. get'[r].at = "idle" /\ asked'[r].answer = answer
      BY <1>c DEF AnswerWith, TypeOK, Lookup, NoGet
    <2>2. \A q \in Readers \ {r} : get'[q] = get[q] /\ asked'[q] = asked[q]
      BY <1>c DEF AnswerWith, TypeOK
    <2>3. QED
      BY <1>b, <2>1, <2>2 DEF GetAtWork
  <1>d. ASSUME NEW step \in GetSteps \ {"idle"}, NEW expiry, GoOn(r, step, expiry), get[r].at # "idle"
        PROVE  AtWork'
    <2>1. get'[r].at = step /\ UNCHANGED asked /\ \A q \in Readers \ {r} : get'[q] = get[q]
      BY <1>d DEF GoOn, TypeOK
    <2>2. GetAtWork(r)
      BY DEF AtWork
    <2>3. QED
      BY <1>b, <1>d, <2>1, <2>2 DEF GetAtWork
  <1>1. ASSUME NEW h \in Hashes, GetBegin(r, h)
        PROVE  AtWork'
    <2>1. get'[r].at = "exists" /\ asked'[r].answer = "pending" /\ asked'[r].hash = h
      BY <1>1 DEF GetBegin, TypeOK
    <2>2. \A q \in Readers \ {r} : get'[q] = get[q] /\ asked'[q] = asked[q]
      BY <1>1 DEF GetBegin, TypeOK
    <2>3. QED
      BY <1>b, <2>1, <2>2 DEF GetAtWork
  <1>2. CASE GetExists(r)
    BY <1>2, <1>c, <1>d DEF GetExists, GetSteps
  <1>3. CASE GetExpiry(r)
    BY <1>3, <1>d DEF GetExpiry, GetSteps
  <1>4. CASE GetNow(r)
    BY <1>4, <1>c, <1>d DEF GetNow, GetSteps
  <1>5. CASE GetBody(r)
    BY <1>5, <1>c DEF GetBody
  <1>6. CASE GetFails(r)
    BY <1>6, <1>c DEF GetFails
  <1>7. QED
    BY <1>1, <1>2, <1>3, <1>4, <1>5, <1>6 DEF GetStep

LEMMA SweepsAtWork ==
  ASSUME TypeOK, AtWork, NEW s \in Sweepers, PurgeBegin(s) \/ PurgeStep(s) \/ PurgeCrash(s)
  PROVE  AtWork'
  <1> DEFINE one == sweep[s]
  <1>a. s \in Actors /\ SweepAtWork(s) /\ one \in Sweep /\ one.doomed \in Seq(Paths)
    BY DEF TypeOK, AtWork, Actors, Sweep
  <1>b. ASSUME UNCHANGED <<get, asked, offered, put>>, NEW new \in Sweep,
               sweep' = [sweep EXCEPT ![s] = new], SweepAtWork(s)',
               \A a \in Actors \ {s} : handle'[a] = handle[a] \/ handle'[a] = NoPath,
               \A h \in Hashes : files'[Body(h)] = files[Body(h)] \/ files'[Body(h)] = NoFile
        PROVE  AtWork'
    <2>1. \A t \in Sweepers \ {s} : sweep'[t] = sweep[t]
      BY <1>b DEF TypeOK
    <2>2. QED
      BY <1>b, <2>1, WhileOneSweeps DEF SameSweep, SamePut
  <1>c. ASSUME NEW path, NEW doomed, Decide(s, path, doomed), Scanning(s), doomed \in Seq(Paths)
        PROVE  AtWork'
    <2>1. /\ sweep' = [sweep EXCEPT ![s] = [one EXCEPT !.todo = one.todo \ {path}, !.doomed = doomed]]
          /\ UNCHANGED <<directory, put, get, offered, asked>>
      BY <1>c DEF Decide, history
    <2>2. [one EXCEPT !.todo = one.todo \ {path}, !.doomed = doomed] \in Sweep
      BY <1>a, <1>c DEF Sweep
    <2>3. sweep'[s].at = "scan"
      BY <1>a, <1>c, <2>1 DEF Scanning, TypeOK, Sweep
    <2>4. SweepAtWork(s)'
      BY <1>a, <1>c, <2>1, <2>3 DEF SweepAtWork, Scanning, Dating, directory
    <2>5. QED
      BY <1>b, <2>1, <2>2, <2>4 DEF directory
  <1>1. CASE PurgeBegin(s)
    <2>1. UNCHANGED <<directory, get, asked, offered>>
      BY <1>1 DEF PurgeBegin, history
    <2>2. sweep'[s].at = "scan" /\ handle[s] = NoPath
      BY <1>1, <1>a DEF PurgeBegin, SweepAtWork
    <2>3. \A t \in Sweepers \ {s} : SameSweep(t)
      BY <1>1 DEF PurgeBegin, TypeOK, Sweep, SameSweep
    <2>4. \A p \in Putters : SamePut(p)
      BY <1>1 DEF PurgeBegin, TypeOK, Put, SamePut
    <2>5. SweepAtWork(s)'
      BY <2>1, <2>2 DEF SweepAtWork, Dating, directory
    <2>6. QED
      BY <2>1, <2>3, <2>4, <2>5, WhileOneSweeps DEF directory
  <1>2. ASSUME NEW h \in Hashes, PurgeTemporary(s, h) \/ PurgeSidecar(s, h) \/ PurgeDated(s, h)
        PROVE  AtWork'
    <2>1. /\ Body(h) \in Paths /\ Tmp(h) \in Paths /\ Exp(h) \in Paths
      BY InDirectory
    <2>2. /\ <<Tmp(h)>> \in Seq(Paths) /\ <<Exp(h)>> \in Seq(Paths)
          /\ <<Body(h), Exp(h)>> \in Seq(Paths) /\ <<>> \in Seq(Paths)
      BY <2>1
    <2>3. QED
      BY <1>2, <1>c, <2>2 DEF PurgeTemporary, PurgeSidecar, PurgeDated
  <1>3. ASSUME NEW h \in Hashes, PurgeUndated(s, h)
        PROVE  AtWork'
    <2> DEFINE new == [one EXCEPT !.todo = one.todo \ {Body(h)}, !.at = "date", !.undated = h]
    <2>1. /\ sweep' = [sweep EXCEPT ![s] = new]
          /\ UNCHANGED <<directory, put, get, offered, asked>> /\ one.doomed = <<>> /\ one.at = "scan"
      BY <1>3 DEF PurgeUndated, Scanning, history
    <2>2. new \in Sweep /\ new.at = "date" /\ new.undated = h /\ new.doomed = one.doomed
      BY <1>a DEF Sweep, SweepSteps
    <2> HIDE DEF new
    <2>3. sweep'[s] = new
      BY <2>1 DEF TypeOK
    <2>4. SweepAtWork(s)'
      BY <1>a, <2>1, <2>2, <2>3 DEF SweepAtWork, Dating, directory
    <2>5. QED
      BY <1>b, <2>1, <2>2, <2>4 DEF directory
  <1>4. CASE PurgeTruncateSidecar(s)
    <2> DEFINE h == one.undated
    <2>1. h \in Hashes /\ one.at = "date" /\ one.doomed = <<>>
      BY <1>4, <1>a DEF PurgeTruncateSidecar, SweepAtWork, Dating
    <2>2. /\ \A other \in Paths : files'[other] = IF other = Exp(h) THEN Empty ELSE files[other]
          /\ handle'[s] = Exp(h) /\ \A b \in Actors \ {s} : handle'[b] = handle[b]
      BY <1>4, <1>a, <2>1, OneFileCreated, InDirectory DEF PurgeTruncateSidecar
    <2>3. /\ sweep' = [sweep EXCEPT ![s] = [one EXCEPT !.at = "stamp"]]
          /\ UNCHANGED <<put, get, offered, asked>>
      BY <1>4 DEF PurgeTruncateSidecar, history
    <2>4. [one EXCEPT !.at = "stamp"] \in Sweep
      BY <1>a DEF Sweep, SweepSteps
    <2>5. sweep'[s].at = "stamp" /\ sweep'[s].doomed = <<>> /\ sweep'[s].undated = h
      BY <1>a, <2>1, <2>3 DEF TypeOK, Sweep
    <2>6. SweepAtWork(s)'
      BY <2>1, <2>2, <2>5 DEF SweepAtWork, Dating
    <2>7. \A g \in Hashes : files'[Body(g)] = files[Body(g)]
      <3>1. \A g \in Hashes : Body(g) \in Paths /\ Body(g) # Exp(h)
        BY InDirectory, Apart
      <3>2. QED
        BY <2>2, <3>1
    <2>8. QED
      BY <1>b, <2>2, <2>3, <2>4, <2>6, <2>7
  <1>5. CASE PurgeStamp(s)
    <2>1. /\ \A path \in Paths : files'[path] =
               IF handle[s] = path THEN EpochSecs(one.now + RecoveryTtl) ELSE files[path]
          /\ handle'[s] = NoPath /\ \A b \in Actors \ {s} : handle'[b] = handle[b]
      BY <1>5, <1>a, OneFileWritten DEF PurgeStamp
    <2>2. /\ sweep' = [sweep EXCEPT ![s] = [one EXCEPT !.at = "scan", !.undated = NoHash]]
          /\ UNCHANGED <<put, get, offered, asked>> /\ one.doomed = <<>>
      BY <1>5, <1>a DEF PurgeStamp, history, SweepAtWork, TypeOK
    <2>3. [one EXCEPT !.at = "scan", !.undated = NoHash] \in Sweep
      BY <1>a DEF Sweep, SweepSteps
    <2>4. SweepAtWork(s)'
      BY <1>a, <2>1, <2>2 DEF SweepAtWork, Dating, TypeOK, Sweep
    <2>5. \A h \in Hashes : files'[Body(h)] = files[Body(h)]
      <3>1. \A h \in Hashes : Body(h) # Exp(one.undated) /\ Body(h) # NoPath /\ Body(h) \in Paths
        BY InDirectory, PathAssumption, Apart
      <3>2. \A h \in Hashes : handle[s] # Body(h)
        BY <1>a, <3>1 DEF SweepAtWork
      <3>3. QED
        BY <2>1, <3>1, <3>2
    <2>6. QED
      BY <1>b, <2>1, <2>2, <2>3, <2>4, <2>5
  <1>6. CASE PurgeRemove(s)
    <2>1. one.doomed # <<>> /\ FS!Unlink(Head(one.doomed)) /\ one.at = "scan"
      BY <1>6, <1>a DEF PurgeRemove, SweepAtWork
    <2>2. Head(one.doomed) \in Paths /\ Tail(one.doomed) \in Seq(Paths)
      BY <1>a, <2>1
    <2>3. /\ files'[Head(one.doomed)] = NoFile
          /\ \A path \in Paths \ {Head(one.doomed)} : files'[path] = files[path]
          /\ \A a \in Actors : handle'[a] = handle[a] \/ handle'[a] = NoPath
      BY <2>1, <2>2, OneFileRemoved
    <2>4. /\ sweep' = [sweep EXCEPT ![s] = [one EXCEPT !.doomed = Tail(one.doomed)]]
          /\ UNCHANGED <<put, get, offered, asked>>
      BY <1>6 DEF PurgeRemove, history
    <2>5. [one EXCEPT !.doomed = Tail(one.doomed)] \in Sweep
      BY <1>a, <2>2 DEF Sweep
    <2>6. SweepAtWork(s)'
      <3>1. sweep'[s].at = "scan" /\ handle'[s] = NoPath
        BY <1>a, <2>1, <2>3, <2>4 DEF SweepAtWork, TypeOK, Sweep
      <3>2. QED
        BY <3>1 DEF SweepAtWork, Dating
    <2>7. QED
      BY <1>b, <2>3, <2>4, <2>5, <2>6, InDirectory
  <1>7. ASSUME PurgeEnd(s) \/ PurgeCrash(s)
        PROVE  AtWork'
    <2>1. sweep' = [sweep EXCEPT ![s] = NoSweep] /\ UNCHANGED <<put, get, offered, asked, files>>
      BY <1>7 DEF PurgeEnd, PurgeCrash, FS!Close, directory, history
    <2>2. NoSweep \in Sweep /\ sweep'[s].doomed = <<>> /\ sweep'[s].at = "idle"
      BY <2>1 DEF NoSweep, Sweep, SweepSteps, TypeOK
    <2>3. handle'[s] = NoPath /\ \A a \in Actors \ {s} : handle'[a] = handle[a]
      BY <1>7, <1>a DEF PurgeEnd, PurgeCrash, FS!Close, SweepAtWork, Scanning, TypeOK, directory
    <2>4. SweepAtWork(s)'
      BY <2>2, <2>3 DEF SweepAtWork, Dating
    <2>5. QED
      BY <1>b, <2>1, <2>2, <2>3, <2>4
  <1>8. QED
    BY <1>1, <1>2, <1>3, <1>4, <1>5, <1>6, <1>7 DEF PurgeStep

LEMMA InitAtWork == Init => AtWork
  BY InDirectory
  DEF Init, AtWork, PutAtWork, SweepAtWork, GetAtWork, Active, Dating, NoPut, NoGet, NoSweep,
      FS!Exists, Actors

LEMMA NextAtWork == TypeOK /\ AtWork /\ [Next]_vars => AtWork'
  <1> SUFFICES ASSUME TypeOK, AtWork, [Next]_vars
               PROVE  AtWork'
    OBVIOUS
  <1>1. CASE Tick \/ UNCHANGED vars
    BY <1>1
    DEF Tick, vars, directory, history, AtWork, PutAtWork, SweepAtWork, GetAtWork, Active, Dating,
        FS!Exists
  <1>2. QED
    BY <1>1, PutsAtWork, GetsAtWork, SweepsAtWork DEF Next

\* Every reachable directory, put, lookup and sweep has the shape TypeOK gives it, and
\* nobody has a file open but the one it is writing.
THEOREM TypeCorrect == Spec => [](TypeOK /\ AtWork)
  <1>1. QED
    BY InitTypeOK, InitAtWork, NextTypeOK, NextAtWork, PTL DEF Spec

-----------------------------------------------------------------------------
(***************************************************************************)
(* Nothing is torn                                                         *)
(***************************************************************************)
\* Who does not touch a body or a temporary tears nothing.
SameWriter(p) == SamePut(p) /\ put'[p].sole = put[p].sole /\ handle'[p] = handle[p]

LEMMA TornApart ==
  ASSUME TypeOK, AtWork, NothingTorn, UNCHANGED shared,
         \A p \in Putters : Writing(p)' => SameWriter(p),
         \A h \in Hashes : files'[Body(h)] = files[Body(h)] /\ files'[Tmp(h)] = files[Tmp(h)]
  PROVE  NothingTorn'
  <1>1. WholeBodies'
    BY DEF NothingTorn, WholeBodies
  <1>2. \A p \in Putters : Writing(p)' => Writing(p) /\ put'[p].hash = put[p].hash
    BY DEF Writing, SameWriter, SamePut
  <1>3. ASSUME NEW p \in Putters, Writing(p)'
        PROVE  OwnTemporary(p)'
    <2>1. /\ Writing(p) /\ put'[p].at = put[p].at /\ put'[p].hash = put[p].hash
          /\ put'[p].sole = put[p].sole /\ handle'[p] = handle[p]
      BY <1>2, <1>3 DEF SameWriter, SamePut
    <2>2. put[p].hash \in Hashes
      BY <2>1, KnownOriginal DEF Writing, Active
    <2>3. OwnTemporary(p)
      BY DEF NothingTorn
    <2>4. QED
      BY <1>2, <2>1, <2>2, <2>3 DEF OwnTemporary, FS!Exists
  <1>4. \A p \in Putters : OwnTemporary(p)'
    BY <1>3 DEF OwnTemporary
  <1>5. QED
    BY <1>1, <1>4 DEF NothingTorn

\* A put changes nothing for those that have the temporary of another original.
LEMMA TornByOne ==
  ASSUME TypeOK, AtWork, NothingTorn, NEW p \in Putters, NEW h \in Hashes,
         WholeBodies', OwnTemporary(p)', Writing(p)' => put'[p].hash = h, shared \ {h} \subseteq shared',
         \A q \in Putters \ {p} : SamePut(q),
         \A q \in Putters \ {p} : put[q].hash # h => put'[q].sole = put[q].sole,
         \A q \in Putters \ {p} : Writing(q) /\ put[q].hash = h => ~put'[q].sole /\ h \in shared',
         \A q \in Putters \ {p} : handle[q] \notin {Tmp(h), Body(h)} => handle'[q] = handle[q],
         \A g \in Hashes \ {h} : files'[Tmp(g)] = files[Tmp(g)]
  PROVE  NothingTorn'
  <1>1. ASSUME NEW q \in Putters \ {p}, Writing(q)'
        PROVE  OwnTemporary(q)'
    <2>1. Writing(q) /\ put'[q].at = put[q].at /\ put'[q].hash = put[q].hash
      BY <1>1 DEF Writing, SamePut
    <2>2. put[q].hash \in Hashes /\ OwnTemporary(q)
      BY <2>1, KnownOriginal DEF Writing, Active, NothingTorn
    <2>3. CASE put[q].hash = h
      BY <2>1, <2>3 DEF OwnTemporary
    <2>4. CASE put[q].hash # h
      <3> DEFINE g == put[q].hash
      <3>1. g \in Hashes \ {h} /\ put'[q].sole = put[q].sole /\ files'[Tmp(g)] = files[Tmp(g)]
        BY <2>2, <2>4
      <3>2. CASE ~put[q].sole
        BY <2>1, <2>2, <3>1, <3>2 DEF OwnTemporary
      <3>3. CASE put[q].sole
        <4>1. put[q].at = "write" => handle[q] \in {NoPath, Tmp(g)}
          BY <2>1, <2>2, <3>3 DEF OwnTemporary
        <4>2. {NoPath, Tmp(g)} \cap {Tmp(h), Body(h)} = {}
          BY <3>1, Apart, InDirectory, PathAssumption
        <4>3. put[q].at = "write" => handle'[q] = handle[q]
          BY <4>1, <4>2
        <4>4. \A o \in Putters : Writing(o)' /\ put'[o].hash = g => o # p /\ Writing(o) /\ put[o].hash = g
          BY <3>1 DEF SamePut, Writing
        <4>5. QED
          BY <2>1, <2>2, <3>1, <3>3, <4>3, <4>4 DEF OwnTemporary, FS!Exists
      <3>4. QED
        BY <3>2, <3>3
    <2>5. QED
      BY <2>3, <2>4
  <1>2. \A q \in Putters : OwnTemporary(q)'
    BY <1>1 DEF OwnTemporary
  <1>3. QED
    BY <1>2 DEF NothingTorn

LEMMA PutsTearNothing ==
  ASSUME TypeOK, AtWork, NothingTorn, NEW p \in Putters,
         PutStep(p) \/ PutAbort(p) \/ (\E h \in Hashes: PutBegin(p, h))
  PROVE  NothingTorn'
  <1> DEFINE h == put[p].hash
  <1>a. /\ p \in Actors /\ PutAtWork(p) /\ OwnTemporary(p) /\ WholeBodies /\ put[p] \in Put
        /\ \A g \in Hashes : Body(g) \in Paths /\ Tmp(g) \in Paths /\ Exp(g) \in Paths
        /\ \A g, k \in Hashes : Body(g) # Tmp(k) /\ Body(g) # Exp(k) /\ Tmp(g) # Exp(k)
        /\ \A g, k \in Hashes : g # k => Body(g) # Body(k) /\ Tmp(g) # Tmp(k)
        /\ \A g \in Hashes : NoPath \notin {Body(g), Tmp(g), Exp(g)}
    BY InDirectory, Apart, PathAssumption DEF AtWork, NothingTorn, Actors, TypeOK
  <1>b. Active(p) => h \in Hashes
    BY KnownOriginal
  <1>c. ASSUME ~Writing(p)', \A q \in Putters \ {p} : put'[q] = put[q] /\ handle'[q] = handle[q],
               UNCHANGED shared,
               \A g \in Hashes : files'[Body(g)] = files[Body(g)] /\ files'[Tmp(g)] = files[Tmp(g)]
        PROVE  NothingTorn'
    BY <1>c, TornApart DEF SameWriter, SamePut
  <1>d. ASSUME Writing(p)
        PROVE  \A q \in Putters \ {p} : Writing(q) /\ put[q].hash = h =>
                   ~put[p].sole /\ ~put[q].sole /\ h \in shared
    BY <1>d DEF NothingTorn, OwnTemporary
  <1>1. ASSUME NEW g \in Hashes, PutBegin(p, g)
        PROVE  NothingTorn'
    <2>1. /\ put'[p].at = "create" /\ \A q \in Putters \ {p} : put'[q] = put[q]
          /\ UNCHANGED <<files, handle, shared>>
      BY <1>1 DEF PutBegin, TypeOK, directory
    <2>2. QED
      BY <1>c, <2>1 DEF Writing
  <1>2. CASE PutCreate(p)
    <2> DEFINE others == WritersOf(h)
    <2>1. h \in Hashes /\ put[p].at = "create"
      BY <1>2, <1>b DEF PutCreate, Active
    <2>2. /\ \A other \in Paths : files'[other] = IF other = Tmp(h) THEN Empty ELSE files[other]
          /\ handle'[p] = Tmp(h) /\ \A b \in Actors \ {p} : handle'[b] = handle[b]
      BY <1>2, <1>a, <2>1, OneFileCreated DEF PutCreate
    <2>3. /\ put'[p].at = "write" /\ put'[p].hash = h /\ put'[p].sole = (others = {})
          /\ \A q \in Putters \ {p} : SamePut(q) /\ put'[q].sole = (put[q].sole /\ q \notin others)
          /\ shared' = IF others = {} THEN shared ELSE shared \cup {h}
      BY <1>2, <2>1, WhoWrites DEF PutCreate, Created, SamePut
    <2>4. \A q \in Putters : q \in others <=> Writing(q) /\ put[q].hash = h
      BY DEF WritersOf, PutsOf, Writing
    <2> HIDE DEF others
    <2>5. \A q \in Putters \ {p} : Writing(q) /\ put[q].hash = h => ~put'[q].sole /\ h \in shared'
      BY <2>3, <2>4
    <2>6. \A q \in Putters \ {p} : put[q].hash # h => put'[q].sole = put[q].sole
      <3>1. \A q \in Putters : put[q].sole \in BOOLEAN
        BY DEF TypeOK, Put
      <3>2. QED
        BY <2>3, <2>4, <3>1
    <2>7. OwnTemporary(p)'
      <3>1. \A q \in Putters \ {p} : Writing(q)' /\ put'[q].hash = h => q \in others
        BY <2>3, <2>4 DEF Writing, SamePut
      <3>2. handle'[p] # NoPath /\ (others # {} => h \in shared')
        BY <1>a, <2>1, <2>2, <2>3
      <3>3. CASE others = {}
        BY <2>2, <2>3, <3>1, <3>2, <3>3 DEF OwnTemporary
      <3>4. CASE others # {}
        BY <2>3, <3>2, <3>4 DEF OwnTemporary
      <3>5. QED
        BY <3>3, <3>4
    <2>8. WholeBodies' /\ \A g \in Hashes \ {h} : files'[Tmp(g)] = files[Tmp(g)]
      BY <1>a, <2>1, <2>2, <2>3 DEF WholeBodies
    <2>9. \A q \in Putters \ {p} : handle'[q] = handle[q]
      BY <2>2 DEF Actors
    <2>10. shared \ {h} \subseteq shared'
      BY <2>3
    <2>11. QED
      BY <2>1, <2>3, <2>5, <2>6, <2>7, <2>8, <2>9, <2>10, TornByOne
  <1>e. ASSUME Writing(p), WholeBodies', OwnTemporary(p)', put'[p].hash = h, shared \ {h} \subseteq shared',
               ~put[p].sole => UNCHANGED shared, \A q \in Putters \ {p} : put'[q] = put[q],
               \A q \in Putters \ {p} : handle[q] \notin {Tmp(h), Body(h)} => handle'[q] = handle[q],
               \A g \in Hashes \ {h} : files'[Tmp(g)] = files[Tmp(g)]
        PROVE  NothingTorn'
    <2>1. h \in Hashes
      BY <1>b, <1>e DEF Writing, Active
    <2>2. \A q \in Putters \ {p} : Writing(q) /\ put[q].hash = h => ~put'[q].sole /\ h \in shared'
      BY <1>d, <1>e
    <2>3. QED
      BY <1>e, <2>1, <2>2, TornByOne DEF SamePut
  <1>3. CASE PutWrite(p)
    <2>1. /\ \A path \in Paths : files'[path] = IF handle[p] = path THEN Whole ELSE files[path]
          /\ handle'[p] = NoPath /\ \A b \in Actors \ {p} : handle'[b] = handle[b]
      BY <1>3, <1>a, OneFileWritten DEF PutWrite
    <2>2. /\ put'[p].at = "rename" /\ put'[p].hash = h /\ put'[p].sole = put[p].sole
          /\ put[p].at = "write" /\ UNCHANGED shared /\ \A q \in Putters \ {p} : put'[q] = put[q]
      BY <1>3, <1>a DEF PutWrite, TypeOK, Put, history
    <2>3. h \in Hashes
      BY <1>b, <2>2 DEF Active
    <2>4. handle[p] \in {NoPath, Tmp(h), Body(h)}
      BY <1>a, <2>2 DEF PutAtWork
    <2>5. WholeBodies' /\ \A g \in Hashes \ {h} : files'[Tmp(g)] = files[Tmp(g)]
      BY <1>a, <2>1, <2>2, <2>3, <2>4 DEF WholeBodies
    <2>6. OwnTemporary(p)'
      <3>1. CASE ~put[p].sole
        BY <1>a, <2>2, <3>1 DEF OwnTemporary, Writing
      <3>2. CASE put[p].sole
        <4>1. (handle[p] = NoPath /\ files[Tmp(h)] = NoFile) \/ handle[p] = Tmp(h)
          BY <1>a, <2>2, <3>2 DEF OwnTemporary, Writing, FS!Exists
        <4>2. files'[Tmp(h)] \in {NoFile, Whole}
          BY <1>a, <2>1, <2>3, <4>1
        <4>3. \A q \in Putters \ {p} : ~(Writing(q)' /\ put'[q].hash = h)
          BY <1>d, <2>2, <3>2 DEF Writing
        <4>4. QED
          BY <2>2, <3>2, <4>2, <4>3 DEF OwnTemporary
      <3>3. QED
        BY <3>1, <3>2
    <2>7. \A q \in Putters \ {p} : handle'[q] = handle[q]
      BY <2>1 DEF Actors
    <2>8. QED
      BY <1>e, <2>2, <2>5, <2>6, <2>7 DEF Writing
  <1>4. CASE PutRename(p)
    <2>1. /\ put'[p].at = "truncate" /\ put'[p].hash = h /\ put[p].at = "rename"
          /\ \A q \in Putters \ {p} : put'[q] = put[q]
          /\ shared' = IF put[p].sole THEN shared \ {h} ELSE shared
      BY <1>4, <1>a DEF PutRename, TypeOK, Put
    <2>2. h \in Hashes
      BY <1>b, <2>1 DEF Active
    <2>3. /\ files[Tmp(h)] # NoFile /\ files'[Body(h)] = files[Tmp(h)]
          /\ \A path \in Paths \ {Tmp(h), Body(h)} : files'[path] = files[path]
          /\ \A a \in Actors : handle[a] \notin {Tmp(h), Body(h)} => handle'[a] = handle[a]
      BY <1>4, <1>a, <2>2, OneFileRenamed DEF PutRename
    <2>4. OwnTemporary(p)'
      BY <2>1 DEF OwnTemporary, Writing
    <2>5. WholeBodies' /\ \A g \in Hashes \ {h} : files'[Tmp(g)] = files[Tmp(g)]
      <3>1. put[p].sole => files[Tmp(h)] = Whole
        BY <1>a, <2>1, <2>3 DEF OwnTemporary, Writing
      <3>2. ~put[p].sole => h \in shared
        BY <1>a, <2>1 DEF OwnTemporary, Writing
      <3>3. QED
        BY <1>a, <2>1, <2>2, <2>3, <3>1, <3>2 DEF WholeBodies
    <2>6. \A q \in Putters \ {p} : handle[q] \notin {Tmp(h), Body(h)} => handle'[q] = handle[q]
      BY <2>3 DEF Actors
    <2>7. QED
      BY <1>e, <2>1, <2>4, <2>5, <2>6 DEF Writing
  <1>f. ASSUME put' = [put EXCEPT ![p] = NoPut]
        PROVE  ~Writing(p)' /\ \A q \in Putters \ {p} : put'[q] = put[q]
    BY <1>f DEF TypeOK, NoPut, Writing
  <1>5. CASE PutRenameFails(p) \/ PutAbort(p)
    <2>1. UNCHANGED <<files, shared>> /\ \A q \in Putters \ {p} : handle'[q] = handle[q]
      BY <1>5 DEF PutRenameFails, PutAbort, FS!Close, directory, history, TypeOK, Actors
    <2>2. put' = [put EXCEPT ![p] = NoPut]
      BY <1>5 DEF PutRenameFails, PutAbort
    <2>3. QED
      BY <1>c, <1>f, <2>1, <2>2
  <1>6. CASE PutTruncateSidecar(p)
    <2>1. h \in Hashes
      BY <1>6, <1>b DEF PutTruncateSidecar, Active
    <2>2. /\ \A other \in Paths : files'[other] = IF other = Exp(h) THEN Empty ELSE files[other]
          /\ \A b \in Actors \ {p} : handle'[b] = handle[b]
      BY <1>6, <1>a, <2>1, OneFileCreated DEF PutTruncateSidecar
    <2>3. /\ ~Writing(p)' /\ UNCHANGED shared
          /\ \A q \in Putters \ {p} : put'[q] = put[q] /\ handle'[q] = handle[q]
      BY <1>6, <1>a, <2>2 DEF PutTruncateSidecar, TypeOK, Put, Writing, history, Actors
    <2>4. \A g \in Hashes : files'[Body(g)] = files[Body(g)] /\ files'[Tmp(g)] = files[Tmp(g)]
      BY <1>a, <2>1, <2>2
    <2>5. QED
      BY <1>c, <2>3, <2>4
  <1>7. CASE PutStamp(p)
    <2>1. /\ \A path \in Paths : files'[path] =
               IF handle[p] = path THEN EpochSecs(put[p].until) ELSE files[path]
          /\ \A b \in Actors \ {p} : handle'[b] = handle[b]
      BY <1>7, <1>a, OneFileWritten DEF PutStamp
    <2>2. put[p].at = "stamp" /\ put' = [put EXCEPT ![p] = NoPut] /\ UNCHANGED shared
      BY <1>7 DEF PutStamp
    <2>3. h \in Hashes
      BY <1>b, <2>2 DEF Active
    <2>4. handle[p] = NoPath \/ handle[p] = Exp(h)
      BY <1>a, <2>2 DEF PutAtWork
    <2>5. \A g \in Hashes : files'[Body(g)] = files[Body(g)] /\ files'[Tmp(g)] = files[Tmp(g)]
      BY <1>a, <2>1, <2>3, <2>4
    <2>6. \A q \in Putters \ {p} : handle'[q] = handle[q]
      BY <2>1 DEF Actors
    <2>7. QED
      BY <1>c, <1>f, <2>2, <2>5, <2>6
  <1>8. QED
    BY <1>1, <1>2, <1>3, <1>4, <1>5, <1>6, <1>7 DEF PutStep

LEMMA SweepsTearNothing ==
  ASSUME TypeOK, AtWork, NothingTorn, NEW s \in Sweepers,
         PurgeBegin(s) \/ PurgeStep(s) \/ PurgeCrash(s)
  PROVE  NothingTorn'
  <1> DEFINE one == sweep[s]
  <1>a. /\ s \in Actors /\ SweepAtWork(s) /\ one \in Sweep /\ one.doomed \in Seq(Paths)
        /\ \A p \in Putters : p \in Actors \ {s}
        /\ \A g \in Hashes : Body(g) \in Paths /\ Tmp(g) \in Paths /\ Exp(g) \in Paths
        /\ \A g, k \in Hashes : Body(g) # Exp(k) /\ Tmp(g) # Exp(k) /\ Body(g) # Tmp(k)
        /\ \A g, k \in Hashes : g # k => Tmp(g) # Tmp(k)
        /\ \A g \in Hashes : NoPath \notin {Body(g), Tmp(g)}
    BY InDirectory, Apart, PathAssumption, ActorsDiffer DEF TypeOK, AtWork, Actors, Sweep
  <1>b. UNCHANGED shared
    BY DEF PurgeStep, PurgeBegin, PurgeTemporary, PurgeSidecar, PurgeDated, PurgeUndated,
           PurgeTruncateSidecar, PurgeStamp, PurgeRemove, PurgeEnd, PurgeCrash, Decide, history
  <1>c. ASSUME UNCHANGED put, \A p \in Putters : handle'[p] = handle[p],
               \A g \in Hashes : files'[Body(g)] = files[Body(g)] /\ files'[Tmp(g)] = files[Tmp(g)]
        PROVE  NothingTorn'
    BY <1>b, <1>c, TornApart DEF SameWriter, SamePut
  <1>1. CASE PurgeBegin(s)
    <2>1. \A p \in Putters : SameWriter(p)
      BY <1>1 DEF PurgeBegin, TypeOK, Put, SameWriter, SamePut, directory
    <2>2. UNCHANGED files
      BY <1>1 DEF PurgeBegin, directory
    <2>3. QED
      BY <1>b, <2>1, <2>2, TornApart
  <1>2. ASSUME NEW h \in Hashes,
               PurgeTemporary(s, h) \/ PurgeSidecar(s, h) \/ PurgeDated(s, h) \/ PurgeUndated(s, h)
        PROVE  NothingTorn'
    <2>1. UNCHANGED <<put, files, handle>>
      BY <1>2 DEF PurgeTemporary, PurgeSidecar, PurgeDated, PurgeUndated, Decide, directory
    <2>2. QED
      BY <1>c, <2>1
  <1>3. CASE PurgeTruncateSidecar(s)
    <2>1. one.undated \in Hashes
      BY <1>3, <1>a DEF PurgeTruncateSidecar, SweepAtWork, Dating
    <2>2. /\ \A other \in Paths : files'[other] = IF other = Exp(one.undated) THEN Empty ELSE files[other]
          /\ \A b \in Actors \ {s} : handle'[b] = handle[b]
      BY <1>3, <1>a, <2>1, OneFileCreated DEF PurgeTruncateSidecar
    <2>3. UNCHANGED put
      BY <1>3 DEF PurgeTruncateSidecar
    <2>4. \A g \in Hashes : files'[Body(g)] = files[Body(g)] /\ files'[Tmp(g)] = files[Tmp(g)]
      BY <1>a, <2>1, <2>2
    <2>5. QED
      BY <1>a, <1>c, <2>2, <2>3, <2>4
  <1>4. CASE PurgeStamp(s)
    <2>1. /\ \A path \in Paths : files'[path] =
               IF handle[s] = path THEN EpochSecs(one.now + RecoveryTtl) ELSE files[path]
          /\ \A b \in Actors \ {s} : handle'[b] = handle[b]
      BY <1>4, <1>a, OneFileWritten DEF PurgeStamp
    <2>2. \A g \in Hashes : handle[s] # Body(g) /\ handle[s] # Tmp(g)
      BY <1>4, <1>a DEF SweepAtWork, PurgeStamp, Dating
    <2>3. \A g \in Hashes : files'[Body(g)] = files[Body(g)] /\ files'[Tmp(g)] = files[Tmp(g)]
      BY <1>a, <2>1, <2>2
    <2>4. UNCHANGED put
      BY <1>4 DEF PurgeStamp
    <2>5. QED
      BY <1>a, <1>c, <2>1, <2>3, <2>4
  <1>5. CASE PurgeRemove(s)
    <2>1. PICK path \in Paths : path = Head(one.doomed)
      BY <1>5, <1>a DEF PurgeRemove
    <2>2. /\ files'[path] = NoFile /\ \A other \in Paths \ {path} : files'[other] = files[other]
          /\ \A a \in Actors : handle'[a] = IF handle[a] = path THEN NoPath ELSE handle[a]
      BY <1>5, <2>1, OneFileRemoved DEF PurgeRemove
    <2>3. UNCHANGED put
      BY <1>5 DEF PurgeRemove
    <2>4. WholeBodies'
      BY <1>a, <1>b, <2>2 DEF NothingTorn, WholeBodies
    <2>5. ASSUME NEW p \in Putters, Writing(p)
          PROVE  OwnTemporary(p)'
      <3>1. put[p].hash \in Hashes
        BY <2>5, KnownOriginal DEF Writing, Active
      <3>2. OwnTemporary(p)
        BY DEF NothingTorn
      <3>3. \A q \in Putters : Writing(q)' = Writing(q) /\ put'[q].hash = put[q].hash
        BY <2>3 DEF Writing
      <3>4. QED
        BY <1>a, <1>b, <2>2, <2>3, <3>1, <3>2, <3>3 DEF OwnTemporary, FS!Exists
    <2>6. \A p \in Putters : OwnTemporary(p)'
      BY <2>3, <2>5 DEF OwnTemporary, Writing
    <2>7. QED
      BY <2>4, <2>6 DEF NothingTorn
  <1>6. CASE PurgeEnd(s) \/ PurgeCrash(s)
    <2>1. UNCHANGED <<put, files>> /\ \A p \in Putters : handle'[p] = handle[p]
      BY <1>6, <1>a DEF PurgeEnd, PurgeCrash, FS!Close, directory, TypeOK
    <2>2. QED
      BY <1>c, <2>1
  <1>7. QED
    BY <1>1, <1>2, <1>3, <1>4, <1>5, <1>6 DEF PurgeStep

LEMMA InitNothingTorn == Init => NothingTorn
  BY InDirectory DEF Init, NothingTorn, OwnTemporary, WholeBodies, NoPut, Writing

LEMMA NextNothingTorn == TypeOK /\ AtWork /\ NothingTorn /\ [Next]_vars => NothingTorn'
  <1> SUFFICES ASSUME TypeOK, AtWork, NothingTorn, [Next]_vars
               PROVE  NothingTorn'
    OBVIOUS
  <1>1. ASSUME UNCHANGED <<files, handle, put, shared>>
        PROVE  NothingTorn'
    BY <1>1, TornApart DEF SameWriter, SamePut
  <1>2. CASE Tick \/ UNCHANGED vars
    BY <1>1, <1>2 DEF Tick, vars, directory, history
  <1>3. ASSUME NEW r \in Readers, GetStep(r) \/ (\E h \in Hashes: GetBegin(r, h))
        PROVE  NothingTorn'
    BY <1>1, <1>3 DEF GetStep, GetBegin, GetExists, GetExpiry, GetNow, GetBody, GetFails, directory, history
  <1>4. QED
    BY <1>2, <1>3, PutsTearNothing, SweepsTearNothing DEF Next

(***************************************************************************)
(* TornOnlyWhileShared: whatever overlaps, dies or is swept away, a reader *)
(* is handed half an original only of one whose temporary two puts have    *)
(* had at once, and only until a put that had it to itself has renamed it. *)
(***************************************************************************)
THEOREM WholeOrNothing == Spec => TornOnlyWhileShared
  <1>1. Spec => [](TypeOK /\ AtWork /\ NothingTorn)
    BY InitTypeOK, InitAtWork, InitNothingTorn, NextTypeOK, NextAtWork, NextNothingTorn, PTL DEF Spec
  <1>2. ASSUME TypeOK, AtWork, NothingTorn, [Next]_vars, NEW r \in Readers,
               asked[r].answer = "pending", asked'[r].answer = "torn"
        PROVE  asked[r].hash \in shared
    <2>1. PICK o \in Readers : GetStep(o) \/ \E h \in Hashes : GetBegin(o, h)
      <3>1. asked' # asked
        BY <1>2
      <3>2. CASE Tick \/ UNCHANGED vars
        BY <3>1, <3>2 DEF Tick, vars
      <3>3. ASSUME NEW p \in Putters, PutStep(p) \/ PutAbort(p) \/ \E h \in Hashes : PutBegin(p, h)
            PROVE  FALSE
        BY <3>1, <3>3 DEF PutStep, PutBegin, PutCreate, PutWrite, PutRename, PutRenameFails,
                          PutTruncateSidecar, PutStamp, PutAbort
      <3>4. ASSUME NEW s \in Sweepers, PurgeBegin(s) \/ PurgeStep(s) \/ PurgeCrash(s)
            PROVE  FALSE
        BY <3>1, <3>4
        DEF PurgeStep, PurgeBegin, PurgeTemporary, PurgeSidecar, PurgeDated, PurgeUndated,
            PurgeTruncateSidecar, PurgeStamp, PurgeRemove, PurgeEnd, PurgeCrash, Decide
      <3>5. QED
        BY <1>2, <3>2, <3>3, <3>4 DEF Next
    <2>2. GetBody(r)
      <3>1. ASSUME NEW answer, AnswerWith(o, answer)
            PROVE  o = r /\ answer = "torn"
        BY <1>2, <3>1 DEF AnswerWith, TypeOK, Lookup
      <3>2. \A step, expiry : ~GoOn(o, step, expiry)
        BY <1>2 DEF GoOn
      <3>3. ~\E h \in Hashes : GetBegin(o, h)
        BY <1>2 DEF GetBegin, TypeOK
      <3>4. QED
        BY <2>1, <3>1, <3>2, <3>3 DEF GetStep, GetExists, GetExpiry, GetNow, GetFails, GetBody
    <2>3. files[Body(asked[r].hash)] \notin {NoFile, Whole}
      <3>1. asked'[r].answer = IF files[Body(asked[r].hash)] = NoFile THEN "miss"
                               ELSE IF files[Body(asked[r].hash)] = Whole THEN "found" ELSE "torn"
        BY <1>2, <2>2, Answered DEF GetBody, FS!Exists
      <3>2. QED
        BY <1>2, <3>1
    <2>4. asked[r].hash \in Hashes
      BY <1>2, <2>2, KnownOriginal DEF GetBody
    <2>5. QED
      BY <1>2, <2>3, <2>4 DEF NothingTorn, WholeBodies
  <1>3. TypeOK /\ AtWork /\ NothingTorn /\ [Next]_vars =>
          [\A r \in Readers: asked[r].answer = "pending" /\ asked'[r].answer = "torn"
                               => asked[r].hash \in shared]_vars
    BY <1>2
  <1>4. QED
    BY <1>1, <1>3, PTL DEF Spec, TornOnlyWhileShared

-----------------------------------------------------------------------------
(***************************************************************************)
(* What a sweep leaves behind                                              *)
(***************************************************************************)
Alone(s) == sweep[s].at # "idle" /\ sweep[s].alone

\* The part of SweepsAlone that is about the files.
Upkeep(s) ==
  /\ Dating(s) => FS!Exists(Body(sweep[s].undated))
  /\ sweep[s].at = "stamp" => handle[s] = Exp(sweep[s].undated)
  /\ \/ sweep[s].doomed = <<>>
     \/ \E h \in Hashes : sweep[s].doomed \in {<<Tmp(h)>>, <<Exp(h)>>, <<Body(h), Exp(h)>>}
  /\ \A h \in Hashes : Cleaning(s, h)

\* Nobody else is at work beside a sweep that is alone, so no step of another's disturbs it.
LEMMA AloneApart ==
  ASSUME TypeOK, SweepsAlone,
         \A t \in Sweepers : Alone(t)' => Alone(t) /\ sweep'[t] = sweep[t],
         (\E t \in Sweepers : Alone(t)) => UNCHANGED <<directory, put, sweep>>
  PROVE  SweepsAlone'
  <1> SUFFICES ASSUME NEW s \in Sweepers, Alone(s)'
               PROVE  /\ ~Putting' /\ \A t \in Sweepers : sweep'[t].at # "idle" => t = s
                      /\ Upkeep(s)'
    BY DEF SweepsAlone, Alone, Upkeep
  <1>1. Alone(s) /\ UNCHANGED <<directory, put, sweep>>
    OBVIOUS
  <1>2. ~Putting /\ (\A t \in Sweepers : sweep[t].at # "idle" => t = s) /\ Upkeep(s)
    BY <1>1 DEF SweepsAlone, Alone, Upkeep
  <1>3. QED
    BY <1>1, <1>2 DEF Putting, Upkeep, Dating, Cleaning, FS!Exists, Stray, Dated, ExpiredAt, directory

\* One sweep that is at work takes a step.
LEMMA AloneByOne ==
  ASSUME TypeOK, SweepsAlone, NEW s \in Sweepers, sweep[s].at # "idle", UNCHANGED put, NEW new,
         sweep' = [sweep EXCEPT ![s] = new], Alone(s)' => Alone(s),
         Alone(s) /\ Alone(s)' /\ Upkeep(s) => Upkeep(s)'
  PROVE  SweepsAlone'
  <1> SUFFICES ASSUME NEW t \in Sweepers, Alone(t)'
               PROVE  /\ ~Putting' /\ \A u \in Sweepers : sweep'[u].at # "idle" => u = t
                      /\ Upkeep(t)'
    BY DEF SweepsAlone, Alone, Upkeep
  <1>1. \A u \in Sweepers \ {s} : sweep'[u] = sweep[u]
    BY DEF TypeOK
  <1>2. t = s
    BY <1>1 DEF SweepsAlone, Alone
  <1>3. /\ Alone(s) /\ ~Putting /\ (\A u \in Sweepers : sweep[u].at # "idle" => u = s)
        /\ Upkeep(s)
    BY <1>2 DEF SweepsAlone, Alone, Upkeep
  <1>4. QED
    BY <1>1, <1>2, <1>3 DEF Putting

LEMMA PutsLeaveAlone ==
  ASSUME TypeOK, SweepsAlone, NEW p \in Putters,
         PutStep(p) \/ PutAbort(p) \/ (\E h \in Hashes: PutBegin(p, h))
  PROVE  SweepsAlone'
  <1>1. ASSUME NEW h \in Hashes, PutBegin(p, h)
        PROVE  SweepsAlone'
    <2>1. \A s \in Sweepers : ~Alone(s)'
      BY <1>1 DEF PutBegin, Alone, TypeOK, Sweep
    <2>2. QED
      BY <2>1 DEF SweepsAlone, Alone
  <1>2. CASE PutStep(p) \/ PutAbort(p)
    <2>1. Putting /\ UNCHANGED sweep
      BY <1>2 DEF PutStep, PutCreate, PutWrite, PutRename, PutRenameFails, PutTruncateSidecar,
                  PutStamp, PutAbort, Putting
    <2>2. \A s \in Sweepers : ~Alone(s) /\ ~Alone(s)'
      BY <2>1 DEF SweepsAlone, Alone
    <2>3. QED
      BY <2>2 DEF SweepsAlone, Alone
  <1>3. QED
    BY <1>1, <1>2

\* The list of what to remove is one of three, and none of another original.
LEMMA DoomedApart ==
  ASSUME NEW g, NEW h
  PROVE  /\ <<Tmp(g)>> # <<Exp(h)>> /\ <<Tmp(g)>> # <<Body(h), Exp(h)>> /\ <<Exp(g)>> # <<Body(h), Exp(h)>>
         /\ (<<Tmp(g)>> = <<Tmp(h)>> <=> g = h) /\ (<<Exp(g)>> = <<Exp(h)>> <=> g = h)
         /\ (<<Body(g), Exp(g)>> = <<Body(h), Exp(h)>> <=> g = h)
         /\ <<>> # <<Tmp(h)>> /\ <<>> # <<Exp(h)>> /\ <<>> # <<Body(h), Exp(h)>>
  <1>1. Tmp(g) # Exp(h) /\ (Tmp(g) = Tmp(h) <=> g = h) /\ (Exp(g) = Exp(h) <=> g = h)
        /\ (Body(g) = Body(h) <=> g = h)
    BY Apart
  <1>2. QED
    BY <1>1

\* The sweep has looked at a file and decided.
LEMMA Decided ==
  ASSUME TypeOK, AtWork, SweepsAlone, NEW s \in Sweepers, Scanning(s), NEW path \in Paths,
         NEW doomed \in Seq(Paths), Decide(s, path, doomed),
         \A h \in Hashes :
            /\ path = Tmp(h) /\ FS!Exists(Tmp(h)) => doomed = <<Tmp(h)>> \/ ~Stray(h, sweep[s].now)
            /\ path = Exp(h) /\ FS!Exists(Exp(h)) => FS!Exists(Body(h)) \/ doomed = <<Exp(h)>>
            /\ path = Body(h) /\ FS!Exists(Body(h)) =>
                  \/ doomed = <<Body(h), Exp(h)>> \/ (Dated(h) /\ ~ExpiredAt(h, sweep[s].now))
            /\ doomed = <<Exp(h)>> => ~FS!Exists(Body(h))
            /\ doomed = <<Body(h), Exp(h)>> => path = Body(h),
         \/ doomed = <<>>
         \/ \E h \in Hashes : doomed \in {<<Tmp(h)>>, <<Exp(h)>>, <<Body(h), Exp(h)>>}
  PROVE  SweepsAlone'
  <1> DEFINE one == sweep[s]
             new == [one EXCEPT !.todo = one.todo \ {path}, !.doomed = doomed]
  <1>1. sweep' = [sweep EXCEPT ![s] = new] /\ UNCHANGED <<clock, directory, put>>
    BY DEF Decide
  <1>2. one \in Sweep /\ one.at = "scan" /\ one.doomed = <<>>
    BY DEF TypeOK, Scanning
  <1>3. /\ sweep'[s].at = "scan" /\ sweep'[s].todo = one.todo \ {path} /\ sweep'[s].doomed = doomed
        /\ sweep'[s].now = one.now /\ sweep'[s].alone = one.alone
    BY <1>1, <1>2 DEF TypeOK, Sweep
  <1>4. ASSUME Upkeep(s), NEW h \in Hashes
        PROVE  Cleaning(s, h)'
    <2>1. Cleaning(s, h)
      BY <1>4 DEF Upkeep
    <2>2. /\ <<>> # <<Tmp(h)>> /\ <<>> # <<Exp(h)>> /\ <<>> # <<Body(h), Exp(h)>>
      BY DoomedApart
    <2>3. QED
      BY <1>1, <1>2, <1>3, <2>1, <2>2
      DEF Cleaning, Dating, FS!Exists, Stray, Dated, ExpiredAt, directory
  <1>5. Upkeep(s) => Upkeep(s)'
    BY <1>3, <1>4 DEF Upkeep, Dating
  <1>6. Alone(s)' => Alone(s)
    BY <1>2, <1>3 DEF Alone
  <1>7. QED
    BY <1>1, <1>2, <1>5, <1>6, AloneByOne

LEMMA SweepsLeaveAlone ==
  ASSUME TypeOK, AtWork, SweepsAlone, NEW s \in Sweepers,
         PurgeBegin(s) \/ PurgeStep(s) \/ PurgeCrash(s)
  PROVE  SweepsAlone'
  <1> DEFINE one == sweep[s]
  <1>a. s \in Actors /\ one \in Sweep /\ SweepAtWork(s)
    BY DEF TypeOK, AtWork, Actors
  <1>b. /\ one.now \in Nat /\ one.todo \subseteq Paths /\ one.doomed \in Seq(Paths)
        /\ \A h \in Hashes : Body(h) \in Paths /\ Tmp(h) \in Paths /\ Exp(h) \in Paths
        /\ \A g, h \in Hashes : Body(g) # Tmp(h) /\ Body(g) # Exp(h) /\ Tmp(g) # Exp(h)
        /\ \A g, h \in Hashes : g # h => Body(g) # Body(h) /\ Tmp(g) # Tmp(h) /\ Exp(g) # Exp(h)
    BY <1>a, InDirectory, Apart DEF Sweep
  <1>c. /\ \A h \in Hashes : /\ <<>> # <<Tmp(h)>> /\ <<>> # <<Exp(h)>> /\ <<>> # <<Body(h), Exp(h)>>
                             /\ <<Tmp(h)>> \in Seq(Paths) /\ <<Exp(h)>> \in Seq(Paths)
                             /\ <<Body(h), Exp(h)>> \in Seq(Paths)
        /\ \A g, h \in Hashes : /\ <<Tmp(g)>> # <<Exp(h)>> /\ <<Tmp(g)>> # <<Body(h), Exp(h)>>
                                /\ <<Exp(g)>> # <<Body(h), Exp(h)>>
        /\ \A g, h \in Hashes : g # h => /\ <<Tmp(g)>> # <<Tmp(h)>> /\ <<Exp(g)>> # <<Exp(h)>>
                                         /\ <<Body(g), Exp(g)>> # <<Body(h), Exp(h)>>
    BY <1>b, DoomedApart
  <1>d. <<>> \in Seq(Paths)
    OBVIOUS
  <1>1. CASE PurgeBegin(s)
    <2>1. \A t \in Sweepers \ {s} : ~Alone(t)'
      BY <1>1 DEF PurgeBegin, Alone, TypeOK, Sweep
    <2>2. /\ sweep'[s].at = "scan" /\ sweep'[s].todo = {p \in Paths: FS!Exists(p)}
          /\ sweep'[s].doomed = <<>> /\ sweep'[s].alone = (~Putting /\ ~Sweeping)
          /\ UNCHANGED directory
      BY <1>1 DEF PurgeBegin
    <2>3. \A p \in Putters : put'[p].at = put[p].at
      BY <1>1 DEF PurgeBegin, TypeOK, Put
    <2>4. \A t \in Sweepers \ {s} : sweep'[t].at = sweep[t].at
      BY <1>1 DEF PurgeBegin, TypeOK, Sweep
    <2>5. ASSUME NEW h \in Hashes
          PROVE  Cleaning(s, h)'
      BY <1>b, <1>c, <2>2 DEF Cleaning, FS!Exists, directory
    <2>6. QED
      BY <2>1, <2>2, <2>3, <2>4, <2>5 DEF SweepsAlone, Alone, Dating, Putting, Sweeping
  <1>2. ASSUME NEW h \in Hashes, PurgeTemporary(s, h)
        PROVE  SweepsAlone'
    <2> DEFINE doomed == IF Stray(h, one.now) THEN <<Tmp(h)>> ELSE <<>>
    <2>1. Scanning(s) /\ Decide(s, Tmp(h), doomed) /\ doomed \in Seq(Paths)
      BY <1>2, <1>c, <1>d DEF PurgeTemporary
    <2>2. doomed = <<>> \/ doomed = <<Tmp(h)>>
      OBVIOUS
    <2>3. ASSUME NEW g \in Hashes
          PROVE  /\ Tmp(h) = Tmp(g) => doomed = <<Tmp(g)>> \/ ~Stray(g, one.now)
                 /\ Tmp(h) # Exp(g) /\ Tmp(h) # Body(g)
                 /\ doomed # <<Exp(g)>> /\ doomed # <<Body(g), Exp(g)>>
      BY <1>b, <1>c, <2>2
    <2> HIDE DEF doomed
    <2>4. QED
      BY <1>b, <2>1, <2>2, <2>3, Decided
  <1>3. ASSUME NEW h \in Hashes, PurgeSidecar(s, h)
        PROVE  SweepsAlone'
    <2> DEFINE doomed == IF FS!Exists(Body(h)) THEN <<>> ELSE <<Exp(h)>>
    <2>1. Scanning(s) /\ Decide(s, Exp(h), doomed) /\ doomed \in Seq(Paths)
      BY <1>3, <1>c, <1>d DEF PurgeSidecar
    <2>2. doomed = <<>> \/ doomed = <<Exp(h)>>
      OBVIOUS
    <2>3. ASSUME NEW g \in Hashes
          PROVE  /\ Exp(h) = Exp(g) => FS!Exists(Body(g)) \/ doomed = <<Exp(g)>>
                 /\ Exp(h) # Tmp(g) /\ Exp(h) # Body(g)
                 /\ doomed = <<Exp(g)>> => ~FS!Exists(Body(g))
                 /\ doomed # <<Body(g), Exp(g)>>
      BY <1>b, <1>c, <2>2
    <2> HIDE DEF doomed
    <2>4. QED
      BY <1>b, <2>1, <2>2, <2>3, Decided
  <1>4. ASSUME NEW h \in Hashes, PurgeDated(s, h)
        PROVE  SweepsAlone'
    <2> DEFINE doomed == IF ExpiredAt(h, one.now) THEN <<Body(h), Exp(h)>> ELSE <<>>
    <2>1. Scanning(s) /\ Decide(s, Body(h), doomed) /\ doomed \in Seq(Paths) /\ Dated(h)
      BY <1>4, <1>c, <1>d DEF PurgeDated
    <2>2. doomed = <<>> \/ doomed = <<Body(h), Exp(h)>>
      OBVIOUS
    <2>3. ASSUME NEW g \in Hashes
          PROVE  /\ Body(h) = Body(g) =>
                      doomed = <<Body(g), Exp(g)>> \/ (Dated(g) /\ ~ExpiredAt(g, one.now))
                 /\ Body(h) # Tmp(g) /\ Body(h) # Exp(g)
                 /\ doomed # <<Exp(g)>> /\ (doomed = <<Body(g), Exp(g)>> => Body(h) = Body(g))
      BY <1>b, <1>c, <2>1, <2>2
    <2> HIDE DEF doomed
    <2>4. QED
      BY <1>b, <2>1, <2>2, <2>3, Decided
  <1>5. ASSUME NEW h \in Hashes, PurgeUndated(s, h)
        PROVE  SweepsAlone'
    <2> DEFINE new == [one EXCEPT !.todo = one.todo \ {Body(h)}, !.at = "date", !.undated = h]
    <2>1. /\ sweep' = [sweep EXCEPT ![s] = new] /\ UNCHANGED <<put, directory>>
          /\ one.doomed = <<>> /\ one.at = "scan" /\ Body(h) \in one.todo
      BY <1>5 DEF PurgeUndated, Scanning
    <2>2. /\ sweep'[s].at = "date" /\ sweep'[s].todo = one.todo \ {Body(h)} /\ sweep'[s].doomed = <<>>
          /\ sweep'[s].now = one.now /\ sweep'[s].alone = one.alone /\ sweep'[s].undated = h
      BY <1>a, <2>1 DEF TypeOK, Sweep
    <2>3. ASSUME Upkeep(s), NEW g \in Hashes
          PROVE  Cleaning(s, g)' /\ FS!Exists(Body(h))'
      <3>1. Cleaning(s, g) /\ Cleaning(s, h)
        BY <2>3 DEF Upkeep
      <3>2. FS!Exists(Body(h))
        BY <2>1, <3>1 DEF Cleaning
      <3>3. ~Dating(s) /\ Dating(s)'
        BY <2>1, <2>2 DEF Dating
      <3>4. g # h => Body(g) # Body(h)
        BY <1>b
      <3>5. QED
        BY <1>b, <1>c, <2>1, <2>2, <3>1, <3>2, <3>3, <3>4
        DEF Cleaning, FS!Exists, Stray, Dated, ExpiredAt, directory
    <2>4. Upkeep(s) => Upkeep(s)'
      BY <2>1, <2>2, <2>3 DEF Upkeep, Dating
    <2>5. Alone(s)' => Alone(s)
      BY <2>1, <2>2 DEF Alone
    <2> HIDE DEF new
    <2>6. QED
      BY <2>1, <2>4, <2>5, AloneByOne
  <1>6. CASE PurgeTruncateSidecar(s)
    <2> DEFINE new == [one EXCEPT !.at = "stamp"]
               h == one.undated
    <2>1. one.at = "date" /\ one.doomed = <<>> /\ h \in Hashes /\ Dating(s)
      BY <1>6, <1>a DEF PurgeTruncateSidecar, SweepAtWork, Dating
    <2>2. /\ \A other \in Paths : files'[other] = IF other = Exp(h) THEN Empty ELSE files[other]
          /\ handle'[s] = Exp(h)
      BY <1>6, <1>a, <1>b, <2>1, OneFileCreated DEF PurgeTruncateSidecar
    <2>3. sweep' = [sweep EXCEPT ![s] = new] /\ UNCHANGED <<put, modified>>
      BY <1>6 DEF PurgeTruncateSidecar
    <2>4. /\ sweep'[s].at = "stamp" /\ sweep'[s].todo = one.todo /\ sweep'[s].doomed = <<>>
          /\ sweep'[s].now = one.now /\ sweep'[s].alone = one.alone /\ sweep'[s].undated = h
          /\ Dating(s)'
      BY <1>a, <2>1, <2>3 DEF TypeOK, Sweep, Dating
    <2>5. ASSUME Upkeep(s), NEW g \in Hashes
          PROVE  Cleaning(s, g)' /\ FS!Exists(Body(h))'
      <3>1. Cleaning(s, g) /\ FS!Exists(Body(h))
        BY <2>1, <2>5 DEF Upkeep
      <3>2. /\ files'[Body(g)] = files[Body(g)] /\ files'[Tmp(g)] = files[Tmp(g)]
            /\ files'[Body(h)] = files[Body(h)]
            /\ g # h => files'[Exp(g)] = files[Exp(g)]
        BY <1>b, <2>1, <2>2
      <3>3. CASE g = h
        BY <1>c, <2>1, <2>3, <2>4, <3>1, <3>2, <3>3 DEF Cleaning, FS!Exists, Stray
      <3>4. CASE g # h
        BY <1>c, <2>1, <2>3, <2>4, <3>1, <3>2, <3>4
        DEF Cleaning, FS!Exists, Stray, Dated, ExpiredAt
      <3>5. QED
        BY <3>1, <3>2, <3>3, <3>4 DEF FS!Exists
    <2> HIDE DEF new
    <2>6. Upkeep(s) => Upkeep(s)'
      <3>1. Hashes # {}
        BY <2>1
      <3>2. QED
        BY <2>2, <2>4, <2>5, <3>1 DEF Upkeep
    <2>7. Alone(s)' => Alone(s)
      BY <2>1, <2>4 DEF Alone
    <2>8. QED
      BY <2>1, <2>3, <2>6, <2>7, AloneByOne
  <1>7. CASE PurgeStamp(s)
    <2> DEFINE new == [one EXCEPT !.at = "scan", !.undated = NoHash]
               text == EpochSecs(one.now + RecoveryTtl)
    <2>1. /\ \A path \in Paths : files'[path] = IF handle[s] = path THEN text ELSE files[path]
          /\ UNCHANGED modified
      BY <1>7, <1>a, OneFileWritten DEF PurgeStamp
    <2>2. /\ sweep' = [sweep EXCEPT ![s] = new] /\ UNCHANGED put
          /\ one.at = "stamp" /\ one.doomed = <<>> /\ Dating(s)
      BY <1>7, <1>a DEF PurgeStamp, SweepAtWork, TypeOK, Dating
    <2>3. /\ sweep'[s].at = "scan" /\ sweep'[s].todo = one.todo /\ sweep'[s].doomed = <<>>
          /\ sweep'[s].now = one.now /\ sweep'[s].alone = one.alone /\ ~Dating(s)'
      BY <1>a, <2>2 DEF TypeOK, Sweep, Dating
    <2>4. text \in Nat /\ text > one.now /\ text # NoFile /\ text # Empty
      <3>1. one.now + RecoveryTtl \in Nat
        BY <1>b
      <3>2. text \in Nat /\ one.now + RecoveryTtl < text + Second
        BY <3>1, WholeSeconds
      <3> HIDE DEF text
      <3>3. QED
        BY <1>b, <3>2 DEF Empty
    <2> HIDE DEF text, new
    <2>5. ASSUME Upkeep(s), NEW g \in Hashes
          PROVE  Cleaning(s, g)'
      <3>1. Cleaning(s, g)
        BY <2>5 DEF Upkeep
      <3>2. PICK h \in Hashes : h = one.undated /\ handle[s] = Exp(h) /\ FS!Exists(Body(h))
        BY <1>a, <2>2, <2>5 DEF Upkeep, SweepAtWork
      <3>3. /\ files'[Body(g)] = files[Body(g)] /\ files'[Tmp(g)] = files[Tmp(g)]
            /\ files'[Exp(h)] = text /\ (g # h => files'[Exp(g)] = files[Exp(g)])
        BY <1>b, <2>1, <3>2
      <3>4. /\ UNCHANGED modified /\ (g # h => handle[s] # Exp(g)) /\ <<>> # <<Tmp(g)>>
            /\ <<>> # <<Exp(g)>> /\ <<>> # <<Body(g), Exp(g)>>
        BY <1>b, <1>c, <2>1, <3>2
      <3>5. CASE g = h
        <4>1. Dated(g)' /\ ~(files'[Exp(g)] <= one.now)
          <5>1. one.now \in Nat /\ files'[Exp(g)] = text
            BY <1>b, <3>3, <3>5
          <5>2. QED
            BY <2>4, <5>1 DEF Dated, FS!Exists
        <4>2. FS!Exists(Body(g)) /\ FS!Exists(Body(g))'
          BY <3>2, <3>3, <3>5 DEF FS!Exists
        <4>3. QED
          BY <2>2, <2>3, <3>1, <3>3, <3>4, <4>1, <4>2 DEF Cleaning, FS!Exists, Stray, ExpiredAt
      <3>6. CASE g # h
        <4>1. /\ FS!Exists(Body(g))' <=> FS!Exists(Body(g))
              /\ FS!Exists(Tmp(g))' <=> FS!Exists(Tmp(g))
              /\ FS!Exists(Exp(g))' <=> FS!Exists(Exp(g))
              /\ Dated(g)' <=> Dated(g)
              /\ Stray(g, one.now)' <=> Stray(g, one.now)
              /\ ExpiredAt(g, one.now)' <=> ExpiredAt(g, one.now)
          BY <2>3, <3>3, <3>4, <3>6 DEF FS!Exists, Dated, Stray, ExpiredAt
        <4>2. one.undated # g
          BY <3>2, <3>6
        <4>3. QED
          BY <2>2, <2>3, <3>1, <3>4, <4>1, <4>2 DEF Cleaning
      <3>7. QED
        BY <3>5, <3>6
    <2>6. Upkeep(s) => Upkeep(s)'
      BY <2>3, <2>5 DEF Upkeep
    <2>7. Alone(s)' => Alone(s)
      BY <2>2, <2>3 DEF Alone
    <2>8. QED
      BY <2>2, <2>6, <2>7, AloneByOne
  <1>8. CASE PurgeRemove(s)
    <2> DEFINE new == [one EXCEPT !.doomed = Tail(one.doomed)]
    <2>1. PICK path \in Paths : path = Head(one.doomed)
      BY <1>8, <1>b DEF PurgeRemove
    <2>2. files'[path] = NoFile /\ \A other \in Paths \ {path} : files'[other] = files[other]
      BY <1>8, <2>1, OneFileRemoved DEF PurgeRemove
    <2>3. /\ sweep' = [sweep EXCEPT ![s] = new] /\ UNCHANGED put
          /\ one.at = "scan" /\ one.doomed # <<>>
          /\ \A h \in Hashes : modified'[h] = IF path = Tmp(h) THEN 0 ELSE modified[h]
      BY <1>8, <1>a, <2>1 DEF PurgeRemove, SweepAtWork
    <2>4. /\ sweep'[s].at = "scan" /\ sweep'[s].todo = one.todo /\ sweep'[s].doomed = Tail(one.doomed)
          /\ sweep'[s].now = one.now /\ sweep'[s].alone = one.alone
      BY <1>a, <2>3 DEF TypeOK, Sweep
    <2> HIDE DEF new
    <2>5. ASSUME Upkeep(s)
          PROVE  Upkeep(s)'
      <3>1. PICK h \in Hashes : one.doomed \in {<<Tmp(h)>>, <<Exp(h)>>, <<Body(h), Exp(h)>>}
        BY <2>3, <2>5 DEF Upkeep
      <3>2. \A g \in Hashes : Cleaning(s, g)
        BY <2>5 DEF Upkeep
      <3>3. CASE one.doomed = <<Tmp(h)>>
        <4>1. path = Tmp(h) /\ sweep'[s].doomed = <<>>
          BY <2>1, <2>4, <3>3
        <4>2. ASSUME NEW g \in Hashes
              PROVE  Cleaning(s, g)'
          <5>1. /\ files'[Body(g)] = files[Body(g)] /\ files'[Exp(g)] = files[Exp(g)]
                /\ g # h => files'[Tmp(g)] = files[Tmp(g)] /\ modified'[g] = modified[g]
            BY <1>b, <2>2, <2>3, <4>1
          <5>2. Cleaning(s, g) /\ (g # h => one.doomed # <<Tmp(g)>>) /\ one.doomed # <<Exp(g)>>
                /\ one.doomed # <<Body(g), Exp(g)>>
            BY <1>c, <3>2, <3>3
          <5>3. QED
            BY <1>c, <2>2, <2>3, <2>4, <4>1, <5>1, <5>2
            DEF Cleaning, Dating, FS!Exists, Stray, Dated, ExpiredAt
        <4>3. QED
          BY <2>4, <4>1, <4>2 DEF Upkeep, Dating
      <3>4. CASE one.doomed = <<Exp(h)>>
        <4>1. path = Exp(h) /\ sweep'[s].doomed = <<>>
          BY <2>1, <2>4, <3>4
        <4>2. ASSUME NEW g \in Hashes
              PROVE  Cleaning(s, g)'
          <5>1. /\ files'[Body(g)] = files[Body(g)] /\ files'[Tmp(g)] = files[Tmp(g)]
                /\ modified'[g] = modified[g] /\ (g # h => files'[Exp(g)] = files[Exp(g)])
            BY <1>b, <2>2, <2>3, <4>1
          <5>2. Cleaning(s, g) /\ one.doomed # <<Tmp(g)>> /\ (g # h => one.doomed # <<Exp(g)>>)
                /\ one.doomed # <<Body(g), Exp(g)>>
            BY <1>c, <3>2, <3>4
          <5>3. QED
            BY <1>c, <2>2, <2>3, <2>4, <3>4, <4>1, <5>1, <5>2
            DEF Cleaning, Dating, FS!Exists, Stray, Dated, ExpiredAt
        <4>3. QED
          BY <2>4, <4>1, <4>2 DEF Upkeep, Dating
      <3>5. CASE one.doomed = <<Body(h), Exp(h)>>
        <4>1. path = Body(h) /\ sweep'[s].doomed = <<Exp(h)>>
          BY <2>1, <2>4, <3>5
        <4>2. ASSUME NEW g \in Hashes
              PROVE  Cleaning(s, g)'
          <5>1. /\ files'[Exp(g)] = files[Exp(g)] /\ files'[Tmp(g)] = files[Tmp(g)]
                /\ modified'[g] = modified[g] /\ (g # h => files'[Body(g)] = files[Body(g)])
            BY <1>b, <2>2, <2>3, <4>1
          <5>2. Cleaning(s, g) /\ one.doomed # <<Tmp(g)>> /\ one.doomed # <<Exp(g)>>
                /\ (g # h => one.doomed # <<Body(g), Exp(g)>>)
            BY <1>c, <3>2, <3>5
          <5>3. QED
            BY <1>c, <2>2, <2>3, <2>4, <3>5, <4>1, <5>1, <5>2
            DEF Cleaning, Dating, FS!Exists, Stray, Dated, ExpiredAt
        <4>3. QED
          BY <2>4, <4>1, <4>2 DEF Upkeep, Dating
      <3>6. QED
        BY <3>1, <3>3, <3>4, <3>5
    <2>6. Alone(s)' => Alone(s)
      BY <2>3, <2>4 DEF Alone
    <2>7. sweep[s].at # "idle"
      BY <2>3
    <2>8. QED
      BY <2>3, <2>5, <2>6, <2>7, AloneByOne
  <1>9. CASE PurgeEnd(s) \/ PurgeCrash(s)
    <2>1. sweep' = [sweep EXCEPT ![s] = NoSweep] /\ UNCHANGED put /\ sweep[s].at # "idle"
      BY <1>9 DEF PurgeEnd, PurgeCrash, Scanning
    <2>2. ~Alone(s)'
      BY <2>1 DEF Alone, NoSweep, TypeOK
    <2>3. QED
      BY <2>1, <2>2, AloneByOne
  <1>10. QED
    BY <1>1, <1>2, <1>3, <1>4, <1>5, <1>6, <1>7, <1>8, <1>9 DEF PurgeStep

LEMMA NextSweepsAlone == TypeOK /\ AtWork /\ SweepsAlone /\ [Next]_vars => SweepsAlone'
  <1> SUFFICES ASSUME TypeOK, AtWork, SweepsAlone, [Next]_vars
               PROVE  SweepsAlone'
    OBVIOUS
  <1>1. ASSUME UNCHANGED <<directory, put, sweep>>
        PROVE  SweepsAlone'
    BY <1>1, AloneApart DEF Alone
  <1>2. CASE Tick \/ UNCHANGED vars
    BY <1>1, <1>2 DEF Tick, vars, directory
  <1>3. ASSUME NEW r \in Readers, GetStep(r) \/ (\E h \in Hashes: GetBegin(r, h))
        PROVE  SweepsAlone'
    BY <1>1, <1>3 DEF GetStep, GetBegin, GetExists, GetExpiry, GetNow, GetBody, GetFails
  <1>4. QED
    BY <1>2, <1>3, PutsLeaveAlone, SweepsLeaveAlone DEF Next

LEMMA InitSweepsAlone == Init => SweepsAlone
  BY DEF Init, SweepsAlone, NoSweep

(***************************************************************************)
(* A sweep that met nobody leaves no expired, undated or stranded file.    *)
(***************************************************************************)
THEOREM SweepsClean == Spec => SweepCleans
  <1>1. Spec => [](TypeOK /\ AtWork /\ SweepsAlone)
    BY InitTypeOK, InitAtWork, InitSweepsAlone, NextTypeOK, NextAtWork, NextSweepsAlone, PTL DEF Spec
  <1>2. ASSUME TypeOK, SweepsAlone, NEW s \in Sweepers, PurgeEnd(s), sweep[s].alone
        PROVE  Clean(sweep[s].now)
    <2>1. sweep[s].at = "scan" /\ sweep[s].todo = {} /\ sweep[s].doomed = <<>> /\ Upkeep(s)
      BY <1>2 DEF PurgeEnd, Scanning, SweepsAlone, Upkeep
    <2>2. ASSUME NEW h \in Hashes
          PROVE  /\ FS!Exists(Body(h)) => Dated(h) /\ ~ExpiredAt(h, sweep[s].now)
                 /\ FS!Exists(Exp(h)) => FS!Exists(Body(h))
                 /\ ~Stray(h, sweep[s].now)
      <3>1. Cleaning(s, h)
        BY <2>1 DEF Upkeep
      <3>2. /\ <<>> # <<Tmp(h)>> /\ <<>> # <<Exp(h)>> /\ <<>> # <<Body(h), Exp(h)>>
        BY DoomedApart
      <3>3. QED
        BY <2>1, <3>1, <3>2 DEF Cleaning, Dating, Stray
    <2>3. QED
      BY <2>2 DEF Clean
  <1>3. TypeOK /\ SweepsAlone /\ [Next]_vars =>
          [\A s \in Sweepers: PurgeEnd(s) /\ sweep[s].alone => Clean(sweep[s].now)]_vars
    BY <1>2
  <1>4. QED
    BY <1>1, <1>3, PTL DEF Spec, SweepCleans

-----------------------------------------------------------------------------
(***************************************************************************)
(* What was promised is kept                                               *)
(***************************************************************************)
\* Every original's promise, and what a lookup of it is owed, are times.
LEMMA Times ==
  ASSUME TypeOK
  PROVE  /\ clock \in Nat /\ \A h \in Hashes : promised[h] \in Nat /\ Owed(h) \in Nat
         /\ \A h \in Hashes : files[Exp(h)] \in Nat \cup {NoFile}
         /\ \A p \in Putters : put[p].until \in Nat
         /\ \A s \in Sweepers : sweep[s].now \in Nat /\ sweep[s].doomed \in Seq(Paths)
         /\ \A r \in Readers : asked[r].owed \in Nat
  <1>1. \A h \in Hashes : Exp(h) \in Paths
    BY InDirectory
  <1>2. \A h \in Hashes : promised[h] \in Nat
    BY DEF TypeOK
  <1>3. \A h \in Hashes : Owed(h) \in Nat
    BY <1>2, WholeSeconds DEF Owed
  <1>4. QED
    BY <1>1, <1>2, <1>3 DEF TypeOK, Put, Sweep, Lookup

\* A step that keeps the bodies and postpones the expiries it does not erase keeps what is owed.
LEMMA StillKept ==
  ASSUME TypeOK, Kept, UNCHANGED promised, clock' \in Nat, clock' >= clock,
         \A h \in Hashes : Owed(h) > clock' =>
            /\ FS!Exists(Body(h)) => FS!Exists(Body(h))'
            /\ Dated(h)' => \/ Dated(h) /\ files'[Exp(h)] = files[Exp(h)]
                            \/ files'[Exp(h)] >= Owed(h)
  PROVE  Kept'
  <1>1. \A h \in Hashes : Owed(h) \in Nat /\ Owed(h)' = Owed(h)
    BY Times DEF Owed
  <1>2. ASSUME NEW h \in Hashes, Owed(h) > clock'
        PROVE  FS!Exists(Body(h))' /\ (Dated(h)' => files'[Exp(h)] >= Owed(h))
    <2>1. clock \in Nat /\ Owed(h) \in Nat
      BY <1>1, Times
    <2>2. Owed(h) > clock
      BY <1>2, <2>1
    <2>3. FS!Exists(Body(h)) /\ (Dated(h) => files[Exp(h)] >= Owed(h))
      BY <2>2 DEF Kept
    <2>4. QED
      BY <1>2, <2>3
  <1>3. QED
    BY <1>1, <1>2 DEF Kept

\* What a put owes does not depend on what the others do, but for the sweeps and its promise.
LEMMA StillOwes ==
  ASSUME TypeOK, NEW p \in Putters, PutOwes(p), clock' \in Nat, clock' >= clock,
         put'[p].at = put[p].at, put'[p].hash = put[p].hash, put'[p].until = put[p].until,
         put'[p].unswept => put[p].unswept,
         Active(p) => \/ promised'[put[p].hash] = promised[put[p].hash]
                      \/ promised'[put[p].hash] <= put[p].until,
         Active(p) /\ put[p].unswept /\ put'[p].unswept =>
            /\ Sweeping' => Sweeping
            /\ FS!Exists(Body(put[p].hash)) => FS!Exists(Body(put[p].hash))'
            /\ put[p].at = "stamp" /\ handle[p] # NoPath => handle'[p] # NoPath
  PROVE  PutOwes(p)'
  <1> SUFFICES ASSUME Active(p)'
               PROVE  /\ promised'[put[p].hash] <= put[p].until /\ put[p].until <= clock' + Ttl
                      /\ put'[p].unswept =>
                           /\ ~Sweeping'
                           /\ put[p].at \in {"truncate", "stamp"} => FS!Exists(Body(put[p].hash))'
                           /\ put[p].at = "stamp" => handle'[p] # NoPath
    BY DEF PutOwes
  <1>1. Active(p)
    BY DEF Active
  <1>2. put[p].until \in Nat /\ clock \in Nat
    BY Times
  <1>3. QED
    BY <1>1, <1>2 DEF PutOwes

LEMMA StillSpares ==
  ASSUME TypeOK, NEW s \in Sweepers, SweepSpares(s), clock' \in Nat, clock' >= clock,
         sweep'[s].at = sweep[s].at, sweep'[s].now = sweep[s].now,
         sweep'[s].doomed = sweep[s].doomed, UNCHANGED promised
  PROVE  SweepSpares(s)'
  <1>1. clock \in Nat /\ sweep[s].now \in Nat /\ \A h \in Hashes : Owed(h) \in Nat /\ Owed(h)' = Owed(h)
    BY Times DEF Owed
  <1>2. QED
    BY <1>1 DEF SweepSpares

\* What a lookup is owed stays within what is promised, or runs out.
LEMMA StillOwed ==
  ASSUME TypeOK, AtWork, NEW r \in Readers, GetOwed(r), clock' \in Nat, clock' >= clock,
         get'[r] = get[r], asked'[r] = asked[r],
         \A h \in Hashes : promised'[h] \in Nat /\ promised'[h] >= promised[h]
  PROVE  GetOwed(r)'
  <1>1. asked[r].owed \in Nat /\ EpochSecs(asked[r].owed) \in Nat /\ clock \in Nat
    BY Times, WholeSeconds
  <1>2. \A h \in Hashes : promised[h] \in Nat
    BY Times
  <1>3. get[r].at # "idle" => asked[r].hash \in Hashes
    BY KnownOriginal
  <1>4. QED
    BY <1>1, <1>2, <1>3 DEF GetOwed

\* A put goes on, and promises nothing yet.
LEMMA OnePutOwes ==
  ASSUME TypeOK, Retained, NEW p \in Putters, UNCHANGED <<clock, promised, get, asked>>,
         \A s \in Sweepers : /\ sweep'[s].at = sweep[s].at /\ sweep'[s].now = sweep[s].now
                             /\ sweep'[s].doomed = sweep[s].doomed,
         \A q \in Putters \ {p} :
            /\ put'[q].at = put[q].at /\ put'[q].hash = put[q].hash /\ put'[q].until = put[q].until
            /\ put'[q].unswept => put[q].unswept
            /\ put[q].at = "stamp" /\ handle[q] # NoPath => handle'[q] # NoPath,
         \A h \in Hashes : /\ FS!Exists(Body(h)) => FS!Exists(Body(h))'
                           /\ Dated(h)' => Dated(h) /\ files'[Exp(h)] = files[Exp(h)],
         \A q \in Putters : Active(q) => put[q].hash \in Hashes,
         PutOwes(p)'
  PROVE  Retained'
  <1>1. clock' \in Nat /\ clock' >= clock /\ (Sweeping' <=> Sweeping)
    BY Times DEF Sweeping
  <1>2. Kept'
    BY <1>1, StillKept DEF Retained
  <1>3. ASSUME NEW q \in Putters
        PROVE  PutOwes(q)'
    BY <1>1, StillOwes DEF Retained
  <1>4. ASSUME NEW s \in Sweepers
        PROVE  SweepSpares(s)'
    BY <1>1, StillSpares DEF Retained
  <1>5. QED
    BY <1>2, <1>3, <1>4 DEF Retained, GetOwed

LEMMA PutsRetain ==
  ASSUME TypeOK, AtWork, Retained, NEW p \in Putters,
         PutStep(p) \/ PutAbort(p) \/ (\E h \in Hashes: PutBegin(p, h))
  PROVE  Retained'
  <1> DEFINE h == put[p].hash
  <1>a. /\ p \in Actors /\ PutAtWork(p) /\ put[p] \in Put /\ PutOwes(p)
        /\ \A g \in Hashes : Body(g) \in Paths /\ Tmp(g) \in Paths /\ Exp(g) \in Paths
        /\ \A g, k \in Hashes : Body(g) # Tmp(k) /\ Body(g) # Exp(k) /\ Tmp(g) # Exp(k)
        /\ \A g, k \in Hashes : g # k => /\ Body(g) # Body(k) /\ Tmp(g) # Tmp(k)
                                         /\ Exp(g) # Exp(k)
        /\ \A g \in Hashes : NoPath \notin {Body(g), Tmp(g), Exp(g)}
    BY InDirectory, Apart, PathAssumption DEF TypeOK, AtWork, Retained, Actors
  <1>b. /\ \A q \in Putters : Active(q) => put[q].hash \in Hashes
        /\ \A q \in Putters \ {p} : q \in Actors \ {p}
    BY KnownOriginal DEF Actors
  <1>c. clock \in Nat /\ put[p].until \in Nat /\ \A g \in Hashes : promised[g] \in Nat
    BY Times
  <1>d. ASSUME NEW new \in Put, put' = [put EXCEPT ![p] = new]
        PROVE  put'[p] = new /\ \A q \in Putters \ {p} : put'[q] = put[q]
    BY <1>d DEF TypeOK
  <1>e. NoPut \in Put /\ \A step \in PutSteps : [put[p] EXCEPT !.at = step] \in Put
    <2>1. ASSUME NEW step \in PutSteps
          PROVE  [put[p] EXCEPT !.at = step] \in Put
      BY <1>a DEF Put
    <2>2. NoPut \in Put
      BY DEF NoPut, Put, PutSteps
    <2>3. QED
      BY <2>1, <2>2
  <1>f. ASSUME put' = [put EXCEPT ![p] = NoPut]
        PROVE  PutOwes(p)'
    BY <1>f DEF TypeOK, PutOwes, Active, NoPut
  <1>g. ASSUME NEW step \in PutSteps, put' = [put EXCEPT ![p].at = step]
        PROVE  /\ put'[p].at = step /\ put'[p].hash = h /\ put'[p].until = put[p].until
               /\ put'[p].unswept = put[p].unswept
               /\ \A q \in Putters \ {p} : put'[q] = put[q]
    BY <1>a, <1>g DEF TypeOK, Put
  <1>1. ASSUME NEW g \in Hashes, PutBegin(p, g)
        PROVE  Retained'
    <2>1. /\ put'[p].at = "create" /\ put'[p].hash = g /\ put'[p].until = clock + Ttl
          /\ put'[p].unswept = ~Sweeping /\ \A q \in Putters \ {p} : put'[q] = put[q]
          /\ UNCHANGED <<clock, files, handle, promised, get, asked>>
      BY <1>1 DEF PutBegin, TypeOK, directory
    <2>2. \A s \in Sweepers : /\ sweep'[s].at = sweep[s].at /\ sweep'[s].now = sweep[s].now
                              /\ sweep'[s].doomed = sweep[s].doomed
      BY <1>1 DEF PutBegin, TypeOK, Sweep
    <2>3. \A k \in Hashes : /\ FS!Exists(Body(k)) => FS!Exists(Body(k))'
                            /\ Dated(k)' => Dated(k) /\ files'[Exp(k)] = files[Exp(k)]
      BY <2>1 DEF FS!Exists, Dated
    <2>4. PutOwes(p)'
      <3>1. Sweeping' <=> Sweeping
        BY <2>2 DEF Sweeping
      <3>2. promised[g] <= clock + Ttl
        BY DEF Retained
      <3>3. put'[p].unswept => ~Sweeping'
        BY <2>1, <3>1
      <3>4. promised'[g] <= put'[p].until /\ put'[p].until <= clock' + Ttl
        BY <1>c, <2>1, <3>2, TtlAssumption
      <3>5. QED
        BY <2>1, <3>3, <3>4 DEF PutOwes
    <2>5. QED
      BY <1>b, <2>1, <2>2, <2>3, <2>4, OnePutOwes
  <1>2. CASE PutCreate(p)
    <2>1. Active(p) /\ h \in Hashes /\ put[p].at = "create"
      BY <1>2, <1>b DEF PutCreate, Active
    <2>2. /\ \A other \in Paths : files'[other] = IF other = Tmp(h) THEN Empty ELSE files[other]
          /\ \A b \in Actors \ {p} : handle'[b] = handle[b]
      BY <1>2, <1>a, <2>1, OneFileCreated DEF PutCreate
    <2>3. /\ put'[p].at = "write" /\ UNCHANGED <<clock, promised, get, sweep, asked>>
          /\ \A q \in Putters : /\ put'[q].hash = put[q].hash /\ put'[q].until = put[q].until
                                /\ put'[q].unswept = put[q].unswept
          /\ \A q \in Putters \ {p} : put'[q].at = put[q].at
      BY <1>2, <2>1, WhoWrites DEF PutCreate
    <2>4. \A k \in Hashes : files'[Body(k)] = files[Body(k)] /\ files'[Exp(k)] = files[Exp(k)]
      BY <1>a, <2>1, <2>2
    <2>5. \A k \in Hashes : /\ FS!Exists(Body(k)) => FS!Exists(Body(k))'
                            /\ Dated(k)' => Dated(k) /\ files'[Exp(k)] = files[Exp(k)]
      BY <2>4 DEF FS!Exists, Dated
    <2>6. PutOwes(p)'
      <3>1. Sweeping' <=> Sweeping
        BY <2>3 DEF Sweeping
      <3>2. QED
        BY <1>a, <2>1, <2>3, <3>1 DEF PutOwes
    <2>7. QED
      BY <1>b, <2>2, <2>3, <2>5, <2>6, OnePutOwes
  <1>3. CASE PutWrite(p)
    <2>1. /\ \A path \in Paths : files'[path] = IF handle[p] = path THEN Whole ELSE files[path]
          /\ \A b \in Actors \ {p} : handle'[b] = handle[b]
      BY <1>3, <1>a, OneFileWritten DEF PutWrite
    <2>2. \A g \in Hashes : handle[p] # Exp(g)
      BY <1>3, <1>a, <1>b DEF PutWrite, PutAtWork, Active
    <2>3. \A g \in Hashes : /\ FS!Exists(Body(g)) => FS!Exists(Body(g))'
                            /\ Dated(g)' => Dated(g) /\ files'[Exp(g)] = files[Exp(g)]
      BY <1>a, <2>1, <2>2 DEF FS!Exists, Dated, Whole
    <2>4. UNCHANGED <<clock, get, sweep, promised, asked>> /\ put' = [put EXCEPT ![p].at = "rename"]
      BY <1>3 DEF PutWrite, history
    <2>5. PutOwes(p)'
      <3>1. put'[p].at = "rename" /\ put'[p].hash = h /\ put'[p].until = put[p].until
            /\ put'[p].unswept = put[p].unswept
        BY <1>g, <2>4 DEF PutSteps
      <3>2. Active(p)
        BY <1>3 DEF PutWrite, Active
      <3>3. Sweeping' <=> Sweeping
        BY <2>4 DEF Sweeping
      <3>4. QED
        BY <1>a, <2>4, <3>1, <3>2, <3>3 DEF PutOwes
    <2>6. \A q \in Putters \ {p} : put'[q] = put[q]
      BY <1>g, <2>4 DEF PutSteps
    <2>7. QED
      BY <1>b, <2>1, <2>3, <2>4, <2>5, <2>6, OnePutOwes
  <1>4. CASE PutRename(p)
    <2>1. Active(p) /\ h \in Hashes
      BY <1>4, <1>b DEF PutRename, Active
    <2>2. /\ files[Tmp(h)] # NoFile /\ files'[Body(h)] = files[Tmp(h)]
          /\ \A path \in Paths \ {Tmp(h), Body(h)} : files'[path] = files[path]
          /\ \A a \in Actors : handle[a] \notin {Tmp(h), Body(h)} => handle'[a] = handle[a]
      BY <1>4, <1>a, <2>1, OneFileRenamed DEF PutRename
    <2>3. \A g \in Hashes : /\ FS!Exists(Body(g)) => FS!Exists(Body(g))'
                            /\ files'[Exp(g)] = files[Exp(g)]
      BY <1>a, <2>1, <2>2 DEF FS!Exists
    <2>4. /\ UNCHANGED <<clock, get, sweep, promised, asked>>
          /\ put'[p].at = "truncate" /\ put'[p].hash = h /\ put'[p].until = put[p].until
          /\ put'[p].unswept = put[p].unswept
          /\ \A q \in Putters \ {p} : put'[q] = put[q]
      BY <1>4, <1>a DEF PutRename, TypeOK, Put
    <2>5. PutOwes(p)'
      <3>1. files'[Body(h)] # NoFile
        BY <2>2
      <3>2. Sweeping' <=> Sweeping
        BY <2>4 DEF Sweeping
      <3>3. QED
        BY <1>a, <2>1, <2>4, <3>1, <3>2 DEF PutOwes, FS!Exists
    <2>6. ASSUME NEW q \in Putters \ {p}, put[q].at = "stamp"
          PROVE  handle'[q] = handle[q]
      <3>1. PutAtWork(q) /\ Active(q) /\ put[q].hash \in Hashes /\ q \in Actors
        BY <1>b, <2>6 DEF AtWork, Active
      <3>2. handle[q] = NoPath \/ handle[q] = Exp(put[q].hash)
        BY <2>6, <3>1 DEF PutAtWork
      <3>3. QED
        BY <1>a, <2>1, <2>2, <3>1, <3>2
    <2>7. \A g \in Hashes : Dated(g)' => Dated(g)
      BY <2>3 DEF Dated, FS!Exists
    <2>8. QED
      BY <1>b, <2>3, <2>4, <2>5, <2>6, <2>7, OnePutOwes
  <1>5. CASE PutRenameFails(p) \/ PutAbort(p)
    <2>1. /\ UNCHANGED <<clock, files, get, sweep, promised, asked>> /\ put' = [put EXCEPT ![p] = NoPut]
          /\ \A b \in Actors \ {p} : handle'[b] = handle[b]
      BY <1>5 DEF PutRenameFails, PutAbort, FS!Close, directory, history, TypeOK
    <2>2. PutOwes(p)' /\ \A q \in Putters \ {p} : put'[q] = put[q]
      BY <1>d, <1>e, <1>f, <2>1
    <2>3. \A g \in Hashes : /\ FS!Exists(Body(g)) => FS!Exists(Body(g))'
                            /\ Dated(g)' => Dated(g) /\ files'[Exp(g)] = files[Exp(g)]
      BY <2>1 DEF FS!Exists, Dated
    <2>4. QED
      BY <1>b, <2>1, <2>2, <2>3, OnePutOwes
  <1>6. CASE PutTruncateSidecar(p)
    <2>1. Active(p) /\ h \in Hashes /\ put[p].at = "truncate"
      BY <1>6, <1>b DEF PutTruncateSidecar, Active
    <2>2. /\ \A other \in Paths : files'[other] = IF other = Exp(h) THEN Empty ELSE files[other]
          /\ handle'[p] = Exp(h) /\ \A b \in Actors \ {p} : handle'[b] = handle[b]
      BY <1>6, <1>a, <2>1, OneFileCreated DEF PutTruncateSidecar
    <2>3. \A g \in Hashes : files'[Body(g)] = files[Body(g)]
      BY <1>a, <2>1, <2>2
    <2>4. \A g \in Hashes : /\ FS!Exists(Body(g)) => FS!Exists(Body(g))'
                            /\ Dated(g)' => Dated(g) /\ files'[Exp(g)] = files[Exp(g)]
      BY <1>a, <2>1, <2>2, <2>3 DEF FS!Exists, Dated
    <2>5. UNCHANGED <<clock, get, sweep, promised, asked>> /\ put' = [put EXCEPT ![p].at = "stamp"]
      BY <1>6 DEF PutTruncateSidecar, history
    <2>6. PutOwes(p)'
      <3>1. put'[p].at = "stamp" /\ put'[p].hash = h /\ put'[p].until = put[p].until
            /\ put'[p].unswept = put[p].unswept
        BY <1>g, <2>5 DEF PutSteps
      <3>2. handle'[p] # NoPath
        BY <1>a, <2>1, <2>2
      <3>3. Sweeping' <=> Sweeping
        BY <2>5 DEF Sweeping
      <3>4. files'[Body(h)] = files[Body(h)]
        BY <2>1, <2>3
      <3>5. QED
        BY <1>a, <2>1, <2>5, <3>1, <3>2, <3>3, <3>4 DEF PutOwes, FS!Exists
    <2>7. \A q \in Putters \ {p} : put'[q] = put[q]
      BY <1>g, <2>5 DEF PutSteps
    <2>8. QED
      BY <1>b, <2>2, <2>4, <2>5, <2>6, <2>7, OnePutOwes
  <1>7. CASE PutStamp(p)
    <2> DEFINE until == put[p].until
               counts == Promised(p) # promised[h]
    <2>1. Active(p) /\ h \in Hashes /\ put[p].at = "stamp"
      BY <1>7, <1>b DEF PutStamp, Active
    <2>2. /\ \A path \in Paths : files'[path] =
               IF handle[p] = path THEN EpochSecs(until) ELSE files[path]
          /\ \A b \in Actors \ {p} : handle'[b] = handle[b]
      BY <1>7, <1>a, OneFileWritten DEF PutStamp
    <2>3. /\ UNCHANGED <<clock, get, sweep, asked>> /\ put' = [put EXCEPT ![p] = NoPut]
          /\ promised' = [promised EXCEPT ![h] = Promised(p)]
      BY <1>7 DEF PutStamp
    <2>4. PutOwes(p)' /\ \A q \in Putters \ {p} : put'[q] = put[q]
      BY <1>d, <1>e, <1>f, <2>3
    <2>5. /\ promised[h] <= until /\ until <= clock + Ttl
          /\ put[p].unswept => ~Sweeping /\ FS!Exists(Body(h)) /\ handle[p] = Exp(h)
      BY <1>a, <2>1 DEF PutOwes, PutAtWork
    <2>a. /\ Promised(p) \in Nat /\ Promised(p) >= promised[h]
          /\ counts => put[p].unswept /\ \A q \in PutsOf(h) : Promised(p) <= put[q].until
          /\ p \in PutsOf(h)
      BY <2>1, PromisedIs DEF PutsOf
    <2>6. /\ \A g \in Hashes : promised'[g] = IF g = h THEN Promised(p) ELSE promised[g]
          /\ promised' \in [Hashes -> Nat]
          /\ \A g \in Hashes : promised'[g] >= promised[g] /\ promised'[g] \in Nat
      BY <1>c, <2>1, <2>3, <2>a DEF TypeOK
    <2>b. counts => Promised(p) <= until
      BY <2>a
    <2> HIDE DEF counts
    <2>7. /\ \A g \in Hashes : files'[Body(g)] = files[Body(g)]
          /\ \A g \in Hashes \ {h} : files'[Exp(g)] = files[Exp(g)]
          /\ files'[Exp(h)] = IF handle[p] = Exp(h) THEN EpochSecs(until) ELSE files[Exp(h)]
      <3>1. handle[p] = NoPath \/ handle[p] = Exp(h)
        BY <1>a, <2>1 DEF PutAtWork
      <3>2. QED
        BY <1>a, <2>1, <2>2, <3>1
    <2>8. Kept'
      <3> SUFFICES ASSUME NEW g \in Hashes, Owed(g)' > clock
                   PROVE  FS!Exists(Body(g))' /\ (Dated(g)' => files'[Exp(g)] >= Owed(g)')
        BY <2>3 DEF Kept
      <3>1. FS!Exists(Body(g)) => FS!Exists(Body(g))'
        BY <2>7 DEF FS!Exists
      <3>2. EpochSecs(until) \in Nat /\ EpochSecs(promised[h]) <= EpochSecs(until)
        BY <1>c, <2>1, <2>5, WholeSeconds, InOrder
      <3>3. CASE g = h /\ counts
        <4>1. EpochSecs(Promised(p)) <= EpochSecs(until)
          BY <1>c, <2>a, <2>b, <3>3, InOrder
        <4>2. Owed(g)' = EpochSecs(Promised(p)) /\ files'[Exp(g)] = EpochSecs(until)
          BY <2>1, <2>5, <2>6, <2>7, <2>a, <3>3 DEF Owed
        <4>3. QED
          BY <2>5, <2>a, <3>1, <3>3, <4>1, <4>2
      <3>4. CASE g = h /\ ~counts
        <4>1. Owed(g)' = EpochSecs(promised[h]) /\ Owed(g) = EpochSecs(promised[h])
          BY <2>1, <2>6, <3>4 DEF Owed, counts
        <4>2. FS!Exists(Body(g)) /\ (Dated(g) => files[Exp(g)] >= Owed(g))
          BY <4>1 DEF Retained, Kept
        <4>3. files'[Exp(g)] = files[Exp(g)] => (Dated(g)' => Dated(g))
          BY DEF Dated, FS!Exists
        <4>4. files'[Exp(g)] = files[Exp(g)] \/ files'[Exp(g)] = EpochSecs(until)
          BY <2>7, <3>4
        <4>5. CASE files'[Exp(g)] = files[Exp(g)]
          BY <3>1, <4>1, <4>2, <4>3, <4>5
        <4>6. CASE files'[Exp(g)] = EpochSecs(until)
          BY <3>1, <3>2, <4>1, <4>2, <4>6
        <4>7. QED
          BY <4>4, <4>5, <4>6
      <3>5. CASE g # h
        <4>1. Owed(g)' = Owed(g)
          BY <2>6, <3>5 DEF Owed
        <4>2. FS!Exists(Body(g)) /\ (Dated(g) => files[Exp(g)] >= Owed(g))
          BY <4>1 DEF Retained, Kept
        <4>3. files'[Exp(g)] = files[Exp(g)] /\ (Dated(g)' => Dated(g))
          BY <2>7, <3>5 DEF Dated, FS!Exists
        <4>4. QED
          BY <3>1, <4>1, <4>2, <4>3
      <3>6. QED
        BY <3>3, <3>4, <3>5
    <2>9. \A g \in Hashes : promised'[g] <= clock' + Ttl
      <3>1. \A g \in Hashes : promised[g] <= clock + Ttl
        BY DEF Retained
      <3>2. Promised(p) <= clock + Ttl
        BY <1>c, <2>1, <2>5, <2>a, <2>b, <3>1 DEF counts
      <3>3. QED
        BY <2>3, <2>6, <3>1, <3>2
    <2>10. ASSUME NEW q \in Putters \ {p}
           PROVE  PutOwes(q)'
      <3>1. PutOwes(q) /\ (Active(q) => put[q].hash \in Hashes) /\ put'[q] = put[q]
        BY <1>b, <2>4 DEF Retained
      <3>2. Active(q) => \/ promised'[put[q].hash] = promised[put[q].hash]
                         \/ promised'[put[q].hash] <= put[q].until
        <4>1. Active(q) /\ put[q].hash = h => q \in PutsOf(h)
          BY DEF Active, PutsOf
        <4>2. QED
          BY <2>6, <2>a, <3>1, <4>1 DEF counts
      <3>3. handle'[q] = handle[q] /\ (Sweeping' <=> Sweeping) /\ clock' = clock
        BY <1>b, <2>2, <2>3 DEF Sweeping
      <3>4. Active(q) => (FS!Exists(Body(put[q].hash)) => FS!Exists(Body(put[q].hash))')
        BY <2>7, <3>1 DEF FS!Exists
      <3>5. QED
        BY <1>c, <3>1, <3>2, <3>3, <3>4, StillOwes
    <2>11. ASSUME NEW s \in Sweepers
           PROVE  SweepSpares(s)'
      <3>1. CASE counts
        BY <2>3, <2>5, <2>a, <3>1 DEF SweepSpares, Sweeping
      <3>2. CASE ~counts
        <4>1. UNCHANGED promised
          BY <2>3, <3>2 DEF counts, TypeOK
        <4>2. QED
          BY <1>c, <2>3, <4>1, StillSpares DEF Retained
      <3>3. QED
        BY <3>1, <3>2
    <2>12. \A r \in Readers : GetOwed(r)'
      BY <1>c, <2>3, <2>6, StillOwed DEF Retained
    <2>13. QED
      BY <2>4, <2>8, <2>9, <2>10, <2>11, <2>12 DEF Retained
  <1>8. QED
    BY <1>1, <1>2, <1>3, <1>4, <1>5, <1>6, <1>7 DEF PutStep

LEMMA GetsRetain ==
  ASSUME TypeOK, AtWork, Retained, NEW r \in Readers, GetStep(r) \/ (\E h \in Hashes: GetBegin(r, h))
  PROVE  Retained'
  <1>a. UNCHANGED <<clock, directory, put, sweep, promised>>
    BY DEF GetStep, GetBegin, GetExists, GetExpiry, GetNow, GetBody, GetFails, history
  <1>b. ASSUME GetOwed(r)', \A q \in Readers \ {r} : get'[q] = get[q] /\ asked'[q] = asked[q]
        PROVE  Retained'
    <2>1. Kept' /\ \A p \in Putters : PutOwes(p)'
      BY <1>a DEF Retained, Kept, PutOwes, Active, Owed, Dated, FS!Exists, Sweeping, directory
    <2>2. \A s \in Sweepers : SweepSpares(s)'
      BY <1>a DEF Retained, SweepSpares, Owed
    <2>3. \A q \in Readers \ {r} : GetOwed(q)'
      BY <1>a, <1>b DEF Retained, GetOwed
    <2>4. QED
      BY <1>a, <1>b, <2>1, <2>2, <2>3 DEF Retained
  <1>c. ASSUME NEW answer, AnswerWith(r, answer)
        PROVE  Retained'
    <2>1. get'[r].at = "idle" /\ \A q \in Readers \ {r} : get'[q] = get[q] /\ asked'[q] = asked[q]
      BY <1>c DEF AnswerWith, TypeOK, NoGet
    <2>2. QED
      BY <1>b, <2>1 DEF GetOwed
  <1>d. ASSUME get[r].at # "idle", NEW step, NEW expiry, GoOn(r, step, expiry),
               step = "now" => EpochSecs(asked[r].owed) <= clock \/ EpochSecs(asked[r].owed) <= expiry
        PROVE  Retained'
    <2>1. /\ get'[r].at = step /\ get'[r].expiry = expiry /\ UNCHANGED asked
          /\ \A q \in Readers \ {r} : get'[q] = get[q]
      BY <1>d DEF GoOn, TypeOK
    <2>2. GetOwed(r)'
      BY <1>a, <1>d, <2>1 DEF Retained, GetOwed
    <2>3. QED
      BY <1>b, <2>1, <2>2
  <1>1. ASSUME NEW h \in Hashes, GetBegin(r, h)
        PROVE  Retained'
    <2>1. /\ get'[r].at = "exists" /\ asked'[r].hash = h /\ asked'[r].owed = promised[h]
          /\ \A q \in Readers \ {r} : get'[q] = get[q] /\ asked'[q] = asked[q]
      BY <1>1 DEF GetBegin, TypeOK
    <2>2. promised[h] \in Nat
      BY Times
    <2>3. GetOwed(r)'
      BY <1>a, <2>1, <2>2 DEF GetOwed
    <2>4. QED
      BY <1>b, <2>1, <2>3
  <1>2. CASE GetExists(r)
    BY <1>2, <1>c, <1>d DEF GetExists
  \* The sidecar that is read holds what is owed, unless nothing is any more.
  <1>3. CASE GetExpiry(r)
    <2>1. PICK h \in Hashes : h = asked[r].hash
      BY <1>3, KnownOriginal DEF GetExpiry
    <2>2. get[r].at = "expiry"
      BY <1>3 DEF GetExpiry
    <2>3. EpochSecs(asked[r].owed) <= Owed(h)
      <3>1. asked[r].owed <= promised[h] /\ asked[r].owed \in Nat /\ promised[h] \in Nat
        BY <2>1, <2>2, Times DEF Retained, GetOwed
      <3>2. QED
        BY <3>1, InOrder DEF Owed
    <2>4. Dated(h) => Owed(h) <= clock \/ Owed(h) <= files[Exp(h)]
      <3>1. Owed(h) \in Nat /\ clock \in Nat /\ files[Exp(h)] \in Nat \cup {NoFile}
        BY Times
      <3>2. QED
        BY <3>1 DEF Retained, Kept, Dated, FS!Exists
    <2>5. Dated(h) => \/ EpochSecs(asked[r].owed) <= clock
                      \/ EpochSecs(asked[r].owed) <= files[Exp(h)]
      <3>1. Owed(h) \in Nat /\ clock \in Nat /\ files[Exp(h)] \in Nat \cup {NoFile}
            /\ EpochSecs(asked[r].owed) \in Nat
        BY Times, WholeSeconds
      <3>2. Dated(h) => files[Exp(h)] \in Nat
        BY <3>1 DEF Dated, FS!Exists
      <3>3. QED
        BY <2>3, <2>4, <3>1, <3>2
    <2>6. QED
      BY <1>3, <1>d, <2>1, <2>2, <2>5 DEF GetExpiry
  <1>4. CASE GetNow(r)
    BY <1>4, <1>c, <1>d DEF GetNow
  <1>5. CASE GetBody(r)
    BY <1>5, <1>c DEF GetBody
  <1>6. CASE GetFails(r)
    BY <1>6, <1>c DEF GetFails
  <1>7. QED
    BY <1>1, <1>2, <1>3, <1>4, <1>5, <1>6 DEF GetStep

\* While a sweep is at work no put counts as unswept, so only what is kept is at stake.
LEMMA OneSweepSpares ==
  ASSUME TypeOK, AtWork, Retained, NEW s \in Sweepers, sweep[s].at # "idle",
         UNCHANGED <<clock, promised, put, get, asked>>,
         \A t \in Sweepers \ {s} : sweep'[t] = sweep[t],
         SweepSpares(s)', Kept'
  PROVE  Retained'
  <1>1. clock' \in Nat /\ clock' >= clock /\ Sweeping
    BY Times DEF Sweeping
  <1>2. ASSUME NEW p \in Putters
        PROVE  PutOwes(p)'
    <2>1. PutOwes(p) /\ (Active(p) => ~put[p].unswept)
      BY <1>1 DEF Retained, PutOwes
    <2>2. QED
      BY <1>1, <2>1, StillOwes
  <1>3. ASSUME NEW t \in Sweepers \ {s}
        PROVE  SweepSpares(t)'
    BY <1>1, StillSpares DEF Retained
  <1>4. QED
    BY <1>2, <1>3 DEF Retained, GetOwed

LEMMA SweepsRetain ==
  ASSUME TypeOK, AtWork, Retained, NEW s \in Sweepers,
         PurgeBegin(s) \/ PurgeStep(s) \/ PurgeCrash(s)
  PROVE  Retained'
  <1> DEFINE one == sweep[s]
  <1>a. /\ s \in Actors /\ SweepAtWork(s) /\ SweepSpares(s) /\ one \in Sweep
        /\ \A h \in Hashes : Body(h) \in Paths /\ Tmp(h) \in Paths /\ Exp(h) \in Paths
        /\ \A g, h \in Hashes : Body(g) # Tmp(h) /\ Body(g) # Exp(h) /\ Tmp(g) # Exp(h)
        /\ \A g, h \in Hashes : g # h => Body(g) # Body(h) /\ Exp(g) # Exp(h)
        /\ \A h \in Hashes : NoPath \notin {Body(h), Tmp(h), Exp(h)}
    BY InDirectory, Apart, PathAssumption DEF TypeOK, AtWork, Retained, Actors
  <1>b. /\ clock \in Nat /\ one.now \in Nat /\ one.todo \subseteq Paths /\ one.doomed \in Seq(Paths)
        /\ \A h \in Hashes : /\ promised[h] \in Nat /\ Owed(h) \in Nat
                             /\ files[Exp(h)] \in Nat \cup {NoFile}
    BY <1>a, Times DEF Sweep
  <1>c. ASSUME UNCHANGED files
        PROVE  UNCHANGED <<clock, promised>> => Kept'
    BY <1>c DEF Retained, Kept, Owed, Dated, FS!Exists
  <1>d. ASSUME NEW path, NEW doomed \in Seq(Paths), Decide(s, path, doomed), Scanning(s),
               \A i \in DOMAIN doomed, h \in Hashes : doomed[i] \in {Body(h), Exp(h)} => Owed(h) <= clock
        PROVE  Retained'
    <2> DEFINE new == [one EXCEPT !.todo = one.todo \ {path}, !.doomed = doomed]
    <2>1. /\ sweep' = [sweep EXCEPT ![s] = new] /\ one.at = "scan"
          /\ UNCHANGED <<clock, files, promised, put, get, asked>>
      BY <1>d DEF Decide, Scanning, directory, history
    <2>2. /\ sweep'[s].now = one.now /\ sweep'[s].doomed = doomed
          /\ \A t \in Sweepers \ {s} : sweep'[t] = sweep[t]
      BY <1>a, <2>1 DEF TypeOK, Sweep
    <2>3. SweepSpares(s)'
      BY <1>a, <1>d, <2>1, <2>2 DEF SweepSpares, Owed
    <2>4. QED
      BY <1>c, <2>1, <2>2, <2>3, OneSweepSpares
  <1>e. ASSUME NEW new \in Sweep, sweep' = [sweep EXCEPT ![s] = new], new.now = one.now,
               new.doomed = <<>>, one.at # "idle", UNCHANGED <<clock, promised>>
        PROVE  SweepSpares(s)' /\ \A t \in Sweepers \ {s} : sweep'[t] = sweep[t]
    <2>1. sweep'[s] = new /\ \A t \in Sweepers \ {s} : sweep'[t] = sweep[t]
      BY <1>e DEF TypeOK
    <2>2. QED
      BY <1>a, <1>e, <2>1 DEF SweepSpares, Owed
  <1>1. CASE PurgeBegin(s)
    <2>1. UNCHANGED <<clock, files, handle, promised, get, asked>>
      BY <1>1 DEF PurgeBegin, directory, history
    <2>2. /\ sweep'[s].now = clock /\ sweep'[s].doomed = <<>>
      BY <1>1 DEF PurgeBegin
    <2>3. ASSUME NEW t \in Sweepers \ {s}
          PROVE  /\ sweep'[t].at = sweep[t].at /\ sweep'[t].now = sweep[t].now
                 /\ sweep'[t].doomed = sweep[t].doomed
      BY <1>1, <2>3 DEF PurgeBegin, TypeOK, Sweep
    <2>4. ASSUME NEW p \in Putters
          PROVE  /\ put'[p].at = put[p].at /\ put'[p].hash = put[p].hash
                 /\ put'[p].until = put[p].until /\ ~put'[p].unswept
      BY <1>1, <2>4 DEF PurgeBegin, TypeOK, Put
    <2>5. Kept' /\ \A h \in Hashes : promised[h] <= clock + Ttl
      BY <1>c, <2>1 DEF Retained
    <2>6. SweepSpares(s)'
      BY <1>b, <2>1, <2>2, <2>5 DEF SweepSpares
    <2>7. \A p \in Putters : PutOwes(p)'
      BY <1>b, <2>1, <2>4, StillOwes DEF Retained
    <2>8. \A t \in Sweepers \ {s} : SweepSpares(t)'
      BY <1>b, <2>1, <2>3, StillSpares DEF Retained
    <2>9. QED
      BY <2>1, <2>5, <2>6, <2>7, <2>8 DEF Retained, GetOwed
  <1>2. ASSUME NEW h \in Hashes, PurgeTemporary(s, h)
        PROVE  Retained'
    <2> DEFINE doomed == IF Stray(h, one.now) THEN <<Tmp(h)>> ELSE <<>>
    <2>1. Scanning(s) /\ Decide(s, Tmp(h), doomed)
      BY <1>2 DEF PurgeTemporary
    <2>2. /\ doomed \in Seq(Paths)
          /\ \A i \in DOMAIN doomed, g \in Hashes : doomed[i] \notin {Body(g), Exp(g)}
      BY <1>a
    <2> HIDE DEF doomed
    <2>3. QED
      BY <1>d, <2>1, <2>2
  <1>3. ASSUME NEW h \in Hashes, PurgeSidecar(s, h)
        PROVE  Retained'
    <2> DEFINE doomed == IF FS!Exists(Body(h)) THEN <<>> ELSE <<Exp(h)>>
    <2>1. Scanning(s) /\ Decide(s, Exp(h), doomed)
      BY <1>3 DEF PurgeSidecar
    <2>2. ~FS!Exists(Body(h)) => Owed(h) <= clock
      BY <1>b DEF Retained, Kept
    <2>3. /\ doomed \in Seq(Paths)
          /\ \A i \in DOMAIN doomed, g \in Hashes : doomed[i] \in {Body(g), Exp(g)} => Owed(g) <= clock
      BY <1>a, <2>2
    <2> HIDE DEF doomed
    <2>4. QED
      BY <1>d, <2>1, <2>3
  <1>4. ASSUME NEW h \in Hashes, PurgeDated(s, h)
        PROVE  Retained'
    <2> DEFINE doomed == IF ExpiredAt(h, one.now) THEN <<Body(h), Exp(h)>> ELSE <<>>
    <2>1. Scanning(s) /\ Decide(s, Body(h), doomed) /\ one.at # "idle"
      BY <1>4 DEF PurgeDated, Scanning
    <2>2. ExpiredAt(h, one.now) => Owed(h) <= clock
      <3> SUFFICES ASSUME ExpiredAt(h, one.now), Owed(h) > clock
                   PROVE  FALSE
        BY <1>b
      <3>1. files[Exp(h)] >= Owed(h) /\ files[Exp(h)] <= one.now /\ files[Exp(h)] \in Nat
        BY <1>b DEF Retained, Kept, ExpiredAt, Dated, FS!Exists
      <3>2. one.now <= clock
        BY <1>a, <2>1 DEF SweepSpares
      <3>3. QED
        BY <1>b, <3>1, <3>2
    <2>3. /\ doomed \in Seq(Paths)
          /\ \A i \in DOMAIN doomed, g \in Hashes : doomed[i] \in {Body(g), Exp(g)} => g = h /\ ExpiredAt(h, one.now)
      BY <1>a
    <2> HIDE DEF doomed
    <2>4. QED
      BY <1>d, <2>1, <2>2, <2>3
  <1>5. ASSUME NEW h \in Hashes, PurgeUndated(s, h)
        PROVE  Retained'
    <2> DEFINE new == [one EXCEPT !.todo = one.todo \ {Body(h)}, !.at = "date", !.undated = h]
    <2>1. /\ sweep' = [sweep EXCEPT ![s] = new] /\ one.at = "scan" /\ one.doomed = <<>>
          /\ UNCHANGED <<clock, files, promised, put, get, asked>>
      BY <1>5 DEF PurgeUndated, Scanning, directory, history
    <2>2. new \in Sweep /\ new.now = one.now /\ new.doomed = <<>>
      BY <1>a, <2>1 DEF Sweep, SweepSteps
    <2> HIDE DEF new
    <2>3. QED
      BY <1>c, <1>e, <2>1, <2>2, OneSweepSpares
  <1>6. CASE PurgeTruncateSidecar(s)
    <2> DEFINE new == [one EXCEPT !.at = "stamp"]
               h == one.undated
    <2>1. one.at = "date" /\ one.doomed = <<>> /\ h \in Hashes
      BY <1>6, <1>a DEF PurgeTruncateSidecar, SweepAtWork, Dating
    <2>2. \A other \in Paths : files'[other] = IF other = Exp(h) THEN Empty ELSE files[other]
      BY <1>6, <1>a, <2>1, OneFileCreated DEF PurgeTruncateSidecar
    <2>3. /\ sweep' = [sweep EXCEPT ![s] = new]
          /\ UNCHANGED <<clock, promised, put, get, asked>>
      BY <1>6 DEF PurgeTruncateSidecar, history
    <2>4. new \in Sweep /\ new.now = one.now /\ new.doomed = <<>>
      BY <1>a, <2>1 DEF Sweep, SweepSteps
    <2> HIDE DEF new
    <2>5. Kept'
      <3>1. \A g \in Hashes : files'[Body(g)] = files[Body(g)]
        BY <1>a, <2>1, <2>2
      <3>2. \A g \in Hashes : Dated(g)' => files'[Exp(g)] = files[Exp(g)]
        BY <1>a, <2>1, <2>2 DEF Dated
      <3>3. \A g \in Hashes : Dated(g)' => Dated(g)
        BY <3>2 DEF Dated, FS!Exists
      <3>4. QED
        BY <1>b, <2>3, <3>1, <3>2, <3>3, StillKept DEF Retained, FS!Exists
    <2>6. QED
      BY <1>e, <2>1, <2>3, <2>4, <2>5, OneSweepSpares
  <1>7. CASE PurgeStamp(s)
    <2> DEFINE new == [one EXCEPT !.at = "scan", !.undated = NoHash]
               text == EpochSecs(one.now + RecoveryTtl)
    <2>1. \A path \in Paths : files'[path] = IF handle[s] = path THEN text ELSE files[path]
      BY <1>7, <1>a, OneFileWritten DEF PurgeStamp
    <2>2. /\ sweep' = [sweep EXCEPT ![s] = new] /\ one.at = "stamp" /\ one.doomed = <<>>
          /\ UNCHANGED <<clock, promised, put, get, asked>>
      BY <1>7, <1>a DEF PurgeStamp, SweepAtWork, history, TypeOK
    <2>3. new \in Sweep /\ new.now = one.now /\ new.doomed = <<>>
      BY <1>a, <2>2 DEF Sweep, SweepSteps
    <2> HIDE DEF new
    <2>4. \A g \in Hashes : text >= Owed(g)
      <3>1. ASSUME NEW g \in Hashes
            PROVE  promised[g] <= one.now + RecoveryTtl /\ one.now + RecoveryTtl \in Nat
        BY <1>a, <1>b, <2>2 DEF SweepSpares
      <3>2. \A g \in Hashes : promised[g] \in Nat
        BY <1>b
      <3>3. ASSUME NEW g \in Hashes
            PROVE  EpochSecs(promised[g]) <= text
        BY <3>1, <3>2, InOrder
      <3>4. QED
        <4>1. \A g \in Hashes : text \in Nat /\ EpochSecs(promised[g]) \in Nat
          BY <3>1, <3>2, WholeSeconds
        <4> HIDE DEF text
        <4>2. QED
          BY <3>3, <4>1 DEF Owed
    <2> HIDE DEF text
    <2>5. Kept'
      <3>1. \A g \in Hashes : files'[Body(g)] = files[Body(g)]
        BY <1>a, <2>1, <2>2 DEF SweepAtWork, Dating
      <3>2. \A g \in Hashes : files'[Exp(g)] = files[Exp(g)] \/ files'[Exp(g)] = text
        BY <1>a, <2>1
      <3>3. \A g \in Hashes : files'[Exp(g)] = files[Exp(g)] => (Dated(g)' => Dated(g))
        BY DEF Dated, FS!Exists
      <3>4. \A g \in Hashes : files'[Exp(g)] = text => files'[Exp(g)] >= Owed(g)
        BY <2>4
      <3>5. QED
        BY <1>b, <2>2, <3>1, <3>2, <3>3, <3>4, StillKept DEF Retained, FS!Exists
    <2>6. QED
      BY <1>e, <2>2, <2>3, <2>5, OneSweepSpares
  <1>8. CASE PurgeRemove(s)
    <2> DEFINE new == [one EXCEPT !.doomed = Tail(one.doomed)]
    <2>1. one.doomed # <<>> /\ one.at = "scan"
      BY <1>8, <1>a DEF PurgeRemove, SweepAtWork
    <2>2. PICK path \in Paths : path = Head(one.doomed)
      BY <1>b, <2>1
    <2>3. files'[path] = NoFile /\ \A other \in Paths \ {path} : files'[other] = files[other]
      BY <1>8, <2>2, OneFileRemoved DEF PurgeRemove
    <2>4. /\ sweep' = [sweep EXCEPT ![s] = new]
          /\ UNCHANGED <<clock, promised, put, get, asked>>
      BY <1>8 DEF PurgeRemove, history
    <2>5. /\ sweep'[s].now = one.now /\ sweep'[s].doomed = Tail(one.doomed)
          /\ \A t \in Sweepers \ {s} : sweep'[t] = sweep[t]
      BY <1>a, <2>4 DEF TypeOK, Sweep
    <2>6. \A h \in Hashes : path \in {Body(h), Exp(h)} => Owed(h) <= clock
      <3>1. 1 \in DOMAIN one.doomed /\ path = one.doomed[1]
        BY <1>b, <2>1, <2>2
      <3>2. QED
        BY <1>a, <2>1, <3>1 DEF SweepSpares
    <2>7. Kept'
      <3>1. ASSUME NEW h \in Hashes, Owed(h) > clock'
            PROVE  files'[Body(h)] = files[Body(h)] /\ files'[Exp(h)] = files[Exp(h)]
        <4>1. path # Body(h) /\ path # Exp(h)
          BY <1>b, <2>4, <2>6, <3>1
        <4>2. QED
          BY <1>a, <2>3, <4>1
      <3>2. \A h \in Hashes : files'[Exp(h)] = files[Exp(h)] => (Dated(h)' => Dated(h))
        BY DEF Dated, FS!Exists
      <3>3. QED
        BY <1>b, <2>4, <3>1, <3>2, StillKept DEF Retained, FS!Exists
    <2>8. SweepSpares(s)'
      <3>1. \A i \in DOMAIN Tail(one.doomed) :
              i + 1 \in DOMAIN one.doomed /\ Tail(one.doomed)[i] = one.doomed[i + 1]
        BY <1>b, <2>1
      <3>2. \A i \in DOMAIN Tail(one.doomed), h \in Hashes :
              Tail(one.doomed)[i] \in {Body(h), Exp(h)} => Owed(h) <= clock
        BY <1>a, <2>1, <3>1 DEF SweepSpares
      <3>3. QED
        BY <1>a, <2>1, <2>4, <2>5, <3>2 DEF SweepSpares, Owed
    <2>9. QED
      BY <2>1, <2>4, <2>5, <2>7, <2>8, OneSweepSpares
  <1>9. CASE PurgeEnd(s) \/ PurgeCrash(s)
    <2>1. /\ sweep' = [sweep EXCEPT ![s] = NoSweep] /\ one.at # "idle"
          /\ UNCHANGED <<clock, files, promised, put, get, asked>>
      BY <1>9 DEF PurgeEnd, PurgeCrash, Scanning, FS!Close, directory, history
    <2>2. sweep'[s].at = "idle" /\ \A t \in Sweepers \ {s} : sweep'[t] = sweep[t]
      BY <2>1 DEF NoSweep, TypeOK
    <2>3. SweepSpares(s)'
      BY <2>2 DEF SweepSpares
    <2>4. QED
      BY <1>c, <2>1, <2>2, <2>3, OneSweepSpares
  <1>10. QED
    BY <1>1, <1>2, <1>3, <1>4, <1>5, <1>6, <1>7, <1>8, <1>9 DEF PurgeStep

LEMMA NextRetained == TypeOK /\ AtWork /\ Retained /\ [Next]_vars => Retained'
  <1> SUFFICES ASSUME TypeOK, AtWork, Retained, [Next]_vars
               PROVE  Retained'
    OBVIOUS
  <1>1. CASE Tick \/ UNCHANGED vars
    <2>1. /\ clock' \in Nat /\ clock' >= clock /\ clock \in Nat
          /\ UNCHANGED <<files, handle, put, get, sweep, promised, asked>>
      BY <1>1, Times DEF Tick, vars, directory, history
    <2>2. Kept'
      BY <2>1, StillKept DEF Retained, FS!Exists, Dated
    <2>3. \A p \in Putters : PutOwes(p)'
      BY <2>1, StillOwes DEF Retained, FS!Exists, Sweeping
    <2>4. \A s \in Sweepers : SweepSpares(s)'
      BY <2>1, StillSpares DEF Retained
    <2>5. \A h \in Hashes : promised'[h] <= clock' + Ttl
      BY <2>1, Times DEF Retained
    <2>6. \A r \in Readers : GetOwed(r)'
      BY <2>1, Times, StillOwed DEF Retained
    <2>7. QED
      BY <2>2, <2>3, <2>4, <2>5, <2>6 DEF Retained
  <1>2. QED
    BY <1>1, PutsRetain, GetsRetain, SweepsRetain DEF Next

LEMMA InitRetained == Init => Retained
  <1> SUFFICES ASSUME Init
               PROVE  Retained
    OBVIOUS
  <1>1. 0 \in Nat /\ EpochSecs(0) <= 0 /\ EpochSecs(0) \in Nat
    BY WholeSeconds
  <1>2. clock \in Nat /\ \A h \in Hashes : promised[h] = 0 /\ Owed(h) = EpochSecs(0)
    BY DEF Init, Owed
  <1>3. Kept
    BY <1>1, <1>2 DEF Kept
  <1>4. QED
    BY <1>2, <1>3 DEF Init, Retained, PutOwes, SweepSpares, GetOwed, NoPut, NoGet, NoSweep, Active

-----------------------------------------------------------------------------
(***************************************************************************)
(* The store implements the contract of a CCR store                        *)
(***************************************************************************)
InSeconds == [r \in Readers |-> [asked[r] EXCEPT !.owed = EpochSecs(@), !.answer = Seen(@)]]
OwedAll == [h \in Hashes |-> EpochSecs(promised[h])]

\* A step that leaves the clock, what was offered, the promises and the lookups is a stutter.
LEMMA Stutters ==
  ASSUME UNCHANGED <<clock, offered, promised, asked>>
  PROVE  UNCHANGED Promise!vars
  BY DEF Promise!vars

LEMMA LookupInSeconds ==
  ASSUME TypeOK, NEW r \in Readers
  PROVE  /\ InSeconds[r].hash = asked[r].hash /\ InSeconds[r].answer = Seen(asked[r].answer)
         /\ InSeconds[r].owed = EpochSecs(asked[r].owed) /\ InSeconds[r].at = asked[r].at
  BY DEF TypeOK, Lookup, InSeconds

\* A lookup as the contract sees it, field by field.
LEMMA FieldsInSeconds ==
  ASSUME NEW one \in Lookup
  PROVE  [one EXCEPT !.owed = EpochSecs(@), !.answer = Seen(@)]
           = [hash |-> one.hash, owed |-> EpochSecs(one.owed),
              answer |-> Seen(one.answer), at |-> one.at]
  <1>1. ASSUME NEW owed, NEW answer
        PROVE  [one EXCEPT !.owed = owed, !.answer = answer]
                 = [hash |-> one.hash, owed |-> owed, answer |-> answer, at |-> one.at]
    <2>1. PICK mid : mid = [one EXCEPT !.owed = owed]
      OBVIOUS
    <2>2. mid = [hash |-> one.hash, owed |-> owed, answer |-> one.answer, at |-> one.at]
      BY <2>1 DEF Lookup
    <2>3. [mid EXCEPT !.answer = answer]
            = [hash |-> one.hash, owed |-> owed, answer |-> answer, at |-> one.at]
      BY <2>2
    <2>4. QED
      BY <2>1, <2>3
  <1>2. QED
    BY <1>1

LEMMA AnswerInSeconds ==
  ASSUME TypeOK, NEW r \in Readers, NEW answer, AnswerWith(r, answer)
  PROVE  InSeconds' =
             [InSeconds EXCEPT ![r] = [InSeconds[r] EXCEPT !.answer = Seen(answer), !.at = clock]]
  <1>1. asked' = [asked EXCEPT ![r] = [asked[r] EXCEPT !.answer = answer, !.at = clock]]
    BY DEF AnswerWith
  <1>2. ASSUME NEW one \in Lookup
        PROVE  [[one EXCEPT !.answer = answer, !.at = clock]
                    EXCEPT !.owed = EpochSecs(@), !.answer = Seen(@)]
                 = [[one EXCEPT !.owed = EpochSecs(@), !.answer = Seen(@)]
                        EXCEPT !.answer = Seen(answer), !.at = clock]
    BY DEF Lookup
  <1>3. QED
    BY <1>1, <1>2 DEF InSeconds, TypeOK

LEMMA StepRefines ==
  TypeOK /\ AtWork /\ Retained /\ [Next]_vars => [Promise!Next]_(Promise!vars)
  <1> SUFFICES ASSUME TypeOK, AtWork, Retained, [Next]_vars
               PROVE  Promise!Next \/ UNCHANGED Promise!vars
    OBVIOUS
  <1>a. ASSUME NEW r \in Readers, NEW answer \in Answers \ {"pending"}, AnswerWith(r, answer),
               get[r].at # "idle", UNCHANGED <<clock, offered, promised>>,
               Seen(answer) = "found" => asked[r].hash \in offered,
               answer = "miss" => EpochSecs(asked[r].owed) <= clock
        PROVE  Promise!Next
    <2>1. asked[r].answer = "pending"
      BY <1>a DEF AtWork, GetAtWork
    <2>2. InSeconds' =
            [InSeconds EXCEPT ![r] = [InSeconds[r] EXCEPT !.answer = Seen(answer), !.at = clock]]
      BY <1>a, AnswerInSeconds
    <2>3. /\ InSeconds[r].answer = "pending" /\ InSeconds[r].hash = asked[r].hash
          /\ InSeconds[r].owed = EpochSecs(asked[r].owed)
      BY <2>1, LookupInSeconds DEF Seen
    <2>4. CASE answer = "none"
      <3>1. InSeconds' = [o \in Readers |->
                            IF o \in {r} THEN [InSeconds[o] EXCEPT !.answer = "none", !.at = clock]
                                         ELSE InSeconds[o]]
        BY <2>2, <2>4 DEF InSeconds, Seen
      <3>2. Promise!Abandon({r})
        BY <1>a, <2>3, <3>1 DEF Promise!Abandon, InSeconds
      <3>3. QED
        BY <3>2 DEF Promise!Next
    <2>5. CASE answer # "none"
      <3>1. Promise!AnswerWith(r, Seen(answer))
        BY <1>a, <2>2, <2>3 DEF Promise!AnswerWith, InSeconds
      <3>2. Seen(answer) = "found" \/ (Seen(answer) = "miss" /\ answer = "miss")
        BY <1>a, <2>5 DEF Seen, Answers
      <3>3. Promise!Found(r) \/ Promise!Miss(r)
        BY <1>a, <2>3, <3>1, <3>2 DEF Promise!Found, Promise!Miss, InSeconds
      <3>4. QED
        BY <3>3 DEF Promise!Next
    <2>6. QED
      BY <2>4, <2>5
  \* A lookup that finds the original gone, or its time run out, was owed nothing any more.
  <1>b. ASSUME NEW r \in Readers, get[r].at # "idle",
               \/ ~FS!Exists(Body(asked[r].hash))
               \/ get[r].at = "now" /\ get[r].expiry <= clock
        PROVE  EpochSecs(asked[r].owed) <= clock
    <2>1. PICK h \in Hashes : h = asked[r].hash
      BY <1>b, KnownOriginal
    <2>2. GetOwed(r) /\ asked[r].owed \in Nat /\ promised[h] \in Nat /\ asked[r].owed <= promised[h]
      BY <1>b, <2>1, Times DEF Retained, GetOwed
    <2>3. /\ EpochSecs(asked[r].owed) <= Owed(h) /\ EpochSecs(asked[r].owed) \in Nat
          /\ Owed(h) \in Nat /\ clock \in Nat
      BY <2>2, InOrder, WholeSeconds, Times DEF Owed
    <2>4. CASE ~FS!Exists(Body(asked[r].hash))
      <3>1. ~(Owed(h) > clock)
        BY <2>1, <2>4 DEF Retained, Kept
      <3>2. QED
        BY <2>3, <3>1
    <2>5. CASE get[r].at = "now" /\ get[r].expiry <= clock
      <3>1. get[r].expiry \in Nat
        BY DEF TypeOK, Get
      <3>2. QED
        BY <2>2, <2>3, <2>5, <3>1 DEF GetOwed
    <2>6. QED
      BY <1>b, <2>4, <2>5
  <1>1. CASE Tick
    <2>1. clock' \in Nat /\ clock' > clock
      BY <1>1, Times DEF Tick
    <2>2. Promise!Tick
      BY <1>1, <2>1 DEF Tick, Promise!Tick, history
    <2>3. QED
      BY <2>2 DEF Promise!Next
  <1>2. ASSUME NEW p \in Putters, NEW h \in Hashes, PutBegin(p, h)
        PROVE  Promise!Next
    <2>1. Promise!Offer(h)
      BY <1>2 DEF PutBegin, Promise!Offer
    <2>2. QED
      BY <2>1 DEF Promise!Next
  <1>3. ASSUME NEW p \in Putters, PutStamp(p)
        PROVE  Promise!Next
    <2>1. Active(p) /\ put[p].hash \in offered
      BY <1>3 DEF PutStamp, Active, AtWork, PutAtWork
    <2>2. PICK h \in Hashes : h = put[p].hash
      BY <2>1, KnownOriginal
    <2>3. /\ UNCHANGED <<clock, offered, asked>>
          /\ promised' = [promised EXCEPT ![h] = Promised(p)]
      BY <1>3, <2>2 DEF PutStamp
    <2>4. Promised(p) \in Nat /\ promised[h] \in Nat /\ promised[h] <= Promised(p)
      BY <2>1, <2>2, PromisedIs, Times
    <2>5. /\ EpochSecs(Promised(p)) \in Nat /\ EpochSecs(promised[h]) \in Nat
          /\ EpochSecs(Promised(p)) >= EpochSecs(promised[h])
      BY <2>4, WholeSeconds, InOrder
    <2>6. OwedAll' = [OwedAll EXCEPT ![h] = EpochSecs(Promised(p))]
      BY <2>3 DEF OwedAll, TypeOK
    <2>7. OwedAll'[h] = EpochSecs(Promised(p)) /\ OwedAll[h] = EpochSecs(promised[h])
      BY <2>6 DEF OwedAll
    <2>8. Promise!Acknowledge(h)
      BY <2>1, <2>2, <2>3, <2>5, <2>6, <2>7 DEF Promise!Acknowledge, OwedAll
    <2>9. QED
      BY <2>8 DEF Promise!Next
  <1>4. ASSUME NEW p \in Putters, PutAbort(p) \/ PutStep(p), ~PutStamp(p)
        PROVE  UNCHANGED Promise!vars
    <2>1. UNCHANGED <<clock, offered, promised, asked>>
      BY <1>4
      DEF PutStep, PutCreate, PutWrite, PutRename, PutRenameFails, PutTruncateSidecar, PutAbort,
          history
    <2>2. QED
      BY <2>1, Stutters
  <1>5. ASSUME NEW r \in Readers, NEW h \in Hashes, GetBegin(r, h)
        PROVE  Promise!Next
    <2>1. asked[r].answer # "pending"
      BY <1>5 DEF GetBegin, AtWork, GetAtWork
    <2>2. InSeconds[r].answer # "pending" /\ OwedAll[h] = EpochSecs(promised[h])
      BY <2>1, LookupInSeconds DEF OwedAll, Seen
    <2>3. InSeconds' = [InSeconds EXCEPT ![r] =
              [hash |-> h, owed |-> OwedAll[h], answer |-> "pending", at |-> clock]]
      <3>1. asked' = [asked EXCEPT ![r] =
              [hash |-> h, owed |-> promised[h], answer |-> "pending", at |-> clock]]
        BY <1>5 DEF GetBegin
      <3> DEFINE one == [hash |-> h, owed |-> promised[h], answer |-> "pending", at |-> clock]
      <3>2. [one EXCEPT !.owed = EpochSecs(@), !.answer = Seen(@)]
              = [hash |-> h, owed |-> OwedAll[h], answer |-> "pending", at |-> clock]
        <4>1. Seen("pending") = "pending"
          BY DEF Seen
        <4>2. one \in Lookup
          BY DEF TypeOK, Lookup, Answers
        <4>3. one.hash = h /\ one.owed = promised[h] /\ one.answer = "pending" /\ one.at = clock
          OBVIOUS
        <4> HIDE DEF one
        <4>4. QED
          <5>1. [one EXCEPT !.owed = EpochSecs(@), !.answer = Seen(@)]
                  = [hash |-> one.hash, owed |-> EpochSecs(one.owed),
                     answer |-> Seen(one.answer), at |-> one.at]
            BY <4>2, FieldsInSeconds
          <5>2. QED
            BY <2>2, <4>1, <4>3, <5>1
      <3>3. QED
        BY <3>1, <3>2 DEF InSeconds, TypeOK
    <2>4. Promise!Ask(r, h)
      BY <1>5, <2>2, <2>3 DEF GetBegin, Promise!Ask, InSeconds, OwedAll, history
    <2>5. QED
      BY <2>4 DEF Promise!Next
  <1>6. ASSUME NEW r \in Readers, GetStep(r)
        PROVE  Promise!Next \/ UNCHANGED Promise!vars
    <2>1. UNCHANGED <<clock, offered, promised>> /\ get[r].at # "idle" /\ asked[r].hash \in Hashes
      <3>1. UNCHANGED <<clock, offered, promised>> /\ get[r].at # "idle"
        BY <1>6 DEF GetStep, GetExists, GetExpiry, GetNow, GetBody, GetFails, history
      <3>2. QED
        BY <3>1, KnownOriginal
    <2>2. CASE UNCHANGED asked
      BY <2>1, <2>2, Stutters
    <2>3. CASE /\ AnswerWith(r, "miss")
               /\ \/ ~FS!Exists(Body(asked[r].hash))
                  \/ get[r].at = "now" /\ get[r].expiry <= clock
      BY <1>a, <1>b, <2>1, <2>3 DEF Answers, Seen
    <2>4. ASSUME NEW answer \in {"found", "torn"}, AnswerWith(r, answer),
                 FS!Exists(Body(asked[r].hash))
          PROVE  Promise!Next
      BY <1>a, <2>1, <2>4 DEF AtWork, Answers
    <2>5. CASE AnswerWith(r, "none")
      BY <1>a, <2>1, <2>5 DEF Answers, Seen
    <2>6. QED
      BY <1>6, <2>2, <2>3, <2>4, <2>5
      DEF GetStep, GetExists, GetExpiry, GetNow, GetBody, GetFails, GoOn
  <1>7. ASSUME NEW s \in Sweepers, PurgeBegin(s) \/ PurgeStep(s) \/ PurgeCrash(s)
        PROVE  UNCHANGED Promise!vars
    <2>1. UNCHANGED <<clock, offered, promised, asked>>
      BY <1>7
      DEF PurgeStep, PurgeBegin, PurgeTemporary, PurgeSidecar, PurgeDated, PurgeUndated,
          PurgeTruncateSidecar, PurgeStamp, PurgeRemove, PurgeEnd, PurgeCrash, Decide, history
    <2>2. QED
      BY <2>1, Stutters
  <1>8. CASE UNCHANGED vars
    BY <1>8, Stutters DEF vars, history
  <1>9. QED
    BY <1>1, <1>2, <1>3, <1>4, <1>5, <1>6, <1>7, <1>8 DEF Next

LEMMA InitRefines == Init => Promise!Init
  <1>1. EpochSecs(0) = 0
    <2>1. EpochSecs(0) \in Nat /\ EpochSecs(0) <= 0
      BY WholeSeconds
    <2>2. QED
      BY <2>1
  <1> DEFINE never == [hash |-> NoHash, owed |-> 0, answer |-> "none", at |-> 0]
  <1>2. [never EXCEPT !.owed = EpochSecs(@), !.answer = Seen(@)] = never
    <2>1. Seen("none") = "none"
      BY DEF Seen
    <2>2. never \in Lookup
      BY DEF Lookup, Answers
    <2>3. never.hash = NoHash /\ never.owed = 0 /\ never.answer = "none" /\ never.at = 0
      OBVIOUS
    <2> HIDE DEF never
    <2>4. [never EXCEPT !.owed = EpochSecs(@), !.answer = Seen(@)]
            = [hash |-> NoHash, owed |-> 0, answer |-> "none", at |-> 0]
      BY <1>1, <2>1, <2>2, <2>3, FieldsInSeconds
    <2>5. QED
      BY <2>4 DEF never
  <1>3. QED
    BY <1>1, <1>2, ClockAssumption DEF Init, Promise!Init

(***************************************************************************)
(* FileCcrStore keeps the contract of the trait CcrStore: a lookup misses  *)
(* only when what was owed has run out, whichever puts, lookups and sweeps *)
(* overlap, fail or die.  What is owed is what a sidecar can hold: whole   *)
(* seconds, of the oldest of the puts of one original in flight, and       *)
(* nothing for a put that met a sweep.                                     *)
(***************************************************************************)
THEOREM Implements == Spec => ImplementsPromise
  <1>1. Spec => [](TypeOK /\ AtWork /\ Retained)
    BY InitTypeOK, InitAtWork, InitRetained, NextTypeOK, NextAtWork, NextRetained, PTL DEF Spec
  <1>2. QED
    BY <1>1, InitRefines, StepRefines, PTL DEF Spec, ImplementsPromise, Promise!Spec
=============================================================================
