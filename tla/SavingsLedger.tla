--------------------------- MODULE SavingsLedger ---------------------------
(***************************************************************************)
(* The durable savings ledger: SavingsLedger (headroom-core/src/savings.rs)*)
(* and the LedgerWriter and flush task around it (headroom-proxy/src/      *)
(* ledger.rs).                                                             *)
(*                                                                         *)
(* Requests record into hourly buckets in memory, under a mutex that is    *)
(* held for the whole update.  A task prunes the buckets past retention,   *)
(* clones the rest under the mutex and saves the clone without it, through *)
(* a temporary file and a rename.  A proxy that stops, killed or drained,  *)
(* does not flush: Stop is both.  An outgoing proxy drains its streams     *)
(* while its successor is already up, if Overlap.                          *)
(***************************************************************************)
EXTENDS Naturals, FiniteSets, Functions

CONSTANTS
    Proxies,
    NoFile, NoPath,
    Blank,         \* the text of a file that is not JSON
    Retention,     \* RETENTION, in hours
    MaxHour,       \* bound on the clock
    MaxRecords,    \* bound on the requests recorded
    MaxFailures,   \* bound on the I/O errors, of loads and of flushes
    Overlap        \* may a proxy start before the one it replaces has gone?

ASSUME BoundAssumption ==
    /\ Retention \in Nat /\ MaxHour \in Nat
    /\ MaxRecords \in Nat /\ MaxFailures \in Nat
ASSUME OverlapAssumption == Overlap \in BOOLEAN

VARIABLES
    hour,      \* the wall clock, in hours
    files,     \* the ledger's file and its temporary
    handle,    \* the file each proxy has open for writing
    up,        \* up[p]: does proxy p run?
    ledger,    \* ledger[p]: the buckets in the memory of p
    flush,     \* flush[p]: where the flush task of p is, and the clone it saves
    failures,  \* I/O errors so far
    recorded,  \* history: what all the proxies recorded
    flushed,   \* history: the most any flush that returned Ok has put on disk
    unread     \* history: did a load fail on a file that was there?

disk == <<files, handle>>
history == <<recorded, flushed, unread>>
vars == <<hour, files, handle, up, ledger, flush, failures, recorded, flushed, unread>>

Saved == "savings.json"
Temporary == "savings.json.tmp"
FS == INSTANCE FileSystem WITH Paths <- {Saved, Temporary}, Actors <- Proxies

(***************************************************************************)
(* A bucket counts the requests of its hour.  Its other counters, which    *)
(* are added to in the same update, and the rest of its key are left out.  *)
(* A bucket of zero is one the map does not have.                          *)
(***************************************************************************)
Hours == 0..MaxHour
Ledger == [Hours -> Nat]
NoBuckets == [h \in Hours |-> 0]

ASSUME TextAssumption == Blank \notin Ledger /\ NoFile \notin Ledger /\ Blank # NoFile
ASSUME PathAssumption == NoPath \notin {Saved, Temporary}

FlushSteps == {"sleep", "create", "write", "rename", "ended"}
Asleep == [at |-> "sleep", text |-> NoBuckets]

TypeOK ==
    /\ hour \in Hours
    /\ files \in [{Saved, Temporary} -> Ledger \cup {Blank, NoFile}]
    /\ handle \in [Proxies -> {Saved, Temporary, NoPath}]
    /\ up \in [Proxies -> BOOLEAN]
    /\ ledger \in [Proxies -> Ledger]
    /\ flush \in [Proxies -> [at: FlushSteps, text: Ledger]]
    /\ failures \in 0..MaxFailures
    /\ recorded \in Ledger /\ flushed \in Ledger
    /\ unread \in BOOLEAN

Init ==
    /\ hour = 0
    /\ files = [f \in {Saved, Temporary} |-> NoFile]
    /\ handle = [p \in Proxies |-> NoPath]
    /\ up = [p \in Proxies |-> FALSE]
    /\ ledger = [p \in Proxies |-> NoBuckets]
    /\ flush = [p \in Proxies |-> Asleep]
    /\ failures = 0
    /\ recorded = NoBuckets /\ flushed = NoBuckets
    /\ unread = FALSE

Combined(f(_, _), a, b) == [h \in Hours |-> f(a[h], b[h])]
Larger(m, n) == IF m > n THEN m ELSE n

\* Everything a counts, b counts too, in the hours from h on.
CountedFrom(h, a, b) == \A k \in Hours: k >= h => a[k] <= b[k]

\* The first hour that is still within retention.
Floor == IF hour > Retention THEN hour - Retention ELSE 0
Pruned(l) == [h \in Hours |-> IF h >= Floor THEN l[h] ELSE 0]

\* What load makes of the file: absent, or not JSON, it is an empty ledger.
OnDisk == IF files[Saved] \in Ledger THEN files[Saved] ELSE NoBuckets

Tick ==
    /\ hour < MaxHour
    /\ hour' = hour + 1
    /\ UNCHANGED <<disk, up, ledger, flush, failures, history>>

-----------------------------------------------------------------------------
(***************************************************************************)
(* Starting and stopping                                                   *)
(***************************************************************************)
\* FAULT for Open: a new process starts from nothing.
OpenFresh(p) ==
    /\ up' = [up EXCEPT ![p] = TRUE]
    /\ ledger' = [ledger EXCEPT ![p] = NoBuckets]
    /\ UNCHANGED <<hour, disk, flush, failures, history>>

\* open: load(&path)
Open(p) ==
    /\ up' = [up EXCEPT ![p] = TRUE]
    /\ ledger' = [ledger EXCEPT ![p] = OnDisk]
    /\ UNCHANGED <<hour, disk, flush, failures, history>>

\* read_to_string fails on a file that is there, which is taken for an absent one.
OpenUnread(p) ==
    /\ FS!Exists(Saved) /\ failures < MaxFailures
    /\ up' = [up EXCEPT ![p] = TRUE]
    /\ ledger' = [ledger EXCEPT ![p] = NoBuckets]
    /\ failures' = failures + 1
    /\ unread' = TRUE
    /\ UNCHANGED <<hour, disk, flush, recorded, flushed>>

Start(p) ==
    /\ ~up[p]
    /\ Overlap \/ \A q \in Proxies: ~up[q]
    /\ Open(p) \/ OpenUnread(p)

\* The process ends, wherever it is; the flush task ends with it.
Stop(p) ==
    /\ up[p]
    /\ up' = [up EXCEPT ![p] = FALSE]
    /\ ledger' = [ledger EXCEPT ![p] = NoBuckets]
    /\ flush' = [flush EXCEPT ![p] = Asleep]
    /\ FS!Close(p)
    /\ UNCHANGED <<hour, failures, history>>

-----------------------------------------------------------------------------

\* record, record_passthrough: one request of the current hour.
Record(p) ==
    /\ up[p] /\ SumFunction(recorded) < MaxRecords
    /\ ledger' = [ledger EXCEPT ![p][hour] = @ + 1]
    /\ recorded' = [recorded EXCEPT ![hour] = @ + 1]
    /\ UNCHANGED <<hour, disk, up, flush, failures, flushed, unread>>

-----------------------------------------------------------------------------
(***************************************************************************)
(* flush                                                                   *)
(***************************************************************************)
\* FAULTS for FlushSnapshot: nothing is pruned; what is on disk is added in again.
FlushSnapshotUnpruned(p) ==
    /\ up[p] /\ flush[p].at = "sleep"
    /\ flush' = [flush EXCEPT ![p] = [at |-> "create", text |-> ledger[p]]]
    /\ UNCHANGED <<hour, disk, up, ledger, failures, history>>

FlushSnapshotMerged(p) ==
    /\ up[p] /\ flush[p].at = "sleep"
    /\ LET Add(m, n) == m + n
       IN  flush' = [flush EXCEPT ![p] =
                        [at |-> "create", text |-> Pruned(Combined(Add, OnDisk, ledger[p]))]]
    /\ UNCHANGED <<hour, disk, up, ledger, failures, history>>

\* The tick fires: under the mutex, prune(now) and clone().
FlushSnapshot(p) ==
    /\ up[p] /\ flush[p].at = "sleep"
    /\ ledger' = [ledger EXCEPT ![p] = Pruned(@)]
    /\ flush' = [flush EXCEPT ![p] = [at |-> "create", text |-> ledger'[p]]]
    /\ UNCHANGED <<hour, disk, up, failures, history>>

\* FAULT for FlushCreate: the ledger is rewritten in place.
FlushCreateInPlace(p) ==
    /\ flush[p].at = "create"
    /\ FS!Create(p, Saved, Blank)
    /\ flush' = [flush EXCEPT ![p].at = "write"]
    /\ UNCHANGED <<hour, up, ledger, failures, history>>

\* save: File::create(&temporary)
FlushCreate(p) ==
    /\ flush[p].at = "create"
    /\ FS!Create(p, Temporary, Blank)
    /\ flush' = [flush EXCEPT ![p].at = "write"]
    /\ UNCHANGED <<hour, up, ledger, failures, history>>

\* write_all, sync_all, and the file is closed.
FlushWrite(p) ==
    /\ flush[p].at = "write"
    /\ FS!WriteAndClose(p, flush[p].text)
    /\ flush' = [flush EXCEPT ![p].at = "rename"]
    /\ UNCHANGED <<hour, up, ledger, failures, history>>

\* fs::rename(&temporary, path), and Ok(()).
FlushRename(p) ==
    /\ flush[p].at = "rename"
    /\ FS!Rename(Temporary, Saved)
    /\ flush' = [flush EXCEPT ![p] = Asleep]
    /\ flushed' = Combined(Larger, flushed, flush[p].text)
    /\ UNCHANGED <<hour, up, ledger, failures, recorded, unread>>

\* FAULT for FlushFails: the error ends the task.
FlushFailsForGood(p) ==
    /\ flush[p].at \notin {"sleep", "ended"} /\ failures < MaxFailures
    /\ FS!Close(p)
    /\ flush' = [flush EXCEPT ![p] = [Asleep EXCEPT !.at = "ended"]]
    /\ failures' = failures + 1
    /\ UNCHANGED <<hour, up, ledger, history>>

\* An I/O error at any step: the task logs it and waits for its next tick.
FlushFails(p) ==
    /\ flush[p].at \notin {"sleep", "ended"} /\ failures < MaxFailures
    /\ FS!Close(p)
    /\ flush' = [flush EXCEPT ![p] = Asleep]
    /\ failures' = failures + 1
    /\ UNCHANGED <<hour, up, ledger, history>>

FlushStep(p) == FlushSnapshot(p) \/ FlushCreate(p) \/ FlushWrite(p) \/ FlushRename(p)

Next ==
    \/ Tick
    \/ \E p \in Proxies:
        \/ Start(p) \/ Stop(p)
        \/ Record(p)
        \/ FlushStep(p) \/ FlushFails(p)

Spec == Init /\ [][Next]_vars

\* The flush task of a proxy that runs is scheduled: its timer fires, its calls return.
FairSpec == Spec /\ \A p \in Proxies: WF_vars(FlushStep(p))

-----------------------------------------------------------------------------
(***************************************************************************)
(* A process killed mid-write leaves either the old ledger or the new one, *)
(* never a half-written file (savings.rs, save), as long as one process at *)
(* a time writes through the one temporary path.                           *)
(***************************************************************************)
NeverHalfWritten == files[Saved] # Blank

(***************************************************************************)
(* Totals span restarts (ledger.rs, open): what a flush has put on disk is *)
(* in the file for as long as its hour is within retention, whoever starts,*)
(* stops or fails to flush.  A load that failed on a file that is there    *)
(* is the exception: the next flush replaces the history it did not read.  *)
(***************************************************************************)
TotalsSpanRestarts ==
    unread \/ CountedFrom(Floor, flushed, OnDisk)

(***************************************************************************)
(* No request is counted twice, in the file or in memory, by a restart or  *)
(* by a flush that is repeated.                                            *)
(***************************************************************************)
CountedOnce ==
    /\ CountedFrom(0, OnDisk, recorded)
    /\ \A p \in Proxies: CountedFrom(0, ledger[p], recorded)

\* Growth is bounded by the retention window and not by traffic (savings.rs:18-20).
FileBounded ==
    Cardinality({h \in Hours: OnDisk[h] # 0}) <= Retention + 1

\* A proxy that does not run has nothing in memory and no file open.
StoppedHoldNothing ==
    \A p \in Proxies:
        ~up[p] => ledger[p] = NoBuckets /\ flush[p] = Asleep /\ handle[p] = NoPath

OneRuns == \A p, q \in Proxies: up[p] /\ up[q] => p = q

\* Only the temporary is ever open, and what a rename will publish is the whole clone.
SavesThroughTemporary ==
    \A p \in Proxies:
        /\ handle[p] = IF flush[p].at = "write" THEN Temporary ELSE NoPath
        /\ flush[p].at = "rename" => files[Temporary] = flush[p].text

\* What is about to be saved has been counted once as well.
ClonesCountedOnce ==
    \A p \in Proxies: CountedFrom(0, flush[p].text, recorded)

\* What is on disk is in memory too, and in the clone that is about to replace it.
MemoryAhead ==
    unread \/ \A p \in Proxies:
        /\ up[p] => CountedFrom(Floor, flushed, ledger[p])
        /\ flush[p].at # "sleep" => /\ CountedFrom(Floor, flushed, flush[p].text)
                                   /\ CountedFrom(Floor, flush[p].text, ledger[p])

\* All the buckets of l lie within one retention window, which has begun.
InOneWindow(l) ==
    \E last \in Hours:
        /\ last <= hour
        /\ \A h \in Hours: l[h] # 0 => h <= last /\ last <= h + Retention

\* The file and the clones each keep one window; memory has nothing of the future.
WithinWindows ==
    /\ InOneWindow(OnDisk)
    /\ \A p \in Proxies: /\ InOneWindow(flush[p].text)
                         /\ \A h \in Hours: ledger[p][h] # 0 => h <= hour

\* The inductive invariant behind the safety properties, for one proxy at a time.
IInv ==
    /\ TypeOK
    /\ OneRuns
    /\ StoppedHoldNothing
    /\ SavesThroughTemporary
    /\ NeverHalfWritten
    /\ TotalsSpanRestarts
    /\ CountedOnce
    /\ ClonesCountedOnce
    /\ MemoryAhead
    /\ WithinWindows

(***************************************************************************)
(* What a proxy records is on disk one completed flush later, unless the   *)
(* proxy stops first or the hour passes out of retention: a record made    *)
(* while a save is under way is not lost between the clone and the file,   *)
(* and a failed flush is made good by the next one.                        *)
(***************************************************************************)
RecordsReachDisk ==
    \A p \in Proxies, h \in Hours, n \in 1..MaxRecords:
        ledger[p][h] = n ~> OnDisk[h] >= n \/ ~up[p] \/ h < Floor
=============================================================================
