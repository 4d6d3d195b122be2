------------------------ MODULE SavingsLedgerProofs ------------------------
(***************************************************************************)
(* Proofs about SavingsLedger, for any number of proxies that run one at a *)
(* time, any retention and any bounds.                                     *)
(***************************************************************************)
EXTENDS SavingsLedger, FiniteSetTheorems, TLAPS

LEMMA PrunedIsLedger ==
  ASSUME NEW l \in Ledger
  PROVE  /\ Pruned(l) \in Ledger
         /\ CountedFrom(0, Pruned(l), l)
         /\ CountedFrom(Floor, l, Pruned(l))
  BY BoundAssumption DEF Pruned, Ledger, Hours, CountedFrom

LEMMA OnDiskIsLedger ==
  ASSUME TypeOK
  PROVE  OnDisk \in Ledger
  BY DEF OnDisk, NoBuckets, Ledger

LEMMA WindowRises ==
  ASSUME NEW a \in Nat, NEW b \in Nat, NEW r \in Nat, a <= b
  PROVE  /\ (IF a > r THEN a - r ELSE 0) \in Nat
         /\ (IF b > r THEN b - r ELSE 0) \in Nat
         /\ (IF a > r THEN a - r ELSE 0) <= (IF b > r THEN b - r ELSE 0)
  OBVIOUS

LEMMA FloorRises ==
  ASSUME hour \in Hours, hour' \in Hours, hour <= hour'
  PROVE  Floor \in Nat /\ Floor' \in Nat /\ Floor <= Floor'
  <1>1. hour \in Nat /\ hour' \in Nat /\ Retention \in Nat
    BY BoundAssumption DEF Hours
  <1>2. Floor \in Nat /\ Floor <= Floor'
    BY <1>1, WindowRises DEF Floor
  <1>3. Floor' \in Nat
    BY <1>1, WindowRises DEF Floor
  <1> QED
    BY <1>2, <1>3

LEMMA CountedTransitive ==
  ASSUME NEW h \in Nat, NEW a \in Ledger, NEW b \in Ledger, NEW c \in Ledger,
         CountedFrom(h, a, b), CountedFrom(h, b, c)
  PROVE  CountedFrom(h, a, c)
  BY BoundAssumption DEF CountedFrom, Ledger, Hours

LEMMA CountedLater ==
  ASSUME NEW h \in Nat, NEW k \in Nat, h <= k, NEW a, NEW b, CountedFrom(h, a, b)
  PROVE  CountedFrom(k, a, b)
  BY BoundAssumption DEF CountedFrom, Hours

LEMMA CountedReflexive ==
  ASSUME NEW h \in Nat, NEW a \in Ledger
  PROVE  CountedFrom(h, a, a)
  BY BoundAssumption DEF CountedFrom, Ledger, Hours

\* One request more in a bucket.
LEMMA OneMore ==
  ASSUME NEW h \in Nat, NEW k \in Hours, NEW a \in Ledger, NEW b \in Ledger
  PROVE  /\ [a EXCEPT ![k] = @ + 1] \in Ledger
         /\ CountedFrom(h, a, [a EXCEPT ![k] = @ + 1])
         /\ CountedFrom(h, a, b)
               => CountedFrom(h, [a EXCEPT ![k] = @ + 1], [b EXCEPT ![k] = @ + 1])
  BY DEF Ledger, CountedFrom

LEMMA LargerIsLedger ==
  ASSUME NEW a \in Ledger, NEW b \in Ledger
  PROVE  /\ Combined(Larger, a, b) \in Ledger
         /\ \A h \in Nat, c \in Ledger:
               CountedFrom(h, a, c) /\ CountedFrom(h, b, c)
                  => CountedFrom(h, Combined(Larger, a, b), c)
  BY BoundAssumption DEF Combined, Larger, Ledger, Hours, CountedFrom
-----------------------------------------------------------------------------
LEMMA NextTypeOK == TypeOK /\ SavesThroughTemporary /\ [Next]_vars => TypeOK'
  <1> SUFFICES ASSUME TypeOK, SavesThroughTemporary, [Next]_vars
               PROVE  TypeOK'
    OBVIOUS
  <1> USE DEF TypeOK, disk, history
  <1>1. CASE Tick
    BY <1>1, BoundAssumption DEF Tick, Hours
  <1>2. ASSUME NEW p \in Proxies, Open(p)
        PROVE  TypeOK'
    BY <1>2, OnDiskIsLedger DEF Open
  <1>3. ASSUME NEW p \in Proxies, OpenUnread(p)
        PROVE  TypeOK'
    BY <1>3, BoundAssumption DEF OpenUnread, NoBuckets, Ledger
  <1>4. ASSUME NEW p \in Proxies, Stop(p)
        PROVE  TypeOK'
    BY <1>4 DEF Stop, FS!Close, NoBuckets, Ledger, Asleep, FlushSteps
  <1>5. ASSUME NEW p \in Proxies, Record(p)
        PROVE  TypeOK'
    BY <1>5 DEF Record, Ledger
  <1>6. ASSUME NEW p \in Proxies, FlushSnapshot(p)
        PROVE  TypeOK'
    <2>1. Pruned(ledger[p]) \in Ledger
      BY PrunedIsLedger
    <2>2. QED
      BY <1>6, <2>1 DEF FlushSnapshot, FlushSteps
  <1>7. ASSUME NEW p \in Proxies, FlushCreate(p)
        PROVE  TypeOK'
    BY <1>7 DEF FlushCreate, FS!Create, FlushSteps
  <1>8. ASSUME NEW p \in Proxies, FlushWrite(p)
        PROVE  TypeOK'
    BY <1>8 DEF FlushWrite, FS!WriteAndClose, FlushSteps
  <1>9. ASSUME NEW p \in Proxies, FlushRename(p)
        PROVE  TypeOK'
    <2>1. Combined(Larger, flushed, flush[p].text) \in Ledger
      BY LargerIsLedger
    <2>2. handle' \in [Proxies -> {Saved, Temporary, NoPath}]
      BY <1>9 DEF FlushRename, FS!Rename, FS!HandlesMoved
    <2>3. files' \in [{Saved, Temporary} -> Ledger \cup {Blank, NoFile}]
      BY <1>9 DEF FlushRename, FS!Rename
    <2>4. flush' \in [Proxies -> [at: FlushSteps, text: Ledger]]
      BY <1>9 DEF FlushRename, Asleep, FlushSteps, NoBuckets, Ledger
    <2>5. QED
      BY <1>9, <2>1, <2>2, <2>3, <2>4 DEF FlushRename
  <1>10. ASSUME NEW p \in Proxies, FlushFails(p)
         PROVE  TypeOK'
    BY <1>10, BoundAssumption
       DEF FlushFails, FS!Close, Asleep, FlushSteps, NoBuckets, Ledger
  <1>11. CASE UNCHANGED vars
    BY <1>11 DEF vars
  <1>12. QED
    BY <1>1, <1>2, <1>3, <1>4, <1>5, <1>6, <1>7, <1>8, <1>9, <1>10, <1>11
       DEF Next, Start, FlushStep

(***************************************************************************)
(* One proxy runs, and it writes through the temporary.                    *)
(***************************************************************************)
OneWriter == OneRuns /\ StoppedHoldNothing /\ SavesThroughTemporary /\ NeverHalfWritten

LEMMA FlushingAlone ==
  ASSUME TypeOK, OneWriter, NEW p \in Proxies, flush[p].at # "sleep"
  PROVE  /\ up[p]
         /\ \A q \in Proxies \ {p}: ~up[q] /\ flush[q] = Asleep /\ handle[q] = NoPath
  BY DEF OneWriter, OneRuns, StoppedHoldNothing, Asleep, TypeOK

LEMMA NextOneWriter ==
  ASSUME Overlap = FALSE, TypeOK, OneWriter, [Next]_vars
  PROVE  OneWriter'
  <1> USE DEF TypeOK, disk, history
  <1> USE DEF OneWriter, OneRuns, StoppedHoldNothing, SavesThroughTemporary, NeverHalfWritten
  <1>1. CASE Tick
    BY <1>1 DEF Tick
  <1>2. ASSUME NEW p \in Proxies, Open(p), \A q \in Proxies: ~up[q]
        PROVE  OneWriter'
    BY <1>2 DEF Open
  <1>3. ASSUME NEW p \in Proxies, OpenUnread(p), \A q \in Proxies: ~up[q]
        PROVE  OneWriter'
    BY <1>3 DEF OpenUnread
  <1>4. ASSUME NEW p \in Proxies, Stop(p)
        PROVE  OneWriter'
    BY <1>4 DEF Stop, FS!Close, Asleep
  <1>5. ASSUME NEW p \in Proxies, Record(p)
        PROVE  OneWriter'
    BY <1>5 DEF Record
  <1>6. ASSUME NEW p \in Proxies, FlushSnapshot(p)
        PROVE  OneWriter'
    BY <1>6 DEF FlushSnapshot
  <1>7. ASSUME NEW p \in Proxies, FlushCreate(p)
        PROVE  OneWriter'
    BY <1>7, FlushingAlone DEF FlushCreate, FS!Create, Asleep, Saved, Temporary
  <1>8. ASSUME NEW p \in Proxies, FlushWrite(p)
        PROVE  OneWriter'
    BY <1>8, FlushingAlone DEF FlushWrite, FS!WriteAndClose, Asleep, Saved, Temporary
  <1>9. ASSUME NEW p \in Proxies, FlushRename(p)
        PROVE  OneWriter'
    <2>1. files'[Saved] = flush[p].text
      BY <1>9 DEF FlushRename, FS!Rename, Saved, Temporary
    <2>2. \A q \in Proxies: handle[q] = NoPath
      BY <1>9, FlushingAlone DEF FlushRename
    <2>3. \A q \in Proxies: handle'[q] = NoPath
      BY <1>9, <2>2, PathAssumption DEF FlushRename, FS!Rename, FS!HandlesMoved
    <2>4. \A q \in Proxies: flush'[q] = Asleep
      BY <1>9, FlushingAlone DEF FlushRename
    <2>5. QED
      BY <1>9, <2>1, <2>3, <2>4, TextAssumption DEF FlushRename, Asleep
  <1>10. ASSUME NEW p \in Proxies, FlushFails(p)
         PROVE  OneWriter'
    BY <1>10, FlushingAlone DEF FlushFails, FS!Close, Asleep
  <1>11. CASE UNCHANGED vars
    BY <1>11 DEF vars
  <1>12. QED
    BY <1>1, <1>2, <1>3, <1>4, <1>5, <1>6, <1>7, <1>8, <1>9, <1>10, <1>11
       DEF Next, Start, FlushStep

-----------------------------------------------------------------------------
(***************************************************************************)
(* No count is above what was recorded, on disk, in memory or in between.  *)
(***************************************************************************)
LEMMA NoBucketsCounted ==
  NoBuckets \in Ledger /\ \A a \in Ledger: CountedFrom(0, NoBuckets, a)
  BY DEF NoBuckets, Ledger, CountedFrom

LEMMA NextCountedOnce ==
  ASSUME TypeOK, OneWriter, CountedOnce, ClonesCountedOnce, [Next]_vars
  PROVE  CountedOnce' /\ ClonesCountedOnce'
  <1> USE DEF TypeOK, disk, history
  <1> USE DEF CountedOnce, ClonesCountedOnce
  <1>1. CASE UNCHANGED <<files, ledger, flush, recorded>>
    BY <1>1 DEF OnDisk
  <1>2. ASSUME NEW p \in Proxies, Open(p)
        PROVE  CountedOnce' /\ ClonesCountedOnce'
    <2>1. OnDisk' = OnDisk
      BY <1>2 DEF Open, OnDisk
    <2>2. QED
      BY <1>2, <2>1 DEF Open
  <1>3. ASSUME NEW p \in Proxies, OpenUnread(p)
        PROVE  CountedOnce' /\ ClonesCountedOnce'
    <2>1. OnDisk' = OnDisk
      BY <1>3 DEF OpenUnread, OnDisk
    <2>2. QED
      BY <1>3, <2>1, NoBucketsCounted DEF OpenUnread
  <1>4. ASSUME NEW p \in Proxies, Stop(p)
        PROVE  CountedOnce' /\ ClonesCountedOnce'
    <2>1. OnDisk' = OnDisk
      BY <1>4 DEF Stop, FS!Close, OnDisk
    <2>2. QED
      BY <1>4, <2>1, NoBucketsCounted DEF Stop, Asleep
  <1>5. ASSUME NEW p \in Proxies, Record(p)
        PROVE  CountedOnce' /\ ClonesCountedOnce'
    <2>1. OnDisk' = OnDisk /\ OnDisk \in Ledger
      BY <1>5, OnDiskIsLedger DEF Record, OnDisk
    <2>2. recorded' \in Ledger /\ CountedFrom(0, recorded, recorded')
      BY <1>5, OneMore DEF Record
    <2>3. CountedFrom(0, ledger'[p], recorded')
      BY <1>5, OneMore DEF Record
    <2>4. ASSUME NEW q \in Proxies
          PROVE  /\ CountedFrom(0, ledger[q], recorded')
                 /\ CountedFrom(0, flush'[q].text, recorded')
      BY <1>5, <2>2, CountedTransitive DEF Record
    <2>5. CountedFrom(0, OnDisk', recorded')
      BY <2>1, <2>2, CountedTransitive
    <2>6. QED
      BY <1>5, <2>3, <2>4, <2>5 DEF Record
  <1>6. ASSUME NEW p \in Proxies, FlushSnapshot(p)
        PROVE  CountedOnce' /\ ClonesCountedOnce'
    <2>1. CountedFrom(0, Pruned(ledger[p]), recorded)
      BY PrunedIsLedger, CountedTransitive
    <2>2. OnDisk' = OnDisk
      BY <1>6 DEF FlushSnapshot, OnDisk
    <2>3. QED
      BY <1>6, <2>1, <2>2 DEF FlushSnapshot
  <1>7. ASSUME NEW p \in Proxies, FlushCreate(p) \/ FlushWrite(p)
        PROVE  CountedOnce' /\ ClonesCountedOnce'
    <2>1. files'[Saved] = files[Saved]
      BY <1>7 DEF FlushCreate, FlushWrite, FS!Create, FS!WriteAndClose,
                  OneWriter, SavesThroughTemporary, Saved, Temporary
    <2>2. OnDisk' = OnDisk
      BY <2>1 DEF OnDisk
    <2>3. QED
      BY <1>7, <2>2 DEF FlushCreate, FlushWrite
  <1>8. ASSUME NEW p \in Proxies, FlushRename(p)
        PROVE  CountedOnce' /\ ClonesCountedOnce'
    <2>1. OnDisk' = flush[p].text
      BY <1>8 DEF FlushRename, FS!Rename, OnDisk, OneWriter, SavesThroughTemporary,
                  Saved, Temporary
    <2>2. QED
      BY <1>8, <2>1, NoBucketsCounted DEF FlushRename, Asleep
  <1>9. ASSUME NEW p \in Proxies, FlushFails(p)
        PROVE  CountedOnce' /\ ClonesCountedOnce'
    <2>1. OnDisk' = OnDisk
      BY <1>9 DEF FlushFails, FS!Close, OnDisk
    <2>2. QED
      BY <1>9, <2>1, NoBucketsCounted DEF FlushFails, Asleep
  <1>10. QED
    BY <1>1, <1>2, <1>3, <1>4, <1>5, <1>6, <1>7, <1>8, <1>9
       DEF Next, vars, Tick, Start, FlushStep

(***************************************************************************)
(* What a flush has put on disk is still there, in memory, and in the      *)
(* clone that replaces the file.                                           *)
(***************************************************************************)
Carried == TotalsSpanRestarts /\ MemoryAhead

LEMMA NextCarried ==
  ASSUME TypeOK, OneWriter, Carried, Overlap = FALSE, [Next]_vars
  PROVE  Carried'
  <1> USE DEF TypeOK, disk, history
  <1> USE DEF Carried, TotalsSpanRestarts, MemoryAhead
  <1> Floor \in Nat
    BY FloorRises, BoundAssumption DEF Floor, Hours
  <1>1. CASE UNCHANGED vars
    BY <1>1 DEF vars, OnDisk, Floor
  <1>2. CASE unread
    BY <1>2 DEF Next, vars, Tick, Start, Open, OpenUnread, Stop, Record, FlushStep,
                FlushSnapshot, FlushCreate, FlushWrite, FlushRename, FlushFails
  <1>3. ASSUME ~unread, Tick
        PROVE  Carried'
    <2>1. Floor' \in Nat /\ Floor <= Floor'
      BY <1>3, FloorRises, BoundAssumption DEF Tick, Hours
    <2>2. OnDisk' = OnDisk
      BY <1>3 DEF Tick, OnDisk
    <2>3. QED
      BY <1>3, <2>1, <2>2, CountedLater DEF Tick
  <1>4. ASSUME ~unread, NEW p \in Proxies, Open(p), ~up[p]
        PROVE  Carried'
    <2>1. OnDisk' = OnDisk /\ Floor' = Floor
      BY <1>4 DEF Open, OnDisk, Floor
    <2>2. flush[p].at = "sleep"
      BY <1>4 DEF OneWriter, StoppedHoldNothing, Asleep
    <2>3. QED
      BY <1>4, <2>1, <2>2 DEF Open
  <1>5. ASSUME ~unread, NEW p \in Proxies, OpenUnread(p)
        PROVE  Carried'
    BY <1>5 DEF OpenUnread
  <1>6. ASSUME ~unread, NEW p \in Proxies, Stop(p)
        PROVE  Carried'
    <2>1. OnDisk' = OnDisk /\ Floor' = Floor
      BY <1>6 DEF Stop, FS!Close, OnDisk, Floor
    <2>2. QED
      BY <1>6, <2>1 DEF Stop, Asleep
  <1>7. ASSUME ~unread, NEW p \in Proxies, Record(p)
        PROVE  Carried'
    <2>1. OnDisk' = OnDisk /\ Floor' = Floor
      BY <1>7 DEF Record, OnDisk, Floor
    <2>2. ledger'[p] \in Ledger /\ CountedFrom(Floor, ledger[p], ledger'[p])
      BY <1>7, OneMore DEF Record
    <2>3. CountedFrom(Floor, flushed, ledger'[p])
      BY <1>7, <2>2, CountedTransitive DEF Record
    <2>4. flush[p].at # "sleep" => CountedFrom(Floor, flush[p].text, ledger'[p])
      BY <1>7, <2>2, CountedTransitive
    <2>5. QED
      BY <1>7, <2>1, <2>3, <2>4 DEF Record
  <1>8. ASSUME ~unread, NEW p \in Proxies, FlushSnapshot(p)
        PROVE  Carried'
    <2>1. OnDisk' = OnDisk /\ Floor' = Floor
      BY <1>8 DEF FlushSnapshot, OnDisk, Floor
    <2>2. /\ Pruned(ledger[p]) \in Ledger
          /\ CountedFrom(Floor, flushed, Pruned(ledger[p]))
          /\ CountedFrom(Floor, Pruned(ledger[p]), Pruned(ledger[p]))
      BY <1>8, PrunedIsLedger, CountedTransitive, CountedReflexive DEF FlushSnapshot
    <2>3. QED
      BY <1>8, <2>1, <2>2 DEF FlushSnapshot
  <1>9. ASSUME ~unread, NEW p \in Proxies, FlushCreate(p) \/ FlushWrite(p)
        PROVE  Carried'
    <2>1. files'[Saved] = files[Saved] /\ Floor' = Floor
      BY <1>9 DEF FlushCreate, FlushWrite, FS!Create, FS!WriteAndClose, Floor,
                  OneWriter, SavesThroughTemporary, Saved, Temporary
    <2>2. OnDisk' = OnDisk
      BY <2>1 DEF OnDisk
    <2>3. QED
      BY <1>9, <2>1, <2>2 DEF FlushCreate, FlushWrite
  <1>10. ASSUME ~unread, NEW p \in Proxies, FlushRename(p)
         PROVE  Carried'
    <2> DEFINE text == flush[p].text
    <2>1. OnDisk' = text /\ Floor' = Floor
      BY <1>10 DEF FlushRename, FS!Rename, OnDisk, Floor, OneWriter,
                   SavesThroughTemporary, Saved, Temporary
    <2>2. up[p] /\ \A q \in Proxies: flush'[q] = Asleep /\ (up[q] => q = p)
      BY <1>10, FlushingAlone DEF FlushRename
    <2>3. /\ CountedFrom(Floor, flushed, text) /\ CountedFrom(Floor, text, text)
          /\ CountedFrom(Floor, flushed, ledger[p]) /\ CountedFrom(Floor, text, ledger[p])
      BY <1>10, <2>2, CountedReflexive DEF FlushRename
    <2>4. CountedFrom(Floor, flushed', text) /\ CountedFrom(Floor, flushed', ledger[p])
      BY <1>10, <2>3, LargerIsLedger DEF FlushRename
    <2>5. QED
      BY <1>10, <2>1, <2>2, <2>4 DEF FlushRename, Asleep
  <1>11. ASSUME ~unread, NEW p \in Proxies, FlushFails(p)
         PROVE  Carried'
    <2>1. OnDisk' = OnDisk /\ Floor' = Floor
      BY <1>11 DEF FlushFails, FS!Close, OnDisk, Floor
    <2>2. QED
      BY <1>11, <2>1 DEF FlushFails, Asleep
  <1>12. QED
    BY <1>1, <1>2, <1>3, <1>4, <1>5, <1>6, <1>7, <1>8, <1>9, <1>10, <1>11
       DEF Next, Start, FlushStep

-----------------------------------------------------------------------------
(***************************************************************************)
(* What is saved spans one retention window, however old the clone is by   *)
(* the time it reaches the disk and however long the file then lies there. *)
(***************************************************************************)
LEMMA WindowLater ==
  ASSUME NEW l \in Ledger, hour \in Hours, hour' \in Hours, hour <= hour', InOneWindow(l)
  PROVE  InOneWindow(l)'
  <1>1. PICK last \in Hours: /\ last <= hour
                             /\ \A h \in Hours: l[h] # 0 => h <= last /\ last <= h + Retention
    BY DEF InOneWindow
  <1>2. last <= hour'
    BY <1>1, BoundAssumption DEF Hours
  <1>3. QED
    BY <1>1, <1>2 DEF InOneWindow

LEMMA PrunedInWindow ==
  ASSUME NEW l \in Ledger, hour \in Hours, \A h \in Hours: l[h] # 0 => h <= hour
  PROVE  InOneWindow(Pruned(l))
  <1>1. \A h \in Hours: Pruned(l)[h] # 0 => h <= hour /\ hour <= h + Retention
    BY BoundAssumption DEF Pruned, Floor, Hours
  <1>2. QED
    BY <1>1, BoundAssumption DEF InOneWindow, Hours

LEMMA EmptyInWindow ==
  ASSUME hour \in Hours
  PROVE  InOneWindow(NoBuckets)
  BY BoundAssumption DEF InOneWindow, NoBuckets, Hours

LEMMA NextWithinWindows ==
  ASSUME TypeOK, OneWriter, WithinWindows, [Next]_vars
  PROVE  WithinWindows'
  <1> USE DEF TypeOK, disk, history
  <1>1. CASE UNCHANGED <<hour, files, ledger, flush>>
    BY <1>1 DEF WithinWindows, OnDisk, InOneWindow
  <1>2. CASE Tick
    <2>1. hour' \in Hours /\ hour <= hour'
      BY <1>2, BoundAssumption DEF Tick, Hours
    <2>2. OnDisk' = OnDisk /\ OnDisk \in Ledger
      BY <1>2, OnDiskIsLedger DEF Tick, OnDisk
    <2>3. InOneWindow(OnDisk)'
      BY <2>1, <2>2, WindowLater DEF WithinWindows
    <2>4. ASSUME NEW p \in Proxies
          PROVE  InOneWindow(flush[p].text)'
      BY <1>2, <2>1, WindowLater DEF WithinWindows, Tick
    <2>5. ASSUME NEW p \in Proxies, NEW h \in Hours, ledger'[p][h] # 0
          PROVE  h <= hour'
      BY <1>2, <2>1, <2>5, BoundAssumption DEF WithinWindows, Tick, Hours
    <2>6. QED
      BY <2>3, <2>4, <2>5 DEF WithinWindows
  <1>3. ASSUME UNCHANGED <<hour, files>>,
               NEW p \in Proxies,
               \A q \in Proxies \ {p}: ledger'[q] = ledger[q] /\ flush'[q] = flush[q],
               \A h \in Hours: ledger'[p][h] # 0 => h <= hour,
               InOneWindow(flush'[p].text)
        PROVE  WithinWindows'
    <2>1. \A q \in Proxies: InOneWindow(flush'[q].text)
      BY <1>3 DEF WithinWindows
    <2>2. \A q \in Proxies: InOneWindow(flush[q].text)'
      BY <1>3, <2>1 DEF InOneWindow
    <2>3. InOneWindow(OnDisk)'
      BY <1>3 DEF WithinWindows, InOneWindow, OnDisk
    <2>4. \A q \in Proxies, h \in Hours: ledger'[q][h] # 0 => h <= hour'
      BY <1>3 DEF WithinWindows
    <2>5. QED
      BY <2>2, <2>3, <2>4 DEF WithinWindows
  <1>4. ASSUME NEW p \in Proxies, Open(p)
        PROVE  WithinWindows'
    <2>1. \A h \in Hours: OnDisk[h] # 0 => h <= hour
      BY BoundAssumption DEF WithinWindows, InOneWindow, Hours
    <2>2. InOneWindow(flush'[p].text)
      BY <1>4 DEF Open, WithinWindows
    <2>3. QED
      BY <1>3, <1>4, <2>1, <2>2 DEF Open
  <1>5. ASSUME NEW p \in Proxies, OpenUnread(p)
        PROVE  WithinWindows'
    <2>1. InOneWindow(flush'[p].text)
      BY <1>5 DEF OpenUnread, WithinWindows
    <2>2. QED
      BY <1>3, <1>5, <2>1 DEF OpenUnread, NoBuckets
  <1>6. ASSUME NEW p \in Proxies, Stop(p)
        PROVE  WithinWindows'
    <2>1. InOneWindow(flush'[p].text)
      BY <1>6, EmptyInWindow DEF Stop, Asleep
    <2>2. QED
      BY <1>3, <1>6, <2>1 DEF Stop, FS!Close, NoBuckets
  <1>7. ASSUME NEW p \in Proxies, Record(p)
        PROVE  WithinWindows'
    <2>1. \A h \in Hours: ledger'[p][h] # 0 => h <= hour
      BY <1>7, BoundAssumption DEF Record, WithinWindows, Ledger, Hours
    <2>2. InOneWindow(flush'[p].text)
      BY <1>7 DEF Record, WithinWindows
    <2>3. QED
      BY <1>3, <1>7, <2>1, <2>2 DEF Record
  <1>8. ASSUME NEW p \in Proxies, FlushSnapshot(p)
        PROVE  WithinWindows'
    <2>1. InOneWindow(Pruned(ledger[p]))
      BY PrunedInWindow DEF WithinWindows
    <2>2. InOneWindow(flush'[p].text)
      BY <1>8, <2>1 DEF FlushSnapshot
    <2>3. \A h \in Hours: ledger'[p][h] # 0 => h <= hour
      BY <1>8 DEF FlushSnapshot, Pruned, WithinWindows
    <2>4. QED
      BY <1>3, <1>8, <2>2, <2>3 DEF FlushSnapshot
  <1>9. ASSUME NEW p \in Proxies, FlushCreate(p) \/ FlushWrite(p)
        PROVE  WithinWindows'
    <2>1. files'[Saved] = files[Saved] /\ hour' = hour
      BY <1>9 DEF FlushCreate, FlushWrite, FS!Create, FS!WriteAndClose,
                  OneWriter, SavesThroughTemporary, Saved, Temporary
    <2>2. OnDisk' = OnDisk
      BY <2>1 DEF OnDisk
    <2>3. ledger' = ledger /\ \A q \in Proxies: flush'[q].text = flush[q].text
      BY <1>9 DEF FlushCreate, FlushWrite
    <2>4. QED
      BY <2>1, <2>2, <2>3 DEF WithinWindows, InOneWindow
  <1>10. ASSUME NEW p \in Proxies, FlushRename(p)
         PROVE  WithinWindows'
    <2>1. OnDisk' = flush[p].text /\ hour' = hour /\ ledger' = ledger
      BY <1>10 DEF FlushRename, FS!Rename, OnDisk, OneWriter, SavesThroughTemporary,
                   Saved, Temporary
    <2>2. \A q \in Proxies: InOneWindow(flush'[q].text)
      BY <1>10, EmptyInWindow DEF FlushRename, Asleep, WithinWindows
    <2>3. QED
      BY <2>1, <2>2 DEF WithinWindows, InOneWindow
  <1>11. ASSUME NEW p \in Proxies, FlushFails(p)
         PROVE  WithinWindows'
    <2>1. InOneWindow(flush'[p].text)
      BY <1>11, EmptyInWindow DEF FlushFails, Asleep
    <2>2. QED
      BY <1>3, <1>11, <2>1 DEF FlushFails, FS!Close, WithinWindows
  <1>12. QED
    BY <1>1, <1>2, <1>4, <1>5, <1>6, <1>7, <1>8, <1>9, <1>10, <1>11
       DEF Next, vars, Start, FlushStep

-----------------------------------------------------------------------------
(***************************************************************************)
(* While one proxy runs at a time, the inductive invariant holds in every  *)
(* reachable state.                                                        *)
(***************************************************************************)
THEOREM LedgerInvariant ==
  ASSUME Overlap = FALSE
  PROVE  Spec => []IInv
  <1>1. Init => IInv
    <2> SUFFICES ASSUME Init
                 PROVE  IInv
      OBVIOUS
    <2>1. TypeOK
      <3>1. 0 \in Hours /\ 0 \in 0..MaxFailures
        BY BoundAssumption DEF Hours
      <3>2. Asleep \in [at: FlushSteps, text: Ledger]
        BY NoBucketsCounted DEF Asleep, FlushSteps
      <3>3. QED
        BY <3>1, <3>2, NoBucketsCounted DEF Init, TypeOK
    <2>2. OneRuns /\ StoppedHoldNothing /\ SavesThroughTemporary /\ NeverHalfWritten
      BY TextAssumption DEF Init, OneRuns, StoppedHoldNothing, SavesThroughTemporary,
                            NeverHalfWritten, Asleep
    <2>3. OnDisk = NoBuckets
      BY TextAssumption DEF Init, OnDisk
    <2>4. CountedOnce /\ ClonesCountedOnce
      BY <2>3, NoBucketsCounted DEF Init, CountedOnce, ClonesCountedOnce, Asleep
    <2>5. TotalsSpanRestarts /\ MemoryAhead
      BY <2>3 DEF Init, TotalsSpanRestarts, MemoryAhead, Asleep, CountedFrom,
                  NoBuckets
    <2>6. WithinWindows
      BY <2>1, <2>3, EmptyInWindow DEF Init, TypeOK, WithinWindows, Asleep, NoBuckets
    <2>7. QED
      BY <2>1, <2>2, <2>4, <2>5, <2>6 DEF IInv
  <1>2. IInv /\ [Next]_vars => IInv'
    BY NextTypeOK, NextOneWriter, NextCountedOnce, NextCarried, NextWithinWindows
       DEF IInv, OneWriter, Carried
  <1>3. QED
    BY <1>1, <1>2, PTL DEF Spec

\* A proxy killed at any point of a save leaves the old ledger or the new one.
THEOREM OldOrNew ==
  ASSUME Overlap = FALSE
  PROVE  Spec => []NeverHalfWritten
  <1>1. IInv => NeverHalfWritten
    BY DEF IInv
  <1>2. QED
    BY <1>1, LedgerInvariant, PTL

(***************************************************************************)
(* What a flush has put on disk stays there for as long as its hour is     *)
(* within retention, through any number of restarts, kills and errors.     *)
(***************************************************************************)
THEOREM TotalsSurvive ==
  ASSUME Overlap = FALSE
  PROVE  Spec => []TotalsSpanRestarts
  <1>1. IInv => TotalsSpanRestarts
    BY DEF IInv
  <1>2. QED
    BY <1>1, LedgerInvariant, PTL

\* And nothing is ever counted twice, on disk or in memory.
THEOREM NothingTwice ==
  ASSUME Overlap = FALSE
  PROVE  Spec => []CountedOnce
  <1>1. IInv => CountedOnce
    BY DEF IInv
  <1>2. QED
    BY <1>1, LedgerInvariant, PTL

(***************************************************************************)
(* The file never holds more buckets than the retention window has hours,  *)
(* however long the proxy runs and however much it serves.                 *)
(***************************************************************************)
THEOREM GrowthIsBounded ==
  ASSUME Overlap = FALSE
  PROVE  Spec => []FileBounded
  <1>1. ASSUME WithinWindows
        PROVE  FileBounded
    <2> DEFINE kept == {h \in Hours: OnDisk[h] # 0}
    <2>1. PICK last \in Hours: \A h \in kept: h <= last /\ last <= h + Retention
      BY <1>1 DEF WithinWindows, InOneWindow
    <2>2. last \in Nat /\ Retention \in Nat
      BY BoundAssumption DEF Hours
    <2>3. kept \subseteq (last - Retention) .. last
      BY <2>1, <2>2 DEF Hours
    <2>4. /\ IsFiniteSet((last - Retention) .. last)
          /\ Cardinality((last - Retention) .. last) = Retention + 1
      BY <2>2, FS_Interval
    <2>5. Cardinality(kept) <= Retention + 1
      <3> HIDE DEF kept
      <3> QED
        BY <2>3, <2>4, FS_Subset
    <2>6. QED
      BY <2>5 DEF FileBounded
  <1>2. IInv => FileBounded
    BY <1>1 DEF IInv
  <1>3. QED
    BY <1>2, LedgerInvariant, PTL
=============================================================================
