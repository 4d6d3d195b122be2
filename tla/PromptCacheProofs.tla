------------------------- MODULE PromptCacheProofs -------------------------
(***************************************************************************)
(* The provider's cache of a conversation, for any conversation, markers,  *)
(* anchors and heads.                                                      *)
(*                                                                         *)
(* The properties relate the latest request to an earlier one, of which    *)
(* only the watched prefix is left.  WatchedWasSent says what is known of  *)
(* it: how its bytes came from the client's.  A later request that repeats *)
(* the client's bytes is then compared with it block by block, and below   *)
(* the floor no block is touched.                                          *)
(***************************************************************************)
EXTENDS PromptCache, Integers, WellFoundedInduction, FiniteSetTheorems, TLAPS

-----------------------------------------------------------------------------
(***************************************************************************)
(* The largest number of a set of positions                                *)
(***************************************************************************)
\* The order of the natural numbers, as the set of pairs the library speaks of.
LEMMA Descent == IsWellFoundedOn({ss \in Nat \X Nat: ss[1] < ss[2]}, Nat)
  BY NatLessThanWellFounded DEF OpToRel

\* A set of natural numbers that is not empty has a smallest one.
LEMMA SmallestExists ==
  ASSUME NEW S \in SUBSET Nat, S # {}
  PROVE  \E x \in S: \A y \in S: x <= y
<1> DEFINE R == {ss \in Nat \X Nat: ss[1] < ss[2]}
<1>1. IsWellFoundedOn(R, Nat)
  BY Descent
<1>2. \A x, y \in Nat: <<y, x>> \notin R => x <= y
  OBVIOUS
<1> HIDE DEF R
<1>3. \E x \in S: \A y \in S: <<y, x>> \notin R
  BY <1>1, WFMin
<1> QED
  BY <1>2, <1>3

\* Newest is the largest of some positions, and 0 where there is none.
LEMMA NewestIsLargest ==
  ASSUME NEW n \in Nat, NEW S \in SUBSET (1..n)
  PROVE  /\ Newest(S) \in 0..n
         /\ S # {} => Newest(S) \in S
         /\ \A x \in S: x <= Newest(S)
<1>1. CASE S = {}
  BY <1>1 DEF Newest
<1>2. CASE S # {}
  <2> DEFINE T == {x \in Nat: n - x \in S}
  <2>1. PICK s \in S: TRUE
    BY <1>2
  <2>2. n - s \in T
    OBVIOUS
  <2>3. PICK t \in T: \A y \in T: t <= y
    BY <2>2, SmallestExists
  <2>4. n - t \in S /\ \A y \in S: n - t >= y
    <3>1. \A y \in S: n - y \in T
      OBVIOUS
    <3> QED
      BY <2>3, <3>1
  <2>5. Max(S) \in S /\ \A y \in S: Max(S) >= y
    BY <2>4 DEF Max
  <2>6. Newest(S) = Max(S)
    BY <1>2 DEF Newest
  <2>7. Newest(S) \in S /\ \A y \in S: Newest(S) >= y
    BY <2>5, <2>6
  <2>8. \A x \in S: x <= Newest(S)
    BY <2>7
  <2>9. Newest(S) \in 0..n
    <3>1. S \subseteq 0..n
      OBVIOUS
    <3> QED
      BY <2>7, <3>1
  <2> QED
    BY <2>7, <2>8, <2>9
<1> QED
  BY <1>1, <1>2

-----------------------------------------------------------------------------
(***************************************************************************)
(* What compression leaves alone                                           *)
(***************************************************************************)
\* The first k elements of a sequence or of any function on 1..n.
LEMMA FirstOf ==
  ASSUME NEW n \in Nat, NEW s, DOMAIN s = 1..n, s = [i \in 1..n |-> s[i]], NEW k \in 0..n
  PROVE  SubSeq(s, 1, k) = [i \in 1..k |-> s[i]]
  OBVIOUS

\* live_zone returns no block at or below the floor, and what it returns is a
\* tool's output or a user's text.
LEMMA LiveIsAboveFloor ==
  ASSUME NEW ms, NEW floor, NEW l \in LiveZone(ms, floor)
  PROVE  /\ l[1] \in DOMAIN ms /\ l[1] > floor
         /\ \/ FromUser(ms[l[1]])
            \/ BlocksOf(ms[l[1]]) \cap ToolOutput # {}
<1> DEFINE places == UNION {{i} \X DOMAIN ms[i].blocks: i \in {i \in DOMAIN ms: i > floor}}
           kind == ms[l[1]].blocks[l[2]]
<1>1. l \in places
  BY DEF LiveZone
<1>2. PICK i \in DOMAIN ms: i > floor /\ l \in {i} \X DOMAIN ms[i].blocks
  BY <1>1
<1>3. l[1] = i /\ l[2] \in DOMAIN ms[i].blocks
  BY <1>2
<1>4. Category(ms[l[1]], kind) \in {"text", "tool"}
  BY DEF LiveZone
<1>5. kind \in ToolOutput \/ FromUser(ms[l[1]])
  BY <1>4 DEF Category
<1>6. kind \in BlocksOf(ms[l[1]])
  BY <1>3 DEF BlocksOf
<1> QED
  BY <1>2, <1>3, <1>5, <1>6

\* Nor does a note go there.
LEMMA NoteIsAboveFloor ==
  ASSUME NEW ms, NEW floor, NEW l \in Noted(ms, floor)
  PROVE  l[1] > floor
  BY DEF Noted, NoteAt

\* What is frozen is forwarded as it came.
LEMMA FrozenIsAsItCame ==
  ASSUME NEW ms \in Seq(Message), NEW floor \in Int, NEW k \in 0..Len(ms), k <= floor
  PROVE  SubSeq(Forwarded(ms, floor), 1, k) = AsItCame(SubSeq(ms, 1, k))
<1> DEFINE sent == Forwarded(ms, floor)
           plain(i) == [j \in DOMAIN ms[i].blocks |->
                           [kind |-> ms[i].blocks[j], shrunk |-> FALSE, scored |-> {}, noted |-> {}]]
<1>1. DOMAIN sent = 1..Len(ms) /\ sent = [i \in 1..Len(ms) |-> sent[i]]
  BY DEF Forwarded
<1>2. ASSUME NEW i \in 1..k
      PROVE  sent[i] = plain(i)
  <2>1. ASSUME NEW j
        PROVE  <<i, j>> \notin LiveZone(ms, floor) /\ <<i, j>> \notin Noted(ms, floor)
    BY LiveIsAboveFloor, NoteIsAboveFloor
  <2>2. \A j: <<i, j>> \notin Shrunk(ms, floor) /\ <<i, j>> \notin Noted(ms, floor)
    BY <2>1 DEF Shrunk
  <2>3. i \in DOMAIN ms
    OBVIOUS
  <2>4. sent[i] = [j \in DOMAIN ms[i].blocks |-> sent[i][j]]
    BY <2>3 DEF Forwarded
  <2>5. ASSUME NEW j \in DOMAIN ms[i].blocks
        PROVE  sent[i][j] = plain(i)[j]
    <3> DEFINE kind == ms[i].blocks[j]
               touched == <<i, j>> \in Shrunk(ms, floor)
               scored == IF touched /\ kind \in ToolOutput THEN {Query(ms)} ELSE {}
               noted == IF <<i, j>> \in Noted(ms, floor) THEN {Query(ms)} ELSE {}
    <3>1. sent[i][j] = [kind |-> kind, shrunk |-> touched, scored |-> scored, noted |-> noted]
      BY <2>3 DEF Forwarded
    <3>2. touched = FALSE /\ scored = {} /\ noted = {}
      BY <2>2
    <3> HIDE DEF sent, touched, scored, noted
    <3> QED
      BY <3>1, <3>2
  <2> HIDE DEF sent
  <2> QED
    BY <2>4, <2>5
<1>3. SubSeq(sent, 1, k) = [i \in 1..k |-> sent[i]]
  BY <1>1, FirstOf
<1>4. SubSeq(ms, 1, k) = [i \in 1..k |-> ms[i]]
  BY FirstOf
<1>5. AsItCame(SubSeq(ms, 1, k)) = [i \in 1..k |-> plain(i)]
  BY <1>4 DEF AsItCame
<1> HIDE DEF sent
<1>6. [i \in 1..k |-> sent[i]] = [i \in 1..k |-> plain(i)]
  BY <1>2
<1> QED
  BY <1>3, <1>5, <1>6 DEF sent

-----------------------------------------------------------------------------
(***************************************************************************)
(* The invariant                                                           *)
(***************************************************************************)
\* What a client adds is made of messages, and no assistant's holds tool output.
LEMMA TurnsAreMessages ==
  ASSUME NEW d \in Dialects, NEW ms \in Openings[d] \cup Turns[d]
  PROVE  /\ ms \in Seq(Message)
         /\ \A i \in 1..Len(ms):
                ms[i].role = "assistant" => BlocksOf(ms[i]) \cap ToolOutput = {}
<1>1. ms \in Seq(Message)
  BY DialectAssumption
<1>2. ASSUME NEW i \in DOMAIN ms, ms[i].role = "assistant"
      PROVE  BlocksOf(ms[i]) \cap ToolOutput = {}
  BY <1>2, AnswerAssumption DEF BlocksOf
<1> QED
  BY <1>1, <1>2

LEMMA MarksAreOnMessages ==
  ASSUME NEW ms \in Seq(Message), NEW mk \in MarksOf(ms)
  PROVE  mk \subseteq 1..Len(ms)
  BY DEF MarksOf

LEMMA InitConversing == Init => Conversing
<1> SUFFICES ASSUME Init PROVE Conversing
  OBVIOUS
<1>1. messages \in Openings[dialect] /\ dialect \in Dialects /\ pinned \in Pinned
  BY DEF Init
<1>2. stabilized \in BOOLEAN
  BY OptionAssumption DEF Init
<1>3. marks \subseteq 1..Len(messages)
  BY <1>1, TurnsAreMessages, MarksAreOnMessages DEF Init
<1> QED
  BY <1>1, <1>2, <1>3, TurnsAreMessages DEF Conversing, Positions

LEMMA NextConversing == Conversing /\ [Next]_vars => Conversing'
<1> SUFFICES ASSUME Conversing, [Next]_vars PROVE Conversing'
  OBVIOUS
<1>1. CASE UNCHANGED vars
  BY <1>1 DEF Conversing, Positions, BlocksOf, vars
<1>2. CASE Next
  <2>1. PICK cut \in Positions, turn \in Turns[dialect]:
          \E hd \in HeadsOf(cut + Len(turn)), mk \in MarksOf(SubSeq(messages, 1, cut) \o turn):
              MessagesHandler(cut, turn, hd, mk)
    BY <1>2 DEF Next
  <2> DEFINE ms == SubSeq(messages, 1, cut) \o turn
  <2>2. /\ messages' = ms /\ marks' \in MarksOf(ms)
        /\ UNCHANGED <<dialect, stabilized, pinned>>
    BY <2>1 DEF MessagesHandler, Arrives
  <2>3. messages \in Seq(Message) /\ cut \in 1..Len(messages) /\ dialect \in Dialects
    BY DEF Conversing, Positions
  <2>4. /\ turn \in Seq(Message)
        /\ \A i \in 1..Len(turn):
               turn[i].role = "assistant" => BlocksOf(turn[i]) \cap ToolOutput = {}
    BY <2>3, TurnsAreMessages
  <2>5. SubSeq(messages, 1, cut) \in Seq(Message) /\ Len(SubSeq(messages, 1, cut)) = cut
        /\ \A i \in 1..cut: SubSeq(messages, 1, cut)[i] = messages[i]
    BY <2>3
  <2>6. /\ ms \in Seq(Message) /\ Len(ms) = cut + Len(turn)
        /\ \A i \in 1..Len(ms): ms[i] = IF i <= cut THEN messages[i] ELSE turn[i - cut]
    BY <2>3, <2>4, <2>5
  <2> HIDE DEF ms
  <2>7. ASSUME NEW i \in 1..Len(ms), ms[i].role = "assistant"
        PROVE  BlocksOf(ms[i]) \cap ToolOutput = {}
    <3>1. CASE i <= cut
      BY <3>1, <2>3, <2>6, <2>7 DEF Conversing, Positions
    <3>2. CASE ~(i <= cut)
      <4>1. i - cut \in 1..Len(turn) /\ ms[i] = turn[i - cut]
        BY <3>2, <2>3, <2>4, <2>6
      <4> QED
        BY <4>1, <2>4, <2>7
    <3> QED
      BY <3>1, <3>2
  <2>8. marks' \subseteq 1..Len(ms)
    BY <2>2, <2>6, MarksAreOnMessages
  <2> QED
    BY <2>2, <2>6, <2>7, <2>8 DEF Conversing, Positions, BlocksOf
<1> QED
  BY <1>1, <1>2

\* How far a request's floor reaches.
LEMMA FloorCoversMarks ==
  ASSUME Conversing, dialect = "anthropic"
  PROVE  FrozenFloor \in 0..Len(messages) /\ \A m \in marks: m <= FrozenFloor
<1>1. Len(messages) \in Nat /\ marks \in SUBSET (1..Len(messages))
  BY DEF Conversing, Positions
<1> QED
  BY <1>1, NewestIsLargest DEF FrozenFloor

\* The provider caches prefixes of what it was sent.
LEMMA CachedArePrefixes ==
  ASSUME Conversing, NEW k \in CachedUpTo
  PROVE  k \in 0..Len(messages)
<1>1. Len(messages) \in Nat /\ marks \subseteq 1..Len(messages)
  BY DEF Conversing, Positions
<1>2. ASSUME NEW a \in Breakpoints
      PROVE  a \in 1..Len(messages)
  <2>1. a \in Anchors /\ a < Len(messages)
    BY DEF Breakpoints
  <2> QED
    BY <1>1, <2>1, AnchorAssumption
<1> QED
  BY <1>1, <1>2 DEF CachedUpTo, Marked

\* What a request makes the provider cache is as WatchedWasSent says.
LEMMA WrittenWasSent == Conversing /\ watched \in Written => WatchedWasSent
<1> SUFFICES ASSUME Conversing, watched \in Written PROVE WatchedWasSent
  OBVIOUS
<1>1. PICK k \in CachedUpTo:
        watched = [client |-> SubSeq(messages, 1, k), sent |-> SubSeq(Compressed, 1, k),
                   length |-> Len(messages), head |-> head, ahead |-> Ahead(head)]
  BY DEF Written
<1>2. k \in 0..Len(messages) /\ messages \in Seq(Message)
  BY CachedArePrefixes DEF Conversing
<1>3. watched.client = SubSeq(messages, 1, k) /\ watched.client \in Seq(Message)
      /\ Len(watched.client) = k
  BY <1>1, <1>2
<1>4. watched.ahead = Ahead(watched.head)
  BY <1>1
<1>5. ASSUME dialect = "anthropic", ~stabilized
      PROVE  watched.sent = AsItCame(watched.client)
  <2>1. k \in marks
    BY <1>5 DEF CachedUpTo, Marked, Breakpoints
  <2>2. FrozenFloor \in Int /\ k <= FrozenFloor
    BY <1>5, <2>1, FloorCoversMarks
  <2>3. SubSeq(Forwarded(messages, FrozenFloor), 1, k) = AsItCame(SubSeq(messages, 1, k))
    BY <1>2, <2>2, FrozenIsAsItCame
  <2> QED
    BY <1>1, <1>3, <2>3 DEF Compressed
<1>6. ASSUME dialect = "openai"
      PROVE  /\ watched.length = Len(watched.client)
             /\ watched.sent = Forwarded(watched.client, Len(watched.client) - 1)
  <2>1. k = Len(messages) /\ FrozenFloor = Len(messages) - 1
    BY <1>6 DEF CachedUpTo, FrozenFloor
  <2>2. watched.client = messages
    BY <1>2, <1>3, <2>1
  <2> DEFINE sent == Forwarded(messages, FrozenFloor)
  <2>3. DOMAIN sent = 1..Len(messages) /\ sent = [i \in 1..Len(messages) |-> sent[i]]
    BY <1>2 DEF Forwarded
  <2> HIDE DEF sent
  <2>4. SubSeq(sent, 1, k) = sent
    BY <1>2, <2>1, <2>3, FirstOf
  <2> QED
    BY <1>1, <2>1, <2>2, <2>4 DEF Compressed, sent
<1>7. watched.length \in Nat
  BY <1>1, <1>2
<1> QED
  BY <1>3, <1>4, <1>5, <1>6, <1>7 DEF WatchedWasSent

\* Of the state, what a request becomes depends on the dialect alone.
LEMMA ForwardedStays ==
  ASSUME UNCHANGED dialect, NEW ms, NEW floor
  PROVE  Forwarded(ms, floor)' = Forwarded(ms, floor)
<1>1. Query(ms)' = Query(ms)
  BY DEF Query, HasText
<1>2. Shrunk(ms, floor)' = Shrunk(ms, floor) /\ Noted(ms, floor)' = Noted(ms, floor)
  OBVIOUS
<1> QED
  BY <1>1, <1>2 DEF Forwarded

\* The description of the watched prefix does not depend on the latest request.
LEMMA WasSentStays ==
  ASSUME WatchedWasSent, UNCHANGED <<dialect, stabilized, watched>>
  PROVE  WatchedWasSent'
<1>1. CASE watched = NothingCached
  BY <1>1 DEF WatchedWasSent, NothingCached
<1>2. CASE watched # NothingCached
  <2> DEFINE floor == Len(watched.client) - 1
  <2>1. Forwarded(watched.client, floor)' = Forwarded(watched.client, floor)
    BY ForwardedStays
  <2>2. Ahead(watched.head)' = Ahead(watched.head)
    BY DEF Ahead
  <2> QED
    BY <1>2, <2>1, <2>2 DEF WatchedWasSent, AsItCame
<1> QED
  BY <1>1, <1>2

(***************************************************************************)
(* The inductive invariant: every request of the conversation is made of   *)
(* messages, and the watched prefix is one the provider was sent, by a     *)
(* request since forgotten.                                                *)
(***************************************************************************)
THEOREM CacheInvariant == Spec => []IInv
<1>1. Init => IInv
  BY InitConversing, WrittenWasSent DEF IInv, Init, WatchedWasSent
<1>2. IInv /\ [Next]_vars => IInv'
  <2> SUFFICES ASSUME IInv, [Next]_vars PROVE IInv'
    OBVIOUS
  <2>1. Conversing'
    BY NextConversing DEF IInv
  <2>2. UNCHANGED <<dialect, stabilized>>
    BY DEF Next, MessagesHandler, Arrives, vars
  <2>3. CASE UNCHANGED watched
    BY <2>1, <2>2, <2>3, WasSentStays DEF IInv
  <2>4. CASE (watched \in Written)'
    <3>1. Conversing' /\ (watched \in Written)' => WatchedWasSent'
      BY WrittenWasSent, PTL
    <3> QED
      BY <2>1, <2>4, <3>1 DEF IInv
  <2> QED
    BY <2>3, <2>4 DEF Next, MessagesHandler, Arrives, vars
<1> QED
  BY <1>1, <1>2, PTL DEF Spec

-----------------------------------------------------------------------------
(***************************************************************************)
(* The properties                                                          *)
(***************************************************************************)
\* A watched prefix with anything in it was sent, and is a prefix of the latest request.
LEMMA ContinuedWasSent ==
  ASSUME IInv, Continued
  PROVE  /\ watched # NothingCached
         /\ watched.client \in Seq(Message)
         /\ Len(watched.client) \in 1..Len(messages)
         /\ SubSeq(messages, 1, Len(watched.client)) = watched.client
         /\ messages \in Seq(Message)
<1>1. watched # NothingCached
  BY DEF Continued, NothingCached
<1>2. watched.client \in Seq(Message) /\ messages \in Seq(Message)
  BY <1>1 DEF IInv, Conversing, WatchedWasSent
<1> QED
  BY <1>1, <1>2 DEF Continued

\* Every request's head is treated alike.
LEMMA SameHeadStays ==
  ASSUME IInv, watched # NothingCached, head = watched.head
  PROVE  Ahead(head) = watched.ahead
  BY DEF IInv, WatchedWasSent

(***************************************************************************)
(* What a client has marked is never invalidated: the markers freeze what  *)
(* lies before them, and what is frozen is forwarded as it came, by the    *)
(* request that had it cached and by every one that asks for it.           *)
(***************************************************************************)
THEOREM MarkersProtectTheCache == Spec => []MarkedPrefixStaysCached
<1>1. IInv => MarkedPrefixStaysCached
  <2> SUFFICES ASSUME IInv, dialect = "anthropic", ~stabilized,
                      Continued, head = watched.head,
                      NEW m \in Marked, m >= Len(watched.client)
               PROVE  /\ Ahead(head) = watched.ahead
                      /\ SubSeq(Compressed, 1, Len(watched.client)) = watched.sent
    BY DEF MarkedPrefixStaysCached, Honoured
  <2> DEFINE k == Len(watched.client)
  <2>1. watched # NothingCached /\ k \in 1..Len(messages) /\ messages \in Seq(Message)
        /\ SubSeq(messages, 1, k) = watched.client
    BY ContinuedWasSent
  <2>2. m \in marks
    BY DEF Marked, Breakpoints
  <2>3. FrozenFloor \in 0..Len(messages) /\ m <= FrozenFloor
    BY <2>2, FloorCoversMarks DEF IInv
  <2>4. m \in Int
    BY <2>2 DEF IInv, Conversing, Positions
  <2>5. k <= FrozenFloor
    BY <2>1, <2>3, <2>4
  <2>6. SubSeq(Compressed, 1, k) = AsItCame(SubSeq(messages, 1, k))
    BY <2>1, <2>3, <2>5, FrozenIsAsItCame DEF Compressed
  <2>7. watched.sent = AsItCame(watched.client)
    BY <2>1 DEF IInv, WatchedWasSent
  <2> QED
    BY <2>1, <2>6, <2>7, SameHeadStays
<1> QED
  BY <1>1, CacheInvariant, PTL

(***************************************************************************)
(* Where caching is automatic, a request misses at most the newest message *)
(* of the one before it, and a retry misses nothing: compression is a      *)
(* function of the conversation and never reaches below the newest.        *)
(***************************************************************************)
THEOREM AutomaticCachingKept == Spec => []OnlyNewestMissed
<1>1. IInv => OnlyNewestMissed
  <2> DEFINE k == Len(watched.client)
             repeated == IF Len(messages) = k THEN k ELSE k - 1
  <2> SUFFICES ASSUME IInv, dialect = "openai", Continued, head = watched.head
               PROVE  /\ Ahead(head) = watched.ahead
                      /\ SubSeq(Compressed, 1, repeated) = SubSeq(watched.sent, 1, repeated)
    BY DEF OnlyNewestMissed
  <2>1. watched # NothingCached /\ k \in 1..Len(messages) /\ messages \in Seq(Message)
        /\ watched.client \in Seq(Message) /\ SubSeq(messages, 1, k) = watched.client
    BY ContinuedWasSent
  <2>2. watched.sent = Forwarded(watched.client, k - 1)
    BY <2>1 DEF IInv, WatchedWasSent
  <2>3. Compressed = Forwarded(messages, Len(messages) - 1)
    BY DEF Compressed, FrozenFloor
  <2>4. CASE Len(messages) = k
    <3>1. messages = watched.client
      BY <2>1, <2>4
    <3> QED
      BY <2>1, <2>2, <2>3, <3>1, SameHeadStays
  <2>5. CASE Len(messages) # k
    <3>1. SubSeq(Compressed, 1, k - 1) = AsItCame(SubSeq(messages, 1, k - 1))
      BY <2>1, <2>3, FrozenIsAsItCame
    <3>2. SubSeq(watched.sent, 1, k - 1) = AsItCame(SubSeq(watched.client, 1, k - 1))
      BY <2>1, <2>2, FrozenIsAsItCame
    <3>3. SubSeq(messages, 1, k - 1) = SubSeq(watched.client, 1, k - 1)
      <4>1. Len(messages) \in Nat /\ DOMAIN messages = 1..Len(messages)
            /\ messages = [i \in 1..Len(messages) |-> messages[i]]
        BY <2>1
      <4>2. SubSeq(messages, 1, k) = [i \in 1..k |-> messages[i]]
        BY <2>1, <4>1, FirstOf
      <4> QED
        BY <2>1, <4>2
    <3> QED
      BY <2>1, <2>5, <3>1, <3>2, <3>3, SameHeadStays
  <2> QED
    BY <2>4, <2>5
<1> QED
  BY <1>1, CacheInvariant, PTL

(***************************************************************************)
(* Breakpoints are only ever added: the anchor of an earlier request is    *)
(* marked again in every later one, by the proxy if not by the client.     *)
(***************************************************************************)
THEOREM AnchorsAreKept == Spec => []AnchorsStay
<1>1. IInv => AnchorsStay
  <2> DEFINE k == Len(watched.client)
  <2> SUFFICES ASSUME IInv, stabilized, Continued, k \in Anchors, marks \subseteq Anchors,
                      watched.length <= Len(messages), k < watched.length, watched.length >= 4
               PROVE  k \in Marked
    BY DEF AnchorsStay
  <2>1. watched # NothingCached /\ k \in 1..Len(messages)
    BY ContinuedWasSent
  <2>2. dialect # "openai"
    BY <2>1 DEF IInv, WatchedWasSent
  <2>3. dialect = "anthropic"
    BY <2>2, DialectAssumption DEF IInv, Conversing
  <2>4. Len(messages) >= 4 /\ k < Len(messages)
    BY <2>1 DEF IInv, Conversing, WatchedWasSent
  <2> QED
    BY <2>3, <2>4 DEF Marked, Breakpoints
<1> QED
  BY <1>1, CacheInvariant, PTL

(***************************************************************************)
(* A note never meets the floor: whatever is live lies above it, and is a  *)
(* user's text or, as only users hand in tool output, in a user's message. *)
(* The newest user message is no older.  This is the argument memory.rs    *)
(* calls "not a guarantee"; it rests on AnswerAssumption.                  *)
(***************************************************************************)
THEOREM NotesStayAboveTheFloor == Spec => []NoteNeverMeetsFloor
<1>1. IInv => NoteNeverMeetsFloor
  <2> SUFFICES ASSUME IInv, NEW l \in LiveZone(messages, FrozenFloor)
               PROVE  NewestUser(messages) > FrozenFloor
    BY DEF NoteNeverMeetsFloor
  <2> DEFINE users == {i \in DOMAIN messages: FromUser(messages[i])}
  <2>1. messages \in Seq(Message) /\ DOMAIN messages = 1..Len(messages)
    BY DEF IInv, Conversing
  <2>2. FrozenFloor \in Int
    <3>1. marks \in SUBSET (1..Len(messages)) /\ Len(messages) \in Nat
      BY <2>1 DEF IInv, Conversing, Positions
    <3>2. Newest(marks) \in Nat
      BY <3>1, NewestIsLargest
    <3> QED
      BY <3>1, <3>2 DEF FrozenFloor
  <2>3. l[1] \in 1..Len(messages) /\ l[1] > FrozenFloor
    BY <2>1, LiveIsAboveFloor
  <2>4. l[1] \in users
    <3>1. FromUser(messages[l[1]]) \/ BlocksOf(messages[l[1]]) \cap ToolOutput # {}
      BY LiveIsAboveFloor
    <3> QED
      BY <2>1, <2>3, <3>1 DEF IInv, Conversing, Positions, FromUser
  <2>5. users \in SUBSET (1..Len(messages)) /\ Len(messages) \in Nat
    BY <2>1
  <2> HIDE DEF users
  <2>6. Newest(users) \in 0..Len(messages) /\ \A i \in users: i <= Newest(users)
    BY <2>5, NewestIsLargest
  <2>7. l[1] <= Newest(users)
    BY <2>4, <2>6
  <2>8. NewestUser(messages) = Newest(users)
    BY DEF NewestUser, users
  <2> QED
    BY <2>2, <2>3, <2>5, <2>6, <2>7, <2>8
<1> QED
  BY <1>1, CacheInvariant, PTL

-----------------------------------------------------------------------------
(***************************************************************************)
(* Tools in order                                                          *)
(***************************************************************************)
Tools == Seq(Zone!Tool)
Distinct(tools) == \A i, j \in DOMAIN tools: tools[i].name = tools[j].name => i = j
Rank(tools, i) == Cardinality(Zone!UpTo(tools, i))
Names(tools) == {tools[i].name: i \in DOMAIN tools}

\* A request's tools are a sequence of tools.
LEMMA ToolsAre ==
  ASSUME NEW s \in Tools
  PROVE  /\ Len(s) \in Nat /\ DOMAIN s = 1..Len(s) /\ s = [i \in 1..Len(s) |-> s[i]]
         /\ \A i \in 1..Len(s): s[i] \in Zone!Tool /\ s[i].name \in Nat
<1>1. Len(s) \in Nat /\ DOMAIN s = 1..Len(s) /\ \A i \in 1..Len(s): s[i] \in Zone!Tool
  BY DEF Tools
<1>2. s = [i \in 1..Len(s) |-> s[i]]
  BY DEF Tools
<1>3. \A t \in Zone!Tool: t.name \in Nat
  BY DEF Zone!Tool
<1> QED
  BY <1>1, <1>2, <1>3

\* sort_keys leaves a tool its name.
LEMMA SortedKeys ==
  ASSUME NEW a \in Zone!Tool
  PROVE  /\ Zone!KeysSorted(a) \in Zone!Tool
         /\ Zone!KeysSorted(a).name = a.name /\ Zone!KeysSorted(a).keys = "sorted"
BY DEF Zone!Tool, Zone!KeysSorted

\* A tool is its name and the order of its keys.
LEMMA SameTool ==
  ASSUME NEW a \in Zone!Tool, NEW b \in Zone!Tool, a.name = b.name, a.keys = b.keys
  PROVE  a = b
<1>1. a = [name |-> a.name, keys |-> a.keys] /\ b = [name |-> b.name, keys |-> b.keys]
  BY DEF Zone!Tool
<1> QED
  BY <1>1

\* HotZone counts as this module does.
LEMMA OneCount == ASSUME NEW S PROVE Zone!Cardinality(S) = Cardinality(S)
BY DEF Zone!Cardinality, Cardinality

\* Every position has the tool that belongs there.
LEMMA RankedTools ==
  ASSUME NEW tools \in Tools, NEW n, n = Len(tools)
  PROVE  /\ n \in Nat /\ DOMAIN tools = 1..n
         /\ \A i \in 1..n: Rank(tools, i) \in 1..n /\ IsFiniteSet(Zone!UpTo(tools, i))
         /\ \A i, j \in 1..n: Rank(tools, i) = Rank(tools, j) => i = j
         /\ \A k \in 1..n: Zone!At(tools, k) \in 1..n /\ Rank(tools, Zone!At(tools, k)) = k
<1>1. n \in Nat /\ DOMAIN tools = 1..n /\ \A i \in 1..n: tools[i].name \in Nat
  BY ToolsAre
<1>2. IsFiniteSet(1..n) /\ Cardinality(1..n) = n
  <2>1. n \in Int /\ 1 \in Int /\ (IF 1 > n THEN 0 ELSE n - 1 + 1) = n
    BY <1>1
  <2> QED
    BY <2>1, FS_Interval
<1>3. ASSUME NEW i \in 1..n
      PROVE  Rank(tools, i) \in 1..n /\ IsFiniteSet(Zone!UpTo(tools, i))
  <2>1. Zone!UpTo(tools, i) \in SUBSET (1..n) /\ i \in Zone!UpTo(tools, i)
    BY <1>1 DEF Zone!UpTo, Zone!NotAfter
  <2>2. IsFiniteSet(Zone!UpTo(tools, i)) /\ Rank(tools, i) <= n
    BY <1>2, <2>1, FS_Subset DEF Rank
  <2>3. Rank(tools, i) \in Nat /\ Rank(tools, i) # 0
    BY <2>1, <2>2, FS_CardinalityType, FS_EmptySet DEF Rank
  <2> QED
    BY <1>1, <2>2, <2>3
<1>4. ASSUME NEW i \in 1..n, NEW j \in 1..n, Rank(tools, i) = Rank(tools, j)
      PROVE  i = j
  <2>1. ASSUME NEW x \in 1..n, NEW y \in 1..n, ~Zone!NotAfter(tools, y, x)
        PROVE  Rank(tools, x) # Rank(tools, y)
    <3>1. Zone!UpTo(tools, x) \in SUBSET Zone!UpTo(tools, y) /\ y \in Zone!UpTo(tools, y) \ Zone!UpTo(tools, x)
      BY <1>1, <2>1 DEF Zone!UpTo, Zone!NotAfter
    <3>2. IsFiniteSet(Zone!UpTo(tools, y))
      BY <1>3
    <3> QED
      BY <3>1, <3>2, FS_Subset DEF Rank
  <2>2. Zone!NotAfter(tools, i, j) /\ Zone!NotAfter(tools, j, i)
    BY <1>4, <2>1
  <2> QED
    BY <1>1, <2>2 DEF Zone!NotAfter
<1> DEFINE rank == [i \in 1..n |-> Rank(tools, i)]
<1>5. rank \in Injection(1..n, 1..n)
  BY <1>3, <1>4 DEF Injection, IsInjective
<1> HIDE DEF rank
<1>6. rank \in Surjection(1..n, 1..n)
  BY <1>2, <1>5, FS_Injection
<1>7. \A k \in 1..n: \E i \in 1..n: rank[i] = k
  BY <1>6 DEF Surjection
<1>8. ASSUME NEW k \in 1..n
      PROVE  Zone!At(tools, k) \in 1..n /\ Rank(tools, Zone!At(tools, k)) = k
  <2>1. \E i \in DOMAIN tools: Cardinality(Zone!UpTo(tools, i)) = k
    BY <1>1, <1>7 DEF rank, Rank
  <2> DEFINE P(i) == Zone!Cardinality(Zone!UpTo(tools, i)) = k
  <2>2. Zone!At(tools, k) = CHOOSE i \in DOMAIN tools: P(i)
    BY DEF Zone!At
  <2> HIDE DEF P
  <2>3. Zone!At(tools, k) \in DOMAIN tools /\ P(Zone!At(tools, k))
    BY <2>1, <2>2, OneCount DEF P
  <2> QED
    BY <1>1, <2>3, OneCount DEF Rank, P
<1> QED
  BY <1>1, <1>3, <1>4, <1>8

\* The order of tools with names of their own is that of their names.
LEMMA SameRank ==
  ASSUME NEW s \in Tools, NEW t \in Tools, Distinct(s), Distinct(t), Len(s) = Len(t), Names(s) = Names(t),
         NEW i \in DOMAIN s, NEW k \in DOMAIN t, s[i].name = t[k].name
  PROVE  Rank(s, i) = Rank(t, k)
<1>1. PICK n : n = Len(s)
  OBVIOUS
<1>2. n \in Nat /\ DOMAIN s = 1..n /\ DOMAIN t = 1..n
      /\ \A j \in 1..n: s[j].name \in Nat /\ t[j].name \in Nat
  BY <1>1, ToolsAre
<1>3. IsFiniteSet(Zone!UpTo(s, i))
  BY <1>1, <1>2, RankedTools
<1> DEFINE to == [j \in Zone!UpTo(s, i) |-> CHOOSE m \in 1..n: t[m].name = s[j].name]
<1>4. ASSUME NEW j \in 1..n
      PROVE  \E m \in 1..n: t[m].name = s[j].name
  <2>1. s[j].name \in Names(t)
    BY <1>2 DEF Names
  <2> QED
    BY <1>2, <2>1 DEF Names
<1>5. ASSUME NEW j \in Zone!UpTo(s, i)
      PROVE  to[j] \in 1..n /\ t[to[j]].name = s[j].name
  <2>1. j \in 1..n
    BY <1>2 DEF Zone!UpTo
  <2> QED
    BY <1>4, <2>1
<1> HIDE DEF to
<1>6. ASSUME NEW j \in Zone!UpTo(s, i)
      PROVE  to[j] \in Zone!UpTo(t, k)
  <2>1. j \in 1..n /\ Zone!NotAfter(s, j, i)
    BY <1>2 DEF Zone!UpTo
  <2>2. s[j].name <= s[i].name
    BY <1>2, <2>1 DEF Zone!NotAfter
  <2>3. to[j] \in 1..n /\ t[to[j]].name = s[j].name
    BY <1>5
  <2>4. t[to[j]].name = t[k].name => to[j] = k
    BY <1>2, <2>3 DEF Distinct
  <2>5. Zone!NotAfter(t, to[j], k)
    BY <1>2, <2>2, <2>3, <2>4 DEF Zone!NotAfter
  <2> QED
    BY <1>2, <2>3, <2>5 DEF Zone!UpTo
<1>7. ASSUME NEW x \in Zone!UpTo(s, i), NEW y \in Zone!UpTo(s, i), to[x] = to[y]
      PROVE  x = y
  <2>1. x \in 1..n /\ y \in 1..n /\ s[x].name = s[y].name
    BY <1>2, <1>5, <1>7 DEF Zone!UpTo
  <2> QED
    BY <1>2, <2>1 DEF Distinct
<1>8. ASSUME NEW m \in Zone!UpTo(t, k)
      PROVE  \E j \in Zone!UpTo(s, i): to[j] = m
  <2>1. m \in 1..n /\ Zone!NotAfter(t, m, k)
    BY <1>2 DEF Zone!UpTo
  <2>2. PICK j \in 1..n: s[j].name = t[m].name
    <3>1. t[m].name \in Names(s)
      BY <1>2, <2>1 DEF Names
    <3> QED
      BY <1>2, <3>1 DEF Names
  <2>3. t[m].name <= t[k].name
    BY <1>2, <2>1 DEF Zone!NotAfter
  <2>4. s[j].name = s[i].name => j = i
    BY <1>2, <2>2 DEF Distinct
  <2>5. Zone!NotAfter(s, j, i)
    BY <1>2, <2>2, <2>3, <2>4 DEF Zone!NotAfter
  <2>6. j \in Zone!UpTo(s, i)
    BY <1>2, <2>2, <2>5 DEF Zone!UpTo
  <2>7. to[j] = m
    BY <1>2, <1>5, <2>1, <2>2, <2>6 DEF Distinct
  <2> QED
    BY <2>6, <2>7
<1>9. DOMAIN to = Zone!UpTo(s, i) /\ to = [j \in Zone!UpTo(s, i) |-> to[j]]
  BY DEF to
<1>10. to \in Bijection(Zone!UpTo(s, i), Zone!UpTo(t, k))
  <2>1. to \in [Zone!UpTo(s, i) -> Zone!UpTo(t, k)]
    BY <1>6, <1>9
  <2> QED
    BY <1>7, <1>8, <2>1 DEF Bijection, Injection, Surjection, IsInjective
<1>11. ExistsBijection(Zone!UpTo(s, i), Zone!UpTo(t, k))
  BY <1>10 DEF ExistsBijection
<1> QED
  BY <1>3, <1>11, FS_Bijection DEF Rank

\* So tools with the same names of their own are the same once they are sorted.
LEMMA SortedAlike ==
  ASSUME NEW s \in Tools, NEW t \in Tools, Distinct(s), Distinct(t), Len(s) = Len(t), Names(s) = Names(t)
  PROVE  Zone!Sorted(s) = Zone!Sorted(t)
<1>1. PICK n : n = Len(s)
  OBVIOUS
<1>2. n \in Nat /\ DOMAIN s = 1..n /\ DOMAIN t = 1..n
      /\ \A j \in 1..n: /\ s[j] \in Zone!Tool
                        /\ t[j] \in Zone!Tool
  BY <1>1, ToolsAre
<1>3. ASSUME NEW k \in 1..n
      PROVE  Zone!KeysSorted(s[Zone!At(s, k)]) = Zone!KeysSorted(t[Zone!At(t, k)])
  <2>1. /\ Zone!At(s, k) \in 1..n /\ Rank(s, Zone!At(s, k)) = k
        /\ Zone!At(t, k) \in 1..n /\ Rank(t, Zone!At(t, k)) = k
        /\ \A i, j \in 1..n: Rank(t, i) = Rank(t, j) => i = j
    BY <1>1, <1>2, RankedTools
  <2>2. PICK m \in 1..n: t[m].name = s[Zone!At(s, k)].name
    <3>1. s[Zone!At(s, k)].name \in Names(t)
      BY <1>2, <2>1 DEF Names
    <3> QED
      BY <1>2, <3>1 DEF Names
  <2>3. Rank(t, m) = k
    BY <1>2, <2>1, <2>2, SameRank
  <2>4. m = Zone!At(t, k)
    BY <2>1, <2>3
  <2>5. PICK a, b : a = s[Zone!At(s, k)] /\ b = t[Zone!At(t, k)]
    OBVIOUS
  <2>6. /\ a \in Zone!Tool
        /\ b \in Zone!Tool /\ a.name = b.name
    BY <1>2, <2>1, <2>2, <2>4, <2>5
  <2>7. Zone!KeysSorted(a) = Zone!KeysSorted(b)
    BY <2>6, SortedKeys, SameTool
  <2> QED
    BY <2>5, <2>7
<1> QED
  BY <1>2, <1>3 DEF Zone!Sorted

\* Tools the proxy has sorted, or whose keys were sorted from the start, leave sorted.
LEMMA CanonicalIsSorted ==
  ASSUME NEW s \in Tools, Zone!Rewritten(s) \/ \A i \in DOMAIN s: s[i].keys = "sorted"
  PROVE  Zone!Normalized(s) = Zone!Sorted(s)
<1>1. CASE ~Zone!SameValue(Zone!Sorted(s), s)
  BY <1>1 DEF Zone!Normalized
<1>2. CASE Zone!SameValue(Zone!Sorted(s), s)
  <2>1. Zone!Normalized(s) = s
    BY <1>2 DEF Zone!Normalized
  <2>2. \A i \in DOMAIN s: s[i].keys = "sorted"
    BY <2>1 DEF Zone!Rewritten
  <2>3. PICK n : n = Len(s)
    OBVIOUS
  <2>4. n \in Nat /\ DOMAIN s = 1..n /\ s = [i \in 1..n |-> s[i]]
        /\ \A j \in 1..n: s[j] \in Zone!Tool
    BY <2>3, ToolsAre
  <2>5. PICK sorted : sorted = Zone!Sorted(s)
    OBVIOUS
  <2>6. sorted = [k \in 1..n |-> Zone!KeysSorted(s[Zone!At(s, k)])]
    BY <2>4, <2>5 DEF Zone!Sorted
  <2>7. ASSUME NEW k \in 1..n
        PROVE  sorted[k] = s[k]
    <3>1. Zone!At(s, k) \in 1..n
      BY <2>3, RankedTools
    <3>2. sorted[k] = Zone!KeysSorted(s[Zone!At(s, k)])
      BY <2>6
    <3>3. sorted[k].name = s[k].name
      BY <1>2, <2>4, <2>5, <2>6 DEF Zone!SameValue
    <3>4. sorted[k] \in Zone!Tool /\ sorted[k].keys = "sorted"
      BY <2>4, <3>1, <3>2, SortedKeys
    <3>5. s[k] \in Zone!Tool /\ s[k].keys = "sorted"
      BY <2>2, <2>4
    <3> QED
      BY <3>3, <3>4, <3>5, SameTool
  <2>8. sorted = s
    BY <2>4, <2>6, <2>7
  <2> QED
    BY <2>1, <2>5, <2>8
<1> QED
  BY <1>1, <1>2
-----------------------------------------------------------------------------
(***************************************************************************)
(* Heads                                                                   *)
(***************************************************************************)
IsHead(h) == \E n \in DOMAIN Heads[dialect]: h = Heads[dialect][n]

\* The heads of the two requests are ones the client writes.
HeadsInv ==
    /\ dialect \in Dialects /\ IsHead(head)
    /\ watched = NothingCached \/ (IsHead(watched.head) /\ watched.ahead = Ahead(watched.head))

\* Every head a request may have is one of the client's.
LEMMA HeadsOfAreHeads ==
  ASSUME dialect \in Dialects, NEW length, NEW h \in HeadsOf(length)
  PROVE  IsHead(h)
<1>1. 1 \in DOMAIN Heads[dialect]
  <2>1. Heads[dialect] \in Seq(Before) /\ Heads[dialect] # <<>>
    BY HeadAssumption
  <2> QED
    BY <2>1
<1> QED
  BY <1>1 DEF HeadsOf, IsHead

\* A prefix is cached with the head it was sent with.
LEMMA WrittenHeads ==
  ASSUME IsHead(head), watched \in Written
  PROVE  IsHead(watched.head) /\ watched.ahead = Ahead(watched.head)
<1>1. watched.head = head /\ watched.ahead = Ahead(head)
  BY DEF Written
<1> QED
  BY <1>1

\* So it is of every request and of every cached prefix.
LEMMA HeadsInvariant == Spec => []HeadsInv
<1>1. Init => HeadsInv
  <2> SUFFICES ASSUME Init PROVE HeadsInv
    OBVIOUS
  <2>1. dialect \in Dialects /\ IsHead(head)
    BY HeadsOfAreHeads DEF Init
  <2>2. watched = NothingCached \/ watched \in Written
    BY DEF Init
  <2> QED
    BY <2>1, <2>2, WrittenHeads DEF HeadsInv
<1>2. HeadsInv /\ [Next]_vars => HeadsInv'
  <2> SUFFICES ASSUME HeadsInv, [Next]_vars PROVE HeadsInv'
    OBVIOUS
  <2>1. CASE UNCHANGED vars
    BY <2>1 DEF HeadsInv, IsHead, Ahead, vars
  <2>2. CASE Next
    <3>1. PICK cut \in Positions, turn \in Turns[dialect]:
              \E hd \in HeadsOf(cut + Len(turn)), mk \in MarksOf(SubSeq(messages, 1, cut) \o turn):
                  MessagesHandler(cut, turn, hd, mk)
      BY <2>2 DEF Next
    <3>2. PICK hd \in HeadsOf(cut + Len(turn)), mk \in MarksOf(SubSeq(messages, 1, cut) \o turn):
              MessagesHandler(cut, turn, hd, mk)
      BY <3>1
    <3>3. /\ head' = hd /\ UNCHANGED <<dialect, stabilized>>
          /\ UNCHANGED watched \/ watched' \in Written'
      BY <3>2 DEF MessagesHandler, Arrives
    <3>4. IsHead(hd)
      BY HeadsOfAreHeads DEF HeadsInv
    <3>5. dialect' \in Dialects /\ IsHead(head)'
      BY <3>3, <3>4 DEF HeadsInv, IsHead
    <3>6. CASE UNCHANGED watched
      BY <3>3, <3>5, <3>6 DEF HeadsInv, IsHead, Ahead
    <3>7. CASE watched' \in Written'
      <4>1. watched'.head = head' /\ watched'.ahead = Ahead(head)'
        BY <3>7 DEF Written
      <4>2. IsHead(watched.head)' /\ (watched.ahead = Ahead(watched.head))'
        BY <3>5, <4>1 DEF IsHead, Ahead
      <4> QED
        BY <3>5, <4>2 DEF HeadsInv
    <3> QED
      BY <3>3, <3>6, <3>7
  <2> QED
    BY <2>1, <2>2
<1> QED
  BY <1>1, <1>2, PTL DEF Spec

-----------------------------------------------------------------------------
\* detect_in and names_a_counter report what is of such a kind.
LEMMA VolatileIsReported ==
  ASSUME NEW h \in Before, Volatile(h)
  PROVE  Zone!Scan(h) # {}
<1>1. PICK kind : kind \in Zone!Kinds(h.value)
  BY DEF Volatile, Zone!Kinds
<1>2. h.place \in Zone!Scanned
  BY DEF Before, Places, Volatile, Zone!Scanned
<1>3. <<h.place, kind>> \in Zone!Scan(h)
  BY <1>1, <1>2 DEF Zone!Scan
<1> QED
  BY <1>3

(***************************************************************************)
(* A cache miss at the head of a request is turned into a hit or reported: *)
(* for any tools, in any order, with any keys, the stable sort of two      *)
(* requests with the same names ends in the same tools, whichever of them  *)
(* normalize_tools left alone because nothing changed; and a changed value *)
(* is found wherever a dialect has its instructions, if it is of a kind    *)
(* volatile.rs looks for.                                                  *)
(***************************************************************************)
THEOREM MissesAreReported == Spec => []HeadMissIsReported
<1>1. HeadsInv => HeadMissIsReported
  <2> SUFFICES ASSUME HeadsInv, stabilized, watched # NothingCached, SameTools,
                      \A h \in {head, watched.head}:
                          /\ Zone!Rewritten(h.tools) \/ \A i \in DOMAIN h.tools: h.tools[i].keys = "sorted"
                          /\ \A i, j \in DOMAIN h.tools: h.tools[i].name = h.tools[j].name => i = j,
                      \/ head.place = watched.head.place /\ head.value = watched.head.value
                      \/ \E h \in {head, watched.head}: Volatile(h)
               PROVE  \/ Ahead(head) = watched.ahead
                      \/ Zone!Scan(head) \cup Zone!Scan(watched.head) # {}
    BY DEF HeadMissIsReported
  <2>1. PICK m \in DOMAIN Heads[dialect] : head = Heads[dialect][m]
    BY DEF HeadsInv, IsHead
  <2>2. PICK n \in DOMAIN Heads[dialect] : watched.head = Heads[dialect][n]
    BY DEF HeadsInv, IsHead
  <2>3. head \in Before /\ watched.head \in Before
    <3>1. Heads[dialect] \in Seq(Before)
      BY HeadAssumption DEF HeadsInv
    <3> QED
      BY <2>1, <2>2, <3>1
  <2>4. CASE Volatile(head) \/ Volatile(watched.head)
    BY <2>3, <2>4, VolatileIsReported
  <2>5. CASE head.place = watched.head.place /\ head.value = watched.head.value
    <3>1. head \in Before /\ watched.head \in Before
      BY <2>3
    <3>2. PICK a, b : a = head /\ b = watched.head
      OBVIOUS
    <3>3. a.tools \in Tools /\ b.tools \in Tools
      BY <3>1, <3>2 DEF Before, Tools
    <3>4. Zone!Normalized(a.tools) = Zone!Sorted(a.tools) /\ Zone!Normalized(b.tools) = Zone!Sorted(b.tools)
      BY <3>2, <3>3, CanonicalIsSorted
    <3>5. Distinct(a.tools) /\ Distinct(b.tools)
      BY <3>2 DEF Distinct
    <3>6. Len(a.tools) = Len(b.tools) /\ Names(a.tools) = Names(b.tools)
      <4>1. Len(watched.head.tools) = Len(head.tools)
            /\ {watched.head.tools[i].name: i \in DOMAIN watched.head.tools}
                   = {head.tools[i].name: i \in DOMAIN head.tools}
        BY Zenon DEF SameTools
      <4>2. Names(head.tools) = Names(watched.head.tools)
        BY <4>1, Zenon DEF Names
      <4> QED
        BY <3>2, <4>1, <4>2
    <3>7. Zone!Sorted(a.tools) = Zone!Sorted(b.tools)
      BY <3>3, <3>5, <3>6, SortedAlike
    <3>8. PICK tools : tools = Zone!Normalized(a.tools)
      OBVIOUS
    <3>9. Ahead(a) = [a EXCEPT !.tools = tools] /\ Ahead(b) = [b EXCEPT !.tools = tools]
      BY <3>4, <3>7, <3>8 DEF Ahead
    <3>10. /\ a = [tools |-> a.tools, place |-> a.place, value |-> a.value]
           /\ b = [tools |-> b.tools, place |-> a.place, value |-> a.value]
      BY <2>5, <3>1, <3>2 DEF Before
    <3>11. [a EXCEPT !.tools = tools] = [tools |-> tools, place |-> a.place, value |-> a.value]
      BY <3>10
    <3>12. [b EXCEPT !.tools = tools] = [tools |-> tools, place |-> a.place, value |-> a.value]
      BY <3>10
    <3>13. watched.ahead = Ahead(b)
      BY <3>2 DEF HeadsInv
    <3> QED
      BY <3>2, <3>9, <3>11, <3>12, <3>13
  <2> QED
    BY <2>4, <2>5
<1> QED
  BY <1>1, HeadsInvariant, PTL
=============================================================================
