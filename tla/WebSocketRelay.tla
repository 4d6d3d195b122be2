--------------------------- MODULE WebSocketRelay ---------------------------
(***************************************************************************)
(* The relay of one WebSocket (headroom-proxy/src/websocket.rs): a task    *)
(* for each direction reads a frame on one socket and sends it on the      *)
(* other, and pump waits in select! for the first of the two to finish.    *)
(*                                                                         *)
(* select! is over JoinHandles.  Dropping the handle of the other task     *)
(* detaches it: the task runs on, and the two sockets stay open until both *)
(* tasks, which own their halves, have ended.                              *)
(*                                                                         *)
(* The sockets are external and taken as the code uses them: frames arrive *)
(* in order, a reader sees a peer's death or the end after a Close as      *)
(* None or an error, and a send fails once the peer is gone or a Close has *)
(* passed in either direction.  A send waits while the peer has not taken  *)
(* what was sent before.                                                   *)
(***************************************************************************)
EXTENDS Naturals, Sequences, SequencesExt

CONSTANTS
    Frames,     \* the frames a side may send
    Close,      \* the one among them that ends a socket
    NoFrame,    \* the hands of a task that holds no frame
    MaxFrames,  \* bound on the frames each side sends
    Room        \* how many frames a socket takes before a send has to wait

ASSUME CloseAssumption == Close \in Frames /\ NoFrame \notin Frames
ASSUME RoomAssumption == MaxFrames \in Nat /\ Room \in Nat \ {0}

Sides == {"client", "upstream"}
Peer(s) == IF s = "client" THEN "upstream" ELSE "client"

VARIABLES
    relay,     \* pump: connecting, running, or what it came to
    alive,     \* alive[s]: is the program at the other end of the socket there?
    said,      \* history: every frame s has sent
    inbox,     \* inbox[s]: what of it no task has read yet
    closed,    \* closed[s]: has a Close passed on the socket of s?
    task,      \* task[s]: the task that reads from s and sends to its peer
    outbox,    \* outbox[s]: sent to s, and not taken yet
    received   \* history: every frame s has taken

pumpVars == <<relay, alive, said, inbox, closed, task, outbox, received>>
sides == <<alive, said>>

Task == [at: {"unborn", "read", "send", "done"}, frame: Frames \cup {NoFrame}]
Doing(at) == [at |-> at, frame |-> NoFrame]

PumpTypeOK ==
    /\ relay \in {"connecting", "running", "returned", "failed"}
    /\ alive \in [Sides -> BOOLEAN]
    /\ closed \in [Sides -> BOOLEAN]
    /\ task \in [Sides -> Task]
    /\ \A q \in {said, inbox, outbox, received}: q \in [Sides -> Seq(Frames)]
    /\ \A s \in Sides: Len(outbox[s]) <= Room

PumpInit ==
    /\ relay = "connecting"
    /\ alive = [s \in Sides |-> TRUE]
    /\ closed = [s \in Sides |-> FALSE]
    /\ task = [s \in Sides |-> Doing("unborn")]
    /\ said = [s \in Sides |-> <<>>]
    /\ inbox = [s \in Sides |-> <<>>]
    /\ outbox = [s \in Sides |-> <<>>]
    /\ received = [s \in Sides |-> <<>>]

-----------------------------------------------------------------------------
(***************************************************************************)
(* The two programs at the ends                                            *)
(***************************************************************************)
Connected(s) == alive[s] /\ (s = "client" \/ relay \notin {"connecting", "failed"})

Says(s, frame) ==
    /\ Connected(s)
    /\ Len(said[s]) < MaxFrames
    /\ ~Contains(said[s], Close)
    /\ said' = [said EXCEPT ![s] = Append(@, frame)]
    /\ inbox' = [inbox EXCEPT ![s] = Append(@, frame)]
    /\ UNCHANGED <<relay, alive, closed, task, outbox, received>>

Takes(s) ==
    /\ alive[s] /\ outbox[s] # <<>>
    /\ received' = [received EXCEPT ![s] = Append(@, Head(outbox[s]))]
    /\ outbox' = [outbox EXCEPT ![s] = Tail(@)]
    /\ UNCHANGED <<relay, alive, said, inbox, closed, task>>

\* The program or its network dies, without a Close.
Vanishes(s) ==
    /\ Connected(s)
    /\ alive' = [alive EXCEPT ![s] = FALSE]
    /\ UNCHANGED <<relay, said, inbox, closed, task, outbox, received>>

-----------------------------------------------------------------------------
(***************************************************************************)
(* pump                                                                    *)
(***************************************************************************)
\* connect_async succeeds, the sockets are split and both tasks spawned.
Connect ==
    /\ relay = "connecting"
    /\ relay' = "running"
    /\ task' = [s \in Sides |-> Doing("read")]
    /\ UNCHANGED <<sides, inbox, closed, outbox, received>>

\* It fails: pump returns the error, and the client's socket is dropped.
ConnectFails ==
    /\ relay = "connecting"
    /\ relay' = "failed"
    /\ UNCHANGED <<sides, inbox, closed, task, outbox, received>>

\* FAULT for Reads: one loop takes turns between the directions.
ReadsInTurn(s) ==
    /\ task[s].at = "read" /\ ~closed[s] /\ inbox[s] # <<>>
    /\ Len(received[Peer(s)]) <= Len(received[s])
    /\ task' = [task EXCEPT ![s] = [at |-> "send", frame |-> Head(inbox[s])]]
    /\ inbox' = [inbox EXCEPT ![s] = Tail(@)]
    /\ closed' = [closed EXCEPT ![s] = Head(inbox[s]) = Close]
    /\ UNCHANGED <<relay, sides, outbox, received>>

\* FAULT for Reads: reading from one side cancels the send to it that is in progress.
ReadsCancelsSend(s) ==
    /\ task[s].at = "read" /\ ~closed[s] /\ inbox[s] # <<>>
    /\ task' = [task EXCEPT ![s] = [at |-> "send", frame |-> Head(inbox[s])],
                            ![Peer(s)] = IF @.at = "send" THEN Doing("read") ELSE @]
    /\ inbox' = [inbox EXCEPT ![s] = Tail(@)]
    /\ closed' = [closed EXCEPT ![s] = Head(inbox[s]) = Close]
    /\ UNCHANGED <<relay, sides, outbox, received>>

\* FAULT for Reads: a Close ends the loop instead of being forwarded.
ReadsUntilClose(s) ==
    /\ task[s].at = "read" /\ ~closed[s] /\ inbox[s] # <<>>
    /\ task' = [task EXCEPT ![s] = IF Head(inbox[s]) = Close THEN Doing("done")
                                   ELSE [at |-> "send", frame |-> Head(inbox[s])]]
    /\ inbox' = [inbox EXCEPT ![s] = Tail(@)]
    /\ closed' = [closed EXCEPT ![s] = Head(inbox[s]) = Close]
    /\ UNCHANGED <<relay, sides, outbox, received>>

\* Some(Ok(frame)) = rx.next(): what has arrived is read also from a side that is gone.
Reads(s) ==
    /\ task[s].at = "read" /\ ~closed[s] /\ inbox[s] # <<>>
    /\ task' = [task EXCEPT ![s] = [at |-> "send", frame |-> Head(inbox[s])]]
    /\ inbox' = [inbox EXCEPT ![s] = Tail(@)]
    /\ closed' = [closed EXCEPT ![s] = Head(inbox[s]) = Close]
    /\ UNCHANGED <<relay, sides, outbox, received>>

\* rx.next() is None or an error: the side is gone, or a Close has ended its socket.
ReadEnds(s) ==
    /\ task[s].at = "read"
    /\ closed[s] \/ (~alive[s] /\ inbox[s] = <<>>)
    /\ task' = [task EXCEPT ![s] = Doing("done")]
    /\ UNCHANGED <<relay, sides, inbox, closed, outbox, received>>

(***************************************************************************)
(* tx.send(frame).await succeeds.  to_upstream_frame and to_client_frame   *)
(* give the frame the other crate's type, with its kind, its payload and   *)
(* the code of a Close: the frame is the same frame on either socket.      *)
(***************************************************************************)
Sends(s) ==
    LET to == Peer(s)
    IN  /\ task[s].at = "send" /\ alive[to] /\ ~closed[to]
        /\ Len(outbox[to]) < Room
        /\ outbox' = [outbox EXCEPT ![to] = Append(@, task[s].frame)]
        /\ closed' = [closed EXCEPT ![to] = task[s].frame = Close]
        /\ task' = [task EXCEPT ![s] = Doing("read")]
        /\ UNCHANGED <<relay, sides, inbox, received>>

\* tx.send(frame).await is an error: break.
SendFails(s) ==
    /\ task[s].at = "send"
    /\ ~alive[Peer(s)] \/ closed[Peer(s)]
    /\ task' = [task EXCEPT ![s] = Doing("done")]
    /\ UNCHANGED <<relay, sides, inbox, closed, outbox, received>>

\* FAULT for Select: join! waits for both.
SelectBoth ==
    /\ relay = "running"
    /\ \A s \in Sides: task[s].at = "done"
    /\ relay' = "returned"
    /\ UNCHANGED <<sides, inbox, closed, task, outbox, received>>

\* select! { _ = to_upstream => {}, _ = to_client => {} }: the other task is left alone.
Select ==
    /\ relay = "running"
    /\ \E s \in Sides: task[s].at = "done"
    /\ relay' = "returned"
    /\ UNCHANGED <<sides, inbox, closed, task, outbox, received>>

TaskStep(s) == Reads(s) \/ ReadEnds(s) \/ Sends(s) \/ SendFails(s)

PumpNext ==
    \/ Connect \/ ConnectFails \/ Select
    \/ \E s \in Sides: \/ \E frame \in Frames: Says(s, frame)
                       \/ Takes(s) \/ Vanishes(s)
                       \/ TaskStep(s)

(***************************************************************************)
(* The runtime polls a task that can go on, the connection attempt ends,   *)
(* and a program that is there reads its socket.  No program has to say    *)
(* anything, to close or to vanish.                                        *)
(***************************************************************************)
Fairness ==
    /\ WF_pumpVars(Connect \/ ConnectFails)
    /\ WF_pumpVars(Select)
    /\ \A s \in Sides: WF_pumpVars(TaskStep(s)) /\ WF_pumpVars(Takes(s))

PumpSpec == PumpInit /\ [][PumpNext]_pumpVars /\ Fairness

-----------------------------------------------------------------------------
(***************************************************************************)
(* A faithful pipe: what a side has been sent is, in order, kind by kind,  *)
(* and with nothing lost, repeated or made up, the beginning of what the   *)
(* other side has said, whatever dies on the way.                          *)
(***************************************************************************)
FaithfulPipe ==
    \A s \in Sides: IsPrefix(received[s] \o outbox[s], said[Peer(s)])

\* Tasks are born with the connection, and a task that sends holds a frame.
TasksBorn ==
    \A s \in Sides:
        /\ relay = "connecting" => task[s] = Doing("unborn")
        /\ task[s].at = "send" => task[s].frame \in Frames

Hand(s) == IF task[s].at = "send" THEN <<task[s].frame>> ELSE <<>>
SentTo(s) == received[s] \o outbox[s]

\* Until its task is done, what s has said is what its peer was sent, then the frame
\* in the task's hands, then what has not been read; after that, the rest is lost.
NothingAstray ==
    \A s \in Sides:
        IF task[s].at # "done"
        THEN said[s] = SentTo(Peer(s)) \o (Hand(s) \o inbox[s])
        ELSE IsPrefix(SentTo(Peer(s)), said[s])

\* The inductive invariant behind FaithfulPipe.
PumpInv == PumpTypeOK /\ TasksBorn /\ NothingAstray

Over(s) == ~alive[s] \/ Contains(said[s], Close)
Parted == relay = "failed" \/ \E s \in Sides: Over(s)

(***************************************************************************)
(* Either side may send any number of messages in a row: each frame is     *)
(* delivered unless a side closes or vanishes, whether or not the other    *)
(* side has anything to say.                                               *)
(***************************************************************************)
EveryFrameArrives ==
    \A s \in Sides, n \in 1..MaxFrames:
        Len(said[s]) >= n ~> Len(received[Peer(s)]) >= n \/ Parted

(***************************************************************************)
(* A client may branch on the code of a Close: the Close of one side       *)
(* reaches the other, unless that side has closed or vanished itself.      *)
(***************************************************************************)
CloseArrives ==
    \A s \in Sides:
        Contains(said[s], Close) ~>
            Contains(received[Peer(s)], Close) \/ relay = "failed" \/ Over(Peer(s))

(***************************************************************************)
(* The first direction to finish ends the relay: after either side has     *)
(* closed or vanished, pump returns.                                       *)
(***************************************************************************)
EitherEndEndsRelay == \A s \in Sides: Over(s) ~> relay \in {"returned", "failed"}

(***************************************************************************)
(* "The first one to finish tears down the other" (websocket.rs:27), since *)
(* a task left running would leak a connection per abandoned client.  It   *)
(* fails: the task that reads from a silent upstream is not torn down when *)
(* the client has vanished, and waits for ever.                            *)
(***************************************************************************)
FirstTearsDownOther ==
    task["client"].at = "done" /\ ~alive["client"] ~> task["upstream"].at = "done"
=============================================================================
