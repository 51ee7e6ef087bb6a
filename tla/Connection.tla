----------------------------- MODULE Connection -----------------------------
(***************************************************************************)
(* One accepted connection (connection.h, connection.cpp): a socket with   *)
(* an outstanding read, at most one outstanding write, a queue of messages *)
(* behind it, a read and a write timer, and a protocol that is told on the *)
(* dispatcher when the connection is gone.                                 *)
(*                                                                         *)
(* Handlers of the io_context (parseHeader, parsePacket, onWriteOperation, *)
(* handleTimeout) and the calls of the dispatcher thread (send, close) all *)
(* take the connection's recursive mutex for their whole body, so each is  *)
(* one step; the operator for a method maps the state of the connection    *)
(* at its entry to the state at its return.  What the peer does, and the   *)
(* completion of an asio operation as opposed to its handler, are steps of *)
(* their own.  Abstracted: the bytes of a message (its number stands for   *)
(* it), the packet counter behind the rate limit, and asio calls that      *)
(* throw.                                                                  *)
(***************************************************************************)
EXTENDS Naturals, Sequences

CONSTANT MaxMsg   \* how many messages the server sends on the connection

ASSUME ConnAssumption == MaxMsg \in Nat \ {0}

VARIABLES
    conn,       \* the Connection object, see ConnRecord
    wire,       \* messages the peer received, oldest first
    peer,       \* "up", or "gone" once the transport is broken
    destroyed,  \* the last shared_ptr is gone, ~Connection has run
    closeAll    \* ConnectionManager::closeAll was called

cvars == <<conn, wire, peer, destroyed, closeAll>>

Ops    == {"none", "pending", "ok", "error"}
Reads  == {"header", "body"}
Timers == SUBSET {"armed", "due"}   \* "due": its handler is queued
TimerNames == {"readTimer", "writeTimer"}

ConnRecord ==
    [closed    : BOOLEAN,             \* m_closed
     socket    : {"open", "shut"},    \* m_socket.is_open()
     queue     : Seq(1..MaxMsg),      \* m_messageQueue
     sent      : 0..MaxMsg,           \* messages accepted by send (history)
     protocol  : BOOLEAN,             \* m_protocol is set
     releases  : 0..1,                \* release() tasks posted
     first     : BOOLEAN,             \* m_receivedFirst
     reading   : Reads,               \* what the outstanding read is for
     readOp    : Ops,
     writeOp   : Ops,
     readTimer : Timers,
     writeTimer: Timers,
     managed   : BOOLEAN]             \* held by the ConnectionManager

\* After createConnection and accept(); a server that speaks first has given
\* the connection its protocol already.
ConnInit ==
    /\ \E p \in BOOLEAN :
          conn = [closed |-> FALSE, socket |-> "open", queue |-> <<>>,
                  sent |-> 0, protocol |-> p, releases |-> 0, first |-> FALSE,
                  reading |-> "header", readOp |-> "pending",
                  writeOp |-> "none", readTimer |-> {"armed"},
                  writeTimer |-> {}, managed |-> TRUE]
    /\ wire = <<>>
    /\ peer = "up"
    /\ destroyed = FALSE
    /\ closeAll = FALSE

-----------------------------------------------------------------------------
(* Mutated forms, one per plausible slip.                                  *)

\* close() runs its body again on a closed connection.
MUTIfOpen(c, then) == then

\* send() starts a write although one is outstanding.
MUTStartIfFirst(before, c) == [c EXCEPT !.writeOp = "pending"]

\* The first message of an idle connection is only queued.
MUTStartNever(before, c) == c

\* A graceful close does not wait for the queue.
MUTShutsNow(c, force) == TRUE

\* The read timer is not started for the body of a packet.
MUTArmReadTimer(c) == c

-----------------------------------------------------------------------------
(* The methods.                                                            *)

\* timer.cancel() reaches a wait that is pending, not a handler that is
\* already queued.
CancelTimer(t) == t \ {"armed"}

ShutSocket(c) ==
    IF c.socket = "open"
    THEN [c EXCEPT !.socket = "shut",
                   !.readTimer = CancelTimer(@), !.writeTimer = CancelTimer(@)]
    ELSE c

IfOpen(c, then) == IF c.closed THEN c ELSE then

ShutsNow(c, force) == c.queue = <<>> \/ force

Release(c) ==
    [c EXCEPT !.closed = TRUE,
              !.releases = IF c.protocol THEN @ + 1 ELSE @]

\* close(force).
Close(c, force) ==
    LET d == [c EXCEPT !.managed = FALSE]
    IN  IfOpen(d, IF ShutsNow(d, force) THEN ShutSocket(Release(d))
                                        ELSE Release(d))

\* expires_after replaces a wait that is pending.
ArmReadTimer(c) == [c EXCEPT !.readTimer = @ \cup {"armed"}]
ArmWriteTimer(c) == [c EXCEPT !.writeTimer = @ \cup {"armed"}]

InternalSend(c) == [ArmWriteTimer(c) EXCEPT !.writeOp = "pending"]

StartIfFirst(before, c) == IF before = <<>> THEN InternalSend(c) ELSE c

\* send(msg).
Send(c) ==
    IF c.closed THEN c
    ELSE StartIfFirst(c.queue, [c EXCEPT !.queue = Append(@, c.sent + 1),
                                         !.sent = @ + 1])

\* async_read with the read timer restarted.
StartRead(c, what) ==
    [ArmReadTimer(c) EXCEPT !.reading = what, !.readOp = "pending"]

\* The entry of both read handlers.
ReadDone(c) == [c EXCEPT !.readOp = "none", !.readTimer = CancelTimer(@)]

-----------------------------------------------------------------------------
(* Handlers on the io_context thread.                                      *)

\* parseHeader: an error, a closed connection, a client over the packet
\* rate, a bad size, or on to the body.
ParseHeader ==
    /\ conn.reading = "header"
    /\ conn.readOp \in {"ok", "error"}
    /\ LET c == ReadDone(conn)
       IN  IF conn.readOp = "error" THEN conn' = Close(c, TRUE)
           ELSE IF conn.closed THEN conn' = c
           ELSE conn' \in {Close(c, FALSE), Close(c, TRUE), StartRead(c, "body")}
    /\ UNCHANGED <<wire, peer, destroyed, closeAll>>

\* What a protocol does with a packet, in the order it does it: nothing,
\* answer, disconnect, or answer and disconnect (disconnectClient).
Handled(c) ==
    LET answered == IF c.sent < MaxMsg THEN Send(c) ELSE c
    IN  {c, answered, Close(c, FALSE), Close(answered, FALSE)}

\* parsePacket: the first packet may create the protocol (an unknown one
\* fails); the next read is started whatever the protocol did.
ParsePacket ==
    /\ conn.reading = "body"
    /\ conn.readOp \in {"ok", "error"}
    /\ LET c == ReadDone(conn)
           d == [c EXCEPT !.first = TRUE, !.protocol = TRUE]
       IN  IF conn.readOp = "error" THEN conn' = Close(c, TRUE)
           ELSE IF conn.closed THEN conn' = c
           ELSE \/ conn' \in {StartRead(h, "header") : h \in Handled(d)}
                \/ ~c.protocol /\ conn' = Close([c EXCEPT !.first = TRUE], TRUE)
    /\ UNCHANGED <<wire, peer, destroyed, closeAll>>

PopFront(c) == [c EXCEPT !.queue = Tail(@)]

\* onWriteOperation.
OnWriteOperation ==
    /\ conn.writeOp \in {"ok", "error"}
    /\ LET c == PopFront([conn EXCEPT !.writeOp = "none",
                                      !.writeTimer = CancelTimer(@)])
       IN  conn' = IF conn.writeOp = "error" THEN Close([c EXCEPT !.queue = <<>>], TRUE)
                   ELSE IF c.queue # <<>> THEN InternalSend(c)
                   ELSE IF c.closed THEN ShutSocket(c)
                   ELSE c
    /\ UNCHANGED <<wire, peer, destroyed, closeAll>>

\* A deadline passes: the handler of the wait is queued.
TimerExpires(timer) ==
    /\ ~destroyed
    /\ "armed" \in conn[timer]
    /\ conn' = [conn EXCEPT ![timer] = {"due"}]
    /\ UNCHANGED <<wire, peer, destroyed, closeAll>>

\* handleTimeout of a wait that was not cancelled in time, maybe for an
\* operation that completed meanwhile.  The handlers hold a weak_ptr.
HandleTimeout(timer) ==
    /\ ~destroyed
    /\ "due" \in conn[timer]
    /\ conn' = Close([conn EXCEPT ![timer] = @ \ {"due"}], TRUE)
    /\ UNCHANGED <<wire, peer, destroyed, closeAll>>

-----------------------------------------------------------------------------
(* The dispatcher thread; a protocol reaches its connection only while     *)
(* somebody else keeps it alive (weak_ptr).                                *)

DispatcherSend ==
    /\ ~destroyed
    /\ conn.protocol
    /\ conn.sent < MaxMsg
    /\ conn' = Send(conn)
    /\ UNCHANGED <<wire, peer, destroyed, closeAll>>

DispatcherDisconnect ==
    /\ ~destroyed
    /\ conn.protocol
    /\ conn' = Close(conn, FALSE)
    /\ UNCHANGED <<wire, peer, destroyed, closeAll>>

\* ConnectionManager::closeAll closes the sockets it knows, without the
\* connections' mutex and without marking them closed.
CloseAll ==
    /\ ~closeAll
    /\ closeAll' = TRUE
    /\ conn' = IF conn.managed
               THEN [conn EXCEPT !.socket = "shut", !.managed = FALSE]
               ELSE conn
    /\ UNCHANGED <<wire, peer, destroyed>>

\* ~Connection, when neither the manager nor a handler holds the object.
Destroy ==
    /\ ~destroyed
    /\ ~conn.managed
    /\ conn.readOp = "none"
    /\ conn.writeOp = "none"
    /\ destroyed' = TRUE
    /\ conn' = ShutSocket(conn)
    /\ UNCHANGED <<wire, peer, closeAll>>

-----------------------------------------------------------------------------
(* asio and the peer.                                                      *)

Broken == peer = "gone" \/ conn.socket = "shut"

\* The peer sends what the outstanding read waits for.
PeerSends ==
    /\ ~Broken
    /\ conn.readOp = "pending"
    /\ conn' = [conn EXCEPT !.readOp = "ok"]
    /\ UNCHANGED <<wire, peer, destroyed, closeAll>>

\* The peer takes the message being written.
PeerReads ==
    /\ ~Broken
    /\ conn.writeOp = "pending"
    /\ conn' = [conn EXCEPT !.writeOp = "ok"]
    /\ wire' = Append(wire, Head(conn.queue))
    /\ UNCHANGED <<peer, destroyed, closeAll>>

PeerGone ==
    /\ peer = "up"
    /\ peer' = "gone"
    /\ UNCHANGED <<conn, wire, destroyed, closeAll>>

\* Operations outstanding on a broken or closed socket fail.
OperationFails ==
    /\ Broken
    /\ \/ conn.readOp = "pending" /\ conn' = [conn EXCEPT !.readOp = "error"]
       \/ conn.writeOp = "pending" /\ conn' = [conn EXCEPT !.writeOp = "error"]
    /\ UNCHANGED <<wire, peer, destroyed, closeAll>>

IoStep ==
    \/ ParseHeader \/ ParsePacket \/ OnWriteOperation
    \/ \E timer \in TimerNames : HandleTimeout(timer)
    \/ OperationFails \/ Destroy

ConnNext ==
    \/ IoStep
    \/ \E timer \in TimerNames : TimerExpires(timer)
    \/ DispatcherSend \/ DispatcherDisconnect \/ CloseAll
    \/ PeerSends \/ PeerReads \/ PeerGone

ConnSpec == ConnInit /\ [][ConnNext]_cvars

\* What each timer watches: a wait that is cancelled and restarted with every
\* packet need never end, one beside an operation that stays pending does.
Watched(timer) == IF timer = "readTimer" THEN conn.readOp = "pending"
                                         ELSE conn.writeOp = "pending"

\* The io_context runs every handler that is queued and time passes; the
\* peer promises nothing, and the server need not send.
ConnFairSpec ==
    /\ ConnSpec
    /\ WF_cvars(ParseHeader) /\ WF_cvars(ParsePacket)
    /\ WF_cvars(OnWriteOperation) /\ WF_cvars(OperationFails)
    /\ WF_cvars(Destroy)
    /\ \A timer \in TimerNames :
          /\ WF_cvars(TimerExpires(timer) /\ Watched(timer))
          /\ WF_cvars(HandleTimeout(timer))

-----------------------------------------------------------------------------
(* Properties.                                                             *)

\* The fields of the connection and of its surroundings.
ConnTypeOK ==
    /\ conn \in ConnRecord
    /\ wire \in Seq(1..MaxMsg)
    /\ peer \in {"up", "gone"}
    /\ destroyed \in BOOLEAN
    /\ closeAll \in BOOLEAN

\* send() and onWriteOperation keep one write going as long as messages are
\* queued, also while the connection closes: the queue never gets stuck.
WriteOutstanding == conn.queue # <<>> <=> conn.writeOp # "none"

\* What the peer got, what it is getting and what is queued are the accepted
\* messages in order, until a write fails: nothing is skipped or repeated.
Delivered == IF conn.writeOp = "ok" THEN SubSeq(wire, 1, Len(wire) - 1) ELSE wire

NothingSkipped ==
    ~Broken => Delivered \o conn.queue = [i \in 1..conn.sent |-> i]

\* The protocol is released once for a closed connection that has one, by
\* whichever of the three threads of control closed it first, and never for
\* a connection that is still open.
ReleaseOnce ==
    conn.releases = (IF conn.closed /\ conn.protocol THEN 1 ELSE 0)

\* Steps on which the code insists on closing the socket: a read failed or
\* a header was refused, a timeout came through, the manager closes all.
ByForce ==
    \/ /\ conn'.readOp = "none"
       /\ conn.readOp = "error" \/ (conn.readOp = "ok" /\ conn.reading = "header")
    \/ \E timer \in TimerNames : "due" \in conn[timer] \ conn'[timer]
    \/ closeAll' # closeAll

\* Output that is queued is cut off only by force, and not even by force once
\* the connection closes gracefully: disconnecting a client, at any moment of
\* a write, lets it have what was sent to it before.
GracefulDrains ==
    [][conn.socket = "open" /\ conn'.socket = "shut" /\ conn'.queue # <<>>
          => ByForce /\ ~conn.closed]_cvars

\* A peer that goes dead is dropped: while the connection is open a write ends
\* though the peer has stopped reading, and a read ends though it has stopped
\* sending, in the middle of a packet too, or the timer closes the connection.
Ends(operation) ==
    (conn[operation] = "pending" /\ ~conn.closed)
        ~> (conn[operation] # "pending" \/ conn.closed)

DeadPeerDropped == Ends("writeOp") /\ Ends("readOp")

\* Once closed, the socket is closed by the destructor or onWriteOperation
\* (the comment in close()).
ClosedGetsShut == conn.closed ~> conn.socket = "shut"
=============================================================================
