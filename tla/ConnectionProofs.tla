-------------------------- MODULE ConnectionProofs --------------------------
(***************************************************************************)
(* Theorems about Connection, for any number of messages.  The methods are *)
(* operators on the connection's state, so what each keeps is a lemma of   *)
(* its own, and a handler keeps what the methods it calls keep.            *)
(***************************************************************************)
EXTENDS Connection, SequenceTheorems, TLAPS

\* The write in progress and the release, said of any state of a connection;
\* the manager lets go of a connection when it closes, and only a protocol
\* sends.
Writing(c)  == c.queue # <<>> <=> c.writeOp # "none"
Released(c) == c.releases = (IF c.closed /\ c.protocol THEN 1 ELSE 0)
LetGo(c)    == c.closed => ~c.managed
Silent(c)   == ~c.protocol => c.queue = <<>>
Sane(c)     == c \in ConnRecord /\ Writing(c) /\ Released(c) /\ LetGo(c) /\ Silent(c)

\* What is about the output: no method but send and onWriteOperation has a
\* hand in it.
SameOutput(c, d) == d.queue = c.queue /\ d.writeOp = c.writeOp /\ d.sent = c.sent

\* Closing a socket or a connection completes nothing and makes nothing due.
SameWork(c, d) == d.readOp = c.readOp /\ \A timer \in TimerNames : d[timer] \subseteq c[timer]

LEMMA InitSane == ConnInit => Sane(conn)
  BY ConnAssumption
  DEF ConnInit, Sane, Writing, Released, LetGo, Silent, ConnRecord, Ops, Reads, Timers

-----------------------------------------------------------------------------
(* The methods.                                                            *)

LEMMA ShutKeeps ==
    ASSUME NEW c, Sane(c)
    PROVE  /\ Sane(ShutSocket(c))
           /\ SameOutput(c, ShutSocket(c)) /\ SameWork(c, ShutSocket(c))
           /\ ShutSocket(c).closed = c.closed /\ ShutSocket(c).socket = "shut"
  BY
  DEF ShutSocket, CancelTimer, SameWork, TimerNames, Sane, Writing, Released, LetGo,
      Silent, SameOutput, ConnRecord, Ops, Reads, Timers

\* close: the release is posted by the call that finds the connection open.
LEMMA CloseKeeps ==
    ASSUME NEW c, Sane(c), NEW force \in BOOLEAN
    PROVE  /\ Sane(Close(c, force))
           /\ SameOutput(c, Close(c, force)) /\ SameWork(c, Close(c, force))
           /\ Close(c, force).closed
           /\ Close(c, force).socket # c.socket => c.queue = <<>> \/ (force /\ ~c.closed)
<1> DEFINE d == [c EXCEPT !.managed = FALSE]
<1>1. /\ Sane(d) /\ SameOutput(c, d) /\ SameWork(c, d)
      /\ d.closed = c.closed /\ d.socket = c.socket /\ ~d.managed
  BY
  DEF SameWork, TimerNames, Sane, Writing, Released, LetGo, Silent, SameOutput,
      ConnRecord
<1>2. Close(c, force) = IF d.closed THEN d
                        ELSE IF d.queue = <<>> \/ force THEN ShutSocket(Release(d))
                             ELSE Release(d)
  BY DEF Close, IfOpen, ShutsNow
<1> HIDE DEF d
<1>3. CASE d.closed
  BY <1>1, <1>2, <1>3
<1>4. CASE ~d.closed
  <2>1. /\ Sane(Release(d)) /\ SameOutput(d, Release(d)) /\ SameWork(d, Release(d))
        /\ Release(d).closed /\ Release(d).socket = d.socket
    <3>1. d.releases = 0 /\ d.protocol \in BOOLEAN /\ d \in ConnRecord
      BY <1>1, <1>4 DEF Sane, Released, LetGo, Silent, ConnRecord
    <3>2. Release(d) = [d EXCEPT !.closed = TRUE, !.releases = IF d.protocol THEN 1 ELSE 0]
      BY <3>1 DEF Release
    <3>3. (IF d.protocol THEN 1 ELSE 0) \in 0..1
      OBVIOUS
    <3>4. Release(d) \in ConnRecord
      BY <3>1, <3>2, <3>3 DEF ConnRecord
    <3> QED BY <1>1, <3>1, <3>2, <3>4
    DEF SameWork, TimerNames, Sane, Writing, Released, LetGo, Silent, SameOutput,
        ConnRecord
  <2> QED BY <1>1, <1>2, <1>4, <2>1, ShutKeeps DEF SameOutput, SameWork
<1> QED BY <1>3, <1>4

\* send: the first message of an idle connection starts the write.
LEMMA SendKeeps ==
    ASSUME NEW c, Sane(c), c.sent < MaxMsg, c.protocol
    PROVE  /\ Sane(Send(c)) /\ Send(c).closed = c.closed /\ Send(c).socket = c.socket
<1>1. CASE c.closed
  BY <1>1 DEF Send
<1>2. CASE ~c.closed
  <2> DEFINE d == [c EXCEPT !.queue = Append(@, c.sent + 1), !.sent = @ + 1]
  <2>1. Send(c) = IF c.queue = <<>> THEN InternalSend(d) ELSE d
    BY <1>2 DEF Send, StartIfFirst
  <2>2. c.sent + 1 \in 1..MaxMsg /\ c.queue \in Seq(1..MaxMsg)
    BY ConnAssumption DEF Sane, ConnRecord
  <2>3. Append(c.queue, c.sent + 1) \in Seq(1..MaxMsg) /\ Append(c.queue, c.sent + 1) # <<>>
    BY <2>2
  <2>4. /\ d \in ConnRecord /\ d.queue # <<>> /\ Released(d) /\ LetGo(d) /\ d.protocol
        /\ d.writeOp = c.writeOp /\ d.closed = c.closed /\ d.socket = c.socket
    <3>1. d = [c EXCEPT !.queue = Append(c.queue, c.sent + 1), !.sent = c.sent + 1]
      BY DEF Sane, ConnRecord
    <3>2. c.sent + 1 \in 0..MaxMsg
      BY <2>2
    <3> HIDE DEF d
    <3>3. c \in ConnRecord
      BY DEF Sane
    <3>4. d \in ConnRecord
      BY <2>3, <3>1, <3>2, <3>3 DEF ConnRecord
    <3>5. d.queue = Append(c.queue, c.sent + 1)
      BY <3>1, <3>3 DEF ConnRecord
    <3> QED BY <2>3, <3>1, <3>3, <3>4, <3>5
    DEF Sane, Released, LetGo, Silent, ConnRecord
  <2> HIDE DEF d
  <2>5. CASE c.queue = <<>>
    <3>1. InternalSend(d) = [d EXCEPT !.writeTimer = @ \cup {"armed"}, !.writeOp = "pending"]
      BY DEF InternalSend, ArmWriteTimer
    <3>2. InternalSend(d) \in ConnRecord
      BY <2>4, <3>1, SMTT(20), ZenonT(20) DEF ConnRecord, Ops, Timers
    <3> QED BY <2>1, <2>4, <2>5, <3>1, <3>2
    DEF Sane, Writing, Released, LetGo, Silent, ConnRecord
  <2>6. CASE c.queue # <<>>
    BY <2>1, <2>4, <2>6 DEF Sane, Writing, Released, LetGo, Silent
  <2> QED BY <2>5, <2>6
<1> QED BY <1>1, <1>2

LEMMA StartReadKeeps ==
    ASSUME NEW c, Sane(c), NEW what \in Reads
    PROVE  /\ Sane(StartRead(c, what)) /\ SameOutput(c, StartRead(c, what))
           /\ StartRead(c, what).closed = c.closed /\ StartRead(c, what).socket = c.socket
  BY
  DEF StartRead, ArmReadTimer, Sane, Writing, Released, LetGo, Silent, SameOutput,
      ConnRecord, Ops, Reads, Timers

LEMMA ReadDoneKeeps ==
    ASSUME NEW c, Sane(c)
    PROVE  /\ Sane(ReadDone(c)) /\ SameOutput(c, ReadDone(c)) /\ ReadDone(c).readOp = "none"
           /\ ReadDone(c).closed = c.closed /\ ReadDone(c).socket = c.socket
  BY
  DEF ReadDone, CancelTimer, Sane, Writing, Released, LetGo, Silent, SameOutput,
      ConnRecord, Ops, Reads, Timers

\* Whatever a protocol does with a packet.
LEMMA HandledKeeps ==
    ASSUME NEW c, Sane(c), c.protocol, NEW h \in Handled(c)
    PROVE  Sane(h) /\ (h.socket # c.socket => h.queue = <<>>)
<1> DEFINE answered == IF c.sent < MaxMsg THEN Send(c) ELSE c
<1>1. Sane(answered) /\ answered.socket = c.socket
  BY SendKeeps
<1>2. h = c \/ h = answered \/ h = Close(c, FALSE) \/ h = Close(answered, FALSE)
  BY DEF Handled
<1> HIDE DEF answered
<1> QED BY <1>1, <1>2, CloseKeeps DEF SameOutput

-----------------------------------------------------------------------------
(* The handlers.                                                           *)

LEMMA NextSane == Sane(conn) /\ [ConnNext]_cvars => Sane(conn)'
<1> SUFFICES ASSUME Sane(conn), [ConnNext]_cvars PROVE Sane(conn')
  OBVIOUS
<1>1. CASE UNCHANGED cvars
  BY <1>1 DEF cvars
<1>2. CASE ParseHeader
  <2> DEFINE c == ReadDone(conn)
  <2>1. Sane(c)
    BY ReadDoneKeeps
  <2>2. \/ \E force \in BOOLEAN : conn' = Close(c, force)
        \/ conn' = c
        \/ conn' = StartRead(c, "body")
    BY <1>2 DEF ParseHeader
  <2> HIDE DEF c
  <2> QED BY <2>1, <2>2, CloseKeeps, StartReadKeeps DEF Reads
<1>3. CASE ParsePacket
  <2> DEFINE c == ReadDone(conn)
             d == [c EXCEPT !.first = TRUE, !.protocol = TRUE]
             e == [c EXCEPT !.first = TRUE]
  <2>1. Sane(c) /\ c.closed = conn.closed
    BY ReadDoneKeeps
  <2> HIDE DEF c
  <2>2. ~c.closed => Sane(d) /\ d.protocol /\ Sane(e)
    BY <2>1 DEF Sane, Writing, Released, LetGo, Silent, ConnRecord
  <2>3. \/ conn' = Close(c, TRUE) \/ conn' = c
        \/ ~c.closed /\ \E h \in Handled(d) : conn' = StartRead(h, "header")
        \/ ~c.closed /\ conn' = Close(e, TRUE)
    <3>1. \/ conn' = Close(c, TRUE) \/ conn' = c
          \/ ~c.closed /\ conn' \in {StartRead(h, "header") : h \in Handled(d)}
          \/ ~c.closed /\ conn' = Close(e, TRUE)
      BY <1>3, <2>1, Zenon DEF ParsePacket, c
    <3> QED BY <3>1
  <2> HIDE DEF d, e
  <2> QED BY <2>1, <2>2, <2>3, CloseKeeps, HandledKeeps, StartReadKeeps DEF Reads
<1>4. CASE OnWriteOperation
  <2> DEFINE c == PopFront([conn EXCEPT !.writeOp = "none",
                                        !.writeTimer = CancelTimer(@)])
             e == [c EXCEPT !.queue = <<>>]
  <2>1. conn.queue # <<>> /\ conn.queue \in Seq(1..MaxMsg) /\ conn.protocol
    BY <1>4 DEF OnWriteOperation, Sane, Writing, Silent, ConnRecord
  <2> DEFINE M == 1..MaxMsg
  <2> HIDE DEF M
  <2>2. Tail(conn.queue) \in Seq(1..MaxMsg)
    <3>1. ASSUME NEW q \in Seq(M), q # <<>> PROVE Tail(q) \in Seq(M)
      BY <3>1
    <3> QED BY <2>1, <3>1 DEF M
  <2>3. c \in ConnRecord /\ Released(c) /\ LetGo(c) /\ c.protocol /\ c.writeOp = "none"
    BY <2>1, <2>2
    DEF PopFront, CancelTimer, Sane, Released, LetGo, Silent, ConnRecord, Ops, Timers
  <2>4. conn' = IF conn.writeOp = "error" THEN Close(e, TRUE)
                ELSE IF c.queue # <<>> THEN InternalSend(c)
                ELSE IF c.closed THEN ShutSocket(c) ELSE c
    BY <1>4 DEF OnWriteOperation
  <2> HIDE DEF c
  <2>5. Sane(e)
    <3>1. <<>> \in Seq(1..MaxMsg)
      OBVIOUS
    <3> QED BY <2>3, <3>1 DEF Sane, Writing, Released, LetGo, Silent, ConnRecord
  <2>6. c.queue # <<>> => Sane(InternalSend(c))
    BY <2>3
    DEF InternalSend, ArmWriteTimer, Sane, Writing, Released, LetGo, Silent,
        ConnRecord, Ops, Timers
  <2>7. c.queue = <<>> => Sane(c)
    BY <2>3 DEF Sane, Writing, Released, LetGo, Silent
  <2> HIDE DEF e
  <2> QED BY <2>4, <2>5, <2>6, <2>7, CloseKeeps, ShutKeeps
<1>5. ASSUME NEW timer \in TimerNames, TimerExpires(timer)
      PROVE  Sane(conn')
  BY <1>5
  DEF TimerExpires, TimerNames, Sane, Writing, Released, LetGo, Silent, ConnRecord,
      Timers
<1>6. ASSUME NEW timer \in TimerNames, HandleTimeout(timer)
      PROVE  Sane(conn')
  <2>1. Sane([conn EXCEPT ![timer] = @ \ {"due"}])
    BY <1>6 DEF TimerNames, Sane, Writing, Released, LetGo, Silent, ConnRecord, Timers
  <2> QED BY <1>6, <2>1, CloseKeeps DEF HandleTimeout
<1>7. CASE DispatcherSend
  BY <1>7, SendKeeps DEF DispatcherSend
<1>8. CASE DispatcherDisconnect
  BY <1>8, CloseKeeps DEF DispatcherDisconnect
<1>9. CASE CloseAll
  BY <1>9 DEF CloseAll, Sane, Writing, Released, LetGo, Silent, ConnRecord
<1>10. CASE Destroy
  BY <1>10, ShutKeeps DEF Destroy
<1>11. CASE PeerSends \/ PeerReads \/ PeerGone \/ OperationFails
  BY <1>11
  DEF PeerSends, PeerReads, PeerGone, OperationFails, Sane, Writing, Released, LetGo,
      Silent, ConnRecord, Ops
<1> QED
  BY <1>1, <1>2, <1>3, <1>4, <1>5, <1>6, <1>7, <1>8, <1>9, <1>10, <1>11
  DEF ConnNext, IoStep

\* A step that shuts the socket on queued output.
CutsOff == conn.socket = "open" /\ conn'.socket = "shut" /\ conn'.queue # <<>>

LEMMA NextDrains == Sane(conn) /\ [ConnNext]_cvars => (CutsOff => ByForce /\ ~conn.closed)
<1> SUFFICES ASSUME Sane(conn), [ConnNext]_cvars, CutsOff PROVE ByForce /\ ~conn.closed
  OBVIOUS
<1>0. conn'.socket # conn.socket /\ conn'.queue # <<>> /\ conn.socket = "open"
  BY DEF CutsOff
<1>1. ~UNCHANGED cvars
  BY <1>0 DEF cvars
<1>2. CASE ParseHeader
  <2> DEFINE c == ReadDone(conn)
  <2>1. /\ Sane(c) /\ c.closed = conn.closed /\ c.socket = conn.socket
        /\ c.queue = conn.queue /\ c.readOp = "none"
    BY ReadDoneKeeps DEF SameOutput
  <2>2. \/ conn' = Close(c, FALSE) \/ conn' = Close(c, TRUE)
        \/ conn' = c \/ conn' = StartRead(c, "body")
    BY <1>2 DEF ParseHeader
  <2>3. conn.readOp = "error" \/ (conn.readOp = "ok" /\ conn.reading = "header")
    BY <1>2 DEF ParseHeader
  <2> HIDE DEF c
  <2>4. conn' # c /\ conn' # StartRead(c, "body")
    BY <1>0, <2>1, StartReadKeeps DEF Reads
  <2>5. conn' # Close(c, FALSE)
    <3>1. Close(c, FALSE).queue = c.queue
      BY <2>1, CloseKeeps DEF SameOutput
    <3>2. Close(c, FALSE).socket # c.socket => c.queue = <<>>
      BY <2>1, CloseKeeps
    <3> QED BY <1>0, <2>1, <3>1, <3>2
  <2>6. conn' = Close(c, TRUE)
    BY <2>2, <2>4, <2>5
  <2>7. conn'.readOp = "none" /\ ~c.closed
    BY <1>0, <2>1, <2>6, CloseKeeps DEF SameOutput, SameWork
  <2> QED BY <2>1, <2>3, <2>7 DEF ByForce
<1>3. CASE ParsePacket
  <2> DEFINE c == ReadDone(conn)
             d == [c EXCEPT !.first = TRUE, !.protocol = TRUE]
             e == [c EXCEPT !.first = TRUE]
  <2>1. /\ Sane(c) /\ c.closed = conn.closed /\ c.socket = conn.socket
        /\ c.queue = conn.queue /\ c.readOp = "none"
    BY ReadDoneKeeps DEF SameOutput
  <2> HIDE DEF c
  <2>2. ~c.closed => /\ Sane(d) /\ d.protocol /\ d.socket = c.socket
                     /\ Sane(e) /\ e.socket = c.socket /\ e.queue = c.queue
    BY <2>1 DEF Sane, Writing, Released, LetGo, Silent, ConnRecord
  <2>3. \/ conn.readOp = "error" /\ conn' = Close(c, TRUE)
        \/ conn' = c
        \/ ~c.closed /\ conn' \in {StartRead(h, "header") : h \in Handled(d)}
        \/ ~c.closed /\ ~c.protocol /\ conn' = Close(e, TRUE)
    BY <1>3, <2>1, Zenon DEF ParsePacket, c
  <2> HIDE DEF d, e
  <2>4. CASE conn.readOp = "error" /\ conn' = Close(c, TRUE)
    <3>1. conn'.readOp = "none" /\ ~c.closed
      BY <1>0, <2>1, <2>4, CloseKeeps DEF SameOutput, SameWork
    <3> QED BY <2>1, <2>4, <3>1 DEF ByForce
  <2>5. CASE conn' = c
    BY <1>0, <2>1, <2>5
  <2>6. ASSUME ~c.closed, NEW h \in Handled(d), conn' = StartRead(h, "header")
        PROVE  FALSE
    <3>1. Sane(h) /\ (h.socket # d.socket => h.queue = <<>>)
      BY <2>2, <2>6, HandledKeeps
    <3>2. conn'.socket = h.socket /\ conn'.queue = h.queue
      BY <2>6, <3>1, StartReadKeeps DEF Reads, SameOutput
    <3> QED BY <1>0, <2>1, <2>2, <2>6, <3>1, <3>2
  <2>7. CASE ~c.closed /\ ~c.protocol /\ conn' = Close(e, TRUE)
    BY <1>0, <2>1, <2>2, <2>7, CloseKeeps DEF SameOutput, Sane, Silent
  <2> QED BY <2>3, <2>4, <2>5, <2>6, <2>7
<1>4. CASE OnWriteOperation
  <2> DEFINE c == PopFront([conn EXCEPT !.writeOp = "none",
                                        !.writeTimer = CancelTimer(@)])
             e == [c EXCEPT !.queue = <<>>]
  <2>1. c.socket = conn.socket /\ c.queue = Tail(conn.queue)
    BY DEF PopFront, Sane, ConnRecord
  <2>2. conn' = IF conn.writeOp = "error" THEN Close(e, TRUE)
                ELSE IF c.queue # <<>> THEN InternalSend(c)
                ELSE IF c.closed THEN ShutSocket(c) ELSE c
    BY <1>4 DEF OnWriteOperation
  <2>3. InternalSend(c).socket = c.socket
    BY DEF InternalSend, ArmWriteTimer, PopFront, Sane, ConnRecord
  <2>4. Close(e, TRUE).queue = <<>>
    BY DEF Close, IfOpen, ShutsNow, ShutSocket, Release, PopFront, Sane, ConnRecord
  <2>5. ShutSocket(c).queue = c.queue
    BY DEF ShutSocket, PopFront, Sane, ConnRecord
  <2> HIDE DEF c, e
  <2> QED BY <1>0, <2>1, <2>2, <2>3, <2>4, <2>5
<1>5. ASSUME NEW timer \in TimerNames, TimerExpires(timer)
      PROVE  FALSE
  BY <1>0, <1>5 DEF TimerExpires, TimerNames, Sane, ConnRecord
<1>6. ASSUME NEW timer \in TimerNames, HandleTimeout(timer)
      PROVE  ByForce /\ ~conn.closed
  <2> DEFINE c == [conn EXCEPT ![timer] = @ \ {"due"}]
  <2>1. /\ Sane(c) /\ c.closed = conn.closed /\ c.socket = conn.socket
        /\ "due" \notin c[timer]
    BY <1>6 DEF TimerNames, Sane, Writing, Released, LetGo, Silent, ConnRecord, Timers
  <2>2. conn' = Close(c, TRUE) /\ "due" \in conn[timer]
    BY <1>6 DEF HandleTimeout
  <2> HIDE DEF c
  <2>3. "due" \notin conn'[timer] /\ ~c.closed
    <3>1. conn'.queue = c.queue /\ conn'[timer] \subseteq c[timer]
      BY <1>6, <2>1, <2>2, CloseKeeps DEF SameOutput, SameWork
    <3>2. conn'.socket # c.socket => c.queue = <<>> \/ ~c.closed
      BY <2>1, <2>2, CloseKeeps
    <3> QED BY <1>0, <2>1, <3>1, <3>2
  <2> QED BY <1>6, <2>1, <2>2, <2>3 DEF ByForce
<1>7. ~DispatcherSend
  BY <1>0, SendKeeps DEF DispatcherSend
<1>8. ~DispatcherDisconnect
  BY <1>0, CloseKeeps DEF DispatcherDisconnect, SameOutput
<1>9. CASE CloseAll
  BY <1>0, <1>9 DEF CloseAll, ByForce, Sane, LetGo
<1>10. ~Destroy
  BY <1>0, ShutKeeps DEF Destroy, SameOutput, Sane, Writing
<1>11. ~(PeerSends \/ PeerReads \/ PeerGone \/ OperationFails)
  BY <1>0 DEF PeerSends, PeerReads, PeerGone, OperationFails, Sane, ConnRecord
<1> QED
  BY <1>1, <1>2, <1>3, <1>4, <1>5, <1>6, <1>7, <1>8, <1>9, <1>10, <1>11
  DEF ConnNext, IoStep

-----------------------------------------------------------------------------
(* The order of messages.                                                  *)

\* What is queued is numbered on from what is done with.
Done(c)     == c.sent - Len(c.queue)
Numbered(c) == \A i \in 1..Len(c.queue) : c.queue[i] = Done(c) + i

\* From c to d messages are added at most: no write ends.
GoesOn(c, d) ==
    /\ Numbered(c) => Numbered(d)
    /\ Done(d) = Done(c)
    /\ d.writeOp = "ok" <=> c.writeOp = "ok"
    /\ d.writeOp = "error" <=> c.writeOp = "error"
    /\ d.socket = "open" => c.socket = "open"

\* As long as the transport works, the peer has what is done with, and the
\* message in flight once it is written.
Arrived ==
    ~Broken =>
        /\ Len(wire) = Done(conn) + (IF conn.writeOp = "ok" THEN 1 ELSE 0)
        /\ \A i \in 1..Len(wire) : wire[i] = i

Ordered ==
    /\ wire \in Seq(1..MaxMsg)
    /\ Numbered(conn)
    /\ conn.writeOp = "error" => Broken
    /\ Arrived

\* What the operators on sequences do.
LEMMA AppendFacts ==
    ASSUME NEW S, NEW q \in Seq(S), NEW x \in S
    PROVE  /\ Append(q, x) \in Seq(S) /\ Len(q) \in Nat /\ Len(Append(q, x)) = Len(q) + 1
           /\ \A i \in 1..Len(Append(q, x)) :
                 Append(q, x)[i] = IF i = Len(q) + 1 THEN x ELSE q[i]
  OBVIOUS

LEMMA TailFacts ==
    ASSUME NEW S, NEW q \in Seq(S), q # <<>>
    PROVE  /\ Tail(q) \in Seq(S) /\ Len(q) \in Nat /\ Len(q) # 0
           /\ Len(Tail(q)) = Len(q) - 1 /\ Head(q) = q[1] /\ Head(q) \in S
           /\ \A i \in 1..Len(Tail(q)) : i + 1 \in 1..Len(q) /\ Tail(q)[i] = q[i + 1]
  OBVIOUS

LEMMA FrontFacts ==
    ASSUME NEW S, NEW q \in Seq(S), Len(q) # 0
    PROVE  /\ SubSeq(q, 1, Len(q) - 1) \in Seq(S)
           /\ Len(SubSeq(q, 1, Len(q) - 1)) = Len(q) - 1
           /\ \A i \in 1..(Len(q) - 1) : SubSeq(q, 1, Len(q) - 1)[i] = q[i]
  OBVIOUS

LEMMA ConcatFacts ==
    ASSUME NEW S, NEW q \in Seq(S), NEW r \in Seq(S)
    PROVE  /\ q \o r \in Seq(S) /\ Len(q \o r) = Len(q) + Len(r)
           /\ \A i \in 1..(Len(q) + Len(r)) :
                 (q \o r)[i] = IF i <= Len(q) THEN q[i] ELSE r[i - Len(q)]
  OBVIOUS

LEMMA CountFacts ==
    ASSUME NEW S, NEW n \in Nat, \A i \in 1..n : i \in S
    PROVE  [i \in 1..n |-> i] \in Seq(S) /\ Len([i \in 1..n |-> i]) = n
  OBVIOUS

LEMMA SameGoesOn ==
    ASSUME NEW c, NEW d, SameOutput(c, d), d.socket = "open" => c.socket = "open"
    PROVE  GoesOn(c, d)
  BY DEF SameOutput, GoesOn, Done, Numbered

LEMMA GoesOnTwice ==
    ASSUME NEW c, NEW d, NEW e, GoesOn(c, d), GoesOn(d, e)
    PROVE  GoesOn(c, e)
  BY DEF GoesOn

LEMMA CloseGoesOn ==
    ASSUME NEW c, Sane(c), NEW force \in BOOLEAN
    PROVE  GoesOn(c, Close(c, force))
<1>1. Close(c, force).socket = "open" => c.socket = "open"
  BY DEF Close, IfOpen, ShutsNow, ShutSocket, Release, Sane, ConnRecord
<1> QED BY <1>1, CloseKeeps, SameGoesOn

LEMMA SendGoesOn ==
    ASSUME NEW c, Sane(c), c.sent < MaxMsg
    PROVE  GoesOn(c, Send(c))
<1>1. CASE c.closed
  BY <1>1, SameGoesOn DEF Send, SameOutput
<1>2. CASE ~c.closed
  <2> DEFINE d == [c EXCEPT !.queue = Append(@, c.sent + 1), !.sent = @ + 1]
  <2>1. Send(c) = IF c.queue = <<>> THEN InternalSend(d) ELSE d
    BY <1>2 DEF Send, StartIfFirst
  <2>2. /\ d.queue = Append(c.queue, c.sent + 1) /\ d.sent = c.sent + 1
        /\ d.writeOp = c.writeOp /\ d.socket = c.socket
    BY DEF Sane, ConnRecord
  <2>3. /\ InternalSend(d).queue = d.queue /\ InternalSend(d).sent = d.sent
        /\ InternalSend(d).writeOp = "pending" /\ InternalSend(d).socket = d.socket
    BY DEF InternalSend, ArmWriteTimer, Sane, ConnRecord
  <2> HIDE DEF d
  <2>4. /\ Send(c).queue = Append(c.queue, c.sent + 1) /\ Send(c).sent = c.sent + 1
        /\ Send(c).socket = c.socket
        /\ Send(c).writeOp = IF c.queue = <<>> THEN "pending" ELSE c.writeOp
    BY <2>1, <2>2, <2>3
  <2>5. c.queue \in Seq(1..MaxMsg) /\ c.sent \in Nat /\ (c.queue = <<>> => c.writeOp = "none")
    BY ConnAssumption DEF Sane, Writing, ConnRecord
  <2>6. /\ Len(Send(c).queue) = Len(c.queue) + 1 /\ Len(c.queue) \in Nat
        /\ \A i \in 1..Len(Send(c).queue) :
              Send(c).queue[i] = IF i = Len(c.queue) + 1 THEN c.sent + 1 ELSE c.queue[i]
    <3>1. c.sent + 1 \in 1..MaxMsg
      BY <2>5, ConnAssumption
    <3> QED BY <2>4, <2>5, <3>1, AppendFacts
  <2>7. Done(Send(c)) = Done(c)
    <3>1. Send(c).sent = c.sent + 1 /\ c.sent \in Nat
      BY <2>4, <2>5
    <3>2. Len(Send(c).queue) = Len(c.queue) + 1 /\ Len(c.queue) \in Nat
      BY <2>6
    <3> QED BY <3>1, <3>2 DEF Done
  <2>8. Numbered(c) => Numbered(Send(c))
    <3> SUFFICES ASSUME Numbered(c), NEW i \in 1..Len(Send(c).queue)
                 PROVE  Send(c).queue[i] = Done(Send(c)) + i
      BY DEF Numbered
    <3>1. CASE i = Len(c.queue) + 1
      BY <2>5, <2>6, <2>7, <3>1 DEF Done
    <3>2. CASE i # Len(c.queue) + 1
      <4>1. i \in 1..Len(c.queue)
        BY <2>6, <3>2
      <4> QED BY <2>6, <2>7, <3>2, <4>1 DEF Numbered
    <3> QED BY <3>1, <3>2
  <2> QED BY <2>4, <2>5, <2>7, <2>8 DEF GoesOn
<1> QED BY <1>1, <1>2

LEMMA HandledGoesOn ==
    ASSUME NEW c, Sane(c), c.protocol, NEW h \in Handled(c)
    PROVE  GoesOn(c, h)
<1> DEFINE answered == IF c.sent < MaxMsg THEN Send(c) ELSE c
<1>1. GoesOn(c, c)
  BY DEF GoesOn
<1>2. Sane(answered) /\ GoesOn(c, answered)
  BY <1>1, SendKeeps, SendGoesOn
<1>3. h = c \/ h = answered \/ h = Close(c, FALSE) \/ h = Close(answered, FALSE)
  BY DEF Handled
<1> HIDE DEF answered
<1>4. GoesOn(c, Close(c, FALSE)) /\ GoesOn(answered, Close(answered, FALSE))
  BY <1>2, CloseGoesOn
<1>5. GoesOn(c, Close(answered, FALSE))
  BY <1>2, <1>4, GoesOnTwice
<1> QED BY <1>1, <1>2, <1>3, <1>4, <1>5

\* The steps that end no write and leave the wire alone.
Quiet ==
    \/ ParseHeader \/ ParsePacket \/ DispatcherSend \/ DispatcherDisconnect
    \/ CloseAll \/ Destroy \/ PeerSends \/ UNCHANGED cvars
    \/ \E timer \in TimerNames : TimerExpires(timer) \/ HandleTimeout(timer)
    \/ Broken /\ conn.readOp = "pending" /\ conn' = [conn EXCEPT !.readOp = "error"]
       /\ UNCHANGED <<wire, peer>>

LEMMA QuietGoesOn ==
    ASSUME Sane(conn), Quiet
    PROVE  GoesOn(conn, conn') /\ UNCHANGED <<wire, peer>>
<1>1. CASE ParseHeader
  <2> DEFINE c == ReadDone(conn)
  <2>1. Sane(c) /\ GoesOn(conn, c)
    BY ReadDoneKeeps, SameGoesOn
  <2>2. \/ \E force \in BOOLEAN : conn' = Close(c, force)
        \/ conn' = c \/ conn' = StartRead(c, "body")
    BY <1>1 DEF ParseHeader
  <2> HIDE DEF c
  <2>3. GoesOn(c, StartRead(c, "body"))
    BY <2>1, StartReadKeeps, SameGoesOn DEF Reads
  <2>4. \A force \in BOOLEAN : GoesOn(c, Close(c, force))
    BY <2>1, CloseGoesOn
  <2>5. GoesOn(conn, conn')
    BY <2>1, <2>2, <2>3, <2>4, GoesOnTwice
  <2> QED BY <1>1, <2>5 DEF ParseHeader
<1>2. CASE ParsePacket
  <2> DEFINE c == ReadDone(conn)
             d == [c EXCEPT !.first = TRUE, !.protocol = TRUE]
             e == [c EXCEPT !.first = TRUE]
  <2>1. Sane(c) /\ GoesOn(conn, c) /\ c.closed = conn.closed
    BY ReadDoneKeeps, SameGoesOn
  <2> HIDE DEF c
  <2>2. ~c.closed => Sane(d) /\ d.protocol /\ SameOutput(c, d) /\ d.socket = c.socket
    BY <2>1 DEF SameOutput, Sane, Writing, Released, LetGo, Silent, ConnRecord
  <2>3. ~c.closed => Sane(e) /\ SameOutput(c, e) /\ e.socket = c.socket
    BY <2>1 DEF SameOutput, Sane, Writing, Released, LetGo, Silent, ConnRecord
  <2>4. \/ conn' = Close(c, TRUE) \/ conn' = c
        \/ ~c.closed /\ conn' \in {StartRead(h, "header") : h \in Handled(d)}
        \/ ~c.closed /\ conn' = Close(e, TRUE)
    BY <1>2, <2>1, Zenon DEF ParsePacket, c
  <2> HIDE DEF d, e
  <2>5. CASE conn' = Close(c, TRUE) \/ conn' = c
    BY <1>2, <2>1, <2>5, CloseGoesOn, GoesOnTwice DEF ParsePacket
  <2>6. ASSUME ~c.closed, NEW h \in Handled(d), conn' = StartRead(h, "header")
        PROVE  GoesOn(conn, conn')
    <3>1. GoesOn(c, d)
      BY <2>2, <2>6, SameGoesOn
    <3>2. Sane(h) /\ GoesOn(d, h)
      BY <2>2, <2>6, HandledKeeps, HandledGoesOn
    <3>3. GoesOn(h, conn')
      BY <2>6, <3>2, StartReadKeeps, SameGoesOn DEF Reads
    <3> QED BY <2>1, <3>1, <3>2, <3>3, GoesOnTwice
  <2>7. CASE ~c.closed /\ conn' = Close(e, TRUE)
    <3>1. GoesOn(c, e) /\ GoesOn(e, conn')
      BY <2>3, <2>7, SameGoesOn, CloseGoesOn
    <3>2. GoesOn(conn, conn')
      BY <2>1, <3>1, GoesOnTwice
    <3> QED BY <1>2, <3>2 DEF ParsePacket
  <2>8. UNCHANGED <<wire, peer>>
    BY <1>2 DEF ParsePacket
  <2> QED BY <2>4, <2>5, <2>6, <2>7, <2>8
<1>3. CASE DispatcherSend
  BY <1>3, SendGoesOn DEF DispatcherSend
<1>4. CASE DispatcherDisconnect
  BY <1>4, CloseGoesOn DEF DispatcherDisconnect
<1>5. CASE CloseAll \/ PeerSends \/ UNCHANGED cvars
  <2>1. SameOutput(conn, conn') /\ (conn'.socket = "open" => conn.socket = "open")
    BY <1>5 DEF CloseAll, PeerSends, cvars, SameOutput, Sane, ConnRecord
  <2> QED BY <1>5, <2>1, SameGoesOn DEF CloseAll, PeerSends, cvars
<1>6. CASE Destroy
  BY <1>6, ShutKeeps, SameGoesOn DEF Destroy
<1>7. ASSUME NEW timer \in TimerNames, TimerExpires(timer) \/ HandleTimeout(timer)
      PROVE  GoesOn(conn, conn') /\ UNCHANGED <<wire, peer>>
  <2>1. CASE TimerExpires(timer)
    <3>1. SameOutput(conn, conn') /\ conn'.socket = conn.socket
      BY <1>7, <2>1 DEF TimerExpires, TimerNames, SameOutput, Sane, ConnRecord
    <3> QED BY <2>1, <3>1, SameGoesOn DEF TimerExpires
  <2>2. CASE HandleTimeout(timer)
    <3> DEFINE c == [conn EXCEPT ![timer] = @ \ {"due"}]
    <3>1. Sane(c) /\ SameOutput(conn, c) /\ c.socket = conn.socket
      BY <1>7, <2>2 DEF TimerNames, SameOutput, Sane, Writing, Released, LetGo, Silent,
                        ConnRecord, Timers
    <3>2. conn' = Close(c, TRUE) /\ UNCHANGED <<wire, peer>>
      BY <2>2 DEF HandleTimeout
    <3> HIDE DEF c
    <3>3. GoesOn(conn, c) /\ GoesOn(c, conn')
      BY <3>1, <3>2, SameGoesOn, CloseGoesOn
    <3> QED BY <3>2, <3>3, GoesOnTwice
  <2> QED BY <1>7, <2>1, <2>2
<1>8. CASE /\ Broken /\ conn.readOp = "pending" /\ conn' = [conn EXCEPT !.readOp = "error"]
           /\ UNCHANGED <<wire, peer>>
  <2>1. SameOutput(conn, conn') /\ conn'.socket = conn.socket
    BY <1>8 DEF SameOutput, Sane, ConnRecord
  <2> QED BY <1>8, <2>1, SameGoesOn
<1> QED BY <1>1, <1>2, <1>3, <1>4, <1>5, <1>6, <1>7, <1>8 DEF Quiet

LEMMA NextOrdered == Sane(conn) /\ Ordered /\ [ConnNext]_cvars => Ordered'
<1> SUFFICES ASSUME Sane(conn), Ordered, [ConnNext]_cvars PROVE Ordered'
  OBVIOUS
<1>1. conn.queue \in Seq(1..MaxMsg) /\ wire \in Seq(1..MaxMsg)
  BY DEF Sane, ConnRecord, Ordered
<1>a. /\ Len(conn.queue) \in Nat /\ Len(wire) \in Nat /\ conn.sent \in Nat
      /\ Done(conn) \in Int
  <2>1. Len(conn.queue) \in Nat /\ Len(wire) \in Nat
    BY <1>1
  <2>2. conn.sent \in Nat
    BY ConnAssumption DEF Sane, ConnRecord
  <2> QED BY <2>1, <2>2 DEF Done
<1>b. ~Broken /\ conn.writeOp # "ok" => Len(wire) = Done(conn)
  BY <1>a DEF Ordered, Arrived
<1>2. CASE Quiet
  <2>1. GoesOn(conn, conn') /\ wire' = wire /\ peer' = peer
    BY <1>2, QuietGoesOn
  <2>2. Broken => Broken'
    BY <2>1, NextSane DEF GoesOn, Broken, Sane, ConnRecord
  <2> QED BY <2>1, <2>2 DEF GoesOn, Ordered, Arrived
<1>3. CASE OnWriteOperation
  <2> DEFINE c == PopFront([conn EXCEPT !.writeOp = "none",
                                        !.writeTimer = CancelTimer(@)])
             e == [c EXCEPT !.queue = <<>>]
  <2>1. conn.queue # <<>> /\ wire' = wire /\ peer' = peer
    BY <1>3 DEF OnWriteOperation, Sane, Writing
  <2>2. /\ c.queue = Tail(conn.queue) /\ c.sent = conn.sent /\ c.writeOp = "none"
        /\ c.socket = conn.socket /\ c.writeOp = "none"
    BY DEF PopFront, Sane, ConnRecord
  <2>3. /\ Len(Tail(conn.queue)) = Len(conn.queue) - 1
        /\ \A i \in 1..Len(Tail(conn.queue)) :
              i + 1 \in 1..Len(conn.queue) /\ Tail(conn.queue)[i] = conn.queue[i + 1]
    BY <1>1, <2>1, TailFacts
  <2>4. CASE conn.writeOp = "error"
    <3>1. conn' = Close(e, TRUE)
      BY <1>3, <2>4 DEF OnWriteOperation
    <3>2. /\ Close(e, TRUE).queue = <<>> /\ Close(e, TRUE).writeOp = "none"
          /\ Close(e, TRUE).socket = "open" => conn.socket = "open"
          /\ Close(e, TRUE).socket \in {"open", "shut"}
      BY DEF Close, IfOpen, ShutsNow, ShutSocket, Release, PopFront, Sane, ConnRecord
    <3>3. Broken'
      BY <2>1, <2>4, <3>1, <3>2 DEF Ordered, Broken, Sane, ConnRecord
    <3>4. Numbered(conn')
      <4>1. Len(<<>>) = 0
        OBVIOUS
      <4>2. Len(conn'.queue) = 0
        BY <3>1, <3>2, <4>1
      <4> QED BY <4>2 DEF Numbered
    <3>5. Arrived' /\ conn'.writeOp = "none"
      BY <3>1, <3>2, <3>3 DEF Arrived
    <3> QED BY <2>1, <3>4, <3>5 DEF Ordered
  <2>5. CASE conn.writeOp = "ok"
    <3>1. /\ conn'.queue = c.queue /\ conn'.sent = c.sent
          /\ conn'.writeOp \in {"none", "pending"}
          /\ conn'.socket = "open" => conn.socket = "open"
      BY <1>3, <2>2, <2>5
      DEF OnWriteOperation, InternalSend, ArmWriteTimer, ShutSocket, PopFront, Sane, ConnRecord
    <3>2. Done(conn') = Done(conn) + 1
      <4>1. Len(conn'.queue) = Len(conn.queue) - 1 /\ conn'.sent = conn.sent
        BY <2>2, <2>3, <3>1
      <4> QED BY <1>a, <4>1 DEF Done
    <3>3. Numbered(conn')
      <4> SUFFICES ASSUME NEW i \in 1..Len(conn'.queue)
                   PROVE  conn'.queue[i] = Done(conn') + i
        BY DEF Numbered
      <4>1. i + 1 \in 1..Len(conn.queue) /\ conn'.queue[i] = conn.queue[i + 1]
        BY <2>2, <2>3, <3>1
      <4>2. conn.queue[i + 1] = Done(conn) + (i + 1)
        BY <4>1 DEF Ordered, Numbered
      <4> QED BY <1>a, <3>2, <4>1, <4>2
    <3>4. Broken => Broken'
      BY <2>1, <3>1, NextSane DEF Broken, Sane, ConnRecord
    <3>5. Arrived'
      BY <1>a, <2>1, <2>5, <3>1, <3>2, <3>4 DEF Ordered, Arrived
    <3> QED BY <2>1, <3>1, <3>3, <3>5 DEF Ordered
  <2> QED BY <1>3, <2>4, <2>5 DEF OnWriteOperation
<1>4. CASE PeerReads
  <2>1. /\ ~Broken /\ conn.writeOp = "pending" /\ conn' = [conn EXCEPT !.writeOp = "ok"]
        /\ wire' = Append(wire, Head(conn.queue)) /\ peer' = peer
    BY <1>4 DEF PeerReads
  <2>2. /\ conn'.queue = conn.queue /\ conn'.sent = conn.sent /\ conn'.writeOp = "ok"
        /\ conn.queue # <<>>
    BY <2>1 DEF Sane, Writing, ConnRecord
  <2>3. Head(conn.queue) = Done(conn) + 1 /\ Head(conn.queue) \in 1..MaxMsg
    <3>1. /\ Head(conn.queue) = conn.queue[1] /\ Head(conn.queue) \in 1..MaxMsg
          /\ Len(conn.queue) # 0
      BY <1>1, <2>2, TailFacts
    <3>2. 1 \in 1..Len(conn.queue)
      BY <1>a, <3>1
    <3> QED BY <3>1, <3>2 DEF Ordered, Numbered
  <2>4. Len(wire) = Done(conn)
    BY <1>b, <2>1
  <2>5. /\ wire' \in Seq(1..MaxMsg) /\ Len(wire') = Len(wire) + 1
        /\ \A i \in 1..Len(wire') :
              wire'[i] = IF i = Len(wire) + 1 THEN Head(conn.queue) ELSE wire[i]
    BY <1>1, <2>1, <2>3, AppendFacts
  <2>6. Numbered(conn') /\ Done(conn') = Done(conn)
    BY <2>2 DEF Ordered, Numbered, Done
  <2>7. \A i \in 1..Len(wire') : wire'[i] = i
    BY <1>a, <2>1, <2>3, <2>4, <2>5 DEF Ordered, Arrived
  <2> QED BY <1>a, <2>2, <2>4, <2>5, <2>6, <2>7 DEF Ordered, Arrived
<1>5. CASE PeerGone
  BY <1>5 DEF PeerGone, Ordered, Arrived, Broken, Numbered, Done
<1>6. CASE Broken /\ conn.writeOp = "pending" /\ conn' = [conn EXCEPT !.writeOp = "error"]
           /\ UNCHANGED <<wire, peer>>
  <2>1. conn'.queue = conn.queue /\ conn'.sent = conn.sent /\ conn'.socket = conn.socket
    BY <1>6 DEF Sane, ConnRecord
  <2>2. Broken'
    BY <1>6, <2>1 DEF Broken
  <2> QED BY <1>6, <2>1, <2>2 DEF Ordered, Arrived, Numbered, Done
<1> QED
  BY <1>2, <1>3, <1>4, <1>5, <1>6 DEF ConnNext, IoStep, Quiet, OperationFails

-----------------------------------------------------------------------------
(* The theorems.                                                           *)

LEMMA ConnSane == ConnSpec => []Sane(conn)
<1>1. Sane(conn) /\ [ConnNext]_cvars => Sane(conn)'
  BY NextSane
<1> QED BY InitSane, <1>1, PTL DEF ConnSpec

\* The connection, what the peer received and the surroundings stay of their
\* types: nothing but messages of this connection reaches the peer.
THEOREM ConnTypeCorrect == ConnSpec => []ConnTypeOK
<1> DEFINE Around == peer \in {"up", "gone"} /\ destroyed \in BOOLEAN /\ closeAll \in BOOLEAN
           Typed  == wire \in Seq(1..MaxMsg) /\ Around
<1>1. ConnInit => Typed
  <2>1. <<>> \in Seq(1..MaxMsg)
    OBVIOUS
  <2> QED BY <2>1 DEF ConnInit
<1>2. Sane(conn) /\ Typed /\ [ConnNext]_cvars => Typed'
  <2> SUFFICES ASSUME Sane(conn), Typed, [ConnNext]_cvars PROVE Typed'
    OBVIOUS
  <2>1. CASE UNCHANGED cvars
    BY <2>1 DEF cvars
  <2>2. CASE PeerReads
    <3>1. conn.queue \in Seq(1..MaxMsg) /\ conn.queue # <<>>
      BY <2>2 DEF PeerReads, Sane, Writing, ConnRecord
    <3>2. Head(conn.queue) \in 1..MaxMsg
      BY <3>1, TailFacts
    <3> QED BY <2>2, <3>2, AppendFacts DEF PeerReads
  <2>3. CASE PeerGone \/ CloseAll \/ Destroy
    BY <2>3 DEF PeerGone, CloseAll, Destroy
  <2>4. CASE \/ ParseHeader \/ ParsePacket \/ OnWriteOperation \/ OperationFails
             \/ DispatcherSend \/ DispatcherDisconnect \/ PeerSends
             \/ \E timer \in TimerNames : HandleTimeout(timer) \/ TimerExpires(timer)
    <3>1. UNCHANGED <<wire, peer, destroyed, closeAll>>
      BY <2>4
      DEF ParseHeader, ParsePacket, OnWriteOperation, OperationFails, DispatcherSend,
          DispatcherDisconnect, PeerSends, HandleTimeout, TimerExpires
    <3> QED BY <3>1
  <2> QED BY <2>1, <2>2, <2>3, <2>4 DEF ConnNext, IoStep
<1>3. Sane(conn) /\ Typed => ConnTypeOK
  BY DEF Sane, ConnTypeOK
<1> QED BY <1>1, <1>2, <1>3, ConnSane, PTL DEF ConnSpec

\* While messages are queued one write is outstanding, on an open connection
\* and on one that closes: each of send, onWriteOperation and close leaves it
\* so, in whichever order the threads call them.
THEOREM WriteAlwaysOutstanding == ConnSpec => []WriteOutstanding
<1>1. Sane(conn) => WriteOutstanding
  BY DEF Sane, Writing, WriteOutstanding
<1> QED BY <1>1, ConnSane, PTL

\* A protocol is released once, by the close that finds its connection open.
THEOREM ReleasedAtMostOnce == ConnSpec => []ReleaseOnce
<1>1. Sane(conn) => ReleaseOnce
  BY DEF Sane, Released, ReleaseOnce
<1> QED BY <1>1, ConnSane, PTL

\* Nothing but a timeout, a failed read or the end of the server takes queued
\* output from a client, and none of these once the connection closes.
THEOREM GracefullyDrained == ConnSpec => GracefulDrains
<1>1. Sane(conn) /\ [ConnNext]_cvars => [CutsOff => ByForce /\ ~conn.closed]_cvars
  BY NextDrains
<1>2. [CutsOff => ByForce /\ ~conn.closed]_cvars
        => [conn.socket = "open" /\ conn'.socket = "shut" /\ conn'.queue # <<>>
              => ByForce /\ ~conn.closed]_cvars
  BY DEF CutsOff
<1> QED BY <1>1, <1>2, ConnSane, PTL DEF ConnSpec, GracefulDrains

\* The peer gets the messages in the order send accepted them, none left out
\* and none twice, until the transport fails or the socket is shut.
THEOREM NothingEverSkipped == ConnSpec => []NothingSkipped
<1>1. ConnInit => Ordered
  <2> SUFFICES ASSUME ConnInit PROVE Ordered
    OBVIOUS
  <2>1. conn.queue = <<>> /\ conn.sent = 0 /\ conn.writeOp = "none" /\ wire = <<>>
    BY DEF ConnInit
  <2>2. Len(<<>>) = 0 /\ <<>> \in Seq(1..MaxMsg)
    OBVIOUS
  <2>3. Done(conn) = 0
    <3>1. Len(conn.queue) = 0
      BY <2>1, <2>2
    <3>2. conn.sent = 0
      BY <2>1
    <3> QED BY <3>1, <3>2 DEF Done
  <2> QED BY <2>1, <2>2, <2>3 DEF Ordered, Numbered, Arrived
<1>2. Sane(conn) /\ Ordered => NothingSkipped
  <2> SUFFICES ASSUME Sane(conn), Ordered, ~Broken
               PROVE  Delivered \o conn.queue = [i \in 1..conn.sent |-> i]
    BY DEF NothingSkipped
  <2>1. conn.queue \in Seq(1..MaxMsg) /\ wire \in Seq(1..MaxMsg)
    BY DEF Sane, ConnRecord, Ordered
  <2>2. Len(conn.queue) \in Nat /\ Len(wire) \in Nat
    BY <2>1
  <2>3. conn.sent \in Nat
    BY ConnAssumption DEF Sane, ConnRecord
  <2>4. /\ Delivered \in Seq(1..MaxMsg) /\ Len(Delivered) = Done(conn)
        /\ \A i \in 1..Len(Delivered) : Delivered[i] = i
    <3>1. CASE conn.writeOp = "ok"
      <4>1. Len(wire) = Done(conn) + 1 /\ \A i \in 1..Len(wire) : wire[i] = i
        BY <3>1 DEF Ordered, Arrived
      <4>2. Len(conn.queue) # 0 /\ conn.queue # <<>>
        BY <2>1, <3>1, TailFacts DEF Sane, Writing
      <4>3. Len(wire) # 0
        <5>1. conn.queue[1] = Done(conn) + 1 /\ conn.queue[1] \in 1..MaxMsg
          <6>1. conn.queue[1] \in 1..MaxMsg
            BY <2>1, <4>2, TailFacts
          <6>2. 1 \in 1..Len(conn.queue)
            BY <2>2, <4>2
          <6> QED BY <6>1, <6>2 DEF Ordered, Numbered
        <5>2. conn.queue[1] = Len(wire)
          BY <4>1, <5>1
        <5> QED BY <5>1, <5>2
      <4>4. Delivered = SubSeq(wire, 1, Len(wire) - 1)
        BY <3>1 DEF Delivered
      <4>5. /\ Delivered \in Seq(1..MaxMsg) /\ Len(Delivered) = Len(wire) - 1
            /\ \A i \in 1..(Len(wire) - 1) : Delivered[i] = wire[i]
        BY <2>1, <4>3, <4>4, FrontFacts
      <4>6. Done(conn) \in Int
        BY <2>2, <2>3 DEF Done
      <4> QED BY <2>2, <4>1, <4>5, <4>6
    <3>2. CASE conn.writeOp # "ok"
      <4>1. Len(wire) = Done(conn) + 0 /\ Delivered = wire
        BY <3>2 DEF Ordered, Arrived, Delivered
      <4>2. Done(conn) \in Int
        BY <2>2, <2>3 DEF Done
      <4> QED BY <2>1, <4>1, <4>2 DEF Ordered, Arrived
    <3> QED BY <3>1, <3>2
  <2>5. Len(Delivered) + Len(conn.queue) = conn.sent /\ Len(Delivered) \in Nat
    BY <2>2, <2>3, <2>4 DEF Done
  <2>6. /\ Delivered \o conn.queue \in Seq(1..MaxMsg)
        /\ Len(Delivered \o conn.queue) = conn.sent
        /\ \A i \in 1..conn.sent :
              (Delivered \o conn.queue)[i] =
                 IF i <= Len(Delivered) THEN Delivered[i] ELSE conn.queue[i - Len(Delivered)]
    BY <2>1, <2>4, <2>5, ConcatFacts
  <2>7. ASSUME NEW i \in 1..conn.sent PROVE (Delivered \o conn.queue)[i] = i
    <3>1. CASE i <= Len(Delivered)
      BY <2>4, <2>5, <2>6, <3>1
    <3>2. CASE ~(i <= Len(Delivered))
      <4>1. i - Len(Delivered) \in 1..Len(conn.queue)
        BY <2>2, <2>5, <3>2
      <4>2. conn.queue[i - Len(Delivered)] = Done(conn) + (i - Len(Delivered))
        BY <4>1 DEF Ordered, Numbered
      <4> QED BY <2>4, <2>5, <2>6, <3>2, <4>2
    <3> QED BY <3>1, <3>2
  <2>8. [i \in 1..conn.sent |-> i] \in Seq(1..MaxMsg)
    <3>1. conn.sent \in 0..MaxMsg /\ \A i \in 1..conn.sent : i \in 1..MaxMsg
      BY ConnAssumption DEF Sane, ConnRecord
    <3> QED BY <2>3, <3>1, CountFacts
  <2> DEFINE all == [i \in 1..conn.sent |-> i]
             q == Delivered \o conn.queue
  <2>9. Len(all) = conn.sent /\ \A i \in 1..Len(all) : all[i] = i
    BY <2>3
  <2>10. all \in Seq(1..MaxMsg) /\ q \in Seq(1..MaxMsg) /\ Len(q) = Len(all)
         /\ \A i \in 1..Len(q) : q[i] = all[i]
    BY <2>6, <2>7, <2>8, <2>9
  <2> HIDE DEF all, q
  <2>11. q = all
    BY <2>10, SeqEqual
  <2> QED BY <2>11 DEF all, q
<1>3. Sane(conn) /\ Ordered /\ [ConnNext]_cvars => Ordered'
  BY NextOrdered
<1> QED BY <1>1, <1>2, <1>3, ConnSane, PTL DEF ConnSpec
=============================================================================
