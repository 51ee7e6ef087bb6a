------------------------------ MODULE Session ------------------------------
(***************************************************************************)
(* The life of one character's sessions (protocolgame.cpp, spectators.h,   *)
(* player.cpp, game.cpp, outputmessage.cpp): clients log in, replace each  *)
(* other, log out, are kicked, lose their connection at any moment; the    *)
(* Player object is reference counted between the protocols, the map and   *)
(* the list of things to free.  All of this runs on the dispatcher, in the *)
(* order tasks were posted; connections close on the network thread, and a *)
(* replacing client is connected by an event 1000 ms later.                *)
(*                                                                         *)
(* A client sends one first message, so it makes at most one Player: the   *)
(* object is named after the client that created it.  Left out: the        *)
(* account manager, spectators of a broadcast, the checks login makes one  *)
(* after another, any of which may refuse the client, and the reference of *)
(* the list of creatures to check, which a Player gets with the game's and *)
(* loses some time after it.                                               *)
(***************************************************************************)
EXTENDS Naturals, Sequences, FiniteSets

CONSTANTS
    Client,            \* the ProtocolGame objects, one per connection
    CanLogoutAnytime,  \* PlayerCustomFlag_CanLogoutAnytime of the account
    None

ASSUME SessionAssumption ==
    None \notin Client /\ IsFiniteSet(Client) /\ CanLogoutAnytime \in BOOLEAN

VARIABLES
    link,          \* the Connection of each client: "idle" before accept,
                   \* "open", "closed" (m_closed, object alive), "expired"
    tasks,         \* the dispatcher's queue, oldest first
    events,        \* clients whose connect() event is scheduled, with its player
    player,        \* ProtocolGame::player
    released,      \* clients whose release() has run (history)
    life,          \* each Player: "none", "loading", "placed", "removed", "freed"
    refs,          \* its reference count
    owner,         \* its Spectators' m_owner
    connecting,    \* its m_isConnecting
    freeing,       \* Game::releaseThings
    fight,         \* in a fight, pz locked or on a no-logout tile
    exhaust,       \* CONDITION_EXHAUST after a refused logout
    autosend,      \* OutputMessagePool::bufferedProtocols
    sendAlls       \* sendAll events that are scheduled

linkVars   == <<link, tasks, events>>
playerVars == <<player, life, refs, owner, connecting, freeing>>
moodVars   == <<fight, exhaust>>
poolVars   == <<autosend, sendAlls>>
svars == <<linkVars, playerVars, released, moodVars, poolVars>>

Tasks == [op : {"login", "release", "logout"}, client : Client]
         \cup [op : {"connect"}, client : Client, target : Client]

SessionInit ==
    /\ link = [p \in Client |-> "idle"]
    /\ tasks = <<>>
    /\ events = {}
    /\ player = [p \in Client |-> None]
    /\ released = {}
    /\ life = [o \in Client |-> "none"]
    /\ refs = [o \in Client |-> 0]
    /\ owner = [o \in Client |-> None]
    /\ connecting = [o \in Client |-> FALSE]
    /\ freeing = {}
    /\ fight = FALSE
    /\ exhaust = FALSE
    /\ autosend = <<>>
    /\ sendAlls = 0

\* getPlayerByName / getPlayerByID: the player that is in the game.
Online == {o \in Client : life[o] = "placed"}

-----------------------------------------------------------------------------
(* Mutated forms, one per plausible slip.                                  *)

\* connect() does not ask whether the player has got a client meanwhile.
MUTMayConnect(o) == life[o] = "placed"

\* removeCreature releases the reference at once and also queues it.
MUTRefsOfRemoval(o) == refs' = [refs EXCEPT ![o] = @ - 1]

\* A protocol joins the pool without a look at the pool.
MUTStartsSendAll == FALSE

\* The release is posted in front of what the client posted before.
MUTPostRelease(p, q) == <<[op |-> "release", client |-> p]>> \o q

\* The release of a client that has no player yet is not posted.
MUTPostReleaseIfPlayer(p, q) ==
    IF player[p] = None THEN q ELSE Append(q, [op |-> "release", client |-> p])

-----------------------------------------------------------------------------
(* Pieces of the handlers.                                                 *)

PostRelease(p, q) == Append(q, [op |-> "release", client |-> p])

\* Connection::close of p, with the rest q of the queue: the release is
\* posted by the first close only.
Disconnect(p, q) ==
    IF link[p] = "open"
    THEN /\ link' = [link EXCEPT ![p] = "closed"]
         /\ tasks' = PostRelease(p, q)
    ELSE UNCHANGED link /\ tasks' = q

\* Things that lose their last reference are deleted.
LifeWith(l, r) == [o \in Client |-> IF l[o] # "none" /\ r[o] = 0 THEN "freed" ELSE l[o]]

RefsOfRemoval(o) == UNCHANGED refs

\* removeCreature: out of the game and its indexes; the game's reference is
\* dropped by the next cleanup.
RemoveCreature(o) ==
    /\ life' = [life EXCEPT ![o] = "removed"]
    /\ freeing' = freeing \cup {o}
    /\ RefsOfRemoval(o)

StaysInGame == UNCHANGED <<life, freeing, refs>>

StartsSendAll == autosend = <<>>

AddToAutosend(p) ==
    /\ autosend' = Append(autosend, p)
    /\ sendAlls' = IF StartsSendAll THEN sendAlls + 1 ELSE sendAlls

\* swap with the last and pop_back.
RemoveFromAutosend(p) ==
    LET n == Len(autosend)
        S == {i \in 1..n : autosend[i] = p}
    IN  autosend' = IF S = {} THEN autosend
                    ELSE LET i == CHOOSE i \in S : \A j \in S : i <= j
                         IN  SubSeq([autosend EXCEPT ![i] = autosend[n]], 1, n - 1)

-----------------------------------------------------------------------------
(* The network thread.                                                     *)

\* The first message of a new connection passes the checks of
\* onRecvFirstMessage and posts login().
FirstMessage(p) ==
    /\ link[p] = "idle"
    /\ link' = [link EXCEPT ![p] = "open"]
    /\ tasks' = Append(tasks, [op |-> "login", client |-> p])
    /\ UNCHANGED <<events, playerVars, released, moodVars, poolVars>>

\* The client goes away, breaks the protocol or a timer expires.
ConnectionCloses(p) ==
    /\ link[p] = "open"
    /\ Disconnect(p, tasks)
    /\ UNCHANGED <<events, playerVars, released, moodVars, poolVars>>

\* The last handler that held the Connection is gone.
ConnectionExpires(p) ==
    /\ link[p] = "closed"
    /\ link' = [link EXCEPT ![p] = "expired"]
    /\ UNCHANGED <<tasks, events, playerVars, released, moodVars, poolVars>>

\* A logout packet, accepted once the client has a player.
LogoutPacket(p) ==
    /\ link[p] = "open"
    /\ player[p] # None
    /\ life[player[p]] \in {"placed", "removed"}
    /\ \A i \in DOMAIN tasks : tasks[i] # [op |-> "logout", client |-> p]
    /\ tasks' = Append(tasks, [op |-> "logout", client |-> p])
    /\ UNCHANGED <<link, events, playerVars, released, moodVars, poolVars>>

-----------------------------------------------------------------------------
(* The dispatcher.                                                         *)

HeadIs(op) == tasks # <<>> /\ Head(tasks).op = op

\* login(), nobody of that name in the game: a Player is made and loaded; a
\* check refuses it, or it is placed.
LoginNew ==
    /\ HeadIs("login")
    /\ Online = {}
    /\ LET p == Head(tasks).client
       IN  /\ player' = [player EXCEPT ![p] = p]
           /\ owner' = [owner EXCEPT ![p] = p]
           /\ \/ \* disconnectClient, and the release will drop the object; a
                 \* name that cannot be replaced refuses without a word
                 /\ life' = [life EXCEPT ![p] = "loading"]
                 /\ refs' = [refs EXCEPT ![p] = 1]
                 /\ \/ Disconnect(p, Tail(tasks))
                    \/ UNCHANGED link /\ tasks' = Tail(tasks)
                 /\ UNCHANGED poolVars
              \/ \* placeCreature adds the game's reference
                 /\ life' = [life EXCEPT ![p] = "placed"]
                 /\ refs' = [refs EXCEPT ![p] = 2]
                 /\ UNCHANGED link
                 /\ tasks' = Tail(tasks)
                 /\ AddToAutosend(p)
    /\ fight' = FALSE
    /\ exhaust' = FALSE
    /\ UNCHANGED <<events, connecting, freeing, released>>

\* login(), the character is in the game and logins do not replace it.
LoginRefused ==
    /\ HeadIs("login")
    /\ Online # {}
    /\ Disconnect(Head(tasks).client, Tail(tasks))
    /\ UNCHANGED <<events, playerVars, released, moodVars, poolVars>>

\* login() with REPLACE_KICK_ON_LOGIN: the client in charge is disconnected
\* and the new one is connected 1000 ms later.
LoginReplaces ==
    /\ HeadIs("login")
    /\ LET p == Head(tasks).client
       IN  \E o \in Online :
             /\ IF owner[o] = None THEN UNCHANGED link /\ tasks' = Tail(tasks)
                                   ELSE Disconnect(owner[o], Tail(tasks))
             /\ connecting' = [connecting EXCEPT ![o] = TRUE]
             /\ events' = events \cup {<<p, o>>}
             /\ AddToAutosend(p)
    /\ UNCHANGED <<player, life, refs, owner, freeing, released, moodVars>>

\* The scheduler hands the event to the dispatcher.
ConnectDue ==
    \E e \in events :
       /\ events' = events \ {e}
       /\ tasks' = Append(tasks, [op |-> "connect", client |-> e[1], target |-> e[2]])
       /\ UNCHANGED <<link, playerVars, released, moodVars, poolVars>>

MayConnect(o) == life[o] = "placed" /\ owner[o] = None

\* connect(): refused when the player left or has a client again; given up
\* when the Connection object is gone.
ConnectRun ==
    /\ HeadIs("connect")
    /\ LET p == Head(tasks).client
           o == Head(tasks).target
       IN  \/ /\ ~MayConnect(o)
              /\ Disconnect(p, Tail(tasks))
              /\ UNCHANGED <<player, refs, owner, connecting>>
           \/ /\ MayConnect(o)
              /\ link[p] = "expired"
              /\ UNCHANGED <<link, player, refs, owner, connecting>>
              /\ tasks' = Tail(tasks)
           \/ /\ MayConnect(o)
              /\ link[p] # "expired"
              /\ player' = [player EXCEPT ![p] = o]
              /\ refs' = [refs EXCEPT ![o] = @ + 1]
              /\ owner' = [owner EXCEPT ![o] = p]
              /\ connecting' = [connecting EXCEPT ![o] = FALSE]
              /\ UNCHANGED link
              /\ tasks' = Tail(tasks)
    /\ UNCHANGED <<events, life, freeing, released, moodVars, poolVars>>

OwnerAfterRelease(p) ==
    owner' = [o \in Client |-> IF player[p] = o /\ owner[o] = p THEN None ELSE owner[o]]

\* release().
ReleaseRun ==
    /\ HeadIs("release")
    /\ LET p == Head(tasks).client
           r == IF player[p] = None THEN refs ELSE [refs EXCEPT ![player[p]] = @ - 1]
       IN  /\ OwnerAfterRelease(p)
           /\ refs' = r
           /\ life' = LifeWith(life, r)
           /\ player' = [player EXCEPT ![p] = None]
           /\ released' = released \cup {p}
           /\ RemoveFromAutosend(p)
    /\ tasks' = Tail(tasks)
    /\ UNCHANGED <<link, events, connecting, freeing, moodVars, sendAlls>>

\* What logout() of client p does, with the rest q of the queue: refused
\* (exhaustion, recent login, fight, script), or the client is disconnected
\* and the player, unless it is dead already, leaves the game.
Logout(p, force, q) ==
    \/ /\ tasks' = q    \* exhaustion, recent login, or a script refuses
       /\ UNCHANGED <<link, life, freeing, refs, exhaust>>
    \/ /\ player[p] # None
       /\ life[player[p]] = "placed"
       /\ ~force /\ ~CanLogoutAnytime /\ fight /\ ~exhaust
       /\ exhaust' = TRUE
       /\ tasks' = q
       /\ UNCHANGED <<link, life, freeing, refs>>
    \/ /\ player[p] # None
       /\ ~exhaust
       /\ life[player[p]] = "placed" => force \/ CanLogoutAnytime \/ ~fight
       /\ Disconnect(p, q)
       /\ IF life[player[p]] = "placed" THEN RemoveCreature(player[p]) ELSE StaysInGame
       /\ UNCHANGED exhaust

LogoutRun ==
    /\ HeadIs("logout")
    /\ Logout(Head(tasks).client, FALSE, Tail(tasks))
    /\ UNCHANGED <<events, player, owner, connecting, released, fight, poolVars>>

\* Player::kick from a command, a script or a change of the game state.
Kick(o) ==
    /\ life[o] = "placed"
    /\ IF owner[o] # None THEN \E force \in BOOLEAN : Logout(owner[o], force, tasks)
       ELSE RemoveCreature(o) /\ UNCHANGED <<link, tasks, exhaust>>
    /\ UNCHANGED <<events, player, owner, connecting, released, fight, poolVars>>

\* onThink, 60 s after the last pong.
Idle(o) == life[o] = "placed" /\ ~connecting[o] /\ ~fight

IdleThink(o) ==
    /\ Idle(o)
    /\ IF owner[o] # None THEN Logout(owner[o], TRUE, tasks)
       ELSE RemoveCreature(o) /\ UNCHANGED <<link, tasks, exhaust>>
    /\ UNCHANGED <<events, player, owner, connecting, released, fight, poolVars>>

\* The player dies: it leaves the game while its client stays.
Death(o) ==
    /\ life[o] = "placed"
    /\ RemoveCreature(o)
    /\ UNCHANGED <<linkVars, player, owner, connecting, released, moodVars, poolVars>>

\* Game::cleanup.
Cleanup ==
    /\ freeing # {}
    /\ LET r == [o \in Client |-> IF o \in freeing THEN refs[o] - 1 ELSE refs[o]]
       IN  refs' = r /\ life' = LifeWith(life, r)
    /\ freeing' = {}
    /\ UNCHANGED <<linkVars, player, owner, connecting, released, moodVars, poolVars>>

\* sendAll: every buffer is sent; the next run is scheduled while a protocol
\* is left.
SendAll ==
    /\ sendAlls > 0
    /\ autosend = <<>>
    /\ sendAlls' = sendAlls - 1
    /\ UNCHANGED <<linkVars, playerVars, released, moodVars, autosend>>

\* Fights begin and end, exhaustion passes.
Mood ==
    /\ \/ fight' = ~fight /\ UNCHANGED exhaust
       \/ exhaust /\ exhaust' = FALSE /\ UNCHANGED fight
    /\ UNCHANGED <<linkVars, playerVars, released, poolVars>>

-----------------------------------------------------------------------------
TaskRun == LoginNew \/ LoginRefused \/ LoginReplaces \/ ConnectRun \/ ReleaseRun
           \/ LogoutRun

SessionNext ==
    \/ \E p \in Client : FirstMessage(p) \/ ConnectionCloses(p)
                         \/ ConnectionExpires(p) \/ LogoutPacket(p)
    \/ TaskRun
    \/ ConnectDue \/ Cleanup \/ SendAll \/ Mood
    \/ \E o \in Client : Kick(o) \/ IdleThink(o) \/ Death(o)

SessionSpec == SessionInit /\ [][SessionNext]_svars

-----------------------------------------------------------------------------
(* Properties.                                                             *)

Lives == {"none", "loading", "placed", "removed", "freed"}

\* Type invariant: the values the session state takes.
SessionTypeOK ==
    /\ link \in [Client -> {"idle", "open", "closed", "expired"}]
    /\ tasks \in Seq(Tasks)
    /\ events \subseteq Client \X Client
    /\ player \in [Client -> Client \cup {None}]
    /\ owner \in [Client -> Client \cup {None}]
    /\ released \subseteq Client
    /\ life \in [Client -> Lives]
    /\ refs \in [Client -> 0..(Cardinality(Client) + 1)]
    /\ connecting \in [Client -> BOOLEAN]
    /\ freeing \subseteq Client
    /\ {fight, exhaust} \subseteq BOOLEAN
    /\ autosend \in Seq(Client)
    /\ sendAlls \in Nat

\* Thing::m_refCount counts exactly the protocols that point at the Player
\* and the game, which holds it from placeCreature until the cleanup after
\* removeCreature; so the object dies with its last holder, never before
\* and never later.
RefsExact ==
    \A o \in Client :
       /\ refs[o] = Cardinality({p \in Client : player[p] = o})
                    + (IF life[o] = "placed" \/ o \in freeing THEN 1 ELSE 0)
       /\ (life[o] \in {"none", "freed"}) <=> (refs[o] = 0)

\* A character has one client: the one its Spectators call the owner is the
\* only protocol that points at the Player, whatever logins, replacements and
\* lost connections came before (connect, release).
OneInCharge ==
    \A o, p \in Client : player[p] = o <=> owner[o] = p /\ life[o] \notin {"none", "freed"}

\* The pool never holds a protocol whose release() is past, and never holds
\* one twice: release() is posted behind the login that may add it, and is
\* the last to remove it (addProtocolToAutosend, removeProtocolFromAutosend).
PoolIsLive ==
    /\ \A i \in DOMAIN autosend : autosend[i] \notin released
    /\ \A i, j \in DOMAIN autosend : autosend[i] = autosend[j] => i = j

\* While a protocol is buffered some sendAll is scheduled, however the pool
\* emptied and filled between two runs: no client is left with output that
\* nobody sends.
PoolIsServed == autosend # <<>> => sendAlls > 0

\* A closed connection has its protocol released, once, whatever the client
\* was doing: loading, waiting to replace another client, playing or dead.
ReleasedOnce ==
    \A p \in Client :
       LET pending == {i \in DOMAIN tasks : tasks[i] = [op |-> "release", client |-> p]}
       IN  Cardinality(pending) =
             IF link[p] \in {"closed", "expired"} /\ p \notin released THEN 1 ELSE 0

\* connect(): "ProtocolGame::release() has been called at this point and the
\* Connection object no longer exists, so we return to prevent leakage of
\* the Player": a released protocol holds no Player.
ReleasedHoldsNothing == \A p \in released : player[p] = None
=============================================================================
