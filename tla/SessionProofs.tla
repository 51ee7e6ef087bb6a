--------------------------- MODULE SessionProofs ---------------------------
(***************************************************************************)
(* Theorems about Session, for any number of clients of the character.     *)
(*                                                                         *)
(* The heart is the ownership of a Player, World below.  It is kept only   *)
(* because a client that makes a player or takes one over holds none at    *)
(* that moment, and that is a fact about the queue: a client waits in at   *)
(* most one place, as a login, as a connect() event or as the closure of   *)
(* that event (Fresh, EventsFresh, IdleFresh).                             *)
(***************************************************************************)
EXTENDS Session, FiniteSetTheorems, SequenceTheorems, TLAPS

Typed ==
    /\ link \in [Client -> {"idle", "open", "closed", "expired"}]
    /\ tasks \in Seq(Tasks)
    /\ events \subseteq Client \X Client
    /\ player \in [Client -> Client \cup {None}]
    /\ owner \in [Client -> Client \cup {None}]
    /\ released \subseteq Client
    /\ life \in [Client -> Lives]
    /\ refs \in [Client -> Int]
    /\ connecting \in [Client -> BOOLEAN]
    /\ freeing \subseteq Client
    /\ {fight, exhaust} \subseteq BOOLEAN
    /\ autosend \in Seq(Client)
    /\ sendAlls \in Nat

\* What a task asks for: a client that opens has no player yet.
Opens(t) == t.op \in {"login", "connect"}

Clear(p, q) == \A i \in DOMAIN q : Opens(q[i]) => q[i].client # p

Fresh(q) ==
    /\ \A i \in DOMAIN q :
          Opens(q[i]) => /\ link[q[i].client] # "idle"
                         /\ player[q[i].client] = None
                         /\ \A e \in events : e[1] # q[i].client
                         /\ q[i].op = "login" => life[q[i].client] = "none"
    /\ \A i, j \in DOMAIN q :
          Opens(q[i]) /\ Opens(q[j]) /\ q[i].client = q[j].client => i = j

EventsFresh ==
    /\ \A e \in events : link[e[1]] # "idle" /\ player[e[1]] = None
    /\ \A e, f \in events : e[1] = f[1] => e = f

IdleFresh == \A p \in Client : link[p] = "idle" => player[p] = None /\ life[p] = "none"

\* Who holds a Player: the client in charge, and the game.
Held(o) == IF \E p \in Client : player[p] = o THEN 1 ELSE 0
Game(o) == IF life[o] = "placed" \/ o \in freeing THEN 1 ELSE 0

World ==
    /\ OneInCharge
    /\ \A o \in Client :
          /\ refs[o] = Held(o) + Game(o)
          /\ life[o] \in {"none", "freed"} <=> refs[o] = 0
          /\ life[o] = "placed" => o \notin freeing

SessionInv == Typed /\ Fresh(tasks) /\ EventsFresh /\ IdleFresh /\ World /\ PoolIsServed

LEMMA InitInv == SessionInit => SessionInv
<1> SUFFICES ASSUME SessionInit PROVE SessionInv
  OBVIOUS
<1>1. Typed
  <2>1. <<>> \in Seq(Tasks) /\ <<>> \in Seq(Client) /\ {FALSE} \subseteq BOOLEAN
    OBVIOUS
  <2>2. /\ link \in [Client -> {"idle", "open", "closed", "expired"}]
        /\ life \in [Client -> Lives] /\ refs \in [Client -> Int]
        /\ connecting \in [Client -> BOOLEAN]
    BY DEF SessionInit, Lives
  <2>3. player \in [Client -> Client \cup {None}] /\ owner \in [Client -> Client \cup {None}]
    BY DEF SessionInit
  <2>4. tasks \in Seq(Tasks) /\ autosend \in Seq(Client) /\ {fight, exhaust} \subseteq BOOLEAN
    BY <2>1 DEF SessionInit
  <2> QED BY <2>2, <2>3, <2>4 DEF SessionInit, Typed
<1>2. Fresh(tasks) /\ EventsFresh /\ IdleFresh /\ PoolIsServed
  BY DEF SessionInit, Fresh, EventsFresh, IdleFresh, PoolIsServed
<1>3. World
  BY SessionAssumption DEF SessionInit, World, OneInCharge, Held, Game
<1> QED BY <1>1, <1>2, <1>3 DEF SessionInv

-----------------------------------------------------------------------------
(* The queue of tasks.                                                     *)

\* r is q, with tasks behind it that open nothing.
Rest(q, r) ==
    /\ r \in Seq(Tasks)
    /\ \A i \in DOMAIN r : Opens(r[i]) => i \in DOMAIN q /\ r[i] = q[i]

LEMMA RestKeeps ==
    ASSUME NEW q, NEW r, Rest(q, r), Fresh(q)
    PROVE  Fresh(r) /\ \A p \in Client : Clear(p, q) => Clear(p, r)
  BY DEF Rest, Fresh, Clear

LEMMA HeadTaken ==
    ASSUME tasks \in Seq(Tasks), tasks # <<>>, Fresh(tasks)
    PROVE  /\ Head(tasks) \in Tasks /\ Tail(tasks) \in Seq(Tasks) /\ Fresh(Tail(tasks))
           /\ Opens(Head(tasks)) =>
                 /\ Clear(Head(tasks).client, Tail(tasks))
                 /\ link[Head(tasks).client] # "idle"
                 /\ player[Head(tasks).client] = None
                 /\ \A e \in events : e[1] # Head(tasks).client
                 /\ Head(tasks).op = "login" => life[Head(tasks).client] = "none"
<1>1. /\ Head(tasks) = tasks[1] /\ 1 \in DOMAIN tasks /\ Tail(tasks) \in Seq(Tasks)
      /\ Head(tasks) \in Tasks
  OBVIOUS
<1>2. \A i \in DOMAIN Tail(tasks) :
         i + 1 \in DOMAIN tasks /\ i + 1 # 1 /\ Tail(tasks)[i] = tasks[i + 1] /\ i \in Int
  OBVIOUS
<1>3. Fresh(Tail(tasks))
  <2>1. \A i, j \in DOMAIN Tail(tasks) : i + 1 = j + 1 => i = j
    BY <1>2
  <2> QED BY <1>2, <2>1 DEF Fresh
<1>4. Opens(Head(tasks)) => Clear(Head(tasks).client, Tail(tasks))
  BY <1>1, <1>2 DEF Fresh, Clear
<1> QED BY <1>1, <1>3, <1>4 DEF Fresh

LEMMA QuietAppend ==
    ASSUME NEW q \in Seq(Tasks), NEW t \in Tasks, ~Opens(t)
    PROVE  Rest(q, Append(q, t))
<1>1. /\ Append(q, t) \in Seq(Tasks)
      /\ \A i \in DOMAIN Append(q, t) :
            (i \in DOMAIN q /\ Append(q, t)[i] = q[i]) \/ Append(q, t)[i] = t
  OBVIOUS
<1> QED BY <1>1 DEF Rest

LEMMA Releasing ==
    ASSUME NEW p \in Client
    PROVE  [op |-> "release", client |-> p] \in Tasks /\ ~Opens([op |-> "release", client |-> p])
  BY DEF Tasks, Opens

LEMMA DisconnectRest ==
    ASSUME Typed, NEW p \in Client, NEW q \in Seq(Tasks), Disconnect(p, q)
    PROVE  /\ Rest(q, tasks')
           /\ link' \in [Client -> {"idle", "open", "closed", "expired"}]
           /\ \A c \in Client : link'[c] = "idle" => link[c] = "idle"
<1>1. Rest(q, q)
  BY DEF Rest
<1> QED BY <1>1, Releasing, QuietAppend DEF Disconnect, PostRelease, Typed

\* Nobody who waits gets a player, but those of E, who wait no longer.
LEMMA WaitersKeep ==
    ASSUME Typed, Typed', Fresh(tasks'), EventsFresh, IdleFresh, NEW E \in SUBSET Client,
           events' \subseteq events,
           \A p \in Client : link'[p] = "idle" => link[p] = "idle",
           \A p \in Client \ E : /\ player'[p] \in {None, player[p]}
                                 /\ life[p] = "none" => life'[p] = "none",
           \A p \in E : Clear(p, tasks') /\ link[p] # "idle" /\ \A e \in events : e[1] # p
    PROVE  Fresh(tasks)' /\ EventsFresh' /\ IdleFresh'
<1>1. \A i \in DOMAIN tasks' : tasks'[i].client \in Client
  BY DEF Typed, Tasks
<1>2. \A e \in events : e[1] \in Client
  BY DEF Typed
<1>3. Fresh(tasks)'
  BY <1>1 DEF Fresh, Clear
<1>4. EventsFresh' /\ IdleFresh'
  BY <1>2 DEF EventsFresh, IdleFresh
<1> QED BY <1>3, <1>4

-----------------------------------------------------------------------------
(* The player.                                                             *)

LEMMA WorldSame ==
    ASSUME World, UNCHANGED <<player, life, refs, owner, freeing>>
    PROVE  World'
  BY DEF World, OneInCharge, Held, Game

\* removeCreature: the game's reference moves to releaseThings.
LEMMA WorldRemove ==
    ASSUME Typed, World, NEW o \in Client, life[o] = "placed", RemoveCreature(o),
           UNCHANGED <<player, owner>>
    PROVE  /\ World'
           /\ life' \in [Client -> Lives] /\ freeing' \subseteq Client /\ refs' = refs
           /\ \A p \in Client : life[p] = "none" => life'[p] = "none"
<1>1. /\ life' = [life EXCEPT ![o] = "removed"] /\ freeing' = freeing \cup {o}
      /\ refs' = refs /\ player' = player /\ owner' = owner
  BY DEF RemoveCreature, RefsOfRemoval
<1>2. OneInCharge'
  BY <1>1 DEF World, OneInCharge, Typed
<1>3. ASSUME NEW x \in Client
      PROVE  /\ refs'[x] = (Held(x) + Game(x))'
             /\ life'[x] \in {"none", "freed"} <=> refs'[x] = 0
             /\ life'[x] = "placed" => x \notin freeing'
  <2>1. Held(x)' = Held(x) /\ Game(x)' = Game(x)
    BY <1>1 DEF Held, Game, Typed
  <2> QED BY <1>1, <2>1 DEF World, Held, Game, Typed
<1> QED BY <1>1, <1>2, <1>3 DEF World, Typed, Lives

\* What a logout, a kick or a timeout changes.
LEMMA LogoutKeeps ==
    ASSUME Typed, World, NEW p \in Client, NEW force \in BOOLEAN, NEW q \in Seq(Tasks),
           Logout(p, force, q), UNCHANGED <<player, owner>>
    PROVE  /\ World'
           /\ life' \in [Client -> Lives] /\ freeing' \subseteq Client /\ refs' = refs
           /\ exhaust' \in BOOLEAN
           /\ \A c \in Client : life[c] = "none" => life'[c] = "none"
           /\ Rest(q, tasks')
           /\ link' \in [Client -> {"idle", "open", "closed", "expired"}]
           /\ \A c \in Client : link'[c] = "idle" => link[c] = "idle"
<1>1. Rest(q, q)
  BY DEF Rest
<1>2. CASE UNCHANGED <<link, life, freeing, refs>> /\ tasks' = q /\ exhaust' \in BOOLEAN
  BY <1>1, <1>2, WorldSame DEF Typed
<1>3. CASE Disconnect(p, q) /\ UNCHANGED exhaust /\ StaysInGame
  BY <1>3, WorldSame, DisconnectRest DEF Typed, StaysInGame
<1>4. ASSUME Disconnect(p, q), UNCHANGED exhaust, player[p] # None, life[player[p]] = "placed",
             RemoveCreature(player[p])
      PROVE  /\ World'
             /\ life' \in [Client -> Lives] /\ freeing' \subseteq Client /\ refs' = refs
             /\ exhaust' \in BOOLEAN
             /\ \A c \in Client : life[c] = "none" => life'[c] = "none"
             /\ Rest(q, tasks')
             /\ link' \in [Client -> {"idle", "open", "closed", "expired"}]
             /\ \A c \in Client : link'[c] = "idle" => link[c] = "idle"
  <2>1. player[p] \in Client
    BY <1>4 DEF Typed
  <2> QED BY <1>4, <2>1, WorldRemove, DisconnectRest DEF Typed
<1> QED BY <1>2, <1>3, <1>4 DEF Logout, Typed

\* login() makes a player for a client that has none.
LEMMA WorldLoginNew ==
    ASSUME Typed, World, NEW p \in Client, player[p] = None, life[p] = "none", NEW l, NEW n,
           (l = "loading" /\ n = 1) \/ (l = "placed" /\ n = 2),
           player' = [player EXCEPT ![p] = p], owner' = [owner EXCEPT ![p] = p],
           life' = [life EXCEPT ![p] = l], refs' = [refs EXCEPT ![p] = n], freeing' = freeing
    PROVE  World'
<1>1. refs[p] = 0 /\ (\A x \in Client : player[x] # p) /\ p \notin freeing
  BY DEF World, OneInCharge, Held, Game, Typed
<1>2. OneInCharge'
  BY <1>1, SessionAssumption DEF World, OneInCharge, Typed
<1>3. ASSUME NEW x \in Client
      PROVE  /\ refs'[x] = (Held(x) + Game(x))'
             /\ life'[x] \in {"none", "freed"} <=> refs'[x] = 0
             /\ life'[x] = "placed" => x \notin freeing'
  <2>1. CASE x = p
    <3>1. Held(p)' = 1
      BY DEF Held, Typed
    <3>2. Game(p)' = n - 1 /\ refs'[p] = n
      BY <1>1 DEF Game, Typed
    <3> QED BY <1>1, <2>1, <3>1, <3>2 DEF Typed
  <2>2. CASE x # p
    <3>1. Held(x)' = Held(x) /\ Game(x)' = Game(x)
      BY <2>2, SessionAssumption DEF Held, Game, Typed
    <3> QED BY <2>2, <3>1 DEF World, Typed
  <2> QED BY <2>1, <2>2
<1> QED BY <1>2, <1>3 DEF World

\* connect() gives a placed player without a client to one that has none.
LEMMA WorldConnect ==
    ASSUME Typed, World, NEW p \in Client, NEW o \in Client, player[p] = None, MayConnect(o),
           player' = [player EXCEPT ![p] = o], owner' = [owner EXCEPT ![o] = p],
           refs' = [refs EXCEPT ![o] = @ + 1], UNCHANGED <<life, freeing>>
    PROVE  World'
<1>1. (\A x \in Client : player[x] # o) /\ refs[o] = 1 /\ life[o] = "placed"
  BY SessionAssumption DEF World, OneInCharge, Held, Game, MayConnect
<1>2. OneInCharge'
  BY <1>1, SessionAssumption DEF World, OneInCharge, Typed
<1>3. ASSUME NEW x \in Client
      PROVE  /\ refs'[x] = (Held(x) + Game(x))'
             /\ life'[x] \in {"none", "freed"} <=> refs'[x] = 0
             /\ life'[x] = "placed" => x \notin freeing'
  <2>0. Game(x)' = Game(x)
    BY DEF Game
  <2>1. CASE x = o
    <3>1. Held(x)' = 1 /\ Game(x)' = 1
      BY <1>1, <2>0, <2>1 DEF Held, Game, Typed
    <3>2. refs'[x] = 2 /\ life'[x] = "placed"
      BY <1>1, <2>1 DEF Typed
    <3> QED BY <1>1, <2>1, <3>1, <3>2 DEF World
  <2>2. CASE x # o
    <3>1. Held(x)' = Held(x)
      BY <2>2, SessionAssumption DEF Held, Typed
    <3> QED BY <2>0, <2>2, <3>1 DEF World, Typed
  <2> QED BY <2>1, <2>2
<1> QED BY <1>2, <1>3 DEF World

\* release() drops the client's reference.
LEMMA WorldRelease ==
    ASSUME Typed, World, NEW p \in Client, NEW r,
           r = IF player[p] = None THEN refs ELSE [refs EXCEPT ![player[p]] = @ - 1],
           OwnerAfterRelease(p), refs' = r, life' = LifeWith(life, r),
           player' = [player EXCEPT ![p] = None], freeing' = freeing
    PROVE  /\ World'
           /\ life' \in [Client -> Lives] /\ r \in [Client -> Int]
           /\ owner' \in [Client -> Client \cup {None}]
           /\ \A x \in Client : life[x] = "none" => life'[x] = "none"
<1>1. r \in [Client -> Int]
  BY DEF Typed
<1>2. life' \in [Client -> Lives] /\ \A x \in Client : life[x] = "none" => life'[x] = "none"
  BY DEF Typed, Lives, LifeWith
<1>3. owner' \in [Client -> Client \cup {None}]
  BY DEF Typed, OwnerAfterRelease
<1>4. ASSUME NEW x \in Client
      PROVE  /\ refs'[x] = (Held(x) + Game(x))'
             /\ life'[x] \in {"none", "freed"} <=> refs'[x] = 0
             /\ life'[x] = "placed" => x \notin freeing'
  <2>0. /\ refs[x] = Held(x) + Game(x) /\ (life[x] \in {"none", "freed"} <=> refs[x] = 0)
        /\ (life[x] = "placed" => x \notin freeing)
        /\ life'[x] = IF life[x] # "none" /\ r[x] = 0 THEN "freed" ELSE life[x]
    BY DEF World, LifeWith
  <2>1. CASE player[p] = x
    <3>1. Held(x) = 1 /\ Held(x)' = 0 /\ refs'[x] = refs[x] - 1 /\ life[x] \notin {"none", "freed"}
      BY <2>1, SessionAssumption DEF Held, World, OneInCharge, Typed
    <3>2. Game(x)' = Game(x)
      BY <2>0, <3>1 DEF Game
    <3> QED BY <2>0, <3>1, <3>2 DEF Game
  <2>2. CASE player[p] # x
    <3>1. Held(x)' = Held(x) /\ refs'[x] = refs[x]
      BY <2>2, SessionAssumption DEF Held, Typed
    <3>2. life'[x] = life[x]
      BY <2>0, <3>1
    <3>3. Game(x)' = Game(x)
      BY <3>2 DEF Game
    <3> QED BY <2>0, <3>1, <3>2, <3>3
  <2> QED BY <2>1, <2>2
<1>5. OneInCharge'
  <2> SUFFICES ASSUME NEW o \in Client, NEW c \in Client
               PROVE  player'[c] = o <=> owner'[o] = c /\ life'[o] \notin {"none", "freed"}
    BY DEF OneInCharge
  <2>1. player[c] = o <=> owner[o] = c /\ life[o] \notin {"none", "freed"}
    BY DEF World, OneInCharge
  <2>2. owner'[o] = IF player[p] = o /\ owner[o] = p THEN None ELSE owner[o]
    BY DEF OwnerAfterRelease
  <2>3. player'[c] = IF c = p THEN None ELSE player[c]
    BY DEF Typed
  <2>4. ASSUME player'[c] = o
        PROVE  owner'[o] = c /\ life'[o] \notin {"none", "freed"}
    <3>1. c # p /\ player[c] = o
      BY <2>3, <2>4, SessionAssumption
    <3>2. refs'[o] # 0
      BY <1>4, <2>4 DEF Held, Game
    <3> QED BY <1>4, <2>1, <2>2, <3>1, <3>2
  <2>5. ASSUME owner'[o] = c, life'[o] \notin {"none", "freed"}
        PROVE  player'[c] = o
    <3>1. owner[o] = c /\ ~(player[p] = o /\ owner[o] = p)
      BY <2>2, <2>5, SessionAssumption
    <3>2. life[o] \notin {"none", "freed"}
      BY <2>5, <1>2 DEF LifeWith
    <3> QED BY <2>1, <2>3, <3>1, <3>2
  <2> QED BY <2>4, <2>5
<1> QED BY <1>1, <1>2, <1>3, <1>4, <1>5 DEF World

\* Game::cleanup drops the game's references.
LEMMA WorldCleanup ==
    ASSUME Typed, World, Cleanup
    PROVE  /\ World'
           /\ life' \in [Client -> Lives] /\ refs' \in [Client -> Int] /\ freeing' = {}
           /\ \A x \in Client : life[x] = "none" => life'[x] = "none"
<1> DEFINE r == [o \in Client |-> IF o \in freeing THEN refs[o] - 1 ELSE refs[o]]
<1>0. r \in [Client -> Int]
  BY DEF Typed
<1>1. /\ refs' = r /\ life' = LifeWith(life, r) /\ freeing' = {}
      /\ player' = player /\ owner' = owner
  BY DEF Cleanup
<1>2. life' \in [Client -> Lives] /\ \A x \in Client : life[x] = "none" => life'[x] = "none"
  BY <1>1 DEF Typed, Lives, LifeWith
<1>3. ASSUME NEW x \in Client
      PROVE  /\ refs'[x] = (Held(x) + Game(x))'
             /\ life'[x] \in {"none", "freed"} <=> refs'[x] = 0
             /\ life'[x] = "placed" => x \notin freeing'
             /\ life'[x] \in {"none", "freed"} => life[x] \in {"none", "freed"} \/ Held(x) = 0
             /\ life[x] \in {"none", "freed"} => life'[x] \in {"none", "freed"}
  <2>0. /\ refs[x] = Held(x) + Game(x) /\ (life[x] \in {"none", "freed"} <=> refs[x] = 0)
        /\ (life[x] = "placed" => x \notin freeing)
        /\ life'[x] = IF life[x] # "none" /\ r[x] = 0 THEN "freed" ELSE life[x]
    BY <1>1 DEF World, LifeWith
  <2>1. Held(x)' = Held(x) /\ Held(x) \in {0, 1}
    BY <1>1 DEF Held
  <2>2. CASE x \in freeing
    <3>1. Game(x) = 1 /\ life[x] \notin {"placed", "none", "freed"} /\ refs'[x] = Held(x)
      BY <1>1, <2>0, <2>1, <2>2 DEF Game, Typed
    <3>2. Game(x)' = 0
      BY <1>1, <2>0, <3>1 DEF Game
    <3> QED BY <1>1, <2>0, <2>1, <2>2, <3>1, <3>2
  <2>3. CASE x \notin freeing
    <3>1. refs'[x] = refs[x] /\ life'[x] = life[x]
      BY <1>1, <2>0, <2>3
    <3>2. Game(x)' = Game(x)
      BY <1>1, <2>3, <3>1 DEF Game
    <3> QED BY <1>1, <2>0, <2>1, <2>3, <3>1, <3>2
  <2> QED BY <2>2, <2>3
<1>4. OneInCharge'
  <2> SUFFICES ASSUME NEW o \in Client, NEW c \in Client
               PROVE  player[c] = o <=> owner[o] = c /\ life'[o] \notin {"none", "freed"}
    BY <1>1 DEF OneInCharge
  <2> QED BY <1>3 DEF World, OneInCharge, Held
<1> QED BY <1>0, <1>1, <1>2, <1>3, <1>4 DEF World

-----------------------------------------------------------------------------
(* The pool.                                                               *)

LEMMA PoolAdd ==
    ASSUME Typed, NEW p \in Client, AddToAutosend(p), PoolIsServed
    PROVE  autosend' \in Seq(Client) /\ sendAlls' \in Nat /\ sendAlls' > 0
  BY DEF AddToAutosend, StartsSendAll, PoolIsServed, Typed

LEMMA PoolRemove ==
    ASSUME Typed, NEW p \in Client, RemoveFromAutosend(p)
    PROVE  autosend' \in Seq(Client) /\ (autosend = <<>> => autosend' = <<>>)
<1> DEFINE n == Len(autosend)
           S == {i \in 1..n : autosend[i] = p}
           i == CHOOSE k \in S : \A j \in S : k <= j
<1>1. autosend \in Seq(Client) /\ n \in Nat /\ DOMAIN autosend = 1..n
  BY DEF Typed
<1>2. autosend' = IF S = {} THEN autosend
                  ELSE SubSeq([autosend EXCEPT ![i] = autosend[n]], 1, n - 1)
  BY Zenon DEF RemoveFromAutosend
<1> HIDE DEF S, i
<1>3. CASE S = {}
  BY <1>1, <1>2, <1>3
<1>4. CASE S # {}
  <2> DEFINE q == [autosend EXCEPT ![i] = autosend[n]]
  <2>1. n # 0 /\ autosend # <<>>
    BY <1>1, <1>4 DEF S
  <2>2. autosend[n] \in Client
    BY <1>1, <2>1
  <2>3. q \in Seq(Client) /\ Len(q) = n
    <3>1. CASE i \in 1..n
      BY <1>1, <2>2, <3>1, ExceptSeq
    <3>2. CASE i \notin 1..n
      <4>1. q = autosend
        BY <1>1, <3>2
      <4> QED BY <1>1, <4>1
    <3> QED BY <3>1, <3>2
  <2> HIDE DEF q
  <2>4. SubSeq(q, 1, n - 1) \in Seq(Client)
    BY <1>1, <2>1, <2>3
  <2> QED BY <1>2, <1>4, <2>1, <2>4 DEF q
<1> QED BY <1>3, <1>4

-----------------------------------------------------------------------------
(* The steps.                                                              *)

\* A step that takes the task at the head or none, opens nothing new, and
\* gives a player or a life at most to the client whose opening it takes.
LEMMA Steady ==
    ASSUME SessionInv, Typed', World', PoolIsServed', NEW q, NEW E,
           \/ q = tasks /\ E = {}
           \/ /\ tasks # <<>> /\ q = Tail(tasks)
              /\ E = {} \/ (Opens(Head(tasks)) /\ E = {Head(tasks).client}),
           Rest(q, tasks'), events' \subseteq events,
           \A p \in Client : link'[p] = "idle" => link[p] = "idle",
           \A p \in Client \ E : /\ player'[p] \in {None, player[p]}
                                 /\ life[p] = "none" => life'[p] = "none"
    PROVE  SessionInv'
<1>1. /\ Fresh(q) /\ E \in SUBSET Client
      /\ \A p \in E : Clear(p, q) /\ link[p] # "idle" /\ \A e \in events : e[1] # p
  <2>1. CASE q = tasks /\ E = {}
    BY <2>1 DEF SessionInv
  <2>2. CASE tasks # <<>> /\ q = Tail(tasks)
    <3>1. Head(tasks).client \in Client
      BY <2>2, HeadTaken DEF SessionInv, Typed, Tasks
    <3>2. E = {} \/ (Opens(Head(tasks)) /\ E = {Head(tasks).client})
      OBVIOUS
    <3> QED BY <2>2, <3>1, <3>2, HeadTaken DEF SessionInv, Typed
  <2> QED BY <2>1, <2>2
<1>2. Fresh(tasks') /\ \A p \in E : Clear(p, tasks')
  BY <1>1, RestKeeps
<1>3. Fresh(tasks)' /\ EventsFresh' /\ IdleFresh'
  BY <1>1, <1>2, WaitersKeep DEF SessionInv
<1> QED BY <1>3 DEF SessionInv

LEMMA SameRest == ASSUME NEW q \in Seq(Tasks) PROVE Rest(q, q)
  BY DEF Rest

LEMMA StepConnections ==
    ASSUME SessionInv, NEW p \in Client,
           ConnectionCloses(p) \/ ConnectionExpires(p) \/ LogoutPacket(p)
    PROVE  SessionInv'
<1>0. Typed /\ World /\ PoolIsServed /\ tasks \in Seq(Tasks)
  BY DEF SessionInv, Typed
<1>1. UNCHANGED <<events, playerVars, released, moodVars, poolVars>>
  BY DEF ConnectionCloses, ConnectionExpires, LogoutPacket
<1>2. /\ Rest(tasks, tasks')
      /\ link' \in [Client -> {"idle", "open", "closed", "expired"}]
      /\ \A c \in Client : link'[c] = "idle" => link[c] = "idle"
  <2>1. CASE ConnectionCloses(p)
    BY <1>0, <2>1, DisconnectRest DEF ConnectionCloses
  <2>2. CASE ConnectionExpires(p)
    BY <1>0, <2>2, SameRest DEF ConnectionExpires, Typed
  <2>3. CASE LogoutPacket(p)
    <3>1. [op |-> "logout", client |-> p] \in Tasks /\ ~Opens([op |-> "logout", client |-> p])
      BY DEF Tasks, Opens
    <3> QED BY <1>0, <2>3, <3>1, QuietAppend DEF LogoutPacket, Typed
  <2> QED BY <2>1, <2>2, <2>3
<1>3. Typed' /\ World' /\ PoolIsServed'
  BY <1>0, <1>1, <1>2, WorldSame
  DEF Typed, PoolIsServed, Rest, playerVars, moodVars, poolVars
<1> QED BY <1>1, <1>2, <1>3, Steady DEF playerVars

LEMMA StepFirstMessage ==
    ASSUME SessionInv, NEW p \in Client, FirstMessage(p)
    PROVE  SessionInv'
<1> DEFINE t == [op |-> "login", client |-> p]
<1>0. /\ Typed /\ World /\ PoolIsServed /\ tasks \in Seq(Tasks)
      /\ Fresh(tasks) /\ EventsFresh /\ IdleFresh
  BY DEF SessionInv, Typed
<1>1. /\ UNCHANGED <<events, playerVars, released, moodVars, poolVars>>
      /\ link[p] = "idle" /\ link' = [link EXCEPT ![p] = "open"]
      /\ tasks' = Append(tasks, t)
  BY DEF FirstMessage
<1>2. t \in Tasks /\ t.client = p /\ t.op = "login"
  BY DEF Tasks
<1> HIDE DEF t
<1>3. /\ Append(tasks, t) \in Seq(Tasks)
      /\ \A i \in DOMAIN Append(tasks, t) :
            \/ i \in DOMAIN tasks /\ Append(tasks, t)[i] = tasks[i]
            \/ i = Len(tasks) + 1 /\ Append(tasks, t)[i] = t
  BY <1>0, <1>2
<1>4. /\ UNCHANGED <<events, player, life, refs, owner, connecting, freeing>>
      /\ UNCHANGED <<released, fight, exhaust, autosend, sendAlls>>
  BY <1>1 DEF playerVars, moodVars, poolVars
<1>5. Typed'
  BY <1>0, <1>1, <1>3, <1>4 DEF Typed
<1>6. World' /\ PoolIsServed'
  BY <1>0, <1>4, WorldSame DEF PoolIsServed
<1>7. Fresh(tasks)'
  <2>1. \A i \in DOMAIN tasks : Opens(tasks[i]) => tasks[i].client # p
    BY <1>0, <1>1 DEF Fresh
  <2>2. \A e \in events : e[1] # p
    BY <1>0, <1>1 DEF EventsFresh
  <2>3. player[p] = None /\ life[p] = "none" /\ link'[p] # "idle"
    BY <1>0, <1>1 DEF IdleFresh, Typed
  <2>4. \A c \in Client : link'[c] = "idle" => link[c] = "idle"
    BY <1>0, <1>1 DEF Typed
  <2>5. \A i \in DOMAIN tasks : tasks[i].client \in Client
    BY <1>0 DEF Tasks
  <2>6. \A i \in DOMAIN tasks' : \/ i \in DOMAIN tasks /\ tasks'[i] = tasks[i]
                                 \/ i = Len(tasks) + 1 /\ tasks'[i] = t
    BY <1>1, <1>3
  <2>7. ASSUME NEW i \in DOMAIN tasks', Opens(tasks'[i])
        PROVE  /\ link'[tasks'[i].client] # "idle"
               /\ player'[tasks'[i].client] = None
               /\ \A e \in events' : e[1] # tasks'[i].client
               /\ tasks'[i].op = "login" => life'[tasks'[i].client] = "none"
    BY <1>0, <1>2, <1>4, <2>2, <2>3, <2>4, <2>5, <2>6, <2>7 DEF Fresh
  <2>8. ASSUME NEW i \in DOMAIN tasks', NEW j \in DOMAIN tasks',
               Opens(tasks'[i]), Opens(tasks'[j]), tasks'[i].client = tasks'[j].client
        PROVE  i = j
    BY <1>0, <1>2, <2>1, <2>6, <2>8 DEF Fresh
  <2> QED BY <2>7, <2>8 DEF Fresh
<1>8. EventsFresh' /\ IdleFresh'
  BY <1>0, <1>1, <1>4 DEF EventsFresh, IdleFresh, Typed
<1> QED BY <1>5, <1>6, <1>7, <1>8 DEF SessionInv

\* The event becomes a closure.
LEMMA StepConnectDue ==
    ASSUME SessionInv, ConnectDue
    PROVE  SessionInv'
<1>0. /\ Typed /\ World /\ PoolIsServed /\ tasks \in Seq(Tasks)
      /\ Fresh(tasks) /\ EventsFresh /\ IdleFresh
  BY DEF SessionInv, Typed
<1>1. PICK e \in events :
         /\ events' = events \ {e}
         /\ tasks' = Append(tasks, [op |-> "connect", client |-> e[1], target |-> e[2]])
         /\ UNCHANGED <<link, playerVars, released, moodVars, poolVars>>
  BY DEF ConnectDue
<1> DEFINE t == [op |-> "connect", client |-> e[1], target |-> e[2]]
<1>2. t \in Tasks /\ t.client = e[1] /\ t.op = "connect" /\ e[1] \in Client
  BY <1>0 DEF Tasks, Typed
<1>a. tasks' = Append(tasks, t)
  BY <1>1
<1> HIDE DEF t
<1>3. /\ Append(tasks, t) \in Seq(Tasks)
      /\ \A i \in DOMAIN Append(tasks, t) :
            \/ i \in DOMAIN tasks /\ Append(tasks, t)[i] = tasks[i]
            \/ i = Len(tasks) + 1 /\ Append(tasks, t)[i] = t
  BY <1>0, <1>2
<1>4. /\ UNCHANGED <<link, player, life, refs, owner, connecting, freeing>>
      /\ UNCHANGED <<released, fight, exhaust, autosend, sendAlls>>
  BY <1>1 DEF playerVars, moodVars, poolVars
<1>5. Typed'
  BY <1>0, <1>1, <1>a, <1>3, <1>4 DEF Typed
<1>6. World' /\ PoolIsServed'
  BY <1>0, <1>4, WorldSame DEF PoolIsServed
<1>7. Fresh(tasks)'
  <2>1. \A i \in DOMAIN tasks : Opens(tasks[i]) => tasks[i].client # e[1]
    BY <1>0 DEF Fresh
  <2>2. \A f \in events' : f[1] # e[1]
    BY <1>0, <1>1 DEF EventsFresh
  <2>3. player[e[1]] = None /\ link[e[1]] # "idle"
    BY <1>0 DEF EventsFresh
  <2>6. \A i \in DOMAIN tasks' : \/ i \in DOMAIN tasks /\ tasks'[i] = tasks[i]
                                 \/ i = Len(tasks) + 1 /\ tasks'[i] = t
    BY <1>a, <1>3
  <2>7. ASSUME NEW i \in DOMAIN tasks', Opens(tasks'[i])
        PROVE  /\ link'[tasks'[i].client] # "idle"
               /\ player'[tasks'[i].client] = None
               /\ \A f \in events' : f[1] # tasks'[i].client
               /\ tasks'[i].op = "login" => life'[tasks'[i].client] = "none"
    BY <1>0, <1>1, <1>2, <1>4, <2>2, <2>3, <2>6, <2>7 DEF Fresh
  <2>8. ASSUME NEW i \in DOMAIN tasks', NEW j \in DOMAIN tasks',
               Opens(tasks'[i]), Opens(tasks'[j]), tasks'[i].client = tasks'[j].client
        PROVE  i = j
    BY <1>0, <1>2, <2>1, <2>6, <2>8 DEF Fresh
  <2> QED BY <2>7, <2>8 DEF Fresh
<1>8. EventsFresh' /\ IdleFresh'
  BY <1>0, <1>1, <1>4 DEF EventsFresh, IdleFresh
<1> QED BY <1>5, <1>6, <1>7, <1>8 DEF SessionInv

\* The tasks that leave every player as it is, or move one out of the game.
LEMMA StepLogout ==
    ASSUME SessionInv, LogoutRun
    PROVE  SessionInv'
<1>0. Typed /\ World /\ PoolIsServed /\ tasks \in Seq(Tasks) /\ tasks # <<>>
  BY DEF SessionInv, Typed, LogoutRun, HeadIs
<1>1. /\ Head(tasks) \in Tasks /\ Tail(tasks) \in Seq(Tasks)
      /\ Logout(Head(tasks).client, FALSE, Tail(tasks))
      /\ UNCHANGED <<events, player, owner, connecting, released, fight, autosend, sendAlls>>
  BY <1>0, HeadTaken DEF SessionInv, LogoutRun, poolVars
<1>2. Head(tasks).client \in Client
  BY <1>1 DEF Tasks
<1>3. /\ World'
      /\ life' \in [Client -> Lives] /\ freeing' \subseteq Client /\ refs' = refs
      /\ exhaust' \in BOOLEAN
      /\ \A c \in Client : life[c] = "none" => life'[c] = "none"
      /\ Rest(Tail(tasks), tasks')
      /\ link' \in [Client -> {"idle", "open", "closed", "expired"}]
      /\ \A c \in Client : link'[c] = "idle" => link[c] = "idle"
  BY <1>0, <1>1, <1>2, LogoutKeeps
<1>4. Typed' /\ PoolIsServed'
  BY <1>0, <1>1, <1>3 DEF Typed, PoolIsServed, Rest
<1> QED BY <1>0, <1>1, <1>3, <1>4, Steady

\* Kicks, timeouts and deaths.
LEMMA StepLeave ==
    ASSUME SessionInv, NEW o \in Client, Kick(o) \/ IdleThink(o) \/ Death(o)
    PROVE  SessionInv'
<1>0. Typed /\ World /\ PoolIsServed /\ tasks \in Seq(Tasks)
  BY DEF SessionInv, Typed
<1>1. /\ UNCHANGED <<events, player, owner, connecting, released, fight, autosend, sendAlls>>
      /\ life[o] = "placed"
      /\ \/ owner[o] # None /\ \E force \in BOOLEAN : Logout(owner[o], force, tasks)
         \/ RemoveCreature(o) /\ UNCHANGED <<link, tasks, exhaust>>
  <2>1. CASE Kick(o)
    BY <2>1 DEF Kick, poolVars
  <2>2. CASE IdleThink(o)
    BY <2>2 DEF IdleThink, Idle, poolVars
  <2>3. CASE Death(o)
    BY <2>3 DEF Death, linkVars, moodVars, poolVars
  <2> QED BY <2>1, <2>2, <2>3
<1>2. /\ World'
      /\ life' \in [Client -> Lives] /\ freeing' \subseteq Client /\ refs' = refs
      /\ exhaust' \in BOOLEAN
      /\ \A c \in Client : life[c] = "none" => life'[c] = "none"
      /\ Rest(tasks, tasks')
      /\ link' \in [Client -> {"idle", "open", "closed", "expired"}]
      /\ \A c \in Client : link'[c] = "idle" => link[c] = "idle"
  <2>1. CASE owner[o] # None /\ \E force \in BOOLEAN : Logout(owner[o], force, tasks)
    <3>1. owner[o] \in Client
      BY <1>0, <2>1 DEF Typed
    <3> QED BY <1>0, <1>1, <2>1, <3>1, LogoutKeeps
  <2>2. CASE RemoveCreature(o) /\ UNCHANGED <<link, tasks, exhaust>>
    BY <1>0, <1>1, <2>2, WorldRemove, SameRest DEF Typed
  <2> QED BY <1>1, <2>1, <2>2
<1>3. Typed' /\ PoolIsServed'
  BY <1>0, <1>1, <1>2 DEF Typed, PoolIsServed, Rest
<1> QED BY <1>1, <1>2, <1>3, Steady

LEMMA StepOthers ==
    ASSUME SessionInv, Cleanup \/ SendAll \/ Mood
    PROVE  SessionInv'
<1>0. Typed /\ World /\ PoolIsServed /\ tasks \in Seq(Tasks) /\ Rest(tasks, tasks)
  BY SameRest DEF SessionInv, Typed
<1>1. CASE Cleanup
  <2>1. UNCHANGED <<link, tasks, events, player, owner, connecting, released, fight, exhaust,
                    autosend, sendAlls>>
    BY <1>1 DEF Cleanup, linkVars, moodVars, poolVars
  <2>2. /\ World'
        /\ life' \in [Client -> Lives] /\ refs' \in [Client -> Int] /\ freeing' = {}
        /\ \A x \in Client : life[x] = "none" => life'[x] = "none"
    BY <1>0, <1>1, WorldCleanup
  <2>3. Typed' /\ PoolIsServed'
    BY <1>0, <2>1, <2>2 DEF Typed, PoolIsServed
  <2> QED BY <1>0, <2>1, <2>2, <2>3, Steady
<1>2. CASE SendAll \/ Mood
  <2>1. /\ UNCHANGED <<link, tasks, events, player, owner, connecting, released, autosend>>
        /\ UNCHANGED <<life, refs, freeing>>
    BY <1>2 DEF SendAll, Mood, linkVars, playerVars, poolVars
  <2>2. {fight', exhaust'} \subseteq BOOLEAN /\ sendAlls' \in Nat /\ PoolIsServed'
    <3>1. CASE SendAll
      BY <1>0, <3>1 DEF SendAll, moodVars, Typed, PoolIsServed
    <3>2. CASE Mood
      BY <1>0, <3>2 DEF Mood, poolVars, Typed, PoolIsServed
    <3> QED BY <1>2, <3>1, <3>2
  <2>3. World' /\ Typed'
    BY <1>0, <2>1, <2>2, WorldSame DEF Typed
  <2> QED BY <1>0, <2>1, <2>2, <2>3, Steady
<1> QED BY <1>1, <1>2

LEMMA StepLoginNew ==
    ASSUME SessionInv, LoginNew
    PROVE  SessionInv'
<1> DEFINE p == Head(tasks).client
<1>0. /\ Typed /\ World /\ PoolIsServed /\ tasks \in Seq(Tasks) /\ tasks # <<>> /\ Fresh(tasks)
      /\ Head(tasks).op = "login" /\ Opens(Head(tasks))
  BY DEF SessionInv, Typed, LoginNew, HeadIs, Opens
<1>1. /\ Tail(tasks) \in Seq(Tasks) /\ Rest(Tail(tasks), Tail(tasks))
      /\ p \in Client /\ player[p] = None /\ life[p] = "none"
  BY <1>0, HeadTaken, SameRest DEF Tasks
<1>2. /\ player' = [player EXCEPT ![p] = p] /\ owner' = [owner EXCEPT ![p] = p]
      /\ UNCHANGED <<events, connecting, freeing, released>>
      /\ fight' = FALSE /\ exhaust' = FALSE
  BY DEF LoginNew
<1>3. \/ /\ life' = [life EXCEPT ![p] = "loading"] /\ refs' = [refs EXCEPT ![p] = 1]
         /\ Disconnect(p, Tail(tasks)) \/ (UNCHANGED link /\ tasks' = Tail(tasks))
         /\ UNCHANGED <<autosend, sendAlls>>
      \/ /\ life' = [life EXCEPT ![p] = "placed"] /\ refs' = [refs EXCEPT ![p] = 2]
         /\ UNCHANGED link /\ tasks' = Tail(tasks) /\ AddToAutosend(p)
  BY DEF LoginNew, poolVars
<1> HIDE DEF p
<1>4. /\ Rest(Tail(tasks), tasks')
      /\ link' \in [Client -> {"idle", "open", "closed", "expired"}]
      /\ \A c \in Client : link'[c] = "idle" => link[c] = "idle"
  BY <1>0, <1>1, <1>3, DisconnectRest DEF Typed
<1>5. autosend' \in Seq(Client) /\ sendAlls' \in Nat /\ PoolIsServed'
  BY <1>0, <1>1, <1>3, PoolAdd DEF Typed, PoolIsServed
<1>6. World'
  <2>1. CASE life' = [life EXCEPT ![p] = "loading"] /\ refs' = [refs EXCEPT ![p] = 1]
    BY <1>0, <1>1, <1>2, <2>1, WorldLoginNew
  <2>2. CASE life' = [life EXCEPT ![p] = "placed"] /\ refs' = [refs EXCEPT ![p] = 2]
    BY <1>0, <1>1, <1>2, <2>2, WorldLoginNew
  <2> QED BY <1>3, <2>1, <2>2
<1>7. life' \in [Client -> Lives] /\ refs' \in [Client -> Int]
  <2>1. \A l \in Lives, n \in Int : /\ [life EXCEPT ![p] = l] \in [Client -> Lives]
                                    /\ [refs EXCEPT ![p] = n] \in [Client -> Int]
    BY <1>0 DEF Typed
  <2>2. {"loading", "placed"} \subseteq Lives
    BY DEF Lives
  <2> QED BY <1>3, <2>1, <2>2
<1>8. Typed'
  BY <1>0, <1>1, <1>2, <1>4, <1>5, <1>7 DEF Typed, Rest
<1>9. \A c \in Client \ {p} : /\ player'[c] \in {None, player[c]}
                              /\ life[c] = "none" => life'[c] = "none"
  BY <1>0, <1>1, <1>2, <1>3 DEF Typed
<1>10. events' \subseteq events
  BY <1>2
<1> QED BY <1>0, <1>4, <1>5, <1>6, <1>8, <1>9, <1>10, Steady DEF p

LEMMA StepLoginRefused ==
    ASSUME SessionInv, LoginRefused
    PROVE  SessionInv'
<1>0. Typed /\ World /\ PoolIsServed /\ tasks \in Seq(Tasks) /\ tasks # <<>> /\ Fresh(tasks)
  BY DEF SessionInv, Typed, LoginRefused, HeadIs
<1>1. Tail(tasks) \in Seq(Tasks) /\ Head(tasks).client \in Client
  BY <1>0, HeadTaken DEF Tasks
<1>2. /\ Disconnect(Head(tasks).client, Tail(tasks))
      /\ UNCHANGED <<events, player, life, refs, owner, connecting, freeing>>
      /\ UNCHANGED <<released, fight, exhaust, autosend, sendAlls>>
  BY DEF LoginRefused, playerVars, moodVars, poolVars
<1>3. /\ Rest(Tail(tasks), tasks')
      /\ link' \in [Client -> {"idle", "open", "closed", "expired"}]
      /\ \A c \in Client : link'[c] = "idle" => link[c] = "idle"
  BY <1>0, <1>1, <1>2, DisconnectRest
<1>4. Typed' /\ World' /\ PoolIsServed'
  BY <1>0, <1>2, <1>3, WorldSame DEF Typed, PoolIsServed, Rest
<1> QED BY <1>0, <1>2, <1>3, <1>4, Steady

\* The closure of a login that replaces turns into an event.
LEMMA StepLoginReplaces ==
    ASSUME SessionInv, LoginReplaces
    PROVE  SessionInv'
<1> DEFINE p == Head(tasks).client
<1>0. /\ Typed /\ World /\ PoolIsServed /\ tasks \in Seq(Tasks) /\ tasks # <<>> /\ Fresh(tasks)
      /\ EventsFresh /\ IdleFresh /\ Opens(Head(tasks))
  BY DEF SessionInv, Typed, LoginReplaces, HeadIs, Opens
<1>1. /\ Tail(tasks) \in Seq(Tasks) /\ Rest(Tail(tasks), Tail(tasks)) /\ p \in Client
      /\ Fresh(Tail(tasks)) /\ Clear(p, Tail(tasks))
      /\ link[p] # "idle" /\ player[p] = None /\ \A e \in events : e[1] # p
  BY <1>0, HeadTaken, SameRest DEF Tasks
<1>2. PICK o \in Online :
         /\ IF owner[o] = None THEN UNCHANGED link /\ tasks' = Tail(tasks)
                               ELSE Disconnect(owner[o], Tail(tasks))
         /\ connecting' = [connecting EXCEPT ![o] = TRUE]
         /\ events' = events \cup {<<p, o>>}
         /\ AddToAutosend(p)
  BY Zenon DEF LoginReplaces
<1>3. UNCHANGED <<player, life, refs, owner, freeing, released, fight, exhaust>>
  BY DEF LoginReplaces, moodVars
<1> HIDE DEF p
<1>4. o \in Client /\ (owner[o] # None => owner[o] \in Client)
  BY <1>0 DEF Online, Typed
<1>5. /\ Rest(Tail(tasks), tasks')
      /\ link' \in [Client -> {"idle", "open", "closed", "expired"}]
      /\ \A c \in Client : link'[c] = "idle" => link[c] = "idle"
  BY <1>0, <1>1, <1>2, <1>4, DisconnectRest DEF Typed
<1>6. autosend' \in Seq(Client) /\ sendAlls' \in Nat /\ PoolIsServed'
  BY <1>0, <1>1, <1>2, PoolAdd DEF PoolIsServed
<1>7. Typed' /\ World'
  <2>1. connecting' \in [Client -> BOOLEAN] /\ events' \subseteq Client \X Client
    BY <1>0, <1>1, <1>2, <1>4 DEF Typed
  <2>2. Typed'
    BY <1>0, <1>3, <1>5, <1>6, <2>1 DEF Typed, Rest
  <2> QED BY <1>0, <1>3, <2>2, WorldSame
<1>8. Fresh(tasks') /\ Clear(p, tasks')
  BY <1>1, <1>5, RestKeeps
<1>9. \A i \in DOMAIN tasks' : tasks'[i].client \in Client
  BY <1>7 DEF Typed, Tasks
<1>10. Fresh(tasks)'
  BY <1>2, <1>3, <1>5, <1>8, <1>9 DEF Fresh, Clear
<1>11. EventsFresh'
  <2>1. \A e \in events' : e \in events \/ e = <<p, o>>
    BY <1>2
  <2>2. \A e \in events' : e[1] \in Client
    BY <1>7 DEF Typed
  <2>3. link'[p] # "idle"
    BY <1>1, <1>5
  <2> QED BY <1>0, <1>1, <1>3, <1>5, <2>1, <2>2, <2>3 DEF EventsFresh
<1>12. IdleFresh'
  BY <1>0, <1>3, <1>5 DEF IdleFresh
<1> QED BY <1>6, <1>7, <1>10, <1>11, <1>12 DEF SessionInv

LEMMA StepConnectRun ==
    ASSUME SessionInv, ConnectRun
    PROVE  SessionInv'
<1> DEFINE p == Head(tasks).client
           o == Head(tasks).target
<1>0. /\ Typed /\ World /\ PoolIsServed /\ tasks \in Seq(Tasks) /\ tasks # <<>> /\ Fresh(tasks)
      /\ Head(tasks).op = "connect" /\ Opens(Head(tasks))
  BY DEF SessionInv, Typed, ConnectRun, HeadIs, Opens
<1>1. /\ Tail(tasks) \in Seq(Tasks) /\ Rest(Tail(tasks), Tail(tasks))
      /\ p \in Client /\ o \in Client /\ player[p] = None
  BY <1>0, HeadTaken, SameRest DEF Tasks
<1>2. UNCHANGED <<events, life, freeing, released, fight, exhaust, autosend, sendAlls>>
  BY DEF ConnectRun, moodVars, poolVars
<1>3. \/ /\ UNCHANGED <<player, refs, owner, connecting>>
         /\ Disconnect(p, Tail(tasks)) \/ (UNCHANGED link /\ tasks' = Tail(tasks))
      \/ /\ MayConnect(o)
         /\ player' = [player EXCEPT ![p] = o] /\ refs' = [refs EXCEPT ![o] = @ + 1]
         /\ owner' = [owner EXCEPT ![o] = p] /\ connecting' = [connecting EXCEPT ![o] = FALSE]
         /\ UNCHANGED link /\ tasks' = Tail(tasks)
  BY Zenon DEF ConnectRun
<1> HIDE DEF p, o
<1>4. /\ Rest(Tail(tasks), tasks')
      /\ link' \in [Client -> {"idle", "open", "closed", "expired"}]
      /\ \A c \in Client : link'[c] = "idle" => link[c] = "idle"
  BY <1>0, <1>1, <1>3, DisconnectRest DEF Typed
<1>5. World'
  BY <1>0, <1>1, <1>2, <1>3, WorldSame, WorldConnect
<1>6. /\ player' \in [Client -> Client \cup {None}] /\ owner' \in [Client -> Client \cup {None}]
      /\ refs' \in [Client -> Int] /\ connecting' \in [Client -> BOOLEAN]
  <2>1. CASE UNCHANGED <<player, refs, owner, connecting>>
    BY <1>0, <2>1 DEF Typed
  <2>2. /\ [player EXCEPT ![p] = o] \in [Client -> Client \cup {None}]
        /\ [owner EXCEPT ![o] = p] \in [Client -> Client \cup {None}]
        /\ [refs EXCEPT ![o] = @ + 1] \in [Client -> Int]
        /\ [connecting EXCEPT ![o] = FALSE] \in [Client -> BOOLEAN]
    BY <1>0, <1>1 DEF Typed
  <2> QED BY <1>3, <2>1, <2>2
<1>7. Typed' /\ PoolIsServed'
  BY <1>0, <1>2, <1>4, <1>6 DEF Typed, PoolIsServed, Rest
<1>8. \A c \in Client \ {p} : /\ player'[c] \in {None, player[c]}
                              /\ life[c] = "none" => life'[c] = "none"
  BY <1>0, <1>1, <1>2, <1>3 DEF Typed
<1>9. events' \subseteq events
  BY <1>2
<1> QED BY <1>0, <1>4, <1>5, <1>7, <1>8, <1>9, Steady DEF p

LEMMA StepReleaseRun ==
    ASSUME SessionInv, ReleaseRun
    PROVE  SessionInv'
<1> DEFINE p == Head(tasks).client
           r == IF player[p] = None THEN refs ELSE [refs EXCEPT ![player[p]] = @ - 1]
<1>0. Typed /\ World /\ PoolIsServed /\ tasks \in Seq(Tasks) /\ tasks # <<>> /\ Fresh(tasks)
  BY DEF SessionInv, Typed, ReleaseRun, HeadIs
<1>1. Tail(tasks) \in Seq(Tasks) /\ Rest(Tail(tasks), Tail(tasks)) /\ p \in Client
  BY <1>0, HeadTaken, SameRest DEF Tasks
<1>2. /\ OwnerAfterRelease(p) /\ refs' = r /\ life' = LifeWith(life, r)
      /\ player' = [player EXCEPT ![p] = None] /\ released' = released \cup {p}
      /\ RemoveFromAutosend(p) /\ tasks' = Tail(tasks)
      /\ UNCHANGED <<link, events, connecting, freeing, fight, exhaust, sendAlls>>
  BY Zenon DEF ReleaseRun, moodVars
<1>3. /\ World'
      /\ life' \in [Client -> Lives] /\ r \in [Client -> Int]
      /\ owner' \in [Client -> Client \cup {None}]
      /\ \A x \in Client : life[x] = "none" => life'[x] = "none"
  BY <1>0, <1>1, <1>2, WorldRelease
<1> HIDE DEF p, r
<1>4. autosend' \in Seq(Client) /\ PoolIsServed'
  BY <1>0, <1>1, <1>2, PoolRemove DEF PoolIsServed
<1>5. Typed'
  BY <1>0, <1>1, <1>2, <1>3, <1>4 DEF Typed
<1>6. \A c \in Client : player'[c] \in {None, player[c]}
  BY <1>0, <1>2 DEF Typed
<1>7. Rest(Tail(tasks), tasks') /\ link' = link /\ events' \subseteq events
  BY <1>1, <1>2
<1> QED BY <1>0, <1>3, <1>4, <1>5, <1>6, <1>7, Steady

LEMMA NextInv == SessionInv /\ [SessionNext]_svars => SessionInv'
<1> SUFFICES ASSUME SessionInv, [SessionNext]_svars PROVE SessionInv'
  OBVIOUS
<1>1. CASE UNCHANGED svars
  <2>1. /\ UNCHANGED <<link, tasks, events, player, life, refs, owner, connecting, freeing>>
        /\ UNCHANGED <<released, fight, exhaust, autosend, sendAlls>>
    BY <1>1 DEF svars, linkVars, playerVars, moodVars, poolVars
  <2>2. Typed' /\ World' /\ PoolIsServed'
    BY <2>1, WorldSame DEF SessionInv, Typed, PoolIsServed
  <2>3. Rest(tasks, tasks') /\ events' \subseteq events
    BY <2>1, SameRest DEF SessionInv, Typed
  <2> QED BY <2>1, <2>2, <2>3, Steady
<1>2. CASE TaskRun
  BY <1>2, StepLoginNew, StepLoginRefused, StepLoginReplaces, StepConnectRun, StepReleaseRun,
     StepLogout DEF TaskRun
<1> QED
  BY <1>1, <1>2, StepConnections, StepFirstMessage, StepConnectDue, StepLeave, StepOthers
  DEF SessionNext

-----------------------------------------------------------------------------
(* The theorems.                                                           *)

LEMMA SessionSound == SessionSpec => []SessionInv
BY InitInv, NextInv, PTL DEF SessionSpec

\* A Player has one client: whatever logins, replacements, kicks and lost
\* connections came before, the protocol its Spectators call the owner is the
\* only one that points at it (connect, release).
THEOREM OneAlwaysInCharge == SessionSpec => []OneInCharge
<1>1. SessionInv => OneInCharge
  BY DEF SessionInv, World
<1> QED BY <1>1, SessionSound, PTL

\* The clients that hold a player are counted by Held.
LEMMA HeldCounts ==
    ASSUME OneInCharge, NEW o \in Client
    PROVE  Cardinality({p \in Client : player[p] = o}) = Held(o)
<1> DEFINE S == {p \in Client : player[p] = o}
<1>1. CASE S = {}
  BY <1>1, FS_EmptySet DEF Held
<1>2. CASE S # {}
  <2>1. PICK p \in Client : player[p] = o
    BY <1>2
  <2>2. S = {p}
    BY <2>1 DEF OneInCharge
  <2> QED BY <2>1, <2>2, FS_Singleton DEF Held
<1> QED BY <1>1, <1>2

\* The count of a Player's references is exact, so the object is deleted by
\* its last holder and by nobody before (incrementReferenceCounter and
\* decrementReferenceCounter in login, connect, release and the cleanup).
THEOREM RefsAlwaysExact == SessionSpec => []RefsExact
<1>1. SessionInv => RefsExact
  BY HeldCounts DEF SessionInv, World, Game, RefsExact
<1> QED BY <1>1, SessionSound, PTL

\* The session state keeps its types, and a Player never has more references
\* than a client and the game.
THEOREM SessionTypeCorrect == SessionSpec => []SessionTypeOK
<1>1. SessionInv => SessionTypeOK
  <2> SUFFICES ASSUME SessionInv PROVE SessionTypeOK
    OBVIOUS
  <2>1. ASSUME NEW o \in Client PROVE refs[o] \in 0..(Cardinality(Client) + 1)
    <3>1. refs[o] \in 0..2
      BY DEF SessionInv, World, Held, Game
    <3>2. Cardinality(Client) \in Nat /\ Cardinality(Client) # 0
      BY SessionAssumption, FS_CardinalityType, FS_EmptySet
    <3> QED BY <3>1, <3>2
  <2> QED BY <2>1 DEF SessionInv, Typed, SessionTypeOK
<1> QED BY <1>1, SessionSound, PTL

\* While a protocol is buffered a run of sendAll is scheduled
\* (addProtocolToAutosend, sendAll), however many clients come and go.
THEOREM PoolAlwaysServed == SessionSpec => []PoolIsServed
<1>1. SessionInv => PoolIsServed
  BY DEF SessionInv
<1> QED BY <1>1, SessionSound, PTL

-----------------------------------------------------------------------------
(* The releases that are posted, and the pool.  A release is posted when   *)
(* the connection closes and is behind the client's login in the queue, so *)
(* the login that puts a client into the pool is over when its release     *)
(* takes it out.                                                           *)

Gone == {"closed", "expired"}

IsRelease(t, p) == t.op = "release" /\ t.client = p
IsLogin(t, p)   == t.op = "login" /\ t.client = p
Waits(q, p)     == \E i \in DOMAIN q : IsRelease(q[i], p)
NotIn(p, s)     == \A k \in DOMAIN s : s[k] # p

\* In a queue q exactly those wait for their release whose connection is gone
\* and who were not released yet (link l, released R).
Single(q) ==
    \A p \in Client : \A i, j \in DOMAIN q :
        IsRelease(q[i], p) /\ IsRelease(q[j], p) => i = j

Settled(q, l, R) ==
    /\ Single(q)
    /\ \A p \in Client : Waits(q, p) <=> l[p] \in Gone /\ p \notin R
    /\ \A p \in R : l[p] \in Gone

LoginsFirst(q) ==
    \A p \in Client : \A i, j \in DOMAIN q :
        IsLogin(q[i], p) /\ IsRelease(q[j], p) => i < j

\* Who is about to log in was neither released nor put into the pool s.
LoginsNew(q, R, s) ==
    \A p \in Client : \A i \in DOMAIN q : IsLogin(q[i], p) => p \notin R /\ NotIn(p, s)

PoolOf(R, s, l) ==
    /\ \A k \in DOMAIN s : s[k] \notin R /\ l[s[k]] # "idle"
    /\ \A i, j \in DOMAIN s : s[i] = s[j] => i = j

QueueOK(q, l, R, s) ==
    Settled(q, l, R) /\ LoginsFirst(q) /\ LoginsNew(q, R, s) /\ PoolOf(R, s, l)

PostsInv == QueueOK(tasks, link, released, autosend)

LEMMA InitPosts == SessionInit => PostsInv
  BY DEF SessionInit, PostsInv, QueueOK, Settled, Single, Waits, LoginsFirst, LoginsNew,
         PoolOf, Gone

\* The rest of the queue, seen from the whole.
LEMMA TailIndex ==
    ASSUME NEW q \in Seq(Tasks), q # <<>>
    PROVE  /\ Head(q) = q[1] /\ 1 \in DOMAIN q /\ Tail(q) \in Seq(Tasks) /\ Head(q) \in Tasks
           /\ \A i \in DOMAIN Tail(q) : /\ i + 1 \in DOMAIN q /\ Tail(q)[i] = q[i + 1]
                                        /\ i \in Nat /\ i # 0
           /\ \A i \in DOMAIN q : i \in Nat /\ i # 0
           /\ \A i \in DOMAIN q : i # 1 => i - 1 \in DOMAIN Tail(q) /\ Tail(q)[i - 1] = q[i]
<1>1. /\ Head(q) = q[1] /\ 1 \in DOMAIN q /\ Tail(q) \in Seq(Tasks) /\ Head(q) \in Tasks
      /\ \A i \in DOMAIN Tail(q) : /\ i + 1 \in DOMAIN q /\ Tail(q)[i] = q[i + 1]
                                   /\ i \in Nat /\ i # 0
  OBVIOUS
<1>2. DOMAIN q = 1..Len(q) /\ DOMAIN Tail(q) = 1..(Len(q) - 1) /\ Len(q) \in Nat
  OBVIOUS
<1>3. \A i \in DOMAIN q : i # 1 => i - 1 \in DOMAIN Tail(q) /\ (i - 1) + 1 = i
  BY <1>2
<1> QED BY <1>1, <1>2, <1>3

\* Who waits in the rest: all who waited but for the head.
LEMMA TailWaits ==
    ASSUME NEW q \in Seq(Tasks), q # <<>>, NEW p \in Client, Single(q)
    PROVE  /\ ~IsRelease(Head(q), p) => (Waits(Tail(q), p) <=> Waits(q, p))
           /\ IsRelease(Head(q), p) => ~Waits(Tail(q), p) /\ Waits(q, p)
<1>1. ASSUME ~IsRelease(Head(q), p), Waits(q, p) PROVE Waits(Tail(q), p)
  <2>1. PICK i \in DOMAIN q : IsRelease(q[i], p)
    BY <1>1 DEF Waits
  <2>2. i # 1
    BY <1>1, <2>1, TailIndex
  <2>3. i - 1 \in DOMAIN Tail(q) /\ Tail(q)[i - 1] = q[i]
    BY <2>1, <2>2, TailIndex
  <2> QED BY <2>1, <2>3 DEF Waits
<1>2. ASSUME Waits(Tail(q), p) PROVE Waits(q, p) /\ ~IsRelease(Head(q), p)
  <2>1. PICK i \in DOMAIN Tail(q) : IsRelease(Tail(q)[i], p)
    BY <1>2 DEF Waits
  <2>2. i + 1 \in DOMAIN q /\ IsRelease(q[i + 1], p) /\ i + 1 # 1
    BY <2>1, TailIndex
  <2>3. Waits(q, p)
    BY <2>2 DEF Waits
  <2>4. ~IsRelease(Head(q), p)
    BY <2>2, TailIndex DEF Single
  <2> QED BY <2>3, <2>4
<1>3. IsRelease(Head(q), p) => Waits(q, p)
  BY TailIndex DEF Waits
<1> QED BY <1>1, <1>2, <1>3

LEMMA TailSingle ==
    ASSUME NEW q \in Seq(Tasks), q # <<>>, Single(q), LoginsFirst(q)
    PROVE  Single(Tail(q)) /\ LoginsFirst(Tail(q))
<1>1. ASSUME NEW p \in Client, NEW i \in DOMAIN Tail(q), NEW j \in DOMAIN Tail(q)
      PROVE  /\ IsRelease(Tail(q)[i], p) /\ IsRelease(Tail(q)[j], p) => i = j
             /\ IsLogin(Tail(q)[i], p) /\ IsRelease(Tail(q)[j], p) => i < j
  <2>1. /\ i + 1 \in DOMAIN q /\ j + 1 \in DOMAIN q /\ i \in Nat /\ j \in Nat
        /\ Tail(q)[i] = q[i + 1] /\ Tail(q)[j] = q[j + 1]
    BY TailIndex
  <2>2. /\ IsRelease(q[i + 1], p) /\ IsRelease(q[j + 1], p) => i + 1 = j + 1
        /\ IsLogin(q[i + 1], p) /\ IsRelease(q[j + 1], p) => i + 1 < j + 1
    BY <2>1 DEF Single, LoginsFirst
  <2> QED BY <2>1, <2>2
<1> QED BY <1>1 DEF Single, LoginsFirst

\* A task that is not a release is taken: nothing else is settled or unsettled.
LEMMA TakeOther ==
    ASSUME NEW q \in Seq(Tasks), q # <<>>, NEW l, NEW R, NEW s, QueueOK(q, l, R, s),
           Head(q).op # "release"
    PROVE  QueueOK(Tail(q), l, R, s)
<1>1. \A p \in Client : Waits(Tail(q), p) <=> Waits(q, p)
  BY TailWaits DEF QueueOK, Settled, IsRelease
<1>2. LoginsNew(Tail(q), R, s)
  BY TailIndex DEF QueueOK, LoginsNew
<1> QED BY <1>1, <1>2, TailSingle DEF QueueOK, Settled

\* A release is taken: its client is released, and has left the pool t.
LEMMA TakeRelease ==
    ASSUME NEW q \in Seq(Tasks), q # <<>>, NEW l, NEW R \in SUBSET Client,
           NEW s, NEW t \in Seq(Client), NEW p \in Client, QueueOK(q, l, R, s),
           IsRelease(Head(q), p), NotIn(p, t),
           \A k \in DOMAIN t : \E m \in DOMAIN s : t[k] = s[m],
           \A i, j \in DOMAIN t : t[i] = t[j] => i = j
    PROVE  QueueOK(Tail(q), l, R \cup {p}, t)
<1>1. Waits(q, p) /\ ~Waits(Tail(q), p) /\ l[p] \in Gone /\ p \notin R
  BY TailWaits DEF QueueOK, Settled
<1>2. \A c \in Client : c # p => (Waits(Tail(q), c) <=> Waits(q, c))
  BY TailWaits DEF QueueOK, Settled, IsRelease
<1>3. Settled(Tail(q), l, R \cup {p})
  BY <1>1, <1>2, TailSingle DEF QueueOK, Settled
<1>4. LoginsNew(Tail(q), R \cup {p}, t)
  <2> SUFFICES ASSUME NEW c \in Client, NEW i \in DOMAIN Tail(q), IsLogin(Tail(q)[i], c)
               PROVE  c \notin R \cup {p} /\ NotIn(c, t)
    BY DEF LoginsNew
  <2>1. i + 1 \in DOMAIN q /\ IsLogin(q[i + 1], c) /\ i \in Nat
    BY TailIndex
  <2>2. c # p
    <3>1. c = p => i + 1 < 1
      BY <2>1, TailIndex DEF QueueOK, LoginsFirst
    <3> QED BY <2>1, <3>1
  <2>3. c \notin R /\ NotIn(c, s)
    BY <2>1 DEF QueueOK, LoginsNew
  <2> QED BY <2>2, <2>3 DEF NotIn
<1>5. PoolOf(R \cup {p}, t, l)
  BY DEF QueueOK, PoolOf, NotIn
<1> QED BY <1>3, <1>4, <1>5, TailSingle DEF QueueOK, Settled

LEMMA AppendIndex ==
    ASSUME NEW q \in Seq(Tasks), NEW t \in Tasks
    PROVE  /\ Append(q, t) \in Seq(Tasks)
           /\ \A i \in DOMAIN q : i \in DOMAIN Append(q, t) /\ Append(q, t)[i] = q[i]
                                  /\ i \in Nat /\ i < Len(q) + 1
           /\ Len(q) + 1 \in DOMAIN Append(q, t) /\ Append(q, t)[Len(q) + 1] = t
           /\ Len(q) \in Nat
           /\ \A i \in DOMAIN Append(q, t) : i \in DOMAIN q \/ i = Len(q) + 1
  OBVIOUS

\* The connection is closed: its release is posted behind everything.
LEMMA AppendRelease ==
    ASSUME NEW q \in Seq(Tasks), NEW R, NEW s, NEW c \in Client,
           NEW l \in [Client -> {"idle", "open", "closed", "expired"}],
           l[c] = "open", QueueOK(q, l, R, s),
           NEW t, t = [op |-> "release", client |-> c],
           NEW m, m = [l EXCEPT ![c] = "closed"], s \in Seq(Client)
    PROVE  QueueOK(Append(q, t), m, R, s)
<1>0. t \in Tasks /\ \A p \in Client : (IsRelease(t, p) <=> p = c) /\ ~IsLogin(t, p)
  BY DEF Tasks, IsRelease, IsLogin
<1>1. \A p \in Client : m[p] = IF p = c THEN "closed" ELSE l[p]
  OBVIOUS
<1> DEFINE r == Append(q, t)
<1>2. /\ \A i \in DOMAIN q : i \in DOMAIN r /\ r[i] = q[i] /\ i \in Nat /\ i < Len(q) + 1
      /\ Len(q) + 1 \in DOMAIN r /\ r[Len(q) + 1] = t
      /\ \A i \in DOMAIN r : i \in DOMAIN q \/ i = Len(q) + 1
  BY <1>0, AppendIndex
<1> HIDE DEF r
<1>3. ~Waits(q, c) /\ c \notin R
  BY DEF QueueOK, Settled, Gone
<1>4. \A p \in Client : Waits(r, p) <=> Waits(q, p) \/ p = c
  BY <1>0, <1>2 DEF Waits
<1>5. Single(r)
  <2>1. \A i \in DOMAIN q : ~IsRelease(q[i], c)
    BY <1>3 DEF Waits
  <2> QED BY <1>0, <1>2, <2>1 DEF Single, QueueOK, Settled
<1>6. Settled(r, m, R)
  <2>1. \A p \in R : m[p] \in Gone
    BY <1>3 DEF QueueOK, Settled, Gone
  <2> QED BY <1>1, <1>3, <1>4, <1>5, <2>1 DEF QueueOK, Settled, Gone
<1>7. LoginsFirst(r) /\ LoginsNew(r, R, s)
  BY <1>0, <1>2 DEF QueueOK, LoginsFirst, LoginsNew
<1>8. PoolOf(R, s, m)
  <2>1. \A k \in DOMAIN s : s[k] \in Client
    OBVIOUS
  <2> QED BY <1>1, <2>1 DEF QueueOK, PoolOf
<1> QED BY <1>6, <1>7, <1>8 DEF QueueOK, r

\* A new connection posts its login.
LEMMA AppendLogin ==
    ASSUME NEW q \in Seq(Tasks), NEW R, NEW s, NEW c \in Client,
           NEW l \in [Client -> {"idle", "open", "closed", "expired"}],
           l[c] = "idle", QueueOK(q, l, R, s),
           NEW t, t = [op |-> "login", client |-> c],
           NEW m, m = [l EXCEPT ![c] = "open"], s \in Seq(Client)
    PROVE  QueueOK(Append(q, t), m, R, s)
<1>0. t \in Tasks /\ \A p \in Client : ~IsRelease(t, p) /\ (IsLogin(t, p) <=> p = c)
  BY DEF Tasks, IsRelease, IsLogin
<1>1. \A p \in Client : m[p] = IF p = c THEN "open" ELSE l[p]
  OBVIOUS
<1> DEFINE r == Append(q, t)
<1>2. /\ \A i \in DOMAIN q : i \in DOMAIN r /\ r[i] = q[i] /\ i \in Nat /\ i < Len(q) + 1
      /\ Len(q) + 1 \in DOMAIN r /\ r[Len(q) + 1] = t
      /\ \A i \in DOMAIN r : i \in DOMAIN q \/ i = Len(q) + 1
  BY <1>0, AppendIndex
<1> HIDE DEF r
<1>3. ~Waits(q, c) /\ c \notin R /\ NotIn(c, s)
  BY DEF QueueOK, Settled, Gone, PoolOf, NotIn
<1>4. \A p \in Client : Waits(r, p) <=> Waits(q, p)
  BY <1>0, <1>2 DEF Waits
<1>5. Single(r)
  BY <1>0, <1>2 DEF Single, QueueOK, Settled
<1>6. Settled(r, m, R)
  <2>1. \A p \in R : m[p] \in Gone
    BY <1>3 DEF QueueOK, Settled, Gone
  <2> QED BY <1>1, <1>3, <1>4, <1>5, <2>1 DEF QueueOK, Settled, Gone
<1>7. LoginsFirst(r)
  <2>1. \A i \in DOMAIN q : ~IsRelease(q[i], c)
    BY <1>3 DEF Waits
  <2> QED BY <1>0, <1>2, <2>1 DEF QueueOK, LoginsFirst
<1>8. LoginsNew(r, R, s)
  BY <1>0, <1>2, <1>3 DEF QueueOK, LoginsNew
<1>9. PoolOf(R, s, m)
  <2>1. \A k \in DOMAIN s : s[k] \in Client
    OBVIOUS
  <2> QED BY <1>1, <2>1 DEF QueueOK, PoolOf
<1> QED BY <1>6, <1>7, <1>8, <1>9 DEF QueueOK, r

\* Any other task is posted.
LEMMA AppendOther ==
    ASSUME NEW q \in Seq(Tasks), NEW l, NEW R, NEW s, QueueOK(q, l, R, s),
           NEW t \in Tasks, t.op \notin {"login", "release"}
    PROVE  QueueOK(Append(q, t), l, R, s)
<1>0. \A p \in Client : ~IsRelease(t, p) /\ ~IsLogin(t, p)
  BY DEF IsRelease, IsLogin
<1> DEFINE r == Append(q, t)
<1>1. /\ \A i \in DOMAIN q : i \in DOMAIN r /\ r[i] = q[i] /\ i \in Nat /\ i < Len(q) + 1
      /\ Len(q) + 1 \in DOMAIN r /\ r[Len(q) + 1] = t
      /\ \A i \in DOMAIN r : i \in DOMAIN q \/ i = Len(q) + 1
  BY AppendIndex
<1> HIDE DEF r
<1>2. \A p \in Client : Waits(r, p) <=> Waits(q, p)
  BY <1>0, <1>1 DEF Waits
<1>3. Single(r) /\ LoginsFirst(r) /\ LoginsNew(r, R, s)
  BY <1>0, <1>1 DEF Single, LoginsFirst, LoginsNew, QueueOK, Settled
<1> QED BY <1>2, <1>3 DEF QueueOK, Settled, r

LEMMA DisconnectOK ==
    ASSUME Typed, NEW p \in Client, NEW q \in Seq(Tasks), NEW s \in Seq(Client),
           QueueOK(q, link, released, s), Disconnect(p, q)
    PROVE  QueueOK(tasks', link', released, s)
<1>1. CASE link[p] = "open"
  <2>1. link' = [link EXCEPT ![p] = "closed"]
        /\ tasks' = Append(q, [op |-> "release", client |-> p])
    BY <1>1 DEF Disconnect, PostRelease
  <2>2. link \in [Client -> {"idle", "open", "closed", "expired"}]
    BY DEF Typed
  <2> QED BY <1>1, <2>1, <2>2, AppendRelease
<1>2. CASE link[p] # "open"
  BY <1>2 DEF Disconnect
<1> QED BY <1>1, <1>2

\* The client of the login at the head joins the pool.
LEMMA PoolJoin ==
    ASSUME NEW q, NEW l, NEW R, NEW s \in Seq(Client), NEW p \in Client,
           QueueOK(q, l, R, s), p \notin R, NotIn(p, s), l[p] # "idle",
           \A i \in DOMAIN q : ~IsLogin(q[i], p)
    PROVE  QueueOK(q, l, R, Append(s, p))
<1> DEFINE t == Append(s, p)
<1>1. /\ \A i \in DOMAIN s : i \in DOMAIN t /\ t[i] = s[i]
      /\ Len(s) + 1 \in DOMAIN t /\ t[Len(s) + 1] = p
      /\ \A i \in DOMAIN t : i \in DOMAIN s \/ i = Len(s) + 1
  OBVIOUS
<1> HIDE DEF t
<1>2. \A c \in Client : NotIn(c, t) <=> NotIn(c, s) /\ c # p
  BY <1>1 DEF NotIn
<1>3. LoginsNew(q, R, t)
  BY <1>2 DEF QueueOK, LoginsNew
<1>4. PoolOf(R, t, l)
  BY <1>1 DEF QueueOK, PoolOf, NotIn
<1> QED BY <1>3, <1>4 DEF QueueOK, t

\* swap with the last and pop_back takes the client out, and nobody else.
LEMMA PoolLeave ==
    ASSUME Typed, NEW p \in Client, RemoveFromAutosend(p),
           \A i, j \in DOMAIN autosend : autosend[i] = autosend[j] => i = j
    PROVE  /\ autosend' \in Seq(Client) /\ NotIn(p, autosend')
           /\ \A k \in DOMAIN autosend' : \E m \in DOMAIN autosend : autosend'[k] = autosend[m]
           /\ \A i, j \in DOMAIN autosend' : autosend'[i] = autosend'[j] => i = j
<1> DEFINE n == Len(autosend)
           S == {i \in 1..n : autosend[i] = p}
           f == CHOOSE k \in S : \A j \in S : k <= j
<1>1. autosend \in Seq(Client) /\ n \in Nat /\ DOMAIN autosend = 1..n
  BY DEF Typed
<1>2. autosend' = IF S = {} THEN autosend
                  ELSE SubSeq([autosend EXCEPT ![f] = autosend[n]], 1, n - 1)
  BY Zenon DEF RemoveFromAutosend
<1>3. ASSUME S # {} PROVE f \in 1..n /\ autosend[f] = p
  <2>1. PICK a \in 1..n : autosend[a] = p
    BY <1>3
  <2>2. S = {a}
    BY <1>1, <2>1
  <2>3. a \in S /\ \A j \in S : a <= j
    BY <2>1, <2>2
  <2>4. f = a
    BY <2>2, <2>3
  <2> QED BY <2>1, <2>4
<1>4. autosend' \in Seq(Client)
  BY PoolRemove
<1>5. CASE S = {}
  BY <1>1, <1>2, <1>5 DEF NotIn
<1> HIDE DEF f
<1>6. CASE S # {}
  <2> DEFINE q == [autosend EXCEPT ![f] = autosend[n]]
  <2>1. /\ n # 0 /\ autosend[n] \in Client /\ f \in 1..n /\ autosend[f] = p
    BY <1>1, <1>3, <1>6
  <2>2. q \in Seq(Client) /\ Len(q) = n
    BY <1>1, <2>1, ExceptSeq
  <2>3. \A k \in 1..n : q[k] = IF k = f THEN autosend[n] ELSE autosend[k]
    BY <1>1, <2>1
  <2> HIDE DEF q
  <2>4. /\ DOMAIN autosend' = 1..(n - 1)
        /\ \A k \in 1..(n - 1) : autosend'[k] = q[k]
    BY <1>1, <1>2, <1>6, <2>1, <2>2 DEF q
  <2>5. \A k \in 1..(n - 1) : k \in 1..n /\ k # n
    <3>1. \A x \in Nat : \A k \in 1..(x - 1) : k \in 1..x /\ k # x
      OBVIOUS
    <3> QED BY <1>1, <3>1
  <2>6. \A k \in 1..(n - 1) : autosend'[k] = IF k = f THEN autosend[n] ELSE autosend[k]
    BY <2>3, <2>4, <2>5
  <2>7. n \in 1..n
    BY <1>1, <2>1
  <2>8. \A k \in DOMAIN autosend' : \E m \in DOMAIN autosend : autosend'[k] = autosend[m]
    BY <1>1, <2>4, <2>5, <2>6, <2>7
  <2>9. NotIn(p, autosend')
    BY <1>1, <2>1, <2>4, <2>5, <2>6, <2>7 DEF NotIn
  <2>10. \A i, j \in DOMAIN autosend' : autosend'[i] = autosend'[j] => i = j
    BY <1>1, <2>1, <2>4, <2>5, <2>6, <2>7
  <2> QED BY <1>4, <2>8, <2>9, <2>10
<1> QED BY <1>4, <1>5, <1>6

\* The head of the queue is not a release: the rest is sound as well.
LEMMA HeadOther ==
    ASSUME Typed, PostsInv, tasks # <<>>, Head(tasks).op # "release"
    PROVE  /\ Tail(tasks) \in Seq(Tasks)
           /\ QueueOK(Tail(tasks), link, released, autosend)
<1>1. tasks \in Seq(Tasks)
  BY DEF Typed
<1> QED BY <1>1, TailIndex, TakeOther DEF PostsInv

\* The client that logs in may join the pool.
LEMMA HeadLogin ==
    ASSUME SessionInv, PostsInv, HeadIs("login")
    PROVE  /\ Head(tasks).client \in Client
           /\ QueueOK(Tail(tasks), link, released, Append(autosend, Head(tasks).client))
<1> DEFINE p == Head(tasks).client
<1>1. /\ Typed /\ tasks \in Seq(Tasks) /\ tasks # <<>> /\ Fresh(tasks)
      /\ Head(tasks).op = "login" /\ autosend \in Seq(Client)
  BY DEF SessionInv, Typed, HeadIs
<1>2. /\ p \in Client /\ Clear(p, Tail(tasks)) /\ link[p] # "idle"
  BY <1>1, HeadTaken DEF Tasks, Opens
<1>3. p \notin released /\ NotIn(p, autosend)
  <2>1. 1 \in DOMAIN tasks /\ IsLogin(tasks[1], p)
    BY <1>1, TailIndex DEF IsLogin
  <2> QED BY <1>2, <2>1 DEF PostsInv, QueueOK, LoginsNew
<1>4. \A i \in DOMAIN Tail(tasks) : ~IsLogin(Tail(tasks)[i], p)
  BY <1>2 DEF Clear, Opens, IsLogin
<1>5. QueueOK(Tail(tasks), link, released, autosend)
  BY <1>1, HeadOther
<1> QED BY <1>1, <1>2, <1>3, <1>4, <1>5, PoolJoin

LEMMA PostsTask ==
    ASSUME SessionInv, PostsInv, TaskRun PROVE PostsInv'
<1> DEFINE p == Head(tasks).client
<1>0. /\ Typed /\ tasks \in Seq(Tasks) /\ tasks # <<>> /\ autosend \in Seq(Client)
      /\ Tail(tasks) \in Seq(Tasks) /\ p \in Client /\ released \in SUBSET Client
  <2>1. Typed /\ tasks \in Seq(Tasks) /\ tasks # <<>>
    BY DEF SessionInv, Typed, TaskRun, HeadIs, LoginNew, LoginRefused, LoginReplaces,
           ConnectRun, ReleaseRun, LogoutRun
  <2> QED BY <2>1, TailIndex DEF Tasks, Typed
<1> HIDE DEF p
<1>1. Append(autosend, p) \in Seq(Client)
  BY <1>0
<1>2. CASE LoginNew
  <2>1. QueueOK(Tail(tasks), link, released, Append(autosend, p))
        /\ QueueOK(Tail(tasks), link, released, autosend)
    BY <1>0, <1>2, HeadLogin, HeadOther DEF LoginNew, HeadIs, p
  <2>2. /\ released' = released
        /\ \/ /\ Disconnect(p, Tail(tasks)) \/ (link' = link /\ tasks' = Tail(tasks))
              /\ autosend' = autosend
           \/ link' = link /\ tasks' = Tail(tasks) /\ autosend' = Append(autosend, p)
    BY <1>2 DEF LoginNew, AddToAutosend, poolVars, p
  <2> QED BY <1>0, <2>1, <2>2, DisconnectOK DEF PostsInv
<1>3. CASE LoginRefused
  <2>1. QueueOK(Tail(tasks), link, released, autosend)
    BY <1>0, <1>3, HeadOther DEF LoginRefused, HeadIs
  <2>2. /\ released' = released /\ autosend' = autosend /\ Disconnect(p, Tail(tasks))
    BY <1>3 DEF LoginRefused, poolVars, p
  <2> QED BY <1>0, <2>1, <2>2, DisconnectOK DEF PostsInv
<1>4. CASE LoginReplaces
  <2>1. QueueOK(Tail(tasks), link, released, Append(autosend, p))
    BY <1>0, <1>4, HeadLogin DEF LoginReplaces, p
  <2>2. released' = released /\ autosend' = Append(autosend, p)
    BY <1>4 DEF LoginReplaces, AddToAutosend, p
  <2>3. PICK o \in Online : IF owner[o] = None THEN UNCHANGED link /\ tasks' = Tail(tasks)
                                              ELSE Disconnect(owner[o], Tail(tasks))
    BY <1>4 DEF LoginReplaces
  <2>4. owner[o] # None => owner[o] \in Client
    BY <1>0 DEF Online, Typed
  <2> QED BY <1>0, <1>1, <2>1, <2>2, <2>3, <2>4, DisconnectOK DEF PostsInv
<1>5. CASE ConnectRun
  <2>1. QueueOK(Tail(tasks), link, released, autosend)
    BY <1>0, <1>5, HeadOther DEF ConnectRun, HeadIs
  <2>2. /\ released' = released /\ autosend' = autosend
        /\ Disconnect(p, Tail(tasks)) \/ (link' = link /\ tasks' = Tail(tasks))
    BY <1>5 DEF ConnectRun, poolVars, p
  <2> QED BY <1>0, <2>1, <2>2, DisconnectOK DEF PostsInv
<1>6. CASE ReleaseRun
  <2>1. /\ IsRelease(Head(tasks), p) /\ RemoveFromAutosend(p) /\ tasks' = Tail(tasks)
        /\ released' = released \cup {p} /\ link' = link
    BY <1>6 DEF ReleaseRun, HeadIs, IsRelease, p
  <2>2. /\ autosend' \in Seq(Client) /\ NotIn(p, autosend')
        /\ \A k \in DOMAIN autosend' : \E m \in DOMAIN autosend : autosend'[k] = autosend[m]
        /\ \A i, j \in DOMAIN autosend' : autosend'[i] = autosend'[j] => i = j
    BY <1>0, <2>1, PoolLeave DEF PostsInv, QueueOK, PoolOf
  <2>3. QueueOK(Tail(tasks), link, released \cup {p}, autosend')
    BY <1>0, <2>1, <2>2, TakeRelease DEF PostsInv
  <2> QED BY <2>1, <2>3 DEF PostsInv
<1>7. CASE LogoutRun
  <2>1. QueueOK(Tail(tasks), link, released, autosend)
    BY <1>0, <1>7, HeadOther DEF LogoutRun, HeadIs
  <2>2. /\ released' = released /\ autosend' = autosend
        /\ Disconnect(p, Tail(tasks)) \/ (link' = link /\ tasks' = Tail(tasks))
    BY <1>7 DEF LogoutRun, Logout, poolVars, p
  <2> QED BY <1>0, <2>1, <2>2, DisconnectOK DEF PostsInv
<1> QED BY <1>2, <1>3, <1>4, <1>5, <1>6, <1>7 DEF TaskRun

LEMMA PostsNetwork ==
    ASSUME SessionInv, PostsInv, NEW p \in Client,
           FirstMessage(p) \/ ConnectionCloses(p) \/ ConnectionExpires(p) \/ LogoutPacket(p)
    PROVE  PostsInv'
<1>0. /\ Typed /\ tasks \in Seq(Tasks) /\ autosend \in Seq(Client)
      /\ link \in [Client -> {"idle", "open", "closed", "expired"}]
      /\ QueueOK(tasks, link, released, autosend)
      /\ released' = released /\ autosend' = autosend
  BY DEF SessionInv, Typed, PostsInv, poolVars, FirstMessage, ConnectionCloses,
         ConnectionExpires, LogoutPacket
<1>1. CASE FirstMessage(p)
  BY <1>0, <1>1, AppendLogin DEF FirstMessage, PostsInv
<1>2. CASE ConnectionCloses(p)
  BY <1>0, <1>2, DisconnectOK DEF ConnectionCloses, PostsInv
<1>3. CASE ConnectionExpires(p)
  <2>1. \A c \in Client : /\ link'[c] \in Gone <=> link[c] \in Gone
                          /\ link'[c] = "idle" <=> link[c] = "idle"
    BY <1>0, <1>3 DEF ConnectionExpires, Gone
  <2>2. released \subseteq Client /\ \A k \in DOMAIN autosend : autosend[k] \in Client
    BY <1>0 DEF Typed
  <2>3. tasks' = tasks
    BY <1>3 DEF ConnectionExpires
  <2>4. Settled(tasks, link', released)
    BY <1>0, <2>1, <2>2 DEF QueueOK, Settled
  <2>5. PoolOf(released, autosend, link')
    BY <1>0, <2>1, <2>2 DEF QueueOK, PoolOf
  <2> QED BY <1>0, <2>3, <2>4, <2>5 DEF QueueOK, PostsInv
<1>4. CASE LogoutPacket(p)
  <2>1. [op |-> "logout", client |-> p] \in Tasks
    BY DEF Tasks
  <2> QED BY <1>0, <1>4, <2>1, AppendOther DEF LogoutPacket, PostsInv
<1> QED BY <1>1, <1>2, <1>3, <1>4

LEMMA PostsOthers ==
    ASSUME SessionInv, PostsInv,
           \/ ConnectDue \/ Cleanup \/ SendAll \/ Mood \/ UNCHANGED svars
           \/ \E o \in Client : Kick(o) \/ IdleThink(o) \/ Death(o)
    PROVE  PostsInv'
<1>0. /\ Typed /\ tasks \in Seq(Tasks) /\ autosend \in Seq(Client)
      /\ QueueOK(tasks, link, released, autosend)
  BY DEF SessionInv, Typed, PostsInv
<1>1. CASE ConnectDue
  <2>1. PICK e \in events :
           tasks' = Append(tasks, [op |-> "connect", client |-> e[1], target |-> e[2]])
    BY <1>1 DEF ConnectDue
  <2>2. [op |-> "connect", client |-> e[1], target |-> e[2]] \in Tasks
    BY <1>0 DEF Typed, Tasks
  <2>3. UNCHANGED <<link, released, autosend>>
    BY <1>1 DEF ConnectDue, poolVars
  <2> QED BY <1>0, <2>1, <2>2, <2>3, AppendOther DEF PostsInv
<1>2. CASE Cleanup \/ SendAll \/ Mood \/ UNCHANGED svars
  <2>1. UNCHANGED <<tasks, link, released, autosend>>
    BY <1>2 DEF Cleanup, SendAll, Mood, svars, linkVars, poolVars
  <2> QED BY <1>0, <2>1 DEF PostsInv
<1>3. ASSUME NEW o \in Client, Kick(o) \/ IdleThink(o) \/ Death(o) PROVE PostsInv'
  <2>1. /\ UNCHANGED <<released, autosend>>
        /\ \/ UNCHANGED <<link, tasks>>
           \/ owner[o] # None /\ Disconnect(owner[o], tasks)
    BY <1>3 DEF Kick, IdleThink, Death, Logout, poolVars, linkVars
  <2>2. owner[o] # None => owner[o] \in Client
    BY <1>0 DEF Typed
  <2> QED BY <1>0, <2>1, <2>2, DisconnectOK DEF PostsInv
<1> QED BY <1>1, <1>2, <1>3

LEMMA PostsSound == SessionSpec => [](SessionInv /\ PostsInv)
<1>1. SessionInv /\ PostsInv /\ [SessionNext]_svars => PostsInv'
  BY PostsTask, PostsNetwork, PostsOthers DEF SessionNext
<1> QED BY <1>1, InitPosts, SessionSound, PTL DEF SessionSpec

\* The pool holds no protocol that was released and none twice, so sendAll
\* never writes to a client that is gone: release() is behind login() in the
\* dispatcher's queue and is the last to take the client out.
THEOREM PoolAlwaysLive == SessionSpec => []PoolIsLive
<1>1. PostsInv => PoolIsLive
  BY DEF PostsInv, QueueOK, PoolOf, PoolIsLive
<1> QED BY <1>1, PostsSound, PTL

\* Connection::close posts the release of its protocol exactly once, and it
\* stays posted until it runs, whatever the client was doing.
THEOREM AlwaysReleasedOnce == SessionSpec => []ReleasedOnce
<1>1. SessionInv /\ PostsInv => ReleasedOnce
  <2> SUFFICES ASSUME SessionInv, PostsInv, NEW p \in Client
               PROVE  Cardinality({i \in DOMAIN tasks :
                                     tasks[i] = [op |-> "release", client |-> p]})
                      = IF link[p] \in Gone /\ p \notin released THEN 1 ELSE 0
    BY DEF ReleasedOnce, Gone
  <2> DEFINE S == {i \in DOMAIN tasks : tasks[i] = [op |-> "release", client |-> p]}
  <2>1. \A i \in DOMAIN tasks : tasks[i] \in Tasks
    BY DEF SessionInv, Typed
  <2>2. \A t \in Tasks : t = [op |-> "release", client |-> p] <=> IsRelease(t, p)
    BY DEF Tasks, IsRelease
  <2>3. S = {i \in DOMAIN tasks : IsRelease(tasks[i], p)}
    BY <2>1, <2>2
  <2> HIDE DEF S
  <2>4. CASE Waits(tasks, p)
    <3>1. PICK i \in DOMAIN tasks : IsRelease(tasks[i], p)
      BY <2>4 DEF Waits
    <3>2. S = {i}
      BY <2>3, <3>1 DEF PostsInv, QueueOK, Settled, Single
    <3>3. Cardinality(S) = 1
      BY <3>2, FS_Singleton
    <3> QED BY <2>4, <3>3 DEF PostsInv, QueueOK, Settled, S
  <2>5. CASE ~Waits(tasks, p)
    <3>1. S = {}
      BY <2>3, <2>5 DEF Waits
    <3>2. Cardinality(S) = 0
      BY <3>1, FS_EmptySet
    <3> QED BY <2>5, <3>2 DEF PostsInv, QueueOK, Settled, S
  <2> QED BY <2>4, <2>5
<1> QED BY <1>1, PostsSound, PTL
=============================================================================
