----------------------------- MODULE Creatures -----------------------------
(***************************************************************************)
(* Creatures in the world: how they are counted, checked, summoned, chased *)
(* and replaced (creature.cpp, monster.cpp, spawn.cpp, and placeCreature,  *)
(* removeCreature and checkCreatures of game.cpp).                         *)
(*                                                                         *)
(* A creature is held by the world, by the list of summons of its master,  *)
(* by the target lists of monsters, by its entry in a check vector, by its *)
(* spawn and by a release that is not carried out yet; m_master and        *)
(* m_attackedCreature are plain pointers.  What becomes of a creature is   *)
(* told to whoever sees it, one after the other.                           *)
(*                                                                         *)
(* The operators on a state S are the methods, the actions the handlers.   *)
(* Abstracted: positions, except who sees whom; conditions, invisibility,  *)
(* protection zones and scripts that refuse a death; m_followCreature,     *)
(* which is set and cleared like m_attackedCreature; friendList, which     *)
(* onCreatureFound never fills.  Summons are not teleported to their       *)
(* master (teleportSummons, teleportPlayerSummons).  The ten check vectors *)
(* are drawn at random; no two creatures share one.  A placement that      *)
(* fails changes nothing and is left out.                                  *)
(***************************************************************************)
EXTENDS Integers, FiniteSets, Sequences

CONSTANTS
    Player, Monster,  \* addresses of Player and of Monster objects
    Place,            \* who is at the same place sees each other
    Lair,             \* where the spawn is
    SpawnSize,        \* how many monsters the spawn is for
    Summons,          \* bound: how many summons a creature has
    None

ASSUME CreaturesAssumption ==
    /\ IsFiniteSet(Player \cup Monster) /\ Player \cap Monster = {}
    /\ None \notin Player \cup Monster \cup Place
    /\ Lair \in Place /\ SpawnSize \in Nat /\ Summons \in Nat

VARIABLES
    being,    \* the objects, a function for each attribute, and the spawn's event
    ignored,  \* players whose group has PlayerFlag_IgnoredByMonsters
    demoted   \* history: players that lost that flag where they are

creaturesVars == <<being, ignored, demoted>>

Creature == Player \cup Monster

Nobody ==
    [exists |-> [c \in Creature |-> FALSE],
     refs |-> [c \in Creature |-> 0],
     place |-> [c \in Creature |-> None],      \* None: not in the world any more
     alive |-> [c \in Creature |-> FALSE],
     master |-> [c \in Creature |-> None],
     attacked |-> [c \in Creature |-> None],
     summons |-> [c \in Creature |-> {}],
     targets |-> [c \in Creature |-> {}],
     idle |-> [c \in Creature |-> FALSE],
     inRange |-> [c \in Creature |-> FALSE],   \* isMasterInRange
     home |-> [c \in Creature |-> FALSE],      \* Monster::spawn is set
     spawned |-> [c \in Creature |-> FALSE],   \* it is in Spawn::m_spawnedMap
     checked |-> [c \in Creature |-> FALSE],
     listed |-> [c \in Creature |-> FALSE],    \* m_checkVector >= 0
     releases |-> [c \in Creature |-> 0],      \* how often it is in releaseThings
     event |-> FALSE]                          \* m_checkSpawnEvent # 0

-----------------------------------------------------------------------------
(* What creatures see of each other.                                       *)

InWorld(S, c) == S.place[c] # None

Sees(S, c, d) == InWorld(S, c) /\ S.place[c] = S.place[d]

Near(S, c) == {d \in Creature \ {c} : Sees(S, c, d)}

\* isOpponent.
Opponent(S, m, c) ==
    \/ S.master[m] \in Player /\ c # S.master[m]
    \/ c \in Player \ ignored
    \/ S.master[c] \in Player

\* The orders in which the monsters in the world may be told, and m if it
\* comes: getSpectators has none.
Orders(m) ==
    LET M == {d \in Monster : InWorld(being, d) \/ d = m}
    IN  {order \in [1..Cardinality(M) -> M] :
            \A i, j \in DOMAIN order : order[i] = order[j] => i = j}

-----------------------------------------------------------------------------
(* References.                                                             *)

\* addRef and unRef of each of C; what nobody holds goes in Reap.
AddRef(S, C) == [S EXCEPT !.refs = [c \in Creature |-> @[c] + (IF c \in C THEN 1 ELSE 0)]]
UnRef(S, C) == [S EXCEPT !.refs = [c \in Creature |-> @[c] - (IF c \in C THEN 1 ELSE 0)]]

FreeThing(S, c) == [S EXCEPT !.releases[c] = @ + 1]

\* The destructors of C, which nobody refers to: their summons lose the master,
\* targets and summons a reference.
Delete(S, C) ==
    LET Freed(c) == Cardinality({d \in C : c \in S.targets[d]})
                    + Cardinality({d \in C : c \in S.summons[d]})
        Left(f) == [c \in Creature |-> f[c] /\ c \notin C]
        Emptied(f) == [c \in Creature |-> IF c \in C THEN {} ELSE f[c]]
    IN  [S EXCEPT
            !.exists = Left(@), !.alive = Left(@), !.idle = Left(@), !.inRange = Left(@),
            !.home = Left(@), !.checked = Left(@),
            !.refs = [c \in Creature |-> @[c] - Freed(c)],
            !.master = [c \in Creature |-> IF c \in C \/ @[c] \in C THEN None ELSE @[c]],
            !.attacked = [c \in Creature |->
                IF c \in C \/ \E d \in C : c \in S.summons[d] THEN None ELSE @[c]],
            !.summons = Emptied(@), !.targets = Emptied(@)]

Lost(S) == {c \in Creature : S.exists[c] /\ S.refs[c] = 0}

DeleteLost(S) == Delete(S, Lost(S))

\* They are deleted until everything left is held by something.
Reap(S) ==
    LET left[n \in 0..Cardinality(Creature)] ==
            IF n = 0 THEN S ELSE DeleteLost(left[n - 1])
    IN  left[Cardinality(Creature)]

\* cleanup.
Cleanup(S) ==
    [S EXCEPT !.refs = [c \in Creature |-> @[c] - S.releases[c]],
              !.releases = [c \in Creature |-> 0]]

-----------------------------------------------------------------------------
(* Who is awake.                                                           *)

AddCheck(S, c) ==
    IF ~InWorld(S, c) THEN S
    ELSE [(IF S.listed[c] THEN S ELSE AddRef(S, {c})) EXCEPT
            !.checked[c] = TRUE, !.listed[c] = TRUE]

RemoveCheck(S, c) == [S EXCEPT !.checked[c] = @ /\ ~S.listed[c]]

\* clearTargetList.
ClearTargets(S, m) == [UnRef(S, S.targets[m]) EXCEPT !.targets[m] = {}]

SetIdle(S, m, idle) ==
    IF ~InWorld(S, m) \/ ~S.alive[m] THEN S
    ELSE IF idle THEN RemoveCheck([ClearTargets(S, m) EXCEPT !.idle[m] = TRUE], m)
    ELSE AddCheck([S EXCEPT !.idle[m] = FALSE], m)

\* updateIdleStatus.
UpdateIdle(S, m) ==
    LET l == S.master[m]
    IN  SetIdle(S, m, IF l # None THEN ~S.inRange[m] \/ (l \in Monster /\ S.idle[l])
                      ELSE S.targets[m] = {})

-----------------------------------------------------------------------------
(* Target lists.                                                           *)

\* onCreatureFound.
Found(S, m, c) ==
    UpdateIdle(IF Opponent(S, m, c) /\ c \notin S.targets[m]
               THEN [AddRef(S, {c}) EXCEPT !.targets[m] = @ \cup {c}] ELSE S, m)

\* updateTargetList: the dead and who is out of sight go, then all who are
\* near are found.
UpdateTargets(S, m) ==
    LET lost == {c \in S.targets[m] : ~S.alive[c] \/ ~Sees(S, m, c)}
        T == [UnRef(S, lost) EXCEPT !.targets[m] = @ \ lost]
        found == {c \in Near(T, m) : Opponent(T, m, c)} \ T.targets[m]
    IN  IF Near(T, m) = {} THEN T
        ELSE UpdateIdle([AddRef(T, found) EXCEPT !.targets[m] = @ \cup found], m)

\* m has moved or been placed: its master may be in sight or not.
LookForMaster(S, m) ==
    IF S.master[m] = None THEN S ELSE [S EXCEPT !.inRange[m] = Sees(S, m, S.master[m])]

\* onCreatureEnter.
Enter(S, m, c) ==
    Found(IF S.master[m] = c
          THEN UpdateIdle([S EXCEPT !.inRange[m] = TRUE], m) ELSE S, m, c)

\* A mutated form: asleep although another target is left.
MUTLeave(S, m, c) ==
    LET T == IF S.master[m] = c THEN UpdateIdle([S EXCEPT !.inRange[m] = FALSE], m) ELSE S
        U == [UnRef(T, {c}) EXCEPT !.targets[m] = @ \ {c}]
    IN  IF ~Opponent(T, m, c) \/ c \notin T.targets[m] THEN T ELSE SetIdle(U, m, TRUE)

\* onCreatureLeave.
Leave(S, m, c) ==
    LET T == IF S.master[m] = c THEN UpdateIdle([S EXCEPT !.inRange[m] = FALSE], m) ELSE S
        U == [UnRef(T, {c}) EXCEPT !.targets[m] = @ \ {c}]
    IN  IF ~Opponent(T, m, c) \/ c \notin T.targets[m] THEN T
        ELSE IF U.targets[m] = {} THEN UpdateIdle(U, m) ELSE U

\* A mutated form: the summons obey without looking.
MUTSetAttacked(S, c, t) ==
    LET sees == t = None \/ Sees(S, c, t)
    IN  [S EXCEPT !.attacked = [d \in Creature |->
            IF d = c THEN IF sees THEN t ELSE None
            ELSE IF d \in S.summons[c] /\ sees THEN t ELSE @[d]]]

\* setAttackedCreature; the summons get the same order.
SetAttacked(S, c, t) ==
    LET Ordered(d) == t = None \/ Sees(S, d, t)
    IN  [S EXCEPT !.attacked = [d \in Creature |->
            IF d = c \/ (d \in S.summons[c] /\ Ordered(c)) THEN IF Ordered(d) THEN t ELSE None
            ELSE @[d]]]

\* selectTarget.
SelectTarget(S, m, t) ==
    IF t \in S.targets[m] /\ Sees(S, m, t) THEN SetAttacked(S, m, t) ELSE S

\* Creature::onCreatureMove and onCreatureDisappear: all of C forget c.
ForgetTarget(S, C, c) ==
    LET those == {d \in C : S.attacked[d] = c}
    IN  [S EXCEPT !.attacked = [d \in Creature |->
            IF \E l \in those : d = l \/ d \in S.summons[l] THEN None ELSE @[d]]]

-----------------------------------------------------------------------------
(* Summons.                                                                *)

AddSummon(S, l, m) ==
    [AddRef(S, {m}) EXCEPT !.master[m] = l, !.summons[l] = @ \cup {m}]

RemoveSummon(S, l, m) ==
    IF m \notin S.summons[l] THEN S
    ELSE [UnRef(S, {m}) EXCEPT !.master[m] = None, !.summons[l] = @ \ {m}]

\* The master of m, if there is one, loses it.
Release(S, m) == IF S.master[m] = None THEN S ELSE RemoveSummon(S, S.master[m], m)

\* A mutated form: monsters do not wake up, as if changeHealth were not virtual.
MUTChangeHealth(S, C, lives) ==
    [S EXCEPT !.alive = [d \in Creature |-> @[d] /\ (d \in C => lives)]]

\* changeHealth of each of C, which leaves them alive or not: a monster that
\* lives and is in the world wakes up first.
ChangeHealth(S, C, lives) ==
    LET woken == {m \in C \cap Monster : InWorld(S, m) /\ S.alive[m]}
    IN  [AddRef(S, {m \in woken : ~S.listed[m]}) EXCEPT
            !.idle = [d \in Creature |-> @[d] /\ d \notin woken],
            !.checked = [d \in Creature |-> @[d] \/ d \in woken],
            !.listed = [d \in Creature |-> @[d] \/ d \in woken],
            !.alive = [d \in Creature |-> @[d] /\ (d \in C => lives)]]

\* A mutated form: the list goes without its references.
MUTDestroySummons(S, c) ==
    LET mine(d) == d \in S.summons[c]
        T == ChangeHealth(S, S.summons[c], FALSE)
    IN  [T EXCEPT
            !.attacked = [d \in Creature |-> IF mine(d) THEN None ELSE @[d]],
            !.master = [d \in Creature |-> IF mine(d) THEN None ELSE @[d]],
            !.summons[c] = {}]

\* destroySummons: they die, and are on their own.
DestroySummons(S, c) ==
    LET mine(d) == d \in S.summons[c]
        T == ChangeHealth(S, S.summons[c], FALSE)
    IN  [UnRef(T, S.summons[c]) EXCEPT
            !.attacked = [d \in Creature |-> IF mine(d) THEN None ELSE @[d]],
            !.master = [d \in Creature |-> IF mine(d) THEN None ELSE @[d]],
            !.summons[c] = {}]

-----------------------------------------------------------------------------
(* Into the world and out of it.                                           *)

\* onCreatureAppear: c comes into the world.
Appear(S, m, c) ==
    IF m # c THEN Enter(S, m, c) ELSE UpdateIdle(UpdateTargets(LookForMaster(S, c), c), c)

\* A mutated form: the spawn is told only of the living, as setIdle is.
MUTDisappear(S, m, c) ==
    IF m # c THEN Leave(S, m, c)
    ELSE SetIdle(IF S.home[c] /\ S.alive[c] THEN [S EXCEPT !.event = TRUE] ELSE S, c, TRUE)

\* onCreatureDisappear: c goes out of the world.
Disappear(S, m, c) ==
    IF m # c THEN Leave(S, m, c)
    ELSE SetIdle(IF S.home[c] THEN [S EXCEPT !.event = TRUE] ELSE S, c, TRUE)

\* m may choose c, which has moved, for a target if it is one of chasers.
Chase(S, m, c, chasers) ==
    IF m \in chasers /\ S.master[m] = None /\ Opponent(S, m, c)
    THEN SelectTarget(S, m, c) ELSE S

\* onCreatureMove: c has come from the place old.
Moved(S, m, c, old, chasers) ==
    LET T == IF m = c THEN UpdateTargets(LookForMaster(S, c), c)
             ELSE IF S.place[m] = old THEN Leave(S, m, c) ELSE Enter(S, m, c)
    IN  Chase(UpdateIdle(T, m), m, c, chasers)

\* onCreatureConvinced.
Convinced(S, m) == UpdateIdle(UpdateTargets(S, m), m)

\* What m does when it hears of e.
Hears(S, m, e) ==
    CASE e.op = "appear" -> Appear(S, m, e.who)
      [] e.op = "disappear" -> Disappear(S, m, e.who)
      [] e.op = "move" -> Moved(S, m, e.who, e.from, e.chasers)
      [] e.op = "convince" -> Convinced(S, m)

\* The monsters of M hear of e in turn.
Tell(S, M, order, e) ==
    LET told[i \in 0..Len(order)] ==
            IF i = 0 THEN S
            ELSE IF order[i] \in M THEN Hears(told[i - 1], order[i], e)
            ELSE told[i - 1]
    IN  told[Len(order)]

\* A new object.
Create(S, c) ==
    [S EXCEPT !.exists[c] = TRUE, !.alive[c] = TRUE, !.idle[c] = c \in Monster]

\* placeCreature of c at q.
PlaceCreature(S, c, q, order) ==
    LET P == [AddRef(S, {c}) EXCEPT !.place[c] = q]
    IN  AddCheck(Tell(P, Near(P, c) \cup {c}, order, [op |-> "appear", who |-> c]), c)

\* A master that is in the world loses its summon c.
Parted(S, c) ==
    IF S.master[c] # None /\ InWorld(S, S.master[c])
    THEN RemoveSummon(S, S.master[c], c) ELSE S

\* c is off its tile; the world's reference is released later.
TakeOut(S, c) == RemoveCheck(FreeThing([S EXCEPT !.place[c] = None], c), c)

\* removeCreature of c but for its summons.
RemoveOne(S, c, order) ==
    IF ~InWorld(S, c) THEN S
    ELSE LET T == Tell(ForgetTarget(S, Near(S, c), c), Near(S, c) \cup {c}, order,
                       [op |-> "disappear", who |-> c])
         IN  TakeOut(Parted(T, c), c)

\* removeCreature of each of C.
RemoveAll(S, C, order) ==
    LET left[i \in 0..Len(order)] ==
            IF i = 0 THEN S
            ELSE IF order[i] \in C THEN RemoveOne(left[i - 1], order[i], order)
            ELSE left[i - 1]
    IN  left[Len(order)]

\* removeCreature: the summons go with their master and stay in its list.
RemoveCreature(S, c, order) ==
    LET T == RemoveOne(S, c, order)
    IN  IF InWorld(S, c) THEN RemoveAll(T, T.summons[c], order) ELSE S

-----------------------------------------------------------------------------
(* What a check of a creature does.                                        *)

\* onDeath; the spoils are not modelled.
Die(S, c, order) ==
    LET T == Release(S, c)
        U == [ClearTargets(DestroySummons(T, c), c) EXCEPT !.attacked[c] = None]
    IN  RemoveCreature(IF c \in Monster THEN U ELSE T, c, order)

\* onThink of a monster; t is the target searchTarget finds, if it looks for one.
Think(S, m, t, order) ==
    LET T == UpdateIdle(S, m)
        l == T.master[m]
    IN  IF S.home[m] /\ S.place[m] # Lair THEN RemoveCreature(S, m, order)
        ELSE IF T.idle[m] THEN T
        ELSE IF l = None THEN SelectTarget(T, m, t)
        ELSE IF T.attacked[m] = None THEN SelectTarget(T, m, T.attacked[l])
        ELSE T

-----------------------------------------------------------------------------
(* The handlers.                                                           *)

CreaturesInit ==
    /\ \E m \in Monster :   \* the spawn has been started: startup
        being = [Nobody EXCEPT
                    !.exists[m] = TRUE, !.alive[m] = TRUE, !.idle[m] = TRUE, !.refs[m] = 2,
                    !.place[m] = Lair, !.home[m] = TRUE, !.spawned[m] = TRUE]
    /\ ignored \in SUBSET Player
    /\ demoted = {}

Becomes(S) == being' = Reap(S)

\* A player comes into the world.
Login(p, q) ==
    /\ ~being.exists[p]
    /\ \E order \in Orders(None) : Becomes(PlaceCreature(Create(being, p), p, q, order))

\* Logout, kick, or a script that removes a creature.
RemoveFromWorld(c) ==
    /\ InWorld(being, c)
    /\ \E order \in Orders(None) : Becomes(RemoveCreature(being, c, order))

\* c is hurt or healed, and may have no health left.
Hurt(c) ==
    /\ InWorld(being, c)
    /\ being.alive[c]
    /\ \E lives \in BOOLEAN : Becomes(ChangeHealth(being, {c}, lives))

\* setGroup: p gains or loses the flag, and no monster is told.
ChangeGroup(p) ==
    /\ InWorld(being, p)
    /\ IF p \in ignored
       THEN ignored' = ignored \ {p} /\ demoted' = demoted \cup {p}
       ELSE ignored' = ignored \cup {p} /\ UNCHANGED demoted
    /\ UNCHANGED being

\* A step or a teleport: moveCreature, onCreatureMove of who sees c leave or
\* come.  Summons of c may be too far now and go; monsters that follow nobody
\* take c for a target.
Move(c, q) ==
    LET old == being.place[c]
        P == [being EXCEPT !.place[c] = q]
        lost == {d \in Creature : P.attacked[d] = c /\ ~Sees(P, d, c)}
        T == ForgetTarget(P, lost, c)
        mine == T.attacked[c]
        V == IF mine # None /\ ~Sees(T, c, mine) THEN SetAttacked(T, c, None) ELSE T
    IN  /\ InWorld(being, c)
        /\ q # old
        /\ \E order \in Orders(None), far \in SUBSET {m \in V.summons[c] : ~Sees(V, m, c)},
              chasers \in SUBSET {m \in Monster : Sees(P, m, c) /\ m # c} :
            LET U == RemoveAll(V, far, order)
                M == {m \in Monster : U.place[m] \in {old, q}}
            IN  Becomes(Tell(U, M, order,
                             [op |-> "move", who |-> c, from |-> old, chasers |-> chasers]))

\* playerSetAttackedCreature.
AttackCreature(p, t) ==
    /\ InWorld(being, p)
    /\ IF t = None THEN being.attacked[p] # None
       ELSE InWorld(being, t) /\ being.attacked[p] # t /\ t # p
    /\ Becomes(SetAttacked(being, p, t))

\* placeSummon by a player, doHealing of a monster.
Summon(l, m) ==
    /\ InWorld(being, l)
    /\ being.alive[l]
    /\ ~being.exists[m]
    /\ Cardinality(being.summons[l]) < Summons
    /\ l \in Monster => being.master[l] = None /\ being.checked[l] /\ being.attacked[l] # None
    /\ \E order \in Orders(m) :
        Becomes(PlaceCreature(AddSummon(Create(being, m), l, m), m, being.place[l], order))

\* convinceCreature.
Convince(p, m) ==
    LET S == DestroySummons(SetAttacked(Release(being, m), m, None), m)
        T == UpdateIdle(UpdateTargets(AddSummon(S, p, m), m), m)
        U == [T EXCEPT !.inRange[m] = TRUE]
    IN  /\ InWorld(being, p)
        /\ Sees(being, p, m)
        /\ being.master[m] # p
        /\ Cardinality(being.summons[p]) < Summons
        /\ \E order \in Orders(None) :
            LET W == Tell(U, Near(U, m) \cup {m}, order, [op |-> "convince", who |-> m])
            IN  Becomes(IF W.home[m]
                        THEN [UnRef(W, {m}) EXCEPT !.spawned[m] = FALSE, !.home[m] = FALSE]
                        ELSE W)

\* checkSpawn: entries of the removed go, and a monster may be spawned; the
\* event is set anew if not all are there.
CheckSpawn ==
    LET gone == {m \in Monster : being.spawned[m] /\ ~InWorld(being, m)}
        S == [UnRef(being, gone) EXCEPT
                !.event = FALSE, !.spawned = [c \in Creature |-> @[c] /\ c \notin gone]]
        Full(T) == Cardinality({m \in Monster : T.spawned[m]}) >= SpawnSize
        Done(T) == Becomes([T EXCEPT !.event = ~Full(T)])
    IN  /\ being.event
        /\ \/ Done(S)
           \/ /\ ~Full(S)
              /\ \E m \in Monster : \E order \in Orders(m) :
                    /\ ~being.exists[m]
                    /\ LET T == PlaceCreature(Create(S, m), m, Lair, order)
                       IN  Done([AddRef(T, {m}) EXCEPT !.home[m] = TRUE, !.spawned[m] = TRUE])

\* checkCreatures, when the vector of c is due.
CheckCreature(c) ==
    /\ being.listed[c]
    /\ \/ /\ being.checked[c]
          /\ \E order \in Orders(None) :
                \/ /\ ~being.alive[c]
                   /\ Becomes(Cleanup(Die(being, c, order)))
                \/ /\ being.alive[c]
                   /\ c \in Monster
                   /\ \E t \in being.targets[c] \cup {None} :
                        Becomes(Cleanup(Think(being, c, t, order)))
       \/ /\ ~being.checked[c]
          /\ Becomes(Cleanup(FreeThing([being EXCEPT !.listed[c] = FALSE], c)))

\* checkDecay, checkCreatureWalk, and checks that change nothing else.
OtherCleanup ==
    /\ \E c \in Creature : being.releases[c] > 0
    /\ Becomes(Cleanup(being))

\* Who comes or goes elsewhere is seen as what it is now.
CreaturesNext ==
    \/ /\ \E c \in Creature, q \in Place :
            /\ Move(c, q) \/ (c \in Player /\ Login(c, q))
            /\ demoted' = demoted \ {c}
       /\ UNCHANGED ignored
    \/ /\ \/ \E p \in Player :
               \/ \E t \in Creature \cup {None} : AttackCreature(p, t)
               \/ \E m \in Monster : Convince(p, m)
          \/ \E c \in Creature :
               \/ \E m \in Monster : Summon(c, m)
               \/ RemoveFromWorld(c) \/ Hurt(c) \/ CheckCreature(c)
          \/ CheckSpawn
          \/ OtherCleanup
       /\ UNCHANGED <<ignored, demoted>>
    \/ \E p \in Player : ChangeGroup(p)

CreaturesSpec == CreaturesInit /\ [][CreaturesNext]_creaturesVars

-----------------------------------------------------------------------------
(* What must hold.                                                         *)

\* An object lives exactly as long as it is in the world, a summon, a target,
\* in a check vector, of the spawn, or about to be released (each addRef
\* against its unRef or freeThing).
CountedExactly ==
    \A c \in Creature :
        /\ being.refs[c] =
            Cardinality({d \in Creature : c \in being.summons[d]})
            + Cardinality({d \in Creature : c \in being.targets[d]})
            + (IF InWorld(being, c) THEN 1 ELSE 0) + (IF being.listed[c] THEN 1 ELSE 0)
            + (IF being.spawned[c] THEN 1 ELSE 0) + being.releases[c]
        /\ being.exists[c] <=> being.refs[c] > 0

\* Plain pointers: who is attacked is there and in sight, master and summons
\* know each other, and a summon is in the world only with its master
\* (internalCreatureDisappear, removeSummon and the destructor).
PointersLive ==
    \A c, d \in Creature :
        /\ InWorld(being, c) /\ being.attacked[c] = d => Sees(being, c, d)
        /\ being.master[c] = d <=> c \in being.summons[d]
        /\ being.master[c] = d /\ InWorld(being, c) => InWorld(being, d)

\* A wild monster that sees a foe is awake, is being checked and has it for a
\* target, unless the foe is a player it has not come across since the flag was
\* lost; the dead one is only seen to at its check (updateIdleStatus,
\* onCreatureEnter, onCreatureLeave and onCreatureConvinced together).
Vigilant ==
    \A m \in Monster : \A c \in Near(being, m) \ demoted :
        being.alive[m] /\ being.master[m] = None /\ Opponent(being, m, c) =>
            c \in being.targets[m] /\ ~being.idle[m] /\ being.checked[m] /\ being.listed[m]

\* The spawn that lost a monster to death will look after it (startEvent,
\* and checkSpawn that sets its event anew).
GoneIsReplaced ==
    \A m \in Monster : being.spawned[m] /\ ~InWorld(being, m) => being.event

\* The dead are seen to: who has no health left and is in the world is due for a
\* check, whoever killed it, asleep or awake (changeHealth wakes a monster before
\* it dies, and setIdle puts no dead one to sleep; onDeath is only called there).
DeadAwaitsItsEnd ==
    \A c \in Creature :
        InWorld(being, c) /\ ~being.alive[c] => being.checked[c] /\ being.listed[c]
=============================================================================
