------------------------------- MODULE Decay -------------------------------
(***************************************************************************)
(* Items that wear out (Game::startDecay, checkDecay, internalDecayItem    *)
(* and cleanup).  An item that decays waits in toDecayItems, then in a     *)
(* bucket of decayItems; each entry holds a reference.  Meanwhile players  *)
(* and scripts move the item, put it into containers, remove it, or turn   *)
(* it into something else, which may stop the decay or begin it anew.      *)
(*                                                                         *)
(* The operators on a state S are the methods; an action is a handler.     *)
(* A duration counts rounds of the buckets, seconds in the code: nothing   *)
(* sets a duration that is not a number of seconds, so the branch for what *)
(* is left of a round is never taken.  Abstracted: where an item lies,     *)
(* except whether it is in the world and in which container; stacks,       *)
(* charges, unique ids; scripts that refuse a removal.                     *)
(***************************************************************************)
EXTENDS Integers, FiniteSets, Sequences

CONSTANTS
    Object,     \* bound: addresses an Item object may have
    Kind,       \* item types
    World,      \* a tile or an inventory
    None,
    Buckets,    \* EVENT_DECAYBUCKETS
    Links,      \* bound: how many things an item turns into without lasting
    Entries,    \* bound: how often an item is listed
    DecayTime(_),   \* ItemType::decayTime, 0 if it has none
    DecayTo(_),     \* decayTo: a kind, "nothing" for 0, "never" for -1
    StopTime(_),    \* stopTime
    Holder(_),      \* containers
    InPlace(_, _),  \* same ItemType::type and no container becomes a plain item
    Made,           \* kinds that things are made as
    Turns           \* pairs of kinds that use, equipment and scripts know of

\* What a kind becomes is a kind.  An object keeps its class when it changes in
\* place; and as Places puts no container into another, nothing that may lie in
\* one becomes one (bound: containers are not nested).  No kind of items.xml
\* decays into itself, and a use turns a thing into another: transformItem,
\* which returns at once when the kind is the same, is never asked to keep it.
ASSUME DecayAssumption ==
    /\ IsFiniteSet(Object) /\ None # World /\ {None, World} \cap Object = {}
    /\ None \notin Kind /\ {"nothing", "never"} \cap Kind = {}
    /\ Buckets \in Nat \ {0} /\ Links \in Nat
    /\ Turns \subseteq Kind \X Kind /\ Made \subseteq Kind
    /\ \A k \in Kind : /\ DecayTime(k) \in Nat
                        /\ DecayTo(k) \in Kind \cup {"nothing", "never"}
                        /\ StopTime(k) \in BOOLEAN /\ Holder(k) \in BOOLEAN
    /\ \A k, l \in Kind :
        /\ InPlace(k, l) => (Holder(k) <=> Holder(l))
        /\ l = DecayTo(k) \/ <<k, l>> \in Turns => (Holder(l) => Holder(k))
    /\ \A k \in Kind : DecayTo(k) # k /\ <<k, k>> \notin Turns

VARIABLES
    things,    \* the Item objects, see NoThing
    todo,      \* toDecayItems
    bucket,    \* decayItems
    lastBucket,
    releases   \* releaseThings, how often each is in it

decayVars == <<things, todo, bucket, lastBucket, releases>>

\* A free address.  An object has its kind; what contains it, the World or None;
\* its reference count; whether it is marked as decaying; its m_duration.
NoThing == [kind |-> None, parent |-> None, refs |-> 0, decaying |-> FALSE, left |-> 0]

\* What the methods work on; kept is what is left of a bucket under way, and room
\* says that there was an address for each new object.
Now == [things |-> things, todo |-> todo, releases |-> releases, kept |-> <<>>,
        room |-> TRUE]

DecayInit ==
    /\ things = [o \in Object |-> NoThing]
    /\ todo = <<>>
    /\ bucket = [b \in 0..(Buckets - 1) |-> <<>>]
    /\ lastBucket = 0
    /\ releases = [o \in Object |-> 0]

Becomes(S) ==
    S.room /\ things' = S.things /\ todo' = S.todo /\ releases' = S.releases

Existing == {o \in Object : things[o].kind # None}

-----------------------------------------------------------------------------
(* Mutated forms, one per plausible slip.                                  *)

\* The entry goes without its reference.
MUTDrop(S, o) == [S EXCEPT !.things[o].decaying = FALSE]

\* The entry goes and the item is still marked.
MUTDropMarked(S, o) == [S EXCEPT !.releases[o] = @ + 1]

\* A new duration does not unmark the item.
MUTSetID(S, o, k) ==
    LET old == S.things[o]
    IN  [S EXCEPT !.things[o] =
            [old EXCEPT !.kind = k,
                        !.left = IF DecayTime(k) > 0 THEN DecayTime(k) ELSE @]]

-----------------------------------------------------------------------------
(* The methods.                                                            *)

\* isRemoved: nothing holds it, or what holds it is removed.
Removed(S, o) ==
    LET p == S.things[o].parent
    IN  p = None \/ (p # World /\ S.things[p].parent = None)

Decays(k) == DecayTo(k) # "never" /\ DecayTime(k) > 0

CanDecay(S, o) == ~Removed(S, o) /\ Decays(S.things[o].kind)

FreeThing(S, o) == [S EXCEPT !.releases[o] = @ + 1]

\* The address a new object gets; which of the free ones makes no difference.
Fresh(S) == CHOOSE o \in Object : S.things[o].kind = None

\* setID.
SetID(S, o, k) ==
    LET old == S.things[o]
        new == [old EXCEPT !.kind = k]
    IN  [S EXCEPT !.things[o] =
            IF DecayTime(k) = 0 /\ ~StopTime(k) /\ DecayTo(k) = "never"
            THEN [new EXCEPT !.decaying = FALSE, !.left = -1]
            ELSE IF DecayTime(k) > 0 /\ (~StopTime(old.kind) \/ old.left = 0)
            THEN [new EXCEPT !.decaying = FALSE, !.left = DecayTime(k)]
            ELSE new]

\* internalRemoveItem.
RemoveItem(S, o) == FreeThing([S EXCEPT !.things[o].parent = None], o)

\* transformItem: the result and the item it returns.  A new object takes the
\* place of the old one and has no duration: copyAttributes resets it.
TransformItem(S, o, k) ==
    IF InPlace(S.things[o].kind, k)
    THEN [state |-> SetID(S, o, k), item |-> o]
    ELSE IF \A n \in Object : S.things[n].kind # None
    THEN [state |-> [S EXCEPT !.room = FALSE], item |-> None]
    ELSE LET n == Fresh(S)
         IN  [state |-> [RemoveItem(S, o) EXCEPT
                            !.things[n] =
                                [kind |-> k, parent |-> S.things[o].parent, refs |-> 1,
                                 decaying |-> FALSE, left |-> 0]],
              item |-> n]

\* internalDecayItem; what comes of it is the item to start decaying.
InternalDecay(S, o) ==
    LET k == DecayTo(S.things[o].kind)
    IN  IF k = "nothing" THEN [state |-> RemoveItem(S, o), item |-> None]
        ELSE TransformItem(S, o, k)

Waits(S, o) ==
    [S EXCEPT !.things[o].refs = @ + 1, !.things[o].decaying = TRUE, !.todo = Append(@, o)]

\* startDecay and internalDecayItem call each other until something lasts.
Link(t) ==
    IF t.item = None \/ ~CanDecay(t.state, t.item) \/ t.state.things[t.item].decaying
    THEN [t EXCEPT !.item = None]
    ELSE IF t.state.things[t.item].left > 0
    THEN [state |-> Waits(t.state, t.item), item |-> None]
    ELSE InternalDecay(t.state, t.item)

StartDecay(S, o) ==
    LET link[n \in 0..Links] ==
            IF n = 0 THEN [state |-> S, item |-> o] ELSE Link(link[n - 1])
    IN  link[Links].state

Decay(S, o) ==
    LET t == InternalDecay(S, o)
    IN  IF t.item = None THEN t.state ELSE StartDecay(t.state, t.item)

\* The entry of o goes because o was removed or became something that stays.
Drop(S, o) == FreeThing([S EXCEPT !.things[o].decaying = FALSE], o)

\* checkDecay at one entry.
Visit(S, o) ==
    LET less == IF S.things[o].left > 1 THEN 1 ELSE S.things[o].left
        T == [S EXCEPT !.things[o].left = @ - less]
    IN  IF ~CanDecay(S, o) THEN Drop(S, o)
        ELSE IF T.things[o].left <= 0 THEN FreeThing(Decay(T, o), o)
        ELSE [T EXCEPT !.kept = Append(@, o)]

\* cleanup: unRef; an object that nobody refers to goes, with what it contains.
Unreferenced(S) ==
    LET after == [o \in Object |-> [S.things[o] EXCEPT !.refs = @ - S.releases[o]]]
        deleted == {o \in Object : S.things[o].kind # None /\ after[o].refs = 0}
        inside == {o \in Object : after[o].parent \in deleted}
    IN  [o \in Object |->
            IF o \in deleted \/ (o \in inside /\ after[o].refs = 1) THEN NoThing
            ELSE IF o \in inside THEN [after[o] EXCEPT !.parent = None, !.refs = @ - 1]
            ELSE after[o]]

\* What waits goes into a bucket: into the next one if it is due at once.
Sorted(S, buckets, last) ==
    LET BucketOf(o) == IF S.things[o].left >= 1 THEN last ELSE (last + 1) % Buckets
        sorted[n \in 0..Len(S.todo)] ==
            IF n = 0 THEN buckets
            ELSE [sorted[n - 1] EXCEPT ![BucketOf(S.todo[n])] = Append(@, S.todo[n])]
    IN  sorted[Len(S.todo)]

Cleanup(S, buckets, last) ==
    /\ S.room
    /\ things' = Unreferenced(S)
    /\ bucket' = Sorted(S, buckets, last)
    /\ todo' = <<>>
    /\ releases' = [o \in Object |-> 0]
    /\ lastBucket' = last

-----------------------------------------------------------------------------
(* The handlers.                                                           *)

\* Where o can be put: the world or a container that is in it.
Places(o) ==
    {World} \cup
    {c \in Existing \ {o} : Holder(things[c].kind) /\ things[c].parent = World
                            /\ ~Holder(things[o].kind)}

\* A thing comes into the world; its decay is started next, or later.
CreateItem(k) ==
    /\ k \in Made
    /\ Cardinality(Existing) * 2 + 2 <= Cardinality(Object)
    /\ LET o == Fresh(Now)
           S == [Now EXCEPT !.things[o] =
                    [kind |-> k, parent |-> World, refs |-> 1, decaying |-> FALSE,
                     left |-> DecayTime(k)]]
       IN  Becomes(S)
    /\ UNCHANGED <<bucket, lastBucket>>

\* internalMoveItem of the whole thing.
MoveItem(o) ==
    /\ o \in Existing
    /\ ~Removed(Now, o)
    /\ \E p \in Places(o) \ {things[o].parent} : things' = [things EXCEPT ![o].parent = p]
    /\ UNCHANGED <<todo, bucket, lastBucket, releases>>

DestroyItem(o) ==
    /\ o \in Existing
    /\ ~Removed(Now, o)
    /\ Becomes(RemoveItem(Now, o))
    /\ UNCHANGED <<bucket, lastBucket>>

\* How often o is listed.
Count(s, o) == Cardinality({i \in DOMAIN s : s[i] = o})

InBuckets(buckets, o) ==
    Cardinality(UNION {{<<b, i>> : i \in {i \in DOMAIN buckets[b] : buckets[b][i] = o}} :
                       b \in DOMAIN buckets})

EntriesOf(o) == Count(todo, o) + InBuckets(bucket, o)

\* Use, equipment, a script: transformItem and startDecay.
TurnItem(o, k) ==
    /\ o \in Existing
    /\ ~Removed(Now, o)
    /\ <<things[o].kind, k>> \in Turns
    /\ EntriesOf(o) < Entries
    /\ Becomes(StartDecay(TransformItem(Now, o, k).state, o))
    /\ UNCHANGED <<bucket, lastBucket>>

\* doDecayItem and all else that starts a decay.
BeginDecay(o) ==
    /\ o \in Existing
    /\ CanDecay(Now, o)
    /\ ~things[o].decaying
    /\ Becomes(StartDecay(Now, o))
    /\ UNCHANGED <<bucket, lastBucket>>

CheckDecay ==
    LET b == (lastBucket + 1) % Buckets
        visited[n \in 0..Len(bucket[b])] ==
            IF n = 0 THEN Now ELSE Visit(visited[n - 1], bucket[b][n])
        S == visited[Len(bucket[b])]
    IN  Cleanup(S, [bucket EXCEPT ![b] = S.kept], b)

\* checkCreatures, checkCreatureWalk.
OtherCleanup ==
    /\ todo # <<>> \/ \E o \in Object : releases[o] > 0
    /\ Cleanup(Now, bucket, lastBucket)

DecayNext ==
    \/ \E k \in Kind : CreateItem(k)
    \/ \E o \in Object :
        \/ \E k \in Kind : TurnItem(o, k)
        \/ MoveItem(o) \/ DestroyItem(o) \/ BeginDecay(o)
    \/ CheckDecay
    \/ OtherCleanup

\* The scheduler calls checkDecay, which nothing can disable, again and again.
DecaySpec == DecayInit /\ [][DecayNext]_decayVars /\ []<><<lastBucket' # lastBucket>>_lastBucket

-----------------------------------------------------------------------------
(* What must hold.                                                         *)

\* An object lives exactly as long as somebody refers to it: what contains it,
\* an entry in toDecayItems or a bucket, a release not yet carried out
\* (addRef in startDecay and CreateItem against freeThing).
HeldExactly ==
    \A o \in Object :
        /\ things[o].refs = (IF things[o].parent # None THEN 1 ELSE 0)
                            + EntriesOf(o) + releases[o]
        /\ things[o].kind = None <=> things[o].refs = 0

\* An item that is marked as decaying is listed, or startDecay would never
\* list it again (setDecaying in startDecay, checkDecay and setID).
MarkedIsListed ==
    \A o \in Object :
        o \in Existing /\ CanDecay(Now, o) /\ things[o].decaying => EntriesOf(o) > 0

Wears(o, k) == things[o].kind = k /\ CanDecay(Now, o) /\ things[o].decaying

\* Whatever wears out becomes something else or goes, if it is not turned off.
WearsOut == \A o \in Object, k \in Kind : Wears(o, k) ~> ~Wears(o, k)
===========================================================================
