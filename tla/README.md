# A TLA+ model of otxserver

otxserver is a game server: an asio network thread, a scheduler thread and one
dispatcher thread that runs the whole game as a queue of closures. This
directory holds TLA+ modules translated from `src/src/*.cpp`, the TLC
configurations that check them, and TLAPS proofs about them. `PROJECT.json`
lists the runs, the source lines of every definition, a mutant for every
property, the hazards the properties are aimed at, and the theorems.

## The system

| component | state it keeps | operations | what must hold |
|---|---|---|---|
| Dispatcher (`dispatcher.*`, `thread_holder_base.h`) | task list, batch, mutex, condition variable, thread state | `addTask`, `threadMain`, `stop`, `shutdown` | every accepted task runs once, in order; no lost wakeup; a shutdown ends the thread and loses nothing |
| Scheduler (`scheduler.*`) | io_context, map of timers by event id, thread state | `addEvent`, `stopEvent`, `stop`, `shutdown` | an event reaches the dispatcher once, unless stopped or shut down |
| Connection (`connection.*`) | socket, write queue, two timers, `m_closed`, protocol | `accept`, `parseHeader`, `parsePacket`, `send`, `close`, `handleTimeout`, manager's `closeAll` | output in order and complete; one release; nobody keeps a socket by being silent |
| ProtocolGame, Spectators, Player (`protocolgame.*`, `spectators.h`, `player.cpp`) | player pointer and its reference count, owner, connecting event | `login`, `connect`, `logout`, `release`, kick, idle check, death | one client per character; references exact |
| OutputMessagePool (`outputmessage.*`) | protocols with buffered output, chain of `sendAll` events | add, remove, `sendAll` | only live protocols, always served |
| Trading (`game.cpp`, hooks in `player.cpp`, `container.cpp`, `tile.cpp`) | state, partner and item of each player, `Game::tradeItems`, references | request, accept, close, every move of a thing | both halves agree; who accepts gets what was shown |
| Game lifecycle (`game.cpp`, `otserv.cpp`) | game state, signal handlers | `setGameState`, `shutdown`, global save | the server stops when asked to |
| Service ports (`server.*`), wait list (`protocolgame.cpp`) | acceptors, throttle per address, queue of clients | open/close/accept, `clientLogin` | fairness of the queue, acceptor reopened |
| Party (`party.cpp`, commands in `game.cpp`) | leader, members, invitations, shared experience; pointers and invitations of players | invite, join, revoke, pass on, leave, share, disappear, hide | both sides agree; nothing outlives its object; sharing is earned |
| Chat (`chat.cpp`, reports in `game.cpp`) | users of party, guild, public and private channels, owners, invited players, reports | open, close, create, invite, exclude, reload, report, log out | nobody who is gone is pointed at; a private channel is private |
| Decay (`game.cpp`) | `toDecayItems`, four buckets, releases, references | `startDecay`, `checkDecay`, `internalDecayItem`, `cleanup`, transformations | an item lives as long as it is referred to, wears out at last |
| Creatures (`game.cpp`, `creature.cpp`, `monster.cpp`, `spawn.cpp`) | check vectors, targets, masters and summons, spawn, references | place, remove, check, die, think, idle, convince, `checkSpawn` | pointers live, counts exact, the watchful awake, the dead removed and replaced |
| Inventory and money (`game.cpp`, queries of `player.cpp`, `container.cpp`, `tile.cpp`) | what lies where, the balance | move, add, remove by type, pay, receive | nothing doubled or lost; answers true; prices exact |
| Houses, beds, raids, combat, spells, NPCs, map | the game's rules | | numeric, data-driven |
| Persistence, Lua, configuration, loaders, crypto | database, scripts, files | | outside the server's own state |

The parts interact in three ways. A thread posts a closure to the dispatcher
(`addDispatcherTask`, from network handlers, timers and signals). The
dispatcher posts handlers to the scheduler's io_context, whose timers come back
as closures. The dispatcher calls `send` and `close` of a connection under its
mutex, and a closed connection posts `release` of its protocol back. Inside the
dispatcher everything is sequential, so what is hard there is the order of
closures (a login, a release, a delayed connect), and state that is kept in
several places while closures come in any order (trades, parties, channels,
decaying items, creatures).

Hard behaviours: wakeups between a mutex and a condition variable; stops
against work already accepted; timers against their cancellation; close from
three threads of control; a peer that stalls; checks made on an object that is
not the one that matters (a Connection for a release); reference counts; plain
pointers to objects that delete themselves or go away; lists that change while
they are gone through; questions answered by one search of the bags and acted
on by another.

## Modules

| module | what it models |
|---|---|
| `TaskService` | the abstract service the dispatcher promises: a queue of accepted closures, run or skipped in order, closed once |
| `Dispatcher` | `addTask` split at lock, push/unlock and notify; `threadMain` split at the state test, lock, wait, swap and each closure; the closures of `setGameState(GAMESTATE_SHUTDOWN)`, `Game::shutdown` and `Dispatcher::shutdown` |
| `Scheduler` | extends `Dispatcher` by the scheduler's thread: handlers posted by `addEvent` and `stopEvent`, timers, `stop` and `shutdown` |
| `Connection` | one connection: each handler and each call is a step, as each holds the connection's mutex; the peer, the completion of an operation and the deadline of a timer are steps of the environment |
| `Session` | the sessions of one character: the dispatcher's queue of `login`, `connect`, `logout` and `release` closures, connections that close on the network thread at any moment, the Player's references, and the autosend pool |
| `Trade` | players, things and where they are; every operation with all the hooks it triggers is one step |
| `Party` | parties and the players in them: each method is an operator on the state of all parties, each command or hook a step |
| `Society` | extends `Party` by chat channels, guilds, rule violation reports, clients and logouts; what it does to parties is `Party`'s steps |
| `Decay` | items that wear out, from `startDecay` to the cleanup, while they are moved, put into containers, removed and turned into others |
| `Creatures` | creatures, their checks, targets, masters, summons, and one spawn; what happens to a creature is told to each spectator, in every order |
| `Inventory` | the moves, additions, removals and payments with the queries they ask |
| `MC*` | the instances for TLC |
| `SchedulerProofs` (of `Dispatcher` and `Scheduler`), `ConnectionProofs`, `SessionProofs`, `TradeProofs`, `SocietyProofs` (of `Party` and `Society`), `DecayProofs`, `CreaturesProofs`, `InventoryProofs` | theorems |

State and actions carry the names of the code. Variables that are history
(`status`, `released`, `added`, `stopped`, the fields `sent` and `releases` of
`conn`) are marked as such in their module. Operators with the prefix `MUT` are slips a
programmer might make, never used by the specifications: `PROJECT.json` names
the definition each replaces and the property that then fails.

Abstractions worth knowing:

- `Dispatcher`: a closure is a value of a class (plain, timed, quitting,
  halting). A signal handler that runs `addTask` on the dispatcher's own thread
  while that holds the mutex is not modelled; signals come from a thread
  of their own. `Dispatcher::shutdown` appends under the lock, in one step; its
  `notify_one` (`dispatcher.cpp:83`) is left out, because the dispatcher's own
  thread makes it and no other thread waits. The `shutdown` of a server that
  fails to start (`otserv.cpp:243`) is not modelled.
- `Scheduler`: time is not measured; an armed timer may become due at any
  moment. Event ids do not wrap.
- `Connection`: bytes, checksums and the packet rate limit are left out, a
  packet may be refused at any time. `closeAll` is one step although it takes
  no connection lock. asio calls do not throw.
- `Session`: one character; each client sends one first message. The checks
  of `login` are one choice between placing and refusing the player. Whether
  logins replace a client (`REPLACE_KICK_ON_LOGIN`) is a choice at every login.
  The flag `CanLogoutAnytime` of the account is a constant: without it every
  disjunct can happen, and the theorems hold with it. The reference of the list
  of creatures to check is left out; `Creatures` counts it.
- `Trade`: a player is near the others and the ground, or away. Counts, room
  and weight are a choice (a thing may fit or not). A step is one task, so
  `TRADE_TRANSFER` is never seen between steps. The second move of an exchange
  may fail, and then calls no hook.
- `Party`: levels, distances and the age of points are a choice: sharing may be
  refused for them at any moment, and whoever has points may lose them.
- `Society`: what is said is left out. A party's channel is known by the
  address of the party, and an address may be used again, as in the code. Who
  may deal with reports can change at any moment (`/promote`, `/demote`); a
  report whose gamemaster was demoted and is gone holds `"gone"`, a pointer that
  dangles.
- `Decay`: durations count rounds of the buckets. Kinds of items are constants
  with the fields of `ItemType` that matter; the instance has one of each kind
  of decay, not the thousands of `items.xml`. Containers do not contain
  containers, and a step that would want more addresses than there are is not
  taken (`room`). `turned into` is
  `transformItem`, with both of its branches; no kind of `items.xml` decays into
  itself, so its early return for the same kind is not needed.
- `Creatures`: positions are places; who is at one place sees each other.
  Raids' references, summons of summons, arena deaths and fields are left out.
  Health is told by whether there is any; a change of it wakes a monster that is
  alive, whether it dies of it or not (`monster.cpp:1421`). Whether monsters
  ignore a player is a flag of its group, which may change at any moment.
  The order in which the code goes through spectators and targets is the order
  of addresses or of a vector that anything may have permuted, so it is every
  order.
- `Inventory`: one player, the ground and two bags. An operation is evaluated
  in every state that earlier operations lead to, with everything that hides
  room if it is on offer in a trade on offer in turn, and the properties compare
  its answer, its result and the state before and after. `PLAYER_DEEPNESS`
  (`player.cpp:3086`), which may bound how deep a search goes, has its default
  (-1, no bound).

## Runs

Every run lets the system stop (all threads idle, all clients gone, nothing
left to decay), so deadlock is not checked; the liveness properties say what
must still happen.

| run | instance | questions |
|---|---|---|
| `dispatcher` | two posting threads and the dispatcher itself, one closure of each class | `NoLostWakeup`; `NothingLost` at an orderly shutdown; refinement of `TaskService`; `AcceptedRuns`; `ShutdownEnds` |
| `dispatcher_sigterm` | the same | expected violation: `SigTermEnds` |
| `scheduler` | two events, a network thread, quit and SIGTERM | `NoEventLost`, `StopSettles`, `DueIsDelivered` |
| `connection` | three messages, a peer that may do anything | `WriteOutstanding`, `NothingSkipped`, `ReleaseOnce`, `GracefulDrains`, `DeadPeerDropped` |
| `connection_stall` | the same | expected violation: `ClosedGetsShut` |
| `session` | three clients of one character | `RefsExact`, `OneInCharge`, `PoolIsLive`, `PoolIsServed`, `ReleasedOnce` |
| `session_ghost` | two clients | expected violation: `ReleasedHoldsNothing` |
| `trade` | three players, two bags, two plain things | `PartnersAgree`, `RegistryExact`, `OffersDisjoint`, `OfferAtHand`, `OfferUntouched`, `HandedOverByConsent` |
| `society` | three players, any of them a gamemaster, two parties, a guild, two private channels and a public one | `PartiesAgree`, `SharingIsEarned`, `GoneLeavesNothing`, `PrivateStaysPrivate` |
| `decay` | two things of eight kinds, four addresses, the code's four buckets | `HeldExactly`, `MarkedIsListed`, `WearsOut` |
| `creatures` | a player with a flag to be ignored, three monsters, a spawn for one | `CountedExactly`, `PointersLive`, `Vigilant`, `GoneIsReplaced`, `DeadAwaitsItsEnd` |
| `inventory` | two bags of two places, two slots, stacks of three, coins worth one and four | `EachInItsPlace`, `MovesKeepAll`, `AnswersAreTrue`, `PaidExactly` |

The last four have about 70,000, 179,000, 215,000 and 18,000 distinct states
(a state of `inventory` is expensive: each of its operations is evaluated in it
with every argument). Type invariants are theorems, not runs, where a module
has proofs.

Why the bounds are enough. Dispatcher: a lost wakeup needs one poster, a
reordering two; the third caller is the dispatcher itself, and each class of
closure is there once because a class is told apart only by what it does.
Scheduler: two events, because handlers of different events interact only in
the order of the io_context's queue. Connection: three messages put one in
flight, one behind it and one that arrives between a completion and its
handler. Session: a client in charge, one that replaces it and a
third that arrives in between; with two, no connect can find the player taken
by somebody else. Trade: the third player is the one who intrudes on a trade
of two; two bags give a bag in a bag, and two things give offers that differ.
Society: an ex-member, a leader and one who is invited are three; two parties
and two private channels let an object be taken for another or use the address
of one that is gone. All there is to parties is explored while nobody uses
channels, guilds or reports or is a gamemaster; otherwise `Crowd` bounds the
memberships, reports and gamemasters at a time (a clash needs at most three: two
in what clashes and one in what is left; a dangling report needs a gamemaster and
the report).
Decay: a container and a thing in it, or a thing and what it turned into before
the release of the first; two more addresses for what comes meanwhile.
`Links` and `Entries` bound chains and lists and are not reached by anything
the kinds of the instance do otherwise. Creatures: two monsters and a player
may do everything, and while the player has the flag, or has lost it unnoticed,
everything two of the three can do (a monster asleep beside the player needs no
more); the third monster, the replacement of one that is still dying, exists
while all but one are in the lair and alive (`MostlyAtRest`).
Inventory: a bag in a bag, worn or on the ground, full and not; a stack of
three is the smallest with a remainder that is neither the whole nor one; a coin of four
needs change for a price of three, one piece, and for a price of five, when two
are paid, three. One of the three beginnings has gold in every place there is, so
that room is left in stacks only and the one on offer hides it.
Symmetry (clients; players, things, parties, channels, monsters) is used only
in runs without liveness, and no property or definition chooses between the
symmetric values.

### Fairness

- `FairSpec` (Dispatcher): weak fairness of the worker and of a thread that is
  inside `addTask`: the operating system runs threads, and a mutex that is free
  again and again is obtained. Nobody has to post, and spurious wakeups are not
  promised.
- `SchedFairSpec`: the same, and the io_context runs the handlers it has. The
  clock is not promised to reach a deadline, so `DueIsDelivered` starts from a
  timer that is due.
- `ConnFairSpec`: handlers that are queued run, operations on a closed socket
  fail, and an armed timer expires if the operation it watches stays pending (a
  timer that every packet restarts is promised nothing). The peer promises
  nothing and the server need not send.
- `DecaySpec` promises that `checkDecay` runs again and again
  (`[]<><<lastBucket' # lastBucket>>_lastBucket`): it is always enabled, and
  each run schedules the next before it does anything (`game.cpp:5556`).
  Nothing is promised of players, scripts or the cleanup.
- `Session`, `Trade`, `Society`, `Creatures` and `Inventory` have safety
  properties only. `GoneIsReplaced` and `DeadAwaitsItsEnd` of `Creatures`, both
  invariants, say that the event or the entry that will do it is there.

### What the violations show

- `SigTermEnds`: SIGTERM and SIGQUIT close together. SIGTERM's
  closure appends the terminating closure without stopping the dispatcher; if
  the closure of SIGQUIT, accepted meanwhile, runs behind it in the same batch,
  `g_dispatcher.stop()` writes CLOSING over TERMINATED (`game.cpp:317`), and
  the thread, which the signal handler joins, never ends.
- `ClosedGetsShut`: a graceful close with output queued to a peer that stopped
  reading. The write timer fires, but `close(FORCE_CLOSE)` returns at once since
  `m_closed` is set, so neither "the destructor or onWriteOperation"
  (`connection.cpp:108`) ever closes the socket.
- `ReleasedHoldsNothing`: the replacing client closes its connection before its
  `connect` runs. `isConnectionExpired()` is still false while a network handler
  holds the Connection, although `release` has run, so the dead protocol gets
  the Player, against the comment at `protocolgame.cpp:627`.

## Proofs

All are for any number of threads, closures, players and items, under the
assumptions the modules state on their constants (`ConnAssumption`,
`SessionAssumption`: there are messages to send, clients are finitely many;
`PartyAssumption`, `SocietyAssumption`: `None` is no player, party or guild, and
the ids of private channels are those of no other). `DispatcherAssumption`: the
classes of closures are disjoint, and no name stands for two things.
`TradeAssumption`: bags are items, items are finitely many, and the special
places are neither players nor items. `DecayAssumption`: addresses are finitely
many, no kind that decays or is transformed becomes a container, and none becomes
itself.
`CreaturesAssumption`: players and monsters are different objects, finitely many,
the lair is a place, and `None` is neither.
`InventoryAssumption`: there are finitely many bags; bags, kinds that do not stack
and coins are told apart; stacks hold something, coins are worth something and
some coin is worth one. `StartAssumption`: a player is loaded with things in
their places. `CoinAssumption`, which no proof uses, says for which coins and
prices the model is the program: numbers of coins must fit in 16 bits
(`game.cpp:2398`).

- `SchedulerProofs`, of `Dispatcher`: `TypeCorrect`, `WakeupCorrect`,
  `DispatcherImplementsTaskService`, `ShutdownLosesNothing`. The invariant is
  `BaseInv == TypeOK /\ CallInv /\ NoLostWakeup`; `CallInv` says who holds the
  mutex and that the dispatcher calls `addTask` only from inside a closure. It is needed
  because a push decides about the signal under the mutex, and the only step
  that could sleep on a non-empty list also needs the mutex. The queue of the
  service is `Backlog == tmpTaskList \o taskList \o InFlight`; lemmas say what
  accepting, pushing, swapping and taking do to it, and each step of the
  threads is then a step of the service or a stutter. `NothingLost` is about the end
  only, so the invariant `ShutdownSafe` adds `PlaceInv` (an accepted closure is
  in exactly one place) and `ShutdownInv` (the order of `gameShutdown`, thread
  state and terminating closure: on the orderly route nothing is accepted once
  the terminating closure is out, so it is last). `PlaceInv` is proved from the
  steps of `TaskService` and carried over by the refinement.
- `SchedulerProofs`, of `Scheduler`: `SchedulerTypeCorrect`, `SchedulerIsAClient`,
  `EventsNeverLost`, `EventsDeliveredOnce`. The scheduler does to the dispatcher
  only what any thread may do, so `SchedSpec => Spec` and what is proved of the
  dispatcher holds beside it. `NoEventLost` needs to know where an event is:
  `OnePlace` says that an event is posted once and is in one place only (posted,
  in the timer map, with its handler, or handed over), `StopsKnown` that
  what is aborted or about to be cancelled was stopped or met a shutdown, and
  `PlaceInv` of the dispatcher that a closure which was accepted is still there.
- `TradeProofs`: `TradeTypeCorrect`, `TradePartnersAgree`,
  `TradeRegistryExact`, `OffersAlwaysDisjoint`, `OfferAlwaysAtHand`,
  `OfferNeverTouched`, `HandedOverOnlyByConsent`. The first three are inductive
  together (`TradeInv`). The key lemma, `ResetKeeps`, is about any set of
  players that contains the partner of each of its members; every way a trade
  ends is an instance of it. What contains what needs `OfferInv`, which adds that
  offers lie apart and at hand, and that `parent` is grounded: every thing is at
  the end of a way that leads to a place and meets nothing twice. `Climb` is
  recursive, so it is proved to be what a way says, by induction on its length;
  a move of a thing then cuts the ways through it and leaves the others.

- `ConnectionProofs`: `WriteAlwaysOutstanding`, `ReleasedAtMostOnce`,
  `GracefullyDrained`, `NothingEverSkipped`,
  `ConnTypeCorrect`. The invariant `Sane` is said of any state of a
  connection, so that each method (`send`, `close`, the reads) has a lemma that
  it keeps `Sane`; a handler keeps what the methods it calls keep. Besides the
  two properties it holds that a closed connection is out of the manager, which
  `closeAll` relies on, and that only a connection with a protocol has output.
  `Ordered` adds the numbers of the messages: the queue is numbered on from what
  is done with, and only `onWriteOperation` moves that mark (`GoesOn`).
- `SessionProofs`: `OneAlwaysInCharge`, `RefsAlwaysExact`,
  `SessionTypeCorrect`, `PoolAlwaysServed`, `PoolAlwaysLive`,
  `AlwaysReleasedOnce`. That a Player has one client and its
  count is exact (`World`) is kept because a client that makes or takes a player
  holds none then. This is a fact about the queue: a client waits as one login,
  one event or one `connect` closure (`Fresh`, `EventsFresh`, `IdleFresh`). The
  lemma `Steady` covers every step that opens nothing new. The last two are about
  the order of the queue (`PostsInv`): a client's `login` is ahead of its
  `release`, which is posted once and by a closed connection only, and a client is
  in the pool only between the two.
- `SocietyProofs`, of `Party`: `PartyTypeCorrect`, `PartiesAlwaysAgree`,
  `SharingAlwaysEarned`, `NobodyEverGone`. In the middle of a method a party may
  be unsound; `Mutual`, `InUse` and `Earned` take the set of parties that may be
  excepted, and each operator has a lemma that says which exceptions it makes or
  mends. `NoneNew` says that no operator lists somebody it was not asked to. The
  invariant is stronger than `PartiesAgree` by one fact: nobody is invited where
  it is listed already.
- `SocietyProofs`, of `Society`: `SocietyImplementsParty`, `GoneAlwaysLeavesNothing`,
  `PrivateAlwaysStaysPrivate`. Every step of `Society` is a step or a stutter of
  `Party`, so the theorems of `Party` carry over; the rest of the invariant is
  about users, owners and reports. The history variable `relieved` has the
  reports whose gamemaster lost the flag: only those may outlive who deals with
  them.

- `DecayProofs`: `AlwaysHeldExactly`, `MarkedAlwaysListed`. `Sound(S, H, E, X)`
  is said of any state a method may be in: what is counted as a reference
  includes the entries `H` of the bucket that `checkDecay` is going through,
  those `E` of it that will stay are what makes a marked item listed, and the
  marks of `X` are still open. Each method has a lemma that says how it changes
  `H`, `E` and `X`; a handler starts and ends with `X` empty. Both properties are
  inductive only together and with `Nested`: that a thing in a container has it
  for a parent and no two containers share it.
- `CreaturesProofs`: `AlwaysCountedExactly`, `PointersAlwaysLive`,
  `AlwaysVigilant`, `GoneAlwaysReplaced`, `DeadAlwaysAwaitTheirEnd`.
  `Sound(S, X, Y, W)` is said of any state a method may be in: `X` are summons
  whose master may have gone before them, `Y` the pairs of a monster and a
  creature that do not know of each other yet, `W` those that have just come and
  are not listed for a check yet. Outside `W` every player and every dead monster
  in the world is listed (`Awaits`), so the one who kills a sleeping monster must
  have woken it. Players who were demoted in a monster's sight are in `Y` until
  they go or come again. What a monster does when it hears of something only changes its own
  mind (`Minds`); the lemmas of `updateIdleStatus`, `onCreatureEnter`,
  `onCreatureLeave` and `updateTargetList` say whom it watches afterwards, and
  `TellSound` that after a round in any order nothing is left of `Y`. The
  invariant needs more than the properties say: a summon has no summons (so a
  removal is one round deep), a free address attacks nobody and has no home, and
  a monster at home in the world is the spawn's. An object is deleted only when
  nothing has it (`Unreferenced`), so a deletion touches plain pointers of its
  summons only; `Reap` has come to an end after as many rounds as there are
  creatures, because each round that is not the last deletes one.

- `InventoryProofs`: `AlwaysInItsPlace`, `MovesAlwaysKeepAll`,
  `AnswersAlwaysTrue`, `PricesPaidExactly`. The invariant `Held` is `Sound(world, {})`
  and a balance that is not negative. `Sound(S, X)` is said of any state an
  operation may be in, with the bags of `X` taken out and not yet put back. It
  says of the bags together that each is counted once (`Total`) and that of any
  set of bags one lies outside of it (`Grounded`), so that none is inside itself;
  `SoundInPlace` and `InPlaceSound` show that with what is in order cylinder by
  cylinder (`Tidy`) this is `EachInItsPlace`. Counts are used because every change
  then is told by what comes and goes (`Comes`), for any weight a thing may have:
  one if it is of a kind, its worth if it is money. The searches are told by what
  they find (`FitFor`), each loop by what holds after each of its rounds:
  `Filled` (internalAddItem calls itself), `Taken` (removeItemOfType), `Given`
  (addMoney) and `Paying` (removeMoney). That nothing is lost holds whatever is
  on offer: what a nested call merged and the outer one reports as left over can
  only be given twice. That nothing is made needs that `__queryMaxCount` counts
  no more than the searches find (`CountedRoom` under `Plainly`, whose halves are
  `Shown` and `Spacious`), and that a payment starts and stays with nothing on
  offer that hides coins. The coins run out only when nothing is left in the
  purse, so what is still owed then is not more than the bank has.

Where a method goes along a list or a chain (`Climb` of `Trade`; `Link`,
`Sorted`, `Visits` and the unwinding of `cleanup` in `Decay`; the spectators, the
summons and the destructors in `Creatures`; the bags around a bag, the searches
and the payments in `Inventory`), the module writes
it as a recursive function, over the length of what is left. That such a function
satisfies its equation, and what it computes for every length, is proved by
induction in the form for sets (`SetInduction`, or the minimum of a non-empty
set of numbers; for the sums of `Inventory`, which are folds, a set of finite
sets), since the library's induction theorems take an operator that no
installed prover can instantiate.

Only model-checked: all liveness properties (`AcceptedRuns`, `ShutdownEnds`,
`StopSettles`, `DueIsDelivered`, `DeadPeerDropped`, `WearsOut`), because the
prover has neither fairness nor ENABLED. Every other property that a passing run
checks is a theorem.

## Not modelled, and why

`PROJECT.json` gives a reason per component. Most of the repository's lines are
of four sorts that a model would only repeat: the Lua binding layer
(`lua_functions.cpp`; where a script may refuse or cause something, the models
have a choice), rules that are numbers and tables read from data files (combat,
conditions, spells, weapons, monsters' behaviour, NPCs), the parsing and writing
of packets, and SQL and loaders. So the modules cover a small share of the
lines, and the share of the state that several actors change is much larger.

- Service ports, the throttle per address and the login queue: sequential, about
  measured time; the queue's trouble is a `deque` iterator that insertions
  invalidate, which is below any model of the list.
- Game states and the global save: a switch and a chain of timed messages, on
  one thread. The part that ends the server is in `Dispatcher`.
- Houses, beds, mailboxes, depots: most of their state is in the database and on
  the map; each has one writer.
- Data races of signal handlers on the game (`otserv.cpp:131`) and of `closeAll`
  on a socket: nothing useful can be said above the memory level.
- Walking, fighting, path finding: positions and chance.

### Seen while modelling

Behaviour that no document contradicts, so no run calls it a violation; the
models do as the code does.

- A Monster that was convinced leaves its spawn without a new event
  (`monster.cpp:1475`): the spawn may stay short until another one dies.
- A gamemaster who is demoted while dealing with a report and then leaves is not
  taken out of it (`player.cpp:1548`), and `cancelRuleViolation`
  (`game.cpp:5693`) follows the pointer.
- A player who loses the flag `IgnoredByMonsters` among monsters is noticed by
  none until one of them is moved, hurt or told of somebody (`player.cpp:5147`).
- A kind that decayed into itself would stay marked without an entry, since
  `transformItem` returns it as it was; `items.xml` has none.
- A summon that dies stays in targets until it or they move.
- The test for friends in `monster.cpp:273` is inverted, so `friendList` stays
  empty.
- An exchange through `internalMoveItem` (`game.cpp:1655`) may fail in its
  second half for lack of capacity when the first is done.
- `__queryMaxCount` (`player.cpp:2973`, `container.cpp:312`) counts room in what
  is on offer in a trade, a bag or a stack, which `__queryDestination`
  (`player.cpp:3058`, `3098`) passes over: part of an addition is given twice.
  With stacks of 95 and 98, one of 50 on offer, no free place and 30 to add, the
  room is counted as 57; 5 go onto the first stack, a nested call puts 2 onto the
  second and fails for the rest, and the outer call reports 25 as left over,
  which are dropped: 32 in all. `addMoney` makes money in the same way. Where
  room is hidden, `AnswersAreTrue` and `PaidExactly` only say that nothing is
  lost.
- `removeMoney` without `canDrop` may refuse and keep some of the money, although
  it means to give it back (`game.cpp:2355`). With coins of 10000, 100 and 1, a
  price of 10001 and a stack of two of the best in the only place that becomes
  free, 99 of the second fill that place, 99 of the third find none, and of the
  10100 to give back the first coin finds none either, so `addMoney` stops: the
  player has 9900 left of 20000. It takes three kinds of coins; `PaidExactly`
  says of a refusal only that nobody is richer for it.
- `addMoney` (`game.cpp:2398`) converts the number of coins left to 16 bits
  before it takes at most a hundred of them: of 65,536 coins, none.
- Who leaves a party stays in its channel (`party.cpp:107`: the pointer is
  cleared before the channel is looked up by it).
- `setSharedExperience` does not update the multiplier in use.
- An item turned into another kind and back within a round has two entries and
  wears out at double speed.
- `Chat::clear` (`chat.cpp:223`) drops the dummy private channel, which
  `getChannelList` (`chat.cpp:1045`) dereferences: a reload must find one in
  `channels.xml`.

## Plan

What may come next: houses with their access lists and auctions, if their state
is taken out of the database's hands; and an instance of `Inventory` with three
kinds of coins, for the refusals of `removeMoney`.
