# A model of retropvp

retropvp is a game server. Clients connect over TCP, log in with a ticket,
choose a character, walk over maps, improve what their character can do, and
keep its items and mounts.
The specifications here are translated from the Go code; each definition
names its lines in `PROJECT.json` under `map`.

- [The system](#the-system)
- [Modules](#modules)
- [What the runs show](#what-the-runs-show)
- [What is proved](#what-is-proved)
- [Where the code disagrees with itself](#where-the-code-disagrees-with-itself)
- [What is not modelled](#what-is-not-modelled)
- [Plan](#plan)

## The system

| Component | State | Operations | What makes it correct |
|---|---|---|---|
| Session registry and login (`server.go`, `session.go`, `session_handle.go` 64-566) | `Server.sessions`, `sessionByAccountId`, `sessionByCharacterId`; status, account and character of each session; the characters in the database | connect, frame check, ticket, key, version, gifts, select, create and delete a character, enter the game, disconnect, kick, teardown | one session per account and per character, entries that point to live sessions, an account that comes free again |
| Server lifecycle (`cmd/retropvp/main.go`, `server.go`) | the context, WaitGroups and error channels, `Server.mu`, the listener, the state of the game server in the database | start, accept, maintain, broadcast, shutdown | goroutines end before what they use, the mutex is not held by the slow, shutdown ends, errors are reported |
| Map presence and walking (`session_handle.go` 753-902 and 1891-2023, `action.go`, `sendMsgToMap`) | map and cell of each character in the database, `gameActions`, `busy`, what each client shows | enter, list the map, walk, cancel, acknowledge, exit, leave | players see who is on their map, walks start where the player stands |
| Characteristics and spells (`util.go`, `session.go` 719-941, `session_handle.go` 1443-1627) | level, points, characteristics and spells of a character | boost, reset, set the level, boost, forget and move a spell | points are neither made nor lost, spells fit the level |
| Inventory, equipment, item sets (`session.go` 943-1906, the item handlers) | items of a character, their positions, whether it rides | buy, wear, take off, move, destroy, eat, ride; `checkConditions` | one row per position that fits it, nothing worn together that excludes itself, conditions hold, nothing lost or doubled, handlers return |
| Mounts, sheds, certificates (the mount handlers, `deleteInvalidMounts`) | mounts, certificates, sheds, the mount a character uses | buy, put in and take out, equip, ride, free; the maintenance deletes old ones | a mount is in one place, changes no hands, and is not deleted while it is used |
| Markets and dialogs | the market a session has open | open, buy, leave | what is paid is delivered |
| Chat | channels of a character | subscribe, send, commands | - |
| Password cipher (`crypto.go`) | none | encrypt, decrypt | one undoes the other |

How they interact. `run` starts `ListenAndServe`, which starts the accept loop
and the maintenance loop; the accept loop starts one goroutine per connection,
which starts a reader. The reader of a connection handles its packets one after
the other; readers of different connections interleave at every call of the
database and every section under `Server.mu`. They meet in three places: the
registry (memory, under the mutex), the database (atomic calls, some of them
under the mutex), and the connections of other clients, to which broadcasts
write. Nothing is cached between two handlers but the fields of a session.

What is hard: a second login kicks the first session, which goes on for a
while; ownership and limits are checked in one call and relied on in a later
one; broadcasts find their receivers under the mutex and write after it was
given back; deferred calls have an order that matters; handlers write a
character more than once, and the deadline of five seconds, or the database,
may cut them short. `hazards` in `PROJECT.json` lists each of these at its
line, with the properties that cover it.

## Modules

| Module | Models | Composed of |
|---|---|---|
| `ExclusivePlay` | what the registry promises: accounts have one holder, who plays one of the account's characters | - |
| `Sessions` | connections, login, registry, characters in the database | implements `ExclusivePlay` |
| `SessionsProofs` | theorems about `Sessions` | `Sessions` |
| `Lifecycle` | the goroutines of a run, the mutex, the state in the database | - |
| `LifecycleProofs` | theorems about `Lifecycle` | `Lifecycle` |
| `MapPresence` | who is where, who is shown where, walks | takes from `Sessions` that one session at a time plays a character |
| `MapPresenceProofs` | theorems about `MapPresence` | `MapPresence` |
| `BoostCosts` | `calcBoost` as a function | - |
| `BoostCostsProofs` | lemmas about that function, and about recursive functions | `BoostCosts` |
| `CalcBoost` | `calcBoost`, one step per iteration | `BoostCosts` |
| `CalcBoostProofs` | theorems about `CalcBoost` | `CalcBoost`, `BoostCostsProofs` |
| `Progression` | level, points, characteristics, spells of one character | `BoostCosts` |
| `ProgressionProofs` | theorems about `Progression` | `Progression`, `BoostCostsProofs` |
| `Inventory` | the items of one character, call by call | takes from `Mounts` that a ride may be refused |
| `InventoryProofs` | theorems about `Inventory` | `Inventory` |
| `MountKeeping` | what happens to a mount: bought by one character, lost, deleted | - |
| `Mounts` | certificates, sheds, mounts in use, the maintenance | implements `MountKeeping` |
| `MountsProofs` | theorems about `Mounts` | `Mounts` |
| `MC...` | small instances for TLC | the module after `MC` |

Definitions whose comment begins with *Mutant* are plausible bugs; no
specification uses them. Put in the place of the definition after them, they
violate the property `PROJECT.json` names, which shows that the property
depends on that code.

### Sessions

`pc[s]` says where the goroutines of a session are: not connected, reading,
inside a handler, returned, gone. A handler is split where others can run: the
part up to its last read before it changes something, then the change. A point
is named after what comes next; `subject` is the account or character it is
about. Sections under the mutex touch only memory, so each is one action and
the mutex needs no variable here (`Lifecycle` has it).

`Admitted` is the table of `frameMessage`. Its last row is the missing case of
`statusIdle`: a session in the game may send every login packet again.
`IdlePackets` is what the clients of a model send then. It is not a guard of
the code: `sessions_any_client` lets them send all of them, the other runs say
what they assume.

`unread` counts whole packets left in the buffer of a closed connection. A
kicked session still handles those, which is why a kick is not yet the end of
it. `stored` tells characters that never existed from deleted ones: the
database never gives an id twice.

Tickets are external: `SendTicket` takes any account, the strongest
environment. One process of the game server is assumed: the registry is its
memory, while the characters of an account are counted over all servers, so
`CharacterLimit` and `PlayedIsStored` say nothing of a second process on the
same database.

`stalled` are clients that keep their connection and read no more. Writes have
no deadline, so a handler that writes to one does not return until that
connection is closed. `createGame`, `tellMap` and `leaving` are the points at
which `sendMsgToMap` waits for others; who is on which map is not known here,
so the receivers may be any session with a character. `WritesReturn` is when a
handler can go on, and fairness asks for nothing more.

### Lifecycle

One variable for each goroutine. A send on an unbuffered channel and its
receive are one action, and so is what a deferred call does unless others could
see something in between: `CloseListener`, `Retract`, `ServeWaited` are the
deferred calls of `ListenAndServe` in the order they run. `mu` is the mutex.
A broadcast takes it (`LockMap`), gives it back with the list of receivers
(`UnlockMap`) and then waits until all of them are written to.

`MayHappen` turns failures on and off, `MayStall` says whose clients may stop
reading. A client that stalled blocks `MessageSent` to it for ever, because
connections have no write deadline.

Broadcasts go to every tracked session instead of those on one map: more can
block, and the safety properties do not ask who is on a map. A closed
connection has nothing left in its buffer here; the packets a kicked session
still handles are in `Sessions`.

### MapPresence

`place` is the map and the cell in the database, `screen` what a client shows.
`sendMsgToMap` is `SendMsgToMap` (receivers found under the mutex), one
`Deliver` for each goroutine, in any order, and `Broadcasted` when all have
returned. `GameGetExtraInformations` reads the players of the map under the
mutex and `GameMapLoaded` shows them later, with whatever has changed in
between. `Path` stands for `validatedPath`: the cells it can reach from a place.

A session in the game may select a character and enter anew (`MayEnter`, the
missing case of `frameMessage` again); `Reselects` are the players whose clients
do. The session then plays that character, and its unfinished walk and its count
of walks stay: the code resets neither. The walk of one character may thus be
acknowledged for another, from a cell or on a map its path was not validated
for, and no property says the contrary. What stays true, of all clients, is
`ActionIsCurrent`: the character that *began* the walk still stands where it
began, so that it finishes no path but its own if it is selected again. Which
character that is (`by`) is history, the code does not keep it. An entry of the
character switched away from stays in the registry; after the session ended it
points to nobody (`Ghost`).

Four things are left on screens that the code does not take away: a player
listed just before leaving, a receiver that changed maps before it was written
to, a player whose handler failed, and a character its session switched away
from. Nothing in the repository promises
otherwise, so no property does; `NobodyMissing` says that nobody is *missing*.

### CalcBoost, Progression

`CalcBoost` has the loop as a state machine, `BoostCosts` the same loop as a
recursive function; `LoopIsFunction` shows they agree. `Progression` calls the
function. `setLevel` writes three times, and every write is an action:
`SetLevel`, then `LevelRaised` or `LevelLowered`, then `SpellsTrimmed`.
`SetLevelFails` ends it after any of them. Two variables are history: `spent`,
the points paid since the last reset, and `undone`, what a failed `setLevel`
left as it was at the old level. `PointsBalanced` and `SpellsFit` say what
repairs it: a reset for the points (a later change of the level carries the
error along), a completed change to a lower level for the spells (a gain of a
level forgets none).

### Inventory

The operations on items call one another: `equip` calls
`unEquip`, which calls `moveItemToPosition`, which may call `unEquip` for what
is in the way and `removeItem`; `checkConditions` takes off what may no longer
be worn and starts again until a round changes nothing, and it and
`mountOrDismount` call each other. `calls` is the stack of what the running
handler has still to do, as records: a call is replaced by the calls it makes,
`Continue`, and a call that writes a row is an action of its own. Values read
before a call and used after it are fields of the call (`Update` carries the
quantity of a stack as `moveItemToPosition` read it); rows read where they are
used are not. `HandlerFails` may end the handler and its session between any
two calls.

A kind is a template with its effects, which is what `sameItems` compares;
`Item(k)` are the ids the database gives to rows of a kind. A new id is the
smallest choice left for its kind: ids only name rows, and distinct sets for
distinct kinds keep `NewItem` from depending on the order of purchases.

Two variables are history. `owned` counts the units bought and not destroyed;
a failure adjusts it downwards only, so that `Balanced` forbids doubling
always and losing except by a failure. `unchecked` is set when a handler ended
before its `checkConditions`, by a failure or where the code returns early: an
item that may not go to its position is refused after what was there was taken
off, and the handler then returns without a check.

A purchase pays before it delivers, `BigStoreBuy` then `AddItemToInventory`;
the market a session has open is the guard. `SetLevel` is the write of
`Progression` the conditions depend on. A row of a market is taken to offer one
unit, where the code adds the quantity of the row, which is data. Conditions are
any function of what is worn, the level and the riding; those on a
subscription, which lapses with time, are not modelled as such.

### Mounts

The rows of mounts, certificates and characters, each written by one action.
`pc` and `subject` say which mount the handler of a character has in its hands.
`listed` is what `deleteInvalidMounts` still has to visit, with the date it
read: a handler may have moved the mount since. `Tick` lets time pass.
`server` is what has become of the maintenance: the first error of a read or a
deletion ends it, and `ListenAndServe` then waits for the accept loop
(`lifecycle_error`), so that the process goes on serving the connections it has
and lists no more (`hung`); it may be stopped and started again.
`born` is history: ids of mounts are not given twice. A certificate is one item
of quantity one, as a market row of quantity one delivers it.

`KeeperOf` maps this to `MountKeeping`: a mount is kept by its owner, else by
whoever carries its certificate or has it in its hands, and is adrift when a
failure, a destroyed certificate or a refused purchase left it to nobody. One
step of the code is one step there or a stutter; that a mount never passes from
one keeper to another, and is not found again once adrift, is what the client
cannot change by naming somebody else's mount.

Two consequences of the code show in the properties as exceptions, because
nothing in the repository promises otherwise. An old listing may delete a mount that was put into the shed after it was read
(`ListedStale`): its owner then has a `MountId` without a row, and
`handleGameCreate` ends every session of that character. A purchase that turns
out too expensive leaves a mount nobody keeps, until its validity ends.

## What the runs show

| Run | States | Properties |
|---|---|---|
| `sessions_any_client` | 424 k | `TypeOK`, `AccountExclusive`, `CharacterExclusive`, `CharacterLimit`, `RegistryInv`, `ImplementsExclusivePlay` |
| `sessions_regular_client` | 179 k | `RegistryExact`, `PlayedIsStored`, `KickedAccountIsFreed` |
| `sessions_second_ticket` | violated | `RefusedOnlyIfLoggedIn` |
| `lifecycle_failures` | 11.9 k | `TypeOK`, `PoolOutlivesUsers`, `ReaderIsTracked`, `OnlineMeansListening`, `ShutdownCompletes` |
| `lifecycle_clients` | 3.6 k | `DroppedIsForgotten`, `MutexIsReleased` |
| `lifecycle_error` | violated | `ErrorIsReported` |
| `presence` | 840 k | `TypeOK`, `ActionIsCurrent`, `NobodyMissing`, `BusyWhileMoving`, `LeaverDisappears` |
| `calcboost` | 2.5 k | `BonusBounded`, `LoopIsFunction`, `ChargedFairly` |
| `calcboost_tiers` | violated | `EveryPointAtItsPrice` |
| `progression` | 1.81 M | `TypeOK`, `PointsBalanced`, `SpellsFit` |
| `inventory` | 314 k | `TypeOK`, `WellPlaced`, `WornWell`, `BonusIndexed`, `ConditionsHold`, `Balanced`, `HandlersEnd` |
| `mounts` | 222 k | `TypeOK`, `OnePlace`, `UsedIsOwned`, `DeletedIsUnused`, `AdriftIsDeleted`, `ImplementsKeeping` |

The run `inventory` is about one character: its handlers run one after the
other and no other session touches its items. What it explores are the orders
of handlers and of the calls inside one, and a failure at each point.
`BonusIndexed` is the bound behind an index in `sendItemSetBonus` that the code
checks one too generously: the check never matters, because one template is
worn once and a swap frees a position before it fills it.

In `mounts` two characters and the maintenance interleave at every write, and
the process may stop after each. `AdriftIsDeleted` promises nothing once the
server has stopped serving, since nothing starts it again by itself.

What two runs of a module differ in is who its clients are. In
`sessions_any_client` they repeat login packets in the game. In
`sessions_regular_client` they do not, and the registry is then exact; but they
may stop reading, and a session whose connection was closed frees its account
unless a client that plays is one of those. That exception is real: without it
TLC finds a session that waits in its farewell to the map for ever, while its
account is refused as logged in. In
`lifecycle_failures` everything may fail around one client, in
`lifecycle_clients` the server is well and one client blocks another.
`lifecycle_error`, `sessions_second_ticket` and `calcboost_tiers` each check
one statement that the code does not keep.

Bounds, and why they are enough.

- *Sessions.* Two connections and two accounts when clients may send anything:
  every property is about two sessions, or one session and one entry, and an
  account with two character ids has room for one more than the limit. The same
  two when clients log in once: to one account, where one kicks the other, or
  to both, where one leaves and waits for the other. A third connection, which
  logs in after the kick, is in the theorems only. `MaxBuffered = 1`: one
  packet handled after the connection was closed is the case that matters, and
  each further one does the same. `MaxCharacters = 1` for 15: the limit is reached with the
  characters there are. Sessions are symmetric; runs with liveness use no
  symmetry.
- *Lifecycle.* One client with every failure: a goroutine of a client meets
  those of another one only at the mutex and as the receiver of its broadcasts,
  and the accept loop waits for each alike. Two clients, whose setup may fail,
  where these two meetings are the question. A run handles each connection
  once.
- *MapPresence.* Two players: each property is about a pair, and another
  player's steps change neither its places nor its screens (the theorems hold
  for any number). Two maps with an exit to each other, so that players cross.
  Three cells, so that a walk can be cancelled between its ends; `MaxBusy = 2`,
  so that a walk can be overridden. One player
  selects its character again in the game, with a walk unfinished or not. That
  it selects *another* one is too much for the run with its liveness property;
  the theorems cover it, and TLC finds the invariants to hold with
  `ThreeCharacters`, two cells, `MaxBusy = 1` and `SPECIFICATION Spec` (6.0 M
  states).
- *CalcBoost, Progression.* Tiers of three points for a hundred: all positions
  relative to a border occur, over up to five tiers. Four levels, spells whose
  grades ask for levels inside and at the end of that range, three positions.
  `MaxPoints` stops points from growing when `setLevel` is cut short;
  `MaxInt` is larger than every sum.
- *Inventory.* Seven kinds, each there for a branch: a two-handed weapon and a
  shield, a ring and one of the same template with other effects (both in a set
  with the shield), a pet, a candy and an item for quick slots. Three kamas:
  three units that meet in one position, one stack and one split, and a
  destroyed unit that pays for another. The ring asks for the shield, which
  asks for the higher of two levels and comes later in the check, so that one
  round of `checkConditions` fails something the round has passed.
- *Mounts.* Two characters, who may name each other's mounts; two mounts, one
  that is in use when another is equipped, or is listed when another is freed.
  Each property is about one mount and one or two characters. `Lifetime = 1`,
  `MaxTime = 3`: a certificate expires, is issued anew with another date, and
  expires again, which is what a listing can be old about.

Fairness. Goroutines run and calls of the database return (a handler has five
seconds): weak fairness of each goroutine's own steps. `sync.Mutex` hands
itself to whoever has waited for a millisecond: strong fairness of taking it.
A closed connection fails to read and a closed listener to accept. In
`presence` clients read what they are sent. In the Lifecycle runs one may stop
for good: `MutexIsReleased` holds nevertheless, `ShutdownCompletes` and
`DroppedIsForgotten` except that case. Clients owe
nothing else: they never have to connect, send or leave. The ticker of
six hours cannot win over a cancelled context for ever (`select` chooses at
random): strong fairness of `MaintainCancelled`. In `inventory` the goroutine
of the connection goes on until its handler returns: weak fairness of `Step`,
nothing for handlers. In `mounts` time
passes, and while the server serves the ticker lists again and each row of a
listing gets its turn: weak fairness, which says nothing once an error has ended
the maintenance. Nothing has to start the server again. In
`sessions_regular_client` a handler goes on as long as what it writes is read
(`WritesReturn`), and no client has to read.

Deadlock is checked in `presence`, where players can
always come back, in `inventory` and `mounts`, whose character or maintenance can always go on, and in
`lifecycle_failures` and `lifecycle_clients`, where `Exited` is the only end;
`lifecycle_error` is about a server that hangs. The other models may stop:
every connection of a `Sessions` run is used once, a boost is computed, and
`Progression` is bounded.

## What is proved

Every safety property that a passing run checks is also a theorem, which holds
for every value of the constants under the assumption of its module. TLC
evaluates each assumption on its runs. What they ask for:

- ids are distinct from the model's null values, limits are natural numbers,
  tables of tiers start at zero and grow;
- `Sessions`: before the server starts, no account has more characters than
  the limit (the database could be edited by hand, and the limit lowered);
- `CalcBoost` and `Progression`: no sum of a characteristic and an amount
  passes the machine integer (a hazard without a property);
- `Inventory`: the types and positions of `equip` and `checkConditions`. The
  position of a pet is that of pets only, no type goes to both hands, items of
  a set are worn at the positions of equipment, one of each template at a time,
  and are never used from a quick slot; `checkConditions` looks at every
  position worn. And of the static data: a set has as many bonuses as
  templates.

Two theorems about `Sessions` have a hypothesis besides, `LoginOnce`: a client
in the game sends none of the packets that would log it in again. It is what
`sessions_regular_client` checks; without it `RegistryExact` is false, which
is the finding of `sessions_second_ticket`.

- `SessionsProofs`. `TypeOK` is not inductive: that a handler about to delete
  works on a character needs to know what `subject` is at each point. The
  induction runs over `TypeOK` and `RegistryInv`, whose parts say that a
  tracked session is exactly one whose goroutines run, that a session with an
  account is the one its entry points to, that the subject of a handler belongs
  to the session's account, and that so does its character. From these follow
  `AccountIsExclusive` and `CharacterIsExclusive` (two sessions with one
  character would have one account, hence be one), the action property
  `DeletionIsSafe`, and `Refinement`: initial states map to initial states of
  `ExclusivePlay`, every step to one of its steps or a stutter.
  For `LimitIsKept` the invariant `LimitInv` remembers the count: a handler
  between the check and the creation has an account below its limit, and no
  other session can create for it, because one session holds an account.
  `LoginInv` says how far a client that logs in once has come and which ids its
  session then has; it gives `LookupsAreExact` and `PlayedStaysStored`: who
  deletes a character holds its account, and is not yet in the game.
- `MapPresenceProofs`. `WalkInv` (types; a session plays a character of its
  own that is registered under it; busy counts unfinished walks, and handlers
  past an exit have none) gives `TypeCorrect` and `WalkersAreBusy`. That two
  players never play one character (`Distinct`), so that a step of one leaves
  the other where it is (`OthersStay`, `WalkersStay`), gives `WalksAreCurrent`:
  a walk is begun by a character of its player (`OwnWalks`), which only that
  player moves, and what moves it ends the walk. For `NobodyIsMissing`
  the invariant `PresenceInv` follows a player from announcement to listing: a
  player who is on a map is on the screen of another who has loaded it, or is
  about to be, because a listing that is not yet shown holds it or a broadcast
  that is not yet written goes there.
- `LifecycleProofs`. `LifeInv`: what has returned before what, in the order of
  the deferred calls and the WaitGroups (`EndInv`), which points of a
  connection are between its entry in the registry and its removal
  (`TrackInv`), and when the listener is open (`ListenInv`). It gives
  `PoolIsOutlived`, `ReadersAreTracked` and `OnlineIsListening` for any number
  of clients and any failures.
- `BoostCostsProofs`. What the recursive `calcBoost` returns. The library's
  theorems about induction and recursion take a predicate as a parameter, which
  the provers cannot instantiate; `Induction` and `RecursionExists` say the
  same of a *set* of numbers and of a function on pairs, from the
  well-foundedness of `<` alone. With them the function is known tier by tier
  (`AfterTiers`), ends where nothing is left to add (`NothingLeft`), and gives
  at most the highest rate of its table for what it charges (`BoostFair`).
- `CalcBoostProofs`. `BonusIsBounded`: what a boost gives and what is left add
  up to what was asked for. `LoopGivesFunction`: before tier `i` the loop has
  what the function has after `i - 1`, so `Progression` may use the one for the
  other. `AlwaysChargedFairly`: `ChargeInv` says that the loop never looks at a
  tier it has not reached (`Reached`), from which the upper bound on the price
  follows, and where it is when it touches two tiers only (`Exact`). A third
  tier is where the code goes wrong: it measures from the value before the
  boost, which `calcboost_tiers` shows.
- `ProgressionProofs`. `SpellsAlwaysFit`: `SpellInv` says at which of the two
  levels every known spell can be learnt between the writes of `setLevel` and
  when it is over, and that no two spells share a position. What can be learnt
  at a level can be at each higher one (`LearnableHigher`). The grade of a spell
  has no upper bound in the property: a new character begins with grades for
  higher levels, as the code creates it.
  `TypesAreKept` and `PointsAlwaysBalanced` come from `PointsInv`: between the
  writes of `setLevel` the points are those of the level before
  (`LevelOfPoints`), and their sum with what was paid is five per level of it,
  unless a failure left them behind. That a characteristic is paid for, at the
  best rate of its table, rests on `BoostFair`.
- `InventoryProofs`. Three invariants, one on the other.
  `Inv`, for `AlwaysWellPlaced`: that a row has its position to itself
  is not inductive, because a new row is created one call after the position
  was seen to be free. `Room` says what is between the two: the stack of calls
  never holds a creation but right after `Places`, behind at most the removal
  that makes the units for it, and a removal keeps free what is free.
  `Good`, for `AlwaysWornWell`, `ConditionsAlwaysHold` and `BonusesAreIndexed`,
  says what each call on the stack relies on. `Runs` is what the innermost one
  finds: the row it moves is there, the position it fills is free, its item is
  allowed there, and a check of the conditions comes last. `Waits` is the same
  of a call below others, up to what those still have to take away (`Leaving`):
  a waiting `put on` may find its position held by one item, the one the move
  above it takes off. `Above` says what can be under what; under a check only
  checks and the pet it makes room for. `checkConditions` ends a round without
  a change only when everything worn meets its conditions, which is the
  induction step for `ConditionsHold`. `BonusIndexed` counts the templates of
  the items worn, which differ.
  `Ledger`, for `AlwaysTyped` and `AlwaysBalanced`: of each kind, the rows and
  what the innermost call is about to write (`Due`) add up to the units owned.
  Between a removal that makes room and the write that follows it the units are
  in no row, and the balance of the rows alone is off by them. A sum over rows
  is a fold, about which no induction is possible here, so it is counted as the
  set of its units: `TotalCounts` shows, by induction over the strict subsets
  of the rows, that the fold is the cardinality of that set, and what a step
  does to a sum is then what it does to a set.
- `MountsProofs`. `ClaimInv` (certificates, hands and owners exclude each
  other), `UseInv` (what is in use is owned; who frees has dismounted) and
  `DateInv` (a mount with an owner has no date, and the maintenance lists only
  mounts with one) give `InOnePlace`, `UsersOwn`, the action property
  `DeletionIsSafe` and `Refinement`. The refinement needs that a mount has one
  keeper at most (`OneKeeper`), for the CHOOSE in `KeeperOf` to mean something,
  and then follows handler by handler from how each changes the claims.

The theorem `DeletionIsSafe` of `SessionsProofs`, that a character is deleted
only under the session that holds its account, is not in a run; neither are
`CallsFindTheirGround` and `LedgerIsKept`, which state `Good` and `Ledger`.

Only model-checked is what needs fairness, because the prover has neither
ENABLED nor WF: `KickedAccountIsFreed`, `ShutdownCompletes`,
`DroppedIsForgotten`, `MutexIsReleased`, `LeaverDisappears`, `HandlersEnd`,
`AdriftIsDeleted`. The three statements the code does not keep are refuted by
their runs.

## Where the code disagrees with itself

- `RefusedOnlyIfLoggedIn`: a session in the game may present a ticket for a
  second account; when it ends, only the second one is given back, and logins
  to the first are refused as "already logged in" until the server restarts.
- `ErrorIsReported`: when the accept or the maintenance loop fails,
  `ListenAndServe` waits for the other before it returns the error that would
  stop it. The server neither listens nor exits.
- `EveryPointAtItsPrice`: a boost over three tiers is charged less than its
  points, which the test's table and its case for two tiers charge one by one.

## What is not modelled

- The branch of `equip` for the certificate of a mount (`session.go`
  1223-1340): both callers put on at positions up to the shield or at the one
  for candies, never at the one this branch is for.
- `handleMountRename`, which changes a name.
- Challenges: `action.go` announces one to the map; the handlers that accept
  and refuse one are not implemented. The busy counter of the other session,
  which it reads after the mutex was given back, has no reader in the model.
- A second process of the game server on the same database.
- A session in the game that deletes the character it plays, or presents a
  second ticket, in `MapPresence`; `Sessions` has both.
- The redrawing of a sprite that mounts or turns: it adds a player to screens
  it is on already.
- Chat: channels are written by one handler and read by the loop that formats
  them. The chat commands that change a character are actions of
  `Progression`.
- The password cipher, which no other code calls.
- The lists of markets and the dialogs of NPCs, which read the static cache.
  It is filled before the first client and only read afterwards; sprites,
  statistics and item effects format what was read.
- Command line, logging and tracing, which run before anything is concurrent.
- The databases are external: a call is an atomic read or write that may fail.
- Rate limiting delays packets and changes nothing else. Machine integers are
  unbounded here; `CalcBoostAssumption` names where that matters.

## Plan

What is left, most important first. The modules without a bound on lists or
amounts take them as constants, so that they can be proved about.

1. What liveness rests on, as far as it is safety: a measure of the stack in
   `Inventory` that every step of a handler lowers, so that only fairness is
   left for `HandlersEnd`; the order in which `Lifecycle` lets go.
2. `MapPresence` as a client of what `Sessions` promises: one instance in which
   a kicked session finishes its handlers while the next one enters.
3. The busy counter of another session that a challenge reads after the mutex
   was given back.
4. A `calcBoost` with integers of a width.
