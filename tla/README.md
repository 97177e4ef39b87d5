# A TLA+ model of RustEmu-Core

RustEmu-Core is a World of Warcraft 3.3.5a server of the MaNGOS family: a login
server (`realmd`), a world server (`mangosd`), a game library (`game`), and
infrastructure (`shared`, `framework`). This directory holds TLA+ modules of the
parts whose correctness depends on the order of events. TLC checks them on small
instances, and TLAPS proves the central invariants for every instance.

The repository has no unit tests, so the reference is the code with its comments.
Source paths below are relative to `src/`.

## 1. The system

### Threads

| Thread | What it runs | Shares with others |
|---|---|---|
| world thread | `WorldUpdateLoop` in `mangosd/Main.cpp`: `World::Update` until `m_stopEvent`, then `CleanupsBeforeStop` | everything |
| acceptor and network threads | Boost.Asio handlers of the sockets | `addSessQueue`, a session's `_recvQueue`, `WorldSocket::m_Session`, the send buffer |
| delay thread, one per database | `SqlDelayThread::run` | `m_sqlQueue`, the result queue, the connection |
| console thread | `CliRunnable::run` | `cliCmdQueue`, `m_stopEvent`, `m_ExitCode` |
| remote administration, SOAP, freeze detector | front ends and a watchdog | `cliCmdQueue`, `m_worldLoopCounter` |

Maps, players and all game tables belong to the world thread alone.

### Components

| Component | State | Operations | What is hard | What makes it correct |
|---|---|---|---|---|
| Session table (`game/World.cpp`) | `m_sessions`, `m_QueuedSessions`, `addSessQueue`, `m_playerLimit` | `AddSession`, `AddSession_`, `RemoveQueuedSession`, `UpdateSessions`, `.server plimit`, `KickAll`, `CleanupsBeforeStop` | reconnects while a session is queued, active or loading; raw pointers; a limit that changes | no dangling pointer, first in first out, the limit holds, no place stays unused, positions are told |
| Asynchronous login (`game/CharacterHandler.cpp`, `game/WorldSession.cpp`) | `m_playerLoading`, `_player`, query holders | `HandlePlayerLoginOpcode`, the callback, `LogoutPlayer` | the callback finds its session by account long after it was asked for | the player belongs to the session that asked; nobody is left behind at the stop |
| Connection (`game/WorldSocket.cpp`, `shared/Network/`) | `m_Session`, `closed_`, `sockets_`, `connections_` | open, authenticate, close | three threads close and authenticate with few locks | the pointer is valid, every closed session is deleted |
| Sending (`shared/Network/Socket.cpp`, `NetworkBuffer.cpp`) | `out_buffer_`, `write_operation_` | `SendPacket`, `AppendPacket`, `StartAsyncSend`, `OnWriteComplete` | senders append under a write in flight | bytes arrive once, in cipher order |
| Receiving (`game/WorldSocket.cpp`) | `read_buffer_`, `m_Header`, `m_RecvPct` | `StartAsyncRead`, `ProcessIncomingData` | reads break packets anywhere | packets are cut right and all handled |
| Packet dispatch (`game/WorldSession.cpp`) | `_recvQueue`, the session's status | `Update`, the two filters | two updates take turns at one queue while the player comes and goes | order, ownership of packets, no packet is stuck |
| Asynchronous database (`shared/Database/`) | `m_sqlQueue`, per-thread transaction, result queue | `Execute`, transactions, `AsyncQuery`, `run`, `HaltDelayThread` | writes go three ways; failures inside transactions; the halt | order, all or nothing, nothing lost at the halt, callbacks |
| Shutdown (`game/World.cpp`) | `m_ShutdownTimer`, `m_ShutdownMask`, `m_ExitCode`, `m_stopEvent` | `ShutdownServ`, `ShutdownCancel`, `_UpdateGameTime`, `StopNow` | idle shutdowns, replacement, the console's unsynchronised `StopNow` | it happens, on time, with the right code |
| Unit state manager (`game/StateMgr.cpp`, the movement generators' callbacks) | `m_actions` by priority, `m_oldAction`, the unit-state flags | `PushAction`, `DropAction`, `DropAllStates`, `Update`, death, respawn | the table is changed from inside `Finalize`; an action is dropped while it is interrupted | the highest action runs, only it moves the unit, its states go with it |
| Event processor (`framework/Utilities/EventProcessor.cpp`, `game/WorldObjectEvents.cpp`) | events by time, queue of new events | `AddEvent`, `Update`, `KillAllEvents`, `RenewEvents` | events added and killed while events run | each event is executed or aborted, and deleted, once |
| Spell casting of a unit (`game/Spell.cpp`, `game/Unit.cpp`) | `Spell` objects, `m_currentSpells` | `prepare`, `cast`, `update`, `cancel`, `finish`, `SetCurrentCastedSpell`, `InterruptSpell` | two parts hold one `Spell` by raw pointers; casts start and end casts | no slot and no event points to a deleted spell; what is finished is freed |
| Auctions (`game/AuctionHouseHandler.cpp`, `AuctionHouseMgr.cpp`) | `AuctionsMap`, `mAitems`, table `auction` | sell, bid, buy out, cancel, the update that ends auctions, loading | a handler is several transactions, and the process may die between two | items and money are neither lost nor doubled; who pays gets the item |
| Mail (`game/MailHandler.cpp`, `Mail.cpp`, `ObjectMgr.cpp`) | `m_mail` of each player, tables `mail`, `mail_items` | send, take, return, delete, expiry, what a login loads | mails live in memory and in tables; a receiver may be in the middle of his login | tables and memory agree |
| Trade (`game/TradeHandler.cpp`, `Player.cpp`) | a `TradeData` on each side | begin, change, accept, withdraw, exchange, cancel | acceptance and change cross; a partner leaves | each gets what he saw when he accepted |
| Login server (`realmd/`) | status of the login, session key | challenge, proof, reconnect, realm list | messages in any order | no realm list before a proof |
| Battleground queues (`game/BattleGround/`, `game/Player.cpp`) | `m_QueuedGroups`, a player's queue slot and battleground, counts of invited players, `BGFreeSlotQueue` | join, invite, port, leave, expire, log out, log in, update | one player is known to the queue, to his slot and to a battleground, which change one by one; he may be between two maps or offline | the counts are the players', no team above its places, invitations end once, free places are offered |
| Groups, dungeon finder, instance saves | tables on the world thread | opcode handlers | long sequences of legal calls | one group, one leader; one save per instance |
| Guilds, arena teams, pools, loot, maps, spell effects, AI, scripts | tables, geometry, content | hundreds of handlers | game rules | not a finite model |

`PROJECT.json` lists every component with its status, and the hazards of the code,
each at its line.

### How they interact

A network thread creates a `WorldSession` in `HandleAuthSession` and passes it to the
world thread through `addSessQueue`. It then pushes packets into `_recvQueue`, which
`World::UpdateSessions` and `Map::Update` empty with different filters. A login hands
a query holder to the delay thread; its callback comes back through the result queue
and finds the session by its account. A kick, a failed send or a deleted session
closes the socket from the world thread; a broken connection closes it from the
network thread; `WorldSession::Update` notices. Shutdown ends the world loop, kicks
and saves everyone and halts the delay threads.

Inside the world thread components call each other. Packets of a player, events of his
event processor, `BattleGround::Update` and the manager's scheduled update all change the
queue of a battleground. A map updates its units; a unit
executes its events, then clears its spell slots, then updates the current action of
its state manager. Casts push and drop actions and cast further spells from inside
their effects. The handlers of auctions, mails and trades share one player: his money,
his bag and the mails he has in memory; whatever they change they write to the
character database by transactions that the delay thread stores one after the other.

## 2. Modules

State variables and actions carry the names of the members and functions they model;
`map` in `PROJECT.json` gives the lines of every definition.

| Module | Models | Composes |
|---|---|---|
| `WorldSessions` | session table, login queue, asynchronous login, stop | |
| `WorldSocket` | opening, authenticating and closing connections | |
| `WorldSocketProofs` | proofs about it | `WorldSocket` |
| `NetworkBuffer` | the buffer of `NetworkBuffer.cpp` as operators on records | |
| `Socket` | what both directions of a connection share | `NetworkBuffer` |
| `ByteChannel` | abstract: a channel that delivers accepted bytes in order | |
| `SocketSend` | the sending side | `Socket`; implements `ByteChannel` |
| `SocketReceive` | the receiving side | `Socket` |
| `SocketProofs` | proofs about the buffer's operations and both directions | `SocketSend`, `SocketReceive` |
| `SessionPackets` | the packet loop, filters, login and logout of one account | |
| `SessionPacketsProofs` | proofs about it | `SessionPackets` |
| `OrderedStore` | abstract: operations carried out whole, in order | |
| `SqlDelay` | the database's delay thread | implements `OrderedStore` |
| `SqlDelayProofs` | proofs about it | `SqlDelay` |
| `ShutdownTimer` | planned shutdown, `StopNow`, exit code | |
| `WorldProofs` | proofs about both parts of `World.cpp`, which share no state | `WorldSessions`, `ShutdownTimer` |
| `UnitStateMgr` | the actions of one creature and the states they set | |
| `EventProcessor` | the event list of a world object as operators on sequences | |
| `UnitSpells` | the spells one unit casts | `EventProcessor` |
| `Mails` | the character database, and a player's money, bag and mails | |
| `AuctionHouse` | auction house and mailbox, with crashes and restarts | `Mails` |
| `Trades` | the trade window | `AuctionHouse` |
| `LedgerProofs` | sums, the invariant of `Trades`, and what the operations on its tables do to it | `Trades` |
| `TradesProofs` | proofs about `Trades`, and with it `AuctionHouse` and `Mails` | `LedgerProofs` |
| `BattleGroundQueue` | the queue for a battleground, its battlegrounds and players | |
| `BattleGroundQueueProofs` | proofs about it | `BattleGroundQueue` |

`MC*` modules give the constants of the runs their values.

**WorldSessions.** `life` is the lifetime of a `WorldSession` object (created once,
`"auth"` in the network thread, `"adding"` in `addSessQueue`, `"listed"` in
`m_sessions`, `"deleted"`), `socket` and `told` are what the client has and was told.
The world thread's tick is cut into the calls of `World::Update` that touch sessions:
`AddSession_` and its kick of an old session, `UpdateConnected` and
`UpdateDisconnected` for `WorldSession::Update`, `MapUpdate`, the login callbacks, and
the commands. `players` counts loaded `Player` objects of an account: it exceeds one
when a callback overwrites `_player`. `abandoned` remembers accounts that lost a
session in the middle of a login. `LockedQueue::next` may find the lock taken
(`AddSessionLock` / `AddSessionUnlock`) and then looks empty.

**WorldSocket.** One action per access that no lock joins to its neighbours:
`CloseForget`, `CloseTest`, `CloseSet`, `CloseNotify` for `CloseSocket` on any thread;
`AuthCheck`, `AuthCreate`, `AddSession`, `UseSession` for a packet on the network
thread, `AuthThrows` and `PacketThrows` for one whose parsing throws (`BadPacket` is the
`catch` of `ProcessIncoming`, which closes or goes on as the configuration says); `SocketClosed` and `UpdateClosed` for the world thread. `raced` holds the
sockets that got a session in the middle of a close, `stale` those whose pointer was
used after the world thread had cleared it or deleted its session.

**SocketSend, SocketReceive.** A byte is a number: the place where it passed the cipher,
or its place in what the client sent; so an order or a hole shows. The buffer keeps
its positions and does `Commit`, `Consume` and `Prepare` (with `Crunch`) as the code
does, silently ignoring what does not fit. `TakeBytes` is the operating system taking
bytes of a write in flight, at any moment and in any amount.

**SessionPackets.** `opcodeTable` has one packet kind for each way of treatment: status,
processing, and the login, logout and transfer handlers that change the session.
`heap` is the set of packets not deleted. `polite` says that the client sends in-world
packets only when its player is there. One `HandlePacket` is one iteration of the
loop in `WorldSession::Update`. A login query remembers which session of the account asked
(`pending`, `ready`); the callback finds its session by the account alone, and `strayed`
remembers that a result reached a later session than the one that asked.

**SqlDelay.** A write is `[id, by, how]`; a failed statement leaves nothing.
`ExecuteInTransaction`, `ExecuteAtStartup` and `ExecuteDelayed` are the three ways of
`Database::Execute`. A transaction on the connection is split into its statements,
because direct statements of other threads compete for the connection's lock.
`helpersMade` is TRUE where every thread has its `TransHelper`, as `Database.h`
intends, and FALSE for the code as it is, where the first use goes through a null
pointer; the properties are about the intended half. The delay thread's object is
deleted, and empties its queue, or is leaked: `Runnable::m_refs` has no initial value.

**ShutdownTimer.** `sinceUpdate` is `time(nullptr) - m_gameTime`, negative once the
clock was set back; `Elapsed` is its conversion to uint32. A command is two steps, its
guard on `m_stopEvent` and its assignments; the console's two assignments of `StopNow`
fall between them in either order, since `m_ExitCode` is not volatile. `planned`,
`waited` and `wentBack` remember the plan that stands, the game time since, and
whether the clock went back.

**UnitStateMgr.** `acts` is `m_actions`: for each priority nothing, or an `ActionInfo`
with its kind and its three flags. Kinds stand for the movement generators; a slot may
be shared by several. The callbacks (`Initialize`, `Reset`, `Interrupt`, `Finalize`,
`UpdateKind`) are functions from unit states to unit states; `Finalize` of a point
movement may tell a script, which pushes one of `Answers` or nothing. An operation takes
a record of the manager and returns the set of records it may leave (`PushAction`,
`DropAction`, `DropAllStates`); an action of the module is one call from the game, whole.
`unfinalized` remembers kinds that were dropped, while interrupted, without `Finalize`.

**EventProcessor, UnitSpells.** Times are relative to now, so the clock does not grow.
A `Spell` is a record at an address; `events` and `queue` hold its one `SpellEvent`,
`current` is `m_currentSpells`. `Unit::Update` is three actions: `BeginUpdate` (kill if
asked, renew, advance the clock), `ExecuteEvent` for each event that is due, `EndUpdate`.
Between two updates the game casts, interrupts, stops attacks and removes the unit. What
a spell's checks answer and what its effects do is a choice: fail or succeed, and cast
one more spell or interrupt one (`Effects`, to the depth `MaxNest`). `leaked` remembers
spells that lost their event and will never be deleted.

**Mails, AuctionHouse, Trades.** A handler is a function of a record `s` of everything:
the tables (`s.db`), the players in memory (`s.pl`), the auction house (`s.house`,
`s.aitems`). `Commit` notes every transaction the handler ends, in order; `Outcome` then
either lets all of them be stored, or kills the process after some of them and restarts
it from the tables (`Restarted`, which is `LoadAuctionItems` and `LoadAuctions`).
`Crash` is a death between two handlers. `cut` remembers what such a death left stored
by half: an item or money that was in the dying handler's hands. `strayed` remembers the
items that were taken through a mail that does not hold them (`HandleMailTakeItem` looks
in `MItems`, the items of all mails). After either, the bound `Regular`, clients do
nothing more; the rest of the system goes on. A login is two steps,
its queries and `HandlePlayerLogin`, because mails that arrive in between are not in the
results of the queries. `past` remembers money paid to the house or deleted, and who won
which auction. A `TradeData` has `seen`: the offer of the other at the time of the
acceptance, `None` while not accepted.

**BattleGroundQueue.** `player` has for each player where he is (`"world"`, on his way into a
battleground or elsewhere, `"offline"`), the battleground of `m_bgData` (which outlives a
logout), his queue slot with the instance he is invited to, the deserter's aura (due on
arrival, or there), and his pending `BGQueueRemoveEvent`s in order. `queue` is
`m_QueuedGroups` for one bracket: premade and normal groups of each team. `bgs` has the
status, the two counts of invited players, the members and the offline queue of each
battleground. Handlers are functions of a record of everything, as in `Mails`. An event
carries `now`: whether its `m_RemoveTime` still is the `RemoveInviteTime` of the player's
group, the one thing about clocks that is compared. `scheduled` is that the manager has an
update to do. `tainted` remembers battlegrounds whose invitation passed over a player who
was between two maps; `late` that something became possible after which no update was
scheduled.

## 3. Runs

| Run | Question | Bounds |
|---|---|---|
| `sessions_until_stop` | Do broken connections go, logins end, and is no player left at the stop? | 2 players, 2 session objects, limit 1 |
| `sessions_limit_changes` | Do table, queue, flags, positions, admission and order survive a limit that changes? | 2 players and a game master, 3 session objects, limits -2, 0, 1, 2 |
| `socket_close` | Do pointer, registration and count stay right in every race, and are closed sessions deleted? | 2 sockets, 2 sessions |
| `socket_send` | Do the bytes arrive once, in order, all of them? Refines `ByteChannel` | 2 senders, packets of 1 and 2 bytes, buffer 3, 6 bytes |
| `socket_receive` | Are packets cut right wherever reads break them? | header 2, payload 0 or 3, buffer 3, 3 packets |
| `packets` | Are packets handled in order and once, by the right owner? | 11 kinds, 3 packets, 2 sessions |
| `sql_delay` | Are operations whole and in order, do queries call back, is the queue empty at the end? Refines `OrderedStore` | 2 threads, 4 calls |
| `shutdown` | Is the countdown the plan's, does the server stop only as planned, with a code that stands, and does it stop? | delays 0 and 3, ticks of up to 2 s, 1 step back, 3 commands, 1 session, seconds modulo 16 |
| `unit_states` | Does one action run, and do states go with their actions? | 6 pushed kinds, answers of scripts a point or nothing |
| `unit_spells` | Are spells, events and slots in step, and is what is finished freed? | 6 spells, 2 `Spell` objects at a time, 1 cast inside a cast |
| `trades` | Are items and money conserved over any crash, do tables and memory agree, and is a deal what was accepted? | 3 characters of whom 2 at a time, 2 items, 1 auction, 3 mails, 1 place in a bag |
| `battlegrounds` | Do the counts agree with the players, does everything agree about each player, do invitations end once, and are free places offered? | 3 clients and an offline member of a party, matches of 1 against 1, 1 or 2 places a team, 1 or 2 battlegrounds, 1 or 2 pending events, counts modulo 5 |

Why the bounds are enough. Session logic compares sessions of the same account (two
are needed for a reconnect) and places in a queue (three sessions give one active and
two waiting). Buffers of three with packets of two and three reach a full buffer, a
compaction under a write, a split header and a split payload. Three packets are one
that changes the status, one that waits and one that could overtake. Four database
calls hold a transaction with two statements between two other operations. Three
commands plan, replace and cancel. The state manager needs no bound: its table is
finite, and `PushedKinds` has one kind of every priority that callers push and two of the
priority that kinds share. Two spells alive at once are one that is cast while another
flies, sits in a slot or waits to be deleted; the six are the ways a spell is timed and
slotted. One auction is enough because auctions share only the players and their mails;
two who bid against each other refund one another; one place in a bag is a bag that is
full as soon as an item comes. `MaxGold = 4` is the cap that a trade tests and
`ModifyMoney` clips at. In `battlegrounds` a behaviour starts in one of three situations
(`Start`): two battlegrounds of one place a team, so that the queue is longer than the
places; premade parties and a player who logs out; and deserters, teleports, logouts and a
second pending event, so that one may outlive its invitation. An identifier of a
battleground is used again only when nothing refers to it (`FreshBG`), as the source never
uses one twice; five is more than the players, so a count below zero is not one of players.

The bounds on what happens are the constants `Max...`, each used in a guard; objects are
bounded by the sets `Account`, `Sess`, `Sock`, `Sender`, `Caller`, `Sp`, `Player`,
`Item`, `Auction`, `Mail`, `Party` and `BG`, and data by `PLimits`, `PacketSize`,
`PayloadSize`, `Kind`, `Delay`, `Code`, `Pushed`, `Answers`, `Cast`, `Ticks`, `StartBid`,
`Buyout`, `Price`, `Sum`, `TradeGold` and `Counts`. `AuctionHouse` has three more, each named where it acts: a
behaviour starts in one of three situations (`Start`), which say who sells, bids, writes
and trades; a step that would need a mail number checks that one is left for it and for
the mails the auctions will send (`HasNumbers`, `Owed`); and after a crash that left
something stored by half, or an item that was taken through a mail that does not hold it
(`Regular`), no client acts any more. Numbers of mails and auctions are used
again once their rows are gone.

`sessions_limit_changes` uses symmetry over session objects and has no liveness
property; no run with a liveness property uses symmetry. Runs that may really stop (the
server stops, the unit is removed, all bounded inputs are used) say `CHECK_DEADLOCK
FALSE`; `sessions_limit_changes`, `trades` and `battlegrounds` check for deadlock.

The type invariant of a module is a conjunct of its first safety invariant: `TableSound`,
`RoutesToOwner`, `BufferIsTail`, `HandledInOrder`, `QueueAlive`, `WritesKept`, `CountdownAgrees`,
`SpellsOwned`, `MemoryStored` and `CountsExact`.

`Mutant_*` operators beside the definitions are slips the code could have had (a guard
dropped, a reset forgotten, an order swapped); with its mutant in place every property
fails.

How some properties are meant:

- `BufferIsTail` says that bytes go out in cipher order only while nothing was dropped:
  after an overflow the bytes of the dropped packet have used the cipher, and another
  thread's smaller packet may still go out before the close.
- `InOrder` and `PacketLeaves` need a polite client: the code puts packets that came too
  early behind later ones. They also except a stray login result, which puts a player into
  a session whose client did not ask for it: then the client's next login packet meets a
  logged-in session, and a packet sent before it may overtake. Six packets show it, three
  do not.
- `RoutesToOwner` excepts sockets that got a session in the middle of a close, the one
  race that leaves a stale pointer, and says that there is no other.
- `LoginsReachTheirSession` and `StoppedWithoutPlayers` except accounts that lost a
  session in the middle of a login.
- `StatesFollowActions` says exactly when a unit keeps a state without an action.
- `LeaksWereKilled` says which spells are lost while the unit lives: those whose event
  was killed while a slot still held them.
- `ClosedSessionDeleted` excepts a session whose addon data threw before it was added to
  the world (`"lost"`): nobody visits it, and it is never deleted.
- `NothingLostOrDoubled` excepts what was half stored when the process died, and items
  that were taken through another mail (`strayed`); `MemoryStored` excepts these items and
  the mails that still list them, and mails that expired while their receiver was being
  loaded; `WinnerPays` excepts auctions somebody bid on after they were sold.
- `CountsExact` and `InvitationHolds` except battlegrounds whose invitation passed over a
  player: there the count drifts. `PlacesOffered` excepts what a logout, the last update or
  the match it started made possible: nothing schedules an update for that.
- `DealAsAccepted` lets an item be missing that left its owner's bag, by an auction or a
  mail, after the other had seen it.

## 4. Fairness

| Module | Fair | Why the code gives it |
|---|---|---|
| `WorldSessions` | the loop, the delay thread, a network thread inside `AddSession` | each is a loop or straight code without waits on clients |
| `WorldSocket` | acceptor, network and world threads' current calls (weak); `UpdateSessions(s)` (strong) | the world thread visits every session in each tick, though the session may be out of reach for a moment |
| `SocketSend` | the network while the socket is open, each sender | an open connection makes progress or fails |
| `SocketReceive` | reads complete while bytes are there, the handler runs | Asio calls the handlers |
| `SessionPackets` | world thread, the network thread's push, queries | as above |
| `SqlDelay` | delay thread, a call under way, the result queue, the destructor | as above; the interface is never called of necessity |
| `ShutdownTimer` | the world loop, the passing of seconds | the console thread is not fair: it may sit in `fgets` for ever |
| `UnitSpells` | `Update` of the unit | its map updates it in every tick, and an update runs to its end |

Clients, commands, failures, crashes and the clock's steps back are never fair. The
abstract modules demand delivery (`ByteChannel`) and execution (`OrderedStore`), so the
refinements include progress. `UnitStateMgr`, `Trades` and `BattleGroundQueue` state no
fairness: that an
action is run or an auction ends follows from one step, or does not hold, since a late
bid puts the end of a sold auction off again (`game/AuctionHouseMgr.cpp:996`). That a
battleground ends and is deleted would need fairness of every timer of every player, whose
evaluation is out of TLC's reach here; that its counts reach zero with its last player,
which is what it waits for, is `CountsExact`.

## 5. Proofs

Each theorem holds for every value of the constants under the named assumptions of its
module. The argument is the same everywhere: `IInv`, the conjunction of the named parts
below, holds initially and is kept by every step (one lemma per action or group of
actions), and the property follows from it, or, for an action property, from `IInv` before
the step. TLC checked each `IInv` on a small instance first. Null pointers need an
assumption of their own (`NoneIsNothing`: `None` is no object); the other assumptions are
that bounds are natural numbers and the sets of threads and kinds are what their names say.

| Module | Proved of the specification | By |
|---|---|---|
| `WorldProofs` | `TypeOK`, `TableSound`, `QueueSound`, `PositionsTold`, `QueueFIFO`, `LimitExact`, `LoginsReachTheirSession`, `StoppedWithoutPlayers` | `IInv`, `PositionsTold`, `LoginInv`, `StopInv` |
| `WorldSocketProofs` | `RoutesToOwner`, `connections_ <= Cardinality(sockets_)` | `ThreadsInv`, `AuthInv`, `FreshInv`, `RouteInv`, `RegisterInv` |
| `SocketProofs` | `BufferIsTail`, the safety part of `ByteChannel` | `WriteInv`, `TailInv`, `CipherInv` |
| `SocketProofs` | `HandledInOrder` | `ReadInv`, `HeaderInv`, `PayloadInv`, `HandledInv` |
| `SessionPacketsProofs` | `QueueAlive`, `InOrder` | `QueueInv`, `LoginInv`, `OrderInv` |
| `SqlDelayProofs` | `WritesKept`, the safety part of `OrderedStore` | `Ordered`, `StartupInv`, `HaltInv` |
| `BattleGroundQueueProofs` | `CountsExact`, `InvitationHolds` | `QueueInv`, `PlayerInv`, `CountInv` |
| `WorldProofs` | `ShutdownTypeOK`, `CountdownAgrees`, `ExitCodeStands`, `StopsAsPlanned` | `ShutdownInv`: `CountdownInv`, `CodeInv` |
| `TradesProofs` | `NothingLostOrDoubled`, `MemoryStored`, `WinnerPays`, `TradesPaired` | `Kept` (`Ledger`, `PlayerInv`, `Paired`), `Enough` |

**WorldSessions**, for every set of accounts and session objects, every assignment of
security levels and all limits. `TableSound` and `QueueSound` are not inductive by
themselves. `HandOver` is needed because a session enters the table from `addSessQueue`: it
must come from there once and not be listed yet. `SessionStages` excludes that a session
that is not listed yet has its queue flag set or a player. `TodoListed` covers the walk over
`m_sessions` while sessions are erased from it, and `PlayersCounted` keeps the count of
players from running below zero. The queue is handled by two facts: `Moved` says what
`RemoveQueuedSession` does to it (one position erased, the head perhaps let in, everybody
behind told his new place), and `Adds` says what `AddSession_` does, which is such a removal
for the kicked session followed by an entry or an append. `QueueFIFO` follows from the
positions in both. `LimitExact` needs that `m_sessions.size() - m_QueuedSessions.size()`,
which is what the code compares with the limit, counts the active sessions, game masters
included: that is a cardinality argument (`ActiveCounted`), since a session has one entry
in the table and at most one in the queue. `LoginInv` says that an account asks for a
player once and only while its session is loading; `StopInv` that after the kick of a stop
a session with a player is disconnected and still to be visited.

**WorldSocket**, for every finite set of sockets and every set of sessions. `RoutesToOwner`
says nothing of what the threads have read and not used yet. `ThreadsInv` and `AuthInv` do,
for each program counter: above all, that the network thread, which tests
`m_Session` and uses it later, works on a session no other thread has deleted, or on a
socket in `raced`. `RouteInv` treats a socket that is being closed (`Closing`) as closed
already, because `CloseSocket` clears the pointer one step before it sets the flag.
`FreshInv` keeps a session that is not made yet out of every pointer.

**NetworkBuffer and SocketSend**, for every buffer size, every packet size and any threads.
The first part of `SocketProofs` holds the lemmas: writing appends to the readable bytes, consuming
drops from the front, compaction changes nothing, and each of them leaves a buffer. `TailInv`
puts the bytes taken by the network and those in the buffer together to the accepted ones,
and `WriteInv` says that one write is between its start and its handler. `CipherInv` adds
the order in which bytes passed the cipher. `SocketSendIsChannel` shows the safety part of
the refinement of `ByteChannel`, step by step.

**SocketReceive**, for every header size, every set of payload sizes, every size of the read
buffer and any number of packets. The packets of the client have their places in its stream,
and the three buffers hold bytes of the stream that come one after the other: `HeaderInv`
says that `m_Header` holds those from the beginning of the packet being cut, `PayloadInv` the
same of `m_RecvPct` from behind the header, and `ReadInv` that `read_buffer_` goes on where
they end. So a complete header has the first byte of its packet, which only that packet has,
and a complete payload is the packet's own. Where a packet begins is a recursive function
of the packets before it (`First`). That such a function exists, that packets do not overlap
and that they end with the stream is shown by least counterexamples (`LeastNatural`), since
an induction theorem with an operator parameter cannot be used here.

**SessionPackets**, for every number of packets and sessions and all kinds of packets.
`InOrder` needs to know why nothing of a polite client's is ever put back: the client saw
its player before it sent an in-world packet, so such a packet meets a player, or the time
of grace after his logout, and no packet stands before it that would end that time
(`PoliteInv`); nothing that would end it is there while a logout is running (`GraceInv`);
and the packet for which the network thread waits for the queue's lock fits too
(`ComingInv`).
`LoginInv` shows that a session gets the player it asked for, once. The attempt to prove
`InOrder` without `strayed` failed, and with more packets than the run has TLC shows
why: a result asked for by a session that is gone reaches the next session of the account.

**SqlDelay**, for any set of threads and any number of calls. `Ordered` relates four places
at once: the writes that took effect, the operation on the connection, the queue with the
one about to enter it, and the open transactions of all threads; within a thread each of
these precedes the next. `StartupInv` says who may use the connection before and after
asynchronous transactions are allowed, and `HaltInv` that the halt begins when nobody is
inside a call. `SqlDelayIsStore` is the safety part of the refinement: an operation takes
effect in the abstract store at the one step that commits it or rolls it back, although its
statements run one by one and may fail.

**ShutdownTimer**, for every width of the seconds, every set of delays and codes and all
bounds. `CountdownInv` adds to `CountdownAgrees` that the mask is the plan's even after the
clock went back, which `StopsAsPlanned` needs. `CodeInv` says what `m_ExitCode` is before
the exit: with no plan it is the default while the server runs, and if the server stopped
while a command was under way, only the console can have done it, whose code is the same
default that a cancelled plan leaves.

**BattleGroundQueue**, for every finite set of players, every set of battlegrounds and every
size of a team. The handlers are compositions of operations on one record of the whole
state, so the invariant `Inv` is one of such a record, and each operation has a lemma.
`PlayerInv` relates the four places that know of a player (the groups of the queue, his slot,
the battleground he is in by his own record, the members of the battlegrounds) for each
place he can be in: in the world, on the way to a battleground, travelling, offline.
`QueueInv` says that nobody is in two groups, and `CountInv` that the count of a running
battleground is the number of players with a place in it. `CountsExact` and
`InvitationHolds` are not inductive without `PlayerInv`: a place is given back once only if a
player who is invited is not a member, and one on his way is not invited. A battleground
is left out once an invitation passed a player over (`tainted`): from then on its counts do
drift, and its players may have a slot that says nothing; everything else is
proved of it too. The queue is walked by folds, of which the community modules give a
recursive definition: that a fold has a value and what holds after each of its steps is shown
by least counterexamples, once (`BattleGroundQueueProofs`, first part). A handler that takes a
player out of one place and puts him into another breaks the invariant in between, and the
lemmas say by what (`AtLeave`, `Removed`, `JoinedAs`).

**Trades, AuctionHouse and Mails**, for every finite set of players and items, any number of
mails and auctions, every purse, price, fee and fixed situation to start from, as long as no
item was taken through another mail than its own (`strayed = {}`). A handler
stores one thing after another, and the process may die after each transaction; so what is
proved is proved of every prefix of the transactions of every handler. `Ledger(s, H, D,
total)` is the invariant in the middle of one: outside the items `H` and the money `D` that
the handler holds, each item that exists is in one inventory, auction or mail, and purses,
deposits, bids, mails and what was paid or deleted add up to `total`; and so it is in each
transaction that is under way to the database (`Logged`), but for what that transaction is
noted to store by half. `Memory(s, G, M)` is that outside the players `G` and the mails `M`
the handler works on, purse, bag and mails in memory are as stored; `Paired` is that trades
have two sides. Each operation (`SendMailTo`, `_SaveMail`, `DeleteFromDB`, `ModifyMoney` and
the like) has a lemma for each of these, in `LedgerProofs`, and a handler is the composition
of its operations' lemmas, in `TradesProofs`: it ends with `H`, `D`, `G` and `M` empty, which is
`Kept`. Four facts had to be found for that. The sums (`SumOver`) are recursive functions in
the community modules; that they do not depend on the order and change by what one value
changes by is proved by smallest counterexamples. `SendMailTo` takes the least free number,
so the auctions must find one for each mail they owe, at the end of a walk over all of
them too: `Enough`, a counting argument. A mail in memory whose row is gone is empty or holds
only what was cut (`Stale`). And while a player is in memory no item is named twice, one that
a transaction has open included (`AllClean`). `FoldFits` gives what holds after a walk
from what each step keeps. `NothingLostOrDoubled` is then `Exact` of each item, with its
`Places` counted; `MemoryStored` is `PlayerInv`; `WinnerPays` is `WonInv`, which says of a sold
auction that its row names the winner.

Only model-checked:

- liveness: `SessionsSettle`, `ClosedSessionDeleted`, `AllHandled`, `PacketLeaves`, `Obeyed`
  and the like, and the fairness of `ByteChannel` and `OrderedStore`; temporal reasoning
  under fairness is out of the prover's reach here;
- `UnitSpells`: it follows casts inside casts with a recursive operator, and no theorem can
  stand in a module that uses one;
- `UnitStateMgr`: its constants only choose a subset of a finite list of kinds, so a
  theorem says no more than a run with all of them;
- of `Trades`, the action property `DealAsAccepted`;
- of `BattleGroundQueue`, `PlacesOffered` and the action property `InvitationLasts`.

## 6. Where the code does not do what it says

Seen while modelling and contained in the models, without a run of their own:

- The destructor of the event processor empties `m_events` but not the queue of new events
  in the derived class (`framework/Utilities/EventProcessor.cpp:29`), so a spell that is
  being cast when its unit is removed is never deleted, although `game/Unit.cpp:11764`
  relies on that ("it will deleted at call in Map::RemoveAllObjectsInRemoveList").
- A player who is between two maps is passed over when his group is invited, although
  "player is removed from queue when he logs out" (`game/BattleGround/BattleGroundMgr.cpp:475`).
  His place is not counted but is given back when he leaves, so the count of his team drifts
  and may pass below zero, which reads as "no free places"; a battleground can be deleted
  while he is on his way; alone in his group, he waits for ever.
- A logout takes a player out of the queue and schedules no update
  (`game/WorldSession.cpp:446`), although "this method is called when [...] player / group
  is removed from BG Queue" (`game/BattleGround/BattleGroundMgr.cpp:755`). The places of a
  match that has just been made, and premade groups moved to the normal queue, also wait for
  the next update.
- `m_Session` is read and set outside `m_SessionLock` (`game/WorldSocket.cpp:314`): the
  network thread may use it after it was cleared (`stale`).
- `ReadAddonsInfo` can throw between the creation of a session and `AddSession`
  (`game/WorldSocket.cpp:586`): `m_Session` is set, packets are queued for it, no table
  holds it, and it is never deleted (`life[s] = "lost"`).
- A login query names the account, not the session (`game/CharacterHandler.cpp:130`): its
  result can reach a later session of the account that did not ask, whose client then
  has a player it does not know of.
- Two logins of one account, one of an abandoned session, both load a player
  (`game/CharacterHandler.cpp:587`).
- An in-world packet that comes before the login is taken out of the queue and put back
  for ever (`game/WorldSession.cpp:233`).
- Nothing creates a `TransHelper` (`shared/Database/Database.cpp:330`).
- `.server plimit` with a negative limit never kicks those below it
  (`game/Level3.cpp:6333`).
- `NetworkManager::OnNewConnection` returns before accepting the next connection when
  one accept or one challenge fails (`shared/Network/NetworkManager.cpp:141`).
- Packets handled after a re-enqueue in the same call are never deleted
  (`game/WorldSession.cpp:231`).
- `CMSG_LOGOUT_CANCEL` after the logout goes through a null player
  (`game/MiscHandler.cpp:336`).
- A packet that does not fit the send buffer is dropped and the client disconnected.
- `Runnable::m_refs` is not initialised (`shared/Threading.h:40`), so the delay
  thread's destructor, which flushes the queue, may not run.
- Setting the clock back by a second makes a planned shutdown happen at the next tick
  (`game/World.cpp:1991`).
- Nothing runs `IoService`, so signals are ignored (`mangosd/Main.cpp:455`), and the
  exit waits for a line on the console (`mangosd/Main.cpp:627`).
- A bid is accepted on an auction that is sold and whose item is gone
  (`game/AuctionHouseHandler.cpp:402`); it puts the payment of the owner off.
- A login whose queries have run finds mails that `ReturnOrDeleteOldMails` returns in
  the meantime (`game/ObjectMgr.cpp:5310`).
- An old mail that is not returned is deleted with its items in `item_instance`, but its
  rows in `mail_items` stay (`game/ObjectMgr.cpp:5331`).
- `HandleMailTakeItem` takes the item out of the items of all mails and never asks
  whether it is in the mail that is named (`game/MailHandler.cpp:495`). The mail it is in
  still lists it in memory, its cash on delivery is not asked for, and when that mail is
  deleted, the row of an item goes that is in a bag. `strayed` has these items.
- An offered item that left its owner's bag and came back before the trade is carried
  out is traded.
- An action that is dropped while it is interrupted is not finalized
  (`game/StateMgr.cpp:367`), so a unit can stay marked as fleeing. `ActionInfo::Reset`
  and `ActionInfo::Finalize` are never called, and `m_needReinit` outlives a respawn.
- `handle_immediate` sets the state of a spell to casting even if its own effects have
  finished it (`game/Spell.cpp:4129`); `m_aborting` is never read; `bNeedKill` has no
  initial value (`game/WorldObjectEvents.cpp:36`); `RenewEvents` deletes a unique event
  whose type is waiting, without `Abort` (`game/WorldObjectEvents.cpp:99`).

## 7. Not modelled

Packet contents, the cipher itself, character data, ping and overspeed counters and the
warden are data to the modelled parts. Synchronous queries change no state. Prepared
statements count as statements. The memory model below the level of single reads and
writes is not modelled, except that two unordered writes may change places.

In the modelled parts: the clocks of auctions and mails (what waits for a time may happen
at any step), the auction house bot, mass mails, texts, stationery and the mark of a read
mail, the place of an item in a bag, the place in a trade for an item that is only
enchanted; an item keeps its identity when a handler clones it. Handlers run one at a time,
as they do on the world thread, and the delay thread stores what they hand over in order
(`SqlDelay` is what shows that). Of battlegrounds: arenas, the random battleground, other
brackets and a second slot of a player, game masters, the evening-out of
`BATTLEGROUND_INVITATION_TYPE`, and their clocks; `m_PlayersCount` is read off the members,
setting up a battleground succeeds, and so does every journey to one or out of it: the
branches of `Player::TeleportTo` that fail or stay on the map (`game/Player.cpp:1799`,
1828, 2042) are left out, and the way out of the battleground a player stands in when he
enters another (`game/BattleGround/BattleGroundHandler.cpp:490`), which takes a second
slot. A spell's checks and effects are choices, and no spell has the attribute that
`IsNonMeleeSpellCasted` passes over (`SPELL_ATTR_EX2_NOT_RESET_AUTOATTACK`); a tick has one
length. Unique, evade and relocation events share the event list but are not in a model.

Most of the repository's lines are not a state machine that a model could say something
about: vendored libraries (`dep/`), the tools that extract maps, generated code, and
within the game library the rules and numbers of spells, auras, quests, loot, combat and
content scripts, floating-point geometry, and hundreds of handlers that look something up
and send it. The components with status `not_modelled` in `PROJECT.json` give their reason.

## 8. Plan

1. Proofs: `DealAsAccepted` of `Trades`.
2. `BattleGroundQueue`: arenas, whose rated groups leave the queue together, and the random
   battleground.
3. `Groups` (membership and leadership), `AuthSocket` (states of a login), instance saves.
4. Composition of `WorldSessions` with the order that `OrderedStore` promises.

Runs are kept to one per question; a new component's run replaces or joins one whose
question is then proved.
