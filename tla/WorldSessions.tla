--------------------------- MODULE WorldSessions ---------------------------
(***************************************************************************)
(* The session table of the world server: World::m_sessions, the login     *)
(* queue m_QueuedSessions, the hand-over queue addSessQueue between the    *)
(* network threads and the world thread, and the asynchronous character    *)
(* login (CharacterHandler), as World.cpp, WorldSession.cpp and            *)
(* CharacterHandler.cpp run them.                                          *)
(*                                                                         *)
(* Three kinds of actors interleave: the network threads (a client         *)
(* authenticates or its connection breaks), the SQL delay thread (a login  *)
(* query holder is executed) and the world thread, which repeats           *)
(*   add -> update -> maps -> results -> cli                               *)
(* i.e. World::Update restricted to the calls that touch sessions.         *)
(***************************************************************************)
EXTENDS Integers, Sequences, FiniteSets

CONSTANTS
    Account,        \* account ids
    Sess,           \* WorldSession objects; an object is created at most once
    Security,       \* [Account -> AccountTypes]; SEC_PLAYER = 0
    InitLimit,      \* PlayerLimit of the configuration file
    PLimits,        \* arguments of the ".server plimit" command
    MayStop,        \* whether World::m_stopEvent may be raised
    None            \* the null pointer

SEC_PLAYER == 0
SEC_ADMINISTRATOR == 3

ASSUME ConstantsOK ==
    /\ None \notin Sess
    /\ IsFiniteSet(Account)
    /\ Security \in [Account -> SEC_PLAYER .. SEC_ADMINISTRATOR]
    /\ InitLimit \in Int
    /\ PLimits \subseteq Int
    /\ MayStop \in BOOLEAN

VARIABLES
    life,             \* lifetime of each WorldSession object
    account,          \* WorldSession::_accountId
    socket,           \* WorldSession::m_Socket together with Socket::closed_
    m_inQueue,        \* WorldSession::m_inQueue
    m_playerLoading,  \* WorldSession::m_playerLoading
    m_player,         \* WorldSession::_player # nullptr
    m_logoutTime,     \* WorldSession::_logoutTime # 0
    told,             \* last SMSG_AUTH_RESPONSE: -1 none, 0 AUTH_OK, n position
    addSessQueue,     \* World::addSessQueue
    adder,            \* the session whose network thread holds the queue's lock
    m_sessions,       \* World::m_sessions
    m_QueuedSessions, \* World::m_QueuedSessions
    m_playerLimit,    \* World::m_playerLimit
    sqlDelay,         \* login query holders waiting for the SQL delay thread
    sqlResult,        \* executed holders waiting for ProcessResultQueue
    players,          \* number of Player objects loaded for an account
    abandoned,        \* history: accounts whose session was deleted while its
                      \* login query was in flight
    phase,            \* where the world thread is in its loop
    todo              \* accounts the running UpdateSessions has still to visit

sessVars == <<life, account, socket, m_inQueue, m_playerLoading, m_player,
              m_logoutTime, told>>
worldVars == <<m_sessions, m_QueuedSessions, m_playerLimit>>
queueVars == <<addSessQueue, adder>>
sqlVars == <<sqlDelay, sqlResult>>
loopVars == <<phase, todo>>
vars == <<sessVars, queueVars, worldVars, sqlVars, players, abandoned, loopVars>>

Life == {"none", "auth", "adding", "listed", "deleted"}
SocketState == {"none", "open", "closed", "reset"}
Phase == {"add", "update", "maps", "results", "cli",
          "stopAdd", "stopUpdate", "stopped"}

TypeOK ==
    /\ life \in [Sess -> Life]
    /\ account \in [Sess -> Account \cup {None}]
    /\ socket \in [Sess -> SocketState]
    /\ m_inQueue \in [Sess -> BOOLEAN]
    /\ m_playerLoading \in [Sess -> BOOLEAN]
    /\ m_player \in [Sess -> BOOLEAN]
    /\ m_logoutTime \in [Sess -> BOOLEAN]
    /\ told \in [Sess -> Int]
    /\ addSessQueue \in Seq(Sess)
    /\ adder \in Sess \cup {None}
    /\ m_sessions \in [Account -> Sess \cup {None}]
    /\ m_QueuedSessions \in Seq(Sess)
    /\ m_playerLimit \in Int
    /\ sqlDelay \in Seq(Account)
    /\ sqlResult \in Seq(Account)
    /\ players \in [Account -> Nat]
    /\ abandoned \in SUBSET Account
    /\ phase \in Phase
    /\ todo \in SUBSET Account

Init ==
    /\ life = [s \in Sess |-> "none"]
    /\ account = [s \in Sess |-> None]
    /\ socket = [s \in Sess |-> "none"]
    /\ m_inQueue = [s \in Sess |-> FALSE]
    /\ m_playerLoading = [s \in Sess |-> FALSE]
    /\ m_player = [s \in Sess |-> FALSE]
    /\ m_logoutTime = [s \in Sess |-> FALSE]
    /\ told = [s \in Sess |-> -1]
    /\ addSessQueue = <<>>
    /\ adder = None
    /\ m_sessions = [a \in Account |-> None]
    /\ m_QueuedSessions = <<>>
    /\ m_playerLimit = InitLimit
    /\ sqlDelay = <<>>
    /\ sqlResult = <<>>
    /\ players = [a \in Account |-> 0]
    /\ abandoned = {}
    /\ phase = "add"
    /\ todo = {}

-----------------------------------------------------------------------------
(* Accessors of World.h *)

Listed == {a \in Account : m_sessions[a] # None}

GetActiveAndQueuedSessionCount == Cardinality(Listed)
GetActiveSessionCount ==
    GetActiveAndQueuedSessionCount - Len(m_QueuedSessions)
GetPlayerAmountLimit(limit) == IF limit >= 0 THEN limit ELSE 0
GetPlayerSecurityLimit(limit) == IF limit <= 0 THEN -limit ELSE SEC_PLAYER

\* WorldSession::KickPlayer on every session of S: an open socket is closed, the
\* session keeps its pointer to it.
Kicked(sock, S) ==
    [s \in Sess |-> IF s \in S /\ sock[s] = "open" THEN "closed" ELSE sock[s]]

\* Position of a session in the queue, 0 when it is not queued.
GetQueuedSessionPos(q, s) ==
    IF \E i \in DOMAIN q : q[i] = s
    THEN CHOOSE i \in DOMAIN q : q[i] = s
    ELSE 0

\* std::list::erase at a position.
Without(q, pos) == SubSeq(q, 1, pos - 1) \o SubSeq(q, pos + 1, Len(q))

\* The active sessions once a session leaves: one less if it was not waiting.
Mutant_ActiveWithout(found) == GetActiveSessionCount
ActiveWithout(found) ==
    IF ~found /\ GetActiveSessionCount > 0
    THEN GetActiveSessionCount - 1 ELSE GetActiveSessionCount

\* "accept first in queue": no limit, or a place is free.
Mutant_HasPlace(sessions) == m_playerLimit = 0 \/ sessions <= m_playerLimit
HasPlace(sessions) == m_playerLimit = 0 \/ sessions < m_playerLimit

\* The first position that is sent again.
Mutant_FirstChanged(accept, pos) == IF accept THEN 1 ELSE pos + 1
FirstChanged(accept, pos) == IF accept THEN 1 ELSE pos

NothingQueued == [found |-> FALSE, popped |-> None,
                  queue |-> m_QueuedSessions, told |-> told]

\* World::RemoveQueuedSession(s): erase s if it is queued, let the first waiting
\* session in when there is room without s, and resend the positions from the
\* first one that changed to the end.
RemoveQueuedSession(s) ==
    LET pos    == GetQueuedSessionPos(m_QueuedSessions, s)
        found  == pos # 0
        erased == IF found THEN Without(m_QueuedSessions, pos)
                  ELSE m_QueuedSessions
        accept == HasPlace(ActiveWithout(found)) /\ erased # <<>>
        popped == IF accept THEN Head(erased) ELSE None
        queue  == IF accept THEN Tail(erased) ELSE erased
        resent == {x \in Sess : LET p == GetQueuedSessionPos(queue, x)
                                IN /\ accept \/ found
                                   /\ p # 0
                                   /\ p >= FirstChanged(accept, pos)}
    IN [found  |-> found,
        popped |-> popped,
        queue  |-> queue,
        told   |-> [x \in Sess |-> IF x = popped THEN 0
                                   ELSE IF x \in resent
                                        THEN GetQueuedSessionPos(queue, x)
                                        ELSE told[x]]]

\* SetInQueue(false) for the session taken out and for the one let in.
Mutant_FlagsAfter(rm, s) ==
    [x \in Sess |-> IF x = s /\ rm.found THEN FALSE ELSE m_inQueue[x]]
FlagsAfter(rm, s) ==
    [x \in Sess |-> IF x = rm.popped \/ (x = s /\ rm.found)
                    THEN FALSE ELSE m_inQueue[x]]

\* World::AddQueuedSession: push_back.
Mutant_AddQueuedSession(q, s) == <<s>> \o q
AddQueuedSession(q, s) == Append(q, s)

\* WorldSession::LogoutPlayer(true): the player, if any, is saved and removed.
LogoutPlayer(s) ==
    /\ m_player' = [m_player EXCEPT ![s] = FALSE]
    /\ m_logoutTime' = [m_logoutTime EXCEPT ![s] = FALSE]
    /\ players' = IF m_player[s]
                  THEN [players EXCEPT ![account[s]] = @ - 1] ELSE players

\* ~WorldSession: the player is logged out and saved, the socket is closed.
Destroy(s) ==
    /\ life' = [life EXCEPT ![s] = "deleted"]
    /\ LogoutPlayer(s)
    /\ abandoned' = IF m_playerLoading[s]
                    THEN abandoned \cup {account[s]} ELSE abandoned

-----------------------------------------------------------------------------
(* Network threads *)

\* WorldSocket::HandleAuthSession up to the construction of the session.  The
\* checks that refuse a client change nothing here; the one that depends on the
\* world's state (security limit) is the guard.
HandleAuthSession(s, a) ==
    /\ life[s] = "none"
    /\ Security[a] >= GetPlayerSecurityLimit(m_playerLimit)
    /\ life' = [life EXCEPT ![s] = "auth"]
    /\ account' = [account EXCEPT ![s] = a]
    /\ socket' = [socket EXCEPT ![s] = "open"]
    /\ UNCHANGED <<m_inQueue, m_playerLoading, m_player, m_logoutTime, told,
                   queueVars, worldVars, sqlVars, players, loopVars, abandoned>>

\* World::AddSession: addSessQueue.add takes the queue's lock ...
AddSessionLock(s) ==
    /\ life[s] = "auth"
    /\ adder = None
    /\ adder' = s
    /\ UNCHANGED <<sessVars, addSessQueue, worldVars, sqlVars, players, loopVars,
                   abandoned>>

\* ... appends and releases it.
AddSessionUnlock(s) ==
    /\ adder = s
    /\ adder' = None
    /\ life' = [life EXCEPT ![s] = "adding"]
    /\ addSessQueue' = Append(addSessQueue, s)
    /\ UNCHANGED <<account, socket, m_inQueue, m_playerLoading, m_player,
                   m_logoutTime, told, worldVars, sqlVars, players, loopVars,
                   abandoned>>

\* Socket::OnError / a failed read: the connection goes away on its own.  The
\* thread that is inside HandleAuthSession is the socket's only thread.
Disconnect(s) ==
    /\ life[s] \in {"adding", "listed"}
    /\ socket[s] = "open"
    /\ socket' = [socket EXCEPT ![s] = "closed"]
    /\ UNCHANGED <<life, account, m_inQueue, m_playerLoading, m_player,
                   m_logoutTime, told, queueVars, worldVars, sqlVars, players,
                   loopVars, abandoned>>

NetworkNext ==
    \/ \E s \in Sess, a \in Account : HandleAuthSession(s, a)
    \/ \E s \in Sess : \/ AddSessionLock(s)
                       \/ AddSessionUnlock(s)
                       \/ Disconnect(s)

-----------------------------------------------------------------------------
(* World thread: World::UpdateSessions *)

Adding == phase \in {"add", "stopAdd"}
Updating == phase \in {"update", "stopUpdate"}

\* LockedQueue::next: false when the queue is empty or its lock is taken.
NextSession == adder = None /\ addSessQueue # <<>>

\* World::AddSession_ when the old session of the account is loading a player:
\* RemoveSession fails and the new session is dropped.
AddSession_Refuse ==
    /\ Adding
    /\ NextSession
    /\ LET s   == Head(addSessQueue)
           old == m_sessions[account[s]]
       IN /\ old # None
          /\ m_playerLoading[old]
          /\ socket' = [socket EXCEPT ![s] = "reset"]
          /\ Destroy(s)
    /\ addSessQueue' = Tail(addSessQueue)
    /\ UNCHANGED <<account, m_inQueue, m_playerLoading, told, adder, worldVars,
                   sqlVars, loopVars>>

\* Where the new session s goes once the old ones are gone: the queue when the
\* limit is reached (s itself not counted, unless it replaces a queued session).
MustWait(s, found) ==
    LET size  == Cardinality(Listed \cup {account[s]})
        Sessions == IF found THEN size ELSE size - 1
    IN /\ GetPlayerAmountLimit(m_playerLimit) > 0
       /\ Sessions >= GetPlayerAmountLimit(m_playerLimit)
       /\ Security[account[s]] = SEC_PLAYER

\* The old session of the account leaves the queue before it is deleted.
RemoveOld(old) == IF old = None THEN NothingQueued ELSE RemoveQueuedSession(old)

\* The rest of World::AddSession_: the old session of the account, if any, is
\* kicked, taken out of the queue and deleted; the new one is queued or let in.
AddSession_ ==
    /\ Adding
    /\ NextSession
    /\ LET s   == Head(addSessQueue)
           a   == account[s]
           old == m_sessions[a]
           rm  == RemoveOld(old)
           wait == MustWait(s, rm.found)
       IN /\ old # None => ~m_playerLoading[old]
          /\ m_sessions' = [m_sessions EXCEPT ![a] = s]
          /\ m_QueuedSessions' = IF wait THEN AddQueuedSession(rm.queue, s)
                                 ELSE rm.queue
          /\ m_inQueue' = [FlagsAfter(rm, old) EXCEPT ![s] = wait]
          /\ told' = [rm.told EXCEPT
                        ![s] = GetQueuedSessionPos(m_QueuedSessions', s)]
          /\ life' = [x \in Sess |-> IF x = s THEN "listed"
                                     ELSE IF x = old THEN "deleted" ELSE life[x]]
          /\ socket' = [x \in Sess |-> IF x = old THEN "reset" ELSE socket[x]]
          /\ m_player' = [x \in Sess |-> IF x = old THEN FALSE ELSE m_player[x]]
          /\ m_logoutTime' = [x \in Sess |->
                                IF x = old THEN FALSE ELSE m_logoutTime[x]]
          /\ players' = [b \in Account |->
                           IF b = a /\ old # None /\ m_player[old]
                           THEN players[b] - 1 ELSE players[b]]
    /\ addSessQueue' = Tail(addSessQueue)
    /\ UNCHANGED <<account, m_playerLoading, adder, m_playerLimit, sqlVars, loopVars,
                   abandoned>>

\* The drain loop ends when next() fails, then every session is visited once.
EndAdd ==
    /\ Adding
    /\ ~NextSession
    /\ phase' = IF phase = "add" THEN "update" ELSE "stopUpdate"
    /\ todo' = Listed
    /\ UNCHANGED <<sessVars, queueVars, worldVars, sqlVars, players, abandoned>>

\* "Player tryes to login again" otherwise.
Mutant_MayLogin(s) == ~m_player[s]
MayLogin(s) == ~m_playerLoading[s] /\ ~m_player[s]

\* CMSG_PLAYER_LOGIN inside WorldSession::Update: dropped while the session is in
\* the queue (STATUS_AUTHED), else HandlePlayerLoginOpcode starts the query.
HandlePlayerLoginOpcode(a) ==
    /\ Updating
    /\ a \in todo
    /\ LET s == m_sessions[a]
       IN /\ socket[s] = "open"
          /\ ~m_inQueue[s]
          /\ MayLogin(s)
          /\ m_playerLoading' = [m_playerLoading EXCEPT ![s] = TRUE]
    /\ sqlDelay' = Append(sqlDelay, a)
    /\ UNCHANGED <<life, account, socket, m_inQueue, m_player, m_logoutTime, told,
                   queueVars, worldVars, sqlResult, players, loopVars, abandoned>>

\* CMSG_LOGOUT_REQUEST: refused in combat, immediate in a tavern or for a game
\* master, else the twenty second countdown starts.
HandleLogoutRequestOpcode(a) ==
    /\ Updating
    /\ a \in todo
    /\ LET s == m_sessions[a]
       IN /\ socket[s] = "open"
          /\ m_player[s]
          /\ \/ LogoutPlayer(s)
             \/ /\ \E requested \in BOOLEAN :
                      m_logoutTime' = [m_logoutTime EXCEPT ![s] = requested]
                /\ UNCHANGED <<m_player, players>>
    /\ UNCHANGED <<life, account, socket, m_inQueue, m_playerLoading, told,
                   queueVars, worldVars, sqlVars, loopVars, abandoned>>

\* m_Socket after "Cleanup socket pointer if need".
Mutant_HasSocket(s) == socket[s] # "reset"
HasSocket(s) == socket[s] = "open"

\* The end of WorldSession::Update with a connected socket: the player is logged
\* out when the countdown is over and nothing is being loaded.
UpdateConnected(a) ==
    /\ Updating
    /\ a \in todo
    /\ LET s == m_sessions[a]
       IN /\ HasSocket(s)
          /\ \/ UNCHANGED <<m_player, m_logoutTime, players>>
             \/ /\ m_logoutTime[s]
                /\ ~m_playerLoading[s]
                /\ LogoutPlayer(s)
    /\ todo' = todo \ {a}
    /\ UNCHANGED <<life, account, socket, m_inQueue, m_playerLoading, told,
                   queueVars, worldVars, sqlVars, phase, abandoned>>

\* m_sessions.erase(itr)
Mutant_EraseSession(a) == UNCHANGED m_sessions
EraseSession(a) == m_sessions' = [m_sessions EXCEPT ![a] = None]

\* Without a socket Update returns false: UpdateSessions logs the player out, takes
\* the session from the queue and from the table, and deletes it.
UpdateDisconnected(a) ==
    /\ Updating
    /\ a \in todo
    /\ LET s  == m_sessions[a]
           rm == RemoveQueuedSession(s)
       IN /\ ~HasSocket(s)
          /\ socket' = [socket EXCEPT ![s] = "reset"]
          /\ m_QueuedSessions' = rm.queue
          /\ m_inQueue' = FlagsAfter(rm, s)
          /\ told' = rm.told
          /\ Destroy(s)
    /\ EraseSession(a)
    /\ todo' = todo \ {a}
    /\ UNCHANGED <<account, m_playerLoading, queueVars, m_playerLimit, sqlVars,
                   phase>>

EndUpdate ==
    /\ Updating
    /\ todo = {}
    /\ phase' = IF phase = "update" THEN "maps" ELSE "stopped"
    /\ UNCHANGED <<sessVars, queueVars, worldVars, sqlVars, players, todo, abandoned>>

-----------------------------------------------------------------------------
(* World thread: the rest of World::Update *)

\* Map::Update runs WorldSession::Update with a MapSessionFilter for the players in
\* the world: a closed socket is dropped, nobody is logged out.
MapUpdate ==
    /\ phase = "maps"
    /\ socket' = [s \in Sess |-> IF /\ life[s] = "listed"
                                    /\ m_player[s]
                                    /\ socket[s] = "closed"
                                 THEN "reset" ELSE socket[s]]
    /\ phase' = "results"
    /\ UNCHANGED <<life, account, m_inQueue, m_playerLoading, m_player,
                   m_logoutTime, told, queueVars, worldVars, sqlVars, players, todo,
                   abandoned>>

\* HandlePlayerLoginCallback: the session is looked up by account; without one the
\* holder is dropped.
LoginCallbackNoSession ==
    /\ phase = "results"
    /\ sqlResult # <<>>
    /\ m_sessions[Head(sqlResult)] = None
    /\ sqlResult' = Tail(sqlResult)
    /\ UNCHANGED <<sessVars, queueVars, worldVars, sqlDelay, players, loopVars,
                   abandoned>>

Mutant_LoadingDone(s) == UNCHANGED m_playerLoading
LoadingDone(s) == m_playerLoading' = [m_playerLoading EXCEPT ![s] = FALSE]

\* HandlePlayerLogin: LoadFromDB fails and the client is kicked, or the new Player
\* becomes the session's player.
HandlePlayerLogin ==
    /\ phase = "results"
    /\ sqlResult # <<>>
    /\ LET a == Head(sqlResult)
           s == m_sessions[a]
       IN /\ s # None
          /\ LoadingDone(s)
          /\ \/ /\ socket' = Kicked(socket, {s})
                /\ UNCHANGED <<m_player, players>>
             \/ /\ m_player' = [m_player EXCEPT ![s] = TRUE]
                /\ players' = [players EXCEPT ![a] = @ + 1]
                /\ UNCHANGED socket
    /\ sqlResult' = Tail(sqlResult)
    /\ UNCHANGED <<life, account, m_inQueue, m_logoutTime, told, queueVars,
                   worldVars, sqlDelay, loopVars, abandoned>>

\* ProcessResultQueue ends when next() fails: the queue is empty, or the delay
\* thread, which then has a holder in its hands, holds the lock.
EndResults ==
    /\ phase = "results"
    /\ sqlResult = <<>> \/ sqlDelay # <<>>
    /\ phase' = "cli"
    /\ UNCHANGED <<sessVars, queueVars, worldVars, sqlVars, players, todo, abandoned>>

\* The next iteration of WorldUpdateLoop.
EndCli ==
    /\ phase = "cli"
    /\ phase' = "add"
    /\ UNCHANGED <<sessVars, queueVars, worldVars, sqlVars, players, todo, abandoned>>

\* ".server plimit": SetPlayerLimit, then the sessions below the security limit are
\* kicked if the *amount* limit is positive.
HandleServerPLimitCommand(limit) ==
    LET new == IF limit < -SEC_ADMINISTRATOR THEN -SEC_ADMINISTRATOR ELSE limit
        low == {s \in Sess : /\ life[s] = "listed"
                             /\ Security[account[s]] < GetPlayerSecurityLimit(new)}
    IN /\ phase = "cli"
       /\ m_playerLimit' = new
       /\ socket' = IF GetPlayerAmountLimit(new) > SEC_PLAYER
                    THEN Kicked(socket, low) ELSE socket
       /\ phase' = "add"
       /\ UNCHANGED <<life, account, m_inQueue, m_playerLoading, m_player,
                      m_logoutTime, told, queueVars, m_sessions, m_QueuedSessions,
                      sqlVars, players, todo, abandoned>>

\* A kick or a ban issued from the console: KickPlayer on the account's session.
KickCommand(a) ==
    /\ phase = "cli"
    /\ m_sessions[a] # None
    /\ socket' = Kicked(socket, {m_sessions[a]})
    /\ phase' = "add"
    /\ UNCHANGED <<life, account, m_inQueue, m_playerLoading, m_player,
                   m_logoutTime, told, queueVars, worldVars, sqlVars, players, todo,
                   abandoned>>

\* World::KickAll: the login queue is emptied and every session is kicked.
Mutant_KickAll == m_QueuedSessions' = <<>> /\ UNCHANGED socket
KickAll ==
    /\ m_QueuedSessions' = <<>>
    /\ socket' = Kicked(socket, {s \in Sess : life[s] = "listed"})

\* m_stopEvent ends WorldUpdateLoop; CleanupsBeforeStop kicks every session
\* and calls UpdateSessions once more.
CleanupsBeforeStop ==
    /\ MayStop
    /\ phase = "cli"
    /\ KickAll
    /\ phase' = "stopAdd"
    /\ UNCHANGED <<life, account, m_inQueue, m_playerLoading, m_player,
                   m_logoutTime, told, queueVars, m_sessions, m_playerLimit,
                   sqlVars, players, todo, abandoned>>

\* Handlers of the packets a client sent.
PacketNext == \E a \in Account : \/ HandlePlayerLoginOpcode(a)
                                \/ HandleLogoutRequestOpcode(a)

\* The loop itself.
LoopNext ==
    \/ AddSession_Refuse
    \/ AddSession_
    \/ EndAdd
    \/ \E a \in Account : \/ UpdateConnected(a)
                          \/ UpdateDisconnected(a)
                          \/ KickCommand(a)
    \/ EndUpdate
    \/ MapUpdate
    \/ LoginCallbackNoSession
    \/ HandlePlayerLogin
    \/ EndResults
    \/ EndCli
    \/ \E l \in PLimits : HandleServerPLimitCommand(l)
    \/ CleanupsBeforeStop

-----------------------------------------------------------------------------
(* SQL delay thread: the holder's queries run and the callback is queued for   *)
(* the world thread (external to this module, see SqlDelay).                   *)

SqlExecute ==
    /\ sqlDelay # <<>>
    /\ sqlResult' = Append(sqlResult, Head(sqlDelay))
    /\ sqlDelay' = Tail(sqlDelay)
    /\ UNCHANGED <<sessVars, queueVars, worldVars, players, loopVars, abandoned>>

Next == NetworkNext \/ PacketNext \/ LoopNext \/ SqlExecute

\* The world thread and the SQL thread run until they are stopped, and a session's
\* packets run dry; a network thread that is inside HandleAuthSession runs to its
\* end.  Clients owe nothing.
Fairness ==
    /\ WF_vars(LoopNext)
    /\ WF_vars(SqlExecute)
    /\ \A s \in Sess : WF_vars(AddSessionLock(s)) /\ WF_vars(AddSessionUnlock(s))

Spec == Init /\ [][Next]_vars /\ Fairness

-----------------------------------------------------------------------------
(* Properties *)

\* The table and the objects agree: m_sessions maps an account to a session of that
\* account that is not deleted, and every undeleted session the world thread took
\* over is in the table (otherwise nobody would ever delete it or save its player).
TableOwnsSessions ==
    /\ \A a \in Account : m_sessions[a] # None =>
           /\ life[m_sessions[a]] = "listed"
           /\ account[m_sessions[a]] = a
    /\ \A s \in Sess : life[s] = "listed" => m_sessions[account[s]] = s

\* m_QueuedSessions holds raw pointers: none of them is dangling, and no session
\* waits twice, whatever order kicks, reconnects and disconnects come in.
QueuePointersLive ==
    /\ \A i \in DOMAIN m_QueuedSessions : life[m_QueuedSessions[i]] = "listed"
    /\ \A i, j \in DOMAIN m_QueuedSessions :
           m_QueuedSessions[i] = m_QueuedSessions[j] => i = j

\* The flag that gates STATUS_AUTHED opcodes follows the queue: a waiting session
\* has it set, and a live connected session that has it set is waiting (otherwise
\* the client would be locked out with nobody left to let it in).
QueueFlagsAgree ==
    /\ \A i \in DOMAIN m_QueuedSessions : m_inQueue[m_QueuedSessions[i]]
    /\ \A s \in Sess : life[s] = "listed" /\ socket[s] = "open" /\ m_inQueue[s] =>
           \E i \in DOMAIN m_QueuedSessions : m_QueuedSessions[i] = s

\* World::m_sessions is sound: every variable has its type, and the table and the
\* session objects own each other.
TableSound == TypeOK /\ TableOwnsSessions

\* World::m_QueuedSessions is sound: its raw pointers are live and the flags of the
\* sessions follow it, so no client is locked out for good and none slips past it.
QueueSound == QueuePointersLive /\ QueueFlagsAgree

-----------------------------------------------------------------------------
(* The inductive invariant behind the invariants above.  A session is    *)
(* created by a network thread, travels through addSessQueue once, and only    *)
(* then gets flags and a player.                                               *)

HandOver ==
    /\ adder # None => life[adder] = "auth"
    /\ \A i \in DOMAIN addSessQueue : life[addSessQueue[i]] = "adding"
    /\ \A i, j \in DOMAIN addSessQueue : addSessQueue[i] = addSessQueue[j] => i = j

SessionStages ==
    \A s \in Sess :
        /\ life[s] # "none" => account[s] \in Account
        /\ life[s] \in {"none", "auth", "adding"} => ~m_inQueue[s]
        /\ m_player[s] => life[s] = "listed"

PlayersCounted ==
    \A a \in Account : m_sessions[a] # None /\ m_player[m_sessions[a]] => players[a] >= 1

TodoListed == \A a \in todo : m_sessions[a] # None

IInv ==
    /\ TypeOK
    /\ TableOwnsSessions
    /\ QueuePointersLive
    /\ QueueFlagsAgree
    /\ HandOver
    /\ SessionStages
    /\ PlayersCounted
    /\ TodoListed

-----------------------------------------------------------------------------

\* Clients see their real place: the last position sent to a waiting session is its
\* position in the queue, and whoever was let in was told so.
PositionsTold ==
    /\ \A i \in DOMAIN m_QueuedSessions : told[m_QueuedSessions[i]] = i
    /\ \A s \in Sess : life[s] = "listed" /\ ~m_inQueue[s] => told[s] = 0

NoPlaceUnused ==
    m_playerLimit > 0 /\ m_QueuedSessions # <<>> =>
        GetActiveSessionCount >= m_playerLimit

ActivePlayers ==
    {s \in Sess : /\ life[s] = "listed"
                  /\ Security[account[s]] = SEC_PLAYER
                  /\ GetQueuedSessionPos(m_QueuedSessions, s) = 0}

\* The limit is kept from both sides.  Nobody waits while there is a free place: as long as
\* the limit is not changed, no step leaves a place unused that the queue could fill
\* (RemoveQueuedSession and AddSession_ have to agree on who counts as active).  And a
\* step that lets a SEC_PLAYER session in, from the queue or directly, never brings the
\* number of active SEC_PLAYER sessions above a positive limit.
LimitKept ==
    /\ NoPlaceUnused /\ m_playerLimit' = m_playerLimit => NoPlaceUnused'
    /\ \A s \in ActivePlayers' \ ActivePlayers :
          told'[s] = 0 /\ m_playerLimit > 0 =>
              Cardinality(ActivePlayers') <= m_playerLimit
LimitExact == [][LimitKept]_vars

\* The queue is first in, first out: nobody who is behind a session that keeps
\* waiting, or who joins later, gets ahead of it or is let in from the queue.
NobodyOvertakes ==
    LET Pos(x)    == GetQueuedSessionPos(m_QueuedSessions, x)
        NewPos(x) == GetQueuedSessionPos(m_QueuedSessions', x)
    IN \A x \in Sess : Pos(x) # 0 /\ NewPos(x) # 0 =>
          \A y \in Sess :
             /\ Pos(y) = 0 => NewPos(y) = 0 \/ NewPos(y) > NewPos(x)
             /\ Pos(y) > Pos(x) => \/ NewPos(y) > NewPos(x)
                                   \/ life'[y] = "deleted"
QueueFIFO == [][NobodyOvertakes]_vars

\* Every loaded Player object of the account is the player of its session.
OwnsPlayers(a) ==
    players[a] = IF m_sessions[a] # None /\ m_player[m_sessions[a]] THEN 1 ELSE 0

\* "prevent cheating with skip queue wait" (WorldSession.cpp): a session that waits
\* in the queue has no player in the world, and no player is without its session, as
\* long as the account never lost a session in the middle of a login: the callback,
\* which finds its session by account id, then finds the session that asked for it.
LoginsReachTheirSession ==
    \A a \in Account \ abandoned :
        /\ OwnsPlayers(a)
        /\ m_sessions[a] # None /\ m_player[m_sessions[a]] =>
               GetQueuedSessionPos(m_QueuedSessions, m_sessions[a]) = 0

\* "save and kick all players" (CleanupsBeforeStop): when the world has stopped no
\* player is left in it, although clients may still connect meanwhile.
StoppedWithoutPlayers ==
    phase = "stopped" => \A a \in Account \ abandoned : players[a] = 0

\* A session does not hang.  A broken connection does not stay in the table: its session
\* is deleted, and the place goes to the next client.  A login in progress ends: the
\* callback clears the flag or the session is gone.
SessionsSettle ==
    \A s \in Sess :
        /\ (life[s] = "listed" /\ socket[s] # "open") ~>
               (life[s] = "deleted" \/ phase = "stopped")
        /\ m_playerLoading[s] ~>
               (~m_playerLoading[s] \/ life[s] = "deleted" \/ phase = "stopped")

=============================================================================
