----------------------------- MODULE WorldSocket -----------------------------
(***************************************************************************)
(* Opening, authenticating and closing connections, at the grain of the    *)
(* code's locks: Socket.cpp, WorldSocket.cpp, NetworkManager.cpp and       *)
(* NetworkThread.cpp.                                                      *)
(*                                                                         *)
(* Three threads share a WorldSocket: the acceptor opens it, its network   *)
(* thread reads packets and authenticates it, and the world thread closes  *)
(* it (KickPlayer, a failed send, ~WorldSession) and watches IsClosed().   *)
(* closed_ is a plain bool that is tested and set without a lock, and      *)
(* m_SessionLock covers some accesses of m_Session but not all, so every   *)
(* thread proceeds in small steps.                                         *)
(***************************************************************************)
EXTENDS Integers, FiniteSets

CONSTANTS
    Sock,           \* WorldSocket objects, all owned by one network thread
    Sess,           \* WorldSession objects
    None

ASSUME SocketConstants ==
    /\ None \notin Sock \cup Sess
    /\ IsFiniteSet(Sock)

VARIABLES
    closed_,        \* Socket::closed_
    reading,        \* whether an async_read_some is pending
    authSent,       \* whether the client has sent CMSG_AUTH_SESSION
    m_Session,      \* WorldSocket::m_Session
    life,           \* lifetime of each WorldSession object
    m_Socket,       \* WorldSession::m_Socket
    connections_,   \* NetworkThread::connections_
    sockets_,       \* NetworkThread::sockets_
    accepting,      \* whether an async_accept is pending
    thread,         \* where each thread is
    raced,          \* history: the sockets on which a session was created in the
                    \* middle of a close, after m_Session had been cleared
    stale           \* history: the sockets whose m_Session was used after its
                    \* session was deleted, or after it became null

sockVars == <<closed_, reading, authSent>>
sessVars == <<life, m_Socket>>
mgrVars == <<connections_, sockets_, accepting>>
history == <<raced, stale>>
vars == <<sockVars, m_Session, sessVars, mgrVars, thread, history>>

Thread == {"acceptor", "network", "world"}
\* "lost": a session that is set on its socket and that no table will ever hold.
Life == {"none", "auth", "adding", "listed", "lost", "deleted"}
At == {"idle", "challenge", "auth", "create", "add", "data", "next",
       "forget", "test", "close", "notify"}
Then == {"return", "delete", "kickDelete"}

Idle == [at |-> "idle", k |-> None, s |-> None, then |-> "return"]

TypeOK ==
    /\ closed_ \in [Sock -> BOOLEAN]
    /\ reading \in [Sock -> BOOLEAN]
    /\ authSent \in [Sock -> BOOLEAN]
    /\ m_Session \in [Sock -> Sess \cup {None}]
    /\ life \in [Sess -> Life]
    /\ m_Socket \in [Sess -> Sock \cup {None}]
    /\ connections_ \in Int /\ connections_ <= Cardinality(Sock)
    /\ sockets_ \in SUBSET Sock
    /\ accepting \in BOOLEAN
    /\ thread \in [Thread -> [at : At, k : Sock \cup {None},
                              s : Sess \cup {None}, then : Then]]
    /\ raced \in SUBSET Sock
    /\ stale \in SUBSET Sock

Init ==
    /\ closed_ = [k \in Sock |-> TRUE]
    /\ reading = [k \in Sock |-> FALSE]
    /\ authSent = [k \in Sock |-> FALSE]
    /\ m_Session = [k \in Sock |-> None]
    /\ life = [s \in Sess |-> "none"]
    /\ m_Socket = [s \in Sess |-> None]
    /\ connections_ = 0
    /\ sockets_ = {}
    /\ accepting = TRUE
    /\ thread = [t \in Thread |-> Idle]
    /\ raced = {}
    /\ stale = {}

At_(t, p) == thread[t].at = p
Goto(t, p) == thread' = [thread EXCEPT ![t].at = p]
\* Thread t calls WorldSocket::CloseSocket on k and then does what `then` says to s.
CallClose(t, k, s, then) ==
    thread' = [thread EXCEPT ![t] = [at |-> "forget", k |-> k, s |-> s, then |-> then]]

-----------------------------------------------------------------------------
(* WorldSocket::CloseSocket, run by any of the threads *)

\* First block: m_Session = nullptr under m_SessionLock.
Mutant_Forget(k) == UNCHANGED m_Session
Forget(k) == m_Session' = [m_Session EXCEPT ![k] = None]

CloseForget(t) ==
    /\ At_(t, "forget")
    /\ Forget(thread[t].k)
    /\ Goto(t, "test")
    /\ UNCHANGED <<sockVars, sessVars, mgrVars, history>>

\* CloseSocket returns: KickPlayer is followed by the destructor, which closes
\* again, or the session object goes, or the caller just goes on.
Return(t) ==
    CASE thread[t].then = "kickDelete" ->
            /\ thread' = [thread EXCEPT ![t].at = "forget", ![t].then = "delete"]
            /\ UNCHANGED sessVars
      [] thread[t].then = "delete" ->
            /\ life' = [life EXCEPT ![thread[t].s] = "deleted"]
            /\ m_Socket' = [m_Socket EXCEPT ![thread[t].s] = None]
            /\ thread' = [thread EXCEPT ![t] = Idle]
      [] OTHER ->
            /\ thread' = [thread EXCEPT ![t] = Idle]
            /\ UNCHANGED sessVars

\* Socket::CloseSocket: if (closed_) return;
CloseTest(t) ==
    /\ At_(t, "test")
    /\ IF closed_[thread[t].k] THEN Return(t) ELSE Goto(t, "close") /\ UNCHANGED sessVars
    /\ UNCHANGED <<sockVars, m_Session, mgrVars, history>>

\* Socket::Close: closed_ = true, shutdown and close of the handle.
CloseSet(t) ==
    /\ At_(t, "close")
    /\ closed_' = [closed_ EXCEPT ![thread[t].k] = TRUE]
    /\ Goto(t, "notify")
    /\ UNCHANGED <<reading, authSent, m_Session, sessVars, mgrVars, history>>

\* NetworkThread::RemoveSocket through NetworkManager::OnSocketClose.
Mutant_NotCounted(k) == sockets_' = sockets_ \ {k} /\ UNCHANGED connections_
RemoveSocket(k) ==
    /\ connections_' = connections_ - 1
    /\ sockets_' = sockets_ \ {k}

CloseNotify(t) ==
    /\ At_(t, "notify")
    /\ RemoveSocket(thread[t].k)
    /\ Return(t)
    /\ UNCHANGED <<sockVars, m_Session, accepting, history>>

CloseNext(t) == CloseForget(t) \/ CloseTest(t) \/ CloseSet(t) \/ CloseNotify(t)

-----------------------------------------------------------------------------
(* Acceptor thread *)

\* NetworkThread::AddSocket through OnSocketOpen.
AddSocket(k) ==
    /\ connections_' = connections_ + 1
    /\ sockets_' = sockets_ \cup {k}

\* NetworkManager::OnNewConnection -> Socket::Open: the socket is registered, opened
\* for both threads and the first read starts.
OnNewConnection(k) ==
    /\ accepting
    /\ At_("acceptor", "idle")
    /\ k \notin sockets_
    /\ closed_[k] /\ ~reading[k] /\ ~authSent[k]    \* a fresh object
    /\ \A t \in Thread : thread[t].k # k
    /\ accepting' = FALSE
    /\ AddSocket(k)
    /\ closed_' = [closed_ EXCEPT ![k] = FALSE]
    /\ reading' = [reading EXCEPT ![k] = TRUE]
    /\ thread' = [thread EXCEPT !["acceptor"] = [Idle EXCEPT !.at = "challenge", !.k = k]]
    /\ UNCHANGED <<authSent, m_Session, sessVars, history>>

\* The rest of WorldSocket::Open: SendPacket(SMSG_AUTH_CHALLENGE) fails on a closed
\* socket, and then OnNewConnection returns before AcceptNewConnection.
SendChallenge ==
    /\ At_("acceptor", "challenge")
    /\ LET k == thread["acceptor"].k
       IN IF closed_[k]
          THEN CallClose("acceptor", k, None, "return") /\ UNCHANGED accepting
          ELSE /\ thread' = [thread EXCEPT !["acceptor"] = Idle]
               /\ accepting' = TRUE
    /\ UNCHANGED <<sockVars, m_Session, sessVars, connections_, sockets_, history>>

\* async_accept completes with an error: logged, nothing else.
AcceptError ==
    /\ accepting
    /\ At_("acceptor", "idle")
    /\ accepting' = FALSE
    /\ UNCHANGED <<sockVars, m_Session, sessVars, connections_, sockets_, thread, history>>

AcceptorNext == SendChallenge \/ CloseNext("acceptor")

-----------------------------------------------------------------------------
(* Network thread *)

\* Socket::OnReadComplete with an error: OnError closes the socket.
OnReadError(k) ==
    /\ At_("network", "idle")
    /\ reading[k]
    /\ reading' = [reading EXCEPT ![k] = FALSE]
    /\ CallClose("network", k, None, "return")
    /\ UNCHANGED <<closed_, authSent, m_Session, sessVars, mgrVars, history>>

\* The head of WorldSocket::ProcessIncoming: a closed socket ends the loop with -1,
\* which OnReadComplete answers with CloseSocket.
ProcessIncoming(k, op) ==
    IF closed_[k] THEN CallClose("network", k, None, "return")
    ELSE thread' = [thread EXCEPT !["network"] = [Idle EXCEPT !.at = op, !.k = k]]

\* OnReadComplete with data, or the next packet of the same data.
OnReadComplete(k, op) ==
    /\ \/ At_("network", "idle") /\ reading[k]
       \/ At_("network", "next") /\ thread["network"].k = k
    /\ reading' = [reading EXCEPT ![k] = FALSE]
    /\ authSent' = [authSent EXCEPT ![k] = @ \/ op = "auth"]
    /\ ProcessIncoming(k, op)
    /\ UNCHANGED <<closed_, m_Session, sessVars, mgrVars, history>>

\* CMSG_AUTH_SESSION: "send again" is tested without the lock.
AuthAgain(k) == m_Session[k] # None

AuthCheck ==
    /\ At_("network", "auth")
    /\ LET k == thread["network"].k
       IN IF AuthAgain(k) THEN CallClose("network", k, None, "return")
          ELSE Goto("network", "create")
    /\ UNCHANGED <<sockVars, m_Session, sessVars, mgrVars, history>>

\* HandleAuthSession refuses the client, or creates the session and points
\* m_Session to it, without the lock.
AuthRefuse ==
    /\ At_("network", "create")
    /\ CallClose("network", thread["network"].k, None, "return")
    /\ UNCHANGED <<sockVars, m_Session, sessVars, mgrVars, history>>

\* A close of k by another thread has cleared m_Session already.
Closing(k) ==
    \/ closed_[k]
    \/ \E t \in Thread : thread[t].k = k /\ thread[t].at \in {"test", "close", "notify"}

AuthCreate(s) ==
    /\ At_("network", "create")
    /\ life[s] = "none"
    /\ LET k == thread["network"].k
       IN /\ m_Session' = [m_Session EXCEPT ![k] = s]
          /\ life' = [life EXCEPT ![s] = "auth"]
          /\ m_Socket' = [m_Socket EXCEPT ![s] = k]
          /\ Goto("network", "add")
          /\ raced' = IF Closing(k) THEN raced \cup {k} ELSE raced
    /\ UNCHANGED <<sockVars, mgrVars, stale>>

\* m_Session is read again for the account data and for sWorld.AddSession(m_Session).
AddSession ==
    /\ At_("network", "add")
    /\ LET k == thread["network"].k
           s == m_Session[k]
       IN IF s # None
          THEN life' = [life EXCEPT ![s] = "adding"] /\ UNCHANGED stale
          ELSE stale' = stale \cup {k} /\ UNCHANGED life
    /\ Goto("network", "next")
    /\ UNCHANGED <<sockVars, m_Session, m_Socket, mgrVars, raced>>

\* The catch of ProcessIncoming: CONFIG_BOOL_KICK_PLAYER_ON_BAD_PACKET says whether a packet
\* that throws ends the connection.
BadPacket(k) == CallClose("network", k, None, "return") \/ Goto("network", "next")

\* ReadAddonsInfo throws: m_Session stays set, and AddSession is not reached.
AuthThrows ==
    /\ At_("network", "add")
    /\ LET k == thread["network"].k
       IN /\ \E s \in Sess : /\ life[s] = "auth" /\ m_Socket[s] = k
                             /\ life' = [life EXCEPT ![s] = "lost"]
          /\ BadPacket(k)
    /\ UNCHANGED <<sockVars, m_Session, m_Socket, mgrVars, history>>

\* A CMSG_PING, or a CMSG_AUTH_SESSION in front of its session, that throws; the disjunct
\* that goes on is a CMSG_KEEP_ALIVE too.
PacketThrows ==
    /\ At_("network", "create") \/ At_("network", "data")
    /\ BadPacket(thread["network"].k)
    /\ UNCHANGED <<sockVars, m_Session, sessVars, mgrVars, history>>

\* Any other opcode, and the critical section of HandlePing: under m_SessionLock the
\* session is used if there is one, else the client is not authenticated.
UseSession ==
    /\ At_("network", "data")
    /\ LET k == thread["network"].k
           s == m_Session[k]
       IN IF s # None
          THEN /\ Goto("network", "next")
               /\ stale' = IF life[s] = "deleted" THEN stale \cup {k} ELSE stale
          ELSE CallClose("network", k, None, "return") /\ UNCHANGED stale
    /\ UNCHANGED <<sockVars, m_Session, sessVars, mgrVars, raced>>

\* No more data: StartAsyncRead, which does nothing on a closed socket.
StartAsyncRead ==
    /\ At_("network", "next")
    /\ LET k == thread["network"].k
       IN reading' = [reading EXCEPT ![k] = ~closed_[k]]
    /\ thread' = [thread EXCEPT !["network"] = Idle]
    /\ UNCHANGED <<closed_, authSent, m_Session, sessVars, mgrVars, history>>

NetworkNext ==
    \/ \E k \in Sock : OnReadError(k)
    \/ AuthCheck
    \/ AuthRefuse
    \/ \E s \in Sess : AuthCreate(s)
    \/ AddSession
    \/ AuthThrows
    \/ PacketThrows
    \/ UseSession
    \/ StartAsyncRead
    \/ CloseNext("network")

-----------------------------------------------------------------------------
(* World thread *)

\* UpdateSessions takes the session over.
TakeSession(s) ==
    /\ At_("world", "idle")
    /\ life[s] = "adding"
    /\ life' = [life EXCEPT ![s] = "listed"]
    /\ UNCHANGED <<sockVars, m_Session, m_Socket, mgrVars, thread, history>>

\* KickPlayer, or the CloseSocket after a failed SendPacket.
KickPlayer(s) ==
    /\ At_("world", "idle")
    /\ life[s] = "listed"
    /\ m_Socket[s] # None
    /\ CallClose("world", m_Socket[s], None, "return")
    /\ UNCHANGED <<sockVars, m_Session, sessVars, mgrVars, history>>

\* AddSession_ refuses a new session or replaces an old one: KickPlayer and delete.
KickAndDelete(s) ==
    /\ At_("world", "idle")
    /\ life[s] \in {"adding", "listed"}
    /\ m_Socket[s] # None
    /\ CallClose("world", m_Socket[s], s, "kickDelete")
    /\ UNCHANGED <<sockVars, m_Session, sessVars, mgrVars, history>>

\* m_Socket && m_Socket->IsClosed()
Mutant_SocketClosed(s) ==
    m_Socket[s] # None /\ closed_[m_Socket[s]] /\ m_Socket[s] \in sockets_
SocketClosed(s) == m_Socket[s] # None /\ closed_[m_Socket[s]]

\* WorldSession::Update finds its socket closed, drops it, and UpdateSessions deletes
\* the session; the destructor has no socket left to close.
UpdateClosed(s) ==
    /\ At_("world", "idle")
    /\ life[s] = "listed"
    /\ SocketClosed(s)
    /\ m_Socket' = [m_Socket EXCEPT ![s] = None]
    /\ life' = [life EXCEPT ![s] = "deleted"]
    /\ UNCHANGED <<sockVars, m_Session, mgrVars, thread, history>>

\* World::UpdateSessions takes over every new session and visits every listed one in
\* each of its calls, whatever else the world thread does between them.
UpdateSessions(s) == TakeSession(s) \/ UpdateClosed(s)

WorldNext == (\E s \in Sess : UpdateSessions(s)) \/ CloseNext("world")

-----------------------------------------------------------------------------

ClientNext == \E k \in Sock : \/ OnNewConnection(k)
                              \/ \E op \in {"auth", "data"} : OnReadComplete(k, op)
WorldCommands == \E s \in Sess : KickPlayer(s) \/ KickAndDelete(s)

Next == \/ ClientNext \/ AcceptorNext \/ AcceptError \/ NetworkNext \/ WorldNext
        \/ WorldCommands

\* Every thread that is inside a handler runs to its end, and the world thread keeps
\* updating sessions.  Clients and administrators owe nothing; a pending read of a
\* closed handle is cancelled by the reactor.
Fairness ==
    /\ WF_vars(AcceptorNext)
    /\ WF_vars(AuthCheck) /\ WF_vars(AuthRefuse) /\ WF_vars(AddSession)
    /\ WF_vars(UseSession) /\ WF_vars(StartAsyncRead) /\ WF_vars(CloseNext("network"))
    /\ \A k \in Sock : WF_vars(closed_[k] /\ OnReadError(k))
    /\ WF_vars(CloseNext("world"))
    /\ \A s \in Sess : SF_vars(UpdateSessions(s))

Spec == Init /\ [][Next]_vars /\ Fairness

-----------------------------------------------------------------------------
(* Properties *)

Notifying(k) == \E t \in Thread : thread[t].k = k /\ thread[t].at = "notify"

\* Who holds whom, in three parts.  The routing pointer and the session agree: a socket
\* routes to a live session that writes to that same socket, a socket whose closed_ flag is
\* up routes to none (CloseSocket clears the pointer first and sets the flag after it), and
\* no two sessions write to the same connection; the network thread uses m_Session after
\* the world thread deleted the session or cleared the pointer in one case only, when it
\* created that session in the middle of a close ("Mutex lock to protect m_Session").
\* NetworkThread::sockets_ keeps a socket alive exactly while it is open: no thread that
\* closes first leaves it registered, and none unregisters an open one.  And connections_,
\* which steers new clients to the least loaded thread, never keeps a closed connection,
\* however its close is raced.
RoutesToOwner ==
    /\ TypeOK
    /\ \A k \in Sock \ raced :
          /\ m_Session[k] # None => /\ life[m_Session[k]] \notin {"none", "deleted"}
                                    /\ m_Socket[m_Session[k]] = k
          /\ closed_[k] => m_Session[k] = None
    /\ \A s1, s2 \in Sess :
          m_Socket[s1] \notin raced \cup {None} /\ m_Socket[s1] = m_Socket[s2] => s1 = s2
    /\ stale \subseteq raced
    /\ \A k \in Sock : /\ ~closed_[k] => k \in sockets_
                       /\ closed_[k] /\ ~Notifying(k) => k \notin sockets_
    /\ (\A k \in Sock : ~Notifying(k)) => connections_ <= Cardinality(sockets_)

\* A session whose connection is closed is deleted, whichever thread closed it.  It is not if
\* its addon data threw before it was added: no thread ever visits that session again.
ClosedSessionDeleted ==
    \A s \in Sess : (m_Socket[s] # None /\ closed_[m_Socket[s]]) ~>
                       (life[s] \in {"lost", "deleted"} \/ stale # {})

=============================================================================
