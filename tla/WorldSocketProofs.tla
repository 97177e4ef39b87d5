------------------------- MODULE WorldSocketProofs --------------------------
(***************************************************************************)
(* Proofs about WorldSocket, for every finite set of sockets and every set *)
(* of sessions: who holds whom (RoutesToOwner) at every interleaving of    *)
(* the acceptor, the network thread and the world thread.                  *)
(***************************************************************************)
EXTENDS WorldSocket, FiniteSetTheorems, TLAPS

ClosePoints == {"forget", "test", "close", "notify"}

\* The acceptor closes only sockets that are closed already, the network thread closes for
\* itself, and the world thread closes for a session it has taken over or is being given.
ThreadsInv ==
    /\ \A t \in Thread : thread[t].at = "idle" \/ thread[t].k \in Sock
    /\ \A t \in Thread : thread[t].at = "notify" => closed_[thread[t].k]
    /\ thread["acceptor"].at \in {"idle", "challenge", "forget", "test"}
    /\ thread["acceptor"].then = "return"
    /\ thread["acceptor"].at \in {"forget", "test"} => closed_[thread["acceptor"].k]
    /\ thread["network"].then = "return"
    /\ thread["network"].at # "challenge"
    /\ thread["world"].at \in {"idle"} \cup ClosePoints
    /\ thread["world"].at # "idle" =>
          \E s \in Sess : /\ m_Socket[s] = thread["world"].k
                          /\ life[s] \in {"adding", "listed"}
                          /\ thread["world"].then # "return" => s = thread["world"].s

\* What the network thread knows while it authenticates a client.
AuthInv ==
    LET k == thread["network"].k
    IN /\ thread["network"].at \in {"auth", "create", "add"} => authSent[k]
       /\ thread["network"].at = "create" => m_Session[k] = None
       /\ thread["network"].at = "add" =>
             /\ m_Session[k] = None => k \in raced
             /\ m_Session[k] # None => life[m_Session[k]] = "auth" /\ m_Socket[m_Session[k]] = k

\* A session that was not made yet is nowhere, and a client that has not sent
\* CMSG_AUTH_SESSION has no session.
FreshInv ==
    /\ \A s \in Sess : life[s] = "none" =>
          m_Socket[s] = None /\ \A k \in Sock : m_Session[k] # s
    /\ \A k \in Sock : ~authSent[k] => \A s \in Sess : m_Socket[s] # k

\* The routing pointer and the session agree, up to the moment a close clears the pointer.
RouteInv ==
    /\ \A k \in Sock \ raced : m_Session[k] # None =>
          life[m_Session[k]] \in {"auth", "adding", "listed", "lost"} /\ m_Socket[m_Session[k]] = k
    /\ \A k \in Sock \ raced : Closing(k) => m_Session[k] = None
    /\ \A k \in Sock \ raced, s \in Sess :
          m_Socket[s] = k => m_Session[k] = s \/ Closing(k)
    /\ \A s1, s2 \in Sess :
          m_Socket[s1] \notin raced \cup {None} /\ m_Socket[s1] = m_Socket[s2] => s1 = s2
    /\ stale \subseteq raced

\* sockets_ and connections_ count no socket that is gone.
RegisterInv ==
    /\ \A k \in Sock : ~closed_[k] => k \in sockets_
    /\ \A k \in Sock : closed_[k] /\ ~Notifying(k) => k \notin sockets_
    /\ connections_ <= Cardinality(sockets_)

IInv == TypeOK /\ ThreadsInv /\ AuthInv /\ FreshInv /\ RouteInv /\ RegisterInv

\* Where a thread may be.
Place == [at : At, k : Sock \cup {None}, s : Sess \cup {None}, then : Then]

\* Thread t moves to p and the others stay.
Moves(t, p) ==
    /\ thread' \in [Thread -> Place]
    /\ thread'[t] = p
    /\ \A u \in Thread \ {t} : thread'[u] = thread[u]

-----------------------------------------------------------------------------

LEMMA PlaceOf ==
  ASSUME TypeOK, NEW t \in Thread
  PROVE  /\ thread \in [Thread -> Place]
         /\ thread[t] = [at |-> thread[t].at, k |-> thread[t].k,
                         s |-> thread[t].s, then |-> thread[t].then]
         /\ thread[t].at \in At /\ thread[t].k \in Sock \cup {None}
         /\ thread[t].s \in Sess \cup {None} /\ thread[t].then \in Then
<1>1. thread \in [Thread -> Place]
  BY DEF TypeOK, Place
<1> QED BY <1>1 DEF Place

LEMMA SetPlace ==
  ASSUME TypeOK, NEW t \in Thread, NEW p \in Place, thread' = [thread EXCEPT ![t] = p]
  PROVE  Moves(t, p)
<1>1. thread \in [Thread -> Place]
  BY PlaceOf
<1> QED BY <1>1 DEF Moves

LEMMA GotoMoves ==
  ASSUME TypeOK, NEW t \in Thread, NEW p \in At, Goto(t, p)
  PROVE  Moves(t, [at |-> p, k |-> thread[t].k, s |-> thread[t].s, then |-> thread[t].then])
<1> DEFINE new == [at |-> p, k |-> thread[t].k, s |-> thread[t].s, then |-> thread[t].then]
<1>1. /\ thread[t] = [at |-> thread[t].at, k |-> thread[t].k,
                      s |-> thread[t].s, then |-> thread[t].then]
      /\ new \in Place
  BY PlaceOf DEF Place
<1>2. [thread[t] EXCEPT !.at = p] = new
  BY <1>1
<1>3. thread' = [thread EXCEPT ![t] = new]
  BY <1>2 DEF Goto
<1> HIDE DEF new
<1>4. Moves(t, new)
  BY <1>1, <1>3, SetPlace
<1> QED BY <1>4 DEF new

LEMMA CallCloseMoves ==
  ASSUME TypeOK, NEW t \in Thread, NEW k \in Sock, NEW s \in Sess \cup {None},
         NEW then \in Then, CallClose(t, k, s, then)
  PROVE  Moves(t, [at |-> "forget", k |-> k, s |-> s, then |-> then])
<1>1. [at |-> "forget", k |-> k, s |-> s, then |-> then] \in Place
  BY DEF Place, At
<1> QED BY <1>1, SetPlace DEF CallClose

LEMMA IdleMoves ==
  ASSUME TypeOK, NEW t \in Thread, thread' = [thread EXCEPT ![t] = Idle]
  PROVE  Moves(t, Idle)
<1>1. Idle \in Place
  BY DEF Idle, Place, At, Then
<1> QED BY <1>1, SetPlace

-----------------------------------------------------------------------------

\* A step of thread t outside the body of CloseSocket that leaves the sockets, the sessions
\* and the counts alone.
LEMMA QuietStep ==
  ASSUME IInv, NEW t \in Thread, NEW p, Moves(t, p),
         UNCHANGED <<closed_, m_Session, life, m_Socket, connections_, sockets_, raced>>,
         thread[t].at \notin {"test", "close", "notify"}, p.at \notin {"test", "close", "notify"},
         stale' \subseteq raced,
         reading' \in [Sock -> BOOLEAN], authSent' \in [Sock -> BOOLEAN],
         \A k \in Sock : authSent[k] => authSent'[k],
         accepting' \in BOOLEAN,
         ThreadsInv', AuthInv'
  PROVE  IInv'
<1>1. TypeOK'
  BY DEF IInv, TypeOK, RouteInv, Moves, Place
<1>2. FreshInv'
  BY DEF IInv, FreshInv
<1>3. \A k \in Sock : Closing(k)' <=> Closing(k)
  BY DEF Closing, Moves
<1>4. \A k \in Sock : Notifying(k)' <=> Notifying(k)
  BY DEF Notifying, Moves
<1>5. RouteInv'
  BY <1>3 DEF IInv, RouteInv
<1>6. RegisterInv'
  BY <1>4 DEF IInv, RegisterInv
<1> QED BY <1>1, <1>2, <1>5, <1>6 DEF IInv

\* A thread that calls WorldSocket::CloseSocket.
LEMMA CallCloseStep ==
  ASSUME IInv, NEW t \in Thread, NEW k \in Sock, NEW s \in Sess \cup {None}, NEW then \in Then,
         CallClose(t, k, s, then),
         UNCHANGED <<closed_, m_Session, life, m_Socket, connections_, sockets_, raced>>,
         thread[t].at \notin {"test", "close", "notify"},
         stale' \subseteq raced,
         reading' \in [Sock -> BOOLEAN], authSent' \in [Sock -> BOOLEAN],
         \A j \in Sock : authSent[j] => authSent'[j],
         accepting' \in BOOLEAN,
         t = "acceptor" => closed_[k] /\ then = "return",
         t = "network" => then = "return",
         t = "world" =>
            \E r \in Sess : /\ m_Socket[r] = k
                            /\ life[r] \in {"adding", "listed"}
                            /\ then # "return" => r = s
  PROVE  IInv'
<1> DEFINE p == [at |-> "forget", k |-> k, s |-> s, then |-> then]
<1>1. Moves(t, p)
  BY CallCloseMoves DEF IInv
<1>2. p.at = "forget" /\ p.k = k /\ p.s = s /\ p.then = then
  OBVIOUS
<1> HIDE DEF p
<1>3. ThreadsInv'
  <2>1. /\ thread'[t] = p
        /\ \A u \in Thread \ {t} : thread'[u] = thread[u]
    BY <1>1 DEF Moves
  <2>2. \A u \in Thread : /\ thread'[u].at = "idle" \/ thread'[u].k \in Sock
                          /\ thread'[u].at = "notify" => closed_[thread'[u].k]
    BY <1>2, <2>1 DEF IInv, ThreadsInv
  <2>3. /\ thread'["acceptor"].at \in {"idle", "challenge", "forget", "test"}
        /\ thread'["acceptor"].then = "return"
        /\ thread'["acceptor"].at \in {"forget", "test"} => closed_[thread'["acceptor"].k]
    BY <1>2, <2>1 DEF IInv, ThreadsInv, Thread
  <2>4. thread'["network"].then = "return" /\ thread'["network"].at # "challenge"
    BY <1>2, <2>1 DEF IInv, ThreadsInv, Thread
  <2>5. /\ thread'["world"].at \in {"idle"} \cup ClosePoints
        /\ thread'["world"].at # "idle" =>
              \E r \in Sess : /\ m_Socket[r] = thread'["world"].k
                              /\ life[r] \in {"adding", "listed"}
                              /\ thread'["world"].then # "return" => r = thread'["world"].s
    <3>1. CASE t = "world"
      BY <1>2, <2>1, <3>1 DEF ClosePoints
    <3>2. CASE t # "world"
      BY <2>1, <3>2 DEF IInv, ThreadsInv, Thread
    <3> QED BY <3>1, <3>2
  <2> QED BY <2>2, <2>3, <2>4, <2>5 DEF ThreadsInv
<1>4. AuthInv'
  <2>1. CASE t = "network"
    BY <1>1, <1>2, <2>1 DEF AuthInv, Moves, Thread
  <2>2. CASE t # "network"
    <3>1. thread'["network"] = thread["network"]
      BY <1>1, <2>2 DEF Moves, Thread
    <3>2. thread["network"].at # "idle" => thread["network"].k \in Sock
      BY DEF IInv, ThreadsInv, Thread
    <3> QED BY <3>1, <3>2 DEF IInv, AuthInv
  <2> QED BY <2>1, <2>2
<1> QED BY <1>1, <1>2, <1>3, <1>4, QuietStep

LEMMA SendChallengeIInv == IInv /\ SendChallenge => IInv'
<1> SUFFICES ASSUME IInv, SendChallenge PROVE IInv'
  OBVIOUS
<1> DEFINE k == thread["acceptor"].k
<1>1. /\ thread["acceptor"].at = "challenge" /\ k \in Sock /\ "acceptor" \in Thread
      /\ UNCHANGED <<sockVars, m_Session, sessVars, connections_, sockets_, history>>
  BY DEF SendChallenge, At_, IInv, ThreadsInv, Thread
<1>2. CASE closed_[k]
  <2>1. CallClose("acceptor", k, None, "return") /\ UNCHANGED accepting
    BY <1>2 DEF SendChallenge
  <2> QED BY <1>1, <1>2, <2>1, CallCloseStep
          DEF sockVars, sessVars, history, IInv, TypeOK, RouteInv, Then
<1>3. CASE ~closed_[k]
  <2>1. thread' = [thread EXCEPT !["acceptor"] = Idle] /\ accepting' = TRUE
    BY <1>3 DEF SendChallenge
  <2>2. Moves("acceptor", Idle)
    BY <1>1, <2>1, IdleMoves DEF IInv
  <2>3. ThreadsInv'
    BY <1>1, <2>2 DEF IInv, ThreadsInv, Moves, Thread, Idle, sockVars, sessVars
  <2>4. AuthInv'
    BY <1>1, <2>2 DEF IInv, AuthInv, Moves, Thread, sockVars, sessVars, history
  <2> QED BY <1>1, <2>1, <2>2, <2>3, <2>4, QuietStep
          DEF sockVars, sessVars, history, Idle, IInv, TypeOK, RouteInv
<1> QED BY <1>2, <1>3

LEMMA AcceptErrorIInv == IInv /\ AcceptError => IInv'
<1> SUFFICES ASSUME IInv, AcceptError PROVE IInv'
  OBVIOUS
<1>1. /\ UNCHANGED <<sockVars, m_Session, sessVars, connections_, sockets_, thread, history>>
      /\ accepting' = FALSE
  BY DEF AcceptError
<1>2. TypeOK'
  BY <1>1 DEF IInv, TypeOK, sockVars, sessVars, history
<1>3. ThreadsInv' /\ AuthInv' /\ FreshInv'
  BY <1>1 DEF IInv, ThreadsInv, AuthInv, FreshInv, sockVars, sessVars, history
<1>4. RouteInv' /\ RegisterInv'
  BY <1>1 DEF IInv, RouteInv, RegisterInv, Closing, Notifying, sockVars, sessVars, history
<1> QED BY <1>2, <1>3, <1>4 DEF IInv

\* A step of the network thread to another point of its handler for the same socket, or to
\* a socket it begins to handle.
LEMMA NetworkStep ==
  ASSUME IInv, NEW p \in Place, Moves("network", p),
         UNCHANGED <<closed_, m_Session, life, m_Socket, connections_, sockets_, raced>>,
         thread["network"].at \notin {"test", "close", "notify"},
         p.at \in {"idle", "auth", "create", "data", "next"},
         p.at = "idle" \/ p.k \in Sock, p.then = "return",
         stale' \subseteq raced,
         reading' \in [Sock -> BOOLEAN], authSent' \in [Sock -> BOOLEAN],
         \A j \in Sock : authSent[j] => authSent'[j],
         accepting' = accepting,
         p.at \in {"auth", "create"} => authSent'[p.k],
         p.at = "create" => m_Session[p.k] = None
  PROVE  IInv'
<1>1. "network" \in Thread /\ thread'["network"] = p
  BY DEF Moves, Thread
<1>2. ThreadsInv'
  BY <1>1 DEF IInv, ThreadsInv, Moves, Thread, ClosePoints
<1>3. AuthInv'
  BY <1>1 DEF IInv, AuthInv
<1>4. accepting' \in BOOLEAN
  BY DEF IInv, TypeOK
<1> QED BY <1>1, <1>2, <1>3, <1>4, QuietStep

LEMMA OnReadErrorIInv ==
  ASSUME IInv, NEW k \in Sock, OnReadError(k)
  PROVE  IInv'
<1>1. /\ thread["network"].at = "idle" /\ "network" \in Thread
      /\ reading' = [reading EXCEPT ![k] = FALSE]
      /\ CallClose("network", k, None, "return")
      /\ UNCHANGED <<closed_, authSent, m_Session, sessVars, mgrVars, history>>
  BY DEF OnReadError, At_, Thread
<1> QED BY <1>1, CallCloseStep DEF sessVars, mgrVars, history, IInv, TypeOK, RouteInv, Then

LEMMA OnReadCompleteIInv ==
  ASSUME IInv, NEW k \in Sock, NEW op \in {"auth", "data"}, OnReadComplete(k, op)
  PROVE  IInv'
<1>1. /\ thread["network"].at \in {"idle", "next"} /\ "network" \in Thread
      /\ reading' = [reading EXCEPT ![k] = FALSE]
      /\ authSent' = [authSent EXCEPT ![k] = @ \/ op = "auth"]
      /\ ProcessIncoming(k, op)
      /\ UNCHANGED <<closed_, m_Session, sessVars, mgrVars, history>>
  BY DEF OnReadComplete, At_, Thread
<1>2. /\ reading' \in [Sock -> BOOLEAN] /\ authSent' \in [Sock -> BOOLEAN]
      /\ \A j \in Sock : authSent[j] => authSent'[j]
      /\ op = "auth" => authSent'[k]
  BY <1>1 DEF IInv, TypeOK
<1>3. CASE closed_[k]
  <2>1. CallClose("network", k, None, "return")
    BY <1>1, <1>3 DEF ProcessIncoming
  <2> QED BY <1>1, <1>2, <2>1, CallCloseStep
          DEF sessVars, mgrVars, history, IInv, TypeOK, RouteInv, Then
<1>4. CASE ~closed_[k]
  <2> DEFINE p == [Idle EXCEPT !.at = op, !.k = k]
  <2>1. p = [at |-> op, k |-> k, s |-> None, then |-> "return"]
    <3>1. PICK r : r = [Idle EXCEPT !.at = op]
      OBVIOUS
    <3>2. r = [at |-> op, k |-> None, s |-> None, then |-> "return"]
      BY <3>1 DEF Idle
    <3>3. [r EXCEPT !.k = k] = [at |-> op, k |-> k, s |-> None, then |-> "return"]
      BY <3>2
    <3>4. p = [r EXCEPT !.k = k]
      BY <3>1, Zenon
    <3> QED BY <3>3, <3>4
  <2>2. p \in Place
    BY <2>1 DEF Place, At, Then
  <2>3. thread' = [thread EXCEPT !["network"] = p]
    BY <1>1, <1>4 DEF ProcessIncoming
  <2>4. p.at = op /\ p.k = k /\ p.then = "return"
    BY <2>1
  <2> HIDE DEF p
  <2>5. Moves("network", p)
    BY <1>1, <2>2, <2>3, SetPlace DEF IInv
  <2> QED BY <1>1, <1>2, <2>2, <2>4, <2>5, NetworkStep
          DEF sessVars, mgrVars, history, IInv, RouteInv
<1> QED BY <1>3, <1>4

LEMMA AuthCheckIInv == IInv /\ AuthCheck => IInv'
<1> SUFFICES ASSUME IInv, AuthCheck PROVE IInv'
  OBVIOUS
<1> DEFINE k == thread["network"].k
<1>1. /\ thread["network"].at = "auth" /\ k \in Sock /\ "network" \in Thread
      /\ UNCHANGED <<sockVars, m_Session, sessVars, mgrVars, history>>
  BY DEF AuthCheck, At_, IInv, ThreadsInv, Thread
<1>2. CASE AuthAgain(k)
  <2>1. CallClose("network", k, None, "return")
    BY <1>2 DEF AuthCheck
  <2> QED BY <1>1, <2>1, CallCloseStep
          DEF sockVars, sessVars, mgrVars, history, IInv, TypeOK, RouteInv, Then
<1>3. CASE ~AuthAgain(k)
  <2> DEFINE p == [at |-> "create", k |-> thread["network"].k, s |-> thread["network"].s,
                   then |-> thread["network"].then]
  <2>1. Goto("network", "create")
    BY <1>3 DEF AuthCheck
  <2>2. Moves("network", p)
    BY <1>1, <2>1, GotoMoves DEF IInv, At
  <2>3. p \in Place /\ p.at = "create" /\ p.k = k /\ p.then = "return"
    BY <1>1, PlaceOf DEF Place, At, IInv, ThreadsInv
  <2>4. authSent[k] /\ m_Session[k] = None
    BY <1>1, <1>3 DEF IInv, AuthInv, AuthAgain
  <2> HIDE DEF p
  <2> QED BY <1>1, <2>2, <2>3, <2>4, NetworkStep
          DEF sockVars, sessVars, mgrVars, history, IInv, TypeOK, RouteInv
<1> QED BY <1>2, <1>3

LEMMA AuthRefuseIInv == IInv /\ AuthRefuse => IInv'
<1> SUFFICES ASSUME IInv, AuthRefuse PROVE IInv'
  OBVIOUS
<1>1. /\ thread["network"].at = "create" /\ thread["network"].k \in Sock
      /\ "network" \in Thread
      /\ CallClose("network", thread["network"].k, None, "return")
      /\ UNCHANGED <<sockVars, m_Session, sessVars, mgrVars, history>>
  BY DEF AuthRefuse, At_, IInv, ThreadsInv, Thread
<1> QED BY <1>1, CallCloseStep
        DEF sockVars, sessVars, mgrVars, history, IInv, TypeOK, RouteInv, Then

LEMMA UseSessionIInv == IInv /\ UseSession => IInv'
<1> SUFFICES ASSUME IInv, UseSession PROVE IInv'
  OBVIOUS
<1> DEFINE k == thread["network"].k
<1>1. /\ thread["network"].at = "data" /\ k \in Sock /\ "network" \in Thread
      /\ UNCHANGED <<sockVars, m_Session, sessVars, mgrVars, raced>>
  BY DEF UseSession, At_, IInv, ThreadsInv, Thread
<1>2. CASE m_Session[k] # None
  <2> DEFINE p == [at |-> "next", k |-> thread["network"].k, s |-> thread["network"].s,
                   then |-> thread["network"].then]
  <2>1. /\ Goto("network", "next")
        /\ stale' = IF life[m_Session[k]] = "deleted" THEN stale \cup {k} ELSE stale
    BY <1>2 DEF UseSession
  <2>2. Moves("network", p)
    BY <1>1, <2>1, GotoMoves DEF IInv, At
  <2>3. p \in Place /\ p.at = "next" /\ p.k = k /\ p.then = "return"
    BY <1>1, PlaceOf DEF Place, At, IInv, ThreadsInv
  <2>4. k \notin raced => life[m_Session[k]] # "deleted"
    BY <1>1, <1>2 DEF IInv, RouteInv
  <2>5. stale' \subseteq raced
    BY <2>1, <2>4 DEF IInv, RouteInv
  <2> HIDE DEF p
  <2> QED BY <1>1, <2>2, <2>3, <2>5, NetworkStep
          DEF sockVars, sessVars, mgrVars, IInv, TypeOK
<1>3. CASE m_Session[k] = None
  <2>1. CallClose("network", k, None, "return") /\ stale' = stale
    BY <1>3 DEF UseSession
  <2> QED BY <1>1, <2>1, CallCloseStep
          DEF sockVars, sessVars, mgrVars, IInv, TypeOK, RouteInv, Then
<1> QED BY <1>2, <1>3

LEMMA StartAsyncReadIInv == IInv /\ StartAsyncRead => IInv'
<1> SUFFICES ASSUME IInv, StartAsyncRead PROVE IInv'
  OBVIOUS
<1> DEFINE k == thread["network"].k
<1>1. /\ thread["network"].at = "next" /\ k \in Sock /\ "network" \in Thread
      /\ reading' = [reading EXCEPT ![k] = ~closed_[k]]
      /\ thread' = [thread EXCEPT !["network"] = Idle]
      /\ UNCHANGED <<closed_, authSent, m_Session, sessVars, mgrVars, history>>
  BY DEF StartAsyncRead, At_, IInv, ThreadsInv, Thread
<1>2. reading' \in [Sock -> BOOLEAN]
  BY <1>1 DEF IInv, TypeOK
<1>3. Moves("network", Idle)
  BY <1>1, IdleMoves DEF IInv
<1>4. Idle \in Place /\ Idle.at = "idle" /\ Idle.then = "return"
  BY DEF Idle, Place, At, Then
<1> QED BY <1>1, <1>2, <1>3, <1>4, NetworkStep
        DEF sessVars, mgrVars, history, IInv, TypeOK, RouteInv

\* A new session: nobody is closing the socket, or the socket counts as raced.
LEMMA AuthCreateIInv ==
  ASSUME IInv, NEW s \in Sess, AuthCreate(s)
  PROVE  IInv'
<1> USE SocketConstants
<1> DEFINE k == thread["network"].k
<1> DEFINE p == [at |-> "add", k |-> thread["network"].k, s |-> thread["network"].s,
                 then |-> thread["network"].then]
<1>1. /\ thread["network"].at = "create" /\ k \in Sock /\ "network" \in Thread
      /\ life[s] = "none"
      /\ m_Session' = [m_Session EXCEPT ![k] = s]
      /\ life' = [life EXCEPT ![s] = "auth"]
      /\ m_Socket' = [m_Socket EXCEPT ![s] = k]
      /\ Goto("network", "add")
      /\ raced' = IF Closing(k) THEN raced \cup {k} ELSE raced
      /\ UNCHANGED <<closed_, reading, authSent, connections_, sockets_, accepting, stale>>
  BY DEF AuthCreate, At_, IInv, ThreadsInv, Thread, sockVars, mgrVars
<1>2. Moves("network", p)
  BY <1>1, GotoMoves DEF IInv, At
<1>3. p \in Place /\ p.at = "add" /\ p.k = k /\ p.then = "return"
  BY <1>1, PlaceOf DEF Place, At, IInv, ThreadsInv
<1> HIDE DEF p
<1>4. /\ m_Session' \in [Sock -> Sess \cup {None}]
      /\ life' \in [Sess -> Life]
      /\ m_Socket' \in [Sess -> Sock \cup {None}]
      /\ m_Session'[k] = s /\ \A j \in Sock \ {k} : m_Session'[j] = m_Session[j]
      /\ life'[s] = "auth" /\ \A r \in Sess \ {s} : life'[r] = life[r]
      /\ m_Socket'[s] = k /\ \A r \in Sess \ {s} : m_Socket'[r] = m_Socket[r]
      /\ s # None
  BY <1>1 DEF IInv, TypeOK, Life
<1>5. /\ authSent[k] /\ m_Session[k] = None /\ m_Socket[s] = None
      /\ \A j \in Sock : m_Session[j] # s
  BY <1>1 DEF IInv, AuthInv, FreshInv
<1>6. TypeOK'
  BY <1>1, <1>2, <1>4 DEF IInv, TypeOK, Moves, Place
<1>7. ThreadsInv'
  <2>1. /\ thread'["network"] = p
        /\ \A u \in Thread \ {"network"} : thread'[u] = thread[u]
    BY <1>2 DEF Moves
  <2>2. thread'["world"] = thread["world"] /\ thread'["acceptor"] = thread["acceptor"]
    BY <2>1 DEF Thread
  <2>3. \A u \in Thread : /\ thread'[u].at = "idle" \/ thread'[u].k \in Sock
                          /\ thread'[u].at = "notify" => closed_'[thread'[u].k]
    BY <1>1, <1>3, <2>1 DEF IInv, ThreadsInv
  <2>4. thread'["world"].at # "idle" =>
          \E r \in Sess : /\ m_Socket'[r] = thread'["world"].k
                          /\ life'[r] \in {"adding", "listed"}
                          /\ thread'["world"].then # "return" => r = thread'["world"].s
    <3> SUFFICES ASSUME thread["world"].at # "idle"
                 PROVE  \E r \in Sess : /\ m_Socket'[r] = thread["world"].k
                                        /\ life'[r] \in {"adding", "listed"}
                                        /\ thread["world"].then # "return"
                                              => r = thread["world"].s
      BY <2>2
    <3>1. PICK r \in Sess : /\ m_Socket[r] = thread["world"].k
                            /\ life[r] \in {"adding", "listed"}
                            /\ thread["world"].then # "return" => r = thread["world"].s
      BY DEF IInv, ThreadsInv
    <3>2. r # s
      BY <1>1, <3>1
    <3> QED BY <1>4, <3>1, <3>2
  <2> QED BY <1>1, <1>3, <2>1, <2>2, <2>3, <2>4 DEF IInv, ThreadsInv
<1>8. AuthInv'
  BY <1>1, <1>2, <1>3, <1>4, <1>5 DEF AuthInv, Moves
<1>9. FreshInv'
  BY <1>1, <1>4, <1>5 DEF IInv, FreshInv
<1>10. \A j \in Sock : Closing(j)' <=> Closing(j)
  BY <1>1, <1>2, <1>3 DEF Closing, Moves
<1>11. \A j \in Sock : Notifying(j)' <=> Notifying(j)
  BY <1>1, <1>2, <1>3 DEF Notifying, Moves
<1>12. RouteInv'
  <2>1. raced \subseteq raced' /\ raced' \subseteq Sock
        /\ (k \notin raced' => ~Closing(k) /\ k \notin raced)
    BY <1>1 DEF IInv, TypeOK
  <2>2. k \notin raced' => \A r \in Sess : m_Socket[r] # k
    BY <1>1, <1>5, <2>1 DEF IInv, RouteInv
  <2>3. \A j \in Sock \ raced' : m_Session'[j] # None =>
          /\ life'[m_Session'[j]] \in {"auth", "adding", "listed", "lost"}
          /\ m_Socket'[m_Session'[j]] = j
    <3>1. ASSUME NEW j \in Sock \ raced', m_Session'[j] # None, j # k
          PROVE  /\ life'[m_Session'[j]] \in {"auth", "adding", "listed", "lost"}
                 /\ m_Socket'[m_Session'[j]] = j
      <4>1. m_Session'[j] = m_Session[j] /\ m_Session[j] \in Sess \ {s}
        BY <1>4, <1>5, <3>1 DEF IInv, TypeOK
      <4> QED BY <1>4, <2>1, <3>1, <4>1 DEF IInv, RouteInv
    <3> QED BY <1>4, <3>1
  <2>4. \A j \in Sock \ raced' : Closing(j)' => m_Session'[j] = None
    BY <1>4, <1>10, <2>1 DEF IInv, RouteInv
  <2>5. \A j \in Sock \ raced', r \in Sess :
           m_Socket'[r] = j => m_Session'[j] = r \/ Closing(j)'
    BY <1>4, <1>10, <2>1, <2>2 DEF IInv, RouteInv
  <2>6. \A r1, r2 \in Sess :
           m_Socket'[r1] \notin raced' \cup {None} /\ m_Socket'[r1] = m_Socket'[r2] => r1 = r2
    <3>1. ASSUME NEW r1 \in Sess, NEW r2 \in Sess,
                 m_Socket'[r1] \notin raced' \cup {None}, m_Socket'[r1] = m_Socket'[r2]
          PROVE  r1 = r2
      <4>1. CASE r1 # s /\ r2 # s
        BY <1>4, <2>1, <3>1, <4>1 DEF IInv, RouteInv
      <4>2. CASE r1 = s \/ r2 = s
        BY <1>4, <2>2, <3>1, <4>2
      <4> QED BY <4>1, <4>2
    <3> QED BY <3>1
  <2>7. stale' \subseteq raced'
    BY <1>1, <2>1 DEF IInv, RouteInv
  <2> QED BY <2>3, <2>4, <2>5, <2>6, <2>7 DEF RouteInv
<1>13. RegisterInv'
  BY <1>1, <1>11 DEF IInv, RegisterInv
<1> QED BY <1>6, <1>7, <1>8, <1>9, <1>12, <1>13 DEF IInv

\* A session leaves the hands of the network thread, which goes on or closes the socket.
LEMMA LeaveAuth ==
  ASSUME IInv, NEW s \in Sess, NEW l \in {"adding", "lost"}, NEW p \in Place,
         life[s] = "auth", life' = [life EXCEPT ![s] = l],
         thread["network"].at = "add", Moves("network", p),
         p.at \in {"next", "forget"}, p.k \in Sock, p.then = "return",
         UNCHANGED <<closed_, reading, authSent, m_Session, m_Socket, connections_, sockets_,
                     accepting, raced, stale>>
  PROVE  IInv'
<1>1. "network" \in Thread
  BY DEF Thread
<1>2. /\ life' \in [Sess -> Life]
      /\ life'[s] = l /\ \A r \in Sess \ {s} : life'[r] = life[r]
  BY DEF IInv, TypeOK, Life
<1>3. TypeOK'
  BY <1>1, <1>2 DEF IInv, TypeOK, Moves, Place
<1>4. ThreadsInv'
  <2>1. /\ thread'["network"] = p
        /\ \A u \in Thread \ {"network"} : thread'[u] = thread[u]
        /\ thread'["world"] = thread["world"] /\ thread'["acceptor"] = thread["acceptor"]
    BY DEF Moves, Thread
  <2>2. \A r \in Sess : life[r] \in {"adding", "listed"} => life'[r] = life[r]
    BY <1>2
  <2> QED BY <1>1, <2>1, <2>2 DEF IInv, ThreadsInv
<1>5. AuthInv'
  BY DEF AuthInv, Moves
<1>6. FreshInv'
  BY <1>2 DEF IInv, FreshInv
<1>7. \A j \in Sock : Closing(j)' <=> Closing(j)
  BY <1>1 DEF Closing, Moves
<1>8. \A j \in Sock : Notifying(j)' <=> Notifying(j)
  BY <1>1 DEF Notifying, Moves
<1>9. RouteInv'
  <2>1. \A j \in Sock \ raced : m_Session[j] # None =>
           life'[m_Session[j]] \in {"auth", "adding", "listed", "lost"}
    BY <1>2 DEF IInv, TypeOK, RouteInv
  <2> QED BY <1>7, <2>1 DEF IInv, RouteInv
<1>10. RegisterInv'
  BY <1>8 DEF IInv, RegisterInv
<1> QED BY <1>3, <1>4, <1>5, <1>6, <1>9, <1>10 DEF IInv

\* The network thread hands the session over, if it still has one.
LEMMA AddSessionIInv == IInv /\ AddSession => IInv'
<1> SUFFICES ASSUME IInv, AddSession PROVE IInv'
  OBVIOUS
<1> USE SocketConstants
<1> DEFINE k == thread["network"].k
<1> DEFINE s == m_Session[k]
<1> DEFINE p == [at |-> "next", k |-> thread["network"].k, s |-> thread["network"].s,
                 then |-> thread["network"].then]
<1>1. /\ thread["network"].at = "add" /\ k \in Sock /\ "network" \in Thread
      /\ Goto("network", "next")
      /\ UNCHANGED <<closed_, reading, authSent, m_Session, m_Socket, connections_,
                     sockets_, accepting, raced>>
  BY DEF AddSession, At_, IInv, ThreadsInv, Thread, sockVars, mgrVars
<1>2. Moves("network", p)
  BY <1>1, GotoMoves DEF IInv, At
<1>3. p \in Place /\ p.at = "next" /\ p.k = k /\ p.then = "return"
  BY <1>1, PlaceOf DEF Place, At, IInv, ThreadsInv
<1> HIDE DEF p
<1>4. CASE s = None
  <2>1. stale' = stale \cup {k} /\ life' = life
    BY <1>4 DEF AddSession
  <2>2. stale' \subseteq raced
    BY <1>1, <1>4, <2>1 DEF IInv, AuthInv, RouteInv
  <2> QED BY <1>1, <1>2, <1>3, <2>1, <2>2, NetworkStep DEF IInv, TypeOK
<1>5. CASE s # None
  <2>1. life' = [life EXCEPT ![s] = "adding"] /\ stale' = stale
    BY <1>5 DEF AddSession
  <2>2. s \in Sess /\ life[s] = "auth"
    BY <1>1, <1>5 DEF IInv, TypeOK, AuthInv
  <2> HIDE DEF s
  <2> QED BY <1>1, <1>2, <1>3, <2>1, <2>2, LeaveAuth
<1> QED BY <1>4, <1>5

\* Where the network thread is after a packet that threw.
LEMMA BadPacketPlace ==
  ASSUME IInv, thread["network"].at # "idle", BadPacket(thread["network"].k)
  PROVE  \E p \in Place : /\ Moves("network", p) /\ p.at \in {"next", "forget"}
                          /\ p.k \in Sock /\ p.then = "return"
<1>1. "network" \in Thread /\ thread["network"].k \in Sock /\ thread["network"].then = "return"
  BY DEF IInv, ThreadsInv, Thread
<1>2. CASE CallClose("network", thread["network"].k, None, "return")
  <2> DEFINE p == [at |-> "forget", k |-> thread["network"].k, s |-> None, then |-> "return"]
  <2>1. p \in Place /\ p.at = "forget" /\ p.k = thread["network"].k /\ p.then = "return"
    BY <1>1 DEF Place, At, Then
  <2>2. Moves("network", p)
    BY <1>1, <1>2, CallCloseMoves DEF IInv, Then
  <2> HIDE DEF p
  <2> QED BY <1>1, <2>1, <2>2
<1>3. CASE Goto("network", "next")
  <2> DEFINE p == [at |-> "next", k |-> thread["network"].k, s |-> thread["network"].s,
                   then |-> thread["network"].then]
  <2>1. p \in Place /\ p.at = "next" /\ p.k = thread["network"].k /\ p.then = "return"
    BY <1>1, PlaceOf DEF Place, At, IInv
  <2>2. Moves("network", p)
    BY <1>1, <1>3, GotoMoves DEF IInv, At
  <2> HIDE DEF p
  <2> QED BY <1>1, <2>1, <2>2
<1> QED BY <1>2, <1>3 DEF BadPacket

LEMMA AuthThrowsIInv == IInv /\ AuthThrows => IInv'
<1> SUFFICES ASSUME IInv, AuthThrows PROVE IInv'
  OBVIOUS
<1>1. /\ thread["network"].at = "add" /\ BadPacket(thread["network"].k)
      /\ UNCHANGED <<sockVars, m_Session, m_Socket, mgrVars, history>>
  BY DEF AuthThrows, At_
<1>2. PICK s \in Sess : life[s] = "auth" /\ life' = [life EXCEPT ![s] = "lost"]
  BY DEF AuthThrows
<1>3. PICK p \in Place : /\ Moves("network", p) /\ p.at \in {"next", "forget"}
                        /\ p.k \in Sock /\ p.then = "return"
  BY <1>1, BadPacketPlace
<1> QED BY <1>1, <1>2, <1>3, LeaveAuth DEF sockVars, mgrVars, history

LEMMA PacketThrowsIInv == IInv /\ PacketThrows => IInv'
<1> SUFFICES ASSUME IInv, PacketThrows PROVE IInv'
  OBVIOUS
<1>1. /\ thread["network"].at \in {"create", "data"} /\ "network" \in Thread
      /\ thread["network"].k \in Sock
      /\ UNCHANGED <<sockVars, m_Session, sessVars, mgrVars, history>>
  BY DEF PacketThrows, At_, IInv, ThreadsInv, Thread
<1>2. CASE CallClose("network", thread["network"].k, None, "return")
  BY <1>1, <1>2, CallCloseStep
     DEF sockVars, sessVars, mgrVars, history, IInv, TypeOK, RouteInv, Then
<1>3. CASE Goto("network", "next")
  <2> DEFINE p == [at |-> "next", k |-> thread["network"].k, s |-> thread["network"].s,
                   then |-> thread["network"].then]
  <2>1. Moves("network", p)
    BY <1>1, <1>3, GotoMoves DEF IInv, At
  <2>2. p \in Place /\ p.at = "next" /\ p.k = thread["network"].k /\ p.then = "return"
    BY <1>1, PlaceOf DEF Place, At, IInv, ThreadsInv
  <2> HIDE DEF p
  <2> QED BY <1>1, <2>1, <2>2, NetworkStep
          DEF sockVars, sessVars, mgrVars, history, IInv, TypeOK, RouteInv
<1> QED BY <1>2, <1>3 DEF PacketThrows, BadPacket

\* A new connection on an object that nobody uses.
LEMMA OnNewConnectionIInv ==
  ASSUME IInv, NEW k \in Sock, OnNewConnection(k)
  PROVE  IInv'
<1> USE SocketConstants
<1> DEFINE p == [Idle EXCEPT !.at = "challenge", !.k = k]
<1>1. /\ thread["acceptor"].at = "idle" /\ "acceptor" \in Thread
      /\ k \notin sockets_ /\ closed_[k] /\ ~authSent[k]
      /\ \A t \in Thread : thread[t].k # k
      /\ accepting' = FALSE
      /\ connections_' = connections_ + 1 /\ sockets_' = sockets_ \cup {k}
      /\ closed_' = [closed_ EXCEPT ![k] = FALSE]
      /\ reading' = [reading EXCEPT ![k] = TRUE]
      /\ thread' = [thread EXCEPT !["acceptor"] = p]
      /\ UNCHANGED <<authSent, m_Session, life, m_Socket, raced, stale>>
  BY DEF OnNewConnection, At_, Thread, AddSocket, sessVars, history
<1>2. p = [at |-> "challenge", k |-> k, s |-> None, then |-> "return"]
  <2>1. PICK r : r = [Idle EXCEPT !.at = "challenge"]
    OBVIOUS
  <2>2. r = [at |-> "challenge", k |-> None, s |-> None, then |-> "return"]
    BY <2>1 DEF Idle
  <2>3. [r EXCEPT !.k = k] = [at |-> "challenge", k |-> k, s |-> None, then |-> "return"]
    BY <2>2
  <2>4. p = [r EXCEPT !.k = k]
    BY <2>1, Zenon
  <2> QED BY <2>3, <2>4
<1>3. p \in Place /\ p.at = "challenge" /\ p.k = k /\ p.then = "return"
  BY <1>2 DEF Place, At, Then
<1> HIDE DEF p
<1>4. Moves("acceptor", p)
  BY <1>1, <1>3, SetPlace DEF IInv
<1>5. /\ closed_' \in [Sock -> BOOLEAN] /\ reading' \in [Sock -> BOOLEAN]
      /\ closed_'[k] = FALSE /\ \A j \in Sock \ {k} : closed_'[j] = closed_[j]
  BY <1>1 DEF IInv, TypeOK
<1>6. /\ IsFiniteSet(sockets_) /\ Cardinality(sockets_) \in Nat
      /\ IsFiniteSet(sockets_') /\ Cardinality(sockets_') = Cardinality(sockets_) + 1
      /\ Cardinality(sockets_') <= Cardinality(Sock) /\ Cardinality(Sock) \in Nat
      /\ sockets_' \subseteq Sock
  <2>1. sockets_ \subseteq Sock /\ sockets_' \subseteq Sock
    BY <1>1 DEF IInv, TypeOK
  <2>2. IsFiniteSet(sockets_) /\ IsFiniteSet(sockets_')
    BY <2>1, FS_Subset
  <2>3. Cardinality(sockets_') = Cardinality(sockets_) + 1
    BY <1>1, <2>2, FS_AddElement
  <2> QED BY <2>1, <2>2, <2>3, FS_Subset, FS_CardinalityType
<1>7. /\ connections_' \in Int /\ connections_' <= Cardinality(sockets_')
      /\ connections_' <= Cardinality(Sock)
  <2>1. connections_ \in Int /\ connections_ <= Cardinality(sockets_)
    BY DEF IInv, TypeOK, RegisterInv
  <2> QED BY <1>1, <1>6, <2>1
<1>8. TypeOK'
  BY <1>1, <1>4, <1>5, <1>6, <1>7 DEF IInv, TypeOK, Moves, Place
<1>9. /\ thread'["acceptor"] = p
      /\ \A u \in Thread \ {"acceptor"} : thread'[u] = thread[u]
      /\ thread'["world"] = thread["world"] /\ thread'["network"] = thread["network"]
  BY <1>4 DEF Moves, Thread
<1>10. ThreadsInv'
  <2>1. \A u \in Thread : /\ thread'[u].at = "idle" \/ thread'[u].k \in Sock
                          /\ thread'[u].at = "notify" => closed_'[thread'[u].k]
    BY <1>1, <1>3, <1>5, <1>9 DEF IInv, ThreadsInv
  <2> QED BY <1>1, <1>3, <1>9, <2>1 DEF IInv, ThreadsInv
<1>11. AuthInv'
  BY <1>1, <1>9 DEF IInv, AuthInv
<1>12. FreshInv'
  BY <1>1 DEF IInv, FreshInv
<1>13. \A j \in Sock \ {k} : Closing(j)' <=> Closing(j)
  BY <1>1, <1>3, <1>5, <1>9 DEF Closing
<1>14. ~Closing(k)' /\ Closing(k)
  BY <1>1, <1>3, <1>5, <1>9 DEF Closing
<1>15. \A j \in Sock : Notifying(j)' <=> Notifying(j)
  BY <1>1, <1>3, <1>9 DEF Notifying
<1>16. RouteInv'
  <2>1. \A s \in Sess : m_Socket[s] # k
    BY <1>1 DEF IInv, FreshInv
  <2> QED BY <1>1, <1>13, <1>14, <2>1 DEF IInv, RouteInv
<1>17. RegisterInv'
  BY <1>1, <1>5, <1>7, <1>15 DEF IInv, RegisterInv
<1> QED BY <1>8, <1>10, <1>11, <1>12, <1>16, <1>17 DEF IInv

-----------------------------------------------------------------------------

\* What the world thread does to a session between two of its calls to CloseSocket.
LEMMA WorldIdleStep ==
  ASSUME IInv, thread["world"].at = "idle", thread' = thread, NEW s \in Sess,
         life[s] \in {"adding", "listed"},
         NEW l \in {"listed", "deleted"}, life' = [life EXCEPT ![s] = l],
         NEW m \in Sock \cup {None}, m_Socket' = [m_Socket EXCEPT ![s] = m],
         \/ l = "listed" /\ m = m_Socket[s]
         \/ m = None /\ m_Socket[s] \in Sock /\ closed_[m_Socket[s]],
         UNCHANGED <<sockVars, m_Session, mgrVars, history>>
  PROVE  IInv'
<1> USE SocketConstants
<1>1. /\ life' \in [Sess -> Life] /\ m_Socket' \in [Sess -> Sock \cup {None}]
      /\ life'[s] = l /\ \A r \in Sess \ {s} : life'[r] = life[r]
      /\ m_Socket'[s] = m /\ \A r \in Sess \ {s} : m_Socket'[r] = m_Socket[r]
  BY DEF IInv, TypeOK, Life
<1>2. UNCHANGED <<closed_, reading, authSent, m_Session, connections_, sockets_, accepting,
                  raced, stale, thread>>
  BY DEF sockVars, mgrVars, history
<1>3. TypeOK'
  BY <1>1, <1>2 DEF IInv, TypeOK
<1>4. ThreadsInv'
  BY <1>2 DEF IInv, ThreadsInv
<1>5. AuthInv'
  <2>1. \A j \in Sock : m_Session[j] \in Sess /\ life[m_Session[j]] = "auth" =>
           life'[m_Session[j]] = "auth" /\ m_Socket'[m_Session[j]] = m_Socket[m_Session[j]]
    BY <1>1
  <2>2. thread["network"].at = "add" => thread["network"].k \in Sock
    BY DEF IInv, ThreadsInv, Thread
  <2> QED BY <1>2, <2>1, <2>2 DEF IInv, TypeOK, AuthInv
<1>6. FreshInv'
  BY <1>1, <1>2 DEF IInv, FreshInv
<1>7. \A j \in Sock : (Closing(j)' <=> Closing(j)) /\ (Notifying(j)' <=> Notifying(j))
  BY <1>2 DEF Closing, Notifying
<1>8. RouteInv'
  <2>1. \A j \in Sock \ raced : m_Session[j] = s =>
           life'[s] \in {"auth", "adding", "listed", "lost"} /\ m_Socket'[s] = j
    <3>1. ASSUME NEW j \in Sock \ raced, m_Session[j] = s
          PROVE  life'[s] \in {"auth", "adding", "listed", "lost"} /\ m_Socket'[s] = j
      <4>1. m_Socket[s] = j /\ (closed_[j] => m_Session[j] = None)
        BY <3>1 DEF IInv, RouteInv, Closing
      <4> QED BY <1>1, <3>1, <4>1
    <3> QED BY <3>1
  <2>2. \A j \in Sock \ raced : m_Session'[j] # None =>
           life'[m_Session'[j]] \in {"auth", "adding", "listed", "lost"} /\ m_Socket'[m_Session'[j]] = j
    BY <1>1, <1>2, <2>1 DEF IInv, TypeOK, RouteInv
  <2>3. \A r1, r2 \in Sess :
           m_Socket'[r1] \notin raced' \cup {None} /\ m_Socket'[r1] = m_Socket'[r2] => r1 = r2
    BY <1>1, <1>2 DEF IInv, RouteInv
  <2>4. \A j \in Sock \ raced', r \in Sess :
           m_Socket'[r] = j => m_Session'[j] = r \/ Closing(j)'
    BY <1>1, <1>2, <1>7 DEF IInv, RouteInv
  <2> QED BY <1>2, <1>7, <2>2, <2>3, <2>4 DEF IInv, RouteInv
<1>9. RegisterInv'
  BY <1>2, <1>7 DEF IInv, RegisterInv
<1> QED BY <1>3, <1>4, <1>5, <1>6, <1>8, <1>9 DEF IInv

LEMMA TakeSessionIInv ==
  ASSUME IInv, NEW s \in Sess, TakeSession(s)
  PROVE  IInv'
<1>1. /\ thread["world"].at = "idle" /\ life[s] = "adding"
      /\ life' = [life EXCEPT ![s] = "listed"]
      /\ UNCHANGED <<sockVars, m_Session, m_Socket, mgrVars, thread, history>>
  BY DEF TakeSession, At_
<1>2. m_Socket' = [m_Socket EXCEPT ![s] = m_Socket[s]] /\ m_Socket[s] \in Sock \cup {None}
  BY <1>1 DEF IInv, TypeOK
<1> QED BY <1>1, <1>2, WorldIdleStep

LEMMA UpdateClosedIInv ==
  ASSUME IInv, NEW s \in Sess, UpdateClosed(s)
  PROVE  IInv'
<1>1. /\ thread["world"].at = "idle" /\ life[s] = "listed"
      /\ m_Socket[s] # None /\ closed_[m_Socket[s]]
      /\ m_Socket' = [m_Socket EXCEPT ![s] = None]
      /\ life' = [life EXCEPT ![s] = "deleted"]
      /\ UNCHANGED <<sockVars, m_Session, mgrVars, thread, history>>
  BY DEF UpdateClosed, At_, SocketClosed
<1>2. m_Socket[s] \in Sock
  BY <1>1 DEF IInv, TypeOK
<1> QED BY <1>1, <1>2, WorldIdleStep

LEMMA KickIInv ==
  ASSUME IInv, NEW s \in Sess, KickPlayer(s) \/ KickAndDelete(s)
  PROVE  IInv'
<1>1. /\ thread["world"].at = "idle" /\ "world" \in Thread
      /\ life[s] \in {"adding", "listed"} /\ m_Socket[s] \in Sock
      /\ UNCHANGED <<sockVars, m_Session, sessVars, mgrVars, history>>
  BY DEF KickPlayer, KickAndDelete, At_, Thread, IInv, TypeOK
<1>2. PICK r \in Sess \cup {None}, then \in Then :
         /\ CallClose("world", m_Socket[s], r, then)
         /\ then # "return" => r = s
  BY DEF KickPlayer, KickAndDelete, Then
<1>3. \E q \in Sess : /\ m_Socket[q] = m_Socket[s]
                      /\ life[q] \in {"adding", "listed"}
                      /\ then # "return" => q = r
  BY <1>1, <1>2
<1> QED BY <1>1, <1>2, <1>3, CallCloseStep
        DEF sockVars, sessVars, mgrVars, history, IInv, TypeOK, RouteInv

-----------------------------------------------------------------------------
(* The body of WorldSocket::CloseSocket *)

\* A thread at one of these points works on a socket.
LEMMA CloserHasSocket ==
  ASSUME IInv, NEW t \in Thread, thread[t].at \in ClosePoints
  PROVE  thread[t].k \in Sock
  BY DEF IInv, ThreadsInv, ClosePoints

\* While the world thread closes a socket that is not raced, its session is the only one
\* there, so it is not one that the network thread is still handing over.
LEMMA CloserIsNotAuthenticating ==
  ASSUME IInv, NEW t \in Thread, thread[t].at \in ClosePoints, thread[t].k \notin raced,
         thread["network"].at = "add"
  PROVE  thread["network"].k # thread[t].k
<1> USE SocketConstants
<1> SUFFICES ASSUME thread["network"].k = thread[t].k PROVE FALSE
  OBVIOUS
<1> DEFINE k == thread[t].k
<1>1. k \in Sock
  BY CloserHasSocket
<1>2. t # "network"
  BY DEF ClosePoints
<1>3. /\ m_Session[k] \in Sess /\ life[m_Session[k]] = "auth" /\ m_Socket[m_Session[k]] = k
  BY <1>1 DEF IInv, TypeOK, AuthInv
<1>4. ~closed_[k]
  BY <1>1, <1>3 DEF IInv, RouteInv, Closing
<1>5. CASE t = "acceptor"
  BY <1>4, <1>5 DEF IInv, ThreadsInv, ClosePoints
<1>6. CASE t = "world"
  <2>1. PICK s \in Sess : m_Socket[s] = k /\ life[s] \in {"adding", "listed"}
    BY <1>6 DEF IInv, ThreadsInv, ClosePoints
  <2>2. s = m_Session[k]
    BY <1>1, <1>3, <2>1 DEF IInv, RouteInv
  <2> QED BY <1>3, <2>1, <2>2
<1> QED BY <1>2, <1>5, <1>6 DEF Thread

\* First block: the routing pointer goes before the flag.
LEMMA CloseForgetIInv ==
  ASSUME IInv, NEW t \in Thread, CloseForget(t)
  PROVE  IInv'
<1> USE SocketConstants
<1>0. PICK k \in Sock : k = thread[t].k
  BY CloserHasSocket DEF CloseForget, At_, ClosePoints
<1> DEFINE p == [at |-> "test", k |-> thread[t].k, s |-> thread[t].s, then |-> thread[t].then]
<1>1. /\ thread[t].at = "forget"
      /\ m_Session' = [m_Session EXCEPT ![k] = None]
      /\ Goto(t, "test")
      /\ UNCHANGED <<sockVars, sessVars, mgrVars, history>>
  BY <1>0 DEF CloseForget, At_, Forget
<1>2. UNCHANGED <<closed_, reading, authSent, life, m_Socket, connections_, sockets_, accepting,
                  raced, stale>>
  BY <1>1 DEF sockVars, sessVars, mgrVars, history
<1>3. Moves(t, p)
  BY <1>1, GotoMoves DEF IInv, At
<1>4. p.at = "test" /\ p.k = k /\ p.s = thread[t].s /\ p.then = thread[t].then
  BY <1>0
<1> HIDE DEF p
<1>5. /\ m_Session' \in [Sock -> Sess \cup {None}]
      /\ m_Session'[k] = None /\ \A j \in Sock \ {k} : m_Session'[j] = m_Session[j]
  BY <1>1 DEF IInv, TypeOK
<1>6. thread'[t] = p /\ \A u \in Thread \ {t} : thread'[u] = thread[u]
  BY <1>3 DEF Moves
<1>7. TypeOK'
  BY <1>2, <1>3, <1>5 DEF IInv, TypeOK, Moves, Place
<1>8. ThreadsInv'
  <2>1. \A u \in Thread : /\ thread'[u].at = "idle" \/ thread'[u].k \in Sock
                          /\ thread'[u].at = "notify" => closed_[thread'[u].k]
    BY <1>0, <1>1, <1>4, <1>6 DEF IInv, ThreadsInv
  <2>2. /\ thread'["acceptor"].at \in {"idle", "challenge", "forget", "test"}
        /\ thread'["acceptor"].then = "return"
        /\ thread'["acceptor"].at \in {"forget", "test"} => closed_[thread'["acceptor"].k]
    BY <1>0, <1>1, <1>4, <1>6 DEF IInv, ThreadsInv, Thread
  <2>3. thread'["network"].then = "return" /\ thread'["network"].at # "challenge"
    BY <1>4, <1>6 DEF IInv, ThreadsInv, Thread
  <2>4. /\ thread'["world"].at \in {"idle"} \cup ClosePoints
        /\ thread'["world"].at = "idle" <=> thread["world"].at = "idle"
        /\ thread'["world"].k = thread["world"].k /\ thread'["world"].s = thread["world"].s
        /\ thread'["world"].then = thread["world"].then
    BY <1>0, <1>1, <1>4, <1>6 DEF IInv, ThreadsInv, Thread, ClosePoints
  <2> QED BY <1>2, <2>1, <2>2, <2>3, <2>4 DEF IInv, ThreadsInv
<1>9. AuthInv'
  <2>1. CASE t = "network"
    BY <1>4, <1>6, <2>1 DEF AuthInv
  <2>2. CASE t # "network"
    <3>1. thread'["network"] = thread["network"]
      BY <1>6, <2>2 DEF Thread
    <3>2. thread["network"].at # "idle" => thread["network"].k \in Sock
      BY DEF IInv, ThreadsInv, Thread
    <3>3. thread["network"].at = "add" /\ thread["network"].k = k => k \in raced
      BY <1>0, <1>1, CloserIsNotAuthenticating DEF ClosePoints
    <3> QED BY <1>2, <1>5, <3>1, <3>2, <3>3 DEF IInv, AuthInv
  <2> QED BY <2>1, <2>2
<1>10. FreshInv'
  BY <1>2, <1>5 DEF IInv, FreshInv
<1>11. \A j \in Sock \ {k} : Closing(j)' <=> Closing(j)
  BY <1>0, <1>1, <1>2, <1>4, <1>6 DEF Closing
<1>12. Closing(k)'
  BY <1>4, <1>6 DEF Closing
<1>13. RouteInv'
  BY <1>2, <1>5, <1>11, <1>12 DEF IInv, RouteInv
<1>14. \A j \in Sock : Notifying(j)' <=> Notifying(j)
  BY <1>0, <1>1, <1>4, <1>6 DEF Notifying
<1>15. RegisterInv'
  BY <1>2, <1>14 DEF IInv, RegisterInv
<1> QED BY <1>7, <1>8, <1>9, <1>10, <1>13, <1>15 DEF IInv

\* Socket::Close raises the flag.
LEMMA CloseSetIInv ==
  ASSUME IInv, NEW t \in Thread, CloseSet(t)
  PROVE  IInv'
<1>0. PICK k \in Sock : k = thread[t].k
  BY CloserHasSocket DEF CloseSet, At_, ClosePoints
<1> DEFINE p == [at |-> "notify", k |-> thread[t].k, s |-> thread[t].s, then |-> thread[t].then]
<1>1. /\ thread[t].at = "close"
      /\ closed_' = [closed_ EXCEPT ![k] = TRUE]
      /\ Goto(t, "notify")
      /\ UNCHANGED <<reading, authSent, m_Session, sessVars, mgrVars, history>>
  BY <1>0 DEF CloseSet, At_
<1>2. UNCHANGED <<reading, authSent, m_Session, life, m_Socket, connections_, sockets_, accepting,
                  raced, stale>>
  BY <1>1 DEF sessVars, mgrVars, history
<1>3. Moves(t, p)
  BY <1>1, GotoMoves DEF IInv, At
<1>4. p.at = "notify" /\ p.k = k /\ p.s = thread[t].s /\ p.then = thread[t].then
  BY <1>0
<1> HIDE DEF p
<1>5. /\ closed_' \in [Sock -> BOOLEAN]
      /\ closed_'[k] /\ \A j \in Sock \ {k} : closed_'[j] = closed_[j]
      /\ \A j \in Sock : closed_[j] => closed_'[j]
  BY <1>1 DEF IInv, TypeOK
<1>6. thread'[t] = p /\ \A u \in Thread \ {t} : thread'[u] = thread[u]
  BY <1>3 DEF Moves
<1>7. TypeOK'
  BY <1>2, <1>3, <1>5 DEF IInv, TypeOK, Moves, Place
<1>8. t # "acceptor"
  BY <1>1 DEF IInv, ThreadsInv
<1>9. ThreadsInv'
  <2>1. \A u \in Thread : /\ thread'[u].at = "idle" \/ thread'[u].k \in Sock
                          /\ thread'[u].at = "notify" => closed_'[thread'[u].k]
    BY <1>0, <1>1, <1>4, <1>5, <1>6 DEF IInv, ThreadsInv
  <2>2. /\ thread'["acceptor"] = thread["acceptor"]
        /\ thread["acceptor"].at \in {"forget", "test"} => closed_'[thread["acceptor"].k]
    BY <1>5, <1>6, <1>8 DEF IInv, ThreadsInv, Thread
  <2>3. thread'["network"].then = "return" /\ thread'["network"].at # "challenge"
    BY <1>4, <1>6 DEF IInv, ThreadsInv, Thread
  <2>4. /\ thread'["world"].at \in {"idle"} \cup ClosePoints
        /\ thread'["world"].at = "idle" <=> thread["world"].at = "idle"
        /\ thread'["world"].k = thread["world"].k /\ thread'["world"].s = thread["world"].s
        /\ thread'["world"].then = thread["world"].then
    BY <1>0, <1>1, <1>4, <1>6 DEF IInv, ThreadsInv, Thread, ClosePoints
  <2> QED BY <1>2, <2>1, <2>2, <2>3, <2>4 DEF IInv, ThreadsInv
<1>10. AuthInv'
  <2>1. CASE t = "network"
    BY <1>4, <1>6, <2>1 DEF AuthInv
  <2>2. CASE t # "network"
    <3>1. thread'["network"] = thread["network"]
      BY <1>6, <2>2 DEF Thread
    <3> QED BY <1>2, <3>1 DEF IInv, AuthInv
  <2> QED BY <2>1, <2>2
<1>11. FreshInv'
  BY <1>2 DEF IInv, FreshInv
<1>12. \A j \in Sock : Closing(j)' <=> Closing(j)
  <2>1. Closing(k)' /\ Closing(k)
    BY <1>0, <1>1, <1>5 DEF Closing
  <2>2. \A j \in Sock \ {k} : Closing(j)' <=> Closing(j)
    BY <1>0, <1>1, <1>4, <1>5, <1>6 DEF Closing
  <2> QED BY <2>1, <2>2
<1>13. RouteInv'
  BY <1>2, <1>12 DEF IInv, RouteInv
<1>14. Notifying(k)' /\ \A j \in Sock \ {k} : Notifying(j)' <=> Notifying(j)
  BY <1>0, <1>1, <1>4, <1>6 DEF Notifying
<1>15. RegisterInv'
  BY <1>2, <1>5, <1>14 DEF IInv, RegisterInv
<1> QED BY <1>7, <1>9, <1>10, <1>11, <1>13, <1>15 DEF IInv

\* What Return does: the world thread closes again before it deletes, or deletes its
\* session, and every other caller just goes on.
LEMMA ReturnCases ==
  ASSUME IInv, NEW t \in Thread, thread[t].at \in ClosePoints, Return(t)
  PROVE  \/ /\ t = "world" /\ thread[t].then = "kickDelete"
            /\ Moves(t, [at |-> "forget", k |-> thread[t].k, s |-> thread[t].s,
                         then |-> "delete"])
            /\ UNCHANGED <<life, m_Socket>>
         \/ /\ t = "world" /\ thread[t].s \in Sess
            /\ m_Socket[thread[t].s] = thread[t].k
            /\ life[thread[t].s] \in {"adding", "listed"}
            /\ life' = [life EXCEPT ![thread[t].s] = "deleted"]
            /\ m_Socket' = [m_Socket EXCEPT ![thread[t].s] = None]
            /\ Moves(t, Idle)
         \/ Moves(t, Idle) /\ UNCHANGED <<life, m_Socket>>
<1>1. thread[t].then # "return" => t = "world"
  BY DEF IInv, ThreadsInv, Thread
<1>2. CASE thread[t].then = "kickDelete"
  <2> DEFINE q == [at |-> "forget", k |-> thread[t].k, s |-> thread[t].s, then |-> "delete"]
  <2>1. /\ thread' = [thread EXCEPT ![t].at = "forget", ![t].then = "delete"]
        /\ UNCHANGED sessVars
    BY <1>2 DEF Return
  <2>2. PICK th : th = [thread EXCEPT ![t].at = "forget"]
    OBVIOUS
  <2>3. /\ thread \in [Thread -> Place]
        /\ thread[t] = [at |-> thread[t].at, k |-> thread[t].k,
                        s |-> thread[t].s, then |-> thread[t].then]
        /\ q \in Place
    BY PlaceOf DEF IInv, Place, At, Then
  <2>4. [thread[t] EXCEPT !.at = "forget"]
          = [at |-> "forget", k |-> thread[t].k, s |-> thread[t].s, then |-> thread[t].then]
    BY <2>3
  <2>5. /\ DOMAIN th = Thread
        /\ th[t] = [at |-> "forget", k |-> thread[t].k, s |-> thread[t].s,
                    then |-> thread[t].then]
        /\ \A u \in Thread \ {t} : th[u] = thread[u]
    BY <2>2, <2>3, <2>4
  <2>6. [th[t] EXCEPT !.then = "delete"] = q
    BY <2>5
  <2>7. thread' = [th EXCEPT ![t].then = "delete"]
    BY <2>1, <2>2, Zenon
  <2> HIDE DEF q
  <2>8. thread' = [th EXCEPT ![t] = q]
    BY <2>6, <2>7
  <2>9. Moves(t, q)
    <3>1. /\ thread' = [u \in Thread |-> IF u = t THEN q ELSE thread[u]]
      BY <2>5, <2>8
    <3> QED BY <2>3, <3>1 DEF Moves
  <2> QED BY <1>1, <1>2, <2>1, <2>9 DEF q, sessVars
<1>3. CASE thread[t].then = "delete"
  <2>1. /\ life' = [life EXCEPT ![thread[t].s] = "deleted"]
        /\ m_Socket' = [m_Socket EXCEPT ![thread[t].s] = None]
        /\ thread' = [thread EXCEPT ![t] = Idle]
    BY <1>3 DEF Return
  <2>2. t = "world" /\ thread["world"].at # "idle" /\ thread["world"].then # "return"
    BY <1>1, <1>3 DEF ClosePoints
  <2>3. PICK s \in Sess : /\ m_Socket[s] = thread["world"].k
                          /\ life[s] \in {"adding", "listed"}
                          /\ s = thread["world"].s
    BY <2>2 DEF IInv, ThreadsInv
  <2>4. Moves(t, Idle)
    BY <2>1, IdleMoves DEF IInv
  <2> QED BY <2>1, <2>2, <2>3, <2>4
<1>4. CASE thread[t].then \notin {"kickDelete", "delete"}
  <2>1. thread' = [thread EXCEPT ![t] = Idle] /\ UNCHANGED sessVars
    BY <1>4 DEF Return
  <2>2. Moves(t, Idle)
    BY <2>1, IdleMoves DEF IInv
  <2> QED BY <2>1, <2>2 DEF sessVars
<1> QED BY <1>2, <1>3, <1>4

\* A thread leaves CloseSocket with the socket closed, whether it found it so or closed it.
LEMMA ReturnStep ==
  ASSUME IInv, NEW t \in Thread, NEW k \in Sock, k = thread[t].k, closed_[k],
         thread[t].at \in {"test", "notify"}, Return(t),
         UNCHANGED <<closed_, reading, authSent, m_Session, accepting, raced, stale>>,
         connections_' \in Int, connections_' <= Cardinality(sockets_'),
         connections_' <= Cardinality(Sock), sockets_' \subseteq Sock,
         sockets_ \ {k} \subseteq sockets_', sockets_' \subseteq sockets_,
         thread[t].at = "notify" => k \notin sockets_'
  PROVE  IInv'
<1> USE SocketConstants
<1>1. PICK p \in Place : /\ Moves(t, p) /\ p.at \in {"idle", "forget"}
                         /\ p.at = "forget" => /\ t = "world" /\ p.k = k
                                               /\ p.s = thread[t].s
                                               /\ thread[t].then # "return"
                         /\ t # "world" => p.then = "return"
  <2>1. CASE Moves(t, Idle)
    <3>1. Idle \in Place /\ Idle.at = "idle" /\ Idle.then = "return"
      BY DEF Idle, Place, At, Then
    <3> QED BY <2>1, <3>1
  <2>2. CASE /\ t = "world" /\ thread[t].then = "kickDelete"
             /\ Moves(t, [at |-> "forget", k |-> thread[t].k, s |-> thread[t].s,
                          then |-> "delete"])
    <3> DEFINE q == [at |-> "forget", k |-> thread[t].k, s |-> thread[t].s, then |-> "delete"]
    <3>1. q \in Place /\ q.at = "forget" /\ q.k = k /\ q.s = thread[t].s
      BY PlaceOf DEF IInv, Place, At, Then
    <3> HIDE DEF q
    <3>2. Moves(t, q)
      BY <2>2 DEF q
    <3> QED BY <2>2, <3>1, <3>2
  <2> QED BY <2>1, <2>2, ReturnCases DEF ClosePoints
<1>2. thread'[t] = p /\ \A u \in Thread \ {t} : thread'[u] = thread[u]
  BY <1>1 DEF Moves
<1>3. \/ UNCHANGED <<life, m_Socket>>
      \/ \E s \in Sess : /\ m_Socket[s] = k /\ life[s] \in {"adding", "listed"}
                         /\ life' = [life EXCEPT ![s] = "deleted"]
                         /\ m_Socket' = [m_Socket EXCEPT ![s] = None]
                         /\ t = "world" /\ p.at = "idle"
  <2>1. Moves(t, Idle) => p.at = "idle"
    BY <1>1 DEF Moves, Idle
  <2> QED BY <2>1, ReturnCases DEF ClosePoints
<1>4. \/ UNCHANGED <<life, m_Socket>>
      \/ \E s \in Sess :
           /\ m_Socket[s] = k /\ life[s] \in {"adding", "listed"}
           /\ life' \in [Sess -> Life] /\ m_Socket' \in [Sess -> Sock \cup {None}]
           /\ life'[s] = "deleted" /\ \A r \in Sess \ {s} : life'[r] = life[r]
           /\ m_Socket'[s] = None /\ \A r \in Sess \ {s} : m_Socket'[r] = m_Socket[r]
           /\ t = "world" /\ p.at = "idle"
  <2>1. CASE UNCHANGED <<life, m_Socket>>
    BY <2>1
  <2>2. CASE ~UNCHANGED <<life, m_Socket>>
    <3>1. PICK s \in Sess : /\ m_Socket[s] = k /\ life[s] \in {"adding", "listed"}
                            /\ life' = [life EXCEPT ![s] = "deleted"]
                            /\ m_Socket' = [m_Socket EXCEPT ![s] = None]
                            /\ t = "world" /\ p.at = "idle"
      BY <1>3, <2>2
    <3>2. life \in [Sess -> Life] /\ m_Socket \in [Sess -> Sock \cup {None}]
      BY DEF IInv, TypeOK
    <3>3. /\ life' \in [Sess -> Life] /\ m_Socket' \in [Sess -> Sock \cup {None}]
          /\ life'[s] = "deleted" /\ \A r \in Sess \ {s} : life'[r] = life[r]
          /\ m_Socket'[s] = None /\ \A r \in Sess \ {s} : m_Socket'[r] = m_Socket[r]
      BY <3>1, <3>2 DEF Life
    <3> QED BY <3>1, <3>3
  <2> QED BY <2>1, <2>2
<1>5. TypeOK'
  <2>1. life' \in [Sess -> Life] /\ m_Socket' \in [Sess -> Sock \cup {None}]
    BY <1>4 DEF IInv, TypeOK
  <2> QED BY <1>1, <2>1 DEF IInv, TypeOK, Moves, Place
<1>6. ThreadsInv'
  <2>1. \A u \in Thread : /\ thread'[u].at = "idle" \/ thread'[u].k \in Sock
                          /\ thread'[u].at = "notify" => closed_[thread'[u].k]
    BY <1>1, <1>2 DEF IInv, ThreadsInv
  <2>2. /\ thread'["acceptor"].at \in {"idle", "challenge", "forget", "test"}
        /\ thread'["acceptor"].then = "return"
        /\ thread'["acceptor"].at \in {"forget", "test"} => closed_[thread'["acceptor"].k]
    BY <1>1, <1>2 DEF IInv, ThreadsInv, Thread
  <2>3. thread'["network"].then = "return" /\ thread'["network"].at # "challenge"
    BY <1>1, <1>2 DEF IInv, ThreadsInv, Thread
  <2>4. thread'["world"].at \in {"idle"} \cup ClosePoints
    BY <1>1, <1>2 DEF IInv, ThreadsInv, Thread, ClosePoints
  <2>5. ASSUME thread'["world"].at # "idle"
        PROVE  \E s \in Sess : /\ m_Socket'[s] = thread'["world"].k
                               /\ life'[s] \in {"adding", "listed"}
                               /\ thread'["world"].then # "return" => s = thread'["world"].s
    <3>1. UNCHANGED <<life, m_Socket>> /\ thread["world"].at # "idle"
      BY <1>1, <1>2, <1>4, <2>5 DEF Thread
    <3>2. PICK s \in Sess : /\ m_Socket[s] = thread["world"].k
                            /\ life[s] \in {"adding", "listed"}
                            /\ thread["world"].then # "return" => s = thread["world"].s
      BY <3>1 DEF IInv, ThreadsInv
    <3>3. CASE t = "world"
      BY <1>1, <1>2, <2>5, <3>1, <3>2, <3>3
    <3>4. CASE t # "world"
      BY <1>2, <3>1, <3>2, <3>4 DEF Thread
    <3> QED BY <3>3, <3>4
  <2> QED BY <2>1, <2>2, <2>3, <2>4, <2>5 DEF ThreadsInv
<1>7. AuthInv'
  <2>1. CASE t = "network"
    BY <1>1, <1>2, <2>1 DEF AuthInv
  <2>2. CASE t # "network"
    <3>1. thread'["network"] = thread["network"]
      BY <1>2, <2>2 DEF Thread
    <3>2. thread["network"].at # "idle" => thread["network"].k \in Sock
      BY DEF IInv, ThreadsInv, Thread
    <3>3. \A j \in Sock : m_Session[j] \in Sess /\ life[m_Session[j]] = "auth" =>
             life'[m_Session[j]] = "auth" /\ m_Socket'[m_Session[j]] = m_Socket[m_Session[j]]
      BY <1>4
    <3> QED BY <3>1, <3>2, <3>3 DEF IInv, TypeOK, AuthInv
  <2> QED BY <2>1, <2>2
<1>8. FreshInv'
  BY <1>4 DEF IInv, FreshInv
<1>9. \A j \in Sock : Closing(j)' <=> Closing(j)
  BY <1>1, <1>2 DEF Closing
<1>10. RouteInv'
  <2>1. CASE UNCHANGED <<life, m_Socket>>
    BY <1>9, <2>1 DEF IInv, RouteInv
  <2>2. CASE ~UNCHANGED <<life, m_Socket>>
    <3>1. PICK s \in Sess :
             /\ m_Socket[s] = k /\ life[s] \in {"adding", "listed"}
             /\ life'[s] = "deleted" /\ \A r \in Sess \ {s} : life'[r] = life[r]
             /\ m_Socket'[s] = None /\ \A r \in Sess \ {s} : m_Socket'[r] = m_Socket[r]
      BY <1>4, <2>2
    <3>2. \A j \in Sock \ raced : m_Session[j] # s
      BY <3>1 DEF IInv, RouteInv, Closing
    <3>3. \A j \in Sock \ raced : m_Session[j] # None =>
             life'[m_Session[j]] \in {"auth", "adding", "listed", "lost"}
             /\ m_Socket'[m_Session[j]] = j
      BY <3>1, <3>2 DEF IInv, TypeOK, RouteInv
    <3>4. \A j \in Sock \ raced, r \in Sess :
             m_Socket'[r] = j => m_Session[j] = r \/ Closing(j)
      BY <3>1 DEF IInv, RouteInv
    <3>5. \A r1, r2 \in Sess :
             m_Socket'[r1] \notin raced \cup {None} /\ m_Socket'[r1] = m_Socket'[r2] => r1 = r2
      BY <3>1 DEF IInv, RouteInv
    <3> QED BY <1>9, <3>3, <3>4, <3>5 DEF IInv, RouteInv
  <2> QED BY <2>1, <2>2
<1>11. RegisterInv'
  <2>1. \A j \in Sock \ {k} : Notifying(j)' <=> Notifying(j)
    BY <1>1, <1>2 DEF Notifying
  <2>2. thread[t].at = "test" => (Notifying(k)' <=> Notifying(k))
    BY <1>1, <1>2 DEF Notifying
  <2>3. thread[t].at = "test" \/ k \notin sockets_'
    OBVIOUS
  <2> QED BY <2>1, <2>2, <2>3 DEF IInv, RegisterInv
<1> QED BY <1>5, <1>6, <1>7, <1>8, <1>10, <1>11 DEF IInv

LEMMA CloseTestIInv ==
  ASSUME IInv, NEW t \in Thread, CloseTest(t)
  PROVE  IInv'
<1> USE SocketConstants
<1>0. PICK k \in Sock : k = thread[t].k
  BY CloserHasSocket DEF CloseTest, At_, ClosePoints
<1>1. thread[t].at = "test" /\ UNCHANGED <<sockVars, m_Session, mgrVars, history>>
  BY DEF CloseTest, At_
<1>2. UNCHANGED <<closed_, reading, authSent, m_Session, connections_, sockets_, accepting, raced,
                  stale>>
  BY <1>1 DEF sockVars, mgrVars, history
<1>3. CASE closed_[k]
  <2>1. Return(t)
    BY <1>0, <1>3 DEF CloseTest
  <2>2. /\ connections_ \in Int /\ connections_ <= Cardinality(sockets_)
        /\ connections_ <= Cardinality(Sock) /\ sockets_ \subseteq Sock
    BY DEF IInv, TypeOK, RegisterInv
  <2> QED BY <1>0, <1>1, <1>2, <1>3, <2>1, <2>2, ReturnStep
<1>4. CASE ~closed_[k]
  <2> DEFINE p == [at |-> "close", k |-> thread[t].k, s |-> thread[t].s, then |-> thread[t].then]
  <2>1. Goto(t, "close") /\ UNCHANGED <<life, m_Socket>>
    BY <1>0, <1>4 DEF CloseTest, sessVars
  <2>2. Moves(t, p)
    BY <2>1, GotoMoves DEF IInv, At
  <2>3. p.at = "close" /\ p.k = k /\ p.s = thread[t].s /\ p.then = thread[t].then
    BY <1>0
  <2> HIDE DEF p
  <2>4. thread'[t] = p /\ \A u \in Thread \ {t} : thread'[u] = thread[u]
    BY <2>2 DEF Moves
  <2>5. TypeOK'
    BY <1>2, <2>1, <2>2 DEF IInv, TypeOK, Moves, Place
  <2>6. t # "acceptor"
    BY <1>0, <1>1, <1>4 DEF IInv, ThreadsInv
  <2>7. ThreadsInv'
    <3>1. \A u \in Thread : /\ thread'[u].at = "idle" \/ thread'[u].k \in Sock
                            /\ thread'[u].at = "notify" => closed_[thread'[u].k]
      BY <2>3, <2>4 DEF IInv, ThreadsInv
    <3>2. thread'["acceptor"] = thread["acceptor"]
      BY <2>4, <2>6 DEF Thread
    <3>3. thread'["network"].then = "return" /\ thread'["network"].at # "challenge"
      BY <2>3, <2>4 DEF IInv, ThreadsInv, Thread
    <3>4. /\ thread'["world"].at \in {"idle"} \cup ClosePoints
          /\ thread'["world"].at = "idle" <=> thread["world"].at = "idle"
          /\ thread'["world"].k = thread["world"].k /\ thread'["world"].s = thread["world"].s
          /\ thread'["world"].then = thread["world"].then
      BY <1>0, <1>1, <2>3, <2>4 DEF IInv, ThreadsInv, Thread, ClosePoints
    <3> QED BY <1>2, <2>1, <3>1, <3>2, <3>3, <3>4 DEF IInv, ThreadsInv
  <2>8. AuthInv'
    <3>1. CASE t = "network"
      BY <2>3, <2>4, <3>1 DEF AuthInv
    <3>2. CASE t # "network"
      <4>1. thread'["network"] = thread["network"]
        BY <2>4, <3>2 DEF Thread
      <4> QED BY <1>2, <2>1, <4>1 DEF IInv, AuthInv
    <3> QED BY <3>1, <3>2
  <2>9. FreshInv'
    BY <1>2, <2>1 DEF IInv, FreshInv
  <2>10. \A j \in Sock : Closing(j)' <=> Closing(j)
    BY <1>0, <1>1, <1>2, <2>3, <2>4 DEF Closing
  <2>11. \A j \in Sock : Notifying(j)' <=> Notifying(j)
    BY <1>0, <1>1, <2>3, <2>4 DEF Notifying
  <2>12. RouteInv' /\ RegisterInv'
    BY <1>2, <2>1, <2>10, <2>11 DEF IInv, RouteInv, RegisterInv
  <2> QED BY <2>5, <2>7, <2>8, <2>9, <2>12 DEF IInv
<1> QED BY <1>3, <1>4

LEMMA CloseNotifyIInv ==
  ASSUME IInv, NEW t \in Thread, CloseNotify(t)
  PROVE  IInv'
<1> USE SocketConstants
<1>0. PICK k \in Sock : k = thread[t].k
  BY CloserHasSocket DEF CloseNotify, At_, ClosePoints
<1>1. /\ thread[t].at = "notify" /\ closed_[k] /\ Return(t)
      /\ connections_' = connections_ - 1 /\ sockets_' = sockets_ \ {k}
      /\ UNCHANGED <<closed_, reading, authSent, m_Session, accepting, raced, stale>>
  BY <1>0 DEF CloseNotify, At_, RemoveSocket, sockVars, history, IInv, ThreadsInv
<1>2. /\ connections_ \in Int /\ connections_ <= Cardinality(sockets_)
      /\ connections_ <= Cardinality(Sock) /\ sockets_ \subseteq Sock
  BY DEF IInv, TypeOK, RegisterInv
<1>3. /\ IsFiniteSet(sockets_) /\ Cardinality(sockets_) \in Nat /\ Cardinality(Sock) \in Nat
  BY <1>2, FS_Subset, FS_CardinalityType
<1>4. Cardinality(sockets_') \in {Cardinality(sockets_), Cardinality(sockets_) - 1}
  <2>1. CASE k \in sockets_
    BY <1>1, <1>3, <2>1, FS_RemoveElement
  <2>2. CASE k \notin sockets_
    <3>1. sockets_' = sockets_
      BY <1>1, <2>2
    <3> QED BY <3>1
  <2> QED BY <2>1, <2>2
<1>5. /\ connections_' \in Int /\ connections_' <= Cardinality(sockets_')
      /\ connections_' <= Cardinality(Sock) /\ sockets_' \subseteq Sock
  BY <1>1, <1>2, <1>3, <1>4
<1>6. sockets_ \ {k} \subseteq sockets_' /\ sockets_' \subseteq sockets_ /\ k \notin sockets_'
  BY <1>1
<1> QED BY <1>0, <1>1, <1>5, <1>6, ReturnStep

-----------------------------------------------------------------------------

LEMMA InitIInv == Init => IInv
<1> SUFFICES ASSUME Init PROVE IInv
  OBVIOUS
<1> USE SocketConstants
<1>1. Cardinality({}) = 0 /\ Cardinality(Sock) \in Nat
  BY FS_EmptySet, FS_CardinalityType
<1>2. /\ thread = [t \in Thread |-> Idle] /\ Idle \in Place
      /\ \A t \in Thread : thread[t].at = "idle" /\ thread[t].then = "return"
  BY DEF Init, Idle, Place, At, Then
<1>3. TypeOK
  <2>1. thread \in [Thread -> Place]
    BY <1>2
  <2> QED BY <1>1, <2>1 DEF Init, TypeOK, Life, Place
<1>4. ThreadsInv
  BY <1>2 DEF Init, ThreadsInv, Thread
<1>5. AuthInv
  BY <1>2 DEF AuthInv, Thread
<1>6. FreshInv
  BY DEF Init, FreshInv
<1>7. \A k \in Sock : ~Notifying(k)
  BY <1>2 DEF Notifying
<1>8. RouteInv
  BY DEF Init, RouteInv
<1>9. RegisterInv
  BY <1>1, <1>7 DEF Init, RegisterInv
<1> QED BY <1>3, <1>4, <1>5, <1>6, <1>8, <1>9 DEF IInv

LEMMA NextIInv == IInv /\ [Next]_vars => IInv'
<1> SUFFICES ASSUME IInv, [Next]_vars PROVE IInv'
  OBVIOUS
<1>1. ASSUME NEW t \in Thread, CloseNext(t) PROVE IInv'
  BY <1>1, CloseForgetIInv, CloseTestIInv, CloseSetIInv, CloseNotifyIInv DEF CloseNext
<1>2. CASE ClientNext
  BY <1>2, OnNewConnectionIInv, OnReadCompleteIInv DEF ClientNext
<1>3. CASE AcceptorNext \/ AcceptError
  BY <1>1, <1>3, SendChallengeIInv, AcceptErrorIInv DEF AcceptorNext, Thread
<1>4. CASE NetworkNext
  BY <1>1, <1>4, OnReadErrorIInv, AuthCheckIInv, AuthRefuseIInv, AuthCreateIInv, AddSessionIInv,
     AuthThrowsIInv, PacketThrowsIInv, UseSessionIInv, StartAsyncReadIInv DEF NetworkNext, Thread
<1>5. CASE WorldNext
  BY <1>1, <1>5, TakeSessionIInv, UpdateClosedIInv DEF WorldNext, UpdateSessions, Thread
<1>6. CASE WorldCommands
  BY <1>6, KickIInv DEF WorldCommands
<1>7. CASE UNCHANGED vars
  <2>1. UNCHANGED <<closed_, reading, authSent, m_Session, life, m_Socket, connections_, sockets_,
                    accepting, thread, raced, stale>>
    BY <1>7 DEF vars, sockVars, sessVars, mgrVars, history
  <2>2. TypeOK' /\ ThreadsInv'
    BY <2>1 DEF IInv, TypeOK, ThreadsInv
  <2>3. AuthInv' /\ FreshInv'
    BY <2>1 DEF IInv, AuthInv, FreshInv
  <2>4. RouteInv' /\ RegisterInv'
    BY <2>1 DEF IInv, RouteInv, RegisterInv, Closing, Notifying
  <2> QED BY <2>2, <2>3, <2>4 DEF IInv
<1> QED BY <1>2, <1>3, <1>4, <1>5, <1>6, <1>7 DEF Next

LEMMA IInvImpliesRoutesToOwner == IInv => RoutesToOwner
<1> SUFFICES ASSUME IInv PROVE RoutesToOwner
  OBVIOUS
<1>1. \A k \in Sock \ raced : closed_[k] => m_Session[k] = None
  BY DEF IInv, RouteInv, Closing
<1> QED BY <1>1 DEF IInv, RouteInv, RegisterInv, RoutesToOwner

\* WorldSocket.cpp, Socket.cpp, NetworkManager.cpp: the routing pointer, the session and the
\* network thread's registers agree at every interleaving of the three threads, for any
\* number of sockets and sessions.
THEOREM WorldSocketSound == Spec => []RoutesToOwner
<1>1. Init => IInv
  BY InitIInv
<1>2. IInv /\ [Next]_vars => IInv'
  BY NextIInv
<1>3. IInv => RoutesToOwner
  BY IInvImpliesRoutesToOwner
<1> QED BY <1>1, <1>2, <1>3, PTL DEF Spec

\* connections_ never counts more sockets than sockets_ holds, also while threads are in the
\* middle of reporting a close: the load balancing never avoids a thread for a socket it lost.
THEOREM ConnectionsNeverStale == Spec => [](connections_ <= Cardinality(sockets_))
<1>1. Init => IInv
  BY InitIInv
<1>2. IInv /\ [Next]_vars => IInv'
  BY NextIInv
<1>3. IInv => connections_ <= Cardinality(sockets_)
  BY DEF IInv, RegisterInv
<1> QED BY <1>1, <1>2, <1>3, PTL DEF Spec

=============================================================================
