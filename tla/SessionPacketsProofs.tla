------------------------ MODULE SessionPacketsProofs ------------------------
(***************************************************************************)
(* Proofs about SessionPackets, for every number of packets and sessions   *)
(* and all kinds of packets: no packet is used after its deletion, and a   *)
(* client that knows when its player is in the world has its packets       *)
(* handled in their order.                                                 *)
(***************************************************************************)
EXTENDS SessionPackets, FiniteSetTheorems, SequenceTheorems, TLAPS

\* A packet is in the queue once, before the one that is about to enter it, and both are
\* allocated.
QueueInv ==
    /\ \A i \in 1 .. Len(recvQueue) : recvQueue[i].id <= sent /\ recvQueue[i].id \in heap
    /\ \A i, j \in 1 .. Len(recvQueue) : i # j => recvQueue[i].id # recvQueue[j].id
    /\ adding # None =>
          /\ session # None /\ session.socket = "open"
          /\ adding.id \in heap /\ adding.id <= sent
          /\ \A i \in 1 .. Len(recvQueue) : recvQueue[i].id # adding.id

\* The packets that Requeue may take, and those that end the time of grace after a logout.
Waits(k) == opcodeTable[k].status = "LOGGEDIN" /\ k # "cancel"
Ends(k) == opcodeTable[k].status = "AUTHED" /\ k # "voice"

\* As long as no result strayed, a session asks for a player once, while it has none, and the
\* results on their way that are not its own are older: where the session n of the account
\* stands among the login queries or results q.
Own(q, n) == {i \in 1 .. Len(q) : q[i] = n}
AskedOnce(queries, results, n) ==
    /\ \A i, j \in Own(queries, n) : i = j
    /\ \A i, j \in Own(results, n) : i = j
    /\ Own(queries, n) = {} \/ Own(results, n) = {}
Unasked(queries, results, n) == Own(queries, n) = {} /\ Own(results, n) = {}
UpTo(q, n) == \A i \in 1 .. Len(q) : q[i] <= n

LoginInv ==
    /\ UpTo(pending, incarnation) /\ UpTo(ready, incarnation)
    /\ session # None =>
          /\ incarnation >= 1
          /\ session.logoutTime => session.player # "none"
    /\ ~strayed =>
          /\ AskedOnce(pending, ready, incarnation)
          /\ session # None =>
                /\ session.loading => session.player = "none"
                /\ ~session.loading => Unasked(pending, ready, incarnation)

\* What the packets q of a polite client wait for is there in the session s, or was: nothing
\* that waits for a player follows the end of the grace, is there while a player is loaded, or
\* precedes, once he is there, what was sent without him.
PoliteInv(s, q) ==
    \A i \in 1 .. Len(q) : Waits(q[i].kind) =>
        /\ ~s.loading
        /\ s.player = "none" =>
              s.recentlyLogout /\ \A j \in 1 .. Len(q) : j < i => ~Ends(q[j].kind)
        /\ s.player # "none" =>
              \A j \in 1 .. Len(q) : i < j => ~Ends(q[j].kind)
GraceInv(s, q) ==
    s.logoutTime => \A i \in 1 .. Len(q) : ~Ends(q[i].kind)
\* The same of the packet that is about to enter the queue.
ComingInv(s, q, packet) ==
    /\ Waits(packet.kind) =>
          /\ ~s.loading
          /\ s.player = "none" =>
                s.recentlyLogout /\ \A j \in 1 .. Len(q) : ~Ends(q[j].kind)
    /\ Ends(packet.kind) =>
          /\ ~s.logoutTime
          /\ s.player # "none" => \A j \in 1 .. Len(q) : ~Waits(q[j].kind)

\* The ids of a polite client's packets grow along the queue.
SortedInv ==
    /\ lastDone <= sent
    /\ \A i \in 1 .. Len(recvQueue) : lastDone < recvQueue[i].id
    /\ \A i, j \in 1 .. Len(recvQueue) : i < j => recvQueue[i].id < recvQueue[j].id
    /\ adding # None =>
          /\ lastDone < adding.id
          /\ \A i \in 1 .. Len(recvQueue) : recvQueue[i].id < adding.id

OrderInv ==
    polite /\ ~strayed =>
        /\ SortedInv
        /\ session # None =>
              /\ PoliteInv(session, recvQueue)
              /\ GraceInv(session, recvQueue)
              /\ adding # None => ComingInv(session, recvQueue, adding)

IInv == TypeOK /\ QueueInv /\ LoginInv /\ OrderInv

-----------------------------------------------------------------------------
(* Packets, sessions and what a handler makes of them *)

\* The table of opcodes, as far as the order of packets depends on it.
LEMMA TableProps ==
  /\ \A k \in Kind : k \in DOMAIN opcodeTable
  /\ Ends("login")
  /\ Waits("logout") /\ opcodeTable["logout"].status = "LOGGEDIN"
  /\ Waits("areatrigger") /\ opcodeTable["areatrigger"].status = "LOGGEDIN"
  /\ opcodeTable["port_ack"].status = "TRANSFER"
  /\ \A k : Waits(k) => ~Ends(k) /\ InWorldKind(k) /\ k # "cancel" /\ k # "trade"
  /\ \A k : Ends(k) => ~InWorldKind(k) /\ k # "trade"
<1>1. \A k \in Kind : k \in DOMAIN opcodeTable
  BY PacketConstants
<1>2. /\ opcodeTable["login"].status = "AUTHED"
      /\ opcodeTable["logout"].status = "LOGGEDIN"
      /\ opcodeTable["areatrigger"].status = "LOGGEDIN"
      /\ opcodeTable["port_ack"].status = "TRANSFER"
      /\ opcodeTable["trade"].status = "LOGGEDIN_OR_RECENTLY"
  BY DEF opcodeTable, Op
<1> QED BY <1>1, <1>2 DEF Waits, Ends, InWorldKind

\* A session that goes on as it was, as far as the order of packets depends on it.
Calm(s, r) ==
    /\ r.loading = s.loading
    /\ r.player = "none" <=> s.player = "none"
    /\ r.logoutTime => s.logoutTime
    /\ s.recentlyLogout => r.recentlyLogout

LEMMA CalmKeepsOrder ==
  ASSUME NEW s, NEW r, Calm(s, r), NEW q, PoliteInv(s, q), GraceInv(s, q)
  PROVE  /\ PoliteInv(r, q) /\ GraceInv(r, q)
         /\ \A packet : ComingInv(s, q, packet) => ComingInv(r, q, packet)
BY DEF Calm, PoliteInv, GraceInv, ComingInv

\* The fields of sessions that changed.
LEMMA SessionFields ==
  ASSUME NEW s \in Session
  PROVE  /\ \A v \in {"closed", "reset"} :
               LET r == [s EXCEPT !.socket = v]
               IN  r \in Session /\ Calm(s, r) /\ r.socket = v
         /\ \A v \in {"world", "transfer"} :
               LET r == [s EXCEPT !.player = v]
               IN  /\ r \in Session /\ r.player = v
                   /\ r.loading = s.loading /\ r.recentlyLogout = s.recentlyLogout
                   /\ r.logoutTime = s.logoutTime /\ r.socket = s.socket
         /\ \A v \in BOOLEAN :
               LET r == [s EXCEPT !.logoutTime = v]
               IN  /\ r \in Session /\ r.logoutTime = v /\ r.player = s.player
                   /\ r.loading = s.loading /\ r.recentlyLogout = s.recentlyLogout
                   /\ r.socket = s.socket
         /\ \A v \in BOOLEAN :
               LET r == [s EXCEPT !.loading = v]
               IN  /\ r \in Session /\ r.loading = v /\ r.player = s.player
                   /\ r.logoutTime = s.logoutTime /\ r.recentlyLogout = s.recentlyLogout
                   /\ r.socket = s.socket
         /\ LET r == [s EXCEPT !.recentlyLogout = FALSE]
            IN  /\ r \in Session /\ ~r.recentlyLogout /\ r.player = s.player
                /\ r.logoutTime = s.logoutTime /\ r.loading = s.loading
                /\ r.socket = s.socket
         /\ LET r == [s EXCEPT !.inQueue = FALSE]
            IN  r \in Session /\ Calm(s, r) /\ r.socket = s.socket
BY DEF Session, Calm

LEMMA LoggedOutProps ==
  ASSUME NEW s \in Session
  PROVE  LET r == LoggedOut(s)
         IN  /\ r \in Session /\ r.player = "none" /\ r.recentlyLogout /\ ~r.logoutTime
             /\ r.loading = s.loading /\ r.socket = s.socket
<1>1. PICK r : r = LoggedOut(s)
  OBVIOUS
<1>2. r = [player |-> "none", loading |-> s.loading, recentlyLogout |-> TRUE,
           inQueue |-> s.inQueue, logoutTime |-> FALSE, socket |-> s.socket]
  BY <1>1 DEF LoggedOut, Session
<1>3. /\ s.loading \in BOOLEAN /\ s.inQueue \in BOOLEAN /\ s.socket \in {"open", "closed", "reset"}
  BY DEF Session
<1>4. r \in Session
  BY <1>2, <1>3 DEF Session
<1>5. /\ r.player = "none" /\ r.recentlyLogout /\ ~r.logoutTime
      /\ r.loading = s.loading /\ r.socket = s.socket
  BY <1>2
<1> QED BY <1>1, <1>4, <1>5

\* What the handling of a packet of kind k may make of the session s.
Effect(k, s, r) ==
    \/ Calm(s, r)
    \/ /\ Ends(k) /\ r.loading = s.loading
       /\ r.player = "none" <=> s.player = "none"
       /\ r.logoutTime => s.logoutTime
    \/ /\ Ends(k) /\ s.player = "none" /\ r.player = "none"
       /\ ~s.loading /\ r.loading
       /\ r.logoutTime => s.logoutTime
    \/ /\ Waits(k) /\ s.player # "none" /\ r.loading = s.loading
       /\ r.player = "none" => r.recentlyLogout /\ ~r.logoutTime

LEMMA ExecuteEffect ==
  ASSUME session \in Session, NEW k \in Kind, MayExecute(k), ExecuteOpcode(k, Enters(k)),
         pending \in Seq(1 .. MaxSessions)
  PROVE  /\ session' \in Session /\ crashed' \in BOOLEAN \cup {crashed}
         /\ Effect(k, session, session')
         /\ pending' = IF session'.loading /\ ~session.loading
                       THEN Append(pending, incarnation) ELSE pending
<1>1. PICK s : s = Enters(k)
  OBVIOUS
<1>2. /\ s \in Session /\ s.player = session.player /\ s.loading = session.loading
      /\ s.logoutTime = session.logoutTime /\ s.socket = session.socket
      /\ s.recentlyLogout = session.recentlyLogout \/ Ends(k)
  BY <1>1, SessionFields DEF Enters, Ends
<1>3. CASE session' \in {s, [s EXCEPT !.socket = "closed"]} /\ UNCHANGED <<pending, crashed>>
  <2>1. session' \in Session /\ Calm(s, session')
    <3>1. CASE session' = s
      BY <1>2, <3>1 DEF Calm
    <3>2. CASE session' = [s EXCEPT !.socket = "closed"]
      <4>1. PICK r : r = [s EXCEPT !.socket = "closed"]
        OBVIOUS
      <4>2. r \in Session /\ Calm(s, r)
        BY <1>2, <4>1, SessionFields
      <4> QED BY <3>2, <4>1, <4>2
    <3> QED BY <1>3, <3>1, <3>2
  <2>2. Effect(k, session, session') /\ session'.loading = session.loading
    BY <1>2, <2>1 DEF Calm, Effect
  <2> QED BY <1>3, <2>1, <2>2
<1>4. CASE /\ session' \in Handled(k, s)
           /\ pending' = IF session'.loading /\ ~s.loading
                         THEN Append(pending, incarnation) ELSE pending
           /\ crashed' = (k = "cancel" /\ s.player = "none")
  <2>1. session' \in Session /\ Effect(k, session, session')
    <3>1. CASE k = "login" /\ ~s.loading /\ s.player = "none"
      <4>1. session' = [s EXCEPT !.loading = TRUE]
        BY <1>4, <3>1 DEF Handled
      <4>2. /\ session' \in Session /\ session'.loading /\ session'.player = "none"
            /\ session'.logoutTime = s.logoutTime
        BY <1>2, <3>1, <4>1, SessionFields
      <4> QED BY <1>2, <3>1, <4>2, TableProps DEF Effect
    <3>2. CASE k \in {"areatrigger", "port_ack"}
      <4>1. PICK p \in {"world", "transfer"} : session' = [s EXCEPT !.player = p]
        BY <1>4, <3>2 DEF Handled
      <4>2. /\ session' \in Session /\ session'.player = p
            /\ session'.loading = s.loading /\ session'.recentlyLogout = s.recentlyLogout
            /\ session'.logoutTime = s.logoutTime
        BY <1>2, <4>1 DEF Session
      <4>3. session.player # "none"
        BY <3>2, TableProps DEF MayExecute
      <4>4. ~Ends(k)
        BY <3>2, TableProps DEF Ends
      <4> QED BY <1>2, <4>2, <4>3, <4>4 DEF Effect, Calm
    <3>3. CASE k = "logout"
      <4>1. session.player = "world" /\ Waits(k)
        BY <3>3, TableProps DEF MayExecute
      <4>2. session' \in {[s EXCEPT !.logoutTime = FALSE], [s EXCEPT !.logoutTime = TRUE],
                          LoggedOut(s)}
        BY <1>4, <3>3 DEF Handled
      <4>3. CASE session' = LoggedOut(s)
        BY <1>2, <4>1, <4>3, LoggedOutProps DEF Effect
      <4>4. CASE session' \in {[s EXCEPT !.logoutTime = FALSE], [s EXCEPT !.logoutTime = TRUE]}
        <5>1. /\ session' \in Session /\ session'.player = s.player
              /\ session'.loading = s.loading
          <6>1. PICK v \in BOOLEAN : session' = [s EXCEPT !.logoutTime = v]
            BY <4>4
          <6> QED BY <1>2, <6>1 DEF Session
        <5> QED BY <1>2, <4>1, <5>1 DEF Effect
      <4> QED BY <4>2, <4>3, <4>4
    <3>4. CASE k = "cancel"
      <4>1. session' = [s EXCEPT !.logoutTime = FALSE]
        BY <1>4, <3>4 DEF Handled
      <4>2. /\ session' \in Session /\ session'.player = s.player /\ ~session'.logoutTime
            /\ session'.loading = s.loading /\ session'.recentlyLogout = s.recentlyLogout
        BY <1>2, <4>1, SessionFields
      <4> QED BY <1>2, <4>2 DEF Effect, Calm
    <3>5. CASE /\ ~(k = "login" /\ ~s.loading /\ s.player = "none")
               /\ k \notin {"areatrigger", "port_ack", "logout", "cancel"}
      <4>1. session' = s
        BY <1>4, <3>5 DEF Handled
      <4> QED BY <1>2, <4>1 DEF Effect, Calm
    <3> QED BY <3>1, <3>2, <3>3, <3>4, <3>5
  <2> QED BY <1>2, <1>4, <2>1
<1> QED BY <1>1, <1>3, <1>4 DEF ExecuteOpcode

-----------------------------------------------------------------------------
(* The queue *)

LEMMA QueueProps ==
  ASSUME NEW q \in Seq(Packet)
  PROVE  /\ Len(q) \in Nat
         /\ \A i \in 1 .. Len(q) : q[i] \in Packet /\ q[i].kind \in Kind /\ q[i].id \in Int
         /\ q # << >> =>
               /\ Len(q) >= 1 /\ Head(q) = q[1]
               /\ Tail(q) \in Seq(Packet) /\ Len(Tail(q)) = Len(q) - 1
               /\ \A i \in 1 .. Len(Tail(q)) : Tail(q)[i] = q[i + 1] /\ i + 1 \in 1 .. Len(q)
<1>1. \A p \in Packet : p.kind \in Kind /\ p.id \in Int
  BY DEF Packet
<1>2. Len(q) \in Nat /\ \A i \in 1 .. Len(q) : q[i] \in Packet
  BY LenProperties, ElementOfSeq
<1>3. ASSUME q # << >>
      PROVE  /\ Len(q) >= 1 /\ Head(q) = q[1]
             /\ Tail(q) \in Seq(Packet) /\ Len(Tail(q)) = Len(q) - 1
             /\ \A i \in 1 .. Len(Tail(q)) : Tail(q)[i] = q[i + 1] /\ i + 1 \in 1 .. Len(q)
  <2>1. Len(q) >= 1
    BY <1>2, <1>3, EmptySeq
  <2>2. /\ Tail(q) \in Seq(Packet) /\ Len(Tail(q)) = Len(q) - 1
        /\ \A i \in 1 .. Len(Tail(q)) : Tail(q)[i] = q[i + 1]
    BY <1>3, HeadTailProperties
  <2>3. \A i \in 1 .. Len(Tail(q)) : i + 1 \in 1 .. Len(q)
    BY <1>2, <2>2
  <2> QED BY <2>1, <2>2, <2>3
<1> QED BY <1>1, <1>2, <1>3

\* The head is gone, with its effect on the session.
LEMMA HandlingKeepsOrder ==
  ASSUME NEW s, NEW r, NEW q \in Seq(Packet), q # << >>, Effect(q[1].kind, s, r),
         PoliteInv(s, q), GraceInv(s, q)
  PROVE  PoliteInv(r, Tail(q)) /\ GraceInv(r, Tail(q))
<1>1. PICK t : t = Tail(q)
  OBVIOUS
<1>2. /\ Len(q) \in Nat /\ Len(q) >= 1 /\ Len(t) = Len(q) - 1
      /\ \A i \in 1 .. Len(t) : t[i] = q[i + 1] /\ i + 1 \in 1 .. Len(q)
      /\ 1 \in 1 .. Len(q)
  BY <1>1, QueueProps
<1>3. PoliteInv(s, t) /\ GraceInv(s, t)
  <2>1. ASSUME NEW i \in 1 .. Len(t), Waits(t[i].kind)
        PROVE  /\ ~s.loading
               /\ s.player = "none" =>
                     s.recentlyLogout /\ \A j \in 1 .. Len(t) : j < i => ~Ends(t[j].kind)
               /\ s.player # "none" =>
                     \A j \in 1 .. Len(t) : i < j => ~Ends(t[j].kind)
    <3>1. \A j \in 1 .. Len(t) : (j < i <=> j + 1 < i + 1) /\ (i < j <=> i + 1 < j + 1)
      BY <1>2
    <3>2. Waits(q[i + 1].kind)
      BY <1>2, <2>1
    <3> QED BY <1>2, <3>1, <3>2 DEF PoliteInv
  <2> QED BY <1>2, <2>1 DEF PoliteInv, GraceInv
<1>4. CASE Calm(s, r)
  BY <1>1, <1>3, <1>4, CalmKeepsOrder
<1>5. ASSUME Ends(q[1].kind), s.player = "none", NEW i \in 1 .. Len(t) PROVE ~Waits(t[i].kind)
  <2>1. 1 < i + 1 /\ i + 1 \in 1 .. Len(q) /\ t[i] = q[i + 1]
    BY <1>2
  <2> QED BY <1>2, <1>5, <2>1 DEF PoliteInv
<1>6. CASE /\ Ends(q[1].kind) /\ r.loading = s.loading
           /\ r.player = "none" <=> s.player = "none"
           /\ r.logoutTime => s.logoutTime
  BY <1>1, <1>3, <1>5, <1>6 DEF PoliteInv, GraceInv
<1>7. CASE /\ Ends(q[1].kind) /\ s.player = "none" /\ r.player = "none"
           /\ ~s.loading /\ r.loading
           /\ r.logoutTime => s.logoutTime
  BY <1>1, <1>3, <1>5, <1>7 DEF PoliteInv, GraceInv
<1>8. CASE /\ Waits(q[1].kind) /\ s.player # "none" /\ r.loading = s.loading
           /\ r.player = "none" => r.recentlyLogout /\ ~r.logoutTime
  <2>1. ASSUME NEW i \in 1 .. Len(t) PROVE ~Ends(t[i].kind)
    <3>1. 1 < i + 1 /\ i + 1 \in 1 .. Len(q) /\ t[i] = q[i + 1]
      BY <1>2
    <3> QED BY <1>2, <1>8, <3>1 DEF PoliteInv
  <2> QED BY <1>1, <1>3, <1>8, <2>1 DEF PoliteInv, GraceInv
<1> QED BY <1>4, <1>6, <1>7, <1>8 DEF Effect

\* A packet enters the queue.
LEMMA AppendKeepsOrder ==
  ASSUME NEW s, NEW q \in Seq(Packet), NEW packet \in Packet,
         PoliteInv(s, q), GraceInv(s, q), ComingInv(s, q, packet)
  PROVE  PoliteInv(s, Append(q, packet)) /\ GraceInv(s, Append(q, packet))
<1>1. PICK t : t = Append(q, packet)
  OBVIOUS
<1>2. /\ Len(q) \in Nat /\ Len(t) = Len(q) + 1
      /\ \A i \in 1 .. Len(q) : t[i] = q[i]
      /\ t[Len(q) + 1] = packet
  BY <1>1, QueueProps, AppendProperties
<1>3. \A i \in 1 .. Len(t) : i \in 1 .. Len(q) \/ i = Len(q) + 1
  BY <1>2
<1>4. ASSUME NEW i \in 1 .. Len(t), Waits(t[i].kind)
      PROVE  /\ ~s.loading
             /\ s.player = "none" =>
                   s.recentlyLogout /\ \A j \in 1 .. Len(t) : j < i => ~Ends(t[j].kind)
             /\ s.player # "none" =>
                   \A j \in 1 .. Len(t) : i < j => ~Ends(t[j].kind)
  <2>1. CASE i \in 1 .. Len(q)
    <3>1. \A j \in 1 .. Len(t) : j < i => j \in 1 .. Len(q)
      BY <1>2, <2>1
    <3> QED BY <1>2, <1>3, <1>4, <2>1, <3>1 DEF PoliteInv, ComingInv
  <2>2. CASE i = Len(q) + 1
    <3>1. \A j \in 1 .. Len(t) : ~(i < j) /\ (j < i => j \in 1 .. Len(q))
      BY <1>2, <2>2
    <3> QED BY <1>2, <1>4, <2>2, <3>1 DEF ComingInv
  <2> QED BY <1>3, <2>1, <2>2
<1>5. GraceInv(s, t)
  BY <1>2, <1>3 DEF GraceInv, ComingInv
<1> QED BY <1>1, <1>4, <1>5 DEF PoliteInv

-----------------------------------------------------------------------------
(* Login queries and their results *)

LEMMA OwnProps ==
  ASSUME NEW q \in Seq(1 .. MaxSessions), NEW n
  PROVE  /\ \A v : /\ \A i \in Own(Append(q, v), n) :
                         i \in Own(q, n) \/ (v = n /\ i = Len(q) + 1)
                   /\ \A m : UpTo(q, m) /\ v <= m => UpTo(Append(q, v), m)
         /\ q # << >> =>
               /\ Head(q) = q[1] /\ Head(q) \in 1 .. MaxSessions
               /\ Tail(q) \in Seq(1 .. MaxSessions)
               /\ \A i \in Own(Tail(q), n) : i \in Nat /\ i >= 1 /\ i + 1 \in Own(q, n)
               /\ Head(q) = n <=> 1 \in Own(q, n)
               /\ \A m : UpTo(q, m) => UpTo(Tail(q), m) /\ Head(q) <= m
<1>1. Len(q) \in Nat /\ \A i \in 1 .. Len(q) : q[i] \in 1 .. MaxSessions
  BY LenProperties, ElementOfSeq
<1>2. ASSUME NEW v
      PROVE  /\ \A i \in Own(Append(q, v), n) : i \in Own(q, n) \/ (v = n /\ i = Len(q) + 1)
             /\ \A m : UpTo(q, m) /\ v <= m => UpTo(Append(q, v), m)
  <2>1. PICK t : t = Append(q, v)
    OBVIOUS
  <2>2. /\ Len(t) = Len(q) + 1
        /\ \A i \in 1 .. Len(q) : t[i] = q[i]
        /\ t[Len(q) + 1] = v
    <3>1. q \in Seq(1 .. MaxSessions \cup {v}) /\ v \in 1 .. MaxSessions \cup {v}
      BY <1>1, SeqDef
    <3> QED BY <2>1, <3>1, AppendProperties
  <2>3. \A i \in 1 .. Len(t) : i \in 1 .. Len(q) \/ i = Len(q) + 1
    BY <1>1, <2>2
  <2> QED BY <2>1, <2>2, <2>3 DEF Own, UpTo
<1>3. ASSUME q # << >>
      PROVE  /\ Head(q) = q[1] /\ Head(q) \in 1 .. MaxSessions
             /\ Tail(q) \in Seq(1 .. MaxSessions)
             /\ \A i \in Own(Tail(q), n) : i \in Nat /\ i >= 1 /\ i + 1 \in Own(q, n)
             /\ Head(q) = n <=> 1 \in Own(q, n)
             /\ \A m : UpTo(q, m) => UpTo(Tail(q), m) /\ Head(q) <= m
  <2>1. Len(q) >= 1 /\ 1 \in 1 .. Len(q)
    BY <1>1, <1>3, EmptySeq
  <2>2. PICK t : t = Tail(q)
    OBVIOUS
  <2>3. /\ t \in Seq(1 .. MaxSessions) /\ Len(t) = Len(q) - 1
        /\ \A i \in 1 .. Len(t) : t[i] = q[i + 1]
        /\ Head(q) = q[1]
    BY <1>3, <2>2, HeadTailProperties
  <2>4. \A i \in 1 .. Len(t) : i \in Nat /\ i >= 1 /\ i + 1 \in 1 .. Len(q)
    BY <1>1, <2>3
  <2>5. \A i \in Own(t, n) : i \in Nat /\ i >= 1 /\ i + 1 \in Own(q, n)
    BY <2>3, <2>4 DEF Own
  <2>6. \A m : UpTo(q, m) => UpTo(t, m) /\ Head(q) <= m
    BY <2>1, <2>3, <2>4 DEF UpTo
  <2>7. Head(q) = n <=> 1 \in Own(q, n)
    BY <2>1, <2>3 DEF Own
  <2> QED BY <1>1, <2>1, <2>2, <2>3, <2>5, <2>6, <2>7
<1> QED BY <1>2, <1>3

\* The session asks for a player.
LEMMA AskingIsOnce ==
  ASSUME NEW p \in Seq(1 .. MaxSessions), NEW r, NEW n, Unasked(p, r, n)
  PROVE  AskedOnce(Append(p, n), r, n)
BY OwnProps DEF AskedOnce, Unasked

\* The database thread answers a query.
LEMMA AnswerKeepsAskedOnce ==
  ASSUME NEW p \in Seq(1 .. MaxSessions), p # << >>, NEW r \in Seq(1 .. MaxSessions), NEW n,
         AskedOnce(p, r, n)
  PROVE  /\ AskedOnce(Tail(p), Append(r, Head(p)), n)
         /\ Unasked(p, r, n) => Unasked(Tail(p), Append(r, Head(p)), n)
<1>1. \A i \in Own(Tail(p), n) : i \in Nat /\ i >= 1 /\ i + 1 \in Own(p, n)
  BY OwnProps
<1>2. Head(p) = n <=> 1 \in Own(p, n)
  BY OwnProps
<1>3. \A i \in Own(Append(r, Head(p)), n) :
         i \in Own(r, n) \/ (Head(p) = n /\ i = Len(r) + 1)
  BY OwnProps
<1>4. \A i, j \in Own(Tail(p), n) : i = j
  <2>1. ASSUME NEW i \in Own(Tail(p), n), NEW j \in Own(Tail(p), n) PROVE i = j
    <3>1. i + 1 = j + 1 /\ i \in Nat /\ j \in Nat
      BY <1>1 DEF AskedOnce
    <3> QED BY <3>1
  <2> QED BY <2>1
<1>5. CASE Head(p) = n
  <2>1. Own(r, n) = {}
    BY <1>2, <1>5 DEF AskedOnce
  <2>2. Own(Tail(p), n) = {}
    <3>1. ASSUME NEW i \in Own(Tail(p), n) PROVE FALSE
      <4>1. i + 1 = 1 /\ i \in Nat /\ i >= 1
        BY <1>1, <1>2, <1>5 DEF AskedOnce
      <4> QED BY <4>1
    <3> QED BY <3>1
  <2> QED BY <1>2, <1>3, <1>5, <2>1, <2>2 DEF AskedOnce, Unasked
<1>6. CASE Head(p) # n
  BY <1>1, <1>3, <1>4, <1>6 DEF AskedOnce, Unasked
<1> QED BY <1>5, <1>6

\* A result is handed over.
LEMMA ResultKeepsAskedOnce ==
  ASSUME NEW p, NEW r \in Seq(1 .. MaxSessions), r # << >>, NEW n, AskedOnce(p, r, n)
  PROVE  /\ AskedOnce(p, Tail(r), n)
         /\ Unasked(p, r, n) => Unasked(p, Tail(r), n)
         /\ Head(r) = n => ~Unasked(p, r, n) /\ Unasked(p, Tail(r), n)
<1>1. \A i \in Own(Tail(r), n) : i \in Nat /\ i >= 1 /\ i + 1 \in Own(r, n)
  BY OwnProps
<1>2. Head(r) = n <=> 1 \in Own(r, n)
  BY OwnProps
<1>3. \A i, j \in Own(Tail(r), n) : i = j
  <2>1. ASSUME NEW i \in Own(Tail(r), n), NEW j \in Own(Tail(r), n) PROVE i = j
    <3>1. i + 1 = j + 1 /\ i \in Nat /\ j \in Nat
      BY <1>1 DEF AskedOnce
    <3> QED BY <3>1
  <2> QED BY <2>1
<1>4. Head(r) = n => Own(Tail(r), n) = {}
  <2>1. ASSUME Head(r) = n, NEW i \in Own(Tail(r), n) PROVE FALSE
    <3>1. i + 1 = 1 /\ i \in Nat /\ i >= 1
      BY <1>1, <1>2, <2>1 DEF AskedOnce
    <3> QED BY <3>1
  <2> QED BY <2>1
<1> QED BY <1>1, <1>2, <1>3, <1>4 DEF AskedOnce, Unasked

\* A new session of the account has not asked.
LEMMA NewSessionIsUnasked ==
  ASSUME NEW p \in Seq(1 .. MaxSessions), NEW r \in Seq(1 .. MaxSessions), NEW n \in Nat,
         UpTo(p, n), UpTo(r, n)
  PROVE  /\ Unasked(p, r, n + 1) /\ AskedOnce(p, r, n + 1)
         /\ UpTo(p, n + 1) /\ UpTo(r, n + 1)
<1>1. ASSUME NEW q \in Seq(1 .. MaxSessions), UpTo(q, n)
      PROVE  Own(q, n + 1) = {} /\ UpTo(q, n + 1)
  <2>1. \A i \in 1 .. Len(q) : q[i] \in Int
    <3>1. \A i \in 1 .. Len(q) : q[i] \in 1 .. MaxSessions
      BY <1>1, ElementOfSeq
    <3> QED BY <3>1
  <2>2. \A i \in 1 .. Len(q) : q[i] # n + 1 /\ q[i] <= n + 1
    BY <1>1, <2>1 DEF UpTo
  <2> QED BY <2>2 DEF Own, UpTo
<1> QED BY <1>1 DEF Unasked, AskedOnce

-----------------------------------------------------------------------------
(* The invariant is inductive *)

LEMMA InitIInv == Init => IInv
<1> SUFFICES ASSUME Init PROVE IInv
  OBVIOUS
<1>1. /\ session = None /\ incarnation = 0 /\ adding = None /\ sent = 0 /\ lastDone = 0
      /\ recvQueue = << >> /\ pending = << >> /\ ready = << >>
  BY DEF Init
<1>2. TypeOK
  <2>1. /\ << >> \in Seq(Packet) /\ << >> \in Seq(1 .. MaxSessions)
    BY EmptySeq
  <2>2. 0 \in 0 .. MaxPackets /\ 0 \in 0 .. MaxSessions
    BY PacketConstants
  <2>3. polite \in BOOLEAN /\ strayed \in BOOLEAN /\ crashed \in BOOLEAN /\ deletePacket \in BOOLEAN
    BY DEF Init
  <2> QED BY <1>1, <2>1, <2>2, <2>3 DEF Init, TypeOK
<1>3. \A i \in 1 .. Len(<< >>) : FALSE
  OBVIOUS
<1>4. QueueInv
  BY <1>1, <1>3 DEF QueueInv
<1>5. LoginInv
  BY <1>1, <1>3, NoneIsNothing DEF LoginInv, UpTo, Own, AskedOnce
<1>6. OrderInv
  BY <1>1, <1>3 DEF OrderInv, SortedInv
<1> QED BY <1>2, <1>4, <1>5, <1>6 DEF IInv

\* What a step that moves only the world thread leaves alone.
order == <<session, incarnation, recvQueue, client, heap, lastDone, database>>

LEMMA UnmovedKeepsIInv ==
  ASSUME IInv, UNCHANGED order, phase' \in {"sessions", "map", "results"},
         deletePacket' \in BOOLEAN, crashed' \in BOOLEAN
  PROVE  IInv'
<1> USE DEF order, client, database
<1>1. TypeOK'
  BY DEF IInv, TypeOK
<1>2. QueueInv'
  BY DEF IInv, QueueInv
<1>3. LoginInv'
  BY DEF IInv, LoginInv
<1>4. OrderInv'
  BY DEF IInv, OrderInv, SortedInv
<1> QED BY <1>1, <1>2, <1>3, <1>4 DEF IInv

\* The session goes on as it was.
LEMMA CalmKeepsIInv ==
  ASSUME IInv, session \in Session, session' \in Session, Calm(session, session'),
         adding # None => session'.socket = "open",
         UNCHANGED <<incarnation, recvQueue, client, heap, lastDone, database>>,
         phase' \in {"sessions", "map", "results"}, deletePacket' \in BOOLEAN,
         crashed' \in BOOLEAN
  PROVE  IInv'
<1> USE DEF client, database
<1>1. session # None /\ session' # None
  BY NoneIsNothing
<1>2. TypeOK'
  BY <1>1 DEF IInv, TypeOK
<1>3. QueueInv'
  BY <1>1 DEF IInv, QueueInv
<1>4. LoginInv'
  BY <1>1 DEF IInv, LoginInv, Calm
<1>5. OrderInv'
  <2>1. SUFFICES ASSUME polite, ~strayed PROVE OrderInv'
    BY DEF OrderInv
  <2>2. SortedInv'
    BY <2>1 DEF IInv, OrderInv, SortedInv
  <2>3. PICK s, r, q, packet : s = session /\ r = session' /\ q = recvQueue /\ packet = adding
    OBVIOUS
  <2>4. PoliteInv(s, q) /\ GraceInv(s, q) /\ (packet # None => ComingInv(s, q, packet))
    BY <1>1, <2>1, <2>3 DEF IInv, OrderInv
  <2>5. PoliteInv(r, q) /\ GraceInv(r, q) /\ (packet # None => ComingInv(r, q, packet))
    BY <2>3, <2>4, CalmKeepsOrder
  <2> QED BY <2>2, <2>3, <2>5 DEF OrderInv
<1> QED BY <1>2, <1>3, <1>4, <1>5 DEF IInv

LEMMA BeginQueuePacketStep ==
  ASSUME IInv, NEW k \in Kind, BeginQueuePacket(k)
  PROVE  IInv'
<1>1. /\ session # None /\ session.socket = "open" /\ adding = None /\ sent < MaxPackets
      /\ sent' = sent + 1 /\ adding' = [id |-> sent', kind |-> k]
      /\ heap' = heap \cup {sent'}
      /\ UNCHANGED <<session, incarnation, recvQueue, polite, phase, deletePacket, lastDone,
                     database, crashed>>
      /\ MaySend(k)
  BY DEF BeginQueuePacket
<1>2. /\ sent \in Nat /\ sent' \in 1 .. MaxPackets /\ lastDone \in Nat
      /\ recvQueue \in Seq(Packet) /\ session \in Session
  BY <1>1, PacketConstants DEF IInv, TypeOK
<1>3. PICK packet : packet = [id |-> sent', kind |-> k]
  OBVIOUS
<1>4. /\ adding' = packet /\ packet \in Packet /\ packet.id = sent + 1 /\ packet.kind = k
      /\ packet # None
  <2>1. packet \in Packet
    BY <1>2, <1>3 DEF Packet
  <2> QED BY <1>1, <1>3, <2>1, NoneIsNothing
<1>5. \A i \in 1 .. Len(recvQueue) :
         /\ recvQueue[i].id \in Int
         /\ recvQueue[i].id <= sent /\ recvQueue[i].id \in heap
  BY <1>2, QueueProps DEF IInv, QueueInv
<1>6. \A i \in 1 .. Len(recvQueue) : recvQueue[i].id < packet.id /\ recvQueue[i].id <= sent'
  BY <1>1, <1>2, <1>4, <1>5
<1>7. TypeOK'
  <2>1. heap' \subseteq 1 .. MaxPackets /\ sent' \in 0 .. MaxPackets
    BY <1>1, <1>2 DEF IInv, TypeOK
  <2> QED BY <1>1, <1>4, <2>1 DEF IInv, TypeOK, database
<1>8. QueueInv'
  <2>1. \A i \in 1 .. Len(recvQueue) : recvQueue[i].id # packet.id
    BY <1>2, <1>4, <1>5, <1>6
  <2>2. packet.id \in heap' /\ packet.id <= sent'
    BY <1>1, <1>2, <1>4
  <2> QED BY <1>1, <1>4, <1>5, <1>6, <2>1, <2>2 DEF IInv, QueueInv
<1>9. LoginInv'
  BY <1>1 DEF IInv, LoginInv, database
<1>10. OrderInv'
  <2>1. SUFFICES ASSUME polite, ~strayed PROVE OrderInv'
    BY <1>1 DEF OrderInv, database
  <2>2. SortedInv'
    <3>1. SortedInv
      BY <2>1 DEF IInv, OrderInv
    <3>2. lastDone <= sent' /\ lastDone < packet.id
      BY <1>1, <1>2, <1>4, <3>1 DEF SortedInv
    <3> QED BY <1>1, <1>4, <1>6, <3>1, <3>2 DEF SortedInv
  <2>3. ComingInv(session, recvQueue, packet)
    <3>1. Waits(k) => session.player # "none" /\ ~session.loading
      <4>1. Waits(k) => InWorldKind(k) /\ k # "trade"
        BY TableProps
      <4> QED BY <1>1, <2>1, <4>1 DEF MaySend, IInv, LoginInv
    <3>2. Ends(k) => session.player = "none" /\ ~session.logoutTime
      <4>1. Ends(k) => ~InWorldKind(k) /\ k # "trade"
        BY TableProps
      <4> QED BY <1>1, <2>1, <4>1 DEF MaySend, IInv, LoginInv
    <3> QED BY <1>4, <3>1, <3>2 DEF ComingInv
  <2> QED BY <1>1, <1>4, <2>1, <2>2, <2>3 DEF IInv, OrderInv, database
<1> QED BY <1>7, <1>8, <1>9, <1>10 DEF IInv

LEMMA QueuePacketStep ==
  ASSUME IInv, QueuePacket
  PROVE  IInv'
<1>1. /\ adding # None /\ adding' = None
      /\ recvQueue' = Append(recvQueue, adding)
      /\ UNCHANGED <<session, incarnation, polite, sent, heap, phase, deletePacket, lastDone,
                     database, crashed>>
  BY DEF QueuePacket
<1>2. PICK packet, q, t : packet = adding /\ q = recvQueue /\ t = Append(recvQueue, adding)
  OBVIOUS
<1>3. /\ session # None /\ packet \in Packet /\ q \in Seq(Packet)
      /\ packet.id \in heap /\ packet.id <= sent
      /\ \A i \in 1 .. Len(q) : q[i].id # packet.id /\ q[i].id <= sent /\ q[i].id \in heap
      /\ \A i, j \in 1 .. Len(q) : i # j => q[i].id # q[j].id
  BY <1>1, <1>2 DEF IInv, TypeOK, QueueInv
<1>4. /\ Len(q) \in Nat /\ t \in Seq(Packet) /\ Len(t) = Len(q) + 1
      /\ \A i \in 1 .. Len(q) : t[i] = q[i]
      /\ t[Len(q) + 1] = packet
  BY <1>2, <1>3, QueueProps, AppendProperties
<1>5. \A i \in 1 .. Len(t) : i \in 1 .. Len(q) \/ i = Len(q) + 1
  BY <1>4
<1>6. TypeOK'
  BY <1>1, <1>2, <1>3, <1>4 DEF IInv, TypeOK, database
<1>7. QueueInv'
  <2>1. \A i \in 1 .. Len(t) : t[i].id <= sent /\ t[i].id \in heap
    BY <1>3, <1>4, <1>5
  <2>2. \A i, j \in 1 .. Len(t) : i # j => t[i].id # t[j].id
    BY <1>3, <1>4, <1>5
  <2> QED BY <1>1, <1>2, <2>1, <2>2 DEF QueueInv
<1>8. LoginInv'
  BY <1>1 DEF IInv, LoginInv, database
<1>9. OrderInv'
  <2>1. SUFFICES ASSUME polite, ~strayed PROVE OrderInv'
    BY <1>1 DEF OrderInv, database
  <2>2. /\ lastDone <= sent /\ lastDone < packet.id
        /\ \A i \in 1 .. Len(q) : lastDone < q[i].id /\ q[i].id < packet.id
        /\ \A i, j \in 1 .. Len(q) : i < j => q[i].id < q[j].id
    BY <1>1, <1>2, <2>1 DEF IInv, OrderInv, SortedInv
  <2>3. \A i \in 1 .. Len(t) : lastDone < t[i].id
    BY <1>4, <1>5, <2>2
  <2>4. ASSUME NEW i \in 1 .. Len(t), NEW j \in 1 .. Len(t), i < j
        PROVE  t[i].id < t[j].id
    <3>1. i \in 1 .. Len(q)
      BY <1>4, <2>4
    <3> QED BY <1>4, <1>5, <2>2, <2>4, <3>1
  <2>5. SortedInv'
    BY <1>1, <1>2, <2>2, <2>3, <2>4 DEF SortedInv
  <2>6. PICK s : s = session
    OBVIOUS
  <2>7. PoliteInv(s, q) /\ GraceInv(s, q) /\ ComingInv(s, q, packet)
    BY <1>1, <1>2, <1>3, <2>1, <2>6 DEF IInv, OrderInv
  <2>8. PoliteInv(s, t) /\ GraceInv(s, t)
    <3>1. PoliteInv(s, Append(q, packet)) /\ GraceInv(s, Append(q, packet))
      BY <1>3, <2>7, AppendKeepsOrder
    <3> QED BY <1>2, <3>1
  <2> QED BY <1>1, <1>2, <2>5, <2>6, <2>8 DEF OrderInv
<1> QED BY <1>6, <1>7, <1>8, <1>9 DEF IInv

LEMMA CloseSocketStep ==
  ASSUME IInv, CloseSocket
  PROVE  IInv'
<1>1. /\ adding = None /\ session # None
      /\ session' = [session EXCEPT !.socket = "closed"]
      /\ UNCHANGED <<incarnation, recvQueue, client, heap, phase, deletePacket, lastDone,
                     database, crashed>>
  BY DEF CloseSocket
<1>2. /\ session \in Session /\ phase \in {"sessions", "map", "results"}
      /\ deletePacket \in BOOLEAN /\ crashed \in BOOLEAN
  BY <1>1 DEF IInv, TypeOK
<1>3. PICK s, r : s = session /\ r = [s EXCEPT !.socket = "closed"]
  OBVIOUS
<1>4. s \in Session /\ r \in Session /\ Calm(s, r)
  BY <1>2, <1>3, SessionFields
<1>5. session' \in Session /\ Calm(session, session')
  BY <1>1, <1>3, <1>4
<1> QED BY <1>1, <1>2, <1>5, CalmKeepsIInv

\* The head of the queue is gone.
LEMMA TailOfQueue ==
  ASSUME IInv, recvQueue # << >>, NEW h, h = recvQueue[1].id,
         heap \ {h} \subseteq heap', heap' \subseteq heap, adding = None, adding' = None,
         recvQueue' = Tail(recvQueue), sent' = sent
  PROVE  /\ recvQueue' \in Seq(Packet) /\ heap' \subseteq 1 .. MaxPackets
         /\ h \in 1 .. MaxPackets
         /\ QueueInv'
         /\ SortedInv => (lastDone' = h => SortedInv') /\ lastDone < h
<1>1. PICK q, t : q = recvQueue /\ t = Tail(recvQueue)
  OBVIOUS
<1>2. /\ q \in Seq(Packet) /\ heap \subseteq 1 .. MaxPackets /\ sent \in Nat
      /\ \A i \in 1 .. Len(q) : q[i].id <= sent /\ q[i].id \in heap
      /\ \A i, j \in 1 .. Len(q) : i # j => q[i].id # q[j].id
  BY <1>1, PacketConstants DEF IInv, TypeOK, QueueInv
<1>3. /\ Len(q) \in Nat /\ Len(q) >= 1 /\ t \in Seq(Packet) /\ Len(t) = Len(q) - 1
      /\ \A i \in 1 .. Len(t) : t[i] = q[i + 1] /\ i + 1 \in 1 .. Len(q)
      /\ 1 \in 1 .. Len(q)
      /\ \A i \in 1 .. Len(q) : q[i].id \in Int
  BY <1>1, <1>2, QueueProps
<1>4. \A i \in 1 .. Len(t) : i \in Nat /\ i + 1 # 1 /\ 1 < i + 1
  OBVIOUS
<1>5. \A i \in 1 .. Len(t) : t[i].id <= sent /\ t[i].id \in heap'
  <2>1. ASSUME NEW i \in 1 .. Len(t) PROVE t[i].id <= sent /\ t[i].id \in heap /\ t[i].id # h
    BY <1>1, <1>2, <1>3, <1>4
  <2> QED BY <2>1
<1>6. ASSUME NEW i \in 1 .. Len(t), NEW j \in 1 .. Len(t), i # j
      PROVE  t[i].id # t[j].id
  <2>1. i + 1 # j + 1
    BY <1>6
  <2>2. q[i + 1].id # q[j + 1].id
    BY <1>2, <1>3, <2>1
  <2> QED BY <1>3, <2>2
<1>7. QueueInv'
  BY <1>1, <1>5, <1>6 DEF QueueInv
<1>8. ASSUME SortedInv PROVE (lastDone' = h => SortedInv') /\ lastDone < h
  <2>1. /\ \A i \in 1 .. Len(q) : lastDone < q[i].id
        /\ \A i, j \in 1 .. Len(q) : i < j => q[i].id < q[j].id
    BY <1>1, <1>8 DEF SortedInv
  <2>2. h <= sent /\ lastDone < h
    BY <1>1, <1>2, <1>3, <2>1
  <2>3. \A i \in 1 .. Len(t) : h < t[i].id
    BY <1>1, <1>3, <1>4, <2>1
  <2>4. ASSUME NEW i \in 1 .. Len(t), NEW j \in 1 .. Len(t), i < j
        PROVE  t[i].id < t[j].id
    <3>1. i + 1 < j + 1
      BY <2>4
    <3> QED BY <1>3, <2>1, <3>1
  <2> QED BY <1>1, <2>2, <2>3, <2>4 DEF SortedInv
<1>9. h \in heap
  BY <1>1, <1>2, <1>3
<1> QED BY <1>1, <1>2, <1>3, <1>7, <1>8, <1>9

LEMMA HandlePacketStep ==
  ASSUME IInv, HandlePacket
  PROVE  /\ IInv'
         /\ polite /\ ~strayed => lastDone' > lastDone
<1>1. PICK packet : packet = Head(recvQueue)
  OBVIOUS
<1>2. /\ ~crashed /\ session # None /\ session.socket = "open" /\ adding = None
      /\ recvQueue # << >>
      /\ IF MayExecute(packet.kind)
         THEN ExecuteOpcode(packet.kind, Enters(packet.kind))
         ELSE Ignore
      /\ recvQueue' = Tail(recvQueue)
      /\ heap' = IF deletePacket THEN heap \ {packet.id} ELSE heap
      /\ lastDone' = packet.id
      /\ UNCHANGED <<incarnation, client, phase, deletePacket, ready, strayed>>
  BY <1>1 DEF HandlePacket, Updating, TakesPacket
<1>3. /\ session \in Session /\ recvQueue \in Seq(Packet) /\ crashed \in BOOLEAN
      /\ pending \in Seq(1 .. MaxSessions) /\ incarnation \in 0 .. MaxSessions
  BY <1>2 DEF IInv, TypeOK
<1>4. packet = recvQueue[1] /\ packet \in Packet /\ packet.kind \in Kind
  <2>1. /\ Head(recvQueue) = recvQueue[1] /\ 1 \in 1 .. Len(recvQueue)
        /\ recvQueue[1] \in Packet /\ recvQueue[1].kind \in Kind
    BY <1>2, <1>3, QueueProps
  <2> QED BY <1>1, <2>1
<1>5. /\ session' \in Session /\ crashed' \in BOOLEAN
      /\ Effect(packet.kind, session, session')
      /\ pending' = IF session'.loading /\ ~session.loading
                    THEN Append(pending, incarnation) ELSE pending
  <2>1. CASE MayExecute(packet.kind)
    <3>1. PICK k \in Kind : k = packet.kind
      BY <1>4
    <3>2. MayExecute(k) /\ ExecuteOpcode(k, Enters(k))
      BY <1>2, <2>1, <3>1
    <3>3. /\ session' \in Session /\ crashed' \in BOOLEAN \cup {crashed}
          /\ Effect(k, session, session')
          /\ pending' = IF session'.loading /\ ~session.loading
                        THEN Append(pending, incarnation) ELSE pending
      BY <1>3, <3>2, ExecuteEffect
    <3> QED BY <1>3, <3>1, <3>3
  <2>2. CASE ~MayExecute(packet.kind)
    BY <1>2, <1>3, <2>2 DEF Ignore, Effect, Calm
  <2> QED BY <2>1, <2>2
<1>6. /\ recvQueue' \in Seq(Packet) /\ heap' \subseteq 1 .. MaxPackets
      /\ lastDone' \in 1 .. MaxPackets
      /\ QueueInv'
      /\ SortedInv => SortedInv' /\ lastDone < lastDone'
  <2>1. /\ heap \ {packet.id} \subseteq heap' /\ heap' \subseteq heap
        /\ adding' = None /\ sent' = sent
    BY <1>2 DEF client
  <2>2. PICK h : h = recvQueue[1].id
    OBVIOUS
  <2>3. h = packet.id
    BY <1>4, <2>2
  <2> QED BY <1>2, <2>1, <2>2, <2>3, TailOfQueue
<1>7. pending' \in Seq(1 .. MaxSessions) /\ UpTo(pending', incarnation)
  <2>1. incarnation \in 1 .. MaxSessions /\ UpTo(pending, incarnation) /\ incarnation <= incarnation
    BY <1>2, <1>3 DEF IInv, LoginInv
  <2>2. /\ Append(pending, incarnation) \in Seq(1 .. MaxSessions)
        /\ UpTo(Append(pending, incarnation), incarnation)
    BY <1>3, <2>1, OwnProps, AppendProperties
  <2> QED BY <1>3, <1>5, <2>1, <2>2
<1>8. TypeOK'
  <2>1. session' # None
    BY <1>5, NoneIsNothing
  <2> QED BY <1>2, <1>5, <1>6, <1>7, <2>1 DEF IInv, TypeOK, client
<1>9. LoginInv'
  <2>1. session'.logoutTime => session'.player # "none"
    BY <1>2, <1>5 DEF IInv, LoginInv, Effect, Calm
  <2>2. ASSUME ~strayed
        PROVE  /\ AskedOnce(pending', ready, incarnation)
               /\ session'.loading => session'.player = "none"
               /\ ~session'.loading => Unasked(pending', ready, incarnation)
    <3>1. /\ AskedOnce(pending, ready, incarnation)
          /\ session.loading => session.player = "none"
          /\ ~session.loading => Unasked(pending, ready, incarnation)
      BY <1>2, <2>2 DEF IInv, LoginInv
    <3>2. session'.loading => session'.player = "none"
      BY <1>5, <3>1 DEF Effect, Calm
    <3>3. CASE session'.loading /\ ~session.loading
      <4>1. AskedOnce(Append(pending, incarnation), ready, incarnation)
        BY <1>3, <3>1, <3>3, AskingIsOnce
      <4> QED BY <1>5, <3>2, <3>3, <4>1
    <3>4. CASE ~(session'.loading /\ ~session.loading)
      <4>1. session'.loading <=> session.loading
        BY <1>5, <3>4 DEF Effect, Calm
      <4> QED BY <1>5, <3>1, <3>2, <3>4, <4>1
    <3> QED BY <3>3, <3>4
  <2> QED BY <1>2, <1>7, <2>1, <2>2 DEF IInv, LoginInv
<1>10. ASSUME polite, ~strayed PROVE OrderInv' /\ lastDone' > lastDone
  <2>1. SortedInv /\ PoliteInv(session, recvQueue) /\ GraceInv(session, recvQueue)
    BY <1>2, <1>10 DEF IInv, OrderInv
  <2>2. PICK s, r, q : s = session /\ r = session' /\ q = recvQueue
    OBVIOUS
  <2>3. PoliteInv(r, Tail(q)) /\ GraceInv(r, Tail(q))
    <3>1. /\ q \in Seq(Packet) /\ q # << >> /\ Effect(q[1].kind, s, r)
          /\ PoliteInv(s, q) /\ GraceInv(s, q)
      BY <1>2, <1>3, <1>4, <1>5, <2>1, <2>2
    <3> QED BY <3>1, HandlingKeepsOrder
  <2>4. lastDone \in Int /\ lastDone' \in Int /\ lastDone < lastDone' /\ SortedInv'
    BY <1>6, <2>1 DEF IInv, TypeOK
  <2> QED BY <1>2, <2>2, <2>3, <2>4 DEF OrderInv, client
<1>11. OrderInv'
  BY <1>2, <1>10 DEF OrderInv, client
<1> QED BY <1>6, <1>8, <1>9, <1>10, <1>11 DEF IInv

\* The packet a polite client sent for a player was taken while he was there, or just gone.
LEMMA RequeueStep ==
  ASSUME IInv, Requeue
  PROVE  IInv'
<1>1. PICK packet : packet = Head(recvQueue)
  OBVIOUS
<1>2. /\ session # None /\ adding = None /\ recvQueue # << >>
      /\ NotInWorldYet(packet.kind) /\ ~session.recentlyLogout
      /\ deletePacket' = FALSE
      /\ recvQueue' = Append(Tail(recvQueue), packet)
      /\ UNCHANGED <<session, incarnation, client, heap, phase, lastDone, database, crashed>>
  BY <1>1 DEF Requeue, Updating, TakesPacket
<1>3. PICK q, t, u : q = recvQueue /\ t = Tail(recvQueue) /\ u = Append(t, packet)
  OBVIOUS
<1>4. /\ q \in Seq(Packet) /\ q # << >>
      /\ \A i \in 1 .. Len(q) : q[i].id <= sent /\ q[i].id \in heap
      /\ \A i, j \in 1 .. Len(q) : i # j => q[i].id # q[j].id
  BY <1>2, <1>3 DEF IInv, TypeOK, QueueInv
<1>5. /\ Len(q) \in Nat /\ Len(q) >= 1 /\ t \in Seq(Packet) /\ Len(t) = Len(q) - 1
      /\ \A i \in 1 .. Len(t) : t[i] = q[i + 1] /\ i + 1 \in 1 .. Len(q)
      /\ 1 \in 1 .. Len(q) /\ packet = q[1] /\ packet \in Packet
  BY <1>1, <1>3, <1>4, QueueProps
<1>6. /\ Len(t) \in Nat /\ u \in Seq(Packet) /\ Len(u) = Len(t) + 1
      /\ \A i \in 1 .. Len(t) : u[i] = t[i]
      /\ u[Len(t) + 1] = packet
  BY <1>3, <1>5, QueueProps, AppendProperties
<1>7. \A i \in 1 .. Len(u) : i \in 1 .. Len(t) \/ i = Len(t) + 1
  BY <1>6
<1>8. \A i \in 1 .. Len(t) : i + 1 # 1 /\ t[i].id # packet.id
  <2>1. \A i \in 1 .. Len(t) : i + 1 # 1
    OBVIOUS
  <2> QED BY <1>4, <1>5, <2>1
<1>9. ASSUME NEW i \in 1 .. Len(t), NEW j \in 1 .. Len(t), i # j
      PROVE  t[i].id # t[j].id
  <2>1. i + 1 # j + 1
    BY <1>9
  <2>2. q[i + 1].id # q[j + 1].id
    BY <1>4, <1>5, <2>1
  <2> QED BY <1>5, <2>2
<1>10. \A i \in 1 .. Len(u) : u[i].id <= sent /\ u[i].id \in heap
  <2>1. \A i \in 1 .. Len(t) : t[i].id <= sent /\ t[i].id \in heap
    BY <1>4, <1>5
  <2>2. packet.id <= sent /\ packet.id \in heap
    BY <1>4, <1>5
  <2> QED BY <1>6, <1>7, <2>1, <2>2
<1>11. \A i, j \in 1 .. Len(u) : i # j => u[i].id # u[j].id
  BY <1>6, <1>7, <1>8, <1>9
<1>12. TypeOK'
  BY <1>2, <1>3, <1>6 DEF IInv, TypeOK, client, database
<1>13. QueueInv'
  BY <1>2, <1>3, <1>10, <1>11 DEF QueueInv, client
<1>14. LoginInv'
  BY <1>2 DEF IInv, LoginInv, database
<1>15. ASSUME polite, ~strayed PROVE FALSE
  <2>1. Waits(q[1].kind) /\ session.player = "none"
    BY <1>2, <1>5 DEF NotInWorldYet, Waits
  <2>2. PoliteInv(session, q)
    BY <1>2, <1>3, <1>15 DEF IInv, OrderInv
  <2> QED BY <1>2, <1>5, <2>1, <2>2 DEF PoliteInv
<1>16. OrderInv'
  BY <1>2, <1>15 DEF OrderInv, client, database
<1> QED BY <1>12, <1>13, <1>14, <1>16 DEF IInv

\* The session and its queue are deleted, a logout's time comes, or nothing moves.
LEMMA EndUpdateSessionsStep ==
  ASSUME IInv, EndUpdateSessions
  PROVE  IInv'
<1>1. /\ phase' = "map" /\ deletePacket' = TRUE /\ crashed \in BOOLEAN
      /\ UNCHANGED <<incarnation, client, lastDone, database, crashed>>
  BY DEF EndUpdateSessions, IInv, TypeOK
<1>2. CASE UNCHANGED <<session, recvQueue, heap>>
  BY <1>1, <1>2, UnmovedKeepsIInv DEF order
<1>3. CASE /\ session # None /\ session.socket # "open"
           /\ session' = None /\ recvQueue' = << >> /\ heap' = heap \ Ids(recvQueue)
  <2>1. adding = None
    BY <1>3 DEF IInv, QueueInv
  <2>2. << >> \in Seq(Packet) /\ \A i \in 1 .. Len(<< >>) : FALSE
    BY EmptySeq
  <2>3. TypeOK'
    BY <1>1, <1>3, <2>1, <2>2 DEF IInv, TypeOK, client, database
  <2>4. QueueInv'
    BY <1>1, <1>3, <2>1, <2>2 DEF QueueInv, client
  <2>5. LoginInv'
    BY <1>1, <1>3 DEF IInv, LoginInv, database
  <2>6. OrderInv'
    BY <1>1, <1>3, <2>1, <2>2 DEF IInv, OrderInv, SortedInv, client, database
  <2> QED BY <2>3, <2>4, <2>5, <2>6 DEF IInv
<1>4. CASE /\ session # None /\ session.logoutTime /\ ~session.loading
           /\ session' = LoggedOut(session) /\ UNCHANGED <<recvQueue, heap>>
  <2>1. PICK s, r, q, packet : s = session /\ r = session' /\ q = recvQueue /\ packet = adding
    OBVIOUS
  <2>2. /\ s \in Session /\ s.logoutTime /\ ~s.loading
    BY <1>4, <2>1 DEF IInv, TypeOK
  <2>3. /\ r \in Session /\ r.player = "none" /\ r.recentlyLogout /\ ~r.logoutTime
        /\ ~r.loading /\ r.socket = s.socket
    <3>1. r = LoggedOut(s)
      BY <1>4, <2>1
    <3> QED BY <2>2, <3>1, LoggedOutProps
  <2>4. session' # None
    BY <2>1, <2>3, NoneIsNothing
  <2>5. TypeOK'
    BY <1>1, <1>4, <2>1, <2>3, <2>4 DEF IInv, TypeOK, client, database
  <2>6. QueueInv'
    BY <1>1, <1>4, <2>1, <2>3, <2>4 DEF IInv, QueueInv, client
  <2>7. LoginInv'
    BY <1>1, <1>4, <2>1, <2>3 DEF IInv, LoginInv, client, database
  <2>8. OrderInv'
    <3>1. SUFFICES ASSUME polite, ~strayed PROVE OrderInv'
      BY <1>1 DEF OrderInv, client, database
    <3>2. /\ SortedInv /\ PoliteInv(s, q) /\ GraceInv(s, q)
          /\ packet # None => ComingInv(s, q, packet)
      BY <1>4, <2>1, <3>1 DEF IInv, OrderInv
    <3>3. SortedInv'
      BY <1>1, <1>4, <3>2 DEF SortedInv, client
    <3>4. /\ PoliteInv(r, q) /\ GraceInv(r, q)
          /\ packet # None => ComingInv(r, q, packet)
      BY <2>2, <2>3, <3>2 DEF PoliteInv, GraceInv, ComingInv
    <3> QED BY <1>1, <1>4, <2>1, <3>3, <3>4 DEF OrderInv, client
  <2> QED BY <2>5, <2>6, <2>7, <2>8 DEF IInv
<1> QED BY <1>2, <1>3, <1>4 DEF EndUpdateSessions

LEMMA EndMapUpdateStep ==
  ASSUME IInv, EndMapUpdate
  PROVE  IInv'
<1>1. /\ ~crashed /\ phase = "map" /\ phase' = "results" /\ deletePacket' = TRUE
      /\ crashed \in BOOLEAN
      /\ session' \in IF ~Updating THEN {session}
                      ELSE {[SocketReset(session) EXCEPT !.player = p] :
                               p \in {"world", "transfer"}}
      /\ UNCHANGED <<incarnation, recvQueue, client, heap, lastDone, database, crashed>>
  BY DEF EndMapUpdate, IInv, TypeOK
<1>2. CASE ~Updating
  BY <1>1, <1>2, UnmovedKeepsIInv DEF order
<1>3. CASE Updating
  <2>1. session # None /\ session.player = "world" /\ session \in Session
    BY <1>1, <1>3 DEF Updating, IInv, TypeOK
  <2>2. PICK p \in {"world", "transfer"} : session' = [SocketReset(session) EXCEPT !.player = p]
    BY <1>1, <1>3
  <2>3. PICK s : s = SocketReset(session)
    OBVIOUS
  <2>4. s \in Session /\ Calm(session, s) /\ (session.socket = "open" => s.socket = "open")
    BY <2>1, <2>3, SessionFields DEF SocketReset, Calm
  <2>5. PICK r : r = [s EXCEPT !.player = p]
    OBVIOUS
  <2>6. /\ r \in Session /\ r.player = p
        /\ r.loading = s.loading /\ r.recentlyLogout = s.recentlyLogout
        /\ r.logoutTime = s.logoutTime /\ r.socket = s.socket
    BY <2>4, <2>5 DEF Session
  <2>7. r \in Session /\ Calm(session, r) /\ (session.socket = "open" => r.socket = "open")
    BY <2>1, <2>4, <2>6 DEF Calm
  <2>8. /\ session' \in Session /\ Calm(session, session')
        /\ adding # None => session'.socket = "open"
    BY <2>2, <2>3, <2>5, <2>7 DEF IInv, QueueInv
  <2> QED BY <1>1, <2>1, <2>8, CalmKeepsIInv
<1> QED BY <1>2, <1>3

LEMMA LoginCallbackStep ==
  ASSUME IInv, LoginCallback
  PROVE  IInv'
<1>1. /\ ready # << >> /\ ready' = Tail(ready)
      /\ strayed' = (strayed \/ (session # None /\ Head(ready) # incarnation))
      /\ UNCHANGED <<incarnation, recvQueue, client, heap, phase, deletePacket, lastDone,
                     pending, crashed>>
  BY DEF LoginCallback, FindSession
<1>2. /\ ready \in Seq(1 .. MaxSessions) /\ ready' \in Seq(1 .. MaxSessions)
      /\ UpTo(ready', incarnation)
  BY <1>1, OwnProps DEF IInv, TypeOK, LoginInv
<1>3. strayed' \in BOOLEAN
  BY <1>1 DEF IInv, TypeOK
<1>4. ASSUME ~strayed'
      PROVE  /\ ~strayed /\ (session # None => Head(ready) = incarnation)
             /\ AskedOnce(pending, ready', incarnation)
             /\ session # None => /\ Unasked(pending, ready', incarnation)
                                  /\ session.loading /\ session.player = "none"
  <2>1. ~strayed /\ (session # None => Head(ready) = incarnation)
    BY <1>1, <1>4
  <2>2. /\ AskedOnce(pending, ready, incarnation)
        /\ session # None =>
              /\ session.loading => session.player = "none"
              /\ ~session.loading => Unasked(pending, ready, incarnation)
    BY <2>1 DEF IInv, LoginInv
  <2>3. /\ AskedOnce(pending, Tail(ready), incarnation)
        /\ Head(ready) = incarnation => /\ ~Unasked(pending, ready, incarnation)
                                        /\ Unasked(pending, Tail(ready), incarnation)
    BY <1>1, <1>2, <2>2, ResultKeepsAskedOnce
  <2>4. IInv => session \in Session \cup {None}
    BY DEF IInv, TypeOK
  <2>5. session # None => session.loading \in BOOLEAN
    BY <2>4 DEF Session
  <2> QED BY <1>1, <2>1, <2>2, <2>3, <2>5
<1>5. CASE session = None
  <2>1. session' = None
    BY <1>1, <1>5 DEF LoginCallback, FindSession
  <2>2. TypeOK'
    BY <1>1, <1>2, <1>3, <1>5, <2>1 DEF IInv, TypeOK, client
  <2>3. QueueInv'
    BY <1>1, <1>5, <2>1 DEF IInv, QueueInv, client
  <2>4. LoginInv'
    BY <1>1, <1>2, <1>4, <2>1 DEF IInv, LoginInv
  <2>5. OrderInv'
    BY <1>1, <1>4, <2>1 DEF IInv, OrderInv, SortedInv, client
  <2> QED BY <2>2, <2>3, <2>4, <2>5 DEF IInv
<1>6. CASE session # None
  <2>1. PICK s, r, q, packet : s = session /\ r = session' /\ q = recvQueue /\ packet = adding
    OBVIOUS
  <2>2. s \in Session /\ s # None
    BY <1>6, <2>1 DEF IInv, TypeOK
  <2>3. \/ \E p \in {"world", "transfer"} : r = [s EXCEPT !.player = p, !.loading = FALSE]
        \/ /\ adding = None
           /\ r = [s EXCEPT !.loading = FALSE, !.socket = IF @ = "open" THEN "closed" ELSE @]
    BY <1>6, <2>1 DEF LoginCallback, FindSession
  <2>4. /\ r \in Session /\ ~r.loading /\ r.logoutTime = s.logoutTime
        /\ r.recentlyLogout = s.recentlyLogout
        /\ r.player # "none" \/ (r.player = s.player /\ adding = None)
        /\ r.socket = s.socket \/ adding = None
    <3>1. ASSUME NEW p \in {"world", "transfer"}, r = [s EXCEPT !.player = p, !.loading = FALSE]
          PROVE  /\ r \in Session /\ ~r.loading /\ r.logoutTime = s.logoutTime
                 /\ r.recentlyLogout = s.recentlyLogout
                 /\ r.player # "none" /\ r.socket = s.socket
      BY <2>2, <3>1 DEF Session
    <3>2. ASSUME r = [s EXCEPT !.loading = FALSE,
                               !.socket = IF @ = "open" THEN "closed" ELSE @]
          PROVE  /\ r \in Session /\ ~r.loading /\ r.logoutTime = s.logoutTime
                 /\ r.recentlyLogout = s.recentlyLogout
                 /\ r.player = s.player
      BY <2>2, <3>2 DEF Session
    <3> QED BY <2>3, <3>1, <3>2
  <2>5. r # None
    BY <2>4, NoneIsNothing
  <2>6. TypeOK'
    BY <1>1, <1>2, <1>3, <2>1, <2>4, <2>5 DEF IInv, TypeOK, client
  <2>7. QueueInv'
    BY <1>1, <2>1, <2>4, <2>5 DEF IInv, QueueInv, client
  <2>8. LoginInv'
    <3>1. s.logoutTime => s.player # "none"
      BY <1>6, <2>1 DEF IInv, LoginInv
    <3>2. r.logoutTime => r.player # "none"
      BY <2>4, <3>1
    <3> QED BY <1>1, <1>2, <1>4, <1>6, <2>1, <2>4, <3>2 DEF IInv, LoginInv
  <2>9. OrderInv'
    <3>1. SUFFICES ASSUME polite, ~strayed' PROVE OrderInv'
      BY <1>1 DEF OrderInv, client
    <3>2. /\ SortedInv /\ PoliteInv(s, q) /\ GraceInv(s, q)
          /\ packet # None => ComingInv(s, q, packet)
          /\ s.loading /\ s.player = "none"
          /\ s.logoutTime => s.player # "none"
      BY <1>4, <1>6, <2>1, <3>1 DEF IInv, OrderInv, LoginInv
    <3>3. SortedInv'
      BY <1>1, <3>2 DEF SortedInv, client
    <3>4. /\ \A i \in 1 .. Len(q) : ~Waits(q[i].kind)
          /\ packet # None => ~Waits(packet.kind)
          /\ ~r.logoutTime
      BY <2>4, <3>2 DEF PoliteInv, ComingInv
    <3>5. /\ PoliteInv(r, q) /\ GraceInv(r, q)
          /\ packet # None => ComingInv(r, q, packet)
      BY <3>4 DEF PoliteInv, GraceInv, ComingInv
    <3> QED BY <1>1, <2>1, <3>3, <3>5 DEF OrderInv, client
  <2> QED BY <2>6, <2>7, <2>8, <2>9 DEF IInv
<1> QED BY <1>5, <1>6

LEMMA LeaveQueueStep ==
  ASSUME IInv, LeaveQueue
  PROVE  IInv'
<1>1. /\ session # None /\ session' = [session EXCEPT !.inQueue = FALSE]
      /\ UNCHANGED <<incarnation, recvQueue, client, heap, phase, deletePacket, lastDone,
                     database, crashed>>
  BY DEF LeaveQueue
<1>2. /\ session \in Session /\ phase \in {"sessions", "map", "results"}
      /\ deletePacket \in BOOLEAN /\ crashed \in BOOLEAN
  BY <1>1 DEF IInv, TypeOK
<1>3. PICK s, r : s = session /\ r = [s EXCEPT !.inQueue = FALSE]
  OBVIOUS
<1>4. s \in Session /\ r \in Session /\ Calm(s, r) /\ r.socket = s.socket
  BY <1>2, <1>3 DEF Session, Calm
<1>5. /\ session' \in Session /\ Calm(session, session')
      /\ adding # None => session'.socket = "open"
  BY <1>1, <1>3, <1>4 DEF IInv, QueueInv
<1> QED BY <1>1, <1>2, <1>5, CalmKeepsIInv

LEMMA EndResultsStep ==
  ASSUME IInv, EndResults
  PROVE  IInv'
<1>1. /\ UNCHANGED order /\ phase' = "sessions" /\ deletePacket' = deletePacket
      /\ crashed' = crashed
  BY DEF EndResults, order, client, database
<1> QED BY <1>1, UnmovedKeepsIInv DEF IInv, TypeOK

LEMMA AddSessionStep ==
  ASSUME IInv, AddSession
  PROVE  IInv'
<1>1. /\ adding = None /\ incarnation < MaxSessions /\ incarnation' = incarnation + 1
      /\ recvQueue' = << >> /\ heap' = heap \ Ids(recvQueue) /\ phase' = "sessions"
      /\ UNCHANGED <<client, deletePacket, lastDone, database, crashed>>
  BY DEF AddSession
<1>2. PICK queued \in BOOLEAN : session' = Fresh(queued)
  BY DEF AddSession
<1>3. /\ session' \in Session /\ session'.player = "none" /\ ~session'.loading
      /\ ~session'.logoutTime /\ session'.socket = "open"
  BY <1>2 DEF Fresh, Session
<1>4. /\ incarnation \in Nat /\ incarnation' \in 0 .. MaxSessions /\ incarnation' >= 1
      /\ pending \in Seq(1 .. MaxSessions) /\ ready \in Seq(1 .. MaxSessions)
  BY <1>1, PacketConstants DEF IInv, TypeOK
<1>5. session' # None
  BY <1>3, NoneIsNothing
<1>6. << >> \in Seq(Packet) /\ \A i \in 1 .. Len(<< >>) : FALSE
  BY EmptySeq
<1>7. TypeOK'
  BY <1>1, <1>3, <1>4, <1>5, <1>6 DEF IInv, TypeOK, client, database
<1>8. QueueInv'
  BY <1>1, <1>6 DEF QueueInv, client
<1>9. LoginInv'
  <2>1. PICK n \in Nat : n = incarnation
    BY <1>4
  <2>2. UpTo(pending, n) /\ UpTo(ready, n)
    BY <2>1 DEF IInv, LoginInv
  <2>3. /\ Unasked(pending, ready, n + 1) /\ AskedOnce(pending, ready, n + 1)
        /\ UpTo(pending, n + 1) /\ UpTo(ready, n + 1)
    BY <1>4, <2>2, NewSessionIsUnasked
  <2> QED BY <1>1, <1>3, <1>4, <2>1, <2>3 DEF LoginInv, database
<1>10. OrderInv'
  BY <1>1, <1>3, <1>6
     DEF IInv, OrderInv, SortedInv, PoliteInv, GraceInv, client, database
<1> QED BY <1>7, <1>8, <1>9, <1>10 DEF IInv

LEMMA ExecuteQueryStep ==
  ASSUME IInv, ExecuteQuery
  PROVE  IInv'
<1>1. /\ pending # << >> /\ ready' = Append(ready, Head(pending)) /\ pending' = Tail(pending)
      /\ UNCHANGED <<session, incarnation, recvQueue, client, heap, phase, deletePacket,
                     lastDone, strayed, crashed>>
  BY DEF ExecuteQuery
<1>2. PICK p, r, v, n : p = pending /\ r = ready /\ v = Head(pending) /\ n = incarnation
  OBVIOUS
<1>3. /\ p \in Seq(1 .. MaxSessions) /\ r \in Seq(1 .. MaxSessions)
      /\ UpTo(p, n) /\ UpTo(r, n)
  BY <1>2 DEF IInv, TypeOK, LoginInv
<1>4. /\ v \in 1 .. MaxSessions /\ v <= n
      /\ Tail(p) \in Seq(1 .. MaxSessions) /\ UpTo(Tail(p), n)
  BY <1>1, <1>2, <1>3, OwnProps
<1>5. Append(r, v) \in Seq(1 .. MaxSessions) /\ UpTo(Append(r, v), n)
  BY <1>3, <1>4, OwnProps, AppendProperties
<1>6. TypeOK'
  BY <1>1, <1>2, <1>4, <1>5 DEF IInv, TypeOK, client
<1>7. QueueInv'
  BY <1>1 DEF IInv, QueueInv, client
<1>8. LoginInv'
  <2>1. ASSUME ~strayed
        PROVE  /\ AskedOnce(Tail(p), Append(r, v), n)
               /\ Unasked(p, r, n) => Unasked(Tail(p), Append(r, v), n)
    <3>1. AskedOnce(p, r, n)
      BY <1>2, <2>1 DEF IInv, LoginInv
    <3> QED BY <1>1, <1>2, <1>3, <3>1, AnswerKeepsAskedOnce
  <2> QED BY <1>1, <1>2, <1>4, <1>5, <2>1 DEF IInv, LoginInv
<1>9. OrderInv'
  BY <1>1 DEF IInv, OrderInv, SortedInv, client
<1> QED BY <1>6, <1>7, <1>8, <1>9 DEF IInv

LEMMA NextIInv == IInv /\ [Next]_vars => IInv'
<1> SUFFICES ASSUME IInv, [Next]_vars PROVE IInv'
  OBVIOUS
<1>1. ASSUME NEW k \in Kind, BeginQueuePacket(k) PROVE IInv'
  BY <1>1, BeginQueuePacketStep
<1>2. CASE QueuePacket
  BY <1>2, QueuePacketStep
<1>3. CASE CloseSocket
  BY <1>3, CloseSocketStep
<1>4. CASE WorldThread
  BY <1>4, HandlePacketStep, RequeueStep, EndUpdateSessionsStep, EndMapUpdateStep,
     LoginCallbackStep, EndResultsStep
     DEF WorldThread
<1>5. CASE LeaveQueue
  BY <1>5, LeaveQueueStep
<1>6. CASE AddSession
  BY <1>6, AddSessionStep
<1>7. CASE ExecuteQuery
  BY <1>7, ExecuteQueryStep
<1>8. CASE UNCHANGED vars
  <2>1. UNCHANGED order /\ UNCHANGED <<phase, deletePacket, crashed>>
    BY <1>8 DEF vars, order, client, database
  <2> QED BY <2>1, UnmovedKeepsIInv DEF IInv, TypeOK
<1> QED BY <1>1, <1>2, <1>3, <1>4, <1>5, <1>6, <1>7, <1>8 DEF Next

THEOREM PacketsInvariance == Spec => []IInv
<1>1. Init => IInv
  BY InitIInv
<1>2. IInv /\ [Next]_vars => IInv'
  BY NextIInv
<1> QED BY <1>1, <1>2, PTL DEF Spec

-----------------------------------------------------------------------------
(* The properties *)

\* As many ids as packets.
LEMMA DistinctIds ==
  ASSUME NEW q \in Seq(Packet), \A i, j \in 1 .. Len(q) : i # j => q[i].id # q[j].id
  PROVE  Cardinality(Ids(q)) = Len(q)
<1>1. PICK f : f = [i \in 1 .. Len(q) |-> q[i].id]
  OBVIOUS
<1>2. PICK S : S = Ids(q)
  OBVIOUS
<1>3. f \in [1 .. Len(q) -> S] /\ \A v \in S : \E i \in 1 .. Len(q) : f[i] = v
  BY <1>1, <1>2 DEF Ids
<1>4. \A i, j \in 1 .. Len(q) : f[i] = f[j] => i = j
  BY <1>1
<1>5. ExistsBijection(1 .. Len(q), S)
  <2>1. f \in Injection(1 .. Len(q), S)
    BY <1>3, <1>4 DEF Injection, IsInjective
  <2>2. f \in Surjection(1 .. Len(q), S)
    BY <1>3 DEF Surjection
  <2> QED BY <2>1, <2>2 DEF ExistsBijection, Bijection
<1> QED BY <1>2, <1>5, QueueProps, FS_CountingElements

\* No packet is used after its deletion: what waits in the queue, or holds its lock, is
\* allocated, and waits once.
THEOREM SessionPacketsSound == Spec => []QueueAlive
<1>1. IInv => QueueAlive
  <2> SUFFICES ASSUME IInv PROVE QueueAlive
    OBVIOUS
  <2>1. /\ TypeOK /\ recvQueue \in Seq(Packet)
        /\ \A i \in 1 .. Len(recvQueue) : recvQueue[i].id \in heap
        /\ \A i, j \in 1 .. Len(recvQueue) : i # j => recvQueue[i].id # recvQueue[j].id
        /\ adding # None => adding.id \in heap
    BY DEF IInv, QueueInv, TypeOK
  <2>2. Ids(recvQueue) \subseteq heap
    BY <2>1 DEF Ids
  <2>3. Cardinality(Ids(recvQueue)) = Len(recvQueue)
    BY <2>1, DistinctIds
  <2> QED BY <2>1, <2>2, <2>3 DEF QueueAlive
<1> QED BY <1>1, PacketsInvariance, PTL

\* A client that sends in-world packets only while its player is there, and whose players
\* come from its own logins, has its packets handled in the order it sent them.
THEOREM PacketsInOrder == Spec => InOrder
<1>1. IInv /\ [Next]_vars =>
         [polite /\ ~strayed /\ lastDone' # lastDone => lastDone' > lastDone]_vars
  <2> SUFFICES ASSUME IInv, [Next]_vars, polite, ~strayed, lastDone' # lastDone
               PROVE  lastDone' > lastDone
    BY DEF vars
  <2>1. HandlePacket
    BY DEF Next, WorldThread, BeginQueuePacket, QueuePacket, CloseSocket, Requeue,
           EndUpdateSessions, EndMapUpdate, LoginCallback, EndResults, LeaveQueue,
           AddSession, ExecuteQuery, vars
  <2> QED BY <2>1, HandlePacketStep
<1> QED BY <1>1, PacketsInvariance, PTL DEF Spec, InOrder

=============================================================================
