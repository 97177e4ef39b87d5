--------------------------- MODULE SessionPackets ---------------------------
(***************************************************************************)
(* The packets of one account's session: the network thread appends them   *)
(* to _recvQueue, the world thread takes them out again, some of them in   *)
(* World::UpdateSessions and some in Map::Update, and what a packet may do *)
(* depends on whether the player is loading, in the world, between two     *)
(* maps or just logged out.  Logins come back from the database as         *)
(* callbacks that find their session by the account.                       *)
(***************************************************************************)
EXTENDS Integers, Sequences, FiniteSets

CONSTANTS
    Kind,           \* kinds of packets the client sends: a subset of DOMAIN opcodeTable
    MaxPackets,     \* bound: packets sent in a behaviour
    MaxSessions,    \* bound: sessions of the account in a behaviour
    None

\* Opcodes.cpp: one representative for each way a packet is treated.
Op(s, p) == [status |-> s, processing |-> p]
opcodeTable ==
    [char_enum   |-> Op("AUTHED", "THREADUNSAFE"),
     voice       |-> Op("AUTHED", "THREADUNSAFE"),   \* CMSG_SET_ACTIVE_VOICE_CHANNEL
     login       |-> Op("AUTHED", "THREADUNSAFE"),
     heartbeat   |-> Op("LOGGEDIN", "THREADSAFE"),
     chat        |-> Op("LOGGEDIN", "THREADUNSAFE"),
     areatrigger |-> Op("LOGGEDIN", "THREADUNSAFE"),
     logout      |-> Op("LOGGEDIN", "THREADUNSAFE"),
     cancel      |-> Op("LOGGEDIN", "THREADUNSAFE"), \* CMSG_LOGOUT_CANCEL
     port_ack    |-> Op("TRANSFER", "THREADUNSAFE"),
     trade       |-> Op("LOGGEDIN_OR_RECENTLY", "THREADUNSAFE"),
     null        |-> Op("NEVER", "INPLACE")]

ASSUME PacketConstants ==
    /\ Kind \subseteq DOMAIN opcodeTable
    /\ MaxPackets \in Nat /\ MaxSessions \in Nat

VARIABLES
    session,        \* the account's WorldSession in m_sessions, or None
    incarnation,    \* how many sessions the account has had
    recvQueue,      \* _recvQueue of the session
    polite,         \* the client sends in-world packets only in the world
    adding,         \* the packet for which the network thread holds the queue's lock
    sent,           \* packets the client has sent
    heap,           \* packets that are allocated
    phase,          \* what the world thread is doing
    deletePacket,   \* the local variable of WorldSession::Update
    lastDone,       \* history: the last packet taken from the queue for good
    pending,        \* login queries in the database thread, by asking session
    ready,          \* login results waiting for UpdateResultQueue
    strayed,        \* history: a result reached a later session than the one that asked
    crashed         \* history: a handler went through the null pointer _player

vars == <<session, incarnation, recvQueue, polite, adding, sent, heap, phase,
          deletePacket, lastDone, pending, ready, strayed, crashed>>
client == <<polite, adding, sent>>
database == <<pending, ready, strayed>>

Packet == [id : 1 .. MaxPackets, kind : Kind]

Session == [player : {"none", "world", "transfer"}, loading : BOOLEAN,
            recentlyLogout : BOOLEAN, inQueue : BOOLEAN, logoutTime : BOOLEAN,
            socket : {"open", "closed", "reset"}]

\* The null pointer is no object.
ASSUME NoneIsNothing == None \notin Session /\ None \notin Packet

TypeOK ==
    /\ session \in Session \cup {None}
    /\ incarnation \in 0 .. MaxSessions
    /\ recvQueue \in Seq(Packet)
    /\ polite \in BOOLEAN
    /\ adding \in Packet \cup {None}
    /\ session = None => recvQueue = << >> /\ adding = None
    /\ sent \in 0 .. MaxPackets
    /\ heap \subseteq 1 .. MaxPackets
    /\ phase \in {"sessions", "map", "results"}
    /\ deletePacket \in BOOLEAN
    /\ lastDone \in 0 .. MaxPackets
    /\ pending \in Seq(1 .. MaxSessions) /\ ready \in Seq(1 .. MaxSessions)
    /\ strayed \in BOOLEAN /\ crashed \in BOOLEAN

Fresh(queued) == [player |-> "none", loading |-> FALSE, recentlyLogout |-> FALSE,
                  inQueue |-> queued, logoutTime |-> FALSE, socket |-> "open"]

Init ==
    /\ session = None /\ incarnation = 0
    /\ polite \in BOOLEAN
    /\ recvQueue = << >> /\ adding = None /\ sent = 0 /\ heap = {}
    /\ phase = "sessions" /\ deletePacket = TRUE /\ lastDone = 0
    /\ pending = << >> /\ ready = << >>
    /\ strayed = FALSE /\ crashed = FALSE

Ids(queue) == {queue[i].id : i \in 1 .. Len(queue)}

-----------------------------------------------------------------------------
(* The network thread and the client *)

InWorldKind(k) == opcodeTable[k].status \notin {"AUTHED", "NEVER"}

\* A polite client speaks as the server last told it: in-world packets while its
\* character is there, the others while it is not ("sent also after LOGOUT COMPLETE").
MaySend(k) == polite => \/ k = "trade"
                        \/ InWorldKind(k) <=> session.player # "none"

\* ProcessIncoming, which holds m_SessionLock, begins QueuePacket.
BeginQueuePacket(k) ==
    /\ ~crashed
    /\ session # None /\ session.socket = "open"
    /\ adding = None
    /\ sent < MaxPackets
    /\ MaySend(k)
    /\ sent' = sent + 1
    /\ adding' = [id |-> sent', kind |-> k]
    /\ heap' = heap \cup {sent'}
    /\ UNCHANGED <<session, incarnation, recvQueue, polite, phase, deletePacket, lastDone,
                   database, crashed>>

QueuePacket ==
    /\ ~crashed
    /\ adding # None
    /\ recvQueue' = Append(recvQueue, adding)
    /\ adding' = None
    /\ UNCHANGED <<session, incarnation, polite, sent, heap, phase, deletePacket, lastDone,
                   database, crashed>>

\* CloseSocket, by whichever thread: it waits for m_SessionLock.
CloseSocket ==
    /\ ~crashed
    /\ session # None /\ session.socket = "open" /\ adding = None
    /\ session' = [session EXCEPT !.socket = "closed"]
    /\ UNCHANGED <<incarnation, recvQueue, client, heap, phase, deletePacket, lastDone,
                   database, crashed>>

-----------------------------------------------------------------------------
(* The filters *)

Mutant_MapSessionFilterHelper(op) == op.processing # "THREADUNSAFE"
MapSessionFilterHelper(op) ==
    op.processing # "THREADUNSAFE" /\ session.player = "world"

Filter(packet) ==
    LET op == opcodeTable[packet.kind]
    IN \/ op.processing = "INPLACE"
       \/ phase = "map" /\ MapSessionFilterHelper(op)
       \/ phase = "sessions" /\ ~MapSessionFilterHelper(op)

\* The condition of the loop in WorldSession::Update; next() gives up when it cannot
\* have the queue's lock at once.
TakesPacket ==
    /\ session.socket = "open"
    /\ adding = None
    /\ recvQueue # << >>
    /\ Filter(Head(recvQueue))

Updating ==
    /\ ~crashed
    /\ session # None
    /\ phase = "sessions" \/ (phase = "map" /\ session.player = "world")

-----------------------------------------------------------------------------
(* One iteration of the loop in WorldSession::Update *)

\* LogoutPlayer.
LoggedOut(s) == [s EXCEPT !.player = "none", !.recentlyLogout = TRUE, !.logoutTime = FALSE]

\* What the handler of a kind of packet may make of the session s.
Handled(k, s) ==
    CASE k = "login" /\ ~s.loading /\ s.player = "none" -> {[s EXCEPT !.loading = TRUE]}
      [] k \in {"areatrigger", "port_ack"} ->
            {[s EXCEPT !.player = p] : p \in {"world", "transfer"}}
      [] k = "logout" -> {[s EXCEPT !.logoutTime = FALSE], [s EXCEPT !.logoutTime = TRUE],
                          LoggedOut(s)}
      [] k = "cancel" -> {[s EXCEPT !.logoutTime = FALSE]}
      [] OTHER -> {s}

\* ExecuteOpcode, from the state s: the handler, or the ByteBufferException it throws,
\* after which the client may be kicked.
ExecuteOpcode(k, s) ==
    \/ /\ session' \in Handled(k, s)
       /\ pending' = IF session'.loading /\ ~s.loading
                     THEN Append(pending, incarnation) ELSE pending
       /\ crashed' = (k = "cancel" /\ s.player = "none")
    \/ /\ session' \in {s, [s EXCEPT !.socket = "closed"]}
       /\ UNCHANGED <<pending, crashed>>

Ignore == UNCHANGED <<session, pending, crashed>>

Mutant_NotInWorldYet(k) ==
    /\ opcodeTable[k].status = "LOGGEDIN"
    /\ session.player # "world" /\ k # "cancel"
NotInWorldYet(k) ==
    /\ opcodeTable[k].status = "LOGGEDIN"
    /\ session.player = "none" /\ k # "cancel"

MayExecute(k) ==
    CASE opcodeTable[k].status = "LOGGEDIN" -> k = "cancel" \/ session.player = "world"
      [] opcodeTable[k].status = "LOGGEDIN_OR_RECENTLY" ->
            session.player # "none" \/ session.recentlyLogout
      [] opcodeTable[k].status = "TRANSFER" -> session.player = "transfer"
      [] opcodeTable[k].status = "AUTHED" -> ~session.inQueue
      [] opcodeTable[k].status = "NEVER" -> FALSE

\* An authenticated player's first packet after a logout ends the time of grace.
Enters(k) ==
    IF opcodeTable[k].status = "AUTHED" /\ k # "voice"
    THEN [session EXCEPT !.recentlyLogout = FALSE] ELSE session

\* The packet is executed or dropped, and deleted if deletePacket still says so.
HandlePacket ==
    /\ Updating /\ TakesPacket
    /\ LET packet == Head(recvQueue)
       IN /\ ~(NotInWorldYet(packet.kind) /\ ~session.recentlyLogout)
          /\ IF MayExecute(packet.kind)
             THEN ExecuteOpcode(packet.kind, Enters(packet.kind))
             ELSE Ignore
          /\ recvQueue' = Tail(recvQueue)
          /\ heap' = IF deletePacket THEN heap \ {packet.id} ELSE heap
          /\ lastDone' = packet.id
    /\ UNCHANGED <<incarnation, client, phase, deletePacket, ready, strayed>>

\* A packet for a player who is not in the world yet goes to the bottom of the queue.
Mutant_Requeue ==
    /\ Updating /\ TakesPacket
    /\ NotInWorldYet(Head(recvQueue).kind) /\ ~session.recentlyLogout
    /\ recvQueue' = Append(Tail(recvQueue), Head(recvQueue))
    /\ heap' = heap \ {Head(recvQueue).id}
    /\ UNCHANGED <<session, incarnation, client, phase, deletePacket, lastDone, database,
                   crashed>>
Requeue ==
    /\ Updating /\ TakesPacket
    /\ NotInWorldYet(Head(recvQueue).kind) /\ ~session.recentlyLogout
    /\ deletePacket' = FALSE
    /\ recvQueue' = Append(Tail(recvQueue), Head(recvQueue))
    /\ UNCHANGED <<session, incarnation, client, heap, phase, lastDone, database, crashed>>

-----------------------------------------------------------------------------
(* The rest of World::Update *)

SocketReset(s) == IF s.socket = "closed" THEN [s EXCEPT !.socket = "reset"] ELSE s

\* The end of Update in UpdateSessions: a session without a socket logs its player out
\* and is deleted with its packets; so is the player whose logout time has come.
EndUpdateSessions ==
    /\ ~crashed /\ phase = "sessions"
    /\ session # None => ~TakesPacket
    /\ phase' = "map"
    /\ deletePacket' = TRUE
    /\ IF session = None THEN UNCHANGED <<session, recvQueue, heap>>
       ELSE IF session.socket # "open"
       THEN /\ session' = None
            /\ recvQueue' = << >>
            /\ heap' = heap \ Ids(recvQueue)
       ELSE /\ session' \in
                 {session} \cup
                 (IF session.logoutTime /\ ~session.loading THEN {LoggedOut(session)} ELSE {})
            /\ UNCHANGED <<recvQueue, heap>>
    /\ UNCHANGED <<incarnation, client, lastDone, database, crashed>>

\* The end of Update in Map::Update, and the rest of the map's work: a spell may send
\* the player to another map.
EndMapUpdate ==
    /\ ~crashed /\ phase = "map"
    /\ Updating => ~TakesPacket
    /\ phase' = "results"
    /\ deletePacket' = TRUE
    /\ session' \in IF ~Updating THEN {session}
                    ELSE {[SocketReset(session) EXCEPT !.player = p] :
                             p \in {"world", "transfer"}}
    /\ UNCHANGED <<incarnation, recvQueue, client, heap, lastDone, database, crashed>>

\* World::FindSession on the account of the holder.
FindSession == session # None

\* HandlePlayerLoginCallback and HandlePlayerLogin: the player is loaded, or the client
\* is kicked.  The session it finds may be a later one of the account, which did not ask.
LoginCallback ==
    /\ ~crashed /\ phase = "results"
    /\ ready # << >>
    /\ ready' = Tail(ready)
    /\ strayed' = (strayed \/ (FindSession /\ Head(ready) # incarnation))
    /\ IF FindSession
       THEN \/ \E p \in {"world", "transfer"} :
                  session' = [session EXCEPT !.player = p, !.loading = FALSE]
            \/ /\ adding = None
               /\ session' = [session EXCEPT !.loading = FALSE,
                                !.socket = IF @ = "open" THEN "closed" ELSE @]
       ELSE UNCHANGED session
    /\ UNCHANGED <<incarnation, recvQueue, client, heap, phase, deletePacket, lastDone,
                   pending, crashed>>

\* Another session leaves: this one may pass the queue.
LeaveQueue ==
    /\ ~crashed /\ phase = "results"
    /\ session # None /\ session.inQueue
    /\ session' = [session EXCEPT !.inQueue = FALSE]
    /\ UNCHANGED <<incarnation, recvQueue, client, heap, phase, deletePacket, lastDone,
                   database, crashed>>

EndResults ==
    /\ ~crashed /\ phase = "results"
    /\ ready = << >>
    /\ phase' = "sessions"
    /\ UNCHANGED <<session, incarnation, recvQueue, client, heap, deletePacket, lastDone,
                   database, crashed>>

\* AddSession_: a new session of the account, in the place of an old one whose player
\* is not being loaded; the old one's client is kicked and its packets are deleted.
AddSession ==
    /\ ~crashed /\ phase = "results" /\ ready = << >>
    /\ adding = None
    /\ incarnation < MaxSessions
    /\ session # None => ~session.loading
    /\ incarnation' = incarnation + 1
    /\ \E queued \in BOOLEAN : session' = Fresh(queued)
    /\ recvQueue' = << >>
    /\ heap' = heap \ Ids(recvQueue)
    /\ phase' = "sessions"
    /\ UNCHANGED <<client, deletePacket, lastDone, database, crashed>>

\* The database thread: queries in order.
ExecuteQuery ==
    /\ ~crashed
    /\ pending # << >>
    /\ ready' = Append(ready, Head(pending))
    /\ pending' = Tail(pending)
    /\ UNCHANGED <<session, incarnation, recvQueue, client, heap, phase, deletePacket,
                   lastDone, strayed, crashed>>

-----------------------------------------------------------------------------

WorldThread == HandlePacket \/ Requeue \/ EndUpdateSessions \/ EndMapUpdate
                 \/ LoginCallback \/ EndResults

Next ==
    \/ \E k \in Kind : BeginQueuePacket(k)
    \/ QueuePacket
    \/ CloseSocket
    \/ WorldThread
    \/ LeaveQueue
    \/ AddSession
    \/ ExecuteQuery

\* The three threads run.
Spec == Init /\ [][Next]_vars
             /\ WF_vars(WorldThread) /\ WF_vars(QueuePacket) /\ WF_vars(ExecuteQuery)

-----------------------------------------------------------------------------
(* Properties *)

\* No packet in the queue, or about to be in it, has been deleted: re-enqueueing keeps
\* the packet alive through the `delete` at the end of the iteration.
QueueAlive ==
    /\ TypeOK
    /\ Ids(recvQueue) \subseteq heap
    /\ Cardinality(Ids(recvQueue)) = Len(recvQueue)
    /\ adding # None => adding.id \in heap

\* Packets are executed in the order in which they came, although two updates with
\* different filters take turns: nothing overtakes a packet that waits for the other,
\* unless the client sends an in-world packet before its player is there, or gets a
\* player that an earlier session asked for.
InOrder == [][polite /\ ~strayed /\ lastDone' # lastDone => lastDone' > lastDone]_vars

\* Every packet leaves the queue of a client that knows when its player is in the world.
PacketLeaves ==
    \A i \in 1 .. MaxPackets :
        (polite /\ i \in Ids(recvQueue)) ~> (i \notin Ids(recvQueue) \/ crashed \/ strayed)

=============================================================================
