---------------------------- MODULE SocketReceive ----------------------------
(***************************************************************************)
(* The receiving side of a WorldSocket: asynchronous reads into            *)
(* read_buffer_, and WorldSocket::ProcessIncomingData, which cuts the      *)
(* bytes into packets through m_Header and m_RecvPct, wherever the reads   *)
(* break them.  A byte is its position in what the client sent, so that a  *)
(* packet handled shows which bytes it was made from.                      *)
(***************************************************************************)
EXTENDS Socket, FiniteSets

CONSTANTS
    HeaderSize,      \* sizeof(ClientPktHeader)
    PayloadSize,     \* sizes of payloads, with 0
    ReadBufferSize,  \* protocol::READ_BUFFER_SIZE
    MaxPackets       \* bound: packets the client sends

ASSUME ReceiveConstants ==
    /\ HeaderSize \in Nat \ {0}
    /\ PayloadSize \subseteq Nat
    /\ ReadBufferSize \in Nat \ {0}
    /\ MaxPackets \in Nat
    /\ None \notin Nat

VARIABLES
    stream,         \* the client's packets, chosen at the start
    arrived,        \* bytes of them read so far
    read_buffer_,   \* Socket::read_buffer_
    m_Header,       \* collects a header
    m_RecvPct,      \* collects a payload, in the memory of m_RecvWPct
    m_RecvWPct,     \* the packet being received, or None
    handled,        \* packets passed to ProcessIncoming, each with its payload
    pc              \* "reading", "processing" or "closing"

receiveVars == <<stream, arrived, read_buffer_, m_Header, m_RecvPct, m_RecvWPct, handled,
                 pc, closed_>>

\* IsValid() holds for the header of all but a malformed packet; ProcessIncoming returns -1
\* for a refused one.
Packet == [size : PayloadSize, fate : {"good", "malformed", "refused"}]

\* Where the packets lie in the stream.
First(s) ==
    LET first[k \in Nat] ==
            IF k <= 1 THEN 1 ELSE first[k - 1] + HeaderSize + s[k - 1].size
    IN first
Total(s) == First(s)[Len(s) + 1] - 1
Bytes(from, n) == [i \in 1 .. n |-> from + i - 1]
HeaderBytes(k) == Bytes(First(stream)[k], HeaderSize)
PayloadBytes(k) == Bytes(First(stream)[k] + HeaderSize, stream[k].size)

Unassigned == Allocated(0)

ReceiveInit ==
    /\ stream \in UNION {[1 .. n -> Packet] : n \in 1 .. MaxPackets}
    /\ arrived = 0
    /\ read_buffer_ = Allocated(ReadBufferSize)
    /\ m_Header = Allocated(HeaderSize)
    /\ m_RecvPct = Unassigned
    /\ m_RecvWPct = None
    /\ handled = << >>
    /\ pc = "reading"
    /\ closed_ = FALSE

ReceiveTypeOK ==
    /\ arrived \in 0 .. Total(stream)
    /\ IsBuffer(read_buffer_, 0 .. Total(stream))
    /\ IsBuffer(m_Header, 0 .. Total(stream))
    /\ IsBuffer(m_RecvPct, 0 .. Total(stream))
    /\ m_RecvWPct \in DOMAIN stream \cup {None}
    /\ handled \in Seq((DOMAIN stream) \X Seq(1 .. Total(stream)))
    /\ pc \in {"reading", "processing", "closing"}
    /\ closed_ \in BOOLEAN

-----------------------------------------------------------------------------
(* Reads *)

\* OnReadComplete with n bytes.
ReadComplete ==
    /\ pc = "reading"
    /\ \E n \in 1 .. space(read_buffer_) :
          /\ arrived + n <= Total(stream)
          /\ read_buffer_' = Commit(Fill(read_buffer_, Bytes(arrived + 1, n)), n)
          /\ arrived' = arrived + n
    /\ pc' = "processing"
    /\ UNCHANGED <<stream, m_Header, m_RecvPct, m_RecvWPct, handled, closed_>>

\* OnReadComplete with an error, when the client goes or the socket was closed.
ReadError ==
    /\ pc = "reading"
    /\ pc' = "closing"
    /\ closed_' = TRUE
    /\ UNCHANGED <<stream, arrived, read_buffer_, m_Header, m_RecvPct, m_RecvWPct, handled>>

\* ProcessIncomingData has used up the buffer: StartAsyncRead.
Mutant_StartAsyncRead ==
    /\ pc = "processing"
    /\ length(read_buffer_) = 0
    /\ pc' = IF closed_ THEN "closing" ELSE "reading"
    /\ UNCHANGED <<stream, arrived, read_buffer_, m_Header, m_RecvPct, m_RecvWPct, handled,
                   closed_>>
StartAsyncRead ==
    /\ pc = "processing"
    /\ length(read_buffer_) = 0
    /\ IF closed_
       THEN pc' = "closing" /\ UNCHANGED read_buffer_
       ELSE pc' = "reading" /\ read_buffer_' = Prepare(read_buffer_)
    /\ UNCHANGED <<stream, arrived, m_Header, m_RecvPct, m_RecvWPct, handled, closed_>>

\* Another thread closes the socket.
CloseByOther ==
    /\ ~closed_
    /\ closed_' = TRUE
    /\ UNCHANGED <<stream, arrived, read_buffer_, m_Header, m_RecvPct, m_RecvWPct, handled,
                   pc>>

-----------------------------------------------------------------------------
(* One iteration of the loop in ProcessIncomingData *)

\* How much of the buffer b goes to the buffer `to`.
Share(b, to) == IF length(b) > space(to) THEN space(to) ELSE length(b)
Moved(b, to) == Write(to, ReadData(b, Share(b, to)))
Left(b, to) == Consume(b, Share(b, to))

\* The packet that a complete header announces; bytes that are no header of the client
\* make no valid one.
Announced(h) ==
    {k \in DOMAIN stream : stream[k].fate # "malformed" /\ HeaderBytes(k) = ReadData(h, HeaderSize)}

Mutant_AssignBuffer(b, n) == Allocated(n + 1)
\* AssignBuffer to memory of n bytes: the positions stay.
AssignBuffer(b, n) == [Allocated(n) EXCEPT !.rd = b.rd, !.wr = b.wr]

\* return true: the header h is not complete yet.
PartOfHeader(h, left) ==
    /\ space(h) > 0
    /\ m_Header' = h
    /\ read_buffer_' = left
    /\ UNCHANGED <<stream, arrived, m_RecvPct, m_RecvWPct, handled, pc, closed_>>

\* return false: handle_input_header refuses it.
Malformed(h, left) ==
    /\ Announced(h) = {}
    /\ m_Header' = h
    /\ read_buffer_' = left
    /\ pc' = "closing"
    /\ closed_' = TRUE
    /\ UNCHANGED <<stream, arrived, m_RecvPct, m_RecvWPct, handled>>

\* return true: the payload p of packet k is not complete yet.
PartOfPayload(k, h, p, left) ==
    /\ space(p) > 0
    /\ m_Header' = h
    /\ m_RecvWPct' = k
    /\ m_RecvPct' = p
    /\ read_buffer_' = left
    /\ UNCHANGED <<stream, arrived, handled, pc, closed_>>

\* handle_input_payload: ProcessIncoming, which does nothing on a closed socket, and then
\* everything is ready for the next header.
Mutant_HandlePayload(k, h, p, left) ==
    /\ space(p) = 0
    /\ IF closed_ THEN UNCHANGED handled
       ELSE handled' = Append(handled, <<k, ReadData(p, p.size)>>)
    /\ m_Header' = Reset(h)
    /\ m_RecvWPct' = None
    /\ m_RecvPct' = p
    /\ read_buffer_' = left
    /\ IF closed_ \/ stream[k].fate = "refused"
       THEN pc' = "closing" /\ closed_' = TRUE
       ELSE UNCHANGED <<pc, closed_>>
    /\ UNCHANGED <<stream, arrived>>
HandlePayload(k, h, p, left) ==
    /\ space(p) = 0
    /\ IF closed_ THEN UNCHANGED handled
       ELSE handled' = Append(handled, <<k, ReadData(p, p.size)>>)
    /\ m_Header' = Reset(h)
    /\ m_RecvWPct' = None
    /\ m_RecvPct' = Unassigned
    /\ read_buffer_' = left
    /\ IF closed_ \/ stream[k].fate = "refused"
       THEN pc' = "closing" /\ closed_' = TRUE
       ELSE UNCHANGED <<pc, closed_>>
    /\ UNCHANGED <<stream, arrived>>

\* From "now check the data payload" on, with packet k, the buffer p for its payload and
\* the bytes b.
ReceivePayload(k, h, p, b) ==
    LET more == space(p) > 0
        full == IF more THEN Moved(b, p) ELSE p
        left == IF more THEN Left(b, p) ELSE b
    IN PartOfPayload(k, h, full, left) \/ HandlePayload(k, h, full, left)

\* The header's part of the iteration: h is the header and `left` what it leaves.
ReceiveHeader(h, left) ==
    \/ PartOfHeader(h, left)
    \/ /\ space(h) = 0
       /\ \/ Malformed(h, left)
          \/ \E k \in Announced(h) :
                ReceivePayload(k, h, IF stream[k].size > 0
                                     THEN AssignBuffer(m_RecvPct, stream[k].size)
                                     ELSE m_RecvPct, left)

ProcessIncomingData ==
    /\ pc = "processing"
    /\ length(read_buffer_) > 0
    /\ IF space(m_Header) > 0
       THEN ReceiveHeader(Moved(read_buffer_, m_Header), Left(read_buffer_, m_Header))
       ELSE ReceivePayload(m_RecvWPct, m_Header, m_RecvPct, read_buffer_)

ReceiveNext ==
    ReadComplete \/ ReadError \/ StartAsyncRead \/ CloseByOther \/ ProcessIncomingData

\* The reactor runs its handlers, and bytes that were sent arrive.
ReceiveSpec ==
    /\ ReceiveInit /\ [][ReceiveNext]_receiveVars
    /\ WF_receiveVars(ReadComplete)
    /\ WF_receiveVars(StartAsyncRead \/ ProcessIncomingData)

-----------------------------------------------------------------------------
(* Properties *)

\* ProcessIncoming gets the client's packets, each once, in order and with exactly its own
\* payload, up to the first it refuses, whatever the boundaries of the reads.  This goes
\* with what handle_input_header and handle_input_payload assert: a header begins without a
\* packet or a payload left over, and a packet is there when a header is complete.  And a
\* read always has room: with none it would complete at once with no bytes, forever.
HandledInOrder ==
    /\ ReceiveTypeOK
    /\ \A i \in 1 .. Len(handled) :
          /\ handled[i] = <<i, PayloadBytes(i)>>
          /\ \A j \in 1 .. i - 1 : stream[j].fate = "good"
    /\ pc # "closing" =>
          /\ space(m_Header) > 0 => m_RecvWPct = None /\ m_RecvPct = Unassigned
          /\ space(m_Header) = 0 => m_RecvWPct # None /\ space(m_RecvPct) > 0
    /\ pc = "reading" => space(read_buffer_) > 0

\* Every packet before the first bad one is handled, unless the connection closes.
AllHandled ==
    \A k \in 1 .. MaxPackets :
        (/\ k <= Len(stream)
         /\ stream[k].fate # "malformed"
         /\ \A j \in 1 .. k - 1 : stream[j].fate = "good")
            ~> (Len(handled) >= k \/ closed_)

=============================================================================
