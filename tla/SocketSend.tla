----------------------------- MODULE SocketSend -----------------------------
(***************************************************************************)
(* The sending side of a connection: WorldSocket::SendPacket and           *)
(* AppendPacket, Socket::StartAsyncSend and OnWriteComplete.               *)
(*                                                                         *)
(* Several threads append packets under out_buffer_lock_; at most one      *)
(* asynchronous write takes bytes straight from the buffer, at a moment of *)
(* its own choosing, while other threads go on appending.  Bytes are       *)
(* numbered in the order in which m_Crypt.EncryptSend passes them, which   *)
(* is the order in which the client must get them.                         *)
(***************************************************************************)
EXTENDS Socket

CONSTANTS
    Sender,         \* threads that call SendPacket
    PacketSize,     \* sizes of a packet with its header
    BufferSize,     \* Socket::outgoing_buffer_size_
    MaxBytes        \* bound: bytes encrypted in a behaviour

ASSUME SendConstants ==
    /\ PacketSize \subseteq Nat \ {0}
    /\ BufferSize \in Nat
    /\ MaxBytes \in Nat
    /\ None \notin Nat

VARIABLES
    out_buffer_,       \* NetworkBuffer
    write_operation_,  \* Socket::write_operation_
    flight,            \* length of the asynchronous write in flight, or None
    done,              \* bytes of a completed write whose handler has not run
    cipher,            \* state of m_Crypt: how many bytes were encrypted
    sending,           \* where each thread is in SendPacket
    accepted,          \* history: bytes written to the buffer
    received,          \* bytes the operating system took
    dropped            \* history: a packet found no place

sendVars == <<out_buffer_, write_operation_, closed_, flight, done, cipher, sending,
              accepted, received, dropped>>

Byte == 1 .. MaxBytes

Idle == 0           \* not in SendPacket
MustClose == -1     \* SendPacket returned false; otherwise: the packet's size

SendTypeOK ==
    /\ IsBuffer(out_buffer_, Byte \cup {0})
    /\ write_operation_ \in BOOLEAN
    /\ closed_ \in BOOLEAN
    /\ flight \in Nat \cup {None}
    /\ done \in Nat \cup {None}
    /\ cipher \in 0 .. MaxBytes
    /\ sending \in [Sender -> {Idle, MustClose} \cup PacketSize]
    /\ accepted \in Seq(Byte)
    /\ received \in Seq(Byte)
    /\ dropped \in BOOLEAN

\* The socket after Open().
SendInit ==
    /\ out_buffer_ = Allocated(BufferSize)
    /\ write_operation_ = FALSE
    /\ closed_ = FALSE
    /\ flight = None
    /\ done = None
    /\ cipher = 0
    /\ sending = [t \in Sender |-> Idle]
    /\ accepted = << >>
    /\ received = << >>
    /\ dropped = FALSE

-----------------------------------------------------------------------------

Mutant_MayStart(b, writing) == ~closed_ /\ length(b) # 0
MayStart(b, writing) == ~closed_ /\ ~writing /\ length(b) # 0

\* Socket::StartAsyncSend on the buffer b, when write_operation_ is `writing`.
StartAsyncSend(b, writing) ==
    IF MayStart(b, writing)
    THEN write_operation_' = TRUE /\ flight' = length(b)
    ELSE write_operation_' = writing /\ UNCHANGED flight

\* SendPacket: if (IsClosed()) return false;
SendPacket(t, n) ==
    /\ sending[t] = Idle
    /\ ~closed_
    /\ sending' = [sending EXCEPT ![t] = n]
    /\ UNCHANGED <<out_buffer_, write_operation_, closed_, flight, done, cipher,
                   accepted, received, dropped>>

Mutant_HasPlace(n) == space(out_buffer_) + 1 >= n
HasPlace(n) == space(out_buffer_) >= n

\* The rest of SendPacket under out_buffer_lock_ when there is place.
AppendPacket(t) ==
    /\ sending[t] \in PacketSize
    /\ cipher + sending[t] <= MaxBytes
    /\ LET n     == sending[t]
           bytes == [i \in 1 .. n |-> cipher + i]
       IN /\ HasPlace(n)
          /\ cipher' = cipher + n
          /\ accepted' = accepted \o bytes
          /\ out_buffer_' = Write(out_buffer_, bytes)
          /\ StartAsyncSend(out_buffer_', write_operation_)
    /\ sending' = [sending EXCEPT ![t] = Idle]
    /\ UNCHANGED <<closed_, done, received, dropped>>

\* Without place the header is encrypted all the same, the assertion fails (a release
\* build goes on) and SendPacket returns false.
AppendFails(t) ==
    /\ sending[t] \in PacketSize
    /\ cipher + sending[t] <= MaxBytes
    /\ ~HasPlace(sending[t])
    /\ cipher' = cipher + sending[t]
    /\ dropped' = TRUE
    /\ sending' = [sending EXCEPT ![t] = MustClose]
    /\ UNCHANGED <<out_buffer_, write_operation_, closed_, flight, done, accepted,
                   received>>

\* WorldSession::SendPacket and the callers in WorldSocket close the socket then.
CallerCloses(t) ==
    /\ sending[t] = MustClose
    /\ closed_' = TRUE
    /\ sending' = [sending EXCEPT ![t] = Idle]
    /\ UNCHANGED <<out_buffer_, write_operation_, flight, done, cipher, accepted,
                   received, dropped>>

\* Any other reason to close: a kick, a failed read.
CloseSocket ==
    /\ ~closed_
    /\ closed_' = TRUE
    /\ UNCHANGED <<out_buffer_, write_operation_, flight, done, cipher, sending,
                   accepted, received, dropped>>

\* async_write_some: the operating system takes between one and all of the bytes, as
\* they are in the buffer now.  Close() sets closed_ before it closes the socket, so a
\* write may succeed after that.
TakeBytes ==
    /\ flight # None
    /\ \E n \in 1 .. flight :
          /\ received' = received \o ReadData(out_buffer_, n)
          /\ done' = n
    /\ flight' = None
    /\ UNCHANGED <<out_buffer_, write_operation_, closed_, cipher, sending, accepted,
                   dropped>>

\* OnWriteComplete with an error: OnError closes the socket.
WriteError ==
    /\ flight # None
    /\ flight' = None
    /\ closed_' = TRUE
    /\ UNCHANGED <<out_buffer_, write_operation_, done, cipher, sending, accepted,
                   received, dropped>>

\* The buffer after a completed write.
Written(n) == Prepare(Consume(out_buffer_, n))

\* OnWriteComplete: consume, crunch, and start the next write.
Mutant_OnWriteComplete ==
    /\ done # None
    /\ write_operation_' = FALSE
    /\ out_buffer_' = Written(done)
    /\ done' = None
    /\ UNCHANGED <<flight, closed_, cipher, sending, accepted, received, dropped>>
OnWriteComplete ==
    /\ done # None
    /\ out_buffer_' = Written(done)
    /\ StartAsyncSend(out_buffer_', FALSE)
    /\ done' = None
    /\ UNCHANGED <<closed_, cipher, sending, accepted, received, dropped>>

SenderStep(t) == AppendPacket(t) \/ AppendFails(t) \/ CallerCloses(t)
Network == TakeBytes \/ OnWriteComplete

SendNext ==
    \/ \E t \in Sender : (\E n \in PacketSize : SendPacket(t, n)) \/ SenderStep(t)
    \/ Network
    \/ WriteError
    \/ CloseSocket

\* A thread inside SendPacket returns, and the reactor runs its handlers while the
\* connection takes bytes.
SendSpec ==
    /\ SendInit /\ [][SendNext]_sendVars
    /\ WF_sendVars(~closed_ /\ Network)
    /\ \A t \in Sender : WF_sendVars(SenderStep(t))

-----------------------------------------------------------------------------
(* Properties *)

\* The client gets exactly the bytes that were accepted, in order and each once,
\* although writes are partial and the buffer is compacted between them; and nothing is
\* left in the buffer of an open connection without a write that will take it.
Channel == INSTANCE ByteChannel WITH broken <- closed_
ReliableChannel == Channel!Spec

\* The buffer holds exactly the accepted bytes that no handler has consumed yet, and a
\* write in flight starts at the first of them: compaction never moves bytes under it
\* (and the buffer stays a buffer: SendTypeOK).  Without an overflow the client can decipher
\* what it gets: no byte is missing from the key stream, whichever thread encrypted it.
Consumed == Len(received) - (IF done = None THEN 0 ELSE done)
BufferIsTail ==
    /\ SendTypeOK
    /\ Len(accepted) = Consumed + length(out_buffer_)
    /\ ReadData(out_buffer_, length(out_buffer_))
         = SubSeq(accepted, Consumed + 1, Len(accepted))
    /\ flight # None => flight <= length(out_buffer_) /\ done = None
    /\ ~dropped => \A i \in 1 .. Len(received) : received[i] = i

=============================================================================
