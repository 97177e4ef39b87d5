---------------------------- MODULE SocketProofs ----------------------------
(***************************************************************************)
(* Proofs about the two directions of a connection.                        *)
(*                                                                         *)
(* First, what the operations of a NetworkBuffer do to its readable bytes, *)
(* for every buffer and every set of bytes: writing appends, consuming     *)
(* drops from the front, and compaction changes nothing.                   *)
(*                                                                         *)
(* Then SocketSend, for every set of threads, packet sizes and buffer      *)
(* size: the bytes a client gets are the accepted ones, in order, and the  *)
(* sending side is a ByteChannel.                                          *)
(*                                                                         *)
(* Last, SocketReceive, for every header and payload size, every size of   *)
(* the read buffer and any number of packets: wherever the reads break the *)
(* stream, its packets are handled in order, each once and with its own    *)
(* payload.                                                                *)
(***************************************************************************)
EXTENDS SocketSend, SocketReceive, SequenceTheorems, WellFoundedInduction, TLAPS

-----------------------------------------------------------------------------
(* NetworkBuffer                                                           *)

\* A function on 1 .. n is a sequence of length n.
LEMMA SeqOfFunction ==
  ASSUME NEW S, NEW n \in Nat, NEW f \in [1 .. n -> S]
  PROVE  f \in Seq(S) /\ Len(f) = n
  OBVIOUS

\* The readable bytes.
Content(b) == ReadData(b, length(b))

\* The numbers of a buffer, and what stands in its array.
LEMMA BufferNumbers ==
  ASSUME NEW B, NEW b, IsBuffer(b, B)
  PROVE  /\ b = [data |-> b.data, rd |-> b.rd, wr |-> b.wr, size |-> b.size]
         /\ b.size \in Nat /\ b.rd \in Nat /\ b.wr \in Nat
         /\ b.rd <= b.wr /\ b.wr <= b.size
         /\ length(b) \in Nat /\ length(b) = b.wr - b.rd
         /\ space(b) \in Nat /\ space(b) = b.size - b.wr
         /\ DOMAIN b.data = 0 .. b.size - 1
         /\ \A i \in 0 .. b.size - 1 : b.data[i] \in B
  BY DEF IsBuffer, length, space

\* A new buffer is an empty one, when 0 counts as a byte.
LEMMA AllocatedProps ==
  ASSUME NEW B, 0 \in B, NEW n \in Nat
  PROVE  /\ IsBuffer(Allocated(n), B)
         /\ length(Allocated(n)) = 0 /\ space(Allocated(n)) = n
         /\ Allocated(n).rd = 0 /\ Allocated(n).wr = 0 /\ Allocated(n).size = n
  BY DEF Allocated, IsBuffer, length, space

\* ReadData reads what the array holds from the read position on.
LEMMA ReadDataProps ==
  ASSUME NEW B, NEW b, IsBuffer(b, B), NEW n \in 0 .. length(b)
  PROVE  /\ ReadData(b, n) \in Seq(B)
         /\ Len(ReadData(b, n)) = n
         /\ \A i \in 1 .. n : ReadData(b, n)[i] = b.data[b.rd + i - 1]
<1>1. /\ b.rd \in Nat /\ b.wr \in Nat /\ b.wr <= b.size /\ b.size \in Nat
      /\ n \in Nat /\ n <= b.wr - b.rd
      /\ \A i \in 0 .. b.size - 1 : b.data[i] \in B
  BY BufferNumbers
<1>2. ReadData(b, n) = [i \in 1 .. n |-> b.data[b.rd + i - 1]]
  BY DEF ReadData
<1>3. \A i \in 1 .. n : b.rd + i - 1 \in 0 .. b.size - 1
  BY <1>1
<1>4. [i \in 1 .. n |-> b.data[b.rd + i - 1]] \in [1 .. n -> B]
  BY <1>1, <1>3
<1>5. ReadData(b, n) \in Seq(B)
  BY <1>1, <1>2, <1>4, SMT
<1> QED BY <1>1, <1>2, <1>5

LEMMA ContentProps ==
  ASSUME NEW B, NEW b, IsBuffer(b, B)
  PROVE  /\ Content(b) \in Seq(B)
         /\ Len(Content(b)) = length(b)
         /\ \A i \in 1 .. length(b) : Content(b)[i] = b.data[b.rd + i - 1]
<1>1. length(b) \in 0 .. length(b)
  BY BufferNumbers
<1> QED BY <1>1, ReadDataProps DEF Content

\* Writing what there is place for appends it and leaves everything else alone.
LEMMA WriteProps ==
  ASSUME NEW B, NEW b, IsBuffer(b, B), NEW bytes \in Seq(B), Len(bytes) <= space(b)
  PROVE  LET w == Write(b, bytes)
         IN /\ IsBuffer(w, B)
            /\ w.size = b.size /\ w.rd = b.rd /\ w.wr = b.wr + Len(bytes)
            /\ length(w) = length(b) + Len(bytes)
            /\ space(w) = space(b) - Len(bytes)
            /\ Content(w) = Content(b) \o bytes
<1> DEFINE d == [i \in 0 .. b.size - 1 |->
                    IF i >= b.wr /\ i < b.wr + Len(bytes)
                    THEN bytes[i - b.wr + 1] ELSE b.data[i]]
<1> DEFINE w == [data |-> d, rd |-> b.rd, wr |-> b.wr + Len(bytes), size |-> b.size]
<1>1. /\ b = [data |-> b.data, rd |-> b.rd, wr |-> b.wr, size |-> b.size]
      /\ b.size \in Nat /\ b.rd \in Nat /\ b.wr \in Nat
      /\ b.rd <= b.wr /\ b.wr <= b.size
      /\ length(b) \in Nat /\ length(b) = b.wr - b.rd
      /\ space(b) = b.size - b.wr
      /\ \A i \in 0 .. b.size - 1 : b.data[i] \in B
  BY BufferNumbers
<1>2. Len(bytes) \in Nat /\ b.wr + Len(bytes) <= b.size
  BY <1>1, LenProperties
<1>3. Write(b, bytes) = w
  <2>1. Write(b, bytes) = Commit(Fill(b, bytes), Len(bytes))
    BY <1>1, <1>2 DEF Write
  <2>2. Fill(b, bytes) = [data |-> d, rd |-> b.rd, wr |-> b.wr, size |-> b.size]
    <3>1. Fill(b, bytes) = [b EXCEPT !.data = d]
      BY Zenon DEF Fill
    <3> HIDE DEF d
    <3> QED BY <1>1, <3>1
  <2>3. Commit([data |-> d, rd |-> b.rd, wr |-> b.wr, size |-> b.size], Len(bytes)) = w
    BY <1>2 DEF Commit
  <2> QED BY <2>1, <2>2, <2>3, Zenon
<1>4. \A i \in 0 .. b.size - 1 : d[i] \in B
  <2>1. ASSUME NEW i \in 0 .. b.size - 1 PROVE d[i] \in B
    <3>1. CASE i >= b.wr /\ i < b.wr + Len(bytes)
      <4>1. i - b.wr + 1 \in 1 .. Len(bytes)
        BY <3>1, <1>1, <1>2
      <4>2. bytes[i - b.wr + 1] \in B
        BY <4>1, ElementOfSeq
      <4> QED BY <3>1, <4>2
    <3>2. CASE ~(i >= b.wr /\ i < b.wr + Len(bytes))
      BY <3>2, <1>1
    <3> QED BY <3>1, <3>2
  <2> QED BY <2>1
<1>5. \A i \in b.rd .. b.wr - 1 : d[i] = b.data[i]
  BY <1>1, <1>2
<1>6. \A i \in 1 .. Len(bytes) : d[b.wr + i - 1] = bytes[i]
  <2>1. ASSUME NEW i \in 1 .. Len(bytes) PROVE d[b.wr + i - 1] = bytes[i]
    <3>1. /\ b.wr + i - 1 \in 0 .. b.size - 1
          /\ b.wr + i - 1 >= b.wr /\ b.wr + i - 1 < b.wr + Len(bytes)
          /\ (b.wr + i - 1) - b.wr + 1 = i
      BY <1>1, <1>2
    <3>2. d[b.wr + i - 1] = bytes[(b.wr + i - 1) - b.wr + 1]
      BY <3>1
    <3> QED BY <3>1, <3>2, Zenon
  <2> QED BY <2>1
<1>7. DOMAIN d = 0 .. b.size - 1 /\ d = [i \in 0 .. b.size - 1 |-> d[i]]
  OBVIOUS
<1> HIDE DEF d
<1>8. IsBuffer(w, B)
  <2>1. d \in [0 .. b.size - 1 -> B]
    BY <1>4, <1>7, Zenon
  <2>2. b.rd \in 0 .. b.wr + Len(bytes) /\ b.wr + Len(bytes) \in 0 .. b.size
    BY <1>1, <1>2
  <2> QED BY <2>1, <2>2, <1>1 DEF IsBuffer
<1>9. /\ length(w) = length(b) + Len(bytes)
      /\ space(w) = space(b) - Len(bytes)
  BY <1>1, <1>2 DEF length, space
<1>10. Content(w) = Content(b) \o bytes
  <2> DEFINE c == Content(b)
  <2> DEFINE e == Content(w)
  <2>1. /\ c \in Seq(B) /\ Len(c) = length(b)
        /\ \A i \in 1 .. length(b) : c[i] = b.data[b.rd + i - 1]
    BY ContentProps
  <2>2. /\ e \in Seq(B) /\ Len(e) = length(w)
        /\ \A i \in 1 .. length(w) : e[i] = d[b.rd + i - 1]
    <3>1. w.data = d /\ w.rd = b.rd
      OBVIOUS
    <3> HIDE DEF w
    <3> QED BY <1>8, <3>1, ContentProps
  <2> HIDE DEF c, e
  <2>3. /\ c \o bytes \in Seq(B)
        /\ Len(c \o bytes) = Len(c) + Len(bytes)
        /\ \A i \in 1 .. Len(c) + Len(bytes) :
              (c \o bytes)[i] = IF i <= Len(c) THEN c[i] ELSE bytes[i - Len(c)]
    BY <2>1, ConcatProperties, Zenon
  <2> HIDE DEF w
  <2>4. ASSUME NEW i \in 1 .. Len(e) PROVE e[i] = (c \o bytes)[i]
    <3>1. i \in Nat /\ i >= 1 /\ i <= length(b) + Len(bytes)
      BY <1>1, <1>2, <1>9, <2>2
    <3>2. CASE i <= length(b)
      <4>1. i \in 1 .. length(b) /\ b.rd + i - 1 \in b.rd .. b.wr - 1
        BY <3>1, <3>2, <1>1
      <4>2. c[i] = d[b.rd + i - 1]
        BY <4>1, <2>1, <1>5
      <4>3. i \in 1 .. length(w) /\ i \in 1 .. Len(c) + Len(bytes) /\ i <= Len(c)
        BY <3>1, <3>2, <2>1, <1>1, <1>2, <1>9
      <4>4. e[i] = d[b.rd + i - 1]
        BY <2>2, <4>3
      <4>5. (c \o bytes)[i] = c[i]
        BY <2>3, <4>3
      <4> QED BY <4>2, <4>4, <4>5
    <3>3. CASE i > length(b)
      <4>1. i - length(b) \in 1 .. Len(bytes)
        BY <3>1, <3>3, <1>1, <1>2
      <4>2. b.wr + (i - length(b)) - 1 = b.rd + i - 1
        BY <3>1, <1>1
      <4>3. d[b.rd + i - 1] = bytes[i - length(b)]
        BY <4>1, <4>2, <1>6
      <4>4. i \in 1 .. length(w) /\ i \in 1 .. Len(c) + Len(bytes) /\ ~(i <= Len(c))
        BY <3>1, <3>3, <2>1, <1>1, <1>2, <1>9
      <4>5. e[i] = d[b.rd + i - 1]
        BY <2>2, <4>4
      <4>6. (c \o bytes)[i] = bytes[i - length(b)]
        BY <2>1, <2>3, <4>4
      <4> QED BY <4>3, <4>5, <4>6
    <3>4. i <= length(b) \/ i > length(b)
      BY <3>1, <1>1
    <3> QED BY <3>2, <3>3, <3>4, Zenon
  <2>5. Len(e) = Len(c \o bytes)
    BY <2>1, <2>2, <2>3, <1>9
  <2>6. e = c \o bytes
    BY <2>2, <2>3, <2>4, <2>5, SeqEqual
  <2> QED BY <2>6 DEF c, e
<1>11. w.size = b.size /\ w.rd = b.rd /\ w.wr = b.wr + Len(bytes)
  OBVIOUS
<1> HIDE DEF w
<1> QED BY <1>3, <1>8, <1>9, <1>10, <1>11

\* Consuming drops bytes from the front and moves nothing.
LEMMA ConsumeProps ==
  ASSUME NEW B, NEW b, IsBuffer(b, B), NEW n \in 0 .. length(b)
  PROVE  LET c == Consume(b, n)
         IN /\ IsBuffer(c, B)
            /\ c.size = b.size /\ c.wr = b.wr /\ c.rd = b.rd + n
            /\ length(c) = length(b) - n /\ space(c) = space(b)
            /\ \A i \in 1 .. length(b) - n : Content(c)[i] = Content(b)[n + i]
<1> DEFINE c == [data |-> b.data, rd |-> b.rd + n, wr |-> b.wr, size |-> b.size]
<1>1. /\ b = [data |-> b.data, rd |-> b.rd, wr |-> b.wr, size |-> b.size]
      /\ b.size \in Nat /\ b.rd \in Nat /\ b.wr \in Nat
      /\ b.rd <= b.wr /\ b.wr <= b.size
      /\ length(b) \in Nat /\ length(b) = b.wr - b.rd
  BY BufferNumbers
<1>2. n \in Nat /\ b.rd + n \in 0 .. b.wr /\ b.rd + n <= b.size
  BY <1>1
<1>3. Consume(b, n) = c
  BY <1>1, <1>2 DEF Consume
<1>4. IsBuffer(c, B)
  BY <1>1, <1>2 DEF IsBuffer
<1>5. length(c) = length(b) - n /\ space(c) = space(b)
  BY <1>1, <1>2 DEF length, space
<1>6. \A i \in 1 .. length(b) - n : Content(c)[i] = Content(b)[n + i]
  <2>1. \A i \in 1 .. length(b) : Content(b)[i] = b.data[b.rd + i - 1]
    BY ContentProps
  <2>2. \A i \in 1 .. length(c) : Content(c)[i] = b.data[b.rd + n + i - 1]
    <3>1. c.data = b.data /\ c.rd = b.rd + n
      OBVIOUS
    <3> HIDE DEF c
    <3> QED BY <1>4, <3>1, ContentProps
  <2> HIDE DEF c
  <2>3. ASSUME NEW i \in 1 .. length(b) - n PROVE Content(c)[i] = Content(b)[n + i]
    <3>1. /\ i \in 1 .. length(c) /\ n + i \in 1 .. length(b)
          /\ b.rd + n + i - 1 = b.rd + (n + i) - 1
      BY <1>1, <1>2, <1>5
    <3> QED BY <3>1, <2>1, <2>2
  <2> QED BY <2>3
<1>7. c.size = b.size /\ c.wr = b.wr /\ c.rd = b.rd + n
  OBVIOUS
<1> HIDE DEF c
<1> QED BY <1>3, <1>4, <1>5, <1>6, <1>7

\* Reset forgets what was to be read.
LEMMA ResetProps ==
  ASSUME NEW B, NEW b, IsBuffer(b, B)
  PROVE  LET r == Reset(b)
         IN /\ IsBuffer(r, B)
            /\ r.size = b.size /\ r.rd = 0 /\ r.wr = 0
            /\ length(r) = 0 /\ space(r) = b.size
<1>1. /\ b = [data |-> b.data, rd |-> b.rd, wr |-> b.wr, size |-> b.size]
      /\ b.size \in Nat
  BY BufferNumbers
<1>2. b.data \in [0 .. b.size - 1 -> B]
  BY DEF IsBuffer
<1>3. Reset(b) = [data |-> b.data, rd |-> 0, wr |-> 0, size |-> b.size]
  <2>1. PICK r : r = [b EXCEPT !.rd = 0]
    OBVIOUS
  <2>2. r = [data |-> b.data, rd |-> 0, wr |-> b.wr, size |-> b.size]
    BY <1>1, <2>1
  <2>3. [r EXCEPT !.wr = 0] = [data |-> b.data, rd |-> 0, wr |-> 0, size |-> b.size]
    BY <2>2
  <2>4. Reset(b) = [r EXCEPT !.wr = 0]
    BY <2>1, Zenon DEF Reset
  <2> QED BY <2>3, <2>4
<1> QED BY <1>1, <1>2, <1>3 DEF IsBuffer, length, space

\* Compaction moves the readable bytes to the front and keeps them as they are; with
\* nothing readable it empties the buffer.
LEMMA PrepareProps ==
  ASSUME NEW B, NEW b, IsBuffer(b, B)
  PROVE  LET p == Prepare(b)
         IN /\ IsBuffer(p, B)
            /\ p.size = b.size /\ p.rd = 0
            /\ length(p) = length(b) /\ space(p) = b.size - length(b)
            /\ Content(p) = Content(b)
<1> DEFINE d == [i \in 0 .. b.size - 1 |->
                    IF i < length(b) THEN b.data[b.rd + i] ELSE b.data[i]]
<1> DEFINE p == [data |-> d, rd |-> 0, wr |-> length(b), size |-> b.size]
<1>1. /\ b = [data |-> b.data, rd |-> b.rd, wr |-> b.wr, size |-> b.size]
      /\ b.size \in Nat /\ b.rd \in Nat /\ b.wr \in Nat
      /\ b.rd <= b.wr /\ b.wr <= b.size
      /\ length(b) \in Nat /\ length(b) = b.wr - b.rd
      /\ \A i \in 0 .. b.size - 1 : b.data[i] \in B
  BY BufferNumbers
<1>2. /\ Content(b) \in Seq(B) /\ Len(Content(b)) = length(b)
      /\ \A i \in 1 .. length(b) : Content(b)[i] = b.data[b.rd + i - 1]
  BY ContentProps
<1>3. CASE b.rd < b.wr
  <2>1. \A i \in 0 .. length(b) - 1 : d[i] = b.data[b.rd + i]
    BY <1>1
  <2>2. d \in [0 .. b.size - 1 -> B]
    BY <1>1
  <2>3. Prepare(b) = p
    <3>1. Prepare(b) = [b EXCEPT !.data = d, !.wr = length(b), !.rd = 0]
      BY <1>3, Zenon DEF Prepare
    <3> HIDE DEF d
    <3> QED BY <1>1, <3>1
  <2> HIDE DEF d
  <2>4. IsBuffer(p, B)
    BY <1>1, <2>2 DEF IsBuffer
  <2>5. length(p) = length(b) /\ space(p) = b.size - length(b)
    BY <1>1 DEF length, space
  <2>6. /\ Content(p) \in Seq(B) /\ Len(Content(p)) = length(p)
        /\ \A i \in 1 .. length(p) : Content(p)[i] = d[0 + i - 1]
    <3>1. p.data = d /\ p.rd = 0
      OBVIOUS
    <3> HIDE DEF p
    <3> QED BY <2>4, <3>1, ContentProps
  <2>7. p.size = b.size /\ p.rd = 0
    OBVIOUS
  <2> HIDE DEF p
  <2>8. ASSUME NEW i \in 1 .. length(b) PROVE Content(p)[i] = Content(b)[i]
    <3>1. i - 1 \in 0 .. length(b) - 1 /\ b.rd + (i - 1) = b.rd + i - 1
          /\ 0 + i - 1 = i - 1
      BY <1>1
    <3> QED BY <3>1, <1>2, <2>1, <2>5, <2>6
  <2>9. Content(p) = Content(b)
    BY <1>2, <2>5, <2>6, <2>8, SeqEqual
  <2> QED BY <2>3, <2>4, <2>5, <2>7, <2>9
<1>4. CASE ~(b.rd < b.wr)
  <2>1. Prepare(b) = Reset(b) /\ length(b) = 0
    BY <1>1, <1>4 DEF Prepare
  <2>2. /\ IsBuffer(Reset(b), B)
        /\ Reset(b).size = b.size /\ Reset(b).rd = 0
        /\ length(Reset(b)) = 0 /\ space(Reset(b)) = b.size
    BY ResetProps
  <2>3. Content(Reset(b)) = << >>
    BY <2>2 DEF Content, ReadData
  <2>4. Content(b) = << >>
    BY <2>1 DEF Content, ReadData
  <2> QED BY <1>1, <2>1, <2>2, <2>3, <2>4
<1> QED BY <1>3, <1>4

-----------------------------------------------------------------------------
(* SocketSend                                                              *)

\* At most one write is between its start and its handler, write_operation_ tells, and its
\* bytes lie in the buffer.
WriteInv ==
    /\ flight # None => flight \in 1 .. length(out_buffer_) /\ done = None /\ write_operation_
    /\ done # None => /\ done \in 1 .. length(out_buffer_) /\ done <= Len(received)
                      /\ flight = None /\ write_operation_

\* The bytes taken and the bytes in the buffer make up the accepted ones.
TailInv ==
    /\ Len(accepted) = Consumed + length(out_buffer_)
    /\ \A i \in 1 .. length(out_buffer_) :
          Content(out_buffer_)[i] = accepted[Consumed + i]
    /\ Len(received) <= Len(accepted)
    /\ \A i \in 1 .. Len(received) : received[i] = accepted[i]

\* As long as every packet found its place, the accepted bytes are the encrypted ones.
CipherInv ==
    ~dropped => cipher = Len(accepted) /\ \A i \in 1 .. Len(accepted) : accepted[i] = i

SendInv == SendTypeOK /\ WriteInv /\ TailInv /\ CipherInv

-----------------------------------------------------------------------------

\* The numbers of a state.
LEMMA SendNumbers ==
  ASSUME SendInv
  PROVE  /\ length(out_buffer_) \in Nat /\ space(out_buffer_) \in Nat
         /\ Len(accepted) \in Nat /\ Len(received) \in Nat
         /\ Consumed \in Nat /\ cipher \in Nat
         /\ None \notin Nat
<1> USE SendConstants
<1>1. length(out_buffer_) \in Nat /\ space(out_buffer_) \in Nat
  BY BufferNumbers DEF SendInv, SendTypeOK
<1>2. Len(accepted) \in Nat /\ Len(received) \in Nat
  BY LenProperties DEF SendInv, SendTypeOK
<1>3. Consumed \in Nat
  BY <1>1, <1>2 DEF SendInv, SendTypeOK, WriteInv, Consumed
<1> QED BY <1>1, <1>2, <1>3 DEF SendInv, SendTypeOK

\* The content of the buffer is the accepted bytes from Consumed + 1 on.
LEMMA ContentIsTail ==
  ASSUME SendInv
  PROVE  Content(out_buffer_) = SubSeq(accepted, Consumed + 1, Len(accepted))
<1>1. /\ length(out_buffer_) \in Nat /\ Len(accepted) \in Nat /\ Consumed \in Nat
      /\ Len(accepted) = Consumed + length(out_buffer_)
      /\ accepted \in Seq(Byte)
  BY SendNumbers DEF SendInv, SendTypeOK, TailInv
<1>2. PICK t : t = SubSeq(accepted, Consumed + 1, Len(accepted))
  OBVIOUS
<1>3. \A i \in Consumed + 1 .. Len(accepted) : accepted[i] \in Byte
  BY <1>1, ElementOfSeq
<1>4. /\ t \in Seq(Byte) /\ Len(t) = length(out_buffer_)
      /\ \A i \in 1 .. length(out_buffer_) : t[i] = accepted[Consumed + i]
  <2>1. /\ t \in Seq(Byte)
        /\ Len(t) = IF Consumed + 1 <= Len(accepted)
                    THEN Len(accepted) - (Consumed + 1) + 1 ELSE 0
        /\ \A i \in 1 .. Len(accepted) - (Consumed + 1) + 1 :
              t[i] = accepted[Consumed + 1 + i - 1]
    BY <1>1, <1>2, <1>3, SubSeqProperties
  <2>2. ASSUME NEW i \in 1 .. length(out_buffer_) PROVE t[i] = accepted[Consumed + i]
    <3>1. i \in 1 .. Len(accepted) - (Consumed + 1) + 1 /\ Consumed + 1 + i - 1 = Consumed + i
      BY <1>1
    <3> QED BY <2>1, <3>1
  <2> QED BY <1>1, <2>1, <2>2
<1>5. t \in Seq(Byte \cup {0})
  BY <1>4, SeqMonotonic
<1>6. /\ Content(out_buffer_) \in Seq(Byte \cup {0})
      /\ Len(Content(out_buffer_)) = length(out_buffer_)
  BY ContentProps DEF SendInv, SendTypeOK
<1>7. \A i \in 1 .. length(out_buffer_) : Content(out_buffer_)[i] = t[i]
  BY <1>4 DEF SendInv, TailInv
<1>8. Content(out_buffer_) = t
  BY <1>4, <1>5, <1>6, <1>7, SeqEqual
<1> QED BY <1>2, <1>8

\* The inductive invariant implies the property the run checks.
LEMMA SendInvBufferIsTail == SendInv => BufferIsTail
<1> SUFFICES ASSUME SendInv PROVE BufferIsTail
  OBVIOUS
<1>1. ReadData(out_buffer_, length(out_buffer_))
        = SubSeq(accepted, Consumed + 1, Len(accepted))
  BY ContentIsTail DEF Content
<1>2. flight # None => flight <= length(out_buffer_) /\ done = None
  BY SendNumbers DEF SendInv, WriteInv
<1>3. ~dropped => \A i \in 1 .. Len(received) : received[i] = i
  BY SendNumbers DEF SendInv, TailInv, CipherInv
<1> QED BY <1>1, <1>2, <1>3 DEF SendInv, TailInv, BufferIsTail

-----------------------------------------------------------------------------

LEMMA InitSendInv == SendInit => SendInv
<1> SUFFICES ASSUME SendInit PROVE SendInv
  OBVIOUS
<1> USE SendConstants
<1>1. /\ IsBuffer(out_buffer_, Byte \cup {0}) /\ length(out_buffer_) = 0
  BY AllocatedProps DEF SendInit
<1>2. << >> \in Seq(Byte) /\ Len(<< >>) = 0
  BY EmptySeq
<1>3. SendTypeOK
  <2>1. sending \in [Sender -> {Idle, MustClose} \cup PacketSize]
    BY DEF SendInit
  <2>2. cipher \in 0 .. MaxBytes
    BY DEF SendInit
  <2> QED BY <1>1, <1>2, <2>1, <2>2 DEF SendInit, SendTypeOK
<1>4. WriteInv
  BY DEF SendInit, WriteInv
<1>5. TailInv
  BY <1>1, <1>2 DEF SendInit, TailInv, Consumed
<1>6. CipherInv
  BY <1>2 DEF SendInit, CipherInv
<1> QED BY <1>3, <1>4, <1>5, <1>6 DEF SendInv

\* Starting a write keeps to what the buffer holds.
LEMMA StartKeepsWriteInv ==
  ASSUME SendInv, flight = None, done' = None, NEW b, length(b) \in Nat, out_buffer_' = b,
         StartAsyncSend(b, FALSE)
  PROVE  WriteInv' /\ flight' \in Nat \cup {None} /\ write_operation_' \in BOOLEAN
<1>1. CASE MayStart(b, FALSE)
  <2>1. length(b) # 0 /\ flight' = length(b) /\ write_operation_' = TRUE
    BY <1>1 DEF StartAsyncSend, MayStart
  <2> QED BY <2>1 DEF WriteInv
<1>2. CASE ~MayStart(b, FALSE)
  BY <1>2 DEF StartAsyncSend, WriteInv
<1> QED BY <1>1, <1>2

\* Appending a packet.
LEMMA AppendPacketIInv ==
  ASSUME SendInv, NEW t \in Sender, AppendPacket(t)
  PROVE  SendInv'
<1> USE SendConstants
<1> DEFINE n == sending[t]
<1> DEFINE bytes == [i \in 1 .. n |-> cipher + i]
<1>1. /\ n \in Nat \ {0} /\ cipher + n <= MaxBytes /\ HasPlace(n)
      /\ cipher' = cipher + n
      /\ accepted' = accepted \o bytes
      /\ out_buffer_' = Write(out_buffer_, bytes)
      /\ StartAsyncSend(out_buffer_', write_operation_)
      /\ sending' = [sending EXCEPT ![t] = Idle]
      /\ UNCHANGED <<closed_, done, received, dropped>>
  BY DEF AppendPacket
<1>2. /\ length(out_buffer_) \in Nat /\ space(out_buffer_) \in Nat
      /\ Len(accepted) \in Nat /\ Len(received) \in Nat
      /\ Consumed \in Nat /\ cipher \in Nat /\ None \notin Nat
  BY SendNumbers
<1>3. /\ bytes \in Seq(Byte) /\ Len(bytes) = n
      /\ \A i \in 1 .. n : bytes[i] = cipher + i
  <2>1. \A i \in 1 .. n : cipher + i \in Byte
    BY <1>1, <1>2 DEF Byte
  <2>2. bytes \in [1 .. n -> Byte]
    BY <2>1
  <2>3. bytes \in Seq(Byte) /\ Len(bytes) = n
    BY <1>1, <2>2, SeqOfFunction
  <2> QED BY <2>3
<1> HIDE DEF bytes, n
<1>4. /\ IsBuffer(out_buffer_', Byte \cup {0})
      /\ length(out_buffer_') = length(out_buffer_) + n
      /\ Content(out_buffer_') = Content(out_buffer_) \o bytes
  <2>1. bytes \in Seq(Byte \cup {0})
    BY <1>3, SeqMonotonic
  <2>2. Len(bytes) <= space(out_buffer_)
    BY <1>1, <1>2, <1>3 DEF HasPlace
  <2>3. IsBuffer(out_buffer_, Byte \cup {0})
    BY DEF SendInv, SendTypeOK
  <2> QED BY <1>1, <1>3, <2>1, <2>2, <2>3, WriteProps
<1>5. /\ accepted' \in Seq(Byte) /\ Len(accepted') = Len(accepted) + n
      /\ \A i \in 1 .. Len(accepted) + n :
            accepted'[i] = IF i <= Len(accepted) THEN accepted[i]
                           ELSE bytes[i - Len(accepted)]
  <2>1. PICK q : q = accepted
    OBVIOUS
  <2>2. q \in Seq(Byte) /\ bytes \in Seq(Byte) /\ Len(bytes) = n /\ accepted' = q \o bytes
    BY <1>1, <1>3, <2>1 DEF SendInv, SendTypeOK
  <2>3. /\ q \o bytes \in Seq(Byte) /\ Len(q \o bytes) = Len(q) + Len(bytes)
        /\ \A i \in 1 .. Len(q) + Len(bytes) :
              (q \o bytes)[i] = IF i <= Len(q) THEN q[i] ELSE bytes[i - Len(q)]
    BY <2>2, ConcatProperties
  <2> QED BY <2>1, <2>2, <2>3
<1>6. Consumed' = Consumed
  BY <1>1 DEF Consumed
<1>7. WriteInv' /\ flight' \in Nat \cup {None} /\ write_operation_' \in BOOLEAN
  <2>1. CASE flight = None /\ done = None /\ ~write_operation_
    <3>1. write_operation_ = FALSE /\ done' = None
      BY <1>1, <2>1 DEF SendInv, SendTypeOK
    <3>2. StartAsyncSend(out_buffer_', FALSE)
      BY <1>1, <3>1
    <3>3. length(out_buffer_') \in Nat
      BY <1>1, <1>2, <1>4
    <3> QED BY <2>1, <3>1, <3>2, <3>3, StartKeepsWriteInv
  <2>2. CASE write_operation_
    <3>1. flight' = flight /\ write_operation_' = write_operation_
      BY <1>1, <2>2 DEF StartAsyncSend, MayStart
    <3> QED BY <1>1, <1>2, <1>4, <3>1 DEF SendInv, SendTypeOK, WriteInv
  <2> QED BY <2>1, <2>2 DEF SendInv, WriteInv
<1>8. SendTypeOK'
  <2>1. cipher' \in 0 .. MaxBytes
    BY <1>1, <1>2
  <2>2. sending' \in [Sender -> {Idle, MustClose} \cup PacketSize]
    BY <1>1 DEF SendInv, SendTypeOK
  <2> QED BY <1>1, <1>4, <1>5, <1>7, <2>1, <2>2 DEF SendInv, SendTypeOK
<1>9. TailInv'
  <2>1. \A i \in 1 .. length(out_buffer_) + n :
           Content(out_buffer_')[i] =
              IF i <= length(out_buffer_) THEN Content(out_buffer_)[i]
              ELSE bytes[i - length(out_buffer_)]
    <3>1. /\ Content(out_buffer_) \in Seq(Byte \cup {0})
          /\ Len(Content(out_buffer_)) = length(out_buffer_)
      BY ContentProps DEF SendInv, SendTypeOK
    <3>2. bytes \in Seq(Byte \cup {0})
      BY <1>3, SeqMonotonic
    <3>3. \A i \in 1 .. length(out_buffer_) + n :
             (Content(out_buffer_) \o bytes)[i] =
                IF i <= length(out_buffer_) THEN Content(out_buffer_)[i]
                ELSE bytes[i - length(out_buffer_)]
      BY <1>3, <3>1, <3>2, ConcatProperties
    <3> QED BY <1>4, <3>3
  <2>2. ASSUME NEW i \in 1 .. length(out_buffer_')
        PROVE  Content(out_buffer_')[i] = accepted'[Consumed' + i]
    <3>1. /\ i \in Nat /\ i >= 1 /\ i <= length(out_buffer_) + n
          /\ Len(accepted) = Consumed + length(out_buffer_)
          /\ Consumed + i \in 1 .. Len(accepted) + n
      BY <1>1, <1>2, <1>4 DEF SendInv, TailInv
    <3>2. CASE i <= length(out_buffer_)
      <4>1. Consumed + i <= Len(accepted)
        BY <1>2, <3>1, <3>2
      <4>2. Content(out_buffer_)[i] = accepted[Consumed + i]
        BY <3>1, <3>2 DEF SendInv, TailInv
      <4> QED BY <1>5, <1>6, <2>1, <3>1, <3>2, <4>1, <4>2, <1>4
    <3>3. CASE ~(i <= length(out_buffer_))
      <4>1. /\ ~(Consumed + i <= Len(accepted))
            /\ (Consumed + i) - Len(accepted) = i - length(out_buffer_)
        BY <1>2, <3>1, <3>3
      <4> QED BY <1>5, <1>6, <2>1, <3>1, <3>3, <4>1, <1>4
    <3> QED BY <3>2, <3>3
  <2>3. Len(accepted') = Consumed' + length(out_buffer_')
    BY <1>1, <1>2, <1>4, <1>5, <1>6 DEF SendInv, TailInv
  <2>4. /\ Len(received') <= Len(accepted')
        /\ \A i \in 1 .. Len(received') : received'[i] = accepted'[i]
    <3>1. /\ received' = received /\ Len(received) <= Len(accepted)
          /\ \A i \in 1 .. Len(received) : received[i] = accepted[i]
      BY <1>1 DEF SendInv, TailInv
    <3>2. n \in Nat
      BY <1>1
    <3>3. Len(received) <= Len(accepted')
      BY <1>2, <1>5, <3>1, <3>2
    <3>4. ASSUME NEW i \in 1 .. Len(received) PROVE accepted'[i] = accepted[i]
      <4>1. i \in 1 .. Len(accepted) + n /\ i <= Len(accepted)
        BY <1>2, <3>1, <3>2
      <4> QED BY <1>5, <4>1
    <3> QED BY <3>1, <3>3, <3>4
  <2> QED BY <2>2, <2>3, <2>4 DEF TailInv
<1>10. CipherInv'
  <2> SUFFICES ASSUME ~dropped'
               PROVE  cipher' = Len(accepted') /\ \A i \in 1 .. Len(accepted') : accepted'[i] = i
    BY DEF CipherInv
  <2>1. cipher = Len(accepted) /\ \A i \in 1 .. Len(accepted) : accepted[i] = i
    BY <1>1 DEF SendInv, CipherInv
  <2>2. ASSUME NEW i \in 1 .. Len(accepted') PROVE accepted'[i] = i
    <3>1. CASE i <= Len(accepted)
      BY <1>2, <1>5, <2>1, <3>1
    <3>2. CASE ~(i <= Len(accepted))
      <4>1. i - Len(accepted) \in 1 .. n /\ cipher + (i - Len(accepted)) = i
        BY <1>1, <1>2, <1>5, <2>1, <3>2
      <4> QED BY <1>3, <1>5, <3>2, <4>1
    <3> QED BY <3>1, <3>2
  <2> QED BY <1>1, <1>2, <1>5, <2>1, <2>2
<1> QED BY <1>7, <1>8, <1>9, <1>10 DEF SendInv

\* The operating system takes bytes of the write in flight.
LEMMA TakeBytesIInv ==
  ASSUME SendInv, TakeBytes
  PROVE  SendInv'
<1> USE SendConstants
<1>1. PICK n \in 1 .. flight :
        /\ received' = received \o ReadData(out_buffer_, n)
        /\ done' = n
  BY DEF TakeBytes
<1>2. /\ flight # None /\ flight' = None
      /\ UNCHANGED <<out_buffer_, write_operation_, closed_, cipher, sending, accepted, dropped>>
  BY DEF TakeBytes
<1>3. /\ length(out_buffer_) \in Nat /\ Len(accepted) \in Nat /\ Len(received) \in Nat
      /\ Consumed \in Nat /\ None \notin Nat
  BY SendNumbers
<1>4. /\ done = None /\ write_operation_ /\ Consumed = Len(received)
      /\ n \in Nat /\ n >= 1 /\ n <= length(out_buffer_)
  BY <1>2, <1>3 DEF SendInv, WriteInv, Consumed
<1> DEFINE taken == ReadData(out_buffer_, n)
<1>5. /\ Len(taken) = n
      /\ \A i \in 1 .. n : taken[i] = accepted[Len(received) + i]
  <2>1. IsBuffer(out_buffer_, Byte \cup {0}) /\ n \in 0 .. length(out_buffer_)
    BY <1>3, <1>4 DEF SendInv, SendTypeOK
  <2>2. Len(taken) = n /\ \A i \in 1 .. n : taken[i] = out_buffer_.data[out_buffer_.rd + i - 1]
    BY <2>1, ReadDataProps
  <2>3. \A i \in 1 .. length(out_buffer_) :
           Content(out_buffer_)[i] = out_buffer_.data[out_buffer_.rd + i - 1]
    BY <2>1, ContentProps
  <2>4. \A i \in 1 .. n : i \in 1 .. length(out_buffer_)
    BY <1>3, <1>4
  <2> QED BY <1>4, <2>2, <2>3, <2>4 DEF SendInv, TailInv
<1>6. Len(received) + n <= Len(accepted)
  BY <1>3, <1>4 DEF SendInv, TailInv
<1>7. taken \in Seq(Byte)
  <2>1. taken \in [1 .. n -> Byte]
    <3>1. \A i \in 1 .. n : taken[i] \in Byte
      <4>1. \A i \in 1 .. n : Len(received) + i \in 1 .. Len(accepted)
        BY <1>3, <1>4, <1>6
      <4>2. \A i \in 1 .. Len(accepted) : accepted[i] \in Byte
        BY ElementOfSeq DEF SendInv, SendTypeOK
      <4> QED BY <1>5, <4>1, <4>2
    <3> QED BY <3>1 DEF ReadData
  <2> QED BY <1>4, <2>1, SeqOfFunction
<1> HIDE DEF taken
<1>8. /\ received' \in Seq(Byte) /\ Len(received') = Len(received) + n
      /\ \A i \in 1 .. Len(received) + n :
            received'[i] = IF i <= Len(received) THEN received[i] ELSE taken[i - Len(received)]
  <2>1. PICK q : q = received
    OBVIOUS
  <2>2. received' = q \o taken /\ q \in Seq(Byte) /\ taken \in Seq(Byte) /\ Len(taken) = n
    BY <1>1, <1>5, <1>7, <2>1 DEF taken, SendInv, SendTypeOK
  <2>3. /\ q \o taken \in Seq(Byte) /\ Len(q \o taken) = Len(q) + Len(taken)
        /\ \A i \in 1 .. Len(q) + Len(taken) :
              (q \o taken)[i] = IF i <= Len(q) THEN q[i] ELSE taken[i - Len(q)]
    BY <2>2, ConcatProperties
  <2> QED BY <2>1, <2>2, <2>3
<1>9. Consumed' = Consumed
  BY <1>1, <1>3, <1>4, <1>8 DEF Consumed
<1>10. WriteInv'
  BY <1>1, <1>2, <1>3, <1>4, <1>8 DEF WriteInv
<1>11. SendTypeOK'
  BY <1>1, <1>2, <1>4, <1>8 DEF SendInv, SendTypeOK
<1>12. TailInv'
  <2>1. ASSUME NEW i \in 1 .. Len(received') PROVE received'[i] = accepted'[i]
    <3>1. CASE i <= Len(received)
      BY <1>2, <1>3, <1>8, <3>1 DEF SendInv, TailInv
    <3>2. CASE ~(i <= Len(received))
      <4>1. i - Len(received) \in 1 .. n /\ Len(received) + (i - Len(received)) = i
        BY <1>3, <1>4, <1>8, <3>2
      <4> QED BY <1>2, <1>5, <1>8, <3>2, <4>1
    <3> QED BY <3>1, <3>2
  <2> QED BY <1>2, <1>6, <1>8, <1>9, <2>1 DEF SendInv, TailInv
<1>13. CipherInv'
  BY <1>2 DEF SendInv, CipherInv
<1> QED BY <1>10, <1>11, <1>12, <1>13 DEF SendInv

\* The handler consumes what was taken, compacts the buffer and starts the next write.
LEMMA OnWriteCompleteIInv ==
  ASSUME SendInv, OnWriteComplete
  PROVE  SendInv'
<1> USE SendConstants
<1> DEFINE c == Consume(out_buffer_, done)
<1>1. /\ done # None /\ out_buffer_' = Prepare(c)
      /\ StartAsyncSend(out_buffer_', FALSE)
      /\ done' = None
      /\ UNCHANGED <<closed_, cipher, sending, accepted, received, dropped>>
  BY DEF OnWriteComplete, Written
<1>2. /\ length(out_buffer_) \in Nat /\ Len(accepted) \in Nat /\ Len(received) \in Nat
      /\ Consumed \in Nat /\ None \notin Nat
  BY SendNumbers
<1>3. /\ flight = None /\ done \in 0 .. length(out_buffer_)
      /\ done \in Nat /\ done <= length(out_buffer_) /\ done <= Len(received)
  BY <1>1, <1>2 DEF SendInv, WriteInv
<1>4. /\ IsBuffer(c, Byte \cup {0})
      /\ length(c) = length(out_buffer_) - done
      /\ \A i \in 1 .. length(out_buffer_) - done :
            Content(c)[i] = Content(out_buffer_)[done + i]
  <2>1. IsBuffer(out_buffer_, Byte \cup {0})
    BY DEF SendInv, SendTypeOK
  <2> QED BY <1>3, <2>1, ConsumeProps
<1> HIDE DEF c
<1>5. /\ IsBuffer(out_buffer_', Byte \cup {0})
      /\ length(out_buffer_') = length(c) /\ Content(out_buffer_') = Content(c)
  BY <1>1, <1>4, PrepareProps
<1>6. Consumed' = Consumed + done
  BY <1>1, <1>2, <1>3 DEF Consumed
<1>7. length(out_buffer_') \in Nat /\ length(out_buffer_') = length(out_buffer_) - done
  BY <1>2, <1>3, <1>4, <1>5
<1>8. WriteInv' /\ flight' \in Nat \cup {None} /\ write_operation_' \in BOOLEAN
  BY <1>1, <1>3, <1>7, StartKeepsWriteInv
<1>9. SendTypeOK'
  BY <1>1, <1>5, <1>8 DEF SendInv, SendTypeOK
<1>10. TailInv'
  <2>1. ASSUME NEW i \in 1 .. length(out_buffer_')
        PROVE  Content(out_buffer_')[i] = accepted'[Consumed' + i]
    <3>1. /\ i \in 1 .. length(out_buffer_) - done
          /\ done + i \in 1 .. length(out_buffer_)
          /\ Consumed + (done + i) = (Consumed + done) + i
      BY <1>2, <1>3, <1>7
    <3>2. Content(out_buffer_')[i] = Content(out_buffer_)[done + i]
      BY <1>4, <1>5, <3>1
    <3>3. Content(out_buffer_)[done + i] = accepted[Consumed + (done + i)]
      BY <3>1 DEF SendInv, TailInv
    <3> QED BY <1>1, <1>6, <3>1, <3>2, <3>3
  <2>2. Len(accepted') = Consumed' + length(out_buffer_')
    BY <1>1, <1>2, <1>3, <1>6, <1>7 DEF SendInv, TailInv
  <2> QED BY <1>1, <2>1, <2>2 DEF SendInv, TailInv
<1>11. CipherInv'
  BY <1>1 DEF SendInv, CipherInv
<1> QED BY <1>8, <1>9, <1>10, <1>11 DEF SendInv

\* The steps that leave the buffer and both ends of the stream alone.
LEMMA OtherSendInv ==
  ASSUME SendInv, UNCHANGED <<out_buffer_, accepted, received, done>>,
         flight' \in {flight, None}, write_operation_' = write_operation_,
         closed_' \in BOOLEAN, dropped' \in BOOLEAN, dropped => dropped',
         cipher' \in 0 .. MaxBytes, ~dropped' => cipher' = cipher,
         sending' \in [Sender -> {Idle, MustClose} \cup PacketSize]
  PROVE  SendInv'
<1> USE SendConstants
<1>1. SendTypeOK'
  BY DEF SendInv, SendTypeOK
<1>2. WriteInv'
  BY DEF SendInv, WriteInv
<1>3. TailInv'
  BY DEF SendInv, TailInv, Consumed
<1>4. CipherInv'
  BY DEF SendInv, CipherInv
<1> QED BY <1>1, <1>2, <1>3, <1>4 DEF SendInv

LEMMA NextSendInv == SendInv /\ [SendNext]_sendVars => SendInv'
<1> SUFFICES ASSUME SendInv, [SendNext]_sendVars PROVE SendInv'
  OBVIOUS
<1> USE SendConstants
<1>1. /\ sending \in [Sender -> {Idle, MustClose} \cup PacketSize]
      /\ closed_ \in BOOLEAN /\ dropped \in BOOLEAN /\ cipher \in 0 .. MaxBytes
  BY DEF SendInv, SendTypeOK
<1>2. ASSUME NEW t \in Sender, NEW n \in PacketSize, SendPacket(t, n) PROVE SendInv'
  BY <1>1, <1>2, OtherSendInv DEF SendPacket
<1>3. ASSUME NEW t \in Sender, AppendPacket(t) PROVE SendInv'
  BY <1>3, AppendPacketIInv
<1>4. ASSUME NEW t \in Sender, AppendFails(t) PROVE SendInv'
  <2>1. sending[t] \in PacketSize /\ cipher + sending[t] <= MaxBytes
    BY <1>4 DEF AppendFails
  <2>2. sending[t] \in Nat /\ MaxBytes \in Nat
    BY <2>1
  <2>3. cipher \in Nat
    BY SendNumbers
  <2>4. cipher + sending[t] \in 0 .. MaxBytes
    BY <2>1, <2>2, <2>3
  <2> QED BY <1>1, <1>4, <2>4, OtherSendInv DEF AppendFails
<1>5. ASSUME NEW t \in Sender, CallerCloses(t) PROVE SendInv'
  BY <1>1, <1>5, OtherSendInv DEF CallerCloses
<1>6. CASE TakeBytes
  BY <1>6, TakeBytesIInv
<1>7. CASE OnWriteComplete
  BY <1>7, OnWriteCompleteIInv
<1>8. CASE WriteError
  BY <1>1, <1>8, OtherSendInv DEF WriteError
<1>9. CASE CloseSocket
  BY <1>1, <1>9, OtherSendInv DEF CloseSocket
<1>10. CASE UNCHANGED sendVars
  BY <1>1, <1>10, OtherSendInv DEF sendVars
<1> QED BY <1>2, <1>3, <1>4, <1>5, <1>6, <1>7, <1>8, <1>9, <1>10
        DEF SendNext, SenderStep, Network

-----------------------------------------------------------------------------

\* Socket.cpp and WorldSocket::SendPacket: the buffer holds exactly the accepted bytes that
\* no handler has consumed, a write in flight starts at the first of them, and the client
\* can decipher what it gets, for any threads, packet sizes and buffer size.
THEOREM SocketSendSound == SendSpec => []BufferIsTail
<1>1. SendInit => SendInv
  BY InitSendInv
<1>2. SendInv /\ [SendNext]_sendVars => SendInv'
  BY NextSendInv
<1>3. SendInv => BufferIsTail
  BY SendInvBufferIsTail
<1> QED BY <1>1, <1>2, <1>3, PTL DEF SendSpec

\* A prefix is cut out by SubSeq.
LEMMA PrefixIsSubSeq ==
  ASSUME NEW S, NEW s \in Seq(S), NEW p \in Seq(S), Len(p) <= Len(s),
         \A i \in 1 .. Len(p) : p[i] = s[i]
  PROVE  SubSeq(s, 1, Len(p)) = p
<1>1. Len(p) \in Nat /\ Len(s) \in Nat
  BY LenProperties
<1>2. PICK t : t = SubSeq(s, 1, Len(p))
  OBVIOUS
<1>3. \A i \in 1 .. Len(p) : s[i] \in S
  BY <1>1, ElementOfSeq
<1>4. /\ t \in Seq(S)
      /\ Len(t) = IF 1 <= Len(p) THEN Len(p) - 1 + 1 ELSE 0
      /\ \A i \in 1 .. Len(p) - 1 + 1 : t[i] = s[1 + i - 1]
  BY <1>1, <1>2, <1>3, SubSeqProperties
<1>5. Len(t) = Len(p)
  BY <1>1, <1>4
<1>6. ASSUME NEW i \in 1 .. Len(t) PROVE t[i] = p[i]
  <2>1. i \in 1 .. Len(p) /\ i \in 1 .. Len(p) - 1 + 1 /\ 1 + i - 1 = i
    BY <1>1, <1>5
  <2> QED BY <1>4, <2>1
<1>7. t = p
  BY <1>4, <1>5, <1>6, SeqEqual
<1> QED BY <1>2, <1>7

\* Every step is a step of the channel or leaves it as it is.
LEMMA StepOfChannel == SendInv /\ [SendNext]_sendVars => [Channel!Next]_(Channel!chan)
<1> SUFFICES ASSUME SendInv, [SendNext]_sendVars PROVE Channel!Next \/ UNCHANGED Channel!chan
  OBVIOUS
<1> USE SendConstants
<1>0. SendInv'
  BY NextSendInv
<1>1. /\ accepted \in Seq(Byte) /\ received \in Seq(Byte)
      /\ accepted' \in Seq(Byte) /\ received' \in Seq(Byte)
      /\ Len(accepted) \in Nat /\ Len(received) \in Nat
      /\ Len(accepted') \in Nat /\ Len(received') \in Nat
      /\ closed_ \in BOOLEAN
  BY <1>0, LenProperties DEF SendInv, SendTypeOK
<1>2. ASSUME NEW t \in Sender, AppendPacket(t) PROVE Channel!Accept
  <2> DEFINE n == sending[t]
  <2> DEFINE bytes == [i \in 1 .. n |-> cipher + i]
  <2>1. /\ n \in Nat \ {0} /\ accepted' = accepted \o bytes
        /\ cipher + n <= MaxBytes /\ UNCHANGED <<received, closed_>>
    BY <1>2 DEF AppendPacket
  <2>2. bytes \in Seq(Byte) /\ Len(bytes) = n
    <3>1. cipher \in Nat
      BY SendNumbers
    <3>2. \A i \in 1 .. n : cipher + i \in Byte
      BY <2>1, <3>1 DEF Byte
    <3>3. bytes \in [1 .. n -> Byte]
      BY <3>2
    <3> QED BY <2>1, <3>3, SeqOfFunction
  <2> HIDE DEF bytes, n
  <2>3. /\ Len(accepted') = Len(accepted) + n
        /\ \A i \in 1 .. Len(accepted) + n :
              accepted'[i] = IF i <= Len(accepted) THEN accepted[i]
                             ELSE bytes[i - Len(accepted)]
    <3>1. PICK q : q = accepted
      OBVIOUS
    <3>2. q \in Seq(Byte) /\ accepted' = q \o bytes
      BY <1>1, <2>1, <3>1
    <3>3. /\ Len(q \o bytes) = Len(q) + Len(bytes)
          /\ \A i \in 1 .. Len(q) + Len(bytes) :
                (q \o bytes)[i] = IF i <= Len(q) THEN q[i] ELSE bytes[i - Len(q)]
      BY <2>2, <3>2, ConcatProperties
    <3> QED BY <2>2, <3>1, <3>2, <3>3
  <2>4. Len(accepted') > Len(accepted)
    BY <1>1, <2>1, <2>3
  <2>5. SubSeq(accepted', 1, Len(accepted)) = accepted
    <3>1. Len(accepted) <= Len(accepted')
      BY <1>1, <2>4
    <3>2. \A i \in 1 .. Len(accepted) : accepted[i] = accepted'[i]
      BY <1>1, <2>1, <2>3
    <3> QED BY <1>1, <3>1, <3>2, PrefixIsSubSeq
  <2> QED BY <1>1, <2>1, <2>4, <2>5 DEF Channel!Accept
<1>3. CASE TakeBytes
  <2>1. PICK n \in 1 .. flight : received' = received \o ReadData(out_buffer_, n)
    BY <1>3 DEF TakeBytes
  <2>2. accepted' = accepted /\ closed_' = closed_ /\ flight # None
    BY <1>3 DEF TakeBytes
  <2>3. n \in Nat /\ n >= 1 /\ n <= length(out_buffer_) /\ length(out_buffer_) \in Nat
    BY <2>2, SendNumbers DEF SendInv, WriteInv
  <2>4. Len(received') = Len(received) + n
    <3>1. IsBuffer(out_buffer_, Byte \cup {0}) /\ n \in 0 .. length(out_buffer_)
      BY <2>3 DEF SendInv, SendTypeOK
    <3>2. /\ ReadData(out_buffer_, n) \in Seq(Byte \cup {0})
          /\ Len(ReadData(out_buffer_, n)) = n
      BY <3>1, ReadDataProps
    <3>3. received \in Seq(Byte \cup {0})
      BY <1>1, SeqMonotonic
    <3> QED BY <2>1, <3>2, <3>3, ConcatProperties
  <2>5. /\ Len(received') <= Len(accepted')
        /\ \A i \in 1 .. Len(received') : received'[i] = accepted'[i]
    BY <1>0 DEF SendInv, TailInv
  <2>6. SubSeq(accepted, 1, Len(received')) = received'
    BY <1>1, <2>2, <2>5, PrefixIsSubSeq
  <2>7. Len(received') \in Len(received) + 1 .. Len(accepted)
    BY <1>1, <2>2, <2>3, <2>4, <2>5
  <2>8. Channel!Deliver
    BY <2>2, <2>6, <2>7 DEF Channel!Deliver
  <2> QED BY <2>8 DEF Channel!Next
<1>4. ASSUME UNCHANGED <<accepted, received>>, closed_' \in {closed_, TRUE}
      PROVE  Channel!Next \/ UNCHANGED Channel!chan
  BY <1>1, <1>4 DEF Channel!Next, Channel!Break, Channel!chan
<1>5. ASSUME NEW t \in Sender, NEW n \in PacketSize, SendPacket(t, n)
      PROVE  Channel!Next \/ UNCHANGED Channel!chan
  BY <1>4, <1>5 DEF SendPacket
<1>6. ASSUME NEW t \in Sender, AppendFails(t) \/ CallerCloses(t)
      PROVE  Channel!Next \/ UNCHANGED Channel!chan
  BY <1>4, <1>6 DEF AppendFails, CallerCloses
<1>7. CASE OnWriteComplete \/ WriteError \/ CloseSocket \/ UNCHANGED sendVars
  BY <1>4, <1>7 DEF OnWriteComplete, WriteError, CloseSocket, sendVars
<1>8. Channel!Accept => Channel!Next
  BY DEF Channel!Next
<1> QED BY <1>2, <1>3, <1>5, <1>6, <1>7, <1>8 DEF SendNext, SenderStep, Network

\* What ByteChannel says of every step: bytes arrive in the order in which they were
\* accepted, each once, and a channel breaks once.  (That they do arrive is liveness.)
SafeChannel == Channel!Init /\ [][Channel!Next]_(Channel!chan)

\* The sending side of a Socket implements the channel, every step of it.
THEOREM SocketSendIsChannel == SendSpec => SafeChannel
<1>1. SendInit => SendInv /\ Channel!Init
  BY InitSendInv DEF SendInit, Channel!Init
<1>2. SendInv /\ [SendNext]_sendVars => SendInv'
  BY NextSendInv
<1>3. SendInv /\ [SendNext]_sendVars => [Channel!Next]_(Channel!chan)
  BY StepOfChannel
<1> QED BY <1>1, <1>2, <1>3, PTL DEF SendSpec, SafeChannel

-----------------------------------------------------------------------------
(* SocketReceive                                                           *)

-----------------------------------------------------------------------------
(* Where the packets lie.  First is defined by recursion; that such a      *)
(* function exists is shown by its beginnings, by least counterexamples.   *)

LEMMA LeastNatural ==
  ASSUME NEW T, T \subseteq Nat, T # {}
  PROVE  \E x \in T : \A y \in T : x <= y
<1> DEFINE R == OpToRel(<, Nat)
<1>1. IsWellFoundedOn(R, Nat)
  BY NatLessThanWellFounded
<1>2. \A x, y \in Nat : y < x => <<y, x>> \in R
  BY DEF OpToRel
<1> HIDE DEF R
<1>3. PICK x \in T : \A y \in T : <<y, x>> \notin R
  BY <1>1, WFMin
<1>4. ASSUME NEW y \in T PROVE x <= y
  <2>1. x \in Nat /\ y \in Nat
    OBVIOUS
  <2>2. ~(y < x)
    BY <1>2, <1>3, <2>1
  <2> QED BY <2>1, <2>2
<1> QED BY <1>4

\* The recursion of First, and its beginning up to place n.
Next1(s, f, k) == IF k <= 1 THEN 1 ELSE f[k - 1] + HeaderSize + s[k - 1].size
Begins(s, f, n) == f = [k \in 0 .. n |-> Next1(s, f, k)]

LEMMA BeginningExists ==
  ASSUME NEW s, NEW n \in Nat
  PROVE  \E f : Begins(s, f, n)
<1> DEFINE T == {k \in Nat : ~\E f : Begins(s, f, k)}
<1> SUFFICES ASSUME T # {} PROVE FALSE
  BY DEF T
<1>1. PICK x \in T : \A y \in T : x <= y
  BY LeastNatural
<1>2. x \in Nat /\ ~\E f : Begins(s, f, x)
  OBVIOUS
<1>3. CASE x = 0
  <2> DEFINE g == [k \in 0 .. 0 |-> 1]
  <2>1. \A k \in 0 .. 0 : Next1(s, g, k) = 1
    BY DEF Next1
  <2>2. g = [k \in 0 .. 0 |-> Next1(s, g, k)]
    BY <2>1
  <2> QED BY <1>2, <1>3, <2>2 DEF Begins
<1>4. CASE x # 0
  <2>1. x - 1 \in Nat /\ x - 1 \notin T
    BY <1>1, <1>2, <1>4
  <2>2. PICK f : Begins(s, f, x - 1)
    BY <2>1
  <2> DEFINE g == [k \in 0 .. x |-> IF k < x THEN f[k] ELSE Next1(s, f, x)]
  <2>3. ASSUME NEW k \in 0 .. x PROVE g[k] = Next1(s, g, k)
    <3>1. CASE k < x
      <4>1. k \in 0 .. x - 1 /\ g[k] = f[k]
        BY <1>2, <3>1
      <4>2. f[k] = Next1(s, f, k)
        BY <2>2, <4>1 DEF Begins
      <4>3. k > 1 => g[k - 1] = f[k - 1]
        BY <1>2, <3>1
      <4>4. Next1(s, g, k) = Next1(s, f, k)
        BY <1>2, <4>3 DEF Next1
      <4> QED BY <4>1, <4>2, <4>4
    <3>2. CASE ~(k < x)
      <4>1. k = x /\ g[x] = Next1(s, f, x) /\ g[x - 1] = f[x - 1]
        BY <1>2, <1>4, <3>2
      <4>2. Next1(s, g, x) = Next1(s, f, x)
        BY <1>2, <4>1 DEF Next1
      <4> QED BY <4>1, <4>2
    <3> QED BY <3>1, <3>2
  <2>4. g = [k \in 0 .. x |-> g[k]]
    OBVIOUS
  <2>5. g = [k \in 0 .. x |-> Next1(s, g, k)]
    BY <2>3, <2>4
  <2> QED BY <1>2, <2>5 DEF Begins
<1> QED BY <1>3, <1>4

LEMMA BeginningsAgree ==
  ASSUME NEW s, NEW m \in Nat, NEW n \in Nat, NEW f, NEW g, Begins(s, f, m), Begins(s, g, n),
         NEW k \in Nat, k <= m, k <= n
  PROVE  f[k] = g[k]
<1> DEFINE T == {j \in Nat : j <= m /\ j <= n /\ f[j] # g[j]}
<1> SUFFICES ASSUME T # {} PROVE FALSE
  BY DEF T
<1>1. PICK x \in T : \A y \in T : x <= y
  BY LeastNatural
<1>2. x \in Nat /\ x <= m /\ x <= n /\ f[x] # g[x]
  OBVIOUS
<1>3. x \in 0 .. m /\ x \in 0 .. n
  BY <1>2
<1>4. f[x] = Next1(s, f, x) /\ g[x] = Next1(s, g, x)
  BY <1>3 DEF Begins
<1>5. x > 1 => f[x - 1] = g[x - 1]
  <2>1. x > 1 => x - 1 \in Nat /\ x - 1 <= m /\ x - 1 <= n /\ ~(x <= x - 1)
    BY <1>2
  <2> QED BY <1>1, <2>1
<1>6. Next1(s, f, x) = Next1(s, g, x)
  BY <1>2, <1>5 DEF Next1
<1> QED BY <1>2, <1>4, <1>6

LEMMA FirstExists ==
  ASSUME NEW s
  PROVE  First(s) = [k \in Nat |-> Next1(s, First(s), k)]
<1> DEFINE B(k) == CHOOSE f : Begins(s, f, k)
<1> DEFINE h == [k \in Nat |-> B(k)[k]]
<1>1. \A k \in Nat : Begins(s, B(k), k)
  BY BeginningExists
<1> HIDE DEF B
<1>2. ASSUME NEW k \in Nat PROVE h[k] = Next1(s, h, k)
  <2>1. h[k] = B(k)[k]
    OBVIOUS
  <2>2. B(k)[k] = Next1(s, B(k), k)
    BY <1>1 DEF Begins
  <2>3. k > 1 => h[k - 1] = B(k)[k - 1]
    <3> SUFFICES ASSUME k > 1 PROVE h[k - 1] = B(k)[k - 1]
      OBVIOUS
    <3>1. k - 1 \in Nat /\ k - 1 <= k /\ k - 1 <= k - 1
      OBVIOUS
    <3>2. h[k - 1] = B(k - 1)[k - 1]
      BY <3>1
    <3>3. Begins(s, B(k), k) /\ Begins(s, B(k - 1), k - 1)
      BY <1>1, <3>1
    <3>4. B(k - 1)[k - 1] = B(k)[k - 1]
      BY <3>1, <3>3, BeginningsAgree
    <3> QED BY <3>2, <3>4
  <2>4. Next1(s, h, k) = Next1(s, B(k), k)
    BY <2>3 DEF Next1
  <2> QED BY <2>1, <2>2, <2>4
<1>3. h = [k \in Nat |-> h[k]]
  OBVIOUS
<1> HIDE DEF h
<1>4. h = [k \in Nat |-> Next1(s, h, k)]
  BY <1>2, <1>3
<1>5. h = [k \in Nat |-> IF k <= 1 THEN 1 ELSE h[k - 1] + HeaderSize + s[k - 1].size]
  BY <1>4 DEF Next1
<1>6. First(s) = CHOOSE f :
         f = [k \in Nat |-> IF k <= 1 THEN 1 ELSE f[k - 1] + HeaderSize + s[k - 1].size]
  BY DEF First
<1>7. First(s) = [k \in Nat |-> IF k <= 1 THEN 1
                                ELSE First(s)[k - 1] + HeaderSize + s[k - 1].size]
  BY <1>5, <1>6
<1> QED BY <1>7 DEF Next1

\* The packets follow each other without a gap or an overlap, and none is empty.
LEMMA FirstSteps ==
  ASSUME NEW s, NEW n \in Nat, s \in [1 .. n -> Packet]
  PROVE  /\ First(s)[0] = 1 /\ First(s)[1] = 1
         /\ \A k \in 1 .. n : First(s)[k + 1] = First(s)[k] + HeaderSize + s[k].size
<1> DEFINE F == First(s)
<1>1. F = [k \in Nat |-> Next1(s, F, k)]
  BY FirstExists
<1> HIDE DEF F
<1>2. \A k \in Nat : F[k] = Next1(s, F, k)
  BY <1>1
<1>3. F[0] = 1 /\ F[1] = 1
  BY <1>2 DEF Next1
<1>4. ASSUME NEW k \in 1 .. n PROVE F[k + 1] = F[k] + HeaderSize + s[k].size
  <2>1. k + 1 \in Nat /\ ~(k + 1 <= 1) /\ (k + 1) - 1 = k
    OBVIOUS
  <2>2. F[k + 1] = Next1(s, F, k + 1)
    BY <1>2, <2>1
  <2> QED BY <2>1, <2>2 DEF Next1
<1> QED BY <1>3, <1>4 DEF F

LEMMA FirstNumbers ==
  ASSUME NEW s, NEW n \in Nat, s \in [1 .. n -> Packet]
  PROVE  \A k \in 1 .. n + 1 : First(s)[k] \in Nat /\ First(s)[k] >= 1
<1> DEFINE F == First(s)
<1> DEFINE T == {k \in Nat : k >= 1 /\ k <= n + 1 /\ ~(F[k] \in Nat /\ F[k] >= 1)}
<1> SUFFICES ASSUME T # {} PROVE FALSE
  BY DEF T
<1>1. PICK x \in T : \A y \in T : x <= y
  BY LeastNatural
<1>2. x \in Nat /\ x >= 1 /\ x <= n + 1 /\ ~(F[x] \in Nat /\ F[x] >= 1)
  OBVIOUS
<1>3. x # 1
  BY <1>2, FirstSteps
<1>4. x - 1 \in 1 .. n /\ (x - 1) + 1 = x
  BY <1>2, <1>3
<1>5. x - 1 \notin T
  BY <1>1, <1>2
<1>6. F[x - 1] \in Nat /\ F[x - 1] >= 1
  BY <1>4, <1>5
<1>7. F[(x - 1) + 1] = F[x - 1] + HeaderSize + s[x - 1].size
  BY <1>4, FirstSteps
<1>8. s[x - 1].size \in Nat
  BY <1>4, ReceiveConstants DEF Packet
<1> HIDE DEF F
<1>9. F[x] = F[x - 1] + HeaderSize + s[x - 1].size
  BY <1>4, <1>7, Zenon
<1>10. HeaderSize \in Nat
  BY ReceiveConstants
<1> QED BY <1>2, <1>6, <1>8, <1>9, <1>10

\* A later packet begins after the header and the payload of an earlier one.
LEMMA FirstGrows ==
  ASSUME NEW s, NEW n \in Nat, s \in [1 .. n -> Packet],
         NEW j \in 1 .. n, NEW k \in 1 .. n + 1, j < k
  PROVE  First(s)[j] + HeaderSize + s[j].size <= First(s)[k]
<1> DEFINE F == First(s)
<1> DEFINE T == {i \in Nat : j < i /\ i <= n + 1 /\ ~(F[j] + HeaderSize + s[j].size <= F[i])}
<1> SUFFICES ASSUME T # {} PROVE FALSE
  BY DEF T
<1>1. PICK x \in T : \A y \in T : x <= y
  BY LeastNatural
<1>2. x \in Nat /\ j < x /\ x <= n + 1 /\ ~(F[j] + HeaderSize + s[j].size <= F[x])
  OBVIOUS
<1>3. \A i \in 1 .. n : F[i + 1] = F[i] + HeaderSize + s[i].size
  BY FirstSteps
<1>4. \A i \in 1 .. n + 1 : F[i] \in Nat
  BY FirstNumbers
<1>5. \A i \in 1 .. n : s[i].size \in Nat
  BY ReceiveConstants DEF Packet
<1> HIDE DEF F
<1>6. x # j + 1
  <2>1. CASE x = j + 1
    <3>1. F[x] = F[j] + HeaderSize + s[j].size
      BY <1>3, <2>1
    <3> QED BY <1>2, <1>4, <1>5, <3>1, ReceiveConstants
  <2> QED BY <2>1
<1>7. x - 1 \in 1 .. n /\ j < x - 1 /\ (x - 1) + 1 = x /\ x - 1 \in Nat /\ ~(x <= x - 1)
  BY <1>2, <1>6
<1>8. F[j] + HeaderSize + s[j].size <= F[x - 1]
  BY <1>1, <1>7
<1>9. F[x] = F[x - 1] + HeaderSize + s[x - 1].size
  <2>1. F[(x - 1) + 1] = F[x - 1] + HeaderSize + s[x - 1].size
    BY <1>3, <1>7
  <2> QED BY <1>7, <2>1
<1>10. /\ F[x - 1] \in Nat /\ F[x] \in Nat /\ F[j] \in Nat
       /\ s[x - 1].size \in Nat /\ s[j].size \in Nat /\ HeaderSize \in Nat
  <2>1. x \in 1 .. n + 1 /\ x - 1 \in 1 .. n + 1 /\ j \in 1 .. n + 1
    BY <1>2, <1>7
  <2> QED BY <1>4, <1>5, <1>7, <2>1, ReceiveConstants
<1>11. PICK a, b, c, d, e : /\ a = F[j] /\ b = s[j].size /\ c = F[x - 1]
                             /\ d = F[x] /\ e = s[x - 1].size
  OBVIOUS
<1>12. a \in Nat /\ b \in Nat /\ c \in Nat /\ d \in Nat /\ e \in Nat /\ HeaderSize \in Nat
  BY <1>10, <1>11
<1>13. a + HeaderSize + b <= c /\ d = c + HeaderSize + e
  BY <1>8, <1>9, <1>11
<1>14. a + HeaderSize + b <= d
  BY <1>12, <1>13
<1> QED BY <1>2, <1>11, <1>14

-----------------------------------------------------------------------------
(* The inductive invariant *)

Place(k) == First(stream)[k]
StreamByte == 0 .. Total(stream)

\* The readable bytes of b are those of the stream that follow the first `from`.
Holds(b, from) == \A i \in 1 .. length(b) : Content(b)[i] = from + i

\* The packet that is being cut, and how many bytes have left read_buffer_.
Cur == Len(handled) + 1
Parsed == arrived - length(read_buffer_)

HandledInv ==
    /\ Len(handled) <= Len(stream)
    /\ \A i \in 1 .. Len(handled) : /\ handled[i] = <<i, PayloadBytes(i)>>
                                    /\ \A j \in 1 .. i - 1 : stream[j].fate = "good"

\* As long as the connection is used: every packet that was cut was good, and the three
\* buffers hold the bytes of the stream that come one after the other.
GoodInv == \A j \in 1 .. Len(handled) : stream[j].fate = "good"
ReadInv ==
    /\ read_buffer_.size = ReadBufferSize
    /\ Holds(read_buffer_, Parsed)
    /\ pc = "reading" => space(read_buffer_) > 0
HeaderInv ==
    /\ m_Header.size = HeaderSize /\ m_Header.rd = 0
    /\ Holds(m_Header, Place(Cur) - 1)
    /\ space(m_Header) > 0 => /\ m_RecvWPct = None /\ m_RecvPct = Unassigned
                              /\ Parsed = Place(Cur) - 1 + length(m_Header)
PayloadInv ==
    space(m_Header) = 0 =>
        /\ m_RecvWPct = Cur /\ Cur <= Len(stream) /\ stream[Cur].fate # "malformed"
        /\ m_RecvPct.size = stream[Cur].size /\ m_RecvPct.rd = 0 /\ space(m_RecvPct) > 0
        /\ Holds(m_RecvPct, Place(Cur) + HeaderSize - 1)
        /\ Parsed = Place(Cur) - 1 + HeaderSize + length(m_RecvPct)

StreamInv == \E n \in 1 .. MaxPackets : stream \in [1 .. n -> Packet]

ReceiveInv ==
    /\ StreamInv
    /\ ReceiveTypeOK
    /\ HandledInv
    /\ pc # "closing" => GoodInv /\ ReadInv /\ HeaderInv /\ PayloadInv

-----------------------------------------------------------------------------

LEMMA StreamFacts ==
  ASSUME StreamInv
  PROVE  /\ Len(stream) \in Nat \ {0} /\ DOMAIN stream = 1 .. Len(stream)
         /\ \A k \in 1 .. Len(stream) : stream[k] \in Packet /\ stream[k].size \in Nat
         /\ Place(1) = 1
         /\ \A k \in 1 .. Len(stream) : Place(k + 1) = Place(k) + HeaderSize + stream[k].size
         /\ \A k \in 1 .. Len(stream) + 1 :
               Place(k) \in Nat /\ Place(k) >= 1 /\ Place(k) <= Total(stream) + 1
         /\ \A j \in 1 .. Len(stream), k \in 1 .. Len(stream) + 1 :
               j < k => Place(j) + HeaderSize + stream[j].size <= Place(k)
         /\ Total(stream) \in Nat /\ Place(Len(stream) + 1) = Total(stream) + 1
<1>1. PICK n \in 1 .. MaxPackets : stream \in [1 .. n -> Packet]
  BY DEF StreamInv
<1>2. n \in Nat \ {0}
  BY ReceiveConstants
<1>3. Len(stream) = n /\ DOMAIN stream = 1 .. n
  BY <1>1, <1>2, SeqOfFunction
<1>4. \A k \in 1 .. n : stream[k] \in Packet /\ stream[k].size \in Nat
  BY <1>1, ReceiveConstants DEF Packet
<1>5. /\ Place(1) = 1
      /\ \A k \in 1 .. n : Place(k + 1) = Place(k) + HeaderSize + stream[k].size
  BY <1>1, <1>2, FirstSteps DEF Place
<1>6. \A k \in 1 .. n + 1 : Place(k) \in Nat /\ Place(k) >= 1
  BY <1>1, <1>2, FirstNumbers DEF Place
<1>7. \A j \in 1 .. n, k \in 1 .. n + 1 :
         j < k => Place(j) + HeaderSize + stream[j].size <= Place(k)
  BY <1>1, <1>2, FirstGrows DEF Place
<1>8. Total(stream) = Place(n + 1) - 1
  BY <1>3 DEF Total, Place
<1>9. n + 1 \in 1 .. n + 1
  BY <1>2
<1>10. Place(n + 1) \in Nat /\ Place(n + 1) >= 1
  BY <1>6, <1>9
<1>11. Total(stream) \in Nat /\ Place(n + 1) = Total(stream) + 1
  BY <1>8, <1>10
<1>12. ASSUME NEW k \in 1 .. n + 1 PROVE Place(k) <= Total(stream) + 1
  <2>1. CASE k = n + 1
    BY <1>10, <1>11, <2>1
  <2>2. CASE k \in 1 .. n
    <3>1. k < n + 1
      BY <1>2, <2>2
    <3>2. Place(k) + HeaderSize + stream[k].size <= Place(n + 1)
      BY <1>7, <1>9, <2>2, <3>1
    <3>3. Place(k) \in Nat /\ stream[k].size \in Nat /\ HeaderSize \in Nat
      BY <1>4, <1>6, <2>2, ReceiveConstants
    <3> QED BY <1>10, <1>11, <3>2, <3>3
  <2> QED BY <1>2, <2>1, <2>2
<1> QED BY <1>2, <1>3, <1>4, <1>5, <1>6, <1>7, <1>11, <1>12

\* A packet is known by its first byte.
LEMMA FirstByteTells ==
  ASSUME StreamInv, NEW k \in 1 .. Len(stream), NEW c \in 1 .. Len(stream) + 1,
         Place(k) = Place(c)
  PROVE  k = c
<1>1. Len(stream) \in Nat /\ HeaderSize \in Nat /\ HeaderSize >= 1
  BY StreamFacts, ReceiveConstants
<1>2. /\ Place(k) \in Nat /\ Place(c) \in Nat
      /\ stream[k].size \in Nat /\ (c \in 1 .. Len(stream) => stream[c].size \in Nat)
  BY <1>1, StreamFacts
<1>3. ~(k < c)
  <2>1. k < c => Place(k) + HeaderSize + stream[k].size <= Place(c)
    BY StreamFacts
  <2> QED BY <1>1, <1>2, <2>1
<1>4. ~(c < k)
  <2>1. c < k => c \in 1 .. Len(stream) /\ k \in 1 .. Len(stream) + 1
    BY <1>1
  <2>2. c < k => Place(c) + HeaderSize + stream[c].size <= Place(k)
    BY <2>1, StreamFacts
  <2> QED BY <1>1, <1>2, <2>1, <2>2
<1> QED BY <1>1, <1>3, <1>4

-----------------------------------------------------------------------------
(* What one step of the cutting does to the buffers *)

\* Bytes that follow those of a buffer are appended to it.
LEMMA WriteHolds ==
  ASSUME NEW B, NEW b, IsBuffer(b, B), NEW from \in Int, Holds(b, from - length(b)),
         NEW bytes \in Seq(B), Len(bytes) <= space(b),
         \A i \in 1 .. Len(bytes) : bytes[i] = from + i
  PROVE  LET w == Write(b, bytes)
         IN /\ IsBuffer(w, B)
            /\ w.size = b.size /\ w.rd = b.rd
            /\ length(w) = length(b) + Len(bytes)
            /\ space(w) = space(b) - Len(bytes)
            /\ Holds(w, from - length(b))
<1>1. PICK w : w = Write(b, bytes)
  OBVIOUS
<1>2. PICK n, k, c, v : /\ n = Len(bytes) /\ k = length(b)
                        /\ c = Content(b) /\ v = Content(w)
  OBVIOUS
<1>3. n \in Nat /\ k \in Nat
  BY <1>2, BufferNumbers, LenProperties
<1>4. /\ IsBuffer(w, B)
      /\ w.size = b.size /\ w.rd = b.rd
      /\ length(w) = k + n
      /\ space(w) = space(b) - n
      /\ v = c \o bytes
  BY <1>1, <1>2, WriteProps
<1>5. c \in Seq(B) /\ Len(c) = k
  BY <1>2, ContentProps
<1>6. \A i \in 1 .. k + n : v[i] = IF i <= k THEN c[i] ELSE bytes[i - k]
  <2>1. \A i \in 1 .. Len(c) + Len(bytes) :
           (c \o bytes)[i] = IF i <= Len(c) THEN c[i] ELSE bytes[i - Len(c)]
    BY <1>5, ConcatProperties, Zenon
  <2> QED BY <1>2, <1>4, <1>5, <2>1, Zenon
<1>7. \A i \in 1 .. k : c[i] = (from - k) + i
  BY <1>2 DEF Holds
<1>8. ASSUME NEW i \in 1 .. k + n PROVE v[i] = (from - k) + i
  <2>1. CASE i <= k
    BY <1>3, <1>6, <1>7, <2>1
  <2>2. CASE ~(i <= k)
    <3>1. i - k \in 1 .. n
      BY <1>3, <2>2
    <3>2. bytes[i - k] = from + (i - k)
      BY <1>2, <3>1
    <3> QED BY <1>3, <1>6, <2>2, <3>2
  <2> QED BY <2>1, <2>2
<1>9. Holds(w, from - k)
  BY <1>2, <1>4, <1>8 DEF Holds
<1> QED BY <1>1, <1>2, <1>4, <1>9

\* From the buffer b the next n bytes go to the buffer that holds the bytes before them, which
\* becomes m and leaves l.
Transfers(B, b, to, from, m, l, n) ==
    /\ n \in Nat /\ n <= length(b) /\ n <= space(to)
    /\ IsBuffer(m, B) /\ m.size = to.size /\ m.rd = to.rd
    /\ length(m) = length(to) + n /\ space(m) = space(to) - n
    /\ Holds(m, from - length(to))
    /\ IsBuffer(l, B) /\ l.size = b.size /\ length(l) = length(b) - n
    /\ Holds(l, from + n)

LEMMA MovedProps ==
  ASSUME NEW B, NEW b, NEW to, IsBuffer(b, B), IsBuffer(to, B), NEW from \in Int,
         Holds(b, from), Holds(to, from - length(to))
  PROVE  Transfers(B, b, to, from, Moved(b, to), Left(b, to), Share(b, to))
<1> DEFINE m == Moved(b, to)
<1> DEFINE l == Left(b, to)
<1> DEFINE n == Share(b, to)
<1>0. m = Moved(b, to) /\ l = Left(b, to) /\ n = Share(b, to)
  OBVIOUS
<1> HIDE DEF m, l, n
<1>1. /\ length(b) \in Nat /\ length(to) \in Nat /\ space(to) \in Nat
  BY BufferNumbers
<1>2. n \in Nat /\ n <= length(b) /\ n <= space(to) /\ n \in 0 .. length(b)
  BY <1>0, <1>1 DEF Share
<1>3. PICK bytes : bytes = ReadData(b, n)
  OBVIOUS
<1>4. /\ bytes \in Seq(B) /\ Len(bytes) = n
      /\ \A i \in 1 .. n : bytes[i] = b.data[b.rd + i - 1]
  BY <1>2, <1>3, ReadDataProps
<1>5. \A i \in 1 .. length(b) : Content(b)[i] = b.data[b.rd + i - 1]
  BY ContentProps
<1>6. ASSUME NEW i \in 1 .. n PROVE bytes[i] = from + i
  <2>1. i \in 1 .. length(b)
    BY <1>1, <1>2
  <2>2. bytes[i] = Content(b)[i]
    BY <1>4, <1>5, <2>1
  <2> QED BY <2>1, <2>2 DEF Holds
<1>7. m = Write(to, bytes) /\ l = Consume(b, n)
  BY <1>0, <1>3 DEF Moved, Left
<1>8. /\ IsBuffer(m, B) /\ m.size = to.size /\ m.rd = to.rd
      /\ length(m) = length(to) + n /\ space(m) = space(to) - n
      /\ Holds(m, from - length(to))
  BY <1>2, <1>4, <1>6, <1>7, WriteHolds
<1>9. /\ IsBuffer(l, B) /\ l.size = b.size /\ length(l) = length(b) - n
      /\ \A i \in 1 .. length(b) - n : Content(l)[i] = Content(b)[n + i]
  BY <1>2, <1>7, ConsumeProps
<1>10. ASSUME NEW i \in 1 .. length(l) PROVE Content(l)[i] = (from + n) + i
  <2>1. i \in 1 .. length(b) - n /\ n + i \in 1 .. length(b)
    BY <1>1, <1>2, <1>9
  <2>2. Content(l)[i] = Content(b)[n + i] /\ Content(b)[n + i] = from + (n + i)
    BY <1>9, <2>1 DEF Holds
  <2> QED BY <1>2, <2>1, <2>2
<1>11. Holds(l, from + n)
  BY <1>10 DEF Holds
<1>12. Transfers(B, b, to, from, m, l, n)
  BY <1>2, <1>8, <1>9, <1>11 DEF Transfers
<1> QED BY <1>0, <1>12


LEMMA UnassignedProps ==
  ASSUME StreamInv
  PROVE  /\ IsBuffer(Unassigned, StreamByte) /\ length(Unassigned) = 0 /\ space(Unassigned) = 0
         /\ Unassigned.rd = 0 /\ Unassigned.wr = 0 /\ Unassigned.size = 0
<1>1. 0 \in StreamByte
  BY StreamFacts DEF StreamByte
<1> QED BY <1>1, AllocatedProps DEF Unassigned

\* A buffer without readable bytes holds them from everywhere.
LEMMA EmptyHolds ==
  ASSUME NEW b, length(b) = 0, NEW from
  PROVE  Holds(b, from)
  BY DEF Holds

\* The numbers of the invariant.
LEMMA ReceiveNumbers ==
  ASSUME ReceiveInv
  PROVE  /\ Len(handled) \in Nat /\ Len(handled) <= Len(stream)
         /\ Cur \in 1 .. Len(stream) + 1 /\ Place(Cur) \in Nat /\ Place(Cur) >= 1
         /\ arrived \in Nat /\ arrived <= Total(stream) /\ Total(stream) \in Nat
         /\ IsBuffer(read_buffer_, StreamByte) /\ IsBuffer(m_Header, StreamByte)
         /\ IsBuffer(m_RecvPct, StreamByte)
         /\ length(read_buffer_) \in Nat /\ space(read_buffer_) \in Nat
         /\ length(m_Header) \in Nat /\ space(m_Header) \in Nat
         /\ Parsed \in Int
         /\ HeaderSize \in Nat /\ HeaderSize >= 1
<1>1. StreamInv /\ ReceiveTypeOK /\ HandledInv
  BY DEF ReceiveInv
<1>2. Len(handled) \in Nat /\ Len(handled) <= Len(stream)
  BY <1>1, LenProperties DEF ReceiveTypeOK, HandledInv
<1>3. Len(stream) \in Nat /\ Total(stream) \in Nat
  BY <1>1, StreamFacts
<1>4. Cur \in 1 .. Len(stream) + 1
  BY <1>2, <1>3 DEF Cur
<1>5. Place(Cur) \in Nat /\ Place(Cur) >= 1
  BY <1>1, <1>4, StreamFacts
<1>6. arrived \in Nat /\ arrived <= Total(stream)
  BY <1>1, <1>3 DEF ReceiveTypeOK
<1>7. /\ IsBuffer(read_buffer_, StreamByte) /\ IsBuffer(m_Header, StreamByte)
      /\ IsBuffer(m_RecvPct, StreamByte)
  BY <1>1 DEF ReceiveTypeOK, StreamByte
<1>8. /\ length(read_buffer_) \in Nat /\ space(read_buffer_) \in Nat
      /\ length(m_Header) \in Nat /\ space(m_Header) \in Nat
  BY <1>7, BufferNumbers
<1>9. Parsed \in Int
  BY <1>6, <1>8 DEF Parsed
<1>10. HeaderSize \in Nat /\ HeaderSize >= 1
  BY ReceiveConstants
<1> QED BY <1>2, <1>3, <1>4, <1>5, <1>6, <1>7, <1>8, <1>9, <1>10

-----------------------------------------------------------------------------
(* The invariant is inductive *)

LEMMA InitReceiveInv == ReceiveInit => ReceiveInv
<1> SUFFICES ASSUME ReceiveInit PROVE ReceiveInv
  OBVIOUS
<1>1. StreamInv
  BY DEF ReceiveInit, StreamInv
<1>2. 0 \in StreamByte /\ Total(stream) \in Nat
  BY <1>1, StreamFacts DEF StreamByte
<1>3. /\ IsBuffer(read_buffer_, StreamByte) /\ length(read_buffer_) = 0
      /\ space(read_buffer_) = ReadBufferSize /\ read_buffer_.size = ReadBufferSize
  BY <1>2, AllocatedProps, ReceiveConstants DEF ReceiveInit
<1>4. /\ IsBuffer(m_Header, StreamByte) /\ length(m_Header) = 0
      /\ space(m_Header) = HeaderSize /\ m_Header.size = HeaderSize /\ m_Header.rd = 0
  BY <1>2, AllocatedProps, ReceiveConstants DEF ReceiveInit
<1>5. IsBuffer(m_RecvPct, StreamByte)
  BY <1>1, UnassignedProps DEF ReceiveInit
<1>6. handled = << >> /\ Len(handled) = 0 /\ \A S : handled \in Seq(S)
  BY EmptySeq DEF ReceiveInit
<1>7. ReceiveTypeOK
  BY <1>2, <1>3, <1>4, <1>5, <1>6 DEF ReceiveInit, ReceiveTypeOK, StreamByte
<1>8. HandledInv /\ GoodInv
  BY <1>1, <1>6, StreamFacts DEF HandledInv, GoodInv
<1>9. Cur = 1 /\ Place(Cur) = 1 /\ Parsed = 0
  BY <1>1, <1>3, <1>6, StreamFacts DEF Cur, Parsed, ReceiveInit
<1>10. ReadInv
  BY <1>3, EmptyHolds, ReceiveConstants DEF ReadInv
<1>11. HeaderInv
  BY <1>4, <1>9, EmptyHolds DEF HeaderInv, ReceiveInit
<1>12. PayloadInv
  BY <1>4, ReceiveConstants DEF PayloadInv
<1> QED BY <1>1, <1>7, <1>8, <1>10, <1>11, <1>12 DEF ReceiveInv

\* What a step leaves alone that cuts nothing.
cutting == <<stream, m_Header, m_RecvPct, m_RecvWPct, handled>>

LEMMA UncutKeepsIInv ==
  ASSUME ReceiveInv, UNCHANGED cutting,
         arrived' \in 0 .. Total(stream), IsBuffer(read_buffer_', StreamByte),
         pc' \in {"reading", "processing", "closing"}, closed_' \in BOOLEAN,
         pc' # "closing" => /\ pc # "closing"
                            /\ read_buffer_'.size = ReadBufferSize
                            /\ Parsed' = Parsed
                            /\ Holds(read_buffer_', Parsed)
                            /\ pc' = "reading" => space(read_buffer_') > 0
  PROVE  ReceiveInv'
<1>1. StreamInv'
  BY DEF ReceiveInv, StreamInv, cutting
<1>2. ReceiveTypeOK'
  BY DEF ReceiveInv, ReceiveTypeOK, StreamByte, cutting
<1>3. HandledInv'
  BY DEF ReceiveInv, HandledInv, PayloadBytes, cutting
<1>4. ASSUME pc' # "closing" PROVE GoodInv' /\ ReadInv' /\ HeaderInv' /\ PayloadInv'
  <2>1. GoodInv /\ HeaderInv /\ PayloadInv
    BY <1>4 DEF ReceiveInv
  <2>2. GoodInv'
    BY <2>1 DEF GoodInv, cutting
  <2>3. ReadInv'
    BY <1>4 DEF ReadInv
  <2>4. HeaderInv'
    BY <1>4, <2>1 DEF HeaderInv, Cur, Place, cutting
  <2>5. PayloadInv'
    BY <1>4, <2>1 DEF PayloadInv, Cur, Place, cutting
  <2> QED BY <2>2, <2>3, <2>4, <2>5
<1> QED BY <1>1, <1>2, <1>3, <1>4 DEF ReceiveInv

LEMMA ReadCompleteStep == ASSUME ReceiveInv, ReadComplete PROVE ReceiveInv'
<1>1. PICK n \in 1 .. space(read_buffer_) :
         /\ arrived + n <= Total(stream)
         /\ read_buffer_' = Commit(Fill(read_buffer_, Bytes(arrived + 1, n)), n)
         /\ arrived' = arrived + n
  BY DEF ReadComplete
<1>2. PICK bytes : bytes = Bytes(arrived + 1, n)
  OBVIOUS
<1>3. /\ arrived \in Nat /\ Total(stream) \in Nat
      /\ space(read_buffer_) \in Nat /\ length(read_buffer_) \in Nat
      /\ IsBuffer(read_buffer_, StreamByte) /\ Parsed = arrived - length(read_buffer_)
  BY ReceiveNumbers DEF Parsed
<1>4. n \in Nat /\ n >= 1 /\ n <= space(read_buffer_)
  BY <1>3
<1>5. \A i \in 1 .. n : arrived + 1 + i - 1 = arrived + i /\ arrived + i \in StreamByte
  BY <1>1, <1>3, <1>4 DEF StreamByte
<1>6. /\ bytes \in Seq(StreamByte) /\ Len(bytes) = n
      /\ \A i \in 1 .. n : bytes[i] = arrived + i
  <2>1. bytes = [i \in 1 .. n |-> arrived + 1 + i - 1]
    BY <1>2 DEF Bytes
  <2>2. bytes \in [1 .. n -> StreamByte]
    BY <1>5, <2>1
  <2>3. \A i \in 1 .. n : bytes[i] = arrived + i
    BY <1>5, <2>1
  <2> QED BY <1>4, <2>2, <2>3, SeqOfFunction
<1>7. read_buffer_' = Write(read_buffer_, bytes)
  <2>1. ~(Len(bytes) > space(read_buffer_))
    BY <1>3, <1>4, <1>6
  <2> QED BY <1>1, <1>2, <1>6, <2>1 DEF Write
<1>8. pc = "reading" /\ pc' = "processing" /\ UNCHANGED <<cutting, closed_>>
  BY DEF ReadComplete, cutting
<1>9. /\ read_buffer_.size = ReadBufferSize
      /\ Holds(read_buffer_, arrived - length(read_buffer_))
  BY <1>3, <1>8 DEF ReceiveInv, ReadInv
<1>10. /\ IsBuffer(read_buffer_', StreamByte) /\ read_buffer_'.size = ReadBufferSize
       /\ length(read_buffer_') = length(read_buffer_) + n
       /\ Holds(read_buffer_', arrived - length(read_buffer_))
  <2>1. PICK b : b = read_buffer_
    OBVIOUS
  <2>2. /\ IsBuffer(b, StreamByte) /\ Holds(b, arrived - length(b)) /\ Len(bytes) <= space(b)
        /\ arrived \in Int
    BY <1>3, <1>4, <1>6, <1>9, <2>1
  <2>3. LET w == Write(b, bytes)
        IN /\ IsBuffer(w, StreamByte) /\ w.size = b.size
           /\ length(w) = length(b) + n /\ Holds(w, arrived - length(b))
    BY <1>6, <2>2, WriteHolds
  <2> QED BY <1>7, <1>9, <2>1, <2>3
<1>11. Parsed' = Parsed
  BY <1>1, <1>3, <1>4, <1>10 DEF Parsed
<1>12. arrived' \in 0 .. Total(stream)
  BY <1>1, <1>3, <1>4
<1>13. closed_' \in BOOLEAN
  BY <1>8 DEF ReceiveInv, ReceiveTypeOK
<1> QED BY <1>3, <1>8, <1>10, <1>11, <1>12, <1>13, UncutKeepsIInv

LEMMA StartAsyncReadStep == ASSUME ReceiveInv, StartAsyncRead PROVE ReceiveInv'
<1>1. /\ pc = "processing" /\ length(read_buffer_) = 0
      /\ UNCHANGED <<cutting, arrived, closed_>>
  BY DEF StartAsyncRead, cutting
<1>2. IsBuffer(read_buffer_, StreamByte) /\ arrived \in 0 .. Total(stream) /\ closed_ \in BOOLEAN
  BY ReceiveNumbers DEF ReceiveInv, ReceiveTypeOK
<1>3. CASE closed_
  <2>1. pc' = "closing" /\ UNCHANGED read_buffer_
    BY <1>3 DEF StartAsyncRead
  <2> QED BY <1>1, <1>2, <2>1, UncutKeepsIInv
<1>4. CASE ~closed_
  <2>1. pc' = "reading" /\ read_buffer_' = Prepare(read_buffer_)
    BY <1>4 DEF StartAsyncRead
  <2>2. read_buffer_.size = ReadBufferSize
    BY <1>1 DEF ReceiveInv, ReadInv
  <2>3. PICK b : b = read_buffer_
    OBVIOUS
  <2>4. LET p == Prepare(b)
        IN IsBuffer(p, StreamByte) /\ p.size = b.size /\ length(p) = length(b)
           /\ space(p) = b.size - length(b)
    BY <1>2, <2>3, PrepareProps
  <2>5. /\ IsBuffer(read_buffer_', StreamByte) /\ read_buffer_'.size = ReadBufferSize
        /\ length(read_buffer_') = 0 /\ space(read_buffer_') = ReadBufferSize
    BY <1>1, <2>1, <2>2, <2>3, <2>4, ReceiveConstants
  <2>6. Parsed' = Parsed
    BY <1>1, <2>5 DEF Parsed
  <2>7. Holds(read_buffer_', Parsed)
    BY <2>5, EmptyHolds
  <2>8. space(read_buffer_') > 0
    BY <2>5, ReceiveConstants
  <2> QED BY <1>1, <1>2, <2>1, <2>5, <2>6, <2>7, <2>8, UncutKeepsIInv
<1> QED BY <1>2, <1>3, <1>4

LEMMA ClosingStep == ASSUME ReceiveInv, ReadError \/ CloseByOther PROVE ReceiveInv'
<1>1. /\ UNCHANGED <<cutting, arrived, read_buffer_>> /\ closed_' = TRUE
      /\ pc' \in {pc, "closing"}
  BY DEF ReadError, CloseByOther, cutting
<1>2. /\ IsBuffer(read_buffer_, StreamByte) /\ arrived \in 0 .. Total(stream)
      /\ pc \in {"reading", "processing", "closing"}
  BY ReceiveNumbers DEF ReceiveInv, ReceiveTypeOK
<1>3. Parsed' = Parsed
  BY <1>1 DEF Parsed
<1>4. pc # "closing" => ReadInv
  BY DEF ReceiveInv
<1> QED BY <1>1, <1>2, <1>3, <1>4, UncutKeepsIInv DEF ReadInv

\* A complete payload is the one of its packet.
LEMMA WholePayload ==
  ASSUME StreamInv, NEW k \in 1 .. Len(stream), NEW p, IsBuffer(p, StreamByte),
         p.size = stream[k].size, p.rd = 0, space(p) = 0,
         Holds(p, Place(k) + HeaderSize - 1)
  PROVE  /\ ReadData(p, p.size) = PayloadBytes(k)
         /\ PayloadBytes(k) \in Seq(1 .. Total(stream))
<1>1. PICK n, a, t : n = stream[k].size /\ a = Place(k) + HeaderSize /\ t = Total(stream)
  OBVIOUS
<1>2. n \in Nat /\ a \in Nat /\ a >= 1 /\ t \in Nat /\ a + n <= t + 1
  <2>1. k \in 1 .. Len(stream) + 1 /\ k + 1 \in 1 .. Len(stream) + 1
    BY StreamFacts
  <2>2. /\ Place(k) \in Nat /\ Place(k) >= 1 /\ stream[k].size \in Nat
        /\ Place(k + 1) = Place(k) + HeaderSize + stream[k].size
        /\ Place(k + 1) <= Total(stream) + 1 /\ Total(stream) \in Nat
    BY <2>1, StreamFacts
  <2> QED BY <1>1, <2>2, ReceiveConstants
<1>3. length(p) = n
  <2>1. p.size \in Nat /\ p.rd \in Nat /\ p.wr \in Nat /\ length(p) = p.wr - p.rd
        /\ space(p) = p.size - p.wr
    BY BufferNumbers
  <2> QED BY <1>1, <2>1
<1>4. PICK c : c = ReadData(p, n)
  OBVIOUS
<1>5. c = [i \in 1 .. n |-> p.data[p.rd + i - 1]] /\ c = Content(p)
  BY <1>3, <1>4 DEF ReadData, Content
<1>6. ASSUME NEW i \in 1 .. n PROVE c[i] = a + i - 1
  <2>1. c[i] = (Place(k) + HeaderSize - 1) + i
    BY <1>3, <1>5 DEF Holds
  <2>2. Place(k) \in Nat
    BY StreamFacts
  <2> QED BY <1>1, <1>2, <2>1, <2>2, ReceiveConstants
<1>7. c = [i \in 1 .. n |-> a + i - 1]
  BY <1>5, <1>6
<1>8. PayloadBytes(k) = [i \in 1 .. n |-> a + i - 1]
  BY <1>1 DEF PayloadBytes, Bytes, Place
<1>9. \A i \in 1 .. n : a + i - 1 \in 1 .. t
  BY <1>2
<1>10. [i \in 1 .. n |-> a + i - 1] \in [1 .. n -> 1 .. t]
  BY <1>9
<1>11. c \in Seq(1 .. t)
  BY <1>2, <1>7, <1>10, SeqOfFunction
<1>12. c = PayloadBytes(k)
  BY <1>7, <1>8, Zenon
<1> QED BY <1>1, <1>4, <1>11, <1>12, Zenon

\* What a step of the cutting leaves alone.
LEMMA CutTypes ==
  ASSUME ReceiveInv, UNCHANGED <<stream, arrived>>,
         IsBuffer(read_buffer_', StreamByte), IsBuffer(m_Header', StreamByte),
         IsBuffer(m_RecvPct', StreamByte),
         m_RecvWPct' \in DOMAIN stream \cup {None},
         handled' \in Seq((DOMAIN stream) \X Seq(1 .. Total(stream))),
         pc' \in {"reading", "processing", "closing"}, closed_' \in BOOLEAN
  PROVE  StreamInv' /\ ReceiveTypeOK'
<1>1. StreamInv'
  BY DEF ReceiveInv, StreamInv
<1>2. ReceiveTypeOK'
  BY DEF ReceiveInv, ReceiveTypeOK, StreamByte
<1> QED BY <1>1, <1>2

LEMMA ReceivePayloadStep ==
  ASSUME ReceiveInv, pc = "processing", NEW k \in 1 .. Len(stream), k = Cur,
         stream[k].fate # "malformed",
         NEW h, IsBuffer(h, StreamByte), h.size = HeaderSize, h.rd = 0, space(h) = 0,
         Holds(h, Place(k) - 1),
         NEW p, IsBuffer(p, StreamByte), p.size = stream[k].size, p.rd = 0,
         Holds(p, Place(k) + HeaderSize - 1),
         NEW b, IsBuffer(b, StreamByte), b.size = ReadBufferSize, Holds(b, arrived - length(b)),
         arrived - length(b) = Place(k) - 1 + HeaderSize + length(p),
         ReceivePayload(k, h, p, b)
  PROVE  ReceiveInv'
<1>1. /\ StreamInv /\ ReceiveTypeOK /\ HandledInv /\ GoodInv
      /\ Len(handled) \in Nat /\ Len(handled) <= Len(stream) /\ k = Len(handled) + 1
      /\ Place(k) \in Nat /\ Place(k) >= 1 /\ arrived \in Nat
      /\ HeaderSize \in Nat /\ HeaderSize >= 1
  BY ReceiveNumbers DEF ReceiveInv, Cur
<1>2. /\ length(b) \in Nat /\ length(p) \in Nat /\ space(p) \in Nat
      /\ stream[k].size \in Nat
  BY <1>1, BufferNumbers, StreamFacts
<1>3. PICK full, left :
         /\ full = IF space(p) > 0 THEN Moved(b, p) ELSE p
         /\ left = IF space(p) > 0 THEN Left(b, p) ELSE b
         /\ PartOfPayload(k, h, full, left) \/ HandlePayload(k, h, full, left)
  BY DEF ReceivePayload
<1>4. /\ IsBuffer(full, StreamByte) /\ full.size = stream[k].size /\ full.rd = 0
      /\ Holds(full, Place(k) + HeaderSize - 1)
      /\ IsBuffer(left, StreamByte) /\ left.size = ReadBufferSize
      /\ Holds(left, arrived - length(left))
      /\ arrived - length(left) = Place(k) - 1 + HeaderSize + length(full)
      /\ length(left) \in Nat /\ length(full) \in Nat /\ space(full) \in Nat
  <2>1. CASE space(p) > 0
    <3>1. PICK from, n : from = arrived - length(b) /\ n = Share(b, p)
      OBVIOUS
    <3>8. PICK a, u, v : a = Place(k) /\ u = length(p) /\ v = length(b)
      OBVIOUS
    <3>9. from \in Int /\ from = a - 1 + HeaderSize + u /\ a \in Nat /\ u \in Nat /\ v \in Nat
      BY <1>1, <1>2, <3>1, <3>8
    <3>2. from \in Int /\ from - length(p) = Place(k) + HeaderSize - 1
      <4>1. HeaderSize \in Nat
        BY ReceiveConstants
      <4>2. (a - 1 + HeaderSize + u) - u = a + HeaderSize - 1
        BY <3>9, <4>1
      <4>3. from - u = a + HeaderSize - 1
        BY <3>9, <4>2
      <4> QED BY <3>8, <3>9, <4>3
    <3>3. full = Moved(b, p) /\ left = Left(b, p)
      BY <1>3, <2>1
    <3>4. Holds(b, from) /\ Holds(p, from - length(p))
      BY <3>1, <3>2
    <3>5. /\ n \in Nat /\ n <= length(b)
          /\ IsBuffer(full, StreamByte) /\ full.size = p.size /\ full.rd = p.rd
          /\ length(full) = length(p) + n /\ space(full) = space(p) - n
          /\ Holds(full, from - length(p))
          /\ IsBuffer(left, StreamByte) /\ left.size = b.size /\ length(left) = length(b) - n
          /\ Holds(left, from + n)
      <4>1. PICK B : B = StreamByte
        OBVIOUS
      <4>2. /\ IsBuffer(b, B) /\ IsBuffer(p, B) /\ from \in Int
            /\ Holds(b, from) /\ Holds(p, from - length(p))
            /\ full = Moved(b, p) /\ left = Left(b, p) /\ n = Share(b, p)
        BY <3>1, <3>3, <3>4, <3>9, <4>1
      <4>3. Transfers(B, b, p, from, full, left, n)
        BY <4>2, MovedProps
      <4> QED BY <4>1, <4>3 DEF Transfers
    <3>6. /\ arrived - length(left) = from + n
          /\ arrived - length(left) = Place(k) - 1 + HeaderSize + length(full)
      <4>1. length(left) = v - n /\ length(full) = u + n /\ n \in Nat
        BY <3>5, <3>8
      <4>2. from = arrived - v /\ arrived \in Nat
        BY <1>1, <3>1, <3>8
      <4>3. arrived - (v - n) = from + n /\ arrived - (v - n) = a - 1 + HeaderSize + (u + n)
        BY <1>1, <3>9, <4>1, <4>2
      <4> QED BY <3>8, <4>1, <4>3
    <3>7. length(left) \in Nat /\ length(full) \in Nat /\ space(full) \in Nat
      BY <3>5, BufferNumbers
    <3> QED BY <3>2, <3>5, <3>6, <3>7
  <2>2. CASE ~(space(p) > 0)
    BY <1>2, <1>3, <2>2
  <2> QED BY <2>1, <2>2
<1>5. DOMAIN stream = 1 .. Len(stream) /\ Len(stream) \in Nat
  BY <1>1, StreamFacts
<1>6. /\ handled \in Seq((DOMAIN stream) \X Seq(1 .. Total(stream)))
      /\ pc \in {"reading", "processing", "closing"} /\ closed_ \in BOOLEAN
  BY <1>1 DEF ReceiveTypeOK
<1>7. CASE PartOfPayload(k, h, full, left)
  <2>1. /\ space(full) > 0
        /\ m_Header' = h /\ m_RecvWPct' = k /\ m_RecvPct' = full /\ read_buffer_' = left
        /\ UNCHANGED <<stream, arrived, handled, pc, closed_>>
    BY <1>7 DEF PartOfPayload
  <2>2. StreamInv' /\ ReceiveTypeOK'
    BY <1>4, <1>5, <1>6, <2>1, CutTypes
  <2>3. HandledInv' /\ GoodInv'
    BY <1>1, <2>1 DEF HandledInv, GoodInv, PayloadBytes
  <2>4. Cur' = k /\ Place(Cur)' = Place(k) /\ Parsed' = arrived - length(left)
    BY <2>1 DEF Cur, Place, Parsed
  <2>5. ReadInv'
    BY <1>4, <2>1, <2>4 DEF ReadInv
  <2>6. HeaderInv'
    BY <2>1, <2>4 DEF HeaderInv
  <2>7. PayloadInv'
    <3>1. k <= Len(stream)
      BY <1>5
    <3> QED BY <1>4, <2>1, <2>4, <3>1 DEF PayloadInv
  <2> QED BY <2>2, <2>3, <2>5, <2>6, <2>7 DEF ReceiveInv
<1>8. CASE HandlePayload(k, h, full, left)
  <2>1. /\ space(full) = 0
        /\ m_Header' = Reset(h) /\ m_RecvWPct' = None /\ m_RecvPct' = Unassigned
        /\ read_buffer_' = left
        /\ UNCHANGED <<stream, arrived>>
        /\ closed_ => UNCHANGED handled
        /\ ~closed_ => handled' = Append(handled, <<k, ReadData(full, full.size)>>)
        /\ closed_ \/ stream[k].fate = "refused" => pc' = "closing" /\ closed_' = TRUE
        /\ ~(closed_ \/ stream[k].fate = "refused") => UNCHANGED <<pc, closed_>>
    BY <1>8 DEF HandlePayload
  <2>2. /\ ReadData(full, full.size) = PayloadBytes(k)
        /\ PayloadBytes(k) \in Seq(1 .. Total(stream))
    BY <1>1, <1>4, <2>1, WholePayload
  <2>3. PICK e : e = <<k, PayloadBytes(k)>>
    OBVIOUS
  <2>4. e \in (DOMAIN stream) \X Seq(1 .. Total(stream))
    BY <1>5, <2>2, <2>3
  <2>5. ~closed_ =>
           /\ handled' \in Seq((DOMAIN stream) \X Seq(1 .. Total(stream)))
           /\ Len(handled') = k
           /\ \A i \in 1 .. k : handled'[i] = IF i = k THEN e ELSE handled[i]
    <3>1. ~closed_ => handled' = Append(handled, e)
      BY <2>1, <2>2, <2>3
    <3>2. PICK q, S : q = handled /\ S = (DOMAIN stream) \X Seq(1 .. Total(stream))
      OBVIOUS
    <3>3. q \in Seq(S) /\ e \in S /\ Len(q) + 1 = k
      BY <1>1, <1>6, <2>4, <3>2
    <3>4. /\ Append(q, e) \in Seq(S) /\ Len(Append(q, e)) = Len(q) + 1
          /\ \A i \in 1 .. Len(q) + 1 :
                Append(q, e)[i] = IF i <= Len(q) THEN q[i] ELSE e
      BY <3>3, AppendProperties
    <3>5. \A i \in 1 .. k : i <= Len(q) <=> i # k
      BY <1>1, <3>2, <3>3
    <3>6. \A i \in 1 .. k : Append(q, e)[i] = IF i = k THEN e ELSE q[i]
      BY <3>3, <3>4, <3>5
    <3> QED BY <3>1, <3>2, <3>3, <3>4, <3>6
  <2>6. PICK r : r = Reset(h)
    OBVIOUS
  <2>7. /\ IsBuffer(r, StreamByte) /\ r.size = HeaderSize /\ r.rd = 0
        /\ length(r) = 0 /\ space(r) = HeaderSize
    BY <2>6, ResetProps
  <2>8. StreamInv' /\ ReceiveTypeOK'
    <3>1. handled' \in Seq((DOMAIN stream) \X Seq(1 .. Total(stream)))
      BY <1>6, <2>1, <2>5
    <3>2. pc' \in {"reading", "processing", "closing"} /\ closed_' \in BOOLEAN
      BY <1>6, <2>1
    <3>3. IsBuffer(m_RecvPct', StreamByte)
      BY <1>1, <2>1, UnassignedProps
    <3>4. IsBuffer(read_buffer_', StreamByte) /\ IsBuffer(m_Header', StreamByte)
      BY <1>4, <2>1, <2>6, <2>7
    <3> QED BY <2>1, <3>1, <3>2, <3>3, <3>4, CutTypes
  <2>9. HandledInv'
    <3>1. CASE closed_
      BY <1>1, <2>1, <3>1 DEF HandledInv, PayloadBytes
    <3>2. CASE ~closed_
      <4>1. Len(handled') = k /\ k <= Len(stream') /\ stream' = stream
        BY <1>5, <2>1, <2>5, <3>2
      <4>2. ASSUME NEW i \in 1 .. k
            PROVE  /\ handled'[i] = <<i, PayloadBytes(i)>>
                   /\ \A j \in 1 .. i - 1 : stream[j].fate = "good"
        <5>1. CASE i = k
          BY <1>1, <2>3, <2>5, <3>2, <5>1 DEF GoodInv
        <5>2. CASE i # k
          <6>1. i \in 1 .. Len(handled)
            BY <1>1, <5>2
          <6> QED BY <1>1, <2>5, <3>2, <5>2, <6>1 DEF HandledInv
        <5> QED BY <5>1, <5>2
      <4>3. \A i : PayloadBytes(i)' = PayloadBytes(i)
        BY <4>1 DEF PayloadBytes
      <4> QED BY <4>1, <4>2, <4>3 DEF HandledInv
    <3> QED BY <3>1, <3>2
  <2>10. ASSUME pc' # "closing" PROVE GoodInv' /\ ReadInv' /\ HeaderInv' /\ PayloadInv'
    <3>1. ~closed_ /\ stream[k].fate # "refused"
      BY <2>1, <2>10
    <3>2. stream[k].fate = "good"
      <4>1. stream[k] \in Packet
        BY <1>1, StreamFacts
      <4> QED BY <3>1, <4>1 DEF Packet
    <3>3. Len(handled') = k /\ stream' = stream /\ pc' = "processing"
      BY <2>1, <2>5, <3>1
    <3>4. GoodInv'
      <4>1. ASSUME NEW j \in 1 .. k PROVE stream[j].fate = "good"
        <5>1. j = k \/ j \in 1 .. Len(handled)
          BY <1>1
        <5> QED BY <1>1, <3>2, <5>1 DEF GoodInv
      <4> QED BY <3>3, <4>1 DEF GoodInv
    <3>5. Parsed' = arrived - length(left) /\ length(full) = stream[k].size
      <4>1. length(full) = full.wr - full.rd /\ space(full) = full.size - full.wr
            /\ full.wr \in Nat
        BY <1>4, BufferNumbers
      <4>2. full.size = stream[k].size /\ full.rd = 0 /\ space(full) = 0
        BY <1>4, <2>1
      <4>3. length(full) = stream[k].size
        BY <1>2, <4>1, <4>2
      <4>4. Parsed' = arrived - length(left)
        BY <2>1 DEF Parsed
      <4> QED BY <4>3, <4>4
    <3>6. /\ Cur' = k + 1 /\ Place(Cur)' = Place(k + 1)
          /\ Place(k + 1) = Place(k) + HeaderSize + stream[k].size
      BY <1>1, <3>3, StreamFacts DEF Cur, Place
    <3>7. Parsed' = Place(k + 1) - 1 + length(r)
      <4>1. PICK a, z, u : a = Place(k) /\ z = stream[k].size /\ u = length(left)
        OBVIOUS
      <4>2. a \in Nat /\ z \in Nat /\ HeaderSize \in Nat
        BY <1>1, <1>2, <4>1
      <4>3. arrived - u = a - 1 + HeaderSize + z
        BY <1>4, <3>5, <4>1
      <4>4. Place(k + 1) = a + HeaderSize + z /\ Parsed' = arrived - u
        BY <3>5, <3>6, <4>1
      <4>5. a - 1 + HeaderSize + z = (a + HeaderSize + z) - 1 + 0
        BY <4>2
      <4> QED BY <2>7, <4>3, <4>4, <4>5
    <3>8. ReadInv'
      BY <1>4, <2>1, <3>3, <3>5 DEF ReadInv
    <3>9. HeaderInv'
      BY <2>1, <2>6, <2>7, <3>6, <3>7, EmptyHolds DEF HeaderInv
    <3>10. PayloadInv'
      BY <1>1, <2>1, <2>6, <2>7 DEF PayloadInv
    <3> QED BY <3>4, <3>8, <3>9, <3>10
  <2> QED BY <2>8, <2>9, <2>10 DEF ReceiveInv
<1> QED BY <1>3, <1>7, <1>8

\* A complete header.
LEMMA FullHeader ==
  ASSUME NEW B, NEW h, IsBuffer(h, B), h.rd = 0, space(h) = 0
  PROVE  length(h) = h.size
<1>1. length(h) = h.wr - h.rd /\ space(h) = h.size - h.wr /\ h.wr \in Nat /\ h.size \in Nat
  BY BufferNumbers
<1> QED BY <1>1

\* The header of a packet that is announced is that of the packet being cut.
LEMMA AnnouncedIsCur ==
  ASSUME ReceiveInv, NEW h, IsBuffer(h, StreamByte), h.size = HeaderSize, h.rd = 0, space(h) = 0,
         Holds(h, Place(Cur) - 1), NEW k \in Announced(h)
  PROVE  k = Cur /\ k \in 1 .. Len(stream) /\ stream[k].fate # "malformed"
<1>1. /\ StreamInv /\ Cur \in 1 .. Len(stream) + 1
      /\ Place(Cur) \in Nat /\ HeaderSize \in Nat /\ HeaderSize >= 1
  BY ReceiveNumbers DEF ReceiveInv
<1>2. k \in 1 .. Len(stream) /\ stream[k].fate # "malformed"
  BY <1>1, StreamFacts DEF Announced
<1>3. HeaderBytes(k) = ReadData(h, HeaderSize)
  BY DEF Announced
<1>4. length(h) = HeaderSize
  BY FullHeader
<1>5. ReadData(h, HeaderSize)[1] = Place(Cur)
  <2>1. Content(h) = ReadData(h, HeaderSize)
    BY <1>4 DEF Content
  <2>2. 1 \in 1 .. length(h)
    BY <1>1, <1>4
  <2>3. Content(h)[1] = Place(Cur) - 1 + 1
    BY <2>2 DEF Holds
  <2> QED BY <1>1, <2>1, <2>3
<1>6. HeaderBytes(k)[1] = Place(k)
  <2>1. Place(k) \in Nat
    BY <1>1, <1>2, StreamFacts
  <2>2. HeaderBytes(k) = [i \in 1 .. HeaderSize |-> Place(k) + i - 1]
    BY DEF HeaderBytes, Bytes, Place
  <2>3. 1 \in 1 .. HeaderSize
    BY <1>1
  <2>4. HeaderBytes(k)[1] = Place(k) + 1 - 1
    BY <2>2, <2>3
  <2> QED BY <2>1, <2>4
<1>7. k = Cur
  BY <1>1, <1>2, <1>3, <1>5, <1>6, FirstByteTells
<1> QED BY <1>2, <1>7

\* The buffer for the payload of a packet is empty when its header is complete.
LEMMA PayloadBuffer ==
  ASSUME StreamInv, NEW k \in 1 .. Len(stream), m_RecvPct = Unassigned, NEW p,
         p = IF stream[k].size > 0 THEN AssignBuffer(m_RecvPct, stream[k].size) ELSE m_RecvPct
  PROVE  IsBuffer(p, StreamByte) /\ p.size = stream[k].size /\ p.rd = 0 /\ length(p) = 0
<1>1. stream[k].size \in Nat
  BY StreamFacts
<1>2. 0 \in StreamByte
  BY StreamFacts DEF StreamByte
<1>3. CASE stream[k].size > 0
  <2>1. PICK n : n = stream[k].size
    OBVIOUS
  <2>2. Unassigned.rd = 0 /\ Unassigned.wr = 0
    BY UnassignedProps
  <2>3. p = [Allocated(n) EXCEPT !.rd = 0, !.wr = 0]
    BY <1>3, <2>1, <2>2 DEF AssignBuffer
  <2>4. p = Allocated(n)
    BY <2>3 DEF Allocated
  <2>5. /\ IsBuffer(Allocated(n), StreamByte) /\ length(Allocated(n)) = 0
        /\ Allocated(n).rd = 0 /\ Allocated(n).size = n
    BY <1>1, <1>2, <2>1, AllocatedProps
  <2> QED BY <2>1, <2>4, <2>5
<1>4. CASE ~(stream[k].size > 0)
  <2>1. stream[k].size = 0 /\ p = Unassigned
    BY <1>1, <1>4
  <2> QED BY <2>1, UnassignedProps
<1> QED BY <1>3, <1>4

\* The header takes its share of the bytes that were read.
LEMMA ReceiveHeaderStep ==
  ASSUME ReceiveInv, pc = "processing", space(m_Header) > 0,
         ReceiveHeader(Moved(read_buffer_, m_Header), Left(read_buffer_, m_Header))
  PROVE  ReceiveInv'
<1>1. PICK h, b, n : /\ h = Moved(read_buffer_, m_Header)
                     /\ b = Left(read_buffer_, m_Header)
                     /\ n = Share(read_buffer_, m_Header)
  OBVIOUS
<1>2. /\ StreamInv /\ ReceiveTypeOK /\ HandledInv /\ GoodInv
      /\ Holds(m_Header, Place(Cur) - 1) /\ Holds(read_buffer_, Parsed)
      /\ read_buffer_.size = ReadBufferSize /\ m_Header.size = HeaderSize /\ m_Header.rd = 0
      /\ m_RecvWPct = None /\ m_RecvPct = Unassigned
      /\ Parsed = Place(Cur) - 1 + length(m_Header)
  BY DEF ReceiveInv, ReadInv, HeaderInv
<1>3. PICK a, u, v, f : /\ a = Place(Cur) /\ u = length(m_Header) /\ v = length(read_buffer_)
                        /\ f = Parsed
  OBVIOUS
<1>4. /\ a \in Nat /\ a >= 1 /\ u \in Nat /\ v \in Nat /\ arrived \in Nat /\ HeaderSize \in Nat
      /\ f = a - 1 + u /\ f = arrived - v /\ f \in Int
  <2>1. f = arrived - v
    BY <1>3 DEF Parsed
  <2> QED BY <1>2, <1>3, <2>1, ReceiveNumbers
<1>5. Transfers(StreamByte, read_buffer_, m_Header, f, h, b, n)
  <2>1. PICK B, rb, to : B = StreamByte /\ rb = read_buffer_ /\ to = m_Header
    OBVIOUS
  <2>2. f - u = a - 1
    BY <1>4
  <2>3. /\ IsBuffer(rb, B) /\ IsBuffer(to, B) /\ Holds(rb, f) /\ Holds(to, f - length(to))
    BY <1>2, <1>3, <2>1, <2>2, ReceiveNumbers
  <2>4. Transfers(B, rb, to, f, Moved(rb, to), Left(rb, to), Share(rb, to))
    BY <1>4, <2>3, MovedProps
  <2> QED BY <1>1, <2>1, <2>4
<1>6. /\ n \in Nat /\ n <= v
      /\ IsBuffer(h, StreamByte) /\ h.size = HeaderSize /\ h.rd = 0 /\ length(h) = u + n
      /\ Holds(h, Place(Cur) - 1)
      /\ IsBuffer(b, StreamByte) /\ b.size = ReadBufferSize /\ length(b) = v - n
      /\ Holds(b, f + n)
  <2>1. f - u = a - 1
    BY <1>4
  <2> QED BY <1>2, <1>3, <1>5, <2>1 DEF Transfers
<1>7. arrived - length(b) = f + n /\ arrived - length(b) = Place(Cur) - 1 + length(h)
  <2>1. arrived - (v - n) = f + n /\ arrived - (v - n) = a - 1 + (u + n)
    BY <1>4, <1>6
  <2> QED BY <1>3, <1>6, <2>1
<1>8. CASE PartOfHeader(h, b)
  <2>1. /\ space(h) > 0 /\ m_Header' = h /\ read_buffer_' = b
        /\ UNCHANGED <<stream, arrived, m_RecvPct, m_RecvWPct, handled, pc, closed_>>
    BY <1>8 DEF PartOfHeader
  <2>2. StreamInv' /\ ReceiveTypeOK'
    <3>1. /\ IsBuffer(m_RecvPct, StreamByte) /\ m_RecvWPct \in DOMAIN stream \cup {None}
          /\ handled \in Seq((DOMAIN stream) \X Seq(1 .. Total(stream)))
          /\ pc \in {"reading", "processing", "closing"} /\ closed_ \in BOOLEAN
      BY <1>2 DEF ReceiveTypeOK, StreamByte
    <3>2. /\ IsBuffer(read_buffer_', StreamByte) /\ IsBuffer(m_Header', StreamByte)
          /\ IsBuffer(m_RecvPct', StreamByte)
      BY <1>6, <2>1, <3>1
    <3> QED BY <2>1, <3>1, <3>2, CutTypes
  <2>3. HandledInv' /\ GoodInv'
    BY <1>2, <2>1 DEF HandledInv, GoodInv, PayloadBytes
  <2>4. Parsed' = f + n /\ Place(Cur)' = Place(Cur)
    BY <1>7, <2>1 DEF Parsed, Place, Cur
  <2>5. ReadInv'
    BY <1>6, <2>1, <2>4 DEF ReadInv
  <2>6. HeaderInv'
    BY <1>2, <1>6, <1>7, <2>1, <2>4 DEF HeaderInv
  <2>7. PayloadInv'
    <3>1. space(h) # 0
      BY <1>6, <2>1, BufferNumbers
    <3> QED BY <2>1, <3>1 DEF PayloadInv
  <2> QED BY <2>2, <2>3, <2>5, <2>6, <2>7 DEF ReceiveInv
<1>9. CASE Malformed(h, b)
  <2>1. /\ m_Header' = h /\ read_buffer_' = b /\ pc' = "closing" /\ closed_' = TRUE
        /\ UNCHANGED <<stream, arrived, m_RecvPct, m_RecvWPct, handled>>
    BY <1>9 DEF Malformed
  <2>2. StreamInv' /\ ReceiveTypeOK'
    <3>1. /\ IsBuffer(m_RecvPct, StreamByte) /\ m_RecvWPct \in DOMAIN stream \cup {None}
          /\ handled \in Seq((DOMAIN stream) \X Seq(1 .. Total(stream)))
      BY <1>2 DEF ReceiveTypeOK, StreamByte
    <3>2. /\ IsBuffer(read_buffer_', StreamByte) /\ IsBuffer(m_Header', StreamByte)
          /\ IsBuffer(m_RecvPct', StreamByte)
      BY <1>6, <2>1, <3>1
    <3> QED BY <2>1, <3>1, <3>2, CutTypes
  <2>3. HandledInv'
    BY <1>2, <2>1 DEF HandledInv, PayloadBytes
  <2> QED BY <2>1, <2>2, <2>3 DEF ReceiveInv
<1>10. ASSUME space(h) = 0, NEW k \in Announced(h), NEW p,
              p = IF stream[k].size > 0 THEN AssignBuffer(m_RecvPct, stream[k].size)
                  ELSE m_RecvPct,
              ReceivePayload(k, h, p, b)
       PROVE  ReceiveInv'
  <2>1. k = Cur /\ k \in 1 .. Len(stream) /\ stream[k].fate # "malformed"
    BY <1>6, <1>10, AnnouncedIsCur
  <2>2. IsBuffer(p, StreamByte) /\ p.size = stream[k].size /\ p.rd = 0 /\ length(p) = 0
    BY <1>2, <1>10, <2>1, PayloadBuffer
  <2>3. Holds(p, Place(k) + HeaderSize - 1) /\ Holds(h, Place(k) - 1)
    BY <1>6, <2>1, <2>2, EmptyHolds
  <2>4. length(h) = HeaderSize
    <3>1. IsBuffer(h, StreamByte) /\ h.size = HeaderSize /\ h.rd = 0 /\ space(h) = 0
      BY <1>6, <1>10
    <3> QED BY <3>1, FullHeader
  <2>5. arrived - length(b) = Place(k) - 1 + HeaderSize + length(p)
    <3>1. arrived - length(b) = a - 1 + HeaderSize
      BY <1>3, <1>7, <2>4
    <3>2. a - 1 + HeaderSize = a - 1 + HeaderSize + 0
      BY <1>4
    <3> QED BY <1>3, <2>1, <2>2, <3>1, <3>2
  <2>6. Holds(b, arrived - length(b))
    BY <1>6, <1>7
  <2> QED BY <1>6, <1>10, <2>1, <2>2, <2>3, <2>5, <2>6, ReceivePayloadStep
<1>11. ReceiveHeader(h, b)
  BY <1>1
<1> QED BY <1>8, <1>9, <1>10, <1>11 DEF ReceiveHeader

LEMMA ProcessIncomingDataStep == ASSUME ReceiveInv, ProcessIncomingData PROVE ReceiveInv'
<1>1. pc = "processing" /\ space(m_Header) \in Nat
  BY ReceiveNumbers DEF ProcessIncomingData
<1>2. CASE space(m_Header) > 0
  BY <1>1, <1>2, ReceiveHeaderStep DEF ProcessIncomingData
<1>3. CASE space(m_Header) = 0
  <2>1. PICK k, h, p, b : k = m_RecvWPct /\ h = m_Header /\ p = m_RecvPct /\ b = read_buffer_
    OBVIOUS
  <2>2. ReceivePayload(k, h, p, b)
    BY <1>3, <2>1 DEF ProcessIncomingData
  <2>3. ReadInv /\ HeaderInv /\ PayloadInv /\ StreamInv
    BY <1>1 DEF ReceiveInv
  <2>4. k = Cur /\ k \in 1 .. Len(stream) /\ stream[k].fate # "malformed"
    <3>1. k = Cur /\ k <= Len(stream) /\ stream[k].fate # "malformed"
      BY <1>3, <2>1, <2>3 DEF PayloadInv
    <3>2. Cur \in 1 .. Len(stream) + 1 /\ Len(stream) \in Nat
      BY <2>3, ReceiveNumbers, StreamFacts
    <3> QED BY <3>1, <3>2
  <2>5. /\ IsBuffer(h, StreamByte) /\ h.size = HeaderSize /\ h.rd = 0 /\ space(h) = 0
        /\ Holds(h, Place(k) - 1)
    BY <1>3, <2>1, <2>3, <2>4, ReceiveNumbers DEF HeaderInv
  <2>6. /\ IsBuffer(p, StreamByte) /\ p.size = stream[k].size /\ p.rd = 0
        /\ Holds(p, Place(k) + HeaderSize - 1)
    BY <1>3, <2>1, <2>3, <2>4, ReceiveNumbers DEF PayloadInv
  <2>7. /\ IsBuffer(b, StreamByte) /\ b.size = ReadBufferSize /\ Holds(b, arrived - length(b))
    BY <2>1, <2>3, ReceiveNumbers DEF ReadInv, Parsed
  <2>8. arrived - length(b) = Place(k) - 1 + HeaderSize + length(p)
    BY <1>3, <2>1, <2>3, <2>4 DEF PayloadInv, Parsed
  <2> QED BY <1>1, <2>2, <2>4, <2>5, <2>6, <2>7, <2>8, ReceivePayloadStep
<1> QED BY <1>1, <1>2, <1>3

LEMMA NextReceiveInv == ASSUME ReceiveInv, [ReceiveNext]_receiveVars PROVE ReceiveInv'
<1>1. CASE ReadComplete
  BY <1>1, ReadCompleteStep
<1>2. CASE ReadError \/ CloseByOther
  BY <1>2, ClosingStep
<1>3. CASE StartAsyncRead
  BY <1>3, StartAsyncReadStep
<1>4. CASE ProcessIncomingData
  BY <1>4, ProcessIncomingDataStep
<1>5. CASE UNCHANGED receiveVars
  <2>1. StreamInv' /\ ReceiveTypeOK' /\ HandledInv'
    BY <1>5 DEF receiveVars, ReceiveInv, StreamInv, ReceiveTypeOK, HandledInv, PayloadBytes
  <2>2. pc' # "closing" => GoodInv /\ ReadInv /\ HeaderInv /\ PayloadInv
    BY <1>5 DEF receiveVars, ReceiveInv
  <2>3. GoodInv => GoodInv'
    BY <1>5 DEF receiveVars, GoodInv
  <2>4. ReadInv => ReadInv'
    BY <1>5 DEF receiveVars, ReadInv, Parsed
  <2>5. HeaderInv => HeaderInv'
    BY <1>5 DEF receiveVars, HeaderInv, Parsed, Cur, Place
  <2>6. PayloadInv => PayloadInv'
    BY <1>5 DEF receiveVars, PayloadInv, Parsed, Cur, Place
  <2> QED BY <2>1, <2>2, <2>3, <2>4, <2>5, <2>6 DEF ReceiveInv
<1> QED BY <1>1, <1>2, <1>3, <1>4, <1>5 DEF ReceiveNext

LEMMA IInvHandledInOrder == ReceiveInv => HandledInOrder
<1> SUFFICES ASSUME ReceiveInv PROVE HandledInOrder
  OBVIOUS
<1>1. ReceiveTypeOK /\ HandledInv
  BY DEF ReceiveInv
<1>2. ASSUME pc # "closing"
      PROVE  /\ space(m_Header) > 0 => m_RecvWPct = None /\ m_RecvPct = Unassigned
             /\ space(m_Header) = 0 => m_RecvWPct # None /\ space(m_RecvPct) > 0
             /\ pc = "reading" => space(read_buffer_) > 0
  <2>1. ReadInv /\ HeaderInv /\ PayloadInv
    BY <1>2 DEF ReceiveInv
  <2>2. Cur # None
    <3>1. Cur \in Nat
      BY ReceiveNumbers, StreamFacts DEF ReceiveInv
    <3> QED BY <3>1, ReceiveConstants
  <2> QED BY <2>1, <2>2 DEF ReadInv, HeaderInv, PayloadInv
<1> QED BY <1>1, <1>2 DEF HandledInOrder, HandledInv

\* Wherever the reads break the stream, ProcessIncoming gets the client's packets in order,
\* each once and with exactly its own payload, up to the first it refuses; a header begins
\* without a packet or a payload left over, and every read has room (ProcessIncomingData,
\* read_buffer_.Prepare).
THEOREM SocketReceiveSound == ReceiveSpec => []HandledInOrder
<1>1. ReceiveInit => ReceiveInv
  BY InitReceiveInv
<1>2. ReceiveInv /\ [ReceiveNext]_receiveVars => ReceiveInv'
  BY NextReceiveInv
<1>3. ReceiveInv => HandledInOrder
  BY IInvHandledInOrder
<1> QED BY <1>1, <1>2, <1>3, PTL DEF ReceiveSpec

=============================================================================
