---------------------------- MODULE NetworkBuffer ----------------------------
(***************************************************************************)
(* NetworkBuffer.cpp as operators on a record: the array data_, the two    *)
(* positions and the size.  A byte is a number that names it, so that      *)
(* moving, overwriting or losing one shows.                                *)
(***************************************************************************)
EXTENDS Integers, Sequences

Allocated(size) ==
    [data |-> [i \in 0 .. size - 1 |-> 0], rd |-> 0, wr |-> 0, size |-> size]

length(b) == b.wr - b.rd
space(b) == b.size - b.wr

Reset(b) == [b EXCEPT !.rd = 0, !.wr = 0]

\* The positions move only as far as the array reaches.
Commit(b, n) == IF b.wr + n <= b.size THEN [b EXCEPT !.wr = @ + n] ELSE b
Consume(b, n) == IF b.rd + n <= b.size THEN [b EXCEPT !.rd = @ + n] ELSE b

\* memcpy of bytes to write_data(), by Write or by the operating system.
Fill(b, bytes) ==
    [b EXCEPT !.data = [i \in 0 .. b.size - 1 |->
                          IF i >= b.wr /\ i < b.wr + Len(bytes)
                          THEN bytes[i - b.wr + 1] ELSE b.data[i]]]

Write(b, bytes) ==
    IF Len(bytes) > space(b) THEN b ELSE Commit(Fill(b, bytes), Len(bytes))

\* The first n readable bytes.
ReadData(b, n) == [i \in 1 .. n |-> b.data[b.rd + i - 1]]

Mutant_Prepare(b) ==
    [b EXCEPT !.data = [i \in 0 .. b.size - 1 |->
                          IF i < length(b) THEN b.data[b.rd + i] ELSE b.data[i]],
              !.wr = length(b)]

\* Crunch moves what is left to the front; without anything left, or with crossed
\* positions, Prepare resets the buffer.
Prepare(b) ==
    IF b.rd < b.wr
    THEN [b EXCEPT !.data = [i \in 0 .. b.size - 1 |->
                               IF i < length(b) THEN b.data[b.rd + i] ELSE b.data[i]],
                   !.wr = length(b), !.rd = 0]
    ELSE Reset(b)

IsBuffer(b, Byte) ==
    b \in [data : [0 .. b.size - 1 -> Byte], rd : 0 .. b.wr, wr : 0 .. b.size, size : Nat]

=============================================================================
