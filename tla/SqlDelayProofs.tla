--------------------------- MODULE SqlDelayProofs ---------------------------
(***************************************************************************)
(* Proofs about SqlDelay, for every set of calling threads and any number  *)
(* of calls: the writes of a thread take effect in its order and none is   *)
(* left behind by the halt, and the database with its delay thread is an   *)
(* OrderedStore, step by step.                                             *)
(***************************************************************************)
EXTENDS SqlDelay, SequenceTheorems, TLAPS

\* The operations that are on their way, oldest first: on the connection, in the queue and
\* about to enter it.
Held == IF conn = None THEN << >> ELSE <<conn.op>>
Coming == IF adding = None THEN << >> ELSE <<adding>>
Line == (Held \o m_sqlQueue) \o Coming

Kept(w) == w.how # "direct"
Precedes(w, v) == w.by = v.by => w.id < v.id
Goes(op, later) ==
    \A k \in 1 .. Len(op.stmts), l \in 1 .. Len(later.stmts) :
       Precedes(op.stmts[k], later.stmts[l])

\* An operation carries the writes of one thread in their order; c calls were made.
OpInv(op, c) ==
    /\ op.kind = "plain" => Len(op.stmts) = 1
    /\ op.kind = "query" => op.stmts = << >>
    /\ \A k \in 1 .. Len(op.stmts) : op.stmts[k].by = op.by /\ op.stmts[k].id <= c
    /\ \A k, l \in 1 .. Len(op.stmts) : k < l => op.stmts[k].id < op.stmts[l].id

\* The writes d that took effect, those of the operations ln on their way and those of the
\* open transactions tr follow each other.
StoredInv(d, c) ==
    /\ \A i \in 1 .. Len(d) : Kept(d[i]) => d[i].id <= c
    /\ \A i, j \in 1 .. Len(d) : i < j /\ Kept(d[i]) /\ Kept(d[j]) => Precedes(d[i], d[j])
LineInv(d, ln, c) ==
    /\ \A i \in 1 .. Len(ln) : OpInv(ln[i], c)
    /\ \A i, j \in 1 .. Len(ln) : i < j => Goes(ln[i], ln[j])
    /\ \A i \in 1 .. Len(d), j \in 1 .. Len(ln) : Kept(d[i]) =>
          \A k \in 1 .. Len(ln[j].stmts) : Precedes(d[i], ln[j].stmts[k])
OpenInv(d, ln, c, t, ids) ==
    /\ c >= 1
    /\ \A n \in 1 .. Len(ids) : ids[n] <= c
    /\ \A m, n \in 1 .. Len(ids) : m < n => ids[m] < ids[n]
    /\ \A i \in 1 .. Len(d), n \in 1 .. Len(ids) :
          Kept(d[i]) /\ d[i].by = t => d[i].id < ids[n]
    /\ \A i \in 1 .. Len(ln), n \in 1 .. Len(ids) : \A k \in 1 .. Len(ln[i].stmts) :
          ln[i].stmts[k].by = t => ln[i].stmts[k].id < ids[n]
Ordered(d, ln, tr, c) ==
    /\ StoredInv(d, c)
    /\ LineInv(d, ln, c)
    /\ \A t \in Caller : tr[t] # None => OpenInv(d, ln, c, t, tr[t])

\* Before asynchronous transactions are allowed only queries are on their way, and only the
\* world thread uses the connection; after that only the delay thread holds it.
StartupInv ==
    /\ ~m_bAllowAsyncTransactions =>
          /\ \A i \in 1 .. Len(m_sqlQueue) : m_sqlQueue[i].kind = "query"
          /\ adding # None => adding.kind = "query"
    /\ conn # None =>
          /\ conn.op.stmts # << >>
          /\ conn.op.kind = "transaction"
          /\ conn.on = IF m_bAllowAsyncTransactions THEN "delay" ELSE "world"
          /\ conn.on # "delay" => \A k \in 1 .. Len(conn.op.stmts) : conn.op.stmts[k].how = "now"

\* The halt begins when nobody is inside a call.
HaltInv ==
    /\ delay \in {"ended", "flush", "deleted", "leaked"} => ~m_running
    /\ ~m_running => adding = None
    /\ NothingLeftBehind

IInv ==
    /\ TypeOK
    /\ Ordered(db, Line, m_pTrans, calls)
    /\ StartupInv
    /\ HaltInv

-----------------------------------------------------------------------------
(* The order, under each way a step changes the writes and the operations *)

\* The numbers and threads of writes and operations.
LEMMA OpTypes ==
  ASSUME NEW op \in Op
  PROVE  /\ op.stmts \in Seq(Write) /\ Len(op.stmts) \in Nat
         /\ \A k \in 1 .. Len(op.stmts) :
               op.stmts[k] \in Write /\ op.stmts[k].id \in Int
<1>1. op.stmts \in Seq(Write)
  BY DEF Op
<1>2. Len(op.stmts) \in Nat
  BY <1>1, LenProperties
<1>3. \A w \in Write : w.id \in Int
  BY DEF Write, Id
<1> QED BY <1>1, <1>2, <1>3, ElementOfSeq

LEMMA StoreTypes ==
  ASSUME NEW d \in Seq(Write)
  PROVE  /\ Len(d) \in Nat
         /\ \A i \in 1 .. Len(d) : d[i] \in Write /\ d[i].id \in Int
<1>1. \A w \in Write : w.id \in Int
  BY DEF Write, Id
<1> QED BY <1>1, LenProperties, ElementOfSeq

LEMMA LineTypes ==
  ASSUME NEW ln \in Seq(Op)
  PROVE  /\ Len(ln) \in Nat
         /\ \A i \in 1 .. Len(ln) :
               /\ ln[i] \in Op
               /\ ln[i].stmts \in Seq(Write) /\ Len(ln[i].stmts) \in Nat
               /\ \A k \in 1 .. Len(ln[i].stmts) :
                     ln[i].stmts[k] \in Write /\ ln[i].stmts[k].id \in Int
BY LenProperties, ElementOfSeq, OpTypes

LEMMA IdsTypes ==
  ASSUME NEW ids \in Seq(Id)
  PROVE  Len(ids) \in Nat /\ \A n \in 1 .. Len(ids) : ids[n] \in Id /\ ids[n] \in Int
<1>1. \A i \in Id : i \in Int
  BY DEF Id
<1> QED BY <1>1, LenProperties, ElementOfSeq

\* Calls that change neither: a transaction is opened, extended or dropped.
LEMMA OrderedCount ==
  ASSUME NEW d \in Seq(Write), NEW ln \in Seq(Op), NEW tr \in [Caller -> Seq(Id) \cup {None}],
         NEW c \in Nat, Ordered(d, ln, tr, c),
         NEW e \in {c, c + 1}, NEW us,
         \A t \in Caller : us[t] # None =>
            us[t] = tr[t] \/ (e = c + 1 /\ us[t] = << >>)
               \/ (e = c + 1 /\ tr[t] # None /\ e \in Id /\ us[t] = Append(tr[t], e))
  PROVE  Ordered(d, ln, us, e)
<1> USE DEF Ordered
<1>1. e \in Nat /\ c <= e
  OBVIOUS
<1>2. /\ Len(d) \in Nat
      /\ \A i \in 1 .. Len(d) : d[i] \in Write /\ d[i].id \in Int
  BY StoreTypes
<1>3. /\ Len(ln) \in Nat
      /\ \A i \in 1 .. Len(ln) :
               /\ Len(ln[i].stmts) \in Nat
               /\ \A k \in 1 .. Len(ln[i].stmts) : ln[i].stmts[k].id \in Int
  BY LineTypes
<1>4. StoredInv(d, e)
  BY <1>1, <1>2 DEF StoredInv
<1>5. LineInv(d, ln, e)
  <2>1. \A i \in 1 .. Len(ln) : OpInv(ln[i], e)
    BY <1>1, <1>3 DEF LineInv, OpInv
  <2> QED BY <2>1 DEF LineInv
<1>6. ASSUME NEW t \in Caller, us[t] # None PROVE OpenInv(d, ln, e, t, us[t])
  <2>1. CASE us[t] = tr[t]
    <3>1. us[t] \in Seq(Id)
      BY <1>6, <2>1
    <3>2. Len(us[t]) \in Nat /\ \A n \in 1 .. Len(us[t]) : us[t][n] \in Int
      BY <3>1, IdsTypes
    <3> QED BY <1>1, <1>6, <2>1, <3>2 DEF OpenInv
  <2>2. CASE e = c + 1 /\ us[t] = << >>
    <3>1. Len(us[t]) = 0
      BY <2>2, EmptySeq
    <3> QED BY <1>1, <2>2, <3>1 DEF OpenInv
  <2>3. CASE e = c + 1 /\ tr[t] # None /\ e \in Id /\ us[t] = Append(tr[t], e)
    <3>1. tr[t] \in Seq(Id) /\ OpenInv(d, ln, c, t, tr[t])
      BY <2>3
    <3>2. Len(tr[t]) \in Nat /\ \A n \in 1 .. Len(tr[t]) : tr[t][n] \in Int
      BY <3>1, IdsTypes
    <3>3. /\ Len(us[t]) = Len(tr[t]) + 1
          /\ \A n \in 1 .. Len(tr[t]) : us[t][n] = tr[t][n]
          /\ us[t][Len(tr[t]) + 1] = e
      BY <2>3, <3>1, AppendProperties
    <3>4. \A n \in 1 .. Len(us[t]) : us[t][n] <= e
      BY <1>1, <2>3, <3>1, <3>2, <3>3 DEF OpenInv
    <3>5. \A m, n \in 1 .. Len(us[t]) : m < n => us[t][m] < us[t][n]
      BY <1>1, <2>3, <3>1, <3>2, <3>3 DEF OpenInv
    <3>6. \A i \in 1 .. Len(d), n \in 1 .. Len(us[t]) :
             Kept(d[i]) /\ d[i].by = t => d[i].id < us[t][n]
      <4>1. \A i \in 1 .. Len(d) : Kept(d[i]) => d[i].id <= c
        BY DEF StoredInv
      <4> QED BY <1>1, <1>2, <2>3, <3>1, <3>2, <3>3, <4>1 DEF OpenInv
    <3>7. ASSUME NEW i \in 1 .. Len(ln), NEW n \in 1 .. Len(us[t]),
                 NEW k \in 1 .. Len(ln[i].stmts), ln[i].stmts[k].by = t
          PROVE  ln[i].stmts[k].id < us[t][n]
      <4>1. ln[i].stmts[k].id <= c /\ ln[i].stmts[k].id \in Int
        BY <1>3 DEF LineInv, OpInv
      <4>2. CASE n = Len(tr[t]) + 1
        BY <2>3, <3>3, <4>1, <4>2
      <4>3. CASE n \in 1 .. Len(tr[t])
        BY <3>1, <3>3, <3>7, <4>3 DEF OpenInv
      <4> QED BY <3>2, <3>3, <4>2, <4>3
    <3>8. e >= 1
      BY <1>1, <2>3
    <3> QED BY <3>4, <3>5, <3>6, <3>7, <3>8 DEF OpenInv
  <2> QED BY <1>6, <2>1, <2>2, <2>3
<1> QED BY <1>4, <1>5, <1>6

\* The operation op follows all that was handed over, and leaves the open transactions us of
\* the other threads.
IsLatest(op, d, ln, tr, us) ==
    /\ \A i \in 1 .. Len(d) : Kept(d[i]) =>
          \A k \in 1 .. Len(op.stmts) : Precedes(d[i], op.stmts[k])
    /\ \A i \in 1 .. Len(ln) : Goes(ln[i], op)
    /\ \A t \in Caller : us[t] # None =>
          us[t] = tr[t] /\ \A k \in 1 .. Len(op.stmts) : op.stmts[k].by # t

\* An operation is handed over behind the others.
LEMMA OrderedAppend ==
  ASSUME NEW d \in Seq(Write), NEW ln \in Seq(Op), NEW tr \in [Caller -> Seq(Id) \cup {None}],
         NEW c \in Nat, Ordered(d, ln, tr, c),
         NEW e \in {c, c + 1}, NEW op \in Op, OpInv(op, e),
         NEW us, IsLatest(op, d, ln, tr, us)
  PROVE  Ordered(d, Append(ln, op), us, e)
<1> USE DEF IsLatest
<1>1. Ordered(d, ln, us, e)
  BY OrderedCount
<1>2. PICK ms : ms = Append(ln, op)
  OBVIOUS
<1>3. /\ Len(ln) \in Nat /\ Len(ms) = Len(ln) + 1
      /\ \A i \in 1 .. Len(ln) : ms[i] = ln[i]
      /\ ms[Len(ln) + 1] = op
  BY <1>2, LineTypes, AppendProperties
<1>4. \A j \in 1 .. Len(ms) : j \in 1 .. Len(ln) \/ j = Len(ln) + 1
  BY <1>3
<1>5. LineInv(d, ms, e)
  <2>1. \A i \in 1 .. Len(ms) : OpInv(ms[i], e)
    BY <1>1, <1>3, <1>4 DEF Ordered, LineInv
  <2>2. ASSUME NEW i \in 1 .. Len(ms), NEW j \in 1 .. Len(ms), i < j PROVE Goes(ms[i], ms[j])
    <3>1. i \in 1 .. Len(ln)
      BY <1>3, <2>2
    <3> QED BY <1>1, <1>3, <1>4, <2>2, <3>1 DEF Ordered, LineInv
  <2>3. ASSUME NEW i \in 1 .. Len(d), NEW j \in 1 .. Len(ms), Kept(d[i]),
               NEW k \in 1 .. Len(ms[j].stmts)
        PROVE  Precedes(d[i], ms[j].stmts[k])
    BY <1>1, <1>3, <1>4, <2>3 DEF Ordered, LineInv
  <2> QED BY <2>1, <2>2, <2>3 DEF LineInv
<1>6. ASSUME NEW t \in Caller, us[t] # None PROVE OpenInv(d, ms, e, t, us[t])
  <2>1. OpenInv(d, ln, e, t, us[t])
    BY <1>1, <1>6 DEF Ordered
  <2>2. ASSUME NEW i \in 1 .. Len(ms), NEW n \in 1 .. Len(us[t]),
               NEW k \in 1 .. Len(ms[i].stmts), ms[i].stmts[k].by = t
        PROVE  ms[i].stmts[k].id < us[t][n]
    <3>1. CASE i \in 1 .. Len(ln)
      <4>1. ms[i] = ln[i]
        BY <1>3, <3>1
      <4> QED BY <2>1, <2>2, <3>1, <4>1 DEF OpenInv
    <3>2. CASE i = Len(ln) + 1
      BY <1>3, <1>6, <2>2, <3>2
    <3> QED BY <1>4, <3>1, <3>2
  <2> QED BY <2>1, <2>2 DEF OpenInv
<1> QED BY <1>1, <1>2, <1>5, <1>6 DEF Ordered

\* An operation is carried out before those of the others, which write nothing.
LEMMA OrderedFirst ==
  ASSUME NEW d \in Seq(Write), NEW ln \in Seq(Op), NEW tr \in [Caller -> Seq(Id) \cup {None}],
         NEW c \in Nat, Ordered(d, ln, tr, c),
         NEW op \in Op, OpInv(op, c),
         \A i \in 1 .. Len(d) : Kept(d[i]) =>
            \A k \in 1 .. Len(op.stmts) : Precedes(d[i], op.stmts[k]),
         \A i \in 1 .. Len(ln) : ln[i].stmts = << >>,
         NEW us, \A t \in Caller : us[t] # None =>
            us[t] = tr[t] /\ \A k \in 1 .. Len(op.stmts) : op.stmts[k].by # t
  PROVE  Ordered(d, <<op>> \o ln, us, c)
<1>1. Ordered(d, ln, us, c)
  BY OrderedCount
<1>2. PICK ms : ms = <<op>> \o ln
  OBVIOUS
<1>3. /\ Len(ln) \in Nat /\ Len(ms) = Len(ln) + 1
      /\ ms[1] = op
      /\ \A i \in 1 .. Len(ln) : ms[i + 1] = ln[i] /\ Len(ln[i].stmts) = 0
  <2>1. <<op>> \in Seq(Op) /\ Len(<<op>>) = 1 /\ <<op>>[1] = op
    OBVIOUS
  <2>2. /\ Len(ms) = Len(<<op>>) + Len(ln)
        /\ \A i \in 1 .. Len(<<op>>) + Len(ln) :
              ms[i] = IF i <= Len(<<op>>) THEN <<op>>[i] ELSE ln[i - Len(<<op>>)]
    BY <1>2, <2>1, ConcatProperties
  <2>3. Len(ln) \in Nat
    BY LineTypes
  <2>4. \A i \in 1 .. Len(ln) : ms[i + 1] = ln[i]
    <3>1. ASSUME NEW i \in 1 .. Len(ln) PROVE ms[i + 1] = ln[i]
      <4>1. i + 1 \in 1 .. Len(<<op>>) + Len(ln) /\ ~(i + 1 <= 1) /\ (i + 1) - 1 = i
        BY <2>1, <2>3
      <4> QED BY <2>1, <2>2, <4>1
    <3> QED BY <3>1
  <2>5. ms[1] = op
    <3>1. 1 \in 1 .. Len(<<op>>) + Len(ln)
      BY <2>1, <2>3
    <3> QED BY <2>1, <2>2, <3>1
  <2>6. \A i \in 1 .. Len(ln) : Len(ln[i].stmts) = 0
    BY EmptySeq
  <2> QED BY <2>1, <2>2, <2>3, <2>4, <2>5, <2>6
<1>4. \A j \in 1 .. Len(ms) : j = 1 \/ \E i \in 1 .. Len(ln) : j = i + 1 /\ ms[j] = ln[i]
  <2>1. ASSUME NEW j \in 1 .. Len(ms), j # 1 PROVE j - 1 \in 1 .. Len(ln) /\ j = (j - 1) + 1
    BY <1>3, <2>1
  <2> QED BY <1>3, <2>1
<1>5. \A j \in 1 .. Len(ms) : j = 1 \/ (OpInv(ms[j], c) /\ Len(ms[j].stmts) = 0)
  BY <1>1, <1>3, <1>4 DEF Ordered, LineInv
<1>6. LineInv(d, ms, c)
  <2>1. \A i \in 1 .. Len(ms) : OpInv(ms[i], c)
    BY <1>3, <1>5
  <2>2. ASSUME NEW i \in 1 .. Len(ms), NEW j \in 1 .. Len(ms), i < j PROVE Goes(ms[i], ms[j])
    <3>1. Len(ms[j].stmts) = 0
      BY <1>3, <1>5, <2>2
    <3> QED BY <3>1 DEF Goes
  <2>3. ASSUME NEW i \in 1 .. Len(d), NEW j \in 1 .. Len(ms), Kept(d[i]),
               NEW k \in 1 .. Len(ms[j].stmts)
        PROVE  Precedes(d[i], ms[j].stmts[k])
    BY <1>3, <1>5, <2>3
  <2> QED BY <2>1, <2>2, <2>3 DEF LineInv
<1>7. ASSUME NEW t \in Caller, us[t] # None PROVE OpenInv(d, ms, c, t, us[t])
  <2>1. OpenInv(d, ln, c, t, us[t])
    BY <1>1, <1>7 DEF Ordered
  <2>2. ASSUME NEW i \in 1 .. Len(ms), NEW n \in 1 .. Len(us[t]),
               NEW k \in 1 .. Len(ms[i].stmts), ms[i].stmts[k].by = t
        PROVE  ms[i].stmts[k].id < us[t][n]
    BY <1>3, <1>5, <1>7, <2>2
  <2> QED BY <2>1, <2>2 DEF OpenInv
<1> QED BY <1>1, <1>2, <1>6, <1>7 DEF Ordered

\* The first operation is over: its writes took effect, or none.
LEMMA OrderedTail ==
  ASSUME NEW d \in Seq(Write), NEW ln \in Seq(Op), NEW tr \in [Caller -> Seq(Id) \cup {None}],
         NEW c \in Nat, Ordered(d, ln, tr, c), ln # << >>,
         NEW e \in {d, d \o Head(ln).stmts}
  PROVE  Ordered(e, Tail(ln), tr, c)
<1>1. PICK ms, s : ms = Tail(ln) /\ s = ln[1].stmts
  OBVIOUS
<1>2. /\ Len(ln) \in Nat /\ Len(ln) >= 1 /\ Len(ms) = Len(ln) - 1
      /\ Head(ln) = ln[1]
      /\ \A i \in 1 .. Len(ms) : ms[i] = ln[i + 1] /\ i + 1 \in 1 .. Len(ln) /\ 1 < i + 1
  BY <1>1, LineTypes, EmptySeq, HeadTailProperties
<1>3. /\ s \in Seq(Write) /\ Len(s) \in Nat
      /\ \A k \in 1 .. Len(s) : s[k].id \in Int
      /\ \A k \in 1 .. Len(s) : s[k].by = ln[1].by /\ s[k].id <= c
      /\ \A k, l \in 1 .. Len(s) : k < l => s[k].id < s[l].id
      /\ 1 \in 1 .. Len(ln)
  <2>1. 1 \in 1 .. Len(ln)
    BY <1>2
  <2>2. OpInv(ln[1], c)
    BY <2>1 DEF Ordered, LineInv
  <2> QED BY <1>1, <2>1, <2>2, LineTypes DEF OpInv
<1>4. /\ Len(d) \in Nat
      /\ \A i \in 1 .. Len(d) : d[i].id \in Int
  BY StoreTypes
<1>5. /\ e \in Seq(Write) /\ Len(e) \in Nat /\ Len(d) <= Len(e)
      /\ \A i \in 1 .. Len(d) : e[i] = d[i]
      /\ \A i \in 1 .. Len(e) : \/ i \in 1 .. Len(d) /\ e[i] = d[i]
                                \/ \E q \in 1 .. Len(s) : i = Len(d) + q /\ e[i] = s[q]
  <2>1. CASE e = d
    BY <1>4, <2>1
  <2>2. CASE e = d \o s
    <3>1. /\ e \in Seq(Write) /\ Len(e) = Len(d) + Len(s)
          /\ \A i \in 1 .. Len(d) + Len(s) :
                e[i] = IF i <= Len(d) THEN d[i] ELSE s[i - Len(d)]
      BY <1>3, <2>2, ConcatProperties
    <3>2. ASSUME NEW i \in 1 .. Len(d) + Len(s), i \notin 1 .. Len(d)
          PROVE  /\ i - Len(d) \in 1 .. Len(s) /\ i = Len(d) + (i - Len(d))
                 /\ ~(i <= Len(d))
      BY <1>3, <1>4, <3>2
    <3>3. \A i \in 1 .. Len(d) : i \in 1 .. Len(d) + Len(s) /\ i <= Len(d)
      BY <1>3, <1>4
    <3>4. Len(e) \in Nat /\ Len(d) <= Len(e)
      BY <1>3, <1>4, <3>1
    <3> QED BY <3>1, <3>2, <3>3, <3>4
  <2> QED BY <1>1, <1>2, <2>1, <2>2
<1>6. StoredInv(e, c)
  <2>1. ASSUME NEW i \in 1 .. Len(e), Kept(e[i]) PROVE e[i].id <= c
    <3>1. CASE i \in 1 .. Len(d) /\ e[i] = d[i]
      BY <2>1, <3>1 DEF Ordered, StoredInv
    <3>2. CASE \E q \in 1 .. Len(s) : i = Len(d) + q /\ e[i] = s[q]
      BY <1>3, <3>2
    <3> QED BY <1>5, <3>1, <3>2
  <2>2. ASSUME NEW i \in 1 .. Len(e), NEW j \in 1 .. Len(e), i < j, Kept(e[i]), Kept(e[j])
        PROVE  Precedes(e[i], e[j])
    <3>1. CASE j \in 1 .. Len(d) /\ e[j] = d[j]
      <4>1. i \in 1 .. Len(d) /\ e[i] = d[i]
        BY <1>4, <1>5, <2>2, <3>1
      <4> QED BY <2>2, <3>1, <4>1 DEF Ordered, StoredInv
    <3>2. CASE \E q \in 1 .. Len(s) : j = Len(d) + q /\ e[j] = s[q]
      <4> PICK q \in 1 .. Len(s) : j = Len(d) + q /\ e[j] = s[q]
        BY <3>2
      <4>1. CASE i \in 1 .. Len(d) /\ e[i] = d[i]
        <5>1. Kept(d[i])
          BY <2>2, <4>1
        <5>2. Precedes(d[i], ln[1].stmts[q])
          BY <1>1, <1>3, <4>1, <5>1 DEF Ordered, LineInv
        <5> QED BY <1>1, <4>1, <5>2
      <4>2. CASE \E p \in 1 .. Len(s) : i = Len(d) + p /\ e[i] = s[p]
        <5> PICK p \in 1 .. Len(s) : i = Len(d) + p /\ e[i] = s[p]
          BY <4>2
        <5>1. p < q
          BY <1>3, <1>4, <2>2
        <5>2. s[p].id < s[q].id
          BY <1>3, <5>1
        <5> QED BY <5>2 DEF Precedes
      <4> QED BY <1>5, <4>1, <4>2
    <3> QED BY <1>5, <3>1, <3>2
  <2> QED BY <2>1, <2>2 DEF StoredInv
<1>7. LineInv(e, ms, c)
  <2>1. \A i \in 1 .. Len(ms) : OpInv(ms[i], c)
    BY <1>2 DEF Ordered, LineInv
  <2>2. ASSUME NEW i \in 1 .. Len(ms), NEW j \in 1 .. Len(ms), i < j PROVE Goes(ms[i], ms[j])
    <3>1. i + 1 < j + 1
      BY <2>2
    <3> QED BY <1>2, <3>1 DEF Ordered, LineInv
  <2>3. ASSUME NEW i \in 1 .. Len(e), NEW j \in 1 .. Len(ms), Kept(e[i]),
               NEW k \in 1 .. Len(ms[j].stmts)
        PROVE  Precedes(e[i], ms[j].stmts[k])
    <3>1. CASE i \in 1 .. Len(d) /\ e[i] = d[i]
      BY <1>2, <2>3, <3>1 DEF Ordered, LineInv
    <3>2. CASE \E q \in 1 .. Len(s) : i = Len(d) + q /\ e[i] = s[q]
      <4> PICK q \in 1 .. Len(s) : i = Len(d) + q /\ e[i] = s[q]
        BY <3>2
      <4>1. Goes(ln[1], ms[j])
        BY <1>2, <1>3 DEF Ordered, LineInv
      <4> QED BY <1>1, <4>1 DEF Goes
    <3> QED BY <1>5, <3>1, <3>2
  <2> QED BY <2>1, <2>2, <2>3 DEF LineInv
<1>8. ASSUME NEW t \in Caller, tr[t] # None PROVE OpenInv(e, ms, c, t, tr[t])
  <2>1. OpenInv(d, ln, c, t, tr[t])
    BY <1>8 DEF Ordered
  <2>2. ASSUME NEW i \in 1 .. Len(ms), NEW n \in 1 .. Len(tr[t]),
               NEW k \in 1 .. Len(ms[i].stmts), ms[i].stmts[k].by = t
        PROVE  ms[i].stmts[k].id < tr[t][n]
    BY <1>2, <2>1, <2>2 DEF OpenInv
  <2>3. ASSUME NEW i \in 1 .. Len(e), NEW n \in 1 .. Len(tr[t]), Kept(e[i]), e[i].by = t
        PROVE  e[i].id < tr[t][n]
    <3>1. CASE i \in 1 .. Len(d) /\ e[i] = d[i]
      BY <2>1, <2>3, <3>1 DEF OpenInv
    <3>2. CASE \E q \in 1 .. Len(s) : i = Len(d) + q /\ e[i] = s[q]
      <4> PICK q \in 1 .. Len(s) : i = Len(d) + q /\ e[i] = s[q]
        BY <3>2
      <4>1. ln[1].stmts[q].by = t
        BY <1>1, <2>3
      <4>2. ln[1].stmts[q].id < tr[t][n]
        BY <1>1, <1>3, <2>1, <4>1 DEF OpenInv
      <4> QED BY <1>1, <4>2
    <3> QED BY <1>5, <3>1, <3>2
  <2> QED BY <2>1, <2>2, <2>3 DEF OpenInv
<1> QED BY <1>1, <1>6, <1>7, <1>8 DEF Ordered

\* A thread executes a statement itself: it goes past all order (DirectExecute), or no
\* operation writes and the thread has no transaction.
LEMMA OrderedDirect ==
  ASSUME NEW d \in Seq(Write), NEW ln \in Seq(Op), NEW tr \in [Caller -> Seq(Id) \cup {None}],
         NEW c \in Nat, Ordered(d, ln, tr, c),
         NEW w \in Write,
         \/ ~Kept(w)
         \/ w.id = c + 1 /\ tr[w.by] = None /\ \A i \in 1 .. Len(ln) : ln[i].stmts = << >>,
         NEW e \in {d, Append(d, w)}
  PROVE  Ordered(e, ln, tr, c + 1)
<1>1. Ordered(d, ln, tr, c + 1)
  BY OrderedCount
<1>2. CASE e = d
  BY <1>1, <1>2
<1>3. CASE e = Append(d, w)
  <2>1. /\ Len(d) \in Nat /\ Len(e) = Len(d) + 1
        /\ \A i \in 1 .. Len(d) : e[i] = d[i]
        /\ e[Len(d) + 1] = w
    BY <1>3, StoreTypes, AppendProperties
  <2>2. \A i \in 1 .. Len(e) : i \in 1 .. Len(d) \/ i = Len(d) + 1
    BY <2>1
  <2>3. StoredInv(e, c + 1)
    <3>1. \A i \in 1 .. Len(e) : Kept(e[i]) => e[i].id <= c + 1
      BY <1>1, <2>1, <2>2 DEF Ordered, StoredInv
    <3>2. ASSUME NEW i \in 1 .. Len(e), NEW j \in 1 .. Len(e), i < j, Kept(e[i]), Kept(e[j])
          PROVE  Precedes(e[i], e[j])
      <4>1. i \in 1 .. Len(d) /\ e[i] = d[i]
        BY <2>1, <3>2
      <4>2. CASE j \in 1 .. Len(d)
        BY <1>1, <2>1, <3>2, <4>1, <4>2 DEF Ordered, StoredInv
      <4>3. CASE j = Len(d) + 1
        <5>1. w.id = c + 1 /\ e[j] = w
          BY <2>1, <3>2, <4>3
        <5>2. d[i].id <= c /\ d[i].id \in Int
          BY <3>2, <4>1, StoreTypes DEF Ordered, StoredInv
        <5>3. d[i].id < w.id
          BY <5>1, <5>2
        <5> QED BY <4>1, <5>1, <5>3 DEF Precedes
      <4> QED BY <2>2, <4>2, <4>3
    <3> QED BY <3>1, <3>2 DEF StoredInv
  <2>4. ASSUME NEW i \in 1 .. Len(e), Kept(e[i]),
               NEW j \in 1 .. Len(ln), NEW k \in 1 .. Len(ln[j].stmts)
        PROVE  Precedes(e[i], ln[j].stmts[k])
    <3>1. CASE i \in 1 .. Len(d)
      BY <1>1, <2>1, <2>4, <3>1 DEF Ordered, LineInv
    <3>2. CASE i = Len(d) + 1
      <4>1. ln[j].stmts = << >>
        BY <2>1, <2>4, <3>2
      <4>2. Len(ln[j].stmts) = 0
        BY <4>1, EmptySeq
      <4> QED BY <2>4, <4>2
    <3> QED BY <2>2, <3>1, <3>2
  <2>5. LineInv(e, ln, c + 1)
    BY <1>1, <2>4 DEF Ordered, LineInv
  <2>6. ASSUME NEW t \in Caller, tr[t] # None PROVE OpenInv(e, ln, c + 1, t, tr[t])
    <3>1. OpenInv(d, ln, c + 1, t, tr[t])
      BY <1>1, <2>6 DEF Ordered
    <3>2. ASSUME NEW i \in 1 .. Len(e), NEW n \in 1 .. Len(tr[t]), Kept(e[i]), e[i].by = t
          PROVE  e[i].id < tr[t][n]
      <4>1. i # Len(d) + 1
        BY <2>1, <2>6, <3>2
      <4> QED BY <2>1, <2>2, <3>1, <3>2, <4>1 DEF OpenInv
    <3> QED BY <3>1, <3>2 DEF OpenInv
  <2> QED BY <2>3, <2>5, <2>6 DEF Ordered
<1> QED BY <1>2, <1>3

-----------------------------------------------------------------------------
(* How a step changes the line of operations *)

\* A sequence with an element in front of it.
LEMMA ConsProps ==
  ASSUME NEW S, NEW a \in S, NEW s \in Seq(S)
  PROVE  /\ <<a>> \in Seq(S)
         /\ <<a>> \o s \in Seq(S) /\ <<a>> \o s # << >>
         /\ Head(<<a>> \o s) = a /\ Tail(<<a>> \o s) = s
<1>1. <<a>> \in Seq(S) /\ Len(<<a>>) = 1 /\ <<a>>[1] = a
  OBVIOUS
<1>2. Len(s) \in Nat
  BY LenProperties
<1>3. PICK t : t = <<a>> \o s
  OBVIOUS
<1>4. /\ t \in Seq(S) /\ Len(t) = 1 + Len(s)
      /\ \A i \in 1 .. 1 + Len(s) : t[i] = IF i <= 1 THEN <<a>>[i] ELSE s[i - 1]
  BY <1>1, <1>3, ConcatProperties
<1>5. t # << >> /\ t[1] = a
  BY <1>1, <1>2, <1>4, EmptySeq
<1>6. /\ Head(t) = a
      /\ Tail(t) \in Seq(S) /\ Len(Tail(t)) = Len(s)
      /\ \A i \in 1 .. Len(s) : Tail(t)[i] = t[i + 1]
  <2>1. /\ Tail(t) \in Seq(S) /\ Len(Tail(t)) = Len(t) - 1
        /\ \A i \in 1 .. Len(Tail(t)) : Tail(t)[i] = t[i + 1]
    BY <1>4, <1>5, HeadTailProperties
  <2>2. Len(Tail(t)) = Len(s)
    BY <1>2, <1>4, <2>1
  <2> QED BY <1>4, <1>5, <2>1, <2>2
<1>7. \A i \in 1 .. Len(s) : Tail(t)[i] = s[i]
  <2>1. ASSUME NEW i \in 1 .. Len(s) PROVE Tail(t)[i] = s[i]
    <3>1. i + 1 \in 1 .. 1 + Len(s) /\ ~(i + 1 <= 1) /\ (i + 1) - 1 = i
      BY <1>2
    <3> QED BY <1>4, <1>6, <3>1
  <2> QED BY <2>1
<1>8. Tail(t) = s
  BY <1>6, <1>7, SeqEqual
<1> QED BY <1>1, <1>3, <1>4, <1>5, <1>6, <1>8

\* Taking a sequence apart and putting it together again.
LEMMA HeadAndTail ==
  ASSUME NEW S, NEW s \in Seq(S), s # << >>
  PROVE  /\ Head(s) \in S /\ Tail(s) \in Seq(S)
         /\ <<Head(s)>> \o Tail(s) = s
<1>1. Head(s) \in S /\ Tail(s) \in Seq(S) /\ Head(s) = s[1]
  BY HeadTailProperties
<1>2. /\ Len(s) \in Nat /\ Len(s) >= 1 /\ Len(Tail(s)) = Len(s) - 1
      /\ \A i \in 1 .. Len(Tail(s)) : Tail(s)[i] = s[i + 1]
  BY EmptySeq, HeadTailProperties
<1>3. <<Head(s)>> \in Seq(S) /\ Len(<<Head(s)>>) = 1 /\ <<Head(s)>>[1] = Head(s)
  BY <1>1
<1>4. PICK t : t = <<Head(s)>> \o Tail(s)
  OBVIOUS
<1>5. /\ t \in Seq(S) /\ Len(t) = 1 + (Len(s) - 1)
      /\ \A i \in 1 .. 1 + (Len(s) - 1) :
            t[i] = IF i <= 1 THEN <<Head(s)>>[i] ELSE Tail(s)[i - 1]
  BY <1>1, <1>2, <1>3, <1>4, ConcatProperties
<1>6. \A i \in 1 .. Len(s) : t[i] = s[i]
  <2>1. ASSUME NEW i \in 1 .. Len(s), i # 1 PROVE t[i] = s[i]
    <3>1. /\ i \in 1 .. 1 + (Len(s) - 1) /\ ~(i <= 1)
          /\ i - 1 \in 1 .. Len(Tail(s)) /\ (i - 1) + 1 = i
      BY <1>2, <2>1
    <3> QED BY <1>2, <1>5, <3>1
  <2>2. t[1] = s[1]
    BY <1>1, <1>2, <1>3, <1>5
  <2> QED BY <2>1, <2>2
<1>7. Len(t) = Len(s)
  BY <1>2, <1>5
<1>8. t = s
  BY <1>5, <1>6, <1>7, SeqEqual
<1> QED BY <1>1, <1>4, <1>8

\* The ways a line of three parts h, q and n changes.
LEMMA LineAppend ==
  ASSUME NEW h \in Seq(Op), NEW q \in Seq(Op), NEW a \in Op
  PROVE  /\ h \o Append(q, a) = Append(h \o q, a)
         /\ (h \o Append(q, a)) \o << >> = (h \o q) \o <<a>>
         /\ (h \o q) \o <<a>> = Append((h \o q) \o << >>, a)
<1>1. /\ h \o q \in Seq(Op) /\ Append(q, a) \in Seq(Op) /\ <<a>> \in Seq(Op)
      /\ h \o Append(q, a) \in Seq(Op)
  BY ConcatProperties, AppendProperties
<1>2. Append(q, a) = q \o <<a>> /\ Append(h \o q, a) = (h \o q) \o <<a>>
  BY <1>1, AppendIsConcat
<1>3. h \o (q \o <<a>>) = (h \o q) \o <<a>>
  BY <1>1, ConcatAssociative
<1>4. (h \o q) \o << >> = h \o q /\ (h \o Append(q, a)) \o << >> = h \o Append(q, a)
  BY <1>1, ConcatEmptySeq
<1> QED BY <1>2, <1>3, <1>4

LEMMA LineFirst ==
  ASSUME NEW a \in Op, NEW q \in Seq(Op), NEW n \in Seq(Op)
  PROVE  /\ (<<a>> \o q) \o n = <<a>> \o ((<< >> \o q) \o n)
         /\ (<<a>> \o q) \o n # << >>
         /\ Head((<<a>> \o q) \o n) = a
         /\ Tail((<<a>> \o q) \o n) = (<< >> \o q) \o n
<1>1. << >> \o q = q /\ q \o n \in Seq(Op) /\ <<a>> \in Seq(Op)
  BY ConcatEmptySeq, ConcatProperties
<1>2. (<<a>> \o q) \o n = <<a>> \o (q \o n)
  BY <1>1, ConcatAssociative
<1>3. <<a>> \o (q \o n) # << >> /\ Head(<<a>> \o (q \o n)) = a /\ Tail(<<a>> \o (q \o n)) = q \o n
  BY <1>1, ConsProps
<1> QED BY <1>1, <1>2, <1>3

LEMMA LineTake ==
  ASSUME NEW q \in Seq(Op), q # << >>, NEW n \in Seq(Op)
  PROVE  /\ (<<Head(q)>> \o Tail(q)) \o n = (<< >> \o q) \o n
         /\ (<< >> \o q) \o n # << >>
         /\ Head((<< >> \o q) \o n) = Head(q)
         /\ Tail((<< >> \o q) \o n) = (<< >> \o Tail(q)) \o n
<1>1. /\ Head(q) \in Op /\ Tail(q) \in Seq(Op) /\ <<Head(q)>> \o Tail(q) = q
      /\ << >> \o q = q
  BY HeadAndTail, ConcatEmptySeq
<1>2. PICK a, r : a = Head(q) /\ r = Tail(q)
  OBVIOUS
<1>3. /\ (<<a>> \o r) \o n # << >>
      /\ Head((<<a>> \o r) \o n) = a
      /\ Tail((<<a>> \o r) \o n) = (<< >> \o r) \o n
  <2>1. a \in Op /\ r \in Seq(Op)
    BY <1>1, <1>2
  <2> QED BY <2>1, LineFirst, ZenonT(30)
<1>4. <<a>> \o r = q
  BY <1>1, <1>2
<1> QED BY <1>1, <1>2, <1>3, <1>4

-----------------------------------------------------------------------------
(* The invariant *)

LEMMA LineParts ==
  ASSUME TypeOK
  PROVE  /\ Held \in Seq(Op) /\ m_sqlQueue \in Seq(Op) /\ Coming \in Seq(Op)
         /\ Held \o m_sqlQueue \in Seq(Op) /\ Line \in Seq(Op)
         /\ db \in Seq(Write) /\ calls \in Nat /\ m_pTrans \in [Caller -> Seq(Id) \cup {None}]
<1> USE DelayConstants
<1>1. conn # None => conn.op \in Op
  BY DEF TypeOK, Transaction
<1>2. Held \in Seq(Op) /\ Coming \in Seq(Op)
  BY <1>1, ConsProps, EmptySeq DEF Held, Coming, TypeOK
<1>3. m_sqlQueue \in Seq(Op)
  BY DEF TypeOK
<1>4. Held \o m_sqlQueue \in Seq(Op) /\ Line \in Seq(Op)
  BY <1>2, <1>3, ConcatProperties DEF Line
<1>5. calls \in Nat
  BY DEF TypeOK
<1> QED BY <1>2, <1>3, <1>4, <1>5 DEF TypeOK

\* Before asynchronous transactions are allowed nothing on its way writes, unless it is on
\* the connection.
LEMMA OnlyQueries ==
  ASSUME IInv, conn = None, ~m_bAllowAsyncTransactions
  PROVE  \A i \in 1 .. Len(Line) : Line[i].stmts = << >>
<1>1. TypeOK
  BY DEF IInv
<1>2. /\ m_sqlQueue \in Seq(Op) /\ Coming \in Seq(Op) /\ Line \in Seq(Op)
  BY <1>1, LineParts
<1>3. Line = m_sqlQueue \o Coming
  BY <1>2, ConcatEmptySeq DEF Line, Held
<1>4. \A i \in 1 .. Len(m_sqlQueue) : m_sqlQueue[i].kind = "query"
  BY DEF IInv, StartupInv
<1>5. \A i \in 1 .. Len(Coming) : Coming[i].kind = "query"
  <2>1. CASE adding = None
    BY <2>1, EmptySeq DEF Coming
  <2>2. CASE adding # None
    <3>1. Coming = <<adding>> /\ adding.kind = "query"
      BY <2>2 DEF Coming, IInv, StartupInv
    <3> QED BY <3>1
  <2> QED BY <2>1, <2>2
<1>6. ASSUME NEW i \in 1 .. Len(Line) PROVE Line[i].kind = "query"
  <2>1. /\ Len(Line) = Len(m_sqlQueue) + Len(Coming)
        /\ \A j \in 1 .. Len(m_sqlQueue) + Len(Coming) :
              Line[j] = IF j <= Len(m_sqlQueue) THEN m_sqlQueue[j] ELSE Coming[j - Len(m_sqlQueue)]
    BY <1>2, <1>3, ConcatProperties
  <2>2. Len(m_sqlQueue) \in Nat /\ Len(Coming) \in Nat
    BY <1>2, LenProperties
  <2>3. CASE i <= Len(m_sqlQueue)
    <3>1. i \in 1 .. Len(m_sqlQueue) /\ Line[i] = m_sqlQueue[i]
      BY <2>1, <2>2, <2>3
    <3> QED BY <1>4, <3>1
  <2>4. CASE ~(i <= Len(m_sqlQueue))
    <3>1. i - Len(m_sqlQueue) \in 1 .. Len(Coming)
      BY <2>1, <2>2, <2>4
    <3>2. Line[i] = Coming[i - Len(m_sqlQueue)]
      BY <2>1, <2>4
    <3> QED BY <1>5, <3>1, <3>2
  <2> QED BY <2>3, <2>4
<1>7. \A i \in 1 .. Len(Line) : OpInv(Line[i], calls)
  BY DEF IInv, Ordered, LineInv
<1> QED BY <1>6, <1>7 DEF OpInv

LEMMA InitIInv == Init => IInv
<1> SUFFICES ASSUME Init PROVE IInv
  OBVIOUS
<1> USE DelayConstants, NoneIsNothing
<1>1. /\ << >> \in Seq(Op) /\ << >> \in Seq(Write) /\ << >> \in Seq(Id) /\ Len(<< >>) = 0
  BY EmptySeq
<1>2. TypeOK
  <2>1. calls \in 0 .. MaxCalls
    BY DEF Init
  <2>2. m_pTrans \in [Caller -> Seq(Id) \cup {None}]
    BY DEF Init
  <2>3. m_sqlQueue \in Seq(Op) /\ m_pResultQueue \in Seq(Op) /\ db \in Seq(Write)
        /\ called \in Seq(Id)
    BY <1>1 DEF Init
  <2> QED BY <2>1, <2>2, <2>3 DEF Init, TypeOK
<1>3. Len(db) = 0 /\ Len(m_sqlQueue) = 0
  BY <1>1 DEF Init
<1>4. Line = << >> /\ Len(Line) = 0
  <2>1. << >> \o << >> = << >>
    BY <1>1, ConcatEmptySeq
  <2> QED BY <1>1, <2>1 DEF Init, Line, Held, Coming
<1>5. Ordered(db, Line, m_pTrans, calls)
  BY <1>3, <1>4 DEF Init, Ordered, StoredInv, LineInv
<1>6. StartupInv
  BY <1>3 DEF Init, StartupInv
<1>7. HaltInv
  BY DEF Init, HaltInv, NothingLeftBehind
<1> QED BY <1>2, <1>5, <1>6, <1>7 DEF IInv

\* The writes a thread's ids stand for.
LEMMA WritesProps ==
  ASSUME NEW ids \in Seq(Id), NEW t \in Caller, NEW how \in {"delayed", "now", "direct"}
  PROVE  /\ Writes(ids, t, how) \in Seq(Write)
         /\ Len(Writes(ids, t, how)) = Len(ids)
         /\ \A i \in 1 .. Len(ids) :
               Writes(ids, t, how)[i] = [id |-> ids[i], by |-> t, how |-> how]
<1>1. Len(ids) \in Nat /\ \A i \in 1 .. Len(ids) : ids[i] \in Id
  BY IdsTypes
<1>2. \A i \in 1 .. Len(ids) : [id |-> ids[i], by |-> t, how |-> how] \in Write
  BY <1>1 DEF Write
<1>3. PICK w : w = [i \in 1 .. Len(ids) |-> [id |-> ids[i], by |-> t, how |-> how]]
  OBVIOUS
<1>4. w \in [1 .. Len(ids) -> Write]
  BY <1>2, <1>3
<1>5. w \in Seq(Write)
  BY <1>1, <1>4, SeqDef
<1>6. Len(w) = Len(ids)
  <2>1. DOMAIN w = 1 .. Len(w) /\ Len(w) \in Nat
    BY <1>5, LenProperties
  <2>2. DOMAIN w = 1 .. Len(ids)
    BY <1>3
  <2> QED BY <1>1, <2>1, <2>2
<1>7. \A i \in 1 .. Len(ids) : w[i] = [id |-> ids[i], by |-> t, how |-> how]
  BY <1>3
<1> QED BY <1>3, <1>5, <1>6, <1>7 DEF Writes

\* One write of the next call.
LEMMA NextWrite ==
  ASSUME IInv, calls < MaxCalls, calls' = calls + 1, NEW t \in Caller,
         NEW how \in {"delayed", "now", "direct"}
  PROVE  /\ calls' \in Id /\ calls' \in 0 .. MaxCalls
         /\ Writes(<<calls'>>, t, how) \in Seq(Write) /\ Len(Writes(<<calls'>>, t, how)) = 1
         /\ Writes(<<calls'>>, t, how)[1] = [id |-> calls', by |-> t, how |-> how]
         /\ Writes(<<calls'>>, t, how)[1] \in Write
<1>1. calls' \in Id /\ calls' \in 0 .. MaxCalls
  BY DelayConstants DEF IInv, TypeOK, Id
<1>2. PICK ids : ids = <<calls'>>
  OBVIOUS
<1>3. ids \in Seq(Id) /\ Len(ids) = 1 /\ ids[1] = calls'
  BY <1>1, <1>2
<1>4. /\ Writes(ids, t, how) \in Seq(Write) /\ Len(Writes(ids, t, how)) = 1
      /\ Writes(ids, t, how)[1] = [id |-> calls', by |-> t, how |-> how]
  <2>1. 1 \in 1 .. Len(ids)
    BY <1>3
  <2> QED BY <1>3, <2>1, WritesProps
<1>5. [id |-> calls', by |-> t, how |-> how] \in Write
  BY <1>1 DEF Write
<1> QED BY <1>1, <1>2, <1>4, <1>5

-----------------------------------------------------------------------------
(* Every step keeps the invariant *)

LEMMA CallsKeepIInv ==
  ASSUME IInv, NEW t \in Caller,
         \/ NullHelper(t)
         \/ ExecuteInTransaction(t) \/ BeginTransaction(t) \/ RollbackTransaction(t)
  PROVE  IInv'
<1> USE DelayConstants, NoneIsNothing
<1>1. /\ UNCHANGED <<helpersMade, m_bAllowAsyncTransactions, m_sqlQueue, adding, threadVars, conn,
                     db, resultVars>>
      /\ crashed' \in BOOLEAN
      /\ calls' \in {calls, calls + 1} /\ (calls' = calls + 1 => calls < MaxCalls)
      /\ \/ m_pTrans' = m_pTrans
         \/ /\ m_pTrans[t] # None /\ calls' = calls + 1
            /\ m_pTrans' = [m_pTrans EXCEPT ![t] = Append(@, calls')]
         \/ calls' = calls + 1 /\ m_pTrans' = [m_pTrans EXCEPT ![t] = << >>]
         \/ m_pTrans' = [m_pTrans EXCEPT ![t] = None]
  <2>1. crashed \in BOOLEAN
    BY DEF IInv, TypeOK
  <2>2. CASE NullHelper(t)
    <3>1. /\ UNCHANGED <<calls, helpersMade, m_pTrans, m_bAllowAsyncTransactions, m_sqlQueue,
                         adding,
                         threadVars, conn, db, resultVars>>
          /\ crashed' = TRUE
      BY <2>2 DEF NullHelper, callerVars
    <3>2. calls \in Nat
      BY LineParts DEF IInv
    <3> QED BY <3>1, <3>2
  <2>3. CASE ExecuteInTransaction(t)
    BY <2>1, <2>3 DEF ExecuteInTransaction, MayCall, Count
  <2>4. CASE BeginTransaction(t)
    BY <2>1, <2>4 DEF BeginTransaction, MayCall, Count
  <2>5. CASE RollbackTransaction(t)
    <3>1. /\ UNCHANGED <<calls, helpersMade, m_bAllowAsyncTransactions, m_sqlQueue, adding,
                         threadVars, conn, db, resultVars, crashed>>
          /\ m_pTrans' = [m_pTrans EXCEPT ![t] = None]
      BY <2>5 DEF RollbackTransaction, Detach
    <3>2. calls \in Nat
      BY LineParts DEF IInv
    <3> QED BY <2>1, <3>1, <3>2
  <2> QED BY <2>2, <2>3, <2>4, <2>5
<1>2. TypeOK
  BY DEF IInv
<1>3. calls' \in 0 .. MaxCalls /\ calls \in Nat /\ (calls' = calls + 1 => calls' \in Id)
  BY <1>1, <1>2 DEF TypeOK, Id
<1>4. << >> \in Seq(Id)
  BY EmptySeq
<1>5. m_pTrans' \in [Caller -> Seq(Id) \cup {None}]
  <2>1. ASSUME m_pTrans[t] # None, calls' = calls + 1
        PROVE  Append(m_pTrans[t], calls') \in Seq(Id)
    <3>1. m_pTrans[t] \in Seq(Id)
      BY <1>2, <2>1 DEF TypeOK
    <3> QED BY <1>3, <2>1, <3>1, AppendProperties
  <2>2. m_pTrans \in [Caller -> Seq(Id) \cup {None}]
    BY <1>2 DEF TypeOK
  <2> QED BY <1>1, <1>4, <2>1, <2>2
<1>6. TypeOK'
  BY <1>1, <1>2, <1>3, <1>5 DEF TypeOK, threadVars, resultVars
<1>7. Line' = Line
  BY <1>1 DEF Line, Held, Coming
<1>8. Ordered(db, Line, m_pTrans', calls')
  <2>1. ASSUME NEW u \in Caller, m_pTrans'[u] # None
        PROVE  \/ m_pTrans'[u] = m_pTrans[u]
               \/ calls' = calls + 1 /\ m_pTrans'[u] = << >>
               \/ /\ calls' = calls + 1 /\ m_pTrans[u] # None /\ calls' \in Id
                  /\ m_pTrans'[u] = Append(m_pTrans[u], calls')
    BY <1>1, <1>2, <1>3, <2>1 DEF TypeOK
  <2>2. /\ db \in Seq(Write) /\ Line \in Seq(Op) /\ m_pTrans \in [Caller -> Seq(Id) \cup {None}]
        /\ Ordered(db, Line, m_pTrans, calls)
    BY <1>2, LineParts DEF IInv
  <2>3. PICK d, ln, tr, c, us, e : /\ d = db /\ ln = Line /\ tr = m_pTrans /\ c = calls
                                   /\ us = m_pTrans' /\ e = calls'
    OBVIOUS
  <2>4. /\ d \in Seq(Write) /\ ln \in Seq(Op) /\ tr \in [Caller -> Seq(Id) \cup {None}]
        /\ c \in Nat /\ e \in {c, c + 1} /\ Ordered(d, ln, tr, c)
    BY <1>1, <1>3, <2>2, <2>3
  <2>5. \A u \in Caller : us[u] # None =>
           us[u] = tr[u] \/ (e = c + 1 /\ us[u] = << >>)
             \/ (e = c + 1 /\ tr[u] # None /\ e \in Id /\ us[u] = Append(tr[u], e))
    BY <2>1, <2>3
  <2>6. Ordered(d, ln, us, e)
    BY <2>4, <2>5, OrderedCount
  <2> QED BY <2>3, <2>6
<1>9. StartupInv'
  BY <1>1 DEF IInv, StartupInv
<1>10. HaltInv'
  BY <1>1 DEF IInv, HaltInv, NothingLeftBehind, threadVars
<1> QED BY <1>1, <1>6, <1>7, <1>8, <1>9, <1>10 DEF IInv

\* Steps of the threads that leave the operations, the writes and the transactions alone.
LEMMA ThreadsKeepIInv ==
  ASSUME IInv,
         \/ AllowAsyncTransactions \/ CheckRunning \/ EndProcess
         \/ ProcessResultQueue \/ HaltDelayThread \/ DeleteThread
  PROVE  IInv'
<1> USE DelayConstants, NoneIsNothing
<1>1. /\ UNCHANGED <<calls, helpersMade, m_pTrans, m_sqlQueue, adding, conn, db, crashed>>
      /\ \/ AllowAsyncTransactions \/ CheckRunning \/ EndProcess
         \/ ProcessResultQueue \/ HaltDelayThread \/ DeleteThread
  BY DEF AllowAsyncTransactions, CheckRunning, EndProcess, ProcessResultQueue, HaltDelayThread,
         DeleteThread, callerVars, threadVars, resultVars
<1>2. TypeOK
  BY DEF IInv
<1>3. m_pResultQueue' \in Seq(Op) /\ called' \in Seq(Id)
  <2>1. CASE ProcessResultQueue
    <3>1. /\ m_pResultQueue \in Seq(Op) /\ m_pResultQueue # << >> /\ called \in Seq(Id)
          /\ m_pResultQueue' = Tail(m_pResultQueue)
          /\ called' = Append(called, Head(m_pResultQueue).id)
      BY <1>2, <2>1 DEF ProcessResultQueue, TypeOK
    <3>2. Tail(m_pResultQueue) \in Seq(Op) /\ Head(m_pResultQueue) \in Op
      BY <3>1, HeadAndTail
    <3>3. Head(m_pResultQueue).id \in Id
      BY <3>2 DEF Op
    <3> QED BY <3>1, <3>2, <3>3, AppendProperties
  <2>2. CASE ~ProcessResultQueue
    BY <1>1, <1>2, <2>2 DEF TypeOK, AllowAsyncTransactions, CheckRunning, EndProcess,
       HaltDelayThread, DeleteThread, resultVars
  <2> QED BY <2>1, <2>2
<1>4. TypeOK'
  <2>1. m_running' \in BOOLEAN /\ m_bAllowAsyncTransactions' \in BOOLEAN
        /\ delay' \in {"check", "process", "ended", "flush", "deleted", "leaked"}
    BY <1>1, <1>2 DEF TypeOK, AllowAsyncTransactions, CheckRunning, EndProcess, Processing,
       ProcessResultQueue, HaltDelayThread, DeleteThread, callerVars, threadVars
  <2> QED BY <1>1, <1>2, <1>3, <2>1 DEF TypeOK
<1>5. Line' = Line
  BY <1>1 DEF Line, Held, Coming
<1>6. Ordered(db', Line', m_pTrans', calls')
  BY <1>1, <1>5 DEF IInv
<1>7. StartupInv'
  <2>1. CASE AllowAsyncTransactions
    <3>1. /\ ~m_bAllowAsyncTransactions /\ m_bAllowAsyncTransactions' = TRUE
          /\ conn # None => conn.on # "world"
      BY <2>1 DEF AllowAsyncTransactions, Free
    <3>2. conn = None
      BY <3>1 DEF IInv, StartupInv
    <3> QED BY <1>1, <3>1, <3>2 DEF StartupInv
  <2>2. CASE ~AllowAsyncTransactions
    <3>1. m_bAllowAsyncTransactions' = m_bAllowAsyncTransactions
      BY <1>1, <2>2 DEF CheckRunning, EndProcess, ProcessResultQueue, HaltDelayThread,
         DeleteThread, callerVars
    <3> QED BY <1>1, <3>1 DEF IInv, StartupInv
  <2> QED BY <2>1, <2>2
<1>8. HaltInv'
  <2>1. CASE AllowAsyncTransactions \/ ProcessResultQueue
    BY <1>1, <2>1 DEF IInv, HaltInv, NothingLeftBehind, AllowAsyncTransactions,
       ProcessResultQueue, threadVars
  <2>2. CASE CheckRunning
    BY <1>1, <1>2, <2>2 DEF IInv, TypeOK, HaltInv, NothingLeftBehind, CheckRunning
  <2>3. CASE EndProcess
    BY <1>1, <2>3 DEF IInv, HaltInv, NothingLeftBehind, EndProcess, Processing, MayTake
  <2>4. CASE DeleteThread
    BY <1>1, <2>4 DEF IInv, HaltInv, NothingLeftBehind, DeleteThread
  <2>5. CASE HaltDelayThread
    <3>1. adding = None
      <4>1. ASSUME adding # None PROVE FALSE
        <5>1. adding.by \in Caller
          BY <1>2, <4>1 DEF TypeOK, Op
        <5>2. Free(adding.by)
          BY <2>5, <5>1 DEF HaltDelayThread
        <5> QED BY <4>1, <5>2 DEF Free
      <4> QED BY <4>1
    <3> QED BY <1>1, <2>5, <3>1 DEF IInv, HaltInv, NothingLeftBehind, HaltDelayThread
  <2> QED BY <1>1, <2>1, <2>2, <2>3, <2>4, <2>5
<1> QED BY <1>4, <1>6, <1>7, <1>8 DEF IInv

\* An operation is handed over: the caller holds the queue's lock.
LEMMA DelayKeepsIInv ==
  ASSUME IInv, NEW t \in Caller,
         ExecuteDelayed(t) \/ CommitTransaction(t) \/ AsyncQuery(t)
  PROVE  IInv' /\ adding' # None /\ Line' = Append(Line, adding')
<1>1. TypeOK
  BY DEF IInv
<1>2. /\ calls \in Nat /\ db \in Seq(Write) /\ Line \in Seq(Op)
      /\ m_pTrans \in [Caller -> Seq(Id) \cup {None}]
      /\ Held \in Seq(Op) /\ m_sqlQueue \in Seq(Op)
      /\ Ordered(db, Line, m_pTrans, calls)
  BY <1>1, LineParts DEF IInv
<1>3. /\ UNCHANGED <<helpersMade, m_bAllowAsyncTransactions, m_sqlQueue, threadVars, conn, db,
                     resultVars, crashed>>
      /\ adding = None /\ m_running
  BY DEF ExecuteDelayed, CommitTransaction, AsyncQuery, Delay, MayCall, Free
<1>4. PICK op : op = adding'
  OBVIOUS
<1>5. /\ calls' \in {calls, calls + 1} /\ calls' \in 0 .. MaxCalls
      /\ m_pTrans' \in [Caller -> Seq(Id) \cup {None}]
      /\ op \in Op /\ OpInv(op, calls')
      /\ ~m_bAllowAsyncTransactions => op.kind = "query"
      /\ \A i \in 1 .. Len(db) : Kept(db[i]) =>
            \A k \in 1 .. Len(op.stmts) : Precedes(db[i], op.stmts[k])
      /\ \A i \in 1 .. Len(Line) : Goes(Line[i], op)
      /\ \A u \in Caller : m_pTrans'[u] # None =>
            m_pTrans'[u] = m_pTrans[u] /\ \A k \in 1 .. Len(op.stmts) : op.stmts[k].by # u
  <2>1. CASE ExecuteDelayed(t)
    <3>1. /\ calls < MaxCalls /\ calls' = calls + 1 /\ m_pTrans' = m_pTrans
          /\ m_pTrans[t] = None /\ m_bAllowAsyncTransactions
          /\ op = Operation("plain", calls', t, Writes(<<calls'>>, t, "delayed"))
      BY <1>4, <2>1 DEF ExecuteDelayed, MayCall, Count, Delay
    <3>2. PICK s : s = Writes(<<calls'>>, t, "delayed")
      OBVIOUS
    <3>3. /\ calls' \in Id /\ calls' \in 0 .. MaxCalls
          /\ s \in Seq(Write) /\ Len(s) = 1
          /\ s[1] = [id |-> calls', by |-> t, how |-> "delayed"]
      BY <3>1, <3>2, NextWrite
    <3>4. op = [kind |-> "plain", id |-> calls', by |-> t, stmts |-> s]
      BY <3>1, <3>2 DEF Operation
    <3>5. op \in Op /\ op.kind = "plain" /\ op.stmts = s /\ op.by = t
      BY <3>3, <3>4 DEF Op
    <3>6. OpInv(op, calls')
      <4>1. \A k \in 1 .. Len(op.stmts) : k = 1
        <5>1. Len(op.stmts) = 1
          BY <3>3, <3>5
        <5> QED BY <5>1
      <4>2. op.stmts[1].by = t /\ op.stmts[1].id = calls' /\ calls' \in Nat
        BY <1>2, <3>1, <3>3, <3>5
      <4>3. \A k \in 1 .. Len(op.stmts) : op.stmts[k].by = op.by /\ op.stmts[k].id <= calls'
        BY <3>5, <4>1, <4>2
      <4>4. \A k, l \in 1 .. Len(op.stmts) : ~(k < l)
        BY <4>1
      <4> QED BY <3>3, <3>5, <4>3, <4>4 DEF OpInv
    <3>7. ASSUME NEW i \in 1 .. Len(db), Kept(db[i]), NEW k \in 1 .. Len(op.stmts)
          PROVE  Precedes(db[i], op.stmts[k])
      <4>1. db[i].id <= calls /\ db[i].id \in Int
        BY <1>2, <3>7, StoreTypes DEF Ordered, StoredInv
      <4>2. op.stmts[k].id = calls + 1
        BY <3>1, <3>3, <3>5
      <4> QED BY <1>2, <4>1, <4>2 DEF Precedes
    <3>8. ASSUME NEW i \in 1 .. Len(Line), NEW k \in 1 .. Len(Line[i].stmts),
                 NEW l \in 1 .. Len(op.stmts)
          PROVE  Precedes(Line[i].stmts[k], op.stmts[l])
      <4>1. Line[i].stmts[k].id <= calls /\ Line[i].stmts[k].id \in Int
        BY <1>2, LineTypes DEF Ordered, LineInv, OpInv
      <4>2. op.stmts[l].id = calls + 1
        BY <3>1, <3>3, <3>5
      <4>3. calls \in Int
        BY <1>2
      <4> QED BY <4>1, <4>2, <4>3 DEF Precedes
    <3>9. \A u \in Caller : m_pTrans[u] # None => \A k \in 1 .. Len(op.stmts) : op.stmts[k].by # u
      BY <3>1, <3>3, <3>5
    <3>10. \A i \in 1 .. Len(Line) : Goes(Line[i], op)
      BY <3>8 DEF Goes
    <3>11. /\ calls' \in {calls, calls + 1} /\ calls' \in 0 .. MaxCalls
           /\ ~m_bAllowAsyncTransactions => op.kind = "query"
      BY <3>1, <3>3
    <3>12. m_pTrans' \in [Caller -> Seq(Id) \cup {None}]
      BY <1>2, <3>1
    <3>13. \A u \in Caller : m_pTrans'[u] # None =>
            m_pTrans'[u] = m_pTrans[u] /\ \A k \in 1 .. Len(op.stmts) : op.stmts[k].by # u
      BY <3>1, <3>9
    <3> QED BY <3>5, <3>6, <3>7, <3>10, <3>11, <3>12, <3>13
  <2>2. CASE CommitTransaction(t)
    <3>1. /\ calls' = calls /\ m_pTrans' = [m_pTrans EXCEPT ![t] = None]
          /\ m_pTrans[t] # None /\ m_bAllowAsyncTransactions
          /\ op = Operation("transaction", calls, t, Writes(m_pTrans[t], t, "delayed"))
      BY <1>4, <2>2 DEF CommitTransaction, Detach, Delay
    <3>2. PICK ids, s : ids = m_pTrans[t] /\ s = Writes(m_pTrans[t], t, "delayed")
      OBVIOUS
    <3>3. /\ ids \in Seq(Id) /\ OpenInv(db, Line, calls, t, ids)
          /\ Len(ids) \in Nat
      BY <1>2, <3>1, <3>2, IdsTypes DEF Ordered
    <3>4. /\ s \in Seq(Write) /\ Len(s) = Len(ids)
          /\ \A n \in 1 .. Len(ids) : s[n].id = ids[n] /\ s[n].by = t
      <4>1. /\ s \in Seq(Write) /\ Len(s) = Len(ids)
            /\ \A n \in 1 .. Len(ids) : s[n] = [id |-> ids[n], by |-> t, how |-> "delayed"]
        BY <3>2, <3>3, WritesProps
      <4>2. ASSUME NEW n \in 1 .. Len(ids) PROVE s[n].id = ids[n] /\ s[n].by = t
        <5>1. PICK w : w = s[n]
          OBVIOUS
        <5>2. w = [id |-> ids[n], by |-> t, how |-> "delayed"]
          BY <4>1, <5>1
        <5>3. w.id = ids[n] /\ w.by = t
          BY <5>2
        <5> QED BY <5>1, <5>3
      <4> QED BY <4>1, <4>2
    <3>5. op = [kind |-> "transaction", id |-> calls, by |-> t, stmts |-> s]
      BY <3>1, <3>2 DEF Operation
    <3>6. calls \in Id
      BY <1>1, <3>3 DEF OpenInv, TypeOK, Id
    <3>7. op \in Op /\ op.kind = "transaction" /\ op.stmts = s /\ op.by = t
      BY <3>4, <3>5, <3>6 DEF Op
    <3>8. OpInv(op, calls)
      BY <3>3, <3>4, <3>7 DEF OpInv, OpenInv
    <3>9. ASSUME NEW i \in 1 .. Len(db), Kept(db[i]), NEW k \in 1 .. Len(op.stmts)
          PROVE  Precedes(db[i], op.stmts[k])
      BY <3>3, <3>4, <3>7, <3>9 DEF OpenInv, Precedes
    <3>10. ASSUME NEW i \in 1 .. Len(Line), NEW k \in 1 .. Len(Line[i].stmts),
                  NEW l \in 1 .. Len(op.stmts)
           PROVE  Precedes(Line[i].stmts[k], op.stmts[l])
      BY <3>3, <3>4, <3>7 DEF OpenInv, Precedes
    <3>11. /\ m_pTrans' \in [Caller -> Seq(Id) \cup {None}]
           /\ \A u \in Caller : m_pTrans'[u] # None => m_pTrans'[u] = m_pTrans[u] /\ u # t
      BY <1>2, <3>1
    <3>12. \A k \in 1 .. Len(op.stmts) : op.stmts[k].by = t
      BY <3>4, <3>7
    <3> QED BY <1>1, <3>1, <3>7, <3>8, <3>9, <3>10, <3>11, <3>12 DEF Goes, TypeOK
  <2>3. CASE AsyncQuery(t)
    <3>1. /\ calls < MaxCalls /\ calls' = calls + 1 /\ m_pTrans' = m_pTrans
          /\ op = Operation("query", calls', t, << >>)
      BY <1>4, <2>3 DEF AsyncQuery, MayCall, Count, Delay
    <3>2. calls' \in Id /\ calls' \in 0 .. MaxCalls
      BY <3>1, NextWrite
    <3>3. << >> \in Seq(Write) /\ Len(<< >>) = 0
      BY EmptySeq
    <3>4. op \in Op /\ op.kind = "query" /\ op.stmts = << >> /\ Len(op.stmts) = 0
      BY <3>1, <3>2, <3>3 DEF Operation, Op
    <3>5. OpInv(op, calls')
      BY <3>4 DEF OpInv
    <3> QED BY <1>2, <3>1, <3>2, <3>4, <3>5 DEF Goes
  <2> QED BY <2>1, <2>2, <2>3
<1>6. op # None
  BY <1>5, NoneIsNothing
<1>7. Line' = Append(Line, op)
  <2>1. Line = (Held \o m_sqlQueue) \o << >>
    BY <1>3 DEF Line, Coming
  <2>2. Held' = Held /\ Line' = (Held \o m_sqlQueue) \o <<op>>
    BY <1>3, <1>4, <1>6 DEF Line, Held, Coming
  <2> QED BY <1>2, <1>5, <2>1, <2>2, LineAppend
<1>8. TypeOK'
  BY <1>1, <1>3, <1>4, <1>5 DEF TypeOK, threadVars, resultVars
<1>9. Ordered(db, Append(Line, op), m_pTrans', calls')
  <2>1. PICK e, us : e = calls' /\ us = m_pTrans'
    OBVIOUS
  <2>2. /\ e \in {calls, calls + 1} /\ OpInv(op, e)
        /\ \A u \in Caller : us[u] # None =>
              us[u] = m_pTrans[u] /\ \A k \in 1 .. Len(op.stmts) : op.stmts[k].by # u
    BY <1>5, <2>1
  <2>3. Ordered(db, Append(Line, op), us, e)
    <3>1. PICK d, ln, tr, c : d = db /\ ln = Line /\ tr = m_pTrans /\ c = calls
      OBVIOUS
    <3>2. /\ d \in Seq(Write) /\ ln \in Seq(Op) /\ tr \in [Caller -> Seq(Id) \cup {None}]
          /\ c \in Nat /\ Ordered(d, ln, tr, c)
          /\ e \in {c, c + 1} /\ op \in Op /\ OpInv(op, e)
      BY <1>2, <1>5, <2>2, <3>1
    <3>3. IsLatest(op, d, ln, tr, us)
      BY <1>5, <2>2, <3>1 DEF IsLatest
    <3>4. Ordered(d, Append(ln, op), us, e)
      BY <3>2, <3>3, OrderedAppend
    <3> QED BY <3>1, <3>4
  <2> QED BY <2>1, <2>3
<1>10. StartupInv'
  BY <1>3, <1>4, <1>5 DEF IInv, StartupInv
<1>11. HaltInv'
  BY <1>3 DEF IInv, HaltInv, NothingLeftBehind, threadVars
<1> QED BY <1>3, <1>4, <1>6, <1>7, <1>8, <1>9, <1>10, <1>11 DEF IInv

\* The operation enters the queue.
LEMMA AddKeepsIInv ==
  ASSUME IInv, Add
  PROVE  IInv'
<1>1. TypeOK
  BY DEF IInv
<1>2. /\ UNCHANGED <<calls, helpersMade, m_pTrans, m_bAllowAsyncTransactions, m_running, delay,
                     conn, db, m_pResultQueue, called, crashed>>
      /\ adding # None /\ adding \in Op /\ adding' = None
      /\ m_sqlQueue' = Append(m_sqlQueue, adding)
  BY <1>1 DEF Add, TypeOK, callerVars, threadVars, resultVars
<1>3. /\ m_sqlQueue \in Seq(Op) /\ m_sqlQueue' \in Seq(Op)
      /\ Len(m_sqlQueue) \in Nat /\ Len(m_sqlQueue') = Len(m_sqlQueue) + 1
      /\ \A i \in 1 .. Len(m_sqlQueue) : m_sqlQueue'[i] = m_sqlQueue[i]
      /\ m_sqlQueue'[Len(m_sqlQueue) + 1] = adding
  BY <1>1, <1>2, AppendProperties, LenProperties DEF TypeOK
<1>4. TypeOK'
  BY <1>1, <1>2, <1>3 DEF TypeOK
<1>5. Line' = Line
  <2>1. Held' = Held /\ Coming' = << >> /\ Coming = <<adding>>
    BY <1>2 DEF Held, Coming
  <2> QED BY <1>1, <1>2, <1>3, <2>1, LineParts, LineAppend DEF Line
<1>6. StartupInv'
  <2>1. ASSUME ~m_bAllowAsyncTransactions, NEW i \in 1 .. Len(m_sqlQueue')
        PROVE  m_sqlQueue'[i].kind = "query"
    <3>1. i \in 1 .. Len(m_sqlQueue) \/ i = Len(m_sqlQueue) + 1
      BY <1>3
    <3> QED BY <1>2, <1>3, <2>1, <3>1 DEF IInv, StartupInv
  <2> QED BY <1>2, <2>1 DEF IInv, StartupInv
<1>7. HaltInv'
  BY <1>2 DEF IInv, HaltInv, NothingLeftBehind
<1>8. Ordered(db', Line', m_pTrans', calls')
  BY <1>2, <1>5 DEF IInv
<1> QED BY <1>4, <1>6, <1>7, <1>8 DEF IInv

\* A caller executes one statement itself.
LEMMA DirectKeepsIInv ==
  ASSUME IInv, NEW t \in Caller, DirectExecute(t) \/ ExecuteAtStartup(t)
  PROVE  IInv'
<1>1. TypeOK
  BY DEF IInv
<1>2. /\ UNCHANGED <<helpersMade, m_pTrans, m_bAllowAsyncTransactions, m_sqlQueue, adding,
                     m_running, delay, conn, m_pResultQueue, called, crashed>>
      /\ calls < MaxCalls /\ calls' = calls + 1 /\ conn = None
  BY DEF DirectExecute, ExecuteAtStartup, MayCall, Count, ExecuteNow, threadVars, resultVars
<1>3. /\ calls \in Nat /\ db \in Seq(Write) /\ Line \in Seq(Op)
      /\ m_pTrans \in [Caller -> Seq(Id) \cup {None}]
      /\ Ordered(db, Line, m_pTrans, calls)
  BY <1>1, LineParts DEF IInv
<1>4. PICK w \in Write :
         /\ \/ ~Kept(w)
            \/ /\ w.id = calls + 1 /\ m_pTrans[w.by] = None
               /\ \A i \in 1 .. Len(Line) : Line[i].stmts = << >>
         /\ db' \in {db, Append(db, w)}
  <2>1. CASE DirectExecute(t)
    <3>1. PICK w : w = Writes(<<calls'>>, t, "direct")[1]
      OBVIOUS
    <3>2. w \in Write /\ w = [id |-> calls', by |-> t, how |-> "direct"]
      BY <1>2, <3>1, NextWrite
    <3>3. ~Kept(w)
      BY <3>2 DEF Kept
    <3>4. db' \in {db, Append(db, w)}
      BY <2>1, <3>1 DEF DirectExecute, ExecuteNow
    <3> QED BY <3>2, <3>3, <3>4
  <2>2. CASE ExecuteAtStartup(t)
    <3>1. PICK w : w = Writes(<<calls'>>, t, "now")[1]
      OBVIOUS
    <3>2. w \in Write /\ w = [id |-> calls', by |-> t, how |-> "now"]
      BY <1>2, <3>1, NextWrite
    <3>3. w.id = calls' /\ w.by = t
      BY <3>2
    <3>4. /\ db' \in {db, Append(db, w)}
          /\ m_pTrans[t] = None /\ ~m_bAllowAsyncTransactions
      BY <2>2, <3>1 DEF ExecuteAtStartup, ExecuteNow
    <3>5. \A i \in 1 .. Len(Line) : Line[i].stmts = << >>
      BY <1>2, <3>4, OnlyQueries
    <3> QED BY <1>2, <3>2, <3>3, <3>4, <3>5
  <2> QED BY <2>1, <2>2
<1>5. PICK e : e = db'
  OBVIOUS
<1>6. Ordered(e, Line, m_pTrans, calls + 1)
  BY <1>3, <1>4, <1>5, OrderedDirect
<1>7. Line' = Line
  BY <1>2 DEF Line, Held, Coming
<1>8. Ordered(db', Line', m_pTrans', calls')
  BY <1>2, <1>5, <1>6, <1>7
<1>9. TypeOK'
  <2>1. db' \in Seq(Write)
    BY <1>3, <1>4, AppendProperties
  <2>2. calls' \in 0 .. MaxCalls
    BY <1>2, <1>3, DelayConstants
  <2> QED BY <1>1, <1>2, <2>1, <2>2 DEF TypeOK
<1>10. StartupInv'
  BY <1>2 DEF IInv, StartupInv
<1>11. HaltInv'
  BY <1>2 DEF IInv, HaltInv, NothingLeftBehind
<1> QED BY <1>8, <1>9, <1>10, <1>11 DEF IInv

\* An operation with statements begins on a connection that is free.
LEMMA BeginsHeld ==
  ASSUME NEW op \in Op, NEW thread \in Caller \cup {"delay"}, op.stmts # << >>,
         BeginOn(thread, op)
  PROVE  /\ conn = None /\ conn' = [op |-> op, done |-> << >>, on |-> thread]
         /\ conn' \in Transaction /\ conn' # None
         /\ conn'.op = op /\ conn'.done = << >> /\ conn'.on = thread
         /\ conn'.done = SubSeq(conn'.op.stmts, 1, Len(conn'.done))
<1>1. PICK tx : tx = [op |-> op, done |-> << >>, on |-> thread]
  OBVIOUS
<1>2. << >> \in Seq(Write) /\ Len(<< >>) = 0
  BY EmptySeq
<1>3. tx \in Transaction
  BY <1>1, <1>2 DEF Transaction
<1>4. tx.op = op /\ tx.done = << >> /\ tx.on = thread
  BY <1>1
<1>5. SubSeq(op.stmts, 1, 0) = << >>
  BY SubSeqEmpty
<1>6. tx.done = SubSeq(tx.op.stmts, 1, Len(tx.done))
  BY <1>2, <1>4, <1>5
<1>7. conn = None /\ conn' = tx
  BY <1>1 DEF BeginOn
<1> QED BY <1>1, <1>3, <1>4, <1>6, <1>7, NoneIsNothing

\* At startup a caller carries out its transaction itself.
LEMMA CommitDirectKeepsIInv ==
  ASSUME IInv, NEW t \in Caller, CommitTransactionDirect(t)
  PROVE  IInv'
<1>1. TypeOK
  BY DEF IInv
<1>2. PICK op, ids, s : /\ ids = m_pTrans[t] /\ s = Writes(m_pTrans[t], t, "now")
                        /\ op = Operation("transaction", calls, t, s)
  OBVIOUS
<1>3. /\ UNCHANGED <<calls, helpersMade, m_bAllowAsyncTransactions, m_sqlQueue, adding, m_running,
                     delay, db, m_pResultQueue, called, crashed>>
      /\ Free(t) /\ ids # None /\ ~m_bAllowAsyncTransactions
      /\ m_pTrans' = [m_pTrans EXCEPT ![t] = None]
      /\ BeginOn(t, op)
  BY <1>2 DEF CommitTransactionDirect, Detach, threadVars, resultVars
<1>4. /\ calls \in Nat /\ db \in Seq(Write) /\ Line \in Seq(Op)
      /\ m_pTrans \in [Caller -> Seq(Id) \cup {None}]
      /\ m_sqlQueue \in Seq(Op) /\ Coming \in Seq(Op)
      /\ Ordered(db, Line, m_pTrans, calls)
  BY <1>1, LineParts DEF IInv
<1>5. /\ ids \in Seq(Id) /\ OpenInv(db, Line, calls, t, ids)
      /\ Len(ids) \in Nat
  BY <1>2, <1>3, <1>4, IdsTypes DEF Ordered
<1>6. /\ s \in Seq(Write) /\ Len(s) = Len(ids)
      /\ \A n \in 1 .. Len(ids) : s[n].id = ids[n] /\ s[n].by = t /\ s[n].how = "now"
  <2>1. /\ s \in Seq(Write) /\ Len(s) = Len(ids)
        /\ \A n \in 1 .. Len(ids) : s[n] = [id |-> ids[n], by |-> t, how |-> "now"]
    BY <1>2, <1>5, WritesProps
  <2>2. ASSUME NEW n \in 1 .. Len(ids) PROVE s[n].id = ids[n] /\ s[n].by = t /\ s[n].how = "now"
    <3>1. PICK w : w = s[n]
      OBVIOUS
    <3>2. w = [id |-> ids[n], by |-> t, how |-> "now"]
      BY <2>1, <3>1
    <3>3. w.id = ids[n] /\ w.by = t /\ w.how = "now"
      BY <3>2
    <3> QED BY <3>1, <3>3
  <2> QED BY <2>1, <2>2
<1>7. /\ op = [kind |-> "transaction", id |-> calls, by |-> t, stmts |-> s]
      /\ calls \in Id
  BY <1>1, <1>2, <1>5 DEF Operation, OpenInv, TypeOK, Id
<1>8. op \in Op /\ op.kind = "transaction" /\ op.stmts = s /\ op.by = t
  BY <1>6, <1>7 DEF Op
<1>9. OpInv(op, calls)
  BY <1>5, <1>6, <1>8 DEF OpInv, OpenInv
<1>10. /\ m_pTrans' \in [Caller -> Seq(Id) \cup {None}]
       /\ \A u \in Caller : m_pTrans'[u] # None => m_pTrans'[u] = m_pTrans[u] /\ u # t
  BY <1>3, <1>4
<1>11. PICK us : us = m_pTrans'
  OBVIOUS
<1>12. t = "world"
  BY <1>3 DEF Free
<1>13. /\ conn # None => conn' = conn
       /\ TypeOK'
       /\ Ordered(db, Line', us, calls)
       /\ StartupInv'
  <2>1. CASE s = << >>
    <3>1. conn' = conn
      BY <1>3, <1>8, <2>1 DEF BeginOn
    <3>2. TypeOK'
      BY <1>1, <1>3, <1>10, <3>1 DEF TypeOK
    <3>3. Line' = Line
      BY <1>3, <3>1 DEF Line, Held, Coming
    <3>4. Ordered(db, Line, us, calls)
      BY <1>4, <1>10, <1>11, OrderedCount
    <3>5. StartupInv'
      BY <1>3, <3>1 DEF IInv, StartupInv
    <3> QED BY <3>1, <3>2, <3>3, <3>4, <3>5
  <2>2. CASE s # << >>
    <3>1. /\ conn = None /\ conn' \in Transaction /\ conn' # None
          /\ conn'.op = op /\ conn'.on = t
          /\ conn'.done = SubSeq(conn'.op.stmts, 1, Len(conn'.done))
      BY <1>3, <1>8, <2>2, BeginsHeld
    <3>2. TypeOK'
      BY <1>1, <1>3, <1>10, <3>1 DEF TypeOK
    <3>3. Line' = <<op>> \o Line
      <4>1. Held' = <<op>> /\ Held = << >> /\ Coming' = Coming
        BY <1>3, <3>1 DEF Held, Coming
      <4> QED BY <1>3, <1>4, <1>8, <4>1, LineFirst DEF Line
    <3>4. Ordered(db, <<op>> \o Line, us, calls)
      <4>1. \A i \in 1 .. Len(Line) : Line[i].stmts = << >>
        BY <1>3, <3>1, OnlyQueries
      <4>2. ASSUME NEW i \in 1 .. Len(db), Kept(db[i]), NEW k \in 1 .. Len(op.stmts)
            PROVE  Precedes(db[i], op.stmts[k])
        BY <1>5, <1>6, <1>8, <4>2 DEF OpenInv, Precedes
      <4>3. \A u \in Caller : us[u] # None =>
               us[u] = m_pTrans[u] /\ \A k \in 1 .. Len(op.stmts) : op.stmts[k].by # u
        BY <1>6, <1>8, <1>10, <1>11
      <4> QED BY <1>4, <1>8, <1>9, <4>1, <4>2, <4>3, OrderedFirst
    <3>5. StartupInv'
      <4>1. \A k \in 1 .. Len(conn'.op.stmts) : conn'.op.stmts[k].how = "now"
        BY <1>6, <1>8, <3>1
      <4> QED BY <1>3, <1>8, <1>12, <2>2, <3>1, <4>1 DEF IInv, StartupInv
    <3> QED BY <3>1, <3>2, <3>3, <3>4, <3>5
  <2> QED BY <2>1, <2>2
<1>14. HaltInv'
  BY <1>3 DEF IInv, HaltInv, NothingLeftBehind
<1> QED BY <1>3, <1>11, <1>13, <1>14 DEF IInv

\* The transaction on the connection goes on: the next statement succeeds.
LEMMA StatementProps ==
  ASSUME TypeOK, conn # None, Len(conn.done) < Len(conn.op.stmts),
         conn' = [conn EXCEPT !.done = Append(@, NextStatement(conn))]
  PROVE  /\ conn' \in Transaction /\ conn' # None
         /\ conn'.op = conn.op /\ conn'.on = conn.on
         /\ conn'.done = SubSeq(conn'.op.stmts, 1, Len(conn'.done))
<1>1. /\ conn \in Transaction /\ conn.op \in Op /\ conn.done \in Seq(Write)
      /\ conn.on \in Caller \cup {"delay"}
      /\ conn.done = SubSeq(conn.op.stmts, 1, Len(conn.done))
  BY DEF TypeOK, Transaction
<1>2. PICK s, n, e : s = conn.op.stmts /\ n = Len(conn.done) /\ e = Append(conn.done, s[n + 1])
  OBVIOUS
<1>3. s \in Seq(Write) /\ Len(s) \in Nat /\ n \in Nat /\ n < Len(s)
  BY <1>1, <1>2, OpTypes, LenProperties
<1>4. n + 1 \in 1 .. Len(s) /\ s[n + 1] \in Write /\ (n + 1) - 1 = n
  BY <1>3, ElementOfSeq
<1>5. e \in Seq(Write) /\ Len(e) = n + 1
  BY <1>1, <1>2, <1>4, AppendProperties
<1>6. e = SubSeq(s, 1, n + 1)
  <2>1. SubSeq(s, 1, n + 1) = SubSeq(s, 1, n) \o <<s[n + 1]>>
    <3>1. 1 \in 1 .. Len(s) /\ n + 1 \in 1 .. Len(s)
      BY <1>3, <1>4
    <3>2. SubSeq(s, 1, n + 1) = SubSeq(s, 1, (n + 1) - 1) \o <<s[n + 1]>>
      BY <1>3, <3>1, SubSeqRecursiveSecond
    <3> QED BY <1>4, <3>2
  <2>2. e = conn.done \o <<s[n + 1]>>
    BY <1>1, <1>2, <1>4, AppendIsConcat
  <2> QED BY <1>1, <1>2, <2>1, <2>2
<1>7. conn' = [conn EXCEPT !.done = e]
  BY <1>2 DEF NextStatement
<1>8. PICK tx : tx = [conn EXCEPT !.done = e]
  OBVIOUS
<1>9. tx \in Transaction /\ tx.op = conn.op /\ tx.on = conn.on /\ tx.done = e
  BY <1>1, <1>5, <1>8 DEF Transaction
<1> QED BY <1>2, <1>5, <1>6, <1>7, <1>8, <1>9, NoneIsNothing

LEMMA StatementKeepsIInv ==
  ASSUME IInv, conn # None, Len(conn.done) < Len(conn.op.stmts),
         conn' = [conn EXCEPT !.done = Append(@, NextStatement(conn))],
         UNCHANGED <<callerVars, m_sqlQueue, adding, threadVars, db, resultVars, crashed>>
  PROVE  IInv'
<1>1. TypeOK
  BY DEF IInv
<1>2. UNCHANGED <<calls, helpersMade, m_pTrans, m_bAllowAsyncTransactions, m_sqlQueue, adding,
                  m_running, delay, db, m_pResultQueue, called, crashed>>
  BY DEF callerVars, threadVars, resultVars
<1>3. /\ conn' \in Transaction /\ conn' # None
      /\ conn'.op = conn.op /\ conn'.on = conn.on
      /\ conn'.done = SubSeq(conn'.op.stmts, 1, Len(conn'.done))
  BY <1>1, StatementProps
<1>4. TypeOK'
  BY <1>1, <1>2, <1>3 DEF TypeOK
<1>5. Line' = Line
  <2>1. Held' = Held /\ Coming' = Coming
    BY <1>2, <1>3 DEF Held, Coming
  <2> QED BY <1>2, <2>1 DEF Line
<1>6. Ordered(db', Line', m_pTrans', calls')
  BY <1>2, <1>5 DEF IInv
<1>7. StartupInv'
  BY <1>2, <1>3 DEF IInv, StartupInv
<1>8. HaltInv'
  BY <1>2 DEF IInv, HaltInv, NothingLeftBehind
<1> QED BY <1>4, <1>6, <1>7, <1>8 DEF IInv

\* The transaction on the connection ends, with all its writes or with none.
LEMMA EndProps ==
  ASSUME IInv, conn # None, Rollback \/ Commit
  PROVE  /\ conn' = None /\ conn.op \in Op
         /\ db' \in {db, db \o conn.op.stmts} /\ db' \in Seq(Write)
<1>1. /\ conn.op \in Op /\ conn.op.stmts \in Seq(Write) /\ db \in Seq(Write)
      /\ conn.done = SubSeq(conn.op.stmts, 1, Len(conn.done))
  BY OpTypes DEF IInv, TypeOK, Transaction
<1>2. CASE Rollback
  BY <1>1, <1>2 DEF Rollback
<1>3. CASE Commit
  <2>1. Len(conn.done) = Len(conn.op.stmts) /\ conn' = None /\ db' \in {db, db \o conn.done}
    BY <1>3 DEF Commit
  <2>2. conn.done = conn.op.stmts
    BY <1>1, <2>1, SubSeqFull
  <2>3. db \o conn.op.stmts \in Seq(Write)
    BY <1>1, ConcatProperties
  <2> QED BY <1>1, <2>1, <2>2, <2>3
<1> QED BY <1>2, <1>3

LEMMA EndKeepsIInv ==
  ASSUME IInv, conn # None, Rollback \/ Commit,
         UNCHANGED <<callerVars, m_sqlQueue, adding, threadVars, resultVars, crashed>>
  PROVE  IInv'
<1>1. TypeOK
  BY DEF IInv
<1>2. UNCHANGED <<calls, helpersMade, m_pTrans, m_bAllowAsyncTransactions, m_sqlQueue, adding,
                  m_running, delay, m_pResultQueue, called, crashed>>
  BY DEF callerVars, threadVars, resultVars
<1>3. /\ conn' = None /\ conn.op \in Op
      /\ db' \in {db, db \o conn.op.stmts} /\ db' \in Seq(Write)
  BY EndProps
<1>4. TypeOK'
  BY <1>1, <1>2, <1>3 DEF TypeOK
<1>5. /\ Line # << >> /\ Head(Line) = conn.op /\ Line' = Tail(Line)
  <2>1. Held = <<conn.op>> /\ Held' = << >> /\ Coming' = Coming
    BY <1>2, <1>3 DEF Held, Coming
  <2>2. m_sqlQueue \in Seq(Op) /\ Coming \in Seq(Op)
    BY <1>1, LineParts
  <2>3. PICK op : op = conn.op
    OBVIOUS
  <2>4. /\ (<<op>> \o m_sqlQueue) \o Coming # << >>
        /\ Head((<<op>> \o m_sqlQueue) \o Coming) = op
        /\ Tail((<<op>> \o m_sqlQueue) \o Coming) = (<< >> \o m_sqlQueue) \o Coming
    BY <1>3, <2>2, <2>3, LineFirst
  <2> QED BY <1>2, <2>1, <2>3, <2>4 DEF Line
<1>6. PICK e : e = db'
  OBVIOUS
<1>7. Ordered(e, Tail(Line), m_pTrans, calls)
  <2>1. /\ db \in Seq(Write) /\ Line \in Seq(Op) /\ calls \in Nat
        /\ m_pTrans \in [Caller -> Seq(Id) \cup {None}]
        /\ Ordered(db, Line, m_pTrans, calls)
    BY <1>1, LineParts DEF IInv
  <2>2. e \in {db, db \o Head(Line).stmts}
    BY <1>3, <1>5, <1>6
  <2> QED BY <1>5, <2>1, <2>2, OrderedTail
<1>8. StartupInv'
  BY <1>2, <1>3 DEF IInv, StartupInv
<1>9. HaltInv'
  BY <1>2 DEF IInv, HaltInv, NothingLeftBehind
<1> QED BY <1>2, <1>4, <1>5, <1>6, <1>7, <1>8, <1>9 DEF IInv

\* The delay thread takes an operation: it begins on the connection, or is carried out at once.
LEMMA TakeProps ==
  ASSUME IInv, ProcessRequest
  PROVE  LET op == Head(m_sqlQueue)
         IN  /\ conn = None /\ op \in Op /\ OpInv(op, calls)
             /\ m_sqlQueue # << >> /\ m_sqlQueue' = Tail(m_sqlQueue)
             /\ m_sqlQueue' \in Seq(Op) /\ m_pResultQueue' \in Seq(Op)
             /\ delay \in {"process", "flush"}
             /\ ~m_bAllowAsyncTransactions => op.kind = "query"
             /\ \/ /\ op.kind = "transaction" /\ op.stmts # << >> /\ db' = db
                   /\ BeginOn("delay", op)
                \/ /\ conn' = None /\ db' \in Seq(Write)
                   /\ db' \in {db, db \o op.stmts}
<1>1. TypeOK
  BY DEF IInv
<1>2. PICK op : op = Head(m_sqlQueue)
  OBVIOUS
<1>3. /\ m_sqlQueue \in Seq(Op) /\ m_sqlQueue # << >> /\ m_sqlQueue' = Tail(m_sqlQueue)
      /\ conn # None => conn.on # "delay"
      /\ Perform(op) /\ delay \in {"process", "flush"}
  BY <1>1, <1>2 DEF ProcessRequest, Processing, MayTake, TypeOK
<1>4. op \in Op /\ m_sqlQueue' \in Seq(Op) /\ op = m_sqlQueue[1]
      /\ Len(m_sqlQueue) \in Nat /\ Len(m_sqlQueue) >= 1
  BY <1>2, <1>3, HeadAndTail, EmptySeq, LenProperties
<1>5. ~m_bAllowAsyncTransactions => op.kind = "query"
  <2>1. 1 \in 1 .. Len(m_sqlQueue)
    BY <1>4
  <2> QED BY <1>4, <2>1 DEF IInv, StartupInv
<1>6. conn = None
  <2>1. CASE m_bAllowAsyncTransactions
    BY <1>3, <2>1 DEF IInv, StartupInv
  <2>2. CASE ~m_bAllowAsyncTransactions
    BY <1>3, <1>5, <2>2 DEF Perform
  <2> QED BY <2>1, <2>2
<1>7. OpInv(op, calls)
  <2>1. Held = << >> /\ Line \in Seq(Op) /\ Coming \in Seq(Op)
    BY <1>1, <1>6, LineParts DEF Held
  <2>2. Line # << >> /\ Head(Line) = op
    BY <1>2, <1>3, <2>1, LineTake DEF Line
  <2>3. 1 \in 1 .. Len(Line) /\ Line[1] = op
    <3>1. Len(Line) \in Nat /\ Len(Line) >= 1
      BY <2>1, <2>2, EmptySeq, LenProperties
    <3>2. Head(Line) = Line[1]
      BY <2>1, <2>2, HeadTailProperties
    <3> QED BY <2>2, <3>1, <3>2
  <2> QED BY <2>3 DEF IInv, Ordered, LineInv
<1>8. op.stmts \in Seq(Write) /\ db \in Seq(Write) /\ m_pResultQueue \in Seq(Op)
  BY <1>1, <1>4, OpTypes DEF TypeOK
<1>9. db \o << >> = db
  BY <1>8, ConcatEmptySeq
<1>10. /\ m_pResultQueue' \in Seq(Op)
       /\ \/ /\ op.kind = "transaction" /\ op.stmts # << >> /\ db' = db
             /\ BeginOn("delay", op)
          \/ /\ conn' = None /\ db' \in Seq(Write)
             /\ db' \in {db, db \o op.stmts}
  <2>1. CASE op.kind = "plain" /\ ExecuteNow(op.stmts[1]) /\ UNCHANGED <<conn, m_pResultQueue>>
    <3>1. Len(op.stmts) = 1
      BY <1>7, <2>1 DEF OpInv
    <3>2. op.stmts[1] \in Write
      BY <1>8, <3>1, ElementOfSeq
    <3>3. op.stmts = <<op.stmts[1]>>
      <4>1. PICK w : w = op.stmts[1]
        OBVIOUS
      <4>2. <<w>> \in Seq(Write) /\ Len(<<w>>) = 1 /\ <<w>>[1] = w
        BY <3>2, <4>1
      <4>3. \A i \in 1 .. Len(op.stmts) : op.stmts[i] = <<w>>[i]
        BY <3>1, <4>1, <4>2
      <4> QED BY <1>8, <3>1, <4>1, <4>2, <4>3, SeqEqual
    <3>4. Append(db, op.stmts[1]) = db \o op.stmts /\ Append(db, op.stmts[1]) \in Seq(Write)
      <4>1. PICK w : w = op.stmts[1]
        OBVIOUS
      <4>2. Append(db, w) = db \o <<w>> /\ Append(db, w) \in Seq(Write)
        BY <1>8, <3>2, <4>1, AppendIsConcat, AppendProperties
      <4> QED BY <3>3, <4>1, <4>2
    <3> QED BY <1>6, <1>8, <2>1, <3>4 DEF ExecuteNow
  <2>2. CASE op.kind = "transaction" /\ BeginOn("delay", op) /\ UNCHANGED <<db, m_pResultQueue>>
    BY <1>6, <1>8, <2>2 DEF BeginOn
  <2>3. CASE /\ op.kind = "query" /\ conn = None
             /\ m_pResultQueue' = Append(m_pResultQueue, op)
             /\ UNCHANGED <<conn, db>>
    BY <1>4, <1>8, <2>3, AppendProperties
  <2> QED BY <1>3, <2>1, <2>2, <2>3 DEF Perform
<1> QED BY <1>2, <1>3, <1>4, <1>5, <1>6, <1>7, <1>10

LEMMA ProcessKeepsIInv ==
  ASSUME IInv, ProcessRequest
  PROVE  IInv'
<1>1. TypeOK
  BY DEF IInv
<1>2. PICK op : op = Head(m_sqlQueue)
  OBVIOUS
<1>3. /\ conn = None /\ op \in Op /\ OpInv(op, calls)
      /\ m_sqlQueue # << >> /\ m_sqlQueue' = Tail(m_sqlQueue)
      /\ m_sqlQueue' \in Seq(Op) /\ m_pResultQueue' \in Seq(Op)
      /\ delay \in {"process", "flush"}
      /\ ~m_bAllowAsyncTransactions => op.kind = "query"
      /\ \/ /\ op.kind = "transaction" /\ op.stmts # << >> /\ db' = db
            /\ BeginOn("delay", op)
         \/ /\ conn' = None /\ db' \in Seq(Write)
            /\ db' \in {db, db \o op.stmts}
  BY <1>2, TakeProps
<1>4. UNCHANGED <<calls, helpersMade, m_pTrans, m_bAllowAsyncTransactions, adding,
                  m_running, delay, called, crashed>>
  BY DEF ProcessRequest, callerVars, threadVars
<1>5. /\ db \in Seq(Write) /\ Line \in Seq(Op) /\ calls \in Nat
      /\ m_pTrans \in [Caller -> Seq(Id) \cup {None}]
      /\ m_sqlQueue \in Seq(Op) /\ Coming \in Seq(Op)
      /\ Ordered(db, Line, m_pTrans, calls)
  BY <1>1, LineParts DEF IInv
<1>6. /\ Line # << >> /\ Head(Line) = op
      /\ Tail(Line) = (<< >> \o m_sqlQueue') \o Coming
      /\ Line = (<<op>> \o m_sqlQueue') \o Coming
  <2>1. PICK q, r, n : q = m_sqlQueue /\ r = Tail(q) /\ n = Coming
    OBVIOUS
  <2>2. q \in Seq(Op) /\ q # << >> /\ n \in Seq(Op) /\ op = Head(q) /\ r = m_sqlQueue'
    BY <1>2, <1>3, <1>5, <2>1
  <2>3. /\ (<<Head(q)>> \o Tail(q)) \o n = (<< >> \o q) \o n
        /\ (<< >> \o q) \o n # << >>
        /\ Head((<< >> \o q) \o n) = Head(q)
        /\ Tail((<< >> \o q) \o n) = (<< >> \o Tail(q)) \o n
    BY <2>2, LineTake, Zenon
  <2>4. Line = (<< >> \o q) \o n
    BY <1>3, <2>1 DEF Line, Held
  <2> QED BY <2>1, <2>2, <2>3, <2>4
<1>7. Coming' = Coming
  BY <1>4 DEF Coming
<1>8. PICK e : e = db'
  OBVIOUS
<1>9. TypeOK' /\ Ordered(e, Line', m_pTrans, calls) /\ StartupInv'
  <2>1. \A i \in 1 .. Len(m_sqlQueue') :
           \E j \in 1 .. Len(m_sqlQueue) : m_sqlQueue'[i] = m_sqlQueue[j]
    <3>1. /\ Len(m_sqlQueue') = Len(m_sqlQueue) - 1 /\ Len(m_sqlQueue) \in Nat
          /\ \A i \in 1 .. Len(m_sqlQueue') : m_sqlQueue'[i] = m_sqlQueue[i + 1]
      BY <1>3, <1>5, HeadTailProperties, LenProperties
    <3>2. \A i \in 1 .. Len(m_sqlQueue') : i + 1 \in 1 .. Len(m_sqlQueue)
      BY <3>1
    <3> QED BY <3>1, <3>2
  <2>2. CASE /\ op.kind = "transaction" /\ op.stmts # << >> /\ db' = db
             /\ BeginOn("delay", op)
    <3>1. /\ conn' \in Transaction /\ conn' # None
          /\ conn'.op = op /\ conn'.on = "delay"
          /\ conn'.done = SubSeq(conn'.op.stmts, 1, Len(conn'.done))
      BY <1>3, <2>2, BeginsHeld
    <3>2. TypeOK'
      BY <1>1, <1>3, <1>4, <2>2, <3>1 DEF TypeOK
    <3>3. Line' = Line
      BY <1>6, <1>7, <3>1 DEF Line, Held
    <3>4. m_bAllowAsyncTransactions
      BY <1>3, <2>2
    <3>5. StartupInv'
      BY <1>4, <2>2, <3>1, <3>4 DEF StartupInv
    <3> QED BY <1>5, <1>8, <2>2, <3>2, <3>3, <3>5
  <2>3. CASE conn' = None /\ db' \in Seq(Write) /\ db' \in {db, db \o op.stmts}
    <3>1. TypeOK'
      BY <1>1, <1>3, <1>4, <2>3 DEF TypeOK
    <3>2. Line' = Tail(Line)
      BY <1>6, <1>7, <2>3 DEF Line, Held
    <3>3. Ordered(e, Tail(Line), m_pTrans, calls)
      BY <1>5, <1>6, <1>8, <2>3, OrderedTail
    <3>4. StartupInv'
      BY <1>4, <2>1, <2>3 DEF IInv, StartupInv
    <3> QED BY <3>1, <3>2, <3>3, <3>4
  <2> QED BY <1>3, <2>2, <2>3
<1>10. HaltInv'
  BY <1>3, <1>4 DEF IInv, HaltInv, NothingLeftBehind
<1> QED BY <1>4, <1>8, <1>9, <1>10 DEF IInv

LEMMA NextIInv == IInv /\ [Next]_vars => IInv'
<1> SUFFICES ASSUME IInv, [Next]_vars PROVE IInv'
  OBVIOUS
<1>1. ASSUME NEW t \in Caller, Call(t) PROVE IInv'
  BY <1>1, CallsKeepIInv, DelayKeepsIInv, DirectKeepsIInv, CommitDirectKeepsIInv DEF Call
<1>2. CASE Add
  BY <1>2, AddKeepsIInv
<1>3. CASE AllowAsyncTransactions \/ ProcessResultQueue \/ HaltDelayThread \/ DeleteThread
  BY <1>3, ThreadsKeepIInv
<1>4. CASE TransactionStep
  BY <1>4, StatementKeepsIInv, EndKeepsIInv DEF TransactionStep
<1>5. CASE Commit
  BY <1>5, EndKeepsIInv DEF Commit
<1>6. CASE DelayThread
  BY <1>6, ThreadsKeepIInv, ProcessKeepsIInv DEF DelayThread
<1>7. CASE UNCHANGED vars
  <2>1. UNCHANGED <<calls, helpersMade, m_pTrans, m_bAllowAsyncTransactions, m_sqlQueue, adding,
                    m_running, delay, conn, db, m_pResultQueue, called, crashed>>
    BY <1>7 DEF vars, callerVars, threadVars, resultVars
  <2>2. TypeOK' /\ StartupInv' /\ HaltInv'
    BY <2>1 DEF IInv, TypeOK, StartupInv, HaltInv, NothingLeftBehind
  <2>3. Line' = Line
    BY <2>1 DEF Line, Held, Coming
  <2>4. Ordered(db', Line', m_pTrans', calls')
    BY <2>1, <2>3 DEF IInv
  <2> QED BY <2>2, <2>4 DEF IInv
<1> QED BY <1>1, <1>2, <1>3, <1>4, <1>5, <1>6, <1>7 DEF Next

\* The inductive invariant implies the property the run checks.
LEMMA IInvImpliesWritesKept == IInv => WritesKept
<1> SUFFICES ASSUME IInv PROVE WritesKept
  OBVIOUS
<1>1. DOMAIN db = 1 .. Len(db)
  BY LenProperties DEF IInv, TypeOK
<1>2. ASSUME NEW i \in DOMAIN db, NEW j \in DOMAIN db, i < j, db[i].by = db[j].by,
             "direct" \notin {db[i].how, db[j].how}
      PROVE  db[i].id < db[j].id
  BY <1>1, <1>2 DEF IInv, Ordered, StoredInv, Kept, Precedes
<1> QED BY <1>2 DEF WritesKept, WritesInOrder, IInv, HaltInv

\* Any number of threads hand over any number of writes, transactions and queries, every
\* statement may fail, and the halt comes when it likes: a thread's writes take effect in
\* the order in which it made them unless it uses DirectExecute, and when the delay thread's
\* destructor has run no accepted operation is left in the queue.
THEOREM SqlDelaySound == Spec => []WritesKept
<1>1. Init => IInv
  BY InitIInv
<1>2. IInv /\ [Next]_vars => IInv'
  BY NextIInv
<1>3. IInv => WritesKept
  BY IInvImpliesWritesKept
<1> QED BY <1>1, <1>2, <1>3, PTL DEF Spec

-----------------------------------------------------------------------------
(* The implementation of OrderedStore *)

\* What the refinement mapping of Store puts for pending and gone.
Waiting == (IF conn # None /\ conn.on = "delay" THEN <<conn.op>> ELSE << >>) \o m_sqlQueue
Gone == delay \in {"deleted", "leaked"} \/ crashed

LEMMA WaitingType ==
  ASSUME TypeOK PROVE Waiting \in Seq(Op)
<1>1. conn # None => conn.op \in Op
  BY DEF TypeOK, Transaction
<1>2. m_sqlQueue \in Seq(Op)
  BY DEF TypeOK
<1> QED BY <1>1, <1>2, ConsProps, ConcatEmptySeq DEF Waiting

\* The steps of the abstract store, in these words.
LEMMA StoreStutter ==
  ASSUME Waiting' = Waiting, db' = db, Gone' = Gone
  PROVE  UNCHANGED Store!storeVars
BY DEF Waiting, Gone, Store!storeVars

LEMMA StoreLeave ==
  ASSUME Waiting' = Waiting, db' = db, Gone'
  PROVE  Store!StoreNext
BY DEF Waiting, Gone, Store!StoreNext, Store!Leave

LEMMA StoreApply ==
  ASSUME Waiting # << >>, Waiting' = Tail(Waiting), db' \in {db, db \o Head(Waiting).stmts},
         Gone' = Gone
  PROVE  Store!StoreNext
BY DEF Waiting, Gone, Store!StoreNext, Store!Apply

LEMMA StoreSubmit ==
  ASSUME Waiting \in Seq(Op), NEW op \in Op, Waiting' = Append(Waiting, op), db' = db,
         Gone' = Gone
  PROVE  Store!StoreNext
<1>1. PICK w, ws : w = Waiting /\ ws = Append(w, op)
  OBVIOUS
<1>2. /\ ws \in Seq(Op) /\ ws # << >> /\ Len(w) \in Nat /\ Len(ws) = Len(w) + 1
      /\ \A i \in 1 .. Len(w) : ws[i] = w[i]
  BY <1>1, AppendProperties, LenProperties
<1>3. SubSeq(ws, 1, Len(ws) - 1) = w
  <2>1. \A i \in 1 .. Len(w) : ws[i] \in Op
    BY <1>1, <1>2, ElementOfSeq
  <2>2. PICK v : v = SubSeq(ws, 1, Len(w))
    OBVIOUS
  <2>3. /\ v \in Seq(Op)
        /\ Len(v) = IF 1 <= Len(w) THEN Len(w) - 1 + 1 ELSE 0
        /\ \A i \in 1 .. Len(w) - 1 + 1 : v[i] = ws[1 + i - 1]
    BY <1>2, <2>1, <2>2, SubSeqProperties
  <2>4. Len(v) = Len(w)
    BY <1>2, <2>3
  <2>5. \A i \in 1 .. Len(w) : v[i] = w[i]
    <3>1. ASSUME NEW i \in 1 .. Len(w) PROVE v[i] = w[i]
      <4>1. i \in 1 .. Len(w) - 1 + 1 /\ 1 + i - 1 = i
        BY <1>2
      <4> QED BY <1>2, <2>3, <4>1
    <3> QED BY <3>1
  <2>6. v = w
    BY <1>1, <2>3, <2>4, <2>5, SeqEqual
  <2> QED BY <1>2, <2>2, <2>6
<1>4. Waiting' # << >> /\ Waiting = SubSeq(Waiting', 1, Len(Waiting') - 1)
  BY <1>1, <1>2, <1>3
<1>5. Store!Submit
  BY <1>4 DEF Waiting, Gone, Store!Submit
<1> QED BY <1>5 DEF Store!StoreNext

LEMMA StoreDirect ==
  ASSUME db \in Seq(Write), NEW s \in Seq(Write), s # << >>,
         \A k \in 1 .. Len(s) : s[k].how # "delayed",
         db' = db \o s, Waiting' = Waiting, Gone' = Gone
  PROVE  Store!StoreNext
<1>1. PICK d, e : d = db /\ e = d \o s
  OBVIOUS
<1>2. /\ d \in Seq(Write) /\ Len(d) \in Nat /\ Len(s) \in Nat /\ Len(s) >= 1
      /\ e \in Seq(Write) /\ Len(e) = Len(d) + Len(s)
      /\ \A i \in 1 .. Len(d) + Len(s) : e[i] = IF i <= Len(d) THEN d[i] ELSE s[i - Len(d)]
  BY <1>1, ConcatProperties, EmptySeq, LenProperties
<1>3. d = SubSeq(e, 1, Len(d))
  <2>1. CASE Len(d) = 0
    <3>1. d = << >> /\ SubSeq(e, 1, Len(d)) = << >>
      BY <1>2, <2>1, EmptySeq, SubSeqEmpty
    <3> QED BY <3>1
  <2>2. CASE Len(d) # 0
    <3>1. 1 \in 1 .. Len(d) /\ Len(d) \in 1 .. Len(d)
      BY <1>2, <2>2
    <3>2. SubSeq(e, 1, Len(d)) = SubSeq(d, 1, Len(d))
      BY <1>1, <1>2, <3>1, SubSeqOfConcat1
    <3> QED BY <1>2, <3>2, SubSeqFull
  <2> QED BY <2>1, <2>2
<1>4. ASSUME NEW i \in Len(d) + 1 .. Len(e) PROVE e[i].how # "delayed"
  <2>1. i \in 1 .. Len(d) + Len(s) /\ ~(i <= Len(d)) /\ i - Len(d) \in 1 .. Len(s)
    BY <1>2
  <2> QED BY <1>2, <2>1
<1>5. Len(e) > Len(d)
  BY <1>2
<1>6. Store!Direct
  BY <1>1, <1>3, <1>4, <1>5 DEF Waiting, Gone, Store!Direct
<1> QED BY <1>6 DEF Store!StoreNext

\* Handing over: the operation waits once it is in the queue.
LEMMA AddIsSubmit ==
  ASSUME IInv, Add
  PROVE  Store!StoreNext
<1>1. TypeOK
  BY DEF IInv
<1>2. /\ adding \in Op /\ m_sqlQueue' = Append(m_sqlQueue, adding)
      /\ conn' = conn /\ db' = db /\ delay' = delay /\ crashed' = crashed
  BY <1>1 DEF Add, TypeOK, threadVars
<1>3. PICK h : h = IF conn # None /\ conn.on = "delay" THEN <<conn.op>> ELSE << >>
  OBVIOUS
<1>4. h \in Seq(Op) /\ m_sqlQueue \in Seq(Op)
  <2>1. conn # None => conn.op \in Op
    BY <1>1 DEF TypeOK, Transaction
  <2> QED BY <1>1, <1>3, <2>1, ConsProps, EmptySeq DEF TypeOK
<1>5. Waiting = h \o m_sqlQueue /\ Waiting' = h \o Append(m_sqlQueue, adding)
  BY <1>2, <1>3 DEF Waiting
<1>6. Waiting' = Append(Waiting, adding)
  BY <1>2, <1>4, <1>5, LineAppend
<1>7. Waiting \in Seq(Op) /\ Gone' = Gone
  BY <1>1, <1>2, WaitingType DEF Gone
<1> QED BY <1>2, <1>6, <1>7, StoreSubmit

\* The end of a transaction: the delay thread applies what waits first, a caller its own.
LEMMA EndIsApplyOrDirect ==
  ASSUME IInv, conn # None, Rollback \/ Commit,
         UNCHANGED <<m_sqlQueue, delay, crashed>>
  PROVE  Store!StoreNext \/ UNCHANGED Store!storeVars
<1>1. /\ conn' = None /\ conn.op \in Op /\ conn.op.stmts # << >>
      /\ db' \in {db, db \o conn.op.stmts} /\ m_sqlQueue \in Seq(Op) /\ db \in Seq(Write)
  BY EndProps DEF IInv, TypeOK, StartupInv
<1>2. Gone' = Gone
  BY DEF Gone
<1>3. Waiting' = << >> \o m_sqlQueue
  BY <1>1 DEF Waiting
<1>4. CASE conn.on = "delay"
  <2>1. PICK op : op = conn.op
    OBVIOUS
  <2>2. Waiting = <<op>> \o m_sqlQueue
    BY <1>4, <2>1 DEF Waiting
  <2>3. Waiting # << >> /\ Head(Waiting) = op /\ Tail(Waiting) = m_sqlQueue
    BY <1>1, <2>1, <2>2, ConsProps
  <2>4. Waiting' = Tail(Waiting)
    BY <1>1, <1>3, <2>3, ConcatEmptySeq
  <2> QED BY <1>1, <1>2, <2>1, <2>3, <2>4, StoreApply
<1>5. CASE conn.on # "delay"
  <2>1. Waiting' = Waiting
    BY <1>3, <1>5 DEF Waiting
  <2>2. CASE db' = db
    BY <1>2, <2>1, <2>2, StoreStutter
  <2>3. CASE db' = db \o conn.op.stmts
    <3>1. PICK s : s = conn.op.stmts
      OBVIOUS
    <3>2. s \in Seq(Write) /\ s # << >> /\ \A k \in 1 .. Len(s) : s[k].how # "delayed"
      BY <1>1, <1>5, <3>1, OpTypes DEF IInv, StartupInv
    <3> QED BY <1>1, <1>2, <2>1, <2>3, <3>1, <3>2, StoreDirect
  <2> QED BY <1>1, <2>2, <2>3
<1> QED BY <1>4, <1>5

\* The delay thread takes an operation: it waits on, on the connection, or is applied.
LEMMA ProcessIsApply ==
  ASSUME IInv, ProcessRequest
  PROVE  Store!StoreNext \/ UNCHANGED Store!storeVars
<1>1. PICK op : op = Head(m_sqlQueue)
  OBVIOUS
<1>2. /\ conn = None /\ op \in Op
      /\ m_sqlQueue # << >> /\ m_sqlQueue' = Tail(m_sqlQueue) /\ m_sqlQueue' \in Seq(Op)
      /\ \/ /\ op.kind = "transaction" /\ op.stmts # << >> /\ db' = db
            /\ BeginOn("delay", op)
         \/ /\ conn' = None /\ db' \in Seq(Write)
            /\ db' \in {db, db \o op.stmts}
  BY <1>1, TakeProps
<1>3. m_sqlQueue \in Seq(Op)
  BY DEF IInv, TypeOK
<1>4. Gone' = Gone
  BY DEF Gone, ProcessRequest, threadVars
<1>5. Waiting = m_sqlQueue
  BY <1>2, <1>3, ConcatEmptySeq DEF Waiting
<1>6. CASE op.kind = "transaction" /\ op.stmts # << >> /\ db' = db /\ BeginOn("delay", op)
  <2>1. conn' # None /\ conn'.op = op /\ conn'.on = "delay"
    BY <1>2, <1>6, BeginsHeld
  <2>2. Waiting' = <<op>> \o Tail(m_sqlQueue)
    BY <1>2, <2>1 DEF Waiting
  <2>3. Waiting' = Waiting
    BY <1>1, <1>2, <1>3, <1>5, <2>2, HeadAndTail
  <2> QED BY <1>4, <1>6, <2>3, StoreStutter
<1>7. CASE conn' = None /\ db' \in {db, db \o op.stmts}
  <2>1. Waiting' = Tail(m_sqlQueue)
    <3>1. Waiting' = << >> \o m_sqlQueue'
      BY <1>7 DEF Waiting
    <3> QED BY <1>2, <3>1, ConcatEmptySeq
  <2> QED BY <1>1, <1>2, <1>4, <1>5, <1>7, <2>1, StoreApply
<1> QED BY <1>2, <1>6, <1>7

\* Calls that hand nothing over.
LEMMA CallIsStoreStep ==
  ASSUME IInv, NEW t \in Caller, Call(t)
  PROVE  Store!StoreNext \/ UNCHANGED Store!storeVars
<1>1. CASE NullHelper(t)
  <2>1. UNCHANGED <<m_sqlQueue, conn, db>> /\ crashed'
    BY <1>1 DEF NullHelper
  <2>2. Waiting' = Waiting /\ Gone'
    BY <2>1 DEF Waiting, Gone
  <2> QED BY <2>1, <2>2, StoreLeave
<1>2. CASE DirectExecute(t) \/ ExecuteAtStartup(t)
  <2>1. /\ UNCHANGED <<m_sqlQueue, delay, crashed, conn>>
        /\ calls < MaxCalls /\ calls' = calls + 1
    BY <1>2 DEF DirectExecute, ExecuteAtStartup, MayCall, Count, threadVars
  <2>2. Waiting' = Waiting /\ Gone' = Gone
    BY <2>1 DEF Waiting, Gone
  <2>3. PICK how \in {"direct", "now"} : \E w :
           w = Writes(<<calls'>>, t, how)[1] /\ db' \in {db, Append(db, w)}
    BY <1>2 DEF DirectExecute, ExecuteAtStartup, ExecuteNow
  <2>w. PICK w : w = Writes(<<calls'>>, t, how)[1] /\ db' \in {db, Append(db, w)}
    BY <2>3
  <2>4. w \in Write /\ w = [id |-> calls', by |-> t, how |-> how]
    BY <2>1, <2>w, NextWrite
  <2>5. <<w>> \in Seq(Write) /\ <<w>> # << >> /\ \A k \in 1 .. Len(<<w>>) : <<w>>[k].how # "delayed"
    <3>1. w.how # "delayed"
      BY <2>4
    <3>2. <<w>> \in Seq(Write) /\ Len(<<w>>) = 1 /\ <<w>>[1] = w
      BY <2>4
    <3> QED BY <3>1, <3>2, EmptySeq
  <2>6. db \in Seq(Write)
    BY DEF IInv, TypeOK
  <2>7. Append(db, w) = db \o <<w>>
    BY <2>4, <2>6, AppendIsConcat
  <2> QED BY <2>2, <2>w, <2>5, <2>6, <2>7, StoreStutter, StoreDirect
<1>3. CASE CommitTransactionDirect(t)
  <2>1. /\ UNCHANGED <<m_sqlQueue, db, delay, crashed>>
        /\ BeginOn(t, Operation("transaction", calls, t, Writes(m_pTrans[t], t, "now")))
    BY <1>3 DEF CommitTransactionDirect, threadVars
  <2>2. PICK op : op = Operation("transaction", calls, t, Writes(m_pTrans[t], t, "now"))
    OBVIOUS
  <2>3. CASE conn' = conn
    BY <2>1, <2>3, StoreStutter DEF Waiting, Gone
  <2>4. CASE conn = None /\ conn' = [op |-> op, done |-> << >>, on |-> t]
    <3>1. conn'.on # "delay"
      BY <2>4, DelayConstants
    <3>2. Waiting' = Waiting /\ Gone' = Gone
      BY <2>1, <2>4, <3>1 DEF Waiting, Gone
    <3> QED BY <2>1, <3>2, StoreStutter
  <2> QED BY <2>1, <2>2, <2>3, <2>4 DEF BeginOn
<1>4. CASE \/ ExecuteInTransaction(t) \/ ExecuteDelayed(t) \/ BeginTransaction(t)
           \/ CommitTransaction(t) \/ RollbackTransaction(t) \/ AsyncQuery(t)
  <2>1. UNCHANGED <<m_sqlQueue, conn, db, delay, crashed>>
    BY <1>4 DEF ExecuteInTransaction, ExecuteDelayed, BeginTransaction, CommitTransaction,
       RollbackTransaction, AsyncQuery, threadVars
  <2> QED BY <2>1, StoreStutter DEF Waiting, Gone
<1> QED BY <1>1, <1>2, <1>3, <1>4 DEF Call

LEMMA StepIsStoreStep ==
  ASSUME IInv, [Next]_vars
  PROVE  Store!StoreNext \/ UNCHANGED Store!storeVars
<1>1. ASSUME NEW t \in Caller, Call(t) PROVE Store!StoreNext \/ UNCHANGED Store!storeVars
  BY <1>1, CallIsStoreStep
<1>2. CASE Add
  BY <1>2, AddIsSubmit
<1>3. CASE TransactionStep
  <2>1. /\ UNCHANGED <<m_sqlQueue, delay, crashed>>
        /\ conn # None /\ Len(conn.done) < Len(conn.op.stmts)
    BY <1>3 DEF TransactionStep, threadVars
  <2>2. CASE Rollback
    BY <2>1, <2>2, EndIsApplyOrDirect
  <2>3. CASE conn' = [conn EXCEPT !.done = Append(@, NextStatement(conn))] /\ db' = db
    <3>1. conn' # None /\ conn'.op = conn.op /\ conn'.on = conn.on
      BY <2>1, <2>3, StatementProps DEF IInv
    <3>2. Waiting' = Waiting /\ Gone' = Gone
      BY <2>1, <3>1 DEF Waiting, Gone
    <3> QED BY <2>3, <3>2, StoreStutter
  <2> QED BY <1>3, <2>2, <2>3 DEF TransactionStep
<1>4. CASE Commit
  <2>1. UNCHANGED <<m_sqlQueue, delay, crashed>> /\ conn # None
    BY <1>4 DEF Commit, threadVars
  <2> QED BY <1>4, <2>1, EndIsApplyOrDirect
<1>5. CASE ProcessRequest
  BY <1>5, ProcessIsApply
<1>6. CASE CheckRunning \/ EndProcess \/ DeleteThread
  <2>1. UNCHANGED <<m_sqlQueue, conn, db, crashed>>
    BY <1>6 DEF CheckRunning, EndProcess, DeleteThread
  <2>2. Waiting' = Waiting
    BY <2>1 DEF Waiting
  <2>3. delay \notin {"deleted", "leaked"}
    BY <1>6 DEF CheckRunning, EndProcess, DeleteThread, Processing
  <2>4. CASE Gone'
    BY <2>1, <2>2, <2>4, StoreLeave
  <2>5. CASE ~Gone'
    <3>1. Gone' = Gone
      BY <2>1, <2>3, <2>5 DEF Gone
    <3> QED BY <2>1, <2>2, <3>1, StoreStutter
  <2> QED BY <2>4, <2>5
<1>7. CASE AllowAsyncTransactions \/ ProcessResultQueue \/ HaltDelayThread \/ UNCHANGED vars
  <2>1. UNCHANGED <<m_sqlQueue, conn, db, delay, crashed>>
    BY <1>7 DEF AllowAsyncTransactions, ProcessResultQueue, HaltDelayThread, vars, threadVars
  <2> QED BY <2>1, StoreStutter DEF Waiting, Gone
<1> QED BY <1>1, <1>2, <1>3, <1>4, <1>5, <1>6, <1>7 DEF Next, DelayThread

LEMMA InitIsStoreInit == Init => Store!StoreInit
<1> SUFFICES ASSUME Init PROVE Store!StoreInit
  OBVIOUS
<1>1. Waiting = << >>
  <2>1. << >> \o << >> = << >>
    BY EmptySeq, ConcatEmptySeq
  <2> QED BY <2>1 DEF Init, Waiting
<1>2. ~Gone /\ db = << >>
  BY DEF Init, Gone
<1> QED BY <1>1, <1>2 DEF Waiting, Gone, Store!StoreInit

\* The safety part of Store!StoreSpec, the abstract store with the refinement mapping of
\* SqlDelay.
SafeStore == Store!StoreInit /\ [][Store!StoreNext]_(Store!storeVars)

\* Every step of the database and its delay thread is a step of the abstract store or
\* leaves it alone: an operation that was handed over is carried out at one instant, as a
\* whole or not at all, in the order of handing over, although its statements run one by
\* one, any of them may fail, and callers at startup use the same connection.
THEOREM SqlDelayIsStore == Spec => SafeStore
<1>1. Init => IInv /\ Store!StoreInit
  BY InitIInv, InitIsStoreInit
<1>2. IInv /\ [Next]_vars => IInv'
  BY NextIInv
<1>3. IInv /\ [Next]_vars => [Store!StoreNext]_(Store!storeVars)
  BY StepIsStoreStep
<1> QED BY <1>1, <1>2, <1>3, PTL DEF Spec, SafeStore

=============================================================================
