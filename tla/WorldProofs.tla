---------------------------- MODULE WorldProofs ----------------------------
(***************************************************************************)
(* Proofs about the two parts of the world thread in World.cpp, which      *)
(* share no state: its table of sessions and its planned shutdown.         *)
(*                                                                         *)
(* First WorldSessions, for every set of accounts and sessions and every   *)
(* limit.  The inductive invariant IInv gives the type invariant, the      *)
(* ownership of sessions by the table and the consistency of the login     *)
(* queue.  On it rest the positions clients are told, the order of the     *)
(* queue and the player limit; LoginInv and StopInv strengthen it to who   *)
(* gets the result of a login query and what a stop leaves behind.         *)
(*                                                                         *)
(* Then ShutdownTimer, with ShutdownInv: the countdown agrees with the     *)
(* plan, the server stops as planned and exits with a code that stands,    *)
(* for every width of the seconds, every set of delays and codes and every *)
(* bound.                                                                  *)
(***************************************************************************)
EXTENDS WorldSessions, ShutdownTimer, SequenceTheorems, FiniteSetTheorems, TLAPS

-----------------------------------------------------------------------------
(* The table of sessions and the login queue *)

\* Erasing one position keeps the others in order.
LEMMA WithoutProps ==
  ASSUME NEW S, NEW q \in Seq(S), NEW pos \in 1 .. Len(q)
  PROVE  /\ Without(q, pos) \in Seq(S)
         /\ Len(Without(q, pos)) = Len(q) - 1
         /\ \A i \in 1 .. Len(q) - 1 :
               Without(q, pos)[i] = IF i < pos THEN q[i] ELSE q[i + 1]
<1>1. Len(q) \in Nat /\ \A i \in 1 .. Len(q) : q[i] \in S
  BY LenProperties, ElementOfSeq
<1>2. PICK l : l = SubSeq(q, 1, pos - 1)
  OBVIOUS
<1>3. PICK r : r = SubSeq(q, pos + 1, Len(q))
  OBVIOUS
<1>4. l \in Seq(S) /\ Len(l) = pos - 1 /\ \A i \in 1 .. pos - 1 : l[i] = q[i]
  BY <1>1, <1>2, SubSeqProperties
<1>5. /\ r \in Seq(S) /\ Len(r) = Len(q) - pos
      /\ \A i \in 1 .. Len(q) - pos : r[i] = q[pos + i]
  BY <1>1, <1>3, SubSeqProperties
<1>6. /\ l \o r \in Seq(S) /\ Len(l \o r) = Len(q) - 1
      /\ \A i \in 1 .. Len(q) - 1 :
            (l \o r)[i] = IF i <= pos - 1 THEN l[i] ELSE r[i - (pos - 1)]
  <2>1. /\ l \o r \in Seq(S)
        /\ Len(l \o r) = Len(l) + Len(r)
        /\ \A i \in 1 .. Len(l) + Len(r) :
              (l \o r)[i] = IF i <= Len(l) THEN l[i] ELSE r[i - Len(l)]
    BY <1>4, <1>5, ConcatProperties, Zenon
  <2>2. Len(l) + Len(r) = Len(q) - 1
    BY <1>1, <1>4, <1>5
  <2> QED BY <2>1, <2>2, <1>4, Zenon
<1>7. Without(q, pos) = l \o r
  BY <1>2, <1>3 DEF Without
<1>8. ASSUME NEW i \in 1 .. Len(q) - 1
      PROVE  (l \o r)[i] = IF i < pos THEN q[i] ELSE q[i + 1]
  <2>1. CASE i < pos
    BY <2>1, <1>1, <1>4, <1>6
  <2>2. CASE i >= pos
    <3>1. i - (pos - 1) \in 1 .. Len(q) - pos
      BY <2>2, <1>1
    <3> QED BY <3>1, <2>2, <1>1, <1>5, <1>6
  <2>3. i < pos \/ i >= pos
    BY <1>1
  <2> QED BY <2>1, <2>2, <2>3, Zenon
<1> QED BY <1>6, <1>7, <1>8

\* The head of a queue is its first element; its tail holds the others.
LEMMA HeadTailProps ==
  ASSUME NEW S, NEW q \in Seq(S), q # << >>
  PROVE  /\ Head(q) = q[1] /\ Head(q) \in S
         /\ Tail(q) \in Seq(S) /\ Len(Tail(q)) = Len(q) - 1
         /\ \A i \in 1 .. Len(q) - 1 : Tail(q)[i] = q[i + 1]
  BY HeadTailProperties, EmptySeq, LenProperties, ElementOfSeq

\* GetQueuedSessionPos finds the session, and 0 means it is not there.
LEMMA PosProps ==
  ASSUME NEW q \in Seq(Sess), NEW s
  PROVE  /\ GetQueuedSessionPos(q, s) \in 0 .. Len(q)
         /\ GetQueuedSessionPos(q, s) # 0 => q[GetQueuedSessionPos(q, s)] = s
         /\ GetQueuedSessionPos(q, s) = 0 => \A i \in 1 .. Len(q) : q[i] # s
<1>1. DOMAIN q = 1 .. Len(q) /\ Len(q) \in Nat
  BY LenProperties
<1>2. CASE \E i \in DOMAIN q : q[i] = s
  BY <1>1, <1>2 DEF GetQueuedSessionPos
<1>3. CASE ~ \E i \in DOMAIN q : q[i] = s
  BY <1>1, <1>3 DEF GetQueuedSessionPos
<1> QED BY <1>2, <1>3

-----------------------------------------------------------------------------

\* q holds every session at most once.
Distinct(q) == \A i, j \in 1 .. Len(q) : q[i] = q[j] => i = j

\* new holds the sessions of old except those in gone, each once.
Keeps(new, old, gone) ==
    /\ new \in Seq(Sess)
    /\ Distinct(new)
    /\ \A i \in 1 .. Len(new) :
          new[i] \notin gone /\ \E j \in 1 .. Len(old) : old[j] = new[i]
    /\ \A j \in 1 .. Len(old) :
          old[j] \in gone \/ \E i \in 1 .. Len(new) : new[i] = old[j]

\* Erasing a position, or taking the head, removes exactly one session.
LEMMA WithoutKeeps ==
  ASSUME NEW q \in Seq(Sess), Distinct(q), NEW pos \in 1 .. Len(q)
  PROVE  Keeps(Without(q, pos), q, {q[pos]})
<1> DEFINE w == Without(q, pos)
<1>1. /\ w \in Seq(Sess) /\ Len(w) = Len(q) - 1
      /\ \A i \in 1 .. Len(q) - 1 : w[i] = IF i < pos THEN q[i] ELSE q[i + 1]
  BY WithoutProps
<1>2. Len(q) \in Nat
  BY LenProperties
<1> HIDE DEF w
<1>3. Distinct(w)
  BY <1>1, <1>2 DEF Distinct
<1>4. ASSUME NEW i \in 1 .. Len(w)
      PROVE  w[i] \notin {q[pos]} /\ \E j \in 1 .. Len(q) : q[j] = w[i]
  <2>1. CASE i < pos
    BY <2>1, <1>1, <1>2 DEF Distinct
  <2>2. CASE ~(i < pos)
    BY <2>2, <1>1, <1>2 DEF Distinct
  <2> QED BY <2>1, <2>2
<1>5. ASSUME NEW j \in 1 .. Len(q)
      PROVE  q[j] \in {q[pos]} \/ \E i \in 1 .. Len(w) : w[i] = q[j]
  <2>1. CASE j < pos
    BY <2>1, <1>1, <1>2
  <2>2. CASE j > pos
    <3>1. j - 1 \in 1 .. Len(w) /\ w[j - 1] = q[j]
      BY <2>2, <1>1, <1>2
    <3> QED BY <3>1
  <2>3. CASE j = pos
    BY <2>3
  <2> QED BY <2>1, <2>2, <2>3
<1>6. Keeps(w, q, {q[pos]})
  BY <1>1, <1>3, <1>4, <1>5 DEF Keeps
<1> QED BY <1>6 DEF w

\* LockedQueue::next and pop_front take exactly the first session.
LEMMA TailKeeps ==
  ASSUME NEW q \in Seq(Sess), Distinct(q), q # << >>
  PROVE  Keeps(Tail(q), q, {Head(q)}) /\ Head(q) \in Sess
         /\ \E j \in 1 .. Len(q) : q[j] = Head(q)
<1>1. Len(q) \in Nat /\ Len(q) >= 1
  BY LenProperties, EmptySeq
<1>2. PICK w : w = Tail(q)
  OBVIOUS
<1>3. /\ Head(q) = q[1] /\ Head(q) \in Sess
      /\ w \in Seq(Sess) /\ Len(w) = Len(q) - 1
      /\ \A i \in 1 .. Len(q) - 1 : w[i] = q[i + 1]
  BY <1>2, HeadTailProps
<1>4. Distinct(w)
  BY <1>1, <1>3 DEF Distinct
<1>5. ASSUME NEW i \in 1 .. Len(w)
      PROVE  w[i] # q[1] /\ \E j \in 1 .. Len(q) : q[j] = w[i]
  <2>1. i + 1 \in 1 .. Len(q) /\ w[i] = q[i + 1]
    BY <1>1, <1>3
  <2> QED BY <2>1, <1>1 DEF Distinct
<1>6. ASSUME NEW j \in 1 .. Len(q)
      PROVE  q[j] = q[1] \/ \E i \in 1 .. Len(w) : w[i] = q[j]
  <2>1. CASE j = 1
    BY <2>1
  <2>2. CASE j # 1
    <3>1. j - 1 \in 1 .. Len(w) /\ w[j - 1] = q[j]
      BY <2>2, <1>1, <1>3
    <3> QED BY <3>1
  <2> QED BY <2>1, <2>2
<1>7. Keeps(w, q, {q[1]})
  BY <1>3, <1>4, <1>5, <1>6 DEF Keeps
<1> QED BY <1>1, <1>2, <1>3, <1>7

\* Two removals one after the other remove both sets of sessions.
LEMMA KeepsTrans ==
  ASSUME NEW p, NEW q, NEW r, NEW G, NEW H, Keeps(q, p, G), Keeps(r, q, H)
  PROVE  Keeps(r, p, G \cup H)
<1>1. r \in Seq(Sess) /\ Distinct(r)
  BY DEF Keeps
<1>2. ASSUME NEW i \in 1 .. Len(r)
      PROVE  r[i] \notin G \cup H /\ \E j \in 1 .. Len(p) : p[j] = r[i]
  <2>1. PICK k \in 1 .. Len(q) : q[k] = r[i]
    BY Zenon DEF Keeps
  <2>2. q[k] \notin G /\ \E j \in 1 .. Len(p) : p[j] = q[k]
    BY Zenon DEF Keeps
  <2>3. r[i] \notin H
    BY Zenon DEF Keeps
  <2> QED BY <2>1, <2>2, <2>3
<1>3. ASSUME NEW j \in 1 .. Len(p), p[j] \notin G \cup H
      PROVE  \E i \in 1 .. Len(r) : r[i] = p[j]
  <2>1. PICK k \in 1 .. Len(q) : q[k] = p[j]
    BY <1>3, Zenon DEF Keeps
  <2>2. q[k] \in H \/ \E i \in 1 .. Len(r) : r[i] = q[k]
    BY Zenon DEF Keeps
  <2> QED BY <1>3, <2>1, <2>2
<1> QED BY <1>1, <1>2, <1>3, Zenon DEF Keeps

\* A queue nobody touches keeps everything.
LEMMA KeepsSelf ==
  ASSUME NEW q \in Seq(Sess), Distinct(q)
  PROVE  Keeps(q, q, {})
  BY Zenon DEF Keeps

\* What RemoveQueuedSession(s) does to the queue.
Removed(rm, s) ==
    /\ rm.found \in BOOLEAN
    /\ rm.popped \in Sess \cup {None}
    /\ rm.told \in [Sess -> Int]
    /\ Keeps(rm.queue, m_QueuedSessions, {s, rm.popped})
    /\ rm.popped # None =>
          /\ rm.popped # s
          /\ \E j \in 1 .. Len(m_QueuedSessions) : m_QueuedSessions[j] = rm.popped
    /\ rm.found <=> \E j \in 1 .. Len(m_QueuedSessions) : m_QueuedSessions[j] = s

\* RemoveQueuedSession takes s out, and at most one more session, the one it lets
\* in; everybody else keeps waiting.
LEMMA RemoveProps ==
  ASSUME m_QueuedSessions \in Seq(Sess), Distinct(m_QueuedSessions),
         told \in [Sess -> Int], NEW s \in Sess
  PROVE  Removed(RemoveQueuedSession(s), s)
<1> DEFINE q      == m_QueuedSessions
           pos    == GetQueuedSessionPos(q, s)
           found  == pos # 0
           erased == IF found THEN Without(q, pos) ELSE q
           accept == HasPlace(ActiveWithout(found)) /\ erased # << >>
           popped == IF accept THEN Head(erased) ELSE None
           queue  == IF accept THEN Tail(erased) ELSE erased
           rm     == RemoveQueuedSession(s)
<1>1. /\ pos \in 0 .. Len(q) /\ Len(q) \in Nat
      /\ pos # 0 => q[pos] = s
      /\ pos = 0 => \A i \in 1 .. Len(q) : q[i] # s
  BY PosProps, LenProperties
<1>2. rm.found = found /\ rm.popped = popped /\ rm.queue = queue
  BY DEF RemoveQueuedSession
<1>3. found \in BOOLEAN /\ (found <=> \E j \in 1 .. Len(q) : q[j] = s)
  BY <1>1
<1>4. Keeps(erased, q, {s})
  <2>1. CASE found
    BY <2>1, <1>1, WithoutKeeps
  <2>2. CASE ~found
    BY <2>2, <1>1, KeepsSelf DEF Keeps
  <2> QED BY <2>1, <2>2
<1>5. /\ popped \in Sess \cup {None}
      /\ Keeps(queue, q, {s, popped})
      /\ popped # None => popped # s /\ \E j \in 1 .. Len(q) : q[j] = popped
  <2>1. CASE accept
    <3>1. erased \in Seq(Sess) /\ Distinct(erased) /\ erased # << >>
      BY <2>1, <1>4 DEF Keeps
    <3>2. /\ Keeps(Tail(erased), erased, {Head(erased)}) /\ Head(erased) \in Sess
          /\ \E j \in 1 .. Len(erased) : erased[j] = Head(erased)
      BY <3>1, TailKeeps
    <3>3. popped = Head(erased) /\ queue = Tail(erased)
      BY <2>1
    <3>4. Keeps(queue, q, {s} \cup {popped})
      BY <3>2, <3>3, <1>4, KeepsTrans
    <3>5. Head(erased) # s /\ \E j \in 1 .. Len(q) : q[j] = Head(erased)
      <4> HIDE DEF erased, accept, queue, popped, q
      <4>1. PICK i \in 1 .. Len(erased) : erased[i] = Head(erased)
        BY <3>2
      <4>2. erased[i] # s /\ \E j \in 1 .. Len(q) : q[j] = erased[i]
        BY <1>4 DEF Keeps
      <4> QED BY <4>1, <4>2
    <3>6. {s} \cup {popped} = {s, popped}
      OBVIOUS
    <3> HIDE DEF erased, accept, queue, popped, q
    <3>7. Keeps(queue, q, {s, popped})
      BY <3>4, <3>6
    <3> QED BY <3>2, <3>3, <3>7, <3>5
  <2>2. CASE ~accept
    <3>1. popped = None /\ queue = erased
      BY <2>2
    <3> HIDE DEF erased, accept, queue, popped
    <3>2. Keeps(queue, q, {s, None})
      BY <3>1, <1>4, ConstantsOK, ElementOfSeq DEF Keeps
    <3> QED BY <3>1, <3>2
  <2> QED BY <2>1, <2>2
<1>6. rm.told \in [Sess -> Int]
  <2> DEFINE resent == {x \in Sess : /\ accept \/ found
                                     /\ GetQueuedSessionPos(queue, x) # 0
                                     /\ GetQueuedSessionPos(queue, x)
                                          >= FirstChanged(accept, pos)}
  <2>1. rm.told = [x \in Sess |-> IF x = popped THEN 0
                                  ELSE IF x \in resent
                                       THEN GetQueuedSessionPos(queue, x)
                                       ELSE told[x]]
    BY DEF RemoveQueuedSession
  <2>2. queue \in Seq(Sess)
    BY <1>5 DEF Keeps
  <2>3. \A x \in Sess : GetQueuedSessionPos(queue, x) \in Int
    <3> HIDE DEF queue
    <3> QED BY <2>2, PosProps, LenProperties
  <2> HIDE DEF resent, queue, popped, rm
  <2> QED BY <2>1, <2>3
<1> HIDE DEF q, pos, found, erased, accept, popped, queue, rm
<1>7. Removed(rm, s)
  BY <1>2, <1>3, <1>5, <1>6 DEF Removed, q
<1> QED BY <1>7 DEF rm

\* The same for the session that AddSession_ replaces, if there is one.
LEMMA RemoveOldProps ==
  ASSUME m_QueuedSessions \in Seq(Sess), Distinct(m_QueuedSessions),
         told \in [Sess -> Int], NEW old \in Sess \cup {None}
  PROVE  Removed(RemoveOld(old), old)
<1>1. CASE old = None
  <2>1. Keeps(m_QueuedSessions, m_QueuedSessions, {None, None})
    BY KeepsSelf, ConstantsOK, ElementOfSeq DEF Keeps
  <2>2. \A j \in 1 .. Len(m_QueuedSessions) : m_QueuedSessions[j] # None
    BY ConstantsOK, ElementOfSeq
  <2>3. /\ NothingQueued.found = FALSE /\ NothingQueued.popped = None
        /\ NothingQueued.told = told /\ NothingQueued.queue = m_QueuedSessions
    BY DEF NothingQueued
  <2>4. Removed(NothingQueued, None)
    BY <2>1, <2>2, <2>3 DEF Removed
  <2> QED BY <1>1, <2>4 DEF RemoveOld
<1>2. CASE old # None
  BY <1>2, RemoveProps DEF RemoveOld
<1> QED BY <1>1, <1>2

\* A queue is empty, or somebody waits in it.
LEMMA NotEmpty ==
  ASSUME NEW S, NEW q \in Seq(S)
  PROVE  Len(q) > 0 <=> q # << >>
  BY EmptySeq, LenProperties

\* A new session is queued behind the others.
LEMMA AppendProps ==
  ASSUME NEW q \in Seq(Sess), NEW s \in Sess,
         Distinct(q), \A i \in 1 .. Len(q) : q[i] # s
  PROVE  /\ Append(q, s) \in Seq(Sess) /\ Distinct(Append(q, s))
         /\ \A i \in 1 .. Len(q) : \E j \in 1 .. Len(Append(q, s)) :
               Append(q, s)[j] = q[i]
         /\ \E j \in 1 .. Len(Append(q, s)) : Append(q, s)[j] = s
         /\ \A j \in 1 .. Len(Append(q, s)) :
               Append(q, s)[j] = s \/ \E i \in 1 .. Len(q) : Append(q, s)[j] = q[i]
<1>1. Len(q) \in Nat
  BY LenProperties
<1>2. PICK w : w = Append(q, s)
  OBVIOUS
<1>3. /\ w \in Seq(Sess) /\ Len(w) = Len(q) + 1 /\ w[Len(q) + 1] = s
      /\ \A i \in 1 .. Len(q) : w[i] = q[i]
  BY <1>2, AppendProperties
<1>4. Distinct(w)
  BY <1>1, <1>3 DEF Distinct
<1>5. \A i \in 1 .. Len(q) : i \in 1 .. Len(w)
  BY <1>1, <1>3
<1>6. Len(q) + 1 \in 1 .. Len(w)
  BY <1>1, <1>3
<1>7. \A j \in 1 .. Len(w) : j = Len(q) + 1 \/ j \in 1 .. Len(q)
  BY <1>1, <1>3
<1> QED BY <1>2, <1>3, <1>4, <1>5, <1>6, <1>7, Zenon

-----------------------------------------------------------------------------
(* What the invariant says of the world thread's queues, in the terms of the   *)
(* lemmas above.                                                               *)

\* Both queues hold each session at most once.
LEMMA QueuesDistinct ==
  ASSUME IInv
  PROVE  Distinct(m_QueuedSessions) /\ Distinct(addSessQueue)
<1>1. m_QueuedSessions \in Seq(Sess) /\ addSessQueue \in Seq(Sess)
  BY DEF IInv, TypeOK
<1>2. /\ DOMAIN m_QueuedSessions = 1 .. Len(m_QueuedSessions)
      /\ DOMAIN addSessQueue = 1 .. Len(addSessQueue)
  BY <1>1, LenProperties
<1> QED BY <1>2, Zenon DEF IInv, QueuePointersLive, HandOver, Distinct

\* LogoutPlayer never takes a player that is not there: the count of the account's
\* players stays a natural number, and only this session's player goes.
LEMMA LogoutKeeps ==
  ASSUME IInv, NEW s \in Sess, life[s] # "none", LogoutPlayer(s)
  PROVE  /\ m_player' \in [Sess -> BOOLEAN]
         /\ m_logoutTime' \in [Sess -> BOOLEAN]
         /\ players' \in [Account -> Nat]
         /\ ~m_player'[s]
         /\ \A x \in Sess \ {s} : m_player'[x] = m_player[x]
         /\ \A b \in Account \ {account[s]} : players'[b] = players[b]
<1>1. /\ m_player \in [Sess -> BOOLEAN] /\ m_logoutTime \in [Sess -> BOOLEAN]
      /\ players \in [Account -> Nat] /\ account[s] \in Account
  BY DEF IInv, TypeOK, SessionStages
<1>2. m_player[s] => players[account[s]] >= 1
  BY <1>1, ConstantsOK DEF IInv, TableOwnsSessions, SessionStages, PlayersCounted
<1>3. players' \in [Account -> Nat]
  BY <1>1, <1>2 DEF LogoutPlayer
<1> QED BY <1>1, <1>3 DEF LogoutPlayer

-----------------------------------------------------------------------------
(* The actions that change the queues, the table or the players keep IInv.     *)

\* World::AddSession: the session enters the hand-over queue once.
LEMMA InvAddSessionUnlock ==
  ASSUME NEW s \in Sess, IInv, AddSessionUnlock(s)
  PROVE  IInv'
<1>1. /\ addSessQueue \in Seq(Sess) /\ Distinct(addSessQueue)
      /\ \A i \in 1 .. Len(addSessQueue) :
            life[addSessQueue[i]] = "adding" /\ addSessQueue[i] \in Sess
      /\ life[s] = "auth" /\ life \in [Sess -> Life]
  <2>1. addSessQueue \in Seq(Sess) /\ Distinct(addSessQueue)
    BY QueuesDistinct DEF IInv, TypeOK
  <2>2. \A i \in 1 .. Len(addSessQueue) :
            i \in DOMAIN addSessQueue /\ addSessQueue[i] \in Sess
    BY <2>1, LenProperties, ElementOfSeq
  <2> QED BY <2>1, <2>2, ConstantsOK DEF IInv, TypeOK, HandOver, AddSessionUnlock
<1>2. PICK q : q = Append(addSessQueue, s)
  OBVIOUS
<1>3. /\ q \in Seq(Sess) /\ Distinct(q) /\ DOMAIN q = 1 .. Len(q)
      /\ \A j \in 1 .. Len(q) :
            q[j] = s \/ \E i \in 1 .. Len(addSessQueue) : q[j] = addSessQueue[i]
  BY <1>1, <1>2, AppendProps, LenProperties
<1>4. addSessQueue' = q /\ adder' = None /\ life' = [life EXCEPT ![s] = "adding"]
  BY <1>2 DEF AddSessionUnlock
<1>5. HandOver'
  <2>1. \A j \in DOMAIN q : life'[q[j]] = "adding"
    BY <1>1, <1>3, <1>4
  <2>2. \A i, j \in DOMAIN q : q[i] = q[j] => i = j
    BY <1>3 DEF Distinct
  <2> QED BY <1>4, <2>1, <2>2 DEF HandOver
<1>6. TypeOK'
  BY <1>3, <1>4 DEF IInv, TypeOK, AddSessionUnlock, Life, worldVars, sqlVars, loopVars
<1> QED
  BY <1>1, <1>4, <1>5, <1>6
  DEF IInv, TableOwnsSessions, QueuePointersLive, QueueFlagsAgree, SessionStages,
      PlayersCounted, TodoListed, TypeOK, AddSessionUnlock, worldVars, loopVars

\* What the first session of the hand-over queue is.
LEMMA NextSessionProps ==
  ASSUME IInv, NextSession
  PROVE  /\ Head(addSessQueue) \in Sess
         /\ life[Head(addSessQueue)] = "adding"
         /\ account[Head(addSessQueue)] \in Account
         /\ Tail(addSessQueue) \in Seq(Sess)
         /\ \A i, j \in DOMAIN Tail(addSessQueue) :
               Tail(addSessQueue)[i] = Tail(addSessQueue)[j] => i = j
         /\ \A i \in DOMAIN Tail(addSessQueue) :
               /\ Tail(addSessQueue)[i] # Head(addSessQueue)
               /\ life[Tail(addSessQueue)[i]] = "adding"
<1>1. addSessQueue \in Seq(Sess) /\ Distinct(addSessQueue) /\ addSessQueue # << >>
  BY QueuesDistinct DEF IInv, TypeOK, NextSession
<1>2. PICK t, h : t = Tail(addSessQueue) /\ h = Head(addSessQueue)
  OBVIOUS
<1>3. /\ Keeps(t, addSessQueue, {h}) /\ h \in Sess
      /\ \E j \in 1 .. Len(addSessQueue) : addSessQueue[j] = h
  BY <1>1, <1>2, TailKeeps
<1>4. t \in Seq(Sess) /\ DOMAIN t = 1 .. Len(t)
  BY <1>3, LenProperties DEF Keeps
<1>5. \A j \in 1 .. Len(addSessQueue) : life[addSessQueue[j]] = "adding"
  BY <1>1, LenProperties DEF IInv, HandOver
<1>6. life[h] = "adding" /\ account[h] \in Account
  BY <1>3, <1>5 DEF IInv, SessionStages
<1>7. \A i \in DOMAIN t : t[i] # h /\ life[t[i]] = "adding"
  BY <1>3, <1>4, <1>5 DEF Keeps
<1>8. \A i, j \in DOMAIN t : t[i] = t[j] => i = j
  BY <1>3, <1>4 DEF Keeps, Distinct
<1> QED BY <1>2, <1>3, <1>4, <1>6, <1>7, <1>8

\* A refused session is deleted before it was ever in the table or the queue.
LEMMA InvAddSession_Refuse ==
  ASSUME IInv, AddSession_Refuse
  PROVE  IInv'
<1>1. PICK s, t : s = Head(addSessQueue) /\ t = Tail(addSessQueue)
  OBVIOUS
<1>2. /\ s \in Sess /\ life[s] = "adding" /\ account[s] \in Account
      /\ t \in Seq(Sess)
      /\ \A i, j \in DOMAIN t : t[i] = t[j] => i = j
      /\ \A i \in DOMAIN t : t[i] # s /\ life[t[i]] = "adding"
  BY <1>1, NextSessionProps DEF AddSession_Refuse
<1>3. /\ addSessQueue' = t /\ adder = None /\ adder' = None
      /\ socket' = [socket EXCEPT ![s] = "reset"]
      /\ life' = [life EXCEPT ![s] = "deleted"]
      /\ LogoutPlayer(s)
      /\ abandoned' = IF m_playerLoading[s]
                      THEN abandoned \cup {account[s]} ELSE abandoned
      /\ UNCHANGED <<account, m_inQueue, m_playerLoading, told, worldVars, sqlVars,
                     loopVars>>
  BY <1>1 DEF AddSession_Refuse, Destroy, NextSession
<1>4. /\ m_player' \in [Sess -> BOOLEAN] /\ m_logoutTime' \in [Sess -> BOOLEAN]
      /\ players' \in [Account -> Nat] /\ ~m_player'[s]
      /\ \A x \in Sess \ {s} : m_player'[x] = m_player[x]
  BY <1>2, <1>3, LogoutKeeps
<1>5. players' = players
  BY <1>2, <1>3 DEF LogoutPlayer, IInv, SessionStages
<1>6. TypeOK'
  BY <1>2, <1>3, <1>4
  DEF IInv, TypeOK, Life, SocketState, worldVars, sqlVars, loopVars
<1>7. HandOver'
  <2>1. \A i \in DOMAIN t : t[i] \in Sess
    BY <1>2, ElementOfSeq, LenProperties
  <2> QED BY <1>2, <1>3, <2>1 DEF IInv, TypeOK, HandOver
<1>8. TableOwnsSessions' /\ SessionStages' /\ PlayersCounted' /\ TodoListed'
  BY <1>2, <1>3, <1>4, <1>5, ConstantsOK
  DEF IInv, TypeOK, TableOwnsSessions, SessionStages, PlayersCounted, TodoListed,
      worldVars, loopVars
<1>9. QueuePointersLive' /\ QueueFlagsAgree'
  BY <1>2, <1>3
  DEF IInv, TypeOK, QueuePointersLive, QueueFlagsAgree, worldVars
<1> QED BY <1>6, <1>7, <1>8, <1>9 DEF IInv

\* FlagsAfter clears the flags of exactly the two sessions that left the queue.
LEMMA FlagsProps ==
  ASSUME NEW rm, NEW old, m_inQueue \in [Sess -> BOOLEAN], Removed(rm, old)
  PROVE  /\ FlagsAfter(rm, old) \in [Sess -> BOOLEAN]
         /\ \A x \in Sess : FlagsAfter(rm, old)[x] => m_inQueue[x] /\ x # rm.popped
         /\ \A x \in Sess : x # rm.popped /\ x # old =>
               FlagsAfter(rm, old)[x] = m_inQueue[x]
  BY DEF FlagsAfter, Removed

\* The heart of both removals: taking `old` and one admitted session from the queue
\* leaves a queue of live, distinct, flagged sessions that holds every flagged
\* connected session but `old`.
LEMMA QueueAfterRemove ==
  ASSUME IInv, NEW old \in Sess \cup {None}, NEW rm, Removed(rm, old)
  PROVE  /\ rm.queue \in Seq(Sess) /\ Distinct(rm.queue)
         /\ \A i \in 1 .. Len(rm.queue) :
               /\ rm.queue[i] \in Sess /\ rm.queue[i] # old
               /\ life[rm.queue[i]] = "listed"
               /\ FlagsAfter(rm, old)[rm.queue[i]]
         /\ \A x \in Sess :
               life[x] = "listed" /\ socket[x] = "open" /\ FlagsAfter(rm, old)[x]
               /\ x # old => \E i \in 1 .. Len(rm.queue) : rm.queue[i] = x
<1>1. PICK q, r : q = m_QueuedSessions /\ r = rm.queue
  OBVIOUS
<1>2. Keeps(r, q, {old, rm.popped})
  BY <1>1 DEF Removed
<1>3. q \in Seq(Sess) /\ DOMAIN q = 1 .. Len(q) /\ m_inQueue \in [Sess -> BOOLEAN]
  BY <1>1, LenProperties DEF IInv, TypeOK
<1>4. \A j \in 1 .. Len(q) : q[j] \in Sess /\ life[q[j]] = "listed" /\ m_inQueue[q[j]]
  BY <1>1, <1>3, ElementOfSeq DEF IInv, QueuePointersLive, QueueFlagsAgree
<1>5. r \in Seq(Sess) /\ Distinct(r)
  BY <1>2 DEF Keeps
<1>6. ASSUME NEW i \in 1 .. Len(r)
      PROVE  /\ r[i] \in Sess /\ r[i] # old /\ life[r[i]] = "listed"
             /\ FlagsAfter(rm, old)[r[i]]
  <2>1. r[i] # old /\ r[i] # rm.popped /\ \E j \in 1 .. Len(q) : q[j] = r[i]
    BY <1>2 DEF Keeps
  <2>2. r[i] \in Sess /\ life[r[i]] = "listed" /\ m_inQueue[r[i]]
    BY <2>1, <1>4
  <2> QED BY <2>1, <2>2, <1>3, FlagsProps
<1>7. ASSUME NEW x \in Sess, life[x] = "listed", socket[x] = "open",
             FlagsAfter(rm, old)[x], x # old
      PROVE  \E i \in 1 .. Len(r) : r[i] = x
  <2>1. m_inQueue[x] /\ x # rm.popped
    BY <1>3, <1>7, FlagsProps
  <2>2. PICK j \in 1 .. Len(q) : q[j] = x
    BY <1>1, <1>3, <1>7, <2>1 DEF IInv, QueueFlagsAgree
  <2>3. q[j] \notin {old, rm.popped}
    BY <1>7, <2>1, <2>2
  <2> QED BY <1>2, <2>2, <2>3 DEF Keeps
<1> QED BY <1>1, <1>5, <1>6, <1>7

\* UpdateSessions deletes a session that lost its socket, and lets another one in.
LEMMA InvUpdateDisconnected ==
  ASSUME NEW a \in Account, IInv, UpdateDisconnected(a)
  PROVE  IInv'
<1>1. PICK s, rm : s = m_sessions[a] /\ rm = RemoveQueuedSession(s)
  OBVIOUS
<1>2. s \in Sess /\ life[s] = "listed" /\ account[s] = a
  BY <1>1, ConstantsOK DEF UpdateDisconnected, IInv, TypeOK, TodoListed, TableOwnsSessions
<1>3. Removed(rm, s)
  BY <1>1, <1>2, QueuesDistinct, RemoveProps DEF IInv, TypeOK
<1>4. /\ socket' = [socket EXCEPT ![s] = "reset"]
      /\ m_QueuedSessions' = rm.queue
      /\ m_inQueue' = FlagsAfter(rm, s)
      /\ told' = rm.told
      /\ life' = [life EXCEPT ![s] = "deleted"]
      /\ LogoutPlayer(s)
      /\ abandoned' = IF m_playerLoading[s]
                      THEN abandoned \cup {account[s]} ELSE abandoned
      /\ m_sessions' = [m_sessions EXCEPT ![a] = None]
      /\ todo' = todo \ {a}
      /\ UNCHANGED <<account, m_playerLoading, addSessQueue, adder, m_playerLimit,
                     sqlDelay, sqlResult, phase>>
  BY <1>1 DEF UpdateDisconnected, Destroy, EraseSession, queueVars, sqlVars
<1>5. /\ m_player' \in [Sess -> BOOLEAN] /\ m_logoutTime' \in [Sess -> BOOLEAN]
      /\ players' \in [Account -> Nat] /\ ~m_player'[s]
      /\ \A x \in Sess \ {s} : m_player'[x] = m_player[x]
      /\ \A b \in Account \ {a} : players'[b] = players[b]
  BY <1>2, <1>4, LogoutKeeps
<1>6. PICK r : r = rm.queue
  OBVIOUS
<1>7. /\ r \in Seq(Sess) /\ Distinct(r) /\ DOMAIN r = 1 .. Len(r)
      /\ \A i \in 1 .. Len(r) : /\ r[i] \in Sess /\ r[i] # s
                                /\ life[r[i]] = "listed" /\ FlagsAfter(rm, s)[r[i]]
      /\ \A x \in Sess : life[x] = "listed" /\ socket[x] = "open"
            /\ FlagsAfter(rm, s)[x] /\ x # s => \E i \in 1 .. Len(r) : r[i] = x
  BY <1>2, <1>3, <1>6, QueueAfterRemove, LenProperties
<1>8. /\ m_inQueue' \in [Sess -> BOOLEAN]
      /\ \A x \in Sess : m_inQueue'[x] => m_inQueue[x]
  BY <1>3, <1>4, FlagsProps DEF IInv, TypeOK
<1>9. TypeOK'
  <2> USE DEF IInv, TypeOK
  <2>1. life' \in [Sess -> Life] /\ socket' \in [Sess -> SocketState]
    BY <1>2, <1>4 DEF Life, SocketState
  <2>2. m_sessions' \in [Account -> Sess \cup {None}] /\ m_QueuedSessions' \in Seq(Sess)
    BY <1>4, <1>6, <1>7
  <2>3. told' \in [Sess -> Int]
    BY <1>3, <1>4 DEF Removed
  <2>4. abandoned' \in SUBSET Account /\ todo' \in SUBSET Account
    BY <1>2, <1>4
  <2>5. /\ account' \in [Sess -> Account \cup {None}] /\ m_playerLoading' \in [Sess -> BOOLEAN]
        /\ addSessQueue' \in Seq(Sess) /\ adder' \in Sess \cup {None} /\ m_playerLimit' \in Int
        /\ sqlDelay' \in Seq(Account) /\ sqlResult' \in Seq(Account) /\ phase' \in Phase
    BY <1>4
  <2> QED BY <1>5, <1>8, <2>1, <2>2, <2>3, <2>4, <2>5
<1>10. QueuePointersLive'
  <2>1. \A x \in Sess : x # s => life'[x] = life[x]
    BY <1>4 DEF IInv, TypeOK
  <2>2. \A i \in DOMAIN r : life'[r[i]] = "listed"
    BY <1>7, <2>1
  <2>3. \A i, j \in DOMAIN r : r[i] = r[j] => i = j
    BY <1>7 DEF Distinct
  <2> QED BY <1>4, <1>6, <2>2, <2>3 DEF QueuePointersLive
<1>11. QueueFlagsAgree'
  <2>1. \A i \in DOMAIN r : m_inQueue'[r[i]]
    BY <1>4, <1>7
  <2>2. ASSUME NEW x \in Sess, life'[x] = "listed", socket'[x] = "open", m_inQueue'[x]
        PROVE  \E i \in DOMAIN r : r[i] = x
    <3>1. x # s /\ life[x] = "listed" /\ socket[x] = "open" /\ FlagsAfter(rm, s)[x]
      BY <1>2, <1>4, <2>2 DEF IInv, TypeOK
    <3> QED BY <3>1, <1>7
  <2> QED BY <1>4, <1>6, <2>1, <2>2 DEF QueueFlagsAgree
<1>12. TableOwnsSessions' /\ SessionStages' /\ PlayersCounted' /\ TodoListed'
  <2>1. /\ \A x \in Sess : life'[x] = IF x = s THEN "deleted" ELSE life[x]
        /\ \A b \in Account : m_sessions'[b] = IF b = a THEN None ELSE m_sessions[b]
        /\ account' = account
    BY <1>4 DEF IInv, TypeOK
  <2>2. \A b \in Account : m_sessions[b] # None =>
           m_sessions[b] \in Sess /\ (b # a => m_sessions[b] # s)
    BY <1>2 DEF IInv, TypeOK, TableOwnsSessions
  <2>3. TableOwnsSessions'
    <3>1. \A b \in Account : m_sessions'[b] # None =>
             life'[m_sessions'[b]] = "listed" /\ account'[m_sessions'[b]] = b
      BY <2>1, <2>2 DEF IInv, TableOwnsSessions
    <3>2. ASSUME NEW x \in Sess, life'[x] = "listed"
          PROVE  m_sessions'[account'[x]] = x
      <4>1. x # s /\ life[x] = "listed"
        BY <2>1, <3>2
      <4>2. account[x] \in Account /\ m_sessions[account[x]] = x
        BY <4>1 DEF IInv, TableOwnsSessions, SessionStages
      <4>3. account[x] # a
        BY <1>1, <4>1, <4>2
      <4> QED BY <2>1, <4>2, <4>3
    <3> QED BY <3>1, <3>2 DEF TableOwnsSessions
  <2>4. SessionStages'
    BY <1>2, <1>5, <1>8, <2>1 DEF IInv, SessionStages
  <2>5. PlayersCounted'
    BY <1>5, <2>1, <2>2 DEF IInv, PlayersCounted
  <2>6. TodoListed'
    BY <1>4, <2>1 DEF IInv, TypeOK, TodoListed
  <2> QED BY <2>3, <2>4, <2>5, <2>6
<1>13. HandOver'
  <2>1. \A i \in DOMAIN addSessQueue : addSessQueue[i] \in Sess
    BY ElementOfSeq, LenProperties DEF IInv, TypeOK
  <2> QED BY <1>2, <1>4, <2>1, ConstantsOK DEF IInv, TypeOK, HandOver
<1> QED BY <1>9, <1>10, <1>11, <1>12, <1>13 DEF IInv

\* AddSession_: the old session of the account goes, another one may be let in, and
\* the new one is queued or let in.
LEMMA InvAddSession_ ==
  ASSUME IInv, AddSession_
  PROVE  IInv'
<1>1. PICK s, t, a, old, rm :
         /\ s = Head(addSessQueue) /\ t = Tail(addSessQueue) /\ a = account[s]
         /\ old = m_sessions[a] /\ rm = RemoveOld(old)
  OBVIOUS
<1>2. PICK wait \in BOOLEAN : wait = MustWait(s, rm.found)
  BY DEF MustWait
<1>3. /\ s \in Sess /\ life[s] = "adding" /\ a \in Account /\ t \in Seq(Sess)
      /\ \A i, j \in DOMAIN t : t[i] = t[j] => i = j
      /\ \A i \in DOMAIN t : t[i] # s /\ life[t[i]] = "adding"
  BY <1>1, NextSessionProps DEF AddSession_
<1>4. /\ old \in Sess \cup {None} /\ old # s
      /\ old # None => life[old] = "listed" /\ account[old] = a
  BY <1>1, <1>3, ConstantsOK DEF IInv, TypeOK, TableOwnsSessions
<1>5. Removed(rm, old)
  BY <1>1, <1>4, QueuesDistinct, RemoveOldProps DEF IInv, TypeOK
<1>6. PICK r, q : r = rm.queue /\ q = IF wait THEN Append(r, s) ELSE r
  OBVIOUS
<1>7. /\ m_sessions' = [m_sessions EXCEPT ![a] = s]
      /\ m_QueuedSessions' = q
      /\ m_inQueue' = [FlagsAfter(rm, old) EXCEPT ![s] = wait]
      /\ told' = [rm.told EXCEPT ![s] = GetQueuedSessionPos(q, s)]
      /\ life' = [x \in Sess |-> IF x = s THEN "listed"
                                 ELSE IF x = old THEN "deleted" ELSE life[x]]
      /\ socket' = [x \in Sess |-> IF x = old THEN "reset" ELSE socket[x]]
      /\ m_player' = [x \in Sess |-> IF x = old THEN FALSE ELSE m_player[x]]
      /\ m_logoutTime' = [x \in Sess |-> IF x = old THEN FALSE ELSE m_logoutTime[x]]
      /\ players' = [b \in Account |-> IF b = a /\ old # None /\ m_player[old]
                                       THEN players[b] - 1 ELSE players[b]]
      /\ addSessQueue' = t /\ adder = None /\ adder' = None
      /\ UNCHANGED <<account, m_playerLoading, m_playerLimit, sqlDelay, sqlResult,
                     phase, todo, abandoned>>
  BY <1>1, <1>2, <1>6
  DEF AddSession_, AddQueuedSession, NextSession, sqlVars, loopVars
<1>8. /\ r \in Seq(Sess) /\ Distinct(r)
      /\ \A i \in 1 .. Len(r) : /\ r[i] \in Sess /\ r[i] # old
                                /\ life[r[i]] = "listed" /\ FlagsAfter(rm, old)[r[i]]
      /\ \A x \in Sess : life[x] = "listed" /\ socket[x] = "open"
            /\ FlagsAfter(rm, old)[x] /\ x # old => \E i \in 1 .. Len(r) : r[i] = x
  BY <1>4, <1>5, <1>6, QueueAfterRemove
<1>9. \A i \in 1 .. Len(r) : r[i] # s
  BY <1>3, <1>8
<1>10. /\ q \in Seq(Sess) /\ Distinct(q) /\ DOMAIN q = 1 .. Len(q)
       /\ \A i \in 1 .. Len(r) : \E j \in 1 .. Len(q) : q[j] = r[i]
       /\ wait => \E j \in 1 .. Len(q) : q[j] = s
       /\ \A j \in 1 .. Len(q) :
             (wait /\ q[j] = s) \/ \E i \in 1 .. Len(r) : q[j] = r[i]
  <2>1. CASE wait
    <3>1. q = Append(r, s)
      BY <2>1, <1>6
    <3>2. /\ q \in Seq(Sess) /\ Distinct(q)
          /\ \A i \in 1 .. Len(r) : \E j \in 1 .. Len(q) : q[j] = r[i]
          /\ \E j \in 1 .. Len(q) : q[j] = s
          /\ \A j \in 1 .. Len(q) : q[j] = s \/ \E i \in 1 .. Len(r) : q[j] = r[i]
      <4>1. /\ r \in Seq(Sess) /\ s \in Sess /\ Distinct(r)
            /\ \A i \in 1 .. Len(r) : r[i] # s
        BY <1>3, <1>8, <1>9
      <4>2. PICK w : w = Append(r, s)
        OBVIOUS
      <4>3. /\ w \in Seq(Sess) /\ Distinct(w)
            /\ \A i \in 1 .. Len(r) : \E j \in 1 .. Len(w) : w[j] = r[i]
            /\ \E j \in 1 .. Len(w) : w[j] = s
            /\ \A j \in 1 .. Len(w) : w[j] = s \/ \E i \in 1 .. Len(r) : w[j] = r[i]
        BY <4>1, <4>2, AppendProps
      <4> QED BY <3>1, <4>2, <4>3
    <3>3. DOMAIN q = 1 .. Len(q)
      BY <3>2, LenProperties
    <3> QED BY <2>1, <3>2, <3>3, Zenon
  <2>2. CASE ~wait
    BY <2>2, <1>6, <1>8, LenProperties
  <2> QED BY <2>1, <2>2
<1>11. /\ FlagsAfter(rm, old) \in [Sess -> BOOLEAN]
       /\ m_inQueue' \in [Sess -> BOOLEAN]
       /\ m_inQueue'[s] = wait
       /\ \A x \in Sess \ {s} : /\ m_inQueue'[x] = FlagsAfter(rm, old)[x]
                                /\ m_inQueue'[x] => m_inQueue[x]
  BY <1>3, <1>5, <1>7, FlagsProps DEF IInv, TypeOK
<1>12. old # None /\ m_player[old] => players[a] >= 1
  BY <1>1, <1>3 DEF IInv, PlayersCounted
<1>13. TypeOK'
  <2>1. told' \in [Sess -> Int]
    <3>1. GetQueuedSessionPos(q, s) \in Int
      BY <1>10, PosProps, LenProperties
    <3> QED BY <1>3, <1>5, <1>7, <3>1 DEF Removed
  <2>2. players' \in [Account -> Nat]
    BY <1>7, <1>12 DEF IInv, TypeOK
  <2>3. m_player' \in [Sess -> BOOLEAN] /\ m_logoutTime' \in [Sess -> BOOLEAN]
    BY <1>7 DEF IInv, TypeOK
  <2> QED BY <1>3, <1>7, <1>10, <1>11, <2>1, <2>2, <2>3
          DEF IInv, TypeOK, Life, SocketState
<1>14. QueuePointersLive'
  <2>1. \A j \in DOMAIN q : life'[q[j]] = "listed"
    <3>1. /\ life'[s] = "listed"
          /\ \A x \in Sess : x # s /\ x # old => life'[x] = life[x]
      BY <1>3, <1>7
    <3>2. \A i \in 1 .. Len(r) : life'[r[i]] = "listed"
      BY <1>8, <1>9, <3>1
    <3> TAKE j \in DOMAIN q
    <3>3. (wait /\ q[j] = s) \/ \E i \in 1 .. Len(r) : q[j] = r[i]
      BY <1>10
    <3> QED BY <3>1, <3>2, <3>3
  <2>2. \A i, j \in DOMAIN q : q[i] = q[j] => i = j
    BY <1>10 DEF Distinct
  <2> QED BY <1>7, <2>1, <2>2 DEF QueuePointersLive
<1>15. QueueFlagsAgree'
  <2>1. \A j \in DOMAIN q : m_inQueue'[q[j]]
    <3>1. \A i \in 1 .. Len(r) : m_inQueue'[r[i]]
      BY <1>8, <1>9, <1>11
    <3> QED BY <1>10, <1>11, <3>1, Zenon
  <2>2. ASSUME NEW x \in Sess, life'[x] = "listed", socket'[x] = "open", m_inQueue'[x]
        PROVE  \E j \in DOMAIN q : q[j] = x
    <3>1. CASE x = s
      BY <3>1, <2>2, <1>10, <1>11
    <3>2. CASE x # s
      <4>1. x # old /\ life[x] = "listed" /\ socket[x] = "open"
        BY <1>7, <2>2, <3>2
      <4>2. FlagsAfter(rm, old)[x]
        BY <1>11, <2>2, <3>2
      <4>3. PICK i \in 1 .. Len(r) : r[i] = x
        BY <4>1, <4>2, <1>8, Zenon
      <4> QED BY <4>3, <1>10, Zenon
    <3> QED BY <3>1, <3>2
  <2> QED BY <1>7, <2>1, <2>2 DEF QueueFlagsAgree
<1>16. TableOwnsSessions' /\ TodoListed'
  <2>1. /\ \A x \in Sess : life'[x] = IF x = s THEN "listed"
                                       ELSE IF x = old THEN "deleted" ELSE life[x]
        /\ \A b \in Account : m_sessions'[b] = IF b = a THEN s ELSE m_sessions[b]
        /\ account' = account /\ todo' = todo
    BY <1>7 DEF IInv, TypeOK
  <2>2. /\ \A b \in Account : m_sessions[b] # None =>
               /\ m_sessions[b] \in Sess
               /\ life[m_sessions[b]] = "listed" /\ account[m_sessions[b]] = b
        /\ \A x \in Sess : life[x] = "listed" =>
               account[x] \in Account /\ m_sessions[account[x]] = x
        /\ \A b \in todo : b \in Account /\ m_sessions[b] # None
    BY <1>1 DEF IInv, TypeOK, TableOwnsSessions, SessionStages, TodoListed
  <2>3. /\ s \in Sess /\ life[s] = "adding" /\ account[s] = a /\ a \in Account
        /\ m_sessions[a] = old /\ old \in Sess \cup {None} /\ old # s
        /\ old # None => life[old] = "listed" /\ account[old] = a
        /\ None \notin Sess
    BY <1>1, <1>3, <1>4, ConstantsOK
  <2>4. ASSUME NEW b \in Account, m_sessions'[b] # None
        PROVE  life'[m_sessions'[b]] = "listed" /\ account'[m_sessions'[b]] = b
    <3>1. CASE b = a
      BY <2>1, <2>3, <3>1
    <3>2. CASE b # a
      <4>1. m_sessions'[b] = m_sessions[b] /\ m_sessions[b] # old /\ m_sessions[b] # s
        BY <2>1, <2>2, <2>4, <2>3, <3>2
      <4> QED BY <2>1, <2>2, <2>4, <4>1
    <3> QED BY <3>1, <3>2
  <2>5. ASSUME NEW x \in Sess, life'[x] = "listed" PROVE m_sessions'[account'[x]] = x
    <3>1. CASE x = s
      BY <2>1, <2>3, <3>1
    <3>2. CASE x # s
      <4>1. x # old /\ life[x] = "listed"
        BY <2>1, <2>5, <3>2
      <4>2. account[x] \in Account /\ m_sessions[account[x]] = x
        BY <2>2, <4>1
      <4>3. account[x] # a
        BY <2>3, <4>1, <4>2
      <4> QED BY <2>1, <4>2, <4>3
    <3> QED BY <3>1, <3>2
  <2>6. ASSUME NEW b \in todo' PROVE m_sessions'[b] # None
    BY <2>1, <2>2, <2>3
  <2> QED BY <2>4, <2>5, <2>6 DEF TableOwnsSessions, TodoListed
<1>17. SessionStages' /\ PlayersCounted'
  <2>1. ~m_player[s]
    BY <1>3 DEF IInv, SessionStages
  <2>2. SessionStages'
    <3>1. ASSUME NEW x \in Sess
          PROVE  /\ life'[x] # "none" => account'[x] \in Account
                 /\ life'[x] \in {"none", "auth", "adding"} => ~m_inQueue'[x]
                 /\ m_player'[x] => life'[x] = "listed"
      <4>1. CASE x = s
        BY <4>1, <1>1, <1>3, <1>4, <1>7, <2>1
      <4>2. CASE x = old /\ x # s
        BY <4>2, <1>3, <1>4, <1>7, ConstantsOK
      <4>3. CASE x # s /\ x # old
        <5>1. /\ life'[x] = life[x] /\ account' = account /\ m_player'[x] = m_player[x]
              /\ m_inQueue'[x] => m_inQueue[x]
          BY <4>3, <1>7, <1>11
        <5> QED BY <5>1 DEF IInv, SessionStages
      <4> QED BY <4>1, <4>2, <4>3
    <3> QED BY <3>1 DEF SessionStages
  <2>3. PlayersCounted'
    BY <1>1, <1>3, <1>4, <1>7, <2>1, ConstantsOK
    DEF IInv, TypeOK, PlayersCounted, TableOwnsSessions
  <2> QED BY <2>2, <2>3
<1>18. HandOver'
  <2>1. \A i \in DOMAIN t : t[i] \in Sess /\ t[i] # old
    BY <1>3, <1>4, ConstantsOK, ElementOfSeq, LenProperties
  <2> QED BY <1>3, <1>7, <2>1 DEF HandOver
<1> QED BY <1>13, <1>14, <1>15, <1>16, <1>17, <1>18 DEF IInv

\* A logout request or the end of the countdown: only the player goes.
LEMMA InvLogout ==
  ASSUME IInv, NEW s \in Sess, life[s] = "listed",
         LogoutPlayer(s) \/ (/\ m_logoutTime' \in [Sess -> BOOLEAN]
                             /\ UNCHANGED <<m_player, players>>),
         todo' \in SUBSET todo,
         UNCHANGED <<life, account, socket, m_inQueue, m_playerLoading, told,
                     queueVars, worldVars, sqlVars, phase, abandoned>>
  PROVE  IInv'
<1>1. /\ m_player' \in [Sess -> BOOLEAN] /\ m_logoutTime' \in [Sess -> BOOLEAN]
      /\ players' \in [Account -> Nat]
      /\ \A x \in Sess : m_player'[x] => m_player[x]
      /\ \A b \in Account : \/ players'[b] = players[b]
                            \/ b = account[s] /\ ~m_player'[s]
  <2>1. CASE LogoutPlayer(s)
    BY <2>1, LogoutKeeps
  <2>2. CASE m_logoutTime' \in [Sess -> BOOLEAN] /\ UNCHANGED <<m_player, players>>
    BY <2>2 DEF IInv, TypeOK
  <2> QED BY <2>1, <2>2
<1>2. TypeOK'
  BY <1>1 DEF IInv, TypeOK, queueVars, worldVars, sqlVars
<1>3. TableOwnsSessions' /\ QueuePointersLive' /\ QueueFlagsAgree' /\ HandOver'
  BY DEF IInv, TableOwnsSessions, QueuePointersLive, QueueFlagsAgree, HandOver,
         queueVars, worldVars
<1>4. SessionStages' /\ TodoListed'
  BY <1>1 DEF IInv, SessionStages, TodoListed, worldVars
<1>5. PlayersCounted'
  <2> SUFFICES ASSUME NEW b \in Account, m_sessions[b] # None, m_player'[m_sessions[b]]
               PROVE  players'[b] >= 1
    BY DEF PlayersCounted, worldVars
  <2>1. m_sessions[b] \in Sess /\ m_player[m_sessions[b]] /\ players[b] >= 1
    BY <1>1 DEF IInv, TypeOK, PlayersCounted
  <2>2. b = account[s] => m_sessions[b] = s
    BY DEF IInv, TableOwnsSessions
  <2> QED BY <1>1, <2>1, <2>2
<1> QED BY <1>2, <1>3, <1>4, <1>5 DEF IInv

\* The login callback gives a player only to the session in the table.
LEMMA InvHandlePlayerLogin ==
  ASSUME IInv, HandlePlayerLogin
  PROVE  IInv'
<1>1. PICK a, s : a = Head(sqlResult) /\ s = m_sessions[a]
  OBVIOUS
<1>2. a \in Account /\ sqlResult' \in Seq(Account)
  BY <1>1, HeadTailProps DEF HandlePlayerLogin, IInv, TypeOK
<1>3. s \in Sess /\ life[s] = "listed" /\ account[s] = a
  BY <1>1, <1>2 DEF HandlePlayerLogin, IInv, TypeOK, TableOwnsSessions
<1>4. /\ m_playerLoading' = [m_playerLoading EXCEPT ![s] = FALSE]
      /\ \/ socket' = Kicked(socket, {s}) /\ UNCHANGED <<m_player, players>>
         \/ /\ m_player' = [m_player EXCEPT ![s] = TRUE]
            /\ players' = [players EXCEPT ![a] = @ + 1]
            /\ UNCHANGED socket
      /\ UNCHANGED <<life, account, m_inQueue, m_logoutTime, told, queueVars,
                     worldVars, sqlDelay, loopVars, abandoned>>
  BY <1>1 DEF HandlePlayerLogin, LoadingDone
<1>5. /\ socket' \in [Sess -> SocketState]
      /\ m_player' \in [Sess -> BOOLEAN] /\ players' \in [Account -> Nat]
      /\ \A x \in Sess : socket'[x] = "open" => socket[x] = "open"
      /\ \A x \in Sess \ {s} : m_player'[x] = m_player[x]
      /\ \A b \in Account \ {a} : players'[b] = players[b]
      /\ \/ players'[a] = players[a] /\ m_player'[s] = m_player[s]
         \/ players'[a] >= 1
  <2>1. CASE socket' = Kicked(socket, {s}) /\ UNCHANGED <<m_player, players>>
    BY <1>2, <2>1 DEF IInv, TypeOK, Kicked, SocketState
  <2>2. CASE /\ m_player' = [m_player EXCEPT ![s] = TRUE]
             /\ players' = [players EXCEPT ![a] = @ + 1]
             /\ UNCHANGED socket
    <3>1. m_player' \in [Sess -> BOOLEAN] /\ socket' \in [Sess -> SocketState]
      BY <1>3, <2>2 DEF IInv, TypeOK
    <3>2. players[a] \in Nat /\ players' = [players EXCEPT ![a] = players[a] + 1]
      BY <1>2, <2>2 DEF IInv, TypeOK
    <3>3. /\ players' \in [Account -> Nat] /\ players'[a] >= 1
          /\ \A b \in Account \ {a} : players'[b] = players[b]
      BY <1>2, <3>2 DEF IInv, TypeOK
    <3> QED BY <1>3, <2>2, <3>1, <3>3 DEF IInv, TypeOK
  <2> QED BY <1>4, <2>1, <2>2
<1>6. TypeOK'
  BY <1>2, <1>4, <1>5 DEF IInv, TypeOK, queueVars, worldVars, loopVars
<1>7. TableOwnsSessions' /\ QueuePointersLive' /\ QueueFlagsAgree' /\ HandOver'
  BY <1>4, <1>5 DEF IInv, TableOwnsSessions, QueuePointersLive, QueueFlagsAgree,
                    HandOver, queueVars, worldVars
<1>8. SessionStages' /\ TodoListed'
  BY <1>3, <1>4, <1>5 DEF IInv, SessionStages, TodoListed, worldVars, loopVars
<1>9. PlayersCounted'
  <2>1. \A b \in Account \ {a} : m_sessions[b] # None =>
           m_sessions[b] \in Sess \ {s}
    BY <1>3 DEF IInv, TypeOK, TableOwnsSessions
  <2> QED BY <1>1, <1>4, <1>5, <2>1 DEF IInv, PlayersCounted, worldVars
<1> QED BY <1>6, <1>7, <1>8, <1>9 DEF IInv

\* KickAll empties the queue and closes every connection in the table, so no
\* connected session keeps a stale flag.
LEMMA InvCleanupsBeforeStop ==
  ASSUME IInv, CleanupsBeforeStop
  PROVE  IInv'
<1>1. /\ m_QueuedSessions' = << >> /\ phase' = "stopAdd"
      /\ socket' = Kicked(socket, {s \in Sess : life[s] = "listed"})
      /\ UNCHANGED <<life, account, m_inQueue, m_playerLoading, m_player,
                     m_logoutTime, told, queueVars, m_sessions, m_playerLimit,
                     sqlVars, players, todo, abandoned>>
  BY DEF CleanupsBeforeStop, KickAll
<1>2. /\ socket' \in [Sess -> SocketState]
      /\ \A s \in Sess : life[s] = "listed" => socket'[s] # "open"
  BY <1>1 DEF IInv, TypeOK, Kicked, SocketState
<1>3. TypeOK'
  BY <1>1, <1>2 DEF IInv, TypeOK, Phase, queueVars, sqlVars
<1>4. QueuePointersLive' /\ QueueFlagsAgree'
  BY <1>1, <1>2 DEF IInv, QueuePointersLive, QueueFlagsAgree
<1> QED
  BY <1>1, <1>3, <1>4 DEF IInv, TableOwnsSessions, HandOver, SessionStages,
                          PlayersCounted, TodoListed, queueVars

-----------------------------------------------------------------------------

\* Initially there are no sessions at all.
LEMMA InvInit == Init => IInv
  BY ConstantsOK
  DEF Init, IInv, TypeOK, TableOwnsSessions, QueuePointersLive, QueueFlagsAgree,
      HandOver, SessionStages, PlayersCounted, TodoListed, Life, SocketState, Phase

\* Every step of every thread keeps the invariant.
LEMMA InvNext == IInv /\ [Next]_vars => IInv'
<1> SUFFICES ASSUME IInv, [Next]_vars PROVE IInv'
  OBVIOUS
<1> USE DEF sessVars, queueVars, worldVars, sqlVars, loopVars
<1>1. ASSUME NEW s \in Sess, NEW a \in Account, HandleAuthSession(s, a) PROVE IInv'
  BY <1>1, ConstantsOK
  DEF HandleAuthSession, IInv, TypeOK, TableOwnsSessions, QueuePointersLive,
      QueueFlagsAgree, HandOver, SessionStages, PlayersCounted, TodoListed, Life,
      SocketState
<1>2. ASSUME NEW s \in Sess, AddSessionLock(s) PROVE IInv'
  BY <1>2
  DEF AddSessionLock, IInv, TypeOK, TableOwnsSessions, QueuePointersLive,
      QueueFlagsAgree, HandOver, SessionStages, PlayersCounted, TodoListed
<1>3. ASSUME NEW s \in Sess, AddSessionUnlock(s) PROVE IInv'
  BY <1>3, InvAddSessionUnlock
<1>4. ASSUME NEW s \in Sess, Disconnect(s) PROVE IInv'
  BY <1>4
  DEF Disconnect, IInv, TypeOK, TableOwnsSessions, QueuePointersLive,
      QueueFlagsAgree, HandOver, SessionStages, PlayersCounted, TodoListed,
      SocketState
<1>5. ASSUME NEW a \in Account, HandlePlayerLoginOpcode(a) PROVE IInv'
  <2>1. sqlDelay' \in Seq(Account)
    BY <1>5, AppendProperties DEF HandlePlayerLoginOpcode, IInv, TypeOK
  <2>2. m_playerLoading' \in [Sess -> BOOLEAN]
    BY <1>5 DEF HandlePlayerLoginOpcode, IInv, TypeOK
  <2> QED
    BY <1>5, <2>1, <2>2
    DEF HandlePlayerLoginOpcode, IInv, TypeOK, TableOwnsSessions, QueuePointersLive,
        QueueFlagsAgree, HandOver, SessionStages, PlayersCounted, TodoListed
<1>6. ASSUME NEW a \in todo, todo \subseteq Account
      PROVE  m_sessions[a] \in Sess /\ life[m_sessions[a]] = "listed"
  BY <1>6 DEF IInv, TypeOK, TodoListed, TableOwnsSessions
<1>7. ASSUME NEW a \in Account, HandleLogoutRequestOpcode(a) PROVE IInv'
  <2>1. m_sessions[a] \in Sess /\ life[m_sessions[a]] = "listed"
    BY <1>6, <1>7 DEF HandleLogoutRequestOpcode, IInv, TypeOK
  <2>2. LogoutPlayer(m_sessions[a]) \/ (/\ m_logoutTime' \in [Sess -> BOOLEAN]
                                        /\ UNCHANGED <<m_player, players>>)
    BY <1>7, <2>1 DEF HandleLogoutRequestOpcode, IInv, TypeOK
  <2> QED BY <1>7, <2>1, <2>2, InvLogout DEF HandleLogoutRequestOpcode
<1>8. ASSUME NEW a \in Account, UpdateConnected(a) PROVE IInv'
  <2>1. m_sessions[a] \in Sess /\ life[m_sessions[a]] = "listed"
    BY <1>6, <1>8 DEF UpdateConnected, IInv, TypeOK
  <2>2. LogoutPlayer(m_sessions[a]) \/ (/\ m_logoutTime' \in [Sess -> BOOLEAN]
                                        /\ UNCHANGED <<m_player, players>>)
    BY <1>8, <2>1 DEF UpdateConnected, IInv, TypeOK
  <2> QED BY <1>8, <2>1, <2>2, InvLogout DEF UpdateConnected
<1>9. ASSUME NEW a \in Account, UpdateDisconnected(a) PROVE IInv'
  BY <1>9, InvUpdateDisconnected
<1>10. ASSUME NEW a \in Account, KickCommand(a) PROVE IInv'
  BY <1>10
  DEF KickCommand, Kicked, IInv, TypeOK, TableOwnsSessions, QueuePointersLive,
      QueueFlagsAgree, HandOver, SessionStages, PlayersCounted, TodoListed,
      SocketState, Phase
<1>11. ASSUME NEW l \in PLimits, HandleServerPLimitCommand(l) PROVE IInv'
  BY <1>11, ConstantsOK
  DEF HandleServerPLimitCommand, Kicked, IInv, TypeOK, TableOwnsSessions,
      QueuePointersLive, QueueFlagsAgree, HandOver, SessionStages, PlayersCounted,
      TodoListed, SocketState, Phase, SEC_ADMINISTRATOR, GetPlayerAmountLimit
<1>12. CASE AddSession_Refuse
  BY <1>12, InvAddSession_Refuse
<1>13. CASE AddSession_
  BY <1>13, InvAddSession_
<1>14. CASE EndAdd
  BY <1>14
  DEF EndAdd, Listed, IInv, TypeOK, TableOwnsSessions, QueuePointersLive,
      QueueFlagsAgree, HandOver, SessionStages, PlayersCounted, TodoListed, Phase
<1>15. CASE MapUpdate
  BY <1>15
  DEF MapUpdate, IInv, TypeOK, TableOwnsSessions, QueuePointersLive,
      QueueFlagsAgree, HandOver, SessionStages, PlayersCounted, TodoListed,
      SocketState, Phase
<1>16. CASE LoginCallbackNoSession
  BY <1>16, HeadTailProps
  DEF LoginCallbackNoSession, IInv, TypeOK, TableOwnsSessions, QueuePointersLive,
      QueueFlagsAgree, HandOver, SessionStages, PlayersCounted, TodoListed
<1>17. CASE HandlePlayerLogin
  BY <1>17, InvHandlePlayerLogin
<1>18. CASE EndUpdate \/ EndResults \/ EndCli
  <2>1. phase' \in Phase
    BY <1>18 DEF EndUpdate, EndResults, EndCli, Phase
  <2>2. UNCHANGED <<sessVars, queueVars, worldVars, sqlVars, players, todo, abandoned>>
    BY <1>18 DEF EndUpdate, EndResults, EndCli
  <2> QED
    BY <2>1, <2>2
    DEF IInv, TypeOK, TableOwnsSessions, QueuePointersLive, QueueFlagsAgree,
        HandOver, SessionStages, PlayersCounted, TodoListed
<1>19. CASE CleanupsBeforeStop
  BY <1>19, InvCleanupsBeforeStop
<1>20. CASE SqlExecute
  <2>1. sqlDelay' \in Seq(Account) /\ sqlResult' \in Seq(Account)
    BY <1>20, HeadTailProps, AppendProperties DEF SqlExecute, IInv, TypeOK
  <2> QED
    BY <1>20, <2>1
    DEF SqlExecute, IInv, TypeOK, TableOwnsSessions, QueuePointersLive,
        QueueFlagsAgree, HandOver, SessionStages, PlayersCounted, TodoListed
<1>21. CASE UNCHANGED vars
  BY <1>21
  DEF vars, IInv, TypeOK, TableOwnsSessions, QueuePointersLive, QueueFlagsAgree,
      HandOver, SessionStages, PlayersCounted, TodoListed
<1> QED
  BY <1>1, <1>2, <1>3, <1>4, <1>5, <1>7, <1>8, <1>9, <1>10, <1>11, <1>12, <1>13,
     <1>14, <1>15, <1>16, <1>17, <1>18, <1>19, <1>20, <1>21, Zenon
  DEF Next, NetworkNext, PacketNext, LoopNext

\* The inductive invariant holds in every reachable state.
THEOREM Invariance == Spec => []IInv
  BY InvInit, InvNext, PTL DEF Spec

\* Type correctness of the session tables, the queues and the loop.
THEOREM TypeCorrect == Spec => []TypeOK
<1>1. IInv => TypeOK
  BY DEF IInv
<1> QED BY <1>1, Invariance, PTL

\* World::m_sessions and the WorldSession objects agree: no entry points to a deleted
\* session, and no live session of the world thread is missing from the table.
THEOREM TableSafe == Spec => []TableSound
<1>1. IInv => TableSound
  BY DEF IInv, TableSound
<1> QED BY <1>1, Invariance, PTL

\* The raw pointers of World::m_QueuedSessions never dangle and are never doubled, and
\* WorldSession::m_inQueue is set exactly for the connected sessions that wait.
THEOREM QueueSafe == Spec => []QueueSound
<1>1. IInv => QueueSound
  BY DEF IInv, QueueSound
<1> QED BY <1>1, Invariance, PTL

-----------------------------------------------------------------------------
(* Positions in the login queue: where a session stands once another one left  *)
(* or joined.                                                                  *)

LEMMA PosAt ==
  ASSUME NEW q \in Seq(Sess), Distinct(q), NEW i \in 1 .. Len(q)
  PROVE  GetQueuedSessionPos(q, q[i]) = i
<1>1. PICK p : p = GetQueuedSessionPos(q, q[i])
  OBVIOUS
<1>2. p \in 0 .. Len(q) /\ p # 0 /\ q[p] = q[i] /\ Len(q) \in Nat
  BY <1>1, PosProps, LenProperties
<1>3. p \in 1 .. Len(q)
  BY <1>2
<1> QED BY <1>1, <1>2, <1>3 DEF Distinct

LEMMA PosWithout ==
  ASSUME NEW q \in Seq(Sess), Distinct(q), NEW pos \in 1 .. Len(q), NEW x
  PROVE  GetQueuedSessionPos(Without(q, pos), x) =
            IF GetQueuedSessionPos(q, x) < pos THEN GetQueuedSessionPos(q, x)
            ELSE IF GetQueuedSessionPos(q, x) = pos THEN 0
            ELSE GetQueuedSessionPos(q, x) - 1
<1>1. PICK w, p : w = Without(q, pos) /\ p = GetQueuedSessionPos(q, x)
  OBVIOUS
<1>2. /\ w \in Seq(Sess) /\ Len(w) = Len(q) - 1 /\ Len(q) \in Nat
      /\ \A i \in 1 .. Len(q) - 1 : w[i] = IF i < pos THEN q[i] ELSE q[i + 1]
  BY <1>1, WithoutProps, LenProperties
<1>3. /\ Distinct(w)
      /\ \A i \in 1 .. Len(w) : w[i] # q[pos] /\ \E j \in 1 .. Len(q) : q[j] = w[i]
  BY <1>1, WithoutKeeps DEF Keeps
<1>4. /\ p \in 0 .. Len(q)
      /\ p # 0 => q[p] = x
      /\ p = 0 => \A i \in 1 .. Len(q) : q[i] # x
  BY <1>1, PosProps
<1>5. (\A i \in 1 .. Len(w) : w[i] # x) => GetQueuedSessionPos(w, x) = 0
  <2>1. PICK k : k = GetQueuedSessionPos(w, x)
    OBVIOUS
  <2>2. k \in 0 .. Len(w) /\ (k # 0 => w[k] = x)
    BY <1>2, <2>1, PosProps
  <2> QED BY <1>2, <2>1, <2>2
<1>6. CASE p = 0
  BY <1>1, <1>3, <1>4, <1>5, <1>6
<1>7. CASE p # 0 /\ p < pos
  <2>1. p \in 1 .. Len(w) /\ w[p] = x
    BY <1>2, <1>4, <1>7
  <2> QED BY <1>1, <1>2, <1>3, <1>7, <2>1, PosAt
<1>8. CASE p = pos
  BY <1>1, <1>3, <1>4, <1>5, <1>8
<1>9. CASE p > pos
  <2>1. p - 1 \in 1 .. Len(w) /\ w[p - 1] = x
    BY <1>2, <1>4, <1>9
  <2>2. GetQueuedSessionPos(w, x) = p - 1
    BY <1>2, <1>3, <2>1, PosAt
  <2>3. pos \in Int /\ p \in Int /\ ~(p < pos) /\ p # pos
    BY <1>2, <1>4, <1>9
  <2> QED BY <1>1, <2>2, <2>3
<1> QED BY <1>4, <1>6, <1>7, <1>8, <1>9

LEMMA PosTail ==
  ASSUME NEW q \in Seq(Sess), Distinct(q), q # << >>, NEW x
  PROVE  GetQueuedSessionPos(Tail(q), x) =
            IF GetQueuedSessionPos(q, x) = 0 THEN 0 ELSE GetQueuedSessionPos(q, x) - 1
<1>1. PICK w, p : w = Tail(q) /\ p = GetQueuedSessionPos(q, x)
  OBVIOUS
<1>2. /\ w \in Seq(Sess) /\ Len(w) = Len(q) - 1 /\ Len(q) \in Nat /\ Head(q) = q[1]
      /\ \A i \in 1 .. Len(q) - 1 : w[i] = q[i + 1]
  BY <1>1, HeadTailProps, LenProperties
<1>3. /\ Distinct(w)
      /\ \A i \in 1 .. Len(w) : w[i] # q[1] /\ \E j \in 1 .. Len(q) : q[j] = w[i]
  BY <1>1, <1>2, TailKeeps DEF Keeps
<1>4. /\ p \in 0 .. Len(q)
      /\ p # 0 => q[p] = x
      /\ p = 0 => \A i \in 1 .. Len(q) : q[i] # x
  BY <1>1, PosProps
<1>5. CASE p \in {0, 1}
  <2>1. PICK k : k = GetQueuedSessionPos(w, x)
    OBVIOUS
  <2>2. k \in 0 .. Len(w) /\ (k # 0 => w[k] = x)
    BY <1>2, <2>1, PosProps
  <2>3. k \notin 1 .. Len(w)
    BY <1>3, <1>4, <1>5, <2>2
  <2> QED BY <1>1, <1>2, <1>5, <2>1, <2>2, <2>3
<1>6. CASE p > 1
  <2>1. p - 1 \in 1 .. Len(w) /\ w[p - 1] = x
    BY <1>2, <1>4, <1>6
  <2>2. GetQueuedSessionPos(w, x) = p - 1
    BY <1>2, <1>3, <2>1, PosAt
  <2> QED BY <1>1, <1>6, <2>2
<1> QED BY <1>4, <1>5, <1>6

LEMMA PosAppend ==
  ASSUME NEW q \in Seq(Sess), Distinct(q), NEW s \in Sess, \A i \in 1 .. Len(q) : q[i] # s, NEW x
  PROVE  GetQueuedSessionPos(Append(q, s), x) =
            IF x = s THEN Len(q) + 1 ELSE GetQueuedSessionPos(q, x)
<1>1. PICK w, p : w = Append(q, s) /\ p = GetQueuedSessionPos(q, x)
  OBVIOUS
<1>2. /\ w \in Seq(Sess) /\ Len(w) = Len(q) + 1 /\ Len(q) \in Nat /\ Distinct(w)
      /\ \A i \in 1 .. Len(q) : w[i] = q[i]
      /\ w[Len(q) + 1] = s
  BY <1>1, AppendProps, AppendProperties, LenProperties
<1>3. /\ p \in 0 .. Len(q)
      /\ p # 0 => q[p] = x
      /\ p = 0 => \A i \in 1 .. Len(q) : q[i] # x
  BY <1>1, PosProps
<1>4. CASE x = s
  <2>1. Len(q) + 1 \in 1 .. Len(w)
    BY <1>2
  <2> QED BY <1>1, <1>2, <1>4, <2>1, PosAt
<1>5. CASE x # s /\ p # 0
  <2>1. p \in 1 .. Len(w) /\ w[p] = x
    BY <1>2, <1>3, <1>5
  <2> QED BY <1>1, <1>2, <1>5, <2>1, PosAt
<1>6. CASE x # s /\ p = 0
  <2>1. PICK k : k = GetQueuedSessionPos(w, x)
    OBVIOUS
  <2>2. k \in 0 .. Len(w) /\ (k # 0 => w[k] = x)
    BY <1>2, <2>1, PosProps
  <2>3. k = 0
    <3>1. k \in 1 .. Len(q) \/ k = Len(q) + 1 \/ k = 0
      BY <1>2, <2>2
    <3> QED BY <1>2, <1>3, <1>6, <2>2, <3>1
  <2> QED BY <1>1, <1>6, <2>1, <2>3
<1> QED BY <1>4, <1>5, <1>6

\* What RemoveQueuedSession(s) does to positions: nobody overtakes, whoever keeps
\* waiting and knew its place is told the new one, and it says how many remain.
Moved(rm, s) ==
    LET q      == m_QueuedSessions
        Pos(x) == GetQueuedSessionPos(q, x)
        New(x) == GetQueuedSessionPos(rm.queue, x)
    IN  /\ \A x \in Sess : Pos(x) = 0 => New(x) = 0
        /\ \A x, y \in Sess : New(x) # 0 /\ Pos(y) > Pos(x) /\ y # s => New(y) > New(x)
        /\ \A x \in Sess : /\ x = rm.popped => rm.told[x] = 0
                           /\ x # rm.popped /\ New(x) = 0 => rm.told[x] = told[x]
                           /\ New(x) # 0 /\ told[x] = Pos(x) => rm.told[x] = New(x)
        /\ Len(rm.queue) = Len(q) - (IF rm.found THEN 1 ELSE 0)
                                  - (IF rm.popped # None THEN 1 ELSE 0)
        /\ rm.popped # None => HasPlace(ActiveWithout(rm.found))
        /\ rm.popped = None /\ s # None /\ rm.queue # << >> => ~HasPlace(ActiveWithout(rm.found))

LEMMA RemoveMoves ==
  ASSUME m_QueuedSessions \in Seq(Sess), Distinct(m_QueuedSessions),
         told \in [Sess -> Int], NEW s \in Sess
  PROVE  Moved(RemoveQueuedSession(s), s)
<1> DEFINE q      == m_QueuedSessions
           pos    == GetQueuedSessionPos(q, s)
           found  == pos # 0
           erased == IF found THEN Without(q, pos) ELSE q
           accept == HasPlace(ActiveWithout(found)) /\ erased # << >>
           popped == IF accept THEN Head(erased) ELSE None
           queue  == IF accept THEN Tail(erased) ELSE erased
           rm     == RemoveQueuedSession(s)
           Pos(x) == GetQueuedSessionPos(q, x)
           Mid(x) == GetQueuedSessionPos(erased, x)
           New(x) == GetQueuedSessionPos(queue, x)
<1>1. /\ rm.found = found /\ rm.popped = popped /\ rm.queue = queue
      /\ rm.told = [x \in Sess |->
                      IF x = popped THEN 0
                      ELSE IF x \in {y \in Sess : /\ accept \/ found
                                                  /\ New(y) # 0
                                                  /\ New(y) >= FirstChanged(accept, pos)}
                           THEN New(x) ELSE told[x]]
  BY DEF RemoveQueuedSession
<1>2. q \in Seq(Sess) /\ Distinct(q) /\ Len(q) \in Nat /\ pos \in 0 .. Len(q)
  BY PosProps, LenProperties
<1>3. ASSUME NEW x PROVE Pos(x) \in 0 .. Len(q) /\ (Pos(x) # 0 => q[Pos(x)] = x)
  BY <1>2, PosProps
<1>4. /\ erased \in Seq(Sess) /\ Distinct(erased)
      /\ Len(erased) = Len(q) - (IF found THEN 1 ELSE 0)
      /\ \A x : Mid(x) = IF ~found \/ Pos(x) < pos THEN Pos(x)
                         ELSE IF Pos(x) = pos THEN 0 ELSE Pos(x) - 1
  <2>1. CASE found
    <3>1. pos \in 1 .. Len(q) /\ erased = Without(q, pos)
      BY <1>2, <2>1
    <3>2. erased \in Seq(Sess) /\ Distinct(erased) /\ Len(erased) = Len(q) - 1
      BY <1>2, <3>1, WithoutProps, WithoutKeeps DEF Keeps
    <3> HIDE DEF q, pos, erased
    <3>3. \A x : GetQueuedSessionPos(Without(q, pos), x) =
                   IF GetQueuedSessionPos(q, x) < pos THEN GetQueuedSessionPos(q, x)
                   ELSE IF GetQueuedSessionPos(q, x) = pos THEN 0
                   ELSE GetQueuedSessionPos(q, x) - 1
      BY <1>2, <3>1, PosWithout
    <3> QED BY <2>1, <3>1, <3>2, <3>3
  <2>2. CASE ~found
    BY <1>2, <2>2
  <2> QED BY <2>1, <2>2
<1>5. Len(erased) \in Nat /\ \A x : Mid(x) \in 0 .. Len(erased)
  <2> HIDE DEF erased
  <2> QED BY <1>4, PosProps, LenProperties
<1>6. CASE accept
  <2>1. /\ popped = Head(erased) /\ queue = Tail(erased) /\ erased # << >>
        /\ HasPlace(ActiveWithout(found))
    BY <1>6
  <2> HIDE DEF erased, accept, popped, queue, found
  <2>2. /\ \A x : New(x) = IF Mid(x) = 0 THEN 0 ELSE Mid(x) - 1
        /\ Len(queue) = Len(erased) - 1
        /\ popped = erased[1] /\ popped \in Sess
    BY <1>4, <2>1, PosTail, HeadTailProps
  <2>3. Mid(popped) = 1
    <3>1. 1 \in 1 .. Len(erased)
      BY <1>4, <1>5, <2>1, EmptySeq
    <3> QED BY <1>4, <2>2, <3>1, PosAt
  <2>4. \A x \in Sess : Pos(x) = 0 => New(x) = 0
    <3> USE DEF found
    <3> TAKE x \in Sess
    <3>1. Pos(x) \in 0 .. Len(q)
      BY <1>3
    <3> HIDE DEF q, pos, Pos, Mid, New
    <3> QED BY <1>2, <1>4, <2>2, <3>1
  <2>5. ASSUME NEW x \in Sess, NEW y \in Sess, New(x) # 0, Pos(y) > Pos(x), y # s
        PROVE  New(y) > New(x)
    <3>1. Pos(y) # pos
      <4> USE DEF found
      <4>1. Pos(y) \in 0 .. Len(q) /\ (Pos(y) # 0 => q[Pos(y)] = y) /\ Pos(x) \in 0 .. Len(q)
            /\ (pos # 0 => q[pos] = s)
        BY <1>3
      <4> HIDE DEF q, pos, Pos
      <4> QED BY <1>2, <2>5, <4>1
    <3>2. /\ Pos(x) \in 0 .. Len(q) /\ Pos(y) \in 0 .. Len(q)
          /\ Mid(x) \in 0 .. Len(erased) /\ Mid(y) \in 0 .. Len(erased)
          /\ New(x) = (IF Mid(x) = 0 THEN 0 ELSE Mid(x) - 1)
          /\ New(y) = (IF Mid(y) = 0 THEN 0 ELSE Mid(y) - 1)
          /\ Mid(x) = (IF ~found \/ Pos(x) < pos THEN Pos(x)
                       ELSE IF Pos(x) = pos THEN 0 ELSE Pos(x) - 1)
          /\ Mid(y) = (IF ~found \/ Pos(y) < pos THEN Pos(y)
                       ELSE IF Pos(y) = pos THEN 0 ELSE Pos(y) - 1)
      BY <1>3, <1>4, <1>5, <2>2
    <3>3. Mid(x) # 0
      BY <2>5, <3>2
    <3>4. Mid(y) > Mid(x)
      <4>1. PICK c, d, m, n, p, len : /\ c = Pos(x) /\ d = Pos(y) /\ m = Mid(x) /\ n = Mid(y)
                                      /\ p = pos /\ len = Len(q)
        OBVIOUS
      <4>2. /\ c \in 0 .. len /\ d \in 0 .. len /\ p \in 0 .. len /\ len \in Nat
            /\ d > c /\ d # p /\ m # 0
        BY <1>2, <2>5, <3>1, <3>2, <3>3, <4>1
      <4>3. /\ m = (IF ~found \/ c < p THEN c ELSE IF c = p THEN 0 ELSE c - 1)
            /\ n = (IF ~found \/ d < p THEN d ELSE IF d = p THEN 0 ELSE d - 1)
        BY <3>2, <4>1
      <4>4. n > m
        BY <4>2, <4>3
      <4> QED BY <4>1, <4>4
    <3>5. Mid(x) \in Int /\ Mid(y) \in Int /\ Mid(x) >= 1
      <4> HIDE DEF Mid
      <4> QED BY <1>5, <3>2, <3>3
    <3>6. New(x) = Mid(x) - 1 /\ New(y) = Mid(y) - 1
      <4> HIDE DEF Mid, New
      <4> QED BY <3>2, <3>3, <3>4, <3>5
    <3> HIDE DEF New, Mid, Pos
    <3> QED BY <3>4, <3>5, <3>6
  <2>6. ASSUME NEW x \in Sess
        PROVE  /\ x = popped => rm.told[x] = 0
               /\ x # popped /\ New(x) = 0 => rm.told[x] = told[x]
               /\ New(x) # 0 /\ told[x] = Pos(x) => rm.told[x] = New(x)
    <3>1. New(popped) = 0
      BY <2>2, <2>3
    <3>2. FirstChanged(accept, pos) = 1
      BY <1>6 DEF FirstChanged
    <3>3. New(x) # 0 => New(x) >= 1
      <4>1. New(x) = (IF Mid(x) = 0 THEN 0 ELSE Mid(x) - 1) /\ Mid(x) \in 0 .. Len(erased)
        BY <1>5, <2>2
      <4> HIDE DEF New, Mid
      <4> QED BY <1>5, <4>1
    <3> HIDE DEF New, Mid, rm, q, pos, Pos
    <3> QED BY <1>1, <1>6, <3>1, <3>2, <3>3
  <2>7. popped # None
    BY <2>2, ConstantsOK
  <2>8. Len(queue) = Len(q) - (IF found THEN 1 ELSE 0) - 1
    BY <1>4, <2>2
  <2> HIDE DEF rm
  <2>9. Moved(rm, s)
    BY <1>1, <2>1, <2>4, <2>5, <2>6, <2>7, <2>8 DEF Moved
  <2> QED BY <2>9 DEF rm
<1>7. CASE ~accept
  <2>1. popped = None /\ queue = erased /\ (erased # << >> => ~HasPlace(ActiveWithout(found)))
    BY <1>7
  <2> HIDE DEF erased, accept, popped, queue, found
  <2>2. \A x \in Sess : Pos(x) = 0 => New(x) = 0
    <3> USE DEF found
    <3> TAKE x \in Sess
    <3>1. Pos(x) \in 0 .. Len(q) /\ New(x) = Mid(x)
      BY <1>3, <2>1
    <3> HIDE DEF q, pos, Pos, Mid, New
    <3> QED BY <1>2, <1>4, <3>1
  <2>3. ASSUME NEW x \in Sess, NEW y \in Sess, New(x) # 0, Pos(y) > Pos(x), y # s
        PROVE  New(y) > New(x)
    <3>1. Pos(y) # pos
      <4> USE DEF found
      <4>1. Pos(y) \in 0 .. Len(q) /\ (Pos(y) # 0 => q[Pos(y)] = y) /\ Pos(x) \in 0 .. Len(q)
            /\ (pos # 0 => q[pos] = s)
        BY <1>3
      <4> HIDE DEF q, pos, Pos
      <4> QED BY <1>2, <2>3, <4>1
    <3>2. /\ Pos(x) \in 0 .. Len(q) /\ Pos(y) \in 0 .. Len(q)
          /\ New(x) = Mid(x) /\ New(y) = Mid(y)
          /\ Mid(x) = (IF ~found \/ Pos(x) < pos THEN Pos(x)
                       ELSE IF Pos(x) = pos THEN 0 ELSE Pos(x) - 1)
          /\ Mid(y) = (IF ~found \/ Pos(y) < pos THEN Pos(y)
                       ELSE IF Pos(y) = pos THEN 0 ELSE Pos(y) - 1)
      BY <1>3, <1>4, <2>1
    <3> USE DEF found
    <3> HIDE DEF q, pos, Pos, Mid, New
    <3> QED BY <1>2, <2>3, <3>1, <3>2
  <2>4. ASSUME NEW x \in Sess
        PROVE  /\ x = popped => rm.told[x] = 0
               /\ x # popped /\ New(x) = 0 => rm.told[x] = told[x]
               /\ New(x) # 0 /\ told[x] = Pos(x) => rm.told[x] = New(x)
    <3>1. popped # x
      BY <2>1, ConstantsOK
    <3>2. FirstChanged(accept, pos) = pos
      BY <1>7 DEF FirstChanged
    <3>3. /\ Pos(x) \in 0 .. Len(q) /\ New(x) = Mid(x)
          /\ Mid(x) = (IF ~found \/ Pos(x) < pos THEN Pos(x)
                       ELSE IF Pos(x) = pos THEN 0 ELSE Pos(x) - 1)
      BY <1>3, <1>4, <2>1
    <3>4. New(x) # 0 /\ ~(found /\ New(x) >= pos) => New(x) = Pos(x)
      <4> USE DEF found
      <4> HIDE DEF q, pos, Pos, Mid, New
      <4> QED BY <1>2, <3>3
    <3> HIDE DEF New, Mid, rm, q, pos, Pos
    <3> QED BY <1>1, <1>7, <3>1, <3>2, <3>4
  <2>5. Len(queue) = Len(q) - (IF found THEN 1 ELSE 0)
    BY <1>4, <2>1
  <2> HIDE DEF rm
  <2>6. Moved(rm, s)
    BY <1>1, <1>2, <2>1, <2>2, <2>3, <2>4, <2>5 DEF Moved
  <2> QED BY <2>6 DEF rm
<1> QED BY <1>6, <1>7

LEMMA RemoveOldMoves ==
  ASSUME m_QueuedSessions \in Seq(Sess), Distinct(m_QueuedSessions),
         told \in [Sess -> Int], NEW old \in Sess \cup {None}
  PROVE  Moved(RemoveOld(old), old)
<1>1. CASE old = None
  <2>1. /\ NothingQueued.found = FALSE /\ NothingQueued.popped = None
        /\ NothingQueued.told = told /\ NothingQueued.queue = m_QueuedSessions
    BY DEF NothingQueued
  <2>2. \A x \in Sess : x # None
    BY ConstantsOK
  <2>3. Len(m_QueuedSessions) \in Nat
    BY LenProperties
  <2>4. \A x \in Sess : GetQueuedSessionPos(m_QueuedSessions, x) \in Int
    BY PosProps, <2>3
  <2>5. Moved(NothingQueued, None)
    BY <2>1, <2>2, <2>3, <2>4 DEF Moved
  <2> QED BY <1>1, <2>5 DEF RemoveOld
<1>2. CASE old # None
  BY <1>2, RemoveMoves DEF RemoveOld
<1> QED BY <1>1, <1>2

\* What a step of AddSession_ does, in the terms of the lemmas above.
Adds(s, old, rm, wait) ==
    /\ life[s] = "adding" /\ account[s] \in Account
    /\ old = m_sessions[account[s]] /\ old # s
    /\ old # None => /\ life[old] = "listed" /\ account[old] = account[s]
                     /\ ~m_playerLoading[old]
    /\ Removed(rm, old) /\ Moved(rm, old)
    /\ rm.queue \in Seq(Sess) /\ Distinct(rm.queue)
    /\ \A i \in 1 .. Len(rm.queue) : rm.queue[i] # s
    /\ old = None => rm = NothingQueued
    /\ wait = MustWait(s, rm.found)
    /\ m_sessions' = [m_sessions EXCEPT ![account[s]] = s]
    /\ m_QueuedSessions' = IF wait THEN Append(rm.queue, s) ELSE rm.queue
    /\ m_inQueue' = [FlagsAfter(rm, old) EXCEPT ![s] = wait]
    /\ told' = [rm.told EXCEPT ![s] = GetQueuedSessionPos(m_QueuedSessions', s)]
    /\ life' = [x \in Sess |-> IF x = s THEN "listed"
                               ELSE IF x = old THEN "deleted" ELSE life[x]]
    /\ socket' = [x \in Sess |-> IF x = old THEN "reset" ELSE socket[x]]
    /\ m_player' = [x \in Sess |-> IF x = old THEN FALSE ELSE m_player[x]]
    /\ players' = [b \in Account |-> IF b = account[s] /\ old # None /\ m_player[old]
                                     THEN players[b] - 1 ELSE players[b]]
    /\ UNCHANGED <<account, m_playerLoading, m_playerLimit, sqlVars, loopVars, abandoned>>

LEMMA AddSessionFacts ==
  ASSUME IInv, AddSession_
  PROVE  \E s \in Sess, old \in Sess \cup {None}, wait \in BOOLEAN : \E rm :
            Adds(s, old, rm, wait)
<1>1. PICK s, old, rm :
         s = Head(addSessQueue) /\ old = m_sessions[account[s]] /\ rm = RemoveOld(old)
  OBVIOUS
<1>2. PICK wait \in BOOLEAN : wait = MustWait(s, rm.found)
  BY DEF MustWait
<1>3. s \in Sess /\ life[s] = "adding" /\ account[s] \in Account
  BY <1>1, NextSessionProps DEF AddSession_
<1>4. /\ old \in Sess \cup {None} /\ old # s
      /\ old # None => life[old] = "listed" /\ account[old] = account[s]
  BY <1>1, <1>3, ConstantsOK DEF IInv, TypeOK, TableOwnsSessions
<1>5. Removed(rm, old) /\ Moved(rm, old)
  BY <1>1, <1>4, QueuesDistinct, RemoveOldProps, RemoveOldMoves DEF IInv, TypeOK
<1>6. PICK r : r = rm.queue
  OBVIOUS
<1>7. /\ r \in Seq(Sess) /\ Distinct(r)
      /\ \A i \in 1 .. Len(r) : life[r[i]] = "listed"
  BY <1>4, <1>5, <1>6, QueueAfterRemove
<1>8. \A i \in 1 .. Len(r) : r[i] # s
  BY <1>3, <1>7
<1>9. Adds(s, old, rm, wait)
  <2>1. old = None => rm = NothingQueued
    BY <1>1 DEF RemoveOld
  <2> QED
    BY <1>1, <1>2, <1>3, <1>4, <1>5, <1>6, <1>7, <1>8, <2>1
    DEF AddSession_, AddQueuedSession, Adds
<1> QED BY <1>3, <1>4, <1>9

\* The same for UpdateDisconnected.
Drops(a, s, rm) ==
    /\ s = m_sessions[a] /\ life[s] = "listed" /\ account[s] = a
    /\ socket[s] # "open" /\ a \in todo
    /\ Removed(rm, s) /\ Moved(rm, s)
    /\ rm.queue \in Seq(Sess) /\ Distinct(rm.queue)
    /\ m_QueuedSessions' = rm.queue
    /\ m_inQueue' = FlagsAfter(rm, s)
    /\ told' = rm.told
    /\ socket' = [socket EXCEPT ![s] = "reset"]
    /\ life' = [life EXCEPT ![s] = "deleted"]
    /\ m_player' = [m_player EXCEPT ![s] = FALSE]
    /\ players' = IF m_player[s] THEN [players EXCEPT ![a] = @ - 1] ELSE players
    /\ abandoned' = IF m_playerLoading[s] THEN abandoned \cup {a} ELSE abandoned
    /\ m_sessions' = [m_sessions EXCEPT ![a] = None]
    /\ todo' = todo \ {a}
    /\ UNCHANGED <<account, m_playerLoading, m_playerLimit, sqlVars, phase>>

LEMMA UpdateDisconnectedFacts ==
  ASSUME IInv, NEW a \in Account, UpdateDisconnected(a)
  PROVE  \E s \in Sess : \E rm : Drops(a, s, rm)
<1>1. PICK s, rm : s = m_sessions[a] /\ rm = RemoveQueuedSession(s)
  OBVIOUS
<1>2. s \in Sess /\ life[s] = "listed" /\ account[s] = a
  BY <1>1, ConstantsOK DEF UpdateDisconnected, IInv, TypeOK, TodoListed, TableOwnsSessions
<1>3. Removed(rm, s) /\ Moved(rm, s)
  BY <1>1, <1>2, QueuesDistinct, RemoveProps, RemoveMoves DEF IInv, TypeOK
<1>4. rm.queue \in Seq(Sess) /\ Distinct(rm.queue)
  BY <1>3 DEF Removed, Keeps
<1>5. Drops(a, s, rm)
  BY <1>1, <1>2, <1>3, <1>4
  DEF UpdateDisconnected, HasSocket, Destroy, LogoutPlayer, EraseSession, Drops
<1> QED BY <1>2, <1>5

-----------------------------------------------------------------------------
(* Clients are told their places                                               *)

\* Who is queued after a removal was told his place, and nobody else any place.
ToldAfter(rm, old) ==
    /\ \A i \in 1 .. Len(rm.queue) : rm.queue[i] \in Sess /\ rm.told[rm.queue[i]] = i
    /\ \A x \in Sess : life[x] = "listed" /\ x # old /\ ~FlagsAfter(rm, old)[x] =>
          rm.told[x] = 0

LEMMA ToldAfterRemove ==
  ASSUME IInv, PositionsTold, NEW old \in Sess \cup {None}, NEW rm,
         Removed(rm, old), Moved(rm, old)
  PROVE  ToldAfter(rm, old)
<1>1. PICK q, r : q = m_QueuedSessions /\ r = rm.queue
  OBVIOUS
<1>2. /\ q \in Seq(Sess) /\ Distinct(q) /\ Len(q) \in Nat /\ DOMAIN q = 1 .. Len(q)
      /\ r \in Seq(Sess) /\ Distinct(r)
      /\ m_inQueue \in [Sess -> BOOLEAN]
  BY <1>1, QueuesDistinct, LenProperties DEF IInv, TypeOK, Removed, Keeps
<1>3. \A x \in Sess : /\ GetQueuedSessionPos(q, x) \in 0 .. Len(q)
                      /\ GetQueuedSessionPos(q, x) # 0 => q[GetQueuedSessionPos(q, x)] = x
  BY <1>2, PosProps
<1>4. /\ \A x \in Sess : GetQueuedSessionPos(q, x) = 0 => GetQueuedSessionPos(r, x) = 0
      /\ \A x \in Sess :
            /\ x = rm.popped => rm.told[x] = 0
            /\ x # rm.popped /\ GetQueuedSessionPos(r, x) = 0 => rm.told[x] = told[x]
            /\ GetQueuedSessionPos(r, x) # 0 /\ told[x] = GetQueuedSessionPos(q, x) =>
                  rm.told[x] = GetQueuedSessionPos(r, x)
  BY <1>1 DEF Moved
<1>5. ASSUME NEW i \in 1 .. Len(r) PROVE r[i] \in Sess /\ rm.told[r[i]] = i
  <2>1. PICK x \in Sess : x = r[i]
    BY <1>2, ElementOfSeq
  <2>2. GetQueuedSessionPos(r, x) = i /\ i # 0
    BY <1>2, <2>1, PosAt
  <2>3. PICK p : p = GetQueuedSessionPos(q, x)
    OBVIOUS
  <2>4. p \in 1 .. Len(q) /\ q[p] = x
    <3>1. p # 0
      BY <1>4, <2>2, <2>3
    <3>2. p \in 0 .. Len(q) /\ (p # 0 => q[p] = x)
      BY <1>3, <2>3
    <3> QED BY <1>2, <3>1, <3>2
  <2>5. told[x] = p
    BY <1>1, <1>2, <2>4 DEF PositionsTold
  <2> QED BY <1>4, <2>1, <2>2, <2>3, <2>5
<1>6. ASSUME NEW x \in Sess, life[x] = "listed", x # old, ~FlagsAfter(rm, old)[x],
             x # rm.popped
      PROVE  rm.told[x] = 0
  <2>1. ~m_inQueue[x]
    BY <1>2, <1>6, FlagsProps
  <2>2. told[x] = 0
    BY <1>6, <2>1 DEF PositionsTold
  <2>3. \A i \in 1 .. Len(q) : q[i] # x
    BY <1>1, <1>2, <2>1 DEF IInv, QueueFlagsAgree
  <2>4. GetQueuedSessionPos(q, x) = 0
    BY <1>2, <1>3, <2>3
  <2> QED BY <1>4, <1>6, <2>2, <2>4
<1> QED BY <1>1, <1>4, <1>5, <1>6 DEF ToldAfter

LEMMA PositionsStep ==
  ASSUME IInv, PositionsTold, [Next]_vars
  PROVE  PositionsTold'
<1> USE DEF sessVars, queueVars, worldVars, sqlVars, loopVars
<1>1. /\ m_QueuedSessions \in Seq(Sess) /\ life \in [Sess -> Life]
      /\ DOMAIN m_QueuedSessions = 1 .. Len(m_QueuedSessions)
  BY LenProperties DEF IInv, TypeOK
<1>2. ASSUME UNCHANGED <<m_QueuedSessions, m_inQueue, told>>,
             \A x \in Sess : life'[x] = "listed" => life[x] = "listed"
      PROVE  PositionsTold'
  BY <1>2 DEF PositionsTold
<1>3. CASE AddSession_
  <2>1. PICK s \in Sess, old \in Sess \cup {None}, wait \in BOOLEAN : \E rm :
            Adds(s, old, rm, wait)
    BY <1>3, AddSessionFacts
  <2>2. PICK rm : Adds(s, old, rm, wait)
    BY <2>1
  <2>3. PICK r, q : r = rm.queue /\ q = m_QueuedSessions'
    OBVIOUS
  <2>4. /\ q = IF wait THEN Append(r, s) ELSE r
        /\ r \in Seq(Sess) /\ Distinct(r) /\ \A i \in 1 .. Len(r) : r[i] # s
        /\ m_inQueue' = [FlagsAfter(rm, old) EXCEPT ![s] = wait]
        /\ told' = [rm.told EXCEPT ![s] = GetQueuedSessionPos(q, s)]
        /\ life' = [x \in Sess |-> IF x = s THEN "listed"
                                   ELSE IF x = old THEN "deleted" ELSE life[x]]
        /\ Removed(rm, old) /\ Moved(rm, old)
        /\ rm.told \in [Sess -> Int]
        /\ FlagsAfter(rm, old) \in [Sess -> BOOLEAN]
    <3>1. Removed(rm, old) /\ Moved(rm, old)
      BY <2>2 DEF Adds
    <3>2. rm.told \in [Sess -> Int] /\ FlagsAfter(rm, old) \in [Sess -> BOOLEAN]
      BY <3>1, FlagsProps DEF Removed, IInv, TypeOK
    <3> QED BY <2>2, <2>3, <3>1, <3>2 DEF Adds
  <2>5. /\ \A i \in 1 .. Len(r) : r[i] \in Sess /\ rm.told[r[i]] = i
        /\ \A x \in Sess : life[x] = "listed" /\ x # old /\ ~FlagsAfter(rm, old)[x] =>
              rm.told[x] = 0
    <3>1. /\ \A i \in 1 .. Len(rm.queue) :
                rm.queue[i] \in Sess /\ rm.told[rm.queue[i]] = i
          /\ \A x \in Sess : life[x] = "listed" /\ x # old /\ ~FlagsAfter(rm, old)[x] =>
                rm.told[x] = 0
      <4>1. Removed(rm, old) /\ Moved(rm, old)
        BY <2>4
      <4>2. ToldAfter(rm, old)
        BY <4>1, ToldAfterRemove
      <4> QED BY <4>2 DEF ToldAfter
    <3> QED BY <2>3, <3>1
  <2>6. /\ Len(r) \in Nat /\ DOMAIN q = 1 .. Len(q) /\ Len(q) \in Nat
        /\ \A x \in Sess : x # s => told'[x] = rm.told[x]
        /\ told'[s] = GetQueuedSessionPos(q, s)
    BY <2>4, AppendProperties, LenProperties
  <2>7. \A i \in DOMAIN q : told'[q[i]] = i
    <3>1. CASE wait
      <4>1. GetQueuedSessionPos(Append(r, s), s) = Len(r) + 1
        BY <2>4, PosAppend
      <4>2. /\ Len(q) = Len(r) + 1 /\ q[Len(r) + 1] = s
            /\ \A i \in 1 .. Len(r) : q[i] = r[i]
        BY <2>4, <3>1, AppendProperties
      <4>3. \A i \in DOMAIN q : i \in 1 .. Len(r) \/ i = Len(r) + 1
        BY <2>6, <4>2
      <4> QED BY <2>4, <2>5, <2>6, <3>1, <4>1, <4>2, <4>3
    <3>2. CASE ~wait
      BY <2>4, <2>5, <2>6, <3>2
    <3> QED BY <3>1, <3>2
  <2>8. ASSUME NEW x \in Sess, life'[x] = "listed", ~m_inQueue'[x]
        PROVE  told'[x] = 0
    <3>1. CASE x = s
      <4>1. ~wait /\ q = r
        BY <2>4, <2>8, <3>1
      <4>2. GetQueuedSessionPos(r, s) = 0
        <5>1. PICK k : k = GetQueuedSessionPos(r, s)
          OBVIOUS
        <5>2. k \in 0 .. Len(r) /\ (k # 0 => r[k] = s)
          BY <2>4, <5>1, PosProps
        <5> QED BY <2>4, <2>6, <5>1, <5>2
      <4> QED BY <2>6, <3>1, <4>1, <4>2
    <3>2. CASE x # s
      BY <2>4, <2>5, <2>6, <2>8, <3>2
    <3> QED BY <3>1, <3>2
  <2> QED BY <2>3, <2>7, <2>8 DEF PositionsTold
<1>4. ASSUME NEW a \in Account, UpdateDisconnected(a) PROVE PositionsTold'
  <2>1. PICK s \in Sess : \E rm : Drops(a, s, rm)
    BY <1>4, UpdateDisconnectedFacts
  <2>2. PICK rm : Drops(a, s, rm)
    BY <2>1
  <2>3. PICK r : r = rm.queue
    OBVIOUS
  <2>4. /\ r \in Seq(Sess) /\ DOMAIN r = 1 .. Len(r)
        /\ m_QueuedSessions' = r /\ m_inQueue' = FlagsAfter(rm, s) /\ told' = rm.told
        /\ life' = [life EXCEPT ![s] = "deleted"]
        /\ Removed(rm, s) /\ Moved(rm, s)
    BY <2>2, <2>3, LenProperties DEF Drops
  <2>5. /\ \A i \in 1 .. Len(r) : r[i] \in Sess /\ rm.told[r[i]] = i
        /\ \A x \in Sess : life[x] = "listed" /\ x # s /\ ~FlagsAfter(rm, s)[x] =>
              rm.told[x] = 0
    BY <2>3, <2>4, ToldAfterRemove DEF ToldAfter
  <2>6. \A x \in Sess : life'[x] = "listed" => life[x] = "listed" /\ x # s
    BY <1>1, <2>4
  <2> QED BY <2>4, <2>5, <2>6 DEF PositionsTold
<1>5. CASE CleanupsBeforeStop
  <2>1. m_QueuedSessions' = << >> /\ UNCHANGED <<life, m_inQueue, told>>
    BY <1>5 DEF CleanupsBeforeStop, KickAll
  <2> QED BY <2>1 DEF PositionsTold
<1>6. ASSUME NEW s \in Sess, \/ \E a \in Account : HandleAuthSession(s, a)
                             \/ AddSessionLock(s) \/ AddSessionUnlock(s) \/ Disconnect(s)
      PROVE  PositionsTold'
  BY <1>1, <1>2, <1>6 DEF HandleAuthSession, AddSessionLock, AddSessionUnlock, Disconnect, Life
<1>7. CASE AddSession_Refuse
  BY <1>1, <1>2, <1>7 DEF AddSession_Refuse, Destroy
<1>8. ASSUME NEW a \in Account,
             \/ HandlePlayerLoginOpcode(a) \/ HandleLogoutRequestOpcode(a)
             \/ UpdateConnected(a) \/ KickCommand(a)
      PROVE  PositionsTold'
  BY <1>2, <1>8
  DEF HandlePlayerLoginOpcode, HandleLogoutRequestOpcode, UpdateConnected, KickCommand
<1>9. CASE \/ EndAdd \/ EndUpdate \/ MapUpdate \/ LoginCallbackNoSession
           \/ HandlePlayerLogin \/ EndResults \/ EndCli \/ SqlExecute
           \/ \E l \in PLimits : HandleServerPLimitCommand(l)
           \/ UNCHANGED vars
  BY <1>2, <1>9
  DEF EndAdd, EndUpdate, MapUpdate, LoginCallbackNoSession, HandlePlayerLogin, EndResults,
      EndCli, SqlExecute, HandleServerPLimitCommand, vars
<1> QED
  BY <1>3, <1>4, <1>5, <1>6, <1>7, <1>8, <1>9, Zenon
  DEF Next, NetworkNext, PacketNext, LoopNext

LEMMA PositionsInit == Init => PositionsTold
  BY DEF Init, PositionsTold

\* Every waiting client was told the place it has, and whoever was let in was told so.
THEOREM PlacesTold == Spec => []PositionsTold
<1>1. IInv /\ PositionsTold /\ [Next]_vars => PositionsTold'
  BY PositionsStep
<1> QED BY <1>1, PositionsInit, Invariance, PTL DEF Spec

-----------------------------------------------------------------------------
(* First in, first out                                                         *)

LEMMA StillQueueKeepsOrder ==
  ASSUME IInv, m_QueuedSessions' = m_QueuedSessions
  PROVE  NobodyOvertakes
BY DEF NobodyOvertakes

LEMMA FIFOStep ==
  ASSUME IInv, [Next]_vars
  PROVE  NobodyOvertakes
<1> USE DEF sessVars, queueVars, worldVars, sqlVars, loopVars
<1>1. PICK q : q = m_QueuedSessions
  OBVIOUS
<1>2. /\ q \in Seq(Sess) /\ Distinct(q) /\ Len(q) \in Nat
      /\ \A i \in 1 .. Len(q) : life[q[i]] = "listed"
      /\ life \in [Sess -> Life]
  BY <1>1, QueuesDistinct, LenProperties DEF IInv, TypeOK, QueuePointersLive
<1>3. CASE AddSession_
  <2>1. PICK s \in Sess, old \in Sess \cup {None}, wait \in BOOLEAN : \E rm :
            Adds(s, old, rm, wait)
    BY <1>3, AddSessionFacts
  <2>2. PICK rm : Adds(s, old, rm, wait)
    BY <2>1
  <2>3. PICK r, new : r = rm.queue /\ new = m_QueuedSessions'
    OBVIOUS
  <2>4. /\ new = IF wait THEN Append(r, s) ELSE r
        /\ r \in Seq(Sess) /\ Distinct(r) /\ \A i \in 1 .. Len(r) : r[i] # s
        /\ Len(r) \in Nat
        /\ old # s /\ (old \in Sess => life'[old] = "deleted")
        /\ life[s] = "adding"
    BY <2>2, <2>3, LenProperties DEF Adds
  <2>5. /\ \A x \in Sess : GetQueuedSessionPos(q, x) = 0 => GetQueuedSessionPos(r, x) = 0
        /\ \A x, y \in Sess :
              (/\ GetQueuedSessionPos(r, x) # 0
               /\ GetQueuedSessionPos(q, y) > GetQueuedSessionPos(q, x)
               /\ y # old) => GetQueuedSessionPos(r, y) > GetQueuedSessionPos(r, x)
    BY <1>1, <2>2, <2>3 DEF Adds, Moved
  <2>6. \A x \in Sess : /\ GetQueuedSessionPos(r, x) \in 0 .. Len(r)
                        /\ GetQueuedSessionPos(q, x) \in 0 .. Len(q)
    BY <1>2, <2>4, PosProps
  <2>7. GetQueuedSessionPos(q, s) = 0
    <3>1. PICK k : k = GetQueuedSessionPos(q, s)
      OBVIOUS
    <3>2. k \in 0 .. Len(q) /\ (k # 0 => q[k] = s)
      BY <1>2, <3>1, PosProps
    <3> QED BY <1>2, <2>4, <3>1, <3>2
  <2>8. \A x \in Sess : GetQueuedSessionPos(new, x) =
              IF wait /\ x = s THEN Len(r) + 1 ELSE GetQueuedSessionPos(r, x)
    <3>1. \A x : GetQueuedSessionPos(Append(r, s), x) =
                     IF x = s THEN Len(r) + 1 ELSE GetQueuedSessionPos(r, x)
      BY <2>4, PosAppend
    <3> QED BY <2>4, <3>1
  <2>9. ASSUME NEW x \in Sess, NEW y \in Sess,
               GetQueuedSessionPos(q, x) # 0, GetQueuedSessionPos(new, x) # 0
        PROVE  /\ GetQueuedSessionPos(q, y) = 0 =>
                     \/ GetQueuedSessionPos(new, y) = 0
                     \/ GetQueuedSessionPos(new, y) > GetQueuedSessionPos(new, x)
               /\ GetQueuedSessionPos(q, y) > GetQueuedSessionPos(q, x) =>
                     \/ GetQueuedSessionPos(new, y) > GetQueuedSessionPos(new, x)
                     \/ life'[y] = "deleted"
    <3>1. /\ x # s /\ GetQueuedSessionPos(new, x) = GetQueuedSessionPos(r, x)
          /\ GetQueuedSessionPos(r, x) \in 0 .. Len(r)
      BY <2>6, <2>7, <2>8, <2>9
    <3>2. CASE y = s
      <4>1. GetQueuedSessionPos(q, y) = 0 /\ GetQueuedSessionPos(r, y) = 0
        BY <2>5, <2>7, <3>2
      <4>2. GetQueuedSessionPos(new, y) = IF wait THEN Len(r) + 1 ELSE 0
        BY <2>8, <3>2, <4>1
      <4>3. GetQueuedSessionPos(q, x) \in Nat /\ GetQueuedSessionPos(q, x) > 0
        BY <1>2, <2>6, <2>9
      <4>4. Len(r) + 1 > GetQueuedSessionPos(new, x)
        BY <2>4, <3>1
      <4> QED BY <4>1, <4>2, <4>3, <4>4
    <3>3. CASE y # s
      <4>1. GetQueuedSessionPos(new, y) = GetQueuedSessionPos(r, y)
        BY <2>8, <3>3
      <4>2. y = old => life'[y] = "deleted"
        BY <2>4
      <4>3. GetQueuedSessionPos(q, y) = 0 => GetQueuedSessionPos(r, y) = 0
        BY <2>5
      <4>4. GetQueuedSessionPos(r, x) # 0
        BY <2>9, <3>1
      <4>5. (GetQueuedSessionPos(q, y) > GetQueuedSessionPos(q, x) /\ y # old) =>
               GetQueuedSessionPos(r, y) > GetQueuedSessionPos(r, x)
        BY <2>5, <4>4
      <4> QED BY <3>1, <4>1, <4>2, <4>3, <4>5
    <3> QED BY <3>2, <3>3
  <2> QED BY <1>1, <2>3, <2>9 DEF NobodyOvertakes
<1>4. ASSUME NEW a \in Account, UpdateDisconnected(a) PROVE NobodyOvertakes
  <2>1. PICK s \in Sess : \E rm : Drops(a, s, rm)
    BY <1>4, UpdateDisconnectedFacts
  <2>2. PICK rm : Drops(a, s, rm)
    BY <2>1
  <2>3. PICK r : r = rm.queue
    OBVIOUS
  <2>4. m_QueuedSessions' = r /\ life'[s] = "deleted"
    BY <1>2, <2>2, <2>3 DEF Drops
  <2>5. /\ \A x \in Sess : GetQueuedSessionPos(q, x) = 0 => GetQueuedSessionPos(r, x) = 0
        /\ \A x, y \in Sess :
              (/\ GetQueuedSessionPos(r, x) # 0
               /\ GetQueuedSessionPos(q, y) > GetQueuedSessionPos(q, x)
               /\ y # s) => GetQueuedSessionPos(r, y) > GetQueuedSessionPos(r, x)
    BY <1>1, <2>2, <2>3 DEF Drops, Moved
  <2> QED BY <1>1, <2>4, <2>5 DEF NobodyOvertakes
<1>5. CASE CleanupsBeforeStop
  <2>1. m_QueuedSessions' = << >>
    BY <1>5 DEF CleanupsBeforeStop, KickAll
  <2>2. \A x : GetQueuedSessionPos(<< >>, x) = 0
    <3>1. << >> \in Seq(Sess) /\ Len(<< >>) = 0
      BY EmptySeq
    <3>2. \A x : GetQueuedSessionPos(<< >>, x) \in 0 .. Len(<< >>)
      BY <3>1, PosProps
    <3> QED BY <3>1, <3>2
  <2> QED BY <2>1, <2>2 DEF NobodyOvertakes
<1>6. ASSUME NEW s \in Sess, \/ \E a \in Account : HandleAuthSession(s, a)
                             \/ AddSessionLock(s) \/ AddSessionUnlock(s) \/ Disconnect(s)
      PROVE  NobodyOvertakes
  BY <1>6, StillQueueKeepsOrder
  DEF HandleAuthSession, AddSessionLock, AddSessionUnlock, Disconnect
<1>7. ASSUME NEW a \in Account,
             \/ HandlePlayerLoginOpcode(a) \/ HandleLogoutRequestOpcode(a)
             \/ UpdateConnected(a) \/ KickCommand(a)
      PROVE  NobodyOvertakes
  BY <1>7, StillQueueKeepsOrder
  DEF HandlePlayerLoginOpcode, HandleLogoutRequestOpcode, UpdateConnected, KickCommand
<1>8. CASE \/ AddSession_Refuse \/ EndAdd \/ EndUpdate \/ MapUpdate
           \/ LoginCallbackNoSession
           \/ HandlePlayerLogin \/ EndResults \/ EndCli \/ SqlExecute
           \/ \E l \in PLimits : HandleServerPLimitCommand(l)
           \/ UNCHANGED vars
  BY <1>8, StillQueueKeepsOrder
  DEF AddSession_Refuse, EndAdd, EndUpdate, MapUpdate, LoginCallbackNoSession,
      HandlePlayerLogin, EndResults, EndCli, SqlExecute, HandleServerPLimitCommand, vars
<1> QED
  BY <1>3, <1>4, <1>5, <1>6, <1>7, <1>8, Zenon
  DEF Next, NetworkNext, PacketNext, LoopNext

\* The login queue is first in, first out: who stays in it is not overtaken, and nobody
\* behind him is let in before him.
THEOREM FirstInFirstOut == Spec => QueueFIFO
<1>1. IInv /\ [Next]_vars => [NobodyOvertakes]_vars
  BY FIFOStep
<1> QED BY <1>1, Invariance, PTL DEF Spec, QueueFIFO

-----------------------------------------------------------------------------
(* The player limit                                                            *)

\* tab maps an account to its session and acc a session to its account: sessions that
\* do not wait and those that wait use different accounts, so there are not more of
\* them than accounts in L.
LEMMA PlacesTaken ==
  ASSUME NEW tab, NEW acc, NEW q \in Seq(Sess), Distinct(q),
         NEW P \in SUBSET Sess, NEW L, IsFiniteSet(L),
         \A x \in P : tab[acc[x]] = x /\ acc[x] \in L,
         \A i \in 1 .. Len(q) : /\ q[i] \notin P
                                /\ tab[acc[q[i]]] = q[i] /\ acc[q[i]] \in L
  PROVE  /\ Cardinality(P) \in Nat /\ Len(q) \in Nat /\ Cardinality(L) \in Nat
         /\ Cardinality(P) + Len(q) <= Cardinality(L)
<1>1. PICK n \in Nat : n = Len(q)
  BY LenProperties
<1>2. PICK W : W = {q[i] : i \in 1 .. n}
  OBVIOUS
<1>3. PICK f : f = [x \in P \cup W |-> acc[x]]
  OBVIOUS
<1>4. f \in Injection(P \cup W, L)
  <2>1. \A x \in P \cup W : tab[acc[x]] = x /\ acc[x] \in L
    BY <1>1, <1>2
  <2>2. f \in [P \cup W -> L] /\ \A x, y \in P \cup W : f[x] = f[y] => x = y
    BY <1>3, <2>1
  <2> QED BY <2>2 DEF Injection, IsInjective
<1>5. /\ IsFiniteSet(P \cup W)
      /\ Cardinality(P \cup W) <= Cardinality(L)
  BY <1>4, FS_Injection
<1>6. IsFiniteSet(P) /\ IsFiniteSet(W)
  BY <1>5, FS_Subset
<1>7. P \cap W = {}
  BY <1>1, <1>2
<1>8. Cardinality(W) = n
  <2>1. PICK g : g = [i \in 1 .. n |-> q[i]]
    OBVIOUS
  <2>2. g \in [1 .. n -> W] /\ \A i, j \in 1 .. n : g[i] = g[j] => i = j
    BY <1>1, <1>2, <2>1 DEF Distinct
  <2>3. \A w \in W : \E i \in 1 .. n : g[i] = w
    BY <1>2, <2>1
  <2>4. g \in Bijection(1 .. n, W)
    BY <2>2, <2>3 DEF Bijection, Injection, Surjection, IsInjective
  <2>5. ExistsBijection(1 .. n, W)
    BY <2>4 DEF ExistsBijection
  <2>6. IsFiniteSet(1 .. n) /\ Cardinality(1 .. n) = n
    <3>1. /\ IsFiniteSet(1 .. n)
          /\ Cardinality(1 .. n) = IF 1 > n THEN 0 ELSE n - 1 + 1
      <4>1. 1 \in Int /\ n \in Int
        BY <1>1
      <4> QED BY <4>1, FS_Interval, Zenon
    <3>2. PICK c : c = Cardinality(1 .. n)
      OBVIOUS
    <3>3. c = n
      BY <1>1, <3>1, <3>2
    <3> QED BY <3>1, <3>2, <3>3, Zenon
  <2> QED BY <2>5, <2>6, FS_Bijection
<1>9. Cardinality(P \cup W) = Cardinality(P) + Cardinality(W) - Cardinality(P \cap W)
  BY <1>6, FS_Union
<1>10. Cardinality(P) \in Nat /\ Cardinality(L) \in Nat /\ Cardinality(P \cap W) = 0
  BY <1>6, <1>7, FS_CardinalityType, FS_EmptySet
<1> QED BY <1>1, <1>5, <1>8, <1>9, <1>10

LEMMA ListedFinite ==
  ASSUME IInv
  PROVE  IsFiniteSet(Listed) /\ Cardinality(Listed) \in Nat
<1>1. IsFiniteSet(Account) /\ Listed \in SUBSET Account
  BY ConstantsOK DEF Listed
<1>2. IsFiniteSet(Listed)
  BY <1>1, FS_Subset
<1> QED BY <1>2, FS_CardinalityType

\* After a step: the active players and the waiting sessions have an account of A each.
LEMMA PlayersFit ==
  ASSUME IInv', NEW A \in SUBSET Account,
         \A x \in ActivePlayers' : account'[x] \in A,
         \A i \in 1 .. Len(m_QueuedSessions') : account'[m_QueuedSessions'[i]] \in A
  PROVE  /\ Cardinality(ActivePlayers') \in Nat /\ Cardinality(A) \in Nat
         /\ Cardinality(ActivePlayers') + Len(m_QueuedSessions') <= Cardinality(A)
<1>1. PICK tab, acc, q, P :
         tab = m_sessions' /\ acc = account' /\ q = m_QueuedSessions' /\ P = ActivePlayers'
  OBVIOUS
<1>2. q \in Seq(Sess) /\ DOMAIN q = 1 .. Len(q)
  BY <1>1, LenProperties DEF IInv, TypeOK
<1>3. /\ \A i \in DOMAIN q : life'[q[i]] = "listed"
      /\ \A i, j \in DOMAIN q : q[i] = q[j] => i = j
      /\ \A x \in Sess : life'[x] = "listed" => tab[acc[x]] = x
  BY <1>1 DEF IInv, QueuePointersLive, TableOwnsSessions
<1>4. Distinct(q) /\ \A i \in 1 .. Len(q) : q[i] \in Sess
  BY <1>2, <1>3, ElementOfSeq DEF Distinct
<1>5. /\ P \in SUBSET Sess
      /\ \A x \in P : life'[x] = "listed" /\ GetQueuedSessionPos(q, x) = 0
  BY <1>1 DEF ActivePlayers
<1>6. \A i \in 1 .. Len(q) : q[i] \notin P
  <2> SUFFICES ASSUME NEW i \in 1 .. Len(q), q[i] \in P PROVE FALSE
    OBVIOUS
  <2>1. GetQueuedSessionPos(q, q[i]) = i /\ i # 0
    BY <1>2, <1>4, PosAt
  <2> QED BY <1>5, <2>1
<1>7. IsFiniteSet(A)
  BY ConstantsOK, FS_Subset
<1>8. /\ \A x \in P : tab[acc[x]] = x /\ acc[x] \in A
      /\ \A i \in 1 .. Len(q) : q[i] \notin P /\ tab[acc[q[i]]] = q[i] /\ acc[q[i]] \in A
  BY <1>1, <1>2, <1>3, <1>4, <1>5, <1>6
<1>9. /\ Cardinality(P) \in Nat /\ Cardinality(A) \in Nat
      /\ Cardinality(P) + Len(q) <= Cardinality(A)
  BY <1>2, <1>4, <1>5, <1>7, <1>8, PlacesTaken
<1> QED BY <1>1, <1>9

\* Only the session that leaves and the one that is let in stop waiting.
LEMMA LetIn ==
  ASSUME IInv, NEW old, NEW rm, Removed(rm, old), NEW x \in Sess,
         GetQueuedSessionPos(m_QueuedSessions, x) # 0,
         GetQueuedSessionPos(rm.queue, x) = 0
  PROVE  x = old \/ x = rm.popped
<1>1. PICK q, r : q = m_QueuedSessions /\ r = rm.queue
  OBVIOUS
<1>2. q \in Seq(Sess) /\ r \in Seq(Sess) /\ Len(q) \in Nat
  BY <1>1, LenProperties DEF IInv, TypeOK, Removed, Keeps
<1>3. PICK p : p = GetQueuedSessionPos(q, x)
  OBVIOUS
<1>4. p \in 0 .. Len(q) /\ p # 0 /\ q[p] = x
  BY <1>1, <1>2, <1>3, PosProps
<1>5. \A i \in 1 .. Len(r) : r[i] # x
  BY <1>1, <1>2, PosProps
<1>6. p \in 1 .. Len(q)
  BY <1>2, <1>4
<1>7. q[p] \in {old, rm.popped} \/ \E i \in 1 .. Len(r) : r[i] = q[p]
  BY <1>1, <1>6 DEF Removed, Keeps
<1> QED BY <1>4, <1>5, <1>7

\* A listed session that does not wait is counted as active.
LEMMA ActiveCounted ==
  ASSUME IInv, NEW s \in Sess, life[s] = "listed",
         \A i \in 1 .. Len(m_QueuedSessions) : m_QueuedSessions[i] # s
  PROVE  Len(m_QueuedSessions) + 1 <= Cardinality(Listed)
<1>1. PICK tab, acc, q, P, L :
         /\ tab = m_sessions /\ acc = account /\ q = m_QueuedSessions
         /\ P = {s} /\ L = Listed
  OBVIOUS
<1>2. q \in Seq(Sess) /\ Distinct(q) /\ DOMAIN q = 1 .. Len(q) /\ IsFiniteSet(L)
  BY <1>1, LenProperties, QueuesDistinct, ListedFinite DEF IInv, TypeOK
<1>3. \A x \in Sess : life[x] = "listed" => tab[acc[x]] = x /\ acc[x] \in L
  BY <1>1, ConstantsOK DEF IInv, TableOwnsSessions, SessionStages, Listed
<1>4. \A i \in 1 .. Len(q) : q[i] \in Sess /\ life[q[i]] = "listed" /\ q[i] # s
  BY <1>1, <1>2, ElementOfSeq DEF IInv, QueuePointersLive
<1>5. P \in SUBSET Sess /\ \A x \in P : tab[acc[x]] = x /\ acc[x] \in L
  BY <1>1, <1>3
<1>6. \A i \in 1 .. Len(q) : /\ q[i] \notin P
                            /\ tab[acc[q[i]]] = q[i] /\ acc[q[i]] \in L
  BY <1>1, <1>3, <1>4
<1>7. /\ Cardinality(P) \in Nat /\ Len(q) \in Nat /\ Cardinality(L) \in Nat
      /\ Cardinality(P) + Len(q) <= Cardinality(L)
  BY <1>2, <1>5, <1>6, PlacesTaken
<1>8. Cardinality(P) = 1
  BY <1>1, FS_Singleton
<1> QED BY <1>1, <1>7, <1>8

\* How RemoveQueuedSession counts: n sessions are listed, k wait, r still wait after it.
Counts(rm, n, k, r, lim) ==
    /\ n \in Nat /\ k \in Nat /\ r \in Nat /\ lim \in Int /\ rm.found \in BOOLEAN
    /\ rm.found => k >= 1 /\ r = k - 1 - (IF rm.popped # None THEN 1 ELSE 0)
    /\ ~rm.found => n - k >= 1 /\ r = k - (IF rm.popped # None THEN 1 ELSE 0)
    /\ lim > 0 /\ rm.popped # None =>
          n - k - (IF rm.found THEN 0 ELSE 1) < lim
    /\ lim > 0 /\ rm.popped = None /\ r > 0 =>
          n - k - (IF rm.found THEN 0 ELSE 1) >= lim

LEMMA RemoveCounts ==
  ASSUME IInv, NEW s \in Sess, life[s] = "listed",
         NEW rm, Removed(rm, s), Moved(rm, s),
         NEW n, NEW k, NEW r, NEW lim,
         n = Cardinality(Listed), k = Len(m_QueuedSessions), r = Len(rm.queue),
         lim = m_playerLimit
  PROVE  Counts(rm, n, k, r, lim)
<1> USE DEF Counts
<1>1. PICK q : q = m_QueuedSessions
  OBVIOUS
<1>2. /\ q \in Seq(Sess) /\ k = Len(q) /\ k \in Nat /\ Distinct(q) /\ DOMAIN q = 1 .. Len(q)
      /\ rm.queue \in Seq(Sess) /\ r \in Nat
      /\ n \in Nat /\ lim \in Int /\ IsFiniteSet(Listed)
  BY <1>1, LenProperties, QueuesDistinct, ListedFinite DEF IInv, TypeOK, Removed, Keeps
<1>3. /\ rm.found \in BOOLEAN
      /\ rm.found <=> \E j \in 1 .. Len(q) : q[j] = s
  BY <1>1 DEF Removed
<1>4. r = k - (IF rm.found THEN 1 ELSE 0) - (IF rm.popped # None THEN 1 ELSE 0)
  BY <1>1, <1>2 DEF Moved
<1>5. rm.found => k >= 1
  BY <1>2, <1>3
<1>6. ~rm.found => n - k >= 1
  <2> SUFFICES ASSUME ~rm.found PROVE n - k >= 1
    OBVIOUS
  <2>1. \A i \in 1 .. Len(m_QueuedSessions) : m_QueuedSessions[i] # s
    BY <1>1, <1>3
  <2>2. Len(m_QueuedSessions) + 1 <= Cardinality(Listed)
    BY <2>1, ActiveCounted
  <2> QED BY <1>2, <2>2
<1>7. GetActiveSessionCount = n - k
  BY DEF GetActiveSessionCount, GetActiveAndQueuedSessionCount
<1>8. ActiveWithout(rm.found) = n - k - (IF rm.found THEN 0 ELSE 1)
  BY <1>2, <1>3, <1>6, <1>7 DEF ActiveWithout
<1>9. /\ rm.popped # None => HasPlace(ActiveWithout(rm.found))
      /\ rm.popped = None /\ rm.queue # << >> => ~HasPlace(ActiveWithout(rm.found))
  BY ConstantsOK DEF Moved
<1>10. r > 0 => rm.queue # << >>
  BY <1>2, EmptySeq
<1>11. PICK w : w = n - k - (IF rm.found THEN 0 ELSE 1)
  OBVIOUS
<1>12. w \in Int /\ (HasPlace(w) <=> lim = 0 \/ w < lim)
  BY <1>2, <1>11 DEF HasPlace
<1>13. /\ lim > 0 /\ rm.popped # None => w < lim
       /\ lim > 0 /\ rm.popped = None /\ r > 0 => ~(w < lim)
  <2>1. HasPlace(ActiveWithout(rm.found)) <=> lim = 0 \/ w < lim
    BY <1>8, <1>11, <1>12
  <2> QED BY <1>2, <1>9, <1>10, <2>1
<1>14. CASE rm.found
  <2>1. w = n - k /\ r = k - 1 - (IF rm.popped # None THEN 1 ELSE 0)
    BY <1>2, <1>4, <1>11, <1>14
  <2> QED BY <1>2, <1>3, <1>5, <1>12, <1>13, <1>14, <2>1
<1>15. CASE ~rm.found
  <2>1. w = n - k - 1 /\ r = k - (IF rm.popped # None THEN 1 ELSE 0)
    BY <1>2, <1>4, <1>11, <1>15
  <2> QED BY <1>2, <1>3, <1>6, <1>12, <1>13, <1>15, <2>1
<1> QED BY <1>14, <1>15

\* A disconnected session leaves its place, which goes to the first one that waits.
LEMMA LimitDrop ==
  ASSUME IInv, IInv', NEW a \in Account, UpdateDisconnected(a)
  PROVE  LimitKept
<1>1. PICK s \in Sess : \E rm : Drops(a, s, rm)
  BY UpdateDisconnectedFacts
<1>2. PICK rm : Drops(a, s, rm)
  BY <1>1
<1>3. PICK n, k, r, lim, L, new :
         /\ n = Cardinality(Listed) /\ k = Len(m_QueuedSessions) /\ r = Len(rm.queue)
         /\ lim = m_playerLimit /\ L = Listed' /\ new = rm.queue
  OBVIOUS
<1>4. /\ s = m_sessions[a] /\ life[s] = "listed" /\ account[s] = a
      /\ Removed(rm, s) /\ Moved(rm, s) /\ new \in Seq(Sess)
      /\ m_QueuedSessions' = new /\ m_playerLimit' = m_playerLimit /\ account' = account
      /\ life' = [life EXCEPT ![s] = "deleted"]
      /\ m_sessions' = [m_sessions EXCEPT ![a] = None]
  BY <1>2, <1>3 DEF Drops
<1>5. /\ n \in Nat /\ k \in Nat /\ r \in Nat /\ lim \in Int /\ rm.found \in BOOLEAN
      /\ rm.found => k >= 1 /\ r = k - 1 - (IF rm.popped # None THEN 1 ELSE 0)
      /\ ~rm.found => n - k >= 1 /\ r = k - (IF rm.popped # None THEN 1 ELSE 0)
      /\ lim > 0 /\ rm.popped # None => n - k - (IF rm.found THEN 0 ELSE 1) < lim
      /\ lim > 0 /\ rm.popped = None /\ r > 0 =>
            n - k - (IF rm.found THEN 0 ELSE 1) >= lim
  <2>1. /\ s \in Sess /\ life[s] = "listed" /\ Removed(rm, s) /\ Moved(rm, s)
        /\ n = Cardinality(Listed) /\ k = Len(m_QueuedSessions) /\ r = Len(rm.queue)
        /\ lim = m_playerLimit
    BY <1>3, <1>4
  <2>2. Counts(rm, n, k, r, lim)
    BY <2>1, RemoveCounts
  <2> QED BY <2>2 DEF Counts
<1>6. L = Listed \ {a} /\ a \in Listed
  BY <1>3, <1>4, ConstantsOK DEF Listed, IInv, TypeOK
<1>7. Cardinality(L) = n - 1
  BY <1>3, <1>6, ListedFinite, FS_RemoveElement
<1>8. NoPlaceUnused => NoPlaceUnused'
  <2>1. k > 0 <=> m_QueuedSessions # << >>
    <3>1. m_QueuedSessions \in Seq(Sess)
      BY DEF IInv, TypeOK
    <3> QED BY <1>3, <3>1, NotEmpty
  <2>2. r > 0 <=> m_QueuedSessions' # << >>
    BY <1>3, <1>4, NotEmpty
  <2>3. NoPlaceUnused <=> (lim > 0 /\ k > 0 => n - k >= lim)
    BY <1>3, <2>1
    DEF NoPlaceUnused, GetActiveSessionCount, GetActiveAndQueuedSessionCount
  <2>4. NoPlaceUnused' <=> (lim > 0 /\ r > 0 => n - 1 - r >= lim)
    BY <1>3, <1>4, <1>7, <2>2
    DEF NoPlaceUnused, GetActiveSessionCount, GetActiveAndQueuedSessionCount
  <2>5. (lim > 0 /\ k > 0 => n - k >= lim) => (lim > 0 /\ r > 0 => n - 1 - r >= lim)
    <3>1. CASE rm.found
      BY <1>5, <3>1
    <3>2. CASE ~rm.found
      BY <1>5, <3>2
    <3> QED BY <3>1, <3>2
  <2> QED BY <2>3, <2>4, <2>5
<1>9. ASSUME NEW x \in ActivePlayers' \ ActivePlayers, lim > 0
      PROVE  Cardinality(ActivePlayers') <= lim
  <2>1. rm.popped # None
    <3>1. /\ x \in Sess /\ x # s /\ life[x] = "listed"
          /\ GetQueuedSessionPos(new, x) = 0
          /\ GetQueuedSessionPos(m_QueuedSessions, x) # 0
      BY <1>4, <1>9 DEF ActivePlayers, IInv, TypeOK
    <3> QED BY <1>3, <1>4, <3>1, LetIn, ConstantsOK
  <2>2. \A y \in Sess : life'[y] = "listed" => account'[y] \in L
    BY <1>3, ConstantsOK DEF IInv, TableOwnsSessions, SessionStages, Listed
  <2>3. \A y \in ActivePlayers' : account'[y] \in L
    BY <2>2 DEF ActivePlayers
  <2>4. \A i \in 1 .. Len(m_QueuedSessions') : account'[m_QueuedSessions'[i]] \in L
    <3>1. \A i \in 1 .. Len(new) : new[i] \in Sess /\ life'[new[i]] = "listed"
      BY <1>4, ElementOfSeq, LenProperties DEF IInv, QueuePointersLive
    <3> QED BY <1>4, <2>2, <3>1
  <2>5. /\ Cardinality(ActivePlayers') \in Nat /\ Cardinality(L) \in Nat
        /\ Cardinality(ActivePlayers') + Len(m_QueuedSessions') <= Cardinality(L)
    <3>1. L \in SUBSET Account
      BY <1>3 DEF Listed
    <3> QED BY <2>3, <2>4, <3>1, PlayersFit
  <2>6. PICK c : c = Cardinality(ActivePlayers')
    OBVIOUS
  <2>7. c \in Nat /\ c + r <= n - 1
    BY <1>3, <1>4, <1>7, <2>5, <2>6
  <2>8. CASE rm.found
    BY <1>5, <1>9, <2>1, <2>6, <2>7, <2>8
  <2>9. CASE ~rm.found
    BY <1>5, <1>9, <2>1, <2>6, <2>7, <2>9
  <2> QED BY <2>8, <2>9
<1> QED BY <1>3, <1>8, <1>9 DEF LimitKept

\* AddSession_: the old session's place and the limit decide who is let in.
LEMMA LimitAdd ==
  ASSUME IInv, IInv', AddSession_
  PROVE  LimitKept
<1>1. PICK s \in Sess, old \in Sess \cup {None}, wait \in BOOLEAN : \E rm :
          Adds(s, old, rm, wait)
  BY AddSessionFacts
<1>2. PICK rm : Adds(s, old, rm, wait)
  BY <1>1
<1>3. PICK a, n, k, r, lim, L, q, new :
         /\ a = account[s] /\ n = Cardinality(Listed) /\ k = Len(m_QueuedSessions)
         /\ r = Len(rm.queue) /\ lim = m_playerLimit /\ L = Listed'
         /\ q = rm.queue /\ new = m_QueuedSessions'
  OBVIOUS
<1>4. /\ life[s] = "adding" /\ a \in Account /\ old = m_sessions[a] /\ old # s
      /\ old # None => life[old] = "listed" /\ account[old] = a
      /\ Removed(rm, old) /\ Moved(rm, old) /\ q \in Seq(Sess) /\ Distinct(q)
      /\ \A i \in 1 .. Len(q) : q[i] # s
      /\ old = None => rm = NothingQueued
      /\ wait = MustWait(s, rm.found)
      /\ m_sessions' = [m_sessions EXCEPT ![a] = s]
      /\ new = IF wait THEN Append(q, s) ELSE q
      /\ life' = [x \in Sess |-> IF x = s THEN "listed"
                                 ELSE IF x = old THEN "deleted" ELSE life[x]]
      /\ account' = account /\ m_playerLimit' = m_playerLimit
  BY <1>2, <1>3 DEF Adds
<1>5. /\ n \in Nat /\ k \in Nat /\ r \in Nat /\ lim \in Int /\ rm.found \in BOOLEAN
      /\ k = Len(m_QueuedSessions) /\ m_QueuedSessions \in Seq(Sess)
  BY <1>3, <1>4, ListedFinite, LenProperties DEF Removed, IInv, TypeOK
<1>6. old = None => ~rm.found /\ rm.popped = None /\ r = k
  BY <1>3, <1>4 DEF NothingQueued
<1>7. old # None =>
         /\ rm.found => k >= 1 /\ r = k - 1 - (IF rm.popped # None THEN 1 ELSE 0)
         /\ ~rm.found => n - k >= 1 /\ r = k - (IF rm.popped # None THEN 1 ELSE 0)
         /\ lim > 0 /\ rm.popped # None => n - k - (IF rm.found THEN 0 ELSE 1) < lim
         /\ lim > 0 /\ rm.popped = None /\ r > 0 =>
               n - k - (IF rm.found THEN 0 ELSE 1) >= lim
  <2> SUFFICES ASSUME old # None
      PROVE /\ rm.found => k >= 1 /\ r = k - 1 - (IF rm.popped # None THEN 1 ELSE 0)
            /\ ~rm.found => n - k >= 1 /\ r = k - (IF rm.popped # None THEN 1 ELSE 0)
            /\ lim > 0 /\ rm.popped # None => n - k - (IF rm.found THEN 0 ELSE 1) < lim
            /\ lim > 0 /\ rm.popped = None /\ r > 0 =>
                  n - k - (IF rm.found THEN 0 ELSE 1) >= lim
    OBVIOUS
  <2>1. old \in Sess /\ life[old] = "listed" /\ Removed(rm, old) /\ Moved(rm, old)
    BY <1>4
  <2>2. /\ n = Cardinality(Listed) /\ k = Len(m_QueuedSessions) /\ r = Len(rm.queue)
        /\ lim = m_playerLimit
    BY <1>3
  <2>3. Counts(rm, n, k, r, lim)
    BY <2>1, <2>2, RemoveCounts
  <2> QED BY <2>3 DEF Counts
<1>8. PICK size : size = IF old = None THEN n + 1 ELSE n
  OBVIOUS
<1>9. L = Listed \cup {a} /\ (old = None <=> a \notin Listed)
  <2>1. \A b \in Account : m_sessions'[b] = IF b = a THEN s ELSE m_sessions[b]
    BY <1>4 DEF IInv, TypeOK
  <2>2. s # None
    BY ConstantsOK
  <2>3. \A b : b \in L <=> b \in Account /\ m_sessions'[b] # None
    BY <1>3 DEF Listed
  <2>4. \A b : b \in Listed <=> b \in Account /\ m_sessions[b] # None
    BY DEF Listed
  <2> QED BY <1>4, <2>1, <2>2, <2>3, <2>4
<1>10. Cardinality(L) = size /\ size \in Nat
  <2>1. IsFiniteSet(Listed)
    BY ListedFinite
  <2>2. Cardinality(Listed \cup {a}) =
           IF a \in Listed THEN Cardinality(Listed) ELSE Cardinality(Listed) + 1
    BY <2>1, FS_AddElement
  <2> QED BY <1>3, <1>5, <1>8, <1>9, <2>2
<1>11. wait <=> /\ lim > 0
                /\ (IF rm.found THEN size ELSE size - 1) >= lim
                /\ Security[a] = SEC_PLAYER
  <2>1. GetPlayerAmountLimit(lim) = IF lim >= 0 THEN lim ELSE 0
    BY DEF GetPlayerAmountLimit
  <2>2. Cardinality(Listed \cup {account[s]}) = size
    BY <1>3, <1>9, <1>10
  <2> QED BY <1>3, <1>4, <1>5, <2>1, <2>2 DEF MustWait
<1>12. Len(new) = (IF wait THEN r + 1 ELSE r) /\ new \in Seq(Sess)
  BY <1>1, <1>3, <1>4, AppendProperties
<1>13. NoPlaceUnused => NoPlaceUnused'
  <2>1. PICK z : z = Len(new)
    OBVIOUS
  <2>2. k > 0 <=> m_QueuedSessions # << >>
    BY <1>5, EmptySeq, LenProperties
  <2>3. z \in Nat /\ (z > 0 <=> m_QueuedSessions' # << >>)
    BY <1>3, <1>12, <2>1, EmptySeq, LenProperties
  <2>4. NoPlaceUnused <=> (lim > 0 /\ k > 0 => n - k >= lim)
    BY <1>3, <2>2
    DEF NoPlaceUnused, GetActiveSessionCount, GetActiveAndQueuedSessionCount
  <2>5. NoPlaceUnused' <=> (lim > 0 /\ z > 0 => size - z >= lim)
    BY <1>3, <1>4, <1>10, <2>1, <2>3
    DEF NoPlaceUnused, GetActiveSessionCount, GetActiveAndQueuedSessionCount
  <2>6. ASSUME lim > 0 /\ k > 0 => n - k >= lim, lim > 0, z > 0 PROVE size - z >= lim
    <3>1. CASE old = None
      BY <1>5, <1>6, <1>8, <1>11, <1>12, <2>1, <2>6, <3>1
    <3>2. CASE old # None /\ rm.found
      BY <1>5, <1>7, <1>8, <1>11, <1>12, <2>1, <2>6, <3>2
    <3>3. CASE old # None /\ ~rm.found
      BY <1>5, <1>7, <1>8, <1>11, <1>12, <2>1, <2>6, <3>3
    <3> QED BY <3>1, <3>2, <3>3
  <2> QED BY <2>4, <2>5, <2>6
<1>14. ASSUME NEW x \in ActivePlayers' \ ActivePlayers, lim > 0
       PROVE  Cardinality(ActivePlayers') <= lim
  <2>1. \A y \in Sess : life'[y] = "listed" => account'[y] \in L /\ m_sessions'[account'[y]] = y
    BY <1>3, ConstantsOK DEF IInv, TableOwnsSessions, SessionStages, Listed
  <2>2. \A i \in 1 .. Len(new) : new[i] \in Sess /\ life'[new[i]] = "listed"
    BY <1>3, <1>12, ElementOfSeq, LenProperties DEF IInv, QueuePointersLive
  <2>3. L \in SUBSET Account /\ IsFiniteSet(L)
    BY <1>3, ConstantsOK, FS_Subset DEF Listed
  <2>4. PICK c, z : c = Cardinality(ActivePlayers') /\ z = Len(new)
    OBVIOUS
  <2>5. c \in Nat /\ c + z <= size
    <3>1. \A y \in ActivePlayers' : account'[y] \in L
      BY <2>1 DEF ActivePlayers
    <3>2. \A i \in 1 .. Len(m_QueuedSessions') : account'[m_QueuedSessions'[i]] \in L
      BY <1>3, <2>1, <2>2
    <3>3. /\ Cardinality(ActivePlayers') \in Nat /\ Cardinality(L) \in Nat
          /\ Cardinality(ActivePlayers') + Len(m_QueuedSessions') <= Cardinality(L)
      BY <2>3, <3>1, <3>2, PlayersFit
    <3> QED BY <1>3, <1>10, <2>4, <3>3
  <2>6. (~wait /\ Security[a] # SEC_PLAYER) => c + z <= size - 1
    <3> SUFFICES ASSUME ~wait, Security[a] # SEC_PLAYER PROVE c + z <= size - 1
      OBVIOUS
    <3>1. PICK A : A = L \ {a}
      OBVIOUS
    <3>2. \A y \in ActivePlayers' : account'[y] \in A
      BY <2>1, <3>1 DEF ActivePlayers
    <3>3. \A i \in 1 .. Len(m_QueuedSessions') : account'[m_QueuedSessions'[i]] \in A
      <4>1. \A i \in 1 .. Len(new) : new[i] # s
        BY <1>4
      <4>2. \A y \in Sess : life'[y] = "listed" /\ account'[y] = a => y = s
        BY <1>4, <2>1, ConstantsOK DEF IInv, TypeOK
      <4> QED BY <1>3, <2>1, <2>2, <3>1, <4>1, <4>2
    <3>4. A \in SUBSET Account /\ Cardinality(A) = size - 1
      BY <1>9, <1>10, <2>3, <3>1, FS_RemoveElement
    <3>5. /\ Cardinality(ActivePlayers') \in Nat /\ Cardinality(A) \in Nat
          /\ Cardinality(ActivePlayers') + Len(m_QueuedSessions') <= Cardinality(A)
      BY <3>2, <3>3, <3>4, PlayersFit
    <3> QED BY <1>3, <2>4, <3>4, <3>5
  <2>7. (x = s /\ ~wait /\ Security[a] = SEC_PLAYER) \/ rm.popped # None
    <3>1. CASE x = s
      <4>1. Security[a] = SEC_PLAYER /\ GetQueuedSessionPos(new, s) = 0
        BY <1>3, <1>4, <1>14, <3>1 DEF ActivePlayers
      <4>2. ~wait
        <5>1. wait => GetQueuedSessionPos(new, s) = Len(q) + 1 /\ Len(q) \in Nat
          BY <1>4, PosAppend, LenProperties
        <5> QED BY <4>1, <5>1
      <4> QED BY <3>1, <4>1, <4>2
    <3>2. CASE x # s
      <4>1. /\ x \in Sess /\ x # old /\ life[x] = "listed"
            /\ GetQueuedSessionPos(new, x) = 0
            /\ GetQueuedSessionPos(m_QueuedSessions, x) # 0
        BY <1>3, <1>4, <1>14, <3>2 DEF ActivePlayers
      <4>2. GetQueuedSessionPos(q, x) = 0
        <5>1. CASE wait
          <6>1. GetQueuedSessionPos(Append(q, s), x) = GetQueuedSessionPos(q, x)
            BY <1>4, <3>2, PosAppend
          <6> QED BY <1>4, <4>1, <5>1, <6>1
        <5>2. CASE ~wait
          BY <1>4, <4>1, <5>2
        <5> QED BY <5>1, <5>2
      <4>3. x = rm.popped
        BY <1>3, <1>4, <4>1, <4>2, LetIn
      <4> QED BY <4>1, <4>3, ConstantsOK
    <3> QED BY <3>1, <3>2
  <2>8. z = (IF wait THEN r + 1 ELSE r)
    BY <1>12, <2>4
  <2>9. c <= lim
    <3>1. CASE ~wait /\ Security[a] = SEC_PLAYER
      BY <1>5, <1>8, <1>10, <1>11, <1>14, <2>5, <2>8, <3>1
    <3>2. CASE rm.popped # None /\ wait
      <4>1. old # None
        BY <1>6, <3>2
      <4>2. CASE rm.found
        BY <1>5, <1>7, <1>8, <1>14, <2>5, <2>8, <3>2, <4>1, <4>2
      <4>3. CASE ~rm.found
        BY <1>5, <1>7, <1>8, <1>14, <2>5, <2>8, <3>2, <4>1, <4>3
      <4> QED BY <4>2, <4>3
    <3>3. CASE rm.popped # None /\ ~wait /\ Security[a] # SEC_PLAYER
      <4>1. old # None
        BY <1>6, <3>3
      <4>2. CASE rm.found
        BY <1>5, <1>7, <1>8, <1>14, <2>5, <2>6, <2>8, <3>3, <4>1, <4>2
      <4>3. CASE ~rm.found
        BY <1>5, <1>7, <1>8, <1>14, <2>5, <2>6, <2>8, <3>3, <4>1, <4>3
      <4> QED BY <4>2, <4>3
    <3> QED BY <1>1, <2>7, <3>1, <3>2, <3>3
  <2> QED BY <2>4, <2>9
<1> QED BY <1>3, <1>13, <1>14 DEF LimitKept

LEMMA LimitStep ==
  ASSUME IInv, IInv', PositionsTold, [Next]_vars
  PROVE  LimitKept
<1> USE DEF sessVars, queueVars, worldVars, sqlVars, loopVars
<1>1. ASSUME UNCHANGED <<m_sessions, m_QueuedSessions>>,
             \A x \in Sess : life'[x] = "listed" =>
                                life[x] = "listed" /\ account'[x] = account[x]
      PROVE  LimitKept
  <2>1. NoPlaceUnused /\ m_playerLimit' = m_playerLimit => NoPlaceUnused'
    BY <1>1
    DEF NoPlaceUnused, GetActiveSessionCount, GetActiveAndQueuedSessionCount, Listed
  <2>2. ActivePlayers' \ ActivePlayers = {}
    BY <1>1 DEF ActivePlayers
  <2> QED BY <2>1, <2>2 DEF LimitKept
<1>2. /\ life \in [Sess -> Life] /\ m_QueuedSessions \in Seq(Sess)
      /\ account \in [Sess -> Account \cup {None}]
      /\ DOMAIN m_QueuedSessions = 1 .. Len(m_QueuedSessions)
  BY LenProperties DEF IInv, TypeOK
<1>3. CASE CleanupsBeforeStop
  <2>1. /\ m_QueuedSessions' = << >>
        /\ UNCHANGED <<life, account, told, m_sessions, m_playerLimit>>
    BY <1>3 DEF CleanupsBeforeStop, KickAll
  <2>2. NoPlaceUnused'
    BY <2>1 DEF NoPlaceUnused
  <2>3. ASSUME NEW x \in ActivePlayers' \ ActivePlayers PROVE told'[x] # 0
    <3>1. PICK p : p = GetQueuedSessionPos(m_QueuedSessions, x)
      OBVIOUS
    <3>2. p # 0
      BY <2>1, <2>3, <3>1 DEF ActivePlayers
    <3>3. p \in 1 .. Len(m_QueuedSessions) /\ m_QueuedSessions[p] = x
      BY <1>2, <3>1, <3>2, PosProps, LenProperties
    <3>4. told[x] = p
      BY <1>2, <3>3 DEF PositionsTold
    <3> QED BY <2>1, <3>2, <3>4
  <2> QED BY <2>2, <2>3 DEF LimitKept
<1>4. ASSUME NEW s \in Sess, \/ \E a \in Account : HandleAuthSession(s, a)
                             \/ AddSessionLock(s) \/ AddSessionUnlock(s) \/ Disconnect(s)
      PROVE  LimitKept
  BY <1>1, <1>2, <1>4
  DEF HandleAuthSession, AddSessionLock, AddSessionUnlock, Disconnect, Life
<1>5. CASE AddSession_Refuse
  BY <1>1, <1>2, <1>5 DEF AddSession_Refuse, Destroy
<1>6. ASSUME NEW a \in Account,
             \/ HandlePlayerLoginOpcode(a) \/ HandleLogoutRequestOpcode(a)
             \/ UpdateConnected(a) \/ KickCommand(a)
      PROVE  LimitKept
  BY <1>1, <1>6
  DEF HandlePlayerLoginOpcode, HandleLogoutRequestOpcode, UpdateConnected, KickCommand
<1>7. CASE \/ EndAdd \/ EndUpdate \/ MapUpdate \/ LoginCallbackNoSession
           \/ HandlePlayerLogin \/ EndResults \/ EndCli \/ SqlExecute
           \/ \E l \in PLimits : HandleServerPLimitCommand(l)
           \/ UNCHANGED vars
  BY <1>1, <1>7
  DEF EndAdd, EndUpdate, MapUpdate, LoginCallbackNoSession, HandlePlayerLogin, EndResults,
      EndCli, SqlExecute, HandleServerPLimitCommand, vars
<1> QED
  BY <1>3, <1>4, <1>5, <1>6, <1>7, LimitAdd, LimitDrop, Zenon
  DEF Next, NetworkNext, PacketNext, LoopNext

\* The player limit: no step leaves a place unused while somebody waits for it, and no
\* step that lets a SEC_PLAYER session in brings their number above a positive limit.
THEOREM LimitRespected == Spec => LimitExact
<1>1. IInv /\ PositionsTold /\ IInv' /\ [Next]_vars => [LimitKept]_vars
  BY LimitStep
<1> QED BY <1>1, Invariance, PlacesTold, PTL DEF Spec, LimitExact

-----------------------------------------------------------------------------
(* Asynchronous logins                                                         *)

\* Where the account a stands among the login queries or results q: once in all while
\* the player of its session is being loaded, nowhere otherwise.
Own(q, a) == {i \in 1 .. Len(q) : q[i] = a}
AskedOnce(queries, results, a) ==
    /\ \A i, j \in Own(queries, a) : i = j
    /\ \A i, j \in Own(results, a) : i = j
    /\ Own(queries, a) = {} \/ Own(results, a) = {}
Unasked(queries, results, a) == Own(queries, a) = {} /\ Own(results, a) = {}

\* The login of an account that never lost a session in the middle of it.
LoginSound(a) ==
    /\ OwnsPlayers(a)
    /\ AskedOnce(sqlDelay, sqlResult, a)
    /\ m_sessions[a] = None \/ ~m_playerLoading[m_sessions[a]] =>
           Unasked(sqlDelay, sqlResult, a)
    /\ m_sessions[a] # None =>
           /\ m_playerLoading[m_sessions[a]] => ~m_player[m_sessions[a]]
           /\ m_playerLoading[m_sessions[a]] \/ m_player[m_sessions[a]] =>
                 ~m_inQueue[m_sessions[a]]

LoginInv ==
    /\ \A s \in Sess : life[s] \in {"none", "auth", "adding"} => ~m_playerLoading[s]
    /\ \A a \in Account \ abandoned : LoginSound(a)

\* Once the stop began, a session with a player has lost its connection, and the last
\* UpdateSessions visits it.
InWorld(a) == m_sessions[a] # None /\ m_player[m_sessions[a]]
StopInv ==
    \A a \in Account : InWorld(a) =>
        /\ phase \in {"stopAdd", "stopUpdate"} => socket[m_sessions[a]] # "open"
        /\ phase = "stopUpdate" => a \in todo
        /\ phase # "stopped"

LEMMA OwnProps ==
  ASSUME NEW q \in Seq(Account), NEW a \in Account
  PROVE  /\ \A v \in Account : \A i \in Own(Append(q, v), a) :
               i \in Own(q, a) \/ (v = a /\ i = Len(q) + 1)
         /\ q # << >> =>
               /\ Head(q) \in Account /\ Tail(q) \in Seq(Account)
               /\ \A i \in Own(Tail(q), a) : i \in Nat /\ i >= 1 /\ i + 1 \in Own(q, a)
               /\ Head(q) = a <=> 1 \in Own(q, a)
<1>1. Len(q) \in Nat
  BY LenProperties
<1>2. ASSUME NEW v \in Account
      PROVE  \A i \in Own(Append(q, v), a) : i \in Own(q, a) \/ (v = a /\ i = Len(q) + 1)
  <2>1. PICK t : t = Append(q, v)
    OBVIOUS
  <2>2. /\ Len(t) = Len(q) + 1
        /\ \A i \in 1 .. Len(q) : t[i] = q[i]
        /\ t[Len(q) + 1] = v
    BY <2>1, AppendProperties
  <2>3. \A i \in 1 .. Len(t) : i \in 1 .. Len(q) \/ i = Len(q) + 1
    BY <1>1, <2>2
  <2> QED BY <2>1, <2>2, <2>3 DEF Own
<1>3. ASSUME q # << >>
      PROVE  /\ Head(q) \in Account /\ Tail(q) \in Seq(Account)
             /\ \A i \in Own(Tail(q), a) : i \in Nat /\ i >= 1 /\ i + 1 \in Own(q, a)
             /\ Head(q) = a <=> 1 \in Own(q, a)
  <2>1. 1 \in 1 .. Len(q)
    BY <1>1, <1>3, EmptySeq
  <2>2. PICK t : t = Tail(q)
    OBVIOUS
  <2>3. /\ t \in Seq(Account) /\ Len(t) = Len(q) - 1
        /\ \A i \in 1 .. Len(t) : t[i] = q[i + 1]
        /\ Head(q) = q[1] /\ Head(q) \in Account
    BY <1>3, <2>2, HeadTailProps
  <2>4. \A i \in 1 .. Len(t) : i \in Nat /\ i >= 1 /\ i + 1 \in 1 .. Len(q)
    BY <1>1, <2>3
  <2>5. \A i \in Own(t, a) : i \in Nat /\ i >= 1 /\ i + 1 \in Own(q, a)
    BY <2>3, <2>4 DEF Own
  <2>6. Head(q) = a <=> 1 \in Own(q, a)
    BY <2>1, <2>3 DEF Own
  <2> QED BY <2>2, <2>3, <2>5, <2>6
<1> QED BY <1>2, <1>3

\* A session asks for its player: once for its account, nothing new for the others.
LEMMA AskingIsOnce ==
  ASSUME NEW p \in Seq(Account), NEW r, NEW a \in Account, NEW v \in Account
  PROVE  /\ Unasked(p, r, a) => AskedOnce(Append(p, v), r, a)
         /\ v # a /\ AskedOnce(p, r, a) => AskedOnce(Append(p, v), r, a)
         /\ v # a /\ Unasked(p, r, a) => Unasked(Append(p, v), r, a)
<1>1. \A i \in Own(Append(p, v), a) : i \in Own(p, a) \/ (v = a /\ i = Len(p) + 1)
  BY OwnProps
<1> QED BY <1>1 DEF AskedOnce, Unasked

\* The SQL delay thread executes a query.
LEMMA AnswerKeepsAskedOnce ==
  ASSUME NEW p \in Seq(Account), p # << >>, NEW r \in Seq(Account), NEW a \in Account
  PROVE  /\ AskedOnce(p, r, a) => AskedOnce(Tail(p), Append(r, Head(p)), a)
         /\ Unasked(p, r, a) => Unasked(Tail(p), Append(r, Head(p)), a)
<1>1. /\ Head(p) \in Account
      /\ \A i \in Own(Tail(p), a) : i \in Nat /\ i >= 1 /\ i + 1 \in Own(p, a)
      /\ Head(p) = a <=> 1 \in Own(p, a)
  BY OwnProps
<1>2. \A i \in Own(Append(r, Head(p)), a) :
         i \in Own(r, a) \/ (Head(p) = a /\ i = Len(r) + 1)
  BY <1>1, OwnProps
<1>3. Unasked(p, r, a) => Unasked(Tail(p), Append(r, Head(p)), a)
  BY <1>1, <1>2 DEF Unasked
<1>4. ASSUME AskedOnce(p, r, a) PROVE AskedOnce(Tail(p), Append(r, Head(p)), a)
  <2>1. \A i, j \in Own(Tail(p), a) : i = j
    <3>1. ASSUME NEW i \in Own(Tail(p), a), NEW j \in Own(Tail(p), a) PROVE i = j
      <4>1. i + 1 = j + 1 /\ i \in Nat /\ j \in Nat
        BY <1>1, <1>4 DEF AskedOnce
      <4> QED BY <4>1
    <3> QED BY <3>1
  <2>2. CASE Head(p) = a
    <3>1. Own(r, a) = {}
      BY <1>1, <1>4, <2>2 DEF AskedOnce
    <3>2. Own(Tail(p), a) = {}
      <4>1. ASSUME NEW i \in Own(Tail(p), a) PROVE FALSE
        <5>1. i + 1 = 1 /\ i \in Nat /\ i >= 1
          BY <1>1, <1>4, <2>2 DEF AskedOnce
        <5> QED BY <5>1
      <4> QED BY <4>1
    <3> QED BY <1>2, <3>1, <3>2 DEF AskedOnce
  <2>3. CASE Head(p) # a
    BY <1>1, <1>2, <1>4, <2>1, <2>3 DEF AskedOnce
  <2> QED BY <2>2, <2>3
<1> QED BY <1>3, <1>4

\* The world thread takes a result.
LEMMA ResultKeepsAskedOnce ==
  ASSUME NEW p, NEW r \in Seq(Account), r # << >>, NEW a \in Account, AskedOnce(p, r, a)
  PROVE  /\ AskedOnce(p, Tail(r), a)
         /\ Unasked(p, r, a) => Unasked(p, Tail(r), a)
         /\ Head(r) = a => ~Unasked(p, r, a) /\ Unasked(p, Tail(r), a)
<1>1. /\ \A i \in Own(Tail(r), a) : i \in Nat /\ i >= 1 /\ i + 1 \in Own(r, a)
      /\ Head(r) = a <=> 1 \in Own(r, a)
  BY OwnProps
<1>2. \A i, j \in Own(Tail(r), a) : i = j
  <2>1. ASSUME NEW i \in Own(Tail(r), a), NEW j \in Own(Tail(r), a) PROVE i = j
    <3>1. i + 1 = j + 1 /\ i \in Nat /\ j \in Nat
      BY <1>1 DEF AskedOnce
    <3> QED BY <3>1
  <2> QED BY <2>1
<1>3. Head(r) = a => Own(Tail(r), a) = {}
  <2>1. ASSUME Head(r) = a, NEW i \in Own(Tail(r), a) PROVE FALSE
    <3>1. i + 1 = 1 /\ i \in Nat /\ i >= 1
      BY <1>1, <2>1 DEF AskedOnce
    <3> QED BY <3>1
  <2> QED BY <2>1
<1> QED BY <1>1, <1>2, <1>3 DEF AskedOnce, Unasked

\* A step that leaves the account's session, player and query alone keeps its login sound.
LEMMA LoginUntouched ==
  ASSUME NEW b \in Account, LoginSound(b),
         m_sessions'[b] = m_sessions[b], players'[b] = players[b],
         NEW x, x = m_sessions[b],
         x # None => /\ m_playerLoading'[x] = m_playerLoading[x]
                     /\ m_player'[x] = m_player[x]
                     /\ m_inQueue'[x] => m_inQueue[x],
         AskedOnce(sqlDelay', sqlResult', b),
         Unasked(sqlDelay, sqlResult, b) => Unasked(sqlDelay', sqlResult', b)
  PROVE  LoginSound(b)'
<1>1. OwnsPlayers(b)'
  BY DEF LoginSound, OwnsPlayers
<1>2. m_sessions'[b] = None \/ ~m_playerLoading'[m_sessions'[b]] =>
          Unasked(sqlDelay', sqlResult', b)
  BY DEF LoginSound
<1>3. m_sessions'[b] # None =>
          /\ m_playerLoading'[m_sessions'[b]] => ~m_player'[m_sessions'[b]]
          /\ m_playerLoading'[m_sessions'[b]] \/ m_player'[m_sessions'[b]] =>
                 ~m_inQueue'[m_sessions'[b]]
  BY DEF LoginSound
<1> QED BY <1>1, <1>2, <1>3 DEF LoginSound

\* The sessions of two accounts differ.
LEMMA SessionsDiffer ==
  ASSUME IInv, NEW a \in Account, NEW b \in Account, a # b, m_sessions[b] # None
  PROVE  /\ m_sessions[b] \in Sess /\ m_sessions[b] # m_sessions[a]
         /\ life[m_sessions[b]] = "listed" /\ account[m_sessions[b]] = b
  BY DEF IInv, TypeOK, TableOwnsSessions

\* AddSession_: the new session starts without a player; the old one takes its own along.
LEMMA LoginAdd ==
  ASSUME IInv, LoginInv, AddSession_
  PROVE  LoginInv'
<1>1. PICK s \in Sess, old \in Sess \cup {None}, wait \in BOOLEAN : \E rm :
          Adds(s, old, rm, wait)
  BY AddSessionFacts
<1>2. PICK rm : Adds(s, old, rm, wait)
  BY <1>1
<1>3. PICK a : a = account[s]
  OBVIOUS
<1>4. /\ life[s] = "adding" /\ a \in Account /\ old = m_sessions[a] /\ old # s
      /\ old # None => life[old] = "listed" /\ ~m_playerLoading[old]
      /\ Removed(rm, old)
      /\ m_sessions' = [m_sessions EXCEPT ![a] = s]
      /\ m_inQueue' = [FlagsAfter(rm, old) EXCEPT ![s] = wait]
      /\ life' = [x \in Sess |-> IF x = s THEN "listed"
                                 ELSE IF x = old THEN "deleted" ELSE life[x]]
      /\ m_player' = [x \in Sess |-> IF x = old THEN FALSE ELSE m_player[x]]
      /\ players' = [b \in Account |-> IF b = a /\ old # None /\ m_player[old]
                                       THEN players[b] - 1 ELSE players[b]]
      /\ UNCHANGED <<m_playerLoading, sqlDelay, sqlResult, abandoned>>
  BY <1>2, <1>3 DEF Adds, sqlVars
<1>5. ~m_player[s] /\ ~m_playerLoading[s] /\ s # None
  BY <1>4, ConstantsOK DEF IInv, SessionStages, LoginInv
<1>6. \A x \in Sess : x # s => (m_inQueue'[x] => m_inQueue[x])
  <2>1. /\ FlagsAfter(rm, old) \in [Sess -> BOOLEAN]
        /\ \A x \in Sess : FlagsAfter(rm, old)[x] => m_inQueue[x]
    BY <1>4, FlagsProps DEF IInv, TypeOK
  <2> QED BY <1>4, <2>1
<1>7. \A x \in Sess : life'[x] \in {"none", "auth", "adding"} => ~m_playerLoading'[x]
  BY <1>4, <1>5 DEF LoginInv
<1>8. ASSUME NEW b \in Account \ abandoned' PROVE LoginSound(b)'
  <2>1. LoginSound(b)
    BY <1>4, <1>8 DEF LoginInv
  <2>2. CASE b = a
    <3>1. m_sessions'[b] = s /\ ~m_player'[s] /\ ~m_playerLoading'[s]
      BY <1>4, <1>5, <2>2 DEF IInv, TypeOK
    <3>2. Unasked(sqlDelay', sqlResult', b) /\ AskedOnce(sqlDelay', sqlResult', b)
      BY <1>4, <2>1, <2>2 DEF LoginSound
    <3>3. players'[b] = 0
      BY <1>4, <2>1, <2>2 DEF LoginSound, OwnsPlayers
    <3> QED BY <3>1, <3>2, <3>3 DEF LoginSound, OwnsPlayers
  <2>3. CASE b # a
    <3>1. PICK x : x = m_sessions[b]
      OBVIOUS
    <3>2. x # None => x \in Sess /\ x # old /\ x # s
      BY <1>4, <2>3, <3>1, SessionsDiffer
    <3>3. m_sessions'[b] = m_sessions[b] /\ players'[b] = players[b]
      BY <1>4, <2>3 DEF IInv, TypeOK
    <3>4. x # None => /\ m_playerLoading'[x] = m_playerLoading[x]
                      /\ m_player'[x] = m_player[x]
                      /\ m_inQueue'[x] => m_inQueue[x]
      BY <1>4, <1>6, <3>2
    <3>5. AskedOnce(sqlDelay', sqlResult', b)
      BY <1>4, <2>1 DEF LoginSound
    <3>6. Unasked(sqlDelay, sqlResult, b) => Unasked(sqlDelay', sqlResult', b)
      BY <1>4
    <3> QED BY <1>8, <2>1, <3>1, <3>3, <3>4, <3>5, <3>6, LoginUntouched
  <2> QED BY <2>2, <2>3
<1> QED BY <1>7, <1>8 DEF LoginInv

\* UpdateDisconnected: the session goes with its player, or the account is abandoned.
LEMMA LoginDrop ==
  ASSUME IInv, LoginInv, NEW a \in Account, UpdateDisconnected(a)
  PROVE  LoginInv'
<1>1. PICK s \in Sess : \E rm : Drops(a, s, rm)
  BY UpdateDisconnectedFacts
<1>2. PICK rm : Drops(a, s, rm)
  BY <1>1
<1>3. /\ s = m_sessions[a] /\ life[s] = "listed" /\ Removed(rm, s)
      /\ m_inQueue' = FlagsAfter(rm, s)
      /\ life' = [life EXCEPT ![s] = "deleted"]
      /\ m_player' = [m_player EXCEPT ![s] = FALSE]
      /\ players' = IF m_player[s] THEN [players EXCEPT ![a] = @ - 1] ELSE players
      /\ abandoned' = IF m_playerLoading[s] THEN abandoned \cup {a} ELSE abandoned
      /\ m_sessions' = [m_sessions EXCEPT ![a] = None]
      /\ UNCHANGED <<m_playerLoading, sqlDelay, sqlResult>>
  BY <1>2 DEF Drops, sqlVars
<1>4. \A x \in Sess : m_inQueue'[x] => m_inQueue[x]
  <2>1. \A x \in Sess : FlagsAfter(rm, s)[x] => m_inQueue[x]
    BY <1>3, FlagsProps DEF IInv, TypeOK
  <2> QED BY <1>3, <2>1
<1>5. \A x \in Sess : life'[x] \in {"none", "auth", "adding"} => ~m_playerLoading'[x]
  BY <1>3 DEF LoginInv, IInv, TypeOK
<1>6. ASSUME NEW b \in Account \ abandoned' PROVE LoginSound(b)'
  <2>1. LoginSound(b) /\ b \notin abandoned
    BY <1>3, <1>6 DEF LoginInv
  <2>2. CASE b = a
    <3>1. m_sessions'[b] = None /\ ~m_playerLoading[s] /\ s # None
      BY <1>3, <1>6, <2>2, ConstantsOK DEF IInv, TypeOK
    <3>2. Unasked(sqlDelay', sqlResult', b) /\ AskedOnce(sqlDelay', sqlResult', b)
      BY <1>3, <2>1, <2>2, <3>1 DEF LoginSound
    <3>3. players'[b] = 0
      BY <1>3, <2>1, <2>2, <3>1 DEF LoginSound, OwnsPlayers, IInv, TypeOK
    <3> QED BY <3>1, <3>2, <3>3 DEF LoginSound, OwnsPlayers
  <2>3. CASE b # a
    <3>1. PICK x : x = m_sessions[b]
      OBVIOUS
    <3>2. x # None => x \in Sess /\ x # s
      BY <1>3, <2>3, <3>1, SessionsDiffer
    <3>3. m_sessions'[b] = m_sessions[b] /\ players'[b] = players[b]
      BY <1>3, <2>3 DEF IInv, TypeOK
    <3>4. x # None => /\ m_playerLoading'[x] = m_playerLoading[x]
                      /\ m_player'[x] = m_player[x]
                      /\ m_inQueue'[x] => m_inQueue[x]
      BY <1>3, <1>4, <3>2 DEF IInv, TypeOK
    <3>5. AskedOnce(sqlDelay', sqlResult', b)
      BY <1>3, <2>1 DEF LoginSound
    <3>6. Unasked(sqlDelay, sqlResult, b) => Unasked(sqlDelay', sqlResult', b)
      BY <1>3
    <3> QED BY <1>6, <2>1, <3>1, <3>3, <3>4, <3>5, <3>6, LoginUntouched
  <2> QED BY <2>2, <2>3
<1> QED BY <1>5, <1>6 DEF LoginInv

\* A step that touches the session s of the account a, and no other account.
LEMMA LoginOther ==
  ASSUME IInv, LoginInv, NEW a \in Account, NEW s, s = m_sessions[a],
         UNCHANGED <<life, m_sessions, m_inQueue, abandoned>>,
         \A x \in Sess \ {s} : /\ m_playerLoading'[x] = m_playerLoading[x]
                               /\ m_player'[x] = m_player[x],
         \A b \in Account \ {a} : players'[b] = players[b],
         \A b \in Account \ {a} :
            /\ AskedOnce(sqlDelay, sqlResult, b) => AskedOnce(sqlDelay', sqlResult', b)
            /\ Unasked(sqlDelay, sqlResult, b) => Unasked(sqlDelay', sqlResult', b),
         s \in Sess => life[s] = "listed",
         a \notin abandoned /\ LoginSound(a) => LoginSound(a)'
  PROVE  LoginInv'
<1>1. \A x \in Sess : life'[x] \in {"none", "auth", "adding"} => ~m_playerLoading'[x]
  BY DEF LoginInv
<1>2. ASSUME NEW b \in Account \ abandoned' PROVE LoginSound(b)'
  <2>1. LoginSound(b) /\ b \notin abandoned
    BY <1>2 DEF LoginInv
  <2>2. CASE b # a
    <3>1. PICK x : x = m_sessions[b]
      OBVIOUS
    <3>2. x # None => x \in Sess /\ x # s
      BY <2>2, <3>1, SessionsDiffer
    <3>3. x # None => /\ m_playerLoading'[x] = m_playerLoading[x]
                      /\ m_player'[x] = m_player[x]
                      /\ m_inQueue'[x] => m_inQueue[x]
      BY <3>2
    <3>4. /\ AskedOnce(sqlDelay', sqlResult', b)
          /\ Unasked(sqlDelay, sqlResult, b) => Unasked(sqlDelay', sqlResult', b)
      BY <2>1, <2>2 DEF LoginSound
    <3>5. m_sessions'[b] = m_sessions[b] /\ players'[b] = players[b]
      BY <2>2
    <3> QED BY <1>2, <2>1, <3>1, <3>3, <3>4, <3>5, LoginUntouched
  <2> QED BY <2>1, <2>2
<1> QED BY <1>1, <1>2 DEF LoginInv

\* CMSG_PLAYER_LOGIN asks for one player, of a session that has none and does not wait.
LEMMA LoginAsk ==
  ASSUME IInv, LoginInv, NEW a \in Account, HandlePlayerLoginOpcode(a)
  PROVE  LoginInv'
<1>1. PICK s : s = m_sessions[a]
  OBVIOUS
<1>2. /\ s \in Sess /\ life[s] = "listed"
      /\ ~m_inQueue[s] /\ ~m_playerLoading[s] /\ ~m_player[s]
      /\ m_playerLoading' = [m_playerLoading EXCEPT ![s] = TRUE]
      /\ sqlDelay' = Append(sqlDelay, a) /\ sqlResult' = sqlResult
      /\ UNCHANGED <<life, m_sessions, m_inQueue, m_player, players, abandoned>>
  BY <1>1
  DEF HandlePlayerLoginOpcode, MayLogin, IInv, TypeOK, TodoListed, TableOwnsSessions,
      queueVars, worldVars, loopVars
<1>3. m_playerLoading \in [Sess -> BOOLEAN] /\ sqlDelay \in Seq(Account) /\ s # None
  BY <1>2, ConstantsOK DEF IInv, TypeOK
<1>4. \A x \in Sess \ {s} : m_playerLoading'[x] = m_playerLoading[x]
  BY <1>2, <1>3
<1>5. ASSUME NEW b \in Account \ {a}
      PROVE  /\ AskedOnce(sqlDelay, sqlResult, b) => AskedOnce(sqlDelay', sqlResult', b)
             /\ Unasked(sqlDelay, sqlResult, b) => Unasked(sqlDelay', sqlResult', b)
  BY <1>2, <1>3, AskingIsOnce
<1>6. LoginSound(a) => LoginSound(a)'
  <2> SUFFICES ASSUME LoginSound(a) PROVE LoginSound(a)'
    OBVIOUS
  <2>1. Unasked(sqlDelay, sqlResult, a)
    BY <1>1, <1>2 DEF LoginSound
  <2>2. AskedOnce(sqlDelay', sqlResult', a)
    BY <1>2, <1>3, <2>1, AskingIsOnce
  <2>3. m_sessions'[a] = s /\ m_playerLoading'[s] /\ ~m_player'[s] /\ ~m_inQueue'[s]
    BY <1>1, <1>2, <1>3
  <2>4. OwnsPlayers(a)'
    BY <1>2 DEF LoginSound, OwnsPlayers
  <2> QED BY <1>3, <2>2, <2>3, <2>4 DEF LoginSound
<1> QED BY <1>1, <1>2, <1>4, <1>5, <1>6, LoginOther

\* A logout, at once or when the countdown is over.
LEMMA LoginLogout ==
  ASSUME IInv, LoginInv, NEW a \in Account, a \in todo, NEW s, s = m_sessions[a],
         LogoutPlayer(s) \/ UNCHANGED <<m_player, players>>,
         UNCHANGED <<life, m_sessions, m_inQueue, m_playerLoading, sqlDelay, sqlResult,
                     abandoned>>
  PROVE  LoginInv'
<1>1. /\ s \in Sess /\ s # None /\ life[s] = "listed" /\ account[s] = a
      /\ m_player \in [Sess -> BOOLEAN] /\ players \in [Account -> Nat]
  BY ConstantsOK DEF IInv, TypeOK, TodoListed, TableOwnsSessions
<1>2. /\ \A x \in Sess \ {s} : m_player'[x] = m_player[x]
      /\ \A b \in Account \ {a} : players'[b] = players[b]
      /\ m_player'[s] => m_player[s]
  BY <1>1 DEF LogoutPlayer
<1>3. LoginSound(a) => LoginSound(a)'
  <2> SUFFICES ASSUME LoginSound(a) PROVE LoginSound(a)'
    OBVIOUS
  <2>1. OwnsPlayers(a)'
    <3>1. players[a] = IF m_player[s] THEN 1 ELSE 0
      BY <1>1 DEF LoginSound, OwnsPlayers
    <3>2. players'[a] = IF m_player'[s] THEN 1 ELSE 0
      BY <1>1, <3>1 DEF LogoutPlayer
    <3> QED BY <1>1, <3>2 DEF OwnsPlayers
  <2>2. AskedOnce(sqlDelay', sqlResult', a)
    BY DEF LoginSound
  <2>3. m_sessions'[a] = None \/ ~m_playerLoading'[m_sessions'[a]] =>
            Unasked(sqlDelay', sqlResult', a)
    BY DEF LoginSound
  <2>4. /\ m_playerLoading'[s] => ~m_player'[s]
        /\ m_playerLoading'[s] \/ m_player'[s] => ~m_inQueue'[s]
    BY <1>1, <1>2 DEF LoginSound
  <2> QED BY <2>1, <2>2, <2>3, <2>4 DEF LoginSound
<1> QED BY <1>1, <1>2, <1>3, LoginOther

\* HandlePlayerLoginCallback: the result belongs to the session that finds it.
LEMMA LoginCallback ==
  ASSUME IInv, LoginInv, HandlePlayerLogin
  PROVE  LoginInv'
<1>1. PICK a, s : a = Head(sqlResult) /\ s = m_sessions[a]
  OBVIOUS
<1>2. /\ sqlResult \in Seq(Account) /\ sqlResult # << >> /\ a \in Account
      /\ m_playerLoading \in [Sess -> BOOLEAN] /\ m_player \in [Sess -> BOOLEAN]
      /\ players \in [Account -> Nat]
  <2>1. sqlResult # << >>
    BY DEF HandlePlayerLogin
  <2>2. /\ sqlResult \in Seq(Account)
        /\ m_playerLoading \in [Sess -> BOOLEAN] /\ m_player \in [Sess -> BOOLEAN]
        /\ players \in [Account -> Nat]
    BY DEF IInv, TypeOK
  <2> QED BY <1>1, <2>1, <2>2, HeadTailProps
<1>3. /\ s \in Sess /\ s # None /\ life[s] = "listed"
      /\ m_playerLoading' = [m_playerLoading EXCEPT ![s] = FALSE]
      /\ \/ UNCHANGED <<m_player, players>>
         \/ /\ m_player' = [m_player EXCEPT ![s] = TRUE]
            /\ players' = [players EXCEPT ![a] = @ + 1]
      /\ sqlResult' = Tail(sqlResult) /\ sqlDelay' = sqlDelay
      /\ UNCHANGED <<life, m_sessions, m_inQueue, abandoned>>
  <2>1. s # None /\ LoadingDone(s)
    BY <1>1 DEF HandlePlayerLogin
  <2>2. s \in Sess /\ life[s] = "listed"
    BY <1>1, <1>2, <2>1 DEF IInv, TypeOK, TableOwnsSessions
  <2>3. m_playerLoading' = [m_playerLoading EXCEPT ![s] = FALSE]
    BY <2>1 DEF LoadingDone
  <2>4. /\ sqlResult' = Tail(sqlResult) /\ sqlDelay' = sqlDelay
        /\ UNCHANGED <<life, m_sessions, m_inQueue, abandoned>>
    BY DEF HandlePlayerLogin, queueVars, worldVars, loopVars
  <2>5. \/ UNCHANGED <<m_player, players>>
        \/ /\ m_player' = [m_player EXCEPT ![s] = TRUE]
           /\ players' = [players EXCEPT ![a] = @ + 1]
    BY <1>1 DEF HandlePlayerLogin
  <2> QED BY <2>1, <2>2, <2>3, <2>4, <2>5
<1>4. /\ \A x \in Sess \ {s} : /\ m_playerLoading'[x] = m_playerLoading[x]
                               /\ m_player'[x] = m_player[x]
      /\ \A b \in Account \ {a} : players'[b] = players[b]
  BY <1>2, <1>3
<1>5. ASSUME NEW b \in Account \ {a}
      PROVE  /\ AskedOnce(sqlDelay, sqlResult, b) => AskedOnce(sqlDelay', sqlResult', b)
             /\ Unasked(sqlDelay, sqlResult, b) => Unasked(sqlDelay', sqlResult', b)
  <2>1. Unasked(sqlDelay, sqlResult, b) => AskedOnce(sqlDelay, sqlResult, b)
    BY DEF AskedOnce, Unasked
  <2> QED BY <1>2, <1>3, <2>1, ResultKeepsAskedOnce
<1>6. LoginSound(a) => LoginSound(a)'
  <2> SUFFICES ASSUME LoginSound(a) PROVE LoginSound(a)'
    OBVIOUS
  <2>1. AskedOnce(sqlDelay, sqlResult, a)
    BY DEF LoginSound
  <2>2. /\ ~Unasked(sqlDelay, sqlResult, a)
        /\ Unasked(sqlDelay', sqlResult', a) /\ AskedOnce(sqlDelay', sqlResult', a)
    BY <1>1, <1>2, <1>3, <2>1, ResultKeepsAskedOnce
  <2>3. m_playerLoading[s] /\ ~m_player[s] /\ ~m_inQueue[s] /\ players[a] = 0
    BY <1>1, <1>3, <2>2 DEF LoginSound, OwnsPlayers
  <2>4. ~m_playerLoading'[s] /\ players'[a] = IF m_player'[s] THEN 1 ELSE 0
    BY <1>2, <1>3, <2>3
  <2>5. OwnsPlayers(a)'
    BY <1>1, <1>3, <2>4 DEF OwnsPlayers
  <2> QED BY <1>1, <1>3, <2>2, <2>3, <2>4, <2>5 DEF LoginSound
<1> QED BY <1>1, <1>2, <1>3, <1>4, <1>5, <1>6, LoginOther

LEMMA LoginStep ==
  ASSUME IInv, LoginInv, [Next]_vars
  PROVE  LoginInv'
<1> USE DEF sessVars, queueVars, worldVars, sqlVars, loopVars
<1>1. ASSUME UNCHANGED <<m_sessions, m_inQueue, m_playerLoading, m_player, players, abandoned>>,
             \A x \in Sess : life'[x] \in {"none", "auth", "adding"} =>
                                life[x] \in {"none", "auth", "adding"},
             \A b \in Account :
                /\ AskedOnce(sqlDelay, sqlResult, b) => AskedOnce(sqlDelay', sqlResult', b)
                /\ Unasked(sqlDelay, sqlResult, b) => Unasked(sqlDelay', sqlResult', b)
      PROVE  LoginInv'
  <2>1. ASSUME NEW b \in Account \ abandoned' PROVE LoginSound(b)'
    <3>1. LoginSound(b)
      BY <1>1, <2>1 DEF LoginInv
    <3>2. AskedOnce(sqlDelay', sqlResult', b)
      BY <1>1, <3>1 DEF LoginSound
    <3> QED BY <1>1, <3>1, <3>2 DEF LoginSound, OwnsPlayers
  <2>2. \A x \in Sess : life'[x] \in {"none", "auth", "adding"} => ~m_playerLoading'[x]
    BY <1>1 DEF LoginInv
  <2> QED BY <2>1, <2>2 DEF LoginInv
<1>2. ASSUME UNCHANGED <<m_sessions, m_inQueue, m_playerLoading, m_player, players, abandoned,
                         life, sqlDelay, sqlResult>>
      PROVE  LoginInv'
  BY <1>1, <1>2
<1>3. life \in [Sess -> Life] /\ sqlDelay \in Seq(Account) /\ sqlResult \in Seq(Account)
  BY DEF IInv, TypeOK
<1>4. CASE SqlExecute
  <2>1. /\ sqlDelay # << >>
        /\ sqlResult' = Append(sqlResult, Head(sqlDelay)) /\ sqlDelay' = Tail(sqlDelay)
        /\ UNCHANGED <<m_sessions, m_inQueue, m_playerLoading, m_player, players, abandoned,
                       life>>
    BY <1>4 DEF SqlExecute
  <2>2. \A b \in Account :
           /\ AskedOnce(sqlDelay, sqlResult, b) => AskedOnce(sqlDelay', sqlResult', b)
           /\ Unasked(sqlDelay, sqlResult, b) => Unasked(sqlDelay', sqlResult', b)
    BY <1>3, <2>1, AnswerKeepsAskedOnce
  <2> QED BY <1>1, <2>1, <2>2
<1>5. CASE LoginCallbackNoSession
  <2>1. /\ sqlResult # << >> /\ sqlResult' = Tail(sqlResult) /\ sqlDelay' = sqlDelay
        /\ UNCHANGED <<m_sessions, m_inQueue, m_playerLoading, m_player, players, abandoned,
                       life>>
    BY <1>5 DEF LoginCallbackNoSession
  <2>2. \A b \in Account :
           /\ AskedOnce(sqlDelay, sqlResult, b) => AskedOnce(sqlDelay', sqlResult', b)
           /\ Unasked(sqlDelay, sqlResult, b) => Unasked(sqlDelay', sqlResult', b)
    <3>1. \A b \in Account :
             Unasked(sqlDelay, sqlResult, b) => AskedOnce(sqlDelay, sqlResult, b)
      BY DEF AskedOnce, Unasked
    <3> QED BY <1>3, <2>1, <3>1, ResultKeepsAskedOnce
  <2> QED BY <1>1, <2>1, <2>2
<1>6. CASE AddSession_Refuse
  <2>1. PICK s : s = Head(addSessQueue)
    OBVIOUS
  <2>2. s \in Sess /\ life[s] = "adding" /\ ~m_player[s] /\ ~m_playerLoading[s]
    BY <1>6, <2>1, NextSessionProps DEF AddSession_Refuse, IInv, SessionStages, LoginInv
  <2>3. /\ UNCHANGED <<m_sessions, m_inQueue, m_playerLoading, players, abandoned, sqlDelay,
                       sqlResult>>
        /\ life' = [life EXCEPT ![s] = "deleted"]
        /\ m_player' = [m_player EXCEPT ![s] = FALSE]
    BY <1>6, <2>1, <2>2 DEF AddSession_Refuse, Destroy, LogoutPlayer
  <2>4. m_player' = m_player
    BY <2>2, <2>3 DEF IInv, TypeOK
  <2>5. \A x \in Sess : life'[x] \in {"none", "auth", "adding"} =>
                           life[x] \in {"none", "auth", "adding"}
    BY <1>3, <2>3
  <2> QED BY <1>1, <2>3, <2>4, <2>5
<1>7. ASSUME NEW s \in Sess, \/ \E a \in Account : HandleAuthSession(s, a)
                             \/ AddSessionLock(s) \/ AddSessionUnlock(s) \/ Disconnect(s)
      PROVE  LoginInv'
  <2>1. /\ UNCHANGED <<m_sessions, m_inQueue, m_playerLoading, m_player, players, abandoned,
                       sqlDelay, sqlResult>>
        /\ \A x \in Sess : life'[x] \in {"none", "auth", "adding"} =>
                              life[x] \in {"none", "auth", "adding"}
    <3>1. adder = s => life[s] = "auth"
      BY ConstantsOK DEF IInv, HandOver
    <3> QED BY <1>3, <1>7, <3>1
            DEF HandleAuthSession, AddSessionLock, AddSessionUnlock, Disconnect
  <2> QED BY <1>1, <2>1
<1>8. ASSUME NEW a \in Account, HandleLogoutRequestOpcode(a) \/ UpdateConnected(a)
      PROVE  LoginInv'
  BY <1>8, LoginLogout DEF HandleLogoutRequestOpcode, UpdateConnected
<1>9. CASE \/ EndAdd \/ EndUpdate \/ MapUpdate \/ EndResults \/ EndCli \/ CleanupsBeforeStop
           \/ \E a \in Account : KickCommand(a)
           \/ \E l \in PLimits : HandleServerPLimitCommand(l)
           \/ UNCHANGED vars
  BY <1>2, <1>9
  DEF EndAdd, EndUpdate, MapUpdate, EndResults, EndCli, CleanupsBeforeStop, KickAll,
      KickCommand, HandleServerPLimitCommand, vars
<1> QED
  BY <1>4, <1>5, <1>6, <1>7, <1>8, <1>9, LoginAdd, LoginDrop, LoginAsk, LoginCallback, Zenon
  DEF Next, NetworkNext, PacketNext, LoopNext

LEMMA LoginInit == Init => LoginInv
<1> SUFFICES ASSUME Init PROVE LoginInv
  OBVIOUS
<1>1. Len(sqlDelay) = 0 /\ Len(sqlResult) = 0
  BY EmptySeq DEF Init
<1>2. \A a : Own(sqlDelay, a) = {} /\ Own(sqlResult, a) = {}
  BY <1>1 DEF Own
<1> QED BY <1>2 DEF Init, LoginInv, LoginSound, AskedOnce, Unasked, OwnsPlayers

\* "prevent cheating with skip queue wait": unless its account lost a session in the middle
\* of a login, a session that waits has no player, and every player has its session.
THEOREM LoginsOwned == Spec => []LoginsReachTheirSession
<1>1. IInv /\ LoginInv => LoginsReachTheirSession
  <2> SUFFICES ASSUME IInv, LoginInv, NEW a \in Account \ abandoned
               PROVE  /\ OwnsPlayers(a)
                      /\ m_sessions[a] # None /\ m_player[m_sessions[a]] =>
                            GetQueuedSessionPos(m_QueuedSessions, m_sessions[a]) = 0
    BY DEF LoginsReachTheirSession
  <2>1. LoginSound(a)
    BY DEF LoginInv
  <2>2. ASSUME m_sessions[a] # None, m_player[m_sessions[a]]
        PROVE  GetQueuedSessionPos(m_QueuedSessions, m_sessions[a]) = 0
    <3>1. PICK p, q, s : /\ s = m_sessions[a] /\ q = m_QueuedSessions
                         /\ p = GetQueuedSessionPos(q, s)
      OBVIOUS
    <3>2. ~m_inQueue[s]
      BY <2>1, <2>2, <3>1 DEF LoginSound
    <3>3. q \in Seq(Sess) /\ DOMAIN q = 1 .. Len(q) /\ Len(q) \in Nat
      BY <3>1, LenProperties DEF IInv, TypeOK
    <3>4. p \in 0 .. Len(q) /\ (p # 0 => q[p] = s)
      BY <3>1, <3>3, PosProps
    <3>5. \A i \in 1 .. Len(q) : m_inQueue[q[i]]
      BY <3>1, <3>3 DEF IInv, QueueFlagsAgree
    <3> QED BY <3>1, <3>2, <3>3, <3>4, <3>5
  <2> QED BY <2>1, <2>2 DEF LoginSound
<1>2. IInv /\ LoginInv /\ [Next]_vars => LoginInv'
  BY LoginStep
<1> QED BY <1>1, <1>2, LoginInit, Invariance, PTL DEF Spec

-----------------------------------------------------------------------------
(* The stop                                                                    *)

LEMMA StopStep ==
  ASSUME IInv, StopInv, [Next]_vars
  PROVE  StopInv'
<1> USE DEF sessVars, queueVars, worldVars, sqlVars, loopVars
<1>1. /\ life \in [Sess -> Life] /\ socket \in [Sess -> SocketState]
      /\ m_player \in [Sess -> BOOLEAN] /\ m_sessions \in [Account -> Sess \cup {None}]
      /\ \A a \in Account : m_sessions[a] # None =>
            m_sessions[a] \in Sess /\ life[m_sessions[a]] = "listed"
  BY DEF IInv, TypeOK, TableOwnsSessions
<1>2. ASSUME \A a \in Account : InWorld(a)' =>
                InWorld(a) /\ m_sessions'[a] = m_sessions[a]
                /\ (socket[m_sessions[a]] # "open" => socket'[m_sessions[a]] # "open"),
             UNCHANGED <<phase, todo>>
      PROVE  StopInv'
  BY <1>2 DEF StopInv
<1>3. CASE AddSession_
  <2>1. PICK s \in Sess, old \in Sess \cup {None}, wait \in BOOLEAN : \E rm :
            Adds(s, old, rm, wait)
    BY <1>3, AddSessionFacts
  <2>2. PICK rm : Adds(s, old, rm, wait)
    BY <2>1
  <2>3. PICK b : b = account[s]
    OBVIOUS
  <2>4. /\ life[s] = "adding" /\ b \in Account
        /\ m_sessions' = [m_sessions EXCEPT ![b] = s]
        /\ m_player' = [x \in Sess |-> IF x = old THEN FALSE ELSE m_player[x]]
        /\ socket' = [x \in Sess |-> IF x = old THEN "reset" ELSE socket[x]]
        /\ UNCHANGED <<phase, todo>>
    BY <2>2, <2>3 DEF Adds
  <2>5. ~m_player[s]
    BY <2>4 DEF IInv, SessionStages
  <2>6. ASSUME NEW a \in Account, InWorld(a)'
        PROVE  /\ InWorld(a) /\ m_sessions'[a] = m_sessions[a]
               /\ socket[m_sessions[a]] # "open" => socket'[m_sessions[a]] # "open"
    <3>1. PICK x : x = m_sessions'[a]
      OBVIOUS
    <3>2. x # None /\ m_player'[x]
      BY <2>6, <3>1 DEF InWorld
    <3>3. x \in Sess \cup {None}
      BY <1>1, <2>4, <3>1
    <3>4. x \in Sess /\ x # old /\ m_player[x]
      BY <2>4, <3>2, <3>3
    <3>5. x # s
      BY <2>5, <3>4
    <3>6. a # b /\ m_sessions[a] = x
      BY <1>1, <2>4, <3>1, <3>5
    <3> QED BY <2>4, <3>1, <3>2, <3>4, <3>6 DEF InWorld
  <2> QED BY <1>2, <2>4, <2>6
<1>4. ASSUME NEW b \in Account, UpdateDisconnected(b) PROVE StopInv'
  <2>1. PICK s \in Sess : \E rm : Drops(b, s, rm)
    BY <1>4, UpdateDisconnectedFacts
  <2>2. PICK rm : Drops(b, s, rm)
    BY <2>1
  <2>3. /\ s = m_sessions[b] /\ life[s] = "listed"
        /\ m_sessions' = [m_sessions EXCEPT ![b] = None]
        /\ m_player' = [m_player EXCEPT ![s] = FALSE]
        /\ socket' = [socket EXCEPT ![s] = "reset"]
        /\ todo' = todo \ {b} /\ phase' = phase
    BY <2>2 DEF Drops
  <2>4. ASSUME NEW a \in Account, InWorld(a)'
        PROVE  /\ a # b /\ InWorld(a) /\ m_sessions'[a] = m_sessions[a]
               /\ socket[m_sessions[a]] # "open" => socket'[m_sessions[a]] # "open"
    <3>1. a # b /\ m_sessions'[a] = m_sessions[a] /\ m_sessions[a] # None
      BY <1>1, <2>3, <2>4 DEF InWorld
    <3>2. m_sessions[a] \in Sess /\ m_sessions[a] # s
      BY <2>3, <3>1, SessionsDiffer
    <3>3. m_player[m_sessions[a]] /\ socket'[m_sessions[a]] = socket[m_sessions[a]]
      BY <1>1, <2>3, <2>4, <3>1, <3>2 DEF InWorld
    <3> QED BY <3>1, <3>3 DEF InWorld
  <2> QED BY <2>3, <2>4 DEF StopInv
<1>5. CASE CleanupsBeforeStop
  <2>1. /\ socket' = Kicked(socket, {s \in Sess : life[s] = "listed"})
        /\ phase' = "stopAdd" /\ UNCHANGED <<m_sessions, m_player>>
    BY <1>5 DEF CleanupsBeforeStop, KickAll
  <2>2. \A s \in Sess : life[s] = "listed" => socket'[s] # "open"
    BY <2>1 DEF Kicked
  <2> QED BY <1>1, <2>1, <2>2 DEF StopInv, InWorld
<1>6. CASE EndAdd
  BY <1>1, <1>6 DEF EndAdd, Adding, Listed, StopInv, InWorld
<1>7. CASE EndUpdate
  BY <1>7 DEF EndUpdate, Updating, StopInv, InWorld
<1>8. ASSUME NEW b \in Account, UpdateConnected(b) PROVE StopInv'
  <2>1. PICK s : s = m_sessions[b]
    OBVIOUS
  <2>2. /\ socket[s] = "open" /\ phase \in {"update", "stopUpdate"}
        /\ LogoutPlayer(s) \/ UNCHANGED m_player
        /\ UNCHANGED <<m_sessions, socket, phase>> /\ todo' = todo \ {b}
    BY <1>8, <2>1 DEF UpdateConnected, HasSocket, Updating
  <2>3. \A a \in Account : InWorld(a)' => InWorld(a)
    BY <1>1, <2>2 DEF InWorld, LogoutPlayer
  <2> QED BY <2>1, <2>2, <2>3 DEF StopInv, InWorld
<1>9. ASSUME NEW b \in Account, HandleLogoutRequestOpcode(b) PROVE StopInv'
  <2>1. PICK s : s = m_sessions[b]
    OBVIOUS
  <2>2. /\ LogoutPlayer(s) \/ UNCHANGED m_player
        /\ UNCHANGED <<m_sessions, socket, phase, todo>>
    BY <1>9, <2>1 DEF HandleLogoutRequestOpcode
  <2>3. \A a \in Account : InWorld(a)' => InWorld(a)
    BY <1>1, <2>2 DEF InWorld, LogoutPlayer
  <2> QED BY <1>2, <2>2, <2>3
<1>10. CASE HandlePlayerLogin
  BY <1>10 DEF HandlePlayerLogin, StopInv, InWorld
<1>11. CASE AddSession_Refuse
  <2>1. PICK s : s = Head(addSessQueue)
    OBVIOUS
  <2>2. s \in Sess /\ life[s] = "adding"
    BY <1>11, <2>1, NextSessionProps DEF AddSession_Refuse
  <2>3. /\ socket' = [socket EXCEPT ![s] = "reset"]
        /\ m_player' = [m_player EXCEPT ![s] = FALSE]
        /\ UNCHANGED <<m_sessions, phase, todo>>
    BY <1>11, <2>1, <2>2 DEF AddSession_Refuse, Destroy, LogoutPlayer
  <2>4. ASSUME NEW a \in Account, InWorld(a)'
        PROVE  /\ InWorld(a) /\ m_sessions'[a] = m_sessions[a]
               /\ socket[m_sessions[a]] # "open" => socket'[m_sessions[a]] # "open"
    <3>1. m_sessions[a] \in Sess /\ m_sessions[a] # s
      BY <1>1, <2>2, <2>3, <2>4 DEF InWorld
    <3> QED BY <1>1, <2>3, <2>4, <3>1 DEF InWorld
  <2> QED BY <1>2, <2>3, <2>4
<1>12. ASSUME NEW s \in Sess, \/ \E a \in Account : HandleAuthSession(s, a)
                              \/ AddSessionLock(s) \/ AddSessionUnlock(s) \/ Disconnect(s)
       PROVE  StopInv'
  <2>1. CASE \E a \in Account : HandleAuthSession(s, a)
    <3>1. /\ life[s] = "none" /\ socket' = [socket EXCEPT ![s] = "open"]
          /\ UNCHANGED <<m_sessions, m_player, phase, todo>>
      BY <2>1 DEF HandleAuthSession
    <3>2. \A a \in Account : InWorld(a)' =>
             InWorld(a) /\ m_sessions'[a] = m_sessions[a]
             /\ (socket[m_sessions[a]] # "open" => socket'[m_sessions[a]] # "open")
      BY <1>1, <3>1 DEF InWorld
    <3> QED BY <1>2, <3>1, <3>2
  <2>2. CASE Disconnect(s)
    <3>1. /\ socket' = [socket EXCEPT ![s] = "closed"]
          /\ UNCHANGED <<m_sessions, m_player, phase, todo>>
      BY <2>2 DEF Disconnect
    <3>2. \A a \in Account : InWorld(a)' =>
             InWorld(a) /\ m_sessions'[a] = m_sessions[a]
             /\ (socket[m_sessions[a]] # "open" => socket'[m_sessions[a]] # "open")
      BY <1>1, <3>1 DEF InWorld
    <3> QED BY <1>2, <3>1, <3>2
  <2>3. CASE AddSessionLock(s) \/ AddSessionUnlock(s)
    BY <1>2, <2>3 DEF AddSessionLock, AddSessionUnlock, InWorld
  <2> QED BY <1>12, <2>1, <2>2, <2>3
<1>13. CASE \E a \in Account : HandlePlayerLoginOpcode(a)
  BY <1>2, <1>13 DEF HandlePlayerLoginOpcode, InWorld
<1>14. CASE \/ MapUpdate \/ LoginCallbackNoSession \/ EndResults \/ EndCli
            \/ \E l \in PLimits : HandleServerPLimitCommand(l)
            \/ \E a \in Account : KickCommand(a)
  <2>1. phase \in {"maps", "results", "cli"} /\ phase' \in {"add", "results", "cli"}
    BY <1>14
    DEF MapUpdate, LoginCallbackNoSession, EndResults, EndCli, HandleServerPLimitCommand,
        KickCommand
  <2> QED BY <2>1 DEF StopInv
<1>15. CASE SqlExecute \/ UNCHANGED vars
  BY <1>2, <1>15 DEF SqlExecute, vars, InWorld
<1> QED
  BY <1>3, <1>4, <1>5, <1>6, <1>7, <1>8, <1>9, <1>10, <1>11, <1>12, <1>13, <1>14, <1>15, Zenon
  DEF Next, NetworkNext, PacketNext, LoopNext

LEMMA StopInit == Init => StopInv
  BY DEF Init, StopInv, InWorld

\* "save and kick all players" (CleanupsBeforeStop): in the stopped world no account has a
\* player left, unless it lost a session in the middle of a login.
THEOREM NobodyLeftBehind == Spec => []StoppedWithoutPlayers
<1>1. IInv /\ LoginInv /\ StopInv => StoppedWithoutPlayers
  BY DEF LoginInv, LoginSound, OwnsPlayers, StopInv, InWorld, StoppedWithoutPlayers
<1>2. IInv /\ LoginInv /\ [Next]_vars => LoginInv'
  BY LoginStep
<1>3. IInv /\ StopInv /\ [Next]_vars => StopInv'
  BY StopStep
<1> QED BY <1>1, <1>2, <1>3, LoginInit, StopInit, Invariance, PTL DEF Spec

-----------------------------------------------------------------------------
(* The planned shutdown *)

\* What is left of the plan, whether or not it is pending; CountdownAgrees follows.
CountdownInv ==
    /\ planned # NoPlan => waited <= planned.time
    /\ Pending => planned # NoPlan /\ m_ShutdownMask = planned.options
    /\ (Pending /\ ~m_stopEvent /\ ~wentBack) =>
          \/ m_ShutdownTimer = planned.time - waited
          \/ waited = planned.time /\ "idle" \in planned.options /\ m_ShutdownTimer = 1

\* Where m_ExitCode comes from.  Once the server is stopped the default that a
\* cancelled plan leaves is somebody's code as well: only the console thread can have
\* stopped it while a command was under way, and it does so with the default code.
CodeInv ==
    /\ \/ m_ExitCode \in stopCodes
       \/ planned # NoPlan /\ m_ExitCode = planned.exitcode
       \/ planned = NoPlan /\ m_ExitCode = SHUTDOWN_EXIT_CODE /\ ~m_stopEvent
    /\ command # NoPlan => pc \in {"sessions", "cli"}
    /\ command # NoPlan /\ m_stopEvent => SHUTDOWN_EXIT_CODE \in stopCodes
    /\ pc \in {"cleanup", "exited"} => m_stopEvent

ShutdownInv == ShutdownTypeOK /\ CountdownInv /\ CodeInv

\* The seconds of a tick are those of the clock unless it went back.
LEMMA ElapsedProps ==
  ASSUME sinceUpdate \in -MaxBack .. MaxJump
  PROVE  /\ Elapsed \in 0 .. Word - 1
         /\ sinceUpdate >= 0 => Elapsed = sinceUpdate
<1>1. /\ Word \in Nat \ {0} /\ MaxJump \in Nat /\ MaxBack \in Nat
      /\ MaxJump < Word /\ sinceUpdate \in Int
  BY ShutdownConstants
<1>2. sinceUpdate % Word \in 0 .. Word - 1
  BY <1>1
<1>3. ASSUME sinceUpdate >= 0 PROVE sinceUpdate % Word = sinceUpdate
  BY <1>1, <1>3, ShutdownConstants
<1> QED BY <1>2, <1>3 DEF Elapsed

LEMMA PlanProps ==
  ASSUME NEW p \in Plan
  PROVE  /\ p.time \in 0 .. Word - 1 /\ p.time \in Nat
         /\ p.options \in Mask /\ p.exitcode \in 0 .. 125
         /\ p # NoPlan /\ p # Cancel
<1>1. p.time \in Delay /\ p.options \in Mask /\ p.exitcode \in Code
  BY DEF Plan
<1>2. p # NoPlan /\ p # Cancel
  BY ShutdownValues
<1>3. p.time \in 0 .. Word - 1 /\ p.exitcode \in 0 .. 125
  BY <1>1, ShutdownConstants, Zenon
<1>4. p.time \in Nat
  BY <1>3, ShutdownConstants
<1> QED BY <1>1, <1>2, <1>3, <1>4, Zenon

\* The server starts as the invariant says.
THEOREM InitInv == ShutdownInit => ShutdownInv
<1> SUFFICES ASSUME ShutdownInit PROVE ShutdownInv
  OBVIOUS
<1>1. ShutdownTypeOK
  <2>1. cli \in [left : SUBSET Write, ended : BOOLEAN]
    BY DEF ShutdownInit
  <2>2. m_ShutdownMask \in Mask
    BY DEF ShutdownInit, Mask
  <2>3. /\ 0 \in 0 .. Word - 1 /\ 0 \in -MaxBack .. MaxJump /\ 0 \in 0 .. 125
        /\ 0 \in 0 .. MaxSessions /\ 0 \in 0 .. MaxCommands /\ 0 \in 0 .. MaxBacks
    BY ShutdownConstants
  <2> QED BY <2>1, <2>2, <2>3 DEF ShutdownInit, ShutdownTypeOK, SHUTDOWN_EXIT_CODE
<1>2. CountdownInv
  BY DEF ShutdownInit, CountdownInv, Pending
<1>3. CodeInv
  BY DEF ShutdownInit, CodeInv
<1> QED BY <1>1, <1>2, <1>3 DEF ShutdownInv

\* The tick that counts down.
LEMMA GameTimeInv == ShutdownInv /\ _UpdateGameTime => ShutdownInv'
<1> SUFFICES ASSUME ShutdownInv, _UpdateGameTime PROVE ShutdownInv'
  OBVIOUS
<1> USE DEF ShutdownInv
<1>1. /\ Elapsed \in 0 .. Word - 1
      /\ sinceUpdate >= 0 => Elapsed = sinceUpdate
  BY ElapsedProps DEF ShutdownTypeOK
<1>2. /\ Word \in Nat \ {0} /\ waited \in 0 .. Word - 1
      /\ m_ShutdownTimer \in 0 .. Word - 1 /\ sinceUpdate \in Int
  BY ShutdownConstants DEF ShutdownTypeOK
<1>3. planned # NoPlan => planned \in Plan /\ planned.time \in 0 .. Word - 1
  BY PlanProps DEF ShutdownTypeOK
<1>4. waited' \in 0 .. Word - 1 /\ (planned # NoPlan => waited' <= planned.time)
  BY <1>1, <1>2, <1>3 DEF _UpdateGameTime, Wait
<1>5. /\ m_ShutdownTimer' \in 0 .. Word - 1 /\ m_stopEvent' \in BOOLEAN
      /\ m_ShutdownTimer' > 0 => m_ShutdownTimer > 0
      /\ m_stopEvent => m_stopEvent'
  <2>1. CASE Overdue /\ ~m_stopEvent /\ m_ShutdownTimer > 0 /\ Elapsed > 0
    <3>1. m_ShutdownTimer' \in {m_ShutdownTimer, 1}
      BY <2>1 DEF Overdue
    <3>2. m_stopEvent' \in BOOLEAN
      BY <2>1 DEF Overdue, ShutdownTypeOK
    <3>3. 1 \in 0 .. Word - 1
      BY <2>1, <1>1, <1>2
    <3> QED BY <3>1, <3>2, <3>3, <2>1, <1>2
  <2>2. CASE Decrease /\ ~m_stopEvent /\ m_ShutdownTimer > 0 /\ Elapsed > 0
    <3>1. m_ShutdownTimer' \in 0 .. Word - 1
      BY <2>2, <1>1, <1>2 DEF Decrease
    <3> QED BY <3>1, <2>2 DEF Decrease, ShutdownTypeOK
  <2>3. CASE UNCHANGED <<m_ShutdownTimer, m_stopEvent>>
    BY <2>3, <1>2 DEF ShutdownTypeOK
  <2> QED BY <2>1, <2>2, <2>3, Zenon DEF _UpdateGameTime
<1>6. ShutdownTypeOK'
  <2>1. sinceUpdate' \in -MaxBack .. MaxJump
    BY ShutdownConstants DEF _UpdateGameTime
  <2>2. wentBack' \in BOOLEAN
    BY DEF _UpdateGameTime, Wait, ShutdownTypeOK
  <2>3. pc' = "sessions"
    BY DEF _UpdateGameTime
  <2>4. UNCHANGED <<command, sessions, m_ShutdownMask, m_ExitCode, backs, cli,
                    commands, stopCodes, planned>>
    BY DEF _UpdateGameTime, Wait
  <2> QED BY <1>4, <1>5, <2>1, <2>2, <2>3, <2>4 DEF ShutdownTypeOK
<1>7. CountdownInv'
  <2>1. Pending' => Pending
    BY <1>5 DEF Pending
  <2>2. UNCHANGED <<planned, m_ShutdownMask>>
    BY DEF _UpdateGameTime, Wait
  <2>3. ASSUME Pending', ~m_stopEvent', ~wentBack'
        PROVE  \/ m_ShutdownTimer' = planned.time - waited'
               \/ waited' = planned.time /\ "idle" \in planned.options
                  /\ m_ShutdownTimer' = 1
    <3>1. /\ Pending /\ ~m_stopEvent /\ ~wentBack /\ sinceUpdate >= 0
          /\ Elapsed = sinceUpdate
      <4>1. ~wentBack /\ ~(sinceUpdate < 0)
        BY <2>3, Zenon DEF _UpdateGameTime, Wait
      <4>2. Pending /\ ~m_stopEvent
        BY <2>1, <2>3, <1>5, Zenon
      <4>3. sinceUpdate >= 0
        BY <4>1, <1>2
      <4> QED BY <4>1, <4>2, <4>3, <1>1, Zenon
    <3>2. planned # NoPlan /\ m_ShutdownMask = planned.options
      BY <3>1 DEF CountdownInv
    <3>3. \/ m_ShutdownTimer = planned.time - waited
          \/ waited = planned.time /\ "idle" \in planned.options /\ m_ShutdownTimer = 1
      BY <3>1 DEF CountdownInv
    <3>4. waited' = IF waited + Elapsed >= planned.time THEN planned.time
                    ELSE waited + Elapsed
      BY <3>2 DEF _UpdateGameTime, Wait
    <3>5. CASE Elapsed = 0
      <4>1. m_ShutdownTimer' = m_ShutdownTimer
        BY <3>5 DEF _UpdateGameTime
      <4>2. waited <= planned.time
        BY <3>2 DEF CountdownInv
      <4>3. waited' = waited
        BY <3>2, <3>4, <3>5, <4>2, <1>2, <1>3
      <4> QED BY <3>3, <4>1, <4>3
    <3>6. CASE Elapsed > 0 /\ Overdue
      <4>1. "idle" \in planned.options /\ m_ShutdownTimer' = 1
        BY <2>3, <3>2, <3>6 DEF Overdue, MayShutDown
      <4>2. waited' = planned.time
        BY <3>2, <3>3, <3>4, <3>6, <1>1, <1>2, <1>3 DEF Overdue
      <4> QED BY <4>1, <4>2
    <3>7. CASE Elapsed > 0 /\ Decrease
      BY <3>2, <3>3, <3>4, <3>7, <1>1, <1>2, <1>3 DEF Decrease
    <3> QED BY <3>1, <3>5, <3>6, <3>7, <1>1, <1>2 DEF _UpdateGameTime, Pending
  <2> QED BY <2>1, <2>2, <2>3, <1>4 DEF CountdownInv
<1>8. CodeInv'
  <2>1. UNCHANGED <<m_ExitCode, stopCodes, planned, command>>
    BY DEF _UpdateGameTime, Wait
  <2>2. command = NoPlan /\ pc' = "sessions"
    BY DEF _UpdateGameTime, CodeInv
  <2>3. m_stopEvent' # m_stopEvent => planned # NoPlan
    BY DEF _UpdateGameTime, CountdownInv, Pending
  <2> QED BY <2>1, <2>2, <2>3, <1>5 DEF CodeInv, ShutdownTypeOK
<1> QED BY <1>6, <1>7, <1>8

\* The other steps of the world thread's loop and of the clock change neither the plan
\* nor the code.
LEMMA LoopInv ==
  ASSUME ShutdownInv,
         LoopCondition \/ UpdateSessions \/ EndTick \/ Exit \/ ClockTick \/ ClockSetBack
  PROVE  ShutdownInv'
<1> USE DEF ShutdownInv
<1>1. UNCHANGED <<command, m_ShutdownTimer, m_ShutdownMask, m_ExitCode, m_stopEvent, cli,
                  commands, planned, waited, wentBack, stopCodes>>
  BY DEF LoopCondition, UpdateSessions, EndTick, Exit, ClockTick, ClockSetBack,
         timerVars, planVars, clockVars
<1>2. pc' \in {"loop", "time", "sessions", "cli", "cleanup", "exited"}
  BY DEF LoopCondition, UpdateSessions, EndTick, Exit, ClockTick, ClockSetBack, ShutdownTypeOK
<1>3. sessions' \in 0 .. MaxSessions
  BY DEF LoopCondition, UpdateSessions, EndTick, Exit, ClockTick, ClockSetBack, ShutdownTypeOK
<1>4. sinceUpdate' \in -MaxBack .. MaxJump /\ backs' \in 0 .. MaxBacks
  BY ShutdownConstants
     DEF LoopCondition, UpdateSessions, EndTick, Exit, ClockTick, ClockSetBack, ShutdownTypeOK,
         clockVars
<1>5. ShutdownTypeOK'
  BY <1>1, <1>2, <1>3, <1>4 DEF ShutdownTypeOK
<1>6. CountdownInv'
  BY <1>1 DEF CountdownInv, Pending
<1>7. /\ command # NoPlan => pc' \in {"sessions", "cli"}
      /\ pc' \in {"cleanup", "exited"} => m_stopEvent
  BY DEF LoopCondition, UpdateSessions, EndTick, Exit, ClockTick, ClockSetBack, CodeInv
<1> QED BY <1>1, <1>5, <1>6, <1>7 DEF CodeInv

\* A command that has passed its guard has changed nothing yet.
LEMMA GuardInv ==
  ASSUME ShutdownInv, ShutdownServGuard \/ ShutdownCancelGuard
  PROVE  ShutdownInv'
<1> USE DEF ShutdownInv
<1>1. UNCHANGED <<pc, sessions, m_ShutdownTimer, m_ShutdownMask, m_ExitCode, m_stopEvent,
                  sinceUpdate, backs, cli, planned, waited, wentBack, stopCodes>>
  BY DEF ShutdownServGuard, ShutdownCancelGuard, timerVars, planVars, clockVars
<1>2. command' \in Plan \cup {Cancel} /\ ~m_stopEvent
  BY DEF ShutdownServGuard, ShutdownCancelGuard
<1>3. pc \in {"sessions", "cli"} /\ commands' \in 0 .. MaxCommands
  BY ShutdownConstants DEF ShutdownServGuard, ShutdownCancelGuard, MayCommand, ShutdownTypeOK
<1>4. ShutdownTypeOK'
  BY <1>1, <1>2, <1>3 DEF ShutdownTypeOK
<1>5. CountdownInv'
  BY <1>1 DEF CountdownInv, Pending
<1>6. CodeInv'
  BY <1>1, <1>2, <1>3 DEF CodeInv
<1> QED BY <1>4, <1>5, <1>6

\* A new plan: the timer, the mask and the code are its own.
LEMMA ServInv == ShutdownInv /\ ShutdownServ => ShutdownInv'
<1> SUFFICES ASSUME ShutdownInv, ShutdownServ PROVE ShutdownInv'
  OBVIOUS
<1> USE DEF ShutdownInv
<1>1. /\ command.time \in 0 .. Word - 1 /\ command.time \in Nat
      /\ command.options \in Mask /\ command.exitcode \in 0 .. 125
      /\ command # NoPlan /\ command \in Plan
  BY PlanProps DEF ShutdownServ
<1>2. /\ m_ShutdownMask' = command.options /\ m_ExitCode' = command.exitcode
      /\ command' = NoPlan /\ planned' = command /\ waited' = 0 /\ wentBack' = FALSE
      /\ UNCHANGED <<pc, sessions, sinceUpdate, backs, cli, commands, stopCodes>>
  BY DEF ShutdownServ, clockVars
<1>3. \/ m_ShutdownTimer' = command.time /\ UNCHANGED m_stopEvent
      \/ /\ m_ShutdownTimer' = 1 /\ UNCHANGED m_stopEvent
         /\ command.time = 0 /\ "idle" \in command.options
      \/ m_stopEvent' = TRUE /\ UNCHANGED m_ShutdownTimer
  BY DEF ShutdownServ, Schedule, MayShutDown
<1>4. 0 \in 0 .. Word - 1 /\ 1 \in 0 .. Word - 1
  BY ShutdownConstants
<1>5. m_ShutdownTimer' \in 0 .. Word - 1 /\ m_stopEvent' \in BOOLEAN
  BY <1>1, <1>3, <1>4 DEF ShutdownTypeOK
<1>6. ShutdownTypeOK'
  BY <1>1, <1>2, <1>4, <1>5 DEF ShutdownTypeOK
<1>7. CountdownInv'
  BY <1>1, <1>2, <1>3 DEF CountdownInv, Pending
<1>8. CodeInv'
  BY <1>1, <1>2 DEF CodeInv
<1> QED BY <1>6, <1>7, <1>8

\* A cancelled plan leaves the default code.
LEMMA CancelInv == ShutdownInv /\ ShutdownCancel => ShutdownInv'
<1> SUFFICES ASSUME ShutdownInv, ShutdownCancel PROVE ShutdownInv'
  OBVIOUS
<1> USE DEF ShutdownInv
<1>1. /\ m_ShutdownMask' = {} /\ m_ShutdownTimer' = 0
      /\ m_ExitCode' = SHUTDOWN_EXIT_CODE
      /\ command' = NoPlan /\ planned' = NoPlan /\ waited' = 0 /\ wentBack' = FALSE
      /\ UNCHANGED <<pc, sessions, m_stopEvent, sinceUpdate, backs, cli, commands, stopCodes>>
      /\ command # NoPlan
  BY ShutdownValues DEF ShutdownCancel, clockVars
<1>2. 0 \in 0 .. Word - 1 /\ 0 \in 0 .. 125 /\ {} \in Mask
  BY ShutdownConstants DEF Mask
<1>3. ShutdownTypeOK'
  BY <1>1, <1>2 DEF ShutdownTypeOK, SHUTDOWN_EXIT_CODE
<1>4. CountdownInv'
  BY <1>1 DEF CountdownInv, Pending
<1>5. CodeInv'
  BY <1>1 DEF CodeInv, ShutdownTypeOK
<1> QED BY <1>3, <1>4, <1>5

\* StopNow leaves its own code, wherever it comes from.
LEMMA StopNowInv == ShutdownInv /\ StopNow => ShutdownInv'
<1> SUFFICES ASSUME ShutdownInv, StopNow PROVE ShutdownInv'
  OBVIOUS
<1> USE DEF ShutdownInv
<1>1. /\ m_stopEvent' = TRUE /\ command = NoPlan
      /\ UNCHANGED <<pc, command, sessions, m_ShutdownTimer, m_ShutdownMask, sinceUpdate,
                     backs, cli, planned, waited, wentBack>>
  BY DEF StopNow, MayCommand, timerVars, planVars, clockVars
<1>2. /\ m_ExitCode' \in {SHUTDOWN_EXIT_CODE, ERROR_EXIT_CODE}
      /\ stopCodes' = stopCodes \cup {m_ExitCode'}
  BY DEF StopNow
<1>3. commands' \in 0 .. MaxCommands
  BY ShutdownConstants DEF StopNow, MayCommand, ShutdownTypeOK
<1>4. ShutdownTypeOK'
  BY <1>1, <1>2, <1>3 DEF ShutdownTypeOK, SHUTDOWN_EXIT_CODE, ERROR_EXIT_CODE
<1>5. CountdownInv'
  BY <1>1 DEF CountdownInv, Pending
<1>6. CodeInv'
  BY <1>1, <1>2 DEF CodeInv
<1> QED BY <1>4, <1>5, <1>6

LEMMA CliInv == ShutdownInv /\ (CliStopNow \/ CliEnd) => ShutdownInv'
<1> USE DEF ShutdownInv
<1>1. ASSUME ShutdownInv, CliStopNow PROVE ShutdownInv'
  <2>1. /\ UNCHANGED <<pc, command, sessions, m_ShutdownTimer, m_ShutdownMask, sinceUpdate,
                       backs, commands, planned, waited, wentBack>>
        /\ stopCodes' = stopCodes \cup {SHUTDOWN_EXIT_CODE}
    BY <1>1 DEF CliStopNow, timerVars, planVars, clockVars
  <2>2. /\ m_ExitCode' \in {m_ExitCode, SHUTDOWN_EXIT_CODE}
        /\ m_stopEvent' = m_stopEvent \/ m_stopEvent' = TRUE
    BY <1>1 DEF CliStopNow
  <2>3. cli' \in [left : SUBSET Write, ended : BOOLEAN]
    <3>1. PICK w \in Write : cli' = [cli EXCEPT !.left = cli.left \ {w}]
      BY <1>1 DEF CliStopNow, Write
    <3>2. cli \in [left : SUBSET Write, ended : BOOLEAN]
      BY <1>1 DEF ShutdownTypeOK
    <3> QED BY <3>1, <3>2
  <2>4. ShutdownTypeOK'
    <3>1. m_stopEvent' \in BOOLEAN
      BY <1>1, <2>2 DEF ShutdownTypeOK
    <3>2. m_ExitCode' \in 0 .. 125
      BY <1>1, <2>2 DEF ShutdownTypeOK, SHUTDOWN_EXIT_CODE
    <3>3. stopCodes' \subseteq {SHUTDOWN_EXIT_CODE, ERROR_EXIT_CODE}
      BY <1>1, <2>1 DEF ShutdownTypeOK
    <3> QED BY <1>1, <2>1, <2>3, <3>1, <3>2, <3>3 DEF ShutdownTypeOK
  <2>5. CountdownInv'
    BY <1>1, <2>1, <2>2 DEF CountdownInv, Pending, ShutdownTypeOK
  <2>6. CodeInv'
    <3>1. SHUTDOWN_EXIT_CODE \in stopCodes' /\ stopCodes \subseteq stopCodes'
      BY <2>1
    <3>2. \/ m_ExitCode' \in stopCodes'
          \/ planned' # NoPlan /\ m_ExitCode' = planned'.exitcode
      BY <1>1, <2>1, <2>2, <3>1 DEF CodeInv
    <3>3. pc' \in {"cleanup", "exited"} => m_stopEvent'
      BY <1>1, <2>1, <2>2 DEF CodeInv
    <3>4. command' # NoPlan => pc' \in {"sessions", "cli"}
      BY <1>1, <2>1 DEF CodeInv
    <3> QED BY <3>1, <3>2, <3>3, <3>4, Zenon DEF CodeInv
  <2> QED BY <2>4, <2>5, <2>6
<1>2. ASSUME ShutdownInv, CliEnd PROVE ShutdownInv'
  <2>1. UNCHANGED <<pc, command, sessions, m_ShutdownTimer, m_ShutdownMask, m_ExitCode,
                    m_stopEvent, sinceUpdate, backs, commands, planned, waited, wentBack,
                    stopCodes>>
    BY <1>2 DEF CliEnd, timerVars, planVars, clockVars
  <2>2. cli' \in [left : SUBSET Write, ended : BOOLEAN]
    BY <1>2 DEF CliEnd, ShutdownTypeOK
  <2>3. ShutdownTypeOK'
    BY <1>2, <2>1, <2>2 DEF ShutdownTypeOK
  <2> QED BY <1>2, <2>1, <2>3 DEF CountdownInv, CodeInv, Pending
<1> QED BY <1>1, <1>2

LEMMA StepInv == ShutdownInv /\ [ShutdownNext]_shutdownVars => ShutdownInv'
<1>1. CASE UNCHANGED shutdownVars
  BY <1>1 DEF ShutdownInv, ShutdownTypeOK, CountdownInv, CodeInv, Pending, shutdownVars, timerVars, planVars,
              clockVars
<1>2. CASE ShutdownNext
  BY <1>2, GameTimeInv, LoopInv, GuardInv, ServInv, CancelInv, StopNowInv, CliInv, Zenon
     DEF ShutdownNext, WorldStep
<1> QED BY <1>1, <1>2

\* The strengthened invariant holds in every behaviour.
THEOREM ShutdownInvariance == ShutdownSpec => []ShutdownInv
BY InitInv, StepInv, PTL DEF ShutdownSpec

\* Every variable keeps its type: the countdown does not wrap and the exit code is one a
\* shell can tell from its own.
THEOREM ShutdownTypeCorrect == ShutdownSpec => []ShutdownTypeOK
<1>1. ShutdownInv => ShutdownTypeOK
  BY DEF ShutdownInv
<1> QED BY <1>1, ShutdownInvariance, PTL

\* The timer is what is left of the delay the last command asked for.
THEOREM CountdownCorrect == ShutdownSpec => []CountdownAgrees
<1>1. ShutdownInv => CountdownAgrees
  BY DEF ShutdownInv, CountdownInv, CountdownAgrees
<1> QED BY <1>1, ShutdownInvariance, PTL

\* The code the server exits with is that of a plan that stands or of a StopNow.
THEOREM ExitCodeCorrect == ShutdownSpec => []ExitCodeStands
<1>1. ShutdownInv => ExitCodeStands
  BY DEF ShutdownInv, CodeInv, ExitCodeStands
<1> QED BY <1>1, ShutdownInvariance, PTL

\* One step stops the server only as planned.
LEMMA ShutdownStopStep ==
  ASSUME ShutdownInv, ShutdownNext, m_stopEvent', ~m_stopEvent, UNCHANGED <<cli, commands>>
  PROVE  /\ planned' # NoPlan
         /\ waited' = planned'.time \/ wentBack'
         /\ "idle" \in planned'.options => sessions = 0
<1> USE DEF ShutdownInv
<1>1. CASE _UpdateGameTime
  <2>1. Pending /\ Overdue /\ MayShutDown(m_ShutdownMask)
    BY <1>1, Zenon DEF _UpdateGameTime, Decrease, Overdue, Pending
  <2>2. planned # NoPlan /\ m_ShutdownMask = planned.options /\ planned' = planned
    BY <1>1, <2>1 DEF CountdownInv, _UpdateGameTime, Wait
  <2>3. waited' = planned.time \/ wentBack'
    <3>1. CASE wentBack
      BY <1>1, <3>1, Zenon DEF _UpdateGameTime, Wait
    <3>2. CASE ~wentBack
      <4>1. \/ m_ShutdownTimer = planned.time - waited
            \/ waited = planned.time
        BY <2>1, <3>2 DEF CountdownInv
      <4>2. waited' = IF waited + Elapsed >= planned.time THEN planned.time
                      ELSE waited + Elapsed
        BY <1>1, <2>2 DEF _UpdateGameTime, Wait
      <4>3. /\ Elapsed \in Nat /\ waited \in Nat /\ planned.time \in Nat
            /\ m_ShutdownTimer <= Elapsed
        BY <2>1, <2>2, PlanProps, ElapsedProps, ShutdownConstants DEF ShutdownTypeOK, Overdue
      <4> QED BY <4>1, <4>2, <4>3
    <3> QED BY <3>1, <3>2
  <2> QED BY <2>1, <2>2, <2>3 DEF MayShutDown
<1>2. CASE ShutdownServ
  <2>1. command.time = 0 /\ MayShutDown(command.options)
    BY <1>2, Zenon DEF ShutdownServ, Schedule
  <2>2. planned' = command /\ waited' = 0 /\ command # NoPlan
    BY <1>2, PlanProps DEF ShutdownServ
  <2> QED BY <2>1, <2>2 DEF MayShutDown
<1>3. CASE \/ LoopCondition \/ UpdateSessions \/ EndTick \/ ShutdownCancel \/ Exit
           \/ ShutdownServGuard \/ ShutdownCancelGuard \/ ClockTick \/ ClockSetBack \/ CliEnd
  <2>1. UNCHANGED m_stopEvent
    BY <1>3 DEF LoopCondition, UpdateSessions, EndTick, ShutdownCancel, Exit,
                ShutdownServGuard, ShutdownCancelGuard, ClockTick, ClockSetBack, CliEnd
  <2> QED BY <2>1
<1>4. CASE StopNow
  <2>1. commands' = commands + 1 /\ commands \in Int
    BY <1>4, ShutdownConstants DEF StopNow, MayCommand, ShutdownTypeOK
  <2> QED BY <2>1
<1>5. CASE CliStopNow
  <2>1. PICK w \in cli.left : cli' = [cli EXCEPT !.left = cli.left \ {w}]
    BY <1>5 DEF CliStopNow
  <2>2. cli'.left = cli.left \ {w}
    BY <2>1 DEF ShutdownTypeOK
  <2> QED BY <2>1, <2>2
<1> QED BY <1>1, <1>2, <1>3, <1>4, <1>5, Zenon DEF ShutdownNext, WorldStep

\* The world thread stops the server only for a plan that stands and is due.
THEOREM StopsCorrect == ShutdownSpec => StopsAsPlanned
<1>1. ShutdownInv /\ [ShutdownNext]_shutdownVars =>
        [ (m_stopEvent' /\ ~m_stopEvent /\ UNCHANGED <<cli, commands>>) =>
             /\ planned' # NoPlan
             /\ waited' = planned'.time \/ wentBack'
             /\ "idle" \in planned'.options => sessions = 0 ]_shutdownVars
  BY ShutdownStopStep, Zenon
<1> QED BY <1>1, ShutdownInvariance, PTL DEF ShutdownSpec, StopsAsPlanned

=============================================================================
