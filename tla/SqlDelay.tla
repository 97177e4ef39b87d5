------------------------------- MODULE SqlDelay -------------------------------
(***************************************************************************)
(* One Database object: writes, transactions and queries that any thread   *)
(* hands to the delay thread (Database.cpp, SqlOperations.cpp,             *)
(* SqlDelayThread.cpp), the results that come back to the world thread,    *)
(* and the halt.  Direct statements and startup, when asynchronous         *)
(* transactions are not allowed yet, share the delay thread's connection.  *)
(***************************************************************************)
EXTENDS Integers, Sequences

CONSTANTS
    Caller,         \* threads that use the database, "world" among them
    MaxCalls,       \* bound: calls of the interface in a behaviour
    None

ASSUME DelayConstants ==
    /\ "world" \in Caller /\ "delay" \notin Caller
    /\ MaxCalls \in Nat

VARIABLES
    calls,          \* how many calls were made; numbers the operations
    helpersMade,    \* whether m_TransStorage holds a TransHelper on every thread;
                    \* nothing in the code puts one there
    m_pTrans,       \* TransHelper::m_pTrans of each thread: statements, or None
    m_bAllowAsyncTransactions,
    m_sqlQueue,     \* SqlDelayThread::m_sqlQueue
    adding,         \* the operation whose thread holds the queue's lock
    m_running,      \* SqlDelayThread::m_running
    delay,          \* where the delay thread is
    conn,           \* the transaction that holds the connection's lock, or None
    db,             \* history: the writes that took effect
    m_pResultQueue, \* queries that were executed and wait for their callbacks
    called,         \* history: queries whose callbacks were executed
    crashed         \* history: a thread went through a null TransHelper

callerVars == <<calls, helpersMade, m_pTrans, m_bAllowAsyncTransactions>>
threadVars == <<m_running, delay>>
resultVars == <<m_pResultQueue, called>>
vars == <<callerVars, m_sqlQueue, adding, threadVars, conn, db, resultVars, crashed>>

Id == 1 .. MaxCalls
Write == [id : Id, by : Caller, how : {"delayed", "now", "direct"}]
Op == [kind : {"plain", "transaction", "query"}, id : Id, by : Caller, stmts : Seq(Write)]
Transaction == [op : Op, done : Seq(Write), on : Caller \cup {"delay"}]

\* The null pointer is no object.
ASSUME NoneIsNothing == None \notin Seq(Id) /\ None \notin Op /\ None \notin Transaction

TypeOK ==
    /\ calls \in 0 .. MaxCalls
    /\ helpersMade \in BOOLEAN
    /\ m_pTrans \in [Caller -> Seq(Id) \cup {None}]
    /\ m_bAllowAsyncTransactions \in BOOLEAN
    /\ m_sqlQueue \in Seq(Op)
    /\ adding \in Op \cup {None}
    /\ m_running \in BOOLEAN
    /\ delay \in {"check", "process", "ended", "flush", "deleted", "leaked"}
    /\ conn \in Transaction \cup {None}
    /\ conn # None => conn.done = SubSeq(conn.op.stmts, 1, Len(conn.done))
    /\ db \in Seq(Write)
    /\ m_pResultQueue \in Seq(Op)
    /\ called \in Seq(Id)
    /\ crashed \in BOOLEAN

Init ==
    /\ calls = 0 /\ helpersMade \in BOOLEAN
    /\ m_pTrans = [t \in Caller |-> None]
    /\ m_bAllowAsyncTransactions = FALSE
    /\ m_sqlQueue = << >> /\ adding = None
    /\ m_running = TRUE /\ delay = "check"
    /\ conn = None /\ db = << >>
    /\ m_pResultQueue = << >> /\ called = << >>
    /\ crashed = FALSE

Writes(ids, t, how) == [i \in 1 .. Len(ids) |-> [id |-> ids[i], by |-> t, how |-> how]]
Operation(kind, id, t, stmts) == [kind |-> kind, id |-> id, by |-> t, stmts |-> stmts]

-----------------------------------------------------------------------------
(* The interface, on any thread *)

\* Thread t is not inside an earlier call.  While the server starts only the world
\* thread runs; the others are gone before HaltDelayThread.
Free(t) ==
    /\ ~crashed
    /\ m_running
    /\ adding # None => adding.by # t
    /\ conn # None => conn.on # t
    /\ t # "world" => m_bAllowAsyncTransactions

MayCall(t) == Free(t) /\ calls < MaxCalls

Count == calls' = calls + 1

\* SqlDelayThread::Delay: the queue's lock is taken ...
Delay(op) == adding = None /\ adding' = op

\* ... and the operation is appended.
Add ==
    /\ ~crashed
    /\ adding # None
    /\ m_sqlQueue' = Append(m_sqlQueue, adding)
    /\ adding' = None
    /\ UNCHANGED <<callerVars, threadVars, conn, db, resultVars, crashed>>

\* One statement on the connection, under its lock: it takes effect or fails.
ExecuteNow(write) == conn = None /\ db' \in {db, Append(db, write)}

\* m_TransStorage->get() with nothing in the thread's storage.
NullHelper(t) ==
    /\ ~helpersMade
    /\ MayCall(t)
    /\ crashed' = TRUE
    /\ UNCHANGED <<callerVars, m_sqlQueue, adding, threadVars, conn, db, resultVars>>

\* Database::Execute and ExecuteStmt.
ExecuteInTransaction(t) ==
    /\ helpersMade /\ MayCall(t) /\ m_pTrans[t] # None
    /\ Count
    /\ m_pTrans' = [m_pTrans EXCEPT ![t] = Append(@, calls')]
    /\ UNCHANGED <<helpersMade, m_bAllowAsyncTransactions, m_sqlQueue, adding, threadVars, conn, db,
                   resultVars, crashed>>

ExecuteAtStartup(t) ==
    /\ helpersMade /\ MayCall(t) /\ m_pTrans[t] = None
    /\ ~m_bAllowAsyncTransactions
    /\ Count
    /\ ExecuteNow(Writes(<<calls'>>, t, "now")[1])
    /\ UNCHANGED <<helpersMade, m_pTrans, m_bAllowAsyncTransactions, m_sqlQueue, adding, threadVars, conn,
                   resultVars, crashed>>

ExecuteDelayed(t) ==
    /\ helpersMade /\ MayCall(t) /\ m_pTrans[t] = None
    /\ m_bAllowAsyncTransactions
    /\ Count
    /\ Delay(Operation("plain", calls', t, Writes(<<calls'>>, t, "delayed")))
    /\ UNCHANGED <<helpersMade, m_pTrans, m_bAllowAsyncTransactions, m_sqlQueue, threadVars, conn, db,
                   resultVars, crashed>>

\* DirectExecute.
DirectExecute(t) ==
    /\ MayCall(t)
    /\ Count
    /\ ExecuteNow(Writes(<<calls'>>, t, "direct")[1])
    /\ UNCHANGED <<helpersMade, m_pTrans, m_bAllowAsyncTransactions, m_sqlQueue, adding, threadVars, conn,
                   resultVars, crashed>>

\* "if we will get a nested transaction request - we MUST fix code": callers do not nest.
BeginTransaction(t) ==
    /\ helpersMade /\ MayCall(t) /\ m_pTrans[t] = None
    /\ Count
    /\ m_pTrans' = [m_pTrans EXCEPT ![t] = << >>]
    /\ UNCHANGED <<helpersMade, m_bAllowAsyncTransactions, m_sqlQueue, adding, threadVars, conn, db,
                   resultVars, crashed>>

Detach(t) == m_pTrans' = [m_pTrans EXCEPT ![t] = None]

\* Part of SqlTransaction::Execute: an empty transaction does nothing; else the
\* connection is locked and a transaction is opened.
BeginOn(thread, op) ==
    IF op.stmts = << >> THEN UNCHANGED conn
    ELSE conn = None /\ conn' = [op |-> op, done |-> << >>, on |-> thread]

CommitTransaction(t) ==
    /\ helpersMade /\ Free(t) /\ m_pTrans[t] # None
    /\ m_bAllowAsyncTransactions
    /\ Detach(t)
    /\ Delay(Operation("transaction", calls, t, Writes(m_pTrans[t], t, "delayed")))
    /\ UNCHANGED <<calls, helpersMade, m_bAllowAsyncTransactions, m_sqlQueue, threadVars, conn, db,
                   resultVars, crashed>>

CommitTransactionDirect(t) ==
    /\ helpersMade /\ Free(t) /\ m_pTrans[t] # None
    /\ ~m_bAllowAsyncTransactions
    /\ Detach(t)
    /\ BeginOn(t, Operation("transaction", calls, t, Writes(m_pTrans[t], t, "now")))
    /\ UNCHANGED <<calls, helpersMade, m_bAllowAsyncTransactions, m_sqlQueue, adding, threadVars, db,
                   resultVars, crashed>>

RollbackTransaction(t) ==
    /\ helpersMade /\ Free(t) /\ m_pTrans[t] # None
    /\ Detach(t)
    /\ UNCHANGED <<calls, helpersMade, m_bAllowAsyncTransactions, m_sqlQueue, adding, threadVars, conn, db,
                   resultVars, crashed>>

\* AsyncQuery and DelayQueryHolder do not look at the thread's transaction.
AsyncQuery(t) ==
    /\ MayCall(t)
    /\ Count
    /\ Delay(Operation("query", calls', t, << >>))
    /\ UNCHANGED <<helpersMade, m_pTrans, m_bAllowAsyncTransactions, m_sqlQueue, threadVars, conn, db,
                   resultVars, crashed>>

AllowAsyncTransactions ==
    /\ Free("world")
    /\ ~m_bAllowAsyncTransactions
    /\ m_bAllowAsyncTransactions' = TRUE
    /\ UNCHANGED <<calls, helpersMade, m_pTrans, m_sqlQueue, adding, threadVars, conn, db, resultVars,
                   crashed>>

-----------------------------------------------------------------------------
(* The rest of SqlTransaction::Execute, on the thread that holds the connection *)

Mutant_Rollback == conn' = None /\ db' = db \o conn.done
Rollback == conn' = None /\ UNCHANGED db

NextStatement(tx) == tx.op.stmts[Len(tx.done) + 1]

TransactionStep ==
    /\ ~crashed
    /\ conn # None /\ Len(conn.done) < Len(conn.op.stmts)
    /\ \/ /\ conn' = [conn EXCEPT !.done = Append(@, NextStatement(conn))]
          /\ UNCHANGED db
       \/ Rollback
    /\ UNCHANGED <<callerVars, m_sqlQueue, adding, threadVars, resultVars, crashed>>

Commit ==
    /\ ~crashed
    /\ conn # None /\ Len(conn.done) = Len(conn.op.stmts)
    /\ conn' = None
    /\ db' \in {db, db \o conn.done}
    /\ UNCHANGED <<callerVars, m_sqlQueue, adding, threadVars, resultVars, crashed>>

-----------------------------------------------------------------------------
(* The delay thread *)

\* run(): while (m_running).
CheckRunning ==
    /\ ~crashed
    /\ delay = "check"
    /\ delay' = IF m_running THEN "process" ELSE "ended"
    /\ UNCHANGED <<callerVars, m_sqlQueue, adding, m_running, conn, db, resultVars,
                   crashed>>

Processing == delay \in {"process", "flush"} /\ (conn # None => conn.on # "delay")

\* next() gives up when the queue is empty or another thread holds its lock.
MayTake == adding = None /\ m_sqlQueue # << >>

Mutant_EndProcess ==
    /\ ~crashed
    /\ Processing /\ ~MayTake
    /\ delay' = IF delay = "process" THEN "ended" ELSE "deleted"
    /\ UNCHANGED <<callerVars, m_sqlQueue, adding, m_running, conn, db, resultVars, crashed>>
EndProcess ==
    /\ ~crashed
    /\ Processing /\ ~MayTake
    /\ delay' = IF delay = "process" THEN "check" ELSE "deleted"
    /\ UNCHANGED <<callerVars, m_sqlQueue, adding, m_running, conn, db, resultVars,
                   crashed>>

\* s->Execute(m_dbConnection).
Perform(op) ==
    \/ op.kind = "plain" /\ ExecuteNow(op.stmts[1]) /\ UNCHANGED <<conn, m_pResultQueue>>
    \/ op.kind = "transaction" /\ BeginOn("delay", op) /\ UNCHANGED <<db, m_pResultQueue>>
    \/ /\ op.kind = "query" /\ conn = None
       /\ m_pResultQueue' = Append(m_pResultQueue, op)
       /\ UNCHANGED <<conn, db>>

ProcessRequest ==
    /\ ~crashed
    /\ Processing /\ MayTake
    /\ Perform(Head(m_sqlQueue))
    /\ m_sqlQueue' = Tail(m_sqlQueue)
    /\ UNCHANGED <<callerVars, adding, threadVars, called, crashed>>

-----------------------------------------------------------------------------
(* The world thread *)

\* SqlResultQueue::Update.
ProcessResultQueue ==
    /\ Free("world")
    /\ m_pResultQueue # << >>
    /\ called' = Append(called, Head(m_pResultQueue).id)
    /\ m_pResultQueue' = Tail(m_pResultQueue)
    /\ UNCHANGED <<callerVars, m_sqlQueue, adding, threadVars, conn, db, crashed>>

\* HaltDelayThread, after the other threads have ended: Stop() ...
HaltDelayThread ==
    /\ m_bAllowAsyncTransactions
    /\ \A t \in Caller : Free(t) /\ m_pTrans[t] = None
    /\ m_running' = FALSE
    /\ UNCHANGED <<callerVars, m_sqlQueue, adding, delay, conn, db, resultVars, crashed>>

\* ... wait(), and the deletion of m_delayThread, which deletes the SqlDelayThread if
\* Runnable::m_refs falls to zero; its destructor processes the rest of the queue.
\* m_refs is never initialised: unless it began as zero, the object is never deleted.
Mutant_DeleteThread ==
    /\ delay = "ended"
    /\ delay' \in {"deleted", "leaked"}
    /\ UNCHANGED <<callerVars, m_sqlQueue, adding, m_running, conn, db, resultVars, crashed>>
DeleteThread ==
    /\ ~crashed
    /\ delay = "ended"
    /\ delay' \in {"flush", "leaked"}
    /\ UNCHANGED <<callerVars, m_sqlQueue, adding, m_running, conn, db, resultVars, crashed>>

-----------------------------------------------------------------------------

DelayThread == CheckRunning \/ EndProcess \/ ProcessRequest

Call(t) ==
    \/ NullHelper(t)
    \/ ExecuteInTransaction(t) \/ ExecuteAtStartup(t) \/ ExecuteDelayed(t)
    \/ DirectExecute(t)
    \/ BeginTransaction(t)
    \/ CommitTransaction(t) \/ CommitTransactionDirect(t) \/ RollbackTransaction(t)
    \/ AsyncQuery(t)

Next ==
    \/ \E t \in Caller : Call(t)
    \/ Add
    \/ AllowAsyncTransactions
    \/ TransactionStep \/ Commit
    \/ DelayThread
    \/ ProcessResultQueue
    \/ HaltDelayThread \/ DeleteThread

\* The delay thread runs, a thread inside a call comes to its end, the world thread
\* empties its results in every update and finishes the halt it has begun.
Spec == /\ Init /\ [][Next]_vars
        /\ WF_vars(DelayThread)
        /\ WF_vars(Add) /\ WF_vars(TransactionStep \/ Commit)
        /\ WF_vars(ProcessResultQueue) /\ WF_vars(DeleteThread)

-----------------------------------------------------------------------------
(* Properties *)

\* Every operation of the queue is carried out as a whole or not at all, in the order of
\* handing over and as long as the delay thread lives, although a transaction's
\* statements run one by one, callers use the same connection and each may fail.
Store == INSTANCE OrderedStore WITH
            pending <- (IF conn # None /\ conn.on = "delay" THEN <<conn.op>> ELSE << >>)
                       \o m_sqlQueue,
            store <- db,
            gone <- delay \in {"deleted", "leaked"} \/ crashed

AppliesInOrder == Store!StoreSpec

\* A thread's writes take effect in the order in which it made them, in and out of
\* transactions and across the end of the startup; only DirectExecute overtakes.
WritesInOrder ==
    /\ TypeOK
    /\ \A i, j \in DOMAIN db :
          i < j /\ db[i].by = db[j].by /\ "direct" \notin {db[i].how, db[j].how} =>
              db[i].id < db[j].id

\* "process all requests which might have been queued while thread was stopping": when
\* the destructor of the delay thread has run, nothing is left in the queue.
NothingLeftBehind == delay = "deleted" => m_sqlQueue = << >>

\* Both together: no accepted write is lost by the halt or overtaken by a later one.
WritesKept == WritesInOrder /\ NothingLeftBehind

\* While the server runs, a query that was accepted calls back.
Asked(q) == \E i \in DOMAIN m_sqlQueue : m_sqlQueue[i].kind = "query" /\ m_sqlQueue[i].id = q
CallsBack ==
    \A q \in Id : Asked(q) ~>
        ((\E i \in DOMAIN called : called[i] = q) \/ ~m_running \/ crashed)

=============================================================================
