----------------------------- MODULE DatabasePool -----------------------------
(***************************************************************************)
(* DatabaseWorkerPool: the queue of asynchronous operations, the worker    *)
(* threads with a connection each, the synchronous connections that        *)
(* callers lock, and how MySQLConnection runs a statement or a             *)
(* transaction on a server that may answer with an error, a deadlock or    *)
(* not at all.                                                             *)
(*                                                                         *)
(* The server is external.  A connection is in autocommit mode unless a    *)
(* transaction is open on it; START TRANSACTION commits what is open; a    *)
(* deadlock or a lost connection rolls it back; a lost connection may or   *)
(* may not have carried out the statement it was lost in; a statement that *)
(* is refused does nothing, and leaves open what is open.                  *)
(***************************************************************************)
EXTENDS Naturals, Sequences, FiniteSets

CONSTANTS
    Workers,      \* asynchronous connections, one thread each
    Synch,        \* synchronous connections
    Singles,      \* operations of one statement (Execute, AsyncQuery)
    Transactions, \* transactions given to CommitTransaction
    Directs,      \* transactions given to DirectCommitTransaction
    Size,         \* statements of a transaction
    Retries,      \* loopBreaker
    MaxFaults,    \* bound: faults of the server
    NoOp          \* "no operation"

Conns == Workers \cup Synch
Async == Singles \cup Transactions
Ops == Async \cup Directs
Length(op) == IF op \in Singles THEN 1 ELSE Size
Statements(op) == {<<op, k>> : k \in 1 .. Length(op)}

ASSUME PoolAssumption ==
    /\ Size \in Nat \ {0} /\ Retries \in Nat /\ MaxFaults \in Nat
    /\ NoOp \notin Ops /\ Workers \cap Synch = {} /\ IsFiniteSet(Workers)
    /\ Singles \cap Transactions = {} /\ Async \cap Directs = {}

VARIABLES
    queue,        \* the ACE activation queue
    order,        \* every operation enqueued so far, in order (history)
    pool,         \* "open", "closing", "closed" or "crashed"
    job,          \* the operation a connection executes
    phase,        \* which statement of it is sent next
    pos,          \* position in the transaction's list of queries
    tries,        \* executions of the transaction so far
    errno,        \* mysql_errno of the connection
    down,         \* connections whose m_Mysql is NULL
    tx,           \* connections with an open transaction (server)
    unc,          \* statements done in the open transaction (server)
    db,           \* statements that are durable, in order (server)
    outcome,      \* what Execute returned, or the future's value
    hit           \* the faults an operation met, and "open" if it found a
                  \* transaction of another one open (history)

poolVars == <<queue, order, pool>>
connVars == <<job, phase, pos, tries, errno, down>>
serverVars == <<tx, unc, db>>
vars == <<poolVars, connVars, serverVars, outcome, hit>>

Init ==
    /\ queue = <<>> /\ order = <<>> /\ pool = "open"
    /\ job = [c \in Conns |-> NoOp] /\ phase = [c \in Conns |-> "idle"]
    /\ pos = [c \in Conns |-> 1] /\ tries = [c \in Conns |-> 0]
    /\ errno = [c \in Conns |-> "none"] /\ down = {}
    /\ tx = {} /\ unc = [c \in Conns |-> <<>>] /\ db = <<>>
    /\ outcome = [op \in Ops |-> "none"] /\ hit = [op \in Ops |-> <<>>]

Elems(s) == {s[i] : i \in 1 .. Len(s)}
Faults == {i \in Ops \X (1 .. MaxFaults) :
              i[2] <= Len(hit[i[1]]) /\ hit[i[1]][i[2]] # "open"}
MayFail == Cardinality(Faults) < MaxFaults
Hits(c, kind) == hit' = [hit EXCEPT ![job[c]] = Append(@, kind)]
Met(op, kind) == kind \in Elems(hit[op])

-----------------------------------------------------------------------------
(* Enqueue: Execute, AsyncQuery, CommitTransaction...                      *)
Enqueue(op) ==
    /\ pool = "open" /\ op \in Async \ Elems(order)
    /\ queue' = Append(queue, op) /\ order' = Append(order, op)
    /\ UNCHANGED <<pool, connVars, serverVars, outcome, hit>>

Start(c, op) ==
    /\ job' = [job EXCEPT ![c] = op]
    /\ phase' = [phase EXCEPT ![c] = IF op \in Singles THEN "stmt" ELSE "begin"]
    /\ pos' = [pos EXCEPT ![c] = 1] /\ tries' = [tries EXCEPT ![c] = 0]
    /\ UNCHANGED <<order, pool, errno, down, serverVars, outcome, hit>>

(* Faulty variant: the newest operation is taken.                          *)
Dequeue_Newest(c) ==
    /\ phase[c] = "idle" /\ c \in Workers /\ pool = "open" /\ queue # <<>>
    /\ queue' = SubSeq(queue, 1, Len(queue) - 1)
    /\ Start(c, queue[Len(queue)])

(* Faulty variant: the operation is not taken off the queue.               *)
Dequeue_Peeks(c) ==
    /\ phase[c] = "idle" /\ c \in Workers /\ pool = "open" /\ queue # <<>>
    /\ queue' = IF Len(queue) = 1 THEN queue ELSE Tail(queue)
    /\ Start(c, Head(queue))

(* DatabaseWorker::svc takes the oldest operation.                         *)
Dequeue(c) ==
    /\ phase[c] = "idle" /\ c \in Workers /\ pool = "open" /\ queue # <<>>
    /\ queue' = Tail(queue)
    /\ Start(c, Head(queue))

(* DirectCommitTransaction: GetFreeConnection finds a connection whose     *)
(* mutex is free, and holds it until the transaction is over.              *)
DirectCommit(c, op) ==
    /\ phase[c] = "idle" /\ c \in Synch /\ pool = "open"
    /\ op \in Directs /\ outcome[op] = "none" /\ \A d \in Synch : job[d] # op
    /\ Start(c, op)
    /\ UNCHANGED queue

(* The end of an operation: TransactionTask::Execute or the statement task *)
(* has returned, the future is set, the connection is free again.          *)
Finish(c, result) ==
    /\ outcome' = [outcome EXCEPT ![job[c]] = result]
    /\ job' = [job EXCEPT ![c] = NoOp] /\ phase' = [phase EXCEPT ![c] = "idle"]
    /\ UNCHANGED <<pos, tries>>

Goto(c, p) == phase' = [phase EXCEPT ![c] = p] /\ UNCHANGED <<job, pos, tries, outcome>>

(* What the server does with the statements of a transaction on c.         *)
RollBack(c) == tx' = tx \ {c} /\ unc' = [unc EXCEPT ![c] = <<>>] /\ UNCHANGED db
MakeDurable(c) == db' = db \o unc[c] /\ tx' = tx \ {c} /\ unc' = [unc EXCEPT ![c] = <<>>]
Apply(c, s) ==
    IF c \in tx THEN unc' = [unc EXCEPT ![c] = Append(@, s)] /\ UNCHANGED <<tx, db>>
                ELSE db' = Append(db, s) /\ UNCHANGED <<tx, unc>>

NoError(c) == errno' = [errno EXCEPT ![c] = "none"]

(* MySQLConnection::BeginTransaction.                                      *)
BeginTransaction(c) ==
    /\ phase[c] = "begin" /\ c \notin down
    /\ db' = db \o unc[c] /\ unc' = [unc EXCEPT ![c] = <<>>] /\ tx' = tx \cup {c}
    /\ NoError(c) /\ UNCHANGED <<hit, down, poolVars>>
    /\ phase' = [phase EXCEPT ![c] = "stmt"] /\ pos' = [pos EXCEPT ![c] = 1]
    /\ UNCHANGED <<job, tries, outcome>>

(* Faulty variant: the loop does not stop at the end of the list.          *)
Execute_PastEnd(c) ==
    /\ phase[c] = "stmt" /\ c \notin down
    /\ Apply(c, <<job[c], pos[c]>>) /\ NoError(c)
    /\ IF job[c] \in Singles THEN Finish(c, "ok")
       ELSE IF pos[c] > Size THEN Goto(c, "commit")
       ELSE pos' = [pos EXCEPT ![c] = @ + 1] /\ UNCHANGED <<job, phase, tries, outcome>>
    /\ UNCHANGED <<poolVars, down, hit>>

(* MySQLConnection::Execute with a statement the server accepts.           *)
Execute(c) ==
    /\ phase[c] = "stmt" /\ c \notin down
    /\ Apply(c, <<job[c], pos[c]>>) /\ NoError(c)
    /\ IF job[c] \in Singles THEN Finish(c, "ok")
       ELSE IF pos[c] = Size THEN Goto(c, "commit")
       ELSE pos' = [pos EXCEPT ![c] = @ + 1] /\ UNCHANGED <<job, phase, tries, outcome>>
    /\ IF job[c] \in Singles /\ c \in tx THEN Hits(c, "open") ELSE UNCHANGED hit
    /\ UNCHANGED <<poolVars, down>>

(* Faulty variant: a failed query does not abort the transaction.          *)
ExecuteFails_GoesOn(c) ==
    /\ phase[c] = "stmt" /\ c \notin down /\ MayFail
    /\ Hits(c, "refused") /\ UNCHANGED serverVars
    /\ errno' = [errno EXCEPT ![c] = "refused"]
    /\ IF job[c] \in Singles THEN Finish(c, "failed")
       ELSE IF pos[c] = Size THEN Goto(c, "commit")
       ELSE pos' = [pos EXCEPT ![c] = @ + 1] /\ UNCHANGED <<job, phase, tries, outcome>>
    /\ UNCHANGED <<poolVars, down>>

(* Faulty variant: the task of a failed statement never sets its future.   *)
ExecuteFails_NoResult(c) ==
    /\ phase[c] = "stmt" /\ c \notin down /\ MayFail
    /\ \E kind \in {"refused", "deadlock"} :
        /\ Hits(c, kind) /\ errno' = [errno EXCEPT ![c] = kind]
        /\ IF kind = "deadlock" THEN RollBack(c) ELSE UNCHANGED serverVars
    /\ IF job[c] \in Singles
         THEN /\ job' = [job EXCEPT ![c] = NoOp] /\ phase' = [phase EXCEPT ![c] = "idle"]
              /\ UNCHANGED <<pos, tries, outcome>>
         ELSE Goto(c, "rollback")
    /\ UNCHANGED <<poolVars, down>>

(* MySQLConnection::Execute with an error _HandleMySQLErrno does not       *)
(* handle: the statement is refused (ER_DUP_ENTRY...), or the server chose *)
(* it as a deadlock victim (1213).                                         *)
ExecuteFails(c) ==
    /\ phase[c] = "stmt" /\ c \notin down /\ MayFail
    /\ \E kind \in {"refused", "deadlock"} :
        /\ Hits(c, kind) /\ errno' = [errno EXCEPT ![c] = kind]
        /\ IF kind = "deadlock" THEN RollBack(c) ELSE UNCHANGED serverVars
    /\ IF job[c] \in Singles THEN Finish(c, "failed") ELSE Goto(c, "rollback")
    /\ UNCHANGED <<poolVars, down>>

(* RollbackTransaction: a statement like any other, whose success resets   *)
(* mysql_errno.                                                            *)
RollbackTransaction(c) ==
    /\ phase[c] = "rollback" /\ c \notin down
    /\ RollBack(c) /\ NoError(c)
    /\ Goto(c, "failed")
    /\ UNCHANGED <<poolVars, down, hit>>

(* Faulty variant: the task reports success once the rollback is done.     *)
TransactionFailed_ReportsOk(c) ==
    /\ phase[c] = "failed"
    /\ Finish(c, "ok")
    /\ UNCHANGED <<errno, down, poolVars, serverVars, hit>>

(* ExecuteTransaction returned false to TransactionTask::Execute or        *)
(* DirectCommitTransaction: when GetLastError is 1213 it is executed up to *)
(* Retries times more, whatever their errors are.                          *)
TransactionFailed(c) ==
    /\ phase[c] = "failed"
    /\ IF (tries[c] = 0 /\ errno[c] = "deadlock") \/ tries[c] \in 1 .. (Retries - 1)
         THEN /\ phase' = [phase EXCEPT ![c] = "begin"]
              /\ tries' = [tries EXCEPT ![c] = @ + 1]
              /\ UNCHANGED <<job, pos, outcome>>
         ELSE Finish(c, "failed")
    /\ UNCHANGED <<errno, down, poolVars, serverVars, hit>>

(* CommitTransaction; its result is not looked at.                         *)
CommitTransaction(c) ==
    /\ phase[c] = "commit" /\ c \notin down
    /\ MakeDurable(c) /\ NoError(c)
    /\ Finish(c, "ok")
    /\ UNCHANGED <<poolVars, down, hit>>

(* The connection breaks in a statement; whether the server had carried it *)
(* out by then is not known.                                               *)
Breaks(c) ==
    /\ phase[c] \in {"begin", "stmt", "rollback", "commit"} /\ c \notin down /\ MayFail
    /\ Hits(c, "lost") /\ NoError(c)
    /\ \/ RollBack(c)
       \/ phase[c] \in {"begin", "commit"} /\ c \in tx /\ MakeDurable(c)
       \/ /\ phase[c] = "stmt" /\ c \notin tx
          /\ db' = Append(db, <<job[c], pos[c]>>) /\ UNCHANGED <<tx, unc>>
    /\ UNCHANGED poolVars

(* CR_SERVER_GONE_ERROR or CR_SERVER_LOST: _HandleMySQLErrno opens the     *)
(* connection again, and the same statement, not the transaction, is sent  *)
(* again.                                                                  *)
ConnectionLost(c) == Breaks(c) /\ UNCHANGED <<job, phase, pos, tries, down, outcome>>

(* What follows when MySQLConnection::Execute returns false for the        *)
(* statement that the phase names.                                         *)
ReturnsFalse(c) ==
    \/ /\ phase[c] = "begin"
       /\ phase' = [phase EXCEPT ![c] = "stmt"] /\ pos' = [pos EXCEPT ![c] = 1]
       /\ UNCHANGED <<job, tries, outcome>>
    \/ /\ phase[c] = "stmt"
       /\ IF job[c] \in Singles THEN Finish(c, "failed") ELSE Goto(c, "rollback")
    \/ phase[c] = "rollback" /\ Goto(c, "failed")
    \/ phase[c] = "commit" /\ Finish(c, "ok")

(* Open fails while reconnecting: there is no server and m_Mysql is NULL,  *)
(* or a statement cannot be prepared and the handle is good.  Either way   *)
(* the recursive call sees no error of a lost connection and the statement *)
(* is given up ...                                                         *)
ReconnectFails(c) ==
    /\ Breaks(c)
    /\ down' = down \cup {c} \/ UNCHANGED down
    /\ ReturnsFalse(c)

(* ... and without a handle each statement from then on fails at once.     *)
ExecuteDown(c) ==
    /\ c \in down
    /\ ReturnsFalse(c)
    /\ UNCHANGED <<poolVars, serverVars, errno, down, hit>>

(* START TRANSACTION, ROLLBACK or COMMIT is refused on a good connection:  *)
(* Execute returns false and nobody looks.  The statements then run in     *)
(* autocommit mode, the transaction stays open for whatever the connection *)
(* does next, or a COMMIT that failed may have rolled it back.             *)
ControlRefused(c) ==
    /\ phase[c] \in {"begin", "rollback", "commit"} /\ c \notin down /\ MayFail
    /\ Hits(c, phase[c]) /\ errno' = [errno EXCEPT ![c] = "refused"]
    /\ UNCHANGED serverVars \/ (phase[c] = "commit" /\ RollBack(c))
    /\ ReturnsFalse(c)
    /\ UNCHANGED <<poolVars, down>>

-----------------------------------------------------------------------------
(* Close, called when no other thread uses the pool: queue()->close()      *)
(* deactivates the queue and flushes what it holds; the workers end with   *)
(* the operation they are in, and the connections are closed, which rolls  *)
(* back what is open on them.                                              *)
Close ==
    /\ pool = "open" /\ \A c \in Synch : phase[c] = "idle"
    /\ pool' = "closing" /\ queue' = <<>>
    /\ UNCHANGED <<order, connVars, serverVars, outcome, hit>>

Closed ==
    /\ pool = "closing" /\ \A c \in Workers : phase[c] = "idle"
    /\ pool' = "closed"
    /\ tx' = {} /\ unc' = [c \in Conns |-> <<>>]
    /\ UNCHANGED <<queue, order, connVars, db, outcome, hit>>

(* The process dies: the server rolls back what is open.                   *)
Crash ==
    /\ pool \in {"open", "closing"}
    /\ pool' = "crashed" /\ queue' = <<>>
    /\ job' = [c \in Conns |-> NoOp] /\ phase' = [c \in Conns |-> "idle"]
    /\ tx' = {} /\ unc' = [c \in Conns |-> <<>>]
    /\ UNCHANGED <<order, pos, tries, errno, down, db, outcome, hit>>

Step(c) ==
    \/ BeginTransaction(c) \/ Execute(c) \/ RollbackTransaction(c)
    \/ TransactionFailed(c) \/ CommitTransaction(c) \/ ExecuteDown(c)

Fault(c) == ExecuteFails(c) \/ ControlRefused(c) \/ ConnectionLost(c) \/ ReconnectFails(c)

Terminated == pool \in {"closed", "crashed"} /\ UNCHANGED vars

Next ==
    \/ \E op \in Ops : Enqueue(op)
    \/ \E c \in Conns, op \in Directs : DirectCommit(c, op)
    \/ \E c \in Conns : Dequeue(c) \/ Step(c) \/ Fault(c)
    \/ Close \/ Closed \/ Crash \/ Terminated

(* Threads of the operating system run, and the server answers.            *)
Fairness == \A c \in Conns : WF_vars(Dequeue(c) \/ Step(c) \/ ExecuteFails(c))

Spec == Init /\ [][Next]_vars /\ Fairness

-----------------------------------------------------------------------------
(* The state has its types, a transaction is open only on a connection     *)
(* with a handle, and statements wait for a COMMIT only in a transaction.  *)
TypeOK ==
    /\ queue \in Seq(Async) /\ order \in Seq(Async)
    /\ pool \in {"open", "closing", "closed", "crashed"}
    /\ job \in [Conns -> Ops \cup {NoOp}]
    /\ phase \in [Conns -> {"idle", "begin", "stmt", "rollback", "failed", "commit"}]
    /\ pos \in [Conns -> 1 .. Size] /\ tries \in [Conns -> 0 .. Retries]
    /\ errno \in [Conns -> {"none", "refused", "deadlock"}]
    /\ down \subseteq Conns /\ tx \subseteq Conns /\ unc \in [Conns -> Seq(Ops \X (1 .. Size))]
    /\ db \in Seq(Ops \X (1 .. Size))
    /\ outcome \in [Ops -> {"none", "ok", "failed"}]
    /\ tx \cap down = {} /\ \A c \in Conns \ tx : unc[c] = <<>>

Durable(op) == Statements(op) \cap Elems(db)

(* The code gives up on a transaction whose connection was lost, or whose  *)
(* START TRANSACTION or ROLLBACK was refused, without noticing.            *)
Torn(op) == Met(op, "lost") \/ Met(op, "begin") \/ Met(op, "rollback")

(* A transaction is all or nothing in the database, at every moment,       *)
(* whatever the server refuses and wherever the process dies, unless its   *)
(* connection was lost or its own START TRANSACTION or ROLLBACK refused: a *)
(* transaction left open by another operation does not harm it.            *)
AtomicUnlessTorn ==
    \A op \in Transactions \cup Directs :
        ~Torn(op) => Durable(op) \in {{}, Statements(op)}

(* What an operation reports is what happened: success means that all of   *)
(* it is durable and failure that none is or ever will be.  Exempt are the *)
(* cases in which the code cannot know: the connection was lost, START     *)
(* TRANSACTION, ROLLBACK or COMMIT was refused, or a single statement ran  *)
(* inside a transaction that an earlier operation had left open.           *)
OutcomeHonest ==
    \A op \in Ops : ~Torn(op) /\ ~Met(op, "commit") /\ ~Met(op, "open") =>
        /\ outcome[op] = "ok" => Durable(op) = Statements(op)
        /\ outcome[op] = "failed" => Durable(op) = {}

(* No statement takes effect twice, however late a transaction that was    *)
(* left open is committed, unless its connection was lost: it is then sent *)
(* again although the server may have carried it out.                      *)
AtMostOnce ==
    \A i, j \in 1 .. Len(db) : i # j /\ db[i] = db[j] => Met(db[i][1], "lost")

(* With one worker thread (the default) asynchronous operations take       *)
(* effect in the order they were enqueued, faults or not.                  *)
InOrder ==
    Cardinality(Workers) = 1 =>
        \A i, j \in 1 .. Len(order) : i < j =>
            \A m, n \in 1 .. Len(db) :
                db[m][1] = order[i] /\ db[n][1] = order[j] => m < n

(* Every operation that was enqueued comes to an outcome (its future is    *)
(* set), unless the pool is closed or the process dies first.              *)
EveryOperationEnds ==
    \A op \in Async :
        op \in Elems(order) ~> (outcome[op] # "none" \/ pool # "open")

(* "Handle MySQL Errno 1213": a transaction is given up after a deadlock   *)
(* only when all its retries have been used.                               *)
DeadlockRetried ==
    \A op \in Transactions \cup Directs :
        outcome[op] = "failed" /\ hit[op] # <<>> /\ hit[op][1] = "deadlock"
            => Len(hit[op]) > 1

(* "save and kick all players": what was enqueued before the pool is       *)
(* closed has been executed when it is closed.                             *)
NothingLostAtClose ==
    pool = "closed" => \A i \in 1 .. Len(order) : outcome[order[i]] # "none"
=============================================================================
