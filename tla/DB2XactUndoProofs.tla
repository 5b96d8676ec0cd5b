------------------------- MODULE DB2XactUndoProofs -------------------------
(***************************************************************************)
(* Proofs of the other half: what DB2 makes durable is owed, closing loses *)
(* nothing, nothing is left between transactions; and that DB2Xact with    *)
(* one server implements NestedXact.                                       *)
(***************************************************************************)
EXTENDS DB2XactRefines, DB2XactUndo, DB2XactProofs

----------------------------------------------------------------------------
(* xact_level and the unit of work.                                        *)

\* Steps that leave level, unit of work and writes alone.
LEMMA RestQuiet ==
  ASSUME RestInv,
         \/ Begin \/ SubBegin \/ StartUnwind \/ SubAbortDone \/ StartCommit
         \/ PrepareTransaction \/ LocalCommit \/ LocalCommitFails \/ EndXact
         \/ CommitCallback \/ CloseRefused \/ db2_diag \/ Exited \/ UNCHANGED vars
  PROVE  RestInv'
<1> USE DEF RestInv, vars, pgVars, spVars, workVars
<1>1. CASE Begin \/ SubBegin \/ StartUnwind \/ SubAbortDone \/ StartCommit
  BY <1>1 DEF Begin, SubBegin, StartUnwind, SubAbortDone, StartCommit
<1>2. CASE PrepareTransaction \/ LocalCommit \/ LocalCommitFails \/ EndXact
  BY <1>2 DEF PrepareTransaction, LocalCommit, LocalCommitFails, EndXact
<1>3. CASE CommitCallback \/ CloseRefused \/ db2_diag \/ Exited \/ UNCHANGED vars
  BY <1>3 DEF CommitCallback, CloseRefused, db2_diag, Exited
<1> QED BY <1>1, <1>2, <1>3

\* Closing does not touch the unit of work of a connection that stays.
LEMMA RestClose ==
  ASSUME RestInv, db2CloseConnections \/ db2Shutdown
  PROVE  RestInv'
<1>1. UNCHANGED <<level, pending, uow, owed>> /\ (phase' = "idle" => phase = "idle")
  BY DEF db2CloseConnections, db2Shutdown, spVars, workVars
<1> QED BY <1>1 DEF RestInv

\* RELEASE SAVEPOINT lowers no entry to 0.
LEMMA RestSubCommit == ASSUME IInv, RestInv, SubCommit PROVE RestInv'
<1>1. /\ phase' = phase /\ owed' = owed /\ pending' = pending /\ uow' = uow
      /\ \A c \in Conn : level'[c] = 0 => level[c] = 0
  BY DEF SubCommit, IInv, WorkInv, TypeOK, workVars
<1> QED BY <1>1 DEF RestInv

\* A statement runs on a connection at a level of at least 1.
LEMMA RestExecute ==
  ASSUME IInv, RestInv, stmt # <<>>, NEW new, Execute(stmt[2], new), phase' # "idle"
  PROVE  RestInv'
<1>1. stmt[2] \in Conn /\ level[stmt[2]] >= 1
  BY StmtFacts
<1>2. /\ level' = level /\ \A d \in Conn : d # stmt[2] => pending'[d] = pending[d] /\ uow'[d] = uow[d]
  BY <1>1 DEF Execute, IInv, WorkInv, TypeOK
<1> QED BY <1>1, <1>2 DEF RestInv

\* The end of a unit of work leaves nothing pending.
LEMMA RestEndUow ==
  ASSUME IInv, RestInv, NEW c \in Conn, EndUow(c), phase' # "idle",
         \A d \in Conn : d # c => level'[d] = level[d]
  PROVE  RestInv'
<1>1. /\ pending'[c] = {} /\ ~uow'[c]
      /\ \A d \in Conn : d # c => pending'[d] = pending[d] /\ uow'[d] = uow[d]
  BY DEF EndUow, IInv, WorkInv, TypeOK
<1> QED BY <1>1 DEF RestInv

\* Every other statement, whether it works or fails.
LEMMA RestStatement ==
  ASSUME IInv, RestInv,
         \/ Read \/ db2ExecForeignInsert \/ db2IterateDirectModify
         \/ db2ExecuteTruncate \/ StatementError
  PROVE  RestInv'
<1>1. CASE Read \/ db2ExecForeignInsert \/ db2IterateDirectModify
  <2>1. /\ stmt # <<>> /\ phase' = "run"
        /\ Execute(stmt[2], {}) \/ Execute(stmt[2], {NewWrite})
    BY <1>1 DEF Read, db2ExecForeignInsert, db2IterateDirectModify, Running
  <2> QED BY <2>1, RestExecute
<1>2. CASE db2ExecuteTruncate
  <2>1. /\ stmt # <<>> /\ phase' = "run" /\ level' = level /\ EndUow(stmt[2])
    BY <1>2 DEF db2ExecuteTruncate, Running
  <2> QED BY <2>1, StmtFacts, RestEndUow
<1>3. CASE StatementError
  <2>1. stmt # <<>> /\ phase' = "error"
    BY <1>3 DEF StatementError, Running
  <2>2. \/ \E new \in {{}, {NewWrite}} : Execute(stmt[2], new)
        \/ UNCHANGED <<spVars, uow, pending, durable>>
        \/ EndUow(stmt[2]) /\ UNCHANGED level
    BY <1>3 DEF StatementError, ExecuteFails, Deadlock, EndUow
  <2>3. CASE UNCHANGED <<spVars, uow, pending, durable>>
    BY <2>1, <2>3 DEF RestInv, spVars
  <2> QED BY <2>1, <2>2, <2>3, StmtFacts, RestExecute, RestEndUow
<1> QED BY <1>1, <1>2, <1>3

\* Callbacks and a lost connection.
LEMMA RestCallback ==
  ASSUME IInv, RestInv,
         \/ SubAbortCallback \/ PreCommitCallback \/ AbortCallback
         \/ \E c \in Conn : ConnectionLost(c)
  PROVE  RestInv'
<1>1. CASE SubAbortCallback
  <2> DEFINE c == Head(todo)
  <2>1. /\ phase' = "subabort" /\ phase = "subabort" /\ todo # <<>> /\ uow' = uow
        /\ (level' = level /\ pending' = pending) \/ db2EndSubtransaction(c)
    BY <1>1 DEF SubAbortCallback
  <2>2. c \in Conn /\ nest \in 2..MaxNest
    BY <2>1, TodoFacts, ConstAssumption DEF IInv, WorkInv, TypeOK, PhaseInv
  <2> HIDE DEF c
  <2>3. CASE db2EndSubtransaction(c)
    <3>1. /\ level'[c] = nest - 1 /\ nest - 1 >= 1
          /\ \A d \in Conn : d # c => level'[d] = level[d] /\ pending'[d] = pending[d]
      BY <2>2, <2>3, ConstAssumption DEF db2EndSubtransaction, IInv, WorkInv, TypeOK
    <3> QED BY <2>1, <3>1 DEF RestInv
  <2> QED BY <2>1, <2>3 DEF RestInv
<1>2. CASE PreCommitCallback \/ AbortCallback
  <2> DEFINE c == Head(todo)
  <2>1. phase' # "idle" /\ todo # <<>> /\ phase # "idle"
    BY <1>2 DEF PreCommitCallback, AbortCallback
  <2>2. c \in Conn
    BY <2>1, TodoFacts
  <2> HIDE DEF c
  <2>3. \/ UNCHANGED <<level, uow, pending>>
        \/ EndUow(c) /\ (level' = level \/ level' = [level EXCEPT ![c] = 0])
    BY <1>2 DEF PreCommitCallback, AbortCallback, EndTransactionOk, CommitFails, spVars, workVars, c
  <2>4. CASE UNCHANGED <<level, uow, pending>>
    BY <2>1, <2>4 DEF RestInv
  <2>5. CASE EndUow(c) /\ (level' = level \/ level' = [level EXCEPT ![c] = 0])
    <3>1. \A d \in Conn : d # c => level'[d] = level[d]
      BY <2>5 DEF IInv, WorkInv, TypeOK
    <3> QED BY <2>1, <2>2, <2>5, <3>1, RestEndUow
  <2> QED BY <2>3, <2>4, <2>5
<1>3. CASE \E c \in Conn : ConnectionLost(c)
  <2>1. PICK c \in Conn : ConnectionLost(c)
    BY <1>3
  <2>2. /\ level' = level /\ owed' = owed /\ phase' = phase
        /\ pending'[c] = {} /\ ~uow'[c]
        /\ \A d \in Conn : d # c => pending'[d] = pending[d] /\ uow'[d] = uow[d]
    BY <2>1 DEF ConnectionLost, EndUow, pgVars, IInv, WorkInv, TypeOK
  <2> QED BY <2>2 DEF RestInv
<1> QED BY <1>1, <1>2, <1>3

\* A session is at a level of at least 1 when its savepoints are set.
LEMMA RestSession ==
  ASSUME IInv, RestInv, NEW kind \in AllStmts, NEW k \in Keys,
         db2GetSession(kind, k) \/ GetSessionError(kind, k)
  PROVE  RestInv'
<1>1. phase = "run" /\ phase' # "idle" /\ pending' = pending
  BY DEF db2GetSession, GetSessionError, CanStart
<1>2. ASSUME NEW c \in Conn, NEW to \in StartLevel(c)..EndLevel(c, kind),
             db2SetSavepoint(c, StartLevel(c), to)
      PROVE  RestInv'
  <2>1. to >= 1 /\ to \in Nat
    BY <1>1, <1>2, LevelFacts
  <2>2. /\ level'[c] = to
        /\ \A d \in Conn : d # c => level'[d] = level[d] /\ uow'[d] = uow[d]
    BY <1>2 DEF db2SetSavepoint, IInv, WorkInv, TypeOK
  <2> QED BY <1>1, <2>1, <2>2 DEF RestInv
<1>3. CASE UNCHANGED <<spVars, uow>>
  BY <1>1, <1>3 DEF RestInv, spVars
<1>4. \A c \in Conn : /\ EndLevel(c, kind) \in StartLevel(c)..EndLevel(c, kind)
                      /\ \A to \in StartLevel(c)..(EndLevel(c, kind) - 1) :
                           to \in StartLevel(c)..EndLevel(c, kind)
  BY <1>1, LevelFacts, ConstAssumption
<1> QED BY <1>2, <1>3, <1>4 DEF db2GetSession, GetSessionError

\* IInv and RestInv are inductive together.
LEMMA RestInductive ==
  ASSUME RInv, [Next]_vars
  PROVE  RInv'
<1>1. IInv'
  BY Inductive DEF RInv
<1>2. RestInv'
  <2> USE DEF RInv
  <2>1. CASE Statement
    BY <2>1, RestSession, RestStatement, RestQuiet, RestClose DEF Statement
  <2>2. CASE Callback
    BY <2>2, RestQuiet, RestCallback DEF Callback
  <2>3. CASE Begin \/ SubBegin \/ SubCommit \/ StartUnwind \/ StartCommit \/ PrepareTransaction
    BY <2>3, RestQuiet, RestSubCommit
  <2>4. CASE db2Shutdown \/ (\E c \in Conn : ConnectionLost(c)) \/ Exited \/ UNCHANGED vars
    BY <2>4, RestQuiet, RestClose, RestCallback
  <2> QED BY <2>1, <2>2, <2>3, <2>4 DEF Next
<1> QED BY <1>1, <1>2 DEF RInv

\* A new backend.
LEMMA InitRInv == Init => RInv
<1> SUFFICES ASSUME Init PROVE RInv
  OBVIOUS
<1>1. RestInv
  BY DEF Init, RestInv
<1> QED BY <1>1, InitIInv DEF RInv

\* Closing a connection, by db2_close_connections or at exit, loses no write
\* that is owed: for any number of servers, and whatever fails.
THEOREM ClosingIsSafe ==
  ASSUME NoDeadlock
  PROVE  Spec => CloseLosesNothing
<1> DEFINE Safe == \A c \in Conn : link[c] = "open" /\ link'[c] = "closed"
                     => pending[c] = {} /\ On(c, owed) \subseteq durable
<1>1. ASSUME RInv, Next PROVE Safe
  <2> SUFFICES ASSUME NEW c \in Conn, link[c] = "open", link'[c] = "closed"
               PROVE  pending[c] = {} /\ On(c, owed) \subseteq durable
    OBVIOUS
  <2> USE <1>1 DEF RInv, IInv, WorkInv
  <2>1. ASSUME NEW d \in Conn, NEW l, link' = [link EXCEPT ![d] = l] PROVE c = d /\ l = "closed"
    BY <2>1 DEF TypeOK
  <2>2. link' # link
    OBVIOUS
  <2>3. CASE db2CloseConnections
    <3>1. /\ phase = "run" /\ connlist # <<>> /\ ~uow[Head(connlist)]
          /\ link' = [link EXCEPT ![Head(connlist)] = "closed"]
      BY <2>2, <2>3 DEF db2CloseConnections, DisconnectWorks, db2FreeConnHdl, cacheVars
    <3>2. Head(connlist) \in Conn
      BY <3>1, RangeHeadTail DEF TypeOK
    <3>3. c = Head(connlist)
      BY <2>1, <3>1, <3>2
    <3>4. pending[c] = {}
      BY <3>1, <3>3 DEF LinkInv
    <3>5. \A w \in On(c, owed) : w \in durable
      BY <3>1, <3>4 DEF DueInv, Covered, Due
    <3> QED BY <3>4, <3>5
  <2>4. CASE db2Shutdown
    <3>1. phase = "idle" /\ owed = {}
      BY <2>4 DEF db2Shutdown, RestInv
    <3>2. pending[c] = {}
      BY <3>1, CallbacksAreEntries DEF LinkInv, LevelInv, RestInv
    <3> QED BY <3>1, <3>2 DEF On
  <2>5. CASE \E d \in Conn : ConnectionLost(d)
    BY <2>1, <2>5 DEF ConnectionLost
  <2>6. CASE \E kind \in AllStmts, k \in Keys : db2GetSession(kind, k) \/ GetSessionError(kind, k)
    <3> HIDE DEF RInv, IInv, WorkInv
    <3>1. \A d \in Conn, k \in Keys : CacheEntry(k, d) => link' = [link EXCEPT ![d] = "open"]
      BY DEF CacheEntry
    <3>2. \A d \in Conn, k \in Keys :
            /\ db2AllocConnHdl(k, d) => link' = link \/ CacheEntry(k, d)
            /\ AllocFails(k) => link' = link \/ \E e \in Conn : CacheEntry(k, e)
      BY DEF db2AllocConnHdl, AllocFails, EnvFails, ConnectFails, AutocommitFails, cacheVars
    <3>3. link' = link \/ \E d \in Conn : link' = [link EXCEPT ![d] = "open"]
      BY <2>6, <3>1, <3>2 DEF db2GetSession, GetSessionError
    <3>4. \A d \in Conn : link' # [link EXCEPT ![d] = "open"]
      BY <2>1
    <3> QED BY <2>2, <3>3, <3>4
  <2>7. CASE PreCommitCallback
    <3>1. todo # <<>> /\ Head(todo) \in Conn
      BY <2>7, TodoFacts DEF PreCommitCallback
    <3>2. link' = link \/ link' = [link EXCEPT ![Head(todo)] = "broken"]
      BY <2>7 DEF PreCommitCallback, CommitFails
    <3>3. link' # [link EXCEPT ![Head(todo)] = "broken"]
      <4> HIDE DEF RInv, IInv, WorkInv
      <4> QED BY <2>1, <3>1
    <3> QED BY <2>2, <3>2, <3>3
  <2>8. CASE \/ Begin \/ SubBegin \/ SubCommit \/ StartUnwind \/ StartCommit \/ PrepareTransaction
             \/ SubAbortCallback \/ SubAbortDone \/ LocalCommitFails \/ LocalCommit
             \/ CommitCallback \/ AbortCallback \/ EndXact
    BY <2>2, <2>8 DEF Begin, SubBegin, SubCommit, StartUnwind, StartCommit, PrepareTransaction,
         SubAbortCallback, SubAbortDone, LocalCommitFails, LocalCommit, CommitCallback,
         AbortCallback, EndXact, cacheVars
  <2>9. CASE \/ Read \/ db2_diag \/ db2ExecForeignInsert \/ db2IterateDirectModify
             \/ db2ExecuteTruncate \/ StatementError \/ CloseRefused \/ Exited
    BY <2>2, <2>9 DEF Read, db2_diag, db2ExecForeignInsert, db2IterateDirectModify,
         db2ExecuteTruncate, StatementError, CloseRefused, Exited, cacheVars, vars
  <2> HIDE DEF RInv, IInv, WorkInv
  <2> QED BY <1>1, <2>3, <2>4, <2>5, <2>6, <2>7, <2>8, <2>9 DEF Next, Statement, Callback
<1>2. RInv /\ [Next]_vars => RInv'
  BY RestInductive
<1>3. RInv /\ [Next]_vars => [Safe]_vars
  BY <1>1
<1> QED BY InitRInv, <1>2, <1>3, PTL DEF Spec, CloseLosesNothing

----------------------------------------------------------------------------
(* Connections and their callbacks.                                        *)

\* Closing the first entry unregisters no other one.
LEMMA LiveClose ==
  ASSUME IInv, LiveInv, db2CloseConnections \/ db2Shutdown
  PROVE  LiveInv'
<1>1. CASE UNCHANGED <<link, callbacks>>
  BY <1>1 DEF LiveInv, db2CloseConnections, db2Shutdown, cacheVars
<1>2. CASE connlist # <<>> /\ db2FreeConnHdl(Head(connlist))
  <2> DEFINE c == Head(connlist)
  <2>1. c \in Conn
    BY <1>2, RangeHeadTail DEF IInv, WorkInv, TypeOK
  <2>2. /\ link'[c] = "closed" /\ \A d \in Conn : d # c => link'[d] = link[d]
        /\ RangeOf(callbacks) \subseteq RangeOf(callbacks') \cup {c}
        /\ autocommit' = autocommit
    BY <1>2, <2>1, RangeUnregister
       DEF IInv, WorkInv, TypeOK, db2FreeConnHdl, db2CloseConnections, db2Shutdown, cacheVars
  <2> HIDE DEF c
  <2> QED BY <2>1, <2>2 DEF LiveInv
<1> QED BY <1>1, <1>2 DEF db2CloseConnections, db2Shutdown, cacheVars

\* A session has the callbacks of its connection, new or not.
LEMMA LiveSession ==
  ASSUME IInv, LiveInv, "autocommit" \notin Faults, NEW kind \in AllStmts, NEW k \in Keys,
         db2GetSession(kind, k) \/ GetSessionError(kind, k)
  PROVE  LiveInv'
<1>1. phase = "run"
  BY DEF db2GetSession, GetSessionError, CanStart
<1>2. ASSUME NEW c \in Conn, db2AllocConnHdl(k, c) PROVE LiveInv'
  <2>1. CASE UNCHANGED cacheVars
    BY <2>1 DEF LiveInv, cacheVars
  <2>2. CASE CacheEntry(k, c) /\ autocommit' = [autocommit EXCEPT ![c] = FALSE]
             /\ callbacks' = <<c>> \o callbacks
    <3>1. /\ ~autocommit'[c] /\ link'[c] = "open"
          /\ \A d \in Conn : d # c => link'[d] = link[d] /\ autocommit'[d] = autocommit[d]
      BY <2>2 DEF IInv, WorkInv, TypeOK, CacheEntry
    <3>2. RangeOf(callbacks') = {c} \cup RangeOf(callbacks)
      BY <2>2, RangeRegister DEF IInv, WorkInv, TypeOK
    <3> QED BY <3>1, <3>2 DEF LiveInv
  <2> QED BY <1>2, <2>1, <2>2 DEF db2AllocConnHdl
<1>3. ASSUME AllocFails(k) PROVE LiveInv'
  <2>1. UNCHANGED <<link, callbacks, autocommit>>
    BY <1>3 DEF AllocFails, EnvFails, ConnectFails, AutocommitFails
  <2> QED BY <2>1 DEF LiveInv
<1> QED BY <1>2, <1>3 DEF db2GetSession, GetSessionError

\* A connection that breaks keeps its callbacks; no other step touches them.
LEMMA LiveInductive ==
  ASSUME IInv, LiveInv, "autocommit" \notin Faults, [Next]_vars
  PROVE  LiveInv'
<1>1. CASE UNCHANGED cacheVars
  BY <1>1 DEF LiveInv, cacheVars
<1>2. ASSUME NEW c \in Conn, link[c] = "open",
             UNCHANGED <<callbacks, autocommit>>,
             link' = link \/ link' = [link EXCEPT ![c] = "broken"]
      PROVE  LiveInv'
  <2>1. \A d \in Conn : link'[d] \in {"open", "broken"} => link[d] \in {"open", "broken"}
    BY <1>2 DEF IInv, WorkInv, TypeOK
  <2> QED BY <1>2, <2>1 DEF LiveInv
<1>3. CASE PreCommitCallback
  <2>1. Head(todo) \in Conn
    BY <1>3, TodoFacts DEF PreCommitCallback
  <2>2. UNCHANGED <<callbacks, autocommit>>
    BY <1>3 DEF PreCommitCallback
  <2>3. \/ link' = link
        \/ link[Head(todo)] = "open" /\ link' = [link EXCEPT ![Head(todo)] = "broken"]
    BY <1>3 DEF PreCommitCallback, CommitFails
  <2>4. CASE link' = link
    BY <2>2, <2>4 DEF LiveInv
  <2> QED BY <1>2, <2>1, <2>2, <2>3, <2>4
<1>4. CASE \E c \in Conn : ConnectionLost(c)
  BY <1>2, <1>4 DEF ConnectionLost
<1>5. CASE \E kind \in AllStmts, k \in Keys : db2GetSession(kind, k) \/ GetSessionError(kind, k)
  BY <1>5, LiveSession
<1>6. CASE db2CloseConnections \/ db2Shutdown
  BY <1>6, LiveClose
<1>7. CASE Exited \/ UNCHANGED vars
  BY <1>1, <1>7 DEF Exited, vars
<1>8. CASE \/ Begin \/ SubBegin \/ SubCommit \/ StartUnwind \/ StartCommit \/ PrepareTransaction
           \/ SubAbortCallback \/ SubAbortDone \/ LocalCommitFails \/ LocalCommit
           \/ CommitCallback \/ AbortCallback \/ EndXact
  BY <1>1, <1>8 DEF Begin, SubBegin, SubCommit, StartUnwind, StartCommit, PrepareTransaction,
       SubAbortCallback, SubAbortDone, LocalCommitFails, LocalCommit, CommitCallback,
       AbortCallback, EndXact
<1>9. CASE \/ Read \/ db2_diag \/ db2ExecForeignInsert \/ db2IterateDirectModify
           \/ db2ExecuteTruncate \/ StatementError \/ CloseRefused
  BY <1>1, <1>9 DEF Read, db2_diag, db2ExecForeignInsert, db2IterateDirectModify,
       db2ExecuteTruncate, StatementError, CloseRefused
<1> QED BY <1>3, <1>4, <1>5, <1>6, <1>7, <1>8, <1>9 DEF Next, Statement, Callback

\* Between transactions no connection is left inside one, however many
\* connections there are and whatever failed in the transaction, the
\* rollbacks and the commit; a failure to switch autocommit off excepted.
THEOREM IdleClean ==
  ASSUME "autocommit" \notin Faults
  PROVE  Spec => []IdleIsClean
<1>1. Init => RInv /\ LiveInv
  BY InitRInv DEF Init, LiveInv
<1>2. RInv /\ LiveInv /\ [Next]_vars => RInv' /\ LiveInv'
  BY RestInductive, LiveInductive DEF RInv
<1>3. RInv /\ LiveInv => IdleIsClean
  BY DEF RInv, IInv, WorkInv, LiveInv, LevelInv, RestInv, IdleIsClean
<1> QED BY <1>1, <1>2, <1>3, PTL DEF Spec

----------------------------------------------------------------------------
(* What a connection holds is owed.                                        *)

\* The invariant's range: levels, and which connections are concerned.
LEMMA UndoFacts ==
  ASSUME UInv
  PROVE  /\ nest \in 0..MaxNest /\ MaxNest \in Nat /\ nw \in Nat
         /\ level \in [Conn -> 0..MaxNest]
         /\ RangeOf(connlist) \subseteq Conn
         /\ \A c \in Conn : link[c] \in {"open", "broken"} =>
              /\ ~autocommit[c] /\ c \in RangeOf(callbacks)
              /\ level[c] <= nest
BY ConstAssumption DEF UInv, RInv, IInv, WorkInv, TypeOK, LiveInv, LevelInv, RangeOf

\* Steps of PostgreSQL that start or end a level or an event.
LEMMA UndoQuiet ==
  ASSUME UInv,
         \/ Begin \/ SubBegin \/ SubCommit \/ StartUnwind \/ SubAbortDone \/ StartCommit
         \/ PrepareTransaction \/ LocalCommit \/ LocalCommitFails \/ EndXact
         \/ CommitCallback \/ CloseRefused \/ db2_diag \/ Exited \/ UNCHANGED vars
  PROVE  UndoInv'
<1> USE UndoFacts DEF UInv, UndoInv, cacheVars, workVars
<1>1. CASE Begin
  <2> USE <1>1 DEF Begin, spVars
  <2>1. StmtInv' /\ FreshInv' /\ OwedInv'
    BY DEF StmtInv, RInv, IInv, WorkInv, PhaseInv, FreshInv, Fresh, OwedInv, Going
  <2>2. HeldInv'
    BY DEF HeldInv, RInv, IInv, WorkInv, LevelInv, RestInv
  <2> QED BY <2>1, <2>2
<1>2. CASE SubBegin
  <2> USE <1>2 DEF SubBegin, spVars
  <2>1. StmtInv' /\ FreshInv' /\ OwedInv'
    BY DEF StmtInv, FreshInv, Fresh, OwedInv, Going
  <2>2. nest \in 1..MaxNest /\ owedAt'[nest + 1] = owed /\ \A n \in 2..nest : owedAt'[n] = owedAt[n]
    BY DEF RInv, IInv, WorkInv, TypeOK, PhaseInv, InXact, Levels
  <2>3. ASSUME NEW c \in RangeOf(connlist), link[c] = "open", NEW n \in 2..(nest + 1)
        PROVE  IF n <= level[c] THEN n \in sp[c] /\ saved[c][n] \subseteq owedAt'[n]
                                ELSE pending[c] \subseteq owedAt'[n]
    <3>1. level[c] \in 0..MaxNest /\ level[c] <= nest
      BY <2>3
    <3>2. CASE n = nest + 1
      BY <2>2, <2>3, <3>1, <3>2 DEF HeldInv
    <3>3. CASE n \in 2..nest
      BY <2>2, <2>3, <3>3 DEF HeldInv
    <3> QED BY <2>2, <2>3, <3>2, <3>3
  <2>4. HeldInv'
    BY <2>3 DEF HeldInv
  <2> QED BY <2>1, <2>4
<1>3. CASE SubCommit
  <2> USE <1>3 DEF SubCommit
  <2>1. StmtInv' /\ FreshInv' /\ OwedInv'
    BY DEF StmtInv, FreshInv, Fresh, OwedInv, Going
  <2>2. \A c \in RangeOf(connlist) : link[c] = "open" =>
          \A n \in 2..(nest - 1) : n <= level'[c] <=> n <= level[c]
    OBVIOUS
  <2>3. HeldInv'
    BY <2>2 DEF HeldInv
  <2> QED BY <2>1, <2>3
<1>4. CASE StartUnwind
  <2> USE <1>4 DEF StartUnwind, spVars
  <2>1. StmtInv' /\ FreshInv' /\ OwedInv'
    BY DEF StmtInv, FreshInv, Fresh, OwedInv, Going, RInv, IInv, WorkInv, PhaseInv
  <2>2. HeldInv'
    BY DEF HeldInv
  <2> QED BY <2>1, <2>2
<1>5. CASE SubAbortDone
  <2> USE <1>5 DEF SubAbortDone, spVars
  <2>1. /\ nest \in 2..MaxNest /\ owedAt[nest] \subseteq owed
        /\ \A c \in RangeOf(callbacks) : level[c] < nest
    BY RangeEmpty DEF RInv, IInv, WorkInv, TypeOK, PhaseInv, InXact, NestInv, LevelInv
  <2>2. StmtInv' /\ FreshInv' /\ OwedInv'
    BY <2>1 DEF StmtInv, FreshInv, Fresh, OwedInv, Going, RInv, IInv, WorkInv, PhaseInv
  <2>3. HeldInv'
    BY <2>1 DEF HeldInv
  <2> QED BY <2>2, <2>3
<1>6. CASE StartCommit \/ PrepareTransaction
  <2> USE <1>6 DEF StartCommit, PrepareTransaction, spVars
  <2>1. StmtInv' /\ FreshInv' /\ OwedInv'
    BY DEF StmtInv, FreshInv, Fresh, OwedInv, Going
  <2>2. HeldInv'
    BY DEF HeldInv
  <2> QED BY <2>1, <2>2
<1>7. CASE LocalCommit \/ LocalCommitFails \/ EndXact
  <2> USE <1>7 DEF LocalCommit, LocalCommitFails, EndXact, spVars
  <2>1. StmtInv' /\ FreshInv' /\ OwedInv'
    BY DEF StmtInv, FreshInv, Fresh, OwedInv, Going, RInv, IInv, WorkInv, PhaseInv
  <2>2. HeldInv'
    BY DEF HeldInv, RInv, IInv, WorkInv, PhaseInv
  <2> QED BY <2>1, <2>2
<1>8. CASE CommitCallback \/ CloseRefused \/ db2_diag
  <2> USE <1>8 DEF CommitCallback, CloseRefused, db2_diag, spVars
  <2>1. StmtInv' /\ FreshInv' /\ OwedInv'
    BY DEF StmtInv, FreshInv, Fresh, OwedInv, Going
  <2>2. HeldInv'
    BY DEF HeldInv
  <2> QED BY <2>1, <2>2
<1>9. CASE Exited \/ UNCHANGED vars
  BY <1>9 DEF Exited, vars, pgVars, spVars, StmtInv, FreshInv, Fresh, OwedInv, Going, HeldInv
<1> QED BY <1>1, <1>2, <1>3, <1>4, <1>5, <1>6, <1>7, <1>8, <1>9

\* Closing takes the entries out of the walk; a lost connection holds nothing.
LEMMA UndoClose ==
  ASSUME UInv, \/ db2CloseConnections \/ db2Shutdown \/ \E c \in Conn : ConnectionLost(c)
  PROVE  UndoInv'
<1> USE DEF UInv, UndoInv
<1>1. CASE db2CloseConnections \/ db2Shutdown
  <2>1. /\ UNCHANGED <<nest, owed, owedAt, nw, stmt, level, sp, saved, pending, durable>>
        /\ \/ UNCHANGED cacheVars
           \/ connlist' = <<>>
        /\ \/ phase = "run" /\ phase' \in {"run", "error"}
           \/ phase' = "exit"
    BY <1>1 DEF db2CloseConnections, db2Shutdown, db2FreeEnvHdl, spVars, workVars
  <2>2. StmtInv' /\ FreshInv' /\ OwedInv'
    BY <2>1 DEF StmtInv, FreshInv, Fresh, OwedInv, Going
  <2>3. HeldInv'
    BY <2>1, RangeEmpty DEF HeldInv, cacheVars
  <2> QED BY <2>2, <2>3
<1>2. CASE \E c \in Conn : ConnectionLost(c)
  <2>1. PICK c \in Conn : ConnectionLost(c)
    BY <1>2
  <2>2. /\ UNCHANGED <<nest, phase, owed, owedAt, nw, stmt, connlist, level, saved, durable>>
        /\ pending'[c] = {} /\ sp'[c] = {} /\ link'[c] = "broken"
        /\ \A d \in Conn : d # c =>
             pending'[d] = pending[d] /\ sp'[d] = sp[d] /\ link'[d] = link[d]
    BY <2>1 DEF ConnectionLost, EndUow, pgVars, RInv, IInv, WorkInv, TypeOK
  <2>3. StmtInv' /\ FreshInv' /\ OwedInv'
    BY <2>2 DEF StmtInv, FreshInv, Fresh, OwedInv, Going
  <2>4. HeldInv'
    BY <2>2, UndoFacts DEF HeldInv
  <2> QED BY <2>3, <2>4
<1> QED BY <1>1, <1>2

\* A statement on a connection that can be undone adds its new write to what
\* the connection holds.
LEMMA UndoExecute ==
  ASSUME UInv, stmt # <<>>, NEW new \in SUBSET {NewWrite}, Execute(stmt[2], new),
         UNCHANGED <<nest, owedAt, connlist, link>>, stmt' = <<>>,
         new # {} => stmt[1] \in Writers /\ nw' = nw + 1,
         nw' \in Nat, nw <= nw',
         \/ phase' = "run" /\ owed' = owed \cup new
         \/ phase' = "error" /\ owed' = owed
  PROVE  UndoInv' /\ durable' = durable
<1> USE DEF UInv, UndoInv
<1> DEFINE c == stmt[2]
<1>1. /\ c \in Conn /\ link[c] = "open" /\ phase = "run" /\ ~autocommit[c]
      /\ nest \in 1..MaxNest /\ level[c] \in 0..MaxNest /\ nw \in Nat
  BY StmtFacts, UndoFacts DEF Execute, RInv
<1>2. /\ pending'[c] = pending[c] \cup new /\ durable' = durable
      /\ \A d \in Conn : d # c => pending'[d] = pending[d]
      /\ UNCHANGED <<sp, level, saved>>
  BY <1>1 DEF Execute, RInv, IInv, WorkInv, TypeOK
<1>3. new # {} => level[c] = nest
  BY DEF StmtInv
<1>4. \A w \in new : w[1] = c /\ w[2] = nw + 1
  BY DEF NewWrite
<1> HIDE DEF c
<1>5. StmtInv'
  BY DEF StmtInv
<1>6. FreshInv'
  <2>1. \A w \in durable \cup owed : w[2] <= nw /\ w[2] \in Nat
    BY DEF FreshInv, RInv, IInv, WorkInv, TypeOK, Writes
  <2>2. \A d \in Conn : pending[d] \subseteq Writes /\ \A n \in sp[d] : saved[d][n] \subseteq Writes
    BY DEF RInv, IInv, WorkInv, TypeOK
  <2>3. \A w \in Writes : w[2] \in Nat
    BY DEF Writes
  <2>4. ASSUME NEW d \in Conn, NEW w \in pending'[d]
        PROVE  w[1] = d /\ w[2] <= nw' /\ w \notin durable'
    <3>1. CASE w \in pending[d]
      BY <1>1, <1>2, <2>2, <2>3, <3>1 DEF FreshInv, Fresh
    <3>2. CASE w \notin pending[d]
      <4>1. d = c /\ w \in new
        BY <1>2, <2>4, <3>2
      <4>2. nw' = nw + 1 /\ w[2] = nw + 1 /\ w[1] = c
        BY <1>4, <4>1
      <4> QED BY <1>1, <1>2, <2>1, <4>1, <4>2
    <3> QED BY <3>1, <3>2
  <2>5. \A d \in Conn : \A n \in sp[d] : \A w \in saved[d][n] :
          w[1] = d /\ w[2] <= nw' /\ w \notin durable
    <3>1. ASSUME NEW d \in Conn, NEW n \in sp[d], NEW w \in saved[d][n]
          PROVE  w[1] = d /\ w[2] <= nw' /\ w \notin durable
      <4>1. w[1] = d /\ w[2] <= nw /\ w \notin durable /\ w[2] \in Nat
        BY <2>2, <2>3, <3>1 DEF FreshInv, Fresh
      <4> QED BY <1>1, <4>1
    <3> QED BY <3>1
  <2>6. \A w \in durable' \cup owed' : w[2] <= nw'
    <3>1. ASSUME NEW w \in durable \cup owed PROVE w[2] <= nw'
      BY <1>1, <2>1, <3>1
    <3>2. ASSUME NEW w \in new PROVE w[2] <= nw'
      <4>1. nw' = nw + 1 /\ w[2] = nw + 1
        BY <1>4, <3>2
      <4> QED BY <1>1, <4>1
    <3> QED BY <1>2, <3>1, <3>2
  <2> QED BY <1>2, <2>4, <2>5, <2>6 DEF FreshInv, Fresh
<1>7. OwedInv'
  <2>1. \A w \in durable : w[2] <= nw /\ w[2] \in Nat
    BY DEF FreshInv, RInv, IInv, WorkInv, TypeOK, Writes
  <2>2. \A w \in new : w \notin durable
    BY <1>1, <1>4, <2>1
  <2>3. owed \cap durable = {}
    BY <1>1 DEF OwedInv, Going
  <2> QED BY <1>2, <2>2, <2>3 DEF OwedInv
<1>8. HeldInv'
  <2>1. ASSUME NEW d \in RangeOf(connlist), link[d] = "open"
        PROVE  /\ phase' \in {"run", "precommit"} => pending'[d] \subseteq owed'
               /\ \A n \in 2..nest :
                    IF n <= level[d] THEN n \in sp[d] /\ saved[d][n] \subseteq owedAt[n]
                                     ELSE pending'[d] \subseteq owedAt[n]
    <3>1. d \in Conn
      BY <2>1, UndoFacts
    <3>2. /\ pending[d] \subseteq owed
          /\ \A n \in 2..nest :
               IF n <= level[d] THEN n \in sp[d] /\ saved[d][n] \subseteq owedAt[n]
                                ELSE pending[d] \subseteq owedAt[n]
      BY <1>1, <2>1 DEF HeldInv
    <3>3. pending'[d] = pending[d] \/ (d = c /\ new # {})
      BY <1>2, <3>1
    <3>4. pending'[d] \subseteq pending[d] \cup new
      BY <1>2, <3>1
    <3>5. phase' \in {"run", "precommit"} => pending'[d] \subseteq owed'
      BY <3>2, <3>4
    <3>6. CASE pending'[d] = pending[d]
      BY <3>2, <3>5, <3>6
    <3>7. CASE d = c /\ new # {}
      BY <1>1, <1>3, <3>2, <3>5, <3>7
    <3> QED BY <3>3, <3>6, <3>7
  <2> QED BY <1>2, <2>1 DEF HeldInv
<1> QED BY <1>2, <1>5, <1>6, <1>7, <1>8

\* Statements that work, and those that fail.
LEMMA UndoStatement ==
  ASSUME UInv, KeepsUow,
         \/ Read \/ db2ExecForeignInsert \/ db2IterateDirectModify
         \/ db2ExecuteTruncate \/ StatementError
  PROVE  UndoInv' /\ durable' = durable
<1>1. "deadlock" \notin Faults /\ "truncate" \notin Ops
  BY DEF KeepsUow
<1>2. stmt # <<>> /\ stmt[1] \in Ops /\ stmt[1] # "truncate" /\ phase = "run"
  BY <1>1 DEF UInv, UndoInv, StmtInv, Read, db2ExecForeignInsert, db2IterateDirectModify,
     db2ExecuteTruncate, StatementError, Running
<1>3. nw \in Nat
  BY UndoFacts
<1>4. CASE Read
  <2>1. Execute(stmt[2], {}) /\ phase' = "run" /\ owed' = owed \cup {} /\ stmt' = <<>>
        /\ UNCHANGED <<nest, owedAt, connlist, link, nw>>
    BY <1>2, <1>4 DEF Read, cacheVars
  <2> QED BY <1>2, <1>3, <2>1, UndoExecute
<1>5. CASE db2ExecForeignInsert \/ db2IterateDirectModify
  <2>1. /\ Execute(stmt[2], {NewWrite}) /\ phase' = "run" /\ owed' = owed \cup {NewWrite}
        /\ stmt' = <<>> /\ nw' = nw + 1 /\ stmt[1] \in Writers
        /\ UNCHANGED <<nest, owedAt, connlist, link>>
    BY <1>2, <1>5 DEF db2ExecForeignInsert, db2IterateDirectModify, cacheVars, Running, Writers
  <2> QED BY <1>2, <1>3, <2>1, UndoExecute
<1>6. CASE db2ExecuteTruncate
  BY <1>2, <1>6 DEF db2ExecuteTruncate, Running
<1>7. CASE StatementError
  <2>1. /\ phase' = "error" /\ owed' = owed /\ stmt' = <<>>
        /\ nw' = (IF stmt[1] \in Writers THEN nw + 1 ELSE nw)
        /\ UNCHANGED <<nest, owedAt, connlist, link>>
    BY <1>7 DEF StatementError, cacheVars
  <2>2. \/ \E new \in SUBSET {NewWrite} : Execute(stmt[2], new) /\ (new # {} => stmt[1] = "dml")
        \/ UNCHANGED <<spVars, uow, pending, durable>>
    BY <1>1, <1>2, <1>7 DEF StatementError, ExecuteFails, Deadlock
  <2>3. CASE \E new \in SUBSET {NewWrite} : Execute(stmt[2], new) /\ (new # {} => stmt[1] = "dml")
    BY <1>2, <1>3, <2>1, <2>3, UndoExecute DEF Writers
  <2>4. CASE UNCHANGED <<spVars, uow, pending, durable>>
    <3>1. /\ \A w \in Writes : w[2] \in Nat
          /\ durable \cup owed \subseteq Writes
          /\ \A d \in Conn : pending[d] \subseteq Writes /\ \A n \in sp[d] : saved[d][n] \subseteq Writes
      BY DEF UInv, RInv, IInv, WorkInv, TypeOK, Writes
    <3>2. FreshInv'
      BY <1>3, <2>1, <2>4, <3>1 DEF UInv, UndoInv, FreshInv, Fresh, spVars
    <3>3. StmtInv' /\ OwedInv' /\ HeldInv'
      BY <1>2, <2>1, <2>4 DEF UInv, UndoInv, StmtInv, OwedInv, Going, HeldInv, spVars
    <3> QED BY <2>4, <3>2, <3>3 DEF UndoInv
  <2> QED BY <2>2, <2>3, <2>4
<1> QED BY <1>4, <1>5, <1>6, <1>7

\* ROLLBACK TO SAVEPOINT takes the connection back to what was owed when the
\* level started; it can do so at every level the connection has.
LEMMA UndoSubAbort ==
  ASSUME UInv, KeepsUow, SubAbortCallback
  PROVE  UndoInv'
<1> USE DEF UInv, UndoInv
<1> DEFINE c == Head(todo)
<1>1. /\ phase = "subabort" /\ todo # <<>> /\ stmt = <<>>
      /\ UNCHANGED <<nest, phase, owed, owedAt, nw, stmt, connlist, link, saved, durable>>
  BY DEF SubAbortCallback, cacheVars, RInv, IInv, WorkInv, PhaseInv
<1>2. c \in Conn /\ nest \in 2..MaxNest
  BY <1>1, TodoFacts, ConstAssumption DEF RInv, IInv, WorkInv, TypeOK, PhaseInv
<1>3. StmtInv' /\ OwedInv'
  BY <1>1 DEF StmtInv, OwedInv, Going
<1>4. CASE UNCHANGED <<level, pending, sp>>
  BY <1>1, <1>3, <1>4 DEF FreshInv, Fresh, HeldInv
<1>5. CASE ~(level[c] < nest)
  <2>1. db2EndSubtransaction(c) /\ level[c] >= nest
    BY <1>2, <1>5, UndoFacts DEF SubAbortCallback
  <2>2. CASE /\ Reachable(c) /\ link[c] = "open" /\ nest \in sp[c]
             /\ pending' = [pending EXCEPT ![c] = saved[c][nest]]
             /\ sp' = [sp EXCEPT ![c] = {n \in @ : n <= nest}]
    <3>1. /\ level'[c] = nest - 1 /\ pending'[c] = saved[c][nest]
          /\ sp'[c] = {n \in sp[c] : n <= nest}
          /\ \A d \in Conn : d # c =>
               level'[d] = level[d] /\ pending'[d] = pending[d] /\ sp'[d] = sp[d]
      BY <1>2, <2>1, <2>2 DEF db2EndSubtransaction, RInv, IInv, WorkInv, TypeOK
    <3> HIDE DEF c
    <3>2. FreshInv'
      BY <1>1, <2>2, <3>1 DEF FreshInv, Fresh
    <3>3. saved[c][nest] \subseteq owedAt[nest]
      BY <1>1, <1>2, <2>1, <2>2 DEF HeldInv, Reachable
    <3>4. \A n \in 2..nest : owedAt[n] \subseteq owedAt[nest] /\ n \in Nat
      BY <1>1, <1>2 DEF RInv, IInv, WorkInv, NestInv, InXact
    <3>5. ASSUME NEW d \in RangeOf(connlist), link[d] = "open", NEW n \in 2..nest
          PROVE  IF n <= level'[d] THEN n \in sp'[d] /\ saved[d][n] \subseteq owedAt[n]
                                   ELSE pending'[d] \subseteq owedAt[n]
      <4>1. d \in Conn
        BY <3>5, UndoFacts
      <4>2. IF n <= level[d] THEN n \in sp[d] /\ saved[d][n] \subseteq owedAt[n]
                             ELSE pending[d] \subseteq owedAt[n]
        BY <1>1, <3>5 DEF HeldInv
      <4>3. CASE d = c /\ n = nest
        BY <1>2, <3>1, <3>3, <4>3
      <4>4. CASE d = c /\ n # nest
        <5>1. n <= nest - 1 /\ n <= level[c] /\ n <= nest
          BY <1>2, <2>1, <3>5, <4>4, UndoFacts
        <5> QED BY <3>1, <4>2, <4>4, <5>1
      <4>5. CASE d # c
        BY <3>1, <4>1, <4>2, <4>5
      <4> QED BY <4>3, <4>4, <4>5
    <3>6. HeldInv'
      BY <1>1, <3>5 DEF HeldInv
    <3> QED BY <1>3, <3>2, <3>6
  <2>3. CASE /\ \/ "rollbackto" \in Faults \/ ~Reachable(c)
                \/ link[c] # "open" \/ nest \notin sp[c]
             /\ UNCHANGED <<pending, sp>>
    <3>1. UNCHANGED <<pending, sp>> /\ level'[c] = nest - 1
          /\ \A d \in Conn : d # c => level'[d] = level[d]
      BY <1>2, <2>1, <2>3 DEF db2EndSubtransaction, RInv, IInv, WorkInv, TypeOK
    <3> HIDE DEF c
    <3>2. FreshInv'
      BY <1>1, <3>1 DEF FreshInv, Fresh
    <3>3. "rollbackto" \notin Faults
      BY DEF KeepsUow
    <3>4. ~(Reachable(c) /\ link[c] = "open")
      BY <1>1, <1>2, <2>1, <2>3, <3>3 DEF HeldInv, Reachable
    <3>5. \A d \in RangeOf(connlist) : link[d] = "open" => level'[d] = level[d]
      BY <3>1, <3>4, UndoFacts DEF Reachable
    <3>6. HeldInv'
      BY <1>1, <3>1, <3>5 DEF HeldInv
    <3> QED BY <1>3, <3>2, <3>6
  <2> QED BY <2>1, <2>2, <2>3 DEF db2EndSubtransaction
<1> QED BY <1>4, <1>5 DEF SubAbortCallback

\* The end of a unit of work: its writes become durable all or not at all,
\* and the connection holds none.
LEMMA UndoEndUow ==
  ASSUME UInv, NEW c \in Conn, EndUow(c),
         durable' = durable \/ durable' = durable \cup pending[c],
         nw' = nw, owed' = owed
  PROVE  FreshInv' /\ \A d \in Conn : pending'[d] \subseteq pending[d]
<1>1. /\ pending'[c] = {} /\ sp'[c] = {} /\ saved' = saved
      /\ \A d \in Conn : d # c => pending'[d] = pending[d] /\ sp'[d] = sp[d]
  BY DEF EndUow, UInv, RInv, IInv, WorkInv, TypeOK
<1>2. FreshInv
  BY DEF UInv, UndoInv
<1>3. \A w \in pending[c] : w[1] = c /\ w[2] <= nw
  BY <1>2 DEF FreshInv, Fresh
<1>4. ASSUME NEW d \in Conn, d # c
      PROVE  /\ \A w \in pending'[d] : w[1] = d /\ w[2] <= nw /\ w \notin durable'
             /\ \A n \in sp'[d] : \A w \in saved[d][n] : w[1] = d /\ w[2] <= nw /\ w \notin durable'
  BY <1>1, <1>2, <1>3, <1>4 DEF FreshInv, Fresh
<1>5. \A w \in durable' \cup owed : w[2] <= nw
  BY <1>2, <1>3 DEF FreshInv
<1>6. FreshInv'
  BY <1>1, <1>4, <1>5 DEF FreshInv, Fresh
<1> QED BY <1>1, <1>6

\* The callbacks at the end of the transaction; the commit makes durable what
\* the connection holds.
LEMMA UndoEnd ==
  ASSUME UInv, PreCommitCallback \/ AbortCallback
  PROVE  UndoInv'
<1> DEFINE c == Head(todo)
<1>1. /\ phase \in {"precommit", "abort"} /\ nest = 1 /\ todo # <<>>
      /\ phase' \in {phase, "error"} /\ stmt' = <<>>
      /\ UNCHANGED <<nest, owed, owedAt, nw, connlist>>
  BY DEF PreCommitCallback, AbortCallback, cacheVars, UInv, RInv, IInv, WorkInv, PhaseInv
<1>2. c \in Conn
  BY <1>1, TodoFacts DEF UInv, RInv
<1>3. \A d \in Conn : link'[d] = "open" => link[d] = "open"
  <2>1. link' = link \/ link' = [link EXCEPT ![c] = "broken"]
    BY DEF PreCommitCallback, AbortCallback, CommitFails, cacheVars
  <2> QED BY <1>2, <2>1 DEF UInv, RInv, IInv, WorkInv, TypeOK
<1> HIDE DEF c
<1>4. \/ UNCHANGED <<pending, sp, saved, durable>>
      \/ EndUow(c) /\ (durable' = durable \/ durable' = durable \cup pending[c])
  BY DEF PreCommitCallback, AbortCallback, EndTransactionOk, CommitFails, spVars, workVars, c
<1>5. FreshInv' /\ \A d \in Conn : pending'[d] \subseteq pending[d]
  <2>1. CASE UNCHANGED <<pending, sp, saved, durable>>
    BY <1>1, <2>1 DEF UInv, UndoInv, FreshInv, Fresh
  <2> QED BY <1>1, <1>2, <1>4, <2>1, UndoEndUow
<1>6. StmtInv' /\ OwedInv'
  BY <1>1 DEF StmtInv, OwedInv, Going
<1>7. HeldInv'
  <2>1. ASSUME NEW d \in RangeOf(connlist), link'[d] = "open", phase' \in {"run", "precommit"}
        PROVE  pending'[d] \subseteq owed
    <3>1. d \in Conn /\ link[d] = "open" /\ phase = "precommit"
      BY <1>1, <1>3, <2>1, UndoFacts
    <3> QED BY <1>5, <2>1, <3>1 DEF UInv, UndoInv, HeldInv
  <2> QED BY <1>1, <2>1 DEF HeldInv
<1> QED BY <1>5, <1>6, <1>7 DEF UndoInv

\* The savepoints that a session sets hold what the connection holds, which
\* is no more than what was owed when their levels started.
LEMMA UndoSavepoints ==
  ASSUME UInv, LiveInv', phase = "run", NEW k \in Keys, NEW c \in Conn, NEW kind,
         db2AllocConnHdl(k, c), NEW to \in StartLevel(c)..EndLevel(c, kind),
         db2SetSavepoint(c, StartLevel(c), to),
         UNCHANGED <<nest, owed, owedAt, pending, durable>>
  PROVE  HeldInv' /\ (nw' = nw => FreshInv') /\ level'[c] = to
<1>1. RInv /\ IInv /\ HeldInv /\ FreshInv
  BY DEF UInv, UndoInv, RInv
<1> DEFINE from == StartLevel(c)
           new  == (from + 1)..to
<1>2. /\ from \in 1..MaxNest /\ to \in from..MaxNest /\ level[c] \in 0..MaxNest
      /\ nest \in 1..MaxNest /\ MaxNest \in Nat
      /\ level[c] >= 1 => from = level[c]
      /\ level[c] = 0 => from = 1
  BY <1>1, LevelFacts, ConstAssumption DEF IInv, WorkInv, TypeOK, PhaseInv, InXact
<1>3. /\ \A d \in RangeOf(connlist') : d \in RangeOf(connlist) \/ d = c
      /\ \A d \in Conn : d # c => link'[d] = link[d]
      /\ link[c] # "open" => pending[c] = {}
      /\ c \in RangeOf(connlist) \/ link[c] = "none"
      /\ connlist' \in Seq(Conn)
  <2>1. c \in RangeOf(connlist) \/ link[c] = "none"
    BY DEF db2AllocConnHdl, CacheEntry, findconnEntry
  <2> QED BY <1>1, <2>1, AllocFacts
<1>4. link'[c] = "open" => ~autocommit'[c] /\ (link[c] = "open" \/ link[c] = "none")
  <2>1. link'[c] = "broken" <=> link[c] = "broken"
    BY <1>1, AllocFacts
  <2>2. link[c] \in {"none", "open", "broken"}
    BY <1>1, <1>3 DEF IInv, WorkInv, LinkInv
  <2> QED BY <2>1, <2>2 DEF LiveInv
<1>5. /\ level'[c] = to
      /\ sp'[c] = (IF autocommit'[c] THEN sp[c] ELSE sp[c] \cup new)
      /\ \A n \in Levels : saved'[c][n] = IF n \in new THEN pending[c] ELSE saved[c][n]
      /\ \A d \in Conn : d # c => level'[d] = level[d] /\ sp'[d] = sp[d] /\ saved'[d] = saved[d]
  BY <1>1 DEF db2SetSavepoint, IInv, WorkInv, TypeOK
<1>6. new \subseteq Levels /\ sp[c] \subseteq Levels
  BY <1>1, <1>2 DEF Levels, IInv, WorkInv, TypeOK
<1> HIDE DEF from
<1>7. nw' = nw => FreshInv'
  <2>1. \A n \in sp'[c] : saved'[c][n] = pending[c] \/ (n \in sp[c] /\ saved'[c][n] = saved[c][n])
    BY <1>5, <1>6
  <2> QED BY <1>1, <1>5, <2>1 DEF FreshInv, Fresh
<1>8. ASSUME NEW d \in RangeOf(connlist'), link'[d] = "open"
      PROVE  /\ pending[d] \subseteq owed
             /\ \A n \in 2..nest :
                  IF n <= level'[d] THEN n \in sp'[d] /\ saved'[d][n] \subseteq owedAt[n]
                                    ELSE pending[d] \subseteq owedAt[n]
  <2>1. d \in Conn /\ (d \in RangeOf(connlist) \/ d = c)
    BY <1>3, <1>8 DEF RangeOf
  <2>2. CASE d # c
    BY <1>1, <1>3, <1>5, <1>8, <2>1, <2>2 DEF HeldInv
  <2>3. CASE d = c
    <3>1. /\ pending[c] \subseteq owed
          /\ \A n \in 2..nest :
               IF n <= level[c] THEN n \in sp[c] /\ saved[c][n] \subseteq owedAt[n]
                                ELSE pending[c] \subseteq owedAt[n]
      <4>1. CASE link[c] = "open"
        BY <1>1, <1>3, <4>1 DEF HeldInv
      <4>2. CASE link[c] = "none"
        <5>1. level[c] = 0 /\ pending[c] = {}
          BY <1>1, <1>3, <4>2 DEF IInv, WorkInv, LinkInv
        <5> QED BY <1>2, <5>1
      <4> QED BY <1>4, <1>8, <2>3, <4>1, <4>2
    <3>2. ASSUME NEW n \in 2..nest
          PROVE  IF n <= to THEN n \in sp'[c] /\ saved'[c][n] \subseteq owedAt[n]
                            ELSE pending[c] \subseteq owedAt[n]
      <4>1. n \in Levels /\ n \in Nat /\ n >= 2
        BY <1>2 DEF Levels
      <4>2. CASE n <= level[c]
        <5>1. n \notin new /\ n <= to
          BY <1>2, <4>1, <4>2
        <5> QED BY <1>5, <3>1, <4>1, <4>2, <5>1
      <4>3. CASE ~(n <= level[c]) /\ n <= to
        <5>1. n \in new
          BY <1>2, <4>1, <4>3
        <5> QED BY <1>4, <1>5, <1>8, <2>3, <3>1, <4>1, <4>3, <5>1
      <4>4. CASE ~(n <= to)
        <5>1. ~(n <= level[c])
          BY <1>2, <4>1, <4>4
        <5> QED BY <3>1, <4>4, <5>1
      <4> QED BY <4>2, <4>3, <4>4
    <3> QED BY <1>5, <2>3, <3>1, <3>2
  <2> QED BY <2>2, <2>3
<1>9. HeldInv'
  BY <1>8 DEF HeldInv
<1> QED BY <1>5, <1>7, <1>9

\* A statement gets its session, or an ERROR.
LEMMA UndoSession ==
  ASSUME UInv, KeepsUow, LiveInv', NEW kind \in AllStmts, NEW k \in Keys,
         db2GetSession(kind, k) \/ GetSessionError(kind, k)
  PROVE  UndoInv'
<1>1. /\ phase = "run" /\ stmt = <<>> /\ kind \in Ops
      /\ UNCHANGED <<nest, owed, owedAt, nw, pending, durable>>
  BY DEF db2GetSession, GetSessionError, CanStart
<1>2. IInv /\ UndoInv /\ "autocommit" \notin Faults
  BY DEF UInv, RInv, KeepsUow
<1>3. OwedInv'
  BY <1>1, <1>2 DEF UndoInv, OwedInv, Going
<1>4. CASE db2GetSession(kind, k)
  <2>1. PICK c \in Conn :
          /\ db2AllocConnHdl(k, c)
          /\ db2SetSavepoint(c, StartLevel(c), EndLevel(c, kind))
          /\ stmt' = <<kind, c>>
    BY <1>4 DEF db2GetSession
  <2>2. EndLevel(c, kind) \in StartLevel(c)..EndLevel(c, kind)
    BY <1>1, <1>2, LevelFacts, ConstAssumption
  <2>3. HeldInv' /\ FreshInv' /\ level'[c] = EndLevel(c, kind)
    BY <1>1, <2>1, <2>2, UndoSavepoints
  <2>4. kind \in Writers => EndLevel(c, kind) = nest
    <3>1. level[c] <= nest /\ nest \in 1..MaxNest /\ level[c] \in 0..MaxNest
      <4>1. link[c] \in {"open", "broken"} \/ link[c] = "none"
        BY <1>2, <2>1 DEF db2AllocConnHdl, CacheEntry, findconnEntry, IInv, WorkInv, LinkInv
      <4>2. link[c] = "none" => level[c] = 0
        BY <1>2 DEF IInv, WorkInv, LinkInv
      <4> QED BY <1>1, <1>2, <4>1, <4>2, UndoFacts DEF IInv, WorkInv, PhaseInv, InXact
    <3>2. kind \in Writers => CurLevel(kind) = nest
      BY DEF CurLevel, Writers
    <3> QED BY <3>1, <3>2, ConstAssumption DEF EndLevel, StartLevel
  <2>5. StmtInv'
    BY <1>1, <2>1, <2>3, <2>4 DEF StmtInv
  <2> QED BY <1>3, <2>3, <2>5 DEF UndoInv
<1>5. CASE GetSessionError(kind, k)
  <2>1. phase' = "error" /\ stmt' = <<>>
    BY <1>1, <1>5 DEF GetSessionError
  <2>2. StmtInv'
    BY <2>1 DEF StmtInv
  <2>3. ASSUME NEW c \in Conn, NEW to \in StartLevel(c)..(EndLevel(c, kind) - 1),
               db2AllocConnHdl(k, c), db2SetSavepoint(c, StartLevel(c), to)
        PROVE  HeldInv' /\ FreshInv'
    <3>1. to \in StartLevel(c)..EndLevel(c, kind)
      BY <1>1, <1>2, <2>3, LevelFacts, ConstAssumption
    <3> QED BY <1>1, <2>3, <3>1, UndoSavepoints
  <2>4. ASSUME AllocFails(k), UNCHANGED <<spVars, uow>>
        PROVE  HeldInv' /\ FreshInv'
    <3>1. UNCHANGED <<connlist, link>>
      BY <1>2, <2>4 DEF AllocFails, EnvFails, ConnectFails, AutocommitFails
    <3> QED BY <1>1, <1>2, <2>1, <2>4, <3>1 DEF spVars, UndoInv, HeldInv, FreshInv, Fresh
  <2>5. HeldInv' /\ FreshInv'
    BY <1>5, <2>3, <2>4 DEF GetSessionError
  <2> QED BY <1>3, <2>2, <2>5 DEF UndoInv
<1> QED BY <1>4, <1>5

\* UInv is inductive.
LEMMA UndoInductive ==
  ASSUME KeepsUow, UInv, [Next]_vars
  PROVE  UInv'
<1>1. "autocommit" \notin Faults
  BY DEF KeepsUow
<1>2. RInv' /\ LiveInv'
  BY <1>1, RestInductive, LiveInductive DEF UInv, RInv
<1>3. UndoInv'
  <2>1. CASE Statement
    BY <1>2, <2>1, UndoSession, UndoStatement, UndoQuiet, UndoClose DEF Statement
  <2>2. CASE Callback
    BY <2>2, UndoQuiet, UndoSubAbort, UndoEnd DEF Callback
  <2>3. CASE Begin \/ SubBegin \/ SubCommit \/ StartUnwind \/ StartCommit \/ PrepareTransaction
    BY <2>3, UndoQuiet
  <2>4. CASE db2Shutdown \/ (\E c \in Conn : ConnectionLost(c)) \/ Exited \/ UNCHANGED vars
    BY <2>4, UndoQuiet, UndoClose
  <2> QED BY <2>1, <2>2, <2>3, <2>4 DEF Next
<1> QED BY <1>2, <1>3 DEF UInv

\* A new backend.
LEMMA InitUInv == Init => UInv
<1> SUFFICES ASSUME Init PROVE UInv
  OBVIOUS
<1>1. LiveInv /\ StmtInv /\ OwedInv
  BY DEF Init, LiveInv, StmtInv, OwedInv
<1>2. HeldInv /\ FreshInv
  BY RangeEmpty DEF Init, HeldInv, FreshInv, Fresh
<1> QED BY <1>1, <1>2, InitRInv DEF UInv, UndoInv

\* Only a commit makes writes durable, and only writes that are owed: never
\* one of a transaction or a subtransaction that was rolled back.  This holds
\* for any number of servers, connections and levels, when connections break,
\* commits fail and answers get lost.
THEOREM NothingUndoneIsDurable ==
  ASSUME KeepsUow
  PROVE  Spec => NoAbortedWriteDurable
<1> DEFINE Only == durable' # durable => phase = "precommit" /\ durable' \ durable \subseteq owed
<1>1. ASSUME UInv, Next PROVE Only
  <2> SUFFICES ASSUME durable' # durable
               PROVE  phase = "precommit" /\ durable' \ durable \subseteq owed
    OBVIOUS
  <2>1. CASE PreCommitCallback
    <3> DEFINE c == Head(todo)
    <3>1. phase = "precommit" /\ durable' = durable \cup pending[c]
          /\ Reachable(c) /\ link[c] = "open"
      BY <2>1 DEF PreCommitCallback, EndTransactionOk, CommitFails
    <3>2. pending[c] \subseteq owed
      BY <1>1, <3>1 DEF UInv, UndoInv, HeldInv, Reachable
    <3> QED BY <3>1, <3>2
  <2>2. CASE \/ Read \/ db2ExecForeignInsert \/ db2IterateDirectModify
             \/ db2ExecuteTruncate \/ StatementError
    BY <1>1, <2>2, UndoStatement
  <2>3. CASE \/ db2_diag \/ CloseRefused \/ db2CloseConnections \/ Exited \/ db2Shutdown
             \/ \E kind \in AllStmts, k \in Keys : db2GetSession(kind, k) \/ GetSessionError(kind, k)
    BY <2>3 DEF db2_diag, CloseRefused, db2CloseConnections, db2Shutdown, Exited, vars, workVars,
       db2GetSession, GetSessionError
  <2>4. CASE \/ Begin \/ SubBegin \/ SubCommit \/ StartUnwind \/ StartCommit \/ PrepareTransaction
             \/ \E c \in Conn : ConnectionLost(c)
    BY <2>4 DEF Begin, SubBegin, SubCommit, StartUnwind, StartCommit, PrepareTransaction,
       ConnectionLost, workVars
  <2>5. CASE \/ SubAbortCallback \/ SubAbortDone \/ LocalCommitFails \/ LocalCommit
             \/ CommitCallback \/ AbortCallback \/ EndXact
    BY <2>5 DEF SubAbortCallback, SubAbortDone, LocalCommitFails, LocalCommit, CommitCallback,
       AbortCallback, EndTransactionOk, EndXact, workVars
  <2> QED BY <1>1, <2>1, <2>2, <2>3, <2>4, <2>5 DEF Next, Statement, Callback
<1>2. UInv /\ [Next]_vars => UInv'
  BY UndoInductive
<1>3. UInv /\ [Next]_vars => [Only]_vars
  BY <1>1
<1> QED BY InitUInv, <1>2, <1>3, PTL DEF Spec, NoAbortedWriteDurable

----------------------------------------------------------------------------
(* One server.                                                             *)

\* The walk from the new entry reaches it.
LEMMA WalkFromHasNew ==
  ASSUME NEW S, NEW s \in Seq(S), NEW c \in S
  PROVE  c \in RangeOf(WalkFrom(insertconnEntry(s, c), c))
<1> DEFINE t == Append(s, c)
           i == CHOOSE j \in DOMAIN t : t[j] = c
<1>1. /\ t \in Seq(S) /\ Len(t) \in Nat /\ Len(t) >= 1 /\ DOMAIN t = 1..Len(t)
      /\ t[Len(t)] = c
  OBVIOUS
<1>2. i \in 1..Len(t)
  BY <1>1
<1> HIDE DEF i, t
<1> DEFINE u == SubSeq(t, i, Len(t))
<1>3. /\ DOMAIN u = 1..(Len(t) - i + 1)
      /\ \A j \in 1..(Len(t) - i + 1) : u[j] = t[i + j - 1]
  BY <1>1, <1>2
<1> HIDE DEF u
<1>4. Len(t) - i + 1 \in DOMAIN u /\ u[Len(t) - i + 1] = c
  BY <1>1, <1>2, <1>3
<1> QED BY <1>4 DEF RangeOf, WalkFrom, insertconnEntry, u, t, i

\* A new entry is made only when there is none.
LEMMA OneCacheEntry ==
  ASSUME IInv, OneInv, OneKey, NEW k \in Keys, NEW c \in Conn, CacheEntry(k, c)
  PROVE  OneInv'
<1>1. RangeOf(connlist) = {}
  BY DEF CacheEntry, findconnEntry, OneInv, OneKey
<1>2. RangeOf(connlist') = {c}
  BY <1>1, WalkFromRange, WalkFromHasNew DEF CacheEntry, IInv, WorkInv, TypeOK
<1>3. /\ key'[c] = k
      /\ \A d \in Conn : d # c => link'[d] = link[d]
  BY DEF CacheEntry, IInv, WorkInv, TypeOK
<1> QED BY <1>1, <1>2, <1>3 DEF OneInv

\* With one server, user and token there is one connection at a time.
LEMMA OneInductive ==
  ASSUME IInv, OneInv, OneKey, [Next]_vars
  PROVE  OneInv'
<1>1. CASE UNCHANGED <<connlist, key, link>>
  BY <1>1 DEF OneInv
<1>2. ASSUME UNCHANGED <<connlist, key>>, NEW c \in Conn, link[c] = "open",
             link' = [link EXCEPT ![c] = "broken"]
      PROVE  OneInv'
  <2>1. \A d \in Conn : link'[d] \in {"open", "broken"} => link[d] \in {"open", "broken"}
    BY <1>2 DEF IInv, WorkInv, TypeOK
  <2> QED BY <1>2, <2>1 DEF OneInv
<1>3. CASE PreCommitCallback
  <2>1. Head(todo) \in Conn
    BY <1>3, TodoFacts DEF PreCommitCallback
  <2>2. /\ UNCHANGED <<connlist, key>>
        /\ \/ link' = link
           \/ link[Head(todo)] = "open" /\ link' = [link EXCEPT ![Head(todo)] = "broken"]
    BY <1>3 DEF PreCommitCallback, CommitFails
  <2> QED BY <1>1, <1>2, <2>1, <2>2
<1>4. CASE \E c \in Conn : ConnectionLost(c)
  BY <1>2, <1>4 DEF ConnectionLost
<1>5. CASE \E kind \in AllStmts, k \in Keys : db2GetSession(kind, k) \/ GetSessionError(kind, k)
  <2>1. PICK kind \in AllStmts, k \in Keys : db2GetSession(kind, k) \/ GetSessionError(kind, k)
    BY <1>5
  <2>2. ASSUME NEW c \in Conn, db2AllocConnHdl(k, c) PROVE OneInv'
    BY <1>1, <2>2, OneCacheEntry DEF db2AllocConnHdl, cacheVars
  <2>3. ASSUME AllocFails(k) PROVE OneInv'
    BY <1>1, <2>3, OneCacheEntry DEF AllocFails, EnvFails, ConnectFails, AutocommitFails
  <2> QED BY <2>1, <2>2, <2>3 DEF db2GetSession, GetSessionError
<1>6. CASE db2CloseConnections \/ db2Shutdown
  <2>1. CASE connlist # <<>> /\ db2FreeConnHdl(Head(connlist)) /\ connlist' = <<>>
    <3>1. Head(connlist) \in Conn /\ Head(connlist) \in RangeOf(connlist)
      BY <2>1, RangeHeadTail DEF IInv, WorkInv, TypeOK
    <3>2. /\ link'[Head(connlist)] = "closed"
          /\ \A d \in Conn : d # Head(connlist) => link'[d] = link[d]
      BY <2>1, <3>1 DEF db2FreeConnHdl, IInv, WorkInv, TypeOK
    <3>3. \A d \in Conn : link'[d] \notin {"open", "broken"}
      BY <3>1, <3>2 DEF OneInv
    <3> QED BY <2>1, <3>3, RangeEmpty DEF OneInv
  <2>2. CASE UNCHANGED link /\ connlist = <<>> /\ connlist' = <<>>
    BY <2>2, RangeEmpty DEF OneInv
  <2> QED BY <1>1, <1>6, <2>1, <2>2 DEF db2CloseConnections, db2Shutdown, db2FreeEnvHdl, cacheVars
<1>7. CASE \/ Begin \/ SubBegin \/ SubCommit \/ StartUnwind \/ StartCommit \/ PrepareTransaction
           \/ SubAbortCallback \/ SubAbortDone \/ LocalCommitFails \/ LocalCommit
           \/ CommitCallback \/ AbortCallback \/ EndXact
  BY <1>1, <1>7 DEF Begin, SubBegin, SubCommit, StartUnwind, StartCommit, PrepareTransaction,
       SubAbortCallback, SubAbortDone, LocalCommitFails, LocalCommit, CommitCallback,
       AbortCallback, EndXact, cacheVars
<1>8. CASE \/ Read \/ db2_diag \/ db2ExecForeignInsert \/ db2IterateDirectModify
           \/ db2ExecuteTruncate \/ StatementError \/ CloseRefused \/ Exited \/ UNCHANGED vars
  BY <1>1, <1>8 DEF Read, db2_diag, db2ExecForeignInsert, db2IterateDirectModify,
       db2ExecuteTruncate, StatementError, CloseRefused, Exited, cacheVars, vars
<1> QED BY <1>3, <1>4, <1>5, <1>6, <1>7, <1>8 DEF Next, Statement, Callback

\* A new backend has no connection.
LEMMA InitOneInv == Init => OneInv
BY RangeEmpty DEF Init, OneInv

\* The cache never holds two connections for the only key; with a second key
\* it can, because earlier entries drop out of the walk.
THEOREM OneConnection ==
  ASSUME OneKey
  PROVE  Spec => []OneConnectionPerKey
<1>1. Init => IInv /\ OneInv
  BY InitIInv, InitOneInv
<1>2. IInv /\ OneInv /\ [Next]_vars => IInv' /\ OneInv'
  BY Inductive, OneInductive
<1>3. IInv /\ OneInv => OneConnectionPerKey
  BY DEF OneInv, OneConnectionPerKey
<1> QED BY <1>1, <1>2, <1>3, PTL DEF Spec

\* While a transaction runs, the unit of work of the connection is what is
\* owed: nothing that was rolled back is in it, and nothing else is missing.
THEOREM UowIsOwed ==
  ASSUME KeepsUow, OneKey
  PROVE  Spec => []PendingIsOwed
<1>1. Init => UInv /\ OneInv
  BY InitUInv, InitOneInv
<1>2. UInv /\ OneInv /\ [Next]_vars => UInv' /\ OneInv'
  BY UndoInductive, OneInductive DEF UInv, RInv
<1>3. UInv /\ OneInv => PendingIsOwed
  <2> SUFFICES ASSUME UInv, OneInv, phase = "run", NEW c \in Conn, link[c] = "open"
               PROVE  pending[c] = On(c, owed) \ durable
    BY DEF PendingIsOwed
  <2>1. pending[c] \subseteq owed
    BY DEF UInv, UndoInv, HeldInv, OneInv
  <2>2. \A w \in pending[c] : w[1] = c /\ w \notin durable
    BY DEF UInv, UndoInv, FreshInv, Fresh
  <2>3. \A w \in On(c, owed) : w \in durable \/ w \in pending[c]
    BY DEF UInv, RInv, IInv, WorkInv, DueInv, Covered, Due, KeepsUow, NoDeadlock
  <2> QED BY <2>1, <2>2, <2>3 DEF On
<1> QED BY <1>1, <1>2, <1>3, PTL DEF Spec

\* Every level that xact_level covers has its savepoint, and rolling back to
\* it undoes exactly what the level has added.
THEOREM SavepointsExact ==
  ASSUME KeepsUow, OneKey
  PROVE  Spec => []SavepointsUpToLevel
<1>1. Init => UInv /\ OneInv
  BY InitUInv, InitOneInv
<1>2. UInv /\ OneInv /\ [Next]_vars => UInv' /\ OneInv'
  BY UndoInductive, OneInductive DEF UInv, RInv
<1>3. UInv /\ OneInv => SavepointsUpToLevel
  <2> SUFFICES ASSUME UInv, OneInv, phase = "run", NEW c \in Conn, link[c] = "open",
                      NEW n \in 2..level[c]
               PROVE  n <= nest /\ n \in sp[c] /\ saved[c][n] = On(c, owedAt[n])
    BY DEF SavepointsUpToLevel
  <2>1. n \in 2..nest /\ n <= level[c] /\ c \in RangeOf(connlist)
    BY UndoFacts DEF OneInv
  <2>2. n \in sp[c] /\ saved[c][n] \subseteq owedAt[n]
    BY <2>1 DEF UInv, UndoInv, HeldInv
  <2>3. \A w \in saved[c][n] : w[1] = c
    BY <2>2 DEF UInv, UndoInv, FreshInv, Fresh
  <2>4. owedAt[n] \subseteq owed /\ owed \cap durable = {}
    BY <2>1 DEF UInv, UndoInv, OwedInv, Going, RInv, IInv, WorkInv, NestInv, InXact
  <2>5. On(c, owedAt[n]) \subseteq durable \cup saved[c][n]
    BY <2>1, <2>2 DEF UInv, RInv, IInv, WorkInv, SavedInv, KeepsUow, NoDeadlock
  <2> QED BY <2>1, <2>2, <2>3, <2>4, <2>5 DEF On
<1> QED BY <1>1, <1>2, <1>3, PTL DEF Spec

----------------------------------------------------------------------------
(* dml_in_transaction.                                                     *)

\* The flag is reset only by callbacks at the end of the transaction.
LEMMA DmlInductive ==
  ASSUME UInv, DmlInv, KeepsUow, RowWise, [Next]_vars
  PROVE  DmlInv'
<1> USE DEF DmlInv, Going
<1>1. IInv
  BY DEF UInv, RInv
<1>2. CASE UNCHANGED <<dml, owed, nest, phase>>
  BY <1>2
<1>3. CASE Begin \/ SubBegin \/ SubCommit \/ StartUnwind \/ StartCommit \/ PrepareTransaction
  BY <1>1, <1>3, UndoFacts DEF Begin, SubBegin, SubCommit, StartUnwind, StartCommit,
     PrepareTransaction, workVars, IInv, PhaseInv
<1>4. CASE SubAbortDone
  <2>1. nest \in 2..nest /\ phase = "subabort"
    BY <1>1, <1>4, UndoFacts DEF SubAbortDone, IInv, WorkInv, PhaseInv
  <2>2. owedAt[nest] \subseteq owed
    BY <1>1, <2>1 DEF IInv, WorkInv, NestInv, InXact
  <2> QED BY <1>4, <2>1, <2>2 DEF SubAbortDone, workVars
<1>5. CASE \/ PreCommitCallback \/ AbortCallback \/ CommitCallback
           \/ LocalCommit \/ LocalCommitFails \/ EndXact
  <2>1. phase \in {"precommit", "abort", "commit"} /\ phase' # "run" /\ nest' \in {0, nest}
    BY <1>5 DEF PreCommitCallback, AbortCallback, CommitCallback, LocalCommit,
       LocalCommitFails, EndXact
  <2>2. nest = 1
    BY <1>1, <2>1 DEF IInv, WorkInv, PhaseInv
  <2> QED BY <2>1, <2>2
<1>6. CASE SubAbortCallback \/ (\E c \in Conn : ConnectionLost(c)) \/ Exited \/ UNCHANGED vars
  BY <1>2, <1>6 DEF SubAbortCallback, ConnectionLost, Exited, vars, pgVars, workVars
<1>7. CASE \/ db2CloseConnections \/ db2Shutdown \/ CloseRefused
           \/ \E kind \in AllStmts, k \in Keys : db2GetSession(kind, k) \/ GetSessionError(kind, k)
  BY <1>7 DEF db2CloseConnections, db2Shutdown, CloseRefused, workVars,
     db2GetSession, GetSessionError, CanStart
<1>8. CASE Read \/ db2_diag \/ db2ExecForeignInsert
  BY <1>8 DEF Read, db2_diag, db2ExecForeignInsert, workVars
<1>9. CASE db2IterateDirectModify \/ db2ExecuteTruncate
  BY <1>9 DEF db2IterateDirectModify, db2ExecuteTruncate, Running, UInv, UndoInv, StmtInv,
     KeepsUow, RowWise
<1>10. CASE StatementError
  BY <1>10 DEF StatementError, Running
<1> QED BY <1>3, <1>4, <1>5, <1>6, <1>7, <1>8, <1>9, <1>10 DEF Next, Statement, Callback

\* As long as modifications go through the row-wise calls, the flag that
\* refuses db2_close_connections is set while the transaction holds any.
THEOREM FlagSet ==
  ASSUME KeepsUow, RowWise
  PROVE  Spec => []DmlFlagSet
<1>1. Init => UInv /\ DmlInv
  BY InitUInv DEF Init, DmlInv, Going
<1>2. UInv /\ DmlInv /\ [Next]_vars => UInv' /\ DmlInv'
  BY UndoInductive, DmlInductive
<1>3. UInv /\ DmlInv => DmlFlagSet
  BY DEF DmlInv, Going, DmlFlagSet
<1> QED BY <1>1, <1>2, <1>3, PTL DEF Spec

----------------------------------------------------------------------------
(* One server: the steps of NestedXact.                                    *)

\* The invariant that the refinement rests on, and a step of the remote side.
RefInv == UInv /\ OneInv
RemoteStep == [Remote!NNext]_(Remote!nvars)

\* No connection is lost under a running transaction.
NoLoss == "commlost" \notin Faults

----------------------------------------------------------------------------
(* The refinement mapping.                                                 *)

\* There is one open connection or none.
LEMMA LiveFacts ==
  ASSUME RefInv, NEW c \in Live
  PROVE  Live = {c} /\ c \in Conn /\ c \in RangeOf(connlist) /\ link[c] = "open"
BY DEF RefInv, OneInv, Live

\* The nesting of the remote side by phase.
LEMMA DepthOf ==
  /\ phase = "run" => UowDepth = nest
  /\ phase \in {"idle", "commit", "exit"} => UowDepth = 0
  /\ phase \in {"precommit", "abort"} \/ (phase = "error" /\ nest = 1) =>
       UowDepth = IF \E c \in Live : uow[c] THEN 1 ELSE 0
  /\ phase = "error" /\ nest # 1 => UowDepth = nest
  /\ phase = "subabort" =>
       UowDepth = IF \E c \in Live : level[c] >= nest THEN nest ELSE nest - 1
BY DEF UowDepth

LEMMA DepthNext ==
  /\ phase' = "run" => UowDepth' = nest'
  /\ phase' \in {"idle", "commit", "exit"} => UowDepth' = 0
  /\ phase' \in {"precommit", "abort"} \/ (phase' = "error" /\ nest' = 1) =>
       UowDepth' = IF \E c \in Live' : uow'[c] THEN 1 ELSE 0
  /\ phase' = "error" /\ nest' # 1 => UowDepth' = nest'
  /\ phase' = "subabort" =>
       UowDepth' = IF \E c \in Live' : level'[c] >= nest' THEN nest' ELSE nest' - 1
BY DEF UowDepth

\* The work and the levels' starts, with one connection.
LEMMA OneLive ==
  ASSUME NEW c, Live = {c}
  PROVE  /\ UowWork = pending[c]
         /\ UowBase = [n \in Levels |-> IF n \notin 2..UowDepth THEN {}
                         ELSE IF level[c] >= n THEN saved[c][n] ELSE pending[c]]
<1>1. UowWork = pending[c]
  BY DEF UowWork
<1>2. ASSUME NEW n \in Levels
      PROVE  (IF n \notin 2..UowDepth THEN {}
              ELSE IF \E d \in Live : level[d] >= n
                     THEN UNION {saved[d][n] : d \in {e \in Live : level[e] >= n}}
                     ELSE UowWork)
             = (IF n \notin 2..UowDepth THEN {}
                ELSE IF level[c] >= n THEN saved[c][n] ELSE pending[c])
  <2>1. CASE level[c] >= n
    <3>1. {e \in Live : level[e] >= n} = {c}
      BY <2>1
    <3>2. UNION {saved[d][n] : d \in {c}} = saved[c][n]
      OBVIOUS
    <3> QED BY <2>1, <3>1, <3>2
  <2>2. CASE ~(level[c] >= n)
    BY <1>1, <2>2
  <2> QED BY <2>1, <2>2
<1> QED BY <1>1, <1>2 DEF UowBase

LEMMA OneLiveNext ==
  ASSUME NEW c, Live' = {c}
  PROVE  /\ UowWork' = pending'[c]
         /\ UowBase' = [n \in Levels |-> IF n \notin 2..UowDepth' THEN {}
                          ELSE IF level'[c] >= n THEN saved'[c][n] ELSE pending'[c]]
<1>1. UowWork' = pending'[c]
  BY DEF UowWork
<1>2. ASSUME NEW n \in Levels
      PROVE  (IF n \notin 2..UowDepth' THEN {}
              ELSE IF \E d \in Live' : level'[d] >= n
                     THEN UNION {saved'[d][n] : d \in {e \in Live' : level'[e] >= n}}
                     ELSE UowWork')
             = (IF n \notin 2..UowDepth' THEN {}
                ELSE IF level'[c] >= n THEN saved'[c][n] ELSE pending'[c])
  <2>1. CASE level'[c] >= n
    <3>1. {e \in Live' : level'[e] >= n} = {c}
      BY <2>1
    <3>2. UNION {saved'[d][n] : d \in {c}} = saved'[c][n]
      OBVIOUS
    <3> QED BY <2>1, <3>1, <3>2
  <2>2. CASE ~(level'[c] >= n)
    BY <1>1, <2>2
  <2> QED BY <2>1, <2>2
<1> QED BY <1>1, <1>2 DEF UowBase

\* The same before and after a step, with the depths d and e.
LEMMA OneLivePair ==
  ASSUME NEW c, Live = {c}, Live' = {c}, NEW d, UowDepth = d, NEW e, UowDepth' = e
  PROVE  /\ UowWork = pending[c] /\ UowWork' = pending'[c]
         /\ UowBase = [n \in Levels |-> IF n \notin 2..d THEN {}
                         ELSE IF level[c] >= n THEN saved[c][n] ELSE pending[c]]
         /\ UowBase' = [n \in Levels |-> IF n \notin 2..e THEN {}
                          ELSE IF level'[c] >= n THEN saved'[c][n] ELSE pending'[c]]
<1>1. /\ UowWork = pending[c]
      /\ UowBase = [n \in Levels |-> IF n \notin 2..UowDepth THEN {}
                      ELSE IF level[c] >= n THEN saved[c][n] ELSE pending[c]]
  BY OneLive
<1>2. /\ UowWork' = pending'[c]
      /\ UowBase' = [n \in Levels |-> IF n \notin 2..UowDepth' THEN {}
                       ELSE IF level'[c] >= n THEN saved'[c][n] ELSE pending'[c]]
  BY OneLiveNext
<1>3. UowDepth = d /\ UowDepth' = e
  OBVIOUS
<1> HIDE DEF UowDepth
<1> QED BY <1>1, <1>2, <1>3

\* Without a connection there is no work.
LEMMA NoneLive ==
  ASSUME Live = {}
  PROVE  UowWork = {} /\ UowBase = [n \in Levels |-> {}]
<1>1. UowWork = {}
  BY DEF UowWork
<1> QED BY <1>1 DEF UowBase

LEMMA NoneLiveNext ==
  ASSUME Live' = {}
  PROVE  UowWork' = {} /\ UowBase' = [n \in Levels |-> {}]
<1>1. UowWork' = {}
  BY DEF UowWork
<1> QED BY <1>1 DEF UowBase

\* Outside subtransactions no level has a start.
LEMMA LowBase ==
  /\ UowDepth \in {0, 1} => UowBase = [n \in Levels |-> {}]
  /\ UowDepth' \in {0, 1} => UowBase' = [n \in Levels |-> {}]
<1>1. ASSUME NEW d \in {0, 1} PROVE 2..d = {}
  OBVIOUS
<1> QED BY <1>1 DEF UowBase

\* A connection without a unit of work holds nothing.
LEMMA Drained ==
  /\ RefInv /\ ~(\E c \in Live : uow[c]) => UowWork = {}
  /\ RefInv' /\ ~(\E c \in Live' : uow'[c]) => UowWork' = {}
<1>1. RefInv /\ ~(\E c \in Live : uow[c]) => \A c \in Live : pending[c] = {}
  BY DEF RefInv, UInv, RInv, IInv, WorkInv, LinkInv, Live
<1>2. RefInv' /\ ~(\E c \in Live' : uow'[c]) => \A c \in Live' : pending'[c] = {}
  BY DEF RefInv, UInv, RInv, IInv, WorkInv, LinkInv, Live
<1> QED BY <1>1, <1>2 DEF UowWork

----------------------------------------------------------------------------
(* Kinds of steps.                                                         *)

\* Nothing that the mapping shows has changed.
LEMMA StutterStep ==
  ASSUME UowDepth' = UowDepth, UowWork' = UowWork, UowBase' = UowBase, durable' = durable
  PROVE  RemoteStep
BY DEF RemoteStep, Remote!nvars

\* The outermost level goes on, or ends with all of its work or none.
LEMMA EndStep ==
  ASSUME UowDepth \in {0, 1}, UowDepth' \in {0, UowDepth},
         UowDepth' = UowDepth => UowWork' = UowWork /\ durable' = durable,
         UowDepth' # UowDepth => UowWork' = {} /\ durable' \in {durable, durable \cup UowWork}
  PROVE  RemoteStep
<1>1. UowBase' = UowBase
  BY LowBase
<1>2. CASE UowDepth' = UowDepth
  BY <1>1, <1>2, StutterStep
<1>3. CASE UowDepth' # UowDepth
  <2>1. UowDepth = 1 /\ UowDepth' = 0
    BY <1>3
  <2> QED BY <1>1, <1>3, <2>1 DEF RemoteStep, Remote!NNext, Remote!NEnd
<1> QED BY <1>2, <1>3

\* What the mapping shows of the connection, if there is one, is as before.
LEMMA SameStep ==
  ASSUME Live' = Live, UowDepth' = UowDepth, durable' = durable,
         \A c \in Live : level'[c] = level[c] /\ pending'[c] = pending[c] /\ saved'[c] = saved[c],
         RefInv
  PROVE  RemoteStep
<1>1. CASE Live = {}
  BY <1>1, NoneLive, NoneLiveNext, StutterStep
<1>2. ASSUME NEW c \in Live PROVE RemoteStep
  <2>1. Live = {c} /\ Live' = {c}
    BY <1>2, LiveFacts
  <2>2. level'[c] = level[c] /\ pending'[c] = pending[c] /\ saved'[c] = saved[c]
    BY <1>2
  <2>3. /\ UowWork = pending[c]
        /\ UowBase = [n \in Levels |-> IF n \notin 2..UowDepth THEN {}
                        ELSE IF level[c] >= n THEN saved[c][n] ELSE pending[c]]
    BY <2>1, OneLive
  <2>4. /\ UowWork' = pending'[c]
        /\ UowBase' = [n \in Levels |-> IF n \notin 2..UowDepth' THEN {}
                         ELSE IF level'[c] >= n THEN saved'[c][n] ELSE pending'[c]]
    BY <2>1, OneLiveNext
  <2>5. UowWork' = UowWork /\ UowBase' = UowBase
    BY <2>2, <2>3, <2>4
  <2> QED BY <2>5, StutterStep
<1> QED BY <1>1, <1>2

\* A level ends.
LEMMA PopStep ==
  ASSUME UowDepth \in 2..MaxNest, UowDepth' = UowDepth - 1, durable' = durable,
         UowWork' \in {UowWork, UowBase[UowDepth]},
         \A n \in 2..(UowDepth - 1) : UowBase'[n] = UowBase[n]
  PROVE  RemoteStep
<1>1. UowDepth \in Nat /\ UowDepth \in Levels
  BY ConstAssumption DEF Levels
<1>2. /\ UowBase' = [n \in Levels |-> UowBase'[n]]
      /\ UowBase = [n \in Levels |-> UowBase[n]]
      /\ \A n \in Levels : n \notin 2..UowDepth => UowBase[n] = {}
      /\ \A n \in Levels : n \notin 2..(UowDepth - 1) => UowBase'[n] = {}
  BY DEF UowBase
<1>3. \A n \in Levels : n \in 2..(UowDepth - 1) \/ n = UowDepth \/ n \notin 2..UowDepth
  BY <1>1 DEF Levels
<1>4. UowDepth \notin 2..(UowDepth - 1)
  BY <1>1
<1>5. UowBase' = [UowBase EXCEPT ![UowDepth] = {}]
  BY <1>1, <1>2, <1>3, <1>4
<1> QED BY <1>1, <1>5 DEF RemoteStep, Remote!NNext, Remote!NPop

\* A level of the one connection ends, its work kept or back at the start.
LEMMA OnePop ==
  ASSUME NEW c, Live = {c}, Live' = {c}, NEW d \in 2..MaxNest,
         UowDepth = d, UowDepth' = d - 1, durable' = durable, saved'[c] = saved[c],
         level[c] \in Nat, level'[c] \in Nat,
         \/ pending'[c] = pending[c]
         \/ level[c] >= d /\ level'[c] >= d - 1 /\ pending'[c] = saved[c][d],
         \A n \in 2..(d - 1) : level'[c] >= n <=> level[c] >= n
  PROVE  RemoteStep
<1>1. d \in Nat /\ d \in Levels /\ \A n \in 2..(d - 1) : n \in 2..d /\ n \in Levels
  BY ConstAssumption DEF Levels
<1>2. /\ UowWork = pending[c] /\ UowWork' = pending'[c]
      /\ UowBase = [n \in Levels |-> IF n \notin 2..d THEN {}
                      ELSE IF level[c] >= n THEN saved[c][n] ELSE pending[c]]
      /\ UowBase' = [n \in Levels |-> IF n \notin 2..(d - 1) THEN {}
                       ELSE IF level'[c] >= n THEN saved'[c][n] ELSE pending'[c]]
  BY OneLivePair
<1>3. ASSUME NEW n \in 2..(d - 1)
      PROVE  UowBase'[n] = UowBase[n]
  <2>1. /\ UowBase[n] = IF level[c] >= n THEN saved[c][n] ELSE pending[c]
        /\ UowBase'[n] = IF level'[c] >= n THEN saved'[c][n] ELSE pending'[c]
    BY <1>1, <1>2
  <2>2. CASE level[c] >= n
    BY <2>1, <2>2
  <2>3. CASE ~(level[c] >= n)
    <3>1. ~(level'[c] >= n)
      BY <2>3
    <3>2. pending'[c] = pending[c]
      <4>1. n \in Nat /\ d \in Nat /\ n <= d - 1
        BY <1>1
      <4>2. ~(level[c] >= d)
        BY <2>3, <4>1
      <4> QED BY <4>2
    <3> QED BY <2>1, <2>3, <3>1, <3>2
  <2> QED BY <2>2, <2>3
<1>4. UowWork' \in {UowWork, UowBase[d]}
  BY <1>1, <1>2
<1> QED BY <1>1, <1>3, <1>4, PopStep

----------------------------------------------------------------------------
(* Steps of PostgreSQL and the callbacks.                                  *)

\* The types of what follows.
LEMMA RefFacts ==
  ASSUME RefInv
  PROVE  /\ UInv /\ RInv /\ IInv /\ OneInv
         /\ nest \in 0..MaxNest /\ MaxNest \in Nat
         /\ \A c \in Live : level[c] \in 0..nest /\ c \in RangeOf(callbacks)
         /\ phase \in {"run", "error"} => nest >= 1
<1>1. UInv /\ RInv /\ IInv /\ OneInv
  BY DEF RefInv, UInv, RInv
<1>2. \A c \in Live : c \in Conn /\ link[c] = "open"
  BY DEF Live
<1>3. \A c \in Live : level[c] \in 0..nest /\ c \in RangeOf(callbacks)
  BY <1>1, <1>2, UndoFacts
<1> QED BY <1>1, <1>3, UndoFacts DEF IInv, WorkInv, PhaseInv, InXact

\* An ERROR, the start of an event or of the commit leave the connections
\* alone; without a unit of work the remote transaction ends here.
LEMMA QuietStep ==
  ASSUME RefInv, RefInv', phase \in {"run", "error"}, nest' = nest,
         \/ nest = 1 /\ phase' \in {"error", "precommit", "abort"}
         \/ phase' = "error"
         \/ phase' = "run" /\ phase = "run",
         durable' = durable, Live' = Live,
         \A c \in Live : level'[c] = level[c] /\ pending'[c] = pending[c] /\ saved'[c] = saved[c],
         phase = "error" => \A c \in Live : uow'[c] = uow[c]
  PROVE  RemoteStep
<1>1. CASE phase' = "run" \/ nest # 1
  <2>1. UowDepth' = nest /\ UowDepth = nest
    BY <1>1, DepthOf, DepthNext
  <2> QED BY <2>1, SameStep
<1>2. CASE phase' # "run" /\ nest = 1
  <2>1. /\ UowDepth \in {0, 1} /\ UowDepth' \in {0, 1}
        /\ UowDepth' = 1 => UowDepth = 1
        /\ UowDepth' = 0 => ~(\E c \in Live' : uow'[c])
    BY <1>2, DepthOf, DepthNext
  <2>2. UowWork' = UowWork
    BY DEF UowWork
  <2>3. UowDepth' = 0 => UowWork' = {}
    BY <2>1, Drained
  <2> QED BY <2>1, <2>2, <2>3, EndStep
<1> QED BY <1>1, <1>2

\* BEGIN.
LEMMA RefBegin == ASSUME RefInv, RefInv', Begin PROVE RemoteStep
<1>1. UowDepth = 0 /\ UowDepth' = 1
  BY DepthOf, DepthNext DEF Begin
<1>2. UowBase' = UowBase
  BY <1>1, LowBase
<1>3. UowWork' = UowWork /\ durable' = durable
  BY DEF UowWork, Live, Begin, cacheVars, workVars
<1> QED BY <1>1, <1>2, <1>3 DEF RemoteStep, Remote!NNext, Remote!NBegin

\* SAVEPOINT: the new level starts from the work there is.
LEMMA RefSubBegin == ASSUME RefInv, RefInv', SubBegin PROVE RemoteStep
<1> USE DEF SubBegin, cacheVars, spVars, workVars
<1>1. /\ UowDepth = nest /\ UowDepth' = nest + 1
      /\ nest \in 1..(MaxNest - 1) /\ nest + 1 \in Levels
  BY RefFacts, DepthOf, DepthNext DEF Levels
<1>2. /\ Live' = Live /\ UowWork' = UowWork /\ durable' = durable
  BY DEF UowWork, Live
<1>3. UowBase' = [UowBase EXCEPT ![nest + 1] = UowWork]
  <2>1. \A n \in Levels : n \in 2..(nest + 1) <=> n \in 2..nest \/ n = nest + 1
    BY <1>1 DEF Levels
  <2>2. nest + 1 \notin 2..nest
    BY <1>1
  <2>3. CASE Live = {}
    BY <1>1, <1>2, <2>3, NoneLive, NoneLiveNext
  <2>4. ASSUME NEW c \in Live
        PROVE  UowBase' = [UowBase EXCEPT ![nest + 1] = UowWork]
    <3>1. Live = {c} /\ ~(level[c] >= nest + 1)
      BY <1>1, <2>4, LiveFacts, RefFacts
    <3>2. /\ UowWork = pending[c]
          /\ UowBase = [n \in Levels |-> IF n \notin 2..nest THEN {}
                          ELSE IF level[c] >= n THEN saved[c][n] ELSE pending[c]]
          /\ UowBase' = [n \in Levels |-> IF n \notin 2..(nest + 1) THEN {}
                          ELSE IF level[c] >= n THEN saved[c][n] ELSE pending[c]]
      <4> HIDE DEF SubBegin
      <4>1. level' = level /\ saved' = saved /\ pending' = pending
        BY DEF SubBegin
      <4> QED BY <1>1, <1>2, <3>1, <4>1, OneLivePair
    <3> QED BY <1>1, <2>1, <2>2, <3>1, <3>2
  <2> QED BY <2>3, <2>4
<1> QED BY <1>1, <1>2, <1>3 DEF RemoteStep, Remote!NNext, Remote!NPush

\* RELEASE SAVEPOINT: the work joins the level below.
LEMMA RefSubCommit == ASSUME RefInv, RefInv', SubCommit PROVE RemoteStep
<1> USE DEF SubCommit, cacheVars, workVars
<1>1. /\ UowDepth = nest /\ UowDepth' = nest - 1 /\ nest \in 2..MaxNest
      /\ durable' = durable /\ Live' = Live
  BY RefFacts, DepthOf, DepthNext DEF Live
<1>2. CASE Live = {}
  BY <1>1, <1>2, NoneLive, NoneLiveNext, PopStep DEF Levels
<1>3. ASSUME NEW c \in Live PROVE RemoteStep
  <2>1. /\ Live = {c} /\ Live' = {c} /\ c \in Conn
        /\ nest \in Nat /\ nest > 1 /\ level[c] \in Nat /\ level[c] <= nest
    BY <1>1, <1>3, LiveFacts, RefFacts
  <2>2. level'[c] = IF level[c] >= nest THEN nest - 1 ELSE level[c]
    BY <1>3, <2>1, RefFacts
  <2>3. level'[c] \in Nat /\ \A n \in 2..(nest - 1) : level'[c] >= n <=> level[c] >= n
    BY <2>1, <2>2
  <2>4. pending' = pending /\ saved' = saved
    OBVIOUS
  <2> QED BY <1>1, <2>1, <2>3, <2>4, OnePop
<1> QED BY <1>2, <1>3

\* ROLLBACK TO starts: without a savepoint level on the connection there is
\* nothing to undo, and the level ends here.
LEMMA RefStartUnwind == ASSUME RefInv, RefInv', StartUnwind PROVE RemoteStep
<1> USE DEF StartUnwind, cacheVars, spVars, workVars
<1>1. /\ phase \in {"run", "error"} /\ nest' = nest /\ nest \in 1..MaxNest
      /\ durable' = durable /\ Live' = Live
  BY RefFacts DEF Live
<1>2. CASE nest = 1
  BY <1>1, <1>2, QuietStep
<1>3. CASE nest # 1
  <2>1. /\ UowDepth = nest /\ nest \in 2..MaxNest
        /\ UowDepth' = IF \E c \in Live : level[c] >= nest THEN nest ELSE nest - 1
    BY <1>1, <1>3, DepthOf, DepthNext
  <2>2. CASE \E c \in Live : level[c] >= nest
    BY <1>1, <2>1, <2>2, SameStep
  <2>3. CASE ~(\E c \in Live : level[c] >= nest)
    <3>1. CASE Live = {}
      BY <1>1, <2>1, <2>3, <3>1, NoneLive, NoneLiveNext, PopStep DEF Levels
    <3>2. ASSUME NEW c \in Live PROVE RemoteStep
      <4>1. Live = {c} /\ Live' = {c} /\ level[c] \in Nat
        BY <1>1, <3>2, LiveFacts, RefFacts
      <4>2. UowDepth' = nest - 1 /\ level' = level /\ pending' = pending /\ saved' = saved
        BY <2>1, <2>3
      <4> QED BY <1>1, <2>1, <4>1, <4>2, OnePop
    <3> QED BY <3>1, <3>2
  <2> QED BY <2>2, <2>3
<1> QED BY <1>2, <1>3

\* ROLLBACK TO SAVEPOINT is where the level's work is undone.
LEMMA RefSubAbort == ASSUME RefInv, RefInv', KeepsUow, SubAbortCallback PROVE RemoteStep
<1> DEFINE c == Head(todo)
<1>1. /\ phase = "subabort" /\ phase' = "subabort" /\ todo # <<>> /\ nest' = nest
      /\ UNCHANGED <<link, saved, durable>> /\ Live' = Live
  BY DEF SubAbortCallback, cacheVars, Live
<1>2. c \in Conn /\ nest \in 2..MaxNest
  BY <1>1, RefFacts, TodoFacts DEF IInv, WorkInv, PhaseInv
<1>3. /\ UowDepth = IF \E d \in Live : level[d] >= nest THEN nest ELSE nest - 1
      /\ UowDepth' = IF \E d \in Live : level'[d] >= nest THEN nest ELSE nest - 1
  BY <1>1, DepthOf, DepthNext
<1>4. CASE UNCHANGED <<level, pending>>
  BY <1>1, <1>3, <1>4, SameStep
<1>5. CASE db2EndSubtransaction(c) /\ level[c] >= nest
  <2>1. /\ level' = [level EXCEPT ![c] = nest - 1]
        /\ \A d \in Conn : d # c => level'[d] = level[d]
        /\ level'[c] = nest - 1
    BY <1>2, <1>5, RefFacts DEF db2EndSubtransaction, IInv, WorkInv, TypeOK
  <2>2. CASE c \notin Live
    <3>1. pending' = pending
      BY <1>2, <1>5, <2>2 DEF db2EndSubtransaction, Live
    <3>2. \A d \in Live : d \in Conn /\ d # c
      BY <2>2 DEF Live
    <3>3. \A d \in Live : level'[d] = level[d]
      BY <2>1, <3>2
    <3> QED BY <1>1, <1>3, <3>1, <3>3, SameStep
  <2>3. CASE c \in Live
    <3>1. /\ Live = {c} /\ Live' = {c} /\ Reachable(c) /\ link[c] = "open" /\ level[c] = nest
      BY <1>1, <1>2, <1>5, <2>3, LiveFacts, RefFacts DEF Reachable
    <3>2. nest \in sp[c] /\ "rollbackto" \notin Faults
      BY <1>1, <1>2, <3>1, RefFacts DEF UInv, UndoInv, HeldInv, Reachable, KeepsUow
    <3>3. pending'[c] = saved[c][nest]
      BY <1>2, <1>5, <3>1, <3>2, RefFacts DEF db2EndSubtransaction, IInv, WorkInv, TypeOK
    <3> HIDE DEF c
    <3>4. UowDepth = nest /\ UowDepth' = nest - 1
      BY <1>2, <1>3, <2>1, <3>1
    <3>5. nest \in Nat /\ nest > 1
      BY <1>2, RefFacts
    <3>6. \A n \in 2..(nest - 1) : level'[c] >= n <=> level[c] >= n
      BY <2>1, <3>1, <3>5
    <3>7. level[c] >= nest /\ level'[c] >= nest - 1 /\ level[c] \in Nat /\ level'[c] \in Nat
      BY <2>1, <3>1, <3>5
    <3> QED BY <1>1, <1>2, <3>1, <3>3, <3>4, <3>6, <3>7, OnePop
  <2> QED BY <2>2, <2>3
<1>6. level[c] < nest \/ level[c] >= nest
  BY <1>2, RefFacts DEF IInv, WorkInv, TypeOK
<1> QED BY <1>4, <1>5, <1>6 DEF SubAbortCallback

\* When it is through, DB2 is at the level below already.
LEMMA RefSubAbortDone == ASSUME RefInv, RefInv', SubAbortDone PROVE RemoteStep
<1>1. /\ phase = "subabort" /\ todo = <<>> /\ phase' = "run" /\ nest' = nest - 1 /\ durable' = durable
      /\ UNCHANGED <<link, level, pending, saved>> /\ Live' = Live
  BY DEF SubAbortDone, cacheVars, spVars, workVars, Live
<1>2. \A c \in Live : ~(level[c] >= nest)
  <2>1. \A c \in Live : level[c] < nest /\ level[c] \in Nat /\ nest \in Nat
    BY <1>1, RefFacts, RangeEmpty DEF IInv, WorkInv, LevelInv
  <2> QED BY <2>1
<1>3. UowDepth = nest - 1 /\ UowDepth' = nest - 1
  BY <1>1, <1>2, DepthOf, DepthNext
<1> QED BY <1>1, <1>3, SameStep

----------------------------------------------------------------------------
(* The end of the transaction.                                             *)

\* Steps that change neither the connections nor whether there is work.
LEMMA SamePhase ==
  ASSUME RefInv, nest' = nest, durable' = durable, UNCHANGED <<link, level, pending, saved, uow>>,
         \/ phase' = phase
         \/ /\ phase \in {"precommit", "abort"} \/ (phase = "error" /\ nest = 1)
            /\ phase' \in {"precommit", "abort"} \/ (phase' = "error" /\ nest = 1)
         \/ phase \in {"idle", "commit", "exit"} /\ phase' \in {"idle", "commit", "exit"}
  PROVE  RemoteStep
<1>1. Live' = Live
  BY DEF Live
<1>2. UowDepth' = UowDepth
  <2>1. CASE phase' = phase
    BY <1>1, <2>1 DEF UowDepth
  <2>2. CASE phase' # phase
    BY <1>1, <2>2, DepthOf, DepthNext
  <2> QED BY <2>1, <2>2
<1> QED BY <1>1, <1>2, SameStep

\* After the callbacks nothing is left in DB2.
LEMMA RefLast ==
  ASSUME RefInv, phase \in {"precommit", "abort"}, todo = <<>>
  PROVE  UowDepth = 0 /\ UowWork = {}
<1>1. \A c \in Live : level[c] = 0 /\ c \in Conn
  BY RefFacts, RangeEmpty DEF IInv, WorkInv, LevelInv, Live
<1>2. \A c \in Live : ~uow[c]
  BY <1>1, RefFacts DEF RInv, RestInv
<1> QED BY <1>2, DepthOf, Drained

LEMMA RefEnd ==
  ASSUME RefInv, RefInv', LocalCommit \/ EndXact
  PROVE  RemoteStep
<1>1. /\ phase' \in {"commit", "idle"} /\ durable' = durable
      /\ UNCHANGED <<link, level, pending, saved, uow>> /\ Live' = Live
      /\ UowDepth' = 0
  BY DepthNext DEF LocalCommit, EndXact, cacheVars, spVars, workVars, Live
<1>2. UowDepth = 0
  <2>1. phase = "commit" \/ (phase \in {"precommit", "abort"} /\ todo = <<>>)
    BY DEF LocalCommit, EndXact
  <2> QED BY <2>1, RefLast, DepthOf
<1> QED BY <1>1, <1>2, SameStep

\* The unit of work of the connection ends, or was none.
LEMMA EndUowStep ==
  ASSUME RefInv, RefInv', NEW c \in Live, EndUow(c), nest = 1, nest' = 1,
         phase \in {"precommit", "abort"}, phase' \in {"precommit", "abort", "error"},
         Live' \subseteq Live, durable' \in {durable, durable \cup pending[c]}
  PROVE  RemoteStep
<1>1. Live = {c} /\ c \in Conn
  BY LiveFacts
<1>2. ~uow'[c]
  BY <1>1, RefFacts DEF EndUow, IInv, WorkInv, TypeOK
<1>3. UowDepth' = 0 /\ UowWork' = {}
  BY <1>1, <1>2, DepthNext, Drained
<1>4. UowWork = pending[c] /\ UowDepth = IF uow[c] THEN 1 ELSE 0
  BY <1>1, OneLive, DepthOf
<1>5. ~uow[c] => UowWork = {}
  BY <1>1, Drained
<1> QED BY <1>3, <1>4, <1>5, EndStep

LEMMA RefPreCommit == ASSUME RefInv, RefInv', PreCommitCallback PROVE RemoteStep
<1> DEFINE c == Head(todo)
<1>1. /\ phase = "precommit" /\ phase' \in {"precommit", "error"} /\ nest' = nest /\ nest = 1
      /\ c \in Conn
  BY RefFacts, TodoFacts DEF PreCommitCallback, IInv, WorkInv, PhaseInv
<1>2. CASE UNCHANGED <<spVars, uow, pending, durable, link>>
  BY <1>1, <1>2, SamePhase DEF spVars
<1>3. CASE /\ link[c] = "open" /\ EndUow(c)
           /\ durable' \in {durable, durable \cup pending[c]}
           /\ link' = link \/ link' = [link EXCEPT ![c] = "broken"]
  <2>1. c \in Live
    BY <1>1, <1>3 DEF Live
  <2>2. Live' \subseteq Live
    BY <1>1, <1>3, RefFacts DEF Live, IInv, WorkInv, TypeOK
  <2> HIDE DEF c
  <2> QED BY <1>1, <1>3, <2>1, <2>2, EndUowStep
<1>4. CASE CommitFails(c)
  BY <1>1, <1>3, <1>4, SamePhase DEF CommitFails
<1> QED BY <1>2, <1>3, <1>4 DEF PreCommitCallback, EndTransactionOk

LEMMA RefAbort == ASSUME RefInv, RefInv', AbortCallback PROVE RemoteStep
<1> DEFINE c == Head(todo)
<1>1. /\ phase = "abort" /\ phase' = "abort" /\ nest' = nest /\ nest = 1
      /\ c \in Conn /\ link' = link /\ Live' = Live
  BY RefFacts, TodoFacts DEF AbortCallback, IInv, WorkInv, PhaseInv, cacheVars, Live
<1>2. CASE UNCHANGED <<spVars, uow, pending, durable>>
  BY <1>1, <1>2, SamePhase DEF spVars
<1>3. CASE EndTransactionOk(c, FALSE)
  <2>1. EndUow(c) /\ durable' = durable /\ level' = [level EXCEPT ![c] = 0]
    BY <1>3 DEF EndTransactionOk
  <2>2. CASE c \in Live
    <3> HIDE DEF c
    <3> QED BY <1>1, <2>1, <2>2, EndUowStep
  <2>3. CASE c \notin Live
    <3>1. \A d \in Live : d \in Conn /\ d # c
      BY <2>3 DEF Live
    <3>2. \A d \in Live : /\ level'[d] = level[d] /\ pending'[d] = pending[d]
                          /\ uow'[d] = uow[d] /\ saved'[d] = saved[d]
      BY <2>1, <3>1, RefFacts DEF EndUow, IInv, WorkInv, TypeOK
    <3>3. UowDepth' = UowDepth
      BY <1>1, <3>2, DepthOf, DepthNext
    <3> QED BY <1>1, <2>1, <3>2, <3>3, SameStep
  <2> QED BY <2>2, <2>3
<1> QED BY <1>2, <1>3 DEF AbortCallback, workVars

----------------------------------------------------------------------------
(* Statements and closing.                                                 *)

\* A step of the running transaction that keeps its work, and the levels'
\* starts as long as the transaction goes on.
LEMMA RunStep ==
  ASSUME RefInv, RefInv', phase = "run", phase' \in {"run", "error"}, nest' = nest,
         durable' = durable, UowWork' = UowWork,
         UowDepth = nest /\ UowDepth' = nest => UowBase' = UowBase
  PROVE  RemoteStep
<1>1. UowDepth = nest
  BY DepthOf
<1>2. CASE UowDepth' = nest
  BY <1>1, <1>2, StutterStep
<1>3. CASE UowDepth' # nest
  <2>1. /\ nest = 1 /\ UowDepth' = 0
        /\ ~(\E c \in Live' : uow'[c])
    BY <1>3, DepthNext
  <2>2. UowWork' = {}
    BY <2>1, Drained
  <2> QED BY <1>1, <2>1, <2>2, EndStep
<1> QED BY <1>2, <1>3

\* A statement may add its write to the work.
LEMMA WriteStep ==
  ASSUME RefInv, RefInv', phase = "run", phase' \in {"run", "error"}, stmt # <<>>,
         NEW new \in SUBSET {NewWrite}, Execute(stmt[2], new),
         new # {} => stmt[1] \in Writers, UNCHANGED <<nest, cacheVars>>
  PROVE  RemoteStep
<1> DEFINE c == stmt[2]
<1>1. /\ c \in Conn /\ link[c] = "open" /\ ~autocommit[c] /\ nest \in 1..MaxNest
      /\ level[c] \in 0..MaxNest /\ MaxNest \in Nat
      /\ NewWrite \in Writes \/ new = {}
  BY RefFacts, StmtFacts, UndoFacts DEF Execute
<1>2. Live = {c} /\ Live' = {c}
  BY <1>1, LiveFacts DEF Live, cacheVars
<1>3. /\ pending'[c] = pending[c] \cup new /\ uow'[c] = TRUE /\ durable' = durable
      /\ UNCHANGED <<sp, level, saved>>
  BY <1>1, RefFacts DEF Execute, IInv, WorkInv, TypeOK
<1>4. new # {} => level[c] = nest
  BY RefFacts DEF UInv, UndoInv, StmtInv
<1> HIDE DEF c
<1>5. UowDepth = nest /\ UowDepth' = nest
  BY <1>2, <1>3, DepthOf, DepthNext
<1>6. CASE new = {}
  BY <1>2, <1>3, <1>5, <1>6, SameStep
<1>7. CASE new # {}
  <2>1. /\ UowWork = pending[c] /\ UowWork' = pending'[c]
        /\ UowBase = [n \in Levels |-> IF n \notin 2..nest THEN {}
                        ELSE IF level[c] >= n THEN saved[c][n] ELSE pending[c]]
        /\ UowBase' = [n \in Levels |-> IF n \notin 2..nest THEN {}
                         ELSE IF level'[c] >= n THEN saved'[c][n] ELSE pending'[c]]
    BY <1>2, <1>5, OneLivePair
  <2>2. \A n \in Levels : n \in 2..nest => level[c] >= n
    BY <1>1, <1>4, <1>7 DEF Levels
  <2>3. UowBase' = UowBase
    BY <1>3, <2>1, <2>2
  <2>4. new = {NewWrite} /\ NewWrite \in Writes
    BY <1>1, <1>7
  <2>5. UowWork' = UowWork \cup {NewWrite} /\ UowDepth > 0 /\ UowDepth' = UowDepth
    BY <1>1, <1>3, <1>5, <2>1, <2>4
  <2> QED BY <1>3, <2>3, <2>4, <2>5 DEF RemoteStep, Remote!NNext, Remote!NDo
<1> QED BY <1>6, <1>7

\* The savepoints for the levels that the connection has not seen are set
\* where those levels started.
LEMMA RefSavepoints ==
  ASSUME RefInv, RefInv', OneKey, phase = "run", phase' \in {"run", "error"},
         NEW kind, NEW k \in Keys, NEW c \in Conn, db2AllocConnHdl(k, c),
         NEW to \in StartLevel(c)..EndLevel(c, kind), db2SetSavepoint(c, StartLevel(c), to),
         UNCHANGED <<nest, pending, durable>>
  PROVE  RemoteStep
<1> DEFINE from == StartLevel(c)
<1>1. /\ from \in Nat /\ to \in Nat /\ from <= to /\ level[c] \in Nat
      /\ from = IF level[c] = 0 THEN 1 ELSE level[c]
  BY RefFacts, LevelFacts, ConstAssumption DEF IInv, WorkInv, TypeOK
<1>2. /\ level'[c] = to
      /\ \A n \in Levels : saved'[c][n] = IF n \in (from + 1)..to THEN pending[c] ELSE saved[c][n]
  BY RefFacts DEF db2SetSavepoint, IInv, WorkInv, TypeOK
<1> HIDE DEF from
<1>3. CASE Live = {} /\ Live' = {}
  BY <1>3, NoneLive, NoneLiveNext, RunStep
<1>4. CASE c \in Live /\ Live' = Live
  <2>1. Live = {c} /\ Live' = {c}
    BY <1>4, LiveFacts
  <2>2. UowWork' = UowWork
    BY <2>1, OneLive, OneLiveNext
  <2>3. ASSUME UowDepth = nest, UowDepth' = nest PROVE UowBase' = UowBase
    <3>1. /\ UowBase = [n \in Levels |-> IF n \notin 2..nest THEN {}
                          ELSE IF level[c] >= n THEN saved[c][n] ELSE pending[c]]
          /\ UowBase' = [n \in Levels |-> IF n \notin 2..nest THEN {}
                           ELSE IF level'[c] >= n THEN saved'[c][n] ELSE pending'[c]]
      BY <2>1, <2>3, OneLivePair
    <3>2. ASSUME NEW n \in Levels, n \in 2..nest
          PROVE  (IF level'[c] >= n THEN saved'[c][n] ELSE pending[c])
                 = (IF level[c] >= n THEN saved[c][n] ELSE pending[c])
      <4>1. n \in Nat /\ n >= 2
        BY <3>2 DEF Levels
      <4>2. CASE level[c] >= n
        <5>1. n \notin (from + 1)..to /\ to >= n
          BY <1>1, <4>1, <4>2
        <5> QED BY <1>2, <4>2, <5>1
      <4>3. CASE ~(level[c] >= n)
        <5>1. to >= n => n \in (from + 1)..to
          BY <1>1, <4>1, <4>3
        <5> QED BY <1>2, <4>3, <5>1
      <4> QED BY <4>2, <4>3
    <3> QED BY <3>1, <3>2
  <2> QED BY <2>2, <2>3, RunStep
<1>5. CASE Live = {} /\ Live' = {c} /\ pending[c] = {} /\ level[c] = 0
  <2>1. UowWork = {} /\ UowWork' = {} /\ UowBase = [n \in Levels |-> {}]
    BY <1>5, NoneLive, OneLiveNext
  <2>2. UowBase' = [n \in Levels |-> {}]
    <3>1. UowBase' = [n \in Levels |-> IF n \notin 2..UowDepth' THEN {}
                        ELSE IF level'[c] >= n THEN saved'[c][n] ELSE pending'[c]]
      BY <1>5, OneLiveNext
    <3>2. ASSUME NEW n \in Levels, n >= 2, level'[c] >= n PROVE saved'[c][n] = {}
      <4>1. n \in (from + 1)..to
        BY <1>1, <1>2, <1>5, <3>2 DEF Levels
      <4> QED BY <1>2, <1>5, <4>1
    <3>3. \A n \in Levels : n \in 2..UowDepth' => n >= 2
      OBVIOUS
    <3> QED BY <1>5, <3>1, <3>2, <3>3
  <2> QED BY <2>1, <2>2, RunStep
<1>6. CASE c \in findconnEntry(k) /\ UNCHANGED cacheVars
  <2>1. Live' = Live
    BY <1>6 DEF Live, cacheVars
  <2>2. \A d \in Live : d = c
    BY <1>6, LiveFacts DEF findconnEntry, RefInv, OneInv
  <2> QED BY <1>3, <1>4, <2>1, <2>2
<1>7. CASE CacheEntry(k, c)
  <2>1. RangeOf(connlist) = {}
    BY <1>7 DEF CacheEntry, findconnEntry, RefInv, OneInv, OneKey
  <2>2. Live = {}
    BY <2>1, LiveFacts
  <2>3. /\ link[c] = "none" /\ link'[c] = "open"
        /\ \A d \in Conn : d # c => link'[d] = link[d]
    BY <1>7, RefFacts, CacheEntryFacts
  <2>4. Live' = {c}
    BY <2>2, <2>3 DEF Live
  <2>5. pending[c] = {} /\ level[c] = 0
    BY <2>3, RefFacts DEF IInv, WorkInv, LinkInv
  <2> QED BY <1>5, <2>2, <2>4, <2>5
<1> QED BY <1>6, <1>7 DEF db2AllocConnHdl

LEMMA RefSession ==
  ASSUME RefInv, RefInv', OneKey, KeepsUow, NEW kind \in AllStmts, NEW k \in Keys,
         db2GetSession(kind, k) \/ GetSessionError(kind, k)
  PROVE  RemoteStep
<1>1. phase = "run" /\ phase' \in {"run", "error"} /\ UNCHANGED <<nest, pending, durable>>
  BY DEF db2GetSession, GetSessionError, CanStart
<1>2. CASE db2GetSession(kind, k)
  <2>1. PICK c \in Conn :
          /\ db2AllocConnHdl(k, c)
          /\ db2SetSavepoint(c, StartLevel(c), EndLevel(c, kind))
    BY <1>2 DEF db2GetSession
  <2>2. EndLevel(c, kind) \in StartLevel(c)..EndLevel(c, kind)
    BY <1>1, RefFacts, LevelFacts, ConstAssumption
  <2> QED BY <1>1, <2>1, <2>2, RefSavepoints
<1>3. ASSUME NEW c \in Conn, NEW to \in StartLevel(c)..(EndLevel(c, kind) - 1),
             db2AllocConnHdl(k, c), db2SetSavepoint(c, StartLevel(c), to)
      PROVE  RemoteStep
  <2>1. to \in StartLevel(c)..EndLevel(c, kind)
    BY <1>1, <1>3, RefFacts, LevelFacts, ConstAssumption
  <2> QED BY <1>1, <1>3, <2>1, RefSavepoints
<1>4. ASSUME AllocFails(k), UNCHANGED <<spVars, uow>>, phase' = "error"
      PROVE  RemoteStep
  <2>1. link' = link
    BY <1>4 DEF AllocFails, EnvFails, ConnectFails, AutocommitFails, KeepsUow
  <2>2. Live' = Live /\ level' = level /\ saved' = saved
    BY <1>4, <2>1 DEF Live, spVars
  <2> QED BY <1>1, <1>4, <2>2, QuietStep
<1> QED BY <1>2, <1>3, <1>4 DEF GetSessionError

LEMMA RefStatement ==
  ASSUME RefInv, RefInv', KeepsUow,
         \/ Read \/ db2_diag \/ db2ExecForeignInsert \/ db2IterateDirectModify
         \/ db2ExecuteTruncate \/ StatementError \/ CloseRefused
  PROVE  RemoteStep
<1>1. CASE Read
  BY <1>1, WriteStep DEF Read, Running
<1>2. CASE db2_diag \/ CloseRefused
  <2>1. /\ phase = "run" /\ phase' \in {"run", "error"} /\ UNCHANGED <<nest, durable>>
        /\ UNCHANGED <<level, pending, saved>> /\ Live' = Live
    BY <1>2 DEF db2_diag, CloseRefused, Running, cacheVars, spVars, workVars, Live
  <2> QED BY <2>1, QuietStep
<1>3. CASE db2ExecForeignInsert \/ db2IterateDirectModify
  <2>1. /\ phase = "run" /\ phase' = "run" /\ stmt # <<>> /\ stmt[1] \in Writers
        /\ Execute(stmt[2], {NewWrite}) /\ UNCHANGED <<nest, cacheVars>>
    BY <1>3 DEF db2ExecForeignInsert, db2IterateDirectModify, Running, Writers
  <2> QED BY <2>1, WriteStep
<1>4. CASE db2ExecuteTruncate
  BY <1>4, RefFacts DEF db2ExecuteTruncate, Running, UInv, UndoInv, StmtInv, KeepsUow
<1>5. CASE StatementError
  <2>1. /\ phase = "run" /\ phase' = "error" /\ stmt # <<>> /\ stmt[1] \in Ops
        /\ UNCHANGED <<nest, cacheVars>>
    BY <1>5, RefFacts DEF StatementError, Running, UInv, UndoInv, StmtInv
  <2>2. ASSUME UNCHANGED <<level, pending, saved, durable>> PROVE RemoteStep
    <3>1. Live' = Live
      BY <2>1 DEF Live, cacheVars
    <3> QED BY <2>1, <2>2, <3>1, QuietStep
  <2>3. ASSUME NEW new \in SUBSET {NewWrite}, Execute(stmt[2], new), new # {} => stmt[1] \in Writers
        PROVE  RemoteStep
    BY <2>1, <2>3, WriteStep
  <2>4. \/ \E new \in SUBSET {NewWrite} :
             Execute(stmt[2], new) /\ (new # {} => stmt[1] \in Writers)
        \/ UNCHANGED <<level, pending, saved, durable>>
    BY <1>5, <2>1 DEF StatementError, ExecuteFails, Deadlock, KeepsUow, Writers, spVars
  <2> QED BY <2>2, <2>3, <2>4
<1> QED BY <1>1, <1>2, <1>3, <1>4, <1>5

\* A connection that can be closed has no unit of work; one that is lost has
\* none that DB2 would remember.
LEMMA RefClose == ASSUME RefInv, RefInv', db2CloseConnections PROVE RemoteStep
<1>1. /\ phase = "run" /\ phase' \in {"run", "error"} /\ nest \in 1..MaxNest /\ MaxNest \in Nat
      /\ UNCHANGED <<nest, durable, level, pending, saved>>
  BY RefFacts DEF db2CloseConnections, spVars, workVars
<1>2. CASE link' = link
  <2>1. Live' = Live
    BY <1>2 DEF Live
  <2> QED BY <1>1, <2>1, QuietStep
<1>3. CASE connlist # <<>> /\ db2FreeConnHdl(Head(connlist)) /\ ~uow[Head(connlist)]
           /\ link[Head(connlist)] = "open"
  <2> DEFINE c == Head(connlist)
  <2>1. c \in Conn /\ c \in RangeOf(connlist)
    BY <1>3, RefFacts, RangeHeadTail DEF IInv, WorkInv, TypeOK
  <2>2. link[c] = "open" /\ c \in Live
    BY <1>3, <2>1, RefFacts DEF IInv, WorkInv, LinkInv, Live
  <2>3. Live = {c}
    BY <2>2, LiveFacts
  <2>4. Live' = {}
    <3>1. \A d \in Conn : link'[d] = IF d = c THEN "closed" ELSE link[d]
      BY <1>3, <2>1, RefFacts DEF db2FreeConnHdl, IInv, WorkInv, TypeOK
    <3> QED BY <2>3, <3>1 DEF Live
  <2>5. pending[c] = {} /\ sp[c] = {} /\ level[c] \in 0..MaxNest
    BY <1>3, <2>1, <2>2, RefFacts DEF IInv, WorkInv, LinkInv, TypeOK
  <2>6. \A n \in 2..nest : ~(level[c] >= n)
    <3>1. \A n \in 2..nest : ~(n <= level[c])
      BY <1>1, <2>1, <2>2, <2>5, RefFacts DEF UInv, UndoInv, HeldInv
    <3> QED BY <1>1, <2>5, <3>1
  <2> HIDE DEF c
  <2>7. UowWork = {} /\ UowWork' = {} /\ UowBase' = [n \in Levels |-> {}]
    BY <2>3, <2>4, <2>5, OneLive, NoneLiveNext
  <2>8. UowDepth = nest => UowBase = [n \in Levels |-> {}]
    <3>1. UowBase = [n \in Levels |-> IF n \notin 2..UowDepth THEN {}
                       ELSE IF level[c] >= n THEN saved[c][n] ELSE pending[c]]
      BY <2>3, OneLive
    <3> QED BY <2>5, <2>6, <3>1
  <2> QED BY <1>1, <2>7, <2>8, RunStep
<1>4. CASE connlist # <<>> /\ db2FreeConnHdl(Head(connlist)) /\ link[Head(connlist)] = "broken"
  <2>1. Head(connlist) \in Conn
    BY <1>4, RefFacts, RangeHeadTail DEF IInv, WorkInv, TypeOK
  <2>2. \A d \in Conn : link'[d] = IF d = Head(connlist) THEN "closed" ELSE link[d]
    BY <1>4, <2>1, RefFacts DEF db2FreeConnHdl, IInv, WorkInv, TypeOK
  <2>3. Live' = Live
    BY <1>4, <2>2 DEF Live
  <2> QED BY <1>1, <2>3, QuietStep
<1>5. connlist # <<>> => link[Head(connlist)] \in {"open", "broken"}
  BY RefFacts, RangeHeadTail DEF IInv, WorkInv, TypeOK, LinkInv
<1> QED BY <1>2, <1>3, <1>4, <1>5 DEF db2CloseConnections, DisconnectWorks, cacheVars

\* At the end of the session nothing is left either.
LEMMA RefShutdown == ASSUME RefInv, RefInv', db2Shutdown PROVE RemoteStep
<1>1. /\ phase = "idle" /\ phase' = "exit" /\ UNCHANGED <<pending, durable>>
      /\ UowDepth = 0 /\ UowDepth' = 0
  BY DepthOf, DepthNext DEF db2Shutdown, workVars
<1>2. \A c \in Conn : link[c] = "open" => pending[c] = {}
  <2>1. \A c \in Conn : link[c] = "open" => c \in RangeOf(callbacks)
    BY RefFacts, UndoFacts
  <2> QED BY <1>1, <2>1, RefFacts DEF RInv, RestInv, IInv, WorkInv, LevelInv
<1>3. Live' \subseteq Live
  <2>1. \A c \in Conn : link'[c] = "open" => link[c] = "open"
    BY RefFacts DEF db2Shutdown, db2FreeConnHdl, IInv, WorkInv, TypeOK
  <2> QED BY <2>1 DEF Live
<1>4. UowWork = {} /\ UowWork' = {}
  BY <1>1, <1>2, <1>3 DEF UowWork, Live
<1> QED BY <1>1, <1>4, EndStep

\* PREPARE TRANSACTION goes through only when there is no connection.
LEMMA RefPrepare == ASSUME RefInv, RefInv', PrepareTransaction PROVE RemoteStep
<1>1. /\ phase = "run" /\ nest = 1 /\ UNCHANGED <<link, level, pending, saved, durable>>
      /\ Live' = Live
  BY DEF PrepareTransaction, cacheVars, spVars, workVars, Live
<1>2. CASE phase' = "error" /\ nest' = nest
  BY <1>1, <1>2, QuietStep
<1>3. CASE callbacks = <<>> /\ phase' = "idle"
  <2>1. Live = {}
    BY <1>3, RefFacts, RangeEmpty
  <2>2. UowDepth = 1 /\ UowDepth' = 0 /\ UowWork' = {}
    BY <1>1, <1>3, <2>1, DepthOf, DepthNext, NoneLiveNext
  <2> QED BY <1>1, <2>2, EndStep
<1> QED BY <1>2, <1>3 DEF PrepareTransaction

----------------------------------------------------------------------------
(* The theorem.                                                            *)

LEMMA RefNext ==
  ASSUME RefInv, RefInv', KeepsUow, OneKey, NoLoss, [Next]_vars
  PROVE  RemoteStep
<1>1. CASE Statement
  BY <1>1, RefSession, RefStatement, RefClose DEF Statement
<1>2. CASE Callback
  <2>1. CASE LocalCommitFails
    <3>1. /\ phase = "precommit" /\ phase' = "error" /\ nest' = nest /\ nest = 1 /\ durable' = durable
          /\ UNCHANGED <<link, level, pending, saved, uow>>
      BY <2>1, RefFacts DEF LocalCommitFails, cacheVars, spVars, workVars, IInv, WorkInv, PhaseInv
    <3> QED BY <3>1, SamePhase
  <2>2. CASE CommitCallback
    <3>1. /\ phase' = phase /\ nest' = nest /\ durable' = durable
          /\ UNCHANGED <<link, level, pending, saved, uow>>
      BY <2>2 DEF CommitCallback, cacheVars, spVars
    <3> QED BY <3>1, SamePhase
  <2> QED BY <1>2, <2>1, <2>2, RefSubAbort, RefSubAbortDone, RefPreCommit, RefEnd, RefAbort
          DEF Callback
<1>3. CASE StartCommit
  <2>1. /\ phase = "run" /\ phase' = "precommit" /\ nest = 1 /\ nest' = nest /\ durable' = durable
        /\ UNCHANGED <<level, pending, saved>> /\ Live' = Live
    BY <1>3 DEF StartCommit, cacheVars, spVars, workVars, Live
  <2> QED BY <2>1, QuietStep
<1>4. CASE Begin \/ SubBegin \/ SubCommit \/ StartUnwind \/ PrepareTransaction \/ db2Shutdown
  BY <1>4, RefBegin, RefSubBegin, RefSubCommit, RefStartUnwind, RefPrepare, RefShutdown
<1>5. CASE Exited \/ UNCHANGED vars
  <2>1. /\ phase' = phase /\ nest' = nest /\ durable' = durable
        /\ UNCHANGED <<link, level, pending, saved, uow>>
    BY <1>5 DEF Exited, vars, pgVars, cacheVars, spVars, workVars
  <2> QED BY <2>1, SamePhase
<1>6. CASE \E c \in Conn : ConnectionLost(c)
  BY <1>6 DEF ConnectionLost, NoLoss
<1> QED BY <1>1, <1>2, <1>3, <1>4, <1>5, <1>6 DEF Next

\* DB2 sees the nested transactions of PostgreSQL: with one server, for any
\* number of connections one after the other, levels and writes, when
\* connects, savepoints, statements, commits and the local commit fail, and
\* when the answer to a commit is lost.
THEOREM Refinement ==
  ASSUME KeepsUow, OneKey, NoLoss
  PROVE  Spec => RemoteFollowsLocal
<1>1. Init => RefInv
  BY InitUInv, InitOneInv DEF RefInv
<1>2. RefInv /\ [Next]_vars => RefInv'
  BY UndoInductive, OneInductive DEF RefInv, UInv, RInv
<1>3. Init => Remote!NInit
  <2> SUFFICES ASSUME Init PROVE Remote!NInit
    OBVIOUS
  <2>1. Live = {} /\ UowDepth = 0 /\ durable = {}
    BY DepthOf DEF Init, Live
  <2> QED BY <2>1, NoneLive DEF Remote!NInit, Levels
<1>4. RefInv /\ RefInv' /\ [Next]_vars => [Remote!NNext]_(Remote!nvars)
  BY RefNext DEF RemoteStep
<1> QED BY <1>1, <1>2, <1>3, <1>4, PTL DEF Spec, RemoteFollowsLocal, Remote!NSpec
=============================================================================
