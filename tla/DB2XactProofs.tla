--------------------------- MODULE DB2XactProofs ---------------------------
(***************************************************************************)
(* Proofs about DB2Xact, for every set of servers and connections, every   *)
(* nesting depth and number of writes.                                     *)
(***************************************************************************)
EXTENDS DB2XactInv, TLAPS

----------------------------------------------------------------------------
(* Sequences of entries.                                                   *)

\* An empty list of entries has no members.
LEMMA RangeEmpty == RangeOf(<<>>) = {}
BY DEF RangeOf

\* The callback that is due first, and the others.
LEMMA RangeHeadTail ==
  ASSUME NEW S, NEW s \in Seq(S), s # <<>>
  PROVE  /\ Head(s) \in S /\ Tail(s) \in Seq(S)
         /\ Head(s) \in RangeOf(s)
         /\ RangeOf(Tail(s)) \subseteq RangeOf(s)
         /\ RangeOf(s) \subseteq RangeOf(Tail(s)) \cup {Head(s)}
<1>1. /\ Head(s) \in S /\ Tail(s) \in Seq(S)
      /\ Len(s) \in Nat /\ Len(s) > 0 /\ Len(Tail(s)) = Len(s) - 1
      /\ DOMAIN s = 1..Len(s) /\ DOMAIN Tail(s) = 1..(Len(s) - 1)
      /\ Head(s) = s[1]
      /\ \A i \in 1..(Len(s) - 1) : Tail(s)[i] = s[i + 1]
  OBVIOUS
<1>2. ASSUME NEW x \in RangeOf(s), x # s[1] PROVE x \in RangeOf(Tail(s))
  <2>1. PICK i \in 1..Len(s) : x = s[i]
    BY <1>1 DEF RangeOf
  <2>2. i - 1 \in 1..(Len(s) - 1) /\ Tail(s)[i - 1] = x
    BY <1>1, <1>2, <2>1
  <2> QED BY <1>1, <2>2 DEF RangeOf
<1>3. ASSUME NEW x \in RangeOf(Tail(s)) PROVE x \in RangeOf(s)
  <2>1. PICK i \in 1..(Len(s) - 1) : x = Tail(s)[i]
    BY <1>1 DEF RangeOf
  <2>2. i + 1 \in 1..Len(s) /\ s[i + 1] = x
    BY <1>1, <2>1
  <2> QED BY <1>1, <2>2 DEF RangeOf
<1>4. Head(s) \in RangeOf(s)
  BY <1>1 DEF RangeOf
<1> QED BY <1>1, <1>2, <1>3, <1>4

\* A callback is registered in front of the others.
LEMMA RangeRegister ==
  ASSUME NEW S, NEW s \in Seq(S), NEW c \in S
  PROVE  /\ <<c>> \o s \in Seq(S)
         /\ RangeOf(<<c>> \o s) = {c} \cup RangeOf(s)
<1> DEFINE t == <<c>> \o s
<1>1. /\ t \in Seq(S) /\ Len(s) \in Nat /\ Len(t) = Len(s) + 1
      /\ DOMAIN s = 1..Len(s) /\ DOMAIN t = 1..(Len(s) + 1)
      /\ t[1] = c
      /\ \A i \in 1..Len(s) : t[i + 1] = s[i]
  OBVIOUS
<1> HIDE DEF t
<1>2. ASSUME NEW x \in RangeOf(t), x # c PROVE x \in RangeOf(s)
  <2>1. PICK i \in 1..(Len(s) + 1) : x = t[i]
    BY <1>1 DEF RangeOf
  <2>2. i - 1 \in 1..Len(s) /\ s[i - 1] = x
    BY <1>1, <1>2, <2>1
  <2> QED BY <1>1, <2>2 DEF RangeOf
<1>3. ASSUME NEW x \in RangeOf(s) PROVE x \in RangeOf(t)
  <2>1. PICK i \in 1..Len(s) : x = s[i]
    BY <1>1 DEF RangeOf
  <2>2. i + 1 \in 1..(Len(s) + 1) /\ t[i + 1] = x
    BY <1>1, <2>1
  <2> QED BY <1>1, <2>2 DEF RangeOf
<1>4. c \in RangeOf(t)
  BY <1>1 DEF RangeOf
<1> QED BY <1>1, <1>2, <1>3, <1>4 DEF t

\* Unregistering c leaves every other callback registered, and adds none.
LEMMA RangeUnregister ==
  ASSUME NEW S, NEW s \in Seq(S), NEW c
  PROVE  /\ UnregisterCallback(s, c) \in Seq(S)
         /\ RangeOf(UnregisterCallback(s, c)) \subseteq RangeOf(s)
         /\ RangeOf(s) \subseteq RangeOf(UnregisterCallback(s, c)) \cup {c}
<1>1. CASE c \notin RangeOf(s)
  BY <1>1 DEF UnregisterCallback
<1>2. CASE c \in RangeOf(s)
  <2> DEFINE i == CHOOSE j \in DOMAIN s : s[j] = c
             t == [j \in 1..(Len(s) - 1) |-> IF j < i THEN s[j] ELSE s[j + 1]]
  <2>1. UnregisterCallback(s, c) = t
    BY <1>2 DEF UnregisterCallback
  <2>2. Len(s) \in Nat /\ DOMAIN s = 1..Len(s) /\ \A j \in 1..Len(s) : s[j] \in S
    OBVIOUS
  <2>3. i \in 1..Len(s) /\ s[i] = c
    BY <1>2, <2>2 DEF RangeOf
  <2> HIDE DEF i
  <2>4. t \in [1..(Len(s) - 1) -> S] /\ Len(s) - 1 \in Nat
    BY <2>2, <2>3
  <2>5. t \in Seq(S)
    BY <2>4
  <2>6. DOMAIN t = 1..(Len(s) - 1)
    OBVIOUS
  <2>7. ASSUME NEW x \in RangeOf(t) PROVE x \in RangeOf(s)
    <3>1. PICK j \in 1..(Len(s) - 1) : x = t[j]
      BY <2>6 DEF RangeOf
    <3>2. \E m \in 1..Len(s) : x = s[m]
      BY <2>2, <2>3, <3>1
    <3> QED BY <2>2, <3>2 DEF RangeOf
  <2>8. ASSUME NEW x \in RangeOf(s), x # c PROVE x \in RangeOf(t)
    <3>1. PICK m \in 1..Len(s) : x = s[m]
      BY <2>2 DEF RangeOf
    <3>2. CASE m < i
      <4>1. m \in 1..(Len(s) - 1) /\ t[m] = x
        BY <2>2, <2>3, <3>1, <3>2
      <4> QED BY <2>6, <4>1 DEF RangeOf
    <3>3. CASE m > i
      <4>1. m - 1 \in 1..(Len(s) - 1) /\ t[m - 1] = x
        BY <2>2, <2>3, <3>1, <3>3
      <4> QED BY <2>6, <4>1 DEF RangeOf
    <3>4. m # i
      BY <2>3, <2>8, <3>1
    <3> QED BY <2>3, <3>2, <3>3, <3>4
  <2> QED BY <2>1, <2>5, <2>7, <2>8
<1> QED BY <1>1, <1>2

\* The walk from the new entry reaches entries of the old list and itself.
LEMMA WalkFromRange ==
  ASSUME NEW S, NEW s \in Seq(S), NEW c \in S
  PROVE  /\ WalkFrom(insertconnEntry(s, c), c) \in Seq(S)
         /\ RangeOf(WalkFrom(insertconnEntry(s, c), c)) \subseteq RangeOf(s) \cup {c}
<1> DEFINE t == Append(s, c)
           i == CHOOSE j \in DOMAIN t : t[j] = c
<1>1. /\ t \in Seq(S) /\ Len(s) \in Nat /\ Len(t) = Len(s) + 1
      /\ DOMAIN s = 1..Len(s) /\ DOMAIN t = 1..Len(t)
      /\ t[Len(t)] = c /\ \A j \in 1..Len(s) : t[j] = s[j]
  OBVIOUS
<1>2. i \in 1..Len(t)
  BY <1>1
<1> HIDE DEF i, t
<1> DEFINE u == SubSeq(t, i, Len(t))
<1>3. /\ u \in Seq(S) /\ DOMAIN u = 1..(Len(t) - i + 1)
      /\ \A j \in 1..(Len(t) - i + 1) : u[j] = t[i + j - 1]
  BY <1>1, <1>2
<1> HIDE DEF u
<1>4. ASSUME NEW x \in RangeOf(u) PROVE x \in RangeOf(s) \cup {c}
  <2>1. PICK j \in 1..(Len(t) - i + 1) : x = t[i + j - 1]
    BY <1>3 DEF RangeOf
  <2>2. i + j - 1 \in 1..Len(s) \/ i + j - 1 = Len(t)
    BY <1>1, <1>2
  <2> QED BY <1>1, <2>1, <2>2 DEF RangeOf
<1> QED BY <1>3, <1>4 DEF WalkFrom, insertconnEntry, u, t, i

----------------------------------------------------------------------------
(* Facts used by several steps.                                            *)

\* An owed write is a write of one of the connections.
LEMMA WriteOfConn ==
  ASSUME NEW S \in SUBSET Writes, NEW w \in S
  PROVE  w[1] \in Conn /\ w \in On(w[1], S)
BY DEF Writes, On

\* Callbacks are callbacks of entries.
LEMMA CallbacksAreEntries == ASSUME IInv PROVE RangeOf(callbacks) \subseteq Conn
BY DEF IInv, WorkInv, TypeOK, RangeOf

\* The current statement has its connection, and its write is a new write.
LEMMA StmtFacts ==
  ASSUME IInv, stmt # <<>>
  PROVE  /\ stmt[1] \in AllStmts /\ stmt[2] \in Conn
         /\ phase = "run" /\ todo = <<>> /\ nest \in 1..MaxNest
         /\ level[stmt[2]] >= 1
         /\ stmt[1] \in Writers =>
              nw + 1 \in 0..MaxWrites /\ NewWrite \in Writes /\ NewWrite[1] = stmt[2]
<1>1. stmt \in AllStmts \X Conn
  BY DEF IInv, WorkInv, TypeOK
<1>2. /\ stmt[1] \in AllStmts /\ stmt[2] \in Conn
      /\ phase = "run" /\ todo = <<>> /\ nest \in 1..MaxNest /\ level[stmt[2]] >= 1
  BY <1>1, ConstAssumption DEF IInv, WorkInv, TypeOK, PhaseInv, InXact
<1>3. ASSUME stmt[1] \in Writers
      PROVE  nw + 1 \in 0..MaxWrites /\ NewWrite \in Writes /\ NewWrite[1] = stmt[2]
  <2>1. nw < MaxWrites /\ nw \in 0..MaxWrites /\ MaxWrites \in Nat
    BY <1>3, ConstAssumption DEF IInv, WorkInv, PhaseInv, TypeOK
  <2>2. nw + 1 \in 0..MaxWrites /\ nw + 1 \in 1..MaxWrites
    BY <2>1
  <2> QED BY <1>2, <2>2 DEF NewWrite, Writes
<1> QED BY <1>2, <1>3

\* What must not get lost after an ERROR was due before it.
LEMMA DueAfterError ==
  ASSUME IInv, phase = "run"
  PROVE  /\ Due = owed
         /\ nest > 1 => owedAt[nest] \subseteq owed
<1>1. nest \in 0..MaxNest
  BY DEF IInv, WorkInv, TypeOK
<1>2. nest > 1 => nest \in 2..nest
  BY <1>1, ConstAssumption
<1> QED BY <1>2 DEF IInv, WorkInv, NestInv, InXact, Due

----------------------------------------------------------------------------
(* Steps of PostgreSQL.                                                    *)

\* BEGIN: nothing is owed yet.
LEMMA BeginStep == ASSUME IInv, Begin PROVE WorkInv'
<1> USE ConstAssumption DEF IInv, WorkInv, Begin, cacheVars, spVars, workVars
<1>1. TypeOK'      BY DEF TypeOK, Phases
<1>2. PhaseInv'    BY DEF TypeOK, PhaseInv, InXact
<1>3. LevelInv'    BY DEF TypeOK, LevelInv
<1>4. LinkInv'     BY DEF LinkInv
<1>5. NestInv' /\ SavedInv'
  BY DEF NestInv, SavedInv
<1>6. DueInv' /\ KeptInv'
  BY DEF DueInv, Covered, Due, On, KeptInv, CommittedIsDurable
<1> QED BY <1>1, <1>2, <1>3, <1>4, <1>5, <1>6

\* SAVEPOINT: a level that no connection has a savepoint for yet.
LEMMA SubBeginStep == ASSUME IInv, SubBegin PROVE WorkInv'
<1> USE ConstAssumption DEF IInv, WorkInv, SubBegin, cacheVars, spVars, workVars
<1>1. TypeOK'      BY DEF TypeOK, Levels
<1>2. PhaseInv'    BY DEF TypeOK, PhaseInv, InXact
<1>3. LevelInv'    BY CallbacksAreEntries DEF TypeOK, LevelInv
<1>4. LinkInv'     BY DEF LinkInv
<1>5. nest \in 1..MaxNest /\ nest + 1 \in Levels /\ owedAt'[nest + 1] = owed
  BY DEF TypeOK, PhaseInv, InXact, Levels
<1>6. \A n \in 2..nest : owedAt'[n] = owedAt[n]
  BY <1>5 DEF TypeOK, Levels
<1>7. NestInv'
  <2>1. ASSUME NEW n \in 2..(nest + 1)
        PROVE  owedAt'[n] \subseteq owed /\ \A m \in n..(nest + 1) : owedAt'[n] \subseteq owedAt'[m]
    BY <1>5, <1>6 DEF NestInv, InXact
  <2> QED BY <2>1 DEF NestInv
<1>8. SavedInv'
  <2>1. ASSUME NoDeadlock, NEW c \in Conn, NEW n \in 2..(nest + 1), n <= level[c], n \in sp[c]
        PROVE  On(c, owedAt'[n]) \subseteq durable \cup saved[c][n]
    <3>1. c \in RangeOf(callbacks) /\ level[c] <= nest
      BY <2>1 DEF LinkInv, LevelInv
    <3>2. n \in 2..nest
      BY <1>5, <2>1, <3>1 DEF TypeOK
    <3> QED BY <1>6, <2>1, <3>2 DEF SavedInv
  <2> QED BY <2>1 DEF SavedInv
<1>9. DueInv' /\ KeptInv'
  BY DEF DueInv, Covered, Due, KeptInv, CommittedIsDurable
<1> QED BY <1>1, <1>2, <1>3, <1>4, <1>7, <1>8, <1>9

\* RELEASE SAVEPOINT lowers xact_level of every entry to the level below.
LEMMA SubCommitStep == ASSUME IInv, SubCommit PROVE WorkInv'
<1> USE ConstAssumption DEF IInv, WorkInv, SubCommit, cacheVars, workVars
<1>1. /\ nest \in 2..MaxNest /\ nest - 1 \in 1..MaxNest
      /\ level' \in [Conn -> 0..MaxNest]
      /\ \A c \in Conn : /\ level'[c] <= level[c]
                         /\ level[c] >= 1 => level'[c] >= 1
                         /\ c \in RangeOf(callbacks) => level'[c] <= nest - 1
  BY DEF TypeOK
<1>2. TypeOK'      BY <1>1 DEF TypeOK
<1>3. PhaseInv'    BY <1>1 DEF PhaseInv, InXact
<1>4. LevelInv'
  BY <1>1, CallbacksAreEntries DEF LevelInv
<1>5. LinkInv'     BY <1>1 DEF LinkInv, TypeOK
<1>6. NestInv'     BY <1>1 DEF NestInv, InXact
<1>7. SavedInv'    BY <1>1 DEF SavedInv, TypeOK
<1>8. DueInv' /\ KeptInv'
  BY <1>1 DEF DueInv, Covered, Due, KeptInv, CommittedIsDurable, On
<1> QED BY <1>2, <1>3, <1>4, <1>5, <1>6, <1>7, <1>8

\* ROLLBACK, ROLLBACK TO or an ERROR: less is due than before.
LEMMA StartUnwindStep == ASSUME IInv, StartUnwind PROVE WorkInv'
<1> USE ConstAssumption DEF IInv, WorkInv, StartUnwind, cacheVars, spVars, workVars
<1>1. TypeOK'      BY DEF TypeOK, Phases
<1>2. PhaseInv'    BY DEF TypeOK, PhaseInv, InXact
<1>3. LevelInv'    BY DEF TypeOK, LevelInv
<1>4. LinkInv'     BY DEF LinkInv
<1>5. NestInv'     BY DEF NestInv, InXact
<1>6. SavedInv'    BY DEF SavedInv
<1>7. Due' \subseteq Due
  BY DueAfterError DEF Due
<1>8. DueInv' /\ KeptInv'
  BY <1>7 DEF DueInv, Covered, On, KeptInv, CommittedIsDurable
<1> QED BY <1>1, <1>2, <1>3, <1>4, <1>5, <1>6, <1>8

\* After the callbacks of a subtransaction abort the level is gone.
LEMMA SubAbortDoneStep == ASSUME IInv, SubAbortDone PROVE WorkInv'
<1> USE ConstAssumption DEF IInv, WorkInv, SubAbortDone, cacheVars, spVars, workVars
<1>1. nest \in 2..MaxNest /\ nest \in Levels /\ nest - 1 \in 1..MaxNest
  BY DEF TypeOK, PhaseInv, Levels
<1>2. TypeOK'      BY <1>1 DEF TypeOK, Phases
<1>3. PhaseInv'    BY <1>1 DEF PhaseInv, InXact
<1>4. LevelInv'
  <2>1. \A c \in RangeOf(callbacks) : level[c] < nest
    BY RangeEmpty DEF LevelInv
  <2> QED BY <1>1, <2>1, CallbacksAreEntries DEF LevelInv, TypeOK
<1>5. LinkInv'     BY DEF LinkInv
<1>6. NestInv'     BY <1>1 DEF NestInv, InXact
<1>7. SavedInv'    BY <1>1 DEF SavedInv
<1>8. Due' = Due
  BY <1>1 DEF Due
<1>9. DueInv' /\ KeptInv'
  BY <1>8 DEF DueInv, Covered, On, KeptInv, CommittedIsDurable
<1> QED BY <1>2, <1>3, <1>4, <1>5, <1>6, <1>7, <1>9

\* COMMIT starts: every registered callback is due.
LEMMA StartCommitStep == ASSUME IInv, StartCommit PROVE WorkInv'
<1> USE ConstAssumption DEF IInv, WorkInv, StartCommit, cacheVars, spVars, workVars
<1>1. TypeOK' /\ PhaseInv'
  BY DEF TypeOK, Phases, PhaseInv, InXact
<1>2. LevelInv' /\ LinkInv'
  BY DEF LevelInv, LinkInv
<1>3. NestInv' /\ SavedInv'
  BY DEF NestInv, SavedInv, InXact
<1>4. DueInv' /\ KeptInv'
  BY DEF DueInv, Covered, Due, On, KeptInv, CommittedIsDurable
<1> QED BY <1>1, <1>2, <1>3, <1>4

\* Without callbacks or with every callback done, what is owed is durable.
LEMMA OwedIsDurable ==
  ASSUME IInv, NoDeadlock, ~UnguardedClose, phase \in {"run", "precommit"},
         \A c \in RangeOf(callbacks) : level[c] = 0
  PROVE  owed \subseteq durable
<1>1. ASSUME NEW w \in owed PROVE w \in durable
  <2>1. w[1] \in Conn /\ w \in On(w[1], Due)
    BY <1>1, WriteOfConn DEF IInv, WorkInv, TypeOK, Due
  <2> QED BY <2>1 DEF IInv, WorkInv, DueInv, Covered
<1> QED BY <1>1

\* PREPARE TRANSACTION succeeds only with no connection registered.
LEMMA PrepareTransactionStep == ASSUME IInv, PrepareTransaction PROVE WorkInv'
<1> USE ConstAssumption DEF IInv, WorkInv, PrepareTransaction, cacheVars, spVars, workVars
<1>1. CASE callbacks # <<>>
  <2>1. TypeOK' /\ PhaseInv'
    BY <1>1 DEF TypeOK, Phases, PhaseInv, InXact
  <2>2. LevelInv' /\ LinkInv' /\ NestInv' /\ SavedInv'
    BY <1>1 DEF LevelInv, LinkInv, NestInv, SavedInv, InXact
  <2>3. DueInv' /\ KeptInv'
    BY <1>1 DEF DueInv, Covered, Due, On, KeptInv, CommittedIsDurable
  <2> QED BY <2>1, <2>2, <2>3
<1>2. CASE callbacks = <<>>
  <2>1. RangeOf(callbacks) = {}
    BY <1>2, RangeEmpty
  <2>2. NoDeadlock /\ ~UnguardedClose => owed \subseteq durable
    BY <2>1, OwedIsDurable
  <2>3. TypeOK' /\ PhaseInv'
    BY <1>2 DEF TypeOK, Phases, PhaseInv, InXact
  <2>4. LevelInv' /\ LinkInv' /\ NestInv' /\ SavedInv'
    BY <1>2, <2>1 DEF LevelInv, LinkInv, NestInv, SavedInv, InXact
  <2>5. DueInv' /\ KeptInv'
    BY <1>2, <2>2 DEF DueInv, Covered, Due, On, KeptInv, CommittedIsDurable
  <2> QED BY <2>3, <2>4, <2>5
<1> QED BY <1>1, <1>2

\* PostgreSQL commits once every XACT_EVENT_PRE_COMMIT callback has worked.
LEMMA LocalCommitStep == ASSUME IInv, LocalCommit PROVE WorkInv'
<1> USE ConstAssumption DEF IInv, WorkInv, LocalCommit, cacheVars, spVars, workVars
<1>1. \A c \in RangeOf(callbacks) : level[c] = 0
  BY RangeEmpty DEF LevelInv
<1>2. NoDeadlock /\ ~UnguardedClose => owed \subseteq durable
  BY <1>1, OwedIsDurable
<1>3. TypeOK' /\ PhaseInv'
  BY DEF TypeOK, Phases, PhaseInv, InXact
<1>4. LevelInv' /\ LinkInv' /\ SavedInv'
  BY <1>1 DEF LevelInv, LinkInv, SavedInv
<1>5. NestInv'
  BY DEF NestInv, InXact, PhaseInv
<1>6. DueInv' /\ KeptInv'
  BY <1>2 DEF DueInv, Covered, Due, On, KeptInv, CommittedIsDurable
<1> QED BY <1>3, <1>4, <1>5, <1>6

\* PostgreSQL fails after the remote commits: nothing is owed any more.
LEMMA LocalCommitFailsStep == ASSUME IInv, LocalCommitFails PROVE WorkInv'
<1> USE ConstAssumption DEF IInv, WorkInv, LocalCommitFails, cacheVars, spVars, workVars
<1>1. TypeOK' /\ PhaseInv'
  BY DEF TypeOK, Phases, PhaseInv, InXact
<1>2. LevelInv' /\ LinkInv' /\ KeptInv'
  BY DEF LevelInv, LinkInv, KeptInv, CommittedIsDurable
<1>3. NestInv' /\ SavedInv' /\ DueInv'
  BY DEF PhaseInv, NestInv, SavedInv, DueInv, Covered, Due, On, InXact
<1> QED BY <1>1, <1>2, <1>3

\* The end of a transaction leaves no entry at a level.
LEMMA EndXactStep == ASSUME IInv, EndXact PROVE WorkInv'
<1> USE ConstAssumption DEF IInv, WorkInv, EndXact, cacheVars, spVars, workVars
<1>1. TypeOK' /\ PhaseInv'
  BY DEF TypeOK, Phases, PhaseInv, InXact
<1>2. LevelInv' /\ LinkInv'
  BY RangeEmpty DEF LevelInv, LinkInv
<1>3. NestInv' /\ SavedInv' /\ DueInv' /\ KeptInv'
  BY DEF NestInv, SavedInv, DueInv, Covered, Due, On, InXact, KeptInv, CommittedIsDurable
<1> QED BY <1>1, <1>2, <1>3

----------------------------------------------------------------------------
(* Statements.                                                             *)

\* An executed statement keeps what the connections hold and adds its own
\* writes to the unit of work, or to the database under autocommit.
LEMMA ExecuteFacts ==
  ASSUME IInv, phase = "run", phase' # "exit", NEW c \in Conn, NEW new \in SUBSET Writes,
         Execute(c, new), UNCHANGED cacheVars
  PROVE  /\ uow' \in [Conn -> BOOLEAN]
         /\ pending' \in [Conn -> SUBSET Writes]
         /\ durable' \subseteq Writes
         /\ durable \subseteq durable'
         /\ \A d \in Conn : pending[d] \subseteq pending'[d]
         /\ new \subseteq durable' \cup pending'[c]
         /\ ~autocommit[c] => c \in RangeOf(callbacks)
         /\ LinkInv'
<1> USE DEF IInv, WorkInv, Execute
<1>1. /\ uow' \in [Conn -> BOOLEAN]
      /\ pending' \in [Conn -> SUBSET Writes]
      /\ durable' \subseteq Writes
      /\ durable \subseteq durable'
  BY DEF TypeOK
<1>2. /\ \A d \in Conn : pending[d] \subseteq pending'[d]
      /\ new \subseteq durable' \cup pending'[c]
  BY DEF TypeOK
<1>3. ~autocommit[c] => c \in RangeOf(callbacks)
  BY DEF LinkInv
<1>4. LinkInv'
  <2>1. /\ \A d \in Conn : d # c => pending'[d] = pending[d] /\ uow'[d] = uow[d]
        /\ pending'[c] = (IF autocommit[c] THEN pending[c] ELSE pending[c] \cup new)
        /\ uow'[c] = ~autocommit[c]
    BY DEF TypeOK
  <2>2. /\ link' = link /\ autocommit' = autocommit /\ connlist' = connlist
        /\ callbacks' = callbacks /\ sp' = sp /\ level' = level
    BY DEF cacheVars
  <2>3. ASSUME NEW d \in Conn
        PROVE  /\ link'[d] = "none" => level'[d] = 0 /\ autocommit'[d]
               /\ link'[d] # "open" /\ phase' # "exit" => pending'[d] = {} /\ sp'[d] = {}
               /\ d \in RangeOf(connlist') => link'[d] \in {"open", "broken"}
               /\ link'[d] = "open" /\ ~autocommit'[d] => d \in RangeOf(callbacks')
               /\ autocommit'[d] => pending'[d] = {} /\ sp'[d] = {}
               /\ link'[d] = "open" /\ ~uow'[d] => pending'[d] = {} /\ sp'[d] = {}
    <3>1. CASE d = c
      BY <2>1, <2>2, <3>1 DEF LinkInv
    <3>2. CASE d # c
      BY <2>1, <2>2, <3>2 DEF LinkInv
    <3> QED BY <3>1, <3>2
  <2> QED BY <2>3 DEF LinkInv
<1> QED BY <1>1, <1>2, <1>3, <1>4

\* A scan changes nothing that is owed.
LEMMA ReadStep == ASSUME IInv, Read PROVE WorkInv'
<1> USE DEF IInv, WorkInv, Read
<1>1. stmt # <<>> /\ stmt[2] \in Conn /\ phase = "run"
  BY StmtFacts DEF Running
<1>2. /\ Execute(stmt[2], {}) /\ UNCHANGED cacheVars
      /\ phase' = phase /\ sp' = sp /\ level' = level /\ saved' = saved
  BY DEF Execute
<1>3. /\ uow' \in [Conn -> BOOLEAN] /\ pending' \in [Conn -> SUBSET Writes]
      /\ durable' \subseteq Writes /\ durable \subseteq durable'
      /\ \A d \in Conn : pending[d] \subseteq pending'[d]
      /\ LinkInv'
  BY <1>1, <1>2, ExecuteFacts
<1>4. TypeOK' /\ PhaseInv'
  BY <1>2, <1>3 DEF TypeOK, PhaseInv, cacheVars
<1>5. LevelInv' /\ NestInv' /\ SavedInv'
  BY <1>2, <1>3 DEF LevelInv, NestInv, SavedInv, cacheVars
<1>6. DueInv' /\ KeptInv'
  BY <1>1, <1>2, <1>3 DEF DueInv, Covered, Due, On, KeptInv, CommittedIsDurable, cacheVars
<1> QED BY <1>3, <1>4, <1>5, <1>6

\* db2_diag changes nothing in DB2.
LEMMA db2_diagStep == ASSUME IInv, db2_diag PROVE WorkInv'
<1> USE DEF IInv, WorkInv, db2_diag, cacheVars, spVars, workVars
<1>1. TypeOK' /\ PhaseInv'
  BY DEF TypeOK, PhaseInv
<1>2. LevelInv' /\ LinkInv' /\ NestInv' /\ SavedInv'
  BY DEF LevelInv, LinkInv, NestInv, SavedInv
<1>3. DueInv' /\ KeptInv'
  BY DEF DueInv, Covered, Due, On, KeptInv, CommittedIsDurable
<1> QED BY <1>1, <1>2, <1>3

\* A write, by row or by a whole remote statement, is owed and held.
LEMMA ModifyStep ==
  ASSUME IInv, db2ExecForeignInsert \/ db2IterateDirectModify
  PROVE  WorkInv'
<1> USE DEF IInv, WorkInv
<1> DEFINE c == stmt[2]
<1>1. stmt # <<>> /\ stmt[1] \in Writers
  BY DEF db2ExecForeignInsert, db2IterateDirectModify, Running, Writers
<1>2. /\ c \in Conn /\ phase = "run" /\ level[c] >= 1
      /\ nw + 1 \in 0..MaxWrites /\ NewWrite \in Writes /\ NewWrite[1] = c
  BY <1>1, StmtFacts
<1>3. /\ Execute(c, {NewWrite}) /\ UNCHANGED cacheVars
      /\ phase' = phase /\ sp' = sp /\ level' = level /\ saved' = saved
      /\ owed' = owed \cup {NewWrite} /\ nw' = nw + 1 /\ stmt' = <<>>
      /\ dml' \in {dml, TRUE}
      /\ UNCHANGED <<nest, todo, owedAt, committed>>
  BY DEF db2ExecForeignInsert, db2IterateDirectModify, Execute
<1>4. /\ uow' \in [Conn -> BOOLEAN] /\ pending' \in [Conn -> SUBSET Writes]
      /\ durable' \subseteq Writes /\ durable \subseteq durable'
      /\ \A d \in Conn : pending[d] \subseteq pending'[d]
      /\ {NewWrite} \subseteq durable' \cup pending'[c]
      /\ ~autocommit[c] => c \in RangeOf(callbacks)
      /\ LinkInv'
  BY <1>2, <1>3, ExecuteFacts
<1> HIDE DEF c
<1>5. TypeOK' /\ PhaseInv'
  BY <1>2, <1>3, <1>4 DEF TypeOK, PhaseInv, cacheVars
<1>6. LevelInv' /\ NestInv' /\ SavedInv'
  BY <1>2, <1>3, <1>4 DEF LevelInv, NestInv, SavedInv, cacheVars
<1>7. DueInv'
  <2>1. Due = owed /\ Due' = owed'
    BY <1>2, <1>3 DEF Due
  <2>2. ASSUME NoDeadlock, NEW d \in Conn, NEW w \in On(d, owed')
        PROVE  Covered(d, w)'
    <3>1. CASE w = NewWrite
      <4>1. d = c
        BY <1>2, <2>2, <3>1 DEF On
      <4>2. autocommit[c] => pending'[c] = {}
        BY <1>2, <1>3, <1>4 DEF LinkInv, cacheVars
      <4> QED BY <1>2, <1>3, <1>4, <3>1, <4>1, <4>2 DEF cacheVars, Covered
    <3>2. CASE w # NewWrite
      <4>1. w \in On(d, Due)
        BY <1>3, <2>1, <2>2, <3>2 DEF On
      <4> QED BY <1>3, <1>4, <2>2, <4>1 DEF DueInv, Covered, cacheVars
    <3> QED BY <3>1, <3>2
  <2> QED BY <2>1, <2>2 DEF DueInv, Covered
<1>8. KeptInv'
  BY <1>3, <1>4 DEF KeptInv, CommittedIsDurable
<1> QED BY <1>4, <1>5, <1>6, <1>7, <1>8

\* What a connection holds becomes durable when DB2 commits its unit of work.
LEMMA CommitUow ==
  ASSUME IInv, NEW c \in Conn, link[c] = "open", phase # "exit",
         EndUow(c), UNCHANGED cacheVars, \A d \in Conn : level[d] = 0 => level'[d] = 0,
         NEW new \in SUBSET Writes, durable' = durable \cup pending[c] \cup new
  PROVE  /\ uow' \in [Conn -> BOOLEAN]
         /\ pending' \in [Conn -> SUBSET Writes]
         /\ sp' \in [Conn -> SUBSET Levels] /\ \A d \in Conn : sp'[d] \subseteq sp[d]
         /\ durable' \subseteq Writes
         /\ \A d \in Conn : pending[d] \subseteq durable' \cup pending'[d]
         /\ LinkInv'
<1> USE DEF IInv, WorkInv, EndUow
<1>1. /\ uow' \in [Conn -> BOOLEAN]
      /\ pending' \in [Conn -> SUBSET Writes]
      /\ sp' \in [Conn -> SUBSET Levels]
      /\ durable' \subseteq Writes
  BY DEF TypeOK
<1>2. \A d \in Conn : sp'[d] \subseteq sp[d]
  BY DEF TypeOK
<1>3. \A d \in Conn : pending[d] \subseteq durable' \cup pending'[d]
  BY DEF TypeOK
<1>4. LinkInv'
  <2>1. /\ \A d \in Conn : d # c => pending'[d] = pending[d] /\ sp'[d] = sp[d] /\ uow'[d] = uow[d]
        /\ pending'[c] = {} /\ sp'[c] = {}
    BY DEF TypeOK
  <2>3. \A d \in Conn : link'[d] = link[d] /\ autocommit'[d] = autocommit[d]
    BY DEF cacheVars
  <2>4. connlist' = connlist /\ callbacks' = callbacks
    BY DEF cacheVars
  <2>5. ASSUME NEW d \in Conn
        PROVE  /\ link'[d] = "none" => level'[d] = 0 /\ autocommit'[d]
               /\ link'[d] # "open" /\ phase' # "exit" => pending'[d] = {} /\ sp'[d] = {}
               /\ d \in RangeOf(connlist') => link'[d] \in {"open", "broken"}
               /\ link'[d] = "open" /\ ~autocommit'[d] => d \in RangeOf(callbacks')
               /\ autocommit'[d] => pending'[d] = {} /\ sp'[d] = {}
               /\ link'[d] = "open" /\ ~uow'[d] => pending'[d] = {} /\ sp'[d] = {}
    <3>1. CASE d = c
      BY <2>1, <2>3, <2>4, <3>1 DEF LinkInv
    <3>2. CASE d # c
      BY <2>1, <2>3, <2>4, <3>2 DEF LinkInv
    <3> QED BY <3>1, <3>2
  <2> QED BY <2>5 DEF LinkInv
<1> QED BY <1>1, <1>2, <1>3, <1>4

\* db2ExecuteTruncate makes what the connection held durable.
LEMMA db2ExecuteTruncateStep == ASSUME IInv, db2ExecuteTruncate PROVE WorkInv'
<1> USE DEF IInv, WorkInv
<1> DEFINE c == stmt[2]
<1>1. stmt # <<>> /\ stmt[1] \in Writers
  BY DEF db2ExecuteTruncate, Running, Writers
<1>2. /\ c \in Conn /\ phase = "run" /\ level[c] >= 1
      /\ nw + 1 \in 0..MaxWrites /\ NewWrite \in Writes /\ NewWrite[1] = c
  BY <1>1, StmtFacts
<1>3. /\ link[c] = "open" /\ EndUow(c) /\ UNCHANGED cacheVars
      /\ phase' = phase /\ level' = level /\ saved' = saved /\ dml' = dml
      /\ durable' = durable \cup pending[c] \cup {NewWrite}
      /\ owed' = owed \cup {NewWrite} /\ nw' = nw + 1 /\ stmt' = <<>>
      /\ UNCHANGED <<nest, todo, owedAt, committed>>
  BY DEF db2ExecuteTruncate, EndUow
<1>5. /\ uow' \in [Conn -> BOOLEAN] /\ pending' \in [Conn -> SUBSET Writes]
      /\ sp' \in [Conn -> SUBSET Levels] /\ \A d \in Conn : sp'[d] \subseteq sp[d]
      /\ durable' \subseteq Writes
      /\ \A d \in Conn : pending[d] \subseteq durable' \cup pending'[d]
      /\ LinkInv'
  <2>1. {NewWrite} \in SUBSET Writes
    BY <1>2
  <2> QED BY <1>2, <1>3, <2>1, CommitUow
<1> HIDE DEF c
<1>6. TypeOK' /\ PhaseInv'
  BY <1>2, <1>3, <1>5 DEF TypeOK, PhaseInv, cacheVars
<1>7. LevelInv' /\ NestInv' /\ SavedInv'
  BY <1>2, <1>3, <1>5 DEF LevelInv, NestInv, SavedInv, cacheVars
<1>8. DueInv'
  BY <1>2, <1>3, <1>5 DEF DueInv, Covered, Due, On, cacheVars
<1>9. KeptInv'
  BY <1>3 DEF KeptInv, CommittedIsDurable
<1> QED BY <1>5, <1>6, <1>7, <1>8, <1>9

\* An ERROR ends the statement; what DB2 holds for the levels below stays,
\* unless DB2 has rolled back all of it.
LEMMA StatementErrorStep ==
  ASSUME IInv, StatementError
  PROVE  WorkInv'
<1> USE DEF IInv, WorkInv
<1> DEFINE c == stmt[2]
<1>1. stmt # <<>> /\ c \in Conn /\ phase = "run" /\ todo = <<>>
  BY StmtFacts DEF StatementError, Running
<1>2. /\ phase' = "error" /\ stmt' = <<>> /\ dml' \in BOOLEAN /\ nw' \in 0..MaxWrites
      /\ UNCHANGED <<nest, todo, owed, owedAt, committed, cacheVars>>
  <2>1. nw' \in 0..MaxWrites
    BY <1>1, StmtFacts DEF StatementError, TypeOK
  <2> QED BY <2>1 DEF StatementError, TypeOK
<1>3. /\ uow' \in [Conn -> BOOLEAN] /\ pending' \in [Conn -> SUBSET Writes]
      /\ sp' \in [Conn -> SUBSET Levels] /\ \A d \in Conn : sp'[d] \subseteq sp[d]
      /\ level' = level /\ saved' = saved
      /\ durable' \subseteq Writes /\ durable \subseteq durable'
      /\ NoDeadlock => \A d \in Conn : pending[d] \subseteq durable' \cup pending'[d]
      /\ LinkInv'
  <2>1. CASE \E new \in SUBSET Writes : Execute(c, new)
    <3>1. PICK new \in SUBSET Writes : Execute(c, new)
      BY <2>1
    <3>2. sp' = sp /\ level' = level /\ saved' = saved
      BY <3>1 DEF Execute
    <3>3. /\ uow' \in [Conn -> BOOLEAN] /\ pending' \in [Conn -> SUBSET Writes]
          /\ durable' \subseteq Writes /\ durable \subseteq durable'
          /\ \A d \in Conn : pending[d] \subseteq pending'[d]
          /\ LinkInv'
      BY <1>1, <1>2, <3>1, ExecuteFacts
    <3> QED BY <3>2, <3>3 DEF TypeOK
  <2>2. CASE UNCHANGED <<spVars, uow, pending, durable>>
    BY <1>1, <1>2, <2>2 DEF TypeOK, LinkInv, spVars, cacheVars
  <2>3. CASE link[c] = "open" /\ EndUow(c) /\ durable' = durable \cup pending[c] /\ UNCHANGED level
    <3>1. {} \in SUBSET Writes /\ durable' = durable \cup pending[c] \cup {}
      BY <2>3
    <3>2. /\ uow' \in [Conn -> BOOLEAN] /\ pending' \in [Conn -> SUBSET Writes]
          /\ sp' \in [Conn -> SUBSET Levels] /\ \A d \in Conn : sp'[d] \subseteq sp[d]
          /\ durable' \subseteq Writes
          /\ \A d \in Conn : pending[d] \subseteq durable' \cup pending'[d]
          /\ LinkInv'
      BY <1>1, <1>2, <2>3, <3>1, CommitUow
    <3> QED BY <2>3, <3>2 DEF EndUow
  <2>4. ASSUME ExecuteFails(c, IF stmt[1] = "dml" THEN {NewWrite} ELSE {})
        PROVE  \/ \E new \in SUBSET Writes : Execute(c, new)
               \/ UNCHANGED <<spVars, uow, pending, durable>>
    <3>1. (IF stmt[1] = "dml" THEN {NewWrite} ELSE {}) \in SUBSET Writes
      BY <1>1, StmtFacts DEF Writers
    <3> HIDE DEF IInv, WorkInv
    <3> QED BY <2>4, <3>1 DEF ExecuteFails
  <2>6. CASE Deadlock(c)
    <3>1. /\ link[c] = "open" /\ level' = level /\ saved' = saved /\ durable' = durable
          /\ uow' \in [Conn -> BOOLEAN] /\ pending' \in [Conn -> SUBSET Writes]
          /\ sp' \in [Conn -> SUBSET Levels]
          /\ pending'[c] = {} /\ sp'[c] = {}
          /\ \A d \in Conn : d # c => pending'[d] = pending[d] /\ sp'[d] = sp[d] /\ uow'[d] = uow[d]
      BY <1>1, <2>6 DEF Deadlock, TypeOK
    <3>2. \A d \in Conn : sp'[d] \subseteq sp[d]
      BY <3>1
    <3>3. LinkInv'
      BY <1>1, <1>2, <3>1 DEF LinkInv, cacheVars
    <3>4. ~NoDeadlock
      BY <2>6 DEF Deadlock, NoDeadlock
    <3> QED BY <3>1, <3>2, <3>3, <3>4 DEF TypeOK
  <2> HIDE DEF IInv, WorkInv
  <2>5. \/ ExecuteFails(c, IF stmt[1] = "dml" THEN {NewWrite} ELSE {})
        \/ link[c] = "open" /\ EndUow(c) /\ durable' = durable \cup pending[c] /\ UNCHANGED level
        \/ UNCHANGED <<spVars, uow, pending, durable>>
        \/ Deadlock(c)
    BY DEF StatementError
  <2> QED BY <2>1, <2>2, <2>3, <2>4, <2>5, <2>6
<1> HIDE DEF c
<1>4. TypeOK' /\ PhaseInv'
  BY <1>1, <1>2, <1>3 DEF TypeOK, PhaseInv, InXact, Phases, cacheVars
<1>5. LevelInv' /\ NestInv' /\ SavedInv'
  BY <1>1, <1>2, <1>3 DEF LevelInv, NestInv, SavedInv, InXact, cacheVars
<1>6. Due' \subseteq Due
  BY <1>1, <1>2, DueAfterError DEF Due
<1>7. DueInv' /\ KeptInv'
  BY <1>2, <1>3, <1>6 DEF DueInv, Covered, On, KeptInv, CommittedIsDurable, cacheVars
<1> QED BY <1>3, <1>4, <1>5, <1>7

\* A refused db2_close_connections is an ERROR like any other.
LEMMA CloseRefusedStep == ASSUME IInv, CloseRefused PROVE WorkInv'
<1> USE DEF IInv, WorkInv, CloseRefused, cacheVars, spVars, workVars
<1>1. TypeOK' /\ PhaseInv'
  BY DEF TypeOK, Phases, PhaseInv, InXact
<1>2. LevelInv' /\ LinkInv' /\ NestInv' /\ SavedInv'
  BY DEF LevelInv, LinkInv, NestInv, SavedInv, InXact
<1>3. Due' \subseteq Due
  BY DueAfterError DEF Due
<1>4. DueInv' /\ KeptInv'
  BY <1>3 DEF DueInv, Covered, On, KeptInv, CommittedIsDurable
<1> QED BY <1>1, <1>2, <1>4

\* Closing takes the callbacks of at most one connection with it.  That one has
\* nothing uncommitted; if it is lost, FlagInv says that it owes nothing, or
\* else the close is not guarded.
LEMMA db2CloseConnectionsStep == ASSUME IInv, db2CloseConnections PROVE WorkInv'
<1> USE DEF IInv, WorkInv
<1>1. /\ phase = "run" /\ phase' \in {"run", "error"} /\ stmt = <<>>
      /\ UNCHANGED <<nest, todo, owed, owedAt, committed, nw, stmt>>
      /\ UNCHANGED <<level, sp, saved, dml, uow, pending, durable, key, autocommit>>
  BY DEF db2CloseConnections, cacheVars, spVars, workVars
<1>2. Due' \subseteq Due
  BY <1>1, DueAfterError DEF Due
<1>3. CASE UNCHANGED cacheVars
  <2>1. TypeOK' /\ PhaseInv'
    BY <1>1, <1>3 DEF TypeOK, Phases, PhaseInv, InXact, cacheVars
  <2>2. LevelInv' /\ LinkInv' /\ NestInv' /\ SavedInv'
    BY <1>1, <1>3 DEF LevelInv, LinkInv, NestInv, SavedInv, InXact, cacheVars
  <2>3. DueInv' /\ KeptInv'
    BY <1>1, <1>2, <1>3 DEF DueInv, Covered, On, KeptInv, CommittedIsDurable, cacheVars
  <2> QED BY <2>1, <2>2, <2>3
<1>4. CASE connlist = <<>> /\ UNCHANGED <<link, callbacks>> /\ db2FreeEnvHdl
  <2>1. TypeOK' /\ PhaseInv'
    BY <1>1, <1>4 DEF TypeOK, Phases, PhaseInv, InXact, db2FreeEnvHdl
  <2>2. LevelInv' /\ LinkInv' /\ NestInv' /\ SavedInv'
    BY <1>1, <1>4 DEF LevelInv, LinkInv, NestInv, SavedInv, InXact, db2FreeEnvHdl
  <2>3. DueInv' /\ KeptInv'
    BY <1>1, <1>2, <1>4 DEF DueInv, Covered, On, KeptInv, CommittedIsDurable
  <2> QED BY <2>1, <2>2, <2>3
<1>5. CASE /\ connlist # <<>> /\ db2FreeConnHdl(Head(connlist)) /\ db2FreeEnvHdl
           /\ DisconnectWorks(Head(connlist))
  <2> DEFINE c == Head(connlist)
  <2>1. connlist \in Seq(Conn) /\ c \in Conn /\ c \in RangeOf(connlist)
    BY <1>5, RangeHeadTail DEF TypeOK
  <2>2. link[c] \in {"open", "broken"} /\ pending[c] = {} /\ sp[c] = {}
    BY <1>1, <1>5, <2>1 DEF LinkInv, DisconnectWorks
  <2>3. /\ callbacks' \in Seq(Conn)
        /\ RangeOf(callbacks') \subseteq RangeOf(callbacks)
        /\ RangeOf(callbacks) \subseteq RangeOf(callbacks') \cup {c}
    BY <1>5, RangeUnregister DEF TypeOK, db2FreeConnHdl
  <2>4. link' = [link EXCEPT ![c] = "closed"] /\ connlist' = <<>>
        /\ rootenv' \in BOOLEAN /\ sqlInit' \in BOOLEAN /\ strayDbc' \in BOOLEAN
    BY <1>5 DEF db2FreeConnHdl, db2FreeEnvHdl
  <2> HIDE DEF c
  <2>5. /\ link' \in [Conn -> {"none", "open", "broken", "closed"}]
        /\ link'[c] = "closed" /\ \A d \in Conn : d # c => link'[d] = link[d]
    BY <2>1, <2>4 DEF TypeOK
  <2>6. TypeOK' /\ PhaseInv'
    <3>1. todo' = <<>> /\ RangeOf(todo') = {}
      BY <1>1, RangeEmpty DEF PhaseInv
    <3> QED BY <1>1, <2>3, <2>4, <2>5, <3>1 DEF TypeOK, Phases, PhaseInv, InXact
  <2>7. LevelInv' /\ NestInv' /\ SavedInv'
    BY <1>1, <2>3 DEF LevelInv, NestInv, SavedInv, InXact
  <2>8. LinkInv'
    BY <1>1, <2>2, <2>3, <2>4, <2>5, RangeEmpty DEF LinkInv
  <2>9. DueInv'
    <3>1. ASSUME NoDeadlock, NEW d \in Conn, NEW w \in On(d, Due)
          PROVE  Covered(d, w)'
      <4>1. Covered(d, w)
        BY <3>1 DEF DueInv
      <4>2. CASE d # c
        BY <1>1, <2>3, <2>5, <4>1, <4>2 DEF Covered
      <4>3. CASE d = c /\ (w \in durable \/ UnguardedClose)
        BY <1>1, <2>5, <4>3 DEF Covered
      <4>4. CASE d = c /\ w \notin durable /\ ~UnguardedClose
        <5>1. "commlost" \in Faults /\ "close" \in Ops /\ ~dml /\ w \in Due
          BY <2>2, <3>1, <4>1, <4>4 DEF Covered, db2CloseConnections, On
        <5> QED BY <1>1, <4>4, <5>1 DEF UnguardedClose, FlagInv
      <4> QED BY <4>2, <4>3, <4>4
    <3> QED BY <1>2, <3>1 DEF DueInv, On
  <2>10. KeptInv'
    BY <1>1 DEF KeptInv, CommittedIsDurable
  <2> QED BY <2>6, <2>7, <2>8, <2>9, <2>10
<1> HIDE DEF IInv, WorkInv
<1> QED BY <1>3, <1>4, <1>5 DEF db2CloseConnections

\* db2Shutdown runs outside transactions.
LEMMA db2ShutdownStep == ASSUME IInv, db2Shutdown PROVE WorkInv'
<1> USE DEF IInv, WorkInv
<1>1. /\ phase = "idle" /\ phase' = "exit"
      /\ UNCHANGED <<nest, todo, owed, owedAt, committed, nw, stmt>>
      /\ UNCHANGED <<level, sp, saved, dml, uow, pending, durable, key, autocommit>>
      /\ rootenv' \in BOOLEAN /\ sqlInit' \in BOOLEAN /\ strayDbc' \in BOOLEAN
      /\ connlist' = <<>> /\ todo = <<>>
  BY DEF db2Shutdown, cacheVars, spVars, workVars, db2FreeEnvHdl, PhaseInv
<1>2. /\ callbacks' \in Seq(Conn) /\ RangeOf(callbacks') \subseteq RangeOf(callbacks)
      /\ link' \in [Conn -> {"none", "open", "broken", "closed"}]
      /\ \A d \in Conn : link'[d] # "closed" =>
           link'[d] = link[d] /\ (d \in RangeOf(callbacks) => d \in RangeOf(callbacks'))
  <2>1. CASE connlist = <<>>
    BY <2>1 DEF db2Shutdown, TypeOK
  <2>2. CASE connlist # <<>>
    <3> DEFINE c == Head(connlist)
    <3>1. c \in Conn /\ connlist \in Seq(Conn)
      BY <2>2, RangeHeadTail DEF TypeOK
    <3>2. link' = [link EXCEPT ![c] = "closed"] /\ callbacks' = UnregisterCallback(callbacks, c)
      BY <2>2 DEF db2Shutdown, db2FreeConnHdl
    <3>3. /\ callbacks' \in Seq(Conn)
          /\ RangeOf(callbacks') \subseteq RangeOf(callbacks)
          /\ RangeOf(callbacks) \subseteq RangeOf(callbacks') \cup {c}
      BY <3>2, RangeUnregister DEF TypeOK
    <3> HIDE DEF c
    <3> QED BY <3>1, <3>2, <3>3 DEF TypeOK
  <2> QED BY <2>1, <2>2
<1>3. TypeOK' /\ PhaseInv'
  BY <1>1, <1>2, RangeEmpty DEF TypeOK, Phases, PhaseInv, InXact
<1>4. LevelInv' /\ NestInv' /\ SavedInv'
  BY <1>1, <1>2 DEF LevelInv, NestInv, SavedInv, InXact
<1>5. LinkInv'
  BY <1>1, <1>2, RangeEmpty DEF LinkInv
<1>6. DueInv' /\ KeptInv'
  BY <1>1 DEF DueInv, Covered, Due, On, KeptInv, CommittedIsDurable
<1> QED BY <1>3, <1>4, <1>5, <1>6

\* A lost connection stays registered, so that a commit will fail on it.
LEMMA ConnectionLostStep ==
  ASSUME IInv, NEW c \in Conn, ConnectionLost(c)
  PROVE  WorkInv'
<1> USE DEF IInv, WorkInv
<1>1. /\ link[c] = "open" /\ phase # "exit" /\ "commlost" \in Faults
      /\ UNCHANGED <<nest, phase, todo, owed, owedAt, committed, nw, stmt>>
      /\ UNCHANGED <<rootenv, sqlInit, strayDbc, connlist, key, callbacks, autocommit>>
      /\ UNCHANGED <<level, dml, durable, saved>>
  BY DEF ConnectionLost, EndUow, pgVars
<1>2. /\ uow' \in [Conn -> BOOLEAN] /\ pending' \in [Conn -> SUBSET Writes]
      /\ sp' \in [Conn -> SUBSET Levels]
      /\ link' \in [Conn -> {"none", "open", "broken", "closed"}]
      /\ pending'[c] = {} /\ sp'[c] = {} /\ link'[c] = "broken"
      /\ \A d \in Conn : d # c =>
           pending'[d] = pending[d] /\ sp'[d] = sp[d] /\ link'[d] = link[d] /\ uow'[d] = uow[d]
  BY DEF ConnectionLost, EndUow, TypeOK
<1>3. TypeOK' /\ PhaseInv'
  BY <1>1, <1>2 DEF TypeOK, PhaseInv
<1>4. LevelInv' /\ NestInv' /\ SavedInv'
  BY <1>1, <1>2 DEF LevelInv, NestInv, SavedInv
<1>5. LinkInv'
  BY <1>1, <1>2 DEF LinkInv
<1>6. DueInv' /\ KeptInv'
  BY <1>1, <1>2 DEF DueInv, Covered, Due, On, KeptInv, CommittedIsDurable
<1> QED BY <1>3, <1>4, <1>5, <1>6

----------------------------------------------------------------------------
(* Callbacks.                                                              *)

\* One entry's callback is done: the others are still due.
LEMMA TodoFacts ==
  ASSUME IInv, todo # <<>>
  PROVE  /\ Head(todo) \in Conn /\ Head(todo) \in RangeOf(callbacks)
         /\ Tail(todo) \in Seq(Conn)
         /\ RangeOf(Tail(todo)) \subseteq RangeOf(callbacks)
         /\ RangeOf(todo) \subseteq RangeOf(Tail(todo)) \cup {Head(todo)}
BY RangeHeadTail DEF IInv, WorkInv, TypeOK, PhaseInv

\* db2EndSubtransaction restores what was held when the level started.
LEMMA SubAbortCallbackStep == ASSUME IInv, SubAbortCallback PROVE WorkInv'
<1> USE DEF IInv, WorkInv
<1> DEFINE c == Head(todo)
<1>1. /\ phase = "subabort" /\ todo # <<>>
      /\ UNCHANGED <<nest, phase, owed, owedAt, committed, nw, stmt, saved, dml, uow, durable>>
      /\ UNCHANGED <<rootenv, sqlInit, strayDbc, connlist, key, callbacks, link, autocommit>>
  BY DEF SubAbortCallback, cacheVars
<1>2. /\ c \in Conn /\ c \in RangeOf(callbacks)
      /\ Tail(todo) \in Seq(Conn)
      /\ RangeOf(Tail(todo)) \subseteq RangeOf(callbacks)
      /\ RangeOf(todo) \subseteq RangeOf(Tail(todo)) \cup {c}
  BY <1>1, TodoFacts
<1>3. nest \in 2..MaxNest /\ nest - 1 \in 1..MaxNest /\ nest \in Levels /\ stmt = <<>>
  BY <1>1, ConstAssumption DEF TypeOK, PhaseInv, Levels
<1>4. CASE level[c] < nest
  <2>1. todo' = Tail(todo) /\ UNCHANGED <<level, pending, sp>>
    BY <1>4 DEF SubAbortCallback
  <2> HIDE DEF c
  <2>2. TypeOK' /\ PhaseInv'
    BY <1>1, <1>2, <1>3, <2>1 DEF TypeOK, PhaseInv, InXact
  <2>3. LevelInv'
    BY <1>1, <1>2, <1>4, <2>1 DEF LevelInv
  <2>4. LinkInv' /\ NestInv' /\ SavedInv'
    BY <1>1, <2>1 DEF LinkInv, NestInv, SavedInv
  <2>5. DueInv' /\ KeptInv'
    BY <1>1, <2>1 DEF DueInv, Covered, Due, On, KeptInv, CommittedIsDurable
  <2> QED BY <2>2, <2>3, <2>4, <2>5
<1>5. CASE ~(level[c] < nest)
  <2>1. db2EndSubtransaction(c) /\ nest <= level[c]
    BY <1>2, <1>3, <1>5 DEF SubAbortCallback, TypeOK
  <2>2. /\ level' \in [Conn -> 0..MaxNest] /\ level'[c] = nest - 1
        /\ \A d \in Conn : d # c => level'[d] = level[d]
        /\ \A d \in Conn : level[d] >= 1 => level'[d] >= 1
        /\ \A d \in Conn : level'[d] <= level[d]
    BY <1>2, <1>3, <2>1 DEF db2EndSubtransaction, TypeOK
  <2>3. /\ todo' \in Seq(Conn) /\ RangeOf(todo') \subseteq RangeOf(callbacks)
        /\ RangeOf(todo) \subseteq RangeOf(todo') \cup {c}
    BY <1>2, <2>1 DEF db2EndSubtransaction, TypeOK, PhaseInv
  <2>4. /\ pending' \in [Conn -> SUBSET Writes] /\ sp' \in [Conn -> SUBSET Levels]
        /\ \A d \in Conn : sp'[d] \subseteq sp[d]
        /\ \A d \in Conn : d # c => pending'[d] = pending[d]
        /\ \/ pending'[c] = pending[c]
           \/ /\ link[c] = "open" /\ nest \in sp[c]
              /\ pending'[c] = saved[c][nest]
    <3>1. CASE pending' = pending /\ sp' = sp
      BY <3>1 DEF TypeOK
    <3>2. CASE /\ link[c] = "open" /\ nest \in sp[c]
               /\ pending' = [pending EXCEPT ![c] = saved[c][nest]]
               /\ sp' = [sp EXCEPT ![c] = {n \in @ : n <= nest}]
      <4>1. saved[c][nest] \subseteq Writes
        BY <1>2, <1>3 DEF TypeOK
      <4>2. pending' \in [Conn -> SUBSET Writes] /\ pending'[c] = saved[c][nest]
            /\ \A d \in Conn : d # c => pending'[d] = pending[d]
        BY <1>2, <3>2, <4>1 DEF TypeOK
      <4>3. sp' \in [Conn -> SUBSET Levels] /\ \A d \in Conn : sp'[d] \subseteq sp[d]
        BY <1>2, <3>2 DEF TypeOK
      <4> QED BY <3>2, <4>2, <4>3
    <3> HIDE DEF IInv, WorkInv
    <3> QED BY <2>1, <3>1, <3>2 DEF db2EndSubtransaction
  <2> HIDE DEF c
  <2>5. TypeOK' /\ PhaseInv'
    BY <1>1, <1>3, <2>2, <2>3, <2>4 DEF TypeOK, PhaseInv, InXact
  <2>6. LevelInv'
    <3>1. ASSUME NEW d \in RangeOf(callbacks)
          PROVE  level'[d] <= nest /\ (d \in RangeOf(todo') \/ level'[d] < nest)
      <4>1. d \in Conn
        BY CallbacksAreEntries
      <4>2. CASE d = c
        BY <1>3, <2>2, <4>2
      <4>3. CASE d # c
        BY <1>1, <2>2, <2>3, <4>1, <4>3 DEF LevelInv
      <4> QED BY <4>2, <4>3
    <3> QED BY <1>1, <3>1 DEF LevelInv
  <2>7. LinkInv'
    <3>1. \A d \in Conn : level[d] = 0 => level'[d] = 0
      BY <1>3, <2>1, <2>2 DEF TypeOK
    <3>2. \A d \in Conn : pending'[d] # {} => pending[d] # {} \/ (link[d] = "open" /\ sp[d] # {})
      BY <2>4
    <3> QED BY <1>1, <2>4, <3>1, <3>2 DEF LinkInv
  <2>8. NestInv' /\ KeptInv'
    BY <1>1 DEF NestInv, KeptInv, CommittedIsDurable
  <2>9. SavedInv'
    <3>1. ASSUME NoDeadlock, NEW d \in Conn, NEW n \in 2..nest, n <= level'[d], n \in sp'[d]
          PROVE  On(d, owedAt[n]) \subseteq durable \cup saved[d][n]
      <4>1. n <= level[d] /\ n \in sp[d]
        BY <1>3, <2>2, <2>4, <3>1 DEF TypeOK
      <4> QED BY <1>1, <3>1, <4>1 DEF SavedInv
    <3> QED BY <1>1, <3>1 DEF SavedInv
  <2>10. DueInv'
    <3>1. Due = owedAt[nest] /\ Due' = Due
      BY <1>1, <1>3 DEF Due
    <3>2. ASSUME NoDeadlock, NEW d \in Conn, NEW w \in On(d, Due)
          PROVE  Covered(d, w)'
      <4>1. CASE pending'[d] = pending[d]
        BY <1>1, <2>2, <3>2, <4>1 DEF DueInv, Covered
      <4>2. CASE pending'[d] # pending[d]
        <5>1. d = c /\ nest \in sp[c] /\ pending'[c] = saved[c][nest]
          BY <2>4, <4>2
        <5>2. nest \in 2..nest /\ On(c, owedAt[nest]) \subseteq durable \cup saved[c][nest]
          BY <1>1, <1>2, <1>3, <2>1, <3>2, <5>1 DEF SavedInv
        <5> QED BY <1>1, <1>2, <1>3, <2>2, <3>1, <3>2, <5>1, <5>2 DEF Covered
      <4> QED BY <4>1, <4>2
    <3> QED BY <1>1, <3>1, <3>2 DEF DueInv, Covered
  <2> QED BY <2>5, <2>6, <2>7, <2>8, <2>9, <2>10
<1> QED BY <1>4, <1>5

\* XACT_EVENT_COMMIT finds xact_level 0.
LEMMA CommitCallbackStep == ASSUME IInv, CommitCallback PROVE WorkInv'
<1> USE DEF IInv, WorkInv, CommitCallback, cacheVars, spVars
<1>1. TypeOK' /\ PhaseInv'
  BY TodoFacts DEF TypeOK, PhaseInv
<1>2. LevelInv' /\ LinkInv' /\ NestInv' /\ SavedInv'
  BY DEF LevelInv, LinkInv, NestInv, SavedInv
<1>3. DueInv' /\ KeptInv'
  BY DEF DueInv, Covered, Due, On, KeptInv, CommittedIsDurable
<1> QED BY <1>1, <1>2, <1>3

\* db2EndTransaction, or DB2, has ended the unit of work of c.
LEMMA EndUowFacts ==
  ASSUME IInv, phase # "exit", NEW c \in Conn, EndUow(c), level' \in [Conn -> 0..MaxNest],
         \A d \in Conn : level[d] = 0 => level'[d] = 0,
         UNCHANGED <<connlist, callbacks, autocommit>>,
         \/ link' = link
         \/ link' = [link EXCEPT ![c] = "broken"] /\ link[c] = "open"
  PROVE  /\ uow' \in [Conn -> BOOLEAN] /\ pending' \in [Conn -> SUBSET Writes]
         /\ sp' \in [Conn -> SUBSET Levels]
         /\ \A d \in Conn : d # c => pending'[d] = pending[d]
         /\ LinkInv'
<1> USE DEF IInv, WorkInv, EndUow
<1>1. /\ uow' \in [Conn -> BOOLEAN] /\ pending' \in [Conn -> SUBSET Writes]
      /\ sp' \in [Conn -> SUBSET Levels]
      /\ pending'[c] = {} /\ sp'[c] = {}
      /\ \A d \in Conn : d # c =>
           pending'[d] = pending[d] /\ sp'[d] = sp[d] /\ uow'[d] = uow[d]
  BY DEF TypeOK
<1>2. \A d \in Conn : \/ link'[d] = link[d]
                      \/ d = c /\ link[d] = "open" /\ link'[d] = "broken"
  BY DEF TypeOK
<1>3. LinkInv'
  BY <1>1, <1>2 DEF LinkInv
<1> QED BY <1>1, <1>3

\* XACT_EVENT_ABORT: nothing is due any more.
LEMMA AbortCallbackStep == ASSUME IInv, AbortCallback PROVE WorkInv'
<1> USE DEF IInv, WorkInv
<1> DEFINE c == Head(todo)
<1>1. /\ phase = "abort" /\ todo # <<>> /\ nest = 1 /\ stmt = <<>>
      /\ UNCHANGED <<nest, phase, owed, owedAt, committed, nw, stmt>>
      /\ UNCHANGED <<rootenv, sqlInit, strayDbc, connlist, key, callbacks, link, autocommit>>
  BY DEF AbortCallback, cacheVars, PhaseInv
<1>2. /\ c \in Conn /\ c \in RangeOf(callbacks)
      /\ Tail(todo) \in Seq(Conn)
      /\ RangeOf(Tail(todo)) \subseteq RangeOf(callbacks)
      /\ RangeOf(todo) \subseteq RangeOf(Tail(todo)) \cup {c}
  BY <1>1, TodoFacts
<1>3. CASE UNCHANGED <<spVars, uow, pending, durable>>
  <2>1. /\ todo' \in Seq(Conn) /\ RangeOf(todo') \subseteq RangeOf(callbacks) /\ dml' \in BOOLEAN
        /\ \/ level[c] = 0 /\ RangeOf(todo) \subseteq RangeOf(todo') \cup {c}
           \/ todo' = callbacks
           \/ level'[c] = 0 /\ RangeOf(todo) \subseteq RangeOf(todo') \cup {c}
    BY <1>2 DEF AbortCallback, EndTransactionOk, TypeOK, workVars
  <2>2. level' = level
    BY <1>3 DEF spVars
  <2> HIDE DEF c
  <2>3. TypeOK' /\ PhaseInv'
    BY <1>1, <1>3, <2>1 DEF TypeOK, PhaseInv, InXact, spVars
  <2>4. LevelInv'
    BY <1>1, <2>1, <2>2 DEF LevelInv
  <2>5. LinkInv' /\ NestInv' /\ SavedInv'
    BY <1>1, <1>3 DEF LinkInv, NestInv, SavedInv, spVars
  <2>6. DueInv' /\ KeptInv'
    BY <1>1, <1>3 DEF DueInv, Covered, Due, On, KeptInv, CommittedIsDurable
  <2> QED BY <2>3, <2>4, <2>5, <2>6
<1>4. CASE EndTransactionOk(c, FALSE) /\ todo' = Tail(todo) /\ dml' = FALSE
  <2>1. /\ level' \in [Conn -> 0..MaxNest] /\ level'[c] = 0
        /\ \A d \in Conn : d # c => level'[d] = level[d]
        /\ EndUow(c) /\ durable' = durable /\ saved' = saved
    BY <1>2, <1>4, ConstAssumption DEF EndTransactionOk, EndUow, TypeOK
  <2> HIDE DEF c
  <2>2. /\ uow' \in [Conn -> BOOLEAN] /\ pending' \in [Conn -> SUBSET Writes]
        /\ sp' \in [Conn -> SUBSET Levels]
        /\ LinkInv'
    BY <1>1, <1>2, <2>1, EndUowFacts
  <2>3. TypeOK' /\ PhaseInv'
    BY <1>1, <1>2, <1>4, <2>1, <2>2 DEF TypeOK, PhaseInv, InXact
  <2>4. LevelInv'
    BY <1>1, <1>2, <1>4, <2>1, CallbacksAreEntries DEF LevelInv
  <2>5. NestInv' /\ SavedInv' /\ DueInv' /\ KeptInv'
    BY <1>1, <2>1 DEF NestInv, SavedInv, DueInv, Covered, Due, On, KeptInv, CommittedIsDurable
  <2> QED BY <2>2, <2>3, <2>4, <2>5
<1> HIDE DEF IInv, WorkInv
<1> QED BY <1>3, <1>4 DEF AbortCallback, workVars

\* XACT_EVENT_PRE_COMMIT commits what the connection holds, or raises an
\* ERROR that keeps PostgreSQL from committing.
LEMMA PreCommitCallbackStep == ASSUME IInv, PreCommitCallback PROVE WorkInv'
<1> USE DEF IInv, WorkInv
<1> DEFINE c == Head(todo)
<1>1. /\ phase = "precommit" /\ todo # <<>> /\ nest = 1 /\ stmt = <<>>
      /\ UNCHANGED <<nest, owed, owedAt, committed, nw, stmt>>
      /\ UNCHANGED <<rootenv, sqlInit, strayDbc, connlist, key, callbacks, autocommit>>
  BY DEF PreCommitCallback, PhaseInv
<1>2. /\ c \in Conn /\ c \in RangeOf(callbacks)
      /\ Tail(todo) \in Seq(Conn)
      /\ RangeOf(Tail(todo)) \subseteq RangeOf(callbacks)
      /\ RangeOf(todo) \subseteq RangeOf(Tail(todo)) \cup {c}
  BY <1>1, TodoFacts
<1>3. CASE /\ level[c] = 0 /\ UNCHANGED <<spVars, uow, pending, durable>>
           /\ dml' = FALSE /\ todo' = Tail(todo) /\ UNCHANGED <<phase, link>>
  <2> HIDE DEF c
  <2>1. TypeOK' /\ PhaseInv'
    BY <1>1, <1>2, <1>3 DEF TypeOK, PhaseInv, InXact, spVars
  <2>2. LevelInv'
    BY <1>1, <1>2, <1>3 DEF LevelInv, spVars
  <2>3. LinkInv' /\ NestInv' /\ SavedInv'
    BY <1>1, <1>3 DEF LinkInv, NestInv, SavedInv, spVars
  <2>4. DueInv' /\ KeptInv'
    BY <1>1, <1>3 DEF DueInv, Covered, Due, On, KeptInv, CommittedIsDurable, spVars
  <2> QED BY <2>1, <2>2, <2>3, <2>4
<1>4. CASE /\ link[c] = "open" /\ EndTransactionOk(c, TRUE)
           /\ dml' = FALSE /\ todo' = Tail(todo) /\ UNCHANGED <<phase, link>>
  <2>1. /\ level' \in [Conn -> 0..MaxNest] /\ level'[c] = 0
        /\ \A d \in Conn : d # c => level'[d] = level[d]
        /\ EndUow(c) /\ durable' = durable \cup pending[c] /\ saved' = saved
    BY <1>2, <1>4, ConstAssumption DEF EndTransactionOk, EndUow, TypeOK
  <2> HIDE DEF c
  <2>2. /\ uow' \in [Conn -> BOOLEAN] /\ pending' \in [Conn -> SUBSET Writes]
        /\ sp' \in [Conn -> SUBSET Levels]
        /\ \A d \in Conn : d # c => pending'[d] = pending[d]
        /\ LinkInv'
    BY <1>1, <1>2, <1>4, <2>1, EndUowFacts
  <2>3. durable' \subseteq Writes
    BY <1>2, <2>1 DEF TypeOK
  <2>4. TypeOK' /\ PhaseInv'
    BY <1>1, <1>2, <1>4, <2>1, <2>2, <2>3 DEF TypeOK, PhaseInv, InXact
  <2>5. LevelInv'
    BY <1>1, <1>2, <1>4, <2>1, CallbacksAreEntries DEF LevelInv
  <2>6. NestInv' /\ SavedInv' /\ KeptInv'
    BY <1>1, <1>4, <2>1 DEF NestInv, SavedInv, KeptInv, CommittedIsDurable
  <2>7. DueInv'
    <3>1. Due = owed /\ Due' = owed
      BY <1>1, <1>4 DEF Due
    <3>2. ASSUME NoDeadlock, NEW d \in Conn, NEW w \in On(d, owed)
          PROVE  Covered(d, w)'
      <4>1. Covered(d, w)
        BY <3>1, <3>2 DEF DueInv
      <4>2. CASE d = c
        BY <1>4, <2>1, <4>1, <4>2 DEF Covered
      <4>3. CASE d # c
        BY <1>1, <1>4, <2>1, <2>2, <3>2, <4>1, <4>3 DEF Covered
      <4> QED BY <4>2, <4>3
    <3> QED BY <1>1, <1>4, <3>1, <3>2 DEF DueInv, Covered
  <2> QED BY <2>2, <2>4, <2>5, <2>6, <2>7
<1>5. CASE phase' = "error" /\ todo' = <<>> /\ UNCHANGED dml
           /\ (CommitFails(c) \/ UNCHANGED <<spVars, uow, pending, durable, link>>)
  <2>1. level' = level /\ saved' = saved /\ durable \subseteq durable' /\ durable' \subseteq Writes
    BY <1>2, <1>5 DEF CommitFails, EndUow, TypeOK, spVars
  <2>2. /\ uow' \in [Conn -> BOOLEAN] /\ pending' \in [Conn -> SUBSET Writes]
        /\ sp' \in [Conn -> SUBSET Levels] /\ LinkInv'
        /\ link' \in [Conn -> {"none", "open", "broken", "closed"}]
    <3>1. CASE UNCHANGED <<sp, uow, pending, link>>
      BY <1>1, <1>5, <2>1, <3>1 DEF TypeOK, LinkInv
    <3>2. CASE EndUow(c) /\ (link' = link \/ (link' = [link EXCEPT ![c] = "broken"] /\ link[c] = "open"))
      <4>1. /\ level' \in [Conn -> 0..MaxNest] /\ \A d \in Conn : level[d] = 0 => level'[d] = 0
            /\ link' \in [Conn -> {"none", "open", "broken", "closed"}]
        BY <2>1, <3>2 DEF TypeOK
      <4> HIDE DEF c
      <4> QED BY <1>1, <1>2, <3>2, <4>1, EndUowFacts
    <3> HIDE DEF IInv, WorkInv
    <3> QED BY <1>5, <3>1, <3>2 DEF CommitFails, spVars
  <2> HIDE DEF c
  <2>3. TypeOK' /\ PhaseInv'
    BY <1>1, <1>5, <2>1, <2>2, RangeEmpty DEF TypeOK, PhaseInv, InXact, Phases
  <2>4. LevelInv' /\ NestInv' /\ SavedInv'
    BY <1>1, <1>5, <2>1 DEF LevelInv, NestInv, SavedInv
  <2>5. DueInv' /\ KeptInv'
    BY <1>1, <1>5, <2>1 DEF DueInv, Covered, Due, On, KeptInv, CommittedIsDurable
  <2> QED BY <2>2, <2>3, <2>4, <2>5
<1> HIDE DEF IInv, WorkInv
<1> QED BY <1>3, <1>4, <1>5 DEF PreCommitCallback

----------------------------------------------------------------------------
(* db2GetSession.                                                          *)

\* A new entry changes the cache only.
LEMMA CacheEntryFacts ==
  ASSUME IInv, NEW k \in Keys, NEW c \in Conn, CacheEntry(k, c)
  PROVE  /\ rootenv' \in BOOLEAN /\ sqlInit' \in BOOLEAN /\ strayDbc' \in BOOLEAN
         /\ connlist' \in Seq(Conn)
         /\ RangeOf(connlist') \subseteq RangeOf(connlist) \cup {c}
         /\ key' \in [Conn -> Keys \cup {NoKey}]
         /\ link' \in [Conn -> {"none", "open", "broken", "closed"}]
         /\ link[c] = "none" /\ link'[c] = "open"
         /\ \A d \in Conn : d # c => link'[d] = link[d]
<1>1. connlist' \in Seq(Conn) /\ RangeOf(connlist') \subseteq RangeOf(connlist) \cup {c}
  BY WalkFromRange DEF CacheEntry, IInv, WorkInv, TypeOK
<1>2. strayDbc' \in BOOLEAN
  <2>1. strayDbc \in BOOLEAN
    BY DEF IInv, WorkInv, TypeOK
  <2> QED BY <2>1 DEF CacheEntry
<1>3. key' \in [Conn -> Keys \cup {NoKey}]
  BY DEF CacheEntry, IInv, WorkInv, TypeOK
<1> QED BY <1>1, <1>2, <1>3 DEF CacheEntry, IInv, WorkInv, TypeOK

\* The connection of a session is cached, usable or broken, and gets its
\* callbacks before its first savepoint.
LEMMA AllocFacts ==
  ASSUME IInv, phase = "run", NEW k \in Keys, NEW c \in Conn, db2AllocConnHdl(k, c)
  PROVE  /\ rootenv' \in BOOLEAN /\ sqlInit' \in BOOLEAN /\ strayDbc' \in BOOLEAN
         /\ connlist' \in Seq(Conn) /\ callbacks' \in Seq(Conn)
         /\ \A d \in RangeOf(connlist') : d \in RangeOf(connlist) \/ d = c
         /\ key' \in [Conn -> Keys \cup {NoKey}]
         /\ link' \in [Conn -> {"none", "open", "broken", "closed"}]
         /\ autocommit' \in [Conn -> BOOLEAN]
         /\ RangeOf(callbacks) \subseteq RangeOf(callbacks')
         /\ RangeOf(callbacks') \subseteq RangeOf(callbacks) \cup {c}
         /\ \A d \in Conn : d # c => link'[d] = link[d] /\ autocommit'[d] = autocommit[d]
         /\ link'[c] \in {"open", "broken"}
         /\ link'[c] = "broken" <=> link[c] = "broken"
         /\ link[c] # "open" => pending[c] = {} /\ sp[c] = {}
         /\ link'[c] = "open" /\ ~autocommit'[c] => c \in RangeOf(callbacks')
         /\ c \in RangeOf(callbacks') /\ c \notin RangeOf(callbacks) => level[c] = 0
         /\ autocommit'[c] => autocommit[c]
<1> USE DEF IInv, WorkInv
<1>1. CASE c \in findconnEntry(k) /\ UNCHANGED cacheVars
  BY <1>1 DEF findconnEntry, cacheVars, TypeOK, LinkInv
<1>2. CASE /\ CacheEntry(k, c) /\ autocommit' = [autocommit EXCEPT ![c] = FALSE]
           /\ callbacks' = <<c>> \o callbacks
  <2>1. /\ callbacks' \in Seq(Conn) /\ RangeOf(callbacks') = {c} \cup RangeOf(callbacks)
    BY <1>2, RangeRegister DEF TypeOK
  <2>2. /\ autocommit' \in [Conn -> BOOLEAN] /\ ~autocommit'[c]
        /\ \A d \in Conn : d # c => autocommit'[d] = autocommit[d]
    BY <1>2 DEF TypeOK
  <2>3. /\ rootenv' \in BOOLEAN /\ sqlInit' \in BOOLEAN /\ strayDbc' \in BOOLEAN
        /\ connlist' \in Seq(Conn)
        /\ RangeOf(connlist') \subseteq RangeOf(connlist) \cup {c}
        /\ key' \in [Conn -> Keys \cup {NoKey}]
        /\ link' \in [Conn -> {"none", "open", "broken", "closed"}]
        /\ link[c] = "none" /\ link'[c] = "open"
        /\ \A d \in Conn : d # c => link'[d] = link[d]
    BY <1>2, CacheEntryFacts
  <2>4. level[c] = 0 /\ pending[c] = {} /\ sp[c] = {}
    BY <2>3 DEF LinkInv
  <2> QED BY <2>1, <2>2, <2>3, <2>4
<1> HIDE DEF IInv, WorkInv
<1> QED BY <1>1, <1>2 DEF db2AllocConnHdl

\* Where a session's savepoints start and end.
LEMMA LevelFacts ==
  ASSUME IInv, phase = "run", NEW c \in Conn, NEW kind
  PROVE  /\ StartLevel(c) \in 1..MaxNest /\ EndLevel(c, kind) \in 1..MaxNest
         /\ StartLevel(c) <= EndLevel(c, kind)
         /\ level[c] >= 1 => StartLevel(c) = level[c]
         /\ level[c] = 0 => StartLevel(c) = 1
         /\ level[c] <= nest => EndLevel(c, kind) <= nest
<1>1. level[c] \in 0..MaxNest /\ nest \in 1..MaxNest /\ MaxNest \in Nat
  BY ConstAssumption DEF IInv, WorkInv, TypeOK, PhaseInv, InXact
<1>2. /\ StartLevel(c) \in 1..MaxNest
      /\ level[c] >= 1 => StartLevel(c) = level[c]
      /\ level[c] = 0 => StartLevel(c) = 1
      /\ level[c] <= nest => StartLevel(c) <= nest
  BY <1>1 DEF StartLevel
<1>3. CurLevel(kind) \in 1..nest
  BY <1>1 DEF CurLevel
<1> QED BY <1>1, <1>2, <1>3 DEF EndLevel

\* Savepoints up to a level: each one holds what is owed at this moment.
LEMMA SessionStep ==
  ASSUME IInv, phase = "run", phase' \in {"run", "error"},
         NEW k \in Keys, NEW c \in Conn, NEW kind,
         NEW to \in StartLevel(c)..EndLevel(c, kind),
         link[c] = "broken" => to = StartLevel(c),
         db2AllocConnHdl(k, c), db2SetSavepoint(c, StartLevel(c), to),
         UNCHANGED <<nest, todo, owed, owedAt, committed, nw, dml, pending, durable>>,
         \/ stmt' = <<>>
         \/ /\ phase' = "run" /\ stmt' = <<kind, c>> /\ kind \in AllStmts
            /\ kind \in Ops /\ (kind \in Writers => nw < MaxWrites)
  PROVE  WorkInv'
<1> USE DEF IInv, WorkInv
<1> DEFINE from == StartLevel(c)
           new  == (from + 1)..to
<1>1. /\ from \in 1..MaxNest /\ to \in from..MaxNest /\ nest \in 1..MaxNest
      /\ level[c] \in 0..MaxNest /\ MaxNest \in Nat
      /\ level[c] >= 1 => from = level[c]
      /\ level[c] = 0 => from = 1
      /\ level[c] <= nest => to <= nest
  BY LevelFacts, ConstAssumption DEF TypeOK, PhaseInv, InXact
<1>2. /\ rootenv' \in BOOLEAN /\ sqlInit' \in BOOLEAN /\ strayDbc' \in BOOLEAN
      /\ connlist' \in Seq(Conn) /\ callbacks' \in Seq(Conn)
      /\ \A d \in RangeOf(connlist') : d \in RangeOf(connlist) \/ d = c
      /\ key' \in [Conn -> Keys \cup {NoKey}]
      /\ link' \in [Conn -> {"none", "open", "broken", "closed"}]
      /\ autocommit' \in [Conn -> BOOLEAN]
      /\ RangeOf(callbacks) \subseteq RangeOf(callbacks')
      /\ RangeOf(callbacks') \subseteq RangeOf(callbacks) \cup {c}
      /\ \A d \in Conn : d # c => link'[d] = link[d] /\ autocommit'[d] = autocommit[d]
      /\ link'[c] \in {"open", "broken"}
      /\ link'[c] = "broken" <=> link[c] = "broken"
      /\ link[c] # "open" => pending[c] = {} /\ sp[c] = {}
      /\ link'[c] = "open" /\ ~autocommit'[c] => c \in RangeOf(callbacks')
      /\ c \in RangeOf(callbacks') /\ c \notin RangeOf(callbacks) => level[c] = 0
      /\ autocommit'[c] => autocommit[c]
  BY AllocFacts
<1> HIDE DEF from
<1>3. /\ level' = [level EXCEPT ![c] = to]
      /\ sp' = [sp EXCEPT ![c] = IF autocommit'[c] THEN @ ELSE @ \cup new]
      /\ saved' = [saved EXCEPT ![c] = [n \in Levels |-> IF n \in new THEN pending[c] ELSE @[n]]]
      /\ uow' = [uow EXCEPT ![c] = @ \/ (from < to /\ ~autocommit'[c])]
  BY DEF db2SetSavepoint, from
<1>4. /\ new \subseteq Levels /\ \A n \in new : n > from
      /\ from = to => new = {}
  BY <1>1 DEF Levels
<1>5. /\ level' \in [Conn -> 0..MaxNest] /\ level'[c] = to /\ to >= 1
      /\ \A d \in Conn : d # c => level'[d] = level[d]
  BY <1>1, <1>3 DEF TypeOK
<1>6. /\ sp' \in [Conn -> SUBSET Levels]
      /\ sp'[c] \subseteq sp[c] \cup new
      /\ autocommit'[c] => sp'[c] = sp[c]
      /\ from = to => sp'[c] = sp[c]
      /\ \A d \in Conn : d # c => sp'[d] = sp[d]
  BY <1>3, <1>4 DEF TypeOK
<1>7. /\ saved' \in [Conn -> [Levels -> SUBSET Writes]]
      /\ \A n \in Levels : saved'[c][n] = IF n \in new THEN pending[c] ELSE saved[c][n]
      /\ \A d \in Conn : d # c => saved'[d] = saved[d]
  BY <1>3, <1>4 DEF TypeOK
<1>8. /\ uow' \in [Conn -> BOOLEAN]
      /\ ~uow'[c] => ~uow[c] /\ (autocommit'[c] \/ ~(from < to))
      /\ \A d \in Conn : d # c => uow'[d] = uow[d]
  BY <1>3 DEF TypeOK
<1> HIDE DEF new
<1>9. TypeOK'
  <2>1. stmt' \in {<<>>} \cup (AllStmts \X Conn)
    OBVIOUS
  <2> QED BY <2>1, <1>2, <1>5, <1>6, <1>7, <1>8 DEF TypeOK, Phases
<1>10. PhaseInv'
  <2>1. todo' = <<>> /\ RangeOf(todo') = {}
    BY RangeEmpty DEF PhaseInv
  <2> QED BY <1>1, <1>5, <2>1 DEF PhaseInv, InXact
<1>11. LevelInv'
  <2>1. ASSUME NEW d \in RangeOf(callbacks') PROVE level'[d] <= nest
    <3>1. CASE d = c
      <4>1. level[c] <= nest
        BY <1>1, <1>2, <2>1, <3>1 DEF LevelInv
      <4> QED BY <1>1, <1>5, <3>1, <4>1
    <3>2. CASE d # c
      BY <1>2, <1>5, <2>1, <3>2, CallbacksAreEntries DEF LevelInv
    <3> QED BY <3>1, <3>2
  <2> QED BY <2>1 DEF LevelInv
<1>12. LinkInv'
  <2>1. ASSUME NEW d \in Conn
        PROVE  /\ link'[d] = "none" => level'[d] = 0 /\ autocommit'[d]
               /\ link'[d] # "open" /\ phase' # "exit" => pending'[d] = {} /\ sp'[d] = {}
               /\ d \in RangeOf(connlist') => link'[d] \in {"open", "broken"}
               /\ link'[d] = "open" /\ ~autocommit'[d] => d \in RangeOf(callbacks')
               /\ autocommit'[d] => pending'[d] = {} /\ sp'[d] = {}
               /\ link'[d] = "open" /\ ~uow'[d] => pending'[d] = {} /\ sp'[d] = {}
    <3>1. CASE d = c
      <4>1. link'[c] # "open" => pending'[c] = {} /\ sp'[c] = {}
        BY <1>2, <1>6 DEF from
      <4>2. autocommit'[c] => pending'[c] = {} /\ sp'[c] = {}
        BY <1>2, <1>6 DEF LinkInv
      <4>3. link'[c] = "open" /\ ~uow'[c] => pending'[c] = {} /\ sp'[c] = {}
        BY <1>1, <1>2, <1>6, <1>8 DEF LinkInv
      <4> QED BY <1>2, <3>1, <4>1, <4>2, <4>3
    <3>2. CASE d # c
      BY <1>2, <1>5, <1>6, <1>8, <3>2 DEF LinkInv
    <3> QED BY <3>1, <3>2
  <2> QED BY <2>1 DEF LinkInv
<1>13. NestInv' /\ KeptInv'
  BY DEF NestInv, InXact, KeptInv, CommittedIsDurable
<1>14. SavedInv'
  <2>1. ASSUME NoDeadlock, NEW d \in Conn, NEW n \in 2..nest, n <= level'[d], n \in sp'[d]
        PROVE  On(d, owedAt[n]) \subseteq durable \cup saved'[d][n]
    <3>1. CASE d # c
      BY <1>5, <1>6, <1>7, <2>1, <3>1 DEF SavedInv
    <3>2. CASE d = c /\ n \notin new
      <4>1. n \in sp[c] /\ n \in Levels /\ saved'[c][n] = saved[c][n]
        BY <1>1, <1>6, <1>7, <2>1, <3>2 DEF Levels
      <4>2. n <= level[c]
        BY <1>1, <1>5, <2>1, <3>2 DEF new
      <4> QED BY <2>1, <3>2, <4>1, <4>2 DEF SavedInv
    <3>3. CASE d = c /\ n \in new
      <4>1. saved'[c][n] = pending[c] /\ link[c] \notin {"broken", "closed"}
        <5>1. link[c] # "closed"
          BY DEF db2AllocConnHdl, CacheEntry, findconnEntry, LinkInv
        <5> QED BY <1>1, <1>4, <1>7, <3>3, <5>1 DEF from
      <4>2. Due = owed /\ owedAt[n] \subseteq owed
        BY <2>1 DEF Due, NestInv, InXact
      <4>3. \A w \in On(c, owed) : w \in durable \/ w \in pending[c]
        BY <2>1, <4>1, <4>2 DEF DueInv, Covered
      <4> QED BY <3>3, <4>1, <4>2, <4>3 DEF On
    <3> QED BY <3>1, <3>2, <3>3
  <2> QED BY <2>1 DEF SavedInv
<1>15. DueInv'
  <2>1. Due' \subseteq Due
    BY DueAfterError DEF Due
  <2>2. \A d \in Conn : /\ level[d] >= 1 => level'[d] >= 1
                        /\ link[d] \in {"broken", "closed"} => link'[d] = link[d]
    <3>1. link[c] # "closed"
      BY DEF db2AllocConnHdl, CacheEntry, findconnEntry, LinkInv
    <3> QED BY <1>2, <1>5, <3>1
  <2> QED BY <1>2, <2>1, <2>2 DEF DueInv, Covered, On
<1> QED BY <1>9, <1>10, <1>11, <1>12, <1>13, <1>14, <1>15

\* A statement gets its session.
LEMMA db2GetSessionStep ==
  ASSUME IInv, NEW kind \in AllStmts, NEW k \in Keys, db2GetSession(kind, k)
  PROVE  WorkInv'
<1>1. PICK c \in Conn :
        /\ db2AllocConnHdl(k, c)
        /\ db2SetSavepoint(c, StartLevel(c), EndLevel(c, kind))
        /\ link[c] = "broken" => EndLevel(c, kind) = StartLevel(c)
        /\ stmt' = <<kind, c>>
  BY DEF db2GetSession
<1>2. /\ phase = "run" /\ phase' = "run" /\ kind \in Ops /\ (kind \in Writers => nw < MaxWrites)
      /\ UNCHANGED <<nest, todo, owed, owedAt, committed, nw, dml, pending, durable>>
  BY DEF db2GetSession, CanStart
<1>3. EndLevel(c, kind) \in StartLevel(c)..EndLevel(c, kind)
  BY <1>2, LevelFacts, ConstAssumption
<1> QED BY <1>1, <1>2, <1>3, SessionStep

\* A statement does not get its session; the savepoints set so far stay.
LEMMA GetSessionErrorStep ==
  ASSUME IInv, NEW kind \in AllStmts, NEW k \in Keys, GetSessionError(kind, k)
  PROVE  WorkInv'
<1>1. /\ phase = "run" /\ phase' = "error" /\ stmt = <<>> /\ stmt' = <<>>
      /\ UNCHANGED <<nest, todo, owed, owedAt, committed, nw, dml, pending, durable>>
  BY DEF GetSessionError, CanStart
<1>2. ASSUME NEW c \in Conn, NEW to \in StartLevel(c)..(EndLevel(c, kind) - 1),
             link[c] = "broken" => to = StartLevel(c),
             db2AllocConnHdl(k, c), db2SetSavepoint(c, StartLevel(c), to)
      PROVE  WorkInv'
  <2>1. to \in StartLevel(c)..EndLevel(c, kind)
    BY <1>1, <1>2, LevelFacts, ConstAssumption
  <2> QED BY <1>1, <1>2, <2>1, SessionStep
<1>3. ASSUME AllocFails(k), UNCHANGED <<spVars, uow>>
      PROVE  WorkInv'
  <2> USE DEF IInv, WorkInv
  <2>1. /\ rootenv' \in BOOLEAN /\ sqlInit' \in BOOLEAN /\ strayDbc' \in BOOLEAN
        /\ connlist' \in Seq(Conn) /\ key' \in [Conn -> Keys \cup {NoKey}]
        /\ link' \in [Conn -> {"none", "open", "broken", "closed"}]
        /\ \A d \in Conn : \/ link'[d] = link[d] /\ (d \in RangeOf(connlist') => d \in RangeOf(connlist))
                           \/ link[d] = "none" /\ link'[d] = "open"
        /\ callbacks' = callbacks /\ autocommit' = autocommit
    <3>1. CASE UNCHANGED <<connlist, key, link>> /\ (EnvFails \/ ConnectFails)
      BY <1>3, <3>1 DEF AllocFails, EnvFails, ConnectFails, TypeOK
    <3>2. CASE AutocommitFails(k)
      <4>1. PICK c \in Conn : CacheEntry(k, c)
        BY <3>2 DEF AutocommitFails
      <4> QED BY <1>3, <4>1, CacheEntryFacts DEF AllocFails
    <3> HIDE DEF IInv, WorkInv
    <3> QED BY <1>3, <3>1, <3>2 DEF AllocFails, EnvFails, ConnectFails
  <2>2. level' = level /\ sp' = sp /\ saved' = saved /\ uow' = uow
    BY <1>3 DEF spVars
  <2>3. TypeOK' /\ PhaseInv'
    BY <1>1, <2>1, <2>2 DEF TypeOK, Phases, PhaseInv, InXact
  <2>4. LevelInv' /\ NestInv' /\ SavedInv'
    BY <1>1, <2>1, <2>2 DEF LevelInv, NestInv, SavedInv, InXact
  <2>5. LinkInv'
    BY <1>1, <2>1, <2>2 DEF LinkInv
  <2>6. Due' \subseteq Due
    BY <1>1, DueAfterError DEF Due
  <2>7. DueInv' /\ KeptInv'
    BY <1>1, <2>1, <2>2, <2>6 DEF DueInv, Covered, On, KeptInv, CommittedIsDurable
  <2> QED BY <2>3, <2>4, <2>5, <2>7
<1> QED BY <1>2, <1>3 DEF GetSessionError

----------------------------------------------------------------------------
(* The flag.                                                               *)

\* FlagInv holds after a step if nothing more is due, or the commit begins.
LEMMA FlagKept ==
  ASSUME IInv,
         \/ phase' = "precommit" \/ Due' = {}
         \/ phase # "precommit" /\ Due' \subseteq Due /\ durable \subseteq durable' /\ (dml => dml')
  PROVE  FlagInv'
BY DEF IInv, FlagInv

\* A statement adds to what is due only what it makes durable or what it has
\* set the flag for; a direct modification does not set it.
LEMMA FlagStatement == ASSUME IInv, Statement PROVE FlagInv'
<1>1. /\ phase = "run" /\ phase' \in {"run", "error"}
      /\ UNCHANGED <<nest, owedAt>>
  BY DEF Statement, db2GetSession, GetSessionError, CanStart, Read, db2_diag, Running,
         db2ExecForeignInsert, db2IterateDirectModify, db2ExecuteTruncate, StatementError,
         CloseRefused, db2CloseConnections
<1>2. owed' \subseteq owed => Due' \subseteq Due
  BY <1>1, DueAfterError DEF Due
<1>3. CASE owed' = owed /\ durable' = durable /\ dml' = dml
  BY <1>1, <1>2, <1>3, FlagKept
<1>4. CASE Read
  BY <1>1, <1>2, <1>4, FlagKept DEF Read, Execute
<1>5. CASE db2ExecForeignInsert
  BY <1>5 DEF db2ExecForeignInsert, FlagInv
<1>6. CASE db2IterateDirectModify
  <2>1. ~RowWise \/ FlagInv'
    <3>1. stmt # <<>> /\ stmt[1] = "direct"
      BY <1>6 DEF db2IterateDirectModify, Running
    <3> QED BY <3>1 DEF IInv, WorkInv, PhaseInv, RowWise
  <2> QED BY <2>1 DEF FlagInv
<1>7. CASE db2ExecuteTruncate
  BY <1>1, <1>7 DEF db2ExecuteTruncate, FlagInv, Due, IInv
<1>8. CASE StatementError
  <2>1. durable \subseteq durable'
    BY <1>8 DEF StatementError, ExecuteFails, Execute, Deadlock
  <2>2. dml => dml'
    BY <1>8 DEF StatementError
  <2>3. owed' = owed
    BY <1>8 DEF StatementError
  <2> QED BY <1>1, <1>2, <2>1, <2>2, <2>3, FlagKept
<1>9. CASE db2_diag \/ CloseRefused \/ db2CloseConnections
  BY <1>3, <1>9 DEF db2_diag, CloseRefused, db2CloseConnections, workVars
<1>10. CASE \E kind \in AllStmts, k \in Keys : db2GetSession(kind, k) \/ GetSessionError(kind, k)
  BY <1>3, <1>10 DEF db2GetSession, GetSessionError
<1> QED BY <1>4, <1>5, <1>6, <1>7, <1>8, <1>9, <1>10 DEF Statement

\* Only the events that end a transaction clear it.
LEMMA FlagCallback == ASSUME IInv, Callback PROVE FlagInv'
<1>1. CASE SubAbortCallback
  BY <1>1, FlagKept DEF SubAbortCallback, Due
<1>2. CASE SubAbortDone
  <2>1. nest > 1
    BY <1>2 DEF SubAbortDone, IInv, WorkInv, PhaseInv
  <2> QED BY <1>2, <2>1, FlagKept DEF SubAbortDone, Due, workVars
<1>3. CASE PreCommitCallback \/ LocalCommitFails
  <2>1. phase' \in {"precommit", "error"} /\ nest' = 1
    BY <1>3 DEF PreCommitCallback, LocalCommitFails, IInv, WorkInv, PhaseInv
  <2> QED BY <2>1, FlagKept DEF Due
<1>4. CASE LocalCommit \/ CommitCallback \/ AbortCallback \/ EndXact
  <2>1. phase' \in {"commit", "abort", "idle"}
    BY <1>4 DEF LocalCommit, CommitCallback, AbortCallback, EndXact
  <2> QED BY <2>1, FlagKept DEF Due
<1> QED BY <1>1, <1>2, <1>3, <1>4 DEF Callback

LEMMA FlagStep == ASSUME IInv, [Next]_vars PROVE FlagInv'
<1>1. CASE Begin
  BY <1>1, FlagKept DEF Begin, Due
<1>2. CASE SubBegin \/ SubCommit
  BY <1>2, FlagKept DEF SubBegin, SubCommit, Due, workVars
<1>3. CASE StartUnwind
  <2>1. Due' \subseteq Due /\ phase # "precommit"
    BY <1>3, DueAfterError DEF StartUnwind, Due
  <2> QED BY <1>3, <2>1, FlagKept DEF StartUnwind, workVars
<1>4. CASE StartCommit
  BY <1>4, FlagKept DEF StartCommit
<1>5. CASE PrepareTransaction
  <2>1. Due' = {}
    BY <1>5 DEF PrepareTransaction, Due
  <2> QED BY <2>1, FlagKept
<1>6. CASE db2Shutdown
  BY <1>6, FlagKept DEF db2Shutdown, Due
<1>7. CASE \E c \in Conn : ConnectionLost(c)
  <2>1. UNCHANGED <<nest, phase, owed, owedAt, dml, durable>>
    BY <1>7 DEF ConnectionLost, pgVars
  <2> QED BY <2>1 DEF IInv, FlagInv, Due
<1>8. CASE Exited \/ UNCHANGED vars
  BY <1>8 DEF Exited, vars, pgVars, workVars, IInv, FlagInv, Due
<1> QED BY <1>1, <1>2, <1>3, <1>4, <1>5, <1>6, <1>7, <1>8, FlagStatement, FlagCallback DEF Next

----------------------------------------------------------------------------
(* The theorems.                                                           *)

\* A new backend has no connection and owes nothing.
LEMMA InitIInv == Init => IInv
<1> SUFFICES ASSUME Init PROVE IInv
  OBVIOUS
<1> USE ConstAssumption, RangeEmpty DEF Init
<1>1. TypeOK
  <2>1. /\ 0 \in 0..MaxNest /\ 0 \in 0..MaxWrites
        /\ todo \in Seq(Conn) /\ connlist \in Seq(Conn) /\ callbacks \in Seq(Conn)
    OBVIOUS
  <2>2. level \in [Conn -> 0..MaxNest] /\ key \in [Conn -> Keys \cup {NoKey}]
    BY <2>1
  <2>3. /\ owedAt \in [Levels -> SUBSET Writes]
        /\ saved \in [Conn -> [Levels -> SUBSET Writes]]
    OBVIOUS
  <2> QED BY <2>1, <2>2, <2>3 DEF TypeOK, Phases
<1>2. PhaseInv /\ LevelInv /\ LinkInv
  BY DEF PhaseInv, LevelInv, LinkInv, InXact
<1>3. NestInv /\ SavedInv /\ DueInv /\ KeptInv
  BY DEF NestInv, SavedInv, DueInv, Covered, Due, On, InXact, KeptInv, CommittedIsDurable
<1>4. FlagInv
  BY DEF FlagInv, Due
<1> QED BY <1>1, <1>2, <1>3, <1>4 DEF IInv, WorkInv

\* The invariant is about the variables of the specification only.
LEMMA StutterWork == ASSUME IInv, UNCHANGED vars PROVE WorkInv'
<1> USE DEF vars, pgVars, cacheVars, spVars, workVars
<1>1. TypeOK'
  BY DEF IInv, WorkInv, TypeOK
<1>2. PhaseInv' /\ LevelInv' /\ LinkInv'
  BY DEF IInv, WorkInv, PhaseInv, LevelInv, LinkInv
<1>3. NestInv' /\ SavedInv' /\ DueInv' /\ KeptInv'
  BY DEF IInv, WorkInv, NestInv, SavedInv, DueInv, Covered, Due, KeptInv, CommittedIsDurable
<1> QED BY <1>1, <1>2, <1>3 DEF IInv, WorkInv

\* IInv is inductive: one case per action of the backend, the callbacks and
\* the connections.
THEOREM Inductive == IInv /\ [Next]_vars => IInv'
<1> SUFFICES ASSUME IInv, [Next]_vars PROVE WorkInv'
  BY FlagStep DEF IInv
<1>1. CASE Statement
  <2>1. CASE \E kind \in AllStmts, k \in Keys : db2GetSession(kind, k) \/ GetSessionError(kind, k)
    BY <2>1, db2GetSessionStep, GetSessionErrorStep
  <2>2. CASE Read \/ db2_diag \/ db2ExecForeignInsert \/ db2IterateDirectModify
    BY <2>2, ReadStep, db2_diagStep, ModifyStep
  <2>3. CASE db2ExecuteTruncate \/ StatementError
    BY <2>3, db2ExecuteTruncateStep, StatementErrorStep
  <2>4. CASE CloseRefused \/ db2CloseConnections
    BY <2>4, CloseRefusedStep, db2CloseConnectionsStep
  <2> QED BY <1>1, <2>1, <2>2, <2>3, <2>4 DEF Statement
<1>2. CASE Callback
  <2>1. CASE SubAbortCallback \/ SubAbortDone
    BY <2>1, SubAbortCallbackStep, SubAbortDoneStep
  <2>2. CASE PreCommitCallback \/ LocalCommitFails \/ LocalCommit
    BY <2>2, PreCommitCallbackStep, LocalCommitFailsStep, LocalCommitStep
  <2>3. CASE CommitCallback \/ AbortCallback \/ EndXact
    BY <2>3, CommitCallbackStep, AbortCallbackStep, EndXactStep
  <2> QED BY <1>2, <2>1, <2>2, <2>3 DEF Callback
<1>3. CASE Begin \/ SubBegin \/ SubCommit
  BY <1>3, BeginStep, SubBeginStep, SubCommitStep
<1>4. CASE StartUnwind \/ StartCommit \/ PrepareTransaction
  BY <1>4, StartUnwindStep, StartCommitStep, PrepareTransactionStep
<1>5. CASE db2Shutdown \/ \E c \in Conn : ConnectionLost(c)
  BY <1>5, db2ShutdownStep, ConnectionLostStep
<1>6. CASE Exited \/ UNCHANGED vars
  BY <1>6, StutterWork DEF Exited
<1> QED BY <1>1, <1>2, <1>3, <1>4, <1>5, <1>6 DEF Next

\* The inductive invariant holds in every state of every run.
THEOREM Invariance == Spec => []IInv
BY InitIInv, Inductive, PTL DEF Spec

\* The variables keep their types; xact_level in particular never leaves
\* 0 .. MaxNest, and a write never exceeds its bound.
THEOREM TypeCorrect == Spec => []TypeOK
<1>1. IInv => TypeOK
  BY DEF IInv, WorkInv
<1> QED BY <1>1, Invariance, PTL

\* A locally committed transaction is committed in DB2, on every connection
\* it has written to: for any number of servers, connections and levels, and
\* whichever calls fail or answers get lost.  db2_close_connections may come
\* between, and a connection may break, but not both where direct
\* modifications leave dml_in_transaction false: then a write does get lost.
THEOREM Durability ==
  ASSUME NoDeadlock, ~UnguardedClose
  PROVE  Spec => []CommittedIsDurable
<1>1. IInv => CommittedIsDurable
  BY DEF IInv, WorkInv, KeptInv
<1> QED BY <1>1, Invariance, PTL

\* At XACT_EVENT_COMMIT no connection has a transaction left to end, also
\* after a deadlock in DB2.
THEOREM CommitEventIsNoop == Spec => []PostCommitNoop
<1>1. IInv => PostCommitNoop
  BY DEF IInv, WorkInv, PostCommitNoop, PhaseInv, LevelInv
<1> QED BY <1>1, Invariance, PTL
=============================================================================
