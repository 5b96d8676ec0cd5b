---------------------------- MODULE StmtHandles ----------------------------
(***************************************************************************)
(* The statement handles of one cached connection of db2_fdw.              *)
(*                                                                         *)
(* DB2ConnEntry.handlelist is a forward list of HdlEntry blocks.  Each     *)
(* foreign scan or modification (a node of an executing plan) has its own  *)
(* DB2Session, whose stmtp points into the list while a statement is open. *)
(* A node ends in the order the executor chooses; after an ERROR it does   *)
(* not end at all and its handle waits for db2EndTransaction.              *)
(*                                                                         *)
(* Savepoints and descriptions take a handle and give it back within one   *)
(* call: it is the head of the list then, so the list is as before.  They  *)
(* show only when they fail, and their handle stays.                       *)
(***************************************************************************)
EXTENDS Naturals, FiniteSets

CONSTANTS Scan,     \* nodes that read, or modify by one remote statement
          Modify,   \* nodes that modify row by row
          Hdl,      \* HdlEntry blocks malloc can return
          Null,     \* the NULL pointer
          MaxNest   \* deepest transaction nesting level

ASSUME HandleAssumption ==
  /\ Scan \cap Modify = {}
  /\ Null \notin Hdl
  /\ IsFiniteSet(Hdl)
  /\ MaxNest \in Nat \ {0}

VARIABLES
  phase,       \* idle, run, error, ending (in db2EndTransaction)
  is_commit,   \* its argument
  nest,        \* PostgreSQL nesting level
  xact_level,  \* of this connection
  began,       \* level the node belongs to, 0: it is not executing
  stmtp,       \* session->stmtp of the node
  handlelist,  \* head of the list
  next,        \* ->next of each block
  malloced,    \* blocks in use
  secondFreed, \* some call freed the second entry of the list
  memory       \* ok; null: NULL dereferenced; freed: a freed block used, or a
               \* list that freed blocks have tied into a circle

xactVars == <<phase, is_commit, nest, xact_level>>
listVars == <<handlelist, next, malloced, secondFreed, memory>>
vars     == <<xactVars, began, stmtp, listVars>>

Node == Scan \cup Modify
Ptr  == Hdl \cup {Null}

TypeOK ==
  /\ phase \in {"idle", "run", "error", "ending"}
  /\ is_commit \in BOOLEAN
  /\ nest \in 0..MaxNest /\ xact_level \in 0..MaxNest
  /\ began \in [Node -> 0..MaxNest]
  /\ stmtp \in [Node -> Ptr]
  /\ handlelist \in Ptr /\ next \in [Hdl -> Ptr]
  /\ malloced \subseteq Hdl
  /\ secondFreed \in BOOLEAN
  /\ memory \in {"ok", "null", "freed"}

Init ==
  /\ phase = "idle" /\ is_commit = FALSE /\ nest = 0 /\ xact_level = 0
  /\ began = [s \in Node |-> 0] /\ stmtp = [s \in Node |-> Null]
  /\ handlelist = Null /\ next = [h \in Hdl |-> Null]
  /\ malloced = {} /\ secondFreed = FALSE /\ memory = "ok"

----------------------------------------------------------------------------
(* The list.                                                               *)

\* step[i] is the pointer after i steps along ->next.
Steps ==
  LET step[i \in 0..Cardinality(Hdl)] ==
        IF i = 0 THEN handlelist
        ELSE IF step[i - 1] = Null THEN Null ELSE next[step[i - 1]]
  IN  step

Listed == {Steps[i] : i \in DOMAIN Steps} \ {Null}

\* Blocks that findhdlEntry looks at on its way to h.
Visited(h) == {Steps[i] : i \in {j \in DOMAIN Steps : \A k \in 0..(j - 1) : Steps[k] # h}} \ {Null}

\* findhdlEntry: the predecessor of h; the head itself if h is the head;
\* the last entry if h is not listed.
findhdlEntry(h) ==
  IF handlelist \in {h, Null} THEN handlelist
  ELSE CHOOSE p \in Visited(h) \ {h} : next[p] = (IF h \in Listed THEN h ELSE Null)

\* Mutant: the new entry becomes the list.
AllocForgetsNext(h) ==
  /\ h \notin malloced
  /\ malloced' = malloced \cup {h}
  /\ next' = [next EXCEPT ![h] = Null]
  /\ handlelist' = h
  /\ UNCHANGED <<secondFreed, memory>>

\* db2AllocStmtHdl: a new entry in front of the list.
db2AllocStmtHdl(h) ==
  /\ h \notin malloced
  /\ malloced' = malloced \cup {h}
  /\ next' = [next EXCEPT ![h] = handlelist]
  /\ handlelist' = h
  /\ UNCHANGED <<secondFreed, memory>>

\* Mutant: the entry is freed and stays in the list.
FreeWithoutUnlink(h) ==
  /\ memory' = IF h \in malloced THEN "ok" ELSE "freed"
  /\ malloced' = malloced \ {h}
  /\ UNCHANGED <<handlelist, next, secondFreed>>

\* db2FreeStmtHdl.  If the predecessor is the head, the list becomes what
\* follows h: right for the head, which is its own predecessor here.  What
\* the code does after using freed or NULL memory is not followed.
db2FreeStmtHdl(h) ==
  LET prev == findhdlEntry(h)
      bad  == \/ h \notin malloced
              \/ \E v \in Visited(h) : v \notin malloced
              \/ h \notin Listed /\ Steps[Cardinality(Hdl)] # Null
  IN  IF bad \/ prev = Null
        THEN /\ memory' = IF bad THEN "freed" ELSE "null"
             /\ UNCHANGED <<handlelist, next, malloced, secondFreed>>
        ELSE /\ IF handlelist = prev
                  THEN handlelist' = next[h] /\ next' = next
                  ELSE next' = [next EXCEPT ![prev] = next[h]] /\ handlelist' = handlelist
             /\ malloced' = malloced \ {h}
             /\ secondFreed' = (secondFreed \/ (handlelist # Null /\ next[handlelist] = h))
             /\ memory' = memory

\* db2CloseStatement: session->stmtp, if there is one.
db2CloseStatement(s) ==
  /\ IF stmtp[s] # Null THEN db2FreeStmtHdl(stmtp[s]) ELSE UNCHANGED listVars
  /\ stmtp' = [stmtp EXCEPT ![s] = Null]

----------------------------------------------------------------------------
(* Nodes of an executing plan.                                             *)

Executing == phase = "run" /\ memory = "ok"

\* Mutant: one savepoint too many.
BeginOneSavepointMore(s) ==
  /\ Executing /\ began[s] = 0
  /\ began' = [began EXCEPT ![s] = nest]
  /\ xact_level' = IF xact_level < nest THEN nest + 1 ELSE xact_level
  /\ UNCHANGED <<phase, is_commit, nest, stmtp, listVars>>

\* db2BeginForeignScan: a session, with the savepoints it needs.
db2BeginForeignScan(s) ==
  /\ Executing /\ began[s] = 0
  /\ began' = [began EXCEPT ![s] = nest]
  /\ xact_level' = IF xact_level < nest THEN nest ELSE xact_level
  /\ UNCHANGED <<phase, is_commit, nest, stmtp, listVars>>

\* A call that takes a handle for itself fails: a savepoint, db2Describe, the
\* catalog queries of IMPORT FOREIGN SCHEMA.
TemporaryHandleFails ==
  /\ Executing
  /\ \E h \in Hdl : db2AllocStmtHdl(h)
  /\ xact_level' \in {n \in 1..nest : n >= xact_level}
  /\ phase' = "error"
  /\ UNCHANGED <<is_commit, nest, began, stmtp>>

\* db2PrepareQuery, and the execution or fetch that may fail after it.
db2PrepareQuery(s) ==
  /\ stmtp[s] = Null
  /\ \E h \in Hdl : db2AllocStmtHdl(h) /\ stmtp' = [stmtp EXCEPT ![s] = h]
  /\ phase' \in {"run", "error"}

\* db2BeginForeignModifyCommon: a session and a prepared statement.
db2BeginForeignModifyCommon(s) ==
  /\ Executing /\ began[s] = 0
  /\ began' = [began EXCEPT ![s] = nest]
  /\ xact_level' = IF xact_level < nest THEN nest ELSE xact_level
  /\ db2PrepareQuery(s)
  /\ UNCHANGED <<is_commit, nest>>

\* db2ExecForeignInsert, Update, Delete: the prepared statement is executed
\* again and stays open; it may fail.
ExecForeignModifyFails(s) ==
  /\ Executing /\ began[s] > 0
  /\ phase' = "error"
  /\ UNCHANGED <<is_commit, nest, xact_level, began, stmtp, listVars>>

\* db2IterateForeignScan: the query is sent if none is open; the statement
\* is closed at its end.
db2IterateForeignScan(s) ==
  /\ Executing /\ began[s] > 0
  /\ \/ db2PrepareQuery(s)
     \/ stmtp[s] # Null /\ db2CloseStatement(s) /\ phase' = phase
     \/ stmtp[s] # Null /\ phase' = "error" /\ UNCHANGED <<stmtp, listVars>>
  /\ UNCHANGED <<is_commit, nest, xact_level, began>>

db2ReScanForeignScan(s) ==
  /\ Executing /\ began[s] > 0
  /\ db2CloseStatement(s)
  /\ UNCHANGED <<xactVars, began>>

\* db2EndForeignScan, db2EndForeignModifyCommon, db2EndDirectModify.
db2EndForeignScan(s) ==
  /\ Executing /\ began[s] > 0
  /\ db2CloseStatement(s)
  /\ began' = [began EXCEPT ![s] = 0]
  /\ UNCHANGED xactVars

----------------------------------------------------------------------------
(* Transactions.                                                           *)

Begin ==
  /\ phase = "idle" /\ memory = "ok"
  /\ phase' = "run" /\ nest' = 1
  /\ UNCHANGED <<is_commit, xact_level, began, stmtp, listVars>>

SubBegin ==
  /\ Executing /\ nest < MaxNest
  /\ nest' = nest + 1
  /\ UNCHANGED <<phase, is_commit, xact_level, began, stmtp, listVars>>

\* Open cursors of the subtransaction go to its parent.
SubCommit ==
  /\ Executing /\ nest > 1
  /\ nest' = nest - 1
  /\ xact_level' = IF xact_level >= nest THEN nest - 1 ELSE xact_level
  /\ began' = [s \in Node |-> IF began[s] = nest THEN nest - 1 ELSE began[s]]
  /\ UNCHANGED <<phase, is_commit, stmtp, listVars>>

\* The nodes of an aborted level are gone; nothing has closed them.
Abandon ==
  /\ began' = [s \in Node |-> IF began[s] >= nest THEN 0 ELSE began[s]]
  /\ stmtp' = [s \in Node |-> IF began[s] >= nest THEN Null ELSE stmtp[s]]

\* db2EndSubtransaction; its ROLLBACK TO SAVEPOINT may fail and leave its
\* handle, and PostgreSQL aborts the level again.
db2EndSubtransaction ==
  /\ phase \in {"run", "error"} /\ memory = "ok" /\ nest > 1
  /\ Abandon
  /\ \/ /\ phase' = "run" /\ nest' = nest - 1
        /\ UNCHANGED listVars
     \/ /\ xact_level >= nest
        /\ \E h \in Hdl : db2AllocStmtHdl(h)
        /\ phase' = "error" /\ nest' = nest
  /\ xact_level' = IF xact_level >= nest THEN nest - 1 ELSE xact_level
  /\ UNCHANGED is_commit

\* PostgreSQL ends every node before it commits; an abort ends none.
StartCommit ==
  /\ Executing /\ nest = 1 /\ \A s \in Node : began[s] = 0
  /\ phase' = "ending" /\ is_commit' = TRUE
  /\ UNCHANGED <<nest, xact_level, began, stmtp, listVars>>

StartAbort ==
  /\ phase \in {"run", "error"} /\ memory = "ok" /\ nest = 1
  /\ phase' = "ending" /\ is_commit' = FALSE
  /\ Abandon
  /\ UNCHANGED <<nest, xact_level, listVars>>

\* Mutant: the handles are not released.
EndWithoutRelease ==
  /\ phase = "ending" /\ memory = "ok"
  /\ phase' = "idle" /\ nest' = 0 /\ xact_level' = 0
  /\ UNCHANGED <<is_commit, began, stmtp, listVars>>

\* Mutant: the handle is freed in DB2 and stays in the list.
ReleaseKeepsEntry ==
  /\ phase = "ending" /\ memory = "ok" /\ xact_level > 0 /\ handlelist # Null
  /\ UNCHANGED vars

\* db2EndTransaction: releases the handles one by one, then ends the unit of
\* work; with xact_level 0 it does nothing.
ReleaseHandle ==
  /\ phase = "ending" /\ memory = "ok" /\ xact_level > 0 /\ handlelist # Null
  /\ db2FreeStmtHdl(handlelist)
  /\ UNCHANGED <<xactVars, began, stmtp>>

db2EndTransaction ==
  /\ phase = "ending" /\ memory = "ok" /\ (xact_level > 0 => handlelist = Null)
  /\ \/ phase' = "idle" /\ nest' = 0 /\ xact_level' = 0
     \/ /\ is_commit /\ xact_level > 0
        /\ phase' = "error" /\ UNCHANGED <<nest, xact_level>>
  /\ UNCHANGED <<is_commit, began, stmtp, listVars>>

\* Nothing is said about a backend that has used freed or NULL memory.
Undefined == memory # "ok" /\ UNCHANGED vars

Next ==
  \/ \E s \in Scan :
       \/ db2BeginForeignScan(s) \/ db2IterateForeignScan(s)
       \/ db2ReScanForeignScan(s) \/ db2EndForeignScan(s)
  \/ \E s \in Modify :
       \/ db2BeginForeignModifyCommon(s) \/ ExecForeignModifyFails(s)
       \/ db2EndForeignScan(s)
  \/ TemporaryHandleFails
  \/ Begin \/ SubBegin \/ SubCommit \/ db2EndSubtransaction
  \/ StartCommit \/ StartAbort \/ ReleaseHandle \/ db2EndTransaction
  \/ Undefined

Spec     == Init /\ [][Next]_vars
FairSpec == Spec /\ WF_vars(ReleaseHandle \/ db2EndTransaction)

----------------------------------------------------------------------------
(* Properties.                                                             *)

\* Until some call frees the second entry of the list, the list holds exactly
\* the handles in use: no handle is lost to db2EndTransaction, none is used
\* or freed twice, whatever order the nodes end in.
ListExact == ~secondFreed => memory = "ok" /\ Listed = malloced

\* Open statements are listed and have a handle of their own.
OpenIsListed ==
  \A s \in Node : stmtp[s] # Null =>
    /\ stmtp[s] \in Listed
    /\ \A t \in Node \ {s} : stmtp[t] # stmtp[s]

\* With the same proviso: an open statement can be cancelled, fetched from
\* and freed.
OpenIsListedUnlessSecondFreed == ~secondFreed => OpenIsListed

\* "Release all handles of this connection": no handle survives the
\* transaction, those of failed statements and aborted subtransactions
\* included.
NoHandleLeft == phase = "idle" /\ ~secondFreed => malloced = {}

\* The release loop of db2EndTransaction ends.
ReleaseEnds == phase = "ending" ~> phase # "ending" \/ memory # "ok"
=============================================================================
