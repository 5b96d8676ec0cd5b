----------------------------- MODULE DB2XactInv -----------------------------
(***************************************************************************)
(* The inductive invariant behind CommittedIsDurable.  It holds for any    *)
(* number of servers and whatever fails; what it says of the writes needs  *)
(* that DB2 does not roll back the whole unit of work under a running      *)
(* transaction, and that no lost connection is closed unnoticed.           *)
(***************************************************************************)
EXTENDS DB2Xact

\* No statement ends with SQLCODE -911, and no commit before TRUNCATE fails.
NoDeadlock == "deadlock" \notin Faults

\* Every modification goes through the row-wise executor calls.
RowWise == "direct" \notin Ops

\* A connection can be lost in a transaction that db2_close_connections does
\* not know to modify DB2 data: its entry and its callbacks may go unnoticed.
UnguardedClose == ~RowWise /\ "commlost" \in Faults /\ "close" \in Ops

InXact == {"run", "error", "subabort", "precommit", "abort", "commit"}

\* Which levels PostgreSQL can be at in which phase, and when a statement
\* or a callback is under way.
PhaseInv ==
  /\ phase \in InXact => nest >= 1
  /\ phase \in {"precommit", "abort", "commit"} => nest = 1
  /\ phase = "subabort" => nest > 1
  /\ stmt # <<>> => phase = "run" /\ level[stmt[2]] >= 1 /\ stmt[1] \in Ops
  /\ stmt # <<>> => (stmt[1] \in Writers => nw < MaxWrites)
  /\ phase \notin {"subabort", "precommit", "abort", "commit"} => todo = <<>>
  /\ RangeOf(todo) \subseteq RangeOf(callbacks)

\* xact_level never exceeds the nesting level; an entry whose callback for
\* the current event has run has left the level the event ends.
LevelInv ==
  \A c \in RangeOf(callbacks) :
    /\ level[c] <= nest
    /\ phase = "subabort" => c \in RangeOf(todo) \/ level[c] < nest
    /\ phase \in {"precommit", "abort"} => c \in RangeOf(todo) \/ level[c] = 0
    /\ phase \in {"idle", "commit", "exit"} => level[c] = 0

\* What DB2 holds for a connection, by the state of the connection.
LinkInv ==
  \A c \in Conn :
    /\ link[c] = "none" => level[c] = 0 /\ autocommit[c]
    /\ link[c] # "open" /\ phase # "exit" => pending[c] = {} /\ sp[c] = {}
    /\ c \in RangeOf(connlist) => link[c] \in {"open", "broken"}
    /\ link[c] = "open" /\ ~autocommit[c] => c \in RangeOf(callbacks)
    /\ autocommit[c] => pending[c] = {} /\ sp[c] = {}
    /\ link[c] = "open" /\ ~uow[c] => pending[c] = {} /\ sp[c] = {}

\* The levels' starting points are nested.
NestInv ==
  phase \in InXact =>
    \A n \in 2..nest :
      /\ owedAt[n] \subseteq owed \/ phase = "commit"
      /\ \A m \in n..nest : owedAt[n] \subseteq owedAt[m]

\* A savepoint in use holds what was owed when its level started.
SavedInv ==
  NoDeadlock /\ phase \in {"run", "error", "subabort"} =>
    \A c \in Conn : \A n \in 2..nest :
      n <= level[c] /\ n \in sp[c] =>
        On(c, owedAt[n]) \subseteq durable \cup saved[c][n]

\* The writes that must not get lost: those of the running transaction, or
\* of what is left of it once the current level is undone.
Due == IF phase \in {"run", "precommit"} THEN owed
       ELSE IF phase \in {"error", "subabort"} /\ nest > 1 THEN owedAt[nest]
       ELSE {}

\* DB2 has committed a write of c, or holds it on a connection that the commit
\* will reach, or that connection is lost: then the commit will fail on it,
\* unless it could be closed meanwhile.
Covered(c, w) ==
  \/ w \in durable
  \/ /\ c \in RangeOf(callbacks) /\ level[c] >= 1
     /\ w \in pending[c] \/ (link[c] = "broken" /\ "commlost" \in Faults)
  \/ UnguardedClose /\ link[c] \in {"broken", "closed"}

DueInv == NoDeadlock => \A c \in Conn : \A w \in On(c, Due) : Covered(c, w)

\* The flag that makes db2_close_connections refuse is set as long as a write
\* could be lost, up to the commit.
FlagInv == RowWise /\ phase # "precommit" => dml \/ Due \subseteq durable

\* What PostgreSQL has committed stays committed in DB2.
KeptInv == NoDeadlock /\ ~UnguardedClose => CommittedIsDurable

\* Types, phases, levels, links, nested starting points, savepoint contents,
\* and no write on its way to a commit that would get lost on the way.
WorkInv ==
  /\ TypeOK /\ PhaseInv /\ LevelInv /\ LinkInv
  /\ NestInv /\ SavedInv /\ DueInv
  /\ KeptInv

\* The inductive invariant: that, and the flag that protects it from a close.
IInv == WorkInv /\ FlagInv
=============================================================================
