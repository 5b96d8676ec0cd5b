-------------------------------- MODULE Lob --------------------------------
(***************************************************************************)
(* db2GetLob: a LOB is read in chunks, with a buffer of one byte more than *)
(* a chunk.  DB2 ends a text in the buffer with a zero byte and uses all   *)
(* of it for binary data.  A byte of the LOB is its position.              *)
(***************************************************************************)
EXTENDS Integers, Sequences, FiniteSets, FiniteSetsExt

CONSTANTS Chunk,     \* LOB_CHUNK_SIZE
          MaxLength  \* bound on the bytes of a LOB

ASSUME LobAssumption == Chunk \in Nat \ {0} /\ MaxLength \in Nat

VARIABLES
  lobCall,  \* idle, read, done, error
  lob,      \* the column's value: [text, length], length -1 for NULL
  at,       \* bytes DB2 has delivered
  value     \* bytes in *value, none if it is NULL

lobVars == <<lobCall, lob, at, value>>

LobInit == lobCall = "idle" /\ lob = [text |-> TRUE, length |-> 0] /\ at = 0 /\ value = <<>>

\* db2CheckErr: what the caller sees of a return code.
db2CheckErr(rc) == IF rc = "SUCCESS_WITH_INFO" THEN "SUCCESS" ELSE rc

SQL_NO_TOTAL == -4

Left == lob.length - at
Room == IF lob.text THEN Chunk ELSE Chunk + 1

\* SQLGetData: the bytes it puts into the buffer, its return code and what it
\* tells of the length: all that was left, or that it does not know.
Delivered == Max({0, Min({Room, Left})})
RawRc == IF Left > Room THEN "SUCCESS_WITH_INFO" ELSE "SUCCESS"
Indicators == IF RawRc = "SUCCESS" THEN {Left} ELSE {Left, SQL_NO_TOTAL}

\* Bytes that are copied.
Extend(ind) == IF ind = SQL_NO_TOTAL THEN Chunk ELSE Max({0, Min({ind, Chunk})})

\* Mutant: the loop looks at the code db2CheckErr gave.
ContinuesIfChecked(rawRc) == db2CheckErr(rawRc) = "SUCCESS_WITH_INFO"

\* The loop looks at the code SQLGetData gave.
Continues(rawRc) == rawRc = "SUCCESS_WITH_INFO"

db2GetLob ==
  /\ lobCall = "idle"
  /\ \E text \in BOOLEAN, length \in -1 .. MaxLength : lob' = [text |-> text, length |-> length]
  /\ lobCall' = "read" /\ at' = 0 /\ value' = <<>>

GetChunk ==
  /\ lobCall = "read"
  /\ \E ind \in Indicators :
       value' = value \o [i \in 1 .. Extend(ind) |-> at + i]
  /\ at' = at + Delivered
  /\ lobCall' = IF Continues(RawRc) THEN "read" ELSE "done"
  /\ UNCHANGED lob

ChunkFails == lobCall = "read" /\ lobCall' = "error" /\ UNCHANGED <<lob, at, value>>

LobReturns == lobCall \in {"done", "error"} /\ lobCall' = "idle" /\ lob' = [text |-> TRUE, length |-> 0] /\ at' = 0 /\ value' = <<>>

LobNext == db2GetLob \/ GetChunk \/ ChunkFails \/ LobReturns

LobSpec == LobInit /\ [][LobNext]_lobVars

\* Text arrives whole and in order however many chunks it takes and whether or
\* not DB2 knows how long it is, and so does binary data of up to one chunk; of
\* longer data a byte is lost at each end of a chunk.
LobWhole ==
  lobCall = "done" /\ (lob.text \/ lob.length <= Chunk) => value = [i \in 1 .. Max({0, lob.length}) |-> i]
=============================================================================
