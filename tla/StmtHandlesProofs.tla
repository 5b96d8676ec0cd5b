------------------------- MODULE StmtHandlesProofs -------------------------
(***************************************************************************)
(* Proofs about the statement handles of a connection, for any number of   *)
(* plan nodes, blocks and nesting levels.  The argument is about the       *)
(* sequence of blocks that the list stands for.  What `Steps' computes     *)
(* along ->next is that sequence; since the provers have no induction      *)
(* over data, this is shown by way of a smallest counterexample.           *)
(***************************************************************************)
EXTENDS StmtHandles, WellFoundedInduction, FiniteSetTheorems, SequenceTheorems, TLAPS

\* s is the list, without a repetition, and its blocks are those in use.
Chain(s) ==
  /\ s \in Seq(Hdl)
  /\ \A i, j \in 1 .. Len(s) : s[i] = s[j] => i = j
  /\ handlelist = IF Len(s) = 0 THEN Null ELSE s[1]
  /\ \A i \in 1 .. Len(s) : next[s[i]] = IF i < Len(s) THEN s[i + 1] ELSE Null
  /\ malloced = {s[i] : i \in 1 .. Len(s)}

\* Until a call frees the second entry: the list is one, open statements have
\* a block of their own, and there is none before the connection has a level.
ListInv ==
  ~secondFreed =>
    /\ memory = "ok"
    /\ \E s \in Seq(Hdl) : Chain(s)
    /\ \A n \in Node : stmtp[n] # Null =>
         /\ stmtp[n] \in malloced
         /\ \A m \in Node \ {n} : stmtp[m] # stmtp[n]
    /\ xact_level = 0 => malloced = {}

\* Which nodes can be executing, and at which level.
NodeInv ==
  /\ phase \in {"run", "error", "ending"} => nest >= 1
  /\ phase = "idle" => xact_level = 0
  /\ phase \in {"idle", "ending"} => \A n \in Node : began[n] = 0
  /\ \A n \in Node : /\ began[n] = 0 => stmtp[n] = Null
                     /\ began[n] > 0 => xact_level >= 1

HInv == TypeOK /\ NodeInv /\ ListInv

----------------------------------------------------------------------------
(* The walk along the list.                                                *)

\* Natural numbers have a smallest one.
LEMMA Smallest ==
  ASSUME NEW T \in SUBSET Nat, T # {}
  PROVE  \E m \in T : \A k \in T : m <= k
<1> DEFINE R == OpToRel(<, Nat)
<1>1. IsWellFoundedOn(R, Nat)
  BY NatLessThanWellFounded
<1>2. \A x, y \in Nat : x < y => <<x, y>> \in R
  BY DEF OpToRel
<1> HIDE DEF R
<1>3. PICK m \in T : \A y \in T : ~(<<y, m>> \in R)
  BY <1>1, WFMin
<1>4. ASSUME NEW k \in T PROVE m <= k
  <2>1. k \in Nat /\ m \in Nat
    OBVIOUS
  <2>2. ~(k < m)
    BY <1>2, <1>3, <2>1
  <2> QED BY <2>1, <2>2
<1> QED BY <1>4

\* A function that satisfies the equation of Steps shows that Steps does.
LEMMA StepsDef ==
  ASSUME NEW N, N = Cardinality(Hdl),
         NEW g, g = [i \in 0 .. N |->
                      IF i = 0 THEN handlelist
                      ELSE IF g[i - 1] = Null THEN Null ELSE next[g[i - 1]]]
  PROVE  Steps = [i \in 0 .. N |->
                   IF i = 0 THEN handlelist
                   ELSE IF Steps[i - 1] = Null THEN Null ELSE next[Steps[i - 1]]]
BY DEF Steps

\* There are no more blocks in the list than there are blocks.
LEMMA ChainLength ==
  ASSUME NEW s, Chain(s)
  PROVE  Len(s) \in Nat /\ Cardinality(Hdl) \in Nat /\ Len(s) <= Cardinality(Hdl)
<1>1. s \in Seq(Hdl) /\ Len(s) \in Nat /\ IsFiniteSet(Hdl)
  BY HandleAssumption DEF Chain
<1>2. s \in Injection(1 .. Len(s), Hdl)
  <2>1. s \in [1 .. Len(s) -> Hdl]
    BY <1>1
  <2> QED BY <2>1 DEF Chain, Injection, IsInjective
<1>3. Cardinality(1 .. Len(s)) <= Cardinality(Hdl)
  BY <1>1, <1>2, FS_Injection
<1>4. Cardinality(1 .. Len(s)) = Len(s)
  <2>1. PICK n \in Nat : n = Len(s)
    BY <1>1
  <2>2. 1 \in Int /\ n \in Int
    OBVIOUS
  <2>3. Cardinality(1 .. n) = IF 1 > n THEN 0 ELSE n - 1 + 1
    BY ONLY <2>2, FS_Interval
  <2> QED BY <2>1, <2>3
<1> QED BY <1>1, <1>3, <1>4, FS_CardinalityType

\* Steps goes through the list, and stays at its end.
LEMMA ChainSteps ==
  ASSUME NEW s, Chain(s)
  PROVE  Steps = [i \in 0 .. Cardinality(Hdl) |-> IF i < Len(s) THEN s[i + 1] ELSE Null]
<1>0. PICK N \in Nat : N = Cardinality(Hdl)
  BY ChainLength
<1> DEFINE g == [i \in 0 .. N |-> IF i < Len(s) THEN s[i + 1] ELSE Null]
<1>1. Len(s) \in Nat /\ N \in Nat /\ s \in Seq(Hdl) /\ Null \notin Hdl
  BY ChainLength, HandleAssumption DEF Chain
<1>2. \A i \in 1 .. Len(s) : s[i] \in Hdl /\ s[i] # Null
  BY <1>1
<1>3. ASSUME NEW i \in 0 .. N
      PROVE  g[i] = IF i = 0 THEN handlelist
                    ELSE IF g[i - 1] = Null THEN Null ELSE next[g[i - 1]]
  <2>1. CASE i = 0
    BY <1>1, <2>1 DEF Chain
  <2>2. CASE i > 0 /\ i - 1 < Len(s)
    <3>1. i - 1 \in 0 .. N /\ i \in 1 .. Len(s)
      BY <1>1, <2>2
    <3>2. g[i - 1] = s[i] /\ s[i] # Null
      BY <1>1, <1>2, <2>2, <3>1
    <3>3. next[s[i]] = IF i < Len(s) THEN s[i + 1] ELSE Null
      BY <3>1 DEF Chain
    <3> QED BY <2>2, <3>2, <3>3
  <2>3. CASE i > 0 /\ ~(i - 1 < Len(s))
    <3>1. i - 1 \in 0 .. N /\ ~(i < Len(s))
      BY <1>1, <2>3
    <3>2. g[i - 1] = Null /\ g[i] = Null
      BY <2>3, <3>1
    <3> QED BY <2>3, <3>2
  <2> QED BY <2>1, <2>2, <2>3
<1>4. g = [i \in 0 .. N |-> g[i]]
  OBVIOUS
<1> HIDE DEF g
<1>5. g = [i \in 0 .. N |-> IF i = 0 THEN handlelist
                            ELSE IF g[i - 1] = Null THEN Null ELSE next[g[i - 1]]]
  BY <1>3, <1>4
<1>6. Steps = [i \in 0 .. N |-> IF i = 0 THEN handlelist
                                ELSE IF Steps[i - 1] = Null THEN Null ELSE next[Steps[i - 1]]]
  BY <1>0, <1>5, StepsDef
<1>7. /\ \A i \in 0 .. N : Steps[i] = IF i = 0 THEN handlelist
                       ELSE IF Steps[i - 1] = Null THEN Null ELSE next[Steps[i - 1]]
      /\ \A i \in 0 .. N : g[i] = IF i = 0 THEN handlelist
                        ELSE IF g[i - 1] = Null THEN Null ELSE next[g[i - 1]]
      /\ Steps = [i \in 0 .. N |-> Steps[i]]
  BY <1>5, <1>6
<1> DEFINE T == {i \in 0 .. N : Steps[i] # g[i]}
<1>8. T = {}
  <2> SUFFICES ASSUME T # {} PROVE FALSE
    OBVIOUS
  <2>1. T \in SUBSET Nat
    OBVIOUS
  <2>2. PICK m \in T : \A k \in T : m <= k
    BY <2>1, Smallest
  <2>3. m \in 0 .. N /\ Steps[m] # g[m] /\ m \in Nat
    OBVIOUS
  <2>4. m # 0
    BY <1>7, <2>3
  <2>5. m - 1 \in 0 .. N /\ m - 1 \notin T
    <3>1. ~(m <= m - 1)
      BY <2>3
    <3> QED BY <1>1, <2>2, <2>3, <2>4, <3>1
  <2>6. Steps[m - 1] = g[m - 1]
    BY <2>5
  <2> QED BY <1>7, <2>3, <2>4, <2>6
<1>9. \A i \in 0 .. N : Steps[i] = g[i]
  BY <1>8
<1>10. Steps = [i \in 0 .. N |-> g[i]]
  BY <1>7, <1>9
<1> QED BY <1>0, <1>10 DEF g

\* What is listed is in use.
LEMMA ChainListed ==
  ASSUME NEW s, Chain(s)
  PROVE  Listed = malloced
<1>1. /\ Len(s) \in Nat /\ Cardinality(Hdl) \in Nat /\ Len(s) <= Cardinality(Hdl)
      /\ s \in Seq(Hdl) /\ Null \notin Hdl
  BY ChainLength, HandleAssumption DEF Chain
<1>2. /\ DOMAIN Steps = 0 .. Cardinality(Hdl)
      /\ \A i \in 0 .. Cardinality(Hdl) : Steps[i] = IF i < Len(s) THEN s[i + 1] ELSE Null
  BY ChainSteps
<1>3. malloced = {s[i] : i \in 1 .. Len(s)}
  BY DEF Chain
<1>4. ASSUME NEW p \in Listed PROVE p \in malloced
  <2>1. PICK i \in 0 .. Cardinality(Hdl) : p = Steps[i] /\ p # Null
    BY <1>2 DEF Listed
  <2>2. i < Len(s) /\ i + 1 \in 1 .. Len(s) /\ p = s[i + 1]
    BY <1>1, <1>2, <2>1
  <2> QED BY <1>3, <2>2
<1>5. ASSUME NEW p \in malloced PROVE p \in Listed
  <2>1. PICK i \in 1 .. Len(s) : p = s[i]
    BY <1>3
  <2>2. i - 1 \in 0 .. Cardinality(Hdl) /\ i - 1 < Len(s) /\ (i - 1) + 1 = i /\ s[i] \in Hdl
    BY <1>1
  <2>3. Steps[i - 1] = p /\ p # Null
    BY <1>1, <1>2, <2>1, <2>2
  <2> QED BY <1>2, <2>2, <2>3 DEF Listed
<1> QED BY <1>4, <1>5

\* The search for a block looks at blocks in use only, and finds the one in
\* front of it, or the block itself if it is the first.
LEMMA ChainFind ==
  ASSUME NEW s, Chain(s), NEW k \in 1 .. Len(s)
  PROVE  /\ Visited(s[k]) \subseteq malloced
         /\ findhdlEntry(s[k]) = IF k = 1 THEN s[1] ELSE s[k - 1]
<1> DEFINE h == s[k]
<1>1. /\ Len(s) \in Nat /\ Cardinality(Hdl) \in Nat /\ Len(s) <= Cardinality(Hdl)
      /\ s \in Seq(Hdl) /\ Null \notin Hdl /\ k \in Nat /\ k >= 1 /\ k <= Len(s)
      /\ \A i \in 1 .. Len(s) : s[i] \in Hdl
  BY ChainLength, HandleAssumption DEF Chain
<1>2. /\ DOMAIN Steps = 0 .. Cardinality(Hdl)
      /\ \A i \in 0 .. Cardinality(Hdl) : Steps[i] = IF i < Len(s) THEN s[i + 1] ELSE Null
  BY ChainSteps
<1>3. /\ malloced = {s[i] : i \in 1 .. Len(s)} /\ handlelist = s[1]
      /\ \A i, j \in 1 .. Len(s) : s[i] = s[j] => i = j
      /\ \A i \in 1 .. Len(s) : next[s[i]] = IF i < Len(s) THEN s[i + 1] ELSE Null
  <2>1. Len(s) # 0
    BY <1>1
  <2> QED BY <2>1 DEF Chain
<1>4. Visited(h) \subseteq Listed
  BY DEF Visited, Listed
<1>5. Visited(h) \subseteq malloced /\ h \in Listed
  <2>1. Listed = malloced
    BY ChainListed
  <2>2. h \in malloced
    BY <1>3
  <2> QED BY <1>4, <2>1, <2>2
<1>6. CASE k = 1
  BY <1>3, <1>5, <1>6 DEF findhdlEntry
<1>7. CASE k # 1
  <2> DEFINE p == s[k - 1]
  <2>1. k - 1 \in 1 .. Len(s) /\ k - 1 < Len(s) /\ (k - 1) + 1 = k /\ 1 \in 1 .. Len(s)
    BY <1>1, <1>7
  <2>2. h \in Hdl /\ p \in Hdl /\ p # h /\ next[p] = h /\ handlelist # h /\ handlelist # Null
    BY <1>1, <1>3, <1>7, <2>1
  <2>3. p \in Visited(h)
    <3>1. k - 2 \in 0 .. Cardinality(Hdl) /\ k - 2 < Len(s) /\ (k - 2) + 1 = k - 1
      BY <1>1, <1>7
    <3>2. Steps[k - 2] = p
      BY <1>2, <3>1
    <3>3. ASSUME NEW i \in 0 .. ((k - 2) - 1) PROVE Steps[i] # h
      <4>1. i \in 0 .. Cardinality(Hdl) /\ i < Len(s) /\ i + 1 \in 1 .. Len(s) /\ i + 1 # k
        BY <1>1, <3>3
      <4>2. Steps[i] = s[i + 1]
        BY <1>2, <4>1
      <4> QED BY <1>1, <1>3, <4>1, <4>2
    <3>4. p # Null
      BY <1>1, <2>2
    <3> QED BY <1>2, <3>1, <3>2, <3>3, <3>4 DEF Visited
  <2>4. ASSUME NEW q \in Visited(h) \ {h}, next[q] = h PROVE q = p
    <3>1. PICK i \in 1 .. Len(s) : q = s[i]
      BY <1>3, <1>5
    <3>2. i < Len(s) /\ s[i + 1] = h /\ i + 1 \in 1 .. Len(s)
      BY <1>1, <1>3, <2>2, <2>4, <3>1
    <3>3. i + 1 = k
      BY <1>1, <1>3, <3>2
    <3>4. i = k - 1
      BY <1>1, <3>3
    <3> QED BY <3>1, <3>4
  <2> HIDE DEF h, p
  <2>5. (CHOOSE q \in Visited(h) \ {h} : next[q] = h) = p
    BY <2>2, <2>3, <2>4
  <2>6. findhdlEntry(h) = p
    BY <1>5, <2>2, <2>5 DEF findhdlEntry
  <2> QED BY <1>5, <1>7, <2>6 DEF h, p
<1> QED BY <1>5, <1>6, <1>7

----------------------------------------------------------------------------
(* The operations on the list.                                             *)

\* A new block becomes the first.
LEMMA AllocChain ==
  ASSUME TypeOK, NEW s, Chain(s), NEW h \in Hdl, db2AllocStmtHdl(h)
  PROVE  \E t \in Seq(Hdl) : Chain(t)'
<1> DEFINE t == <<h>> \o s
<1>1. /\ s \in Seq(Hdl) /\ Len(s) \in Nat /\ Null \notin Hdl
      /\ next \in [Hdl -> Ptr]
      /\ \A i \in 1 .. Len(s) : s[i] \in Hdl /\ s[i] \in malloced
  <2>1. s \in Seq(Hdl) /\ malloced = {s[i] : i \in 1 .. Len(s)}
    BY DEF Chain
  <2>2. \A i \in 1 .. Len(s) : s[i] \in malloced
    BY <2>1
  <2> QED BY <2>1, <2>2, HandleAssumption DEF TypeOK
<1>2. /\ h \notin malloced /\ malloced' = malloced \cup {h}
      /\ next' = [next EXCEPT ![h] = handlelist] /\ handlelist' = h
  BY DEF db2AllocStmtHdl
<1>3. <<h>> \in Seq(Hdl) /\ Len(<<h>>) = 1 /\ <<h>>[1] = h
  OBVIOUS
<1>4. /\ t \in Seq(Hdl) /\ Len(t) = Len(s) + 1
      /\ \A i \in 1 .. Len(s) + 1 : t[i] = IF i = 1 THEN h ELSE s[i - 1]
  <2>1. /\ t \in Seq(Hdl) /\ Len(t) = 1 + Len(s)
        /\ \A i \in 1 .. 1 + Len(s) : t[i] = IF i <= 1 THEN <<h>>[i] ELSE s[i - 1]
    BY <1>1, <1>3, ConcatProperties
  <2> QED BY <1>1, <1>3, <2>1
<1> HIDE DEF t
<1>5. ASSUME NEW i \in 1 .. Len(t), NEW j \in 1 .. Len(t), t[i] = t[j] PROVE i = j
  <2>1. \A a, b \in 1 .. Len(s) : s[a] = s[b] => a = b
    BY DEF Chain
  <2>2. CASE i = 1 \/ j = 1
    BY <1>1, <1>2, <1>4, <1>5, <2>2
  <2>3. CASE i # 1 /\ j # 1
    <3>1. i - 1 \in 1 .. Len(s) /\ j - 1 \in 1 .. Len(s) /\ s[i - 1] = s[j - 1]
      BY <1>1, <1>4, <1>5, <2>3
    <3>2. i - 1 = j - 1
      BY <2>1, <3>1
    <3> QED BY <3>1, <3>2, <1>1, <1>4
  <2> QED BY <2>2, <2>3
<1>6. ASSUME NEW i \in 1 .. Len(t)
      PROVE  next'[t[i]] = IF i < Len(t) THEN t[i + 1] ELSE Null
  <2>1. CASE i = 1
    <3>1. next'[h] = handlelist /\ t[1] = h
      BY <1>1, <1>2, <1>4
    <3>2. handlelist = IF Len(s) = 0 THEN Null ELSE s[1]
      BY DEF Chain
    <3>3. CASE Len(s) = 0
      BY <1>1, <1>4, <2>1, <3>1, <3>2, <3>3
    <3>4. CASE Len(s) # 0
      <4>1. 1 < Len(t) /\ 2 \in 1 .. Len(s) + 1 /\ t[2] = s[1]
        BY <1>1, <1>4, <3>4
      <4> QED BY <2>1, <3>1, <3>2, <3>4, <4>1
    <3> QED BY <3>3, <3>4
  <2>2. CASE i # 1
    <3>1. i - 1 \in 1 .. Len(s) /\ t[i] = s[i - 1] /\ s[i - 1] # h /\ i \in Nat
      BY <1>1, <1>2, <1>4, <2>2
    <3>2. next'[s[i - 1]] = next[s[i - 1]]
      BY <1>1, <1>2, <3>1
    <3>3. next[s[i - 1]] = IF i - 1 < Len(s) THEN s[(i - 1) + 1] ELSE Null
      BY <3>1 DEF Chain
    <3>4. CASE i < Len(t)
      <4>1. i - 1 < Len(s) /\ (i - 1) + 1 = i /\ i + 1 \in 1 .. Len(s) + 1 /\ i + 1 # 1
            /\ (i + 1) - 1 = i
        BY <1>1, <1>4, <3>1, <3>4
      <4>2. t[i + 1] = s[i]
        BY <1>4, <4>1
      <4> QED BY <3>1, <3>2, <3>3, <3>4, <4>1, <4>2
    <3>5. CASE ~(i < Len(t))
      BY <1>1, <1>4, <3>1, <3>2, <3>3, <3>5
    <3> QED BY <3>4, <3>5
  <2> QED BY <2>1, <2>2
<1>7. malloced' = {t[i] : i \in 1 .. Len(t)}
  <2>1. malloced = {s[i] : i \in 1 .. Len(s)}
    BY DEF Chain
  <2>2. ASSUME NEW p \in malloced' PROVE \E i \in 1 .. Len(t) : p = t[i]
    <3>1. CASE p = h
      BY <1>1, <1>4, <3>1
    <3>2. CASE p # h
      <4>1. PICK i \in 1 .. Len(s) : p = s[i]
        BY <1>2, <2>1, <2>2, <3>2
      <4>2. i + 1 \in 1 .. Len(t) /\ i + 1 # 1 /\ (i + 1) - 1 = i
        BY <1>1, <1>4
      <4>3. t[i + 1] = p
        BY <1>4, <4>1, <4>2
      <4> QED BY <4>2, <4>3
    <3> QED BY <3>1, <3>2
  <2>3. ASSUME NEW i \in 1 .. Len(t) PROVE t[i] \in malloced'
    <3>1. CASE i = 1
      BY <1>2, <1>4, <3>1
    <3>2. CASE i # 1
      <4>1. i - 1 \in 1 .. Len(s) /\ t[i] = s[i - 1]
        BY <1>1, <1>4, <3>2
      <4> QED BY <1>1, <1>2, <4>1
    <3> QED BY <3>1, <3>2
  <2> QED BY <2>2, <2>3
<1>8. handlelist' = IF Len(t) = 0 THEN Null ELSE t[1]
  BY <1>1, <1>2, <1>4
<1>9. Chain(t)'
  BY <1>4, <1>5, <1>6, <1>7, <1>8 DEF Chain
<1> QED BY <1>4, <1>9

\* db2FreeStmtHdl of a listed block finds it, and says so if it was second.
LEMMA FreeListed ==
  ASSUME NEW s, Chain(s), NEW k \in 1 .. Len(s), db2FreeStmtHdl(s[k])
  PROVE  /\ IF k <= 2 THEN handlelist' = next[s[k]]
                      ELSE handlelist' = handlelist
         /\ IF k <= 2 THEN next' = next
                      ELSE next' = [next EXCEPT ![s[k - 1]] = next[s[k]]]
         /\ malloced' = malloced \ {s[k]} /\ memory' = memory
         /\ secondFreed => secondFreed'
         /\ k = 2 => secondFreed'
<1> DEFINE h == s[k]
<1> DEFINE prev == findhdlEntry(h)
<1>1. /\ Len(s) \in Nat /\ Null \notin Hdl /\ k \in Nat /\ k >= 1 /\ k <= Len(s)
      /\ \A i \in 1 .. Len(s) : s[i] \in Hdl
      /\ \A i, j \in 1 .. Len(s) : s[i] = s[j] => i = j
  BY HandleAssumption DEF Chain
<1>2. /\ malloced = {s[i] : i \in 1 .. Len(s)} /\ handlelist = s[1]
      /\ \A i \in 1 .. Len(s) : next[s[i]] = IF i < Len(s) THEN s[i + 1] ELSE Null
  <2>1. Len(s) # 0
    BY <1>1
  <2> QED BY <2>1 DEF Chain
<1>3. h \in malloced
  BY <1>2
<1>4. Listed = malloced /\ Visited(h) \subseteq malloced
  BY ChainListed, ChainFind
<1>5. prev = IF k = 1 THEN s[1] ELSE s[k - 1]
  BY ChainFind
<1>6. prev \in Hdl /\ prev # Null
  <2>1. 1 \in 1 .. Len(s) /\ (k # 1 => k - 1 \in 1 .. Len(s))
    BY <1>1
  <2> QED BY <1>1, <1>5, <2>1
<1> HIDE DEF h, prev
<1>7. /\ IF handlelist = prev
           THEN handlelist' = next[h] /\ next' = next
           ELSE next' = [next EXCEPT ![prev] = next[h]] /\ handlelist' = handlelist
      /\ malloced' = malloced \ {h}
      /\ secondFreed' = (secondFreed \/ (handlelist # Null /\ next[handlelist] = h))
      /\ memory' = memory
  <2>1. db2FreeStmtHdl(h)
    BY DEF h
  <2> QED BY <1>3, <1>4, <1>6, <2>1 DEF db2FreeStmtHdl, prev
<1>8. k <= 2 <=> handlelist = prev
  <2>1. k # 1 => k - 1 \in 1 .. Len(s)
    BY <1>1
  <2>2. 1 \in 1 .. Len(s)
    BY <1>1
  <2>3. CASE k = 1
    BY <1>2, <1>5, <2>3
  <2>4. CASE k # 1
    <3>1. s[1] = s[k - 1] <=> 1 = k - 1
      BY <1>1, <2>1, <2>2, <2>4
    <3> QED BY <1>1, <1>2, <1>5, <2>4, <3>1
  <2> QED BY <2>3, <2>4
<1>9. k = 2 => next[handlelist] = h /\ handlelist # Null
  BY <1>1, <1>2 DEF h
<1>10. secondFreed => secondFreed'
  BY <1>7
<1>11. k = 2 => secondFreed'
  BY <1>7, <1>9
<1>12. k > 2 => prev = s[k - 1]
  BY <1>1, <1>5
<1> QED BY <1>1, <1>7, <1>8, <1>10, <1>11, <1>12 DEF h

\* Freeing any block but the second takes that block out of the list.
LEMMA FreeChain ==
  ASSUME TypeOK, NEW s, Chain(s), NEW k \in 1 .. Len(s), k # 2, db2FreeStmtHdl(s[k])
  PROVE  \E t \in Seq(Hdl) : Chain(t)'
<1> DEFINE e(i) == IF i < k THEN s[i] ELSE s[i + 1]
<1>1. /\ Len(s) \in Nat /\ Null \notin Hdl /\ k \in Nat /\ k >= 1 /\ k <= Len(s)
      /\ \A i \in 1 .. Len(s) : s[i] \in Hdl
      /\ \A i, j \in 1 .. Len(s) : s[i] = s[j] => i = j
  BY HandleAssumption DEF Chain
<1>2. /\ malloced = {s[i] : i \in 1 .. Len(s)} /\ handlelist = s[1]
      /\ \A i \in 1 .. Len(s) : next[s[i]] = IF i < Len(s) THEN s[i + 1] ELSE Null
  <2>1. Len(s) # 0
    BY <1>1
  <2> QED BY <2>1 DEF Chain
<1>3. PICK n \in Nat : n = Len(s) - 1
  BY <1>1
<1> DEFINE t == [i \in 1 .. n |-> e(i)]
<1>4. \A i \in 1 .. n : i \in 1 .. Len(s) /\ i + 1 \in 1 .. Len(s) /\ e(i) \in Hdl
  BY <1>1, <1>3
<1>5. t \in Seq(Hdl) /\ Len(t) = n /\ \A i \in 1 .. n : t[i] = e(i)
  <2>1. t \in Seq(Hdl)
    <3> HIDE DEF e
    <3> QED BY <1>4, IsASeq
  <2>2. DOMAIN t = 1 .. n
    OBVIOUS
  <2>3. Len(t) = n
    BY <2>1, <2>2, LenProperties
  <2> QED BY <2>1, <2>3
<1> HIDE DEF t
<1>6. ASSUME NEW i \in 1 .. Len(t), NEW j \in 1 .. Len(t), t[i] = t[j] PROVE i = j
  BY <1>1, <1>3, <1>4, <1>5, <1>6
<1>7. /\ IF k = 1 THEN handlelist' = next[s[k]] ELSE handlelist' = handlelist
      /\ IF k = 1 THEN next' = next
                  ELSE next' = [next EXCEPT ![s[k - 1]] = next[s[k]]]
      /\ malloced' = malloced \ {s[k]}
  <2>1. k <= 2 <=> k = 1
    BY <1>1
  <2> QED BY <2>1, FreeListed
<1>8. ASSUME NEW i \in 1 .. Len(t)
      PROVE  next'[t[i]] = IF i < Len(t) THEN t[i + 1] ELSE Null
  <2>1. next \in [Hdl -> Ptr] /\ i \in Nat /\ i >= 1 /\ i <= n /\ i < Len(s)
    BY <1>1, <1>3, <1>5 DEF TypeOK
  <2>2. CASE k = 1 \/ i >= k
    <3>1. t[i] = s[i + 1]
      BY <1>1, <1>5, <2>1, <2>2
    <3>2. i + 1 \in 1 .. Len(s) /\ next[s[i + 1]] = IF i + 1 < Len(s) THEN s[(i + 1) + 1] ELSE Null
      BY <1>1, <1>2, <2>1
    <3>3. next'[s[i + 1]] = next[s[i + 1]]
      <4>1. CASE k = 1
        BY <1>7, <4>1
      <4>2. CASE k # 1
        <5>1. k - 1 \in 1 .. Len(s) /\ k - 1 # i + 1
          BY <1>1, <2>2, <2>1, <4>2
        <5>2. s[k - 1] # s[i + 1]
          BY <1>1, <3>2, <5>1
        <5>3. s[i + 1] \in Hdl
          BY <1>1, <3>2
        <5> QED BY <1>7, <2>1, <4>2, <5>2, <5>3
      <4> QED BY <4>1, <4>2
    <3>4. CASE i < n
      <4>1. i + 1 \in 1 .. n /\ ~(i + 1 < k) /\ i + 1 < Len(s)
        BY <1>3, <2>1, <2>2, <3>4, <1>1
      <4>2. t[i + 1] = s[(i + 1) + 1]
        BY <1>5, <4>1
      <4> QED BY <1>5, <3>1, <3>2, <3>3, <3>4, <4>1, <4>2
    <3>5. CASE ~(i < n)
      BY <1>1, <1>3, <1>5, <2>1, <3>1, <3>2, <3>3, <3>5
    <3> QED BY <3>4, <3>5
  <2>3. CASE k # 1 /\ i < k - 1
    <3>1. i \in 1 .. Len(s) /\ k - 1 \in 1 .. Len(s) /\ i # k - 1 /\ t[i] = s[i]
      BY <1>1, <1>5, <2>1, <2>3
    <3>2. s[i] # s[k - 1] /\ s[i] \in Hdl
      BY <1>1, <3>1
    <3>3. next'[s[i]] = next[s[i]]
      BY <1>7, <2>1, <2>3, <3>2
    <3>4. next[s[i]] = s[i + 1]
      BY <1>2, <2>1, <3>1
    <3>5. i < n /\ i + 1 \in 1 .. n /\ t[i + 1] = s[i + 1]
      <4>1. i < n /\ i + 1 \in 1 .. n /\ i + 1 < k
        BY <1>1, <1>3, <2>1, <2>3
      <4> QED BY <1>5, <4>1
    <3> QED BY <1>5, <3>1, <3>3, <3>4, <3>5
  <2>4. CASE k # 1 /\ i = k - 1
    <3>1. i \in 1 .. Len(s) /\ t[i] = s[i] /\ s[i] \in Hdl
      BY <1>1, <1>5, <2>1, <2>4
    <3>2. next'[s[i]] = next[s[k]]
      BY <1>7, <2>1, <2>4, <3>1
    <3>3. next[s[k]] = IF k < Len(s) THEN s[k + 1] ELSE Null
      BY <1>2
    <3>4. CASE i < n
      <4>1. i + 1 \in 1 .. n /\ i + 1 = k /\ k < Len(s)
        BY <1>1, <1>3, <2>1, <2>4, <3>4
      <4>2. t[k] = s[k + 1]
        BY <1>5, <4>1
      <4> QED BY <1>5, <3>1, <3>2, <3>3, <3>4, <4>1, <4>2
    <3>5. CASE ~(i < n)
      <4>1. ~(k < Len(s))
        BY <1>1, <1>3, <2>1, <2>4, <3>5
      <4> QED BY <1>5, <3>1, <3>2, <3>3, <3>5, <4>1
    <3> QED BY <3>4, <3>5
  <2>5. k = 1 \/ i >= k \/ (k # 1 /\ i < k - 1) \/ (k # 1 /\ i = k - 1)
    BY <1>1, <2>1
  <2> QED BY <2>2, <2>3, <2>4, <2>5
<1>9. malloced' = {t[i] : i \in 1 .. Len(t)}
  <2>1. ASSUME NEW p \in malloced' PROVE \E i \in 1 .. Len(t) : p = t[i]
    <3>1. PICK j \in 1 .. Len(s) : p = s[j] /\ j # k
      BY <1>2, <1>7, <2>1
    <3>2. CASE j < k
      <4>1. j \in 1 .. n
        BY <1>1, <1>3, <3>1, <3>2
      <4> QED BY <1>5, <3>1, <3>2, <4>1
    <3>3. CASE j > k
      <4>1. j - 1 \in 1 .. n /\ ~(j - 1 < k) /\ (j - 1) + 1 = j
        BY <1>1, <1>3, <3>1, <3>3
      <4> QED BY <1>5, <3>1, <4>1
    <3> QED BY <1>1, <3>1, <3>2, <3>3
  <2>2. ASSUME NEW i \in 1 .. Len(t) PROVE t[i] \in malloced'
    <3>1. i \in 1 .. n /\ i \in 1 .. Len(s) /\ i + 1 \in 1 .. Len(s) /\ t[i] = e(i)
      BY <1>4, <1>5
    <3>2. CASE i < k
      <4>1. t[i] = s[i] /\ i # k
        BY <1>1, <3>1, <3>2
      <4> QED BY <1>1, <1>2, <1>7, <3>1, <4>1
    <3>3. CASE ~(i < k)
      <4>1. t[i] = s[i + 1] /\ i + 1 # k
        BY <1>1, <3>1, <3>3
      <4> QED BY <1>1, <1>2, <1>7, <3>1, <4>1
    <3> QED BY <3>2, <3>3
  <2> QED BY <2>1, <2>2
<1>10. handlelist' = IF Len(t) = 0 THEN Null ELSE t[1]
  <2>1. CASE k = 1
    <3>1. handlelist' = IF 1 < Len(s) THEN s[2] ELSE Null
      BY <1>1, <1>2, <1>7, <2>1
    <3>2. CASE n = 0
      BY <1>1, <1>3, <1>5, <3>1, <3>2
    <3>3. CASE n # 0
      <4>1. 1 \in 1 .. n /\ ~(1 < k) /\ 1 < Len(s)
        BY <1>1, <1>3, <2>1, <3>3
      <4> QED BY <1>5, <3>1, <3>3, <4>1
    <3> QED BY <3>2, <3>3
  <2>2. CASE k # 1
    <3>1. n # 0 /\ 1 \in 1 .. n /\ 1 < k
      BY <1>1, <1>3, <2>2
    <3> QED BY <1>2, <1>5, <1>7, <2>2, <3>1
  <2> QED BY <2>1, <2>2
<1>11. Chain(t)'
  BY <1>5, <1>6, <1>8, <1>9, <1>10 DEF Chain
<1> QED BY <1>5, <1>11

----------------------------------------------------------------------------
(* The operations keep the types, and the list one list.                   *)

ListType ==
  /\ handlelist \in Ptr /\ next \in [Hdl -> Ptr]
  /\ malloced \subseteq Hdl
  /\ secondFreed \in BOOLEAN
  /\ memory \in {"ok", "null", "freed"}

LEMMA AllocType ==
  ASSUME TypeOK, NEW h \in Hdl, db2AllocStmtHdl(h)
  PROVE  ListType'
BY DEF TypeOK, ListType, db2AllocStmtHdl, Ptr

LEMMA FreeType ==
  ASSUME TypeOK, NEW h \in Hdl, db2FreeStmtHdl(h)
  PROVE  ListType' /\ (secondFreed => secondFreed')
<1>1. /\ handlelist \in Ptr /\ next \in [Hdl -> Ptr] /\ next[h] \in Ptr
      /\ malloced \subseteq Hdl
      /\ secondFreed \in BOOLEAN
      /\ memory \in {"ok", "null", "freed"}
  BY DEF TypeOK
<1> DEFINE prev == findhdlEntry(h)
<1>2. CASE /\ memory' \in {"ok", "null", "freed"}
           /\ UNCHANGED <<handlelist, next, malloced, secondFreed>>
  BY <1>1, <1>2 DEF ListType
<1>3. CASE /\ IF handlelist = prev
                THEN handlelist' = next[h] /\ next' = next
                ELSE next' = [next EXCEPT ![prev] = next[h]] /\ handlelist' = handlelist
           /\ malloced' = malloced \ {h}
           /\ secondFreed' = (secondFreed \/ (handlelist # Null /\ next[handlelist] = h))
           /\ memory' = memory
  <2> HIDE DEF prev
  <2>1. handlelist' \in Ptr
    BY <1>1, <1>3
  <2>2. next' \in [Hdl -> Ptr]
    BY <1>1, <1>3
  <2> QED BY <1>1, <1>3, <2>1, <2>2 DEF ListType
<1> QED BY <1>2, <1>3 DEF db2FreeStmtHdl

LEMMA CloseType ==
  ASSUME TypeOK, NEW n \in Node, db2CloseStatement(n)
  PROVE  ListType' /\ stmtp' \in [Node -> Ptr] /\ (secondFreed => secondFreed')
<1>1. stmtp' \in [Node -> Ptr]
  BY DEF TypeOK, db2CloseStatement, Ptr
<1>2. CASE stmtp[n] # Null
  <2>1. stmtp[n] \in Hdl /\ db2FreeStmtHdl(stmtp[n])
    BY <1>2 DEF TypeOK, db2CloseStatement, Ptr
  <2> QED BY <1>1, <2>1, FreeType
<1>3. CASE stmtp[n] = Null
  BY <1>1, <1>3 DEF TypeOK, ListType, db2CloseStatement, listVars
<1> QED BY <1>2, <1>3

\* Statements that were open stay open or are forgotten, the list stays.
LEMMA KeepList ==
  ASSUME TypeOK, ListInv, UNCHANGED listVars,
         \A n \in Node : stmtp'[n] \in {stmtp[n], Null},
         xact_level' = 0 => malloced = {} \/ xact_level = 0
  PROVE  ListInv'
<1>1. /\ handlelist' = handlelist /\ next' = next /\ malloced' = malloced
      /\ secondFreed' = secondFreed /\ memory' = memory
  BY DEF listVars
<1>2. CASE secondFreed
  BY <1>1, <1>2 DEF ListInv
<1>3. CASE ~secondFreed
  <2>1. PICK s \in Seq(Hdl) : Chain(s)
    BY <1>3 DEF ListInv
  <2>2. Chain(s)'
    BY <1>1, <2>1 DEF Chain
  <2>3. memory = "ok" /\ (xact_level = 0 => malloced = {})
    BY <1>3 DEF ListInv
  <2>4. ASSUME NEW n \in Node, stmtp'[n] # Null
        PROVE  /\ stmtp'[n] \in malloced'
               /\ \A m \in Node \ {n} : stmtp'[m] # stmtp'[n]
    <3>1. /\ stmtp[n] \in malloced
          /\ \A m \in Node \ {n} : stmtp[m] # stmtp[n]
          /\ stmtp'[n] = stmtp[n]
      BY <1>3, <2>4 DEF ListInv
    <3> QED BY <1>1, <2>4, <3>1
  <2> QED BY <1>1, <2>2, <2>3, <2>4 DEF ListInv
<1> QED BY <1>2, <1>3

\* A new block goes to one node at most.
LEMMA AllocList ==
  ASSUME TypeOK, ListInv, NEW h \in Hdl, db2AllocStmtHdl(h), xact_level' # 0,
         \A n \in Node : stmtp'[n] \in {stmtp[n], Null, h},
         \A n, m \in Node : stmtp'[n] = h /\ stmtp'[m] = h => n = m
  PROVE  ListInv'
<1>1. /\ h \notin malloced /\ malloced' = malloced \cup {h}
      /\ secondFreed' = secondFreed /\ memory' = memory
  BY DEF db2AllocStmtHdl
<1>2. CASE secondFreed
  BY <1>1, <1>2 DEF ListInv
<1>3. CASE ~secondFreed
  <2>1. PICK s \in Seq(Hdl) : Chain(s)
    BY <1>3 DEF ListInv
  <2>2. \E t \in Seq(Hdl) : Chain(t)'
    BY <2>1, AllocChain
  <2>3. memory = "ok"
    BY <1>3 DEF ListInv
  <2>4. ASSUME NEW n \in Node, stmtp'[n] # Null
        PROVE  /\ stmtp'[n] \in malloced'
               /\ \A m \in Node \ {n} : stmtp'[m] # stmtp'[n]
    <3>1. \A m \in Node : stmtp[m] # Null =>
            /\ stmtp[m] \in malloced
            /\ \A k \in Node \ {m} : stmtp[k] # stmtp[m]
      BY <1>3 DEF ListInv
    <3>2. \A m \in Node : stmtp[m] # h
      <4>1. h # Null
        BY HandleAssumption
      <4> QED BY <1>1, <3>1, <4>1
    <3>3. CASE stmtp'[n] = h
      BY <1>1, <3>3
    <3>4. CASE stmtp'[n] # h
      BY <1>1, <2>4, <3>1, <3>2, <3>4
    <3> QED BY <3>3, <3>4
  <2> QED BY <1>1, <2>2, <2>3, <2>4 DEF ListInv
<1> QED BY <1>2, <1>3

\* Freeing a block of the list, unless it was the second.
LEMMA FreeList ==
  ASSUME TypeOK, ListInv, NEW h \in malloced, db2FreeStmtHdl(h), ~secondFreed'
  PROVE  /\ memory' = "ok" /\ malloced' = malloced \ {h} /\ ~secondFreed
         /\ \E t \in Seq(Hdl) : Chain(t)'
<1>1. h \in Hdl
  BY DEF TypeOK
<1>2. ~secondFreed
  BY <1>1, FreeType
<1>3. PICK s \in Seq(Hdl) : Chain(s)
  BY <1>2 DEF ListInv
<1>4. PICK k \in 1 .. Len(s) : h = s[k]
  BY <1>3 DEF Chain
<1>5. /\ malloced' = malloced \ {h} /\ memory' = memory
      /\ k # 2
  BY <1>3, <1>4, FreeListed
<1>6. \E t \in Seq(Hdl) : Chain(t)'
  BY <1>3, <1>4, <1>5, FreeChain
<1>7. memory = "ok"
  BY <1>2 DEF ListInv
<1> QED BY <1>2, <1>5, <1>6, <1>7

LEMMA CloseList ==
  ASSUME TypeOK, ListInv, NEW n \in Node, db2CloseStatement(n), xact_level' = xact_level
  PROVE  ListInv'
<1>1. stmtp' = [stmtp EXCEPT ![n] = Null] /\ stmtp \in [Node -> Ptr]
  BY DEF db2CloseStatement, TypeOK
<1>2. \A m \in Node : stmtp'[m] = IF m = n THEN Null ELSE stmtp[m]
  BY <1>1
<1>3. CASE stmtp[n] = Null
  <2>1. UNCHANGED listVars
    BY <1>3 DEF db2CloseStatement
  <2> QED BY <1>2, <2>1, KeepList
<1>4. CASE stmtp[n] # Null
  <2> SUFFICES ASSUME ~secondFreed' PROVE ListInv'
    BY DEF ListInv
  <2>1. db2FreeStmtHdl(stmtp[n]) /\ stmtp[n] \in Hdl
    BY <1>4 DEF db2CloseStatement, TypeOK, Ptr
  <2>2. ~secondFreed
    BY <2>1, FreeType
  <2>3. \A m \in Node : stmtp[m] # Null =>
          /\ stmtp[m] \in malloced
          /\ \A k \in Node \ {m} : stmtp[k] # stmtp[m]
    BY <2>2 DEF ListInv
  <2>4. stmtp[n] \in malloced
    BY <1>4, <2>3
  <2>5. /\ memory' = "ok" /\ malloced' = malloced \ {stmtp[n]}
        /\ \E t \in Seq(Hdl) : Chain(t)'
    BY <2>1, <2>4, FreeList
  <2>6. ASSUME NEW m \in Node, stmtp'[m] # Null
        PROVE  /\ stmtp'[m] \in malloced'
               /\ \A k \in Node \ {m} : stmtp'[k] # stmtp'[m]
    <3>1. m # n /\ stmtp'[m] = stmtp[m] /\ stmtp[m] # stmtp[n]
      BY <1>2, <1>4, <2>3, <2>6
    <3>2. ASSUME NEW k \in Node \ {m} PROVE stmtp'[k] # stmtp'[m]
      BY <1>2, <2>3, <2>6, <3>1
    <3> QED BY <2>3, <2>5, <2>6, <3>1, <3>2
  <2>7. xact_level' = 0 => malloced' = {}
    BY <2>2, <2>5 DEF ListInv
  <2> QED BY <2>5, <2>6, <2>7 DEF ListInv
<1> QED BY <1>3, <1>4

----------------------------------------------------------------------------
(* The invariant.                                                          *)

LEMMA NestFacts ==
  ASSUME TypeOK
  PROVE  /\ nest \in Nat /\ xact_level \in Nat /\ MaxNest \in Nat
         /\ nest <= MaxNest /\ xact_level <= MaxNest /\ 1 <= MaxNest
         /\ \A n \in Node : began[n] \in Nat /\ began[n] <= MaxNest
BY HandleAssumption DEF TypeOK

LEMMA InitHandles == Init => HInv
<1> SUFFICES ASSUME Init PROVE HInv
  OBVIOUS
<1>1. TypeOK
  <2>1. 0 \in 0 .. MaxNest /\ Null \in Ptr
    BY HandleAssumption DEF Ptr
  <2>2. began \in [Node -> 0 .. MaxNest] /\ stmtp \in [Node -> Ptr] /\ next \in [Hdl -> Ptr]
    BY <2>1 DEF Init
  <2> QED BY <2>1, <2>2 DEF Init, TypeOK
<1>2. NodeInv
  BY DEF Init, NodeInv
<1>3. ListInv
  <2>1. <<>> \in Seq(Hdl) /\ Len(<<>>) = 0
    BY EmptySeq
  <2>2. malloced = {} /\ handlelist = Null
    BY DEF Init
  <2>3. {<<>>[i] : i \in 1 .. 0} = {}
    OBVIOUS
  <2>4. Chain(<<>>)
    BY <2>1, <2>2, <2>3 DEF Chain
  <2>5. \A n \in Node : stmtp[n] = Null
    BY DEF Init
  <2>6. memory = "ok"
    BY DEF Init
  <2> QED BY <2>1, <2>2, <2>4, <2>5, <2>6 DEF ListInv
<1> QED BY <1>1, <1>2, <1>3 DEF HInv

\* A call that leaves the list alone.
LEMMA BeginScanKeeps ==
  ASSUME HInv, NEW n \in Scan, db2BeginForeignScan(n)
  PROVE  HInv'
<1>1. TypeOK /\ n \in Node /\ nest >= 1
  BY DEF HInv, Node, NodeInv, db2BeginForeignScan, Executing
<1>2. TypeOK'
  BY <1>1 DEF TypeOK, db2BeginForeignScan, listVars
<1>3. NodeInv'
  BY <1>1, NestFacts DEF HInv, NodeInv, TypeOK, db2BeginForeignScan, Executing, listVars
<1>4. UNCHANGED listVars /\ stmtp' = stmtp /\ xact_level' # 0
  BY <1>1, NestFacts DEF db2BeginForeignScan
<1>5. ListInv'
  BY <1>4, KeepList DEF HInv
<1> QED BY <1>2, <1>3, <1>5 DEF HInv

LEMMA PrepareKeeps ==
  ASSUME HInv, NEW n \in Node, db2PrepareQuery(n), xact_level' # 0
  PROVE  ListType' /\ stmtp' \in [Node -> Ptr] /\ ListInv'
         /\ \A m \in Node \ {n} : stmtp'[m] = stmtp[m]
<1>1. PICK h \in Hdl : db2AllocStmtHdl(h) /\ stmtp' = [stmtp EXCEPT ![n] = h]
  BY DEF db2PrepareQuery
<1>2. TypeOK /\ ListInv /\ stmtp \in [Node -> Ptr]
  BY DEF HInv, TypeOK
<1>3. stmtp' \in [Node -> Ptr]
  BY <1>1, <1>2 DEF Ptr
<1>4. ListType'
  BY <1>1, <1>2, AllocType
<1>5. \A m \in Node : stmtp'[m] = IF m = n THEN h ELSE stmtp[m]
  BY <1>1, <1>2
<1>6. ASSUME secondFreed PROVE ListInv'
  BY <1>1, <1>6 DEF db2AllocStmtHdl, ListInv
<1>7. ASSUME ~secondFreed PROVE ListInv'
  <2>1. \A m \in Node : stmtp[m] # h
    <3>1. \A m \in Node : stmtp[m] # Null => stmtp[m] \in malloced
      BY <1>2, <1>7 DEF ListInv
    <3>2. h \notin malloced /\ h # Null
      BY <1>1, HandleAssumption DEF db2AllocStmtHdl
    <3> QED BY <3>1, <3>2
  <2> QED BY <1>1, <1>2, <1>3, <1>4, <1>5, <2>1, AllocList
<1> QED BY <1>3, <1>4, <1>5, <1>6, <1>7

LEMMA BeginModifyKeeps ==
  ASSUME HInv, NEW n \in Modify, db2BeginForeignModifyCommon(n)
  PROVE  HInv'
<1>1. TypeOK /\ n \in Node /\ nest >= 1
  BY DEF HInv, Node, NodeInv, db2BeginForeignModifyCommon, Executing
<1>2. /\ phase = "run" /\ phase' \in {"run", "error"}
      /\ nest' = nest /\ is_commit' = is_commit /\ xact_level' # 0
      /\ xact_level' \in Nat /\ xact_level' <= MaxNest /\ xact_level' >= 1
      /\ began' = [began EXCEPT ![n] = nest]
      /\ db2PrepareQuery(n)
  <2>1. /\ phase = "run" /\ phase' \in {"run", "error"}
        /\ nest' = nest /\ is_commit' = is_commit
        /\ began' = [began EXCEPT ![n] = nest]
        /\ db2PrepareQuery(n)
        /\ xact_level' = IF xact_level < nest THEN nest ELSE xact_level
    BY DEF db2BeginForeignModifyCommon, db2PrepareQuery, Executing
  <2> QED BY <1>1, <2>1, NestFacts
<1>3. /\ ListType' /\ stmtp' \in [Node -> Ptr] /\ ListInv'
      /\ \A m \in Node \ {n} : stmtp'[m] = stmtp[m]
  BY <1>1, <1>2, PrepareKeeps
<1>4. TypeOK'
  <2>1. /\ xact_level' \in 0 .. MaxNest
        /\ began' \in [Node -> 0 .. MaxNest]
    <3>1. nest \in 0 .. MaxNest /\ began \in [Node -> 0 .. MaxNest]
      BY <1>1 DEF TypeOK
    <3> QED BY <1>1, <1>2, <3>1, NestFacts
  <2> QED BY <1>1, <1>2, <1>3, <2>1 DEF TypeOK, ListType
<1>5. NodeInv'
  <2>1. \A m \in Node : began'[m] = IF m = n THEN nest ELSE began[m]
    BY <1>1, <1>2 DEF TypeOK
  <2>2. \A m \in Node : began[m] = 0 => stmtp[m] = Null
    BY DEF HInv, NodeInv
  <2> QED BY <1>1, <1>2, <1>3, <2>1, <2>2 DEF NodeInv
<1> QED BY <1>3, <1>4, <1>5 DEF HInv

LEMMA ExecFailsKeeps ==
  ASSUME HInv, NEW n \in Modify, ExecForeignModifyFails(n)
  PROVE  HInv'
<1>1. TypeOK'
  BY DEF HInv, TypeOK, ExecForeignModifyFails, listVars
<1>2. NodeInv'
  BY DEF HInv, NodeInv, ExecForeignModifyFails, Executing, listVars
<1>3. UNCHANGED listVars /\ stmtp' = stmtp /\ xact_level' = xact_level
  BY DEF ExecForeignModifyFails
<1>4. ListInv'
  BY <1>3, KeepList DEF HInv
<1> QED BY <1>1, <1>2, <1>4 DEF HInv

LEMMA IterateKeeps ==
  ASSUME HInv, NEW n \in Scan, db2IterateForeignScan(n)
  PROVE  HInv'
<1>1. /\ TypeOK /\ n \in Node /\ nest >= 1 /\ phase = "run"
      /\ nest' = nest /\ is_commit' = is_commit /\ xact_level' = xact_level /\ began' = began
      /\ began[n] > 0 /\ xact_level # 0 /\ phase' \in {"run", "error"}
  <2>1. phase' \in {"run", "error"}
    BY DEF db2IterateForeignScan, Executing, db2PrepareQuery
  <2>2. TypeOK /\ n \in Node /\ phase = "run" /\ began[n] > 0
    BY DEF HInv, Node, db2IterateForeignScan, Executing
  <2>3. nest >= 1 /\ xact_level # 0
    BY <2>2, NestFacts DEF HInv, NodeInv
  <2> QED BY <2>1, <2>2, <2>3 DEF db2IterateForeignScan
<1>2. /\ ListType' /\ stmtp' \in [Node -> Ptr] /\ ListInv'
      /\ \A m \in Node \ {n} : stmtp'[m] = stmtp[m]
  <2>1. CASE db2PrepareQuery(n)
    BY <1>1, <2>1, PrepareKeeps
  <2>2. CASE db2CloseStatement(n)
    <3>1. \A m \in Node \ {n} : stmtp'[m] = stmtp[m]
      BY <1>1, <2>2 DEF db2CloseStatement, TypeOK
    <3> QED BY <1>1, <2>2, <3>1, CloseType, CloseList DEF HInv
  <2>3. CASE UNCHANGED <<stmtp, listVars>>
    <3>1. UNCHANGED listVars /\ stmtp' = stmtp
      BY <2>3
    <3>2. ListInv'
      BY <1>1, <3>1, KeepList DEF HInv
    <3>3. ListType'
      BY <1>1, <3>1 DEF TypeOK, ListType, listVars
    <3> QED BY <1>1, <3>1, <3>2, <3>3 DEF TypeOK
  <2> QED BY <2>1, <2>2, <2>3 DEF db2IterateForeignScan
<1>3. TypeOK'
  BY <1>1, <1>2 DEF TypeOK, ListType
<1>4. NodeInv'
  <2>1. \A m \in Node : began[m] = 0 => stmtp[m] = Null
    BY DEF HInv, NodeInv
  <2>2. \A m \in Node : began'[m] = 0 => stmtp'[m] = Null
    BY <1>1, <1>2, <2>1
  <2> QED BY <1>1, <2>2 DEF HInv, NodeInv
<1> QED BY <1>2, <1>3, <1>4 DEF HInv

\* The calls that close a statement.
LEMMA ReScanKeeps ==
  ASSUME HInv, NEW n \in Scan, db2ReScanForeignScan(n)
  PROVE  HInv'
<1>1. /\ TypeOK /\ n \in Node /\ db2CloseStatement(n) /\ began' = began
      /\ phase' = phase /\ is_commit' = is_commit /\ nest' = nest
      /\ xact_level' = xact_level
  BY DEF HInv, Node, db2ReScanForeignScan, xactVars
<1>2. ListType' /\ stmtp' \in [Node -> Ptr] /\ ListInv'
  BY <1>1, CloseType, CloseList DEF HInv
<1>3. TypeOK'
  BY <1>1, <1>2 DEF TypeOK, ListType
<1>4. \A m \in Node : stmtp'[m] = stmtp[m] \/ stmtp'[m] = Null
  BY <1>1 DEF db2CloseStatement, TypeOK
<1>5. NodeInv'
  BY <1>1, <1>4 DEF HInv, NodeInv
<1> QED BY <1>2, <1>3, <1>5 DEF HInv

LEMMA EndScanKeeps ==
  ASSUME HInv, NEW n \in Node, db2EndForeignScan(n)
  PROVE  HInv'
<1>1. /\ TypeOK /\ db2CloseStatement(n) /\ began' = [began EXCEPT ![n] = 0]
      /\ phase' = phase /\ is_commit' = is_commit /\ nest' = nest
      /\ xact_level' = xact_level
  BY DEF HInv, db2EndForeignScan, xactVars
<1>2. ListType' /\ stmtp' \in [Node -> Ptr] /\ ListInv'
  BY <1>1, CloseType, CloseList DEF HInv
<1>3. TypeOK'
  <2>1. began' \in [Node -> 0 .. MaxNest]
    <3>1. 0 \in 0 .. MaxNest /\ began \in [Node -> 0 .. MaxNest]
      BY <1>1, NestFacts DEF TypeOK
    <3> QED BY <1>1, <3>1
  <2> QED BY <1>1, <1>2, <2>1 DEF TypeOK, ListType
<1>4. \A m \in Node : /\ stmtp'[m] = IF m = n THEN Null ELSE stmtp[m]
                      /\ began'[m] = IF m = n THEN 0 ELSE began[m]
  BY <1>1 DEF db2CloseStatement, TypeOK
<1>5. NodeInv'
  BY <1>1, <1>4 DEF HInv, NodeInv
<1> QED BY <1>2, <1>3, <1>5 DEF HInv

LEMMA TemporaryKeeps ==
  ASSUME HInv, TemporaryHandleFails
  PROVE  HInv'
<1>1. TypeOK /\ nest >= 1 /\ phase = "run"
  BY DEF HInv, NodeInv, TemporaryHandleFails, Executing
<1>2. /\ phase' = "error" /\ nest' = nest /\ is_commit' = is_commit
      /\ began' = began /\ stmtp' = stmtp
      /\ xact_level' \in 1 .. nest
  BY DEF TemporaryHandleFails
<1>3. PICK h \in Hdl : db2AllocStmtHdl(h)
  BY DEF TemporaryHandleFails
<1>4. ListType'
  BY <1>1, <1>3, AllocType
<1>5. xact_level' \in Nat /\ xact_level' >= 1 /\ xact_level' <= MaxNest
  BY <1>1, <1>2, NestFacts
<1>6. TypeOK'
  BY <1>1, <1>2, <1>4, <1>5, NestFacts DEF TypeOK, ListType
<1>7. NodeInv'
  BY <1>1, <1>2, <1>5 DEF HInv, NodeInv
<1>8. ListInv'
  <2>1. CASE secondFreed
    BY <1>3, <2>1 DEF db2AllocStmtHdl, ListInv
  <2>2. CASE ~secondFreed
    <3>1. \A n \in Node : stmtp[n] # h
      <4>1. \A n \in Node : stmtp[n] # Null => stmtp[n] \in malloced
        BY <2>2 DEF HInv, ListInv
      <4>2. h \notin malloced /\ h # Null
        BY <1>3, HandleAssumption DEF db2AllocStmtHdl
      <4> QED BY <4>1, <4>2
    <3> QED BY <1>1, <1>2, <1>3, <1>5, <3>1, AllocList DEF HInv
  <2> QED BY <2>1, <2>2
<1> QED BY <1>6, <1>7, <1>8 DEF HInv

\* The transaction goes on at another level; no list is touched.
LEMMA LevelKeeps ==
  ASSUME HInv, Begin \/ SubBegin \/ SubCommit \/ StartCommit
  PROVE  HInv'
<1>1. TypeOK /\ NodeInv
  BY DEF HInv
<1>2. UNCHANGED listVars /\ stmtp' = stmtp /\ is_commit' \in BOOLEAN
  BY <1>1 DEF Begin, SubBegin, SubCommit, StartCommit, TypeOK
<1>3. /\ nest' \in 0 .. MaxNest /\ xact_level' \in 0 .. MaxNest
      /\ (nest' >= 1) /\ (xact_level' = 0 <=> xact_level = 0)
      /\ phase' \in {"run", "ending"}
      /\ phase' = "ending" => \A n \in Node : began[n] = 0 /\ began' = began
  <2>1. CASE Begin
    BY <1>1, <2>1, NestFacts DEF Begin
  <2>2. CASE SubBegin
    BY <1>1, <2>2, NestFacts DEF SubBegin, Executing, NodeInv
  <2>3. CASE SubCommit
    BY <1>1, <2>3, NestFacts DEF SubCommit, Executing
  <2>4. CASE StartCommit
    BY <1>1, <2>4, NestFacts DEF StartCommit, Executing
  <2> QED BY <2>1, <2>2, <2>3, <2>4
<1>4. /\ began' \in [Node -> 0 .. MaxNest]
      /\ \A n \in Node : began'[n] = 0 <=> began[n] = 0
  <2>1. began \in [Node -> 0 .. MaxNest]
    BY <1>1 DEF TypeOK
  <2>2. CASE Begin \/ SubBegin \/ StartCommit
    <3>1. began' = began
      BY <2>2 DEF Begin, SubBegin, StartCommit
    <3> QED BY <2>1, <3>1
  <2>3. CASE SubCommit
    <3>1. began' = [s \in Node |-> IF began[s] = nest THEN nest - 1 ELSE began[s]] /\ nest > 1
      BY <2>3 DEF SubCommit
    <3>2. nest - 1 \in 0 .. MaxNest /\ nest # 0 /\ nest - 1 # 0
      BY <1>1, <3>1, NestFacts
    <3>3. \A n \in Node : began'[n] = IF began[n] = nest THEN nest - 1 ELSE began[n]
      BY <3>1
    <3>4. began' \in [Node -> 0 .. MaxNest]
      BY <2>1, <3>1, <3>2
    <3> QED BY <3>2, <3>3, <3>4
  <2> QED BY <2>2, <2>3
<1>5. TypeOK'
  BY <1>1, <1>2, <1>3, <1>4 DEF TypeOK, listVars
<1>6. NodeInv'
  <2>1. \A n \in Node : /\ began'[n] = 0 => stmtp'[n] = Null
                        /\ began'[n] > 0 => xact_level' >= 1
    <3>1. \A n \in Node : began'[n] \in Nat /\ began[n] \in Nat
      BY <1>1, <1>4, NestFacts
    <3>2. xact_level \in Nat /\ xact_level' \in Nat
      BY <1>1, <1>3, NestFacts
    <3>3. \A n \in Node : /\ began[n] = 0 => stmtp[n] = Null
                          /\ began[n] # 0 => xact_level # 0
      BY <1>1, <3>1, <3>2 DEF NodeInv
    <3> QED BY <1>2, <1>3, <1>4, <3>1, <3>2, <3>3
  <2> QED BY <1>3, <2>1 DEF NodeInv
<1>7. ListInv'
  BY <1>1, <1>2, <1>3, KeepList DEF HInv
<1> QED BY <1>5, <1>6, <1>7 DEF HInv

\* Statements of an aborted level are forgotten, and stay in the list.
LEMMA AbandonKeeps ==
  ASSUME TypeOK, NodeInv, Abandon
  PROVE  /\ began' \in [Node -> 0 .. MaxNest] /\ stmtp' \in [Node -> Ptr]
         /\ \A n \in Node : /\ stmtp'[n] \in {stmtp[n], Null}
                            /\ began'[n] \in {began[n], 0}
                            /\ began[n] >= nest => began'[n] = 0
                            /\ began'[n] = 0 => stmtp'[n] = Null
<1>1. /\ began' = [s \in Node |-> IF began[s] >= nest THEN 0 ELSE began[s]]
      /\ stmtp' = [s \in Node |-> IF began[s] >= nest THEN Null ELSE stmtp[s]]
  BY DEF Abandon
<1>2. began \in [Node -> 0 .. MaxNest] /\ stmtp \in [Node -> Ptr] /\ Null \in Ptr
  BY DEF TypeOK, Ptr
<1>3. 0 \in 0 .. MaxNest
  BY NestFacts
<1>4. began' \in [Node -> 0 .. MaxNest] /\ stmtp' \in [Node -> Ptr]
  BY <1>1, <1>2, <1>3
<1>5. \A n \in Node : began[n] = 0 => stmtp[n] = Null
  BY DEF NodeInv
<1> QED BY <1>1, <1>4, <1>5

LEMMA EndSubKeeps ==
  ASSUME HInv, db2EndSubtransaction
  PROVE  HInv'
<1>1. TypeOK /\ NodeInv /\ nest > 1
  BY DEF HInv, db2EndSubtransaction
<1>2. /\ began' \in [Node -> 0 .. MaxNest] /\ stmtp' \in [Node -> Ptr]
      /\ \A n \in Node : /\ stmtp'[n] \in {stmtp[n], Null}
                         /\ began'[n] \in {began[n], 0}
                         /\ began'[n] = 0 => stmtp'[n] = Null
  BY <1>1, AbandonKeeps DEF db2EndSubtransaction
<1>3. /\ phase' \in {"run", "error"} /\ nest' \in {nest, nest - 1}
      /\ is_commit' = is_commit
      /\ xact_level' = IF xact_level >= nest THEN nest - 1 ELSE xact_level
  BY DEF db2EndSubtransaction
<1>4. /\ nest' \in 0 .. MaxNest /\ nest' >= 1
      /\ xact_level' \in 0 .. MaxNest /\ (xact_level' = 0 <=> xact_level = 0)
  BY <1>1, <1>3, NestFacts
<1>5. NodeInv'
  <2>1. \A n \in Node : began'[n] > 0 => xact_level' >= 1
    <3>1. \A n \in Node : began[n] > 0 => xact_level # 0
      BY <1>1, NestFacts DEF NodeInv
    <3>2. \A n \in Node : began[n] \in Nat /\ began'[n] \in Nat /\ xact_level' \in Nat
      BY <1>1, <1>2, <1>4, NestFacts
    <3> QED BY <1>2, <1>4, <3>1, <3>2
  <2> QED BY <1>2, <1>3, <1>4, <2>1 DEF NodeInv
<1>6. CASE UNCHANGED listVars
  <2>1. ListType'
    BY <1>1, <1>6 DEF TypeOK, ListType, listVars
  <2>2. ListInv'
    BY <1>2, <1>4, <1>6, KeepList DEF HInv
  <2>3. TypeOK'
    BY <1>1, <1>2, <1>3, <1>4, <2>1 DEF TypeOK, ListType
  <2> QED BY <1>5, <2>2, <2>3 DEF HInv
<1>7. CASE xact_level >= nest /\ \E h \in Hdl : db2AllocStmtHdl(h)
  <2>1. PICK h \in Hdl : db2AllocStmtHdl(h)
    BY <1>7
  <2>2. ListType'
    BY <1>1, <2>1, AllocType
  <2>3. xact_level' # 0
    BY <1>1, <1>4, <1>7, NestFacts
  <2>4. ListInv'
    <3>1. CASE secondFreed
      BY <2>1, <3>1 DEF db2AllocStmtHdl, ListInv
    <3>2. CASE ~secondFreed
      <4>1. h \notin malloced /\ h # Null
        BY <2>1, HandleAssumption DEF db2AllocStmtHdl
      <4>2. \A n \in Node : stmtp[n] # h
        BY <3>2, <4>1 DEF HInv, ListInv
      <4>3. \A n \in Node : stmtp'[n] # h
        BY <1>2, <4>1, <4>2
      <4> QED BY <1>1, <1>2, <2>1, <2>3, <4>3, AllocList DEF HInv
    <3> QED BY <3>1, <3>2
  <2>5. TypeOK'
    BY <1>1, <1>2, <1>3, <1>4, <2>2 DEF TypeOK, ListType
  <2> QED BY <1>5, <2>4, <2>5 DEF HInv
<1> QED BY <1>6, <1>7 DEF db2EndSubtransaction

LEMMA StartAbortKeeps ==
  ASSUME HInv, StartAbort
  PROVE  HInv'
<1>1. TypeOK /\ NodeInv
  BY DEF HInv
<1>2. /\ began' \in [Node -> 0 .. MaxNest] /\ stmtp' \in [Node -> Ptr]
      /\ \A n \in Node : /\ stmtp'[n] \in {stmtp[n], Null}
                         /\ began'[n] \in {began[n], 0}
                         /\ began[n] >= nest => began'[n] = 0
                         /\ began'[n] = 0 => stmtp'[n] = Null
  BY <1>1, AbandonKeeps DEF StartAbort
<1>3. /\ phase' = "ending" /\ nest' = 1 /\ nest = 1 /\ is_commit' = FALSE
      /\ xact_level' = xact_level /\ UNCHANGED listVars
  BY DEF StartAbort
<1>4. \A n \in Node : began'[n] = 0
  <2>1. \A n \in Node : began[n] \in Nat
    BY <1>1, NestFacts
  <2> QED BY <1>2, <1>3, <2>1
<1>5. TypeOK'
  BY <1>1, <1>2, <1>3 DEF TypeOK, listVars
<1>6. NodeInv'
  BY <1>2, <1>3, <1>4 DEF NodeInv
<1>7. ListInv'
  BY <1>1, <1>2, <1>3, KeepList DEF HInv
<1> QED BY <1>5, <1>6, <1>7 DEF HInv

\* db2EndTransaction takes the first block, so the list stays one.
LEMMA ReleaseKeeps ==
  ASSUME HInv, ReleaseHandle
  PROVE  HInv'
<1>1. /\ TypeOK /\ NodeInv /\ ListInv /\ handlelist \in Hdl /\ db2FreeStmtHdl(handlelist)
      /\ phase = "ending" /\ UNCHANGED <<xactVars, began, stmtp>>
  BY DEF HInv, TypeOK, Ptr, ReleaseHandle
<1>2. ListType' /\ (secondFreed => secondFreed')
  BY <1>1, FreeType
<1>3. TypeOK'
  BY <1>1, <1>2 DEF TypeOK, ListType, xactVars
<1>4. NodeInv'
  BY <1>1 DEF NodeInv, xactVars
<1>5. ASSUME ~secondFreed'
      PROVE  /\ memory' = "ok"
             /\ \E t \in Seq(Hdl) : Chain(t)'
             /\ \A n \in Node : stmtp'[n] = Null
             /\ xact_level' = 0 => malloced' = {}
  <2>1. ~secondFreed
    BY <1>2, <1>5
  <2>2. PICK s \in Seq(Hdl) : Chain(s)
    BY <1>1, <2>1 DEF ListInv
  <2>3. handlelist \in malloced
    <3>1. Len(s) \in Nat /\ Len(s) # 0
      BY <1>1, <2>2, HandleAssumption DEF Chain
    <3>2. 1 \in 1 .. Len(s) /\ handlelist = s[1]
      BY <2>2, <3>1 DEF Chain
    <3> QED BY <2>2, <3>2 DEF Chain
  <2>4. memory' = "ok" /\ malloced' = malloced \ {handlelist} /\ \E t \in Seq(Hdl) : Chain(t)'
    BY <1>1, <1>5, <2>3, FreeList
  <2>5. \A n \in Node : stmtp'[n] = Null
    BY <1>1 DEF NodeInv
  <2>6. xact_level' = 0 => malloced' = {}
    BY <1>1, <2>1, <2>4 DEF ListInv, xactVars
  <2> QED BY <2>4, <2>5, <2>6
<1>6. ListInv'
  BY <1>5 DEF ListInv
<1> QED BY <1>3, <1>4, <1>6 DEF HInv

LEMMA EndTransactionKeeps ==
  ASSUME HInv, db2EndTransaction
  PROVE  HInv'
<1>1. /\ TypeOK /\ NodeInv /\ ListInv /\ phase = "ending" /\ is_commit' = is_commit
      /\ began' = began /\ stmtp' = stmtp /\ UNCHANGED listVars
      /\ xact_level > 0 => handlelist = Null
      /\ \/ phase' = "idle" /\ nest' = 0 /\ xact_level' = 0
         \/ phase' = "error" /\ nest' = nest /\ xact_level' = xact_level
  BY DEF HInv, db2EndTransaction
<1>2. nest' \in 0 .. MaxNest /\ xact_level' \in 0 .. MaxNest
  BY <1>1, NestFacts
<1>3. TypeOK'
  BY <1>1, <1>2 DEF TypeOK, listVars
<1>4. NodeInv'
  BY <1>1 DEF NodeInv
<1>5. ASSUME secondFreed PROVE ListInv'
  BY <1>1, <1>5 DEF ListInv, listVars
<1>6. ASSUME ~secondFreed PROVE ListInv'
  <2>1. xact_level > 0 => malloced = {}
    <3>1. PICK s \in Seq(Hdl) : Chain(s)
      BY <1>1, <1>6 DEF ListInv
    <3>2. ASSUME xact_level > 0 PROVE malloced = {}
      <4>1. Len(s) = 0
        <5>1. SUFFICES ASSUME Len(s) # 0 PROVE FALSE
          OBVIOUS
        <5>2. Len(s) \in Nat /\ 1 \in 1 .. Len(s) /\ handlelist = s[1]
          BY <3>1, <5>1 DEF Chain
        <5>3. s[1] \in Hdl
          BY <5>2
        <5> QED BY <1>1, <3>2, <5>2, <5>3, HandleAssumption
      <4> QED BY <3>1, <4>1 DEF Chain
    <3> QED BY <3>2
  <2>2. xact_level \in Nat
    BY <1>1, NestFacts
  <2>3. malloced = {}
    BY <1>1, <1>6, <2>1, <2>2 DEF ListInv
  <2> QED BY <1>1, <2>3, KeepList
<1>7. ListInv'
  BY <1>5, <1>6
<1> QED BY <1>3, <1>4, <1>7 DEF HInv

LEMMA StutterKeeps ==
  ASSUME HInv, UNCHANGED vars
  PROVE  HInv'
<1>1. /\ TypeOK /\ ListInv /\ UNCHANGED listVars /\ stmtp' = stmtp /\ xact_level' = xact_level
  BY DEF HInv, vars, xactVars
<1>2. TypeOK'
  BY <1>1 DEF TypeOK, vars, xactVars, listVars
<1>3. NodeInv'
  BY DEF HInv, NodeInv, vars, xactVars
<1>4. ListInv'
  BY <1>1, KeepList
<1> QED BY <1>2, <1>3, <1>4 DEF HInv

\* The invariant holds in every reachable state.
LEMMA HandlesInvariant == Spec => []HInv
<1>1. HInv /\ [Next]_vars => HInv'
  <2> SUFFICES ASSUME HInv, [Next]_vars PROVE HInv'
    OBVIOUS
  <2>1. ASSUME NEW s \in Scan, db2BeginForeignScan(s) PROVE HInv'
    BY <2>1, BeginScanKeeps
  <2>2. ASSUME NEW s \in Scan, db2IterateForeignScan(s) PROVE HInv'
    BY <2>2, IterateKeeps
  <2>3. ASSUME NEW s \in Scan, db2ReScanForeignScan(s) PROVE HInv'
    BY <2>3, ReScanKeeps
  <2>4. ASSUME NEW s \in Node, db2EndForeignScan(s) PROVE HInv'
    BY <2>4, EndScanKeeps
  <2>5. ASSUME NEW s \in Modify, db2BeginForeignModifyCommon(s) PROVE HInv'
    BY <2>5, BeginModifyKeeps
  <2>6. ASSUME NEW s \in Modify, ExecForeignModifyFails(s) PROVE HInv'
    BY <2>6, ExecFailsKeeps
  <2>7. CASE TemporaryHandleFails
    BY <2>7, TemporaryKeeps
  <2>8. CASE Begin \/ SubBegin \/ SubCommit \/ StartCommit
    BY <2>8, LevelKeeps
  <2>9. CASE db2EndSubtransaction
    BY <2>9, EndSubKeeps
  <2>10. CASE StartAbort
    BY <2>10, StartAbortKeeps
  <2>11. CASE ReleaseHandle
    BY <2>11, ReleaseKeeps
  <2>12. CASE db2EndTransaction
    BY <2>12, EndTransactionKeeps
  <2>13. CASE UNCHANGED vars
    BY <2>13, StutterKeeps
  <2>14. CASE Undefined
    BY <2>14, StutterKeeps DEF Undefined
  <2> QED BY <2>1, <2>2, <2>3, <2>4, <2>5, <2>6, <2>7, <2>8, <2>9, <2>10, <2>11,
             <2>12, <2>13, <2>14 DEF Next, Node
<1> QED BY <1>1, InitHandles, PTL DEF Spec

----------------------------------------------------------------------------
(* The theorems.                                                           *)

\* Handles, pointers and levels stay what db2_fdw.h declares them to be,
\* whatever order the nodes of the plan end in.
THEOREM HandleTypes == Spec => []TypeOK
<1>1. HInv => TypeOK
  BY DEF HInv
<1> QED BY <1>1, HandlesInvariant, PTL

\* As long as no call frees the second entry of the list (the case that
\* db2FreeStmtHdl treats as if it were the first), the list holds exactly the
\* handles in use, and no freed or NULL memory is touched.
THEOREM ListIsExact == Spec => []ListExact
<1>1. HInv => ListExact
  <2> SUFFICES ASSUME HInv, ~secondFreed PROVE memory = "ok" /\ Listed = malloced
    BY DEF ListExact
  <2>1. memory = "ok" /\ \E s \in Seq(Hdl) : Chain(s)
    BY DEF HInv, ListInv
  <2> QED BY <2>1, ChainListed
<1> QED BY <1>1, HandlesInvariant, PTL

\* With the same proviso every open statement of an executing node is in the
\* list, and no two nodes share one.
THEOREM OpenStatementsAreListed == Spec => []OpenIsListedUnlessSecondFreed
<1>1. HInv => OpenIsListedUnlessSecondFreed
  <2> SUFFICES ASSUME HInv, ~secondFreed PROVE OpenIsListed
    BY DEF OpenIsListedUnlessSecondFreed
  <2>1. PICK s \in Seq(Hdl) : Chain(s)
    BY DEF HInv, ListInv
  <2>2. Listed = malloced
    BY <2>1, ChainListed
  <2> QED BY <2>2 DEF HInv, ListInv, OpenIsListed
<1> QED BY <1>1, HandlesInvariant, PTL

\* With the same proviso a connection has no handle left between transactions:
\* db2EndTransaction frees those of failed statements, of abandoned nodes and
\* of aborted subtransactions too.
THEOREM NoHandleIsLeft == Spec => []NoHandleLeft
<1>1. HInv => NoHandleLeft
  BY DEF HInv, NodeInv, ListInv, NoHandleLeft
<1> QED BY <1>1, HandlesInvariant, PTL
=============================================================================
