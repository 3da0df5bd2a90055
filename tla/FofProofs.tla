----------------------------- MODULE FofProofs -----------------------------
(***************************************************************************)
(* Theorems about the friends-of-friends search, for any number of threads *)
(* and particles and whatever tasks there are.                             *)
(***************************************************************************)
EXTENDS Fof, TLAPS, WellFoundedInduction

(* p is inside fof_find. *)
Finding(p) == pc[p] \in {"walk", "compress", "swap", "found"}

(* p has a task, and inside the loops it is in a row of the task. *)
Placed(p) ==
  /\ pc[p] # "idle" => task[p] \in Task
  /\ pc[p] \notin {"idle", "row"} => local[p].row \in 1..Len(Rows[task[p]])

(* A find goes down, and a path that is compressed has at least one link. *)
Below(p) ==
  /\ Finding(p) => /\ local[p].root <= local[p].arg
                   /\ local[p].depth > 0 => local[p].root < local[p].arg
  /\ pc[p] \in {"compress", "swap"} => local[p].depth > 0
  /\ pc[p] \in {"update", "link"} => local[p].new_i # local[p].new_j

(* The invariant that proves types and the direction of the links. *)
IInv ==
  /\ TypeOK
  /\ LinksDescend
  /\ \A p \in Thread : Placed(p) /\ Below(p)

-----------------------------------------------------------------------------
(* The elements of a sequence are in the set it is over. *)
LEMMA ElementOfSeq ==
  ASSUME NEW S, NEW s \in Seq(S), NEW n \in 1..Len(s)
  PROVE  s[n] \in S
  OBVIOUS

(* A row of a task is a particle and a sequence of particles. *)
LEMMA RowType ==
  ASSUME NEW t \in Task, NEW n \in 1..Len(Rows[t])
  PROVE  Rows[t][n].i \in Particle /\ Rows[t][n].js \in Seq(Particle)
<1>1. Rows[t] \in Seq([i : Particle, js : Seq(Particle)])
  BY RowsAssumption
<1>2. Rows[t][n] \in [i : Particle, js : Seq(Particle)]
  BY <1>1, ElementOfSeq
<1> QED
  BY <1>2

(* The locals of a thread without a task have their types. *)
LEMMA FreshType == Fresh \in Local
<1>1. (CHOOSE k \in Particle : TRUE) \in Particle
  BY ParticleAssumption
<1> QED
  BY <1>1 DEF Fresh, Local, min_length

(* The search begins with every particle its own root. *)
LEMMA InitInv == Init => IInv
<1> SUFFICES ASSUME Init PROVE IInv
  OBVIOUS
<1>1. TypeOK
  BY FreshType DEF Init, TypeOK
<1>2. LinksDescend
  <2>1. ASSUME NEW k \in Particle PROVE group_index[k] <= k
    <3>1. k \in Nat
      BY ParticleAssumption
    <3>2. group_index[k] = k
      BY DEF Init
    <3> QED
      BY <3>1, <3>2
  <2> QED
    BY <2>1 DEF LinksDescend
<1>3. ASSUME NEW p \in Thread PROVE Placed(p) /\ Below(p)
  BY DEF Init, Placed, Below, Finding
<1> QED
  BY <1>1, <1>2, <1>3 DEF IInv

-----------------------------------------------------------------------------
(***************************************************************************)
(* A step of thread p that changes only p's entries of pc, ret, local and  *)
(* task leaves the others where they are.                                  *)
(***************************************************************************)
LEMMA OthersKeep ==
  ASSUME TypeOK, NEW p \in Thread, NEW q \in Thread, q # p,
         Placed(q), Below(q),
         pc'[q] = pc[q], task'[q] = task[q], local'[q] = local[q]
  PROVE  Placed(q)' /\ Below(q)'
  BY DEF Placed, Below, Finding

(* What a call of fof_find leaves behind. *)
LEMMA FindKeeps ==
  ASSUME TypeOK, NEW p \in Thread, NEW l \in Local, NEW k \in Particle,
         NEW c \in {"i", "j", "union_i", "union_j"}, Find(p, l, k, c)
  PROVE  /\ local' \in [Thread -> Local]
         /\ ret' \in [Thread -> {"i", "j", "union_i", "union_j"}]
         /\ pc' = [pc EXCEPT ![p] = "walk"]
         /\ local'[p].arg = k /\ local'[p].root = k /\ local'[p].depth = 0
         /\ local'[p].row = l.row
         /\ \A q \in Thread : q # p => local'[q] = local[q]
<1>1. [l EXCEPT !.arg = k, !.root = k, !.depth = 0] \in Local
  <2>1. 0 \in 0..min_length
    BY DEF min_length
  <2> QED
    BY <2>1 DEF Local
<1>2. local' = [local EXCEPT ![p] = [l EXCEPT !.arg = k, !.root = k, !.depth = 0]]
  BY DEF Find
<1>3. local' \in [Thread -> Local]
  BY <1>1, <1>2 DEF TypeOK
<1>4. local'[p] = [l EXCEPT !.arg = k, !.root = k, !.depth = 0]
  BY <1>2 DEF TypeOK
<1>5. \A q \in Thread : q # p => local'[q] = local[q]
  BY <1>2 DEF TypeOK
<1>6. /\ local'[p].arg = k /\ local'[p].root = k /\ local'[p].depth = 0
      /\ local'[p].row = l.row
  BY <1>4 DEF Local
<1>7. /\ ret' \in [Thread -> {"i", "j", "union_i", "union_j"}]
      /\ pc' = [pc EXCEPT ![p] = "walk"]
  BY DEF Find, Goto, TypeOK
<1> QED
  BY <1>3, <1>5, <1>6, <1>7

(* What an assignment to p's local variables leaves behind. *)
LEMMA LocalKeeps ==
  ASSUME TypeOK, NEW p \in Thread, NEW l \in Local,
         local' = [local EXCEPT ![p] = l]
  PROVE  /\ local' \in [Thread -> Local]
         /\ local'[p] = l
         /\ \A q \in Thread : q # p => local'[q] = local[q]
  BY DEF TypeOK

(* One thread's step, put together. *)
LEMMA Assemble ==
  ASSUME IInv, NEW p \in Thread, TypeOK', LinksDescend', Placed(p)', Below(p)',
         \A q \in Thread : q # p =>
           pc'[q] = pc[q] /\ task'[q] = task[q] /\ local'[q] = local[q]
  PROVE  IInv'
<1>1. ASSUME NEW q \in Thread PROVE Placed(q)' /\ Below(q)'
  <2>1. CASE q = p
    BY <2>1
  <2>2. CASE q # p
    BY <2>2, OthersKeep DEF IInv
  <2> QED
    BY <2>1, <2>2
<1> QED
  BY <1>1 DEF IInv

(* Taking a task. *)
LEMMA StartInv ==
  ASSUME IInv, NEW p \in Thread, NEW t \in Task, Start(p, t)
  PROVE  IInv'
<1>1. TypeOK'
  BY DEF IInv, TypeOK, Start, Goto
<1>2. LinksDescend'
  BY DEF IInv, LinksDescend, Start
<1>3. Placed(p)' /\ Below(p)'
  BY DEF IInv, TypeOK, Start, Goto, Placed, Below, Finding
<1>4. \A q \in Thread : q # p =>
        pc'[q] = pc[q] /\ task'[q] = task[q] /\ local'[q] = local[q]
  BY DEF IInv, TypeOK, Start, Goto
<1> QED
  BY <1>1, <1>2, <1>3, <1>4, Assemble

(* The loops. *)
LEMMA NextRowInv ==
  ASSUME IInv, NEW p \in Thread, NextRow(p)
  PROVE  IInv'
<1> DEFINE l == [local[p] EXCEPT !.row = @ + 1, !.col = 0]
           rows == Rows[task[p]]
<1>1. TypeOK /\ task[p] \in Task /\ local[p] \in Local
  BY DEF IInv, TypeOK, NextRow, Placed
<1>2. l \in Local /\ l.row \in Nat \ {0}
  <2>1. local[p].row + 1 \in Nat \ {0}
    BY <1>1 DEF Local
  <2>2. l.row = local[p].row + 1
    BY <1>1 DEF Local
  <2>3. l \in Local
    BY <1>1, <2>1 DEF Local
  <2> QED
    BY <2>1, <2>2, <2>3
<1>3. LinksDescend'
  BY DEF IInv, LinksDescend, NextRow
<1>4. CASE /\ l.row <= Len(rows)
           /\ Find(p, l, group_index[rows[l.row].i], "i")
           /\ UNCHANGED task
  <2>1. l.row \in 1..Len(rows)
    BY <1>1, <1>2, <1>4, RowsAssumption
  <2>2. group_index[rows[l.row].i] \in Particle
    BY <1>1, <2>1, RowType DEF TypeOK
  <2> DEFINE k == group_index[rows[l.row].i]
  <2>3. /\ local' \in [Thread -> Local]
        /\ ret' \in [Thread -> {"i", "j", "union_i", "union_j"}]
        /\ pc' = [pc EXCEPT ![p] = "walk"]
        /\ local'[p].arg = k /\ local'[p].root = k /\ local'[p].depth = 0
        /\ local'[p].row = l.row
        /\ \A q \in Thread : q # p => local'[q] = local[q]
    <3> HIDE DEF l, rows
    <3> QED
      BY <1>1, <1>2, <1>4, <2>2, FindKeeps
  <2> HIDE DEF l
  <2>4. TypeOK'
    BY <1>1, <1>4, <2>3 DEF TypeOK, NextRow
  <2>5. Placed(p)' /\ Below(p)'
    <3>1. pc'[p] = "walk" /\ task'[p] = task[p]
      BY <1>1, <1>4, <2>3 DEF TypeOK
    <3>2. Placed(p)'
      <4>1. UNCHANGED task
        BY <1>4
      <4> QED
        BY <1>1, <2>1, <2>3, <3>1, <4>1 DEF Placed
    <3>3. k \in Nat
      BY <2>2, ParticleAssumption
    <3> HIDE DEF k
    <3>4. Below(p)'
      BY <2>3, <3>1, <3>3 DEF Below, Finding
    <3> QED
      BY <3>2, <3>4
  <2>6. \A q \in Thread : q # p =>
          pc'[q] = pc[q] /\ task'[q] = task[q] /\ local'[q] = local[q]
    BY <1>1, <1>4, <2>3 DEF TypeOK
  <2> QED
    BY <1>3, <2>4, <2>5, <2>6, Assemble
<1>5. CASE /\ l.row > Len(rows)
           /\ Goto(p, "idle")
           /\ task' = [task EXCEPT ![p] = NoTask]
           /\ local' = [local EXCEPT ![p] = Fresh]
           /\ ret' = [ret EXCEPT ![p] = "i"]
  <2>1. TypeOK'
    BY <1>1, <1>5, FreshType DEF TypeOK, NextRow, Goto
  <2>2. Placed(p)' /\ Below(p)'
    BY <1>1, <1>5 DEF TypeOK, Goto, Placed, Below, Finding
  <2>3. \A q \in Thread : q # p =>
          pc'[q] = pc[q] /\ task'[q] = task[q] /\ local'[q] = local[q]
    BY <1>1, <1>5 DEF TypeOK, Goto
  <2> QED
    BY <1>3, <2>1, <2>2, <2>3, Assemble
<1> QED
  BY <1>4, <1>5 DEF NextRow

(* The next j of the row keeps the invariant. *)
LEMMA NextColInv ==
  ASSUME IInv, NEW p \in Thread, NextCol(p)
  PROVE  IInv'
<1> DEFINE l == [local[p] EXCEPT !.col = @ + 1]
           js == Rows[task[p]][l.row].js
<1>1. /\ TypeOK /\ task[p] \in Task /\ local[p] \in Local
      /\ local[p].row \in 1..Len(Rows[task[p]])
  BY DEF IInv, TypeOK, NextCol, Placed
<1>2. l \in Local /\ l.col \in Nat \ {0} /\ l.row = local[p].row
  BY <1>1 DEF Local
<1>3. LinksDescend'
  BY DEF IInv, LinksDescend, NextCol
<1>4. CASE l.col <= Len(js) /\ Find(p, l, group_index[js[l.col]], "j")
  <2> DEFINE k == group_index[js[l.col]]
  <2>1. js \in Seq(Particle)
    BY <1>1, <1>2, RowType
  <2>2. k \in Particle
    <3>1. l.col \in 1..Len(js)
      <4> HIDE DEF l, js
      <4>1. Len(js) \in Nat
        BY <2>1
      <4>2. l.col \in Nat /\ l.col >= 1
        BY <1>2
      <4>3. l.col <= Len(js)
        BY <1>4
      <4> QED
        BY <4>1, <4>2, <4>3
    <3>2. js[l.col] \in Particle
      BY <2>1, <3>1, ElementOfSeq
    <3> QED
      BY <1>1, <3>2 DEF TypeOK
  <2>3. /\ local' \in [Thread -> Local]
        /\ ret' \in [Thread -> {"i", "j", "union_i", "union_j"}]
        /\ pc' = [pc EXCEPT ![p] = "walk"]
        /\ local'[p].arg = k /\ local'[p].root = k /\ local'[p].depth = 0
        /\ local'[p].row = l.row
        /\ \A q \in Thread : q # p => local'[q] = local[q]
    <3> HIDE DEF l, js
    <3> QED
      BY <1>1, <1>2, <1>4, <2>2, FindKeeps
  <2> HIDE DEF l, k
  <2>4. TypeOK'
    BY <1>1, <1>4, <2>3 DEF TypeOK, NextCol
  <2>5. Placed(p)' /\ Below(p)'
    <3>1. pc'[p] = "walk" /\ UNCHANGED task
      BY <1>1, <2>3 DEF TypeOK, NextCol
    <3>2. Placed(p)'
      BY <1>1, <1>2, <2>3, <3>1 DEF Placed
    <3>3. k \in Nat
      BY <2>2, ParticleAssumption
    <3>4. Below(p)'
      BY <2>3, <3>1, <3>3 DEF Below, Finding
    <3> QED
      BY <3>2, <3>4
  <2>6. \A q \in Thread : q # p =>
          pc'[q] = pc[q] /\ task'[q] = task[q] /\ local'[q] = local[q]
    BY <1>1, <2>3 DEF TypeOK, NextCol
  <2> QED
    BY <1>3, <2>4, <2>5, <2>6, Assemble
<1>5. CASE Goto(p, "row") /\ UNCHANGED <<local, ret>>
  <2>1. TypeOK'
    BY <1>1, <1>5 DEF TypeOK, NextCol, Goto
  <2>2. Placed(p)' /\ Below(p)'
    BY <1>1, <1>5 DEF TypeOK, NextCol, Goto, Placed, Below, Finding
  <2>3. \A q \in Thread : q # p =>
          pc'[q] = pc[q] /\ task'[q] = task[q] /\ local'[q] = local[q]
    BY <1>1, <1>5 DEF TypeOK, NextCol, Goto
  <2> QED
    BY <1>3, <2>1, <2>2, <2>3, Assemble
<1> QED
  BY <1>4, <1>5 DEF NextCol

(* fof_find: the walk goes down. *)
LEMMA WalkInv ==
  ASSUME IInv, NEW p \in Thread, Walk(p)
  PROVE  IInv'
<1> DEFINE l == local[p]
           parent == group_index[l.root]
           d == IF l.depth < min_length THEN l.depth + 1 ELSE l.depth
<1>1. /\ TypeOK /\ l \in Local /\ pc[p] = "walk"
      /\ task[p] \in Task /\ l.row \in 1..Len(Rows[task[p]])
  BY DEF IInv, TypeOK, Walk, Placed
<1>2. /\ l.root \in Particle /\ parent \in Particle
      /\ l.root \in Nat /\ parent \in Nat /\ l.arg \in Nat
  BY <1>1, ParticleAssumption DEF TypeOK, Local
<1>3. l.root <= l.arg /\ (l.depth > 0 => l.root < l.arg)
  BY <1>1 DEF IInv, Below, Finding
<1>4. parent <= l.root
  BY <1>2 DEF IInv, LinksDescend
<1>5. LinksDescend'
  BY DEF IInv, LinksDescend, Walk
<1>6. CASE /\ parent # l.root
           /\ local' = [local EXCEPT ![p] = [l EXCEPT !.root = parent, !.depth = d]]
           /\ UNCHANGED pc
  <2>1. d \in 0..min_length
    BY <1>1 DEF Local, min_length
  <2>2. [l EXCEPT !.root = parent, !.depth = d] \in Local
    <3> HIDE DEF d, parent
    <3> QED
      BY <1>1, <1>2, <2>1 DEF Local
  <2>3. /\ local' \in [Thread -> Local]
        /\ local'[p] = [l EXCEPT !.root = parent, !.depth = d]
        /\ \A q \in Thread : q # p => local'[q] = local[q]
    BY <1>1, <1>6, <2>2, LocalKeeps
  <2>4. /\ local'[p].root = parent /\ local'[p].arg = l.arg
        /\ local'[p].row = l.row
    BY <1>1, <2>3 DEF Local
  <2>5. TypeOK'
    BY <1>1, <1>6, <2>3 DEF TypeOK, Walk
  <2>6. pc'[p] = "walk" /\ UNCHANGED task
    BY <1>1, <1>6 DEF Walk
  <2>7. Placed(p)'
    BY <1>1, <2>4, <2>6 DEF Placed
  <2>8. parent < l.arg
    <3> HIDE DEF parent, l
    <3> QED
      BY <1>2, <1>3, <1>4, <1>6
  <2>9. Below(p)'
    <3> HIDE DEF parent, l
    <3> QED
      BY <1>2, <2>4, <2>6, <2>8 DEF Below, Finding
  <2> QED
    BY <1>5, <1>6, <2>3, <2>5, <2>6, <2>7, <2>9, Assemble
<1>7. CASE /\ Goto(p, IF l.depth >= min_length THEN "compress" ELSE "found")
           /\ UNCHANGED local
  <2>1. TypeOK'
    BY <1>1, <1>7 DEF TypeOK, Walk, Goto
  <2>2. Placed(p)' /\ Below(p)'
    BY <1>1, <1>3, <1>7
    DEF TypeOK, Walk, Goto, Placed, Below, Finding, Local, min_length
  <2>3. \A q \in Thread : q # p =>
          pc'[q] = pc[q] /\ task'[q] = task[q] /\ local'[q] = local[q]
    BY <1>1, <1>7 DEF TypeOK, Walk, Goto
  <2> QED
    BY <1>5, <2>1, <2>2, <2>3, Assemble
<1> QED
  BY <1>6, <1>7 DEF Walk

(* Reading the value to swap keeps the invariant. *)
LEMMA CompressInv ==
  ASSUME IInv, NEW p \in Thread, Compress(p)
  PROVE  IInv'
<1> DEFINE l == local[p]
           v == group_index[l.arg]
<1>1. /\ TypeOK /\ l \in Local /\ pc[p] = "compress"
      /\ task[p] \in Task /\ l.row \in 1..Len(Rows[task[p]])
      /\ l.root <= l.arg /\ (l.depth > 0 => l.root < l.arg) /\ l.depth > 0
  BY DEF IInv, TypeOK, Compress, Placed, Below, Finding
<1>2. v \in Particle
  BY <1>1 DEF TypeOK, Local
<1>3. [l EXCEPT !.seen = v] \in Local
  BY <1>1, <1>2 DEF Local
<1>4. local' = [local EXCEPT ![p] = [l EXCEPT !.seen = v]]
  BY DEF Compress
<1>5. /\ local' \in [Thread -> Local]
      /\ local'[p] = [l EXCEPT !.seen = v]
      /\ \A q \in Thread : q # p => local'[q] = local[q]
  BY <1>1, <1>3, <1>4, LocalKeeps
<1>6. /\ local'[p].root = l.root /\ local'[p].arg = l.arg
      /\ local'[p].depth = l.depth /\ local'[p].row = l.row
  BY <1>1, <1>5 DEF Local
<1>7. TypeOK'
  BY <1>1, <1>5 DEF TypeOK, Compress, Goto
<1>8. pc' = [pc EXCEPT ![p] = "swap"] /\ pc'[p] = "swap" /\ UNCHANGED task
  BY <1>1 DEF TypeOK, Compress, Goto
<1>9. Placed(p)' /\ Below(p)'
  BY <1>1, <1>6, <1>8 DEF Placed, Below, Finding
<1>10. LinksDescend'
  BY DEF IInv, LinksDescend, Compress
<1>11. \A q \in Thread : q # p =>
         pc'[q] = pc[q] /\ task'[q] = task[q] /\ local'[q] = local[q]
  BY <1>1, <1>5, <1>8 DEF TypeOK
<1> QED
  BY <1>7, <1>9, <1>10, <1>11, Assemble

(* The compressed path still goes down. *)
LEMMA SwapInv ==
  ASSUME IInv, NEW p \in Thread, Swap(p)
  PROVE  IInv'
<1> DEFINE l == local[p]
<1>1. /\ TypeOK /\ l \in Local /\ pc[p] = "swap"
      /\ l.root <= l.arg /\ (l.depth > 0 => l.root < l.arg) /\ l.depth > 0
  BY DEF IInv, TypeOK, Swap, Below, Finding
<1>2. l.root \in Particle /\ l.arg \in Particle /\ l.root \in Nat /\ l.arg \in Nat
  BY <1>1, ParticleAssumption DEF Local
<1>3. group_index' = [group_index EXCEPT ![l.arg] =
                        IF group_index[l.arg] = l.seen THEN l.root ELSE group_index[l.arg]]
  BY DEF Swap
<1>4. group_index' \in [Particle -> Particle]
  BY <1>1, <1>2, <1>3 DEF TypeOK
<1>5. TypeOK'
  BY <1>1, <1>4 DEF TypeOK, Swap, Goto
<1>6. ASSUME NEW k \in Particle PROVE group_index'[k] <= k
  <2>1. group_index[k] <= k
    BY DEF IInv, LinksDescend
  <2>2. CASE k = l.arg
    <3>1. group_index'[k] \in {l.root, group_index[k]}
      BY <1>1, <1>3, <2>2 DEF TypeOK
    <3> HIDE DEF l
    <3> QED
      BY <1>1, <1>2, <2>1, <2>2, <3>1
  <2>3. CASE k # l.arg
    BY <1>1, <1>3, <2>1, <2>3 DEF TypeOK
  <2> QED
    BY <2>2, <2>3
<1>7. LinksDescend'
  BY <1>6 DEF LinksDescend
<1>8. Placed(p)' /\ Below(p)'
  BY <1>1 DEF IInv, TypeOK, Swap, Goto, Placed, Below, Finding
<1>9. \A q \in Thread : q # p =>
        pc'[q] = pc[q] /\ task'[q] = task[q] /\ local'[q] = local[q]
  BY <1>1 DEF TypeOK, Swap, Goto
<1> QED
  BY <1>5, <1>7, <1>8, <1>9, Assemble

(* The returns of fof_find that only keep a root. *)
LEMMA FoundIInv ==
  ASSUME IInv, NEW p \in Thread, FoundI(p)
  PROVE  IInv'
<1> DEFINE l == [local[p] EXCEPT !.root_i = local[p].root]
<1>1. /\ TypeOK /\ local[p] \in Local /\ pc[p] = "found"
      /\ task[p] \in Task /\ local[p].row \in 1..Len(Rows[task[p]])
  BY DEF IInv, TypeOK, FoundI, Placed
<1>2. l \in Local /\ l.row = local[p].row
  BY <1>1 DEF Local
<1>3. local' = [local EXCEPT ![p] = l]
  BY DEF FoundI
<1>4. /\ local' \in [Thread -> Local]
      /\ local'[p] = l
      /\ \A q \in Thread : q # p => local'[q] = local[q]
  <2> HIDE DEF l
  <2> QED
    BY <1>1, <1>2, <1>3, LocalKeeps
<1>5. pc' = [pc EXCEPT ![p] = "col"] /\ pc'[p] = "col" /\ UNCHANGED task
  BY <1>1 DEF TypeOK, FoundI, Goto
<1>6. TypeOK'
  BY <1>1, <1>4 DEF TypeOK, FoundI, Goto
<1>7. Placed(p)' /\ Below(p)'
  <2> HIDE DEF l
  <2> QED
    BY <1>1, <1>2, <1>4, <1>5 DEF Placed, Below, Finding
<1>8. LinksDescend'
  BY DEF IInv, LinksDescend, FoundI
<1>9. \A q \in Thread : q # p =>
        pc'[q] = pc[q] /\ task'[q] = task[q] /\ local'[q] = local[q]
  BY <1>1, <1>4, <1>5 DEF TypeOK
<1> QED
  BY <1>6, <1>7, <1>8, <1>9, Assemble

(***************************************************************************)
(* A call of fof_find on any particle from inside a row.                   *)
(***************************************************************************)
LEMMA CallInv ==
  ASSUME IInv, NEW p \in Thread, NEW l \in Local, NEW k \in Particle,
         NEW c \in {"i", "j", "union_i", "union_j"}, Find(p, l, k, c),
         pc[p] \notin {"idle", "row"}, l.row = local[p].row,
         raced' \in BOOLEAN, UNCHANGED <<group_index, todo, task>>
  PROVE  IInv'
<1>1. /\ TypeOK /\ task[p] \in Task
      /\ local[p].row \in 1..Len(Rows[task[p]])
  BY DEF IInv, Placed
<1>2. /\ local' \in [Thread -> Local]
      /\ ret' \in [Thread -> {"i", "j", "union_i", "union_j"}]
      /\ pc' = [pc EXCEPT ![p] = "walk"]
      /\ local'[p].arg = k /\ local'[p].root = k /\ local'[p].depth = 0
      /\ local'[p].row = l.row
      /\ \A q \in Thread : q # p => local'[q] = local[q]
  BY <1>1, FindKeeps
<1>3. TypeOK'
  BY <1>1, <1>2 DEF TypeOK
<1>4. pc'[p] = "walk"
  BY <1>1, <1>2 DEF TypeOK
<1>5. Placed(p)'
  BY <1>1, <1>2, <1>4 DEF Placed
<1>6. k \in Nat
  BY ParticleAssumption
<1>7. Below(p)'
  BY <1>2, <1>4, <1>6 DEF Below, Finding
<1>8. LinksDescend'
  BY DEF IInv, LinksDescend
<1>9. \A q \in Thread : q # p =>
        pc'[q] = pc[q] /\ task'[q] = task[q] /\ local'[q] = local[q]
  BY <1>1, <1>2 DEF TypeOK
<1> QED
  BY <1>3, <1>5, <1>7, <1>8, <1>9, Assemble

(* Starting a union, or skipping the particle, keeps the invariant. *)
LEMMA FoundJInv ==
  ASSUME IInv, NEW p \in Thread, FoundJ(p)
  PROVE  IInv'
<1> DEFINE l == [local[p] EXCEPT !.root_j = local[p].root]
<1>1. /\ TypeOK /\ local[p] \in Local /\ pc[p] = "found"
      /\ task[p] \in Task /\ local[p].row \in 1..Len(Rows[task[p]])
      /\ UNCHANGED <<group_index, todo, task, raced>>
  BY DEF IInv, TypeOK, FoundJ, Placed
<1>2. l \in Local /\ l.row = local[p].row /\ l.root_i \in Particle
  BY <1>1 DEF Local
<1>3. CASE Find(p, l, l.root_i, "union_i")
  <2>1. raced' \in BOOLEAN
    BY <1>1 DEF TypeOK
  <2>2. pc[p] \notin {"idle", "row"}
    BY <1>1
  <2> HIDE DEF l
  <2> QED
    BY <1>1, <1>2, <1>3, <2>1, <2>2, CallInv
<1>4. CASE local' = [local EXCEPT ![p] = l] /\ Goto(p, "col") /\ UNCHANGED ret
  <2>1. /\ local' \in [Thread -> Local]
        /\ local'[p] = l
        /\ \A q \in Thread : q # p => local'[q] = local[q]
    <3> HIDE DEF l
    <3> QED
      BY <1>1, <1>2, <1>4, LocalKeeps
  <2> HIDE DEF l
  <2>2. pc' = [pc EXCEPT ![p] = "col"] /\ pc'[p] = "col"
    BY <1>1, <1>4 DEF TypeOK, Goto
  <2>3. TypeOK'
    BY <1>1, <1>4, <2>1, <2>2 DEF TypeOK
  <2>4. Placed(p)' /\ Below(p)'
    BY <1>1, <1>2, <2>1, <2>2 DEF Placed, Below, Finding
  <2>5. LinksDescend'
    BY <1>1 DEF IInv, LinksDescend
  <2>6. \A q \in Thread : q # p =>
          pc'[q] = pc[q] /\ task'[q] = task[q] /\ local'[q] = local[q]
    BY <1>1, <2>1, <2>2 DEF TypeOK
  <2> QED
    BY <2>3, <2>4, <2>5, <2>6, Assemble
<1> QED
  BY <1>3, <1>4 DEF FoundJ

(* The return of fof_union's first find keeps the invariant. *)
LEMMA FoundUnionIInv ==
  ASSUME IInv, NEW p \in Thread, FoundUnionI(p)
  PROVE  IInv'
<1> DEFINE l == [local[p] EXCEPT !.new_i = local[p].root]
<1>1. /\ TypeOK /\ local[p] \in Local /\ pc[p] = "found"
      /\ UNCHANGED <<group_index, todo, task, raced>>
      /\ Find(p, l, local[p].root_j, "union_j")
  BY DEF IInv, TypeOK, FoundUnionI
<1>2. l \in Local /\ l.row = local[p].row /\ local[p].root_j \in Particle
  BY <1>1 DEF Local
<1>3. raced' \in BOOLEAN /\ pc[p] \notin {"idle", "row"}
  BY <1>1 DEF TypeOK
<1> HIDE DEF l
<1> QED
  BY <1>1, <1>2, <1>3, CallInv

(* The return of its second find does: an update's two roots differ. *)
LEMMA FoundUnionJInv ==
  ASSUME IInv, NEW p \in Thread, FoundUnionJ(p)
  PROVE  IInv'
<1> DEFINE l == [local[p] EXCEPT !.new_j = local[p].root]
<1>1. /\ TypeOK /\ local[p] \in Local /\ pc[p] = "found"
      /\ task[p] \in Task /\ local[p].row \in 1..Len(Rows[task[p]])
      /\ UNCHANGED <<group_index, todo, task, ret, raced>>
      /\ local' = [local EXCEPT ![p] = l]
      /\ Goto(p, IF l.new_i = l.new_j THEN "col" ELSE "update")
  BY DEF IInv, TypeOK, FoundUnionJ, Placed
<1>2. l \in Local /\ l.row = local[p].row
  BY <1>1 DEF Local
<1> HIDE DEF l
<1>3. /\ local' \in [Thread -> Local]
      /\ local'[p] = l
      /\ \A q \in Thread : q # p => local'[q] = local[q]
  BY <1>1, <1>2, LocalKeeps
<1>4. pc'[p] = IF l.new_i = l.new_j THEN "col" ELSE "update"
  BY <1>1 DEF TypeOK, Goto
<1>5. TypeOK'
  BY <1>1, <1>3 DEF TypeOK, Goto
<1>6. Placed(p)' /\ Below(p)'
  BY <1>1, <1>2, <1>3, <1>4 DEF Placed, Below, Finding
<1>7. LinksDescend'
  BY <1>1 DEF IInv, LinksDescend
<1>8. \A q \in Thread : q # p =>
        pc'[q] = pc[q] /\ task'[q] = task[q] /\ local'[q] = local[q]
  BY <1>1, <1>3 DEF TypeOK, Goto
<1> QED
  BY <1>5, <1>6, <1>7, <1>8, Assemble

-----------------------------------------------------------------------------
(* Of two different roots one is smaller. *)
LEMMA Ordered ==
  ASSUME NEW l \in Local, l.new_i # l.new_j
  PROVE  /\ Larger(l) \in Particle /\ Smaller(l) \in Particle
         /\ Smaller(l) < Larger(l)
<1>1. /\ l.new_i \in Particle /\ l.new_j \in Particle
      /\ l.new_i \in Nat /\ l.new_j \in Nat
  BY ParticleAssumption DEF Local
<1> QED
  BY <1>1 DEF Larger, Smaller

(* The read of atomic_update_root keeps the invariant. *)
LEMMA UpdateInv ==
  ASSUME IInv, NEW p \in Thread, Update(p)
  PROVE  IInv'
<1> DEFINE v == group_index[Larger(local[p])]
           l == [local[p] EXCEPT !.seen = v]
<1>1. /\ TypeOK /\ local[p] \in Local /\ pc[p] = "update"
      /\ task[p] \in Task /\ local[p].row \in 1..Len(Rows[task[p]])
      /\ local[p].new_i # local[p].new_j
      /\ UNCHANGED <<group_index, todo, task, ret, raced>>
  BY DEF IInv, TypeOK, Update, Placed, Below
<1>2. local' = [local EXCEPT ![p] = l] /\ Goto(p, "link")
  BY DEF Update
<1>3. v \in Particle
  BY <1>1, Ordered DEF TypeOK
<1>4. /\ l \in Local /\ l.row = local[p].row
      /\ l.new_i = local[p].new_i /\ l.new_j = local[p].new_j
  <2> HIDE DEF v
  <2> QED
    BY <1>1, <1>3 DEF Local
<1> HIDE DEF l
<1>5. /\ local' \in [Thread -> Local]
      /\ local'[p] = l
      /\ \A q \in Thread : q # p => local'[q] = local[q]
  BY <1>1, <1>2, <1>4, LocalKeeps
<1>6. pc'[p] = "link"
  BY <1>1, <1>2 DEF TypeOK, Goto
<1>7. TypeOK'
  BY <1>1, <1>2, <1>5 DEF TypeOK, Goto
<1>8. Placed(p)' /\ Below(p)'
  BY <1>1, <1>4, <1>5, <1>6 DEF Placed, Below, Finding
<1>9. LinksDescend'
  BY <1>1 DEF IInv, LinksDescend
<1>10. \A q \in Thread : q # p =>
         pc'[q] = pc[q] /\ task'[q] = task[q] /\ local'[q] = local[q]
  BY <1>1, <1>2, <1>5 DEF TypeOK, Goto
<1> QED
  BY <1>7, <1>8, <1>9, <1>10, Assemble

(* Whatever the larger root's parent is by now, the new one is smaller. *)
LEMMA LinkInv ==
  ASSUME IInv, NEW p \in Thread, Link(p)
  PROVE  IInv'
<1> DEFINE l == local[p]
           after == [l EXCEPT !.root_i = Smaller(l)]
<1>1. /\ TypeOK /\ l \in Local /\ pc[p] = "link"
      /\ task[p] \in Task /\ l.row \in 1..Len(Rows[task[p]])
      /\ l.new_i # l.new_j
      /\ UNCHANGED <<todo, task>>
  BY DEF IInv, TypeOK, Link, Placed, Below
<1>2. /\ Larger(l) \in Particle /\ Smaller(l) \in Particle
      /\ Smaller(l) < Larger(l)
  BY <1>1, Ordered
<1>3. raced' \in BOOLEAN
  BY DEF Link
<1>4. after \in Local /\ after.row = l.row /\ after.root_i = Smaller(l)
  BY <1>1, <1>2 DEF Local
<1>5. CASE /\ group_index' = [group_index EXCEPT ![Larger(l)] = Smaller(l)]
           /\ local' = [local EXCEPT ![p] = after]
           /\ Goto(p, "col")
           /\ UNCHANGED ret
  <2> HIDE DEF after
  <2>1. /\ local' \in [Thread -> Local]
        /\ local'[p] = after
        /\ \A q \in Thread : q # p => local'[q] = local[q]
    BY <1>1, <1>4, <1>5, LocalKeeps
  <2>2. pc'[p] = "col"
    BY <1>1, <1>5 DEF TypeOK, Goto
  <2>3. group_index' \in [Particle -> Particle]
    BY <1>1, <1>2, <1>5 DEF TypeOK
  <2>4. TypeOK'
    BY <1>1, <1>3, <1>5, <2>1, <2>3 DEF TypeOK, Goto
  <2>5. Placed(p)' /\ Below(p)'
    BY <1>1, <1>4, <2>1, <2>2 DEF Placed, Below, Finding
  <2>6. ASSUME NEW k \in Particle PROVE group_index'[k] <= k
    <3>1. group_index[k] <= k
      BY DEF IInv, LinksDescend
    <3>2. Smaller(l) \in Nat /\ k \in Nat
      BY <1>2, ParticleAssumption
    <3>3. group_index'[k] = IF k = Larger(l) THEN Smaller(l) ELSE group_index[k]
      BY <1>1, <1>2, <1>5 DEF TypeOK
    <3> QED
      BY <1>2, <3>1, <3>2, <3>3
  <2>7. LinksDescend'
    BY <2>6 DEF LinksDescend
  <2>8. \A q \in Thread : q # p =>
          pc'[q] = pc[q] /\ task'[q] = task[q] /\ local'[q] = local[q]
    BY <1>1, <1>5, <2>1 DEF TypeOK, Goto
  <2> QED
    BY <2>4, <2>5, <2>7, <2>8, Assemble
<1>6. CASE Find(p, after, after.root_i, "union_i") /\ UNCHANGED group_index
  <2>1. pc[p] \notin {"idle", "row"} /\ after.root_i \in Particle
    BY <1>1, <1>2, <1>4
  <2> HIDE DEF after
  <2> QED
    BY <1>1, <1>3, <1>4, <1>6, <2>1, CallInv
<1> QED
  BY <1>5, <1>6 DEF Link

-----------------------------------------------------------------------------
(* Every step keeps the invariant. *)
LEMMA StepInv == IInv /\ [Next]_vars => IInv'
<1> SUFFICES ASSUME IInv, [Next]_vars PROVE IInv'
  OBVIOUS
<1>1. ASSUME NEW p \in Thread, Step(p) PROVE IInv'
  BY <1>1, NextRowInv, NextColInv, WalkInv, CompressInv, SwapInv, FoundIInv,
     FoundJInv, FoundUnionIInv, FoundUnionJInv, UpdateInv, LinkInv
  DEF Step
<1>2. ASSUME NEW p \in Thread, NEW t \in Task, Start(p, t) PROVE IInv'
  BY <1>2, StartInv
<1>3. CASE UNCHANGED vars
  BY <1>3 DEF IInv, TypeOK, LinksDescend, Placed, Below, Finding, vars
<1> QED
  BY <1>1, <1>2, <1>3 DEF Next, Finished

(***************************************************************************)
(* The invariant holds of every behaviour of the search, whatever the      *)
(* scheduling of its threads.                                              *)
(***************************************************************************)
THEOREM Inductive == Spec => []IInv
  BY InitInv, StepInv, PTL DEF Spec

(* Type correctness: no walk ever leaves the array of particles. *)
THEOREM TypeCorrect == Spec => []TypeOK
<1>1. IInv => TypeOK
  BY DEF IInv
<1> QED
  BY <1>1, Inductive, PTL

(***************************************************************************)
(* The parents of fof.c's forest never have a larger index than their      *)
(* children: no two threads can link groups into a cycle.                  *)
(***************************************************************************)
THEOREM NoCycles == Spec => []LinksDescend
<1>1. IInv => LinksDescend
  BY DEF IInv
<1> QED
  BY <1>1, Inductive, PTL

-----------------------------------------------------------------------------
(***************************************************************************)
(* Groups join friends only.  Take a set S of particles that no two close  *)
(* particles straddle: no link crosses its border, and what a thread has   *)
(* in its variables is on the same side as the particles it is about.      *)
(***************************************************************************)
I(p) == Rows[task[p]][local[p].row].i
J(p) == Rows[task[p]][local[p].row].js[local[p].col]

Uniting(p) ==
  \/ Finding(p) /\ ret[p] \in {"union_i", "union_j"}
  \/ pc[p] \in {"update", "link"}

Known(p, S) ==
  /\ Finding(p) => (local[p].root \in S <=> local[p].arg \in S)
  /\ Finding(p) /\ ret[p] \in {"i", "union_i"} => (local[p].arg \in S <=> I(p) \in S)
  /\ Finding(p) /\ ret[p] \in {"j", "union_j"} => (local[p].arg \in S <=> J(p) \in S)
  /\ pc[p] = "col" \/ (Finding(p) /\ ret[p] = "j") \/ Uniting(p) =>
       (local[p].root_i \in S <=> I(p) \in S)
  /\ Uniting(p) => /\ <<I(p), J(p)>> \in Linked
                   /\ local[p].root_j \in S <=> J(p) \in S
  /\ Uniting(p) /\ ~ (Finding(p) /\ ret[p] = "union_i") =>
       (local[p].new_i \in S <=> I(p) \in S)
  /\ pc[p] \in {"update", "link"} => (local[p].new_j \in S <=> J(p) \in S)

SameSide(S) == \A k \in Particle : group_index[k] \in S <=> k \in S

Friends(S) == SameSide(S) /\ \A p \in Thread : Known(p, S)

(* One thread's step, put together. *)
LEMMA AssembleFriends ==
  ASSUME NEW S, Friends(S), NEW p \in Thread, SameSide(S)', Known(p, S)',
         \A q \in Thread : q # p =>
           /\ pc'[q] = pc[q] /\ ret'[q] = ret[q]
           /\ task'[q] = task[q] /\ local'[q] = local[q]
  PROVE  Friends(S)'
<1>1. ASSUME NEW q \in Thread, q # p PROVE Known(q, S)'
  BY <1>1 DEF Friends, Known, Finding, Uniting, I, J
<1> QED
  BY <1>1 DEF Friends

(* A thread that starts a task has nothing in hand yet. *)
LEMMA StartFriends ==
  ASSUME IInv, NEW S, Friends(S), NEW p \in Thread, NEW t \in Task, Start(p, t)
  PROVE  Friends(S)'
<1>1. pc'[p] = "row"
  BY DEF IInv, TypeOK, Start, Goto
<1>2. Known(p, S)'
  BY <1>1 DEF Known, Finding, Uniting
<1>3. SameSide(S)'
  BY DEF Friends, SameSide, Start
<1>4. \A q \in Thread : q # p =>
        /\ pc'[q] = pc[q] /\ ret'[q] = ret[q]
        /\ task'[q] = task[q] /\ local'[q] = local[q]
  BY DEF IInv, TypeOK, Start, Goto
<1> QED
  BY <1>2, <1>3, <1>4, AssembleFriends

(* What a call of fof_find keeps of the caller's variables. *)
LEMMA CallKeeps ==
  ASSUME TypeOK, NEW p \in Thread, NEW l \in Local, NEW k \in Particle,
         NEW c \in {"i", "j", "union_i", "union_j"}, Find(p, l, k, c)
  PROVE  /\ pc'[p] = "walk" /\ ret'[p] = c
         /\ local'[p].arg = k /\ local'[p].root = k
         /\ local'[p].row = l.row /\ local'[p].col = l.col
         /\ local'[p].root_i = l.root_i /\ local'[p].root_j = l.root_j
         /\ local'[p].new_i = l.new_i
         /\ \A q \in Thread : q # p =>
              pc'[q] = pc[q] /\ ret'[q] = ret[q] /\ local'[q] = local[q]
<1>1. local' = [local EXCEPT ![p] = [l EXCEPT !.arg = k, !.root = k, !.depth = 0]]
  BY DEF Find
<1>2. local'[p] = [l EXCEPT !.arg = k, !.root = k, !.depth = 0]
  BY <1>1 DEF TypeOK
<1>3. /\ local'[p].arg = k /\ local'[p].root = k
      /\ local'[p].row = l.row /\ local'[p].col = l.col
      /\ local'[p].root_i = l.root_i /\ local'[p].root_j = l.root_j
      /\ local'[p].new_i = l.new_i
  BY <1>2 DEF Local
<1>4. pc'[p] = "walk" /\ ret'[p] = c
  BY DEF Find, Goto, TypeOK
<1>5. \A q \in Thread : q # p =>
        pc'[q] = pc[q] /\ ret'[q] = ret[q] /\ local'[q] = local[q]
  BY <1>1 DEF Find, Goto, TypeOK
<1> QED
  BY <1>3, <1>4, <1>5

(* Particle i's parent is on its side. *)
LEMMA NextRowFriends ==
  ASSUME IInv, NEW S, Friends(S), NEW p \in Thread, NextRow(p)
  PROVE  Friends(S)'
<1> DEFINE l == [local[p] EXCEPT !.row = @ + 1, !.col = 0]
           rows == Rows[task[p]]
<1>1. TypeOK /\ task[p] \in Task /\ local[p] \in Local
  BY DEF IInv, TypeOK, NextRow, Placed
<1>2. l \in Local /\ l.row \in Nat \ {0}
  <2>1. local[p].row + 1 \in Nat \ {0}
    BY <1>1 DEF Local
  <2>2. l.row = local[p].row + 1
    BY <1>1 DEF Local
  <2>3. l \in Local
    BY <1>1, <2>1 DEF Local
  <2> QED
    BY <2>1, <2>2, <2>3
<1>3. SameSide(S)'
  BY DEF Friends, SameSide, NextRow
<1>4. CASE /\ l.row <= Len(rows)
           /\ Find(p, l, group_index[rows[l.row].i], "i")
           /\ UNCHANGED task
  <2> DEFINE k == group_index[rows[l.row].i]
  <2>1. l.row \in 1..Len(rows)
    BY <1>1, <1>2, <1>4, RowsAssumption
  <2>2. rows[l.row].i \in Particle /\ k \in Particle
    BY <1>1, <2>1, RowType DEF TypeOK
  <2>3. k \in S <=> rows[l.row].i \in S
    BY <2>2 DEF Friends, SameSide
  <2>4. /\ pc'[p] = "walk" /\ ret'[p] = "i"
        /\ local'[p].arg = k /\ local'[p].root = k /\ local'[p].row = l.row
        /\ \A q \in Thread : q # p =>
             pc'[q] = pc[q] /\ ret'[q] = ret[q] /\ local'[q] = local[q]
    <3> HIDE DEF l, rows
    <3> QED
      BY <1>1, <1>2, <1>4, <2>2, CallKeeps
  <2>5. I(p)' = rows[l.row].i
    BY <1>4, <2>4 DEF I
  <2> HIDE DEF l, k, rows
  <2>6. Known(p, S)'
    BY <2>3, <2>4, <2>5 DEF Known, Finding, Uniting
  <2> QED
    BY <1>3, <1>4, <2>4, <2>6, AssembleFriends
<1>5. CASE /\ l.row > Len(rows)
           /\ Goto(p, "idle")
           /\ task' = [task EXCEPT ![p] = NoTask]
           /\ local' = [local EXCEPT ![p] = Fresh]
           /\ ret' = [ret EXCEPT ![p] = "i"]
  <2>1. pc'[p] = "idle"
    BY <1>1, <1>5 DEF TypeOK, Goto
  <2>2. Known(p, S)'
    BY <2>1 DEF Known, Finding, Uniting
  <2>3. \A q \in Thread : q # p =>
          /\ pc'[q] = pc[q] /\ ret'[q] = ret[q]
          /\ task'[q] = task[q] /\ local'[q] = local[q]
    BY <1>1, <1>5 DEF TypeOK, Goto
  <2> QED
    BY <1>3, <2>2, <2>3, AssembleFriends
<1> QED
  BY <1>4, <1>5 DEF NextRow

(* Particle j's parent is on its side. *)
LEMMA NextColFriends ==
  ASSUME IInv, NEW S, Friends(S), NEW p \in Thread, NextCol(p)
  PROVE  Friends(S)'
<1> DEFINE l == [local[p] EXCEPT !.col = @ + 1]
           js == Rows[task[p]][l.row].js
<1>1. /\ TypeOK /\ task[p] \in Task /\ local[p] \in Local /\ pc[p] = "col"
      /\ local[p].row \in 1..Len(Rows[task[p]])
      /\ UNCHANGED task
  BY DEF IInv, TypeOK, NextCol, Placed
<1>2. /\ l \in Local /\ l.col \in Nat \ {0}
      /\ l.row = local[p].row /\ l.root_i = local[p].root_i
  BY <1>1 DEF Local
<1>3. SameSide(S)'
  BY DEF Friends, SameSide, NextCol
<1>4. CASE l.col <= Len(js) /\ Find(p, l, group_index[js[l.col]], "j")
  <2> DEFINE k == group_index[js[l.col]]
  <2>1. js \in Seq(Particle)
    BY <1>1, <1>2, RowType
  <2>2. js[l.col] \in Particle
    <3> HIDE DEF l, js
    <3>1. Len(js) \in Nat
      BY <2>1
    <3>2. l.col \in Nat /\ l.col >= 1
      BY <1>2
    <3>3. l.col <= Len(js)
      BY <1>4
    <3>4. l.col \in 1..Len(js)
      BY <3>1, <3>2, <3>3
    <3> QED
      BY <2>1, <3>4, ElementOfSeq
  <2>3. k \in Particle /\ (k \in S <=> js[l.col] \in S)
    BY <1>1, <2>2 DEF TypeOK, Friends, SameSide
  <2>4. /\ pc'[p] = "walk" /\ ret'[p] = "j"
        /\ local'[p].arg = k /\ local'[p].root = k
        /\ local'[p].row = l.row /\ local'[p].col = l.col
        /\ local'[p].root_i = l.root_i
        /\ \A q \in Thread : q # p =>
             pc'[q] = pc[q] /\ ret'[q] = ret[q] /\ local'[q] = local[q]
    <3> HIDE DEF l, js
    <3> QED
      BY <1>1, <1>2, <1>4, <2>3, CallKeeps
  <2>5. I(p)' = I(p) /\ J(p)' = js[l.col]
    BY <1>1, <1>2, <2>4 DEF I, J
  <2>6. local[p].root_i \in S <=> I(p) \in S
    BY <1>1 DEF Friends, Known
  <2> HIDE DEF l, k, js
  <2>7. Known(p, S)'
    BY <1>2, <2>3, <2>4, <2>5, <2>6 DEF Known, Finding, Uniting
  <2> QED
    BY <1>1, <1>3, <2>4, <2>7, AssembleFriends
<1>5. CASE Goto(p, "row") /\ UNCHANGED <<local, ret>>
  <2>1. pc'[p] = "row"
    BY <1>1, <1>5 DEF TypeOK, Goto
  <2>2. Known(p, S)'
    BY <2>1 DEF Known, Finding, Uniting
  <2>3. \A q \in Thread : q # p =>
          /\ pc'[q] = pc[q] /\ ret'[q] = ret[q]
          /\ task'[q] = task[q] /\ local'[q] = local[q]
    BY <1>1, <1>5 DEF TypeOK, Goto
  <2> QED
    BY <1>3, <2>2, <2>3, AssembleFriends
<1> QED
  BY <1>4, <1>5 DEF NextCol

(* fof_find stays on its side. *)
LEMMA WalkFriends ==
  ASSUME IInv, NEW S, Friends(S), NEW p \in Thread, Walk(p)
  PROVE  Friends(S)'
<1> DEFINE l == local[p]
           parent == group_index[l.root]
           d == IF l.depth < min_length THEN l.depth + 1 ELSE l.depth
           m == [l EXCEPT !.root = parent, !.depth = d]
<1>1. /\ TypeOK /\ l \in Local /\ pc[p] = "walk"
      /\ UNCHANGED <<group_index, task, ret>>
      /\ Known(p, S)
  BY DEF IInv, TypeOK, Walk, Friends
<1>2. parent \in S <=> l.root \in S
  BY <1>1 DEF Friends, SameSide, Local
<1>3. SameSide(S)'
  BY <1>1 DEF Friends, SameSide
<1>4. CASE local' = [local EXCEPT ![p] = m] /\ UNCHANGED pc
  <2>1. local'[p] = m
    BY <1>1, <1>4 DEF TypeOK
  <2>2. /\ local'[p].root = parent /\ local'[p].arg = l.arg
        /\ local'[p].row = l.row /\ local'[p].col = l.col
        /\ local'[p].root_i = l.root_i /\ local'[p].root_j = l.root_j
        /\ local'[p].new_i = l.new_i /\ local'[p].new_j = l.new_j
    BY <1>1, <2>1 DEF Local
  <2>3. I(p)' = I(p) /\ J(p)' = J(p)
    BY <1>1, <2>2 DEF I, J
  <2> HIDE DEF parent
  <2>4. Known(p, S)'
    BY <1>1, <1>2, <1>4, <2>2, <2>3 DEF Known, Finding, Uniting
  <2>5. \A q \in Thread : q # p => local'[q] = local[q]
    BY <1>1, <1>4 DEF TypeOK
  <2> QED
    BY <1>1, <1>3, <1>4, <2>4, <2>5, AssembleFriends
<1>5. CASE /\ Goto(p, IF l.depth >= min_length THEN "compress" ELSE "found")
           /\ UNCHANGED local
  <2>1. pc'[p] \in {"compress", "found"}
    BY <1>1, <1>5 DEF TypeOK, Goto
  <2>2. I(p)' = I(p) /\ J(p)' = J(p)
    BY <1>1, <1>5 DEF I, J
  <2>3. Known(p, S)'
    BY <1>1, <1>5, <2>1, <2>2 DEF Known, Finding, Uniting
  <2>4. \A q \in Thread : q # p => pc'[q] = pc[q]
    BY <1>1, <1>5 DEF TypeOK, Goto
  <2> QED
    BY <1>1, <1>3, <1>5, <2>3, <2>4, AssembleFriends
<1> QED
  BY <1>4, <1>5 DEF Walk

(* The value the swap expects is on the side of the argument. *)
LEMMA CompressFriends ==
  ASSUME IInv, NEW S, Friends(S), NEW p \in Thread, Compress(p)
  PROVE  Friends(S)'
<1> DEFINE l == local[p]
           m == [l EXCEPT !.seen = group_index[l.arg]]
<1>1. /\ TypeOK /\ l \in Local /\ pc[p] = "compress"
      /\ UNCHANGED <<group_index, task, ret>>
      /\ Known(p, S)
  BY DEF IInv, TypeOK, Compress, Friends
<1>2. local' = [local EXCEPT ![p] = m] /\ Goto(p, "swap")
  BY DEF Compress
<1>3. local'[p] = m /\ pc'[p] = "swap"
  BY <1>1, <1>2 DEF TypeOK, Goto
<1>4. /\ local'[p].root = l.root /\ local'[p].arg = l.arg
      /\ local'[p].row = l.row /\ local'[p].col = l.col
      /\ local'[p].root_i = l.root_i /\ local'[p].root_j = l.root_j
      /\ local'[p].new_i = l.new_i /\ local'[p].new_j = l.new_j
  BY <1>1, <1>3 DEF Local
<1>5. I(p)' = I(p) /\ J(p)' = J(p)
  BY <1>1, <1>4 DEF I, J
<1>6. Known(p, S)'
  BY <1>1, <1>3, <1>4, <1>5 DEF Known, Finding, Uniting
<1>7. SameSide(S)'
  BY <1>1 DEF Friends, SameSide
<1>8. \A q \in Thread : q # p => pc'[q] = pc[q] /\ local'[q] = local[q]
  BY <1>1, <1>2 DEF TypeOK, Goto
<1> QED
  BY <1>1, <1>6, <1>7, <1>8, AssembleFriends

(* The new parent, a root the path led to, is on the argument's side. *)
LEMMA SwapFriends ==
  ASSUME IInv, NEW S, Friends(S), NEW p \in Thread, Swap(p)
  PROVE  Friends(S)'
<1> DEFINE l == local[p]
<1>1. /\ TypeOK /\ l \in Local /\ pc[p] = "swap"
      /\ UNCHANGED <<task, ret, local>> /\ Goto(p, "found")
      /\ Known(p, S)
  BY DEF IInv, TypeOK, Swap, Friends
<1>2. l.root \in S <=> l.arg \in S
  BY <1>1 DEF Known, Finding
<1>3. ASSUME NEW k \in Particle PROVE group_index'[k] \in S <=> k \in S
  <2>1. group_index[k] \in S <=> k \in S
    BY DEF Friends, SameSide
  <2>2. \/ group_index'[k] = group_index[k]
        \/ k = l.arg /\ group_index'[k] = l.root
    BY <1>1 DEF Swap, TypeOK, Local
  <2> QED
    BY <1>2, <2>1, <2>2
<1>4. SameSide(S)'
  BY <1>3 DEF SameSide
<1>5. pc'[p] = "found" /\ I(p)' = I(p) /\ J(p)' = J(p)
  BY <1>1 DEF TypeOK, Goto, I, J
<1>6. Known(p, S)'
  BY <1>1, <1>5 DEF Known, Finding, Uniting
<1>7. \A q \in Thread : q # p => pc'[q] = pc[q]
  BY <1>1 DEF TypeOK, Goto
<1> QED
  BY <1>1, <1>4, <1>6, <1>7, AssembleFriends

(* The returns of fof_find. *)
LEMMA FoundIFriends ==
  ASSUME IInv, NEW S, Friends(S), NEW p \in Thread, FoundI(p)
  PROVE  Friends(S)'
<1> DEFINE l == [local[p] EXCEPT !.root_i = local[p].root]
<1>1. /\ TypeOK /\ local[p] \in Local /\ pc[p] = "found" /\ ret[p] = "i"
      /\ UNCHANGED <<group_index, task, ret>> /\ Goto(p, "col")
      /\ local' = [local EXCEPT ![p] = l]
      /\ Known(p, S)
  BY DEF IInv, TypeOK, FoundI, Friends
<1>2. local'[p] = l /\ pc'[p] = "col"
  BY <1>1 DEF TypeOK, Goto
<1>3. local'[p].root_i = local[p].root /\ local'[p].row = local[p].row
  BY <1>1, <1>2 DEF Local
<1>4. I(p)' = I(p)
  BY <1>1, <1>3 DEF I
<1> HIDE DEF l
<1>5. Known(p, S)'
  BY <1>1, <1>2, <1>3, <1>4 DEF Known, Finding, Uniting
<1>6. SameSide(S)'
  BY <1>1 DEF Friends, SameSide
<1>7. \A q \in Thread : q # p => pc'[q] = pc[q] /\ local'[q] = local[q]
  BY <1>1 DEF TypeOK, Goto
<1> QED
  BY <1>1, <1>5, <1>6, <1>7, AssembleFriends

(* Only two close particles go on to fof_union, so their roots are on one side. *)
LEMMA FoundJFriends ==
  ASSUME IInv, NEW S, Friends(S), NEW p \in Thread, FoundJ(p)
  PROVE  Friends(S)'
<1> DEFINE l == [local[p] EXCEPT !.root_j = local[p].root]
<1>1. /\ TypeOK /\ local[p] \in Local /\ pc[p] = "found" /\ ret[p] = "j"
      /\ UNCHANGED <<group_index, task>>
      /\ Known(p, S)
  BY DEF IInv, TypeOK, FoundJ, Friends
<1>2. /\ l \in Local /\ l.row = local[p].row /\ l.col = local[p].col
      /\ l.root_i = local[p].root_i /\ l.root_j = local[p].root
      /\ l.root_i \in Particle
  BY <1>1 DEF Local
<1>3. /\ local[p].root_i \in S <=> I(p) \in S
      /\ local[p].root \in S <=> J(p) \in S
  BY <1>1 DEF Known, Finding
<1>4. SameSide(S)'
  BY <1>1 DEF Friends, SameSide
<1>5. CASE <<I(p), J(p)>> \in Linked /\ Find(p, l, l.root_i, "union_i")
  <2> HIDE DEF l
  <2>1. /\ pc'[p] = "walk" /\ ret'[p] = "union_i"
        /\ local'[p].arg = l.root_i /\ local'[p].root = l.root_i
        /\ local'[p].row = l.row /\ local'[p].col = l.col
        /\ local'[p].root_i = l.root_i /\ local'[p].root_j = l.root_j
        /\ \A q \in Thread : q # p =>
             pc'[q] = pc[q] /\ ret'[q] = ret[q] /\ local'[q] = local[q]
    BY <1>1, <1>2, <1>5, CallKeeps
  <2>2. I(p)' = I(p) /\ J(p)' = J(p)
    BY <1>1, <1>2, <2>1 DEF I, J
  <2>3. Known(p, S)'
    BY <1>2, <1>3, <1>5, <2>1, <2>2 DEF Known, Finding, Uniting
  <2> QED
    BY <1>1, <1>4, <2>1, <2>3, AssembleFriends
<1>6. CASE local' = [local EXCEPT ![p] = l] /\ Goto(p, "col") /\ UNCHANGED ret
  <2>1. local'[p] = l /\ pc'[p] = "col"
    BY <1>1, <1>6 DEF TypeOK, Goto
  <2> HIDE DEF l
  <2>2. I(p)' = I(p)
    BY <1>1, <1>2, <2>1 DEF I
  <2>3. Known(p, S)'
    BY <1>2, <1>3, <2>1, <2>2 DEF Known, Finding, Uniting
  <2>4. \A q \in Thread : q # p => pc'[q] = pc[q] /\ local'[q] = local[q]
    BY <1>1, <1>6 DEF TypeOK, Goto
  <2> QED
    BY <1>1, <1>4, <1>6, <2>3, <2>4, AssembleFriends
<1>7. I(p) = Rows[task[p]][l.row].i /\ J(p) = Rows[task[p]][l.row].js[l.col]
  BY <1>2 DEF I, J
<1> QED
  BY <1>5, <1>6, <1>7 DEF FoundJ

(* The new root of i is on the side of the old one. *)
LEMMA FoundUnionIFriends ==
  ASSUME IInv, NEW S, Friends(S), NEW p \in Thread, FoundUnionI(p)
  PROVE  Friends(S)'
<1> DEFINE l == [local[p] EXCEPT !.new_i = local[p].root]
<1>1. /\ TypeOK /\ local[p] \in Local /\ pc[p] = "found" /\ ret[p] = "union_i"
      /\ UNCHANGED <<group_index, task>>
      /\ Find(p, l, local[p].root_j, "union_j")
      /\ Known(p, S)
  BY DEF IInv, TypeOK, FoundUnionI, Friends
<1>2. /\ l \in Local /\ l.row = local[p].row /\ l.col = local[p].col
      /\ l.root_i = local[p].root_i /\ l.root_j = local[p].root_j
      /\ l.new_i = local[p].root /\ local[p].root_j \in Particle
  BY <1>1 DEF Local
<1> HIDE DEF l
<1>3. /\ pc'[p] = "walk" /\ ret'[p] = "union_j"
      /\ local'[p].arg = local[p].root_j /\ local'[p].root = local[p].root_j
      /\ local'[p].row = l.row /\ local'[p].col = l.col
      /\ local'[p].root_i = l.root_i /\ local'[p].root_j = l.root_j
      /\ local'[p].new_i = l.new_i
      /\ \A q \in Thread : q # p =>
           pc'[q] = pc[q] /\ ret'[q] = ret[q] /\ local'[q] = local[q]
  BY <1>1, <1>2, CallKeeps
<1>4. I(p)' = I(p) /\ J(p)' = J(p)
  BY <1>1, <1>2, <1>3 DEF I, J
<1>5. Known(p, S)'
  BY <1>1, <1>2, <1>3, <1>4 DEF Known, Finding, Uniting
<1>6. SameSide(S)'
  BY <1>1 DEF Friends, SameSide
<1> QED
  BY <1>1, <1>3, <1>5, <1>6, AssembleFriends

(* The new root of j is on the side of the old one. *)
LEMMA FoundUnionJFriends ==
  ASSUME IInv, NEW S, Friends(S), NEW p \in Thread, FoundUnionJ(p)
  PROVE  Friends(S)'
<1> DEFINE l == [local[p] EXCEPT !.new_j = local[p].root]
<1>1. /\ TypeOK /\ local[p] \in Local /\ pc[p] = "found" /\ ret[p] = "union_j"
      /\ UNCHANGED <<group_index, task, ret>>
      /\ local' = [local EXCEPT ![p] = l]
      /\ Goto(p, IF l.new_i = l.new_j THEN "col" ELSE "update")
      /\ Known(p, S)
  BY DEF IInv, TypeOK, FoundUnionJ, Friends
<1>2. /\ l.row = local[p].row /\ l.col = local[p].col
      /\ l.root_i = local[p].root_i /\ l.root_j = local[p].root_j
      /\ l.new_i = local[p].new_i /\ l.new_j = local[p].root
  BY <1>1 DEF Local
<1> HIDE DEF l
<1>3. local'[p] = l /\ pc'[p] \in {"col", "update"}
  BY <1>1 DEF TypeOK, Goto
<1>4. I(p)' = I(p) /\ J(p)' = J(p)
  BY <1>1, <1>2, <1>3 DEF I, J
<1>5. Known(p, S)'
  BY <1>1, <1>2, <1>3, <1>4 DEF Known, Finding, Uniting
<1>6. SameSide(S)'
  BY <1>1 DEF Friends, SameSide
<1>7. \A q \in Thread : q # p => pc'[q] = pc[q] /\ local'[q] = local[q]
  BY <1>1 DEF TypeOK, Goto
<1> QED
  BY <1>1, <1>5, <1>6, <1>7, AssembleFriends

(* The value atomic_update_root reads is on its root's side. *)
LEMMA UpdateFriends ==
  ASSUME IInv, NEW S, Friends(S), NEW p \in Thread, Update(p)
  PROVE  Friends(S)'
<1> DEFINE l == [local[p] EXCEPT !.seen = group_index[Larger(local[p])]]
<1>1. /\ TypeOK /\ local[p] \in Local /\ pc[p] = "update"
      /\ UNCHANGED <<group_index, task, ret>>
      /\ Known(p, S)
  BY DEF IInv, TypeOK, Update, Friends
<1>2. local' = [local EXCEPT ![p] = l] /\ Goto(p, "link")
  BY DEF Update
<1>3. /\ l.row = local[p].row /\ l.col = local[p].col
      /\ l.root_i = local[p].root_i /\ l.root_j = local[p].root_j
      /\ l.new_i = local[p].new_i /\ l.new_j = local[p].new_j
  BY <1>1 DEF Local
<1> HIDE DEF l
<1>4. local'[p] = l /\ pc'[p] = "link"
  BY <1>1, <1>2 DEF TypeOK, Goto
<1>5. I(p)' = I(p) /\ J(p)' = J(p)
  BY <1>1, <1>3, <1>4 DEF I, J
<1>6. Known(p, S)'
  BY <1>1, <1>3, <1>4, <1>5 DEF Known, Finding, Uniting
<1>7. SameSide(S)'
  BY <1>1 DEF Friends, SameSide
<1>8. \A q \in Thread : q # p => pc'[q] = pc[q] /\ local'[q] = local[q]
  BY <1>1, <1>2 DEF TypeOK, Goto
<1> QED
  BY <1>1, <1>6, <1>7, <1>8, AssembleFriends

(* Both roots are on one side, because the two particles are close. *)
LEMMA LinkFriends ==
  ASSUME IInv, NEW S, Closed(S), Friends(S), NEW p \in Thread, Link(p)
  PROVE  Friends(S)'
<1> DEFINE l == local[p]
           after == [l EXCEPT !.root_i = Smaller(l)]
<1>1. /\ TypeOK /\ l \in Local /\ pc[p] = "link" /\ l.new_i # l.new_j
      /\ UNCHANGED task
      /\ Known(p, S)
  BY DEF IInv, TypeOK, Link, Below, Friends
<1>2. /\ Larger(l) \in Particle /\ Smaller(l) \in Particle
  BY <1>1, Ordered
<1>3. I(p) \in S <=> J(p) \in S
  <2>1. <<I(p), J(p)>> \in Linked
    BY <1>1 DEF Known, Uniting
  <2> QED
    BY <2>1 DEF Closed
<1>4. /\ l.new_i \in S <=> I(p) \in S
      /\ l.new_j \in S <=> I(p) \in S
      /\ l.root_j \in S <=> J(p) \in S
      /\ <<I(p), J(p)>> \in Linked
  BY <1>1, <1>3 DEF Known, Uniting, Finding
<1>5. (Larger(l) \in S <=> I(p) \in S) /\ (Smaller(l) \in S <=> I(p) \in S)
  BY <1>4 DEF Larger, Smaller
<1>6. /\ after \in Local /\ after.row = l.row /\ after.col = l.col
      /\ after.root_i = Smaller(l) /\ after.root_j = l.root_j
  BY <1>1, <1>2 DEF Local
<1>7. CASE /\ group_index' = [group_index EXCEPT ![Larger(l)] = Smaller(l)]
           /\ local' = [local EXCEPT ![p] = after]
           /\ Goto(p, "col")
           /\ UNCHANGED ret
  <2> HIDE DEF after
  <2>1. local'[p] = after /\ pc'[p] = "col"
    BY <1>1, <1>7 DEF TypeOK, Goto
  <2>2. I(p)' = I(p)
    BY <1>1, <1>6, <2>1 DEF I
  <2>3. Known(p, S)'
    BY <1>5, <1>6, <2>1, <2>2 DEF Known, Finding, Uniting
  <2>4. ASSUME NEW k \in Particle PROVE group_index'[k] \in S <=> k \in S
    <3>1. group_index[k] \in S <=> k \in S
      BY DEF Friends, SameSide
    <3>2. group_index'[k] = IF k = Larger(l) THEN Smaller(l) ELSE group_index[k]
      BY <1>1, <1>2, <1>7 DEF TypeOK
    <3> QED
      BY <1>5, <3>1, <3>2
  <2>5. SameSide(S)'
    BY <2>4 DEF SameSide
  <2>6. \A q \in Thread : q # p => pc'[q] = pc[q] /\ local'[q] = local[q]
    BY <1>1, <1>7 DEF TypeOK, Goto
  <2> QED
    BY <1>1, <1>7, <2>3, <2>5, <2>6, AssembleFriends
<1>8. CASE Find(p, after, after.root_i, "union_i") /\ UNCHANGED group_index
  <2>1. after.root_i \in Particle
    BY <1>2, <1>6
  <2> HIDE DEF after
  <2>2. /\ pc'[p] = "walk" /\ ret'[p] = "union_i"
        /\ local'[p].arg = after.root_i /\ local'[p].root = after.root_i
        /\ local'[p].row = after.row /\ local'[p].col = after.col
        /\ local'[p].root_i = after.root_i /\ local'[p].root_j = after.root_j
        /\ \A q \in Thread : q # p =>
             pc'[q] = pc[q] /\ ret'[q] = ret[q] /\ local'[q] = local[q]
    BY <1>1, <1>6, <1>8, <2>1, CallKeeps
  <2>3. I(p)' = I(p) /\ J(p)' = J(p)
    BY <1>1, <1>6, <2>2 DEF I, J
  <2>4. Known(p, S)'
    BY <1>4, <1>5, <1>6, <2>2, <2>3 DEF Known, Finding, Uniting
  <2>5. SameSide(S)'
    BY <1>8 DEF Friends, SameSide
  <2> QED
    BY <1>1, <2>2, <2>4, <2>5, AssembleFriends
<1> QED
  BY <1>7, <1>8 DEF Link

-----------------------------------------------------------------------------
AllFriends == \A S \in SUBSET Particle : Closed(S) => Friends(S)

(* Each particle is its own parent, on its own side. *)
LEMMA InitFriends == Init => AllFriends
  BY DEF Init, AllFriends, Friends, SameSide, Known, Finding, Uniting

(* No step of any thread crosses from one side of a closed set to the other. *)
LEMMA StepFriends == IInv /\ AllFriends /\ [Next]_vars => AllFriends'
<1> SUFFICES ASSUME IInv, AllFriends, [Next]_vars,
                    NEW S \in SUBSET Particle, Closed(S)
             PROVE  Friends(S)'
  BY DEF AllFriends
<1>1. Friends(S)
  BY DEF AllFriends
<1>2. ASSUME NEW p \in Thread, Step(p) PROVE Friends(S)'
  BY <1>1, <1>2, NextRowFriends, NextColFriends, WalkFriends, CompressFriends,
     SwapFriends, FoundIFriends, FoundJFriends, FoundUnionIFriends,
     FoundUnionJFriends, UpdateFriends, LinkFriends
  DEF Step
<1>3. ASSUME NEW p \in Thread, NEW t \in Task, Start(p, t) PROVE Friends(S)'
  BY <1>1, <1>3, StartFriends
<1>4. CASE UNCHANGED vars
  BY <1>1, <1>4 DEF Friends, SameSide, Known, Finding, Uniting, I, J, vars
<1> QED
  BY <1>2, <1>3, <1>4 DEF Next, Finished

(***************************************************************************)
(* A group never contains two particles that no chain of friends connects, *)
(* although threads overwrite each other's links: a root that is lost on   *)
(* the way is replaced by one of the same set of friends.                  *)
(***************************************************************************)
THEOREM NoStrangers == Spec => []OnlyFriends
<1>1. AllFriends => OnlyFriends
  <2> SUFFICES ASSUME AllFriends, NEW S \in SUBSET Particle, Closed(S), NEW k \in S
               PROVE  group_index[k] \in S
    BY DEF OnlyFriends
  <2> QED
    BY DEF AllFriends, Friends, SameSide
<1>2. Init => AllFriends
  BY InitFriends
<1>3. IInv /\ AllFriends /\ [Next]_vars => AllFriends'
  BY StepFriends
<1> QED
  BY <1>1, <1>2, <1>3, Inductive, PTL DEF Spec

-----------------------------------------------------------------------------
(***************************************************************************)
(* Groups are complete unless a root was raced for.  First, Root is what   *)
(* its definition says: the links descend, so the least particle they      *)
(* lead to is a root.                                                      *)
(***************************************************************************)
LEMMA LessWF == IsWellFoundedOn({ss \in Nat \X Nat : ss[1] < ss[2]}, Nat)
  BY NatLessThanWellFounded, Zenon DEF OpToRel

(* A set of naturals that is not empty has a least element: the form in    *)
(* which the proofs below use induction.                                   *)
LEMMA Least ==
  ASSUME NEW S \in SUBSET Nat, S # {}
  PROVE  \E x \in S : \A y \in S : x <= y
<1>1. \E x \in S : \A y \in S : ~ (<<y, x>> \in {ss \in Nat \X Nat : ss[1] < ss[2]})
  BY LessWF, WFMin, Zenon
<1>2. PICK x \in S : \A y \in S : ~ (<<y, x>> \in {ss \in Nat \X Nat : ss[1] < ss[2]})
  BY <1>1
<1>3. ASSUME NEW y \in S PROVE x <= y
  <2>1. ~(y < x)
    BY <1>2
  <2> QED
    BY <2>1
<1> QED
  BY <1>3

(* f is the function that the definition of Root defines for the links g. *)
IsRoot(f, g) == f = [k \in Particle |-> IF g[k] = k THEN k ELSE f[g[k]]]

Descends(g) == g \in [Particle -> Particle] /\ \A k \in Particle : g[k] <= k

(* Where the links lead from k. *)
Reach(g, k) ==
  {m \in Particle : \A S \in SUBSET Particle :
     k \in S /\ (\A x \in S : g[x] \in S) => m \in S}

LEMMA RootExists ==
  ASSUME NEW g, Descends(g)
  PROVE  \E f : IsRoot(f, g)
<1> DEFINE low(k) == CHOOSE m \in Reach(g, k) : \A n \in Reach(g, k) : m <= n
           f == [k \in Particle |-> low(k)]
<1>0. Particle \subseteq Nat
  BY ParticleAssumption
<1>1. ASSUME NEW k \in Particle
      PROVE  k \in Reach(g, k) /\ Reach(g, k) \in SUBSET Particle
  BY DEF Reach
<1>2. ASSUME NEW k \in Particle
      PROVE  low(k) \in Reach(g, k) /\ \A n \in Reach(g, k) : low(k) <= n
  <2>1. \E m \in Reach(g, k) : \A n \in Reach(g, k) : m <= n
    BY <1>0, <1>1, Least
  <2> QED
    BY <2>1
<1>3. ASSUME NEW k \in Particle, g[k] = k
      PROVE  low(k) = k
  <2>1. \A m \in Reach(g, k) : m \in {k}
    <3> SUFFICES ASSUME NEW m \in Reach(g, k) PROVE m \in {k}
      OBVIOUS
    <3>1. {k} \in SUBSET Particle /\ k \in {k} /\ \A x \in {k} : g[x] \in {k}
      BY <1>3
    <3> QED
      BY <3>1 DEF Reach
  <2> QED
    BY <2>1, <1>2
<1>4. ASSUME NEW k \in Particle, g[k] # k
      PROVE  low(k) = low(g[k])
  <2>0. g[k] \in Particle /\ g[k] <= k
    BY DEF Descends
  <2>1. g[k] \in Particle /\ g[k] \in Nat /\ k \in Nat /\ g[k] < k
    <3>1. g[k] \in Nat /\ k \in Nat
      BY <1>0, <2>0
    <3> QED
      BY <3>1, <2>0, <1>4
  <2>2. Reach(g, g[k]) \subseteq Reach(g, k)
    BY DEF Reach
  <2>3. Reach(g, k) \subseteq {k} \cup Reach(g, g[k])
    <3> DEFINE T == {k} \cup Reach(g, g[k])
    <3>1. T \in SUBSET Particle /\ k \in T
      BY DEF Reach
    <3>2. ASSUME NEW x \in T PROVE g[x] \in T
      <4>1. CASE x = k
        BY <4>1, <2>1, <1>1
      <4>2. CASE x \in Reach(g, g[k])
        <5>1. g[x] \in Particle
          BY <4>2 DEF Reach, Descends
        <5>2. g[x] \in Reach(g, g[k])
          BY <5>1, <4>2 DEF Reach
        <5> QED
          BY <5>2
      <4> QED
        BY <4>1, <4>2
    <3> HIDE DEF T
    <3>3. Reach(g, k) \subseteq T
      BY <3>1, <3>2 DEF Reach
    <3> QED
      BY <3>3 DEF T
  <2>4. g[k] \in Reach(g, k)
    BY <2>1, <2>2, <1>1
  <2>5. low(k) # k
    <3>1. low(k) <= g[k]
      BY <2>4, <1>2
    <3> HIDE DEF low
    <3> QED
      BY <3>1, <2>1
  <2>6. low(k) \in Reach(g, g[k]) /\ low(g[k]) \in Reach(g, k)
    BY <2>1, <2>2, <2>3, <2>5, <1>2
  <2>7. low(k) <= low(g[k]) /\ low(g[k]) <= low(k)
    BY <2>1, <2>6, <1>2
  <2>8. low(k) \in Nat /\ low(g[k]) \in Nat
    BY <2>6, <1>0 DEF Reach
  <2> HIDE DEF low
  <2> QED
    BY <2>7, <2>8
<1>5. IsRoot(f, g)
  <2>1. ASSUME NEW k \in Particle
        PROVE  f[k] = IF g[k] = k THEN k ELSE f[g[k]]
    <3>1. g[k] \in Particle
      BY DEF Descends
    <3> HIDE DEF low
    <3> QED
      BY <3>1, <1>3, <1>4
  <2> HIDE DEF low
  <2> QED
    BY <2>1 DEF IsRoot
<1> QED
  BY <1>5

LEMMA RootUnique ==
  ASSUME NEW g, Descends(g), NEW f, IsRoot(f, g), NEW h, IsRoot(h, g)
  PROVE  f = h
<1>1. SUFFICES ASSUME {k \in Particle : f[k] # h[k]} # {} PROVE FALSE
  <2>1. f = [k \in Particle |-> f[k]] /\ h = [k \in Particle |-> h[k]]
    BY Zenon DEF IsRoot
  <2>2. (\A k \in Particle : f[k] = h[k]) => f = h
    BY <2>1, Zenon
  <2> QED
    BY <2>2
<1>2. PICK k \in Particle : f[k] # h[k] /\ \A n \in Particle : f[n] # h[n] => k <= n
  <2> DEFINE S == {k \in Particle : f[k] # h[k]}
  <2>1. S \in SUBSET Nat /\ S # {}
    BY <1>1, ParticleAssumption
  <2> QED
    BY <2>1, Least
<1>3. f[k] = (IF g[k] = k THEN k ELSE f[g[k]]) /\ h[k] = IF g[k] = k THEN k ELSE h[g[k]]
  BY DEF IsRoot
<1>4. g[k] # k /\ f[g[k]] # h[g[k]]
  BY <1>2, <1>3
<1>5. g[k] \in Particle /\ g[k] <= k
  BY DEF Descends
<1>6. g[k] \in Nat /\ k \in Nat
  BY <1>5, ParticleAssumption
<1>7. k <= g[k]
  BY <1>2, <1>4, <1>5
<1> QED
  BY <1>4, <1>5, <1>6, <1>7

LEMMA RootBelow ==
  ASSUME NEW g, Descends(g), NEW f, IsRoot(f, g), NEW k \in Particle
  PROVE  f[k] \in Particle /\ f[k] <= k
<1> DEFINE Good(n) == f[n] \in Particle /\ f[n] <= n
           S == {n \in Particle : ~Good(n)}
<1>1. SUFFICES ASSUME S # {} PROVE FALSE
  OBVIOUS
<1>2. S \in SUBSET Nat
  BY ParticleAssumption
<1>3. PICK n \in S : \A m \in S : n <= m
  BY <1>1, <1>2, Least
<1>4. f[n] = IF g[n] = n THEN n ELSE f[g[n]]
  BY DEF IsRoot
<1>5. n \in Nat /\ g[n] \in Particle /\ g[n] \in Nat /\ g[n] <= n
  BY ParticleAssumption DEF Descends
<1>6. CASE g[n] = n
  BY <1>4, <1>5, <1>6
<1>7. CASE g[n] # n
  <2>1. g[n] < n
    BY <1>5, <1>7
  <2>2. g[n] \notin S
    BY <1>3, <1>5, <2>1
  <2>3. f[g[n]] \in Nat
    BY <2>2, <1>5, ParticleAssumption
  <2> QED
    BY <1>4, <1>5, <1>7, <2>1, <2>2, <2>3
<1> QED
  BY <1>6, <1>7

(* Root, here and in the next state. *)
LEMMA RootIs ==
  ASSUME TypeOK, LinksDescend
  PROVE  Descends(group_index) /\ IsRoot(Root, group_index)
<1>1. Descends(group_index)
  BY DEF TypeOK, LinksDescend, Descends
<1>2. \E f : IsRoot(f, group_index)
  BY <1>1, RootExists
<1> QED
  BY <1>1, <1>2, Zenon DEF Root, IsRoot

LEMMA RootIsNext ==
  ASSUME TypeOK', LinksDescend'
  PROVE  Descends(group_index') /\ IsRoot(Root', group_index')
<1>1. Descends(group_index')
  BY DEF TypeOK, LinksDescend, Descends
<1>2. \E f : IsRoot(f, group_index')
  BY <1>1, RootExists
<1> QED
  BY <1>1, <1>2, Zenon DEF Root, IsRoot

(* No two particles of a group are separated. *)
Merges == \A a, b \in Particle : Root[a] = Root[b] => Root'[a] = Root'[b]

LEMMA SameLinks ==
  ASSUME UNCHANGED group_index
  PROVE  Root' = Root /\ Merges
<1>1. Root' = Root
  BY Zenon DEF Root
<1> QED
  BY <1>1 DEF Merges

(* Shortening a path changes nobody's root. *)
LEMMA Shortened ==
  ASSUME TypeOK, LinksDescend, TypeOK', LinksDescend',
         NEW x \in Particle, NEW y \in Particle, y < x, Root[x] = Root[y],
         group_index' = [group_index EXCEPT ![x] = y]
  PROVE  Root' = Root
<1>1. IsRoot(Root, group_index) /\ Descends(group_index')
  BY RootIs, RootIsNext
<1>2. Root \in [Particle -> Particle] /\ \A k \in Particle : Root[k] <= k
  <2>1. \A k \in Particle : Root[k] \in Particle /\ Root[k] <= k
    BY RootIs, RootBelow
  <2>2. Root = [k \in Particle |-> Root[k]]
    BY <1>1, Zenon DEF IsRoot
  <2> QED
    BY <2>1, <2>2
<1>3. ASSUME NEW k \in Particle
      PROVE  Root[k] = IF group_index'[k] = k THEN k ELSE Root[group_index'[k]]
  <2>1. Root[k] = IF group_index[k] = k THEN k ELSE Root[group_index[k]]
    BY <1>1 DEF IsRoot
  <2>2. x \in Nat /\ y \in Nat
    BY ParticleAssumption
  <2>3. group_index'[k] = IF k = x THEN y ELSE group_index[k]
    BY DEF TypeOK
  <2> QED
    BY <2>1, <2>2, <2>3
<1>4. IsRoot(Root, group_index')
  BY <1>2, <1>3 DEF IsRoot
<1> QED
  BY <1>1, <1>4, RootIsNext, RootUnique

(* Linking a root moves its whole group. *)
LEMMA Linking ==
  ASSUME TypeOK, LinksDescend, TypeOK', LinksDescend',
         NEW x \in Particle, NEW y \in Particle, y < x, group_index[x] = x,
         group_index' = [group_index EXCEPT ![x] = y]
  PROVE  /\ \A k \in Particle : Root'[k] = IF Root[k] = x THEN Root[y] ELSE Root[k]
         /\ Root'[x] = Root'[y]
         /\ Merges
<1> DEFINE R == [k \in Particle |-> IF Root[k] = x THEN Root[y] ELSE Root[k]]
<1>1. IsRoot(Root, group_index) /\ Descends(group_index')
  BY RootIs, RootIsNext
<1>2. \A k \in Particle : Root[k] \in Particle /\ Root[k] <= k
  BY RootIs, RootBelow
<1>3. x \in Nat /\ y \in Nat /\ Root[y] \in Nat
  BY <1>2, ParticleAssumption
<1>4. Root[x] = x /\ Root[y] # x
  <2>1. Root[x] = x
    BY <1>1 DEF IsRoot
  <2> QED
    BY <2>1, <1>2, <1>3
<1>5. ASSUME NEW k \in Particle
      PROVE  R[k] = IF group_index'[k] = k THEN k ELSE R[group_index'[k]]
  <2>1. Root[k] = IF group_index[k] = k THEN k ELSE Root[group_index[k]]
    BY <1>1 DEF IsRoot
  <2>2. group_index'[k] = (IF k = x THEN y ELSE group_index[k]) /\ group_index[k] \in Particle
    BY DEF TypeOK
  <2>3. CASE k = x
    BY <2>2, <2>3, <1>3, <1>4
  <2>4. CASE k # x
    BY <2>1, <2>2, <2>4, <1>4
  <2> QED
    BY <2>3, <2>4
<1>6. IsRoot(R, group_index')
  BY <1>5 DEF IsRoot
<1>7. Root' = R
  BY <1>1, <1>6, RootIsNext, RootUnique
<1> QED
  BY <1>4, <1>7 DEF Merges

-----------------------------------------------------------------------------
(***************************************************************************)
(* What a thread has in its variables is in the groups of the particles it *)
(* is about, and a value that the swap of a root expects is the root       *)
(* itself, unless the root has got a parent.                               *)
(***************************************************************************)
Tied(p) ==
  /\ Finding(p) => Root[local[p].root] = Root[local[p].arg]
  /\ Finding(p) /\ ret[p] \in {"i", "union_i"} => Root[local[p].arg] = Root[I(p)]
  /\ Finding(p) /\ ret[p] \in {"j", "union_j"} => Root[local[p].arg] = Root[J(p)]
  /\ pc[p] = "col" \/ (Finding(p) /\ ret[p] = "j") \/ Uniting(p) =>
       Root[local[p].root_i] = Root[I(p)]
  /\ Uniting(p) => Root[local[p].root_j] = Root[J(p)]
  /\ Uniting(p) /\ ~ (Finding(p) /\ ret[p] = "union_i") =>
       Root[local[p].new_i] = Root[I(p)]
  /\ pc[p] \in {"update", "link"} => Root[local[p].new_j] = Root[J(p)]

(* Where p is in its loops. *)
InLoops(p) ==
  /\ pc[p] = "idle" => task[p] = NoTask /\ local[p].row = 0
  /\ Finding(p) /\ ret[p] = "i" => local[p].col = 0
  /\ (Finding(p) /\ ret[p] = "j") \/ Uniting(p) =>
       local[p].col \in 1..Len(Rows[task[p]][local[p].row].js)

Expects(p) ==
  pc[p] = "link" =>
    \/ local[p].seen = Larger(local[p])
    \/ group_index[Larger(local[p])] # Larger(local[p])

(* p has done with the pair in row r and column c of its task. *)
Behind(p, r, c) ==
  \/ local[p].row > r
  \/ /\ local[p].row = r
     /\ \/ pc[p] = "row"
        \/ local[p].col > c
        \/ local[p].col = c /\ pc[p] = "col"

Passed(t, r, c) ==
  t \notin todo /\ \A p \in Thread : task[p] = t => Behind(p, r, c)

(* The pairs that have been looked at and are close are in one group. *)
Joined ==
  \A t \in Task : \A r \in 1..Len(Rows[t]) : \A c \in 1..Len(Rows[t][r].js) :
    <<Rows[t][r].i, Rows[t][r].js[c]>> \in Linked /\ Passed(t, r, c) =>
      Root[Rows[t][r].i] = Root[Rows[t][r].js[c]]

Groups == Joined /\ \A p \in Thread : Tied(p) /\ InLoops(p) /\ Expects(p)

GroupsUnlessRaced == ~raced => Groups

(* The two particles p looks at are particles. *)
LEMMA TheirTypes ==
  ASSUME IInv, NEW p \in Thread, InLoops(p)
  PROVE  /\ local[p] \in Local
         /\ pc[p] \notin {"idle", "row"} => I(p) \in Particle
         /\ (Finding(p) /\ ret[p] = "j") \/ Uniting(p) => J(p) \in Particle
<1>1. local[p] \in Local
  BY DEF IInv, TypeOK
<1>2. ASSUME pc[p] \notin {"idle", "row"}
      PROVE  task[p] \in Task /\ local[p].row \in 1..Len(Rows[task[p]])
  BY <1>2 DEF IInv, Placed
<1>3. pc[p] \notin {"idle", "row"} => I(p) \in Particle
  BY <1>2, RowType DEF I
<1>4. ASSUME (Finding(p) /\ ret[p] = "j") \/ Uniting(p) PROVE J(p) \in Particle
  <2>1. pc[p] \notin {"idle", "row"}
    BY <1>4 DEF Finding, Uniting
  <2>2. Rows[task[p]][local[p].row].js \in Seq(Particle)
    BY <1>2, <2>1, RowType
  <2> QED
    BY <1>4, <2>2, ElementOfSeq DEF InLoops, J
<1> QED
  BY <1>1, <1>3, <1>4

(* Joining groups does not undo what a thread knows. *)
LEMMA StillTied ==
  ASSUME IInv, NEW q \in Thread, Merges, Tied(q), InLoops(q), Expects(q),
         pc'[q] = pc[q], ret'[q] = ret[q], task'[q] = task[q], local'[q] = local[q],
         \A k \in Particle : group_index[k] # k => group_index'[k] # k
  PROVE  Tied(q)' /\ InLoops(q)' /\ Expects(q)'
<1>1. /\ local[q] \in Local
      /\ pc[q] \notin {"idle", "row"} => I(q) \in Particle
      /\ (Finding(q) /\ ret[q] = "j") \/ Uniting(q) => J(q) \in Particle
  BY TheirTypes
<1>2. /\ local[q].root \in Particle /\ local[q].arg \in Particle
      /\ local[q].root_i \in Particle /\ local[q].root_j \in Particle
      /\ local[q].new_i \in Particle /\ local[q].new_j \in Particle
  BY <1>1 DEF Local
<1>3. (Finding(q)' <=> Finding(q)) /\ (Uniting(q)' <=> Uniting(q))
  BY DEF Finding, Uniting
<1>4. I(q)' = I(q) /\ J(q)' = J(q)
  BY DEF I, J
<1>5. Tied(q)'
  <2>1. /\ Finding(q) => Root'[local[q].root] = Root'[local[q].arg]
        /\ Finding(q) /\ ret[q] \in {"i", "union_i"} => Root'[local[q].arg] = Root'[I(q)]
    BY <1>1, <1>2 DEF Tied, Merges, Finding
  <2>2. Finding(q) /\ ret[q] \in {"j", "union_j"} => Root'[local[q].arg] = Root'[J(q)]
    BY <1>1, <1>2 DEF Tied, Merges, Uniting
  <2>3. pc[q] = "col" \/ (Finding(q) /\ ret[q] = "j") \/ Uniting(q) =>
          Root'[local[q].root_i] = Root'[I(q)]
    BY <1>1, <1>2 DEF Tied, Merges, Uniting, Finding
  <2>4. Uniting(q) => Root'[local[q].root_j] = Root'[J(q)]
    BY <1>1, <1>2 DEF Tied, Merges
  <2>5. Uniting(q) /\ ~ (Finding(q) /\ ret[q] = "union_i") =>
          Root'[local[q].new_i] = Root'[I(q)]
    BY <1>1, <1>2 DEF Tied, Merges, Uniting, Finding
  <2>6. pc[q] \in {"update", "link"} => Root'[local[q].new_j] = Root'[J(q)]
    BY <1>1, <1>2 DEF Tied, Merges, Uniting
  <2> QED
    BY <1>3, <1>4, <2>1, <2>2, <2>3, <2>4, <2>5, <2>6 DEF Tied
<1>6. InLoops(q)'
  BY <1>3 DEF InLoops
<1>7. Expects(q)'
  <2>1. Larger(local[q]) \in Particle
    BY <1>2 DEF Larger
  <2> QED
    BY <2>1 DEF Expects, Larger
<1> QED
  BY <1>5, <1>6, <1>7

(* One thread's step, put together: the pairs it leaves behind are joined. *)
LEMMA AssembleGroups ==
  ASSUME IInv, Groups, NEW p \in Thread, Merges, todo' = todo,
         Tied(p)', InLoops(p)', Expects(p)',
         \A k \in Particle : group_index[k] # k => group_index'[k] # k,
         \A q \in Thread : q # p =>
           /\ pc'[q] = pc[q] /\ ret'[q] = ret[q]
           /\ task'[q] = task[q] /\ local'[q] = local[q],
         task[p] \in Task,
         task'[p] \in Task => task'[p] = task[p],
         \A r \in 1..Len(Rows[task[p]]) : \A c \in 1..Len(Rows[task[p]][r].js) :
           /\ <<Rows[task[p]][r].i, Rows[task[p]][r].js[c]>> \in Linked
           /\ ~Behind(p, r, c)
           /\ task'[p] \notin Task \/ Behind(p, r, c)'
           => Root'[Rows[task[p]][r].i] = Root'[Rows[task[p]][r].js[c]]
  PROVE  Groups'
<1>1. ASSUME NEW q \in Thread PROVE Tied(q)' /\ InLoops(q)' /\ Expects(q)'
  <2>1. CASE q = p
    BY <2>1
  <2>2. CASE q # p
    BY <2>2, StillTied DEF Groups
  <2> QED
    BY <2>1, <2>2
<1>2. ASSUME NEW t \in Task, NEW r \in 1..Len(Rows[t]), NEW c \in 1..Len(Rows[t][r].js),
             <<Rows[t][r].i, Rows[t][r].js[c]>> \in Linked, Passed(t, r, c)'
      PROVE  Root'[Rows[t][r].i] = Root'[Rows[t][r].js[c]]
  <2>1. Rows[t][r].i \in Particle /\ Rows[t][r].js[c] \in Particle
    BY RowType, ElementOfSeq
  <2>2. CASE Passed(t, r, c)
    BY <1>2, <2>1, <2>2 DEF Groups, Joined, Merges
  <2>3. CASE ~Passed(t, r, c)
    <3>1. PICK q \in Thread : task[q] = t /\ ~Behind(q, r, c)
      BY <1>2, <2>3 DEF Passed
    <3>2. task'[q] = t => Behind(q, r, c)'
      BY <1>2 DEF Passed
    <3>3. q = p
      BY <3>1, <3>2 DEF Behind
    <3> QED
      BY <1>2, <3>1, <3>2, <3>3
  <2> QED
    BY <2>2, <2>3
<1>3. Joined'
  BY <1>2 DEF Joined
<1> QED
  BY <1>1, <1>3 DEF Groups

(* A task that has just been taken has all its pairs ahead. *)
LEMMA StartGroups ==
  ASSUME IInv, Groups, NEW p \in Thread, NEW t \in Task, Start(p, t)
  PROVE  Groups'
<1>1. /\ TypeOK /\ pc[p] = "idle" /\ t \in todo /\ todo' = todo \ {t}
      /\ task' = [task EXCEPT ![p] = t] /\ pc' = [pc EXCEPT ![p] = "row"]
      /\ UNCHANGED <<group_index, ret, local>>
  BY DEF IInv, Start, Goto
<1>2. Root' = Root /\ Merges
  BY <1>1, SameLinks
<1>3. pc'[p] = "row" /\ task'[p] = t /\ local[p].row = 0
  BY <1>1 DEF TypeOK, Groups, InLoops
<1>4. \A q \in Thread : q # p =>
        /\ pc'[q] = pc[q] /\ ret'[q] = ret[q]
        /\ task'[q] = task[q] /\ local'[q] = local[q]
  BY <1>1 DEF TypeOK
<1>5. ASSUME NEW q \in Thread PROVE Tied(q)' /\ InLoops(q)' /\ Expects(q)'
  <2>1. CASE q = p
    BY <1>3, <2>1 DEF Tied, InLoops, Expects, Finding, Uniting
  <2>2. CASE q # p
    <3>1. \A k \in Particle : group_index[k] # k => group_index'[k] # k
      BY <1>1
    <3> QED
      BY <1>2, <1>4, <2>2, <3>1, StillTied DEF Groups
  <2> QED
    BY <2>1, <2>2
<1>6. ASSUME NEW u \in Task, NEW r \in 1..Len(Rows[u]), NEW c \in 1..Len(Rows[u][r].js),
             Passed(u, r, c)'
      PROVE  Passed(u, r, c)
  <2>1. u # t
    <3>1. ASSUME u = t PROVE FALSE
      <4>1. Behind(p, r, c)'
        BY <1>3, <1>6, <3>1 DEF Passed
      <4>2. local'[p].row = 0
        BY <1>1, <1>3
      <4> QED
        BY <4>1, <4>2 DEF Behind
    <3> QED
      BY <3>1
  <2>2. u \notin todo
    BY <1>1, <1>6, <2>1 DEF Passed
  <2>3. ASSUME NEW q \in Thread, task[q] = u PROVE Behind(q, r, c)
    <3>1. q # p
      BY <1>1, <2>3, RowsAssumption DEF Groups, InLoops
    <3> QED
      BY <1>4, <1>6, <2>3, <3>1 DEF Passed, Behind
  <2> QED
    BY <2>2, <2>3 DEF Passed
<1>7. Joined'
  BY <1>2, <1>6 DEF Joined, Groups
<1> QED
  BY <1>5, <1>7 DEF Groups

(* A particle and its parent have one root. *)
LEMMA ParentRoot ==
  ASSUME IInv, NEW k \in Particle
  PROVE  group_index[k] \in Particle /\ Root[group_index[k]] = Root[k]
<1>1. IsRoot(Root, group_index)
  BY RootIs DEF IInv
<1>2. Root[k] = IF group_index[k] = k THEN k ELSE Root[group_index[k]]
  BY <1>1 DEF IsRoot
<1> QED
  BY <1>2 DEF IInv, TypeOK

(* The row that ends had its last pair looked at. *)
LEMMA NextRowGroups ==
  ASSUME IInv, Groups, NEW p \in Thread, NextRow(p)
  PROVE  Groups'
<1> DEFINE l == [local[p] EXCEPT !.row = @ + 1, !.col = 0]
           rows == Rows[task[p]]
<1>1. /\ TypeOK /\ task[p] \in Task /\ local[p] \in Local /\ pc[p] = "row"
      /\ UNCHANGED <<group_index, todo>>
  BY DEF IInv, TypeOK, NextRow, Placed
<1>2. /\ l \in Local /\ l.row \in Nat \ {0} /\ l.col = 0
      /\ l.row = local[p].row + 1 /\ local[p].row \in Nat
  <2>1. local[p].row + 1 \in Nat \ {0} /\ local[p].row \in Nat
    BY <1>1 DEF Local
  <2>2. l.row = local[p].row + 1 /\ l.col = 0
    BY <1>1 DEF Local
  <2>3. l \in Local
    BY <1>1, <2>1 DEF Local
  <2> QED
    BY <2>1, <2>2, <2>3
<1>3. Root' = Root /\ Merges
  BY <1>1, SameLinks
<1>4. \A k \in Particle : group_index[k] # k => group_index'[k] # k
  BY <1>1
<1>5. CASE /\ l.row <= Len(rows)
           /\ Find(p, l, group_index[rows[l.row].i], "i")
           /\ UNCHANGED task
  <2> DEFINE k == group_index[rows[l.row].i]
  <2>1. l.row \in 1..Len(rows)
    BY <1>1, <1>2, <1>5, RowsAssumption
  <2>2. rows[l.row].i \in Particle
    BY <1>1, <2>1, RowType
  <2>3. k \in Particle /\ Root[k] = Root[rows[l.row].i]
    BY <2>2, ParentRoot
  <2>4. /\ pc'[p] = "walk" /\ ret'[p] = "i"
        /\ local'[p].arg = k /\ local'[p].root = k /\ local'[p].row = l.row
        /\ local'[p].col = l.col
        /\ \A q \in Thread : q # p =>
             pc'[q] = pc[q] /\ ret'[q] = ret[q] /\ local'[q] = local[q]
    <3> HIDE DEF l, rows
    <3> QED
      BY <1>1, <1>2, <1>5, <2>3, CallKeeps
  <2>5. I(p)' = rows[l.row].i
    BY <1>5, <2>4 DEF I
  <2> HIDE DEF l, k, rows
  <2>6. Tied(p)'
    BY <1>3, <2>3, <2>4, <2>5 DEF Tied, Finding, Uniting
  <2>7. InLoops(p)' /\ Expects(p)'
    BY <1>2, <2>4 DEF InLoops, Expects, Finding, Uniting
  <2>8. ASSUME NEW r \in Nat, NEW c \in Nat \ {0}, Behind(p, r, c)'
        PROVE  Behind(p, r, c)
    BY <1>1, <1>2, <2>4, <2>8 DEF Behind
  <2>9. task'[p] = task[p]
    BY <1>5
  <2> QED
    BY <1>1, <1>3, <1>4, <1>5, <2>4, <2>6, <2>7, <2>8, <2>9, AssembleGroups
<1>6. CASE /\ l.row > Len(rows)
           /\ Goto(p, "idle")
           /\ task' = [task EXCEPT ![p] = NoTask]
           /\ local' = [local EXCEPT ![p] = Fresh]
           /\ ret' = [ret EXCEPT ![p] = "i"]
  <2>1. pc'[p] = "idle" /\ task'[p] = NoTask /\ local'[p] = Fresh
    BY <1>1, <1>6 DEF TypeOK, Goto
  <2>2. Tied(p)' /\ InLoops(p)' /\ Expects(p)'
    BY <2>1 DEF Tied, InLoops, Expects, Finding, Uniting, Fresh
  <2>3. \A q \in Thread : q # p =>
          /\ pc'[q] = pc[q] /\ ret'[q] = ret[q]
          /\ task'[q] = task[q] /\ local'[q] = local[q]
    BY <1>1, <1>6 DEF TypeOK, Goto
  <2>4. ASSUME NEW r \in 1..Len(rows), NEW c PROVE Behind(p, r, c)
    <3>1. Len(rows) \in Nat
      BY <1>1, RowsAssumption
    <3> HIDE DEF l, rows
    <3> QED
      BY <1>1, <1>2, <1>6, <3>1 DEF Behind
  <2>5. NoTask \notin Task
    BY RowsAssumption
  <2> HIDE DEF l
  <2> QED
    BY <1>1, <1>3, <1>4, <2>1, <2>2, <2>3, <2>4, <2>5, AssembleGroups
<1> QED
  BY <1>5, <1>6 DEF NextRow

(* The column that ends had its pair looked at. *)
LEMMA NextColGroups ==
  ASSUME IInv, Groups, NEW p \in Thread, NextCol(p)
  PROVE  Groups'
<1> DEFINE l == [local[p] EXCEPT !.col = @ + 1]
           js == Rows[task[p]][l.row].js
<1>1. /\ TypeOK /\ task[p] \in Task /\ local[p] \in Local /\ pc[p] = "col"
      /\ local[p].row \in 1..Len(Rows[task[p]])
      /\ UNCHANGED <<group_index, todo, task>>
      /\ Tied(p) /\ InLoops(p)
  BY DEF IInv, TypeOK, NextCol, Placed, Groups
<1>2. /\ l \in Local /\ l.col \in Nat \ {0}
      /\ l.col = local[p].col + 1 /\ local[p].col \in Nat
      /\ l.row = local[p].row /\ l.root_i = local[p].root_i
  BY <1>1 DEF Local
<1>3. Root' = Root /\ Merges
  BY <1>1, SameLinks
<1>4. \A k \in Particle : group_index[k] # k => group_index'[k] # k
  BY <1>1
<1>5. js \in Seq(Particle) /\ Len(js) \in Nat
  BY <1>1, <1>2, RowType
<1>6. CASE l.col <= Len(js) /\ Find(p, l, group_index[js[l.col]], "j")
  <2> DEFINE k == group_index[js[l.col]]
  <2>1. l.col \in 1..Len(js)
    <3> HIDE DEF l, js
    <3> QED
      BY <1>2, <1>5, <1>6
  <2>2. js[l.col] \in Particle
    <3> HIDE DEF l, js
    <3> QED
      BY <1>5, <2>1, ElementOfSeq
  <2>3. k \in Particle /\ Root[k] = Root[js[l.col]]
    BY <2>2, ParentRoot
  <2>4. /\ pc'[p] = "walk" /\ ret'[p] = "j"
        /\ local'[p].arg = k /\ local'[p].root = k
        /\ local'[p].row = l.row /\ local'[p].col = l.col
        /\ local'[p].root_i = l.root_i
        /\ \A q \in Thread : q # p =>
             pc'[q] = pc[q] /\ ret'[q] = ret[q] /\ local'[q] = local[q]
    <3> HIDE DEF l, js
    <3> QED
      BY <1>1, <1>2, <1>6, <2>3, CallKeeps
  <2>5. I(p)' = I(p) /\ J(p)' = js[l.col]
    BY <1>1, <1>2, <2>4 DEF I, J
  <2>6. Rows[task'[p]][local'[p].row].js = js
    BY <1>1, <2>4
  <2>7. Root[local[p].root_i] = Root[I(p)]
    BY <1>1 DEF Tied
  <2> HIDE DEF l, k, js
  <2>8. Tied(p)'
    BY <1>2, <1>3, <2>3, <2>4, <2>5, <2>7 DEF Tied, Finding, Uniting
  <2>9. InLoops(p)' /\ Expects(p)'
    BY <2>1, <2>4, <2>6 DEF InLoops, Expects, Finding, Uniting
  <2>10. ASSUME NEW r \in Nat, NEW c \in Nat \ {0}, Behind(p, r, c)'
         PROVE  Behind(p, r, c)
    BY <1>1, <1>2, <2>4, <2>10 DEF Behind
  <2>11. \A q \in Thread : q # p =>
          /\ pc'[q] = pc[q] /\ ret'[q] = ret[q]
          /\ task'[q] = task[q] /\ local'[q] = local[q]
    BY <1>1, <2>4
  <2> QED
    BY <1>1, <1>3, <1>4, <2>8, <2>9, <2>10, <2>11, AssembleGroups
<1>7. CASE l.col > Len(js) /\ Goto(p, "row") /\ UNCHANGED <<local, ret>>
  <2>1. pc'[p] = "row" /\ local'[p] = local[p]
    BY <1>1, <1>7 DEF TypeOK, Goto
  <2>2. Tied(p)' /\ InLoops(p)' /\ Expects(p)'
    BY <2>1 DEF Tied, InLoops, Expects, Finding, Uniting
  <2>3. \A q \in Thread : q # p =>
          /\ pc'[q] = pc[q] /\ ret'[q] = ret[q]
          /\ task'[q] = task[q] /\ local'[q] = local[q]
    BY <1>1, <1>7 DEF TypeOK, Goto
  <2>4. ASSUME NEW r \in Nat, NEW c \in 1..Len(Rows[task[p]][r].js), Behind(p, r, c)'
        PROVE  Behind(p, r, c)
    <3>1. CASE r # local[p].row
      BY <2>1, <2>4, <3>1 DEF Behind
    <3>2. CASE r = local[p].row
      <4>1. c \in 1..Len(js)
        BY <1>2, <3>2
      <4> HIDE DEF l, js
      <4>2. c <= local[p].col
        BY <1>2, <1>5, <1>7, <4>1
      <4> QED
        BY <1>1, <1>2, <1>5, <3>2, <4>1, <4>2 DEF Behind
    <3> QED
      BY <3>1, <3>2
  <2> HIDE DEF l
  <2>5. \A r \in 1..Len(Rows[task[p]]) : r \in Nat
    OBVIOUS
  <2>6. task'[p] = task[p]
    BY <1>1
  <2> QED
    BY <1>1, <1>3, <1>4, <2>2, <2>3, <2>4, <2>5, <2>6, AssembleGroups
<1> QED
  BY <1>6, <1>7 DEF NextCol

(* fof_find stays in its group. *)
LEMMA WalkGroups ==
  ASSUME IInv, Groups, NEW p \in Thread, Walk(p)
  PROVE  Groups'
<1> DEFINE l == local[p]
           parent == group_index[l.root]
           d == IF l.depth < min_length THEN l.depth + 1 ELSE l.depth
           m == [l EXCEPT !.root = parent, !.depth = d]
<1>1. /\ TypeOK /\ l \in Local /\ pc[p] = "walk" /\ task[p] \in Task
      /\ UNCHANGED <<group_index, todo, task, ret>>
      /\ Tied(p) /\ InLoops(p)
  BY DEF IInv, TypeOK, Walk, Groups, Placed
<1>2. Root[parent] = Root[l.root]
  BY <1>1, ParentRoot DEF Local
<1>3. Root' = Root /\ Merges
  BY <1>1, SameLinks
<1>4. \A k \in Particle : group_index[k] # k => group_index'[k] # k
  BY <1>1
<1>5. CASE local' = [local EXCEPT ![p] = m] /\ UNCHANGED pc
  <2>1. local'[p] = m
    BY <1>1, <1>5 DEF TypeOK
  <2>2. /\ local'[p].root = parent /\ local'[p].arg = l.arg
        /\ local'[p].row = l.row /\ local'[p].col = l.col
        /\ local'[p].root_i = l.root_i /\ local'[p].root_j = l.root_j
        /\ local'[p].new_i = l.new_i /\ local'[p].new_j = l.new_j
    BY <1>1, <2>1 DEF Local
  <2>3. I(p)' = I(p) /\ J(p)' = J(p)
    BY <1>1, <2>2 DEF I, J
  <2> HIDE DEF parent, m
  <2>4. Tied(p)'
    BY <1>1, <1>2, <1>3, <1>5, <2>2, <2>3 DEF Tied, Finding, Uniting
  <2>5. InLoops(p)' /\ Expects(p)'
    BY <1>1, <1>5, <2>2 DEF InLoops, Expects, Finding, Uniting
  <2>6. ASSUME NEW r, NEW c, Behind(p, r, c)' PROVE Behind(p, r, c)
    BY <1>1, <1>5, <2>2, <2>6 DEF Behind
  <2>7. \A q \in Thread : q # p =>
          /\ pc'[q] = pc[q] /\ ret'[q] = ret[q]
          /\ task'[q] = task[q] /\ local'[q] = local[q]
    BY <1>1, <1>5 DEF TypeOK
  <2>8. task'[p] = task[p]
    BY <1>1
  <2> QED
    BY <1>1, <1>3, <1>4, <2>4, <2>5, <2>6, <2>7, <2>8, AssembleGroups
<1>6. CASE /\ Goto(p, IF l.depth >= min_length THEN "compress" ELSE "found")
           /\ UNCHANGED local
  <2>1. pc'[p] \in {"compress", "found"} /\ local'[p] = local[p]
    BY <1>1, <1>6 DEF TypeOK, Goto
  <2>2. I(p)' = I(p) /\ J(p)' = J(p)
    BY <1>1, <1>6 DEF I, J
  <2>3. Tied(p)'
    BY <1>1, <1>3, <2>1, <2>2 DEF Tied, Finding, Uniting
  <2>4. InLoops(p)' /\ Expects(p)'
    BY <1>1, <2>1 DEF InLoops, Expects, Finding, Uniting
  <2>5. ASSUME NEW r, NEW c, Behind(p, r, c)' PROVE Behind(p, r, c)
    BY <2>1, <2>5 DEF Behind
  <2>6. \A q \in Thread : q # p =>
          /\ pc'[q] = pc[q] /\ ret'[q] = ret[q]
          /\ task'[q] = task[q] /\ local'[q] = local[q]
    BY <1>1, <1>6 DEF TypeOK, Goto
  <2>7. task'[p] = task[p]
    BY <1>1
  <2> QED
    BY <1>1, <1>3, <1>4, <2>3, <2>4, <2>5, <2>6, <2>7, AssembleGroups
<1> QED
  BY <1>5, <1>6 DEF Walk

(* Reading the argument's parent changes nothing but seen. *)
LEMMA CompressGroups ==
  ASSUME IInv, Groups, NEW p \in Thread, Compress(p)
  PROVE  Groups'
<1> DEFINE l == local[p]
           m == [l EXCEPT !.seen = group_index[l.arg]]
<1>1. /\ TypeOK /\ l \in Local /\ pc[p] = "compress" /\ task[p] \in Task
      /\ UNCHANGED <<group_index, todo, task, ret>>
      /\ Tied(p) /\ InLoops(p)
  BY DEF IInv, TypeOK, Compress, Groups, Placed
<1>2. local' = [local EXCEPT ![p] = m] /\ Goto(p, "swap")
  BY DEF Compress
<1>3. local'[p] = m /\ pc'[p] = "swap"
  BY <1>1, <1>2 DEF TypeOK, Goto
<1>4. /\ local'[p].root = l.root /\ local'[p].arg = l.arg
      /\ local'[p].row = l.row /\ local'[p].col = l.col
      /\ local'[p].root_i = l.root_i /\ local'[p].root_j = l.root_j
      /\ local'[p].new_i = l.new_i /\ local'[p].new_j = l.new_j
  BY <1>1, <1>3 DEF Local
<1>5. I(p)' = I(p) /\ J(p)' = J(p)
  BY <1>1, <1>4 DEF I, J
<1>6. Root' = Root /\ Merges
  BY <1>1, SameLinks
<1> HIDE DEF m
<1>7. Tied(p)'
  BY <1>1, <1>3, <1>4, <1>5, <1>6 DEF Tied, Finding, Uniting
<1>8. InLoops(p)' /\ Expects(p)'
  BY <1>1, <1>3, <1>4 DEF InLoops, Expects, Finding, Uniting
<1>9. ASSUME NEW r, NEW c, Behind(p, r, c)' PROVE Behind(p, r, c)
  BY <1>3, <1>4, <1>9 DEF Behind
<1>10. \A q \in Thread : q # p =>
         /\ pc'[q] = pc[q] /\ ret'[q] = ret[q]
         /\ task'[q] = task[q] /\ local'[q] = local[q]
  BY <1>1, <1>2 DEF TypeOK, Goto
<1>11. \A k \in Particle : group_index[k] # k => group_index'[k] # k
  BY <1>1
<1>12. task'[p] = task[p]
  BY <1>1
<1> QED
  BY <1>1, <1>6, <1>7, <1>8, <1>9, <1>10, <1>11, <1>12, AssembleGroups

(* Compressing a path leaves every group as it is. *)
LEMMA SwapGroups ==
  ASSUME IInv, IInv', Groups, NEW p \in Thread, Swap(p)
  PROVE  Groups'
<1> DEFINE l == local[p]
<1>1. /\ TypeOK /\ LinksDescend /\ l \in Local /\ pc[p] = "swap" /\ task[p] \in Task
      /\ UNCHANGED <<todo, task, ret, local>> /\ Goto(p, "found")
      /\ Tied(p) /\ InLoops(p)
  BY DEF IInv, TypeOK, Swap, Groups, Placed
<1>2. l.root \in Particle /\ l.arg \in Particle /\ l.root < l.arg
  BY <1>1 DEF Local, IInv, Below, Finding
<1>3. Root[l.arg] = Root[l.root]
  BY <1>1 DEF Tied, Finding
<1>4. \/ group_index' = [group_index EXCEPT ![l.arg] = l.root]
      \/ UNCHANGED group_index
  BY <1>1, <1>2 DEF Swap, TypeOK
<1>5. Root' = Root /\ Merges
  <2>1. CASE UNCHANGED group_index
    BY <2>1, SameLinks
  <2>2. CASE group_index' = [group_index EXCEPT ![l.arg] = l.root]
    <3>1. TypeOK' /\ LinksDescend'
      BY DEF IInv
    <3>2. Root' = Root
      BY <1>1, <1>2, <1>3, <2>2, <3>1, Shortened
    <3> QED
      BY <3>2 DEF Merges
  <2> QED
    BY <1>4, <2>1, <2>2
<1>6. pc'[p] = "found" /\ local'[p] = local[p] /\ I(p)' = I(p) /\ J(p)' = J(p)
  BY <1>1 DEF TypeOK, Goto, I, J
<1>7. Tied(p)'
  BY <1>1, <1>5, <1>6 DEF Tied, Finding, Uniting
<1>8. InLoops(p)' /\ Expects(p)'
  BY <1>1, <1>6 DEF InLoops, Expects, Finding, Uniting
<1>9. ASSUME NEW r, NEW c, Behind(p, r, c)' PROVE Behind(p, r, c)
  BY <1>6, <1>9 DEF Behind
<1>10. \A q \in Thread : q # p =>
         /\ pc'[q] = pc[q] /\ ret'[q] = ret[q]
         /\ task'[q] = task[q] /\ local'[q] = local[q]
  BY <1>1 DEF TypeOK, Goto
<1>11. ASSUME NEW k \in Particle, group_index[k] # k PROVE group_index'[k] # k
  <2>1. l.root # l.arg
    BY <1>2, ParticleAssumption
  <2>2. group_index'[k] = group_index[k] \/ (k = l.arg /\ group_index'[k] = l.root)
    BY <1>1, <1>4 DEF TypeOK
  <2> QED
    BY <1>11, <2>1, <2>2
<1>12. task'[p] = task[p]
  BY <1>1
<1> QED
  BY <1>1, <1>5, <1>7, <1>8, <1>9, <1>10, <1>11, <1>12, AssembleGroups

(* The returns of fof_find. *)
LEMMA FoundIGroups ==
  ASSUME IInv, Groups, NEW p \in Thread, FoundI(p)
  PROVE  Groups'
<1> DEFINE l == [local[p] EXCEPT !.root_i = local[p].root]
<1>1. /\ TypeOK /\ local[p] \in Local /\ pc[p] = "found" /\ ret[p] = "i"
      /\ task[p] \in Task
      /\ UNCHANGED <<group_index, todo, task, ret>> /\ Goto(p, "col")
      /\ local' = [local EXCEPT ![p] = l]
      /\ Tied(p) /\ InLoops(p)
  BY DEF IInv, TypeOK, FoundI, Groups, Placed
<1>2. local'[p] = l /\ pc'[p] = "col"
  BY <1>1 DEF TypeOK, Goto
<1>3. /\ local'[p].root_i = local[p].root /\ local'[p].row = local[p].row
      /\ local'[p].col = local[p].col
  BY <1>1, <1>2 DEF Local
<1>4. I(p)' = I(p) /\ local[p].col = 0
  BY <1>1, <1>3 DEF I, InLoops, Finding
<1> HIDE DEF l
<1>5. Root' = Root /\ Merges
  BY <1>1, SameLinks
<1>6. Tied(p)'
  BY <1>1, <1>2, <1>3, <1>4, <1>5 DEF Tied, Finding, Uniting
<1>7. InLoops(p)' /\ Expects(p)'
  BY <1>2 DEF InLoops, Expects, Finding, Uniting
<1>8. ASSUME NEW r \in Nat, NEW c \in Nat \ {0}, Behind(p, r, c)' PROVE Behind(p, r, c)
  BY <1>2, <1>3, <1>4, <1>8 DEF Behind
<1>9. \A q \in Thread : q # p =>
        /\ pc'[q] = pc[q] /\ ret'[q] = ret[q]
        /\ task'[q] = task[q] /\ local'[q] = local[q]
  BY <1>1 DEF TypeOK, Goto
<1>10. \A k \in Particle : group_index[k] # k => group_index'[k] # k
  BY <1>1
<1>11. task'[p] = task[p]
  BY <1>1
<1> QED
  BY <1>1, <1>5, <1>6, <1>7, <1>8, <1>9, <1>10, <1>11, AssembleGroups

(* A pair is left alone if it is in one group, or too far apart. *)
LEMMA FoundJGroups ==
  ASSUME IInv, Groups, NEW p \in Thread, FoundJ(p)
  PROVE  Groups'
<1> DEFINE l == [local[p] EXCEPT !.root_j = local[p].root]
<1>1. /\ TypeOK /\ local[p] \in Local /\ pc[p] = "found" /\ ret[p] = "j"
      /\ task[p] \in Task
      /\ UNCHANGED <<group_index, todo, task>>
      /\ Tied(p) /\ InLoops(p)
  BY DEF IInv, TypeOK, FoundJ, Groups, Placed
<1>2. /\ l \in Local /\ l.row = local[p].row /\ l.col = local[p].col
      /\ l.root_i = local[p].root_i /\ l.root_j = local[p].root
      /\ l.root_i \in Particle /\ l.col \in Nat /\ l.row \in Nat
  BY <1>1 DEF Local
<1>3. /\ Root[local[p].root_i] = Root[I(p)]
      /\ Root[local[p].root] = Root[J(p)]
      /\ local[p].col \in 1..Len(Rows[task[p]][local[p].row].js)
  BY <1>1 DEF Tied, InLoops, Finding
<1>4. Root' = Root /\ Merges
  BY <1>1, SameLinks
<1>5. \A k \in Particle : group_index[k] # k => group_index'[k] # k
  BY <1>1
<1>6. task'[p] = task[p]
  BY <1>1
<1>7. CASE Find(p, l, l.root_i, "union_i")
  <2> HIDE DEF l
  <2>1. /\ pc'[p] = "walk" /\ ret'[p] = "union_i"
        /\ local'[p].arg = l.root_i /\ local'[p].root = l.root_i
        /\ local'[p].row = l.row /\ local'[p].col = l.col
        /\ local'[p].root_i = l.root_i /\ local'[p].root_j = l.root_j
        /\ \A q \in Thread : q # p =>
             pc'[q] = pc[q] /\ ret'[q] = ret[q] /\ local'[q] = local[q]
    BY <1>1, <1>2, <1>7, CallKeeps
  <2>2. I(p)' = I(p) /\ J(p)' = J(p)
    BY <1>1, <1>2, <2>1 DEF I, J
  <2>3. Tied(p)'
    BY <1>2, <1>3, <1>4, <2>1, <2>2 DEF Tied, Finding, Uniting
  <2>4. InLoops(p)' /\ Expects(p)'
    BY <1>2, <1>3, <1>6, <2>1 DEF InLoops, Expects, Finding, Uniting
  <2>5. ASSUME NEW r, NEW c, Behind(p, r, c)' PROVE Behind(p, r, c)
    BY <1>2, <2>1, <2>5 DEF Behind
  <2>6. \A q \in Thread : q # p =>
          /\ pc'[q] = pc[q] /\ ret'[q] = ret[q]
          /\ task'[q] = task[q] /\ local'[q] = local[q]
    BY <1>1, <2>1
  <2> QED
    BY <1>1, <1>4, <1>5, <1>6, <2>3, <2>4, <2>5, <2>6, AssembleGroups
<1>8. CASE /\ l.root_i = l.root_j \/ <<I(p), J(p)>> \notin Linked
           /\ local' = [local EXCEPT ![p] = l] /\ Goto(p, "col") /\ UNCHANGED ret
  <2>1. local'[p] = l /\ pc'[p] = "col"
    BY <1>1, <1>8 DEF TypeOK, Goto
  <2> HIDE DEF l
  <2>2. I(p)' = I(p)
    BY <1>1, <1>2, <2>1 DEF I
  <2>3. Tied(p)'
    BY <1>2, <1>3, <1>4, <2>1, <2>2 DEF Tied, Finding, Uniting
  <2>4. InLoops(p)' /\ Expects(p)'
    BY <2>1 DEF InLoops, Expects, Finding, Uniting
  <2>5. \A q \in Thread : q # p =>
          /\ pc'[q] = pc[q] /\ ret'[q] = ret[q]
          /\ task'[q] = task[q] /\ local'[q] = local[q]
    BY <1>1, <1>8 DEF TypeOK, Goto
  <2>6. ASSUME NEW r \in 1..Len(Rows[task[p]]), NEW c \in 1..Len(Rows[task[p]][r].js),
               <<Rows[task[p]][r].i, Rows[task[p]][r].js[c]>> \in Linked,
               ~Behind(p, r, c), Behind(p, r, c)'
        PROVE  Root'[Rows[task[p]][r].i] = Root'[Rows[task[p]][r].js[c]]
    <3>1. r = local[p].row /\ c = local[p].col
      BY <1>2, <2>1, <2>6 DEF Behind
    <3>2. Rows[task[p]][r].i = I(p) /\ Rows[task[p]][r].js[c] = J(p)
      BY <3>1 DEF I, J
    <3>3. l.root_i = l.root_j
      BY <1>8, <2>6, <3>2
    <3> QED
      BY <1>2, <1>3, <1>4, <3>2, <3>3
  <2> QED
    BY <1>1, <1>4, <1>5, <1>6, <2>3, <2>4, <2>5, <2>6, AssembleGroups
<1>9. I(p) = Rows[task[p]][l.row].i /\ J(p) = Rows[task[p]][l.row].js[l.col]
  BY <1>2 DEF I, J
<1> QED
  BY <1>7, <1>8, <1>9 DEF FoundJ

(* The new root of i is in the group of the old one. *)
LEMMA FoundUnionIGroups ==
  ASSUME IInv, Groups, NEW p \in Thread, FoundUnionI(p)
  PROVE  Groups'
<1> DEFINE l == [local[p] EXCEPT !.new_i = local[p].root]
<1>1. /\ TypeOK /\ local[p] \in Local /\ pc[p] = "found" /\ ret[p] = "union_i"
      /\ task[p] \in Task
      /\ UNCHANGED <<group_index, todo, task>>
      /\ Find(p, l, local[p].root_j, "union_j")
      /\ Tied(p) /\ InLoops(p)
  BY DEF IInv, TypeOK, FoundUnionI, Groups, Placed
<1>2. /\ l \in Local /\ l.row = local[p].row /\ l.col = local[p].col
      /\ l.root_i = local[p].root_i /\ l.root_j = local[p].root_j
      /\ l.new_i = local[p].root /\ local[p].root_j \in Particle
  BY <1>1 DEF Local
<1> HIDE DEF l
<1>3. /\ pc'[p] = "walk" /\ ret'[p] = "union_j"
      /\ local'[p].arg = local[p].root_j /\ local'[p].root = local[p].root_j
      /\ local'[p].row = l.row /\ local'[p].col = l.col
      /\ local'[p].root_i = l.root_i /\ local'[p].root_j = l.root_j
      /\ local'[p].new_i = l.new_i
      /\ \A q \in Thread : q # p =>
           pc'[q] = pc[q] /\ ret'[q] = ret[q] /\ local'[q] = local[q]
  BY <1>1, <1>2, CallKeeps
<1>4. I(p)' = I(p) /\ J(p)' = J(p)
  BY <1>1, <1>2, <1>3 DEF I, J
<1>5. Root' = Root /\ Merges
  BY <1>1, SameLinks
<1>6. Tied(p)'
  BY <1>1, <1>2, <1>3, <1>4, <1>5 DEF Tied, Finding, Uniting
<1>7. InLoops(p)' /\ Expects(p)'
  BY <1>1, <1>2, <1>3 DEF InLoops, Expects, Finding, Uniting
<1>8. ASSUME NEW r, NEW c, Behind(p, r, c)' PROVE Behind(p, r, c)
  BY <1>2, <1>3, <1>8 DEF Behind
<1>9. \A q \in Thread : q # p =>
        /\ pc'[q] = pc[q] /\ ret'[q] = ret[q]
        /\ task'[q] = task[q] /\ local'[q] = local[q]
  BY <1>1, <1>3
<1>10. \A k \in Particle : group_index[k] # k => group_index'[k] # k
  BY <1>1
<1>11. task'[p] = task[p]
  BY <1>1
<1> QED
  BY <1>1, <1>5, <1>6, <1>7, <1>8, <1>9, <1>10, <1>11, AssembleGroups

(* If the new roots agree, somebody has joined the two groups meanwhile. *)
LEMMA FoundUnionJGroups ==
  ASSUME IInv, Groups, NEW p \in Thread, FoundUnionJ(p)
  PROVE  Groups'
<1> DEFINE l == [local[p] EXCEPT !.new_j = local[p].root]
<1>1. /\ TypeOK /\ local[p] \in Local /\ pc[p] = "found" /\ ret[p] = "union_j"
      /\ task[p] \in Task
      /\ UNCHANGED <<group_index, todo, task, ret>>
      /\ local' = [local EXCEPT ![p] = l]
      /\ Goto(p, IF l.new_i = l.new_j THEN "col" ELSE "update")
      /\ Tied(p) /\ InLoops(p)
  BY DEF IInv, TypeOK, FoundUnionJ, Groups, Placed
<1>2. /\ l.row = local[p].row /\ l.col = local[p].col
      /\ l.root_i = local[p].root_i /\ l.root_j = local[p].root_j
      /\ l.new_i = local[p].new_i /\ l.new_j = local[p].root
      /\ l.col \in Nat /\ l.row \in Nat
  BY <1>1 DEF Local
<1> HIDE DEF l
<1>3. local'[p] = l /\ pc'[p] = IF l.new_i = l.new_j THEN "col" ELSE "update"
  BY <1>1 DEF TypeOK, Goto
<1>4. I(p)' = I(p) /\ J(p)' = J(p)
  BY <1>1, <1>2, <1>3 DEF I, J
<1>5. Root' = Root /\ Merges
  BY <1>1, SameLinks
<1>6. Root[local[p].new_i] = Root[I(p)] /\ Root[local[p].root] = Root[J(p)]
  BY <1>1 DEF Tied, Finding, Uniting
<1>7. Tied(p)'
  BY <1>1, <1>2, <1>3, <1>4, <1>5, <1>6 DEF Tied, Finding, Uniting
<1>8. InLoops(p)' /\ Expects(p)'
  BY <1>1, <1>2, <1>3 DEF InLoops, Expects, Finding, Uniting
<1>9. \A q \in Thread : q # p =>
        /\ pc'[q] = pc[q] /\ ret'[q] = ret[q]
        /\ task'[q] = task[q] /\ local'[q] = local[q]
  BY <1>1 DEF TypeOK, Goto
<1>10. ASSUME NEW r \in 1..Len(Rows[task[p]]), NEW c \in 1..Len(Rows[task[p]][r].js),
              ~Behind(p, r, c), Behind(p, r, c)'
       PROVE  Root'[Rows[task[p]][r].i] = Root'[Rows[task[p]][r].js[c]]
  <2>1. r = local[p].row /\ c = local[p].col /\ l.new_i = l.new_j
    BY <1>2, <1>3, <1>10 DEF Behind
  <2>2. Rows[task[p]][r].i = I(p) /\ Rows[task[p]][r].js[c] = J(p)
    BY <2>1 DEF I, J
  <2> QED
    BY <1>2, <1>5, <1>6, <2>1, <2>2
<1>11. \A k \in Particle : group_index[k] # k => group_index'[k] # k
  BY <1>1
<1>12. task'[p] = task[p]
  BY <1>1
<1> QED
  BY <1>1, <1>5, <1>7, <1>8, <1>9, <1>10, <1>11, <1>12, AssembleGroups

(* atomic_update_root reads the root, or its parent if it has got one. *)
LEMMA UpdateGroups ==
  ASSUME IInv, Groups, NEW p \in Thread, Update(p)
  PROVE  Groups'
<1> DEFINE l == [local[p] EXCEPT !.seen = group_index[Larger(local[p])]]
<1>1. /\ TypeOK /\ local[p] \in Local /\ pc[p] = "update" /\ task[p] \in Task
      /\ UNCHANGED <<group_index, todo, task, ret>>
      /\ Tied(p) /\ InLoops(p)
  BY DEF IInv, TypeOK, Update, Groups, Placed
<1>2. local' = [local EXCEPT ![p] = l] /\ Goto(p, "link")
  BY DEF Update
<1>3. /\ l.row = local[p].row /\ l.col = local[p].col
      /\ l.root_i = local[p].root_i /\ l.root_j = local[p].root_j
      /\ l.new_i = local[p].new_i /\ l.new_j = local[p].new_j
      /\ l.seen = group_index[Larger(local[p])]
  BY <1>1 DEF Local
<1> HIDE DEF l
<1>4. local'[p] = l /\ pc'[p] = "link"
  BY <1>1, <1>2 DEF TypeOK, Goto
<1>5. I(p)' = I(p) /\ J(p)' = J(p)
  BY <1>1, <1>3, <1>4 DEF I, J
<1>6. Root' = Root /\ Merges
  BY <1>1, SameLinks
<1>7. Tied(p)'
  BY <1>1, <1>3, <1>4, <1>5, <1>6 DEF Tied, Finding, Uniting
<1>8. InLoops(p)'
  BY <1>1, <1>3, <1>4 DEF InLoops, Finding, Uniting
<1>9. Expects(p)'
  <2>1. Larger(local'[p]) = Larger(local[p])
    BY <1>3, <1>4 DEF Larger
  <2>2. \/ local'[p].seen = Larger(local'[p])
        \/ group_index'[Larger(local'[p])] # Larger(local'[p])
    BY <1>1, <1>3, <1>4, <2>1
  <2> QED
    BY <2>2 DEF Expects, Larger
<1>10. ASSUME NEW r, NEW c, Behind(p, r, c)' PROVE Behind(p, r, c)
  BY <1>3, <1>4, <1>10 DEF Behind
<1>11. \A q \in Thread : q # p =>
         /\ pc'[q] = pc[q] /\ ret'[q] = ret[q]
         /\ task'[q] = task[q] /\ local'[q] = local[q]
  BY <1>1, <1>2 DEF TypeOK, Goto
<1>12. \A k \in Particle : group_index[k] # k => group_index'[k] # k
  BY <1>1
<1>13. task'[p] = task[p]
  BY <1>1
<1> QED
  BY <1>1, <1>6, <1>7, <1>8, <1>9, <1>10, <1>11, <1>12, <1>13, AssembleGroups

(***************************************************************************)
(* A root that is still a root is what the swap expects: the two groups    *)
(* become one.                                                             *)
(***************************************************************************)
LEMMA LinkGroups ==
  ASSUME IInv, IInv', Groups, NEW p \in Thread, Link(p), ~raced'
  PROVE  Groups'
<1> DEFINE l == local[p]
           after == [l EXCEPT !.root_i = Smaller(l)]
<1>1. /\ TypeOK /\ LinksDescend /\ l \in Local /\ pc[p] = "link" /\ l.new_i # l.new_j
      /\ task[p] \in Task
      /\ UNCHANGED <<todo, task>>
      /\ Tied(p) /\ InLoops(p) /\ Expects(p)
  BY DEF IInv, TypeOK, Link, Below, Groups, Placed
<1>2. /\ Larger(l) \in Particle /\ Smaller(l) \in Particle /\ Smaller(l) < Larger(l)
  BY <1>1, Ordered
<1>3. group_index[Larger(l)] = Larger(l)
  BY DEF Link
<1>4. group_index[Larger(l)] = l.seen
  BY <1>1, <1>3 DEF Expects
<1>5. /\ group_index' = [group_index EXCEPT ![Larger(l)] = Smaller(l)]
      /\ local' = [local EXCEPT ![p] = after]
      /\ Goto(p, "col")
      /\ UNCHANGED ret
  BY <1>4 DEF Link
<1>6. Root'[Larger(l)] = Root'[Smaller(l)] /\ Merges
  <2>1. TypeOK' /\ LinksDescend'
    BY DEF IInv
  <2> QED
    BY <1>1, <1>2, <1>3, <1>5, <2>1, Linking
<1>7. I(p) \in Particle /\ J(p) \in Particle /\ l.new_i \in Particle /\ l.new_j \in Particle
  <2>1. I(p) \in Particle /\ J(p) \in Particle
    BY <1>1, TheirTypes DEF Uniting
  <2> QED
    BY <1>1, <2>1 DEF Local
<1>8. Root'[l.new_i] = Root'[I(p)] /\ Root'[l.new_j] = Root'[J(p)]
  <2>1. Root[l.new_i] = Root[I(p)] /\ Root[l.new_j] = Root[J(p)]
    BY <1>1 DEF Tied, Uniting, Finding
  <2> QED
    BY <1>6, <1>7, <2>1 DEF Merges
<1>9. /\ Root'[Smaller(l)] = Root'[I(p)] /\ Root'[I(p)] = Root'[J(p)]
  BY <1>6, <1>8 DEF Larger, Smaller
<1>10. /\ after.row = l.row /\ after.col = l.col /\ after.root_i = Smaller(l)
       /\ l.row \in Nat /\ l.col \in Nat
  BY <1>1, <1>2 DEF Local
<1>11. local'[p] = after /\ pc'[p] = "col"
  BY <1>1, <1>5 DEF TypeOK, Goto
<1> HIDE DEF after
<1>12. I(p)' = I(p)
  BY <1>1, <1>10, <1>11 DEF I
<1>13. Tied(p)'
  BY <1>9, <1>10, <1>11, <1>12 DEF Tied, Finding, Uniting
<1>14. InLoops(p)' /\ Expects(p)'
  BY <1>11 DEF InLoops, Expects, Finding, Uniting
<1>15. \A q \in Thread : q # p =>
         /\ pc'[q] = pc[q] /\ ret'[q] = ret[q]
         /\ task'[q] = task[q] /\ local'[q] = local[q]
  BY <1>1, <1>5 DEF TypeOK, Goto
<1>16. ASSUME NEW r \in 1..Len(Rows[task[p]]), NEW c \in 1..Len(Rows[task[p]][r].js),
              ~Behind(p, r, c), Behind(p, r, c)'
       PROVE  Root'[Rows[task[p]][r].i] = Root'[Rows[task[p]][r].js[c]]
  <2>1. r = local[p].row /\ c = local[p].col
    BY <1>10, <1>11, <1>16 DEF Behind
  <2>2. Rows[task[p]][r].i = I(p) /\ Rows[task[p]][r].js[c] = J(p)
    BY <2>1 DEF I, J
  <2> QED
    BY <1>9, <2>2
<1>17. ASSUME NEW k \in Particle, group_index[k] # k PROVE group_index'[k] # k
  BY <1>1, <1>2, <1>3, <1>5, <1>17 DEF TypeOK
<1>18. task'[p] = task[p]
  BY <1>1
<1> QED
  BY <1>1, <1>6, <1>13, <1>14, <1>15, <1>16, <1>17, <1>18, AssembleGroups

-----------------------------------------------------------------------------
(* At first nothing has been looked at. *)
LEMMA InitGroups == Init => Groups
<1> SUFFICES ASSUME Init PROVE Groups
  OBVIOUS
<1>1. ASSUME NEW p \in Thread PROVE Tied(p) /\ InLoops(p) /\ Expects(p)
  BY DEF Init, Tied, InLoops, Expects, Finding, Uniting, Fresh
<1>2. Joined
  BY DEF Init, Joined, Passed
<1> QED
  BY <1>1, <1>2 DEF Groups

(* Every step that races with no other keeps the groups together. *)
LEMMA StepGroups ==
  IInv /\ IInv' /\ GroupsUnlessRaced /\ [Next]_vars => GroupsUnlessRaced'
<1> SUFFICES ASSUME IInv, IInv', GroupsUnlessRaced, [Next]_vars, ~raced'
             PROVE  Groups'
  BY DEF GroupsUnlessRaced
<1>1. ASSUME NEW p \in Thread, Step(p) PROVE Groups'
  <2>1. ~raced
    BY <1>1 DEF Step, NextRow, NextCol, Walk, Compress, Swap, FoundI, FoundJ,
                FoundUnionI, FoundUnionJ, Update, Link
  <2>2. Groups
    BY <2>1 DEF GroupsUnlessRaced
  <2> QED
    BY <1>1, <2>2, NextRowGroups, NextColGroups, WalkGroups, CompressGroups,
       SwapGroups, FoundIGroups, FoundJGroups, FoundUnionIGroups,
       FoundUnionJGroups, UpdateGroups, LinkGroups
    DEF Step
<1>2. ASSUME NEW p \in Thread, NEW t \in Task, Start(p, t) PROVE Groups'
  <2>1. Groups
    BY <1>2 DEF GroupsUnlessRaced, Start
  <2> QED
    BY <1>2, <2>1, StartGroups
<1>3. CASE UNCHANGED vars
  <2>1. Groups /\ UNCHANGED <<group_index, todo, task, pc, ret, local>>
    BY <1>3 DEF GroupsUnlessRaced, vars
  <2>2. Root' = Root /\ Merges
    BY <2>1, SameLinks
  <2>3. ASSUME NEW q \in Thread PROVE Tied(q)' /\ InLoops(q)' /\ Expects(q)'
    BY <2>1, <2>2, StillTied DEF Groups
  <2>4. Joined'
    BY <2>1, <2>2 DEF Groups, Joined, Passed, Behind
  <2> QED
    BY <2>3, <2>4 DEF Groups
<1> QED
  BY <1>1, <1>2, <1>3 DEF Next, Finished

(***************************************************************************)
(* Groups are complete: when the search is over and no thread has updated  *)
(* a root that had got a parent since it was found, any two particles that *)
(* a task compared and that are closer than the linking length have one    *)
(* root, however the threads' finds, compressions and unions interleaved.  *)
(***************************************************************************)
THEOREM GroupsComplete == Spec => []UnionsKeptUnlessRaced
<1>1. IInv /\ GroupsUnlessRaced => UnionsKeptUnlessRaced
  <2> SUFFICES ASSUME IInv, Groups, Done, NEW t \in Task, NEW r \in 1..Len(Rows[t]),
                      NEW c \in 1..Len(Rows[t][r].js),
                      <<Rows[t][r].i, Rows[t][r].js[c]>> \in Linked
               PROVE  Root[Rows[t][r].i] = Root[Rows[t][r].js[c]]
    BY DEF UnionsKeptUnlessRaced, UnionsKept, GroupsUnlessRaced
  <2>1. ASSUME NEW p \in Thread PROVE task[p] # t
    BY RowsAssumption DEF Done, Groups, InLoops
  <2>2. Passed(t, r, c)
    BY <2>1 DEF Done, Passed
  <2> QED
    BY <2>2 DEF Groups, Joined
<1>2. Init => GroupsUnlessRaced
  BY InitGroups DEF GroupsUnlessRaced
<1>3. IInv /\ IInv' /\ GroupsUnlessRaced /\ [Next]_vars => GroupsUnlessRaced'
  BY StepGroups
<1> QED
  BY <1>1, <1>2, <1>3, Inductive, PTL DEF Spec
=============================================================================
