--------------------------- MODULE TaskLockProofs ---------------------------
(***************************************************************************)
(* Proofs about TaskLock for every tree of cells, every set of tasks and   *)
(* any number of threads, in builds with and without atomics.  The         *)
(* argument:                                                               *)
(*                                                                         *)
(*  - case by case, task_unlock releases what task_lock takes, in the same *)
(*    order (SwitchesAgree), and at each refusal task_lock gives back what *)
(*    it has by then (UndosAgree);                                         *)
(*  - so the locks of a thread are always the first ones of its task's     *)
(*    sequence while it locks, all of them while the task runs, and the    *)
(*    last ones while it unlocks (LocksTrackTask);                         *)
(*  - no lock occurs twice in the part a thread has (NoLockTwice), or the  *)
(*    first release would give away what the second still needs;           *)
(*  - a grant is refused if anybody has the branch (GrantsApart).          *)
(***************************************************************************)
EXTENDS TaskLock, TLAPS

TracksTask(p) ==
  /\ pc[p] # "idle" => job[p] \in Job
  /\ pc[p] = "idle" => granted[p] = {}
  /\ pc[p] \in {"lock", "rollback"} =>
       /\ at[p] <= Len(LockSeq(job[p])) + 1
       /\ granted[p] = {LockSeq(job[p])[k] : k \in 1..(at[p] - 1)}
  /\ pc[p] = "rollback" => at[p] <= Len(LockSeq(job[p]))
  /\ pc[p] = "run" =>
       granted[p] = {LockSeq(job[p])[k] : k \in 1..Len(LockSeq(job[p]))}
  /\ pc[p] = "unlock" =>
       /\ at[p] <= Len(LockSeq(job[p])) + 1
       /\ granted[p] = {LockSeq(job[p])[k] : k \in at[p]..Len(LockSeq(job[p]))}

LocksOnce(p) ==
  /\ pc[p] = "lock" =>
       \A i, j \in 1..(at[p] - 1) :
         LockSeq(job[p])[i] = LockSeq(job[p])[j] => i = j
  /\ pc[p] \in {"run", "unlock"} =>
       \A i, j \in 1..Len(LockSeq(job[p])) :
         LockSeq(job[p])[i] = LockSeq(job[p])[j] => i = j

LocksTrackTask == \A p \in Thread : TracksTask(p)

NoLockTwice == \A p \in Thread : LocksOnce(p)

GrantsApart ==
  \A p, q \in Thread :
    p # q => \A g \in granted[p], h \in granted[q] :
               g[1] = h[1] => ~ Related(g[2], h[2])

IInv == TypeOK /\ LocksTrackTask /\ NoLockTwice /\ GrantsApart

-----------------------------------------------------------------------------
(* The sequences of kinds that occur in the switches. *)
KindSeqs12 ==
  {<<>>, <<"part">>, <<"gpart">>, <<"mpole">>, <<"spart">>, <<"sink">>, <<"bpart">>,
   <<"part", "gpart">>, <<"gpart", "mpole">>, <<"sink", "part">>,
   <<"spart", "part">>, <<"bpart", "part">>}

KindSeqs3 ==
  {<<"part", "spart", "gpart">>, <<"sink", "spart", "gpart">>,
   <<"part", "sink", "gpart">>}

LEMMA KindSeqFacts ==
  /\ \A s \in KindSeqs12 : s \in Seq(Kind) /\ Len(s) <= 2
  /\ \A s \in KindSeqs3 : s \in Seq(Kind) /\ Len(s) <= 3
<1>1. "part" \in Kind /\ "gpart" \in Kind /\ "mpole" \in Kind
      /\ "spart" \in Kind /\ "sink" \in Kind /\ "bpart" \in Kind
  BY DEF Kind
<1>2. <<>> \in Seq(Kind) /\ Len(<<>>) <= 2
  OBVIOUS
<1>3. \A a \in Kind : <<a>> \in Seq(Kind) /\ Len(<<a>>) <= 2
  OBVIOUS
<1>4. \A a, b \in Kind : <<a, b>> \in Seq(Kind) /\ Len(<<a, b>>) <= 2
  OBVIOUS
<1>5. \A a, b, c \in Kind : <<a, b, c>> \in Seq(Kind) /\ Len(<<a, b, c>>) <= 3
  OBVIOUS
<1>6. \A s \in KindSeqs12 : s \in Seq(Kind) /\ Len(s) <= 2
  BY <1>1, <1>2, <1>3, <1>4, Zenon DEF KindSeqs12
<1>7. \A s \in KindSeqs3 : s \in Seq(Kind) /\ Len(s) <= 3
  BY <1>1, <1>5, Zenon DEF KindSeqs3
<1> QED BY <1>6, <1>7

(***************************************************************************)
(* The two switches agree on every type and subtype, with or without       *)
(* atomics, and no case has more than three locks, or two on a pair.       *)
(***************************************************************************)
LEMMA SwitchesAgree ==
  ASSUME NEW t \in Job
  PROVE  /\ LockKinds(t) = UnlockKinds(t)
         /\ LockKinds(t) \in Seq(Kind)
         /\ Len(LockKinds(t)) <= 3
         /\ t.type \in OnPair => Len(LockKinds(t)) <= 2
<1>1. CASE t.type = "self" /\ t.subtype \in SelfSubtype
  <2>1. LockSelf[t.subtype] = UnlockSelf[t.subtype]
    BY DEF LockSelf, UnlockSelf
  <2>2. LockSelf[t.subtype] \in KindSeqs12
    BY <1>1 DEF LockSelf, SelfSubtype, PairSubtype, IfNoAtomics, KindSeqs12
  <2>3. LockKinds(t) = LockSelf[t.subtype] /\ UnlockKinds(t) = UnlockSelf[t.subtype]
    BY <1>1 DEF LockKinds, UnlockKinds, LockFirst, UnlockFirst
  <2> QED BY <1>1, <2>1, <2>2, <2>3, KindSeqFacts DEF OnPair
<1>2. CASE t.type = "pair" /\ t.subtype \in PairSubtype
  <2>1. LockPair[t.subtype] = UnlockPair[t.subtype]
    BY DEF LockPair, UnlockPair
  <2>2. LockPair[t.subtype] \in KindSeqs12
    BY <1>2 DEF LockPair, PairSubtype, IfNoAtomics, KindSeqs12
  <2>3. LockKinds(t) = LockPair[t.subtype] /\ UnlockKinds(t) = UnlockPair[t.subtype]
    BY <1>2 DEF LockKinds, UnlockKinds, LockFirst, UnlockFirst
  <2> QED BY <1>2, <2>1, <2>2, <2>3, KindSeqFacts
<1>3. CASE t.type \in TypeOnly
  <2>0. t.type # "self" /\ t.type # "pair"
    BY <1>3 DEF TypeOnly
  <2>1. CASE t.type \in {"kick", "drift_part", "stars_sort", "drift_gpart", "drift_sink"}
    <3>1. t.type \in DOMAIN LockFirst /\ t.type \in DOMAIN UnlockFirst
      BY <2>1 DEF LockFirst, UnlockFirst
    <3>2. LockFirst[t.type] = UnlockFirst[t.type]
      BY <2>1 DEF LockFirst, UnlockFirst
    <3>3. LockFirst[t.type] \in KindSeqs12
      BY <2>1 DEF LockFirst, KindSeqs12
    <3> QED BY <2>0, <2>1, <3>1, <3>2, <3>3, KindSeqFacts DEF LockKinds, UnlockKinds, OnPair
  <2>2. CASE t.type \notin {"kick", "drift_part", "stars_sort", "drift_gpart", "drift_sink"}
    <3>1. t.type \notin DOMAIN LockFirst /\ t.type \notin DOMAIN UnlockFirst
      BY <2>2 DEF LockFirst, UnlockFirst
    <3>2. LockLast[t.type] = UnlockLast[t.type]
      BY DEF LockLast, UnlockLast
    <3>3. LockLast[t.type] \in KindSeqs12 \cup KindSeqs3
      BY <1>3, <2>2 DEF LockLast, TypeOnly, IfNoAtomics, KindSeqs12, KindSeqs3
    <3>4. t.type \in OnPair => LockLast[t.type] \in KindSeqs12
      BY <1>3, <2>2 DEF LockLast, OnPair, TypeOnly, IfNoAtomics, KindSeqs12
    <3> QED BY <2>0, <3>1, <3>2, <3>3, <3>4, KindSeqFacts DEF LockKinds, UnlockKinds
  <2> QED BY <2>1, <2>2
<1> QED BY <1>1, <1>2, <1>3, JobAssumption

-----------------------------------------------------------------------------
(***************************************************************************)
(* What a rollback gives back: at the n-th lock, those before it.          *)
(***************************************************************************)
UndoesSingle(u, s) ==
  \A n \in 1..Len(s) : u[n] = {<<s[k], "ci">> : k \in 1..(n - 1)}

PairEntry(s, k) == <<s[(k + 1) \div 2], IF k % 2 = 1 THEN "ci" ELSE "cj">>

UndoesPair(u, s) ==
  \A n \in 1..(2 * Len(s)) : u[n] = {PairEntry(s, k) : k \in 1..(n - 1)}

LEMMA SingleUndoFacts ==
  /\ \A u : UndoesSingle(u, <<>>)
  /\ \A a : UndoesSingle(<<{}>>, <<a>>)
  /\ \A a, b : UndoesSingle(<<{}, {<<a, "ci">>}>>, <<a, b>>)
  /\ \A a, b, c :
       UndoesSingle(<<{}, {<<a, "ci">>}, {<<a, "ci">>, <<b, "ci">>}>>, <<a, b, c>>)
<1>1. 1..0 = {} /\ 1..1 = {1} /\ 1..2 = {1, 2} /\ 1..3 = {1, 2, 3}
  OBVIOUS
<1>2. \A u : UndoesSingle(u, <<>>)
  BY DEF UndoesSingle
<1>3. \A a : UndoesSingle(<<{}>>, <<a>>)
  BY <1>1 DEF UndoesSingle
<1>4. ASSUME NEW a, NEW b PROVE UndoesSingle(<<{}, {<<a, "ci">>}>>, <<a, b>>)
  BY <1>1 DEF UndoesSingle
<1>5. ASSUME NEW a, NEW b, NEW c
      PROVE  UndoesSingle(<<{}, {<<a, "ci">>}, {<<a, "ci">>, <<b, "ci">>}>>, <<a, b, c>>)
  BY <1>1 DEF UndoesSingle
<1> QED BY <1>2, <1>3, <1>4, <1>5

LEMMA PairUndoFacts ==
  /\ \A u : UndoesPair(u, <<>>)
  /\ \A a : UndoesPair(<<{}, {<<a, "ci">>}>>, <<a>>)
  /\ \A a, b :
       UndoesPair(<<{}, {<<a, "ci">>}, {<<a, "ci">>, <<a, "cj">>},
                    {<<a, "ci">>, <<a, "cj">>, <<b, "ci">>}>>, <<a, b>>)
<1>1. 1..0 = {} /\ 1..1 = {1} /\ 1..2 = {1, 2} /\ 1..3 = {1, 2, 3} /\ 1..4 = {1, 2, 3, 4}
  OBVIOUS
<1>2. \A u : UndoesPair(u, <<>>)
  BY DEF UndoesPair
<1>3. \A s : /\ PairEntry(s, 1) = <<s[1], "ci">> /\ PairEntry(s, 2) = <<s[1], "cj">>
             /\ PairEntry(s, 3) = <<s[2], "ci">>
  BY DEF PairEntry
<1>a. ASSUME NEW s
      PROVE  /\ {PairEntry(s, k) : k \in 1..(1 - 1)} = {}
             /\ {PairEntry(s, k) : k \in 1..(2 - 1)} = {PairEntry(s, 1)}
             /\ {PairEntry(s, k) : k \in 1..(3 - 1)} = {PairEntry(s, 1), PairEntry(s, 2)}
             /\ {PairEntry(s, k) : k \in 1..(4 - 1)} =
                  {PairEntry(s, 1), PairEntry(s, 2), PairEntry(s, 3)}
  <2>1. 1..(1 - 1) = {} /\ 1..(2 - 1) = {1} /\ 1..(3 - 1) = {1, 2} /\ 1..(4 - 1) = {1, 2, 3}
    OBVIOUS
  <2> QED BY <2>1, Zenon
<1>4. ASSUME NEW a PROVE UndoesPair(<<{}, {<<a, "ci">>}>>, <<a>>)
  <2> DEFINE s == <<a>>
  <2>1. s[1] = a /\ Len(s) = 1
    OBVIOUS
  <2> HIDE DEF s
  <2>2. /\ {PairEntry(s, k) : k \in 1..(1 - 1)} = {}
        /\ {PairEntry(s, k) : k \in 1..(2 - 1)} = {<<a, "ci">>}
    BY <1>3, <1>a, <2>1, Zenon
  <2> QED BY <1>1, <2>1, <2>2 DEF UndoesPair, s
<1>5. ASSUME NEW a, NEW b
      PROVE  UndoesPair(<<{}, {<<a, "ci">>}, {<<a, "ci">>, <<a, "cj">>},
                          {<<a, "ci">>, <<a, "cj">>, <<b, "ci">>}>>, <<a, b>>)
  <2> DEFINE s == <<a, b>>
  <2>1. s[1] = a /\ s[2] = b /\ Len(s) = 2
    OBVIOUS
  <2> HIDE DEF s
  <2>2. /\ {PairEntry(s, k) : k \in 1..(1 - 1)} = {}
        /\ {PairEntry(s, k) : k \in 1..(2 - 1)} = {<<a, "ci">>}
        /\ {PairEntry(s, k) : k \in 1..(3 - 1)} = {<<a, "ci">>, <<a, "cj">>}
        /\ {PairEntry(s, k) : k \in 1..(4 - 1)} = {<<a, "ci">>, <<a, "cj">>, <<b, "ci">>}
    BY <1>3, <1>a, <2>1, Zenon
  <2> QED BY <1>1, <2>1, <2>2 DEF UndoesPair, s
<1> QED BY <1>2, <1>4, <1>5

(* Case by case, a rollback gives back the locks before the refused one. *)
LEMMA UndosAgree ==
  ASSUME NEW t \in Job
  PROVE  /\ t.type \notin OnPair => UndoesSingle(Undos(t), LockKinds(t))
         /\ t.type \in OnPair => UndoesPair(Undos(t), LockKinds(t))
<1> USE DEF Ci, Cj, IfNoAtomics
<1>1. CASE t.type = "self" /\ t.subtype \in SelfSubtype
  <2>1. Undos(t) = UndoSelf[t.subtype] /\ LockKinds(t) = LockSelf[t.subtype]
    BY <1>1 DEF Undos, LockKinds, UndoFirst, LockFirst
  <2>2. \A k \in SelfSubtype : UndoesSingle(UndoSelf[k], LockSelf[k])
    <3>1. /\ UndoSelf["sink_gas"] = <<{}, {<<"sink", "ci">>}>>
          /\ UndoSelf["stars"] = <<{}, {<<"spart", "ci">>}>>
          /\ UndoSelf["bh_gas"] = <<{}, {<<"bpart", "ci">>}>>
          /\ LockSelf["sink_gas"] = <<"sink", "part">>
          /\ LockSelf["stars"] = <<"spart", "part">>
          /\ LockSelf["bh_gas"] = <<"bpart", "part">>
      BY DEF UndoSelf, LockSelf
    <3>2. /\ \A k \in {"sink_sink", "bh_bh", "external_grav", "hydro"} : UndoSelf[k] = <<{}>>
          /\ LockSelf["sink_sink"] = <<"sink">> /\ LockSelf["bh_bh"] = <<"bpart">>
          /\ LockSelf["external_grav"] = <<"part">> /\ LockSelf["hydro"] = <<"part">>
      BY DEF UndoSelf, LockSelf
    <3>3. /\ UndoSelf["grav"] = IF without_atomics THEN <<{}, {<<"gpart", "ci">>}>> ELSE <<>>
          /\ LockSelf["grav"] = IF without_atomics THEN <<"gpart", "mpole">> ELSE <<>>
          /\ UndoSelf["limiter"] = IF without_atomics THEN <<{}>> ELSE <<>>
          /\ LockSelf["limiter"] = IF without_atomics THEN <<"part">> ELSE <<>>
      BY DEF UndoSelf, LockSelf
    <3>4. \A k \in {"grav", "limiter"} : UndoesSingle(UndoSelf[k], LockSelf[k])
      BY <3>3, SingleUndoFacts, Zenon
    <3>5. /\ UndoesSingle(UndoSelf["sink_gas"], LockSelf["sink_gas"])
          /\ UndoesSingle(UndoSelf["stars"], LockSelf["stars"])
          /\ UndoesSingle(UndoSelf["bh_gas"], LockSelf["bh_gas"])
      BY <3>1, SingleUndoFacts
    <3>6. \A k \in {"sink_sink", "bh_bh", "external_grav", "hydro"} :
            UndoesSingle(UndoSelf[k], LockSelf[k])
      BY <3>2, SingleUndoFacts, Zenon
    <3> QED BY <3>4, <3>5, <3>6, Zenon DEF SelfSubtype, PairSubtype
  <2> QED BY <1>1, <2>1, <2>2 DEF OnPair
<1>2. CASE t.type = "pair" /\ t.subtype \in PairSubtype
  <2>1. Undos(t) = UndoPair[t.subtype] /\ LockKinds(t) = LockPair[t.subtype]
    BY <1>2 DEF Undos, LockKinds, UndoFirst, LockFirst
  <2>2. \A k \in PairSubtype : UndoesPair(UndoPair[k], LockPair[k])
    BY PairUndoFacts DEF PairSubtype, UndoPair, LockPair
  <2> QED BY <1>2, <2>1, <2>2 DEF OnPair
<1>3. CASE t.type \in {"kick", "drift_part", "stars_sort", "drift_gpart", "drift_sink"}
  <2>1. Undos(t) = UndoFirst[t.type] /\ LockKinds(t) = LockFirst[t.type]
    BY <1>3 DEF Undos, LockKinds, UndoFirst, LockFirst
  <2>2. UndoesSingle(UndoFirst[t.type], LockFirst[t.type])
    <3>1. /\ \A k \in {"drift_part", "stars_sort", "drift_gpart", "drift_sink"} :
               UndoFirst[k] = <<{}>> /\ \E a : LockFirst[k] = <<a>>
          /\ UndoFirst["kick"] = <<{}, {<<"part", "ci">>}>>
          /\ LockFirst["kick"] = <<"part", "gpart">>
      BY DEF UndoFirst, LockFirst
    <3> QED BY <1>3, <3>1, SingleUndoFacts, Zenon
  <2> QED BY <1>3, <2>1, <2>2 DEF OnPair
<1>4. CASE t.type \in {"grav_mm", "fof_pair"}
  <2>1. Undos(t) = UndoLast[t.type] /\ LockKinds(t) = LockLast[t.type]
    BY <1>4 DEF Undos, LockKinds, UndoFirst, LockFirst
  <2>2. UndoesPair(UndoLast[t.type], LockLast[t.type])
    BY <1>4, PairUndoFacts DEF UndoLast, LockLast
  <2> QED BY <1>4, <2>1, <2>2 DEF OnPair
<1>5. CASE t.type \in {"grav_down", "grav_long_range", "fof_self", "star_formation",
                      "star_formation_sink", "sink_formation", "other"}
  <2>1. Undos(t) = UndoLast[t.type] /\ LockKinds(t) = LockLast[t.type]
    BY <1>5 DEF Undos, LockKinds, UndoFirst, LockFirst
  <2>2. UndoesSingle(UndoLast[t.type], LockLast[t.type])
    <3>1. /\ UndoLast["grav_down"] = IF without_atomics THEN <<{}, {<<"gpart", "ci">>}>> ELSE <<>>
          /\ LockLast["grav_down"] = IF without_atomics THEN <<"gpart", "mpole">> ELSE <<>>
          /\ UndoLast["grav_long_range"] = IF without_atomics THEN <<{}>> ELSE <<>>
          /\ LockLast["grav_long_range"] = IF without_atomics THEN <<"mpole">> ELSE <<>>
          /\ UndoLast["fof_self"] = <<{}>> /\ LockLast["fof_self"] = <<"gpart">>
          /\ UndoLast["other"] = <<>> /\ LockLast["other"] = <<>>
      BY DEF UndoLast, LockLast
    <3>2. /\ UndoLast["star_formation"] =
               <<{}, {<<"part", "ci">>}, {<<"part", "ci">>, <<"spart", "ci">>}>>
          /\ UndoLast["star_formation_sink"] =
               <<{}, {<<"sink", "ci">>}, {<<"sink", "ci">>, <<"spart", "ci">>}>>
          /\ UndoLast["sink_formation"] =
               <<{}, {<<"part", "ci">>}, {<<"part", "ci">>, <<"sink", "ci">>}>>
          /\ LockLast["star_formation"] = <<"part", "spart", "gpart">>
          /\ LockLast["star_formation_sink"] = <<"sink", "spart", "gpart">>
          /\ LockLast["sink_formation"] = <<"part", "sink", "gpart">>
      BY DEF UndoLast, LockLast
    <3>3. \A k \in {"grav_down", "grav_long_range", "fof_self", "other"} :
            UndoesSingle(UndoLast[k], LockLast[k])
      BY <3>1, SingleUndoFacts, Zenon
    <3>4. /\ UndoesSingle(UndoLast["star_formation"], LockLast["star_formation"])
          /\ UndoesSingle(UndoLast["star_formation_sink"], LockLast["star_formation_sink"])
          /\ UndoesSingle(UndoLast["sink_formation"], LockLast["sink_formation"])
      BY <3>2, SingleUndoFacts
    <3> QED BY <1>5, <3>3, <3>4, Zenon
  <2> QED BY <1>5, <2>1, <2>2 DEF OnPair
<1> QED BY <1>1, <1>2, <1>3, <1>4, <1>5, JobAssumption DEF TypeOnly

(* The locks of a task: at most four pairs of a kind and a cell. *)
LEMMA LockSeqFacts ==
  ASSUME NEW t \in Job
  PROVE  /\ UnlockSeq(t) = LockSeq(t)
         /\ Len(LockSeq(t)) \in 0..4
         /\ DOMAIN LockSeq(t) = 1..Len(LockSeq(t))
         /\ \A k \in 1..Len(LockSeq(t)) : LockSeq(t)[k] \in Kind \X Cell
<1> DEFINE K == LockKinds(t)
<1>0. t.ci \in Cell /\ t.cj \in Cell
  BY JobAssumption
<1>1. K \in Seq(Kind) /\ Len(K) \in Nat /\ Len(K) <= 3 /\ UnlockKinds(t) = K
  BY SwitchesAgree
<1>2. \A k \in 1..Len(K) : K[k] \in Kind
  BY <1>1
<1>3. UnlockSeq(t) = LockSeq(t)
  BY <1>1 DEF UnlockSeq, LockSeq
<1> HIDE DEF K
<1>4. CASE t.type \in OnPair
  <2>1. Len(K) <= 2
    BY <1>4, SwitchesAgree DEF K
  <2>2. LockSeq(t) = [k \in 1..(2 * Len(K)) |->
                        <<K[(k + 1) \div 2], IF k % 2 = 1 THEN t.ci ELSE t.cj>>]
    BY <1>4 DEF LockSeq, LocksFor, K
  <2>3. 2 * Len(K) \in 0..4
    BY <1>1, <2>1
  <2>4. \A k \in 1..(2 * Len(K)) : K[(k + 1) \div 2] \in Kind
    <3> TAKE k \in 1..(2 * Len(K))
    <3>1. (k + 1) \div 2 \in 1..Len(K)
      BY <1>1, <2>1
    <3> QED BY <3>1, <1>2
  <2>5. \A k \in 1..(2 * Len(K)) : LockSeq(t)[k] \in Kind \X Cell
    BY <1>0, <2>2, <2>4
  <2>6. Len(LockSeq(t)) = 2 * Len(K)
    BY <2>2, <2>3
  <2> QED BY <1>3, <2>2, <2>3, <2>5, <2>6
<1>5. CASE t.type \notin OnPair
  <2>1. LockSeq(t) = [k \in 1..Len(K) |-> <<K[k], t.ci>>]
    BY <1>5 DEF LockSeq, LocksFor, K
  <2>2. Len(LockSeq(t)) = Len(K)
    BY <1>1, <2>1
  <2> QED BY <1>0, <1>1, <1>2, <1>3, <2>1, <2>2
<1> QED BY <1>4, <1>5

(* What task t gives back when its n-th lock is refused. *)
LEMMA GivesBackAll ==
  ASSUME NEW t \in Job, NEW n \in 1..Len(LockSeq(t))
  PROVE  GivenBack(t, n) = {LockSeq(t)[k] : k \in 1..(n - 1)}
<1> DEFINE K == LockKinds(t)
<1>0. Len(K) \in Nat /\ Len(K) <= 3 /\ t.ci = t["ci"] /\ t.cj = t["cj"]
  BY SwitchesAgree
<1> HIDE DEF K
<1>1. CASE t.type \in OnPair
  <2>1. LockSeq(t) = [k \in 1..(2 * Len(K)) |->
                        <<K[(k + 1) \div 2], IF k % 2 = 1 THEN t.ci ELSE t.cj>>]
    BY <1>1 DEF LockSeq, LocksFor, K
  <2>2. n \in 1..(2 * Len(K))
    BY <1>0, <2>1
  <2>3. Undos(t)[n] = {PairEntry(K, k) : k \in 1..(n - 1)}
    BY <1>1, <2>2, UndosAgree DEF UndoesPair, K
  <2>4. ASSUME NEW k \in 1..(n - 1)
        PROVE  LockSeq(t)[k] = <<PairEntry(K, k)[1], t[PairEntry(K, k)[2]]>>
    <3>1. k \in 1..(2 * Len(K))
      BY <1>0, <2>2
    <3>2. LockSeq(t)[k] = <<K[(k + 1) \div 2], IF k % 2 = 1 THEN t.ci ELSE t.cj>>
      BY <2>1, <3>1, Zenon
    <3>3. PairEntry(K, k)[1] = K[(k + 1) \div 2]
          /\ PairEntry(K, k)[2] = (IF k % 2 = 1 THEN "ci" ELSE "cj")
      BY DEF PairEntry
    <3> QED BY <1>0, <3>2, <3>3
  <2>5. ASSUME NEW x \in GivenBack(t, n) PROVE x \in {LockSeq(t)[k] : k \in 1..(n - 1)}
    <3>1. PICK u \in Undos(t)[n] : x = <<u[1], t[u[2]]>>
      BY <2>5 DEF GivenBack
    <3>2. PICK k \in 1..(n - 1) : u = PairEntry(K, k)
      BY <2>3, Zenon
    <3> QED BY <2>4, <3>1, <3>2, Zenon
  <2>6. ASSUME NEW k \in 1..(n - 1) PROVE LockSeq(t)[k] \in GivenBack(t, n)
    BY <2>3, <2>4, Zenon DEF GivenBack
  <2> QED BY <2>5, <2>6, Zenon
<1>2. CASE t.type \notin OnPair
  <2>1. LockSeq(t) = [k \in 1..Len(K) |-> <<K[k], t.ci>>]
    BY <1>2 DEF LockSeq, LocksFor, K
  <2>2. n \in 1..Len(K)
    BY <1>0, <2>1
  <2>3. Undos(t)[n] = {<<K[k], "ci">> : k \in 1..(n - 1)}
    BY <1>2, <2>2, UndosAgree DEF UndoesSingle, K
  <2>4. \A k \in 1..(n - 1) : LockSeq(t)[k] = <<K[k], t["ci"]>>
    <3>1. \A k \in 1..(n - 1) : k \in 1..Len(K)
      BY <1>0, <2>2
    <3> QED BY <1>0, <2>1, <3>1, Zenon
  <2>5. \A k \in 1..(n - 1) : <<K[k], "ci">>[1] = K[k] /\ <<K[k], "ci">>[2] = "ci"
    OBVIOUS
  <2>6. ASSUME NEW x \in GivenBack(t, n) PROVE x \in {LockSeq(t)[k] : k \in 1..(n - 1)}
    <3>1. PICK u \in Undos(t)[n] : x = <<u[1], t[u[2]]>>
      BY <2>6 DEF GivenBack
    <3>2. PICK k \in 1..(n - 1) : u = <<K[k], "ci">>
      BY <2>3, Zenon
    <3> QED BY <2>4, <2>5, <3>1, <3>2, Zenon
  <2>7. ASSUME NEW k \in 1..(n - 1) PROVE LockSeq(t)[k] \in GivenBack(t, n)
    BY <2>3, <2>4, <2>5, Zenon DEF GivenBack
  <2> QED BY <2>6, <2>7, Zenon
<1> QED BY <1>1, <1>2

(* The build does not change while the program runs. *)
LEMMA LockSeqStable ==
  ASSUME without_atomics' = without_atomics, NEW p \in Thread, job'[p] = job[p]
  PROVE  LockSeq(job[p])' = LockSeq(job[p])
  BY DEF LockSeq, LockKinds, LocksFor, LockSelf, LockPair, LockFirst, LockLast,
         IfNoAtomics

(* A cell is on its own branch. *)
LEMMA RelatedToItself == \A c \in Cell : Related(c, c)
  BY CellAssumption DEF Related, OnPath

-----------------------------------------------------------------------------
(***************************************************************************)
(* The first locks of a sequence, one more; the last locks, one less.      *)
(***************************************************************************)
LEMMA OneMore ==
  ASSUME NEW s, NEW n \in Nat \ {0}
  PROVE  {s[k] : k \in 1..((n + 1) - 1)} = {s[k] : k \in 1..(n - 1)} \cup {s[n]}
<1>1. 1..((n + 1) - 1) = 1..(n - 1) \cup {n}
  OBVIOUS
<1> QED BY <1>1

LEMMA OneLess ==
  ASSUME NEW s, NEW m \in Nat, NEW n \in 1..m,
         \A i, j \in 1..m : s[i] = s[j] => i = j
  PROVE  {s[k] : k \in (n + 1)..m} = {s[k] : k \in n..m} \ {s[n]}
<1>1. n..m = (n + 1)..m \cup {n} /\ n \notin (n + 1)..m /\ n..m \subseteq 1..m
  OBVIOUS
<1>2. \A k \in (n + 1)..m : s[k] # s[n]
  BY <1>1
<1> QED BY <1>1, <1>2

-----------------------------------------------------------------------------
(***************************************************************************)
(* A step of thread p leaves the other threads, and what they have, alone; *)
(* so it keeps the invariant if it keeps the part about p, and if what p   *)
(* gets is apart from what the others have.                                *)
(***************************************************************************)
OnlyMoves(p) ==
  /\ without_atomics' = without_atomics
  /\ \A q \in Thread \ {p} :
       /\ pc'[q] = pc[q] /\ job'[q] = job[q] /\ at'[q] = at[q]
       /\ granted'[q] = granted[q]

LEMMA StepOfOne ==
  ASSUME IInv, NEW p \in Thread, OnlyMoves(p), TypeOK',
         TracksTask(p)', LocksOnce(p)',
         \A g \in granted'[p] \ granted[p] : ~ Taken(g[1], g[2])
  PROVE  IInv'
<1>2. ASSUME NEW q \in Thread, q # p
      PROVE  TracksTask(q)' /\ LocksOnce(q)'
  <2>1. TracksTask(q) /\ LocksOnce(q)
    BY DEF IInv, LocksTrackTask, NoLockTwice
  <2>2. /\ pc'[q] = pc[q] /\ job'[q] = job[q] /\ at'[q] = at[q]
        /\ granted'[q] = granted[q]
    BY <1>2 DEF OnlyMoves
  <2>3. LockSeq(job[q])' = LockSeq(job[q])
    BY <2>2, LockSeqStable DEF OnlyMoves
  <2>4. TracksTask(q)'
    BY <2>1, <2>2, <2>3 DEF TracksTask
  <2>5. LocksOnce(q)'
    BY <2>1, <2>2, <2>3 DEF LocksOnce
  <2> QED BY <2>4, <2>5
<1>3. LocksTrackTask' /\ NoLockTwice'
  BY <1>2 DEF LocksTrackTask, NoLockTwice
<1>4. ASSUME NEW q \in Thread, NEW r \in Thread, q # r,
             NEW g \in granted'[q], NEW h \in granted'[r], g[1] = h[1]
      PROVE  ~ Related(g[2], h[2])
  <2>1. CASE g \in granted[q] /\ h \in granted[r]
    BY <1>4, <2>1 DEF IInv, GrantsApart
  <2>2. CASE g \notin granted[q]
    <3>1. q = p /\ h \in granted[r]
      BY <1>4, <2>2 DEF OnlyMoves
    <3> QED BY <1>4, <2>2, <3>1 DEF Taken, Related
  <2>3. CASE h \notin granted[r]
    <3>1. r = p /\ g \in granted[q]
      BY <1>4, <2>3 DEF OnlyMoves
    <3> QED BY <1>4, <2>3, <3>1 DEF Taken, Related
  <2> QED BY <2>1, <2>2, <2>3
<1>5. GrantsApart'
  BY <1>4 DEF GrantsApart, Related, OnPath
<1> QED BY <1>3, <1>5 DEF IInv

LEMMA InitIInv == Init => IInv
<1> SUFFICES ASSUME Init PROVE IInv
  OBVIOUS
<1>1. TypeOK
  BY DEF Init, TypeOK
<1>2. \A p \in Thread : pc[p] = "idle" /\ granted[p] = {}
  BY DEF Init
<1>3. LocksTrackTask /\ NoLockTwice
  BY <1>2 DEF LocksTrackTask, NoLockTwice, TracksTask, LocksOnce
<1>4. GrantsApart
  BY <1>2 DEF GrantsApart
<1> QED BY <1>1, <1>3, <1>4 DEF IInv

(***************************************************************************)
(* Every step keeps the invariant.                                         *)
(***************************************************************************)
LEMMA StepIInv == IInv /\ [Next]_vars => IInv'
<1> SUFFICES ASSUME IInv, [Next]_vars PROVE IInv'
  OBVIOUS
<1> USE DEF TypeOK
<1>0. CASE UNCHANGED vars
  <2>1. \A p \in Thread : LockSeq(job[p])' = LockSeq(job[p])
    BY <1>0, LockSeqStable DEF vars
  <2>2. LocksTrackTask' /\ NoLockTwice'
    BY <1>0, <2>1 DEF vars, IInv, LocksTrackTask, NoLockTwice, TracksTask, LocksOnce
  <2>3. GrantsApart'
    BY <1>0 DEF vars, IInv, GrantsApart, Related, OnPath
  <2> QED BY <1>0, <2>2, <2>3 DEF vars, IInv
<1>1. CASE Next
  <2>1. PICK p \in Thread :
          \/ \E t \in Job : Begin(p, t)
          \/ Grant(p) \/ Refuse(p) \/ Rollback(p) \/ Run(p) \/ Done(p)
          \/ Release(p) \/ Released(p)
    BY <1>1 DEF Next
  <2> DEFINE s == LockSeq(job[p])
  <2>2. TypeOK /\ TracksTask(p) /\ LocksOnce(p)
    BY DEF IInv, LocksTrackTask, NoLockTwice
  <2>3. OnlyMoves(p) /\ without_atomics' = without_atomics
    BY <2>1, <2>2 DEF OnlyMoves, Begin, Grant, Refuse, Rollback, Run, Done, Release,
                      Released
  <2>4. job'[p] = job[p] => s' = s
    BY <2>3, LockSeqStable
  <2>5. pc[p] # "idle" =>
          /\ job[p] \in Job
          /\ UnlockSeq(job[p]) = s
          /\ Len(s) \in 0..4
          /\ \A k \in 1..Len(s) : s[k] \in Kind \X Cell
    BY <2>2, LockSeqFacts DEF TracksTask
  <2>6. CASE \E t \in Job : Begin(p, t)
    <3>1. PICK t \in Job : Begin(p, t)
      BY <2>6
    <3>2. pc'[p] = "lock" /\ job'[p] = t /\ at'[p] = 1 /\ granted'[p] = {} /\ TypeOK'
      BY <3>1, <2>2 DEF Begin, TracksTask
    <3>3. TracksTask(p)' /\ LocksOnce(p)'
      BY <3>2, LockSeqFacts, <2>4 DEF TracksTask, LocksOnce
    <3> QED BY <3>2, <3>3, <2>3, StepOfOne
  <2>7. CASE Grant(p)
    <3>1. pc[p] = "lock" /\ at[p] \in 1..Len(s) /\ s[at[p]] \in Kind \X Cell
      BY <2>7, <2>2, <2>5 DEF Grant
    <3>2. /\ pc'[p] = "lock" /\ job'[p] = job[p] /\ at'[p] = at[p] + 1
          /\ granted'[p] = granted[p] \cup {s[at[p]]}
          /\ ~ Taken(s[at[p]][1], s[at[p]][2])
          /\ TypeOK'
      BY <2>7, <2>2, <2>5, <3>1 DEF Grant
    <3>3. s' = s
      BY <2>4, <3>2
    <3>4. granted[p] = {s[k] : k \in 1..(at[p] - 1)}
      BY <2>2, <3>1 DEF TracksTask
    <3>5. granted'[p] = {s[k] : k \in 1..(at'[p] - 1)}
      BY <3>1, <3>2, <3>4, OneMore
    <3>6. TracksTask(p)'
      BY <2>5, <3>1, <3>2, <3>3, <3>5 DEF TracksTask
    <3>7. \A i \in 1..(at[p] - 1) : s[i] # s[at[p]]
      BY <3>1, <3>2, <3>4, RelatedToItself DEF Taken
    <3>8. LocksOnce(p)'
      BY <2>2, <2>5, <3>1, <3>2, <3>3, <3>7 DEF LocksOnce
    <3> QED BY <2>3, <3>2, <3>6, <3>8, StepOfOne
  <2>8. CASE Refuse(p)
    <3>1. /\ pc[p] = "lock" /\ pc'[p] = "rollback" /\ job'[p] = job[p]
          /\ at'[p] = at[p] /\ granted'[p] = granted[p] /\ TypeOK'
          /\ at[p] <= Len(s)
      BY <2>8, <2>2 DEF Refuse
    <3>2. s' = s
      BY <2>4, <3>1
    <3>3. TracksTask(p)' /\ LocksOnce(p)'
      BY <2>2, <3>1, <3>2 DEF TracksTask, LocksOnce
    <3> QED BY <2>3, <3>1, <3>3, StepOfOne
  <2>9. CASE Rollback(p)
    <3>1. /\ pc[p] = "rollback" /\ pc'[p] = "idle"
          /\ granted'[p] = granted[p] \ GivenBack(job[p], at[p]) /\ TypeOK'
      BY <2>9, <2>2 DEF Rollback
    <3>2. at[p] \in 1..Len(s) /\ job[p] \in Job
      BY <2>2, <2>5, <3>1 DEF TracksTask
    <3>3. GivenBack(job[p], at[p]) = {s[k] : k \in 1..(at[p] - 1)}
      BY <3>2, GivesBackAll
    <3>4. granted'[p] = {}
      BY <2>2, <3>1, <3>3 DEF TracksTask
    <3>5. TracksTask(p)' /\ LocksOnce(p)'
      BY <3>1, <3>4 DEF TracksTask, LocksOnce
    <3> QED BY <2>3, <3>1, <3>4, <3>5, StepOfOne
  <2>10. CASE Run(p)
    <3>1. /\ pc[p] = "lock" /\ pc'[p] = "run" /\ job'[p] = job[p]
          /\ at[p] > Len(s) /\ granted'[p] = granted[p] /\ TypeOK'
      BY <2>10, <2>2 DEF Run
    <3>2. s' = s
      BY <2>4, <3>1
    <3>3. at[p] - 1 = Len(s)
      BY <2>2, <2>5, <3>1 DEF TracksTask
    <3>4. TracksTask(p)' /\ LocksOnce(p)'
      BY <2>2, <3>1, <3>2, <3>3 DEF TracksTask, LocksOnce
    <3> QED BY <2>3, <3>1, <3>4, StepOfOne
  <2>11. CASE Done(p)
    <3>1. /\ pc[p] = "run" /\ pc'[p] = "unlock" /\ job'[p] = job[p]
          /\ at'[p] = 1 /\ granted'[p] = granted[p] /\ TypeOK'
      BY <2>11, <2>2 DEF Done
    <3>2. s' = s
      BY <2>4, <3>1
    <3>3. TracksTask(p)' /\ LocksOnce(p)'
      BY <2>2, <2>5, <3>1, <3>2 DEF TracksTask, LocksOnce
    <3> QED BY <2>3, <3>1, <3>3, StepOfOne
  <2>12. CASE Release(p)
    <3>1. pc[p] = "unlock" /\ at[p] \in 1..Len(s)
      BY <2>12, <2>2, <2>5 DEF Release
    <3>2. /\ pc'[p] = "unlock" /\ job'[p] = job[p] /\ at'[p] = at[p] + 1
          /\ granted'[p] = granted[p] \ {s[at[p]]} /\ TypeOK'
      BY <2>12, <2>2, <2>5, <3>1 DEF Release
    <3>3. s' = s
      BY <2>4, <3>2
    <3>4. granted'[p] = {s[k] : k \in at'[p]..Len(s)}
      BY <2>2, <2>5, <3>1, <3>2, OneLess DEF TracksTask, LocksOnce
    <3>5. TracksTask(p)' /\ LocksOnce(p)'
      BY <2>2, <2>5, <3>1, <3>2, <3>3, <3>4 DEF TracksTask, LocksOnce
    <3> QED BY <2>3, <3>2, <3>5, StepOfOne
  <2>13. CASE Released(p)
    <3>1. /\ pc[p] = "unlock" /\ pc'[p] = "idle" /\ at[p] > Len(s)
          /\ granted'[p] = granted[p] /\ TypeOK'
      BY <2>13, <2>2, <2>5 DEF Released
    <3>2. granted[p] = {}
      BY <2>2, <2>5, <3>1 DEF TracksTask
    <3>3. TracksTask(p)' /\ LocksOnce(p)'
      BY <3>1, <3>2 DEF TracksTask, LocksOnce
    <3> QED BY <2>3, <3>1, <3>3, StepOfOne
  <2> QED BY <2>1, <2>6, <2>7, <2>8, <2>9, <2>10, <2>11, <2>12, <2>13
<1> QED BY <1>0, <1>1

LEMMA InvariantHolds == Spec => []IInv
<1> QED BY InitIInv, StepIInv, PTL DEF Spec

-----------------------------------------------------------------------------
(***************************************************************************)
(* task_lock and task_unlock keep the locks well typed: a thread never has *)
(* a lock that is not a kind of data of a cell, nor a position past the    *)
(* last of the at most four locks of a task.                               *)
(***************************************************************************)
THEOREM TypeCorrect == Spec => []TypeOK
<1>1. IInv => TypeOK
  BY DEF IInv
<1> QED BY <1>1, InvariantHolds, PTL

(***************************************************************************)
(* What task_lock gives back when a lock is refused, and task_unlock after *)
(* the task, is all that task_lock took, for every task type: a thread     *)
(* between two tasks has no lock.                                          *)
(***************************************************************************)
THEOREM LocksGivenBack == Spec => []NoLockLeaked
<1>1. IInv => NoLockLeaked
  BY DEF IInv, LocksTrackTask, TracksTask, NoLockLeaked
<1> QED BY <1>1, InvariantHolds, PTL

(***************************************************************************)
(* task_unlock and the rollbacks of task_lock only release locks that      *)
(* their task still has.                                                   *)
(***************************************************************************)
THEOREM OnlyOwnReleased == Spec => []ReleasesOwnLocks
<1>1. IInv => ReleasesOwnLocks
  <2> SUFFICES ASSUME IInv, NEW p \in Thread
               PROVE  /\ pc[p] = "unlock" /\ at[p] <= Len(UnlockSeq(job[p])) =>
                           UnlockSeq(job[p])[at[p]] \in granted[p]
                      /\ pc[p] = "rollback" => GivenBack(job[p], at[p]) \subseteq granted[p]
    BY DEF ReleasesOwnLocks
  <2>1. TracksTask(p) /\ at[p] \in 1..5
    BY DEF IInv, LocksTrackTask, TypeOK
  <2>2. CASE pc[p] = "unlock"
    <3>1. UnlockSeq(job[p]) = LockSeq(job[p]) /\ Len(LockSeq(job[p])) \in 0..4
      BY <2>1, <2>2, LockSeqFacts DEF TracksTask
    <3> QED BY <2>1, <2>2, <3>1 DEF TracksTask
  <2>3. CASE pc[p] = "rollback"
    <3>1. job[p] \in Job /\ Len(LockSeq(job[p])) \in 0..4 /\ at[p] \in 1..Len(LockSeq(job[p]))
      BY <2>1, <2>3, LockSeqFacts DEF TracksTask
    <3>2. GivenBack(job[p], at[p]) = {LockSeq(job[p])[k] : k \in 1..(at[p] - 1)}
      BY <3>1, GivesBackAll
    <3> QED BY <2>1, <2>3, <3>2 DEF TracksTask
  <2> QED BY <2>2, <2>3
<1> QED BY <1>1, InvariantHolds, PTL

(***************************************************************************)
(* Two tasks that run at the same time have locked different branches of   *)
(* the tree for each kind of data.                                         *)
(***************************************************************************)
THEOREM RunApart == Spec => []RunningApart
<1>1. IInv => RunningApart
  <2> SUFFICES ASSUME IInv, NEW p \in Thread, NEW q \in Thread, p # q,
                      pc[p] = "run", pc[q] = "run",
                      NEW g \in LocksOf(job[p]), NEW h \in LocksOf(job[q]),
                      g[1] = h[1]
               PROVE  ~ Related(g[2], h[2])
    BY DEF RunningApart
  <2>1. TracksTask(p) /\ TracksTask(q)
    BY DEF IInv, LocksTrackTask
  <2>2. LocksOf(job[p]) = granted[p] /\ LocksOf(job[q]) = granted[q]
    BY <2>1, LockSeqFacts DEF TracksTask, LocksOf
  <2> QED BY <2>2 DEF IInv, GrantsApart
<1> QED BY <1>1, InvariantHolds, PTL
=============================================================================
