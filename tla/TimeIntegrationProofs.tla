------------------------ MODULE TimeIntegrationProofs ------------------------
(***************************************************************************)
(* What a step asks for is done when it ends, and what it leaves behind is *)
(* consistent, for every tree of cells, any particles, neighbours and      *)
(* placements, any number of bins, and any order of tasks that the         *)
(* dependencies allow.                                                     *)
(*                                                                         *)
(* The invariant FlagInv follows a request from where it is made to the    *)
(* task that will treat it: whoever may make it finds its cells flagged    *)
(* (LoopsFlagged, StarsFlagged); so the particle is in a flagged cell      *)
(* (RequestsFlagged, WokenFlagged); the cells between a flagged cell and   *)
(* its super-cell have the sub-flag, and the task of the super-cell is     *)
(* still to run (FlagsClimb).  That task therefore visits the cell and     *)
(* treats the particle, and as it waits for those who make requests,       *)
(* nobody makes one after it.  A particle that is both woken up and to be  *)
(* synchronised is left by the limiter to the synchronisation, if it is in *)
(* mid-step; it stays so until then.                                       *)
(*                                                                         *)
(* The invariant StepInv says, for every moment of a step, which tasks     *)
(* imply which others (TodoInv), where the engine and the particles stand  *)
(* on the time line (Typed, BinInv), what a wake-up may ask for (WakeInv), *)
(* up to when each particle has been kicked (KickInv), and which spans the *)
(* cells know (CellInv): until its super-cell's timestep has run, a cell   *)
(* knows the steps that end now, and from then on those that begin now or  *)
(* go on.  It rests on the arithmetic of the time line (the steps of a bin *)
(* are the multiples of a power of two), on the tree (a split cell has the *)
(* particles of its progeny), and on the recursions over the tree having   *)
(* one solution each.  Inductions over numbers and over the tree are all   *)
(* carried out on a least counterexample (Least, LowestCell).              *)
(***************************************************************************)
EXTENDS TimeIntegration, NaturalsInduction, WellFoundedInduction, FiniteSetTheorems, TLAPS

-----------------------------------------------------------------------------
(***************************************************************************)
(* The tree.                                                               *)
(***************************************************************************)

(* A cell with tasks is below exactly one super-cell. *)
LEMMA OneSuper ==
  ASSUME NEW c \in Cell, NEW s \in Super, s \in Ancestors[c]
  PROVE  SuperOf(c) = s
<1>1. \E r \in Super : r \in Ancestors[c]
  OBVIOUS
<1>2. SuperOf(c) \in Super /\ SuperOf(c) \in Ancestors[c]
  BY <1>1 DEF SuperOf
<1>3. SuperOf(c) \in Ancestors[s] \/ s \in Ancestors[SuperOf(c)]
  BY <1>2, AncestorAssumption
<1> QED
  BY <1>2, <1>3, SuperAssumption

LEMMA SuperAbove ==
  ASSUME NEW c \in Tasked
  PROVE  /\ c \in Cell
         /\ SuperOf(c) \in Super
         /\ SuperOf(c) \in Ancestors[c]
         /\ c \in Under(SuperOf(c))
<1>1. PICK s \in Super : c \in Cell /\ s \in Ancestors[c]
  BY DEF Tasked, Under
<1>2. SuperOf(c) = s
  BY <1>1, OneSuper
<1> QED
  BY <1>1, <1>2 DEF Under

LEMMA UnderSuper ==
  ASSUME NEW s \in Super, NEW c \in Under(s)
  PROVE  /\ c \in Cell /\ c \in Tasked /\ s \in Ancestors[c]
         /\ SuperOf(c) = s
  BY OneSuper DEF Under, Tasked

(***************************************************************************)
(* The flags.  A flagged cell has a task that is going to see it: the task *)
(* of its super-cell is to be run, and the cells between the two have the  *)
(* sub-flag.                                                               *)
(***************************************************************************)
Climbs(c, k, sub, td) ==
  /\ c \in Tasked
  /\ <<k, SuperOf(c)>> \in td
  /\ \A d \in Ancestors[c] \ {c} : d \in Under(SuperOf(c)) => d \in sub

FlagsClimb(k, flag, sub, td) == \A c \in flag \cup sub : Climbs(c, k, sub, td)

Flagged(p, flag) == \E c \in flag : c \in Ancestors[cell_of[p]]

Shape ==
  /\ cell_of \in [Part -> Cell]
  /\ DOMAIN time_bin = Part
  /\ DOMAIN wakeup = Part
  /\ to_be_synchronized \subseteq Part
  /\ ~running => todo = {}

(* Whoever may set a wake-up or a request finds the cells flagged. *)
LoopsFlagged ==
  \A t \in Tasks : <<"loop", t>> \in todo => t \subseteq do_limiter

StarsFlagged ==
  \A f \in StarPairs : <<"feedback", f>> \in todo => f[1] \in do_sync /\ f[2] \in do_sync

(* A request is in a flagged cell; so is a wake-up, unless it was left to  *)
(* the synchronisation.                                                    *)
RequestsFlagged ==
  \A p \in to_be_synchronized : Flagged(p, do_sync)

WokenFlagged ==
  \A p \in Part : wakeup[p] # NotAwake =>
    Flagged(p, do_limiter) \/ (p \in to_be_synchronized /\ ~Active(p))

FlagInv ==
  /\ Shape
  /\ FlagsClimb("limiter", do_limiter, do_sub_limiter, todo)
  /\ FlagsClimb("sync", do_sync, do_sub_sync, todo)
  /\ LoopsFlagged
  /\ StarsFlagged
  /\ RequestsFlagged
  /\ WokenFlagged

-----------------------------------------------------------------------------
(***************************************************************************)
(* What a limiter or synchronisation task visits.                          *)
(***************************************************************************)

(* It visits all flagged cells of its super-cell. *)
LEMMA VisitsFlagged ==
  ASSUME NEW k, NEW flag, NEW sub, NEW td, FlagsClimb(k, flag, sub, td),
         NEW c \in flag \cup sub, NEW s \in Super, SuperOf(c) = s
  PROVE  c \in Visited(s, flag, sub)
<1>1. Climbs(c, k, sub, td)
  BY DEF FlagsClimb
<1>2. c \in Under(s)
  BY <1>1, SuperAbove DEF Climbs
<1>3. ASSUME NEW d \in (Ancestors[c] \ {c}) \cap Under(s)
      PROVE  Entered(d, s, flag, sub)
  BY <1>1, <1>3 DEF Climbs, Entered
<1> QED
  BY <1>2, <1>3 DEF Visited

(* It visits no cell of another super-cell. *)
LEMMA VisitsOwn ==
  ASSUME NEW flag, NEW sub, NEW s \in Super, NEW c \in Visited(s, flag, sub)
  PROVE  c \in Cell /\ SuperOf(c) = s
  BY UnderSuper DEF Visited

(* It treats all particles of its flagged cells, whatever leaf they are in. *)
LEMMA TreatsFlagged ==
  ASSUME Shape, NEW k, NEW flag, NEW sub, NEW td, FlagsClimb(k, flag, sub, td),
         NEW c \in flag, NEW s \in Super, SuperOf(c) = s,
         NEW p \in Part, c \in Ancestors[cell_of[p]]
  PROVE  p \in Treated(s, flag, sub)
<1>0. cell_of[p] \in Cell
  BY DEF Shape
<1>1. Climbs(c, k, sub, td)
  BY DEF FlagsClimb
<1>2. c \in Cell /\ s \in Ancestors[c] /\ c \in Under(s)
  BY <1>1, SuperAbove DEF Climbs
<1>3. s \in Ancestors[cell_of[p]]
  BY <1>0, <1>2, AncestorAssumption
<1>4. cell_of[p] \in Under(s) /\ p \in PartsIn(s)
  BY <1>0, <1>3 DEF Under, PartsIn
<1>5. Forced(cell_of[p], s, flag)
  BY <1>2 DEF Forced
<1>6. ASSUME NEW d \in (Ancestors[cell_of[p]] \ {cell_of[p]}) \cap Under(s)
      PROVE  Entered(d, s, flag, sub)
  <2>1. c \in Ancestors[d] \/ (d \in Ancestors[c] /\ d # c)
    <3>1. c \in Ancestors[d] \/ d \in Ancestors[c]
      BY <1>0, AncestorAssumption
    <3>2. c \in Ancestors[c]
      BY <1>2, AncestorAssumption
    <3> QED
      BY <3>1, <3>2
  <2>2. CASE c \in Ancestors[d]
    BY <2>2, <1>2 DEF Entered, Forced
  <2>3. CASE d \in Ancestors[c] /\ d # c
    BY <2>3, <1>1 DEF Climbs, Entered
  <2> QED
    BY <2>1, <2>2, <2>3
<1> QED
  BY <1>4, <1>5, <1>6 DEF Treated, Visited

(* What is left of the flags once its super-cell's task has cleared them. *)
LEMMA FlagsCleared ==
  ASSUME NEW k, NEW flag, NEW sub, NEW td, FlagsClimb(k, flag, sub, td),
         NEW s \in Super,
         NEW vis, vis = Visited(s, flag, sub)
  PROVE  FlagsClimb(k, flag \ vis, sub \ vis, td \ {<<k, s>>})
<1> SUFFICES ASSUME NEW c \in (flag \ vis) \cup (sub \ vis)
             PROVE  Climbs(c, k, sub \ vis, td \ {<<k, s>>})
  BY DEF FlagsClimb
<1>1. Climbs(c, k, sub, td)
  BY DEF FlagsClimb
<1>2. SuperOf(c) # s
  BY VisitsFlagged
<1>3. ASSUME NEW d \in Ancestors[c] \ {c}, d \in Under(SuperOf(c))
      PROVE  d \in sub \ vis
  <2>1. d \in sub
    BY <1>1, <1>3 DEF Climbs
  <2>2. SuperOf(c) \in Super
    BY <1>1, SuperAbove DEF Climbs
  <2>3. SuperOf(d) = SuperOf(c)
    BY <1>3, <2>2, UnderSuper
  <2> QED
    BY <1>2, <2>1, <2>3, VisitsOwn
<1> QED
  BY <1>1, <1>2, <1>3 DEF Climbs

(* Another task takes nothing away from them. *)
LEMMA FlagsStay ==
  ASSUME NEW k, NEW flag, NEW sub, NEW td, FlagsClimb(k, flag, sub, td),
         NEW j, NEW x, j # k
  PROVE  FlagsClimb(k, flag, sub, td \ {<<j, x>>})
  BY DEF FlagsClimb, Climbs

(* The flags that cell_activate_limiter and cell_activate_sync_part set in *)
(* a tree without flags.                                                   *)
LEMMA FlagsSet ==
  ASSUME NEW S \in SUBSET Tasked, NEW k, NEW td,
         \A s \in Activate(S, {}, {}).supers : <<k, s>> \in td
  PROVE  /\ FlagsClimb(k, Activate(S, {}, {}).flag, Activate(S, {}, {}).sub, td)
         /\ S \subseteq Activate(S, {}, {}).flag
<1> DEFINE A == Activate(S, {}, {})
<1>1. /\ A.flag = S
      /\ A.sub = UNION {Climbed(c, {}) : c \in S}
      /\ A.supers = {SuperOf(c) : c \in {d \in S : \/ d \in Super
                                          \/ SuperOf(d) \in Climbed(d, {})}}
  BY DEF Activate
<1>2. ASSUME NEW c, NEW d
      PROVE  d \in Climbed(c, {}) <=>
               d \in Ancestors[c] /\ d # c /\ SuperOf(c) \in Ancestors[d]
  BY DEF Climbed
<1>3. ASSUME NEW c \in S
      PROVE  /\ <<k, SuperOf(c)>> \in td
             /\ c \in Cell /\ SuperOf(c) \in Super /\ SuperOf(c) \in Cell
  <2>1. c \in Cell /\ SuperOf(c) \in Super /\ SuperOf(c) \in Ancestors[c]
    BY SuperAbove
  <2>2. SuperOf(c) \in Cell /\ SuperOf(c) \in Ancestors[SuperOf(c)]
    BY <2>1, AncestorAssumption, SuperAssumption
  <2>3. c \in Super \/ SuperOf(c) \in Climbed(c, {})
    BY <2>1, <2>2, <1>2
  <2>4. SuperOf(c) \in A.supers
    BY <2>3, <1>1
  <2> QED
    BY <2>1, <2>2, <2>4
<1>4. ASSUME NEW c \in A.flag
      PROVE  Climbs(c, k, A.sub, td)
  <2>1. c \in S
    BY <1>1, <1>4
  <2>2. ASSUME NEW d \in Ancestors[c] \ {c}, d \in Under(SuperOf(c))
        PROVE  d \in A.sub
    <3>1. d \in Climbed(c, {})
      BY <2>2, <1>2 DEF Under
    <3> QED
      BY <3>1, <2>1, <1>1
  <2> QED
    BY <2>1, <2>2, <1>3 DEF Climbs
<1>5. ASSUME NEW c \in A.sub
      PROVE  Climbs(c, k, A.sub, td)
  <2>1. PICK e \in S : c \in Climbed(e, {})
    BY <1>1, <1>5
  <2>2. c \in Ancestors[e] /\ c # e /\ SuperOf(e) \in Ancestors[c]
    BY <2>1, <1>2
  <2>3. e \in Cell /\ SuperOf(e) \in Super /\ <<k, SuperOf(e)>> \in td
    BY <1>3
  <2>4. c \in Cell
    BY <2>2, <2>3, AncestorAssumption
  <2>5. c \in Tasked /\ SuperOf(c) = SuperOf(e)
    BY <2>2, <2>3, <2>4, OneSuper DEF Tasked, Under
  <2>6. ASSUME NEW d \in Ancestors[c] \ {c}, d \in Under(SuperOf(c))
        PROVE  d \in A.sub
    <3>1. d \in Ancestors[e]
      BY <2>2, <2>3, AncestorAssumption
    <3>2. d # e
      BY <2>2, <2>3, <2>6, AncestorAssumption
    <3>3. SuperOf(e) \in Ancestors[d]
      BY <2>5, <2>6 DEF Under
    <3>4. d \in Climbed(e, {})
      BY <3>1, <3>2, <3>3, <1>2
    <3> QED
      BY <3>4, <1>1
  <2> QED
    BY <2>3, <2>5, <2>6 DEF Climbs
<1> QED
  BY <1>1, <1>4, <1>5 DEF FlagsClimb

(* With no task to run there is no flag, and nobody waits for one. *)
LEMMA NothingToDo ==
  ASSUME FlagInv, todo = {}
  PROVE  /\ do_limiter = {} /\ do_sub_limiter = {} /\ do_sync = {} /\ do_sub_sync = {}
         /\ to_be_synchronized = {}
         /\ \A p \in Part : wakeup[p] = NotAwake
<1>1. do_limiter \cup do_sub_limiter = {} /\ do_sync \cup do_sub_sync = {}
  BY DEF FlagInv, FlagsClimb, Climbs
<1>2. to_be_synchronized = {}
  BY <1>1 DEF FlagInv, RequestsFlagged, Flagged
<1> QED
  BY <1>1, <1>2 DEF FlagInv, WokenFlagged, Flagged

-----------------------------------------------------------------------------
(***************************************************************************)
(* FlagInv is an invariant.                                                *)
(***************************************************************************)
LEMMA FlagInit ==
  ASSUME Init
  PROVE  FlagInv
<1>1. Shape
  BY PartAssumption DEF Init, Shape, Leaf
<1> QED
  BY <1>1 DEF Init, FlagInv, FlagsClimb, LoopsFlagged, StarsFlagged,
     RequestsFlagged, WokenFlagged

LEMMA FlagPrepare ==
  ASSUME FlagInv, NEW rebuild \in BOOLEAN, NEW layout \in Layouts,
         NEW F \in SUBSET StarPairs, EnginePrepare(rebuild, layout, F)
  PROVE  FlagInv'
<1>1. /\ do_limiter = {} /\ do_sub_limiter = {} /\ do_sync = {} /\ do_sub_sync = {}
      /\ to_be_synchronized = {}
      /\ \A p \in Part : wakeup[p] = NotAwake
  BY NothingToDo DEF FlagInv, Shape, EnginePrepare
<1>2. PICK T : Unskip(ti_end_min, T, F, {}, {}, {}, {})
  BY <1>1 DEF EnginePrepare
<1> DEFINE visited == {c \in Cell : \A d \in Ancestors[c] : T[d].end = ti_end_min}
           loops == {t \in Tasks : t \cap visited # {}}
           limit == UNION loops
           L == Activate(limit, {}, {})
           Y == Activate(SyncCells(F), {}, {})
<1>3. /\ todo' = {<<"loop", t>> : t \in loops}
                     \cup {<<"kick2", s>> : s \in Super \cap visited}
                     \cup WithKick1AndCollect("timestep", Super \cap visited)
                     \cup WithKick1AndCollect("limiter", L.supers)
                     \cup WithKick1AndCollect("sync", Y.supers)
                     \cup {<<"feedback", f>> : f \in F}
      /\ do_limiter' = L.flag /\ do_sub_limiter' = L.sub
      /\ do_sync' = Y.flag /\ do_sub_sync' = Y.sub
  BY <1>2 DEF Unskip
<1>4. limit \in SUBSET Tasked
  BY SuperAssumption
<1>5. SyncCells(F) \in SUBSET Tasked
  BY SuperAssumption DEF SyncCells
<1>6. /\ \A s \in L.supers : <<"limiter", s>> \in todo'
      /\ \A s \in Y.supers : <<"sync", s>> \in todo'
  BY <1>3 DEF WithKick1AndCollect
<1> HIDE DEF visited, loops, limit, L, Y
<1>7. /\ FlagsClimb("limiter", do_limiter, do_sub_limiter, todo)'
      /\ limit \subseteq do_limiter'
  BY <1>3, <1>4, <1>6, FlagsSet DEF L
<1>8. /\ FlagsClimb("sync", do_sync, do_sub_sync, todo)'
      /\ SyncCells(F) \subseteq do_sync'
  BY <1>3, <1>5, <1>6, FlagsSet DEF Y
<1>9. Shape'
  BY PartAssumption DEF EnginePrepare, FlagInv, Shape, Leaf, parts
<1>10. LoopsFlagged'
  <2> SUFFICES ASSUME NEW t \in Tasks, <<"loop", t>> \in todo'
               PROVE  t \subseteq do_limiter'
    BY DEF LoopsFlagged
  <2>1. t \in loops
    BY <1>3 DEF WithKick1AndCollect
  <2> QED
    BY <2>1, <1>7 DEF limit
<1>11. StarsFlagged'
  <2> SUFFICES ASSUME NEW f \in StarPairs, <<"feedback", f>> \in todo'
               PROVE  f[1] \in do_sync' /\ f[2] \in do_sync'
    BY DEF StarsFlagged
  <2>1. f \in F
    BY <1>3 DEF WithKick1AndCollect
  <2> QED
    BY <2>1, <1>8 DEF SyncCells
<1>12. RequestsFlagged' /\ WokenFlagged'
  BY <1>1 DEF EnginePrepare, parts, RequestsFlagged, WokenFlagged, NotAwake
<1> QED
  BY <1>7, <1>8, <1>9, <1>10, <1>11, <1>12 DEF FlagInv

LEMMA OverrideAt ==
  ASSUME NEW f, NEW new
  PROVE  /\ DOMAIN Override(f, new) = DOMAIN f
         /\ \A x \in DOMAIN f :
              Override(f, new)[x] = IF x \in DOMAIN new THEN new[x] ELSE f[x]
  BY DEF Override

LEMMA SameActive ==
  ASSUME NEW p, time_bin'[p] = time_bin[p], ti_current' = ti_current
  PROVE  Active(p)' <=> Active(p)
  BY DEF Active, max_active_bin

(* A task other than the limiter and the synchronisation leaves the flags, *)
(* the particles' places and who depends on whom as they are.              *)
LEMMA QuietTask ==
  ASSUME FlagInv, NEW k, NEW x, k \notin {"limiter", "sync"}, Run(k, x),
         UNCHANGED <<ti_current, running, cell_of, flags>>
  PROVE  /\ FlagsClimb("limiter", do_limiter, do_sub_limiter, todo)'
         /\ FlagsClimb("sync", do_sync, do_sub_sync, todo)'
         /\ LoopsFlagged' /\ StarsFlagged'
         /\ (~running => todo = {})'
         /\ \A p \in Part : /\ Flagged(p, do_limiter)' <=> Flagged(p, do_limiter)
                            /\ Flagged(p, do_sync)' <=> Flagged(p, do_sync)
<1>1. todo' = todo \ {<<k, x>>}
  BY DEF Run
<1>2. /\ do_limiter' = do_limiter /\ do_sub_limiter' = do_sub_limiter
      /\ do_sync' = do_sync /\ do_sub_sync' = do_sub_sync
  BY DEF flags
<1>3. FlagsClimb("limiter", do_limiter, do_sub_limiter, todo)'
  BY <1>1, <1>2, FlagsStay DEF FlagInv
<1>4. FlagsClimb("sync", do_sync, do_sub_sync, todo)'
  BY <1>1, <1>2, FlagsStay DEF FlagInv
<1>5. LoopsFlagged' /\ StarsFlagged'
  BY <1>1, <1>2 DEF FlagInv, LoopsFlagged, StarsFlagged
<1>6. (~running => todo = {})'
  BY <1>1 DEF FlagInv, Shape
<1>7. \A p \in Part : /\ Flagged(p, do_limiter)' <=> Flagged(p, do_limiter)
                      /\ Flagged(p, do_sync)' <=> Flagged(p, do_sync)
  BY <1>2 DEF Flagged
<1> QED
  BY <1>3, <1>4, <1>5, <1>6, <1>7

LEMMA FlagKick2 ==
  ASSUME FlagInv, NEW s \in Super, Kick2(s)
  PROVE  FlagInv'
<1>1. /\ Run("kick2", s)
      /\ UNCHANGED <<ti_current, running, cell_of, flags>>
      /\ UNCHANGED <<time_bin, wakeup, to_be_synchronized>>
  BY DEF Kick2, clock
<1>2. \A p \in Part : Active(p)' <=> Active(p)
  BY <1>1, SameActive
<1>3. Shape' /\ RequestsFlagged' /\ WokenFlagged'
  BY <1>1, <1>2, QuietTask DEF FlagInv, Shape, RequestsFlagged, WokenFlagged, NotAwake
<1> QED
  BY <1>1, <1>3, QuietTask DEF FlagInv

LEMMA FlagTimestep ==
  ASSUME FlagInv, NEW s \in Super, Timestep(s)
  PROVE  FlagInv'
<1>1. /\ Run("timestep", s)
      /\ UNCHANGED <<ti_current, running, cell_of, flags>>
      /\ UNCHANGED <<wakeup, to_be_synchronized>>
  BY DEF Timestep, clock
<1>2. PICK S \in SUBSET {p \in Part : Active(p)} : \E step \in NewSteps(S) :
        time_bin' = Override(time_bin, [p \in DOMAIN step |-> get_time_bin(step[p])])
  BY DEF Timestep, PartsIn
<1>3. PICK step \in NewSteps(S) :
        time_bin' = Override(time_bin, [p \in DOMAIN step |-> get_time_bin(step[p])])
  BY <1>2
<1>4. DOMAIN step = S
  BY <1>3 DEF NewSteps
<1>5. ASSUME NEW p \in Part, ~Active(p)
      PROVE  ~Active(p)'
  <2>1. time_bin'[p] = time_bin[p]
    BY <1>3, <1>4, <1>5, OverrideAt DEF FlagInv, Shape
  <2> QED
    BY <1>1, <1>5, <2>1, SameActive
<1>6. DOMAIN time_bin' = Part
  BY <1>3, OverrideAt DEF FlagInv, Shape
<1>7. Shape' /\ RequestsFlagged' /\ WokenFlagged'
  BY <1>1, <1>5, <1>6, QuietTask DEF FlagInv, Shape, RequestsFlagged, WokenFlagged, NotAwake
<1> QED
  BY <1>1, <1>7, QuietTask DEF FlagInv

LEMMA FlagFeedback ==
  ASSUME FlagInv, NEW f \in StarPairs, NEW S \in SUBSET Part, Feedback(f, S)
  PROVE  FlagInv'
<1>1. /\ Run("feedback", f)
      /\ UNCHANGED <<ti_current, running, cell_of, flags>>
      /\ UNCHANGED <<time_bin, wakeup>>
      /\ S \subseteq PartsIn(f[1]) \cup PartsIn(f[2])
      /\ to_be_synchronized' = to_be_synchronized \cup S
  BY DEF Feedback, clock
<1>2. \A p \in Part : Active(p)' <=> Active(p)
  BY <1>1, SameActive
<1>3. f[1] \in do_sync /\ f[2] \in do_sync
  BY <1>1 DEF Run, FlagInv, StarsFlagged
<1>4. \A p \in S : Flagged(p, do_sync)
  BY <1>1, <1>3 DEF Flagged, PartsIn
<1>5. Shape' /\ WokenFlagged'
  BY <1>1, <1>2, QuietTask DEF FlagInv, Shape, WokenFlagged, NotAwake
<1>6. RequestsFlagged'
  BY <1>1, <1>4, QuietTask DEF FlagInv, Shape, RequestsFlagged
<1> QED
  BY <1>1, <1>5, <1>6, QuietTask DEF FlagInv

LEMMA FlagLoop ==
  ASSUME FlagInv, NEW t \in Tasks, NEW deep \in SUBSET Part, LimiterLoop(t, deep)
  PROVE  FlagInv'
<1>1. /\ Run("loop", t)
      /\ UNCHANGED <<ti_current, running, cell_of, flags>>
      /\ UNCHANGED <<time_bin, to_be_synchronized>>
      /\ wakeup' = [p \in Part |-> Max({wakeup[p]} \cup Woken(t, deep, p))]
  BY DEF LimiterLoop, clock
<1>2. \A p \in Part : Active(p)' <=> Active(p)
  BY <1>1, SameActive
<1>3. t \subseteq do_limiter
  BY <1>1 DEF Run, FlagInv, LoopsFlagged
<1>4. ASSUME NEW p \in Part, wakeup'[p] # NotAwake, wakeup[p] = NotAwake
      PROVE  Flagged(p, do_limiter)
  <2>1. Woken(t, deep, p) # {}
    <3>1. SUFFICES ASSUME Woken(t, deep, p) = {} PROVE FALSE
      OBVIOUS
    <3>2. wakeup'[p] = Max({NotAwake})
      BY <1>1, <1>4, <3>1
    <3>3. Max({NotAwake}) = NotAwake
      BY BinAssumption DEF Max, NotAwake
    <3> QED
      BY <1>4, <3>2, <3>3 DEF NotAwake
  <2>2. PICK pi \in Wakers(t, deep, p) : TRUE
    BY <2>1 DEF Woken
  <2>3. PICK cj \in t : p \in PartsIn(cj)
    BY <2>2 DEF Wakers
  <2> QED
    BY <2>3, <1>3 DEF Flagged, PartsIn
<1>5. Shape' /\ RequestsFlagged'
  BY <1>1, QuietTask DEF FlagInv, Shape, RequestsFlagged
<1>6. WokenFlagged'
  BY <1>1, <1>2, <1>4, QuietTask DEF FlagInv, WokenFlagged, NotAwake
<1> QED
  BY <1>1, <1>5, <1>6, QuietTask DEF FlagInv

LEMMA FlagKick1 ==
  ASSUME FlagInv, ~Recouples, NEW s \in Super, NEW R \in SUBSET Part, Kick1(s, R)
  PROVE  FlagInv'
<1>1. /\ Run("kick1", s)
      /\ UNCHANGED <<ti_current, running, cell_of, flags>>
      /\ UNCHANGED <<time_bin, wakeup, to_be_synchronized>>
  BY DEF Kick1, clock
<1>2. \A p \in Part : Active(p)' <=> Active(p)
  BY <1>1, SameActive
<1>3. Shape' /\ RequestsFlagged' /\ WokenFlagged'
  BY <1>1, <1>2, QuietTask DEF FlagInv, Shape, RequestsFlagged, WokenFlagged, NotAwake
<1> QED
  BY <1>1, <1>3, QuietTask DEF FlagInv

LEMMA FlagCollect ==
  ASSUME FlagInv, NEW t \in Top, Collect(t)
  PROVE  FlagInv'
<1>1. /\ Run("collect", t)
      /\ UNCHANGED <<ti_current, running, cell_of, flags>>
      /\ UNCHANGED <<time_bin, wakeup, to_be_synchronized>>
  BY DEF Collect, clock, parts
<1>2. \A p \in Part : Active(p)' <=> Active(p)
  BY <1>1, SameActive
<1>3. Shape' /\ RequestsFlagged' /\ WokenFlagged'
  BY <1>1, <1>2, QuietTask DEF FlagInv, Shape, RequestsFlagged, WokenFlagged, NotAwake
<1> QED
  BY <1>1, <1>3, QuietTask DEF FlagInv

LEMMA FlagLimiter ==
  ASSUME FlagInv, NEW s \in Super, Limiter(s)
  PROVE  FlagInv'
<1> DEFINE visited == Visited(s, do_limiter, do_sub_limiter)
           limited == ToLimit(s)
<1>1. /\ Run("limiter", s)
      /\ UNCHANGED <<ti_current, running, cell_of, do_sync, do_sub_sync>>
      /\ time_bin' = Override(time_bin, [p \in limited |-> LimitedBin(p)])
      /\ wakeup' = Override(wakeup, [p \in limited |-> NotAwake])
      /\ to_be_synchronized' = to_be_synchronized \ limited
      /\ do_limiter' = do_limiter \ visited
      /\ do_sub_limiter' = do_sub_limiter \ visited
  BY DEF Limiter, clock
<1>2. /\ todo' = todo \ {<<"limiter", s>>}
      /\ \A t \in LoopsOf(s) : <<"loop", t>> \notin todo
  BY <1>1 DEF Run, Before
<1>3. /\ DOMAIN time_bin' = Part /\ DOMAIN wakeup' = Part
      /\ \A p \in Part : /\ wakeup'[p] = IF p \in limited THEN NotAwake ELSE wakeup[p]
                         /\ p \notin limited => time_bin'[p] = time_bin[p]
  BY <1>1, OverrideAt DEF FlagInv, Shape
<1> HIDE DEF visited, limited
<1>4. FlagsClimb("limiter", do_limiter, do_sub_limiter, todo)'
  BY <1>1, <1>2, FlagsCleared DEF FlagInv, visited
<1>5. FlagsClimb("sync", do_sync, do_sub_sync, todo)'
  BY <1>1, <1>2, FlagsStay DEF FlagInv
<1>6. Shape'
  BY <1>1, <1>2, <1>3 DEF FlagInv, Shape
<1>7. LoopsFlagged'
  <2> SUFFICES ASSUME NEW t \in Tasks, <<"loop", t>> \in todo', NEW c \in t
               PROVE  c \in do_limiter'
    BY DEF LoopsFlagged
  <2>1. c \in do_limiter /\ <<"loop", t>> \in todo
    BY <1>2 DEF FlagInv, LoopsFlagged
  <2>2. SuperOf(c) # s
    BY <1>2, <2>1 DEF LoopsOf
  <2>3. c \notin visited
    BY <2>2, VisitsOwn DEF visited
  <2> QED
    BY <1>1, <2>1, <2>3
<1>8. StarsFlagged'
  BY <1>1, <1>2 DEF FlagInv, StarsFlagged
<1>9. RequestsFlagged'
  BY <1>1 DEF FlagInv, RequestsFlagged, Flagged
<1>10. WokenFlagged'
  <2> SUFFICES ASSUME NEW p \in Part, wakeup'[p] # NotAwake,
                      ~(p \in to_be_synchronized' /\ ~Active(p)')
               PROVE  Flagged(p, do_limiter)'
    BY DEF WokenFlagged, NotAwake
  <2>1. p \notin limited /\ wakeup[p] # NotAwake
    BY <1>3
  <2>2. Active(p)' <=> Active(p)
    BY <1>1, <1>3, <2>1, SameActive
  <2>3. ~(p \in to_be_synchronized /\ ~Active(p))
    BY <1>1, <2>1, <2>2
  <2>4. PICK c \in do_limiter : c \in Ancestors[cell_of[p]]
    BY <2>1, <2>3 DEF FlagInv, WokenFlagged, Flagged
  <2>5. p \notin Treated(s, do_limiter, do_sub_limiter)
    BY <2>1, <2>3 DEF limited, ToLimit
  <2>6. SuperOf(c) # s
    BY <2>4, <2>5, TreatsFlagged DEF FlagInv
  <2>7. c \notin visited
    BY <2>6, VisitsOwn DEF visited
  <2> QED
    BY <1>1, <2>4, <2>7 DEF Flagged
<1> QED
  BY <1>4, <1>5, <1>6, <1>7, <1>8, <1>9, <1>10 DEF FlagInv

LEMMA FlagSync ==
  ASSUME FlagInv, NEW s \in Super, Sync(s)
  PROVE  FlagInv'
<1> DEFINE visited == Visited(s, do_sync, do_sub_sync)
           treated == Treated(s, do_sync, do_sub_sync)
           synced == ToSync(s)
<1>1. PICK bin \in SyncBins(synced) :
      /\ Run("sync", s)
      /\ UNCHANGED <<ti_current, running, cell_of, do_limiter, do_sub_limiter>>
      /\ time_bin' = Override(time_bin, bin)
      /\ wakeup' = Override(wakeup, [p \in DOMAIN bin |-> NotAwake])
      /\ to_be_synchronized' = to_be_synchronized \ treated
      /\ do_sync' = do_sync \ visited
      /\ do_sub_sync' = do_sub_sync \ visited
  BY DEF Sync, clock
<1>2. /\ todo' = todo \ {<<"sync", s>>}
      /\ \A f \in StarPairs : s \in {SuperOf(f[1]), SuperOf(f[2])} =>
                                 <<"feedback", f>> \notin todo
  BY <1>1 DEF Run, Before
<1>3. DOMAIN bin = synced
  BY DEF SyncBins
<1>4. /\ DOMAIN time_bin' = Part /\ DOMAIN wakeup' = Part
      /\ \A p \in Part : /\ wakeup'[p] = IF p \in synced THEN NotAwake ELSE wakeup[p]
                         /\ p \notin synced => time_bin'[p] = time_bin[p]
  BY <1>1, <1>3, OverrideAt DEF FlagInv, Shape
<1> HIDE DEF visited, treated, synced
<1>5. FlagsClimb("sync", do_sync, do_sub_sync, todo)'
  BY <1>1, <1>2, FlagsCleared DEF FlagInv, visited
<1>6. FlagsClimb("limiter", do_limiter, do_sub_limiter, todo)'
  BY <1>1, <1>2, FlagsStay DEF FlagInv
<1>7. Shape'
  BY <1>1, <1>2, <1>4 DEF FlagInv, Shape
<1>8. LoopsFlagged'
  BY <1>1, <1>2 DEF FlagInv, LoopsFlagged
<1>9. ASSUME NEW c \in do_sync, SuperOf(c) # s
      PROVE  c \in do_sync'
  BY <1>1, <1>9, VisitsOwn DEF visited
<1>10. StarsFlagged'
  BY <1>1, <1>2, <1>9 DEF FlagInv, StarsFlagged
<1>11. RequestsFlagged'
  <2> SUFFICES ASSUME NEW p \in to_be_synchronized' PROVE Flagged(p, do_sync)'
    BY DEF RequestsFlagged
  <2>1. p \in to_be_synchronized /\ p \notin treated /\ p \in Part
    BY <1>1 DEF FlagInv, Shape
  <2>2. PICK c \in do_sync : c \in Ancestors[cell_of[p]]
    BY <2>1 DEF FlagInv, RequestsFlagged, Flagged
  <2>3. SuperOf(c) # s
    BY <2>1, <2>2, TreatsFlagged DEF FlagInv, treated
  <2> QED
    BY <1>1, <1>9, <2>2, <2>3 DEF Flagged
<1>12. WokenFlagged'
  <2> SUFFICES ASSUME NEW p \in Part, wakeup'[p] # NotAwake, ~Flagged(p, do_limiter)
               PROVE  p \in to_be_synchronized' /\ ~Active(p)'
    BY <1>1 DEF WokenFlagged, NotAwake, Flagged
  <2>1. p \notin synced /\ wakeup[p] # NotAwake
    BY <1>4
  <2>2. p \in to_be_synchronized /\ ~Active(p)
    BY <2>1 DEF FlagInv, WokenFlagged
  <2>3. p \notin treated
    BY <2>1, <2>2 DEF synced, ToSync, treated
  <2>4. Active(p)' <=> Active(p)
    BY <1>1, <1>4, <2>1, SameActive
  <2> QED
    BY <1>1, <2>2, <2>3, <2>4
<1> QED
  BY <1>5, <1>6, <1>7, <1>8, <1>10, <1>11, <1>12 DEF FlagInv

LEMMA FlagEndOfStep ==
  ASSUME FlagInv, CollectEndOfStep
  PROVE  FlagInv'
<1>1. UNCHANGED <<ti_current, todo, cell_of, flags, time_bin, wakeup, to_be_synchronized>>
  BY DEF CollectEndOfStep, parts
<1>2. \A p \in Part : Active(p)' <=> Active(p)
  BY <1>1, SameActive
<1>3. Shape'
  BY <1>1 DEF CollectEndOfStep, FlagInv, Shape
<1> QED
  BY <1>1, <1>2, <1>3 DEF FlagInv, FlagsClimb, Climbs, LoopsFlagged, StarsFlagged,
     RequestsFlagged, WokenFlagged, Flagged, flags, NotAwake

LEMMA FlagStep ==
  ASSUME FlagInv, ~Recouples, [Next]_vars
  PROVE  FlagInv'
<1>1. CASE Next
  <2>1. ASSUME NEW rebuild \in BOOLEAN, NEW layout \in Layouts,
               NEW F \in SUBSET StarPairs, EnginePrepare(rebuild, layout, F)
        PROVE  FlagInv'
    BY <2>1, FlagPrepare
  <2>2. ASSUME NEW s \in Super,
               Kick2(s) \/ Timestep(s) \/ Limiter(s) \/ Sync(s)
        PROVE  FlagInv'
    BY <2>2, FlagKick2, FlagTimestep, FlagLimiter, FlagSync
  <2>3. ASSUME NEW f \in StarPairs, NEW S \in SUBSET Part, Feedback(f, S)
        PROVE  FlagInv'
    BY <2>3, FlagFeedback
  <2>4. ASSUME NEW t \in Tasks, NEW deep \in SUBSET Part, LimiterLoop(t, deep)
        PROVE  FlagInv'
    BY <2>4, FlagLoop
  <2>5. ASSUME NEW s \in Super, NEW R \in SUBSET Part, Kick1(s, R)
        PROVE  FlagInv'
    BY <2>5, FlagKick1
  <2>6. ASSUME NEW t \in Top, Collect(t)
        PROVE  FlagInv'
    BY <2>6, FlagCollect
  <2> QED
    BY <1>1, <2>1, <2>2, <2>3, <2>4, <2>5, <2>6, FlagEndOfStep DEF Next
<1>2. CASE UNCHANGED vars
  <2>1. UNCHANGED <<ti_current, running, todo, cell_of, flags, time_bin, wakeup,
                    to_be_synchronized>>
    BY <1>2 DEF vars, clock, parts
  <2>2. \A p \in Part : Active(p)' <=> Active(p)
    BY <2>1, SameActive
  <2> QED
    BY <2>1, <2>2 DEF FlagInv, Shape, FlagsClimb, Climbs, LoopsFlagged, StarsFlagged,
       RequestsFlagged, WokenFlagged, Flagged, flags, NotAwake
<1> QED
  BY <1>1, <1>2

-----------------------------------------------------------------------------
(***************************************************************************)
(* Arithmetic: a set of numbers has a least element; powers of two;        *)
(* multiples.                                                              *)
(***************************************************************************)
LEMMA LessWF == IsWellFoundedOn({ss \in Nat \X Nat : ss[1] < ss[2]}, Nat)
  BY NatLessThanWellFounded, Zenon DEF OpToRel

LEMMA Least ==
  ASSUME NEW S \in SUBSET Nat, S # {}
  PROVE  \E x \in S : \A y \in S : x <= y
<1>1. \E x \in S : \A y \in S : ~ (<<y, x>> \in {ss \in Nat \X Nat : ss[1] < ss[2]})
  BY LessWF, WFMin, Zenon
<1>2. PICK x \in S : \A y \in S : ~ (<<y, x>> \in {ss \in Nat \X Nat : ss[1] < ss[2]})
  BY <1>1
<1>3. ASSUME NEW y \in S PROVE x <= y
  <2>1. ~(y < x)
    BY <1>2
  <2> QED
    BY <2>1
<1> QED
  BY <1>3

(* A function that doubles from 1 on. *)
Doubles(g, m) ==
  /\ g \in [0 .. m -> Nat]
  /\ g[0] = 1
  /\ \A n \in 1 .. m : g[n] = 2 * g[n - 1]

LEMMA DoublesExists ==
  ASSUME NEW m \in Nat
  PROVE  \E g : Doubles(g, m)
<1> DEFINE S == {k \in Nat : ~ \E g : Doubles(g, k)}
<1>1. SUFFICES ASSUME S # {} PROVE FALSE
  OBVIOUS
<1>2. PICK k \in S : \A y \in S : k <= y
  BY <1>1, Least
<1>3. CASE k = 0
  <2>1. Doubles([n \in 0 .. 0 |-> 1], 0)
    BY DEF Doubles
  <2> QED
    BY <1>2, <1>3, <2>1
<1>4. CASE k # 0
  <2>1. k - 1 \in Nat /\ k - 1 \notin S
    BY <1>2, <1>4
  <2>2. PICK g : Doubles(g, k - 1)
    BY <2>1
  <2> DEFINE h == [n \in 0 .. k |-> IF n = k THEN 2 * g[k - 1] ELSE g[n]]
  <2>3. h \in [0 .. k -> Nat]
    BY <2>1, <2>2 DEF Doubles
  <2>4. h[0] = 1
    BY <2>1, <2>2, <1>4 DEF Doubles
  <2>5. \A n \in 1 .. k : h[n] = 2 * h[n - 1]
    <3> SUFFICES ASSUME NEW n \in 1 .. k PROVE h[n] = 2 * h[n - 1]
      OBVIOUS
    <3>1. CASE n = k
      BY <2>1, <3>1
    <3>2. CASE n # k
      <4>1. n \in 1 .. k - 1 /\ n \in 0 .. k /\ n - 1 \in 0 .. k /\ n - 1 # k
        BY <2>1, <3>2
      <4>2. g[n] = 2 * g[n - 1]
        BY <2>2, <4>1 DEF Doubles
      <4> QED
        BY <4>1, <4>2, <3>2
    <3> QED
      BY <3>1, <3>2
  <2>6. Doubles(h, k)
    BY <2>3, <2>4, <2>5 DEF Doubles
  <2> QED
    BY <1>2, <2>6
<1> QED
  BY <1>3, <1>4

Exponents == 0 .. NumBins + 3

LEMMA PowEquation ==
  Pow2 = [n \in Exponents |-> IF n = 0 THEN 1 ELSE 2 * Pow2[n - 1]]
<1>1. NumBins + 3 \in Nat
  BY BinAssumption
<1>2. PICK g : Doubles(g, NumBins + 3)
  BY <1>1, DoublesExists
<1>3. g = [n \in Exponents |-> IF n = 0 THEN 1 ELSE 2 * g[n - 1]]
  BY <1>1, <1>2 DEF Doubles, Exponents
<1>4. \E h : h = [n \in Exponents |-> IF n = 0 THEN 1 ELSE 2 * h[n - 1]]
  BY <1>3
<1> QED
  BY <1>4, Zenon DEF Pow2, Exponents

LEMMA PowFacts ==
  /\ Pow2[0] = 1
  /\ \A n \in Exponents : n # 0 => Pow2[n] = 2 * Pow2[n - 1]
  /\ \A n \in Exponents : Pow2[n] \in Nat \ {0}
<1>1. Pow2[0] = 1
  BY PowEquation, BinAssumption DEF Exponents
<1>2. \A n \in Exponents : n # 0 => Pow2[n] = 2 * Pow2[n - 1]
  BY PowEquation
<1> DEFINE S == {n \in Exponents : Pow2[n] \notin Nat \ {0}}
<1>3. ASSUME S # {} PROVE FALSE
  <2>1. PICK k \in S : \A y \in S : k <= y
    <3>1. S \in SUBSET Nat
      BY BinAssumption DEF Exponents
    <3> HIDE DEF S
    <3> QED
      BY <1>3, <3>1, Least
  <2>2. k # 0
    BY <1>1, <2>1
  <2>3. k - 1 \in Exponents /\ k - 1 \notin S
    BY <2>1, <2>2, BinAssumption DEF Exponents
  <2>4. Pow2[k - 1] \in Nat \ {0} /\ Pow2[k] = 2 * Pow2[k - 1]
    BY <2>1, <2>2, <2>3, <1>2
  <2> QED
    BY <2>1, <2>4
<1> QED
  BY <1>1, <1>2, <1>3

Multiple(x, d) == \E q \in Int : x = q * d

LEMMA MultipleTrans ==
  ASSUME NEW x \in Int, NEW d \in Int, NEW e \in Int, Multiple(x, d), Multiple(d, e)
  PROVE  Multiple(x, e)
<1>1. PICK q \in Int : x = q * d
  BY DEF Multiple
<1>2. PICK r \in Int : d = r * e
  BY DEF Multiple
<1>3. x = (q * r) * e /\ q * r \in Int
  BY <1>1, <1>2
<1> QED
  BY <1>3 DEF Multiple

LEMMA MultipleSum ==
  ASSUME NEW x \in Int, NEW y \in Int, NEW d \in Int, Multiple(x, d), Multiple(y, d)
  PROVE  Multiple(x + y, d) /\ Multiple(x - y, d)
<1>1. PICK q \in Int : x = q * d
  BY DEF Multiple
<1>2. PICK r \in Int : y = r * d
  BY DEF Multiple
<1>3. x + y = (q + r) * d /\ x - y = (q - r) * d
  BY <1>1, <1>2
<1>4. q + r \in Int /\ q - r \in Int
  OBVIOUS
<1> QED
  BY <1>3, <1>4 DEF Multiple

LEMMA MultipleSelf ==
  ASSUME NEW d \in Int
  PROVE  Multiple(d, d) /\ Multiple(0, d)
<1>1. d = 1 * d /\ 0 = 0 * d
  OBVIOUS
<1> QED
  BY <1>1 DEF Multiple

LEMMA ProductMono ==
  ASSUME NEW q \in Int, NEW r \in Int, NEW d \in Nat, q <= r
  PROVE  q * d <= r * d
<1>1. PICK k \in Nat : r = q + k
  BY r - q \in Nat
<1>2. r * d = q * d + k * d /\ k * d \in Nat /\ q * d \in Int
  BY <1>1
<1> QED
  BY <1>2

(* Different multiples of d are at least d apart. *)
LEMMA MultipleGap ==
  ASSUME NEW x \in Int, NEW y \in Int, NEW d \in Nat \ {0},
         Multiple(x, d), Multiple(y, d), x < y
  PROVE  x + d <= y
<1>1. PICK q \in Int : x = q * d
  BY DEF Multiple
<1>2. PICK r \in Int : y = r * d
  BY DEF Multiple
<1>3. q < r
  BY <1>1, <1>2, ProductMono
<1>4. (q + 1) * d <= r * d /\ (q + 1) * d = q * d + d
  BY <1>3, ProductMono
<1> QED
  BY <1>1, <1>2, <1>4

LEMMA DivMod ==
  ASSUME NEW x \in Int, NEW d \in Nat \ {0}
  PROVE  /\ x \div d \in Int /\ x % d \in Int
         /\ x = d * (x \div d) + (x % d)
         /\ 0 <= x % d /\ x % d < d
  OBVIOUS

LEMMA ModMultiple ==
  ASSUME NEW x \in Int, NEW d \in Nat \ {0}
  PROVE  x % d = 0 <=> Multiple(x, d)
<1> DEFINE q == x \div d
           r == x % d
<1>1. q \in Int /\ r \in Int /\ x = d * q + r /\ 0 <= r /\ r < d
  BY DivMod
<1> HIDE DEF q, r
<1>2. Multiple(d * q, d) /\ d * q \in Int
  <2>1. d * q = q * d
    BY <1>1
  <2> QED
    BY <1>1, <2>1 DEF Multiple
<1>3. ASSUME r = 0 PROVE Multiple(x, d)
  BY <1>1, <1>2, <1>3
<1>4. ASSUME Multiple(x, d) PROVE r = 0
  <2>1. SUFFICES ASSUME d * q < x PROVE FALSE
    BY <1>1, <1>2
  <2>2. d * q + d <= x
    BY <1>2, <1>4, <2>1, MultipleGap
  <2> QED
    BY <1>1, <1>2, <2>2
<1> QED
  BY <1>3, <1>4 DEF r

LEMMA PowDivides ==
  ASSUME NEW a \in Exponents, NEW b \in Exponents, a <= b
  PROVE  Multiple(Pow2[b], Pow2[a])
<1> DEFINE S == {k \in Exponents : a <= k /\ ~Multiple(Pow2[k], Pow2[a])}
<1>1. SUFFICES ASSUME S # {} PROVE FALSE
  OBVIOUS
<1>2. S \in SUBSET Nat
  BY BinAssumption DEF Exponents
<1>3. PICK k \in S : \A y \in S : k <= y
  <2> HIDE DEF S
  <2> QED
    BY <1>1, <1>2, Least
<1>4. k # a
  BY <1>3, MultipleSelf, PowFacts
<1>5. k - 1 \in Exponents /\ a <= k - 1 /\ k # 0 /\ k \in Exponents /\ ~(k <= k - 1)
  BY <1>3, <1>4, BinAssumption DEF Exponents
<1>6. Multiple(Pow2[k - 1], Pow2[a])
  BY <1>3, <1>5
<1>7. Pow2[k] = 2 * Pow2[k - 1] /\ Pow2[k - 1] \in Nat /\ Pow2[a] \in Nat
  BY <1>5, PowFacts
<1>8. Multiple(Pow2[k - 1] + Pow2[k - 1], Pow2[a])
  BY <1>6, <1>7, MultipleSum
<1>9. Pow2[k] = Pow2[k - 1] + Pow2[k - 1]
  BY <1>7
<1> QED
  BY <1>3, <1>8, <1>9

LEMMA PowMono ==
  ASSUME NEW a \in Exponents, NEW b \in Exponents, a < b
  PROVE  Pow2[a] < Pow2[b]
<1>1. b - 1 \in Exponents /\ a <= b - 1 /\ b # 0
  BY BinAssumption DEF Exponents
<1>2. Multiple(Pow2[b - 1], Pow2[a])
  BY <1>1, PowDivides
<1>3. /\ Pow2[b] = 2 * Pow2[b - 1]
      /\ Pow2[b - 1] \in Nat \ {0} /\ Pow2[a] \in Nat \ {0}
  BY <1>1, PowFacts
<1>4. 0 + Pow2[a] <= Pow2[b - 1]
  BY <1>2, <1>3, MultipleSelf, MultipleGap
<1> QED
  BY <1>3, <1>4

-----------------------------------------------------------------------------
(***************************************************************************)
(* The time line.                                                          *)
(***************************************************************************)
Bins == 1 .. NumBins

LEMMA Timestep1 ==
  ASSUME NEW b \in Bins
  PROVE  /\ get_integer_timestep(b) \in Nat \ {0}
         /\ get_integer_timestep(b) = Pow2[b + 1]
         /\ get_integer_timestep(b) = 2 * (get_integer_timestep(b) \div 2)
         /\ get_integer_timestep(b) \div 2 \in Nat \ {0}
<1>1. b + 1 \in Exponents /\ b + 1 # 0 /\ b \in Exponents /\ ~(b <= 0) /\ (b + 1) - 1 = b
  BY BinAssumption DEF Bins, Exponents
<1>2. get_integer_timestep(b) = Pow2[b + 1]
  BY <1>1 DEF get_integer_timestep
<1>3. Pow2[b + 1] = 2 * Pow2[b]
  BY <1>1, PowFacts
<1>4. Pow2[b] \in Nat \ {0} /\ Pow2[b + 1] \in Nat \ {0}
  BY <1>1, PowFacts
<1>5. Pow2[b + 1] \div 2 = Pow2[b]
  BY <1>3, <1>4
<1> QED
  BY <1>2, <1>3, <1>4, <1>5

LEMMA Timestep2 ==
  ASSUME NEW a \in Bins, NEW b \in Bins
  PROVE  /\ a < b => /\ get_integer_timestep(a) < get_integer_timestep(b)
                     /\ Multiple(get_integer_timestep(b) \div 2, get_integer_timestep(a))
         /\ a <= b => /\ get_integer_timestep(a) <= get_integer_timestep(b)
                      /\ Multiple(get_integer_timestep(b), get_integer_timestep(a))
<1>1. a + 1 \in Exponents /\ b + 1 \in Exponents /\ b \in Exponents
  BY BinAssumption DEF Bins, Exponents
<1>2. /\ get_integer_timestep(a) = Pow2[a + 1] /\ get_integer_timestep(b) = Pow2[b + 1]
      /\ Pow2[a + 1] \in Nat /\ Pow2[b + 1] \in Nat
  BY Timestep1
<1>3. a < b => Pow2[a + 1] < Pow2[b + 1]
  BY <1>1, PowMono, BinAssumption DEF Bins
<1>4. a <= b => Multiple(Pow2[b + 1], Pow2[a + 1])
  BY <1>1, PowDivides, BinAssumption DEF Bins
<1>5. ASSUME a < b PROVE Multiple(Pow2[b + 1] \div 2, Pow2[a + 1])
  <2>1. a + 1 <= b
    BY <1>5 DEF Bins
  <2>2. Multiple(Pow2[b], Pow2[a + 1])
    BY <1>1, <2>1, PowDivides
  <2>3. (b + 1) # 0 /\ (b + 1) - 1 = b
    BY DEF Bins
  <2>4. Pow2[b + 1] = 2 * Pow2[b] /\ Pow2[b] \in Nat
    BY <1>1, <2>3, PowFacts
  <2>5. Pow2[b + 1] \div 2 = Pow2[b]
    BY <2>4
  <2> QED
    BY <2>2, <2>5
<1>6. a = b \/ a < b \/ ~(a <= b)
  BY DEF Bins
<1> QED
  BY <1>2, <1>3, <1>4, <1>5, <1>6

LEMMA BinsComparable ==
  ASSUME NEW a \in Bins, NEW b \in Bins
  PROVE  /\ get_integer_timestep(a) < get_integer_timestep(b) => a < b
         /\ get_integer_timestep(a) <= get_integer_timestep(b) => a <= b
<1>1. a < b \/ a = b \/ b < a
  BY DEF Bins
<1>2. get_integer_timestep(a) \in Nat /\ get_integer_timestep(b) \in Nat
  BY Timestep1
<1>3. a \in Int /\ b \in Int
  BY DEF Bins
<1> QED
  BY <1>1, <1>2, <1>3, Timestep2

LEMMA Longest ==
  /\ NumBins \in Bins
  /\ max_nr_timesteps = get_integer_timestep(NumBins)
<1>1. NumBins \in Bins
  BY BinAssumption DEF Bins
<1> QED
  BY <1>1, Timestep1 DEF max_nr_timesteps

LEMMA TimeBinOf ==
  ASSUME NEW b \in Bins
  PROVE  get_time_bin(get_integer_timestep(b)) = b
<1>1. get_integer_timestep(b) = Pow2[b + 1]
  BY Timestep1
<1>2. /\ b \in -1 .. NumBins + 1 /\ b + 1 \in Exponents /\ b + 2 \in Exponents
      /\ b + 1 < b + 2
  BY BinAssumption DEF Bins, Exponents
<1>3. Pow2[b + 1] <= Pow2[b + 1] /\ Pow2[b + 1] < Pow2[b + 2]
  BY <1>2, PowMono, PowFacts
<1>4. ASSUME NEW c \in -1 .. NumBins + 1,
             Pow2[c + 1] <= Pow2[b + 1], Pow2[b + 1] < Pow2[c + 2]
      PROVE  c = b
  <2>1. c + 1 \in Exponents /\ c + 2 \in Exponents /\ c \in Int
    BY BinAssumption DEF Exponents
  <2>2. Pow2[c + 1] \in Nat /\ Pow2[b + 1] \in Nat /\ Pow2[c + 2] \in Nat
    BY <2>1, <1>2, PowFacts
  <2>3. ~(b + 1 < c + 1)
    BY <1>4, <2>1, <2>2, <1>2, PowMono
  <2>4. ~(c + 2 < b + 1) /\ c + 2 # b + 1
    BY <1>4, <2>1, <2>2, <1>2, PowMono
  <2> QED
    BY <2>3, <2>4, <2>1 DEF Bins
<1>5. \E c \in -1 .. NumBins + 1 : Pow2[c + 1] <= Pow2[b + 1] /\ Pow2[b + 1] < Pow2[c + 2]
  BY <1>2, <1>3
<1> QED
  BY <1>1, <1>4, <1>5 DEF get_time_bin

(* Where the step of length get_integer_timestep(b) around time t begins   *)
(* and ends.                                                               *)
LEMMA BeginEnd ==
  ASSUME NEW t \in Int, NEW b \in Bins
  PROVE  /\ get_integer_time_begin(t, b) \in Int
         /\ Multiple(get_integer_time_begin(t, b), get_integer_timestep(b))
         /\ get_integer_time_begin(t, b) < t
         /\ t <= get_integer_time_begin(t, b) + get_integer_timestep(b)
         /\ get_integer_time_end(t, b)
              = get_integer_time_begin(t, b) + get_integer_timestep(b)
<1> DEFINE d == get_integer_timestep(b)
           B == get_integer_time_begin(t, b)
           E == get_integer_time_end(t, b)
           q == (t - 1) \div d
           r == (t - 1) % d
           m == t % d
           n == t \div d
<1>1. d \in Nat \ {0}
  BY Timestep1
<1>2. B = d * q
  BY <1>1 DEF get_integer_time_begin
<1>3. E = IF m = 0 THEN t ELSE (t - m) + d
  BY <1>1 DEF get_integer_time_end
<1> HIDE DEF d, B, E
<1>4. q \in Int /\ r \in Int /\ t - 1 = d * q + r /\ 0 <= r /\ r < d
  BY <1>1, DivMod
<1>5. n \in Int /\ m \in Int /\ t = d * n + m /\ 0 <= m /\ m < d
  BY <1>1, DivMod
<1> HIDE DEF q, r, m, n
<1>6. d * q \in Int /\ d * n \in Int /\ d * q = q * d /\ d * n = n * d
  BY <1>1, <1>4, <1>5
<1>7. Multiple(d * q, d) /\ Multiple(d * n, d)
  BY <1>4, <1>5, <1>6 DEF Multiple
<1>8. B \in Int /\ Multiple(B, d) /\ B < t /\ t <= B + d
  BY <1>1, <1>2, <1>4, <1>6, <1>7
<1>9. E \in Int /\ Multiple(E, d) /\ t <= E /\ E < t + d
  <2>1. CASE m = 0
    BY <2>1, <1>1, <1>3, <1>5, <1>6, <1>7
  <2>2. CASE m # 0
    <3>1. E = d * n + d
      BY <2>2, <1>1, <1>3, <1>5, <1>6
    <3> QED
      BY <3>1, <2>2, <1>1, <1>5, <1>6, <1>7, MultipleSum, MultipleSelf
  <2> QED
    BY <2>1, <2>2
<1>10. B + d <= E
  BY <1>1, <1>8, <1>9, MultipleGap
<1>11. Multiple(B + d, d)
  BY <1>1, <1>8, MultipleSum, MultipleSelf
<1>12. ~(B + d < E)
  <2>1. SUFFICES ASSUME B + d < E PROVE FALSE
    OBVIOUS
  <2>2. (B + d) + d <= E
    BY <1>1, <1>8, <1>9, <1>11, <2>1, MultipleGap
  <2> QED
    BY <1>1, <1>8, <1>9, <2>2
<1>13. E = B + d
  BY <1>1, <1>8, <1>9, <1>10, <1>12
<1> QED
  BY <1>8, <1>13 DEF d, B, E

LEMMA BeginUnique ==
  ASSUME NEW t \in Int, NEW b \in Bins, NEW y \in Int,
         Multiple(y, get_integer_timestep(b)),
         y < t, t <= y + get_integer_timestep(b)
  PROVE  /\ get_integer_time_begin(t, b) = y
         /\ get_integer_time_end(t, b) = y + get_integer_timestep(b)
<1> DEFINE d == get_integer_timestep(b)
           B == get_integer_time_begin(t, b)
<1>1. d \in Nat \ {0}
  BY Timestep1
<1>2. B \in Int /\ Multiple(B, d) /\ B < t /\ t <= B + d
      /\ get_integer_time_end(t, b) = B + d
  BY BeginEnd
<1> HIDE DEF d, B
<1>3. ~(B < y)
  BY <1>1, <1>2, MultipleGap DEF d
<1>4. ~(y < B)
  BY <1>1, <1>2, MultipleGap DEF d
<1>5. B = y
  BY <1>2, <1>3, <1>4
<1> QED
  BY <1>2, <1>5 DEF B, d

LEMMA DivMultiple ==
  ASSUME NEW q \in Int, NEW d \in Nat \ {0}, NEW x \in Int, x = q * d
  PROVE  x \div d = q
<1> DEFINE k == x \div d
           r == x % d
<1>1. k \in Int /\ r \in Int /\ x = d * k + r /\ 0 <= r /\ r < d
  BY DivMod
<1> HIDE DEF k, r
<1>2. ASSUME k < q PROVE FALSE
  <2>1. (k + 1) * d <= q * d /\ (k + 1) * d = d * k + d /\ d * k \in Int
    BY <1>1, <1>2, ProductMono
  <2> QED
    BY <2>1, <1>1
<1>3. ASSUME q < k PROVE FALSE
  <2>1. (q + 1) * d <= k * d /\ (q + 1) * d = q * d + d /\ k * d = d * k /\ d * k \in Int
    BY <1>1, <1>3, ProductMono
  <2> QED
    BY <2>1, <1>1
<1> QED
  BY <1>1, <1>2, <1>3 DEF k

(* A time of the simulation. *)
OnLine(t) ==
  /\ t \in Nat
  /\ Multiple(t, get_integer_timestep(1))
  /\ t <= max_nr_timesteps

(* The bins that are active at a time are those whose steps begin there.   *)
LEMMA MaxActive ==
  ASSUME NEW t, OnLine(t)
  PROVE  /\ get_max_active_bin(t) \in Bins
         /\ \A b \in Bins : b <= get_max_active_bin(t)
                              <=> Multiple(t, get_integer_timestep(b))
<1>0. t \in Nat
  BY DEF OnLine
<1>1. CASE t = 0
  <2>1. get_max_active_bin(t) = NumBins /\ NumBins \in Bins
    BY <1>1, Longest DEF get_max_active_bin
  <2>2. \A b \in Bins : Multiple(0, get_integer_timestep(b))
    BY MultipleSelf, Timestep1
  <2>3. \A b \in Bins : b <= NumBins
    BY DEF Bins
  <2> QED
    BY <1>1, <2>1, <2>2, <2>3
<1>2. CASE t # 0
  <2> DEFINE S == {NumBins - b : b \in {c \in Bins : Multiple(t, get_integer_timestep(c))}}
  <2>1. S \in SUBSET Nat /\ S # {}
    <3>1. 1 \in Bins
      BY BinAssumption DEF Bins
    <3>2. NumBins - 1 \in S
      BY <3>1 DEF OnLine
    <3> QED
      BY <3>2, BinAssumption DEF Bins
  <2>2. PICK x \in S : \A y \in S : x <= y
    <3> HIDE DEF S
    <3> QED
      BY <2>1, Least
  <2>3. PICK b \in Bins : Multiple(t, get_integer_timestep(b)) /\ x = NumBins - b
    BY <2>2
  <2>4. ASSUME NEW c \in Bins, Multiple(t, get_integer_timestep(c))
        PROVE  c <= b
    <3>1. NumBins - c \in S
      BY <2>4
    <3>2. NumBins - b <= NumBins - c
      BY <2>2, <2>3, <3>1
    <3> QED
      BY <3>2, BinAssumption DEF Bins
  <2> HIDE DEF S
  <2>5. PICK q \in Int : t = q * get_integer_timestep(b)
    BY <2>3 DEF Multiple
  <2> DEFINE d == get_integer_timestep(b)
  <2>6. d \in Nat \ {0} /\ t = q * d
    BY <2>5, Timestep1
  <2>7. d = Pow2[b + 1]
    BY Timestep1
  <2> HIDE DEF d
  <2>8. q >= 1
    <3>1. SUFFICES ASSUME q <= 0 PROVE FALSE
      OBVIOUS
    <3>2. q * d <= 0 * d /\ 0 * d = 0
      BY <2>6, <3>1, ProductMono
    <3> QED
      BY <3>2, <2>6, <1>0, <1>2
  <2>9. q % 2 = 1
    <3>1. SUFFICES ASSUME q % 2 = 0 PROVE FALSE
      OBVIOUS
    <3>2. PICK r \in Int : q = 2 * r
      BY <3>1, q = 2 * (q \div 2)
    <3>3. CASE b = NumBins
      <4>1. q >= 2
        BY <2>8, <3>2
      <4>2. 2 * d <= q * d
        BY <4>1, <2>6, ProductMono
      <4>3. t <= d
        BY <3>3, Longest DEF OnLine, d
      <4> QED
        BY <4>2, <4>3, <2>6
    <3>4. CASE b # NumBins
      <4>1. b + 1 \in Bins /\ b < b + 1 /\ (b + 1) + 1 \in Exponents
            /\ (b + 1) + 1 # 0 /\ ((b + 1) + 1) - 1 = b + 1
        BY <3>4, BinAssumption DEF Bins, Exponents
      <4>2. get_integer_timestep(b + 1) = 2 * d
        BY <4>1, <2>7, Timestep1, PowFacts
      <4>3. t = r * (2 * d)
        BY <3>2, <2>6
      <4>4. Multiple(t, get_integer_timestep(b + 1))
        BY <4>2, <4>3 DEF Multiple
      <4>5. b + 1 <= b
        BY <4>1, <4>4, <2>4
      <4> QED
        BY <4>1, <4>5 DEF Bins
    <3> QED
      BY <3>3, <3>4
  <2>10. t \div Pow2[b + 1] = q
    BY <2>6, <2>7, DivMultiple, <1>0
  <2>11. ASSUME NEW c \in Bins, c < b
         PROVE  (t \div Pow2[c + 1]) % 2 = 0
    <3> DEFINE e == get_integer_timestep(c)
    <3>1. e \in Nat \ {0} /\ e = Pow2[c + 1]
      BY Timestep1
    <3>2. Multiple(d \div 2, e)
      BY <2>11, Timestep2 DEF d
    <3>3. d = 2 * (d \div 2) /\ d \div 2 \in Nat
      BY Timestep1 DEF d
    <3> HIDE DEF e
    <3>4. PICK s \in Int : d \div 2 = s * e
      BY <3>2 DEF Multiple
    <3>5. d = 2 * (s * e)
      BY <3>3, <3>4
    <3>6. t = (2 * (q * s)) * e /\ q * s \in Int
      BY <2>6, <3>1, <3>5
    <3>7. t \div e = 2 * (q * s)
      BY <3>1, <3>6, <1>0, DivMultiple
    <3>8. (2 * (q * s)) % 2 = 0
      BY <3>6
    <3> QED
      BY <3>1, <3>7, <3>8
  <2> DEFINE P(c) == /\ (t \div Pow2[c + 1]) % 2 = 1
                     /\ \A e \in 1 .. c - 1 : (t \div Pow2[e + 1]) % 2 = 0
  <2>12. P(b)
    <3>1. \A e \in 1 .. b - 1 : e \in Bins /\ e < b
      BY BinAssumption DEF Bins
    <3> QED
      BY <2>9, <2>10, <2>11, <3>1
  <2>13. ASSUME NEW c \in Bins, P(c) PROVE c = b
    <3>1. ~(c < b)
      BY <2>11, <2>13
    <3>2. ~(b < c)
      <4>1. SUFFICES ASSUME b < c PROVE FALSE
        OBVIOUS
      <4>2. b \in 1 .. c - 1
        BY <4>1 DEF Bins
      <4> QED
        BY <4>2, <2>9, <2>10, <2>13
    <3> QED
      BY <3>1, <3>2 DEF Bins
  <2>14. get_max_active_bin(t) = CHOOSE c \in 1 .. NumBins : P(c)
    BY <1>2 DEF get_max_active_bin
  <2> HIDE DEF P
  <2>15. get_max_active_bin(t) = b
    BY <2>12, <2>13, <2>14 DEF Bins
  <2>16. ASSUME NEW c \in Bins, c <= b
         PROVE  Multiple(t, get_integer_timestep(c))
    BY <2>3, <2>16, <1>0, Timestep1, Timestep2, MultipleTrans
  <2> QED
    BY <2>4, <2>15, <2>16
<1> QED
  BY <1>1, <1>2

-----------------------------------------------------------------------------
(* The least and the greatest element of a bounded set of integers.        *)
LEMMA MinOf ==
  ASSUME NEW S \in SUBSET Int, S # {}, NEW l \in Int, \A x \in S : l <= x
  PROVE  /\ Min(S) \in S
         /\ \A x \in S : Min(S) <= x
<1> DEFINE U == {x - l : x \in S}
<1>0. \A x \in S : x \in Int /\ x - l \in Nat
  OBVIOUS
<1>1. U \in SUBSET Nat /\ U # {}
  BY <1>0
<1>2. PICK u \in U : \A y \in U : u <= y
  <2> HIDE DEF U
  <2> QED
    BY <1>1, Least
<1>3. PICK m \in S : u = m - l
  BY <1>2
<1>4. ASSUME NEW x \in S PROVE m <= x
  <2>1. x - l \in U
    OBVIOUS
  <2>2. m - l <= x - l
    BY <1>2, <1>3, <2>1
  <2> QED
    BY <2>2
<1>5. \E x \in S : \A y \in S : x <= y
  BY <1>4
<1> QED
  BY <1>5 DEF Min

LEMMA MinIs ==
  ASSUME NEW S \in SUBSET Int, NEW m \in S, \A x \in S : m <= x
  PROVE  Min(S) = m
<1>1. \E x \in S : \A y \in S : x <= y
  OBVIOUS
<1>2. Min(S) \in S /\ \A y \in S : Min(S) <= y
  BY <1>1 DEF Min
<1>3. Min(S) <= m /\ m <= Min(S) /\ m \in Int /\ Min(S) \in Int
  BY <1>2
<1> QED
  BY <1>3

LEMMA MaxIs ==
  ASSUME NEW S \in SUBSET Int, NEW m \in S, \A x \in S : x <= m
  PROVE  Max(S) = m
<1>1. \E x \in S : \A y \in S : x >= y
  OBVIOUS
<1>2. Max(S) \in S /\ \A y \in S : Max(S) >= y
  BY <1>1 DEF Max
<1>3. Max(S) >= m /\ Max(S) <= m /\ m \in Int /\ Max(S) \in Int
  BY <1>2
<1> QED
  BY <1>3

LEMMA MaxOf ==
  ASSUME NEW S \in SUBSET Int, S # {}, NEW u \in Int, \A x \in S : x <= u
  PROVE  /\ Max(S) \in S
         /\ \A x \in S : x <= Max(S)
<1> DEFINE N == {u - x : x \in S}
<1>0. \A x \in S : x \in Int /\ u - x \in Nat
  OBVIOUS
<1>1. N \in SUBSET Nat /\ N # {}
  BY <1>0
<1>2. PICK n \in N : \A y \in N : n <= y
  <2> HIDE DEF N
  <2> QED
    BY <1>1, Least
<1>3. PICK m \in S : n = u - m
  BY <1>2
<1>4. ASSUME NEW x \in S PROVE x <= m
  <2>1. u - x \in N
    OBVIOUS
  <2>2. u - m <= u - x
    BY <1>2, <1>3, <2>1
  <2> QED
    BY <2>2
<1> QED
  BY <1>4, MaxIs

-----------------------------------------------------------------------------
(***************************************************************************)
(* The tree: every cell has leaves below it, and the particles of a cell   *)
(* that is split are those of its progeny.                                 *)
(***************************************************************************)
LEMMA Sizes ==
  ASSUME NEW c \in Cell
  PROVE  /\ Cardinality(Under(c)) \in Nat /\ Cardinality(Ancestors[c]) \in Nat
         /\ IsFiniteSet(Under(c)) /\ IsFiniteSet(Ancestors[c])
<1>1. Under(c) \subseteq Cell /\ Ancestors[c] \subseteq Cell
  BY AncestorAssumption DEF Under
<1>2. IsFiniteSet(Under(c)) /\ IsFiniteSet(Ancestors[c])
  BY <1>1, FS_Subset, AncestorAssumption
<1> QED
  BY <1>2, FS_CardinalityType

LEMMA Smaller ==
  ASSUME NEW S, IsFiniteSet(S), NEW U \in SUBSET S, NEW x \in S, x \notin U
  PROVE  Cardinality(U) < Cardinality(S)
<1>1. /\ IsFiniteSet(U) /\ Cardinality(U) <= Cardinality(S)
      /\ Cardinality(U) = Cardinality(S) => U = S
  BY FS_Subset
<1>2. Cardinality(U) \in Nat /\ Cardinality(S) \in Nat
  BY <1>1, FS_CardinalityType
<1> QED
  BY <1>1, <1>2

LEMMA SelfAbove ==
  ASSUME NEW c \in Cell
  PROVE  c \in Ancestors[c] /\ c \in Under(c) /\ Ancestors[c] \subseteq Cell
  BY AncestorAssumption DEF Under

LEMMA ProgenyOf ==
  ASSUME NEW c \in Cell, NEW d \in Progeny(c)
  PROVE  /\ d \in Cell /\ d # c /\ d \in Under(c)
         /\ Ancestors[d] = {d} \cup Ancestors[c]
<1>1. d \in Cell /\ d \notin Top /\ Parent[d] = c
  BY DEF Progeny
<1>2. d # c
  BY <1>1 DEF Top
<1>3. Ancestors[d] = {d} \cup Ancestors[c]
  BY <1>1, AncestorAssumption
<1> QED
  BY <1>1, <1>2, <1>3, SelfAbove DEF Under

(* Some cell of B has no progeny in B. *)
LEMMA LowestCell ==
  ASSUME NEW B \in SUBSET Cell, B # {}
  PROVE  \E c \in B : \A d \in Progeny(c) : d \notin B
<1> DEFINE S == {Cardinality(Under(c)) : c \in B}
<1>1. S \in SUBSET Nat /\ S # {}
  BY Sizes
<1>2. PICK x \in S : \A y \in S : x <= y
  <2> HIDE DEF S
  <2> QED
    BY <1>1, Least
<1>3. PICK c \in B : x = Cardinality(Under(c))
  BY <1>2
<1>4. ASSUME NEW d \in Progeny(c), d \in B PROVE FALSE
  <2>1. d \in Cell /\ d # c /\ Ancestors[d] = {d} \cup Ancestors[c]
    BY ProgenyOf
  <2>2. c \in Ancestors[c] /\ c \in Ancestors[d]
    BY <2>1, SelfAbove
  <2>3. Under(d) \subseteq Under(c)
    BY <2>1, <2>2, AncestorAssumption DEF Under
  <2>4. c \in Under(c) /\ c \notin Under(d)
    BY <2>1, <2>2, AncestorAssumption DEF Under
  <2>5. Cardinality(Under(d)) < Cardinality(Under(c))
    BY <2>3, <2>4, Sizes, Smaller
  <2>6. Cardinality(Under(d)) \in S
    BY <1>4
  <2>7. x <= Cardinality(Under(d))
    BY <1>2, <2>6
  <2> QED
    BY <1>3, <2>1, <2>5, <2>7, Sizes
<1> QED
  BY <1>4

(* On the way up from l to c one comes through a progeny of c. *)
LEMMA ChildOnTheWay ==
  ASSUME NEW l \in Cell, NEW c \in Ancestors[l], c # l
  PROVE  \E d \in Progeny(c) : d \in Ancestors[l]
<1>0. c \in Cell /\ Ancestors[l] \subseteq Cell
  BY AncestorAssumption
<1> DEFINE B == {e \in Ancestors[l] : e # c /\ c \in Ancestors[e]}
           S == {Cardinality(Ancestors[e]) : e \in B}
<1>1. S \in SUBSET Nat /\ S # {}
  <2>1. l \in B
    BY SelfAbove
  <2> QED
    BY <2>1, <1>0, Sizes
<1>2. PICK x \in S : \A y \in S : x <= y
  <2> HIDE DEF S
  <2> QED
    BY <1>1, Least
<1>3. PICK e \in B : x = Cardinality(Ancestors[e])
  BY <1>2
<1>4. e \in Cell /\ e \in Ancestors[l] /\ e # c /\ c \in Ancestors[e]
  BY <1>0, <1>3
<1>5. e \notin Top
  BY <1>4, AncestorAssumption
<1>6. Ancestors[e] = {e} \cup Ancestors[Parent[e]] /\ Parent[e] \in Cell /\ Parent[e] # e
  BY <1>4, <1>5, AncestorAssumption DEF Top
<1>7. CASE Parent[e] = c
  BY <1>4, <1>5, <1>7 DEF Progeny
<1>8. CASE Parent[e] # c
  <2>1. Parent[e] \in Ancestors[Parent[e]] /\ Parent[e] \in Ancestors[e]
    BY <1>6, SelfAbove
  <2>2. Parent[e] \in Ancestors[l]
    BY <2>1, <1>4, AncestorAssumption
  <2>3. Parent[e] \in B
    BY <2>2, <1>8, <1>4, <1>6
  <2>4. e \notin Ancestors[Parent[e]]
    BY <2>1, <1>4, <1>6, AncestorAssumption
  <2>5. Cardinality(Ancestors[Parent[e]]) < Cardinality(Ancestors[e])
    BY <2>4, <1>4, <1>6, Sizes, Smaller
  <2>6. x <= Cardinality(Ancestors[Parent[e]])
    BY <2>3, <1>2
  <2> QED
    BY <2>5, <2>6, <1>3, <1>4, <1>6, Sizes
<1> QED
  BY <1>7, <1>8

LEMMA LeafBelow ==
  ASSUME NEW c \in Cell
  PROVE  \E l \in Leaf : c \in Ancestors[l]
<1>1. Under(c) \in SUBSET Cell /\ Under(c) # {}
  BY SelfAbove DEF Under
<1>2. PICK l \in Under(c) : \A d \in Progeny(l) : d \notin Under(c)
  BY <1>1, LowestCell
<1>3. l \in Cell /\ c \in Ancestors[l]
  BY <1>2 DEF Under
<1>4. \A d \in Progeny(l) : d \in Cell /\ c \in Ancestors[d]
  BY <1>3, ProgenyOf
<1>5. Progeny(l) = {}
  BY <1>2, <1>4 DEF Under
<1> QED
  BY <1>3, <1>5 DEF Leaf

LEMMA PartsInCell ==
  ASSUME cell_of \in Layouts, NEW c \in Cell
  PROVE  /\ PartsIn(c) # {}
         /\ c \in Leaf => \A p \in PartsIn(c) : cell_of[p] = c
         /\ c \notin Leaf => /\ \A p \in PartsIn(c) : \E d \in Progeny(c) : p \in PartsIn(d)
                             /\ \A d \in Progeny(c) : PartsIn(d) \subseteq PartsIn(c)
<1>1. cell_of \in [Part -> Leaf] /\ \A l \in Leaf : \E p \in Part : cell_of[p] = l
  BY PartAssumption
<1>2. PartsIn(c) # {}
  BY <1>1, LeafBelow DEF PartsIn
<1>3. ASSUME NEW p \in PartsIn(c), cell_of[p] # c
      PROVE  \E d \in Progeny(c) : p \in PartsIn(d)
  <2>1. p \in Part /\ cell_of[p] \in Cell /\ c \in Ancestors[cell_of[p]]
    BY <1>1 DEF PartsIn, Leaf
  <2> QED
    BY <2>1, <1>3, ChildOnTheWay DEF PartsIn
<1>4. c \in Leaf => \A p \in PartsIn(c) : cell_of[p] = c
  BY <1>3 DEF Leaf
<1>5. ASSUME c \notin Leaf, NEW p \in PartsIn(c)
      PROVE  \E d \in Progeny(c) : p \in PartsIn(d)
  BY <1>1, <1>3, <1>5 DEF PartsIn
<1>6. ASSUME NEW d \in Progeny(c), NEW p \in PartsIn(d)
      PROVE  p \in PartsIn(c)
  <2>1. d \in Cell /\ c \in Ancestors[d] /\ p \in Part /\ cell_of[p] \in Cell
        /\ d \in Ancestors[cell_of[p]]
    BY <1>1, ProgenyOf, SelfAbove DEF PartsIn, Leaf
  <2> QED
    BY <2>1, AncestorAssumption DEF PartsIn
<1> QED
  BY <1>2, <1>4, <1>5, <1>6

(* The top-level cell above a cell. *)
LEMMA OneTop ==
  ASSUME NEW c \in Cell, NEW t \in Top, t \in Ancestors[c]
  PROVE  TopOf(c) = t
<1>1. TopOf(c) \in Top /\ TopOf(c) \in Ancestors[c]
  BY DEF TopOf
<1>2. TopOf(c) \in Ancestors[t] \/ t \in Ancestors[TopOf(c)]
  BY <1>1, AncestorAssumption
<1>3. Ancestors[t] = {t} /\ Ancestors[TopOf(c)] = {TopOf(c)}
  BY <1>1, AncestorAssumption DEF Top
<1> QED
  BY <1>2, <1>3

LEMMA TopAbove ==
  ASSUME NEW c \in Cell
  PROVE  /\ TopOf(c) \in Top /\ TopOf(c) \in Ancestors[c]
         /\ \A d \in Ancestors[c] : TopOf(d) = TopOf(c)
<1>1. TopOf(c) \in Top /\ TopOf(c) \in Ancestors[c]
  BY AncestorAssumption DEF TopOf
<1>2. ASSUME NEW d \in Ancestors[c]
      PROVE  TopOf(d) = TopOf(c)
  <2>1. d \in Cell /\ Top \cap Ancestors[d] # {}
    BY AncestorAssumption
  <2>2. PICK t \in Top : t \in Ancestors[d]
    BY <2>1
  <2>3. t \in Ancestors[c]
    BY <2>2, AncestorAssumption
  <2> QED
    BY <2>1, <2>2, <2>3, OneTop
<1> QED
  BY <1>1, <1>2

(* The super-cell of a particle. *)
Home(p) == SuperOf(cell_of[p])

LEMMA HomeOf ==
  ASSUME cell_of \in Layouts, NEW p \in Part
  PROVE  /\ cell_of[p] \in Leaf /\ cell_of[p] \in Cell
         /\ Home(p) \in Super /\ Home(p) \in Cell /\ p \in PartsIn(Home(p))
         /\ \A s \in Super : p \in PartsIn(s) => s = Home(p)
<1>1. cell_of[p] \in Leaf /\ cell_of[p] \in Cell
  BY PartAssumption DEF Leaf
<1>2. PICK s \in Super : s \in Ancestors[cell_of[p]]
  BY <1>1, SuperAssumption
<1>3. Home(p) = s
  BY <1>1, <1>2, OneSuper DEF Home
<1>4. \A r \in Super : p \in PartsIn(r) => r = Home(p)
  BY <1>1, OneSuper DEF Home, PartsIn
<1> QED
  BY <1>1, <1>2, <1>3, <1>4, SuperAssumption DEF PartsIn

-----------------------------------------------------------------------------
(***************************************************************************)
(* Spans and what cells make of them.                                      *)
(***************************************************************************)
Bounded(S, u) == \A x \in S : x.end \in Nat /\ x.beg \in Int /\ x.beg <= u

LEMMA SpanParts ==
  ASSUME NEW e, NEW b
  PROVE  Span(e, b).end = e /\ Span(e, b).beg = b
  BY DEF Span

LEMMA JoinFacts ==
  ASSUME NEW S, NEW u \in Nat, Bounded(S, u)
  PROVE  /\ JoinSpans(S) = Span(JoinSpans(S).end, JoinSpans(S).beg)
         /\ JoinSpans(S).end \in Nat /\ JoinSpans(S).end <= max_nr_timesteps
         /\ JoinSpans(S).beg \in Nat /\ JoinSpans(S).beg <= u
         /\ \A x \in S : JoinSpans(S).end <= x.end /\ x.beg <= JoinSpans(S).beg
         /\ JoinSpans(S).end = max_nr_timesteps \/ \E x \in S : JoinSpans(S).end = x.end
         /\ JoinSpans(S).beg = 0 \/ \E x \in S : JoinSpans(S).beg = x.beg
<1> DEFINE E == {x.end : x \in S} \cup {max_nr_timesteps}
           B == {x.beg : x \in S} \cup {0}
<1>1. max_nr_timesteps \in Nat
  BY Longest, Timestep1
<1>2. JoinSpans(S) = Span(Min(E), Max(B))
  BY DEF JoinSpans
<1>3. JoinSpans(S).end = Min(E) /\ JoinSpans(S).beg = Max(B)
  BY <1>2, SpanParts
<1>4. E \in SUBSET Int /\ E # {} /\ \A x \in E : 0 <= x
  BY <1>1 DEF Bounded
<1>5. B \in SUBSET Int /\ B # {} /\ \A x \in B : x <= u
  BY DEF Bounded
<1>6. /\ max_nr_timesteps \in E /\ 0 \in B
      /\ \A x \in S : x.end \in E /\ x.beg \in B
      /\ \A y \in E : y = max_nr_timesteps \/ \E x \in S : y = x.end
      /\ \A y \in B : y = 0 \/ \E x \in S : y = x.beg
  OBVIOUS
<1> HIDE DEF E, B
<1>7. Min(E) \in E /\ \A x \in E : Min(E) <= x
  BY <1>4, MinOf
<1>8. Max(B) \in B /\ \A x \in B : x <= Max(B)
  BY <1>5, MaxOf
<1>9. Min(E) \in Nat /\ Max(B) \in Nat /\ Max(B) <= u
  <2>1. Min(E) \in Int /\ 0 <= Min(E)
    BY <1>4, <1>7
  <2>2. Max(B) \in Int /\ Max(B) <= u /\ 0 <= Max(B)
    BY <1>5, <1>6, <1>8
  <2> QED
    BY <2>1, <2>2
<1> QED
  BY <1>2, <1>3, <1>6, <1>7, <1>8, <1>9

(* The spans of R end and begin no earlier or later than some of S. *)
Covers(S, R) ==
  \A x \in R : /\ max_nr_timesteps <= x.end \/ \E y \in S : y.end <= x.end
               /\ x.beg <= 0 \/ \E y \in S : x.beg <= y.beg

LEMMA JoinCovers ==
  ASSUME NEW S, NEW R, NEW u \in Nat, Bounded(S, u), Bounded(R, u), Covers(S, R)
  PROVE  /\ JoinSpans(S).end <= JoinSpans(R).end
         /\ JoinSpans(R).beg <= JoinSpans(S).beg
<1> DEFINE J == JoinSpans(S)
           K == JoinSpans(R)
<1>1. /\ J.end \in Nat /\ J.end <= max_nr_timesteps /\ J.beg \in Nat
      /\ \A x \in S : J.end <= x.end /\ x.beg <= J.beg
  BY JoinFacts
<1>2. /\ K.end \in Nat /\ K.beg \in Nat
      /\ K.end = max_nr_timesteps \/ \E x \in R : K.end = x.end
      /\ K.beg = 0 \/ \E x \in R : K.beg = x.beg
  BY JoinFacts
<1>3. max_nr_timesteps \in Nat
  BY Longest, Timestep1
<1> HIDE DEF J, K
<1>4. J.end <= K.end
  <2>1. CASE K.end = max_nr_timesteps
    BY <2>1, <1>1
  <2>2. ASSUME NEW x \in R, K.end = x.end PROVE J.end <= K.end
    BY <2>2, <1>1, <1>2, <1>3 DEF Covers, Bounded
  <2> QED
    BY <2>1, <2>2, <1>2
<1>5. K.beg <= J.beg
  <2>1. CASE K.beg = 0
    BY <2>1, <1>1
  <2>2. ASSUME NEW x \in R, K.beg = x.beg PROVE K.beg <= J.beg
    BY <2>2, <1>1, <1>2, <1>3 DEF Covers, Bounded
  <2> QED
    BY <2>1, <2>2, <1>2
<1> QED
  BY <1>4, <1>5 DEF J, K

LEMMA JoinSame ==
  ASSUME NEW S, NEW R, NEW u \in Nat, Bounded(S, u), Bounded(R, u),
         Covers(S, R), Covers(R, S)
  PROVE  JoinSpans(S) = JoinSpans(R)
<1> DEFINE J == JoinSpans(S)
           K == JoinSpans(R)
<1>1. /\ J.end \in Nat /\ J.beg \in Nat /\ J = Span(J.end, J.beg)
      /\ K.end \in Nat /\ K.beg \in Nat /\ K = Span(K.end, K.beg)
  BY JoinFacts
<1>2. J.end <= K.end /\ K.beg <= J.beg /\ K.end <= J.end /\ J.beg <= K.beg
  BY JoinCovers
<1> HIDE DEF J, K
<1>3. J.end = K.end /\ J.beg = K.beg
  BY <1>1, <1>2
<1> QED
  BY <1>1, <1>3 DEF J, K

(***************************************************************************)
(* The recursions over the tree have one solution each.                    *)
(***************************************************************************)
IsAggregate(T, s, span) ==
  T = [c \in Under(s) |->
        IF c \notin Reached(s) THEN times[c]
        ELSE JoinSpans(IF c \in Leaf THEN {span[p] : p \in PartsIn(c)}
                       ELSE {T[d] : d \in Progeny(c)})]

LEMMA ProgenyStayUnder ==
  ASSUME NEW s \in Cell, NEW c \in Under(s), NEW d \in Progeny(c)
  PROVE  d \in Under(s) /\ d \in Cell /\ c \in Cell
  BY ProgenyOf DEF Under

LEMMA AggregatedIs ==
  ASSUME NEW s \in Cell, NEW span, NEW g, IsAggregate(g, s, span)
  PROVE  Aggregated(s, span) = Override(times, g)
<1>1. ASSUME NEW f, IsAggregate(f, s, span), NEW h, IsAggregate(h, s, span)
      PROVE  f = h
  <2> DEFINE B == {c \in Under(s) : f[c] # h[c]}
  <2>1. ASSUME B # {} PROVE FALSE
    <3>1. B \in SUBSET Cell
      BY DEF Under
    <3>2. PICK c \in B : \A d \in Progeny(c) : d \notin B
      BY <2>1, <3>1, LowestCell
    <3>3. c \in Under(s) /\ f[c] # h[c]
      BY <3>2
    <3>4. \A d \in Progeny(c) : f[d] = h[d]
      BY <3>2, <3>3, ProgenyStayUnder
    <3>5. {f[d] : d \in Progeny(c)} = {h[d] : d \in Progeny(c)}
      BY <3>4
    <3> HIDE DEF B
    <3>6. f[c] = IF c \notin Reached(s) THEN times[c]
            ELSE JoinSpans(IF c \in Leaf THEN {span[p] : p \in PartsIn(c)}
                           ELSE {f[d] : d \in Progeny(c)})
      BY <1>1, <3>3, Zenon DEF IsAggregate
    <3>7. h[c] = IF c \notin Reached(s) THEN times[c]
            ELSE JoinSpans(IF c \in Leaf THEN {span[p] : p \in PartsIn(c)}
                           ELSE {h[d] : d \in Progeny(c)})
      BY <1>1, <3>3, Zenon DEF IsAggregate
    <3>8. CASE c \notin Reached(s)
      BY <3>8, <3>3, <3>6, <3>7
    <3>9. CASE c \in Reached(s) /\ c \in Leaf
      BY <3>9, <3>3, <3>6, <3>7
    <3>10. CASE c \in Reached(s) /\ c \notin Leaf
      <4>1. /\ f[c] = JoinSpans({f[d] : d \in Progeny(c)})
            /\ h[c] = JoinSpans({h[d] : d \in Progeny(c)})
        BY <3>10, <3>6, <3>7
      <4> QED
        BY <4>1, <3>3, <3>5
    <3> QED
      BY <3>8, <3>9, <3>10
  <2>2. \A c \in Under(s) : f[c] = h[c]
    BY <2>1
  <2>3. /\ f = [c \in Under(s) |-> f[c]] /\ DOMAIN f = Under(s)
        /\ h = [c \in Under(s) |-> h[c]] /\ DOMAIN h = Under(s)
    BY <1>1, Zenon DEF IsAggregate
  <2> QED
    BY <2>2, <2>3
<1>2. IsAggregate(CHOOSE T : IsAggregate(T, s, span), s, span)
  BY Zenon
<1>3. Aggregated(s, span) = Override(times, CHOOSE T : IsAggregate(T, s, span))
  BY Zenon DEF Aggregated, IsAggregate
<1> QED
  BY <1>1, <1>2, <1>3

IsTight(T, s, visited, flag, sub, span) ==
  T = [c \in Under(s) |->
        IF c \in Leaf
        THEN JoinSpans({times[c]} \cup
                  {span[p] : p \in {q \in DOMAIN span : cell_of[q] = c}})
        ELSE IF c \in visited /\ Entered(c, s, flag, sub)
             THEN JoinSpans({times[c]} \cup {T[d] : d \in Progeny(c)})
             ELSE times[c]]

LEMMA TightenedIs ==
  ASSUME NEW s \in Cell, NEW vis, NEW flag, NEW sub, NEW span, NEW g,
         IsTight(g, s, vis, flag, sub, span)
  PROVE  Tightened(s, vis, flag, sub, span) = Override(times, g)
<1>1. ASSUME NEW f, IsTight(f, s, vis, flag, sub, span),
             NEW h, IsTight(h, s, vis, flag, sub, span)
      PROVE  f = h
  <2> DEFINE B == {c \in Under(s) : f[c] # h[c]}
  <2>1. ASSUME B # {} PROVE FALSE
    <3>1. B \in SUBSET Cell
      BY DEF Under
    <3>2. PICK c \in B : \A d \in Progeny(c) : d \notin B
      BY <2>1, <3>1, LowestCell
    <3>3. c \in Under(s) /\ f[c] # h[c]
      BY <3>2
    <3>4. \A d \in Progeny(c) : f[d] = h[d]
      BY <3>2, <3>3, ProgenyStayUnder
    <3>5. {times[c]} \cup {f[d] : d \in Progeny(c)} = {times[c]} \cup {h[d] : d \in Progeny(c)}
      BY <3>4
    <3> HIDE DEF B
    <3>6. f[c] = IF c \in Leaf
            THEN JoinSpans({times[c]} \cup
                      {span[p] : p \in {q \in DOMAIN span : cell_of[q] = c}})
            ELSE IF c \in vis /\ Entered(c, s, flag, sub)
                 THEN JoinSpans({times[c]} \cup {f[d] : d \in Progeny(c)})
                 ELSE times[c]
      BY <1>1, <3>3, Zenon DEF IsTight
    <3>7. h[c] = IF c \in Leaf
            THEN JoinSpans({times[c]} \cup
                      {span[p] : p \in {q \in DOMAIN span : cell_of[q] = c}})
            ELSE IF c \in vis /\ Entered(c, s, flag, sub)
                 THEN JoinSpans({times[c]} \cup {h[d] : d \in Progeny(c)})
                 ELSE times[c]
      BY <1>1, <3>3, Zenon DEF IsTight
    <3> QED
      BY <3>3, <3>5, <3>6, <3>7
  <2>2. \A c \in Under(s) : f[c] = h[c]
    BY <2>1
  <2>3. /\ f = [c \in Under(s) |-> f[c]] /\ DOMAIN f = Under(s)
        /\ h = [c \in Under(s) |-> h[c]] /\ DOMAIN h = Under(s)
    BY <1>1, Zenon DEF IsTight
  <2> QED
    BY <2>2, <2>3
<1>2. IsTight(CHOOSE T : IsTight(T, s, vis, flag, sub, span), s, vis, flag, sub, span)
  BY Zenon
<1>3. Tightened(s, vis, flag, sub, span)
        = Override(times, CHOOSE T : IsTight(T, s, vis, flag, sub, span))
  BY Zenon DEF Tightened, IsTight
<1> QED
  BY <1>1, <1>2, <1>3

IsCollection(T, t) ==
  T = [c \in Under(t) |-> IF Super \cap Ancestors[c] # {} THEN times[c]
                          ELSE JoinSpans({T[d] : d \in Progeny(c)})]

LEMMA CollectedIs ==
  ASSUME NEW t \in Cell, NEW g, IsCollection(g, t)
  PROVE  Collected(t) = Override(times, g)
<1>1. ASSUME NEW f, IsCollection(f, t), NEW h, IsCollection(h, t)
      PROVE  f = h
  <2> DEFINE B == {c \in Under(t) : f[c] # h[c]}
  <2>1. ASSUME B # {} PROVE FALSE
    <3>1. B \in SUBSET Cell
      BY DEF Under
    <3>2. PICK c \in B : \A d \in Progeny(c) : d \notin B
      BY <2>1, <3>1, LowestCell
    <3>3. c \in Under(t) /\ f[c] # h[c]
      BY <3>2
    <3>4. \A d \in Progeny(c) : f[d] = h[d]
      BY <3>2, <3>3, ProgenyStayUnder
    <3>5. {f[d] : d \in Progeny(c)} = {h[d] : d \in Progeny(c)}
      BY <3>4
    <3> HIDE DEF B
    <3>6. /\ f[c] = IF Super \cap Ancestors[c] # {} THEN times[c]
                    ELSE JoinSpans({f[d] : d \in Progeny(c)})
          /\ h[c] = IF Super \cap Ancestors[c] # {} THEN times[c]
                    ELSE JoinSpans({h[d] : d \in Progeny(c)})
      BY <1>1, <3>3, Zenon DEF IsCollection
    <3> QED
      BY <3>3, <3>5, <3>6
  <2>2. \A c \in Under(t) : f[c] = h[c]
    BY <2>1
  <2>3. /\ f = [c \in Under(t) |-> f[c]] /\ DOMAIN f = Under(t)
        /\ h = [c \in Under(t) |-> h[c]] /\ DOMAIN h = Under(t)
    BY <1>1, Zenon DEF IsCollection
  <2> QED
    BY <2>2, <2>3
<1>2. IsCollection(CHOOSE T : IsCollection(T, t), t)
  BY Zenon
<1>3. Collected(t) = Override(times, CHOOSE T : IsCollection(T, t))
  BY Zenon DEF Collected, IsCollection
<1> QED
  BY <1>1, <1>2, <1>3

-----------------------------------------------------------------------------
(***************************************************************************)
(* Steps that begin at a time and steps that go on there.                  *)
(***************************************************************************)
LEMMA AtStart ==
  ASSUME NEW t, OnLine(t), NEW b \in Bins, b <= get_max_active_bin(t)
  PROVE  /\ get_integer_time_begin(t + 1, b) = t
         /\ get_integer_time_end(t + 1, b) = t + get_integer_timestep(b)
         /\ get_integer_time_begin(t, b) = t - get_integer_timestep(b)
         /\ get_integer_time_end(t, b) = t
<1> DEFINE d == get_integer_timestep(b)
<1>1. t \in Int /\ d \in Nat \ {0}
  BY Timestep1 DEF OnLine
<1>2. Multiple(t, d)
  BY MaxActive
<1>3. Multiple(t - d, d) /\ t - d \in Int
  <2> HIDE DEF d
  <2>1. Multiple(d, d) /\ d \in Int
    BY <1>1, MultipleSelf
  <2> QED
    BY <1>1, <1>2, <2>1, MultipleSum
<1>4. t < t + 1 /\ t + 1 <= t + d /\ t - d < t /\ t <= (t - d) + d /\ t + 1 \in Int
  BY <1>1
<1>5. (t - d) + d = t
  BY <1>1
<1>6. /\ get_integer_time_begin(t + 1, b) = t
      /\ get_integer_time_end(t + 1, b) = t + d
  BY <1>1, <1>2, <1>4, BeginUnique
<1>7. /\ get_integer_time_begin(t, b) = t - d
      /\ get_integer_time_end(t, b) = (t - d) + d
  BY <1>1, <1>3, <1>4, BeginUnique
<1> QED
  BY <1>5, <1>6, <1>7

LEMMA InMidStep ==
  ASSUME NEW t, OnLine(t), NEW b \in Bins, ~(b <= get_max_active_bin(t))
  PROVE  /\ get_integer_time_begin(t + 1, b) = get_integer_time_begin(t, b)
         /\ get_integer_time_end(t + 1, b) = get_integer_time_end(t, b)
         /\ get_integer_time_begin(t, b) < t
         /\ t < get_integer_time_end(t, b)
<1> DEFINE d == get_integer_timestep(b)
           B == get_integer_time_begin(t, b)
<1>1. t \in Int /\ d \in Nat \ {0}
  BY Timestep1 DEF OnLine
<1>2. ~Multiple(t, d)
  BY MaxActive
<1>3. /\ B \in Int /\ Multiple(B, d) /\ B < t /\ t <= B + d
      /\ get_integer_time_end(t, b) = B + d
  BY <1>1, BeginEnd
<1>4. Multiple(B + d, d)
  BY <1>1, <1>3, MultipleSum, MultipleSelf
<1> HIDE DEF B
<1>5. t # B + d
  BY <1>2, <1>4
<1>6. B < t + 1 /\ t + 1 <= B + d /\ t < B + d /\ t + 1 \in Int
  BY <1>1, <1>3, <1>5
<1>7. /\ get_integer_time_begin(t + 1, b) = B
      /\ get_integer_time_end(t + 1, b) = B + d
  BY <1>3, <1>6, BeginUnique
<1> QED
  BY <1>3, <1>6, <1>7 DEF B

LEMMA NoStep ==
  ASSUME NEW t
  PROVE  /\ get_integer_timestep(0) = 0 /\ get_integer_timestep(-1) = 0
         /\ get_integer_time_begin(t, 0) = 0 /\ get_integer_time_end(t, 0) = 0
         /\ get_integer_time_end(t, -1) = 0
         /\ get_integer_timestep(0) \div 2 = 0
<1>1. get_integer_timestep(0) = 0 /\ get_integer_timestep(-1) = 0
  BY DEF get_integer_timestep
<1> QED
  BY <1>1 DEF get_integer_time_begin, get_integer_time_end

(***************************************************************************)
(* make_integer_timestep gives a step of the time line, which begins at    *)
(* the current time if the old one ended there.                            *)
(***************************************************************************)
LEMMA NewStep ==
  ASSUME OnLine(ti_current), NEW old \in -1 .. NumBins, NEW wish \in Bins,
         NEW m \in 1 .. NumBins + 1,
         old >= 1 => old <= max_active_bin
  PROVE  \E b \in Bins : /\ make_integer_timestep(wish, old, m) = get_integer_timestep(b)
                         /\ old >= 1 => b <= max_active_bin
<1> DEFINE current == get_integer_timestep(old)
           ti_end  == get_integer_time_end(ti_current, old)
           ab      == Min({wish, m + NeighbourMaxDeltaBin})
           allowed == get_integer_timestep(ab)
           new     == IF old > 0 THEN Min({allowed, 2 * current}) ELSE allowed
           result  == IF new > current /\ (max_nr_timesteps - ti_end) % new > 0 THEN current
                      ELSE new
<1>1. make_integer_timestep(wish, old, m) = result
  BY DEF make_integer_timestep
<1>2. ab \in Bins
  <2> DEFINE S == {wish, m + NeighbourMaxDeltaBin}
  <2>1. S \in SUBSET Int /\ S # {} /\ \A x \in S : 1 <= x
    BY DEF Bins, NeighbourMaxDeltaBin
  <2>2. wish \in S
    OBVIOUS
  <2> HIDE DEF S
  <2>3. Min(S) \in S /\ Min(S) <= wish
    BY <2>1, <2>2, MinOf
  <2>4. Min(S) \in Int /\ 1 <= Min(S)
    BY <2>1, <2>3
  <2> QED
    <3>1. wish \in Int /\ wish <= NumBins /\ NumBins \in Nat
      BY BinAssumption DEF Bins
    <3>2. Min(S) \in Bins
      BY <2>3, <2>4, <3>1 DEF Bins
    <3> QED
      BY <3>2 DEF S
<1>3. allowed \in Nat \ {0} /\ Multiple(max_nr_timesteps, allowed) /\ max_nr_timesteps \in Nat
  <2> HIDE DEF ab
  <2>1. ab <= NumBins
    BY <1>2 DEF Bins
  <2> QED
    BY <1>2, <2>1, Timestep1, Timestep2, Longest
<1>4. CASE old <= 0
  <2>1. current = 0 /\ ti_end = 0 /\ new = allowed
    <3>1. old = 0 \/ old = -1
      BY <1>4
    <3> QED
      BY <3>1, NoStep
  <2> HIDE DEF current, ti_end, ab, allowed, new
  <2>2. max_nr_timesteps - 0 = max_nr_timesteps
    BY <1>3
  <2>3. (max_nr_timesteps - ti_end) % new = 0
    BY <1>3, <2>1, <2>2, ModMultiple
  <2>4. result = get_integer_timestep(ab)
    BY <2>1, <2>3 DEF allowed
  <2>5. ~(old >= 1)
    BY <1>4
  <2> QED
    BY <1>1, <1>2, <2>4, <2>5
<1>5. CASE old \in Bins
  <2>1. current \in Nat \ {0} /\ old <= max_active_bin /\ old > 0
    BY <1>5, Timestep1 DEF Bins
  <2>2. ti_end = ti_current /\ ti_current \in Nat
    BY <1>5, <2>1, AtStart DEF max_active_bin, OnLine
  <2> HIDE DEF current, ti_end, ab
  <2>3. new = Min({allowed, 2 * current})
    BY <2>1
  <2> HIDE DEF new
  <2>4. (new = allowed /\ allowed <= 2 * current) \/ (new = 2 * current /\ 2 * current <= allowed)
    <3>1. {allowed, 2 * current} \in SUBSET Int
      BY <1>3, <2>1
    <3>2. CASE allowed <= 2 * current
      <4>1. \A x \in {allowed, 2 * current} : allowed <= x
        BY <3>2, <1>3
      <4> QED
        BY <3>1, <3>2, <4>1, <2>3, MinIs
    <3>3. CASE 2 * current <= allowed
      <4>1. \A x \in {allowed, 2 * current} : 2 * current <= x
        BY <3>3, <2>1
      <4> QED
        BY <3>1, <3>3, <4>1, <2>3, MinIs
    <3> QED
      BY <3>2, <3>3, <1>3, <2>1
  <2>5. PICK nb \in Bins : new = get_integer_timestep(nb)
    <3>1. CASE new = allowed
      BY <3>1, <1>2
    <3>2. CASE new = 2 * current /\ 2 * current <= allowed
      <4>1. get_integer_timestep(old) < get_integer_timestep(ab)
        BY <3>2, <2>1, <1>3 DEF current
      <4>2. old < ab
        BY <4>1, <1>2, <1>5, BinsComparable
      <4>3. old + 1 \in Bins /\ (old + 1) + 1 \in Exponents /\ (old + 1) + 1 # 0
            /\ ((old + 1) + 1) - 1 = old + 1
        BY <4>2, <1>2, <1>5, BinAssumption DEF Bins, Exponents
      <4>4. get_integer_timestep(old + 1) = 2 * get_integer_timestep(old)
        BY <4>3, <1>5, Timestep1, PowFacts
      <4> QED
        BY <3>2, <4>3, <4>4 DEF current
    <3> QED
      BY <2>4, <3>1, <3>2
  <2>6. new \in Nat \ {0} /\ Multiple(max_nr_timesteps, new)
    <3>1. nb <= NumBins
      BY DEF Bins
    <3> QED
      BY <2>5, <3>1, Timestep1, Timestep2, Longest
  <2>7. CASE new > current /\ (max_nr_timesteps - ti_end) % new > 0
    <3>1. result = get_integer_timestep(old)
      BY <2>7 DEF current
    <3> QED
      BY <3>1, <1>1, <1>5, <2>1
  <2>8. CASE ~(new > current /\ (max_nr_timesteps - ti_end) % new > 0)
    <3>1. result = new
      BY <2>8
    <3>2. nb <= max_active_bin
      <4>1. CASE ~(new > current)
        <5>1. get_integer_timestep(nb) <= get_integer_timestep(old)
          BY <4>1, <2>1, <2>5, <2>6 DEF current
        <5>2. nb <= old
          BY <5>1, <1>5, BinsComparable
        <5>3. max_active_bin \in Bins
          BY MaxActive DEF max_active_bin
        <5> QED
          BY <5>2, <5>3, <2>1, <1>5 DEF Bins
      <4>2. CASE ~((max_nr_timesteps - ti_end) % new > 0)
        <5>1. max_nr_timesteps - ti_current \in Int
          BY <1>3, <2>2
        <5>2. (max_nr_timesteps - ti_current) % new = 0
          BY <4>2, <5>1, <2>2, <2>6, DivMod
        <5>3. Multiple(max_nr_timesteps - ti_current, new)
          BY <5>1, <5>2, <2>6, ModMultiple
        <5>4. Multiple(max_nr_timesteps - (max_nr_timesteps - ti_current), new)
          BY <5>1, <5>3, <2>6, <1>3, MultipleSum
        <5>5. max_nr_timesteps - (max_nr_timesteps - ti_current) = ti_current
          BY <1>3, <2>2
        <5> QED
          BY <5>4, <5>5, <2>5, MaxActive DEF max_active_bin
      <4> QED
        BY <2>8, <4>1, <4>2
    <3> QED
      BY <1>1, <2>5, <3>1, <3>2
  <2> QED
    BY <2>7, <2>8
<1>6. old <= 0 \/ old \in Bins
  BY DEF Bins
<1> QED
  BY <1>4, <1>5, <1>6

-----------------------------------------------------------------------------
(***************************************************************************)
(* The steps of the particles under a cell: around t, or, with t + 1 for   *)
(* t, those that begin at t or go on there.                                *)
(***************************************************************************)
AllBins == 0 .. NumBins

StepSpan(t, b) == Span(get_integer_time_end(t, b), get_integer_time_begin(t, b))

InCell(c, lay) == {p \in Part : c \in Ancestors[lay[p]]}

SpansOf(t, tb, lay, c) == {StepSpan(t, tb[p]) : p \in InCell(c, lay)}

LEMMA StepSpanBounds ==
  ASSUME NEW t \in Nat, NEW b \in AllBins
  PROVE  /\ StepSpan(t, b).end \in Nat /\ StepSpan(t, b).beg \in Int
         /\ StepSpan(t, b).beg <= t
         /\ b \in Bins => t <= StepSpan(t, b).end /\ StepSpan(t, b).beg < t
<1>1. /\ StepSpan(t, b).end = get_integer_time_end(t, b)
      /\ StepSpan(t, b).beg = get_integer_time_begin(t, b)
  BY SpanParts DEF StepSpan
<1>2. CASE b = 0
  BY <1>1, <1>2, NoStep DEF Bins
<1>3. CASE b \in Bins
  BY <1>1, <1>3, BeginEnd, Timestep1
<1> QED
  BY <1>2, <1>3, BinAssumption DEF AllBins, Bins

LEMMA SpansBounded ==
  ASSUME NEW t \in Nat, NEW tb \in [Part -> AllBins], NEW lay, NEW c
  PROVE  /\ Bounded(SpansOf(t, tb, lay, c), t)
         /\ Bounded(SpansOf(t + 1, tb, lay, c), t)
<1>1. Bounded(SpansOf(t, tb, lay, c), t)
  BY StepSpanBounds DEF Bounded, SpansOf, InCell
<1>2. ASSUME NEW b \in AllBins
      PROVE  /\ StepSpan(t + 1, b).end \in Nat /\ StepSpan(t + 1, b).beg \in Int
             /\ StepSpan(t + 1, b).beg <= t
  <2>1. t + 1 \in Nat
    OBVIOUS
  <2>2. CASE b \in Bins
    BY <2>1, <2>2, StepSpanBounds
  <2>3. CASE b = 0
    BY <2>3, NoStep, SpanParts DEF StepSpan
  <2> QED
    BY <2>2, <2>3, BinAssumption DEF AllBins, Bins
<1>3. Bounded(SpansOf(t + 1, tb, lay, c), t)
  BY <1>2 DEF Bounded, SpansOf, InCell
<1> QED
  BY <1>1, <1>3

(* Where a particle's step ends, so does the first step of its cells. *)
LEMMA ActiveEnd ==
  ASSUME NEW t, OnLine(t), NEW tb \in [Part -> AllBins], NEW lay, NEW c,
         NEW p \in InCell(c, lay), tb[p] <= get_max_active_bin(t),
         \A q \in Part : tb[q] = 0 => t = 0
  PROVE  JoinSpans(SpansOf(t, tb, lay, c)).end = t
<1> DEFINE S == SpansOf(t, tb, lay, c)
<1>0. t \in Nat /\ p \in Part /\ tb[p] \in AllBins /\ t <= max_nr_timesteps
      /\ max_nr_timesteps \in Nat
  BY Longest, Timestep1 DEF OnLine, InCell
<1>1. Bounded(S, t)
  BY <1>0, SpansBounded
<1>2. StepSpan(t, tb[p]).end = t
  <2>1. CASE tb[p] = 0
    BY <2>1, <1>0, NoStep, SpanParts DEF StepSpan
  <2>2. CASE tb[p] \in Bins
    BY <2>2, AtStart, SpanParts DEF StepSpan
  <2> QED
    BY <2>1, <2>2, <1>0, BinAssumption DEF AllBins, Bins
<1>3. \A x \in S : t <= x.end
  <2> SUFFICES ASSUME NEW q \in InCell(c, lay) PROVE t <= StepSpan(t, tb[q]).end
    BY DEF SpansOf
  <2>0. q \in Part /\ tb[q] \in AllBins
    BY DEF InCell
  <2>1. CASE tb[q] = 0
    BY <2>0, <2>1, <1>0, NoStep, SpanParts DEF StepSpan
  <2>2. CASE tb[q] \in Bins
    BY <2>0, <2>2, <1>0, StepSpanBounds
  <2> QED
    BY <2>0, <2>1, <2>2, BinAssumption DEF AllBins, Bins
<1>4. StepSpan(t, tb[p]) \in S
  BY DEF SpansOf
<1> HIDE DEF S
<1>5. /\ JoinSpans(S).end \in Nat
      /\ JoinSpans(S).end <= t
      /\ JoinSpans(S).end = max_nr_timesteps \/ \E x \in S : JoinSpans(S).end = x.end
  BY <1>0, <1>1, <1>2, <1>4, JoinFacts
<1>6. JoinSpans(S).end >= t
  BY <1>0, <1>3, <1>5
<1> QED
  BY <1>0, <1>5, <1>6 DEF S

(* Where a particle's step begins, so does the last step of its cells. *)
LEMMA StartBeg ==
  ASSUME NEW t, OnLine(t), NEW tb \in [Part -> AllBins], NEW lay, NEW c,
         NEW p \in InCell(c, lay), tb[p] \in Bins, tb[p] <= get_max_active_bin(t)
  PROVE  JoinSpans(SpansOf(t + 1, tb, lay, c)).beg = t
<1> DEFINE S == SpansOf(t + 1, tb, lay, c)
<1>0. t \in Nat /\ p \in Part
  BY DEF OnLine, InCell
<1>1. Bounded(S, t)
  BY <1>0, SpansBounded
<1>2. StepSpan(t + 1, tb[p]).beg = t
  BY AtStart, SpanParts DEF StepSpan
<1>3. StepSpan(t + 1, tb[p]) \in S
  BY DEF SpansOf
<1> HIDE DEF S
<1>4. /\ JoinSpans(S).beg \in Nat
      /\ JoinSpans(S).beg <= t
      /\ t <= JoinSpans(S).beg
  BY <1>0, <1>1, <1>2, <1>3, JoinFacts
<1> QED
  BY <1>0, <1>4 DEF S

LEMMA SpansSame ==
  ASSUME NEW t, NEW u, NEW tb, NEW ub, NEW lay, NEW c,
         \A p \in InCell(c, lay) : StepSpan(t, tb[p]) = StepSpan(u, ub[p])
  PROVE  SpansOf(t, tb, lay, c) = SpansOf(u, ub, lay, c)
  BY DEF SpansOf

(* A cell in which no step ends. *)
LEMMA SpansInMidStep ==
  ASSUME NEW t, OnLine(t), NEW tb \in [Part -> AllBins], NEW lay, NEW c,
         \A p \in InCell(c, lay) : ~(tb[p] <= get_max_active_bin(t))
  PROVE  SpansOf(t, tb, lay, c) = SpansOf(t + 1, tb, lay, c)
<1>1. get_max_active_bin(t) \in Bins
  BY MaxActive
<1>2. ASSUME NEW p \in InCell(c, lay)
      PROVE  StepSpan(t, tb[p]) = StepSpan(t + 1, tb[p])
  <2>1. tb[p] \in Bins
    BY <1>1 DEF Bins, AllBins, InCell
  <2> QED
    BY <2>1, InMidStep DEF StepSpan
<1> QED
  BY <1>2, SpansSame

-----------------------------------------------------------------------------
(***************************************************************************)
(* The invariant of a step.                                                *)
(***************************************************************************)
Typed ==
  /\ cell_of \in Layouts
  /\ OnLine(ti_current)
  /\ time_bin \in [Part -> AllBins]
  /\ min_ngb_time_bin \in [Part -> 1 .. NumBins + 1]
  /\ DOMAIN ti_kick = Part
  /\ DOMAIN times = Cell

(* Whoever changes bins has kick1 and the collection after it. *)
TodoInv ==
  \A s \in Super :
    /\ <<"kick2", s>> \in todo => <<"timestep", s>> \in todo
    /\ \A k \in {"timestep", "limiter", "sync"} :
          <<k, s>> \in todo => <<"kick1", s>> \in todo /\ <<"collect", TopOf(s)>> \in todo

(* Only before its very first step has a particle no bin; otherwise the    *)
(* engine jumps forward and past no end.                                   *)
BinInv ==
  /\ running => \A p \in Part : time_bin[p] = 0 =>
                  ti_current = 0 /\ <<"timestep", Home(p)>> \in todo
  /\ ~running =>
       \/ ti_current = 0 /\ ti_end_min = 0 /\ \A p \in Part : time_bin[p] = 0
       \/ /\ \A p \in Part : time_bin[p] \in Bins
          /\ ti_current < max_nr_timesteps =>
               /\ OnLine(ti_end_min) /\ ti_current < ti_end_min
               /\ \A p \in Part : ti_end_min <= StepEnd(p)

(* A particle keeps to the limit, or is woken up to be put below it. *)
WakeInv ==
  /\ wakeup \in [Part -> -NumBins .. -1]
  /\ cap \in [Part -> Bins]
  /\ \A p \in Part :
       /\ wakeup[p] = NotAwake => time_bin[p] <= cap[p]
       /\ wakeup[p] # NotAwake => /\ LimitedBin(p) <= cap[p] /\ LimitedBin(p) < time_bin[p]
                                  /\ <<"timestep", Home(p)>> \notin todo
       /\ <<"timestep", Home(p)>> \in todo => cap[p] = NumBins

(* Up to when a particle has been kicked. *)
Half(p) == get_integer_timestep(time_bin[p]) \div 2

KickedTo(p) ==
  IF Active(p) /\ <<"kick2", Home(p)>> \in todo
  THEN get_integer_time_begin(ti_current, time_bin[p]) + Half(p)
  ELSE IF Active(p) /\ <<"kick1", Home(p)>> \in todo THEN ti_current
       ELSE StepBegin(p) + Half(p)

KickInv == ~torn /\ \A p \in Part : ti_kick[p] = KickedTo(p)

(* What the cells know: of the steps that end now until their super-cell's *)
(* timestep has run, of those that begin now afterwards.                   *)
PreExact(c) == times[c] = JoinSpans(SpansOf(ti_current, time_bin, cell_of, c))

PostExact(c) == times[c] = JoinSpans(SpansOf(ti_current + 1, time_bin, cell_of, c))

CellInv ==
  /\ \A s \in Super : \A c \in Under(s) :
       IF <<"timestep", s>> \in todo THEN PreExact(c) ELSE PostExact(c)
  /\ \A c \in Cell \ Tasked : <<"collect", TopOf(c)>> \notin todo => PostExact(c)

StepInv == Typed /\ TodoInv /\ BinInv /\ WakeInv /\ KickInv /\ CellInv

LEMMA InCellParts == \A c : InCell(c, cell_of) = PartsIn(c)
  BY DEF InCell, PartsIn

LEMMA StepInit ==
  ASSUME Init
  PROVE  StepInv
<1>0. /\ 0 \in AllBins /\ NumBins \in Bins /\ NumBins + 1 \in 1 .. NumBins + 1
      /\ NumBins \in Nat
  BY BinAssumption DEF AllBins, Bins
<1>1. Typed
  <2>1. 1 \in Bins
    BY BinAssumption DEF Bins
  <2>2. OnLine(0)
    BY <2>1, MultipleSelf, Timestep1, Longest DEF OnLine
  <2> QED
    BY <1>0, <2>2 DEF Init, Typed
<1>2. TodoInv
  BY DEF Init, TodoInv
<1>3. BinInv
  BY DEF Init, BinInv
<1>4. WakeInv
  BY <1>0, BinAssumption DEF Init, WakeInv, NotAwake
<1>5. KickInv
  <2> SUFFICES ASSUME NEW p \in Part PROVE ti_kick[p] = KickedTo(p)
    BY DEF Init, KickInv
  <2>1. StepBegin(p) = 0 /\ Half(p) = 0
    BY NoStep DEF Init, StepBegin, Half
  <2> QED
    BY <2>1 DEF Init, KickedTo
<1>6. ASSUME NEW c \in Cell PROVE PostExact(c)
  <2> DEFINE S == SpansOf(1, time_bin, cell_of, c)
  <2>1. PICK p : p \in InCell(c, cell_of)
    BY PartsInCell, InCellParts, <1>1 DEF Typed
  <2>2. \A q \in InCell(c, cell_of) : StepSpan(1, time_bin[q]) = Span(0, 0)
    BY NoStep DEF Init, StepSpan, InCell
  <2>3. S = {Span(0, 0)}
    BY <2>1, <2>2 DEF SpansOf
  <2>4. Bounded(S, 0)
    BY <2>3, SpanParts DEF Bounded
  <2> HIDE DEF S
  <2>5. /\ JoinSpans(S) = Span(JoinSpans(S).end, JoinSpans(S).beg)
        /\ JoinSpans(S).end \in Nat /\ JoinSpans(S).beg \in Nat
        /\ JoinSpans(S).beg <= 0 /\ JoinSpans(S).end <= 0
    BY <2>3, <2>4, JoinFacts, SpanParts
  <2>6. JoinSpans(S) = Span(0, 0)
    BY <2>5
  <2>7. 0 + 1 = 1
    OBVIOUS
  <2> QED
    BY <2>6, <2>7 DEF Init, PostExact, S
<1>7. CellInv
  BY <1>6 DEF Init, CellInv, Under
<1> QED
  BY <1>1, <1>2, <1>3, <1>4, <1>5, <1>7 DEF StepInv

-----------------------------------------------------------------------------
(***************************************************************************)
(* StepInv is an invariant.  First the beginning of a step: what is in     *)
(* todo then.                                                              *)
(***************************************************************************)
LEMMA Unskipped ==
  ASSUME NEW ti, NEW T, NEW F \in SUBSET StarPairs,
         Unskip(ti, T, F, do_limiter, do_sub_limiter, do_sync, do_sub_sync)
         \/ Unskip(ti, T, F, {}, {}, {}, {})
  PROVE  /\ TodoInv'
         /\ \A s \in Super : (\A d \in Ancestors[s] : T[d].end = ti) =>
              {<<"kick2", s>>, <<"timestep", s>>} \subseteq todo'
<1> DEFINE visited == {c \in Cell : \A d \in Ancestors[c] : T[d].end = ti}
           active == Super \cap visited
<1>1. PICK L, Y, loops :
       todo' = {<<"loop", t>> : t \in loops}
                     \cup {<<"kick2", s>> : s \in active}
                     \cup WithKick1AndCollect("timestep", active)
                     \cup WithKick1AndCollect("limiter", L.supers)
                     \cup WithKick1AndCollect("sync", Y.supers)
                     \cup {<<"feedback", f>> : f \in F}
  BY Zenon DEF Unskip
<1> HIDE DEF active
<1>2. TodoInv'
  <2> SUFFICES ASSUME NEW s \in Super
               PROVE  /\ <<"kick2", s>> \in todo' => <<"timestep", s>> \in todo'
                      /\ \A k \in {"timestep", "limiter", "sync"} : <<k, s>> \in todo' =>
                           <<"kick1", s>> \in todo' /\ <<"collect", TopOf(s)>> \in todo'
    BY DEF TodoInv
  <2>1. <<"kick2", s>> \in todo' => s \in active
    BY <1>1 DEF WithKick1AndCollect
  <2>2. s \in active => <<"timestep", s>> \in todo'
    BY <1>1 DEF WithKick1AndCollect
  <2>3. /\ <<"timestep", s>> \in todo' => s \in active
        /\ <<"limiter", s>> \in todo' => s \in L.supers
        /\ <<"sync", s>> \in todo' => s \in Y.supers
    BY <1>1 DEF WithKick1AndCollect
  <2>4. ASSUME NEW k, NEW S, WithKick1AndCollect(k, S) \subseteq todo', s \in S
        PROVE  <<"kick1", s>> \in todo' /\ <<"collect", TopOf(s)>> \in todo'
    BY <2>4 DEF WithKick1AndCollect
  <2>5. /\ WithKick1AndCollect("timestep", active) \subseteq todo'
        /\ WithKick1AndCollect("limiter", L.supers) \subseteq todo'
        /\ WithKick1AndCollect("sync", Y.supers) \subseteq todo'
    BY <1>1
  <2> QED
    BY <2>1, <2>2, <2>3, <2>4, <2>5
<1>3. ASSUME NEW s \in Super, \A d \in Ancestors[s] : T[d].end = ti
      PROVE  {<<"kick2", s>>, <<"timestep", s>>} \subseteq todo'
  <2>1. s \in active
    BY <1>3, SuperAssumption DEF active
  <2> QED
    BY <1>1, <2>1 DEF WithKick1AndCollect
<1> QED
  BY <1>2, <1>3

(* The time the engine jumps to is on the time line, and lies where the    *)
(* steps the particles are in still reach.                                 *)
LEMMA JumpedTo ==
  ASSUME StepInv, ~running, ti_current < max_nr_timesteps
  PROVE  /\ OnLine(ti_end_min)
         /\ \A p \in Part : time_bin[p] = 0 => ti_end_min = 0
         /\ \A p \in Part : StepSpan(ti_current + 1, time_bin[p])
                              = StepSpan(ti_end_min, time_bin[p])
<1>1. CASE ti_current = 0 /\ ti_end_min = 0 /\ \A p \in Part : time_bin[p] = 0
  BY <1>1, NoStep DEF StepInv, Typed, StepSpan
<1>2. CASE /\ \A p \in Part : time_bin[p] \in Bins
           /\ OnLine(ti_end_min) /\ ti_current < ti_end_min
           /\ \A p \in Part : ti_end_min <= StepEnd(p)
  <2>1. ASSUME NEW p \in Part
        PROVE  StepSpan(ti_current + 1, time_bin[p]) = StepSpan(ti_end_min, time_bin[p])
    <3> DEFINE b == time_bin[p]
               y == get_integer_time_begin(ti_current + 1, b)
               d == get_integer_timestep(b)
    <3>1. b \in Bins /\ d \in Nat \ {0} /\ ti_current \in Nat /\ ti_end_min \in Nat
      BY <1>2, Timestep1 DEF OnLine, StepInv, Typed
    <3>2. /\ y \in Int /\ Multiple(y, d) /\ y < ti_current + 1
          /\ get_integer_time_end(ti_current + 1, b) = y + d
      BY <3>1, BeginEnd
    <3>3. ti_end_min <= y + d
      BY <3>2, <1>2 DEF StepEnd
    <3>4. y < ti_end_min
      BY <3>1, <3>2, <1>2
    <3>5. /\ get_integer_time_begin(ti_end_min, b) = y
          /\ get_integer_time_end(ti_end_min, b) = y + d
      BY <3>1, <3>2, <3>3, <3>4, BeginUnique
    <3> QED
      BY <3>2, <3>5 DEF StepSpan
  <2>2. \A p \in Part : time_bin[p] # 0
    BY <1>2 DEF Bins
  <2> QED
    BY <1>2, <2>1, <2>2
<1> QED
  BY <1>1, <1>2 DEF StepInv, BinInv

LEMMA MinNgbBinType ==
  ASSUME Typed, NEW p
  PROVE  MinNgbBin(p) \in 1 .. NumBins + 1
<1> DEFINE S == {NumBins + 1} \cup {b \in {time_bin[q] : q \in {r \in Part :
                   <<p, r>> \in Ngb \/ <<r, p>> \in Ngb}} : b > 0}
<1>1. S \in SUBSET Int /\ S # {} /\ \A x \in S : 1 <= x /\ x <= NumBins + 1
  <2>1. \A x \in S : x = NumBins + 1 \/ (x > 0 /\ \E q \in Part : x = time_bin[q])
    OBVIOUS
  <2>2. \A x \in S : x \in Int /\ 1 <= x /\ x <= NumBins + 1
    <3>1. \A q \in Part : time_bin[q] \in Int /\ time_bin[q] <= NumBins
      BY BinAssumption DEF Typed, AllBins
    <3> HIDE DEF S
    <3> QED
      BY <2>1, <3>1, BinAssumption
  <2>3. NumBins + 1 \in S
    OBVIOUS
  <2> HIDE DEF S
  <2> QED
    BY <2>2, <2>3
<1>2. MinNgbBin(p) = Min(S)
  BY DEF MinNgbBin
<1> HIDE DEF S
<1>3. Min(S) \in S
  BY <1>1, MinOf
<1>4. Min(S) \in Int /\ 1 <= Min(S) /\ Min(S) <= NumBins + 1
  BY <1>1, <1>3
<1> QED
  BY <1>2, <1>4, BinAssumption

LEMMA StepPrepare ==
  ASSUME FlagInv, StepInv, NEW rebuild \in BOOLEAN, NEW layout \in Layouts,
         NEW F \in SUBSET StarPairs, EnginePrepare(rebuild, layout, F)
  PROVE  StepInv'
<1> DEFINE ti == ti_end_min
<1>1. /\ ~running /\ ti_current < max_nr_timesteps
      /\ ti_current' = ti /\ running' = TRUE /\ cell_of' = layout
      /\ time_bin' = time_bin /\ ti_kick' = ti_kick /\ wakeup' = wakeup /\ torn' = torn
      /\ cap' = [p \in Part |-> NumBins]
      /\ min_ngb_time_bin' = [p \in Part |->
            IF time_bin[p] <= get_max_active_bin(ti_end_min) THEN MinNgbBin(p)
            ELSE min_ngb_time_bin[p]]
  BY DEF EnginePrepare, parts
<1>2. /\ OnLine(ti)
      /\ \A p \in Part : time_bin[p] = 0 => ti = 0
      /\ \A p \in Part : StepSpan(ti_current + 1, time_bin[p]) = StepSpan(ti, time_bin[p])
  BY <1>1, JumpedTo
<1>3. todo = {} /\ \A p \in Part : wakeup[p] = NotAwake
  BY <1>1, NothingToDo DEF FlagInv, Shape
<1>4. time_bin \in [Part -> AllBins] /\ cell_of \in Layouts
  BY DEF StepInv, Typed
<1>5. ASSUME NEW c \in Cell
      PROVE  /\ DOMAIN times' = Cell
             /\ times'[c] = JoinSpans(SpansOf(ti, time_bin, layout, c))
  <2>1. CASE rebuild
    <3>1. times' = SpaceSplit(ti, layout)
      BY <2>1 DEF EnginePrepare
    <3>2. {Span(get_integer_time_end(ti, time_bin[p]), get_integer_time_begin(ti, time_bin[p])) :
                p \in {q \in Part : c \in Ancestors[layout[q]]}}
            = SpansOf(ti, time_bin, layout, c)
      BY DEF SpansOf, StepSpan, InCell
    <3> QED
      BY <3>1, <3>2 DEF SpaceSplit
  <2>2. CASE ~rebuild
    <3>1. layout = cell_of /\ times' = times
      BY <2>2 DEF EnginePrepare
    <3>2. PostExact(c)
      BY <1>3 DEF StepInv, CellInv, Tasked
    <3>3. SpansOf(ti_current + 1, time_bin, cell_of, c) = SpansOf(ti, time_bin, cell_of, c)
      BY <1>2, SpansSame DEF InCell
    <3> QED
      BY <3>1, <3>2, <3>3 DEF PostExact, StepInv, Typed
  <2> QED
    BY <2>1, <2>2
<1>6. DOMAIN times' = Cell
  <2>1. rebuild => times' = SpaceSplit(ti, layout)
    BY DEF EnginePrepare
  <2>2. ~rebuild => times' = times
    BY DEF EnginePrepare
  <2> QED
    BY <2>1, <2>2 DEF SpaceSplit, StepInv, Typed
<1>7. /\ TodoInv'
      /\ \A s \in Super : (\A d \in Ancestors[s] : times'[d].end = ti) =>
              {<<"kick2", s>>, <<"timestep", s>>} \subseteq todo'
  <2>1. PICK T : /\ times' = T
                 /\ \/ Unskip(ti, T, F, do_limiter, do_sub_limiter, do_sync, do_sub_sync)
                    \/ Unskip(ti, T, F, {}, {}, {}, {})
    <3>1. CASE rebuild
      BY <3>1 DEF EnginePrepare
    <3>2. CASE ~rebuild
      BY <3>2 DEF EnginePrepare
    <3> QED
      BY <3>1, <3>2
  <2> QED
    BY <2>1, Unskipped
<1>8. Typed'
  <2>1. min_ngb_time_bin' \in [Part -> 1 .. NumBins + 1]
    BY <1>1, MinNgbBinType DEF StepInv, Typed
  <2>2. /\ cell_of' \in Layouts /\ OnLine(ti_current') /\ time_bin' \in [Part -> AllBins]
        /\ DOMAIN ti_kick' = Part
    BY <1>1, <1>2 DEF StepInv, Typed
  <2> QED
    BY <1>6, <2>1, <2>2 DEF Typed
<1> HIDE DEF ti
<1>9. ASSUME NEW p \in Part, Active(p)'
      PROVE  {<<"kick2", Home(p)'>>, <<"timestep", Home(p)'>>} \subseteq todo'
  <2>1. time_bin[p] <= get_max_active_bin(ti)
    BY <1>1, <1>9 DEF Active, max_active_bin
  <2>2. /\ Home(p)' \in Super /\ Home(p)' \in Ancestors[layout[p]]
        /\ layout[p] \in Cell
    <3>1. layout[p] \in Cell /\ layout[p] \in Leaf
      BY PartAssumption DEF Leaf
    <3>2. PICK s \in Super : s \in Ancestors[layout[p]]
      BY <3>1, SuperAssumption
    <3>3. SuperOf(layout[p]) = s
      BY <3>1, <3>2, OneSuper
    <3>4. Home(p)' = SuperOf(layout[p])
      BY <1>1 DEF Home, SuperOf
    <3> QED
      BY <3>1, <3>2, <3>3, <3>4
  <2>3. ASSUME NEW d \in Ancestors[Home(p)']
        PROVE  times'[d].end = ti
    <3>1. d \in Cell /\ d \in Ancestors[layout[p]]
      BY <2>2, AncestorAssumption
    <3>2. p \in InCell(d, layout)
      BY <3>1 DEF InCell
    <3>3. JoinSpans(SpansOf(ti, time_bin, layout, d)).end = ti
      BY <3>2, <2>1, <1>2, <1>4, ActiveEnd
    <3> QED
      BY <3>1, <3>3, <1>5
  <2> QED
    BY <2>2, <2>3, <1>7
<1>10. BinInv'
  <2> SUFFICES ASSUME NEW p \in Part, time_bin'[p] = 0
               PROVE  ti_current' = 0 /\ <<"timestep", Home(p)'>> \in todo'
    BY <1>1 DEF BinInv
  <2>1. ti_current' = 0
    BY <1>1, <1>2
  <2>2. get_max_active_bin(ti) \in Bins
    BY <1>2, MaxActive
  <2>3. 0 <= get_max_active_bin(ti)
    BY <2>2 DEF Bins
  <2>4. Active(p)'
    BY <1>1, <2>3 DEF Active, max_active_bin
  <2> QED
    BY <2>1, <2>4, <1>9
<1>11. WakeInv'
  <2>1. NumBins \in Bins /\ NumBins \in Nat
    BY BinAssumption, Longest
  <2>2. \A p \in Part : time_bin[p] <= NumBins
    BY <1>4 DEF AllBins
  <2> QED
    BY <1>1, <1>3, <2>1, <2>2 DEF StepInv, WakeInv, NotAwake
<1>12. KickInv'
  <2> SUFFICES ASSUME NEW p \in Part PROVE ti_kick'[p] = KickedTo(p)'
    BY <1>1 DEF KickInv, StepInv
  <2>1. ti_kick[p] = StepBegin(p) + Half(p)
    BY <1>3 DEF StepInv, KickInv, KickedTo
  <2>2. StepBegin(p) = get_integer_time_begin(ti, time_bin[p])
    <3>1. StepSpan(ti_current + 1, time_bin[p]).beg = StepSpan(ti, time_bin[p]).beg
      BY <1>2
    <3> QED
      BY <3>1, SpanParts DEF StepSpan, StepBegin
  <2>3. Half(p)' = Half(p)
    BY <1>1 DEF Half
  <2>4. CASE Active(p)'
    BY <2>1, <2>2, <2>3, <2>4, <1>1, <1>9 DEF KickedTo
  <2>5. CASE ~Active(p)'
    <3>1. ~(time_bin[p] <= get_max_active_bin(ti))
      BY <2>5, <1>1 DEF Active, max_active_bin
    <3>2. time_bin[p] \in Bins
      <4>1. get_max_active_bin(ti) \in Bins
        BY <1>2, MaxActive
      <4> QED
        BY <3>1, <4>1, <1>4 DEF Bins, AllBins
    <3>3. StepBegin(p)' = get_integer_time_begin(ti, time_bin[p])
      BY <3>1, <3>2, <1>1, <1>2, InMidStep DEF StepBegin
    <3> QED
      BY <2>1, <2>2, <2>3, <2>5, <3>3, <1>1 DEF KickedTo
  <2> QED
    BY <2>4, <2>5
<1>13. ASSUME NEW c \in Cell, \A p \in InCell(c, layout) : ~Active(p)'
       PROVE  PostExact(c)'
  <2>1. \A p \in InCell(c, layout) : ~(time_bin[p] <= get_max_active_bin(ti))
    BY <1>1, <1>13 DEF Active, max_active_bin
  <2>2. SpansOf(ti, time_bin, layout, c) = SpansOf(ti + 1, time_bin, layout, c)
    BY <2>1, <1>2, <1>4, SpansInMidStep
  <2> QED
    BY <2>2, <1>1, <1>5 DEF PostExact
<1>14. CellInv'
  <2>1. ASSUME NEW s \in Super, NEW c \in Under(s)
        PROVE  IF <<"timestep", s>> \in todo' THEN PreExact(c)' ELSE PostExact(c)'
    <3>0. c \in Cell /\ s \in Ancestors[c]
      BY DEF Under
    <3>1. CASE <<"timestep", s>> \in todo'
      BY <3>0, <3>1, <1>1, <1>5 DEF PreExact
    <3>2. CASE <<"timestep", s>> \notin todo'
      <4>1. ASSUME NEW p \in InCell(c, layout) PROVE ~Active(p)'
        <5>1. p \in Part /\ s \in Ancestors[layout[p]] /\ layout[p] \in Cell
          BY <3>0, PartAssumption, AncestorAssumption DEF InCell, Leaf
        <5>2. Home(p)' = s
          BY <5>1, <1>1, OneSuper DEF Home
        <5> QED
          BY <5>1, <5>2, <3>2, <1>9
      <4> QED
        BY <3>0, <3>2, <4>1, <1>13
    <3> QED
      BY <3>1, <3>2
  <2>2. ASSUME NEW c \in Cell \ Tasked, <<"collect", TopOf(c)>> \notin todo'
        PROVE  PostExact(c)'
    <3>1. ASSUME NEW p \in InCell(c, layout) PROVE ~Active(p)'
      <4>1. /\ p \in Part /\ layout[p] \in Cell /\ c \in Ancestors[layout[p]]
        BY PartAssumption DEF InCell, Leaf
      <4>2. /\ Home(p)' \in Super /\ Home(p)' \in Ancestors[layout[p]]
        <5>1. PICK s \in Super : s \in Ancestors[layout[p]]
          BY <4>1, SuperAssumption, PartAssumption
        <5> QED
          BY <5>1, <4>1, <1>1, OneSuper DEF Home
      <4>3. TopOf(Home(p)') = TopOf(c)
        BY <4>1, <4>2, TopAbove
      <4>4. <<"timestep", Home(p)'>> \notin todo'
        BY <4>2, <4>3, <2>2, <1>7 DEF TodoInv
      <4> QED
        BY <4>1, <4>4, <1>9
    <3> QED
      BY <3>1, <1>13
  <2> QED
    BY <2>1, <2>2 DEF CellInv
<1> QED
  BY <1>7, <1>8, <1>10, <1>11, <1>12, <1>14 DEF StepInv

(***************************************************************************)
(* What a task leaves as it is.                                            *)
(***************************************************************************)
LEMMA TodoRun ==
  ASSUME TodoInv, NEW k, NEW x, todo' = todo \ {<<k, x>>},
         k = "timestep" => <<"kick2", x>> \notin todo,
         k = "kick1" => \A j \in {"timestep", "limiter", "sync"} : <<j, x>> \notin todo,
         k = "collect" => \A j \in {"timestep", "limiter", "sync"}, s \in Super :
                             TopOf(s) = x => <<j, s>> \notin todo
  PROVE  TodoInv'
<1> SUFFICES ASSUME NEW s \in Super
             PROVE  /\ <<"kick2", s>> \in todo' => <<"timestep", s>> \in todo'
                    /\ \A j \in {"timestep", "limiter", "sync"} : <<j, s>> \in todo' =>
                         <<"kick1", s>> \in todo' /\ <<"collect", TopOf(s)>> \in todo'
  BY DEF TodoInv
<1>1. /\ <<"kick2", s>> \in todo => <<"timestep", s>> \in todo
      /\ \A j \in {"timestep", "limiter", "sync"} : <<j, s>> \in todo =>
           <<"kick1", s>> \in todo /\ <<"collect", TopOf(s)>> \in todo
  BY DEF TodoInv
<1> QED
  BY <1>1

LEMMA TaskRuns ==
  ASSUME FlagInv, NEW k, NEW x, Run(k, x)
  PROVE  running /\ <<k, x>> \in todo /\ todo' = todo \ {<<k, x>>}
  BY DEF Run, FlagInv, Shape

LEMMA Quiet ==
  ASSUME StepInv, running, NEW k, NEW x, todo' = todo \ {<<k, x>>},
         UNCHANGED <<ti_current, running, cell_of, time_bin>>
  PROVE  /\ \A p \in Part : /\ Home(p)' = Home(p) /\ (Active(p)' <=> Active(p))
                            /\ Half(p)' = Half(p) /\ StepBegin(p)' = StepBegin(p)
         /\ k # "timestep" => BinInv'
         /\ k # "timestep" /\ UNCHANGED <<wakeup, cap>> => WakeInv'
         /\ k \notin {"kick1", "kick2"} /\ UNCHANGED <<ti_kick, torn>> => KickInv'
         /\ k \notin {"timestep", "collect"} /\ UNCHANGED times => CellInv'
<1>1. \A p \in Part : /\ Home(p)' = Home(p) /\ (Active(p)' <=> Active(p))
                      /\ Half(p)' = Half(p) /\ StepBegin(p)' = StepBegin(p)
  BY DEF Home, Active, max_active_bin, Half, StepBegin
<1>2. k # "timestep" => BinInv'
  BY <1>1 DEF StepInv, BinInv
<1>3. k # "timestep" /\ UNCHANGED <<wakeup, cap>> => WakeInv'
  BY <1>1 DEF StepInv, WakeInv, LimitedBin, NotAwake
<1>4. k \notin {"kick1", "kick2"} /\ UNCHANGED <<ti_kick, torn>> => KickInv'
  BY <1>1 DEF StepInv, KickInv, KickedTo
<1>5. k \notin {"timestep", "collect"} /\ UNCHANGED times => CellInv'
  BY DEF StepInv, CellInv, PreExact, PostExact
<1> QED
  BY <1>1, <1>2, <1>3, <1>4, <1>5

LEMMA StepFeedback ==
  ASSUME FlagInv, StepInv, NEW f \in StarPairs, NEW S \in SUBSET Part, Feedback(f, S)
  PROVE  StepInv'
<1>1. Run("feedback", f)
  BY DEF Feedback
<1>2. running /\ todo' = todo \ {<<"feedback", f>>}
  BY <1>1, TaskRuns
<1>3. UNCHANGED <<ti_current, running, cell_of, time_bin, min_ngb_time_bin, ti_kick, torn,
                  wakeup, cap, times>>
  BY DEF Feedback, clock
<1>4. BinInv' /\ WakeInv' /\ KickInv' /\ CellInv'
  BY <1>2, <1>3, Quiet
<1>5. TodoInv'
  BY <1>2, TodoRun DEF StepInv
<1>6. Typed'
  BY <1>3 DEF StepInv, Typed
<1> QED
  BY <1>4, <1>5, <1>6 DEF StepInv

(***************************************************************************)
(* The cells of an active particle are active until timestep has run, and  *)
(* starting from then on.                                                  *)
(***************************************************************************)
LEMMA ActiveCells ==
  ASSUME StepInv, running, NEW s \in Super, <<"timestep", s>> \in todo,
         NEW p \in PartsIn(s), Active(p), NEW c \in Ancestors[cell_of[p]] \cap Under(s)
  PROVE  CellActive(c)
<1>1. PreExact(c)
  BY DEF StepInv, CellInv
<1>2. p \in InCell(c, cell_of)
  BY DEF PartsIn, InCell
<1>3. JoinSpans(SpansOf(ti_current, time_bin, cell_of, c)).end = ti_current
  <2>1. \A q \in Part : time_bin[q] = 0 => ti_current = 0
    BY DEF StepInv, BinInv
  <2>2. OnLine(ti_current) /\ time_bin \in [Part -> AllBins]
    BY DEF StepInv, Typed
  <2>3. time_bin[p] <= get_max_active_bin(ti_current)
    BY DEF Active, max_active_bin
  <2> QED
    BY <1>2, <2>1, <2>2, <2>3, ActiveEnd
<1> QED
  BY <1>1, <1>3 DEF PreExact, CellActive

LEMMA StartingCells ==
  ASSUME StepInv, running, NEW s \in Super, <<"timestep", s>> \notin todo,
         NEW p \in PartsIn(s), Active(p), NEW c \in Ancestors[cell_of[p]] \cap Under(s)
  PROVE  time_bin[p] \in Bins /\ CellStarting(c)
<1>1. PostExact(c)
  BY DEF StepInv, CellInv
<1>2. p \in InCell(c, cell_of) /\ p \in Part
  BY DEF PartsIn, InCell
<1>3. time_bin[p] # 0
  BY <1>2, HomeOf DEF StepInv, Typed, BinInv
<1>4. time_bin[p] \in Bins
  BY <1>2, <1>3 DEF StepInv, Typed, AllBins, Bins
<1>5. JoinSpans(SpansOf(ti_current + 1, time_bin, cell_of, c)).beg = ti_current
  BY <1>2, <1>4, StartBeg DEF StepInv, Typed, Active, max_active_bin
<1> QED
  BY <1>1, <1>4, <1>5 DEF PostExact, CellStarting

LEMMA StepKick2 ==
  ASSUME FlagInv, StepInv, NEW s \in Super, Kick2(s)
  PROVE  StepInv'
<1> DEFINE reached == {p \in PartsIn(s) : \A c \in Ancestors[cell_of[p]] \cap Under(s) :
                                          CellActive(c)}
           kicked == {q \in reached : Active(q)}
           middle(p) == get_integer_time_begin(ti_current, time_bin[p])
                        + get_integer_timestep(time_bin[p]) \div 2
           kick == [p \in kicked |-> [from |-> middle(p),
                 to   |-> middle(p) + get_integer_timestep(time_bin[p]) \div 2]]
<1>1. Run("kick2", s) /\ KickParts(kick)
  BY DEF Kick2
<1>2. running /\ todo' = todo \ {<<"kick2", s>>} /\ <<"kick2", s>> \in todo
  BY <1>1, TaskRuns
<1>3. UNCHANGED <<ti_current, running, cell_of, time_bin, min_ngb_time_bin,
                  wakeup, cap, times>>
  BY DEF Kick2, clock
<1>4. BinInv' /\ WakeInv' /\ CellInv'
  BY <1>2, <1>3, Quiet
<1>5. TodoInv'
  BY <1>2, TodoRun DEF StepInv
<1>6. <<"timestep", s>> \in todo /\ <<"kick1", s>> \in todo
  BY <1>2 DEF StepInv, TodoInv
<1>7. kicked = {p \in PartsIn(s) : Active(p)}
  BY <1>2, <1>6, ActiveCells
<1>8. /\ ti_kick' = Override(ti_kick, [p \in kicked |-> kick[p].to])
      /\ torn' = (torn \/ \E p \in kicked : ti_kick[p] # kick[p].from)
  BY <1>1 DEF KickParts
<1>9. \A p \in kicked : kick[p].from = middle(p) /\ kick[p].to = middle(p) + Half(p)
  BY DEF Half
<1>10. \A p \in kicked : p \in Part /\ Active(p) /\ Home(p) = s
  BY <1>7, HomeOf DEF PartsIn, StepInv, Typed
<1> HIDE DEF kicked, kick
<1>11. ASSUME NEW p \in kicked PROVE ti_kick[p] = middle(p)
  BY <1>2, <1>10 DEF StepInv, KickInv, KickedTo, Half
<1>12. ASSUME NEW p \in kicked PROVE middle(p) + Half(p) = ti_current
  <2>0. p \in Part /\ time_bin[p] \in AllBins /\ ti_current \in Nat
    BY <1>10 DEF StepInv, Typed, OnLine
  <2>1. CASE time_bin[p] = 0
    <3>1. ti_current = 0
      BY <2>0, <2>1, <1>2 DEF StepInv, BinInv
    <3> QED
      BY <2>1, <3>1, NoStep DEF Half
  <2>2. CASE time_bin[p] \in Bins
    <3>1. get_integer_time_begin(ti_current, time_bin[p])
            = ti_current - get_integer_timestep(time_bin[p])
      BY <2>2, <1>10, AtStart DEF StepInv, Typed, Active, max_active_bin
    <3> QED
      BY <2>0, <2>2, <3>1, Timestep1 DEF Half
  <2> QED
    BY <2>0, <2>1, <2>2, BinAssumption DEF AllBins, Bins
<1>13. KickInv'
  <2>1. ~torn'
    BY <1>8, <1>9, <1>11 DEF StepInv, KickInv
  <2>2. ASSUME NEW p \in Part PROVE ti_kick'[p] = KickedTo(p)'
    <3>0. DOMAIN ti_kick = Part /\ ti_kick[p] = KickedTo(p)
      BY DEF StepInv, Typed, KickInv
    <3>1. /\ Home(p)' = Home(p) /\ (Active(p)' <=> Active(p))
          /\ Half(p)' = Half(p) /\ StepBegin(p)' = StepBegin(p)
      BY <1>2, <1>3, Quiet
    <3>2. CASE p \in kicked
      <4>1. ti_kick'[p] = ti_current
        BY <3>0, <3>2, <1>8, <1>9, <1>12, OverrideAt
      <4>2. KickedTo(p)' = ti_current
        BY <3>1, <3>2, <1>2, <1>3, <1>6, <1>10 DEF KickedTo
      <4> QED
        BY <4>1, <4>2
    <3>3. CASE p \notin kicked
      <4>1. ti_kick'[p] = ti_kick[p]
        BY <3>0, <3>3, <1>8, OverrideAt
      <4>2. ~Active(p) \/ Home(p) # s
        BY <3>3, <1>7, HomeOf DEF StepInv, Typed
      <4>3. KickedTo(p)' = KickedTo(p)
        BY <3>1, <4>2, <1>2, <1>3 DEF KickedTo
      <4> QED
        BY <3>0, <4>1, <4>3
    <3> QED
      BY <3>2, <3>3
  <2> QED
    BY <2>1, <2>2 DEF KickInv
<1>14. Typed'
  BY <1>3, <1>8, OverrideAt DEF StepInv, Typed
<1> QED
  BY <1>4, <1>5, <1>13, <1>14 DEF StepInv

LEMMA StepKick1 ==
  ASSUME FlagInv, StepInv, NEW s \in Super, NEW R, Kick1(s, R)
  PROVE  StepInv'
<1> DEFINE starting == {p \in PartsIn(s) : /\ Active(p)
                        /\ \A c \in Ancestors[cell_of[p]] \cap Under(s) : CellStarting(c)}
           begin(p) == get_integer_time_begin(ti_current + 1, time_bin[p])
           kick == [p \in starting |->
                [from |-> begin(p),
                 to   |-> begin(p) + get_integer_timestep(time_bin[p]) \div 2]]
<1>1. Run("kick1", s) /\ KickParts(kick)
  BY DEF Kick1
<1>2. running /\ todo' = todo \ {<<"kick1", s>>} /\ <<"kick1", s>> \in todo
  BY <1>1, TaskRuns
<1>3. UNCHANGED <<ti_current, running, cell_of, time_bin, min_ngb_time_bin,
                  wakeup, cap, times>>
  BY DEF Kick1, clock
<1>4. BinInv' /\ WakeInv' /\ CellInv'
  BY <1>2, <1>3, Quiet
<1>5. <<"timestep", s>> \notin todo /\ <<"limiter", s>> \notin todo /\ <<"sync", s>> \notin todo
  BY <1>1 DEF Run, Before
<1>6. <<"kick2", s>> \notin todo
  BY <1>5 DEF StepInv, TodoInv
<1>7. TodoInv'
  BY <1>2, <1>5, TodoRun DEF StepInv
<1>8. starting = {p \in PartsIn(s) : Active(p)}
  BY <1>2, <1>5, StartingCells
<1>9. /\ ti_kick' = Override(ti_kick, [p \in starting |-> kick[p].to])
      /\ torn' = (torn \/ \E p \in starting : ti_kick[p] # kick[p].from)
  BY <1>1 DEF KickParts
<1>10. \A p \in starting : kick[p].from = StepBegin(p) /\ kick[p].to = StepBegin(p) + Half(p)
  BY DEF Half, StepBegin
<1>11. \A p \in starting : p \in Part /\ Active(p) /\ Home(p) = s
  BY <1>8, HomeOf DEF PartsIn, StepInv, Typed
<1> HIDE DEF starting, kick
<1>12. ASSUME NEW p \in starting PROVE ti_kick[p] = ti_current /\ StepBegin(p) = ti_current
  <2>0. cell_of[p] \in Cell /\ p \in PartsIn(s)
    BY <1>8, <1>11, HomeOf DEF StepInv, Typed
  <2>1. s \in Ancestors[cell_of[p]] \cap Under(s)
    BY <2>0, SelfAbove, SuperAssumption DEF PartsIn
  <2>2. time_bin[p] \in Bins
    BY <2>0, <2>1, <1>2, <1>5, <1>11, StartingCells
  <2>3. StepBegin(p) = ti_current
    BY <2>2, <1>11, AtStart DEF StepInv, Typed, Active, max_active_bin, StepBegin
  <2> QED
    BY <2>3, <1>2, <1>6, <1>11 DEF StepInv, KickInv, KickedTo
<1>13. KickInv'
  <2>1. ~torn'
    BY <1>9, <1>10, <1>12 DEF StepInv, KickInv
  <2>2. ASSUME NEW p \in Part PROVE ti_kick'[p] = KickedTo(p)'
    <3>0. DOMAIN ti_kick = Part /\ ti_kick[p] = KickedTo(p)
      BY DEF StepInv, Typed, KickInv
    <3>1. /\ Home(p)' = Home(p) /\ (Active(p)' <=> Active(p))
          /\ Half(p)' = Half(p) /\ StepBegin(p)' = StepBegin(p)
      BY <1>2, <1>3, Quiet
    <3>2. CASE p \in starting
      <4>1. ti_kick'[p] = StepBegin(p) + Half(p)
        BY <3>0, <3>2, <1>9, <1>10, OverrideAt
      <4>2. KickedTo(p)' = StepBegin(p) + Half(p)
        BY <3>1, <3>2, <1>2, <1>3, <1>6, <1>11 DEF KickedTo
      <4> QED
        BY <4>1, <4>2
    <3>3. CASE p \notin starting
      <4>1. ti_kick'[p] = ti_kick[p]
        BY <3>0, <3>3, <1>9, OverrideAt
      <4>2. ~Active(p) \/ Home(p) # s
        BY <3>3, <1>8, HomeOf DEF StepInv, Typed
      <4>3. KickedTo(p)' = KickedTo(p)
        BY <3>1, <4>2, <1>2, <1>3 DEF KickedTo
      <4> QED
        BY <3>0, <4>1, <4>3
    <3> QED
      BY <3>2, <3>3
  <2> QED
    BY <2>1, <2>2 DEF KickInv
<1>14. Typed'
  BY <1>3, <1>9, OverrideAt DEF StepInv, Typed
<1> QED
  BY <1>4, <1>7, <1>13, <1>14 DEF StepInv

(* A cell that is split may ask its progeny instead of its particles. *)
LEMMA ProgenySpans ==
  ASSUME cell_of \in Layouts, NEW c \in Cell, c \notin Leaf, NEW t \in Nat,
         NEW tb \in [Part -> AllBins], NEW g,
         \A d \in Progeny(c) : g[d] = JoinSpans(SpansOf(t + 1, tb, cell_of, d))
  PROVE  JoinSpans({g[d] : d \in Progeny(c)}) = JoinSpans(SpansOf(t + 1, tb, cell_of, c))
<1> DEFINE S == {g[d] : d \in Progeny(c)}
           Q(d) == SpansOf(t + 1, tb, cell_of, d)
           R == Q(c)
<1>1. /\ \A p \in InCell(c, cell_of) : \E d \in Progeny(c) : p \in InCell(d, cell_of)
      /\ \A d \in Progeny(c) : InCell(d, cell_of) \subseteq InCell(c, cell_of)
  BY PartsInCell, InCellParts
<1>2. \A d \in Progeny(c) : Bounded(Q(d), t) /\ Q(d) \subseteq R
  BY <1>1, SpansBounded DEF SpansOf
<1>3. \A x \in R : \E d \in Progeny(c) : x \in Q(d)
  BY <1>1 DEF SpansOf
<1>4. \A d \in Progeny(c) : g[d] = JoinSpans(Q(d))
  OBVIOUS
<1>5. \A x \in S : \E d \in Progeny(c) : x = JoinSpans(Q(d))
  OBVIOUS
<1>6. \A d \in Progeny(c) : JoinSpans(Q(d)) \in S
  BY <1>4
<1>7. Bounded(R, t)
  BY SpansBounded
<1> HIDE DEF S, R, Q
<1>8. Bounded(S, t)
  <2> SUFFICES ASSUME NEW x \in S
               PROVE  x.end \in Nat /\ x.beg \in Int /\ x.beg <= t
    BY DEF Bounded
  <2>1. PICK d \in Progeny(c) : x = JoinSpans(Q(d))
    BY <1>5
  <2> QED
    BY <2>1, <1>2, JoinFacts
<1>9. Covers(S, R)
  <2> SUFFICES ASSUME NEW x \in R
               PROVE  \E y \in S : y.end <= x.end /\ x.beg <= y.beg
    BY DEF Covers
  <2>1. PICK d \in Progeny(c) : x \in Q(d)
    BY <1>3
  <2>2. JoinSpans(Q(d)).end <= x.end /\ x.beg <= JoinSpans(Q(d)).beg
    BY <2>1, <1>2, JoinFacts
  <2> QED
    BY <2>1, <2>2, <1>6
<1>10. Covers(R, S)
  <2> SUFFICES ASSUME NEW x \in S
               PROVE  /\ max_nr_timesteps <= x.end \/ \E y \in R : y.end <= x.end
                      /\ x.beg <= 0 \/ \E y \in R : x.beg <= y.beg
    BY DEF Covers
  <2>1. PICK d \in Progeny(c) : x = JoinSpans(Q(d))
    BY <1>5
  <2>2. /\ x.end \in Nat /\ x.beg \in Nat
        /\ x.end = max_nr_timesteps \/ \E y \in Q(d) : x.end = y.end
        /\ x.beg = 0 \/ \E y \in Q(d) : x.beg = y.beg
    BY <2>1, <1>2, JoinFacts
  <2> QED
    BY <2>2, <1>2
<1>11. JoinSpans(S) = JoinSpans(R)
  BY <1>7, <1>8, <1>9, <1>10, JoinSame
<1> QED
  BY <1>11 DEF S, R, Q

(***************************************************************************)
(* The cells, when a task of s has given its particles new bins and its    *)
(* cells the times that follow from them.                                  *)
(***************************************************************************)
LEMMA CellsOfSuper ==
  ASSUME StepInv, NEW s \in Super, NEW k \in {"timestep", "limiter", "sync"},
         <<k, s>> \in todo, todo' = todo \ {<<k, s>>}, <<"timestep", s>> \notin todo',
         UNCHANGED <<ti_current, cell_of>>,
         \A p \in Part : p \notin PartsIn(s) => time_bin'[p] = time_bin[p],
         NEW g, DOMAIN g = Under(s), times' = Override(times, g),
         \A c \in Under(s) :
            g[c] = JoinSpans(SpansOf(ti_current + 1, time_bin', cell_of, c))
  PROVE  CellInv' /\ DOMAIN times' = Cell
<1>0. cell_of \in Layouts /\ DOMAIN times = Cell
  BY DEF StepInv, Typed
<1>1. /\ DOMAIN times' = Cell
      /\ \A c \in Cell : times'[c] = IF c \in Under(s) THEN g[c] ELSE times[c]
  BY <1>0, OverrideAt
<1>2. ASSUME NEW c \in Cell, c \notin Under(s), InCell(c, cell_of) \cap PartsIn(s) = {}
      PROVE  /\ PreExact(c)' <=> PreExact(c)
             /\ PostExact(c)' <=> PostExact(c)
  <2>1. \A p \in InCell(c, cell_of) : time_bin'[p] = time_bin[p]
    BY <1>2 DEF InCell
  <2>2. /\ SpansOf(ti_current, time_bin', cell_of, c) = SpansOf(ti_current, time_bin, cell_of, c)
        /\ SpansOf(ti_current + 1, time_bin', cell_of, c)
             = SpansOf(ti_current + 1, time_bin, cell_of, c)
    BY <2>1, SpansSame
  <2>3. times'[c] = times[c]
    BY <1>1, <1>2
  <2> QED
    BY <2>2, <2>3 DEF PreExact, PostExact
<1>3. ASSUME NEW r \in Super, NEW c \in Under(r)
      PROVE  IF <<"timestep", r>> \in todo' THEN PreExact(c)' ELSE PostExact(c)'
  <2>0. c \in Cell /\ r \in Ancestors[c]
    BY DEF Under
  <2>1. CASE r = s
    <3>1. times'[c] = g[c]
      BY <2>0, <2>1, <1>1
    <3> QED
      BY <2>1, <3>1 DEF PostExact
  <2>2. CASE r # s
    <3>1. c \notin Under(s)
      BY <2>0, <2>2, OneSuper DEF Under
    <3>2. InCell(c, cell_of) \cap PartsIn(s) = {}
      <4> SUFFICES ASSUME NEW p \in InCell(c, cell_of), p \in PartsIn(s) PROVE FALSE
        OBVIOUS
      <4>1. p \in Part /\ cell_of[p] \in Cell /\ c \in Ancestors[cell_of[p]]
        BY <1>0, HomeOf DEF InCell
      <4>2. p \in PartsIn(r)
        BY <2>0, <4>1, AncestorAssumption DEF PartsIn
      <4> QED
        BY <4>1, <4>2, <2>2, <1>0, HomeOf
    <3>3. <<"timestep", r>> \in todo' <=> <<"timestep", r>> \in todo
      BY <2>2
    <3>4. IF <<"timestep", r>> \in todo THEN PreExact(c) ELSE PostExact(c)
      BY DEF StepInv, CellInv
    <3> QED
      BY <2>0, <3>1, <3>2, <3>3, <3>4, <1>2
  <2> QED
    BY <2>1, <2>2
<1>4. ASSUME NEW c \in Cell \ Tasked, <<"collect", TopOf(c)>> \notin todo'
      PROVE  PostExact(c)'
  <2>1. <<"collect", TopOf(c)>> \notin todo
    BY <1>4
  <2>2. PostExact(c)
    BY <2>1 DEF StepInv, CellInv
  <2>3. c \notin Under(s)
    BY DEF Tasked
  <2>4. InCell(c, cell_of) \cap PartsIn(s) = {}
    <3> SUFFICES ASSUME NEW p \in InCell(c, cell_of), p \in PartsIn(s) PROVE FALSE
      OBVIOUS
    <3>1. /\ p \in Part /\ cell_of[p] \in Cell /\ c \in Ancestors[cell_of[p]]
          /\ s \in Ancestors[cell_of[p]]
      BY <1>0, HomeOf DEF InCell, PartsIn
    <3>2. TopOf(c) = TopOf(s)
      BY <3>1, TopAbove
    <3>3. <<"collect", TopOf(s)>> \in todo
      BY DEF StepInv, TodoInv
    <3> QED
      BY <2>1, <3>2, <3>3
  <2> QED
    BY <2>2, <2>3, <2>4, <1>2
<1> QED
  BY <1>1, <1>3, <1>4 DEF CellInv

LEMMA StepTimestep ==
  ASSUME FlagInv, StepInv, NEW s \in Super, Timestep(s)
  PROVE  StepInv'
<1> DEFINE S == {p \in PartsIn(s) : cell_of[p] \in Reached(s) /\ Active(p)}
           old(p) == Span(get_integer_time_end(ti_current, time_bin[p]),
                           get_integer_time_begin(ti_current + 1, time_bin[p]))
           span(step) == [p \in PartsIn(s) |->
                        IF p \in DOMAIN step THEN Span(ti_current + step[p], ti_current)
                        ELSE old(p)]
<1>1. PICK step \in NewSteps(S) :
        /\ time_bin' = Override(time_bin, [p \in DOMAIN step |-> get_time_bin(step[p])])
        /\ times' = Aggregated(s, span(step))
  BY DEF Timestep
<1>2. /\ Run("timestep", s)
      /\ UNCHANGED <<ti_current, running, cell_of, min_ngb_time_bin, ti_kick, torn,
                     wakeup, cap>>
  BY DEF Timestep, clock
<1>3. running /\ todo' = todo \ {<<"timestep", s>>} /\ <<"timestep", s>> \in todo
  BY <1>2, TaskRuns
<1>4. <<"kick2", s>> \notin todo
  BY <1>2 DEF Run, Before
<1>5. <<"kick1", s>> \in todo
  BY <1>3 DEF StepInv, TodoInv
<1>6. TodoInv'
  BY <1>3, <1>4, TodoRun DEF StepInv
<1>7. /\ Typed /\ cell_of \in Layouts /\ OnLine(ti_current) /\ ti_current \in Nat
      /\ time_bin \in [Part -> AllBins]
      /\ s \in Cell
  BY SuperAssumption DEF StepInv, Typed, OnLine
<1>8. S = {p \in PartsIn(s) : Active(p)}
  <2>1. ASSUME NEW p \in PartsIn(s), Active(p)
        PROVE  cell_of[p] \in Reached(s)
    <3>1. p \in Part /\ cell_of[p] \in Cell /\ s \in Ancestors[cell_of[p]]
      BY <1>7, HomeOf DEF PartsIn
    <3> QED
      BY <3>1, <2>1, <1>3, ActiveCells DEF Reached, Under
  <2> QED
    BY <2>1
<1>9. \A p \in S : p \in Part /\ Active(p) /\ Home(p) = s
  BY <1>7, <1>8, HomeOf DEF PartsIn
<1>10. PICK w \in WishesOf(S) :
         step = [p \in S |-> make_integer_timestep(w[p], time_bin[p], min_ngb_time_bin[p])]
  BY <1>1 DEF NewSteps
<1>11. DOMAIN step = S
  BY <1>10
<1> HIDE DEF S, span
<1>12. ASSUME NEW p \in S
       PROVE  /\ time_bin'[p] \in Bins /\ time_bin'[p] <= max_active_bin
              /\ step[p] = get_integer_timestep(time_bin'[p])
  <2>1. w[p] \in Bins
    BY DEF WishesOf, Bins
  <2>2. /\ min_ngb_time_bin[p] \in 1 .. NumBins + 1 /\ time_bin[p] \in -1 .. NumBins
        /\ time_bin[p] \in AllBins
        /\ p \in Part
    BY <1>7, <1>9 DEF Typed, AllBins
  <2>3. time_bin[p] >= 1 => time_bin[p] <= max_active_bin
    BY <1>9 DEF Active
  <2>4. PICK b \in Bins :
          /\ make_integer_timestep(w[p], time_bin[p], min_ngb_time_bin[p])
               = get_integer_timestep(b)
          /\ time_bin[p] >= 1 => b <= max_active_bin
    BY <2>1, <2>2, <2>3, <1>7, NewStep
  <2>5. b <= max_active_bin
    <3>1. CASE time_bin[p] >= 1
      BY <2>4, <3>1
    <3>2. CASE time_bin[p] = 0
      <4>1. ti_current = 0
        BY <2>2, <3>2, <1>3 DEF StepInv, BinInv
      <4>2. max_active_bin = NumBins
        BY <4>1 DEF max_active_bin, get_max_active_bin
      <4> QED
        BY <4>2 DEF Bins
    <3> QED
      BY <3>1, <3>2, <2>2 DEF AllBins
  <2>6. step[p] = get_integer_timestep(b) /\ get_time_bin(step[p]) = b
    BY <2>4, <1>10, TimeBinOf
  <2>7. time_bin'[p] = get_time_bin(step[p])
    BY <2>2, <1>1, <1>7, <1>11, OverrideAt
  <2> QED
    BY <2>5, <2>6, <2>7
<1>13. DOMAIN time_bin' = Part /\ \A p \in Part : p \notin S => time_bin'[p] = time_bin[p]
  BY <1>1, <1>7, <1>11, OverrideAt
<1>14. time_bin' \in [Part -> AllBins]
  <2>1. \A p \in Part : time_bin'[p] \in AllBins
    BY <1>7, <1>12, <1>13 DEF AllBins, Bins
  <2>2. time_bin' = [p \in Part |-> time_bin'[p]]
    BY <1>1, <1>7 DEF Override
  <2> QED
    BY <2>1, <2>2
<1>15. ASSUME NEW p \in Part
       PROVE  /\ Home(p)' = Home(p)
              /\ p \in S => Active(p)'
              /\ p \notin S => /\ Active(p)' <=> Active(p)
                               /\ Half(p)' = Half(p) /\ StepBegin(p)' = StepBegin(p)
  BY <1>2, <1>12, <1>13 DEF Home, Active, max_active_bin, Half, StepBegin
<1>16. BinInv'
  <2> SUFFICES ASSUME NEW p \in Part, time_bin'[p] = 0
               PROVE  ti_current' = 0 /\ <<"timestep", Home(p)'>> \in todo'
    BY <1>2, <1>3 DEF BinInv
  <2>1. p \notin S
    BY <1>12 DEF Bins
  <2>2. time_bin[p] = 0
    BY <2>1, <1>13
  <2>3. ti_current = 0 /\ <<"timestep", Home(p)>> \in todo
    BY <2>2, <1>3 DEF StepInv, BinInv
  <2>4. Active(p)
    <3>1. max_active_bin \in Bins
      BY <1>7, MaxActive DEF max_active_bin
    <3> QED
      BY <2>2, <3>1 DEF Active, Bins
  <2>5. Home(p) # s
    BY <2>1, <2>4, <1>7, <1>8, HomeOf
  <2> QED
    BY <2>3, <2>5, <1>2, <1>3, <1>15
<1>17. WakeInv'
  <2>1. ASSUME NEW p \in Part
        PROVE  /\ wakeup[p] = NotAwake => time_bin'[p] <= cap[p]
               /\ wakeup[p] # NotAwake => LimitedBin(p) < time_bin'[p]
    <3>1. CASE p \in S
      <4>1. <<"timestep", Home(p)>> \in todo
        BY <3>1, <1>3, <1>9
      <4>2. wakeup[p] = NotAwake /\ cap[p] = NumBins
        BY <4>1 DEF StepInv, WakeInv
      <4> QED
        BY <3>1, <4>2, <1>12 DEF Bins
    <3>2. CASE p \notin S
      BY <3>2, <1>13 DEF StepInv, WakeInv
    <3> QED
      BY <3>1, <3>2
  <2>2. \A p \in Part : LimitedBin(p)' = LimitedBin(p)
    BY <1>2 DEF LimitedBin
  <2> QED
    BY <2>1, <2>2, <1>2, <1>3, <1>15 DEF StepInv, WakeInv, NotAwake
<1>18. KickInv'
  <2> SUFFICES ASSUME NEW p \in Part PROVE ti_kick[p] = KickedTo(p)'
    BY <1>2 DEF StepInv, KickInv
  <2>0. ti_kick[p] = KickedTo(p)
    BY DEF StepInv, KickInv
  <2>1. CASE p \in S
    <3>1. ti_kick[p] = ti_current
      BY <2>0, <2>1, <1>4, <1>5, <1>9 DEF KickedTo
    <3>2. KickedTo(p)' = ti_current'
      BY <2>1, <1>3, <1>4, <1>5, <1>9, <1>15 DEF KickedTo
    <3> QED
      BY <3>1, <3>2, <1>2
  <2>2. CASE p \notin S
    <3>1. time_bin'[p] = time_bin[p]
      BY <2>2, <1>13
    <3> QED
      BY <2>0, <2>2, <3>1, <1>2, <1>3, <1>15 DEF KickedTo
  <2> QED
    BY <2>1, <2>2
<1> DEFINE new(c) == JoinSpans(SpansOf(ti_current + 1, time_bin', cell_of, c))
           g == [c \in Under(s) |-> new(c)]
<1>19. ASSUME NEW c \in Under(s), \A p \in InCell(c, cell_of) : ~Active(p)
       PROVE  times[c] = new(c)
  <2>1. PreExact(c)
    BY <1>3 DEF StepInv, CellInv
  <2>2. \A p \in InCell(c, cell_of) : ~(time_bin[p] <= get_max_active_bin(ti_current))
    BY <1>19 DEF Active, max_active_bin
  <2>3. SpansOf(ti_current, time_bin, cell_of, c) = SpansOf(ti_current + 1, time_bin, cell_of, c)
    BY <2>2, <1>7, SpansInMidStep
  <2>4. \A p \in InCell(c, cell_of) : time_bin'[p] = time_bin[p]
    BY <1>9, <1>13, <1>19 DEF InCell
  <2>5. SpansOf(ti_current + 1, time_bin, cell_of, c)
          = SpansOf(ti_current + 1, time_bin', cell_of, c)
    BY <2>4, SpansSame
  <2> QED
    BY <2>1, <2>3, <2>5 DEF PreExact
<1>20. ASSUME NEW p \in PartsIn(s), p \in S \/ ~Active(p)
       PROVE  span(step)[p] = StepSpan(ti_current + 1, time_bin'[p])
  <2>0. p \in Part
    BY DEF PartsIn
  <2>1. CASE p \in S
    <3>1. span(step)[p] = Span(ti_current + step[p], ti_current)
      BY <2>1, <1>11 DEF span
    <3>2. /\ get_integer_time_begin(ti_current + 1, time_bin'[p]) = ti_current
          /\ get_integer_time_end(ti_current + 1, time_bin'[p])
               = ti_current + get_integer_timestep(time_bin'[p])
      BY <2>1, <1>7, <1>12, AtStart DEF max_active_bin
    <3> QED
      BY <3>1, <3>2, <2>1, <1>12 DEF StepSpan
  <2>2. CASE p \notin S
    <3>1. span(step)[p] = old(p) /\ time_bin'[p] = time_bin[p]
      BY <2>0, <2>2, <1>11, <1>13 DEF span
    <3>2. ~(time_bin[p] <= get_max_active_bin(ti_current))
      BY <2>2, <1>20 DEF Active, max_active_bin
    <3>3. time_bin[p] \in Bins
      <4>1. get_max_active_bin(ti_current) \in Bins
        BY <1>7, MaxActive
      <4> QED
        BY <2>0, <3>2, <4>1, <1>7 DEF AllBins, Bins
    <3>4. get_integer_time_end(ti_current + 1, time_bin[p]) = get_integer_time_end(ti_current, time_bin[p])
      BY <3>2, <3>3, <1>7, InMidStep
    <3> QED
      BY <3>1, <3>4 DEF StepSpan
  <2> QED
    BY <2>1, <2>2
<1>21. IsAggregate(g, s, span(step))
  <2> SUFFICES ASSUME NEW c \in Under(s)
               PROVE  new(c) = IF c \notin Reached(s) THEN times[c]
                        ELSE JoinSpans(IF c \in Leaf THEN {span(step)[p] : p \in PartsIn(c)}
                                       ELSE {g[d] : d \in Progeny(c)})
    BY Zenon DEF IsAggregate
  <2>0. c \in Cell /\ s \in Ancestors[c]
    BY DEF Under
  <2>1. CASE c \notin Reached(s)
    <3>1. ASSUME NEW p \in InCell(c, cell_of), Active(p) PROVE FALSE
      <4>1. PICK d \in Ancestors[c] \cap Under(s) : ~CellActive(d)
        BY <2>1 DEF Reached
      <4>2. p \in Part /\ cell_of[p] \in Cell /\ c \in Ancestors[cell_of[p]]
        BY <1>7, HomeOf DEF InCell
      <4>3. d \in Ancestors[cell_of[p]] /\ s \in Ancestors[cell_of[p]]
        BY <2>0, <4>1, <4>2, AncestorAssumption
      <4>4. p \in PartsIn(s)
        BY <4>2, <4>3 DEF PartsIn
      <4> QED
        BY <3>1, <4>1, <4>3, <4>4, <1>3, ActiveCells
    <3>2. times[c] = new(c)
      BY <3>1, <1>19
    <3> HIDE DEF new, g
    <3> QED
      BY <2>1, <3>2
  <2>2. CASE c \in Reached(s) /\ c \in Leaf
    <3>1. ASSUME NEW p \in PartsIn(c)
          PROVE  p \in PartsIn(s) /\ (p \in S \/ ~Active(p))
      <4>1. p \in Part /\ cell_of[p] \in Cell /\ c \in Ancestors[cell_of[p]] /\ cell_of[p] = c
        BY <2>0, <2>2, <1>7, HomeOf, PartsInCell DEF PartsIn
      <4>2. p \in PartsIn(s)
        BY <2>0, <4>1 DEF PartsIn
      <4> QED
        BY <4>2, <1>8
    <3>2. \A p \in PartsIn(c) : span(step)[p] = StepSpan(ti_current + 1, time_bin'[p])
      BY <3>1, <1>20
    <3>3. {span(step)[p] : p \in PartsIn(c)} = SpansOf(ti_current + 1, time_bin', cell_of, c)
      BY <3>2, InCellParts DEF SpansOf
    <3> HIDE DEF g
    <3> QED
      BY <2>2, <3>3
  <2>3. CASE c \in Reached(s) /\ c \notin Leaf
    <3>1. \A d \in Progeny(c) : d \in Under(s)
      BY <1>7, ProgenyStayUnder
    <3>2. \A d \in Progeny(c) :
            g[d] = JoinSpans(SpansOf(ti_current + 1, time_bin', cell_of, d))
      BY <3>1
    <3> HIDE DEF g
    <3>3. JoinSpans({g[d] : d \in Progeny(c)}) = new(c)
      BY <2>0, <2>3, <3>2, <1>7, <1>14, ProgenySpans
    <3> HIDE DEF new
    <3> QED
      BY <2>3, <3>3
  <2> QED
    BY <2>1, <2>2, <2>3
<1>22. times' = Override(times, g)
  BY <1>1, <1>7, <1>21, AggregatedIs
<1>23. CellInv' /\ DOMAIN times' = Cell
  <2>1. \A p \in Part : p \notin PartsIn(s) => time_bin'[p] = time_bin[p]
    BY <1>8, <1>13
  <2>2. DOMAIN g = Under(s) /\ \A c \in Under(s) :
           g[c] = JoinSpans(SpansOf(ti_current + 1, time_bin', cell_of, c))
    OBVIOUS
  <2> HIDE DEF g
  <2> QED
    BY <2>1, <2>2, <1>2, <1>3, <1>22, CellsOfSuper
<1>24. Typed'
  BY <1>2, <1>7, <1>14, <1>23 DEF Typed
<1> QED
  BY <1>6, <1>16, <1>17, <1>18, <1>23, <1>24 DEF StepInv

(***************************************************************************)
(* Times that only become tighter.  What a cell knew, together with what   *)
(* is new, is what it would find in its particles.                         *)
(***************************************************************************)
Tightens(O, R, N) ==
  /\ \A x \in R : \E y \in O \cup N : y.end <= x.end /\ x.beg <= y.beg
  /\ \A x \in O : \E y \in R : y.end <= x.end /\ x.beg <= y.beg
  /\ Covers(R, N)

LEMMA TightJoin ==
  ASSUME NEW O, NEW R, NEW N, NEW u \in Nat,
         Bounded(O, u), Bounded(R, u), Bounded(N, u), Tightens(O, R, N)
  PROVE  JoinSpans({JoinSpans(O)} \cup N) = JoinSpans(R)
<1> DEFINE J == JoinSpans(O)
           S == {J} \cup N
<1>2. /\ J.end \in Nat /\ J.beg \in Nat /\ J.beg <= u
      /\ \A x \in O : J.end <= x.end /\ x.beg <= J.beg
      /\ J.end = max_nr_timesteps \/ \E x \in O : J.end = x.end
      /\ J.beg = 0 \/ \E x \in O : J.beg = x.beg
  BY JoinFacts
<1>3. max_nr_timesteps \in Nat
  BY Longest, Timestep1
<1> HIDE DEF J
<1>4. Bounded(S, u)
  BY <1>2 DEF Bounded
<1>5. Covers(S, R)
  <2> SUFFICES ASSUME NEW x \in R
               PROVE  \E y \in S : y.end <= x.end /\ x.beg <= y.beg
    BY DEF Covers
  <2>1. PICK y \in O \cup N : y.end <= x.end /\ x.beg <= y.beg
    BY DEF Tightens
  <2>2. CASE y \in O
    <3>1. J.end <= x.end /\ x.beg <= J.beg
      BY <2>1, <2>2, <1>2 DEF Bounded
    <3> QED
      BY <3>1
  <2>3. CASE y \in N
    BY <2>1, <2>3
  <2> QED
    BY <2>2, <2>3
<1>6. Covers(R, S)
  <2>1. /\ max_nr_timesteps <= J.end \/ \E y \in R : y.end <= J.end
        /\ J.beg <= 0 \/ \E y \in R : J.beg <= y.beg
    BY <1>2, <1>3 DEF Tightens
  <2> QED
    BY <2>1 DEF Covers, Tightens
<1> HIDE DEF S
<1>7. JoinSpans(S) = JoinSpans(R)
  BY <1>4, <1>5, <1>6, JoinSame
<1> QED
  BY <1>7 DEF S, J

(* Joining loses nothing. *)
LEMMA JoinedCovered ==
  ASSUME NEW R, NEW u \in Nat, Bounded(R, u), NEW Q \in SUBSET R
  PROVE  Bounded({JoinSpans(Q)}, u) /\ Covers(R, {JoinSpans(Q)})
<1>1. Bounded(Q, u)
  BY DEF Bounded
<1>2. /\ JoinSpans(Q).end \in Nat /\ JoinSpans(Q).beg \in Nat /\ JoinSpans(Q).beg <= u
      /\ JoinSpans(Q).end = max_nr_timesteps \/ \E x \in Q : JoinSpans(Q).end = x.end
      /\ JoinSpans(Q).beg = 0 \/ \E x \in Q : JoinSpans(Q).beg = x.beg
  BY <1>1, JoinFacts
<1>3. max_nr_timesteps \in Nat
  BY Longest, Timestep1
<1>4. Bounded({JoinSpans(Q)}, u)
  BY <1>2 DEF Bounded
<1>5. Covers(R, {JoinSpans(Q)})
  <2>1. \A x \in R : x.end \in Int /\ x.beg \in Int
    BY DEF Bounded
  <2>2. max_nr_timesteps <= JoinSpans(Q).end \/ \E y \in R : y.end <= JoinSpans(Q).end
    BY <1>2, <1>3, <2>1
  <2>3. JoinSpans(Q).beg <= 0 \/ \E y \in R : JoinSpans(Q).beg <= y.beg
    BY <1>2, <2>1
  <2> QED
    BY <2>2, <2>3 DEF Covers
<1> QED
  BY <1>4, <1>5

(* The cells above a treated particle are entered. *)
LEMMA TreatedEntered ==
  ASSUME cell_of \in Layouts, NEW s \in Super, NEW flag, NEW sub,
         NEW p \in Treated(s, flag, sub), NEW c \in Under(s), p \in PartsIn(c),
         c \notin Leaf
  PROVE  c \in Visited(s, flag, sub) /\ Entered(c, s, flag, sub)
<1> DEFINE l == cell_of[p]
<1>1. p \in Part /\ l \in Visited(s, flag, sub)
  BY DEF Treated, PartsIn
<1>2. l \in Leaf /\ l \in Cell /\ c \in Ancestors[l] /\ c \in Cell /\ s \in Ancestors[c]
  BY <1>1, HomeOf DEF PartsIn, Under
<1> HIDE DEF l
<1>3. \A d \in (Ancestors[l] \ {l}) \cap Under(s) : Entered(d, s, flag, sub)
  BY <1>1 DEF Visited
<1>4. c # l
  BY <1>2
<1>5. Entered(c, s, flag, sub)
  BY <1>2, <1>3, <1>4
<1>6. ASSUME NEW d \in (Ancestors[c] \ {c}) \cap Under(s)
      PROVE  Entered(d, s, flag, sub)
  <2>1. d \in Ancestors[l]
    BY <1>2, AncestorAssumption
  <2>2. d # l
    BY <1>2, AncestorAssumption
  <2> QED
    BY <1>3, <2>1, <2>2
<1> QED
  BY <1>5, <1>6 DEF Visited

LEMMA TightExact ==
  ASSUME StepInv, NEW s \in Super, <<"timestep", s>> \notin todo,
         NEW flag, NEW sub, NEW tb \in [Part -> AllBins],
         NEW span, DOMAIN span \subseteq Treated(s, flag, sub),
         \A p \in DOMAIN span :
            /\ span[p] = StepSpan(ti_current + 1, tb[p])
            /\ span[p].end <= StepSpan(ti_current + 1, time_bin[p]).end
            /\ StepSpan(ti_current + 1, time_bin[p]).beg <= span[p].beg,
         \A p \in Part : p \notin DOMAIN span => tb[p] = time_bin[p],
         NEW g, g = [c \in Under(s) |-> JoinSpans(SpansOf(ti_current + 1, tb, cell_of, c))]
  PROVE  IsTight(g, s, Visited(s, flag, sub), flag, sub, span)
<1> DEFINE old == [p \in Part |-> StepSpan(ti_current + 1, time_bin[p])]
           new == [p \in Part |-> StepSpan(ti_current + 1, tb[p])]
           O(c) == {old[p] : p \in PartsIn(c)}
           R(c) == {new[p] : p \in PartsIn(c)}
           X == DOMAIN span
           vis == Visited(s, flag, sub)
<1>0. /\ cell_of \in Layouts /\ ti_current \in Nat /\ time_bin \in [Part -> AllBins]
      /\ s \in Cell
  BY SuperAssumption DEF StepInv, Typed, OnLine
<1>1. ASSUME NEW c
      PROVE  /\ O(c) = SpansOf(ti_current + 1, time_bin, cell_of, c)
             /\ R(c) = SpansOf(ti_current + 1, tb, cell_of, c)
  BY InCellParts DEF SpansOf, PartsIn
<1>2. ASSUME NEW c
      PROVE  Bounded(O(c), ti_current) /\ Bounded(R(c), ti_current)
  <2>1. /\ Bounded(SpansOf(ti_current + 1, time_bin, cell_of, c), ti_current)
        /\ Bounded(SpansOf(ti_current + 1, tb, cell_of, c), ti_current)
    BY <1>0, SpansBounded
  <2> HIDE DEF O, R
  <2> QED
    BY <2>1, <1>1
<1>3. \A c \in Under(s) : times[c] = JoinSpans(O(c)) /\ g[c] = JoinSpans(R(c)) /\ c \in Cell
  <2>1. \A c \in Under(s) : PostExact(c)
    BY DEF StepInv, CellInv
  <2> HIDE DEF O, R
  <2> QED
    BY <1>1, <2>1 DEF PostExact, Under
<1>4. \A p \in X : p \in Part /\ span[p] = new[p]
  BY DEF Treated, PartsIn
<1>5. \A p \in Part : p \notin X => new[p] = old[p]
  OBVIOUS
<1>6. ASSUME NEW p \in Part
      PROVE  new[p].end <= old[p].end /\ old[p].beg <= new[p].beg
  <2>1. CASE p \in X
    BY <2>1
  <2>2. CASE p \notin X
    <3>1. /\ StepSpan(ti_current + 1, time_bin[p]).end \in Int
          /\ StepSpan(ti_current + 1, time_bin[p]).beg \in Int
      <4>1. ti_current + 1 \in Nat /\ time_bin[p] \in AllBins
        BY <1>0
      <4> QED
        BY <4>1, StepSpanBounds
    <3> QED
      BY <2>2, <3>1
  <2> QED
    BY <2>1, <2>2
<1>7. \A c : PartsIn(c) \subseteq Part
  BY DEF PartsIn
<1> HIDE DEF old, new, X
<1>8. ASSUME NEW c \in Under(s), c \in Leaf
      PROVE  g[c] = JoinSpans({times[c]} \cup {span[p] : p \in {q \in X : cell_of[q] = c}})
  <2> DEFINE N == {span[p] : p \in {q \in X : cell_of[q] = c}}
  <2>0. c \in Cell
    BY <1>3
  <2>1. \A q \in X : cell_of[q] = c <=> q \in PartsIn(c)
    BY <2>0, <1>0, <1>4, <1>8, PartsInCell, SelfAbove DEF PartsIn
  <2>2. N \subseteq R(c) /\ \A p \in PartsIn(c) : p \in X => new[p] \in N
    BY <2>1, <1>4
  <2>3. Bounded(N, ti_current)
    BY <2>2, <1>2 DEF Bounded
  <2>4. \A x \in R(c) : x.end \in Int /\ x.beg \in Int
    BY <1>2 DEF Bounded
  <2>5. Covers(R(c), N)
    <3> HIDE DEF R, N
    <3> QED
      BY <2>2, <2>4 DEF Covers
  <2>6. \A x \in R(c) : \E y \in O(c) \cup N : y.end <= x.end /\ x.beg <= y.beg
    <3> SUFFICES ASSUME NEW p \in PartsIn(c) PROVE new[p] \in O(c) \cup N
      BY <2>4
    <3> QED
      BY <2>2, <1>5, <1>7
  <2>7. \A x \in O(c) : \E y \in R(c) : y.end <= x.end /\ x.beg <= y.beg
    BY <1>6, <1>7
  <2>8. Bounded(O(c), ti_current) /\ Bounded(R(c), ti_current) /\ ti_current \in Nat
    BY <1>0, <1>2
  <2> HIDE DEF N, O, R
  <2>9. JoinSpans({JoinSpans(O(c))} \cup N) = JoinSpans(R(c))
    BY <2>3, <2>5, <2>6, <2>7, <2>8, TightJoin DEF Tightens
  <2> QED
    BY <1>3, <2>9 DEF N
<1>9. ASSUME NEW c \in Under(s), c \notin Leaf
      PROVE  g[c] = JoinSpans({times[c]} \cup {g[d] : d \in Progeny(c)})
  <2> DEFINE N == {g[d] : d \in Progeny(c)}
  <2>0. c \in Cell
    BY <1>3
  <2>1. \A d \in Progeny(c) : g[d] = JoinSpans(R(d)) /\ R(d) \subseteq R(c)
    <3>1. \A d \in Progeny(c) : g[d] = JoinSpans(R(d))
      BY <1>0, <1>3, ProgenyStayUnder
    <3>2. \A d \in Progeny(c) : PartsIn(d) \subseteq PartsIn(c)
      BY <2>0, <1>0, <1>9, PartsInCell
    <3> QED
      BY <3>1, <3>2
  <2>2. \A p \in PartsIn(c) : \E d \in Progeny(c) : new[p] \in R(d)
    BY <2>0, <1>0, <1>9, PartsInCell
  <2>3. /\ Bounded(R(c), ti_current) /\ Bounded(O(c), ti_current)
        /\ \A d \in Progeny(c) : Bounded(R(d), ti_current)
    BY <1>2
  <2>4. \A x \in N : \E d \in Progeny(c) : x = JoinSpans(R(d))
    BY <2>1
  <2>5. \A d \in Progeny(c) : JoinSpans(R(d)) \in N
    BY <2>1
  <2> HIDE DEF N, R
  <2>6. \A x \in N : Bounded({x}, ti_current) /\ Covers(R(c), {x})
    BY <2>1, <2>3, <2>4, <1>0, JoinedCovered
  <2>7. Bounded(N, ti_current) /\ Covers(R(c), N)
    BY <2>6 DEF Bounded, Covers
  <2>8. \A x \in R(c) : \E y \in O(c) \cup N : y.end <= x.end /\ x.beg <= y.beg
    <3> SUFFICES ASSUME NEW p \in PartsIn(c)
                 PROVE  \E y \in N : y.end <= new[p].end /\ new[p].beg <= y.beg
      BY DEF R
    <3>1. PICK d \in Progeny(c) : new[p] \in R(d)
      BY <2>2
    <3>2. /\ JoinSpans(R(d)).end <= new[p].end
          /\ new[p].beg <= JoinSpans(R(d)).beg
      BY <3>1, <2>3, <1>0, JoinFacts
    <3> QED
      BY <3>2, <2>5
  <2>9. \A x \in O(c) : \E y \in R(c) : y.end <= x.end /\ x.beg <= y.beg
    BY <1>6, <1>7 DEF R
  <2> HIDE DEF O
  <2>10. JoinSpans({JoinSpans(O(c))} \cup N) = JoinSpans(R(c))
    BY <1>0, <2>3, <2>7, <2>8, <2>9, TightJoin DEF Tightens
  <2> QED
    BY <1>3, <2>10 DEF N
<1>10. ASSUME NEW c \in Under(s), c \notin Leaf, ~(c \in vis /\ Entered(c, s, flag, sub))
       PROVE  g[c] = times[c]
  <2>1. ASSUME NEW p \in PartsIn(c) PROVE p \notin X
    <3> SUFFICES ASSUME p \in X PROVE FALSE
      OBVIOUS
    <3>1. p \in Treated(s, flag, sub)
      BY DEF X
    <3> QED
      BY <3>1, <1>0, <1>10, TreatedEntered
  <2>2. R(c) = O(c)
    BY <2>1, <1>5, <1>7
  <2> HIDE DEF R, O
  <2> QED
    BY <2>2, <1>3
<1> HIDE DEF vis
<1>11. g = [c \in Under(s) |-> g[c]]
  OBVIOUS
<1>12. ASSUME NEW c \in Under(s)
       PROVE  g[c] = IF c \in Leaf
        THEN JoinSpans({times[c]} \cup
                  {span[p] : p \in {q \in X : cell_of[q] = c}})
        ELSE IF c \in vis /\ Entered(c, s, flag, sub)
             THEN JoinSpans({times[c]} \cup {g[d] : d \in Progeny(c)})
             ELSE times[c]
  BY <1>8, <1>9, <1>10, Zenon
<1>13. IsTight(g, s, vis, flag, sub, span)
  BY <1>11, <1>12, Zenon DEF IsTight, X
<1> QED
  BY <1>13 DEF vis

(***************************************************************************)
(* A limiter loop.  Its wakers have their new bins already, and it asks    *)
(* nobody for more than the bin below his own.                             *)
(***************************************************************************)
LEMMA Wakes ==
  ASSUME StepInv, running, NEW t \in Tasks, Before("loop", t) \cap todo = {},
         NEW deep \in SUBSET Part, NEW p \in Part
  PROVE  /\ \A w \in Woken(t, deep, p) :
               w \in -NumBins .. -1 /\ -w + NeighbourMaxDeltaBin < time_bin[p]
         /\ Woken(t, deep, p) # {} => <<"timestep", Home(p)>> \notin todo
<1>0. cell_of \in Layouts /\ time_bin \in [Part -> AllBins] /\ t \subseteq Tasked
  BY SuperAssumption DEF StepInv, Typed
<1>1. ASSUME NEW c \in t, NEW q \in PartsIn(c)
      PROVE  <<"timestep", Home(q)>> \notin todo
  <2>1. c \in Tasked /\ SuperOf(c) \in Super /\ SuperOf(c) \in Ancestors[c] /\ c \in Cell
    BY <1>0, SuperAbove
  <2>2. q \in Part /\ cell_of[q] \in Cell /\ c \in Ancestors[cell_of[q]]
    BY <1>0, HomeOf DEF PartsIn
  <2>3. q \in PartsIn(SuperOf(c))
    BY <2>1, <2>2, AncestorAssumption DEF PartsIn
  <2>4. SuperOf(c) = Home(q)
    BY <1>0, <2>1, <2>2, <2>3, HomeOf
  <2> QED
    BY <2>4 DEF Before
<1>2. ASSUME NEW q \in Wakers(t, deep, p)
      PROVE  time_bin[q] \in Bins /\ <<"timestep", Home(p)>> \notin todo
  <2>1. PICK ci \in t, cj \in t : q \in PartsIn(ci) /\ p \in PartsIn(cj)
    BY DEF Wakers
  <2>2. <<"timestep", Home(q)>> \notin todo /\ <<"timestep", Home(p)>> \notin todo
    BY <1>1, <2>1
  <2>3. q \in Part /\ time_bin[q] # 0
    BY <2>1, <2>2 DEF StepInv, BinInv, PartsIn
  <2> QED
    BY <2>2, <2>3, <1>0, BinAssumption DEF AllBins, Bins
<1>3. ASSUME NEW w \in Woken(t, deep, p)
      PROVE  /\ w \in -NumBins .. -1 /\ -w + NeighbourMaxDeltaBin < time_bin[p]
             /\ <<"timestep", Home(p)>> \notin todo
  <2>1. PICK q \in Wakers(t, deep, p) :
          w = -time_bin[q] /\ time_bin[p] > time_bin[q] + NeighbourMaxDeltaBin
    BY DEF Woken
  <2>2. time_bin[q] \in Bins /\ <<"timestep", Home(p)>> \notin todo
    BY <1>2
  <2>3. -(-time_bin[q]) = time_bin[q] /\ time_bin[p] \in Int
    BY <2>2, <1>0 DEF Bins, AllBins
  <2> QED
    BY <2>1, <2>2, <2>3, BinAssumption DEF Bins, NeighbourMaxDeltaBin
<1> QED
  BY <1>3

LEMMA StepLoop ==
  ASSUME FlagInv, StepInv, NEW t \in Tasks, NEW deep \in SUBSET Part, LimiterLoop(t, deep)
  PROVE  StepInv'
<1>1. Run("loop", t)
  BY DEF LimiterLoop
<1>2. running /\ todo' = todo \ {<<"loop", t>>}
  BY <1>1, TaskRuns
<1>3. /\ UNCHANGED <<ti_current, running, cell_of, time_bin, min_ngb_time_bin, ti_kick, torn,
                     times>>
      /\ wakeup' = [p \in Part |-> Max({wakeup[p]} \cup Woken(t, deep, p))]
      /\ cap' = [p \in Part |-> Min({cap[p]} \cup
                  {-w + NeighbourMaxDeltaBin : w \in Woken(t, deep, p)})]
  BY DEF LimiterLoop, clock
<1>4. BinInv' /\ KickInv' /\ CellInv'
  BY <1>2, <1>3, Quiet
<1>5. TodoInv'
  BY <1>2, TodoRun DEF StepInv
<1>6. Typed'
  BY <1>3 DEF StepInv, Typed
<1>7. ASSUME NEW p \in Part
      PROVE  /\ wakeup'[p] \in -NumBins .. -1
             /\ cap'[p] \in Bins
             /\ wakeup'[p] = NotAwake => time_bin[p] <= cap'[p]
             /\ wakeup'[p] # NotAwake =>
                  /\ -wakeup'[p] + NeighbourMaxDeltaBin <= cap'[p]
                  /\ -wakeup'[p] + NeighbourMaxDeltaBin < time_bin[p]
                  /\ <<"timestep", Home(p)>> \notin todo
             /\ <<"timestep", Home(p)>> \in todo => cap'[p] = NumBins
  <2> DEFINE W == Woken(t, deep, p)
             A == {wakeup[p]} \cup W
             C == {cap[p]} \cup {-w + NeighbourMaxDeltaBin : w \in W}
  <2>1. /\ \A w \in W : w \in -NumBins .. -1 /\ -w + NeighbourMaxDeltaBin < time_bin[p]
        /\ W # {} => <<"timestep", Home(p)>> \notin todo
    BY <1>1, <1>2, Wakes DEF Run
  <2>2. /\ wakeup[p] \in -NumBins .. -1 /\ cap[p] \in Bins
        /\ wakeup[p] = NotAwake => time_bin[p] <= cap[p]
        /\ wakeup[p] # NotAwake => /\ -wakeup[p] + NeighbourMaxDeltaBin <= cap[p]
                                   /\ -wakeup[p] + NeighbourMaxDeltaBin < time_bin[p]
                                   /\ <<"timestep", Home(p)>> \notin todo
        /\ <<"timestep", Home(p)>> \in todo => cap[p] = NumBins
        /\ time_bin[p] \in AllBins
        /\ NumBins \in Nat \ {0}
    BY BinAssumption DEF StepInv, Typed, WakeInv, LimitedBin
  <2> HIDE DEF W
  <2>3. wakeup'[p] = Max(A) /\ cap'[p] = Min(C)
    BY <1>3 DEF W
  <2>4. A \in SUBSET Int /\ A # {} /\ \A x \in A : x <= -1 /\ -NumBins <= x
    BY <2>1, <2>2
  <2>5. C \in SUBSET Int /\ C # {} /\ \A x \in C : 1 <= x
    BY <2>1, <2>2 DEF Bins, NeighbourMaxDeltaBin
  <2>6. /\ wakeup[p] \in A /\ W \subseteq A /\ cap[p] \in C
        /\ \A x \in A : x = wakeup[p] \/ x \in W
        /\ \A x \in C : x = cap[p] \/ \E w \in W : x = -w + NeighbourMaxDeltaBin
    OBVIOUS
  <2> HIDE DEF A, C
  <2>7. /\ Max(A) \in A /\ (\A x \in A : x <= Max(A))
        /\ Min(C) \in C /\ (\A x \in C : Min(C) <= x)
    <3>1. Max(A) \in A /\ \A x \in A : x <= Max(A)
      BY <2>4, MaxOf
    <3>2. Min(C) \in C /\ \A x \in C : Min(C) <= x
      BY <2>5, MinOf
    <3> QED BY <3>1, <3>2
  <2> DEFINE m == Max(A)
             n == Min(C)
  <2>8. /\ m \in Int /\ m <= -1 /\ -NumBins <= m /\ n \in Int /\ 1 <= n /\ n <= cap[p]
        /\ wakeup[p] <= m /\ \A w \in W : w <= m
        /\ m = wakeup[p] \/ m \in W
        /\ n = cap[p] \/ \E w \in W : n = -w + NeighbourMaxDeltaBin
    BY <2>4, <2>5, <2>6, <2>7
  <2> HIDE DEF m, n
  <2>9. m \in -NumBins .. -1 /\ n \in Bins
    BY <2>2, <2>8 DEF Bins
  <2>10. ASSUME m = NotAwake PROVE W = {}
    <3> SUFFICES ASSUME NEW w \in W PROVE FALSE
      OBVIOUS
    <3>1. w <= -NumBins /\ w \in Int /\ -w + 2 < NumBins
      BY <2>1, <2>2, <2>8, <2>10 DEF NotAwake, NeighbourMaxDeltaBin, AllBins
    <3> QED
      BY <3>1, <2>2
  <2>11. m = NotAwake => time_bin[p] <= n
    BY <2>2, <2>8, <2>10 DEF NotAwake
  <2>12. ASSUME m # NotAwake
         PROVE  /\ -m + NeighbourMaxDeltaBin < time_bin[p]
                /\ <<"timestep", Home(p)>> \notin todo
    BY <2>1, <2>2, <2>8, <2>12
  <2>13. ASSUME m # NotAwake
         PROVE  -m + NeighbourMaxDeltaBin <= n
    <3>1. CASE n = cap[p]
      <4>1. CASE wakeup[p] # NotAwake
        <5>1. -m + 2 <= -wakeup[p] + 2 /\ wakeup[p] \in Int
          BY <2>2, <2>8
        <5> QED
          BY <3>1, <4>1, <5>1, <2>2, <2>8 DEF NeighbourMaxDeltaBin, Bins
      <4>2. CASE wakeup[p] = NotAwake
        BY <3>1, <4>2, <2>2, <2>8, <2>12, <2>13 DEF NeighbourMaxDeltaBin, Bins, AllBins
      <4> QED
        BY <4>1, <4>2
    <3>2. ASSUME NEW w \in W, n = -w + NeighbourMaxDeltaBin
          PROVE  -m + NeighbourMaxDeltaBin <= n
      <4>1. w <= m /\ w \in Int
        BY <2>1, <2>8
      <4> QED
        BY <3>2, <4>1, <2>8 DEF NeighbourMaxDeltaBin
    <3> QED
      BY <3>1, <3>2, <2>8
  <2>14. <<"timestep", Home(p)>> \in todo => n = NumBins
    BY <2>1, <2>2, <2>8
  <2>15. wakeup'[p] = m /\ cap'[p] = n
    BY <2>3 DEF m, n
  <2> QED
    BY <2>9, <2>11, <2>12, <2>13, <2>14, <2>15
<1>8. WakeInv'
  <2>1. \A p \in Part : Home(p)' = Home(p)
    BY <1>3 DEF Home
  <2>2. /\ wakeup' = [p \in Part |-> wakeup'[p]]
        /\ cap' = [p \in Part |-> cap'[p]]
    BY <1>3
  <2>3. /\ wakeup' \in [Part -> -NumBins .. -1]
        /\ cap' \in [Part -> Bins]
    BY <2>2, <1>7
  <2> QED
    BY <2>1, <2>3, <1>2, <1>3, <1>7 DEF WakeInv, LimitedBin, NotAwake
<1> QED
  BY <1>4, <1>5, <1>6, <1>8 DEF StepInv

(***************************************************************************)
(* The limiter and the synchronisation.  A shorter step lies within the    *)
(* longer one around the same time.                                        *)
(***************************************************************************)
LEMMA ShorterStep ==
  ASSUME NEW t \in Nat, NEW a \in Bins, NEW b \in Bins, b < a
  PROVE  /\ StepSpan(t, b).end <= StepSpan(t, a).end
         /\ StepSpan(t, a).beg <= StepSpan(t, b).beg
<1> DEFINE da == get_integer_timestep(a)
           db == get_integer_timestep(b)
           A  == get_integer_time_begin(t, a)
           B  == get_integer_time_begin(t, b)
<1>1. /\ StepSpan(t, b).end = get_integer_time_end(t, b) /\ StepSpan(t, b).beg = B
      /\ StepSpan(t, a).end = get_integer_time_end(t, a) /\ StepSpan(t, a).beg = A
  BY SpanParts DEF StepSpan
<1>2. /\ da \in Nat \ {0} /\ db \in Nat \ {0} /\ Multiple(da, db)
  <2>1. b <= a
    BY DEF Bins
  <2> QED
    BY <2>1, Timestep1, Timestep2
<1>3. /\ A \in Int /\ Multiple(A, da) /\ A < t /\ t <= A + da
      /\ get_integer_time_end(t, a) = A + da
      /\ B \in Int /\ Multiple(B, db) /\ B < t /\ t <= B + db
      /\ get_integer_time_end(t, b) = B + db
  BY BeginEnd
<1> HIDE DEF da, db, A, B
<1>4. Multiple(A, db)
  BY <1>2, <1>3, MultipleTrans
<1>5. Multiple(A + da, db) /\ A + da \in Int
  BY <1>2, <1>3, <1>4, MultipleSum
<1>6. B + db <= A + da
  <2>1. B < A + da
    BY <1>2, <1>3
  <2> QED
    BY <2>1, <1>2, <1>3, <1>5, MultipleGap
<1>7. A <= B
  <2> SUFFICES ASSUME B < A PROVE FALSE
    BY <1>3
  <2>1. B + db <= A
    BY <1>2, <1>3, <1>4, MultipleGap
  <2> QED
    BY <2>1, <1>2, <1>3
<1> QED
  BY <1>1, <1>3, <1>6, <1>7

(* Particles of s get shorter steps, and are kicked to where these want    *)
(* them.                                                                   *)
LEMMA StepShorter ==
  ASSUME FlagInv, StepInv, NEW s \in Super, NEW k \in {"limiter", "sync"}, Run(k, s),
         UNCHANGED <<ti_current, running, cell_of, min_ngb_time_bin, cap>>,
         NEW flag, NEW sub, NEW bin, DOMAIN bin \subseteq Treated(s, flag, sub),
         \A p \in DOMAIN bin : bin[p] \in Bins /\ bin[p] < time_bin[p] /\ bin[p] <= cap[p],
         time_bin' = Override(time_bin, bin),
         wakeup' = Override(wakeup, [p \in DOMAIN bin |-> NotAwake]),
         ~torn', DOMAIN ti_kick' = Part,
         \A p \in Part : p \notin DOMAIN bin => ti_kick'[p] = ti_kick[p],
         \A p \in DOMAIN bin : ti_kick'[p] =
            IF bin[p] <= max_active_bin THEN ti_current
            ELSE get_integer_time_begin(ti_current + 1, bin[p])
                   + get_integer_timestep(bin[p]) \div 2,
         NEW span, DOMAIN span = DOMAIN bin,
         \A p \in DOMAIN bin : span[p] = StepSpan(ti_current + 1, bin[p]),
         times' = Tightened(s, Visited(s, flag, sub), flag, sub, span)
  PROVE  StepInv'
<1> DEFINE X == DOMAIN bin
<1>1. running /\ todo' = todo \ {<<k, s>>} /\ <<k, s>> \in todo
  BY TaskRuns
<1>2. <<"timestep", s>> \notin todo
  BY DEF Run, Before
<1>3. <<"kick2", s>> \notin todo /\ <<"kick1", s>> \in todo
  BY <1>1, <1>2 DEF StepInv, TodoInv
<1>4. TodoInv'
  BY <1>1, TodoRun DEF StepInv
<1>5. /\ cell_of \in Layouts /\ ti_current \in Nat /\ time_bin \in [Part -> AllBins]
      /\ s \in Cell /\ wakeup \in [Part -> -NumBins .. -1]
  BY SuperAssumption DEF StepInv, Typed, OnLine, WakeInv
<1>6. \A p \in X : p \in Part /\ p \in PartsIn(s) /\ Home(p) = s
  BY <1>5, HomeOf DEF Treated, PartsIn
<1> HIDE DEF X
<1>7. /\ DOMAIN time_bin' = Part
      /\ \A p \in Part : time_bin'[p] = IF p \in X THEN bin[p] ELSE time_bin[p]
  BY <1>5, OverrideAt DEF X
<1>8. /\ DOMAIN wakeup' = Part
      /\ \A p \in Part : wakeup'[p] = IF p \in X THEN NotAwake ELSE wakeup[p]
  <2> DEFINE w == [p \in X |-> NotAwake]
  <2>1. wakeup' = Override(wakeup, w) /\ DOMAIN w = X /\ \A p \in X : w[p] = NotAwake
    BY DEF X
  <2>2. DOMAIN wakeup = Part
    BY <1>5
  <2> HIDE DEF w
  <2>3. /\ DOMAIN Override(wakeup, w) = Part
        /\ \A x \in Part : Override(wakeup, w)[x] = IF x \in DOMAIN w THEN w[x] ELSE wakeup[x]
    BY <2>2 DEF Override
  <2> QED
    BY <2>1, <2>3, Zenon
<1>9. time_bin' \in [Part -> AllBins]
  <2>1. \A p \in Part : time_bin'[p] \in AllBins
    BY <1>5, <1>7 DEF AllBins, Bins, X
  <2>2. time_bin' = [p \in Part |-> time_bin'[p]]
    BY <1>5 DEF Override
  <2> QED
    BY <2>1, <2>2
<1>10. \A p \in Part : Home(p)' = Home(p)
  BY DEF Home
<1>11. BinInv'
  <2> SUFFICES ASSUME NEW p \in Part, time_bin'[p] = 0
               PROVE  ti_current' = 0 /\ <<"timestep", Home(p)'>> \in todo'
    BY <1>1 DEF BinInv
  <2>1. p \notin X
    BY <1>7 DEF X, Bins
  <2>2. ti_current = 0 /\ <<"timestep", Home(p)>> \in todo
    BY <2>1, <1>1, <1>7 DEF StepInv, BinInv
  <2> QED
    BY <2>2, <1>1, <1>10
<1>12. WakeInv'
  <2>1. wakeup' \in [Part -> -NumBins .. -1]
    <3>1. \A p \in Part : wakeup'[p] \in -NumBins .. -1
      BY <1>5, <1>8, BinAssumption DEF NotAwake
    <3>2. wakeup' = [p \in Part |-> wakeup'[p]]
      BY <1>5 DEF Override
    <3> QED
      BY <3>1, <3>2
  <2>2. ASSUME NEW p \in Part
        PROVE  /\ wakeup'[p] = NotAwake => time_bin'[p] <= cap[p]
               /\ wakeup'[p] # NotAwake =>
                    /\ LimitedBin(p)' <= cap[p] /\ LimitedBin(p)' < time_bin'[p]
                    /\ <<"timestep", Home(p)>> \notin todo
    <3>1. CASE p \in X
      BY <3>1, <1>7, <1>8 DEF X
    <3>2. CASE p \notin X
      BY <3>2, <1>7, <1>8 DEF StepInv, WakeInv, LimitedBin
    <3> QED
      BY <3>1, <3>2
  <2>3. \A p \in Part : <<"timestep", Home(p)>> \in todo => cap[p] = NumBins
    BY DEF StepInv, WakeInv
  <2>4. cap' \in [Part -> Bins]
    BY DEF StepInv, WakeInv
  <2>5. \A p \in Part : <<"timestep", Home(p)'>> \in todo' => <<"timestep", Home(p)>> \in todo
    BY <1>1, <1>10
  <2> QED
    BY <2>1, <2>2, <2>3, <2>4, <2>5 DEF WakeInv, NotAwake
<1>13. KickInv'
  <2> SUFFICES ASSUME NEW p \in Part PROVE ti_kick'[p] = KickedTo(p)'
    BY DEF StepInv, KickInv
  <2>1. CASE p \in X
    <3>1. time_bin'[p] = bin[p] /\ Home(p)' = s
      BY <2>1, <1>6, <1>7, <1>10
    <3>2. <<"kick2", s>> \notin todo' /\ <<"kick1", s>> \in todo'
      BY <1>1, <1>3
    <3>3. Active(p)' <=> bin[p] <= max_active_bin
      BY <3>1 DEF Active, max_active_bin
    <3>4. StepBegin(p)' = get_integer_time_begin(ti_current + 1, bin[p])
      BY <3>1 DEF StepBegin
    <3>5. Half(p)' = get_integer_timestep(bin[p]) \div 2
      BY <3>1 DEF Half
    <3>6. KickedTo(p)' = IF bin[p] <= max_active_bin THEN ti_current
            ELSE get_integer_time_begin(ti_current + 1, bin[p])
                   + get_integer_timestep(bin[p]) \div 2
      BY <3>1, <3>2, <3>3, <3>4, <3>5 DEF KickedTo
    <3> QED
      BY <2>1, <3>6 DEF X
  <2>2. CASE p \notin X
    <3>1. time_bin'[p] = time_bin[p] /\ ti_kick'[p] = ti_kick[p]
      BY <2>2, <1>7 DEF X
    <3>2. /\ Active(p)' <=> Active(p)
          /\ Half(p)' = Half(p) /\ StepBegin(p)' = StepBegin(p)
      BY <3>1 DEF Active, max_active_bin, Half, StepBegin
    <3>3. ti_kick[p] = KickedTo(p)
      BY DEF StepInv, KickInv
    <3> QED
      BY <3>1, <3>2, <3>3, <1>1, <1>10 DEF KickedTo
  <2> QED
    BY <2>1, <2>2
<1> DEFINE g == [c \in Under(s) |-> JoinSpans(SpansOf(ti_current + 1, time_bin', cell_of, c))]
<1>14. IsTight(g, s, Visited(s, flag, sub), flag, sub, span)
  <2>1. DOMAIN span = X /\ X \subseteq Treated(s, flag, sub)
    BY DEF X
  <2>2. ASSUME NEW p \in X
        PROVE  /\ span[p] = StepSpan(ti_current + 1, time_bin'[p])
               /\ span[p].end <= StepSpan(ti_current + 1, time_bin[p]).end
               /\ StepSpan(ti_current + 1, time_bin[p]).beg <= span[p].beg
    <3>1. span[p] = StepSpan(ti_current + 1, bin[p]) /\ bin[p] \in Bins /\ bin[p] < time_bin[p]
      BY DEF X
    <3>2. time_bin[p] \in Bins /\ ti_current + 1 \in Nat /\ time_bin'[p] = bin[p]
      BY <3>1, <1>5, <1>6, <1>7 DEF AllBins, Bins
    <3> QED
      BY <3>1, <3>2, ShorterStep
  <2>3. \A p \in Part : p \notin X => time_bin'[p] = time_bin[p]
    BY <1>7
  <2>4. g = [c \in Under(s) |-> JoinSpans(SpansOf(ti_current + 1, time_bin', cell_of, c))]
    OBVIOUS
  <2> HIDE DEF g
  <2> QED
    BY <2>1, <2>2, <2>3, <2>4, <1>2, <1>9, TightExact
<1>15. times' = Override(times, g)
  <2> HIDE DEF g
  <2> QED
    BY <1>5, <1>14, TightenedIs
<1>16. CellInv' /\ DOMAIN times' = Cell
  <2>1. \A p \in Part : p \notin PartsIn(s) => time_bin'[p] = time_bin[p]
    BY <1>6, <1>7
  <2>2. DOMAIN g = Under(s) /\ \A c \in Under(s) :
           g[c] = JoinSpans(SpansOf(ti_current + 1, time_bin', cell_of, c))
    OBVIOUS
  <2>3. <<"timestep", s>> \notin todo'
    BY <1>1, <1>2
  <2> HIDE DEF g
  <2> QED
    BY <2>1, <2>2, <2>3, <1>1, <1>15, CellsOfSuper
<1>17. Typed'
  BY <1>9, <1>16 DEF StepInv, Typed
<1> QED
  BY <1>4, <1>11, <1>12, <1>13, <1>16, <1>17 DEF StepInv

(* Whoever is in mid-step has been kicked to the middle of his step. *)
LEMMA MidStepKick ==
  ASSUME StepInv, running, NEW p \in Part, ~Active(p)
  PROVE  time_bin[p] \in Bins /\ ti_kick[p] = EndHalfOld(p)
<1> DEFINE b == time_bin[p]
           B == get_integer_time_begin(ti_current, b)
           d == get_integer_timestep(b)
<1>1. OnLine(ti_current) /\ ti_current \in Nat /\ b \in AllBins
  BY DEF StepInv, Typed, OnLine
<1>2. b \in Bins /\ ~(b <= get_max_active_bin(ti_current))
  <2>1. get_max_active_bin(ti_current) \in Bins
    BY <1>1, MaxActive
  <2> QED
    BY <1>1, <2>1 DEF Active, max_active_bin, AllBins, Bins
<1> HIDE DEF b
<1>3. /\ get_integer_time_begin(ti_current + 1, b) = B
      /\ get_integer_time_end(ti_current, b) = B + d
      /\ B \in Int /\ d \in Nat
  BY <1>1, <1>2, InMidStep, BeginEnd, Timestep1
<1>4. ti_kick[p] = get_integer_time_begin(ti_current + 1, b) + d \div 2
  BY DEF StepInv, KickInv, KickedTo, StepBegin, Half, b
<1>5. EndHalfOld(p) = B + (get_integer_time_end(ti_current, b) - B) \div 2
  BY DEF EndHalfOld, b
<1> HIDE DEF B, d
<1>6. (B + d) - B = d
  BY <1>3
<1> QED
  BY <1>2, <1>3, <1>4, <1>5, <1>6 DEF b

LEMMA SyncBinOf ==
  ASSUME StepInv, running, NEW p \in Part, ~Active(p), NEW wish \in Bins
  PROVE  /\ SyncBin(p, wish) \in Bins /\ SyncBin(p, wish) <= max_active_bin
         /\ SyncBin(p, wish) < time_bin[p] /\ SyncBin(p, wish) <= cap[p]
<1> DEFINE step == make_integer_timestep(wish, -1, min_ngb_time_bin[p])
           S == {get_time_bin(step), max_active_bin} \cup
                (IF wakeup[p] = NotAwake THEN {} ELSE {LimitedBin(p)})
<1>1. /\ OnLine(ti_current) /\ min_ngb_time_bin[p] \in 1 .. NumBins + 1
      /\ time_bin[p] \in AllBins /\ cap[p] \in Bins /\ NumBins \in Nat \ {0}
      /\ wakeup[p] \in -NumBins .. -1
      /\ wakeup[p] = NotAwake => time_bin[p] <= cap[p]
      /\ wakeup[p] # NotAwake => LimitedBin(p) <= cap[p]
  BY BinAssumption DEF StepInv, Typed, WakeInv
<1>2. get_time_bin(step) \in Bins
  <2>1. -1 \in -1 .. NumBins /\ ~(-1 >= 1)
    BY <1>1
  <2>2. PICK b \in Bins : step = get_integer_timestep(b)
    BY <1>1, <2>1, NewStep
  <2> HIDE DEF step
  <2> QED
    BY <2>2, TimeBinOf
<1>3. max_active_bin \in Bins
  BY <1>1, MaxActive DEF max_active_bin
<1>4. wakeup[p] # NotAwake => LimitedBin(p) \in Bins
  BY <1>1 DEF LimitedBin, Bins, NeighbourMaxDeltaBin
<1> HIDE DEF step
<1>5. S \subseteq Bins /\ S # {} /\ max_active_bin \in S
  BY <1>2, <1>3, <1>4
<1>6. wakeup[p] # NotAwake => LimitedBin(p) \in S
  OBVIOUS
<1>7. SyncBin(p, wish) = Min(S)
  BY DEF SyncBin, step
<1> HIDE DEF S
<1>8. S \in SUBSET Int /\ \A x \in S : 1 <= x
  BY <1>5 DEF Bins
<1>9. Min(S) \in S /\ \A x \in S : Min(S) <= x
  BY <1>5, <1>8, MinOf
<1>10. /\ Min(S) \in Bins /\ Min(S) <= max_active_bin
       /\ wakeup[p] # NotAwake => Min(S) <= LimitedBin(p)
  BY <1>5, <1>6, <1>9
<1>11. Min(S) < time_bin[p]
  <2>1. ~(time_bin[p] <= max_active_bin)
    BY DEF Active
  <2> QED
    BY <2>1, <1>1, <1>3, <1>10 DEF AllBins, Bins
<1>12. Min(S) <= cap[p]
  <2>1. Min(S) \in Int /\ cap[p] \in Int /\ time_bin[p] \in Int
    BY <1>1, <1>10 DEF AllBins, Bins
  <2>2. wakeup[p] # NotAwake => LimitedBin(p) \in Int
    BY <1>4 DEF Bins
  <2> QED
    BY <2>1, <2>2, <1>1, <1>10, <1>11
<1> QED
  BY <1>7, <1>10, <1>11, <1>12

LEMMA StepSync ==
  ASSUME FlagInv, StepInv, NEW s \in Super, Sync(s)
  PROVE  StepInv'
<1> DEFINE X == ToSync(s)
           kick == [p \in X |-> [from |-> EndHalfOld(p), to |-> ti_current]]
<1>1. PICK bin \in SyncBins(X) :
        /\ KickParts([p \in DOMAIN bin |-> [from |-> EndHalfOld(p), to |-> ti_current]])
        /\ time_bin' = Override(time_bin, bin)
        /\ wakeup' = Override(wakeup, [p \in DOMAIN bin |-> NotAwake])
        /\ times' = Tightened(s, Visited(s, do_sync, do_sub_sync), do_sync, do_sub_sync,
             [p \in DOMAIN bin |-> Span(ti_current + get_integer_timestep(bin[p]), ti_current)])
  BY DEF Sync
<1>2. /\ Run("sync", s)
      /\ UNCHANGED <<ti_current, running, cell_of, min_ngb_time_bin, cap>>
  BY DEF Sync, clock
<1>3. running
  BY <1>2, TaskRuns
<1>4. PICK w \in WishesOf(X) : bin = [p \in X |-> SyncBin(p, w[p])]
  BY <1>1 DEF SyncBins
<1>5. DOMAIN bin = X /\ X \subseteq Treated(s, do_sync, do_sub_sync)
  BY <1>4 DEF ToSync
<1>6. \A p \in X : p \in Part /\ ~Active(p)
  BY DEF ToSync, Treated, PartsIn
<1> HIDE DEF X
<1>7. ASSUME NEW p \in X
      PROVE  /\ bin[p] \in Bins /\ bin[p] <= max_active_bin
             /\ bin[p] < time_bin[p] /\ bin[p] <= cap[p]
  <2>1. bin[p] = SyncBin(p, w[p]) /\ w[p] \in Bins
    BY <1>4 DEF WishesOf, Bins
  <2> QED
    BY <2>1, <1>3, <1>6, SyncBinOf
<1>8. /\ DOMAIN kick = X
      /\ \A p \in X : kick[p].from = EndHalfOld(p) /\ kick[p].to = ti_current
  OBVIOUS
<1>9. KickParts(kick)
  BY <1>1, <1>5
<1> HIDE DEF kick
<1>10. DOMAIN ti_kick = Part
  BY DEF StepInv, Typed
<1>11. /\ DOMAIN ti_kick' = Part
       /\ \A p \in Part : p \notin X => ti_kick'[p] = ti_kick[p]
       /\ \A p \in X : ti_kick'[p] = ti_current
  <2> DEFINE to == [p \in DOMAIN kick |-> kick[p].to]
  <2>1. /\ ti_kick' = Override(ti_kick, to) /\ DOMAIN to = X
        /\ \A p \in X : to[p] = ti_current
    BY <1>8, <1>9 DEF KickParts
  <2> HIDE DEF to
  <2> QED
    BY <2>1, <1>6, <1>10, OverrideAt
<1>12. ~torn'
  <2>1. \A p \in X : ti_kick[p] = kick[p].from
    BY <1>3, <1>6, <1>8, MidStepKick
  <2>2. ~torn
    BY DEF StepInv, KickInv
  <2>3. torn' = (torn \/ \E p \in DOMAIN kick : ti_kick[p] # kick[p].from)
    BY <1>9 DEF KickParts
  <2> QED
    BY <2>1, <2>2, <2>3, <1>8
<1> DEFINE span == [p \in DOMAIN bin |-> Span(ti_current + get_integer_timestep(bin[p]), ti_current)]
<1>13. ASSUME NEW p \in X
       PROVE  span[p] = StepSpan(ti_current + 1, bin[p])
  <2>1. /\ get_integer_time_begin(ti_current + 1, bin[p]) = ti_current
        /\ get_integer_time_end(ti_current + 1, bin[p])
             = ti_current + get_integer_timestep(bin[p])
    BY <1>7, AtStart DEF max_active_bin, StepInv, Typed
  <2> QED
    BY <2>1, <1>5 DEF StepSpan
<1>14. DOMAIN span = DOMAIN bin
  OBVIOUS
<1>15. times' = Tightened(s, Visited(s, do_sync, do_sub_sync), do_sync, do_sub_sync, span)
  BY <1>1
<1> HIDE DEF span
<1>16. /\ \A p \in DOMAIN bin : ti_kick'[p] =
            IF bin[p] <= max_active_bin THEN ti_current
            ELSE get_integer_time_begin(ti_current + 1, bin[p])
                   + get_integer_timestep(bin[p]) \div 2
       /\ \A p \in DOMAIN bin :
            bin[p] \in Bins /\ bin[p] < time_bin[p] /\ bin[p] <= cap[p]
       /\ \A p \in Part : p \notin DOMAIN bin => ti_kick'[p] = ti_kick[p]
       /\ \A p \in DOMAIN bin : span[p] = StepSpan(ti_current + 1, bin[p])
       /\ DOMAIN bin \subseteq Treated(s, do_sync, do_sub_sync)
  BY <1>5, <1>7, <1>11, <1>13
<1>17. "sync" \in {"limiter", "sync"} /\ DOMAIN ti_kick' = Part
  BY <1>11
<1> QED
  BY <1>1, <1>2, <1>12, <1>14, <1>15, <1>16, <1>17, StepShorter

(* Where timestep_limit_part finds the step a particle in mid-step gets. *)
LEMMA BegNewIs ==
  ASSUME StepInv, running, NEW p \in Part, ~Active(p), NEW b \in Bins, b < time_bin[p]
  PROVE  BegNew(p, b) = get_integer_time_begin(ti_current + 1, b)
<1> DEFINE a == time_bin[p]
           A == get_integer_time_begin(ti_current, a)
           da == get_integer_timestep(a)
           db == get_integer_timestep(b)
           x == ti_current - A
           q == x \div db
           m == db * q
           r == x % db
           Y == A + m
<1>1. OnLine(ti_current) /\ ti_current \in Nat /\ a \in Bins
  BY MidStepKick DEF StepInv, Typed, OnLine
<1>2. BegNew(p, b) = Y
  BY DEF BegNew
<1> HIDE DEF a
<1>3. da \in Nat \ {0} /\ db \in Nat \ {0} /\ Multiple(da, db)
  <2>1. b <= a
    BY <1>1 DEF Bins, a
  <2> QED
    BY <2>1, <1>1, Timestep1, Timestep2
<1>4. A \in Int /\ Multiple(A, da) /\ A < ti_current
  BY <1>1, BeginEnd
<1> HIDE DEF A, da, db
<1>5. Multiple(A, db)
  BY <1>3, <1>4, MultipleTrans
<1>6. x \in Int
  BY <1>1, <1>4
<1>7. q \in Int /\ x = m + r /\ 0 <= r /\ r < db /\ r \in Int
  <2> HIDE DEF x
  <2> QED
    BY <1>3, <1>6, DivMod
<1> HIDE DEF q, r
<1>8. m \in Int /\ Multiple(m, db)
  <2>1. m = q * db /\ m \in Int
    BY <1>3, <1>7
  <2> HIDE DEF m
  <2> QED
    BY <2>1, <1>7 DEF Multiple
<1> HIDE DEF m
<1>9. /\ Y \in Int /\ Multiple(Y, db)
      /\ Y < ti_current + 1 /\ ti_current + 1 <= Y + db
  <2>1. Multiple(A + m, db)
    BY <1>3, <1>4, <1>5, <1>8, MultipleSum
  <2> QED
    BY <2>1, <1>1, <1>3, <1>4, <1>7, <1>8
<1> HIDE DEF Y
<1>10. get_integer_time_begin(ti_current + 1, b) = Y
  <2>1. ti_current + 1 \in Int
    BY <1>1
  <2> QED
    BY <2>1, <1>9, BeginUnique DEF db
<1> QED
  BY <1>2, <1>10

LEMMA StepLimiter ==
  ASSUME FlagInv, StepInv, NEW s \in Super, Limiter(s)
  PROVE  StepInv'
<1> DEFINE X == ToLimit(s)
           Y == {q \in X : ~Active(q)}
           new(p) == LimitPart(p, LimitedBin(p))
           kick == [p \in Y |-> [from |-> EndHalfOld(p), to |-> new(p).kick]]
           bin == [p \in X |-> LimitedBin(p)]
           span == [p \in X |-> Span(new(p).end,
                                     new(p).end - get_integer_timestep(LimitedBin(p)))]
<1>1. /\ KickParts(kick)
      /\ time_bin' = Override(time_bin, bin)
      /\ wakeup' = Override(wakeup, [p \in X |-> NotAwake])
      /\ times' = Tightened(s, Visited(s, do_limiter, do_sub_limiter), do_limiter,
                            do_sub_limiter, span)
  BY DEF Limiter
<1>2. /\ Run("limiter", s)
      /\ UNCHANGED <<ti_current, running, cell_of, min_ngb_time_bin, cap>>
  BY DEF Limiter, clock
<1>3. running /\ <<"limiter", s>> \in todo
  BY <1>2, TaskRuns
<1>4. /\ \A p \in X : p \in Part /\ p \in PartsIn(s) /\ wakeup[p] # NotAwake
      /\ X \subseteq Treated(s, do_limiter, do_sub_limiter)
  BY DEF ToLimit, Treated, PartsIn
<1>5. /\ DOMAIN bin = X /\ DOMAIN span = X /\ DOMAIN kick = Y
      /\ \A p \in X : bin[p] = LimitedBin(p)
      /\ \A p \in Y : kick[p].from = EndHalfOld(p) /\ kick[p].to = new(p).kick
      /\ \A p \in X : span[p] = Span(new(p).end, new(p).end - get_integer_timestep(bin[p]))
  OBVIOUS
<1>6. /\ \A p \in Y : p \in X /\ ~Active(p)
      /\ \A p \in X : p \notin Y => Active(p)
  OBVIOUS
<1> HIDE DEF X, Y, kick, bin, span
<1>7. OnLine(ti_current) /\ ti_current \in Nat /\ cell_of \in Layouts /\ DOMAIN ti_kick = Part
      /\ time_bin \in [Part -> AllBins]
  BY DEF StepInv, Typed, OnLine
<1>8. ASSUME NEW p \in X
      PROVE  /\ bin[p] \in Bins /\ bin[p] < time_bin[p] /\ bin[p] <= cap[p]
             /\ time_bin[p] \in Bins
  <2>1. /\ wakeup[p] \in -NumBins .. -1 /\ cap[p] \in Bins
        /\ LimitedBin(p) <= cap[p] /\ LimitedBin(p) < time_bin[p]
        /\ NumBins \in Nat /\ time_bin[p] \in AllBins
    BY <1>4, <1>7, BinAssumption DEF StepInv, WakeInv
  <2>2. LimitedBin(p) \in Bins
    BY <2>1 DEF LimitedBin, Bins, NeighbourMaxDeltaBin
  <2> QED
    BY <2>1, <2>2, <1>5 DEF AllBins, Bins
<1>9. ASSUME NEW p \in X
      PROVE  new(p) = IF ~Active(p) /\ bin[p] > max_active_bin
               THEN [kick |-> BegNew(p, bin[p]) + get_integer_timestep(bin[p]) \div 2,
                     end |-> BegNew(p, bin[p]) + get_integer_timestep(bin[p])]
               ELSE [kick |-> BegNew(p, bin[p]),
                     end |-> ti_current + get_integer_timestep(bin[p])]
  BY <1>5 DEF LimitPart
<1> HIDE DEF new
<1>10. max_active_bin \in Bins
  BY <1>7, MaxActive DEF max_active_bin
<1>11. ASSUME NEW p \in X, bin[p] <= max_active_bin
       PROVE  /\ new(p).end = ti_current + get_integer_timestep(bin[p])
              /\ get_integer_time_begin(ti_current + 1, bin[p]) = ti_current
              /\ get_integer_time_end(ti_current + 1, bin[p])
                   = ti_current + get_integer_timestep(bin[p])
              /\ ~Active(p) => new(p).kick = ti_current
  <2>1. ~(bin[p] > max_active_bin)
    BY <1>8, <1>10, <1>11 DEF Bins
  <2>2. /\ new(p).end = ti_current + get_integer_timestep(bin[p])
        /\ new(p).kick = BegNew(p, bin[p])
    BY <2>1, <1>9
  <2>3. /\ get_integer_time_begin(ti_current + 1, bin[p]) = ti_current
        /\ get_integer_time_end(ti_current + 1, bin[p])
             = ti_current + get_integer_timestep(bin[p])
    BY <1>7, <1>8, <1>11, AtStart DEF max_active_bin
  <2>4. ~Active(p) => BegNew(p, bin[p]) = get_integer_time_begin(ti_current + 1, bin[p])
    BY <1>3, <1>4, <1>8, BegNewIs
  <2> QED
    BY <2>2, <2>3, <2>4
<1>12. ASSUME NEW p \in X, ~(bin[p] <= max_active_bin)
       PROVE  /\ ~Active(p)
              /\ new(p).end = get_integer_time_end(ti_current + 1, bin[p])
              /\ new(p).kick = get_integer_time_begin(ti_current + 1, bin[p])
                                 + get_integer_timestep(bin[p]) \div 2
              /\ get_integer_time_end(ti_current + 1, bin[p])
                   = get_integer_time_begin(ti_current + 1, bin[p]) + get_integer_timestep(bin[p])
  <2>1. bin[p] > max_active_bin /\ ~Active(p)
    BY <1>8, <1>10, <1>12 DEF Bins, Active
  <2>2. BegNew(p, bin[p]) = get_integer_time_begin(ti_current + 1, bin[p])
    BY <2>1, <1>3, <1>4, <1>8, BegNewIs
  <2>3. get_integer_time_end(ti_current + 1, bin[p])
          = get_integer_time_begin(ti_current + 1, bin[p]) + get_integer_timestep(bin[p])
    <3>1. ti_current + 1 \in Int
      BY <1>7
    <3> QED
      BY <3>1, <1>8, BeginEnd
  <2> QED
    BY <2>1, <2>2, <2>3, <1>9
<1>13. ASSUME NEW p \in X
       PROVE  span[p] = StepSpan(ti_current + 1, bin[p])
  <2> DEFINE d == get_integer_timestep(bin[p])
             B == get_integer_time_begin(ti_current + 1, bin[p])
             E == get_integer_time_end(ti_current + 1, bin[p])
  <2>1. d \in Nat /\ B \in Int
    <3>1. ti_current + 1 \in Int
      BY <1>7
    <3> QED
      BY <3>1, <1>8, Timestep1, BeginEnd
  <2>2. E = B + d /\ new(p).end = E
    BY <1>11, <1>12
  <2>3. span[p] = Span(new(p).end, new(p).end - d)
    BY <1>5
  <2>4. StepSpan(ti_current + 1, bin[p]) = Span(E, B)
    BY DEF StepSpan
  <2> HIDE DEF d, B, E
  <2>5. (B + d) - d = B
    BY <2>1
  <2> QED
    BY <2>2, <2>3, <2>4, <2>5
<1>14. ASSUME NEW p \in X, p \notin Y
       PROVE  bin[p] <= max_active_bin /\ ti_kick[p] = ti_current
  <2>1. Active(p)
    BY <1>6, <1>14
  <2>2. bin[p] <= max_active_bin
    BY <2>1, <1>8, <1>10 DEF Active, Bins
  <2>3. Home(p) = s
    BY <1>4, <1>7, HomeOf
  <2>4. <<"timestep", s>> \notin todo
    BY <1>2 DEF Run, Before
  <2>5. <<"kick2", s>> \notin todo /\ <<"kick1", s>> \in todo
    BY <2>4, <1>3 DEF StepInv, TodoInv
  <2>6. ti_kick[p] = KickedTo(p)
    BY <1>4 DEF StepInv, KickInv
  <2> QED
    BY <2>1, <2>2, <2>3, <2>5, <2>6 DEF KickedTo
<1>15. /\ DOMAIN ti_kick' = Part
       /\ \A p \in Part : ti_kick'[p] = IF p \in Y THEN new(p).kick ELSE ti_kick[p]
  <2> DEFINE to == [p \in DOMAIN kick |-> kick[p].to]
  <2>1. /\ ti_kick' = Override(ti_kick, to) /\ DOMAIN to = Y
        /\ \A p \in Y : to[p] = new(p).kick
    BY <1>1, <1>5 DEF KickParts
  <2> HIDE DEF to
  <2>2. /\ DOMAIN Override(ti_kick, to) = Part
        /\ \A x \in Part : Override(ti_kick, to)[x] = IF x \in DOMAIN to THEN to[x] ELSE ti_kick[x]
    BY <1>7 DEF Override
  <2> QED
    BY <2>1, <2>2, Zenon
<1>16. ~torn'
  <2>1. \A p \in Y : ti_kick[p] = kick[p].from
    BY <1>3, <1>4, <1>5, <1>6, MidStepKick
  <2>2. ~torn
    BY DEF StepInv, KickInv
  <2>3. torn' = (torn \/ \E p \in DOMAIN kick : ti_kick[p] # kick[p].from)
    BY <1>1 DEF KickParts
  <2> QED
    BY <2>1, <2>2, <2>3, <1>5
<1>17. ASSUME NEW p \in X
       PROVE  ti_kick'[p] =
            IF bin[p] <= max_active_bin THEN ti_current
            ELSE get_integer_time_begin(ti_current + 1, bin[p])
                   + get_integer_timestep(bin[p]) \div 2
  <2>1. CASE p \in Y
    <3>1. ti_kick'[p] = new(p).kick /\ ~Active(p)
      BY <2>1, <1>4, <1>6, <1>15
    <3> QED
      BY <3>1, <1>11, <1>12
  <2>2. CASE p \notin Y
    <3>1. ti_kick'[p] = ti_kick[p]
      BY <2>2, <1>4, <1>15
    <3> QED
      BY <2>2, <3>1, <1>14
  <2> QED
    BY <2>1, <2>2
<1>18. /\ \A p \in DOMAIN bin : ti_kick'[p] =
            IF bin[p] <= max_active_bin THEN ti_current
            ELSE get_integer_time_begin(ti_current + 1, bin[p])
                   + get_integer_timestep(bin[p]) \div 2
       /\ \A p \in DOMAIN bin :
            bin[p] \in Bins /\ bin[p] < time_bin[p] /\ bin[p] <= cap[p]
       /\ \A p \in Part : p \notin DOMAIN bin => ti_kick'[p] = ti_kick[p]
       /\ \A p \in DOMAIN bin : span[p] = StepSpan(ti_current + 1, bin[p])
       /\ DOMAIN bin \subseteq Treated(s, do_limiter, do_sub_limiter)
  BY <1>4, <1>5, <1>6, <1>8, <1>13, <1>15, <1>17
<1>19. /\ "limiter" \in {"limiter", "sync"} /\ DOMAIN ti_kick' = Part
       /\ wakeup' = Override(wakeup, [p \in DOMAIN bin |-> NotAwake])
       /\ DOMAIN span = DOMAIN bin
  BY <1>1, <1>5, <1>15
<1> QED
  BY <1>1, <1>2, <1>16, <1>18, <1>19, StepShorter

(***************************************************************************)
(* The collection, and the end of a step.                                  *)
(***************************************************************************)
LEMMA UnderTop ==
  ASSUME NEW t \in Top, NEW c \in Cell
  PROVE  /\ c \in Under(t) <=> TopOf(c) = t
         /\ \A s \in Super : c \in Under(s) => TopOf(s) = TopOf(c)
  BY TopAbove, OneTop DEF Under

LEMMA StepCollect ==
  ASSUME FlagInv, StepInv, NEW t \in Top, Collect(t)
  PROVE  StepInv'
<1>1. Run("collect", t)
  BY DEF Collect
<1>2. running /\ todo' = todo \ {<<"collect", t>>}
  BY <1>1, TaskRuns
<1>3. /\ UNCHANGED <<ti_current, running, cell_of, time_bin, min_ngb_time_bin, ti_kick, torn,
                     wakeup, cap>>
      /\ times' = Collected(t)
  BY DEF Collect, clock, parts
<1>4. BinInv' /\ WakeInv' /\ KickInv'
  BY <1>2, <1>3, Quiet
<1>5. ASSUME NEW s \in Super, TopOf(s) = t
      PROVE  \A j \in {"timestep", "limiter", "sync"} : <<j, s>> \notin todo
  BY <1>1, <1>5 DEF Run, Before
<1>6. TodoInv'
  BY <1>2, <1>5, TodoRun DEF StepInv
<1>7. /\ cell_of \in Layouts /\ ti_current \in Nat /\ time_bin \in [Part -> AllBins]
      /\ DOMAIN times = Cell /\ t \in Cell
  BY DEF StepInv, Typed, OnLine, Top
<1> DEFINE new(c) == JoinSpans(SpansOf(ti_current + 1, time_bin, cell_of, c))
           g == [c \in Under(t) |-> new(c)]
<1>8. IsCollection(g, t)
  <2> SUFFICES ASSUME NEW c \in Under(t)
               PROVE  new(c) = IF Super \cap Ancestors[c] # {} THEN times[c]
                               ELSE JoinSpans({g[d] : d \in Progeny(c)})
    BY Zenon DEF IsCollection
  <2>0. c \in Cell /\ TopOf(c) = t
    BY UnderTop DEF Under
  <2>1. CASE Super \cap Ancestors[c] # {}
    <3>1. PICK s \in Super : s \in Ancestors[c]
      BY <2>1
    <3>2. c \in Under(s) /\ TopOf(s) = t
      BY <2>0, <3>1, UnderTop DEF Under
    <3>3. <<"timestep", s>> \notin todo
      BY <3>2, <1>5
    <3>4. PostExact(c)
      BY <3>2, <3>3 DEF StepInv, CellInv
    <3>5. times[c] = new(c)
      BY <3>4 DEF PostExact
    <3> HIDE DEF new, g
    <3> QED
      BY <2>1, <3>5
  <2>2. CASE Super \cap Ancestors[c] = {}
    <3>0. c \notin Leaf
      BY <2>2, SuperAssumption
    <3>1. \A d \in Progeny(c) : d \in Under(t)
      BY <1>7, ProgenyStayUnder
    <3>2. \A d \in Progeny(c) :
            g[d] = JoinSpans(SpansOf(ti_current + 1, time_bin, cell_of, d))
      BY <3>1
    <3> HIDE DEF g
    <3>3. JoinSpans({g[d] : d \in Progeny(c)}) = new(c)
      BY <2>0, <3>0, <3>2, <1>7, ProgenySpans
    <3> HIDE DEF new
    <3> QED
      BY <2>2, <3>3
  <2> QED
    BY <2>1, <2>2
<1>9. times' = Override(times, g)
  BY <1>3, <1>7, <1>8, CollectedIs
<1>10. /\ DOMAIN times' = Cell
       /\ \A c \in Cell : times'[c] = IF c \in Under(t) THEN new(c) ELSE times[c]
  <2>1. DOMAIN g = Under(t) /\ \A c \in Under(t) : g[c] = new(c)
    OBVIOUS
  <2> HIDE DEF g, new
  <2> QED
    BY <2>1, <1>7, <1>9, OverrideAt
<1>11. ASSUME NEW c \in Under(t) PROVE PostExact(c)'
  <2>1. c \in Cell
    BY DEF Under
  <2> QED
    BY <2>1, <1>3, <1>10 DEF PostExact
<1>12. ASSUME NEW c \in Cell, c \notin Under(t)
       PROVE  (PreExact(c)' <=> PreExact(c)) /\ (PostExact(c)' <=> PostExact(c))
  BY <1>3, <1>10, <1>12 DEF PreExact, PostExact
<1>13. CellInv'
  <2>1. ASSUME NEW s \in Super, NEW c \in Under(s)
        PROVE  IF <<"timestep", s>> \in todo' THEN PreExact(c)' ELSE PostExact(c)'
    <3>0. c \in Cell
      BY DEF Under
    <3>1. CASE c \in Under(t)
      <4>1. TopOf(s) = t
        BY <3>0, <3>1, UnderTop
      <4> QED
        BY <3>1, <4>1, <1>2, <1>5, <1>11
    <3>2. CASE c \notin Under(t)
      BY <3>0, <3>2, <1>2, <1>12 DEF StepInv, CellInv
    <3> QED
      BY <3>1, <3>2
  <2>2. ASSUME NEW c \in Cell \ Tasked, <<"collect", TopOf(c)>> \notin todo'
        PROVE  PostExact(c)'
    <3>1. CASE TopOf(c) = t
      BY <3>1, <1>11, UnderTop
    <3>2. CASE TopOf(c) # t
      <4>1. c \notin Under(t)
        BY <3>2, UnderTop
      <4>2. <<"collect", TopOf(c)>> \notin todo
        BY <2>2, <3>2, <1>2
      <4> QED
        BY <4>1, <4>2, <1>12 DEF StepInv, CellInv
    <3> QED
      BY <3>1, <3>2
  <2> QED
    BY <2>1, <2>2 DEF CellInv
<1>14. Typed'
  BY <1>3, <1>10 DEF StepInv, Typed
<1> QED
  BY <1>4, <1>6, <1>13, <1>14 DEF StepInv

(* When nothing is left to do all cells know what follows. *)
LEMMA AllExact ==
  ASSUME StepInv, todo = {}, NEW c \in Cell
  PROVE  PostExact(c)
<1>1. CASE c \in Tasked
  <2>1. PICK s \in Super : c \in Under(s)
    BY <1>1 DEF Tasked
  <2> QED
    BY <2>1 DEF StepInv, CellInv
<1>2. CASE c \notin Tasked
  BY <1>2 DEF StepInv, CellInv
<1> QED
  BY <1>1, <1>2

LEMMA StepEndOfStep ==
  ASSUME FlagInv, StepInv, CollectEndOfStep
  PROVE  StepInv'
<1> DEFINE E == {e \in {times[c].end : c \in Top} : e > ti_current}
           S == {max_nr_timesteps} \cup E
<1>1. /\ running /\ todo = {} /\ ti_end_min' = Min(S) /\ running' = FALSE
      /\ UNCHANGED <<ti_current, todo, cell_of, time_bin, min_ngb_time_bin, ti_kick, torn,
                     wakeup, cap, times>>
  BY DEF CollectEndOfStep, parts
<1>2. Typed' /\ TodoInv'
  BY <1>1 DEF StepInv, Typed, TodoInv
<1>3. \A p \in Part : /\ Home(p)' = Home(p) /\ (Active(p)' <=> Active(p))
                      /\ Half(p)' = Half(p) /\ StepBegin(p)' = StepBegin(p)
                      /\ StepEnd(p)' = StepEnd(p)
  BY <1>1 DEF Home, Active, max_active_bin, Half, StepBegin, StepEnd
<1>4. WakeInv' /\ KickInv' /\ CellInv'
  <2>1. WakeInv'
    BY <1>1, <1>3 DEF StepInv, WakeInv, LimitedBin, NotAwake
  <2>2. KickInv'
    BY <1>1, <1>3 DEF StepInv, KickInv, KickedTo
  <2>3. CellInv'
    BY <1>1 DEF StepInv, CellInv, PreExact, PostExact
  <2> QED
    BY <2>1, <2>2, <2>3
<1>5. \A p \in Part : time_bin[p] \in Bins
  BY <1>1, BinAssumption DEF StepInv, Typed, BinInv, AllBins, Bins
<1>6. /\ OnLine(ti_current) /\ ti_current \in Nat /\ cell_of \in Layouts
      /\ time_bin \in [Part -> AllBins] /\ ti_current + 1 \in Nat
      /\ max_nr_timesteps \in Nat
  BY Longest, Timestep1 DEF StepInv, Typed, OnLine
<1>7. ASSUME ti_current < max_nr_timesteps
      PROVE  /\ OnLine(Min(S)) /\ ti_current < Min(S)
             /\ \A p \in Part : Min(S) <= StepEnd(p)
  <2>1. ASSUME NEW p \in Part
        PROVE  /\ StepEnd(p) \in Nat /\ ti_current < StepEnd(p)
               /\ Multiple(StepEnd(p), get_integer_timestep(1))
               /\ StepEnd(p) = StepSpan(ti_current + 1, time_bin[p]).end
    <3> DEFINE b == time_bin[p]
               B == get_integer_time_begin(ti_current + 1, b)
               d == get_integer_timestep(b)
    <3>1. b \in Bins /\ 1 \in Bins /\ 1 <= b
      BY <1>5, BinAssumption DEF Bins
    <3>2. StepEnd(p) = get_integer_time_end(ti_current + 1, b)
      BY DEF StepEnd
    <3>3. StepEnd(p) = StepSpan(ti_current + 1, time_bin[p]).end
      BY <3>2, SpanParts DEF StepSpan
    <3> HIDE DEF b
    <3>4. /\ B \in Int /\ Multiple(B, d) /\ ti_current + 1 <= B + d
          /\ StepEnd(p) = B + d /\ d \in Nat \ {0}
      BY <3>1, <3>2, <1>6, BeginEnd, Timestep1
    <3>5. Multiple(d, get_integer_timestep(1)) /\ get_integer_timestep(1) \in Nat
      BY <3>1, Timestep1, Timestep2
    <3> HIDE DEF B, d
    <3>6. Multiple(B + d, d) /\ B + d \in Int
      BY <3>4, MultipleSelf, MultipleSum
    <3>7. Multiple(StepEnd(p), get_integer_timestep(1))
      BY <3>4, <3>5, <3>6, MultipleTrans
    <3>8. StepEnd(p) \in Nat /\ ti_current < StepEnd(p)
      BY <3>4, <1>6
    <3> QED
      BY <3>3, <3>7, <3>8
  <2>2. ASSUME NEW c \in Cell
        PROVE  /\ times[c].end \in Nat /\ times[c].end <= max_nr_timesteps
               /\ \A p \in PartsIn(c) : times[c].end <= StepEnd(p)
               /\ \/ times[c].end = max_nr_timesteps
                  \/ \E p \in Part : times[c].end = StepEnd(p)
    <3> DEFINE Q == SpansOf(ti_current + 1, time_bin, cell_of, c)
    <3>1. times[c] = JoinSpans(Q)
      BY <1>1, AllExact DEF PostExact
    <3>2. Bounded(Q, ti_current)
      BY <1>6, SpansBounded
    <3>3. /\ \A p \in PartsIn(c) : p \in Part /\ StepSpan(ti_current + 1, time_bin[p]) \in Q
          /\ \A x \in Q : \E p \in Part : x = StepSpan(ti_current + 1, time_bin[p])
      BY DEF SpansOf, InCell, PartsIn
    <3> HIDE DEF Q
    <3>4. /\ JoinSpans(Q).end \in Nat /\ JoinSpans(Q).end <= max_nr_timesteps
          /\ \A x \in Q : JoinSpans(Q).end <= x.end
          /\ JoinSpans(Q).end = max_nr_timesteps \/ \E x \in Q : JoinSpans(Q).end = x.end
      BY <1>6, <3>2, JoinFacts
    <3> QED
      BY <2>1, <3>1, <3>3, <3>4
  <2>3. Top \subseteq Cell
    BY DEF Top
  <2>4. ASSUME NEW c \in Cell PROVE times[c].end > ti_current
    BY <1>6, <1>7, <2>1, <2>2
  <2>5. S \in SUBSET Int /\ S # {} /\ \A x \in S : 0 <= x
    BY <1>6, <2>2, <2>3
  <2>6. /\ \A c \in Top : times[c].end \in S
        /\ \A x \in S : x = max_nr_timesteps \/ \E c \in Top : x = times[c].end
    BY <2>3, <2>4
  <2> HIDE DEF S
  <2>7. Min(S) \in S /\ \A x \in S : Min(S) <= x
    BY <2>5, MinOf
  <2>8. OnLine(max_nr_timesteps)
    <3>1. 1 \in Bins /\ NumBins \in Bins /\ 1 <= NumBins
      BY BinAssumption DEF Bins
    <3>2. Multiple(max_nr_timesteps, get_integer_timestep(1))
      BY <3>1, Longest, Timestep2
    <3> QED
      BY <3>2, <1>6 DEF OnLine
  <2>9. ASSUME NEW c \in Cell PROVE OnLine(times[c].end)
    BY <1>6, <2>1, <2>2, <2>8 DEF OnLine
  <2>10. OnLine(Min(S)) /\ ti_current < Min(S)
    BY <1>7, <2>3, <2>4, <2>6, <2>7, <2>8, <2>9
  <2>11. ASSUME NEW p \in Part PROVE Min(S) <= StepEnd(p)
    <3> DEFINE c == TopOf(cell_of[p])
    <3>1. cell_of[p] \in Cell
      BY <1>6, HomeOf
    <3>2. c \in Top /\ c \in Cell /\ p \in PartsIn(c)
      BY <3>1, <2>3, TopAbove DEF PartsIn
    <3> HIDE DEF c
    <3>3. Min(S) <= times[c].end /\ times[c].end <= StepEnd(p)
      BY <3>2, <2>2, <2>6, <2>7
    <3>4. Min(S) \in Int /\ times[c].end \in Int /\ StepEnd(p) \in Int
      <4>1. Min(S) \in Int
        BY <2>5, <2>7
      <4>2. times[c].end \in Int
        BY <3>2, <2>2
      <4>3. StepEnd(p) \in Int
        BY <2>1
      <4> QED
        BY <4>1, <4>2, <4>3
    <3> QED
      BY <3>3, <3>4
  <2> QED
    BY <2>10, <2>11
<1>8. BinInv'
  <2>1. \A p \in Part : time_bin'[p] \in Bins
    BY <1>1, <1>5
  <2>2. ti_current' < max_nr_timesteps =>
          /\ OnLine(ti_end_min') /\ ti_current' < ti_end_min'
          /\ \A p \in Part : ti_end_min' <= StepEnd(p)'
    BY <1>1, <1>3, <1>7
  <2> QED
    BY <1>1, <2>1, <2>2 DEF BinInv
<1> QED
  BY <1>2, <1>4, <1>8 DEF StepInv

LEMMA StepStep ==
  ASSUME FlagInv, StepInv, [Next]_vars
  PROVE  StepInv'
<1>1. CASE Next
  <2>1. ASSUME NEW rebuild \in BOOLEAN, NEW layout \in Layouts,
               NEW F \in SUBSET StarPairs, EnginePrepare(rebuild, layout, F)
        PROVE  StepInv'
    BY <2>1, StepPrepare
  <2>2. ASSUME NEW s \in Super,
               Kick2(s) \/ Timestep(s) \/ Limiter(s) \/ Sync(s)
        PROVE  StepInv'
    BY <2>2, StepKick2, StepTimestep, StepLimiter, StepSync
  <2>3. ASSUME NEW f \in StarPairs, NEW S \in SUBSET Part, Feedback(f, S)
        PROVE  StepInv'
    BY <2>3, StepFeedback
  <2>4. ASSUME NEW t \in Tasks, NEW deep \in SUBSET Part, LimiterLoop(t, deep)
        PROVE  StepInv'
    BY <2>4, StepLoop
  <2>5. ASSUME NEW s \in Super, NEW R \in SUBSET Part, Kick1(s, R)
        PROVE  StepInv'
    BY <2>5, StepKick1
  <2>6. ASSUME NEW t \in Top, Collect(t)
        PROVE  StepInv'
    BY <2>6, StepCollect
  <2> QED
    BY <1>1, <2>1, <2>2, <2>3, <2>4, <2>5, <2>6, StepEndOfStep DEF Next
<1>2. CASE UNCHANGED vars
  <2>1. UNCHANGED <<ti_current, ti_end_min, running, todo, cell_of, time_bin, ti_kick,
                    wakeup, min_ngb_time_bin, times, torn, cap>>
    BY <1>2 DEF vars, clock, parts
  <2>2. \A p \in Part : /\ Home(p)' = Home(p) /\ (Active(p)' <=> Active(p))
                        /\ Half(p)' = Half(p) /\ StepBegin(p)' = StepBegin(p)
                        /\ StepEnd(p)' = StepEnd(p) /\ LimitedBin(p)' = LimitedBin(p)
    BY <2>1 DEF Home, Active, max_active_bin, Half, StepBegin, StepEnd, LimitedBin
  <2>3. Typed' /\ TodoInv' /\ BinInv'
    BY <2>1, <2>2 DEF StepInv, Typed, TodoInv, BinInv
  <2>4. WakeInv' /\ KickInv' /\ CellInv'
    BY <2>1, <2>2 DEF StepInv, WakeInv, NotAwake, KickInv, KickedTo, CellInv,
       PreExact, PostExact
  <2> QED
    BY <2>3, <2>4 DEF StepInv
<1> QED
  BY <1>1, <1>2

-----------------------------------------------------------------------------
(* In a build whose kick1 sets no requests, no particle that a neighbour   *)
(* has woken up is left so at the end of a step, however the limiter and   *)
(* the synchronisation share the work (runner_do_limiter, runner_do_sync). *)
THEOREM EveryWakeupTreated ==
  ASSUME ~Recouples
  PROVE  Spec => []WokenTreated
<1>1. FlagInv => WokenTreated
  BY NothingToDo DEF FlagInv, Shape, WokenTreated
<1> QED
  BY <1>1, FlagInit, FlagStep, PTL DEF Spec

(* In such a build no request and no flag of a cell survives its step: the *)
(* task of the super-cell finds each of them from the flags above it       *)
(* (cell_activate_limiter, cell_activate_sync_part).                       *)
THEOREM NoFlagSurvives ==
  ASSUME ~Recouples
  PROVE  Spec => []NothingLeftFlagged
<1>1. FlagInv => NothingLeftFlagged
  BY NothingToDo DEF FlagInv, Shape, NothingLeftFlagged
<1> QED
  BY <1>1, FlagInit, FlagStep, PTL DEF Spec

(* In such a build the kicks of a particle follow one another without a    *)
(* gap or an overlap, also when the limiter or the synchronisation cuts a  *)
(* step short and rewinds its half kick (runner_do_kick1, runner_do_kick2, *)
(* timestep_limit_part, timestep_process_sync_part).                       *)
THEOREM KicksMeet ==
  ASSUME ~Recouples
  PROVE  Spec => []KicksContiguous
<1>1. StepInv => KicksContiguous
  BY DEF StepInv, KickInv, KicksContiguous
<1> QED
  BY <1>1, FlagInit, FlagStep, StepInit, StepStep, PTL DEF Spec

(* In such a build every particle has, between two steps, been kicked to   *)
(* the middle of the step it is in: by kick1, or by the limiter for a step *)
(* that began earlier.                                                     *)
THEOREM AllHalfKicked ==
  ASSUME ~Recouples
  PROVE  Spec => []HalfKicked
<1>1. FlagInv /\ StepInv => HalfKicked
  BY DEF FlagInv, Shape, StepInv, KickInv, KickedTo, Half, HalfKicked
<1> QED
  BY <1>1, FlagInit, FlagStep, StepInit, StepStep, PTL DEF Spec

(* In such a build every cell knows, between two steps, exactly the first  *)
(* end and the last beginning of its particles' steps: what timestep adds  *)
(* up, the limiter and the synchronisation tighten and the collection      *)
(* carries to the top is what the particles would give                     *)
(* (runner_do_timestep, runner_do_limiter, runner_do_sync,                 *)
(* runner_do_timestep_collect).                                            *)
THEOREM CellsKnowTheirTimes ==
  ASSUME ~Recouples
  PROVE  Spec => []CellTimesExact
<1>1. FlagInv /\ StepInv => CellTimesExact
  <2> SUFFICES ASSUME FlagInv, StepInv, ~running, NEW c \in Cell
               PROVE  times[c] = JoinSpans({Span(StepEnd(p), StepBegin(p)) : p \in PartsIn(c)})
    BY DEF CellTimesExact
  <2>1. PostExact(c)
    BY AllExact DEF FlagInv, Shape
  <2>2. SpansOf(ti_current + 1, time_bin, cell_of, c)
          = {Span(StepEnd(p), StepBegin(p)) : p \in PartsIn(c)}
    BY InCellParts DEF SpansOf, StepSpan, StepEnd, StepBegin
  <2> QED
    BY <2>1, <2>2 DEF PostExact
<1> QED
  BY <1>1, FlagInit, FlagStep, StepInit, StepStep, PTL DEF Spec

(* In such a build the engine never jumps past the end of a particle's     *)
(* step: the minimum that engine_collect_end_of_step takes over the        *)
(* top-level cells is one over all particles.                              *)
THEOREM NoStepOverslept ==
  ASSUME ~Recouples
  PROVE  Spec => []NoneOverslept
<1>1. StepInv => NoneOverslept
  <2> SUFFICES ASSUME StepInv, ~running, NEW p \in Part
               PROVE  ti_end_min <= StepEnd(p) \/ ti_current = max_nr_timesteps
    BY DEF NoneOverslept
  <2>1. CASE ti_current = 0 /\ ti_end_min = 0 /\ \A q \in Part : time_bin[q] = 0
    BY <2>1, NoStep DEF StepEnd
  <2>2. CASE ti_current < max_nr_timesteps => \A q \in Part : ti_end_min <= StepEnd(q)
    <3>1. ti_current \in Nat /\ ti_current <= max_nr_timesteps /\ max_nr_timesteps \in Nat
      BY Longest, Timestep1 DEF StepInv, Typed, OnLine
    <3> QED
      BY <2>2, <3>1
  <2> QED
    BY <2>1, <2>2 DEF StepInv, BinInv
<1> QED
  BY <1>1, FlagInit, FlagStep, StepInit, StepStep, PTL DEF Spec

(* In such a build a particle ends the step in which it was woken up with  *)
(* a bin its fastest waker allows, whether the limiter or the              *)
(* synchronisation gave it one (runner_iact_nonsym_limiter,                *)
(* runner_do_limiter, runner_do_sync).                                     *)
THEOREM LimitsHold ==
  ASSUME ~Recouples
  PROVE  Spec => []LimitKept
<1>1. FlagInv /\ StepInv => LimitKept
  BY NothingToDo DEF FlagInv, Shape, StepInv, WakeInv, LimitKept
<1> QED
  BY <1>1, FlagInit, FlagStep, StepInit, StepStep, PTL DEF Spec
=============================================================================
