--------------------------- MODULE TimeIntegration ---------------------------
(***************************************************************************)
(* One simulation step after another, as the gas particles see them: the   *)
(* engine jumps to the end of the shortest time step, un-skips the tasks   *)
(* of the cells that are active there, and runs kick2, timestep, the       *)
(* time-step limiter (its loops over neighbours and its task), the         *)
(* synchronisation of particles hit by feedback, kick1 and the collection  *)
(* of the cells' time information (engine.c, cell_unskip.c,                *)
(* runner_time_integration.c, timestep_limiter.h, timestep_sync.h).        *)
(*                                                                         *)
(* Every particle moves along the integer time line in steps of its own    *)
(* length, half a kick at a time; a neighbour with a much shorter step     *)
(* may wake it up in the middle of one, and feedback may end one at once.  *)
(* A cell keeps the first end and the last beginning of the steps of its   *)
(* particles, from which all later decisions are taken.                    *)
(*                                                                         *)
(* A task works on the particles of its own super-cell (or, for a limiter  *)
(* loop, of two cells it locks), so a task is one step here; the order of  *)
(* tasks is the one the dependencies leave open.                           *)
(***************************************************************************)
EXTENDS Integers, FiniteSets, FiniteSetsExt

CONSTANTS
    Part,           \* the gas particles
    Cell,           \* the cells of the tree
    Parent,         \* [Cell -> Cell], a top-level cell is its own parent
    Super,          \* the super-cells: the highest cells that have tasks
    Tasks,          \* the interaction tasks: {ci} (self) or {ci, cj} (pair)
    StarPairs,      \* <<ci, cj>>: stars of ci may act on the gas of ci and cj
    Ngb,            \* <<pi, pj>>: pj is within the smoothing length of pi
    Layouts,        \* the placements [Part -> leaf cells] a rebuild may find
    NumBins,        \* num_time_bins
    Wishes,         \* [Part -> the time bins its own criteria may ask for]
    MaxFeedback,    \* bound: pairs of cells with feedback in one step
    Recouples       \* is this a build whose feedback_recouple_part sets flags?

VARIABLES
    ti_current,         \* engine: the time of this step
    ti_end_min,         \* engine: the time of the next step
    running,            \* between engine_prepare and the end of the launch
    todo,               \* the activated tasks that have not run yet
    time_bin,           \* [Part -> bin]
    ti_kick,            \* [Part -> time the particle's velocity is kicked to]
    wakeup,             \* [Part -> -bin of the waker, or NotAwake]
    to_be_synchronized, \* set of particles
    min_ngb_time_bin,   \* [Part -> smallest bin among its neighbours]
    cell_of,            \* [Part -> leaf cell]
    times,              \* [Cell -> [end: ti_end_min, beg: ti_beg_max]]
    do_limiter, do_sub_limiter, do_sync, do_sub_sync,   \* flags: sets of cells
    torn,               \* a kick did not start where the previous one ended
    cap                 \* history: [Part -> largest bin this step's wakers allow]

parts == <<time_bin, ti_kick, wakeup, to_be_synchronized>>
flags == <<do_limiter, do_sub_limiter, do_sync, do_sub_sync>>
clock == <<ti_current, ti_end_min>>
vars == <<clock, running, todo, parts, min_ngb_time_bin, cell_of, times, flags,
          torn, cap>>

\* f with the values of new where it has one.
Override(f, new) == [x \in DOMAIN f |-> IF x \in DOMAIN new THEN new[x] ELSE f[x]]

-----------------------------------------------------------------------------
(* The cell tree. *)

Top == {c \in Cell : Parent[c] = c}
Progeny(c) == {d \in Cell \ Top : Parent[d] = c}
Leaf == {c \in Cell : Progeny(c) = {}}
Ancestors[c \in Cell] == IF c \in Top THEN {c} ELSE {c} \cup Ancestors[Parent[c]]
Under(c) == {d \in Cell : c \in Ancestors[d]}
SuperOf(c) == CHOOSE s \in Super : s \in Ancestors[c]
TopOf(c) == CHOOSE t \in Top : t \in Ancestors[c]
PartsIn(c) == {p \in Part : c \in Ancestors[cell_of[p]]}

\* The super-cells and all below them: the cells that may be flagged.
Tasked == UNION {Under(s) : s \in Super}

\* The cells above a cell are a chain that ends at a top-level cell.
ASSUME AncestorAssumption ==
    /\ IsFiniteSet(Cell)
    /\ Parent \in [Cell -> Cell]
    /\ Ancestors \in [Cell -> SUBSET Cell]
    /\ \A c \in Cell :
          /\ Ancestors[c] = IF c \in Top THEN {c} ELSE {c} \cup Ancestors[Parent[c]]
          /\ Top \cap Ancestors[c] # {}
    /\ \A c \in Cell : \A d \in Ancestors[c] :
          Ancestors[d] \subseteq Ancestors[c] /\ (c \in Ancestors[d] => c = d)
    /\ \A c \in Cell : \A d, e \in Ancestors[c] : d \in Ancestors[e] \/ e \in Ancestors[d]

\* No super-cell is below another.
ASSUME SuperAssumption ==
    /\ Super \subseteq Cell
    /\ \A r, s \in Super : r \in Ancestors[s] => r = s
    /\ \A l \in Leaf : Super \cap Ancestors[l] # {}
    /\ Tasks \subseteq {t \in SUBSET Tasked : Cardinality(t) \in {1, 2}}
    /\ StarPairs \subseteq Tasked \X Tasked

ASSUME BinAssumption == NumBins \in Nat \ {0}

ASSUME PartAssumption ==
    /\ Layouts \subseteq [Part -> Leaf]
    /\ \A f \in Layouts, l \in Leaf : \E p \in Part : f[p] = l
    /\ Wishes \in [Part -> SUBSET (1 .. NumBins) \ {{}}]

-----------------------------------------------------------------------------
(* The time line, timeline.h. *)

\* 1LL << n
Pow2[n \in 0 .. NumBins + 3] == IF n = 0 THEN 1 ELSE 2 * Pow2[n - 1]

max_nr_timesteps == Pow2[NumBins + 1]
NotAwake == -NumBins
NeighbourMaxDeltaBin == 2

get_integer_timestep(bin) == IF bin <= 0 THEN 0 ELSE Pow2[bin + 1]

\* The logarithm in base 2, rounded down, minus one.
get_time_bin(dti) ==
    CHOOSE b \in -1 .. NumBins + 1 : Pow2[b + 1] <= dti /\ dti < Pow2[b + 2]

\* If ti is a possible beginning, the beginning of the step that ends there.
get_integer_time_begin(ti, bin) ==
    LET dti == get_integer_timestep(bin)
    IN  IF dti = 0 THEN 0 ELSE dti * ((ti - 1) \div dti)

get_integer_time_end(ti, bin) ==
    LET dti == get_integer_timestep(bin)
    IN  CASE dti = 0       -> 0
          [] dti # 0 /\ ti % dti = 0 -> ti
          [] OTHER         -> (ti - (ti % dti)) + dti

\* The largest bin whose steps begin and end at ti.
get_max_active_bin(ti) ==
    IF ti = 0 THEN NumBins
    ELSE CHOOSE b \in 1 .. NumBins :
            /\ (ti \div Pow2[b + 1]) % 2 = 1
            /\ \A d \in 1 .. b - 1 : (ti \div Pow2[d + 1]) % 2 = 0

max_active_bin == get_max_active_bin(ti_current)

\* part_is_active and part_is_starting are the same test, before and after
\* the particle has been given its new step.
Active(p) == time_bin[p] <= max_active_bin

\* The integer step a particle takes when its own criteria ask for wish.
make_integer_timestep(wish, old_bin, min_ngb) ==
    LET current == get_integer_timestep(old_bin)
        ti_end  == get_integer_time_end(ti_current, old_bin)
        allowed == get_integer_timestep(Min({wish, min_ngb + NeighbourMaxDeltaBin}))
        new     == IF old_bin > 0 THEN Min({allowed, 2 * current}) ELSE allowed
    IN  IF new > current /\ (max_nr_timesteps - ti_end) % new > 0 THEN current
        ELSE new

-----------------------------------------------------------------------------
(* What a cell knows of its particles' steps. *)

Span(e, b) == [end |-> e, beg |-> b]

JoinSpans(S) == Span(Min({x.end : x \in S} \cup {max_nr_timesteps}),
                     Max({x.beg : x \in S} \cup {0}))

\* space_split: the times of the whole tree from the particles alone.
SpaceSplit(ti, layout) ==
    [c \in Cell |-> JoinSpans(
        {Span(get_integer_time_end(ti, time_bin[p]), get_integer_time_begin(ti, time_bin[p])) :
            p \in {q \in Part : c \in Ancestors[layout[q]]}})]

CellActive(c) == times[c].end = ti_current
CellStarting(c) == times[c].beg = ti_current

-----------------------------------------------------------------------------
(* The activated tasks and their dependencies, engine_maketasks.c. A task  *)
(* that was not activated holds nobody up.                                 *)

LoopsOf(s) == {t \in Tasks : \E c \in t : SuperOf(c) = s}

\* Mutant: timestep waits for the loops of its cell, which wait for it.
BeforeCyclic(k, x) ==
    CASE k = "timestep" -> {<<"kick2", x>>} \cup {<<"loop", t>> : t \in LoopsOf(x)}
      [] k = "loop"     -> {<<"timestep", SuperOf(c)>> : c \in x}
      [] OTHER          -> {}

Before(k, x) ==
    CASE k = "kick2"    -> {}
      [] k = "feedback" -> {<<"kick2", SuperOf(x[1])>>, <<"kick2", SuperOf(x[2])>>}
      [] k = "timestep" -> {<<"kick2", x>>} \cup
                           {<<"feedback", f>> : f \in {g \in StarPairs : SuperOf(g[1]) = x}}
      [] k = "loop"     -> {<<"timestep", SuperOf(c)>> : c \in x}
      [] k = "limiter"  -> {<<"timestep", x>>} \cup {<<"loop", t>> : t \in LoopsOf(x)}
      [] k = "sync"     -> {<<"timestep", x>>, <<"limiter", x>>} \cup
                           {<<"feedback", f>> : f \in {g \in StarPairs :
                                x \in {SuperOf(g[1]), SuperOf(g[2])}}}
      [] k = "kick1"    -> {<<"timestep", x>>, <<"limiter", x>>, <<"sync", x>>} \cup
                           {<<"loop", t>> : t \in LoopsOf(x)}
      [] k = "collect"  -> {"timestep", "limiter", "sync"} \X {s \in Super : TopOf(s) = x}

Run(k, x) ==
    /\ <<k, x>> \in todo
    /\ Before(k, x) \cap todo = {}
    /\ todo' = todo \ {<<k, x>>}

-----------------------------------------------------------------------------
(* Un-skipping: cell_unskip.c. *)

\* The cells above c whose sub-flag cell_activate_limiter (and _sync_part)
\* sets: from the parent up to the super-cell, until one has it already.
Climbed(c, sub) ==
    LET above == {d \in Ancestors[c] \ {c} : SuperOf(c) \in Ancestors[d]}
    IN  {d \in above : \A e \in above : d \in Ancestors[e] => e \notin sub}

\* cell_activate_limiter or cell_activate_sync_part for every cell of S: the
\* new flags and the supers whose task is activated, with kick1 and collect.
Activate(S, flag, sub) ==
    LET new == S \ flag
    IN  [flag   |-> flag \cup S,
         sub    |-> sub \cup UNION {Climbed(c, sub) : c \in new},
         supers |-> {SuperOf(c) : c \in {d \in new : \/ d \in Super
                                          \/ SuperOf(d) \in Climbed(d, sub)}}]

\* Mutants: an activation that forgets kick1, or the collection.
WithCollectOnly(k, S) ==
    {<<k, s>> : s \in S} \cup {<<"collect", TopOf(s)>> : s \in S}

WithKick1Only(k, S) ==
    {<<k, s>> : s \in S} \cup {<<"kick1", s>> : s \in S}

WithKick1AndCollect(k, S) ==
    {<<k, s>> : s \in S} \cup {<<"kick1", s>> : s \in S}
                         \cup {<<"collect", TopOf(s)>> : s \in S}

\* Mutant: only the cell of the stars.
OwnSyncCells(F) == {f[1] : f \in F}

\* The cells flagged for synchronisation: both of a pair with active stars.
SyncCells(F) == UNION {{f[1], f[2]} : f \in F}

\* engine_unskip, with the cells' times T at time ti: cells are visited from
\* the top as long as they are active. Interaction tasks with a visited cell
\* run, and both their cells are flagged for the limiter. (The cells below
\* them are flagged as well, which adds nothing: the limiter visits all it
\* finds under a flagged cell.) F are the pairs whose stars are active.
Unskip(ti, T, F, lim, sublim, syn, subsyn) ==
    LET visited == {c \in Cell : \A d \in Ancestors[c] : T[d].end = ti}
        loops   == {t \in Tasks : t \cap visited # {}}
        active  == Super \cap visited
    IN  \E L \in {Activate(UNION loops, lim, sublim)},
           Y \in {Activate(SyncCells(F), syn, subsyn)} :
        /\ todo' = {<<"loop", t>> : t \in loops}
                     \cup {<<"kick2", s>> : s \in active}
                     \cup WithKick1AndCollect("timestep", active)
                     \cup WithKick1AndCollect("limiter", L.supers)
                     \cup WithKick1AndCollect("sync", Y.supers)
                     \cup {<<"feedback", f>> : f \in F}
        /\ do_limiter' = L.flag
        /\ do_sub_limiter' = L.sub
        /\ do_sync' = Y.flag
        /\ do_sub_sync' = Y.sub

\* The force loops of an active particle see the bins of all neighbours that
\* have one.
MinNgbBin(p) ==
    Min({NumBins + 1} \cup {b \in {time_bin[q] : q \in {r \in Part :
            <<p, r>> \in Ngb \/ <<r, p>> \in Ngb}} : b > 0})

-----------------------------------------------------------------------------
Init ==
    /\ ti_current = 0 /\ ti_end_min = 0
    /\ running = FALSE /\ todo = {}
    /\ time_bin = [p \in Part |-> 0]
    /\ ti_kick = [p \in Part |-> 0]
    /\ wakeup = [p \in Part |-> NotAwake]
    /\ to_be_synchronized = {}
    /\ min_ngb_time_bin = [p \in Part |-> NumBins + 1]
    /\ cell_of \in Layouts
    /\ times = [c \in Cell |-> Span(0, 0)]
    /\ do_limiter = {} /\ do_sub_limiter = {} /\ do_sync = {} /\ do_sub_sync = {}
    /\ torn = FALSE
    /\ cap = [p \in Part |-> NumBins]

\* engine_step up to the launch: forward in time, un-skip or rebuild (and
\* un-skip) the tasks, and what the force loops then give to kick2 and
\* timestep. A rebuild makes new cells without flags.
EnginePrepare(rebuild, layout, F) ==
    /\ ~running
    /\ ti_current < max_nr_timesteps
    /\ ti_current' = ti_end_min
    /\ running' = TRUE
    /\ cell_of' = layout
    /\ IF rebuild
       THEN \E T \in {SpaceSplit(ti_end_min, layout)} :
            /\ times' = T
            /\ Unskip(ti_end_min, T, F, {}, {}, {}, {})
       ELSE /\ layout = cell_of
            /\ UNCHANGED times
            /\ Unskip(ti_end_min, times, F, do_limiter, do_sub_limiter, do_sync,
                      do_sub_sync)
    /\ min_ngb_time_bin' = [p \in Part |->
            IF time_bin[p] <= get_max_active_bin(ti_end_min) THEN MinNgbBin(p)
            ELSE min_ngb_time_bin[p]]
    /\ cap' = [p \in Part |-> NumBins]
    /\ UNCHANGED <<ti_end_min, parts, torn>>

\* kick_part for each particle that is to be kicked, from where it must stand
\* to the end.
KickParts(kick) ==
    /\ ti_kick' = Override(ti_kick, [p \in DOMAIN kick |-> kick[p].to])
    /\ torn' = (torn \/ \E p \in DOMAIN kick : ti_kick[p] # kick[p].from)

\* runner_do_kick2: the second half of the steps that end now.
Kick2(s) ==
    LET reached == {p \in PartsIn(s) : \A c \in Ancestors[cell_of[p]] \cap Under(s) :
                                          CellActive(c)}
        middle(p) == get_integer_time_begin(ti_current, time_bin[p])
                        + get_integer_timestep(time_bin[p]) \div 2
    IN  /\ Run("kick2", s)
        /\ KickParts([p \in {q \in reached : Active(q)} |->
                [from |-> middle(p),
                 to   |-> middle(p) + get_integer_timestep(time_bin[p]) \div 2]])
        /\ UNCHANGED <<clock, running, time_bin, wakeup, to_be_synchronized,
                       min_ngb_time_bin, cell_of, times, flags, cap>>

\* What the particles of S may ask for.
WishesOf(S) == {w \in [S -> 1 .. NumBins] : \A p \in S : w[p] \in Wishes[p]}

\* runner_do_timestep: new steps for the active particles of active cells, and
\* the new times of those cells; an inactive cell keeps its own.
NewSteps(S) ==
    {[p \in S |-> make_integer_timestep(w[p], time_bin[p], min_ngb_time_bin[p])] :
        w \in WishesOf(S)}

Reached(s) == {c \in Under(s) : \A d \in Ancestors[c] \cap Under(s) : CellActive(d)}

\* The cells' times from the leaves up, when the particles have these spans.
Aggregated(s, span) ==
    LET T[c \in Under(s)] ==
          IF c \notin Reached(s) THEN times[c]
          ELSE JoinSpans(IF c \in Leaf THEN {span[p] : p \in PartsIn(c)}
                         ELSE {T[d] : d \in Progeny(c)})
    IN  Override(times, T)

Timestep(s) ==
    LET old(p)     == Span(get_integer_time_end(ti_current, time_bin[p]),
                           get_integer_time_begin(ti_current + 1, time_bin[p]))
        span(step) == [p \in PartsIn(s) |->
                        IF p \in DOMAIN step THEN Span(ti_current + step[p], ti_current)
                        ELSE old(p)]
    IN  /\ Run("timestep", s)
        /\ \E step \in NewSteps({p \in PartsIn(s) : cell_of[p] \in Reached(s) /\ Active(p)}) :
              /\ time_bin' = Override(time_bin, [p \in DOMAIN step |-> get_time_bin(step[p])])
              /\ times' = Aggregated(s, span(step))
        /\ UNCHANGED <<clock, running, ti_kick, wakeup, to_be_synchronized,
                       min_ngb_time_bin, cell_of, flags, torn, cap>>

\* A star or black hole of one cell of the pair hits gas particles of either
\* and asks for them to be synchronised (timestep_sync_part).
Feedback(f, S) ==
    /\ Run("feedback", f)
    /\ S \subseteq PartsIn(f[1]) \cup PartsIn(f[2])
    /\ to_be_synchronized' = to_be_synchronized \cup S
    /\ UNCHANGED <<clock, running, time_bin, ti_kick, wakeup, min_ngb_time_bin,
                   cell_of, times, flags, torn, cap>>

-----------------------------------------------------------------------------
(* The limiter. *)

\* The particles pi that act on pj in a limiter loop of task t: the starting
\* ones that have pj in their reach, but in one cell not those that start
\* together with pj and are in each other's reach. Each particle updates others
\* at one level of the recursion, which goes by its smoothing length: here
\* that of the task's cells or, for the particles in deep, that of the leaves.
Wakers(t, deep, pj) ==
    {pi \in Part : \E ci, cj \in t :
        LET i == IF pi \in deep THEN cell_of[pi] ELSE ci
            j == IF pi \in deep THEN cell_of[pj] ELSE cj
        IN  /\ {ci, cj} = t
            /\ pi \in PartsIn(ci) /\ pj \in PartsIn(cj)
            /\ CellStarting(i)
            /\ Active(pi)
            /\ <<pi, pj>> \in Ngb
            /\ ~ ( /\ i = j
                   /\ Active(pj) /\ <<pj, pi>> \in Ngb
                   /\ pi \in deep <=> pj \in deep )}

\* runner_iact_nonsym_limiter for all of them.
Woken(t, deep, pj) ==
    {-time_bin[pi] : pi \in {q \in Wakers(t, deep, pj) :
                                time_bin[pj] > time_bin[q] + NeighbourMaxDeltaBin}}

LimiterLoop(t, deep) ==
    /\ Run("loop", t)
    /\ wakeup' = [p \in Part |-> Max({wakeup[p]} \cup Woken(t, deep, p))]
    /\ cap' = [p \in Part |-> Min({cap[p]} \cup
                  {-w + NeighbourMaxDeltaBin : w \in Woken(t, deep, p)})]
    /\ UNCHANGED <<clock, running, time_bin, ti_kick, to_be_synchronized,
                   min_ngb_time_bin, cell_of, times, flags, torn>>

\* The recursion that runner_do_limiter and runner_do_sync share: below a
\* flagged cell everything is visited, elsewhere the cells with a sub-flag.
Forced(c, s, flag) == Ancestors[c] \cap Under(s) \cap flag # {}

Entered(c, s, flag, sub) == Forced(c, s, flag) \/ c \in sub

Visited(s, flag, sub) ==
    {c \in Under(s) : \A d \in (Ancestors[c] \ {c}) \cap Under(s) :
                          Entered(d, s, flag, sub)}

\* The particles of the leaves it treats.
Treated(s, flag, sub) ==
    {p \in PartsIn(s) : /\ cell_of[p] \in Visited(s, flag, sub)
                        /\ Forced(cell_of[p], s, flag)}

\* Mutant: what changed is not passed on to the cells above.
TightenedLeaves(s, visited, flag, sub, span) ==
    [c \in Cell |-> JoinSpans({times[c]} \cup
                        {span[p] : p \in {q \in DOMAIN span : cell_of[q] = c}})]

\* The cells' times once some particles have new spans: times only ever become
\* tighter here, and are passed on to the cells above up to s.
Tightened(s, visited, flag, sub, span) ==
    LET T[c \in Under(s)] ==
          IF c \in Leaf
          THEN JoinSpans({times[c]} \cup
                    {span[p] : p \in {q \in DOMAIN span : cell_of[q] = c}})
          ELSE IF c \in visited /\ Entered(c, s, flag, sub)
               THEN JoinSpans({times[c]} \cup {T[d] : d \in Progeny(c)})
               ELSE times[c]
    IN  Override(times, T)

\* Mutant: off by one.
LimitedBinOneTooMany(p) == -wakeup[p] + NeighbourMaxDeltaBin + 1

\* The bin a woken-up particle gets.
LimitedBin(p) == -wakeup[p] + NeighbourMaxDeltaBin

\* timestep_limit_part: a starting particle just gets the shorter bin; an
\* inactive one rewinds its half kick and is kicked to the beginning of the
\* new step it is in, and on to its middle unless kick1 will do that.
BegNew(p, new_bin) ==
    LET ti_beg_old == get_integer_time_begin(ti_current, time_bin[p])
        dti_new    == get_integer_timestep(new_bin)
    IN  ti_beg_old + dti_new * ((ti_current - ti_beg_old) \div dti_new)

EndHalfOld(p) ==
    get_integer_time_begin(ti_current, time_bin[p])
        + (get_integer_time_end(ti_current, time_bin[p])
             - get_integer_time_begin(ti_current, time_bin[p])) \div 2

\* Mutant: the missing half kick is applied in every case.
LimitPartAlwaysKicked(p, new_bin) ==
    LET dti == get_integer_timestep(new_bin)
    IN  [kick |-> BegNew(p, new_bin) + dti \div 2, end |-> BegNew(p, new_bin) + dti]

LimitPart(p, new_bin) ==
    LET dti == get_integer_timestep(new_bin)
    IN  IF ~Active(p) /\ new_bin > max_active_bin
        THEN [kick |-> BegNew(p, new_bin) + dti \div 2, end |-> BegNew(p, new_bin) + dti]
        ELSE [kick |-> BegNew(p, new_bin), end |-> ti_current + dti]

\* Mutant: everybody who is to be synchronised is left out.
ToLimitUnlessSync(s) ==
    {p \in Treated(s, do_limiter, do_sub_limiter) :
        wakeup[p] # NotAwake /\ p \notin to_be_synchronized}

\* runner_do_limiter. A particle that is also to be synchronised is left to
\* the synchronisation, unless it is active.
ToLimit(s) ==
    {p \in Treated(s, do_limiter, do_sub_limiter) :
        wakeup[p] # NotAwake /\ (Active(p) \/ p \notin to_be_synchronized)}

Limiter(s) ==
    LET new(p)  == LimitPart(p, LimitedBin(p))
        span(p) == Span(new(p).end, new(p).end - get_integer_timestep(LimitedBin(p)))
    IN  /\ Run("limiter", s)
        /\ \E visited \in {Visited(s, do_limiter, do_sub_limiter)}, limited \in {ToLimit(s)} :
              /\ KickParts([p \in {q \in limited : ~Active(q)} |->
                              [from |-> EndHalfOld(p), to |-> new(p).kick]])
              /\ time_bin' = Override(time_bin, [p \in limited |-> LimitedBin(p)])
              /\ wakeup' = Override(wakeup, [p \in limited |-> NotAwake])
              /\ to_be_synchronized' = to_be_synchronized \ limited
              /\ times' = Tightened(s, visited, do_limiter, do_sub_limiter,
                                    [p \in limited |-> span(p)])
              /\ do_limiter' = do_limiter \ visited
              /\ do_sub_limiter' = do_sub_limiter \ visited
        /\ UNCHANGED <<clock, running, min_ngb_time_bin, cell_of, do_sync,
                       do_sub_sync, cap>>

-----------------------------------------------------------------------------
(* Synchronisation. *)

\* timestep_process_sync_part leaves a negative bin, -min_active_bin; the new
\* step is computed from that, limited by the wakers and the bins active now.
SyncBin(p, wish) ==
    LET step == make_integer_timestep(wish, -1, min_ngb_time_bin[p])
    IN  Min({get_time_bin(step), max_active_bin} \cup
            (IF wakeup[p] = NotAwake THEN {} ELSE {LimitedBin(p)}))

\* runner_do_sync: the flagged particles in mid-step end it here and start a
\* new one; those that are active need nothing.
ToSync(s) ==
    {p \in Treated(s, do_sync, do_sub_sync) : p \in to_be_synchronized /\ ~Active(p)}

SyncBins(S) == {[p \in S |-> SyncBin(p, w[p])] : w \in WishesOf(S)}

Sync(s) ==
    /\ Run("sync", s)
    /\ \E visited \in {Visited(s, do_sync, do_sub_sync)}, bin \in SyncBins(ToSync(s)) :
          LET synced  == DOMAIN bin
              span(p) == Span(ti_current + get_integer_timestep(bin[p]), ti_current)
          IN  /\ KickParts([p \in synced |-> [from |-> EndHalfOld(p), to |-> ti_current]])
              /\ time_bin' = Override(time_bin, bin)
              /\ wakeup' = Override(wakeup, [p \in synced |-> NotAwake])
              /\ times' = Tightened(s, visited, do_sync, do_sub_sync,
                                    [p \in synced |-> span(p)])
              /\ do_sync' = do_sync \ visited
              /\ do_sub_sync' = do_sub_sync \ visited
    /\ to_be_synchronized' = to_be_synchronized \ Treated(s, do_sync, do_sub_sync)
    /\ UNCHANGED <<clock, running, min_ngb_time_bin, cell_of, do_limiter,
                   do_sub_limiter, cap>>

-----------------------------------------------------------------------------
\* runner_do_kick1: the first half of the steps that begin now. In some builds
\* feedback_recouple_part, called first, asks for particles whose decoupling
\* has ended (R) to be synchronised.
Kick1(s, R) ==
    LET starting == {p \in PartsIn(s) : /\ Active(p)
                        /\ \A c \in Ancestors[cell_of[p]] \cap Under(s) : CellStarting(c)}
        begin(p) == get_integer_time_begin(ti_current + 1, time_bin[p])
    IN  /\ Run("kick1", s)
        /\ R \subseteq (IF Recouples THEN starting ELSE {})
        /\ KickParts([p \in starting |->
                [from |-> begin(p),
                 to   |-> begin(p) + get_integer_timestep(time_bin[p]) \div 2]])
        /\ to_be_synchronized' = to_be_synchronized \cup R
        /\ UNCHANGED <<clock, running, time_bin, wakeup, min_ngb_time_bin, cell_of,
                       times, flags, cap>>

\* runner_do_timestep_collect: from the top-level cell down to the supers.
Collected(t) ==
    LET T[c \in Under(t)] ==
          IF Super \cap Ancestors[c] # {} THEN times[c]
          ELSE JoinSpans({T[d] : d \in Progeny(c)})
    IN  Override(times, T)

Collect(t) ==
    /\ Run("collect", t)
    /\ times' = Collected(t)
    /\ UNCHANGED <<clock, running, parts, min_ngb_time_bin, cell_of, flags, torn, cap>>

\* engine_collect_end_of_step: the next step is the earliest end after now
\* that a top-level cell knows of.
CollectEndOfStep ==
    /\ running /\ todo = {}
    /\ ti_end_min' = Min({max_nr_timesteps} \cup
            {e \in {times[c].end : c \in Top} : e > ti_current})
    /\ running' = FALSE
    /\ UNCHANGED <<ti_current, todo, parts, min_ngb_time_bin, cell_of,
                   times, flags, torn, cap>>

Next ==
    \/ \E rebuild \in BOOLEAN, layout \in Layouts, F \in SUBSET StarPairs :
          Cardinality(F) <= MaxFeedback /\ EnginePrepare(rebuild, layout, F)
    \/ \E s \in Super : Kick2(s)
    \/ \E s \in Super : Timestep(s)
    \/ \E f \in StarPairs, S \in SUBSET Part : Feedback(f, S)
    \/ \E t \in Tasks, deep \in SUBSET Part : LimiterLoop(t, deep)
    \/ \E s \in Super : Limiter(s)
    \/ \E s \in Super : Sync(s)
    \/ \E s \in Super, R \in SUBSET Part : Kick1(s, R)
    \/ \E t \in Top : Collect(t)
    \/ CollectEndOfStep

Spec == Init /\ [][Next]_vars /\ WF_vars(Next)

-----------------------------------------------------------------------------
StepEnd(p) == get_integer_time_end(ti_current + 1, time_bin[p])
StepBegin(p) == get_integer_time_begin(ti_current + 1, time_bin[p])

\* Every kick starts at the time the particle had been kicked to: no stretch
\* of time is applied twice or left out, whatever interrupted the step
\* (kick_part checks the same in kick.h).
KicksContiguous == ~torn

\* Between two steps every particle has been kicked to the middle of the step
\* it is in: whoever changed its bin in this step also redid the first half
\* kick, or had it done by kick1.
HalfKicked ==
    ~running => \A p \in Part :
        ti_kick[p] = StepBegin(p) + get_integer_timestep(time_bin[p]) \div 2

\* Between two steps every cell of the tree, above the super-cells too, knows
\* exactly the first end and the last beginning of its particles' steps
\* (cell_check_timesteps in cell.c).
CellTimesExact ==
    ~running => \A c \in Cell :
        times[c] = JoinSpans({Span(StepEnd(p), StepBegin(p)) : p \in PartsIn(c)})

\* The engine never jumps past the end of a particle's step.
NoneOverslept ==
    ~running => \A p \in Part : ti_end_min <= StepEnd(p) \/ ti_current = max_nr_timesteps

\* When a step is over no particle is still woken up, waiting for its limiter
\* (space_check_limiter in space.c).
WokenTreated == ~running => \A p \in Part : wakeup[p] = NotAwake

\* When a step is over nobody is still to be synchronised and no cell keeps a
\* flag, which would stop a later activation half way up the tree.
NothingLeftFlagged ==
    ~running => /\ to_be_synchronized = {}
                /\ do_limiter \cup do_sub_limiter \cup do_sync \cup do_sub_sync = {}

\* A particle woken up in this step leaves it with a step no longer than its
\* fastest waker allows, also when it was synchronised in the same step.
LimitKept == ~running => \A p \in Part : time_bin[p] <= cap[p]

\* The simulation reaches its end.
ReachesEnd == <>(ti_current = max_nr_timesteps /\ ~running)
=============================================================================
