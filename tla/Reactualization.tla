-------------------------- MODULE Reactualization --------------------------
(***************************************************************************)
(* The re-actualization of published cards: the daily batch                *)
(* reactualize_apps_batch (apps/agent/tasks.py), its selectors and         *)
(* queue_reactualization (apps/agent/persist.py), the feeds and the link   *)
(* checker that move the sources under it.                                 *)
(*                                                                         *)
(* Time is days and relative: the age of a source is the days since its    *)
(* last_enriched_at, and ages from the interval on are alike, except that  *)
(* a source that was never enriched comes first.                           *)
(***************************************************************************)
EXTENDS Integers, FiniteSets

CONSTANTS
    Apps,      \* published cards
    Sources,   \* Source rows
    AppOf,     \* AppOf[s]: the card of the row
    KindOf,    \* KindOf[s]: "feed" (re-actualizable, with a URL), "bare" (the URL-less
               \* agent_enrich row), "listing" (a type not in the allowlist)
    Primary,   \* the rows marked is_primary
    Interval,  \* AGENT_REACTUALIZATION_INTERVAL_DAYS
    BatchSize, \* AGENT_REACTUALIZATION_BATCH_SIZE
    MaxCrashes \* bound: workers that die in a batch

ASSUME ReactAssumption ==
    /\ IsFiniteSet(Sources) /\ Sources # {}
    /\ AppOf \in [Sources -> Apps]
    /\ KindOf \in [Sources -> {"feed", "bare", "listing"}]
    /\ Primary \subseteq Sources
    /\ Interval \in Nat \ {0}
    /\ BatchSize \in Nat
    /\ MaxCrashes \in Nat

Never == Interval + 1

VARIABLES
    age,     \* age[s]: days since last_enriched_at, Never if it is null
    active,  \* active[s]: is_active
    place,   \* place[s]: 1 for the most recently fetched row of its card, and so on
    ran,     \* the batch has been started today
    visit,   \* local state of the batch
    since,   \* history: since[a]: days since the card was last re-actualized
    posted,  \* history: posted[a]: entries since its clock moved (2 is "more")
    broke,   \* history: broke[a]: since then, a run broke off after its entry
    crashes  \* the bounded counter

reactVars == <<age, active, place, ran, visit, since, posted, broke, crashes>>

Nobody == CHOOSE s \in Sources : TRUE

\* rows: what is left of the selection, pairs of a card and an age; size: how many of
\* them the limit lets through; source: the one being re-fetched.
Visit == [pc : {"idle", "loop", "asked", "drifted", "diffed"},
          rows : SUBSET (Apps \X (0..Never)), size : 0..BatchSize, source : Sources]

ReactTypeOK ==
    /\ age \in [Sources -> 0..Never]
    /\ active \in [Sources -> BOOLEAN]
    /\ place \in [Sources -> 1..Cardinality(Sources)]
    /\ ran \in BOOLEAN
    /\ visit \in Visit
    /\ since \in [Apps -> 0..Interval]
    /\ posted \in [Apps -> 0..2]
    /\ broke \in [Apps -> BOOLEAN]
    /\ crashes \in 0..MaxCrashes

Resting == [pc |-> "idle", rows |-> {}, size |-> 0, source |-> Nobody]

Rows(a) == {s \in Sources : AppOf[s] = a}

ReactInit ==
    /\ age = [s \in Sources |-> Never]
    /\ active = [s \in Sources |-> TRUE]
    /\ place \in [Sources -> 1..Cardinality(Sources)]
    /\ \A a \in Apps : {place[s] : s \in Rows(a)} = 1..Cardinality(Rows(a))
    /\ ran = FALSE
    /\ visit = Resting
    /\ since = [a \in Apps |-> Interval]
    /\ posted = [a \in Apps |-> 0]
    /\ broke = [a \in Apps |-> FALSE]
    /\ crashes = 0

Reactualizable(s) == KindOf[s] # "listing"

(***************************************************************************)
(* pending_reactualization_app_ids.                                        *)
(***************************************************************************)
\* Mutant of Overdue: only sources that were enriched once become overdue.
OverdueAgain(s) == age[s] = Interval

Overdue(s) == age[s] >= Interval

\* The two filters join Source twice: one row has to be active and re-actualizable, any
\* row has to be overdue.  DISTINCT is over the pair that is ordered by, so that a card
\* comes once for each age among its overdue rows.
DueRows ==
    {<<AppOf[s], age[s]>> :
        s \in {r \in Sources :
                  /\ Overdue(r)
                  /\ \E q \in Rows(AppOf[r]) : active[q] /\ Reactualizable(q)}}

BatchSelects ==
    /\ visit.pc = "idle"
    /\ ~ran
    /\ ran' = TRUE
    /\ visit' = [Resting EXCEPT !.pc = "loop", !.rows = DueRows, !.size = BatchSize]
    /\ UNCHANGED <<age, active, place, since, posted, broke, crashes>>

(***************************************************************************)
(* run_reactualize_app, one row after the other.                           *)
(***************************************************************************)
\* Never-enriched cards come first, then the longest ago.
NextRow == {r \in visit.rows : \A q \in visit.rows : q[2] <= r[2]}

\* pick_primary_active_source: a primary row first, then the one fetched last.
Candidates(a) == {s \in Rows(a) : active[s] /\ Reactualizable(s)}

Outranks(q, s) ==
    IF q \in Primary <=> s \in Primary THEN place[q] < place[s] ELSE q \in Primary

Picked(a, s) == s \in Candidates(a) /\ \A q \in Candidates(a) : ~Outranks(q, s)

After(r) ==
    [Resting EXCEPT !.pc = "loop", !.rows = visit.rows \ {r}, !.size = visit.size - 1]

\* A card without an active source, or whose picked one has no URL, is skipped; the
\* budget gate or a failed fetch ends an item like that too.
RowIsSkipped(r) ==
    /\ visit.pc = "loop"
    /\ visit.size > 0
    /\ r \in NextRow
    /\ visit' = After(r)
    /\ UNCHANGED <<age, active, place, ran, since, posted, broke, crashes>>

RowIsAsked(r, s) ==
    /\ visit.pc = "loop"
    /\ visit.size > 0
    /\ r \in NextRow
    /\ Picked(r[1], s)
    /\ KindOf[s] = "feed"
    /\ visit' = [After(r) EXCEPT !.pc = "asked", !.source = s]
    /\ UNCHANGED <<age, active, place, ran, since, posted, broke, crashes>>

\* compute_reactualization against a snapshot taken after the answer.
RowIsDiffed ==
    /\ visit.pc = "asked"
    /\ \E pc \in {"drifted", "diffed"} : visit' = [visit EXCEPT !.pc = pc]
    /\ UNCHANGED <<age, active, place, ran, since, posted, broke, crashes>>

\* queue_reactualization: the entry, and then the clock.
RowIsQueued ==
    LET a == AppOf[visit.source]
    IN /\ visit.pc = "drifted"
       /\ posted' = [posted EXCEPT ![a] = IF @ = 2 THEN 2 ELSE @ + 1]
       /\ visit' = [visit EXCEPT !.pc = "diffed"]
       /\ UNCHANGED <<age, active, place, ran, since, broke, crashes>>

Advances(clock) ==
    LET a == AppOf[visit.source]
    IN /\ visit.pc = "diffed"
       /\ age' = clock
       /\ since' = [since EXCEPT ![a] = 0]
       /\ posted' = [posted EXCEPT ![a] = IF clock[visit.source] = 0 THEN 0 ELSE @]
       /\ broke' = [broke EXCEPT ![a] = FALSE]
       /\ visit' = [visit EXCEPT !.pc = "loop", !.source = Nobody]
       /\ UNCHANGED <<active, place, ran, crashes>>

\* Mutant of RowAdvances: the clock only moves for an empty diff.
RowAdvancesIfEmpty ==
    Advances(IF posted[AppOf[visit.source]] > 0 THEN age ELSE [age EXCEPT ![visit.source] = 0])

RowAdvances == Advances([age EXCEPT ![visit.source] = 0])

\* History: an entry is there and the clock did not move.
Breaks ==
    broke' = [broke EXCEPT ![AppOf[visit.source]] =
                 @ \/ (visit.pc = "diffed" /\ posted[AppOf[visit.source]] > 0)]

\* An exception costs the item.
RowFails ==
    /\ visit.pc \in {"asked", "drifted", "diffed"}
    /\ visit' = [visit EXCEPT !.pc = "loop", !.source = Nobody]
    /\ Breaks
    /\ UNCHANGED <<age, active, place, ran, since, posted, crashes>>

\* The selection or its limit is used up.
BatchEnds ==
    /\ visit.pc = "loop"
    /\ visit.rows = {} \/ visit.size = 0
    /\ visit' = Resting
    /\ UNCHANGED <<age, active, place, ran, since, posted, broke, crashes>>

WorkerDies ==
    /\ visit.pc # "idle"
    /\ crashes < MaxCrashes
    /\ crashes' = crashes + 1
    /\ visit' = Resting
    /\ Breaks
    /\ UNCHANGED <<age, active, place, ran, since, posted>>

VisitStep ==
    \/ BatchSelects
    \/ \E r \in visit.rows : RowIsSkipped(r)
    \/ \E r \in visit.rows, s \in Sources : RowIsAsked(r, s)
    \/ RowIsDiffed
    \/ RowIsQueued
    \/ RowAdvances
    \/ RowFails
    \/ BatchEnds

(***************************************************************************)
(* The surroundings.                                                       *)
(***************************************************************************)
\* Mutant of Older: it goes past the interval.
OlderYet(n, max) == n + 1

Older(n, max) == IF n >= max THEN n ELSE n + 1

DayTurns ==
    /\ ran
    /\ ran' = FALSE
    /\ age' = [s \in Sources |-> IF age[s] = Never THEN Never ELSE Older(age[s], Interval)]
    /\ since' = [a \in Apps |-> Older(since[a], Interval)]
    /\ UNCHANGED <<active, place, visit, posted, broke, crashes>>

\* upsert_app_from_draft for a row it knows: fetched now, active again.
FeedLists(s) ==
    /\ KindOf[s] = "feed"
    /\ ~active[s] \/ place[s] # 1
    /\ active' = [active EXCEPT ![s] = TRUE]
    /\ place' = [q \in Sources |->
                    IF q = s THEN 1
                    ELSE IF AppOf[q] = AppOf[s] /\ place[q] < place[s] THEN place[q] + 1
                    ELSE place[q]]
    /\ UNCHANGED <<age, ran, visit, since, posted, broke, crashes>>

\* _record_vanished_source.
LinkVanishes(s) ==
    /\ KindOf[s] = "feed"
    /\ active[s]
    /\ active' = [active EXCEPT ![s] = FALSE]
    /\ UNCHANGED <<age, place, ran, visit, since, posted, broke, crashes>>

ReactNext ==
    \/ VisitStep
    \/ WorkerDies
    \/ DayTurns
    \/ \E s \in Sources : FeedLists(s)
    \/ \E s \in Sources : LinkVanishes(s)

ReactSpec == ReactInit /\ [][ReactNext]_reactVars

\* Days turn, beat starts the batch each day and a worker goes on with it; an item may
\* be skipped, fail or break off, but not always.
ReactFairness ==
    /\ WF_reactVars(DayTurns)
    /\ WF_reactVars(VisitStep)
    /\ \A s \in {r \in Sources : KindOf[r] = "feed"} :
          /\ SF_reactVars(\E r \in visit.rows : RowIsAsked(r, s))
          /\ SF_reactVars(visit.source = s /\ RowIsDiffed)
          /\ SF_reactVars(visit.source = s /\ RowIsQueued)
          /\ SF_reactVars(visit.source = s /\ RowAdvances)

FairReactSpec == ReactSpec /\ ReactFairness

(***************************************************************************)
(* Properties.                                                             *)
(***************************************************************************)
\* A drift is posted once: after an entry the clock of the source moves before the next
\* one, unless a run broke off between the entry and the clock.
PostedOnce == \A a \in Apps : posted[a] <= 1 \/ broke[a]

\* Nothing is forgotten: a card whose source for the re-fetch stays the same one, active
\* and with a URL, is re-actualized again and again.  It takes a batch size that covers
\* the selection: rows that never move come first, and a smaller limit ends with them.
Refetchable(s) ==
    /\ KindOf[s] = "feed"
    /\ active[s]
    /\ Picked(AppOf[s], s)

EveryCardIsVisited ==
    \A s \in Sources : <>[]Refetchable(s) => []<>(since[AppOf[s]] = 0)

\* The promise of the overview: a published card is re-actualized once per interval.
OncePerInterval ==
    [][\A r \in visit.rows, s \in Sources :
          RowIsAsked(r, s) => since[r[1]] = Interval]_reactVars
============================================================================
