----------------------------- MODULE LinkCheck -----------------------------
(***************************************************************************)
(* The daily link checker (check_app_links_batch, apps/sources/tasks.py)   *)
(* at one published card: probes of its URLs, the count of consecutive     *)
(* failures in LinkHealth, the automatic deprecation at the threshold, the *)
(* deactivated Source and the VANISHED review entry.                       *)
(*                                                                         *)
(* An update of LinkHealth is five statements in no transaction: read the  *)
(* row, deprecate the card, deactivate the source, queue the entry, save   *)
(* the row.  Any of them can fail, and then the handler in the loop counts *)
(* one more failure; the worker can die anywhere.                          *)
(***************************************************************************)
EXTENDS Integers

CONSTANTS
    LinkCheckers,  \* executions of check_app_links_batch that may overlap
    Targets,       \* the links the card has
    Deprecating,   \* those of them that deprecate: "official" and "install"
    Threshold,     \* AUTO_DEPRECATE_FAILURE_THRESHOLD
    MaxMoves,      \* bound: URLs edited
    MaxHands       \* bound: editor's marks and rollbacks

\* A card without links is not probed at all.
ASSUME LinkAssumption ==
    /\ Targets # {}
    /\ Deprecating \subseteq Targets
    /\ Threshold \in Nat \ {0, 1}
    /\ MaxMoves \in Nat
    /\ MaxHands \in Nat

\* Counts above the threshold are alike to the code, so a count stops one above it.
Cap == Threshold + 1
Capped(n) == IF n > Cap THEN Cap ELSE n
NoRow == -1

\* A link's address before and after an editor replaced it.
Addresses == {"first", "second"}

VARIABLES
    up,          \* up[t][a]: the world; does the address answer below 400
    address,     \* address[t]: the URL on the card
    launch,      \* the card's launch_status is DEPRECATED
    checked,     \* last_checked_at is less than a day old
    health,      \* health[t]: LinkHealth.consecutive_failures, or NoRow
    active,      \* active[t]: Source.is_active of the source at t's first address
    prober,      \* prober[c]: local state of a check
    streak,      \* history: failures of t counted since one that was not
    queued,      \* history: VANISHED entries of t since health stored a 0 (2 is "more")
    torn,        \* history: since then, the row and what was seen of t have parted
    undone,      \* history: rolled back between two checks, and no entry was queued since
    hands        \* the bounded counters

history == <<streak, queued, torn, undone>>
linkVars == <<up, address, launch, checked, health, active, prober, history, hands>>

\* address: as loaded with the App; again: the except branch; count: health in memory;
\* stale: history, another check's update of the row overlaps.
Prober == [pc : {"idle", "loop", "probed", "dead", "vanished", "hidden", "counted"},
           todo : SUBSET Targets, address : [Targets -> Addresses], target : Targets,
           ok : BOOLEAN, again : BOOLEAN, count : 0..Cap, stale : BOOLEAN]

LinkTypeOK ==
    /\ up \in [Targets -> [Addresses -> BOOLEAN]]
    /\ address \in [Targets -> Addresses]
    /\ launch \in {"live", "deprecated"}
    /\ checked \in BOOLEAN
    /\ health \in [Targets -> {NoRow} \cup 0..Cap]
    /\ active \in [Targets -> BOOLEAN]
    /\ prober \in [LinkCheckers -> Prober]
    /\ streak \in [Targets -> 0..Cap]
    /\ queued \in [Targets -> 0..2]
    /\ torn \in [Targets -> BOOLEAN]
    /\ undone \in BOOLEAN
    /\ hands \in [{"moves", "hands"} -> Nat]

FirstAddresses == [t \in Targets |-> "first"]

Idle == [pc |-> "idle", todo |-> {}, address |-> FirstAddresses,
         target |-> CHOOSE t \in Targets : TRUE, ok |-> FALSE, again |-> FALSE,
         count |-> 0, stale |-> FALSE]

LinkInit ==
    /\ up = [t \in Targets |-> [a \in Addresses |-> TRUE]]
    /\ address = FirstAddresses
    /\ launch = "live"
    /\ checked = FALSE
    /\ health = [t \in Targets |-> NoRow]
    /\ active = [t \in Targets |-> TRUE]
    /\ prober = [c \in LinkCheckers |-> Idle]
    /\ streak = [t \in Targets |-> 0]
    /\ queued = [t \in Targets |-> 0]
    /\ torn = [t \in Targets |-> FALSE]
    /\ undone = FALSE
    /\ hands = [k \in {"moves", "hands"} |-> 0]

surroundings == <<up, address, hands>>

Turns(c, next) == prober' = [prober EXCEPT ![c] = next]

\* The loop goes on with the next link.
Rest(c) == [Idle EXCEPT !.pc = "loop", !.todo = prober[c].todo,
                        !.address = prober[c].address]

(***************************************************************************)
(* check_app_links_batch and _check_app_links.                             *)
(***************************************************************************)
CheckLoads(c) ==
    /\ prober[c].pc = "idle"
    /\ ~checked
    /\ Turns(c, [Idle EXCEPT !.pc = "loop", !.todo = Targets, !.address = address])
    /\ UNCHANGED <<surroundings, launch, checked, health, active, history>>

\* The answer, or no answer (again: the handler takes over).
CheckProbes(c, t) ==
    LET ok == up[t][prober[c].address[t]]
    IN /\ prober[c].pc = "loop"
       /\ t \in prober[c].todo
       /\ \E again \in {FALSE, ~ok} :
             Turns(c, [prober[c] EXCEPT !.pc = "probed", !.todo = @ \ {t}, !.target = t,
                                        !.ok = ok, !.again = again])
       /\ UNCHANGED <<surroundings, launch, checked, health, active, history>>

Observed(t, ok) == streak' = [streak EXCEPT ![t] = IF ok THEN 0 ELSE Capped(@ + 1)]

\* _update_link_health: a missing row is created with the first count.
CheckCreates(c) ==
    LET p == prober[c]
        n == IF p.ok THEN 0 ELSE 1
    IN /\ p.pc = "probed"
       /\ health[p.target] = NoRow
       /\ health' = [health EXCEPT ![p.target] = n]
       /\ Observed(p.target, p.ok)
       /\ Turns(c, Rest(c))
       /\ UNCHANGED <<surroundings, launch, checked, active, queued, torn, undone>>

\* Mutant of Counted: recovery takes one off instead of starting over.
CountedDown(p) == IF p.ok THEN health[p.target] - 1 ELSE Capped(health[p.target] + 1)

\* Mutant of Counted: every failure is the first.
CountedAfresh(p) == IF p.ok THEN 0 ELSE 1

Counted(p) == IF p.ok THEN 0 ELSE Capped(health[p.target] + 1)

\* Mutant of Fatal: the threshold has to be exceeded.
FatalAbove(p, n) == p.target \in Deprecating /\ n > Threshold

Fatal(p, n) == p.target \in Deprecating /\ n >= Threshold

Updating(c) == prober[c].pc \in {"dead", "vanished", "hidden", "counted"}

Overlaps(c) == {d \in LinkCheckers \ {c} : Updating(d) /\ prober[d].target = prober[c].target}

CheckCounts(c) ==
    LET p == prober[c]
        n == Counted(p)
    IN /\ p.pc = "probed"
       /\ health[p.target] # NoRow
       /\ Observed(p.target, p.ok)
       /\ prober' = [d \in LinkCheckers |->
              IF d = c
              THEN [p EXCEPT !.count = n, !.stale = Overlaps(c) # {},
                             !.pc = IF ~p.ok /\ Fatal(p, n) THEN "dead" ELSE "counted"]
              ELSE [prober[d] EXCEPT !.stale = @ \/ d \in Overlaps(c)]]
       /\ torn' = [torn EXCEPT ![p.target] = @ \/ Overlaps(c) # {}]
       /\ UNCHANGED <<surroundings, launch, checked, health, active, queued, undone>>

\* Mutant of CheckDeprecates: every failure above the threshold is reported.
CheckDeprecatesAndReports(c) ==
    /\ prober[c].pc = "dead"
    /\ launch' = "deprecated"
    /\ Turns(c, [prober[c] EXCEPT !.pc = "vanished"])
    /\ UNCHANGED <<surroundings, checked, health, active, history>>

CheckDeprecates(c) ==
    /\ prober[c].pc = "dead"
    /\ launch' = "deprecated"
    /\ Turns(c, [prober[c] EXCEPT !.pc = IF prober[c].count = Threshold THEN "vanished"
                                         ELSE "counted"])
    /\ UNCHANGED <<surroundings, checked, health, active, history>>

\* _record_vanished_source: the source with the failing URL, then the entry.
CheckDeactivates(c) ==
    LET p == prober[c]
    IN /\ p.pc = "vanished"
       /\ active' = [active EXCEPT ![p.target] = @ /\ p.address[p.target] # "first"]
       /\ Turns(c, [p EXCEPT !.pc = "hidden"])
       /\ UNCHANGED <<surroundings, launch, checked, health, history>>

CheckQueues(c) ==
    LET p == prober[c]
    IN /\ p.pc = "hidden"
       /\ queued' = [queued EXCEPT ![p.target] = IF @ = 2 THEN 2 ELSE @ + 1]
       /\ undone' = FALSE
       /\ Turns(c, [p EXCEPT !.pc = "counted"])
       /\ UNCHANGED <<surroundings, launch, checked, health, active, streak, torn>>

\* health.save(), every column.  A clean 0 starts the history over.
CheckSaves(c) ==
    LET p == prober[c]
        t == p.target
        recovers == p.count = 0 /\ ~p.stale
    IN /\ p.pc = "counted"
       /\ health' = [health EXCEPT ![t] = p.count]
       /\ Turns(c, Rest(c))
       /\ queued' = [queued EXCEPT ![t] = IF recovers THEN 0 ELSE @]
       /\ torn' = [torn EXCEPT ![t] = @ /\ ~recovers]
       /\ UNCHANGED <<surroundings, launch, checked, active, streak, undone>>

\* History: an update that was begun is not saved.
Tears(c) == torn' = [torn EXCEPT ![prober[c].target] = @ \/ Updating(c)]

\* A statement of the update raises: the handler counts a failure of its own, also
\* after an answer that was fine.
CheckStumbles(c) ==
    /\ prober[c].pc = "probed" \/ Updating(c)
    /\ ~prober[c].again
    /\ Turns(c, [prober[c] EXCEPT !.pc = "probed", !.ok = FALSE, !.again = TRUE])
    /\ torn' = [torn EXCEPT ![prober[c].target] = @ \/ Updating(c) \/ prober[c].ok]
    /\ UNCHANGED <<surroundings, launch, checked, health, active, streak, queued, undone>>

\* A statement of the handler raises, which gives the card up for today, or the
\* worker dies.
CheckDies(c) ==
    /\ prober[c].pc # "idle"
    /\ Turns(c, Idle)
    /\ Tears(c)
    /\ UNCHANGED <<surroundings, launch, checked, health, active, streak, queued, undone>>

CheckEnds(c) ==
    /\ prober[c].pc = "loop"
    /\ prober[c].todo = {}
    /\ checked' = TRUE
    /\ Turns(c, Idle)
    /\ UNCHANGED <<surroundings, launch, health, active, history>>

ProbeStep(c) ==
    \/ CheckLoads(c)
    \/ \E t \in Targets : CheckProbes(c, t)
    \/ CheckCreates(c)
    \/ CheckCounts(c)
    \/ CheckDeprecates(c)
    \/ CheckDeactivates(c)
    \/ CheckQueues(c)
    \/ CheckSaves(c)
    \/ CheckStumbles(c)
    \/ CheckDies(c)
    \/ CheckEnds(c)

(***************************************************************************)
(* The surroundings.                                                       *)
(***************************************************************************)
Uses(k, max) == hands[k] < max /\ hands' = [hands EXCEPT ![k] = @ + 1]

DayPasses ==
    /\ checked
    /\ checked' = FALSE
    /\ UNCHANGED <<surroundings, launch, health, active, prober, history>>

SiteChanges(t, a) ==
    /\ up' = [up EXCEPT ![t][a] = ~@]
    /\ UNCHANGED <<address, launch, checked, health, active, prober, history, hands>>

\* The App form with another URL: LinkHealth keeps the count of the old one.
EditorMovesLink(t) ==
    /\ address[t] = "first"
    /\ Uses("moves", MaxMoves)
    /\ address' = [address EXCEPT ![t] = "second"]
    /\ UNCHANGED <<up, launch, checked, health, active, prober, history>>

\* The App form with the launch status back.
EditorRollsBack ==
    /\ launch = "deprecated"
    /\ Uses("hands", MaxHands)
    /\ launch' = "live"
    /\ undone' = \A c \in LinkCheckers : ~Updating(c)
    /\ UNCHANGED <<up, address, checked, health, active, prober, streak, queued, torn>>

\* action_mark_editorial_reviewed and transition_to_published write the clock of the
\* checker, without a probe.
EditorMarksChecked ==
    /\ ~checked
    /\ Uses("hands", MaxHands)
    /\ checked' = TRUE
    /\ UNCHANGED <<up, address, launch, health, active, prober, history>>

\* A feed still lists the source: the refresh makes it active.
FeedRefreshes(t) ==
    /\ ~active[t]
    /\ active' = [active EXCEPT ![t] = TRUE]
    /\ UNCHANGED <<surroundings, launch, checked, health, prober, history>>

LinkSurroundings ==
    \/ DayPasses
    \/ \E t \in Targets, a \in Addresses : SiteChanges(t, a)
    \/ \E t \in Targets : EditorMovesLink(t)
    \/ EditorRollsBack
    \/ EditorMarksChecked
    \/ \E t \in Targets : FeedRefreshes(t)

LinkNext ==
    \/ \E c \in LinkCheckers : ProbeStep(c)
    \/ LinkSurroundings

LinkSpec == LinkInit /\ [][LinkNext]_linkVars

\* Days pass and beat starts the batch at five each day; a check may fail or die any
\* number of times, but not always at the same statement.
LinkFairness ==
    /\ WF_linkVars(DayPasses)
    /\ \A c \in LinkCheckers :
          /\ SF_linkVars(CheckLoads(c))
          /\ \A t \in Targets : SF_linkVars(CheckProbes(c, t))
          /\ SF_linkVars(CheckCreates(c) \/ CheckCounts(c))
          /\ SF_linkVars(CheckDeprecates(c))
          /\ SF_linkVars(CheckDeactivates(c))
          /\ SF_linkVars(CheckQueues(c))
          /\ SF_linkVars(CheckSaves(c))
          /\ SF_linkVars(CheckEnds(c))

FairLinkSpec == LinkSpec /\ LinkFairness

(***************************************************************************)
(* Properties.                                                             *)
(***************************************************************************)
\* An editor hears of a vanish once: one entry between two recoveries, unless a check
\* broke off, or was overtaken by another one, in the middle of an update.
ReportedOnce == \A t \in Targets : queued[t] <= 1 \/ torn[t]

\* No link is dead in silence: a count that has reached the threshold was reported,
\* with the same exception.  (The entry is written before the count.)
NoSilentVanish ==
    \A t \in Deprecating : health[t] >= Threshold => queued[t] >= 1 \/ torn[t]

\* Only a streak deprecates: when the checker deprecates the card for a link, the link
\* has failed Threshold times in a row, with the same exception.
OnlyStreakDeprecates ==
    [][\A c \in LinkCheckers :
          CheckDeprecates(c) =>
              streak[prober[c].target] >= Threshold \/ torn[prober[c].target]]_linkVars

\* A link that stays dead is found: the count reaches the threshold, whatever fails on
\* the way.
Dead(t) == ~up[t][address[t]]

DeadLinkIsFound ==
    \A t \in Targets : <>[]Dead(t) => []<>(health[t] >= Threshold)

\* The promise of _record_vanished_source: the entry lets the editor confirm or roll
\* back the deprecation.  What was rolled back comes back only with another entry.
RollbackSticks ==
    [][\A c \in LinkCheckers :
          undone /\ launch = "live" /\ CheckDeprecates(c) => prober'[c].pc = "vanished"]_linkVars
============================================================================
