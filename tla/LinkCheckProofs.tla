-------------------------- MODULE LinkCheckProofs --------------------------
(***************************************************************************)
(* Proofs about the link checker, for any number of overlapping checks,    *)
(* links and failures.                                                     *)
(***************************************************************************)
EXTENDS LinkCheck, TLAPS

-----------------------------------------------------------------------------
(***************************************************************************)
(* Types.                                                                  *)
(***************************************************************************)
\* Counting a failure stays below the cap, and never gives 0.
LEMMA CappedCounts ==
    \A n \in {NoRow} \cup 0..Cap :
        /\ Capped(n + 1) \in 0..Cap
        /\ n # NoRow => Capped(n + 1) \in 1..Cap
    BY LinkAssumption DEF Capped, Cap, NoRow

\* The idle check is a check.
LEMMA IdleTyped == Idle \in Prober
<1>1. (CHOOSE t \in Targets : TRUE) \in Targets
    BY LinkAssumption
<1>2. FirstAddresses \in [Targets -> Addresses]
    BY DEF FirstAddresses, Addresses
<1> QED
    BY <1>1, <1>2, LinkAssumption DEF Idle, Prober, Cap

\* A check that goes on with the next link is a check.
LEMMA RestTyped ==
    ASSUME LinkTypeOK, NEW c \in LinkCheckers
    PROVE  Rest(c) \in Prober /\ Rest(c).pc = "loop"
<1> DEFINE p == prober[c]
<1>1. p \in Prober
    BY DEF LinkTypeOK
<1> HIDE DEF p
<1>2. p.todo \in SUBSET Targets /\ p.address \in [Targets -> Addresses]
    BY <1>1 DEF Prober
<1>3. Rest(c) = [Idle EXCEPT !.pc = "loop", !.todo = p.todo, !.address = p.address]
    BY DEF Rest, p
<1> QED
    BY <1>2, <1>3, IdleTyped DEF Prober

\* The initial state is of the declared types.
LEMMA LinkInitTyped == LinkInit => LinkTypeOK
<1> SUFFICES ASSUME LinkInit PROVE LinkTypeOK
    OBVIOUS
<1>1. FirstAddresses \in [Targets -> Addresses]
    BY DEF FirstAddresses, Addresses
<1>2. prober \in [LinkCheckers -> Prober]
    BY IdleTyped DEF LinkInit
<1>3. 0 \in 0..Cap
    BY LinkAssumption DEF Cap
<1>4. /\ health \in [Targets -> {NoRow} \cup 0..Cap]
      /\ streak \in [Targets -> 0..Cap]
      /\ queued \in [Targets -> 0..2]
    BY <1>3 DEF LinkInit
<1>5. /\ up \in [Targets -> [Addresses -> BOOLEAN]]
      /\ active \in [Targets -> BOOLEAN] /\ torn \in [Targets -> BOOLEAN]
      /\ hands \in [{"moves", "hands"} -> Nat]
    BY DEF LinkInit
<1> QED
    BY <1>1, <1>2, <1>4, <1>5 DEF LinkInit, LinkTypeOK

\* A write of one entry of a function.
LEMMA EntryTyped ==
    ASSUME NEW D, NEW V, NEW f \in [D -> V], NEW d \in D, NEW v \in V
    PROVE  [f EXCEPT ![d] = v] \in [D -> V]
    OBVIOUS

\* Every statement of a check keeps the types.
LEMMA ProbeStepTyped ==
    ASSUME LinkTypeOK, NEW c \in LinkCheckers, ProbeStep(c)
    PROVE  LinkTypeOK'
<1> DEFINE p == prober[c]
<1>1. /\ p \in Prober
      /\ p.todo \in SUBSET Targets /\ p.address \in [Targets -> Addresses]
      /\ p.target \in Targets /\ p.ok \in BOOLEAN /\ p.again \in BOOLEAN
      /\ p.count \in 0..Cap /\ p.stale \in BOOLEAN
    BY DEF LinkTypeOK, Prober
<1>2. ASSUME NEW next \in Prober, Turns(c, next)
      PROVE  prober' \in [LinkCheckers -> Prober]
    BY <1>2, EntryTyped DEF LinkTypeOK, Turns
<1>3. Idle \in Prober /\ Rest(c) \in Prober
    BY IdleTyped, RestTyped
<1>h. health[p.target] \in {NoRow} \cup 0..Cap /\ streak[p.target] \in 0..Cap
    BY <1>1 DEF LinkTypeOK
<1>s. ASSUME NEW ok \in BOOLEAN, Observed(p.target, ok)
      PROVE  streak' \in [Targets -> 0..Cap]
    <2>1. (IF ok THEN 0 ELSE Capped(streak[p.target] + 1)) \in 0..Cap
        BY <1>h, CappedCounts, LinkAssumption DEF Cap
    <2> QED
        BY <1>1, <1>s, <2>1, EntryTyped DEF Observed, LinkTypeOK
<1> HIDE DEF p
<1>4. CASE CheckLoads(c)
    <2> DEFINE next == [Idle EXCEPT !.pc = "loop", !.todo = Targets, !.address = address]
    <2>1. next \in Prober
        BY <1>3 DEF Prober, LinkTypeOK
    <2> QED
        BY <1>4, <1>2, <2>1 DEF CheckLoads, surroundings, history, LinkTypeOK
<1>5. ASSUME NEW t \in Targets, CheckProbes(c, t)
      PROVE  LinkTypeOK'
    <2>0. up[t][p.address[t]] \in BOOLEAN
        BY <1>1 DEF LinkTypeOK
    <2>1. PICK ok \in BOOLEAN, again \in BOOLEAN :
             Turns(c, [p EXCEPT !.pc = "probed", !.todo = @ \ {t}, !.target = t,
                                !.ok = ok, !.again = again])
        BY <1>5, <2>0 DEF CheckProbes, p
    <2>2. [p EXCEPT !.pc = "probed", !.todo = @ \ {t}, !.target = t,
                    !.ok = ok, !.again = again] \in Prober
        BY <1>1 DEF Prober
    <2> QED
        BY <1>5, <1>2, <2>1, <2>2 DEF CheckProbes, surroundings, history, LinkTypeOK
<1>6. CASE CheckCreates(c)
    <2> DEFINE n == IF p.ok THEN 0 ELSE 1
    <2>1. n \in {NoRow} \cup 0..Cap
        BY LinkAssumption DEF Cap
    <2>2. health' = [health EXCEPT ![p.target] = n]
        BY <1>6 DEF CheckCreates, p
    <2> HIDE DEF n
    <2>3. health' \in [Targets -> {NoRow} \cup 0..Cap]
        BY <1>1, <2>1, <2>2, EntryTyped DEF LinkTypeOK
    <2>4. streak' \in [Targets -> 0..Cap]
        BY <1>6, <1>1, <1>s DEF CheckCreates, p
    <2> QED
        BY <1>6, <1>2, <1>3, <2>3, <2>4 DEF CheckCreates, surroundings, LinkTypeOK
<1>7. CASE CheckCounts(c)
    <2> DEFINE n == Counted(p)
               o == Overlaps(c)
               turn(d) == IF d = c
                          THEN [p EXCEPT !.count = n, !.stale = o # {},
                                         !.pc = IF ~p.ok /\ Fatal(p, n) THEN "dead" ELSE "counted"]
                          ELSE [prober[d] EXCEPT !.stale = @ \/ d \in o]
    <2>1. n \in 0..Cap
        BY <1>7, <1>1, <1>h, CappedCounts, LinkAssumption DEF Counted, Cap
    <2>2. prober' = [d \in LinkCheckers |-> turn(d)]
        BY <1>7 DEF CheckCounts, p
    <2>3. torn' = [torn EXCEPT ![p.target] = @ \/ o # {}]
        BY <1>7 DEF CheckCounts, p
    <2> HIDE DEF n, o
    <2>4. ASSUME NEW d \in LinkCheckers PROVE turn(d) \in Prober
        <3>1. CASE d = c
            <4> DEFINE q == IF ~p.ok /\ Fatal(p, n) THEN "dead" ELSE "counted"
            <4>1. q \in {"dead", "counted"}
                OBVIOUS
            <4> HIDE DEF q
            <4>2. [p EXCEPT !.count = n, !.stale = o # {}, !.pc = q] \in Prober
                BY <1>1, <2>1, <4>1 DEF Prober
            <4> QED
                BY <3>1, <4>2 DEF q
        <3>2. CASE d # c
            <4>1. prober[d] \in Prober
                BY DEF LinkTypeOK
            <4>2. (prober[d].stale \/ d \in o) \in BOOLEAN
                OBVIOUS
            <4>3. [prober[d] EXCEPT !.stale = prober[d].stale \/ d \in o] \in Prober
                BY <4>1, <4>2 DEF Prober
            <4> QED
                BY <3>2, <4>3
        <3> QED
            BY <3>1, <3>2
    <2>5. prober' \in [LinkCheckers -> Prober]
        BY <2>2, <2>4
    <2>6. torn' \in [Targets -> BOOLEAN]
        BY <2>3 DEF LinkTypeOK
    <2>7. streak' \in [Targets -> 0..Cap]
        BY <1>7, <1>1, <1>s DEF CheckCounts, p
    <2> QED
        BY <1>7, <2>5, <2>6, <2>7 DEF CheckCounts, surroundings, LinkTypeOK
<1>8. CASE CheckDeprecates(c)
    <2> DEFINE q == IF p.count = Threshold THEN "vanished" ELSE "counted"
    <2>1. q \in {"vanished", "counted"}
        OBVIOUS
    <2>2. Turns(c, [p EXCEPT !.pc = q])
        BY <1>8 DEF CheckDeprecates, p
    <2> HIDE DEF q
    <2>3. [p EXCEPT !.pc = q] \in Prober
        BY <1>1, <2>1 DEF Prober
    <2> QED
        BY <1>8, <1>2, <2>2, <2>3 DEF CheckDeprecates, surroundings, history, LinkTypeOK
<1>9. CASE CheckDeactivates(c)
    <2>1. [p EXCEPT !.pc = "hidden"] \in Prober
        BY <1>1 DEF Prober
    <2>2. active' \in [Targets -> BOOLEAN]
        BY <1>9 DEF CheckDeactivates, LinkTypeOK
    <2> QED
        BY <1>9, <1>2, <2>1, <2>2 DEF CheckDeactivates, surroundings, history, LinkTypeOK, p
<1>10. CASE CheckQueues(c)
    <2>1. [p EXCEPT !.pc = "counted"] \in Prober
        BY <1>1 DEF Prober
    <2>2. queued' \in [Targets -> 0..2]
        <3> DEFINE v == IF queued[p.target] = 2 THEN 2 ELSE queued[p.target] + 1
        <3>1. queued[p.target] \in 0..2
            BY <1>1 DEF LinkTypeOK
        <3>2. v \in 0..2
            BY <3>1
        <3>3. queued' = [queued EXCEPT ![p.target] = v]
            BY <1>10 DEF CheckQueues, p
        <3> HIDE DEF v
        <3> QED
            BY <1>1, <3>2, <3>3, EntryTyped DEF LinkTypeOK
    <2>3. prober' \in [LinkCheckers -> Prober]
        BY <1>10, <1>2, <2>1 DEF CheckQueues, p
    <2> QED
        BY <1>10, <2>2, <2>3 DEF CheckQueues, surroundings, LinkTypeOK
<1>11. CASE CheckSaves(c)
    <2>1. health' \in [Targets -> {NoRow} \cup 0..Cap]
        BY <1>11, <1>1 DEF CheckSaves, LinkTypeOK, p
    <2>2. queued' \in [Targets -> 0..2]
        <3> DEFINE v == IF p.count = 0 /\ ~p.stale THEN 0 ELSE queued[p.target]
        <3>1. v \in 0..2
            BY <1>1 DEF LinkTypeOK
        <3>2. queued' = [queued EXCEPT ![p.target] = v]
            BY <1>11 DEF CheckSaves, p
        <3> HIDE DEF v
        <3> QED
            BY <1>1, <3>1, <3>2, EntryTyped DEF LinkTypeOK
    <2>3. torn' \in [Targets -> BOOLEAN]
        BY <1>11 DEF CheckSaves, LinkTypeOK
    <2>4. prober' \in [LinkCheckers -> Prober]
        BY <1>11, <1>2, <1>3 DEF CheckSaves
    <2> QED
        BY <1>11, <2>1, <2>2, <2>3, <2>4 DEF CheckSaves, surroundings, LinkTypeOK
<1>12. CASE CheckStumbles(c)
    <2>1. [p EXCEPT !.pc = "probed", !.ok = FALSE, !.again = TRUE] \in Prober
        BY <1>1 DEF Prober
    <2>2. torn' \in [Targets -> BOOLEAN]
        BY <1>12 DEF CheckStumbles, LinkTypeOK
    <2> QED
        BY <1>12, <1>2, <2>1, <2>2 DEF CheckStumbles, surroundings, LinkTypeOK, p
<1>13. CASE CheckDies(c)
    <2>1. torn' \in [Targets -> BOOLEAN]
        BY <1>13 DEF CheckDies, Tears, LinkTypeOK
    <2> QED
        BY <1>13, <1>2, <1>3, <2>1 DEF CheckDies, surroundings, LinkTypeOK
<1>14. CASE CheckEnds(c)
    BY <1>14, <1>2, <1>3 DEF CheckEnds, surroundings, history, LinkTypeOK
<1> QED
    BY <1>4, <1>5, <1>6, <1>7, <1>8, <1>9, <1>10, <1>11, <1>12, <1>13, <1>14
       DEF ProbeStep

\* So do the surroundings: editors, feeds, sites, and the passing of days.
LEMMA LinkSurroundingsTyped ==
    LinkTypeOK /\ LinkSurroundings => LinkTypeOK'
<1> SUFFICES ASSUME LinkTypeOK, LinkSurroundings PROVE LinkTypeOK'
    OBVIOUS
<1> USE DEF LinkTypeOK, surroundings, history
<1>1. CASE DayPasses
    BY <1>1 DEF DayPasses
<1>2. ASSUME NEW t \in Targets, NEW a \in Addresses, SiteChanges(t, a)
      PROVE  LinkTypeOK'
    BY <1>2 DEF SiteChanges
<1>3. ASSUME NEW k \in {"moves", "hands"}, NEW max, Uses(k, max)
      PROVE  hands' \in [{"moves", "hands"} -> Nat]
    BY <1>3 DEF Uses
<1>4. ASSUME NEW t \in Targets, EditorMovesLink(t) PROVE LinkTypeOK'
    BY <1>3, <1>4 DEF EditorMovesLink, Addresses
<1>5. CASE EditorRollsBack
    BY <1>3, <1>5 DEF EditorRollsBack
<1>6. CASE EditorMarksChecked
    BY <1>3, <1>6 DEF EditorMarksChecked
<1>7. ASSUME NEW t \in Targets, FeedRefreshes(t) PROVE LinkTypeOK'
    BY <1>7 DEF FeedRefreshes
<1> QED
    BY <1>1, <1>2, <1>4, <1>5, <1>6, <1>7 DEF LinkSurroundings

\* The type invariant is inductive.
LEMMA LinkNextTyped == LinkTypeOK /\ [LinkNext]_linkVars => LinkTypeOK'
<1>1. LinkTypeOK /\ UNCHANGED linkVars => LinkTypeOK'
    BY DEF LinkTypeOK, linkVars, history
<1> QED
    BY <1>1, ProbeStepTyped, LinkSurroundingsTyped DEF LinkNext

\* The link checker keeps its types: counts of failures stay between 0 and one above
\* the threshold, whichever statements fail and however checks overlap.
THEOREM LinkTypeCorrect == LinkSpec => []LinkTypeOK
    BY LinkInitTyped, LinkNextTyped, PTL DEF LinkSpec

-----------------------------------------------------------------------------
(***************************************************************************)
(* One entry between two recoveries.  As long as the row of a link and     *)
(* what was seen of it have not parted, at most one check is updating the  *)
(* row, and the count in its hands is the next one.                        *)
(***************************************************************************)
UpdatesRow(c, t) == Updating(c) /\ prober[c].target = t

\* A link without a row was never counted, let alone reported.
NoRowIsUncounted(t) == health[t] = NoRow => streak[t] = 0 /\ queued[t] = 0

\* What a check in the middle of an update has in its hands.
UpdateIsSound(c) ==
    LET p == prober[c]
        t == p.target
    IN Updating(c) =>
          /\ health[t] # NoRow
          /\ p.ok <=> p.count = 0
          /\ p.stale => torn[t]
          /\ p.pc # "counted" => Fatal(p, p.count)
          /\ p.pc \in {"vanished", "hidden"} => p.count = Threshold
          /\ ~p.stale /\ p.count = 0 => streak[t] = 0
          /\ ~torn[t] /\ p.count # 0 =>
                p.count = Capped(health[t] + 1) /\ streak[t] = p.count

\* Two checks that update one row have both been marked.
OverlapIsMarked(c, d) ==
    c # d /\ Updating(c) /\ Updating(d) /\ prober[c].target = prober[d].target =>
        prober[c].stale /\ prober[d].stale

\* With no update under way, the row holds the streak.
RowHoldsStreak(t) ==
    ~torn[t] /\ health[t] # NoRow /\ (\A c \in LinkCheckers : ~UpdatesRow(c, t)) =>
        streak[t] = health[t]

\* The entry is written by the check whose count reaches the threshold, before it
\* saves that count.
JustReported(c, t) ==
    UpdatesRow(c, t) /\ prober[c].pc = "counted" /\ prober[c].count = Threshold

EntryMatchesRow(t) ==
    /\ t \notin Deprecating => queued[t] = 0
    /\ ~torn[t] /\ t \in Deprecating =>
          queued[t] = IF health[t] >= Threshold \/ \E c \in LinkCheckers : JustReported(c, t)
                      THEN 1 ELSE 0

LinkInv ==
    /\ LinkTypeOK
    /\ \A t \in Targets : NoRowIsUncounted(t) /\ RowHoldsStreak(t) /\ EntryMatchesRow(t)
    /\ \A c \in LinkCheckers : UpdateIsSound(c)
    /\ \A c, d \in LinkCheckers : OverlapIsMarked(c, d)

\* The types of what a check has in its hands.
LEMMA ProberTypes ==
    ASSUME LinkTypeOK, NEW c \in LinkCheckers
    PROVE  /\ prober[c].target \in Targets /\ prober[c].count \in 0..Cap
           /\ prober[c].ok \in BOOLEAN /\ prober[c].stale \in BOOLEAN
           /\ prober[c].pc \in {"idle", "loop", "probed", "dead", "vanished",
                                "hidden", "counted"}
    BY DEF LinkTypeOK, Prober

\* A row that has not parted from the streak is updated by one check at most.
LEMMA OnlyUpdater ==
    ASSUME LinkInv, NEW t \in Targets, ~torn[t], NEW c \in LinkCheckers,
           NEW d \in LinkCheckers, UpdatesRow(c, t), UpdatesRow(d, t)
    PROVE  c = d
    BY DEF LinkInv, OverlapIsMarked, UpdateIsSound, UpdatesRow

\* What holds of the row of a link holds after every step that leaves the row and the
\* history of the link alone, and moves no check that updates it.
LEMMA RowUntouched ==
    ASSUME LinkInv, NEW t \in Targets,
           health'[t] = health[t], streak'[t] = streak[t], queued'[t] = queued[t],
           torn'[t] = torn[t],
           \A c \in LinkCheckers : UpdatesRow(c, t) \/ UpdatesRow(c, t)' =>
               prober'[c].pc = prober[c].pc /\ prober'[c].count = prober[c].count
               /\ prober'[c].target = prober[c].target
    PROVE  (NoRowIsUncounted(t) /\ RowHoldsStreak(t) /\ EntryMatchesRow(t))'
<1>1. \A c \in LinkCheckers : UpdatesRow(c, t)' <=> UpdatesRow(c, t)
    BY DEF UpdatesRow, Updating
<1>2. \A c \in LinkCheckers : JustReported(c, t)' <=> JustReported(c, t)
    BY <1>1 DEF JustReported
<1>3. NoRowIsUncounted(t) /\ RowHoldsStreak(t) /\ EntryMatchesRow(t)
    BY DEF LinkInv
<1>4. NoRowIsUncounted(t)'
    BY <1>3 DEF NoRowIsUncounted
<1>5. RowHoldsStreak(t)'
    BY <1>1, <1>3 DEF RowHoldsStreak
<1>6. EntryMatchesRow(t)'
    BY <1>2, <1>3 DEF EntryMatchesRow
<1> QED
    BY <1>4, <1>5, <1>6

\* A check that gives up an update, or had none, leaves the rest as it is.
LEMMA LeavesKeeps ==
    ASSUME LinkInv, LinkTypeOK', NEW c \in LinkCheckers,
           \A d \in LinkCheckers \ {c} : prober'[d] = prober[d],
           ~Updating(c)', UNCHANGED <<health, streak, queued>>,
           \A t \in Targets : torn[t] => torn'[t],
           \A t \in Targets \ {prober[c].target} : torn'[t] = torn[t],
           Updating(c) => torn'[prober[c].target]
    PROVE  LinkInv'
<1>1. ASSUME NEW t \in Targets
      PROVE  (NoRowIsUncounted(t) /\ RowHoldsStreak(t) /\ EntryMatchesRow(t))'
    <2>1. CASE torn'[t]
        BY <2>1 DEF LinkInv, NoRowIsUncounted, RowHoldsStreak, EntryMatchesRow
    <2>2. CASE ~torn'[t]
        <3>1. ~torn[t] /\ ~UpdatesRow(c, t)
            BY <2>2 DEF UpdatesRow
        <3>2. torn'[t] = torn[t]
            BY <2>2, <3>1 DEF LinkInv, LinkTypeOK
        <3>3. ASSUME NEW d \in LinkCheckers, UpdatesRow(d, t) \/ UpdatesRow(d, t)'
              PROVE  prober'[d] = prober[d]
            BY <3>1, <3>3 DEF UpdatesRow
        <3> QED
            BY <3>2, <3>3, RowUntouched
    <2> QED
        BY <2>1, <2>2
<1>2. ASSUME NEW d \in LinkCheckers PROVE UpdateIsSound(d)'
    <2>1. CASE d = c
        BY <2>1 DEF UpdateIsSound
    <2>2. CASE d # c
        <3>1. prober'[d] = prober[d] /\ UpdateIsSound(d) /\ prober[d].target \in Targets
            BY <2>2, ProberTypes DEF LinkInv
        <3> QED
            BY <3>1 DEF UpdateIsSound, Updating, Fatal
    <2> QED
        BY <2>1, <2>2
<1>3. ASSUME NEW d \in LinkCheckers, NEW e \in LinkCheckers PROVE OverlapIsMarked(d, e)'
    BY DEF LinkInv, OverlapIsMarked, Updating
<1> QED
    BY <1>1, <1>2, <1>3 DEF LinkInv

\* Within an update: the deprecation and the deactivation move nothing but the check.
LEMMA StatementKeeps ==
    ASSUME LinkInv, LinkTypeOK', NEW c \in LinkCheckers,
           CheckDeprecates(c) \/ CheckDeactivates(c)
    PROVE  LinkInv'
<1> DEFINE p == prober[c]
           t == p.target
           q == prober'[c]
<1>0. LinkTypeOK /\ UpdateIsSound(c) /\ Updating(c)
    BY DEF LinkInv, CheckDeprecates, CheckDeactivates, Updating
<1>1. UNCHANGED <<health, streak, queued, torn>>
    BY DEF CheckDeprecates, CheckDeactivates, history
<1>2. \A d \in LinkCheckers \ {c} : prober'[d] = prober[d]
    BY DEF CheckDeprecates, CheckDeactivates, Turns, LinkInv, LinkTypeOK
<1>3. p \in Prober
    BY DEF LinkInv, LinkTypeOK
<1>4. /\ q.target = p.target /\ q.count = p.count /\ q.ok = p.ok /\ q.stale = p.stale
      /\ \/ p.pc = "dead" /\ q.pc = IF p.count = Threshold THEN "vanished" ELSE "counted"
         \/ p.pc = "vanished" /\ q.pc = "hidden"
    BY <1>3 DEF CheckDeprecates, CheckDeactivates, Turns, LinkInv, LinkTypeOK, Prober
<1>5. Updating(c) /\ Updating(c)'
    BY <1>0, <1>4 DEF Updating
<1>6. \A d \in LinkCheckers : Updating(d)' <=> Updating(d)
    BY <1>2, <1>5 DEF Updating
<1>7. ASSUME NEW d \in LinkCheckers
      PROVE  prober'[d].target = prober[d].target /\ prober'[d].stale = prober[d].stale
    BY <1>2, <1>4
<1>8. ASSUME NEW d \in LinkCheckers PROVE UpdateIsSound(d)'
    <2>1. CASE d = c
        BY <2>1, <1>0, <1>1, <1>4 DEF UpdateIsSound, Fatal, Updating
    <2>2. CASE d # c
        <3>1. prober'[d] = prober[d] /\ UpdateIsSound(d)
            BY <1>2, <2>2 DEF LinkInv
        <3> QED
            BY <3>1, <1>1 DEF UpdateIsSound, Updating, Fatal
    <2> QED
        BY <2>1, <2>2
<1>9. ASSUME NEW d \in LinkCheckers, NEW e \in LinkCheckers PROVE OverlapIsMarked(d, e)'
    BY <1>6, <1>7 DEF LinkInv, OverlapIsMarked
<1>10. ASSUME NEW d \in LinkCheckers, NEW u \in Targets
       PROVE  JustReported(d, u)' <=> JustReported(d, u)
    <2>1. CASE d = c
        BY <2>1, <1>0, <1>4, <1>5 DEF JustReported, UpdatesRow, UpdateIsSound, Fatal, Updating
    <2>2. CASE d # c
        BY <2>2, <1>2, <1>6 DEF JustReported, UpdatesRow
    <2> QED
        BY <2>1, <2>2
<1>11. ASSUME NEW u \in Targets
       PROVE  (NoRowIsUncounted(u) /\ RowHoldsStreak(u) /\ EntryMatchesRow(u))'
    <2>1. NoRowIsUncounted(u) /\ RowHoldsStreak(u) /\ EntryMatchesRow(u)
        BY DEF LinkInv
    <2>2. \A d \in LinkCheckers : UpdatesRow(d, u)' <=> UpdatesRow(d, u)
        BY <1>6, <1>7 DEF UpdatesRow
    <2> QED
        BY <2>1, <2>2, <1>1, <1>10 DEF NoRowIsUncounted, RowHoldsStreak, EntryMatchesRow
<1> QED
    BY <1>8, <1>9, <1>11 DEF LinkInv

\* The entry: the check whose count has just reached the threshold writes the first one.
LEMMA QueuesKeeps ==
    ASSUME LinkInv, LinkTypeOK', NEW c \in LinkCheckers, CheckQueues(c)
    PROVE  LinkInv'
<1> DEFINE p == prober[c]
           q == prober'[c]
<1> PICK t \in Targets : t = prober[c].target
    BY ProberTypes DEF LinkInv
<1>0. LinkTypeOK /\ UpdateIsSound(c) /\ Updating(c)
    BY DEF LinkInv, CheckQueues, Updating
<1>1. UNCHANGED <<health, streak, torn>>
    BY DEF CheckQueues
<1>2. \A d \in LinkCheckers \ {c} : prober'[d] = prober[d]
    BY <1>0 DEF CheckQueues, Turns, LinkTypeOK
<1>3. p \in Prober
    BY <1>0 DEF LinkTypeOK
<1>4. /\ q.target = p.target /\ q.count = p.count /\ q.ok = p.ok /\ q.stale = p.stale
      /\ p.pc = "hidden" /\ q.pc = "counted"
    BY <1>0, <1>3 DEF CheckQueues, Turns, LinkTypeOK, Prober
<1>5. /\ queued'[t] = IF queued[t] = 2 THEN 2 ELSE queued[t] + 1
      /\ \A u \in Targets \ {t} : queued'[u] = queued[u]
    BY <1>0 DEF CheckQueues, LinkTypeOK
<1>6. \A d \in LinkCheckers : Updating(d)' <=> Updating(d)
    BY <1>2, <1>0, <1>4 DEF Updating
<1>7. ASSUME NEW d \in LinkCheckers
      PROVE  prober'[d].target = prober[d].target /\ prober'[d].stale = prober[d].stale
    BY <1>2, <1>4
<1>8. ASSUME NEW d \in LinkCheckers PROVE UpdateIsSound(d)'
    <2>1. CASE d = c
        BY <2>1, <1>0, <1>1, <1>4 DEF UpdateIsSound, Fatal, Updating
    <2>2. CASE d # c
        <3>1. prober'[d] = prober[d] /\ UpdateIsSound(d)
            BY <1>2, <2>2 DEF LinkInv
        <3> QED
            BY <3>1, <1>1 DEF UpdateIsSound, Updating, Fatal
    <2> QED
        BY <2>1, <2>2
<1>9. ASSUME NEW d \in LinkCheckers, NEW e \in LinkCheckers PROVE OverlapIsMarked(d, e)'
    BY <1>6, <1>7 DEF LinkInv, OverlapIsMarked
<1>10. p.count = Threshold /\ t \in Deprecating
    BY <1>0, <1>4 DEF UpdateIsSound, Fatal
<1>11. (NoRowIsUncounted(t) /\ RowHoldsStreak(t) /\ EntryMatchesRow(t))'
    <2>1. NoRowIsUncounted(t)'
        BY <1>0, <1>1 DEF NoRowIsUncounted, UpdateIsSound
    <2>2. UpdatesRow(c, t)'
        BY <1>0, <1>4, <1>6 DEF UpdatesRow
    <2>3. ASSUME ~torn[t] PROVE queued[t] = 0
        <3>1. p.count = Capped(health[t] + 1)
            BY <2>3, <1>0, <1>10, LinkAssumption DEF UpdateIsSound
        <3>2. health[t] < Threshold
            <4>1. health[t] \in {NoRow} \cup 0..Cap /\ Threshold \in Nat
                BY <1>0, LinkAssumption DEF LinkTypeOK
            <4> QED
                BY <3>1, <4>1, <1>10 DEF Capped, Cap, NoRow
        <3>3. ~\E d \in LinkCheckers : JustReported(d, t)
            BY <2>3, <1>0, <1>4, OnlyUpdater DEF JustReported, UpdatesRow
        <3>4. health[t] \in Int /\ Threshold \in Int
            BY <1>0, LinkAssumption DEF LinkTypeOK, NoRow
        <3> QED
            BY <2>3, <3>2, <3>3, <3>4, <1>10, <1>0 DEF LinkInv, EntryMatchesRow
    <2>4. ASSUME ~torn[t] PROVE queued'[t] = 1
        BY <2>3, <2>4, <1>5
    <2>5. JustReported(c, t)'
        BY <2>2, <1>4, <1>10 DEF JustReported
    <2>6. EntryMatchesRow(t)'
        BY <2>4, <2>5, <1>1, <1>10 DEF EntryMatchesRow
    <2>7. RowHoldsStreak(t)'
        BY <2>2 DEF RowHoldsStreak
    <2> QED
        BY <2>1, <2>6, <2>7
<1>12. ASSUME NEW u \in Targets \ {t}
       PROVE  (NoRowIsUncounted(u) /\ RowHoldsStreak(u) /\ EntryMatchesRow(u))'
    <2>1. ASSUME NEW d \in LinkCheckers, UpdatesRow(d, u) \/ UpdatesRow(d, u)'
          PROVE  prober'[d] = prober[d]
        BY <1>2, <1>4, <2>1 DEF UpdatesRow
    <2> QED
        BY <1>1, <1>5, <2>1, RowUntouched
<1> QED
    BY <1>8, <1>9, <1>11, <1>12 DEF LinkInv

\* The first count of a link creates its row.
LEMMA CreatesKeeps ==
    ASSUME LinkInv, LinkTypeOK', NEW c \in LinkCheckers, CheckCreates(c)
    PROVE  LinkInv'
<1> DEFINE p == prober[c]
           n == IF p.ok THEN 0 ELSE 1
<1> PICK t \in Targets : t = prober[c].target
    BY ProberTypes DEF LinkInv
<1>0. LinkTypeOK /\ p.ok \in BOOLEAN /\ health[t] = NoRow /\ p.pc = "probed"
    BY ProberTypes DEF LinkInv, CheckCreates
<1>1. UNCHANGED <<queued, torn>>
    BY DEF CheckCreates
<1>2. \A d \in LinkCheckers \ {c} : prober'[d] = prober[d]
    BY <1>0 DEF CheckCreates, Turns, LinkTypeOK
<1>3. ~Updating(c) /\ ~Updating(c)'
    BY <1>0, RestTyped DEF CheckCreates, Turns, LinkTypeOK, Updating
<1>4. /\ health'[t] = n
      /\ \A u \in Targets \ {t} : health'[u] = health[u]
    BY <1>0 DEF CheckCreates, LinkTypeOK
<1>5. /\ streak'[t] = IF p.ok THEN 0 ELSE Capped(streak[t] + 1)
      /\ \A u \in Targets \ {t} : streak'[u] = streak[u]
    BY <1>0 DEF CheckCreates, Observed, LinkTypeOK
<1>6. streak[t] = 0 /\ queued[t] = 0
    BY <1>0 DEF LinkInv, NoRowIsUncounted
<1>7. streak'[t] = n
    BY <1>5, <1>6, LinkAssumption DEF Capped, Cap
<1>8. ASSUME NEW d \in LinkCheckers PROVE ~UpdatesRow(d, t) /\ ~UpdatesRow(d, t)'
    BY <1>0, <1>2, <1>3 DEF LinkInv, UpdateIsSound, UpdatesRow, Updating
<1>9. ASSUME NEW d \in LinkCheckers PROVE UpdateIsSound(d)'
    <2>1. CASE d = c
        BY <2>1, <1>3 DEF UpdateIsSound
    <2>2. CASE d # c
        <3>1. prober'[d] = prober[d] /\ UpdateIsSound(d)
            BY <1>2, <2>2 DEF LinkInv
        <3>2. Updating(d)' => Updating(d) /\ prober[d].target # t
            BY <3>1, <1>8 DEF UpdatesRow, Updating
        <3>3. prober[d].target \in Targets
            BY <1>0, ProberTypes
        <3> QED
            BY <3>1, <3>2, <3>3, <1>1, <1>4, <1>5 DEF UpdateIsSound, Fatal
    <2> QED
        BY <2>1, <2>2
<1>10. ASSUME NEW d \in LinkCheckers, NEW e \in LinkCheckers PROVE OverlapIsMarked(d, e)'
    BY <1>2, <1>3 DEF LinkInv, OverlapIsMarked, Updating
<1>11. (NoRowIsUncounted(t) /\ RowHoldsStreak(t) /\ EntryMatchesRow(t))'
    <2>1. n \in {0, 1} /\ n # NoRow /\ ~(n >= Threshold)
        BY LinkAssumption DEF NoRow
    <2>2. ~\E d \in LinkCheckers : JustReported(d, t)'
        BY <1>8 DEF JustReported
    <2> HIDE DEF n
    <2>3. NoRowIsUncounted(t)' /\ RowHoldsStreak(t)'
        BY <2>1, <1>4, <1>7 DEF NoRowIsUncounted, RowHoldsStreak
    <2>4. EntryMatchesRow(t)'
        BY <2>1, <2>2, <1>4, <1>1, <1>6 DEF EntryMatchesRow
    <2> QED
        BY <2>3, <2>4
<1>12. ASSUME NEW u \in Targets \ {t}
       PROVE  (NoRowIsUncounted(u) /\ RowHoldsStreak(u) /\ EntryMatchesRow(u))'
    <2>1. ASSUME NEW d \in LinkCheckers, UpdatesRow(d, u) \/ UpdatesRow(d, u)'
          PROVE  prober'[d] = prober[d]
        BY <1>2, <1>3, <2>1 DEF UpdatesRow
    <2> QED
        BY <1>1, <1>4, <1>5, <2>1, RowUntouched
<1> QED
    BY <1>9, <1>10, <1>11, <1>12 DEF LinkInv

\* A count taken while another check updates the row marks both of them; taken alone, it
\* is the streak.
LEMMA CountsKeeps ==
    ASSUME LinkInv, LinkTypeOK', NEW c \in LinkCheckers, CheckCounts(c)
    PROVE  LinkInv'
<1> DEFINE p == prober[c]
           n == Counted(p)
           o == Overlaps(c)
           q == IF ~p.ok /\ Fatal(p, n) THEN "dead" ELSE "counted"
<1> PICK t \in Targets : t = p.target
    BY ProberTypes DEF LinkInv
<1>0. LinkTypeOK /\ p.ok \in BOOLEAN /\ p.pc = "probed" /\ health[t] # NoRow /\ ~Updating(c)
    BY ProberTypes DEF LinkInv, CheckCounts, Updating
<1>1. UNCHANGED <<health, queued>>
    BY DEF CheckCounts
<1>2. ASSUME NEW d \in LinkCheckers \ {c}
      PROVE  /\ prober'[d].pc = prober[d].pc /\ prober'[d].target = prober[d].target
             /\ prober'[d].count = prober[d].count /\ prober'[d].ok = prober[d].ok
             /\ prober'[d].stale = (prober[d].stale \/ d \in o)
    <2>1. prober'[d] = [prober[d] EXCEPT !.stale = prober[d].stale \/ d \in o]
        BY DEF CheckCounts
    <2>2. prober[d] \in Prober
        BY <1>0 DEF LinkTypeOK
    <2> HIDE DEF o
    <2> QED
        BY <2>1, <2>2 DEF Prober
<1>3. /\ prober'[c].target = t /\ prober'[c].ok = p.ok /\ prober'[c].count = n
      /\ prober'[c].stale = (o # {}) /\ prober'[c].pc = q
    <2>1. prober'[c] = [p EXCEPT !.count = n, !.stale = o # {}, !.pc = q]
        BY DEF CheckCounts
    <2>2. p \in Prober
        BY <1>0 DEF LinkTypeOK
    <2> HIDE DEF n, o, q
    <2> QED
        BY <2>1, <2>2 DEF Prober
<1>4. /\ torn'[t] = (torn[t] \/ o # {})
      /\ \A u \in Targets \ {t} : torn'[u] = torn[u]
    BY <1>0 DEF CheckCounts, LinkTypeOK
<1>5. /\ streak'[t] = IF p.ok THEN 0 ELSE Capped(streak[t] + 1)
      /\ \A u \in Targets \ {t} : streak'[u] = streak[u]
    BY <1>0 DEF CheckCounts, Observed, LinkTypeOK
<1>6. /\ p.ok => n = 0
      /\ ~p.ok => n = Capped(health[t] + 1) /\ n \in 1..Cap
    BY <1>0, CappedCounts DEF Counted, LinkTypeOK
<1>7. Updating(c)' /\ \A d \in LinkCheckers \ {c} : Updating(d)' <=> Updating(d)
    BY <1>2, <1>3 DEF Updating
<1>8. \A d \in LinkCheckers \ {c} : d \in o <=> UpdatesRow(d, t)
    BY DEF Overlaps, UpdatesRow
<1>9. ASSUME ~torn'[t]
      PROVE  ~torn[t] /\ o = {} /\ \A d \in LinkCheckers : ~UpdatesRow(d, t)
    BY <1>9, <1>4, <1>8, <1>0 DEF UpdatesRow
<1>10. ASSUME ~torn'[t] PROVE streak[t] = health[t] /\ streak'[t] = n
    BY <1>10, <1>9, <1>0, <1>5, <1>6 DEF LinkInv, RowHoldsStreak
<1>11. ASSUME NEW d \in LinkCheckers PROVE UpdateIsSound(d)'
    <2>1. CASE d = c
        <3>1. p.ok <=> n = 0
            BY <1>0, <1>6, LinkAssumption DEF Cap
        <3>2. q # "counted" => t \in Deprecating /\ n >= Threshold
            BY <1>3, <1>6 DEF Fatal
        <3>3. q \notin {"vanished", "hidden"}
            OBVIOUS
        <3>4. n = 0 => streak'[t] = 0
            BY <3>1, <1>5
        <3> HIDE DEF n, o, q
        <3> QED
            BY <2>1, <3>1, <3>2, <3>3, <3>4, <1>0, <1>1, <1>3, <1>4, <1>6, <1>10
               DEF UpdateIsSound, Fatal
    <2>2. CASE d # c
        <3>1. UpdateIsSound(d) /\ prober[d].target \in Targets
            BY <1>0, ProberTypes DEF LinkInv
        <3>2. CASE UpdatesRow(d, t)
            <4>1. d \in o /\ torn'[t] /\ prober'[d].stale
                BY <2>2, <3>2, <1>2, <1>4, <1>8
            <4> HIDE DEF o
            <4> QED
                BY <2>2, <3>1, <3>2, <4>1, <1>1, <1>2, <1>7 DEF UpdateIsSound, Fatal, UpdatesRow
        <3>3. CASE ~UpdatesRow(d, t)
            <4>1. d \notin o
                BY <2>2, <3>3, <1>8
            <4>2. Updating(d) => prober[d].target \in Targets \ {t}
                BY <3>1, <3>3 DEF UpdatesRow
            <4>3. prober'[d].stale = prober[d].stale
                BY <2>2, <4>1, <1>0, <1>2, ProberTypes
            <4> HIDE DEF o
            <4> QED
                BY <2>2, <3>1, <4>2, <4>3, <1>1, <1>2, <1>4, <1>5, <1>7
                   DEF UpdateIsSound, Fatal
        <3> QED
            BY <3>2, <3>3
    <2> QED
        BY <2>1, <2>2
<1>12. ASSUME NEW d \in LinkCheckers, NEW e \in LinkCheckers PROVE OverlapIsMarked(d, e)'
    <2>1. ASSUME NEW x \in LinkCheckers \ {c}, UpdatesRow(x, t)
          PROVE  prober'[x].stale /\ prober'[c].stale
        <3>1. x \in o
            BY <2>1, <1>8
        <3> QED
            BY <3>1, <1>2, <1>3
    <2>2. CASE d # c /\ e # c
        BY <2>2, <1>2, <1>7 DEF LinkInv, OverlapIsMarked
    <2>3. CASE d = c \/ e = c
        BY <2>1, <2>3, <1>2, <1>3, <1>7 DEF OverlapIsMarked, UpdatesRow
    <2> QED
        BY <2>2, <2>3
<1>13. (NoRowIsUncounted(t) /\ RowHoldsStreak(t) /\ EntryMatchesRow(t))'
    <2>1. NoRowIsUncounted(t)'
        BY <1>0, <1>1 DEF NoRowIsUncounted
    <2>2. RowHoldsStreak(t)'
        BY <1>3, <1>7 DEF RowHoldsStreak, UpdatesRow
    <2>3. EntryMatchesRow(t)'
        <3>0. EntryMatchesRow(t)
            BY DEF LinkInv
        <3>1. ASSUME ~torn'[t], t \in Deprecating, NEW d \in LinkCheckers
              PROVE  ~JustReported(d, t) /\ ~JustReported(d, t)'
            <4>1. CASE d # c
                BY <3>1, <4>1, <1>2, <1>9 DEF JustReported, UpdatesRow, Updating
            <4>2. CASE d = c
                <5>1. n = Threshold => ~p.ok /\ Fatal(p, n)
                    BY <1>6, <3>1, LinkAssumption DEF Fatal
                <5> QED
                    BY <4>2, <5>1, <1>0, <1>3 DEF JustReported, UpdatesRow
            <4> QED
                BY <4>1, <4>2
        <3>2. CASE torn'[t]
            BY <3>0, <3>2, <1>1 DEF EntryMatchesRow
        <3>3. CASE ~torn'[t]
            BY <3>0, <3>1, <3>3, <1>1, <1>9 DEF EntryMatchesRow
        <3> QED
            BY <3>2, <3>3
    <2> QED
        BY <2>1, <2>2, <2>3
<1>14. ASSUME NEW u \in Targets \ {t}
       PROVE  (NoRowIsUncounted(u) /\ RowHoldsStreak(u) /\ EntryMatchesRow(u))'
    <2>1. ASSUME NEW d \in LinkCheckers, UpdatesRow(d, u) \/ UpdatesRow(d, u)'
          PROVE  prober'[d].pc = prober[d].pc /\ prober'[d].count = prober[d].count
                 /\ prober'[d].target = prober[d].target
        BY <1>2, <1>3, <2>1 DEF UpdatesRow
    <2> QED
        BY <1>1, <1>4, <1>5, <2>1, RowUntouched
<1> QED
    BY <1>11, <1>12, <1>13, <1>14 DEF LinkInv

\* A check that saves a 0 no other check interfered with starts the history over; any
\* other count it saves is the streak, or the two have parted already.
LEMMA SavesKeeps ==
    ASSUME LinkInv, LinkTypeOK', NEW c \in LinkCheckers, CheckSaves(c)
    PROVE  LinkInv'
<1> DEFINE p == prober[c]
           recovers == p.count = 0 /\ ~p.stale
<1> PICK t \in Targets : t = p.target
    BY ProberTypes DEF LinkInv
<1>0. /\ LinkTypeOK /\ UpdateIsSound(c) /\ UpdatesRow(c, t)
      /\ p.pc = "counted" /\ p.count \in 0..Cap
    BY ProberTypes DEF LinkInv, CheckSaves, UpdatesRow, Updating
<1>1. UNCHANGED streak
    BY DEF CheckSaves
<1>2. \A d \in LinkCheckers \ {c} : prober'[d] = prober[d]
    BY <1>0 DEF CheckSaves, Turns, LinkTypeOK
<1>3. ~Updating(c)'
    BY <1>0, RestTyped DEF CheckSaves, Turns, LinkTypeOK, Updating
<1>4. /\ health'[t] = p.count
      /\ \A u \in Targets \ {t} : health'[u] = health[u]
    BY <1>0 DEF CheckSaves, LinkTypeOK
<1>5. /\ queued'[t] = IF recovers THEN 0 ELSE queued[t]
      /\ \A u \in Targets \ {t} : queued'[u] = queued[u]
    BY <1>0 DEF CheckSaves, LinkTypeOK
<1>6. /\ torn'[t] = (torn[t] /\ ~recovers)
      /\ \A u \in Targets \ {t} : torn'[u] = torn[u]
    BY <1>0 DEF CheckSaves, LinkTypeOK
<1>7. ASSUME ~torn'[t], NEW d \in LinkCheckers \ {c} PROVE ~UpdatesRow(d, t)
    <2>1. CASE ~torn[t]
        BY <2>1, <1>0, OnlyUpdater
    <2>2. CASE recovers
        BY <2>2, <1>0 DEF LinkInv, OverlapIsMarked, UpdatesRow
    <2> QED
        BY <2>1, <2>2, <1>6, <1>7
<1>8. ASSUME ~torn'[t] PROVE streak[t] = p.count /\ (recovers \/ (~torn[t] /\ p.count # 0))
    <2>1. CASE recovers
        <3>1. streak[p.target] = 0
            BY <2>1, <1>0 DEF UpdateIsSound, UpdatesRow
        <3> QED
            BY <2>1, <3>1
    <2>2. CASE ~recovers
        <3>1. ~torn[t]
            BY <1>6, <1>8, <2>2
        <3>2. p.count # 0
            BY <2>2, <3>1, <1>0 DEF UpdateIsSound, UpdatesRow
        <3> QED
            BY <3>1, <3>2, <1>0 DEF UpdateIsSound, UpdatesRow
    <2> QED
        BY <2>1, <2>2
<1>9. ASSUME NEW d \in LinkCheckers PROVE UpdateIsSound(d)'
    <2>1. CASE d = c
        BY <2>1, <1>3 DEF UpdateIsSound
    <2>2. CASE d # c
        <3>1. prober'[d] = prober[d] /\ UpdateIsSound(d) /\ prober[d].target \in Targets
            BY <1>0, <1>2, <2>2, ProberTypes DEF LinkInv
        <3>2. CASE UpdatesRow(d, t)
            <4>1. torn'[t] /\ prober[d].stale
                BY <2>2, <3>2, <1>0, <1>7 DEF LinkInv, OverlapIsMarked, UpdatesRow
            <4>2. health'[t] # NoRow
                BY <1>0, <1>4 DEF NoRow
            <4> QED
                BY <3>1, <3>2, <4>1, <4>2 DEF UpdateIsSound, Fatal, Updating, UpdatesRow
        <3>3. CASE ~UpdatesRow(d, t)
            <4>1. Updating(d)' => Updating(d) /\ prober[d].target \in Targets \ {t}
                BY <3>1, <3>3 DEF UpdatesRow, Updating
            <4> QED
                BY <3>1, <4>1, <1>1, <1>4, <1>6 DEF UpdateIsSound, Fatal
        <3> QED
            BY <3>2, <3>3
    <2> QED
        BY <2>1, <2>2
<1>10. ASSUME NEW d \in LinkCheckers, NEW e \in LinkCheckers PROVE OverlapIsMarked(d, e)'
    BY <1>2, <1>3 DEF LinkInv, OverlapIsMarked, Updating
<1>11. (NoRowIsUncounted(t) /\ RowHoldsStreak(t) /\ EntryMatchesRow(t))'
    <2>1. NoRowIsUncounted(t)'
        BY <1>0, <1>4 DEF NoRowIsUncounted, NoRow
    <2>2. RowHoldsStreak(t)'
        BY <1>1, <1>4, <1>8 DEF RowHoldsStreak
    <2>3. EntryMatchesRow(t)'
        <3>0. EntryMatchesRow(t)
            BY DEF LinkInv
        <3>1. t \notin Deprecating => queued'[t] = 0
            BY <3>0, <1>5 DEF EntryMatchesRow
        <3>2. ASSUME ~torn'[t], NEW d \in LinkCheckers PROVE ~JustReported(d, t)'
            BY <3>2, <1>2, <1>3, <1>7 DEF JustReported, UpdatesRow, Updating
        <3>3. ASSUME ~torn'[t], t \in Deprecating
              PROVE  queued'[t] = IF p.count >= Threshold THEN 1 ELSE 0
            <4>1. CASE recovers
                BY <4>1, <1>5, LinkAssumption
            <4>2. CASE ~torn[t] /\ p.count # 0
                <5>1. queued'[t] = queued[t]
                    BY <4>2, <1>5
                <5>2. p.count = Capped(health[t] + 1) /\ health[t] \in 0..Cap
                    BY <4>2, <1>0 DEF UpdateIsSound, UpdatesRow, LinkTypeOK
                <5>3. (\E d \in LinkCheckers : JustReported(d, t)) <=> p.count = Threshold
                    BY <4>2, <1>0, OnlyUpdater DEF JustReported
                <5>4. p.count >= Threshold <=> health[t] >= Threshold \/ p.count = Threshold
                    BY <5>2, LinkAssumption DEF Capped, Cap
                <5> QED
                    BY <3>0, <3>3, <4>2, <5>1, <5>3, <5>4 DEF EntryMatchesRow
            <4> QED
                BY <3>3, <4>1, <4>2, <1>8
        <3> QED
            BY <3>1, <3>2, <3>3, <1>4 DEF EntryMatchesRow
    <2> QED
        BY <2>1, <2>2, <2>3
<1>12. ASSUME NEW u \in Targets \ {t}
       PROVE  (NoRowIsUncounted(u) /\ RowHoldsStreak(u) /\ EntryMatchesRow(u))'
    <2>1. ASSUME NEW d \in LinkCheckers, UpdatesRow(d, u) \/ UpdatesRow(d, u)'
          PROVE  prober'[d] = prober[d]
        BY <1>0, <1>2, <1>3, <2>1 DEF UpdatesRow
    <2> QED
        BY <1>1, <1>4, <1>5, <1>6, <2>1, RowUntouched
<1> QED
    BY <1>9, <1>10, <1>11, <1>12 DEF LinkInv

\* The surroundings move no check, no row and no history but `undone'.
LEMMA SurroundingsKeep ==
    ASSUME LinkInv, LinkTypeOK', UNCHANGED <<health, prober, streak, queued, torn>>
    PROVE  LinkInv'
<1>1. ASSUME NEW c \in LinkCheckers PROVE UpdateIsSound(c)'
    BY DEF LinkInv, UpdateIsSound, Updating, Fatal
<1>2. ASSUME NEW t \in Targets
      PROVE  (NoRowIsUncounted(t) /\ RowHoldsStreak(t) /\ EntryMatchesRow(t))'
    BY RowUntouched
<1>3. ASSUME NEW c \in LinkCheckers, NEW d \in LinkCheckers PROVE OverlapIsMarked(c, d)'
    BY DEF LinkInv, OverlapIsMarked, Updating
<1> QED
    BY <1>1, <1>2, <1>3 DEF LinkInv

\* The statements that start, end or give up an update.
LEMMA LeavingSteps ==
    ASSUME LinkInv, LinkTypeOK', NEW c \in LinkCheckers,
           \/ CheckLoads(c)
           \/ \E t \in Targets : CheckProbes(c, t)
           \/ CheckStumbles(c)
           \/ CheckDies(c)
           \/ CheckEnds(c)
    PROVE  LinkInv'
<1> PICK t \in Targets : t = prober[c].target
    BY ProberTypes DEF LinkInv
<1>0. LinkTypeOK /\ prober[c] \in Prober
    BY DEF LinkInv, LinkTypeOK
<1>1. ASSUME NEW next, Turns(c, next)
      PROVE  /\ \A d \in LinkCheckers \ {c} : prober'[d] = prober[d]
             /\ prober'[c] = next
    BY <1>0, <1>1 DEF Turns, LinkTypeOK
<1>2. ASSUME NEW next, Turns(c, next),
             next.pc \in {"idle", "loop", "probed"},
             UNCHANGED <<health, streak, queued>>,
             \/ UNCHANGED torn /\ ~Updating(c)
             \/ \E b \in BOOLEAN : torn' = [torn EXCEPT ![t] = @ \/ Updating(c) \/ b]
      PROVE  LinkInv'
    <2>1. ~Updating(c)'
        BY <1>1, <1>2 DEF Updating
    <2>2. \A d \in LinkCheckers \ {c} : prober'[d] = prober[d]
        BY <1>1, <1>2
    <2>3. /\ \A u \in Targets : torn[u] => torn'[u]
          /\ \A u \in Targets \ {t} : torn'[u] = torn[u]
          /\ Updating(c) => torn'[t]
        BY <1>0, <1>2 DEF LinkTypeOK
    <2> QED
        BY <1>2, <2>1, <2>2, <2>3, LeavesKeeps
<1>3. Idle.pc = "idle" /\ (Updating(c) => prober[c].pc \in {"dead", "vanished", "hidden", "counted"})
    BY DEF Idle, Updating
<1>4. CASE CheckLoads(c)
    <2>1. [Idle EXCEPT !.pc = "loop", !.todo = Targets, !.address = address].pc = "loop"
        BY DEF Idle
    <2> QED
        BY <1>2, <1>3, <1>4, <2>1 DEF CheckLoads, history
<1>5. ASSUME NEW u \in Targets, CheckProbes(c, u) PROVE LinkInv'
    <2>1. PICK ok, again :
             Turns(c, [prober[c] EXCEPT !.pc = "probed", !.todo = @ \ {u}, !.target = u,
                                        !.ok = ok, !.again = again])
        BY <1>5 DEF CheckProbes
    <2>2. [prober[c] EXCEPT !.pc = "probed", !.todo = @ \ {u}, !.target = u,
                            !.ok = ok, !.again = again].pc = "probed"
        BY <1>0 DEF Prober
    <2> QED
        BY <1>2, <1>3, <1>5, <2>1, <2>2 DEF CheckProbes, history
<1>6. CASE CheckStumbles(c)
    <2>1. [prober[c] EXCEPT !.pc = "probed", !.ok = FALSE, !.again = TRUE].pc = "probed"
        BY <1>0 DEF Prober
    <2>2. torn' = [torn EXCEPT ![t] = @ \/ Updating(c) \/ prober[c].ok]
        BY <1>6 DEF CheckStumbles
    <2>3. prober[c].ok \in BOOLEAN
        BY <1>0, ProberTypes
    <2>4. Turns(c, [prober[c] EXCEPT !.pc = "probed", !.ok = FALSE, !.again = TRUE])
          /\ UNCHANGED <<health, streak, queued>>
        BY <1>6 DEF CheckStumbles
    <2> QED
        BY <1>2, <2>1, <2>2, <2>3, <2>4
<1>7. CASE CheckDies(c)
    <2>1. torn' = [torn EXCEPT ![t] = @ \/ Updating(c) \/ FALSE]
        BY <1>7 DEF CheckDies, Tears
    <2>2. Turns(c, Idle) /\ UNCHANGED <<health, streak, queued>>
        BY <1>7 DEF CheckDies
    <2> QED
        BY <1>2, <1>3, <2>1, <2>2
<1>8. CASE CheckEnds(c)
    BY <1>2, <1>3, <1>8 DEF CheckEnds, history
<1> QED
    BY <1>4, <1>5, <1>6, <1>7, <1>8

\* The invariant holds initially.
LEMMA LinkInvInit == LinkInit => LinkInv
<1> SUFFICES ASSUME LinkInit PROVE LinkInv
    OBVIOUS
<1>1. \A c \in LinkCheckers : ~Updating(c)
    BY DEF LinkInit, Updating, Idle
<1>2. ASSUME NEW t \in Targets
      PROVE  NoRowIsUncounted(t) /\ RowHoldsStreak(t) /\ EntryMatchesRow(t)
    BY <1>1, LinkAssumption
       DEF LinkInit, NoRowIsUncounted, RowHoldsStreak, EntryMatchesRow, JustReported,
           UpdatesRow, NoRow
<1> QED
    BY <1>1, <1>2, LinkInitTyped DEF LinkInv, UpdateIsSound, OverlapIsMarked

\* Every step, of a check or of the surroundings, keeps the invariant.
LEMMA LinkInvStep == LinkInv /\ [LinkNext]_linkVars => LinkInv'
<1> SUFFICES ASSUME LinkInv, [LinkNext]_linkVars PROVE LinkInv'
    OBVIOUS
<1>1. LinkTypeOK'
    BY LinkNextTyped DEF LinkInv
<1>2. ASSUME NEW c \in LinkCheckers, ProbeStep(c) PROVE LinkInv'
    BY <1>1, <1>2, LeavingSteps, CreatesKeeps, CountsKeeps, StatementKeeps, QueuesKeeps,
       SavesKeeps DEF ProbeStep
<1>3. CASE LinkSurroundings
    BY <1>1, <1>3, SurroundingsKeep
       DEF LinkSurroundings, DayPasses, SiteChanges, EditorMovesLink, EditorRollsBack,
           EditorMarksChecked, FeedRefreshes, history
<1>4. CASE UNCHANGED linkVars
    BY <1>1, <1>4, SurroundingsKeep DEF linkVars, history
<1> QED
    BY <1>2, <1>3, <1>4 DEF LinkNext

\* The invariant of every behaviour.
LEMMA LinkInvariant == LinkSpec => []LinkInv
    BY LinkInvInit, LinkInvStep, PTL DEF LinkSpec

\* An editor gets one VANISHED entry between two recoveries of a link, however many
\* failures follow the threshold and whatever is retried, unless an update broke off
\* or two updates of the row overlapped.
THEOREM ReportedOnceCorrect == LinkSpec => []ReportedOnce
<1>1. LinkInv => ReportedOnce
    BY DEF LinkInv, EntryMatchesRow, ReportedOnce
<1> QED
    BY <1>1, LinkInvariant, PTL

\* No count reaches the threshold without an entry, with the same exception.
THEOREM NoSilentVanishCorrect == LinkSpec => []NoSilentVanish
<1>1. LinkInv => NoSilentVanish
    BY LinkAssumption DEF LinkInv, EntryMatchesRow, NoSilentVanish
<1> QED
    BY <1>1, LinkInvariant, PTL

\* The checker deprecates a card for a link only after Threshold failures of it in a
\* row, with the same exception.
THEOREM StreakDeprecatesCorrect == LinkSpec => OnlyStreakDeprecates
<1> DEFINE OnStreak ==
       \A c \in LinkCheckers :
          CheckDeprecates(c) =>
             streak[prober[c].target] >= Threshold \/ torn[prober[c].target]
<1>1. LinkInv => OnStreak
    <2> SUFFICES ASSUME LinkInv, NEW c \in LinkCheckers, CheckDeprecates(c),
                        ~torn[prober[c].target]
                 PROVE  streak[prober[c].target] >= Threshold
        OBVIOUS
    <2>1. UpdateIsSound(c) /\ Updating(c) /\ prober[c].pc = "dead"
        BY DEF LinkInv, CheckDeprecates, Updating
    <2>2. prober[c].count \in 0..Cap
        BY ProberTypes DEF LinkInv
    <2>3. prober[c].count >= Threshold /\ prober[c].count # 0
        BY <2>1, <2>2, LinkAssumption DEF UpdateIsSound, Fatal
    <2> QED
        BY <2>1, <2>3 DEF UpdateIsSound
<1>2. LinkInv /\ [LinkNext]_linkVars => [OnStreak]_linkVars
    BY <1>1
<1> QED
    BY <1>2, LinkInvariant, PTL DEF LinkSpec, OnlyStreakDeprecates

=============================================================================
