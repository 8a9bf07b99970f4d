----------------------- MODULE ReactualizationProofs -----------------------
(***************************************************************************)
(* Proofs about the re-actualization of published cards, for any number of *)
(* cards, rows, batch sizes and crashes.                                   *)
(***************************************************************************)
EXTENDS Reactualization, FiniteSetTheorems, TLAPS

-----------------------------------------------------------------------------
(***************************************************************************)
(* Types.                                                                  *)
(***************************************************************************)
\* The table of sources is finite, so places in it are numbers.
LEMMA PlacesAreNumbers == Cardinality(Sources) \in Nat /\ Cardinality(Sources) >= 1
    BY ReactAssumption, FS_CardinalityType, FS_EmptySet

\* The batch at rest is one of its states.
LEMMA RestingTyped == Resting \in Visit
<1>1. Nobody \in Sources
    BY ReactAssumption DEF Nobody
<1> QED
    BY <1>1, ReactAssumption DEF Resting, Visit

\* The types of the parts of a visit.
LEMMA VisitTypes ==
    ASSUME ReactTypeOK
    PROVE  /\ visit.pc \in {"idle", "loop", "asked", "drifted", "diffed"}
           /\ visit.rows \in SUBSET (Apps \X (0..Never))
           /\ visit.size \in 0..BatchSize /\ visit.source \in Sources
           /\ AppOf[visit.source] \in Apps
    BY ReactAssumption DEF ReactTypeOK, Visit

\* The initial state is of the declared types.
LEMMA ReactInitTyped == ReactInit => ReactTypeOK
<1> SUFFICES ASSUME ReactInit PROVE ReactTypeOK
    OBVIOUS
<1>1. Never \in 0..Never /\ Interval \in 0..Interval /\ 0 \in 0..2 /\ 0 \in 0..MaxCrashes
    BY ReactAssumption DEF Never
<1>2. /\ age \in [Sources -> 0..Never] /\ since \in [Apps -> 0..Interval]
      /\ posted \in [Apps -> 0..2] /\ crashes \in 0..MaxCrashes
    BY <1>1 DEF ReactInit
<1>3. /\ active \in [Sources -> BOOLEAN] /\ broke \in [Apps -> BOOLEAN] /\ ran \in BOOLEAN
    BY DEF ReactInit
<1> QED
    BY <1>2, <1>3, RestingTyped DEF ReactInit, ReactTypeOK

\* What is selected are pairs of a card and an age.
LEMMA DueRowsTyped == ReactTypeOK => DueRows \in SUBSET (Apps \X (0..Never))
    BY ReactAssumption DEF ReactTypeOK, DueRows

\* A write of one entry of a function.
LEMMA EntryTyped ==
    ASSUME NEW D, NEW V, NEW f \in [D -> V], NEW d \in D, NEW v \in V
    PROVE  [f EXCEPT ![d] = v] \in [D -> V]
    OBVIOUS

\* The batch: every statement of it keeps the types.
LEMMA VisitStepTyped == ReactTypeOK /\ (VisitStep \/ WorkerDies) => ReactTypeOK'
<1> SUFFICES ASSUME ReactTypeOK, VisitStep \/ WorkerDies PROVE ReactTypeOK'
    OBVIOUS
<1> PICK a \in Apps : a = AppOf[visit.source]
    BY VisitTypes
<1>1. visit \in Visit
    BY DEF ReactTypeOK
<1>2. Nobody \in Sources
    BY ReactAssumption DEF Nobody
<1>3. ASSUME Breaks PROVE broke' \in [Apps -> BOOLEAN]
    BY <1>3, EntryTyped DEF Breaks, ReactTypeOK
<1>4. CASE BatchSelects
    <2>1. BatchSize \in 0..BatchSize /\ DueRows \in SUBSET (Apps \X (0..Never))
        BY DueRowsTyped, ReactAssumption
    <2>2. [Resting EXCEPT !.pc = "loop", !.rows = DueRows, !.size = BatchSize] \in Visit
        BY <2>1, RestingTyped DEF Visit
    <2>3. visit' \in Visit
        BY <1>4, <2>2 DEF BatchSelects
    <2> QED
        BY <1>4, <2>3 DEF BatchSelects, ReactTypeOK
<1>5. ASSUME NEW r \in visit.rows, visit.size > 0 PROVE After(r) \in Visit
    <2>1. visit.rows \ {r} \in SUBSET (Apps \X (0..Never)) /\ visit.size - 1 \in 0..BatchSize
        BY <1>5, VisitTypes, ReactAssumption
    <2> QED
        BY <2>1, RestingTyped DEF After, Visit
<1>6. ASSUME NEW r \in visit.rows, RowIsSkipped(r) PROVE ReactTypeOK'
    BY <1>5, <1>6 DEF RowIsSkipped, ReactTypeOK
<1>7. ASSUME NEW r \in visit.rows, NEW s \in Sources, RowIsAsked(r, s) PROVE ReactTypeOK'
    <2>1. After(r) \in Visit
        BY <1>5, <1>7 DEF RowIsAsked
    <2>2. [After(r) EXCEPT !.pc = "asked", !.source = s] \in Visit
        BY <2>1 DEF Visit
    <2> QED
        BY <1>7, <2>2 DEF RowIsAsked, ReactTypeOK
<1>8. CASE RowIsDiffed
    <2>1. visit' \in Visit
        BY <1>1, <1>8 DEF RowIsDiffed, Visit
    <2> QED
        BY <1>8, <2>1 DEF RowIsDiffed, ReactTypeOK
<1>9. CASE RowIsQueued
    <2>1. visit' \in Visit
        BY <1>1, <1>9 DEF RowIsQueued, Visit
    <2>2. (IF posted[a] = 2 THEN 2 ELSE posted[a] + 1) \in 0..2
        BY DEF ReactTypeOK
    <2>3. posted' \in [Apps -> 0..2]
        BY <1>9, <2>2, EntryTyped DEF RowIsQueued, ReactTypeOK
    <2> QED
        BY <1>9, <2>1, <2>3 DEF RowIsQueued, ReactTypeOK
<1>10. CASE RowAdvances
    <2> DEFINE clock == [age EXCEPT ![visit.source] = 0]
    <2>0. Advances(clock) /\ 0 \in 0..Never /\ 0 \in 0..Interval
        BY <1>10, ReactAssumption DEF RowAdvances, Never
    <2>1. clock \in [Sources -> 0..Never]
        BY <2>0, VisitTypes, EntryTyped DEF ReactTypeOK
    <2> HIDE DEF clock
    <2>2. visit' \in Visit
        BY <1>1, <1>2, <2>0 DEF Advances, Visit
    <2>3. since' \in [Apps -> 0..Interval] /\ broke' \in [Apps -> BOOLEAN]
        BY <2>0, EntryTyped DEF Advances, ReactTypeOK
    <2>4. (IF clock[visit.source] = 0 THEN 0 ELSE posted[a]) \in 0..2
        BY DEF ReactTypeOK
    <2>5. posted' \in [Apps -> 0..2]
        BY <2>0, <2>4, EntryTyped DEF Advances, ReactTypeOK
    <2> QED
        BY <2>0, <2>1, <2>2, <2>3, <2>5 DEF Advances, ReactTypeOK
<1>11. CASE RowFails
    <2>1. visit' \in Visit
        BY <1>1, <1>2, <1>11 DEF RowFails, Visit
    <2> QED
        BY <1>3, <1>11, <2>1 DEF RowFails, ReactTypeOK
<1>12. CASE BatchEnds
    BY <1>12, RestingTyped DEF BatchEnds, ReactTypeOK
<1>13. CASE WorkerDies
    <2>1. crashes' \in 0..MaxCrashes
        BY <1>13, ReactAssumption DEF WorkerDies, ReactTypeOK
    <2> QED
        BY <1>3, <1>13, <2>1, RestingTyped DEF WorkerDies, ReactTypeOK
<1> QED
    BY <1>4, <1>6, <1>7, <1>8, <1>9, <1>10, <1>11, <1>12, <1>13 DEF VisitStep

\* Days, feeds and the link checker keep them too; a refreshed row changes places with
\* those that were before it.
LEMMA AroundTyped ==
    ASSUME ReactTypeOK,
           \/ DayTurns
           \/ \E s \in Sources : FeedLists(s)
           \/ \E s \in Sources : LinkVanishes(s)
    PROVE  ReactTypeOK'
<1>1. CASE DayTurns
    <2>1. ASSUME NEW max \in Nat, NEW n \in 0..max PROVE Older(n, max) \in 0..max
        BY <2>1 DEF Older
    <2>2. ASSUME NEW s \in Sources
          PROVE  (IF age[s] = Never THEN Never ELSE Older(age[s], Interval)) \in 0..Never
        <3>1. age[s] \in 0..Never /\ Never = Interval + 1 /\ Interval \in Nat
            BY ReactAssumption DEF ReactTypeOK, Never
        <3>2. age[s] # Never => Older(age[s], Interval) \in 0..Interval
            <4>1. age[s] # Never => age[s] \in 0..Interval
                BY <3>1
            <4> QED
                BY <2>1, <3>1, <4>1
        <3> QED
            BY <3>1, <3>2
    <2>3. age' \in [Sources -> 0..Never]
        BY <1>1, <2>2 DEF DayTurns
    <2>4. since' \in [Apps -> 0..Interval]
        BY <1>1, <2>1, ReactAssumption DEF DayTurns, ReactTypeOK
    <2> QED
        BY <1>1, <2>3, <2>4 DEF DayTurns, ReactTypeOK
<1>2. ASSUME NEW s \in Sources, FeedLists(s) PROVE ReactTypeOK'
    <2> DEFINE n == Cardinality(Sources)
               next(q) == IF q = s THEN 1
                          ELSE IF AppOf[q] = AppOf[s] /\ place[q] < place[s] THEN place[q] + 1
                          ELSE place[q]
    <2>1. n \in Nat /\ n >= 1
        BY PlacesAreNumbers
    <2>2. \A q \in Sources : place[q] \in 1..n
        BY DEF ReactTypeOK
    <2>3. place' = [q \in Sources |-> next(q)]
        BY <1>2 DEF FeedLists
    <2> HIDE DEF n
    <2>4. ASSUME NEW q \in Sources PROVE next(q) \in 1..n
        BY <2>1, <2>2
    <2>5. place' \in [Sources -> 1..n]
        BY <2>3, <2>4
    <2> QED
        BY <1>2, <2>5 DEF FeedLists, ReactTypeOK, n
<1>3. ASSUME NEW s \in Sources, LinkVanishes(s) PROVE ReactTypeOK'
    BY <1>3 DEF LinkVanishes, ReactTypeOK
<1> QED
    BY <1>1, <1>2, <1>3

\* The type invariant is inductive.
LEMMA ReactNextTyped == ReactTypeOK /\ [ReactNext]_reactVars => ReactTypeOK'
<1>1. ReactTypeOK /\ UNCHANGED reactVars => ReactTypeOK'
    BY DEF ReactTypeOK, reactVars
<1> QED
    BY <1>1, VisitStepTyped, AroundTyped DEF ReactNext

\* The re-actualization keeps its types: ages stop at the interval, the limit of a batch
\* is never overdrawn, and every row keeps a place in the order of its card.
THEOREM ReactTypeCorrect == ReactSpec => []ReactTypeOK
    BY ReactInitTyped, ReactNextTyped, PTL DEF ReactSpec

-----------------------------------------------------------------------------
(***************************************************************************)
(* A drift is posted once.  An entry whose clock has not moved belongs to  *)
(* the card the batch is about to save the clock of, or a run broke off.   *)
(***************************************************************************)
ClockIsDue ==
    \A a \in Apps : posted[a] > 0 /\ ~broke[a] =>
        /\ visit.pc = "diffed"
        /\ a = AppOf[visit.source]
        /\ posted[a] = 1

\* A step that leaves the entries of a card and the work on it alone.
LEMMA ClockStays ==
    ASSUME ClockIsDue, UNCHANGED <<posted, broke, visit>>
    PROVE  ClockIsDue'
    BY DEF ClockIsDue

\* No entry is without its clock when the batch is between two cards, or still asks.
LEMMA NothingDue ==
    ASSUME ClockIsDue, visit.pc # "diffed", UNCHANGED <<posted, broke>>
    PROVE  ClockIsDue'
    BY DEF ClockIsDue

\* What a run that breaks off leaves behind is excused.
LEMMA BrokenIsExcused ==
    ASSUME ReactTypeOK, ClockIsDue, Breaks, UNCHANGED posted
    PROVE  ClockIsDue'
<1> SUFFICES ASSUME NEW a \in Apps, posted'[a] > 0, ~broke'[a] PROVE FALSE
    BY DEF ClockIsDue
<1>1. broke \in [Apps -> BOOLEAN] /\ AppOf[visit.source] \in Apps
    BY VisitTypes DEF ReactTypeOK
<1>2. ~broke[a]
    BY <1>1 DEF Breaks
<1>3. visit.pc = "diffed" /\ a = AppOf[visit.source]
    BY <1>2 DEF ClockIsDue
<1> QED
    BY <1>1, <1>3 DEF Breaks

\* Every step keeps an entry and its clock together.
LEMMA ClockStep == ReactTypeOK /\ ClockIsDue /\ [ReactNext]_reactVars => ClockIsDue'
<1> SUFFICES ASSUME ReactTypeOK, ClockIsDue, [ReactNext]_reactVars PROVE ClockIsDue'
    OBVIOUS
<1> PICK c \in Apps : c = AppOf[visit.source]
    BY VisitTypes
<1>0. posted \in [Apps -> 0..2] /\ broke \in [Apps -> BOOLEAN] /\ visit \in Visit
    BY DEF ReactTypeOK
<1>1. CASE BatchSelects
    BY <1>1, NothingDue DEF BatchSelects
<1>2. ASSUME NEW r \in visit.rows, RowIsSkipped(r) PROVE ClockIsDue'
    BY <1>2, NothingDue DEF RowIsSkipped
<1>3. ASSUME NEW r \in visit.rows, NEW s \in Sources, RowIsAsked(r, s) PROVE ClockIsDue'
    BY <1>3, NothingDue DEF RowIsAsked
<1>4. CASE RowIsDiffed
    BY <1>4, NothingDue DEF RowIsDiffed
<1>5. CASE RowIsQueued
    <2> SUFFICES ASSUME NEW a \in Apps, posted'[a] > 0, ~broke'[a]
                 PROVE  (/\ visit.pc = "diffed" /\ a = AppOf[visit.source])' /\ posted'[a] = 1
        BY DEF ClockIsDue
    <2>1. ~broke[a] /\ posted[a] = 0
        BY <1>0, <1>5 DEF RowIsQueued, ClockIsDue
    <2>2. a = c /\ posted'[a] = 1
        BY <1>0, <1>5, <2>1 DEF RowIsQueued
    <2>3. visit'.pc = "diffed" /\ visit'.source = visit.source
        BY <1>0, <1>5 DEF RowIsQueued, Visit
    <2> QED
        BY <2>2, <2>3
<1>6. CASE RowAdvances
    <2> SUFFICES ASSUME NEW a \in Apps, posted'[a] > 0, ~broke'[a] PROVE FALSE
        BY DEF ClockIsDue
    <2> DEFINE clock == [age EXCEPT ![visit.source] = 0]
    <2>1. clock[visit.source] = 0
        BY VisitTypes DEF ReactTypeOK
    <2>2. Advances(clock)
        BY <1>6 DEF RowAdvances
    <2> HIDE DEF clock
    <2>3. posted' = [posted EXCEPT ![c] = 0] /\ broke' = [broke EXCEPT ![c] = FALSE]
          /\ visit.pc = "diffed"
        BY <2>1, <2>2 DEF Advances
    <2>4. a # c /\ posted[a] > 0 /\ ~broke[a]
        BY <1>0, <2>3
    <2> QED
        BY <2>4 DEF ClockIsDue
<1>7. CASE RowFails
    BY <1>7, BrokenIsExcused DEF RowFails
<1>8. CASE BatchEnds
    BY <1>8, NothingDue DEF BatchEnds
<1>9. CASE WorkerDies
    BY <1>9, BrokenIsExcused DEF WorkerDies
<1>10. CASE DayTurns \/ (\E s \in Sources : FeedLists(s) \/ LinkVanishes(s)) \/ UNCHANGED reactVars
    BY <1>10, ClockStays DEF DayTurns, FeedLists, LinkVanishes, reactVars
<1> QED
    BY <1>1, <1>2, <1>3, <1>4, <1>5, <1>6, <1>7, <1>8, <1>9, <1>10 DEF ReactNext, VisitStep

\* A drift is posted once: between two entries of a card the clock of its source moves,
\* or a run broke off after the entry, whatever feeds and the link checker do meanwhile.
THEOREM PostedOnceCorrect == ReactSpec => []PostedOnce
<1>1. ReactInit => ClockIsDue
    BY DEF ReactInit, ClockIsDue
<1>2. ReactTypeOK /\ ClockIsDue => PostedOnce
    BY DEF ReactTypeOK, ClockIsDue, PostedOnce
<1> QED
    BY <1>1, <1>2, ClockStep, ReactTypeCorrect, PTL DEF ReactSpec

=============================================================================
