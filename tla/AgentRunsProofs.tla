-------------------------- MODULE AgentRunsProofs --------------------------
(***************************************************************************)
(* What the agent pays for is on the books, for any cards, feeds, batch    *)
(* sizes, retries and failures: the log lacks the answers in hand, those   *)
(* that could not be used, and at most one more for each worker that died. *)
(* And a run that has ended holds no card, nor does one hold more than its *)
(* batch.                                                                  *)
(***************************************************************************)
EXTENDS AgentRuns, FiniteSetTheorems, TLAPS

-----------------------------------------------------------------------------
\* Every run has a step, a list and a count of attempts.
WorkHasShape ==
    /\ DOMAIN work = Runs
    /\ \A r \in Runs : DOMAIN work[r] = {"step", "todo", "attempts"}

\* The runs that have an answer in hand which is not in the log.
InHand == {r \in Runs : work[r].step \in {"answered", "classified"}}

BooksInv ==
    /\ WorkHasShape
    /\ offBooks \in Int /\ runsLost \in Nat /\ refused \in Nat
    /\ Cardinality(InHand) <= offBooks
    /\ offBooks <= runsLost + refused + Cardinality(InHand)

\* There are three runs, so that few answers can be in hand.
LEMMA InHandFinite == IsFiniteSet(InHand) /\ Cardinality(InHand) \in Nat
<1>1. IsFiniteSet(Runs)
  <2>1. IsFiniteSet({"pending"}) /\ IsFiniteSet({"single"}) /\ IsFiniteSet({"discover"})
    BY FS_Singleton
  <2>2. Runs = ({"pending"} \cup {"single"}) \cup {"discover"}
    BY DEF Runs
  <2> QED
    BY <2>1, <2>2, FS_Union
<1>2. InHand \subseteq Runs
  BY DEF InHand
<1> QED
  BY <1>1, <1>2, FS_Subset, FS_CardinalityType

\* The books before any run.
LEMMA BooksInitially == RunsInit => BooksInv
<1> SUFFICES ASSUME RunsInit PROVE BooksInv
  OBVIOUS
<1>1. WorkHasShape
  BY SMT DEF RunsInit, NoWork, WorkHasShape
<1>2. offBooks = 0 /\ runsLost = 0 /\ refused = 0
  BY DEF RunsInit
<1>3. InHand = {} /\ Cardinality({}) = 0
  <2>1. \A r \in Runs : work[r].step = "idle"
    BY SMT DEF RunsInit, NoWork
  <2> QED
    BY <2>1, FS_EmptySet DEF InHand
<1> QED
  BY <1>1, <1>2, <1>3 DEF BooksInv

-----------------------------------------------------------------------------
\* A step of one run gives it a step and leaves the others.
Moves(r, step) ==
    /\ WorkHasShape'
    /\ work'[r].step = step
    /\ \A q \in Runs \ {r} : work'[q] = work[q]

\* To gives one run its next step.
LEMMA MovesTo ==
  ASSUME WorkHasShape, NEW r \in Runs, NEW step, To(r, step)
  PROVE  Moves(r, step)
<1>1. work' = [work EXCEPT ![r] = [work[r] EXCEPT !.step = step, !.attempts = 0]]
  BY DEF To, WorkHasShape
<1>2. /\ DOMAIN [work[r] EXCEPT !.step = step, !.attempts = 0] = {"step", "todo", "attempts"}
      /\ [work[r] EXCEPT !.step = step, !.attempts = 0].step = step
  BY DEF WorkHasShape
<1> QED
  BY <1>1, <1>2 DEF Moves, WorkHasShape

\* PassesOver goes on with the list.
LEMMA MovesOn ==
  ASSUME WorkHasShape, NEW r \in Runs, PassesOver(r)
  PROVE  Moves(r, "next")
<1>1. \A t : /\ DOMAIN [step |-> "next", todo |-> t, attempts |-> 0] = {"step", "todo", "attempts"}
             /\ [step |-> "next", todo |-> t, attempts |-> 0].step = "next"
  BY SMT
<1>2. work' = [work EXCEPT ![r] = [step |-> "next", todo |-> work[r].todo \ {Current(r)}, attempts |-> 0]]
  BY DEF PassesOver, WorkHasShape
<1> QED
  BY <1>1, <1>2 DEF Moves, WorkHasShape

\* RunEnds leaves nothing of the run.
LEMMA MovesOut ==
  ASSUME WorkHasShape, NEW r \in Runs, RunEnds(r)
  PROVE  Moves(r, "idle")
<1>1. DOMAIN NoWork = {"step", "todo", "attempts"} /\ NoWork.step = "idle"
  BY SMT DEF NoWork
<1> QED
  BY <1>1 DEF RunEnds, Moves, WorkHasShape

\* A failing item is passed over or ends the run.
LEMMA StumbleMoves ==
  ASSUME WorkHasShape, NEW r \in Runs, Stumbles(r)
  PROVE  Moves(r, "next") \/ Moves(r, "idle")
  BY MovesOn, MovesOut DEF Stumbles

\* What a move of one run does to the answers in hand.
LEMMA InHandMoves ==
  ASSUME NEW r \in Runs, NEW step, Moves(r, step)
  PROVE  InHand' = IF step \in {"answered", "classified"} THEN InHand \cup {r}
                                                          ELSE InHand \ {r}
  BY DEF InHand, Moves

-----------------------------------------------------------------------------
\* A run that had no answer in hand and has none now: the books stand.
LEMMA PlainMove ==
  ASSUME BooksInv, NEW r \in Runs, NEW step, Moves(r, step),
         r \notin InHand, step \notin {"answered", "classified"},
         UNCHANGED <<books, runsLost>>
  PROVE  BooksInv'
<1>1. InHand' = InHand
  BY InHandMoves
<1> QED
  BY <1>1 DEF BooksInv, Moves, books

\* An answer comes in.
LEMMA AnswerMove ==
  ASSUME BooksInv, NEW r \in Runs, GetsAnswer(r)
  PROVE  BooksInv'
<1>1. PICK step \in {"answered", "classified"} : To(r, step)
  BY DEF GetsAnswer
<1>2. r \notin InHand
  BY DEF GetsAnswer, Asks, InHand
<1>3. Moves(r, step)
  BY <1>1, MovesTo DEF BooksInv
<1>4. InHand' = InHand \cup {r}
  BY <1>1, <1>3, InHandMoves
<1>5. Cardinality(InHand') = Cardinality(InHand) + 1
  BY <1>2, <1>4, InHandFinite, FS_AddElement
<1>6. offBooks' = offBooks + 1 /\ runsLost' = runsLost /\ refused' = refused
  BY DEF GetsAnswer, bounds
<1> QED
  BY <1>3, <1>5, <1>6, InHandFinite DEF BooksInv, Moves

\* An answer is booked.
LEMMA BookingMove ==
  ASSUME BooksInv, NEW r \in Runs, BooksClassification(r) \/ BooksAnswer(r)
  PROVE  BooksInv'
<1>1. r \in InHand
  BY DEF BooksClassification, BooksAnswer, InHand
<1>2. Moves(r, "enrich") \/ Moves(r, "next") \/ Moves(r, "booked")
  BY MovesTo, MovesOn DEF BooksInv, BooksClassification, BooksAnswer
<1>3. InHand' = InHand \ {r}
  BY <1>2, InHandMoves
<1>4. Cardinality(InHand') = Cardinality(InHand) - 1
  BY <1>1, <1>3, InHandFinite, FS_RemoveElement
<1>5. offBooks' = offBooks - 1 /\ runsLost' = runsLost /\ refused' = refused
  BY DEF BooksClassification, BooksAnswer, IsBooked, bounds
<1> QED
  BY <1>2, <1>4, <1>5, InHandFinite DEF BooksInv, Moves

\* A worker dies, with an answer in hand or without one.
LEMMA LossMove ==
  ASSUME BooksInv, NEW r \in Runs, RunIsLost(r)
  PROVE  BooksInv'
<1>1. Moves(r, "idle")
  BY MovesOut DEF BooksInv, RunIsLost
<1>2. InHand' = InHand \ {r}
  BY <1>1, InHandMoves
<1>3. Cardinality(InHand') >= Cardinality(InHand) - 1 /\ Cardinality(InHand') \in Nat
      /\ Cardinality(InHand') <= Cardinality(InHand)
  <2>1. CASE r \in InHand
    <3>1. Cardinality(InHand') = Cardinality(InHand) - 1
      BY <1>2, <2>1, InHandFinite, FS_RemoveElement
    <3>2. IsFiniteSet(InHand')
      BY <1>2, InHandFinite, FS_Subset
    <3> QED
      BY <3>1, <3>2, InHandFinite, FS_CardinalityType
  <2>2. CASE r \notin InHand
    <3>1. InHand' = InHand
      BY <1>2, <2>2
    <3> QED
      BY <3>1, InHandFinite
  <2> QED
    BY <2>1, <2>2
<1>4. offBooks' = offBooks /\ refused' = refused /\ runsLost' = runsLost + 1
  BY DEF RunIsLost, books
<1> QED
  BY <1>1, <1>3, <1>4, InHandFinite DEF BooksInv, Moves

\* An answer comes in that cannot be used.
LEMMA UselessMove ==
  ASSUME BooksInv, NEW r \in Runs, GetsUselessAnswer(r)
  PROVE  BooksInv'
<1>1. r \notin InHand
  BY DEF GetsUselessAnswer, Asks, InHand
<1>2. Moves(r, "next") \/ Moves(r, "idle")
  BY StumbleMoves DEF GetsUselessAnswer, BooksInv
<1>3. InHand' = InHand
  BY <1>1, <1>2, InHandMoves
<1>4. offBooks' = offBooks + 1 /\ refused' = refused + 1 /\ runsLost' = runsLost
  BY DEF GetsUselessAnswer, Fails, bounds
<1> QED
  BY <1>2, <1>3, <1>4, InHandFinite DEF BooksInv, Moves

\* The other steps of a run.
LEMMA OtherMove ==
  ASSUME BooksInv, NEW r \in Runs,
         \/ TakesNext(r) \/ PassesGate(r) \/ AsksAgain(r)
         \/ GetsNoAnswer(r) \/ Persists(r) \/ PersistFails(r)
  PROVE  BooksInv'
<1>0. WorkHasShape
  BY DEF BooksInv
<1>1. r \notin InHand
  BY DEF TakesNext, PassesGate, AsksAgain, GetsNoAnswer, Persists, PersistFails, Asks, InHand
<1>2. UNCHANGED <<books, runsLost>>
  BY DEF TakesNext, PassesGate, AsksAgain, GetsNoAnswer, Persists, PersistFails,
         Fails, bounds
<1>3. \E step \in {"next", "idle", "enrich", "classify", "ask"} : Moves(r, step)
  <2>1. CASE TakesNext(r)
    BY <1>0, <2>1, MovesTo, MovesOn, MovesOut DEF TakesNext
  <2>2. CASE PassesGate(r)
    BY <1>0, <2>2, MovesTo, StumbleMoves DEF PassesGate
  <2>3. CASE AsksAgain(r)
    <3>1. work[r].step \in {"ask", "classify"}
      BY <2>3 DEF AsksAgain, Asks
    <3>2. work' = [work EXCEPT ![r] = [work[r] EXCEPT !.attempts = work[r].attempts + 1]]
      BY <1>0, <2>3 DEF AsksAgain, WorkHasShape
    <3>3. /\ DOMAIN [work[r] EXCEPT !.attempts = work[r].attempts + 1] = {"step", "todo", "attempts"}
          /\ [work[r] EXCEPT !.attempts = work[r].attempts + 1].step = work[r].step
      BY <1>0 DEF WorkHasShape
    <3>4. Moves(r, work[r].step)
      BY <1>0, <3>2, <3>3 DEF Moves, WorkHasShape
    <3> QED
      BY <3>1, <3>4
  <2>4. CASE GetsNoAnswer(r)
    BY <1>0, <2>4, StumbleMoves DEF GetsNoAnswer
  <2>5. CASE Persists(r)
    BY <1>0, <2>5, MovesOn DEF Persists
  <2>6. CASE PersistFails(r)
    BY <1>0, <2>6, StumbleMoves DEF PersistFails
  <2> QED
    BY <2>1, <2>2, <2>3, <2>4, <2>5, <2>6
<1> QED
  BY <1>1, <1>2, <1>3, PlainMove

\* A run begins.
LEMMA BeginMove ==
  ASSUME BooksInv, NEW r \in Runs, NEW list, Begins(r, list)
  PROVE  BooksInv'
<1>0. WorkHasShape
  BY DEF BooksInv
<1>1. r \notin InHand
  BY DEF Begins, Busy, InHand
<1>2. /\ DOMAIN [step |-> "next", todo |-> list, attempts |-> 0] = {"step", "todo", "attempts"}
      /\ [step |-> "next", todo |-> list, attempts |-> 0].step = "next"
  BY SMT
<1>3. work' = [work EXCEPT ![r] = [step |-> "next", todo |-> list, attempts |-> 0]]
  BY DEF Begins
<1>4. Moves(r, "next")
  BY <1>0, <1>2, <1>3 DEF Moves, WorkHasShape
<1>5. UNCHANGED <<books, runsLost>>
  BY DEF Begins, bounds
<1> QED
  BY <1>1, <1>4, <1>5, PlainMove

\* Nothing of the runs changes.
LEMMA BooksRest ==
  ASSUME BooksInv, UNCHANGED <<work, books, runsLost>>
  PROVE  BooksInv'
<1>1. InHand' = InHand
  BY DEF InHand
<1> QED
  BY <1>1 DEF BooksInv, WorkHasShape, books

\* Every step keeps the books.
LEMMA BooksStep == BooksInv /\ [RunsNext]_runsVars => BooksInv'
<1> SUFFICES ASSUME BooksInv, [RunsNext]_runsVars PROVE BooksInv'
  OBVIOUS
<1>0. "pending" \in Runs /\ "single" \in Runs /\ "discover" \in Runs
  BY DEF Runs
<1>1. CASE PendingBegins \/ SingleBegins \/ DiscoverBegins
  BY <1>0, <1>1, BeginMove DEF PendingBegins, SingleBegins, DiscoverBegins
<1>2. ASSUME NEW r \in Runs, RunStep(r) \/ RunIsLost(r) PROVE BooksInv'
  BY <1>2, OtherMove, UselessMove, AnswerMove, BookingMove, LossMove DEF RunStep
<1>3. ASSUME NEW c \in Cards, DraftArrives(c) \/ DraftCloses(c) PROVE BooksInv'
  <2>1. UNCHANGED <<work, books, runsLost>>
    BY <1>3 DEF DraftArrives, DraftCloses, bounds
  <2> QED
    BY <2>1, BooksRest
<1>4. CASE GateCloses \/ MonthOpens \/ UNCHANGED runsVars
  <2>1. UNCHANGED <<work, books, runsLost>>
    BY <1>4 DEF GateCloses, MonthOpens, runsVars, bounds
  <2> QED
    BY <2>1, BooksRest
<1> QED
  BY <1>1, <1>2, <1>3, <1>4 DEF RunsNext

\* What was paid for is in the log, up to the answers in hand, those that could
\* not be used and those that died with their worker.
THEOREM BooksCorrect == RunsSpec => []AnswersAreBooked
<1>1. RunsInit => BooksInv
  BY BooksInitially
<1>2. BooksInv /\ [RunsNext]_runsVars => BooksInv'
  BY BooksStep
<1>3. BooksInv => AnswersAreBooked
  BY DEF BooksInv, AnswersAreBooked, InHand
<1> QED
  BY <1>1, <1>2, <1>3, PTL DEF RunsSpec

-----------------------------------------------------------------------------
(* Types                                                                   *)

\* A work list is cut to the size of a batch, whatever its order: the entry that comes
\* n-th has n - 1 before it, so no two have as many.
LEMMA FirstOfIsShort ==
  ASSUME NEW r, NEW S \in SUBSET Items
  PROVE  FirstOf(r, S) \in SUBSET Items /\ Cardinality(FirstOf(r, S)) <= Limit
<1> DEFINE Before(i) == {j \in S : Precedes(r, j, i)}
           First == FirstOf(r, S)
<1>1. /\ First \subseteq S /\ S \subseteq Nat /\ Limit \in Nat
      /\ IsFiniteSet(Items) /\ IsFiniteSet(S) /\ IsFiniteSet(First)
  BY CardsAssumption, BoundsAssumption, FS_Subset DEF FirstOf
<1>2. \A i \in First : IsFiniteSet(Before(i)) /\ Cardinality(Before(i)) \in 0 .. Limit - 1
  <2> SUFFICES ASSUME NEW i \in First
               PROVE  IsFiniteSet(Before(i)) /\ Cardinality(Before(i)) \in 0 .. Limit - 1
    OBVIOUS
  <2>1. IsFiniteSet(Before(i))
    BY <1>1, FS_Subset
  <2>2. Cardinality(Before(i)) \in Nat /\ Cardinality(Before(i)) < Limit
    BY <2>1, FS_CardinalityType DEF FirstOf
  <2> QED
    BY <1>1, <2>1, <2>2
<1>2a. /\ \A i, j \in S : i # j => Precedes(r, i, j) \/ Precedes(r, j, i)
       /\ \A i, j, k \in S : Precedes(r, i, j) /\ Precedes(r, j, k) => Precedes(r, i, k)
       /\ \A i \in S : ~Precedes(r, i, i)
  <2>1. CASE r = "discover"
    <3>1. \A i, j : Precedes(r, i, j) <=> i < j
      BY <2>1 DEF Precedes
    <3> QED
      BY <1>1, <3>1
  <2>2. CASE r # "discover"
    <3>1. \A i, j : Precedes(r, i, j) <=> i > j
      BY <2>2 DEF Precedes
    <3> QED
      BY <1>1, <3>1
  <2> QED
    BY <2>1, <2>2
<1>3. ASSUME NEW i \in First, NEW j \in First, Precedes(r, i, j)
      PROVE  Cardinality(Before(i)) # Cardinality(Before(j))
  <2>1. Before(i) \in SUBSET Before(j) /\ i \in Before(j) /\ i \notin Before(i)
    BY <1>1, <1>2a, <1>3
  <2> QED
    BY <1>2, <2>1, FS_Subset
<1>4. \A i, j \in First : i # j => Cardinality(Before(i)) # Cardinality(Before(j))
  <2>1. \A i, j \in First : i # j => Precedes(r, i, j) \/ Precedes(r, j, i)
    BY <1>1, <1>2a
  <2> QED
    BY <1>3, <2>1
<1>5. ~(Limit < Cardinality(First))
  <2> SUFFICES ASSUME Limit < Cardinality(First) PROVE FALSE
    OBVIOUS
  <2>1. IsFiniteSet(0 .. Limit - 1) /\ Cardinality(0 .. Limit - 1) = Limit
    <3>1. 0 \in Int /\ Limit - 1 \in Int /\ (0 > Limit - 1 => Limit = 0)
          /\ Limit - 1 - 0 + 1 = Limit
      BY <1>1
    <3> QED
      BY <1>1, <3>1, FS_Interval
  <2> DEFINE place == [i \in First |-> Cardinality(Before(i))]
  <2>2. place \in [First -> 0 .. Limit - 1]
    BY <1>2
  <2>3. \E i, j \in First : i # j /\ place[i] = place[j]
    <3> HIDE DEF place, First
    <3> QED
      BY <1>1, <2>1, <2>2, FS_PigeonHole
  <2> QED
    BY <1>4, <2>3
<1>6. Cardinality(First) \in Nat
  BY <1>1, FS_CardinalityType
<1>7. First \in SUBSET Items /\ Cardinality(First) <= Limit
  <2> HIDE DEF First
  <2> QED
    BY <1>1, <1>5, <1>6
<1> QED
  BY <1>7

\* What RunsTypeOK says of one run.
RunOK(w) ==
  /\ w \in Work
  /\ w.step = "idle" => w.todo = {}
  /\ Cardinality(w.todo) <= Limit

\* What RunsTypeOK says of what the runs share; offBooks and refused count more.
SharedTypes ==
  /\ state \in [Items -> {"unseen", "draft", "enriched", "closed"}]
  /\ gate \in {"open", "throttled", "stopped"}
  /\ failures \in 0 .. MaxFailures
  /\ runsLost \in 0 .. MaxRunsLost
  /\ refused \in 0 .. MaxRefused
  /\ closings \in 0 .. MaxClosings

WorkTypes == work \in [Runs -> Work] /\ \A r \in Runs : RunOK(work[r])

\* A run without a card.
LEMMA NoWorkIsOK == RunOK(NoWork)
<1>1. NoWork \in Work /\ NoWork.todo = {}
  BY BoundsAssumption DEF NoWork, Work, RunSteps
<1> QED
  BY <1>1, FS_EmptySet, BoundsAssumption DEF RunOK

\* One run is given what is well-formed.
LEMMA WorkStep ==
  ASSUME WorkTypes, NEW r \in Runs, NEW w, RunOK(w), work' = [work EXCEPT ![r] = w]
  PROVE  WorkTypes'
  BY DEF WorkTypes, RunOK

\* A new or a shorter list.
LEMMA ListIsOK ==
  ASSUME NEW list \in SUBSET Items, Cardinality(list) <= Limit
  PROVE  RunOK([step |-> "next", todo |-> list, attempts |-> 0])
  BY BoundsAssumption DEF RunOK, Work, RunSteps

\* To leaves the list as it is.
LEMMA ToTyped ==
  ASSUME WorkTypes, NEW r \in Runs, NEW step \in RunSteps \ {"idle"}, To(r, step)
  PROVE  WorkTypes'
<1> DEFINE w == [work[r] EXCEPT !.step = step, !.attempts = 0]
<1>1. work[r] \in Work /\ Cardinality(work[r].todo) <= Limit
  BY DEF WorkTypes, RunOK
<1>2. w \in Work /\ w.step = step /\ w.todo = work[r].todo
  <2>1. work[r].todo \in SUBSET Items /\ 0 \in 0 .. MaxAttempts
    BY <1>1, BoundsAssumption DEF Work
  <2> DEFINE v == [work[r] EXCEPT !.step = step]
  <2>2. v \in Work /\ v.step = step /\ v.todo = work[r].todo
    BY <1>1 DEF Work
  <2>3. w = [v EXCEPT !.attempts = 0]
    OBVIOUS
  <2> HIDE DEF v, w
  <2> QED
    BY <2>1, <2>2, <2>3 DEF Work
<1>3. work' = [work EXCEPT ![r] = w]
  BY DEF To, WorkTypes
<1> HIDE DEF w
<1>4. RunOK(w)
  BY <1>1, <1>2 DEF RunOK
<1> QED
  BY <1>3, <1>4, WorkStep

\* PassesOver takes one card from it.
LEMMA PassesTyped ==
  ASSUME WorkTypes, NEW r \in Runs, PassesOver(r)
  PROVE  WorkTypes'
<1> DEFINE rest == work[r].todo \ {Current(r)}
<1>1. work[r].todo \in SUBSET Items /\ Cardinality(work[r].todo) <= Limit
  BY DEF WorkTypes, RunOK, Work
<1>2. IsFiniteSet(work[r].todo)
  BY <1>1, CardsAssumption, FS_Subset
<1>3. rest \in SUBSET Items /\ Cardinality(rest) <= Limit
  <2>1. Cardinality(rest) <= Cardinality(work[r].todo) /\ IsFiniteSet(rest)
    BY <1>2, FS_Subset
  <2>2. Cardinality(rest) \in Nat /\ Cardinality(work[r].todo) \in Nat
    BY <1>2, <2>1, FS_CardinalityType
  <2> QED
    BY <1>1, <2>1, <2>2, BoundsAssumption
<1>4. work' = [work EXCEPT ![r] = [step |-> "next", todo |-> rest, attempts |-> 0]]
  BY DEF PassesOver, WorkTypes
<1> HIDE DEF rest
<1> QED
  BY <1>3, <1>4, ListIsOK, WorkStep

\* RunEnds leaves none.
LEMMA EndsTyped ==
  ASSUME WorkTypes, NEW r \in Runs, RunEnds(r)
  PROVE  WorkTypes'
  BY NoWorkIsOK, WorkStep DEF RunEnds

\* Either of them follows a failure.
LEMMA StumblesTyped ==
  ASSUME WorkTypes, NEW r \in Runs, Stumbles(r)
  PROVE  WorkTypes'
  BY PassesTyped, EndsTyped DEF Stumbles

\* Every step of a run leaves all runs well-formed.
LEMMA RunStepTyped ==
  ASSUME WorkTypes, NEW r \in Runs, RunStep(r) \/ RunIsLost(r)
  PROVE  WorkTypes'
<1>0. {"next", "classify", "classified", "enrich", "ask", "answered", "booked"}
      \subseteq RunSteps \ {"idle"}
  BY DEF RunSteps
<1>1. CASE TakesNext(r)
  BY <1>0, <1>1, ToTyped, PassesTyped, EndsTyped DEF TakesNext
<1>2. CASE PassesGate(r)
  BY <1>0, <1>2, ToTyped, StumblesTyped DEF PassesGate
<1>3. CASE AsksAgain(r)
  <2> DEFINE w == [work[r] EXCEPT !.attempts = work[r].attempts + 1]
  <2>1. work[r] \in Work /\ RunOK(work[r])
    BY DEF WorkTypes
  <2>2. w \in Work /\ w.step = work[r].step /\ w.todo = work[r].todo
    <3>1. work[r].attempts + 1 \in 0 .. MaxAttempts
      BY <1>3, <2>1, BoundsAssumption DEF AsksAgain, Work
    <3> QED
      BY <2>1, <3>1 DEF Work
  <2>3. work' = [work EXCEPT ![r] = w]
    BY <1>3 DEF AsksAgain, WorkTypes
  <2> HIDE DEF w
  <2>4. RunOK(w)
    BY <2>1, <2>2 DEF RunOK
  <2> QED
    BY <2>3, <2>4, WorkStep
<1>4. CASE GetsNoAnswer(r)
  BY <1>4, StumblesTyped DEF GetsNoAnswer
<1>10. CASE GetsUselessAnswer(r)
  BY <1>10, StumblesTyped DEF GetsUselessAnswer
<1>5. CASE GetsAnswer(r)
  BY <1>0, <1>5, ToTyped DEF GetsAnswer
<1>6. CASE BooksClassification(r) \/ BooksAnswer(r)
  BY <1>0, <1>6, ToTyped, PassesTyped DEF BooksClassification, BooksAnswer
<1>7. CASE Persists(r)
  BY <1>7, PassesTyped DEF Persists
<1>8. CASE PersistFails(r)
  BY <1>8, StumblesTyped DEF PersistFails
<1>9. CASE RunIsLost(r)
  BY <1>9, EndsTyped DEF RunIsLost
<1> QED
  BY <1>1, <1>2, <1>3, <1>4, <1>5, <1>6, <1>7, <1>8, <1>9, <1>10 DEF RunStep

\* A run begins with a list that fits a batch.
LEMMA BeginTyped ==
  ASSUME WorkTypes, PendingBegins \/ SingleBegins \/ DiscoverBegins
  PROVE  WorkTypes'
<1>1. \E r \in Runs, list \in SUBSET Items : Cardinality(list) <= Limit /\ Begins(r, list)
  <2>1. CASE PendingBegins
    <3>1. Pending \in SUBSET Items
      BY DEF Pending, Items
    <3> QED
      BY <2>1, <3>1, FirstOfIsShort DEF PendingBegins, Runs
  <2>2. CASE SingleBegins
    <3>1. CASE Begins("single", FirstOf("single", Pending))
      <4>1. Pending \in SUBSET Items
        BY DEF Pending, Items
      <4> QED
        BY <3>1, <4>1, FirstOfIsShort DEF Runs
    <3>2. ASSUME NEW c \in Cards, Begins("single", {c})
          PROVE  \E r \in Runs, list \in SUBSET Items :
                     Cardinality(list) <= Limit /\ Begins(r, list)
      <4>1. Cardinality({c}) = 1 /\ {c} \in SUBSET Items
        BY FS_Singleton DEF Items
      <4>2. 1 <= Limit
        <5>1. Poison \cap Cards \in SUBSET Items /\ IsFiniteSet(Items)
          BY CardsAssumption DEF Items
        <5>2. Cardinality(Poison \cap Cards) \in Nat
          BY <5>1, FS_Subset, FS_CardinalityType
        <5> QED
          BY <5>2, PoisonAssumption, BoundsAssumption
      <4> QED
        BY <3>2, <4>1, <4>2 DEF Runs
    <3> QED
      BY <2>2, <3>1, <3>2 DEF SingleBegins
  <2>3. CASE DiscoverBegins
    <3>1. Candidates \in SUBSET Items
      BY DEF Items
    <3> QED
      BY <2>3, <3>1, FirstOfIsShort DEF DiscoverBegins, Runs
  <2> QED
    BY <2>1, <2>2, <2>3
<1>2. PICK r \in Runs, list \in SUBSET Items : Cardinality(list) <= Limit /\ Begins(r, list)
  BY <1>1
<1> QED
  BY <1>2, ListIsOK, WorkStep DEF Begins

\* The bounds hold because each count is guarded; a state is one of four.
LEMMA SharedStep == SharedTypes /\ [RunsNext]_runsVars => SharedTypes'
<1> SUFFICES ASSUME SharedTypes, [RunsNext]_runsVars PROVE SharedTypes'
  OBVIOUS
<1>1. {MaxFailures, MaxRunsLost, MaxRefused, MaxClosings} \subseteq Nat
  BY BoundsAssumption
<1>2. CASE PendingBegins \/ SingleBegins \/ DiscoverBegins \/ UNCHANGED runsVars
  BY <1>2 DEF PendingBegins, SingleBegins, DiscoverBegins, Begins, SharedTypes, bounds, books, runsVars
<1>3. ASSUME NEW r \in Runs, RunStep(r) \/ RunIsLost(r) PROVE SharedTypes'
  <2>1. state' \in {state, [state EXCEPT ![Current(r)] = "enriched"]} /\ gate' = gate
    BY <1>3 DEF RunStep, RunIsLost, TakesNext, PassesGate, AsksAgain, GetsNoAnswer, GetsUselessAnswer,
                GetsAnswer, BooksClassification, BooksAnswer, Persists, PersistFails, Enriched
  <2>2. /\ failures' = failures \/ (failures < MaxFailures /\ failures' = failures + 1)
        /\ runsLost' = runsLost \/ (runsLost < MaxRunsLost /\ runsLost' = runsLost + 1)
        /\ refused' = refused \/ (refused < MaxRefused /\ refused' = refused + 1)
        /\ closings' = closings
    BY <1>3 DEF RunStep, RunIsLost, TakesNext, PassesGate, AsksAgain, GetsNoAnswer, GetsUselessAnswer,
                GetsAnswer, BooksClassification, BooksAnswer, Persists, PersistFails, Fails, IsBooked, books, bounds
  <2>3. state' \in [Items -> {"unseen", "draft", "enriched", "closed"}]
    BY <2>1 DEF SharedTypes
  <2>4. failures' \in 0 .. MaxFailures /\ runsLost' \in 0 .. MaxRunsLost
        /\ refused' \in 0 .. MaxRefused
    BY <1>1, <2>2 DEF SharedTypes
  <2> QED
    BY <2>1, <2>2, <2>3, <2>4 DEF SharedTypes
<1>4. ASSUME NEW c \in Cards, DraftArrives(c) \/ DraftCloses(c) PROVE SharedTypes'
  BY <1>4 DEF DraftArrives, DraftCloses, SharedTypes, books, bounds
<1>5. CASE GateCloses \/ MonthOpens
  BY <1>1, <1>5 DEF GateCloses, MonthOpens, SharedTypes, books, bounds
<1> QED
  BY <1>2, <1>3, <1>4, <1>5 DEF RunsNext

\* Every step keeps the lists.
LEMMA WorkTypesStep == WorkTypes /\ [RunsNext]_runsVars => WorkTypes'
<1> SUFFICES ASSUME WorkTypes, [RunsNext]_runsVars PROVE WorkTypes'
  OBVIOUS
<1>1. ASSUME UNCHANGED work PROVE WorkTypes'
  BY <1>1 DEF WorkTypes, RunOK
<1>2. CASE (\E c \in Cards : DraftArrives(c) \/ DraftCloses(c)) \/ GateCloses \/ MonthOpens
           \/ UNCHANGED runsVars
  BY <1>1, <1>2 DEF DraftArrives, DraftCloses, GateCloses, MonthOpens, runsVars
<1> QED
  BY <1>2, BeginTyped, RunStepTyped DEF RunsNext

\* A run that ended holds no card and none holds more than a batch; in particular no step
\* books an answer that was not paid for (offBooks stays a natural number).
THEOREM RunsTypeCorrect == RunsSpec => []RunsTypeOK
<1>1. RunsInit => SharedTypes /\ WorkTypes
  <2> SUFFICES ASSUME RunsInit PROVE SharedTypes /\ WorkTypes
    OBVIOUS
  <2>1. SharedTypes
    BY BoundsAssumption DEF RunsInit, SharedTypes
  <2>2. NoWork \in Work
    BY NoWorkIsOK DEF RunOK
  <2> QED
    BY <2>1, <2>2, NoWorkIsOK DEF RunsInit, WorkTypes
<1>2. BooksInv /\ SharedTypes /\ WorkTypes => RunsTypeOK
  BY InHandFinite DEF BooksInv, SharedTypes, WorkTypes, RunOK, RunsTypeOK
<1> QED
  BY <1>1, <1>2, BooksInitially, BooksStep, SharedStep, WorkTypesStep, PTL DEF RunsSpec

=============================================================================
