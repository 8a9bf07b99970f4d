----------------------------- MODULE AgentRuns -----------------------------
(***************************************************************************)
(* The runs of the agent that call the provider (apps/agent/tasks.py): the *)
(* daily batch over the drafts that wait for enrichment, the enrichment of *)
(* single drafts, and the discovery batch over the candidates of a feed.   *)
(* Each works through its list card by card: gate, question with retries,  *)
(* entry in the books (LLMCallLog), write to the catalogue.  A failing     *)
(* card is passed over by the first, and ends the other two.  What the     *)
(* write does to a card is in AppCard, what the gates rest on in           *)
(* AgentBudget.                                                            *)
(***************************************************************************)
EXTENDS Naturals, FiniteSets

CONSTANTS Cards,        \* drafts of an automated source; the larger number was seen later
          Candidates,   \* the entries of the feed; the smaller number is listed first
          Poison,       \* cards and candidates that fail whenever they are tried
          Limit,        \* size of a batch
          Concurrency,  \* worker processes of Celery
          MaxAttempts,  \* AGENT_OPENAI_MAX_RETRIES, per question
          MaxFailures,  \* bound on the failures of what is not poison
          MaxRunsLost,  \* bound on the workers that die
          MaxRefused,   \* bound on the answers that cannot be used
          MaxClosings   \* bound on the times a budget gate closes

Items == Cards \cup Candidates

\* The batch is larger than the number of drafts that cannot be enriched.
ASSUME PoisonAssumption == Cardinality(Poison \cap Cards) < Limit
ASSUME CardsAssumption ==
    Items \subseteq Nat /\ IsFiniteSet(Items) /\ Cards \cap Candidates = {}
ASSUME BoundsAssumption ==
    {Limit, MaxAttempts, MaxFailures, MaxRunsLost, MaxRefused, MaxClosings} \subseteq Nat

VARIABLES state,        \* of a card, or of a candidate
          gate,         \* what the month's latches let through
          work,         \* each run: step, what is left of its list, attempts
          offBooks,     \* answers paid for and not in LLMCallLog (history)
          refused,      \* those of them that could not be used (history)
          failures, runsLost, closings

books == <<offBooks, refused>>
runsVars == <<state, gate, work, books, failures, runsLost, closings>>
bounds == <<failures, runsLost, closings>>

Runs == {"pending", "single", "discover"}
RunSteps == {"idle", "next", "classify", "classified", "enrich",
             "ask", "answered", "booked"}
Work == [step : RunSteps, todo : SUBSET Items, attempts : 0 .. MaxAttempts]

RunsTypeOK ==
    /\ state \in [Items -> {"unseen", "draft", "enriched", "closed"}]
    /\ gate \in {"open", "throttled", "stopped"}
    /\ work \in [Runs -> Work]
    /\ \A r \in Runs :
          /\ work[r].step = "idle" => work[r].todo = {}
          /\ Cardinality(work[r].todo) <= Limit
    /\ offBooks \in Nat
    /\ refused \in 0 .. MaxRefused
    /\ failures \in 0 .. MaxFailures
    /\ runsLost \in 0 .. MaxRunsLost
    /\ closings \in 0 .. MaxClosings

NoWork == [step |-> "idle", todo |-> {}, attempts |-> 0]

RunsInit ==
    /\ state = [i \in Items |-> "unseen"]
    /\ gate = "open"
    /\ work = [r \in Runs |-> NoWork]
    /\ offBooks = 0 /\ refused = 0
    /\ failures = 0 /\ runsLost = 0 /\ closings = 0

-----------------------------------------------------------------------------
(* The runs begin                                                          *)

\* The order of a list: that of the feed, or the last seen first
\* (pending_enrichment_app_ids).
Precedes(r, i, j) == IF r = "discover" THEN i < j ELSE i > j

\* The entry a run is at: the first of those left.
Current(r) ==
    CHOOSE i \in work[r].todo : \A j \in work[r].todo \ {i} : Precedes(r, i, j)

Busy == {r \in Runs : work[r].step # "idle"}

Begins(r, list) ==
    /\ r \notin Busy /\ Cardinality(Busy) < Concurrency
    /\ work' = [work EXCEPT ![r] = [step |-> "next", todo |-> list, attempts |-> 0]]
    /\ UNCHANGED <<state, gate, books, bounds>>

FirstOf(r, S) == {i \in S : Cardinality({j \in S : Precedes(r, j, i)}) < Limit}

Pending == {c \in Cards : state[c] = "draft"}

\* enrich_pending_drafts_batch: a throttled month skips it.
PendingBegins == gate = "open" /\ Begins("pending", FirstOf("pending", Pending))

\* enrich_existing_draft_task, or the command agent_run, for one card; or the
\* command for those that are pending, which has no handler for a failing card.
SingleBegins ==
    \/ \E c \in Cards : state[c] # "unseen" /\ Begins("single", {c})
    \/ Pending # {} /\ Begins("single", FirstOf("single", Pending))

\* discover_rss, discover_github_mcp.
DiscoverBegins == gate = "open" /\ Begins("discover", FirstOf("discover", Candidates))

-----------------------------------------------------------------------------
(* The steps of a run                                                      *)

To(r, step) ==
    work' = [work EXCEPT ![r].step = step, ![r].attempts = 0]

\* Mutant of RunEnds: what was left of the list waits for the next run.
LeavesItsList(r) == work' = [work EXCEPT ![r].step = "idle"]

\* The run is finished: SUCCEEDED or FAILED.
RunEnds(r) == work' = [work EXCEPT ![r] = NoWork]

PassesOver(r) ==
    work' = [work EXCEPT ![r] =
                [step |-> "next", todo |-> @.todo \ {Current(r)}, attempts |-> 0]]

\* Mutant of Stumbles: the batch has no handler of its own for a card either.
StumblesForGood(r) == RunEnds(r)

\* An exception: the pending batch counts it and goes on with the next card;
\* it ends the single enrichment, the command and the discovery batch.
Stumbles(r) == IF r = "pending" THEN PassesOver(r) ELSE RunEnds(r)

\* Who may fail now: poison always does, the others a bounded number of times.
Fails(r) ==
    \/ Current(r) \in Poison /\ UNCHANGED bounds
    \/ /\ Current(r) \notin Poison /\ failures < MaxFailures
       /\ failures' = failures + 1 /\ UNCHANGED <<runsLost, closings>>

\* The list is done, or its next entry is taken up: a candidate that has a
\* source by now is skipped, another one classified, a card enriched.
TakesNext(r) ==
    /\ work[r].step = "next"
    /\ IF work[r].todo = {} THEN RunEnds(r)
       ELSE IF r # "discover" THEN To(r, "enrich")
       ELSE IF state[Current(r)] = "enriched" THEN PassesOver(r)
       ELSE To(r, "classify")
    /\ UNCHANGED <<state, gate, books, bounds>>

\* assert_agent_can_run and, for a card, assert_app_is_eligible.
PassesGate(r) ==
    /\ work[r].step = "enrich"
    /\ IF gate # "stopped" /\ (r # "discover" => state[Current(r)] \in {"draft", "enriched"})
       THEN To(r, "ask")
       ELSE Stumbles(r)
    /\ UNCHANGED <<state, gate, books, bounds>>

Asks(r) == work[r].step \in {"ask", "classify"}

\* A transient error of the provider: asked again, up to MaxAttempts times.
AsksAgain(r) ==
    /\ Asks(r) /\ work[r].attempts + 1 < MaxAttempts
    /\ work' = [work EXCEPT ![r].attempts = @ + 1]
    /\ UNCHANGED <<state, gate, books, bounds>>

\* The page cannot be fetched, or the error of the provider is final.
GetsNoAnswer(r) ==
    /\ Asks(r)
    /\ Stumbles(r) /\ Fails(r)
    /\ UNCHANGED <<state, gate, books>>

\* The model refuses, or its answer does not parse: complete raises before it has
\* counted the tokens, so that what was paid for is never booked.
GetsUselessAnswer(r) ==
    /\ Asks(r) /\ refused < MaxRefused
    /\ Stumbles(r) /\ Fails(r)
    /\ offBooks' = offBooks + 1
    /\ refused' = refused + 1
    /\ UNCHANGED <<state, gate>>

GetsAnswer(r) ==
    /\ Asks(r)
    /\ To(r, IF work[r].step = "ask" THEN "answered" ELSE "classified")
    /\ offBooks' = offBooks + 1
    /\ UNCHANGED <<state, gate, refused, bounds>>

\* One row of LLMCallLog.
IsBooked == offBooks' = offBooks - 1 /\ UNCHANGED refused

\* _record_discovery; only a relevant candidate goes on to run_enrich_new_app.
BooksClassification(r) ==
    /\ work[r].step = "classified"
    /\ IsBooked
    /\ To(r, "enrich") \/ PassesOver(r)
    /\ UNCHANGED <<state, gate, bounds>>

\* record_llm_call
BooksAnswer(r) ==
    /\ work[r].step = "answered"
    /\ IsBooked
    /\ To(r, "booked")
    /\ UNCHANGED <<state, gate, bounds>>

\* The agent's Source row, which the selector of pending drafts looks for.
Enriched(i) == state' = [state EXCEPT ![i] = "enriched"]

\* apply_merge_set, persist_new_draft.  The card may have left the drafts.
Writable(r) == r = "discover" \/ state[Current(r)] \in {"draft", "enriched"}

Persists(r) ==
    /\ work[r].step = "booked" /\ Writable(r) /\ Current(r) \notin Poison
    /\ Enriched(Current(r))
    /\ PassesOver(r)
    /\ UNCHANGED <<gate, books, bounds>>

\* Mutant of PersistFails: the entry is part of the transaction that is rolled back.
TakesTheEntryAlong(r) ==
    /\ work[r].step = "booked"
    /\ IF Writable(r) THEN Fails(r) ELSE UNCHANGED bounds
    /\ Stumbles(r)
    /\ offBooks' = offBooks + 1
    /\ UNCHANGED <<state, gate, refused>>

PersistFails(r) ==
    /\ work[r].step = "booked"
    /\ IF Writable(r) THEN Fails(r) ELSE UNCHANGED bounds
    /\ Stumbles(r)
    /\ UNCHANGED <<state, gate, books>>

\* The worker dies: nobody takes the run up again, its row stays RUNNING.
RunIsLost(r) ==
    /\ work[r].step # "idle" /\ runsLost < MaxRunsLost
    /\ RunEnds(r)
    /\ runsLost' = runsLost + 1
    /\ UNCHANGED <<state, gate, books, failures, closings>>

RunStep(r) ==
    \/ TakesNext(r) \/ PassesGate(r)
    \/ AsksAgain(r) \/ GetsNoAnswer(r) \/ GetsUselessAnswer(r) \/ GetsAnswer(r)
    \/ BooksClassification(r) \/ BooksAnswer(r)
    \/ Persists(r) \/ PersistFails(r)

-----------------------------------------------------------------------------
(* Everybody else                                                          *)

\* run_direct_ingest_batch or a feed import creates a draft.
DraftArrives(c) ==
    /\ state[c] = "unseen"
    /\ state' = [state EXCEPT ![c] = "draft"]
    /\ UNCHANGED <<gate, work, books, bounds>>

\* An editor publishes or hides it.
DraftCloses(c) ==
    /\ state[c] \in {"draft", "enriched"}
    /\ state' = [state EXCEPT ![c] = "closed"]
    /\ UNCHANGED <<gate, work, books, bounds>>

GateCloses ==
    /\ closings < MaxClosings
    /\ gate' \in {"throttled", "stopped"} \ {gate}
    /\ closings' = closings + 1
    /\ UNCHANGED <<state, work, books, failures, runsLost>>

\* The next month has latches of its own.
MonthOpens ==
    /\ gate # "open"
    /\ gate' = "open"
    /\ UNCHANGED <<state, work, books, bounds>>

RunsNext ==
    \/ PendingBegins \/ SingleBegins \/ DiscoverBegins
    \/ \E r \in Runs : RunStep(r) \/ RunIsLost(r)
    \/ \E c \in Cards : DraftArrives(c) \/ DraftCloses(c)
    \/ GateCloses \/ MonthOpens

\* Beat queues the batches again and again and the queue is served in order,
\* so each finds a worker; a run that has begun goes on, and months end.
RunsFairness ==
    /\ SF_runsVars(PendingBegins) /\ SF_runsVars(DiscoverBegins)
    /\ \A r \in Runs : WF_runsVars(RunStep(r))
    /\ WF_runsVars(MonthOpens)

RunsSpec == RunsInit /\ [][RunsNext]_runsVars /\ RunsFairness

-----------------------------------------------------------------------------
\* An answer that was paid for is in LLMCallLog, where the budget finds it,
\* before anything that depends on it may fail.  What the budget never sees is
\* what was refused or did not parse, and what a worker that died had in hand.
AnswersAreBooked ==
    offBooks <= runsLost + refused + Cardinality({r \in Runs :
                    work[r].step \in {"answered", "classified"}})

\* The promise of the docs ("each LLM call in LLMCallLog"): what was paid for is in the
\* log as soon as no run has an answer in hand, unless a worker died with it.
EveryCallIsLogged == Busy = {} /\ runsLost = 0 => offBooks = 0

\* A draft waits for enrichment only so long, although the cards that always
\* fail stay pending, come first and are tried every day.
DraftsGetThrough ==
    \A c \in Cards \ Poison : state[c] = "draft" ~> state[c] # "draft"

Behind(c) == \E i \in Candidates \cap Poison : Precedes("discover", i, c)

\* A candidate is classified again and again until it has been imported,
\* unless one that always fails is listed before it.
CandidatesGetThrough ==
    \A c \in Candidates : ~Behind(c) =>
        []<>(\/ state[c] = "enriched"
             \/ work["discover"].step = "classify" /\ Current("discover") = c)

WorkGetsThrough == DraftsGetThrough /\ CandidatesGetThrough

=============================================================================
