---------------------------- MODULE SearchIndex ----------------------------
(***************************************************************************)
(* The search vector of one published card (apps/search/tasks.py): built   *)
(* from the card's own columns and from search_index_text, a text made of  *)
(* the names of its platforms, categories and use cases.  The signals of   *)
(* apps/catalog/signals.py queue a refresh when a transaction commits;     *)
(* Celery workers run the refreshes, several at a time, and a nightly      *)
(* batch refreshes every published card.  A row created in a through table *)
(* fires no signal, and not every such row comes with a save of the card.  *)
(* A column or a taxonomy is the number of its changes.                    *)
(***************************************************************************)
EXTENDS Naturals

CONSTANTS Workers,      \* Celery worker processes
          MaxEdits,     \* bound on the changes of the card's own columns
          MaxTaxa,      \* bound on the changes of its taxonomies
          MaxDeaths,    \* bound on the workers and batches that die
          NotBuilt,     \* the vector is NULL
          Idle          \* a worker, or the batch, holds no card

ASSUME IndexAssumption ==
    MaxEdits \in Nat /\ MaxTaxa \in Nat /\ MaxDeaths \in Nat

VARIABLES names,        \* the card's own columns
          taxa,         \* its taxonomies
          refreshes,    \* refresh_search_vector_task messages queued
          indexText,    \* the taxonomies search_index_text was made from
          vector,       \* what the vector shows: [names, taxa]
          worker,       \* where each worker is in refresh_app_search_vector
          nightly,      \* where the nightly batch is
          deaths        \* refreshes that died half-way

indexVars == <<names, taxa, refreshes, indexText, vector, worker, nightly, deaths>>

Names == 0 .. MaxEdits
Taxa == 0 .. MaxTaxa
Held == [step : {"text", "vector"}, taxa : Taxa]

\* A worker that holds nothing is told from one that holds a card.
ASSUME IdleAssumption == Idle \notin Held

IndexTypeOK ==
    /\ names \in Names /\ taxa \in Taxa
    /\ refreshes \in 0 .. MaxEdits + MaxTaxa
    /\ indexText \in Taxa \cup {NotBuilt}
    /\ vector \in [names : Names \cup {NotBuilt}, taxa : Taxa \cup {NotBuilt}]
    /\ worker \in [Workers -> Held \cup {Idle}]
    /\ nightly \in Held \cup {Idle}
    /\ deaths \in 0 .. MaxDeaths

IndexInit ==
    /\ names = 0 /\ taxa = 0
    /\ refreshes = 0
    /\ indexText = NotBuilt
    /\ vector = [names |-> NotBuilt, taxa |-> NotBuilt]
    /\ worker = [w \in Workers |-> Idle]
    /\ nightly = Idle
    /\ deaths = 0

-----------------------------------------------------------------------------
(* The card changes                                                        *)

\* A save, or update() followed by an explicit refresh, commits.
NamesCommit ==
    /\ names < MaxEdits
    /\ names' = names + 1
    /\ refreshes' = refreshes + 1
    /\ UNCHANGED <<taxa, indexText, vector, worker, nightly, deaths>>

\* add or remove through the manager: m2m_changed; or a merge, of cards or of use
\* cases, which re-points the rows themselves and ends by a save or a refresh.
TaxaCommit ==
    /\ taxa < MaxTaxa
    /\ taxa' = taxa + 1
    /\ refreshes' = refreshes + 1
    /\ UNCHANGED <<names, indexText, vector, worker, nightly, deaths>>

\* attach_platforms links a card that a feed lists again to one more platform, and
\* nothing of the card itself was missing; or a category is renamed.
TaxaChangeQuietly ==
    /\ taxa < MaxTaxa
    /\ taxa' = taxa + 1
    /\ UNCHANGED <<names, refreshes, indexText, vector, worker, nightly, deaths>>

-----------------------------------------------------------------------------
(* refresh_search_vector_task: three statements, no transaction            *)

WorkerReads(w) ==
    /\ refreshes > 0 /\ worker[w] = Idle
    /\ refreshes' = refreshes - 1
    /\ worker' = [worker EXCEPT ![w] = [step |-> "text", taxa |-> taxa]]
    /\ UNCHANGED <<names, taxa, indexText, vector, nightly, deaths>>

\* Mutant of WorkerWritesText: both statements in one UPDATE, which reads the row as it was.
WritesVectorFirst(w) ==
    /\ worker[w] # Idle /\ worker[w].step = "text"
    /\ indexText' = worker[w].taxa
    /\ vector' = [names |-> names, taxa |-> indexText]
    /\ worker' = [worker EXCEPT ![w] = Idle]
    /\ UNCHANGED <<names, taxa, refreshes, nightly, deaths>>

WorkerWritesText(w) ==
    /\ worker[w] # Idle /\ worker[w].step = "text"
    /\ indexText' = worker[w].taxa
    /\ worker' = [worker EXCEPT ![w].step = "vector"]
    /\ UNCHANGED <<names, taxa, refreshes, vector, nightly, deaths>>

\* The vector is an SQL expression over the row as it is now.
WorkerWritesVector(w) ==
    /\ worker[w] # Idle /\ worker[w].step = "vector"
    /\ vector' = [names |-> names, taxa |-> indexText]
    /\ worker' = [worker EXCEPT ![w] = Idle]
    /\ UNCHANGED <<names, taxa, refreshes, indexText, nightly, deaths>>

\* The message was acknowledged when it was received: the refresh is lost.
WorkerDies(w) ==
    /\ worker[w] # Idle /\ deaths < MaxDeaths
    /\ worker' = [worker EXCEPT ![w] = Idle]
    /\ deaths' = deaths + 1
    /\ UNCHANGED <<names, taxa, refreshes, indexText, vector, nightly>>

-----------------------------------------------------------------------------
(* refresh_search_vectors_batch: the same statements inside a transaction, *)
(* which holds the row from the first write to the commit                  *)

\* Mutant of NightlyReads: the batch only takes cards that were never indexed.
NightlyTakesUnbuilt ==
    /\ nightly = Idle /\ indexText = NotBuilt
    /\ nightly' = [step |-> "text", taxa |-> taxa]
    /\ UNCHANGED <<names, taxa, refreshes, indexText, vector, worker, deaths>>

NightlyReads ==
    /\ nightly = Idle
    /\ nightly' = [step |-> "text", taxa |-> taxa]
    /\ UNCHANGED <<names, taxa, refreshes, indexText, vector, worker, deaths>>

NightlyCommits ==
    /\ nightly # Idle
    /\ indexText' = nightly.taxa
    /\ vector' = [names |-> names, taxa |-> nightly.taxa]
    /\ nightly' = Idle
    /\ UNCHANGED <<names, taxa, refreshes, worker, deaths>>

\* An exception rolls the whole batch back.
NightlyFails ==
    /\ nightly # Idle /\ deaths < MaxDeaths
    /\ nightly' = Idle
    /\ deaths' = deaths + 1
    /\ UNCHANGED <<names, taxa, refreshes, indexText, vector, worker>>

WorkerSteps(w) == WorkerReads(w) \/ WorkerWritesText(w) \/ WorkerWritesVector(w)

IndexRuns ==
    \/ \E w \in Workers : WorkerSteps(w) \/ WorkerDies(w)
    \/ NightlyReads
    \/ NightlyCommits
    \/ NightlyFails

\* Workers go on with what they hold and take what is queued; beat starts the
\* batch every night and the batch ends.  (The batch takes slices of a live
\* queryset: a card that slides past one of them is in one on another night.)
IndexFairness ==
    /\ \A w \in Workers : WF_indexVars(WorkerSteps(w))
    /\ WF_indexVars(NightlyReads)
    /\ WF_indexVars(NightlyCommits \/ NightlyFails)

-----------------------------------------------------------------------------
\* When no refresh is queued or running and none died, the vector shows the
\* card's own columns as they are, and the text as it was last written: two
\* refreshes that overlap may leave an old taxonomy text, but never an old
\* name, and never a vector that disagrees with the text it was built from.
QuietIndexFollowsTheRow ==
    (/\ refreshes = 0 /\ nightly = Idle /\ deaths = 0
     /\ \A w \in Workers : worker[w] = Idle
     /\ vector.names # NotBuilt)
    => vector.names = names /\ vector.taxa = indexText

\* The vector, for the taxonomies, is a derived view of the card: what the
\* signals miss and what overlapping refreshes leave behind, the batch mends.
Index == INSTANCE DerivedView WITH
    NoView <- NotBuilt,
    original <- taxa,
    view <- vector.taxa

IndexIsAView == Index!ViewSpec

=============================================================================
