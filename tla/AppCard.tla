------------------------------ MODULE AppCard ------------------------------
(***************************************************************************)
(* The life of one catalog card (an App row, its capabilities, its         *)
(* platform link and its review entries) under everybody who writes it:    *)
(* enrichment runs (apps/agent/persist.py, pipeline/merge.py), feed        *)
(* refreshes (apps/sources/upsert.py), the autopublish batch               *)
(* (apps/catalog/publishing.py, services.py) and editors at the admin      *)
(* forms and actions (apps/catalog/admin.py, apps/agent/admin.py).         *)
(*                                                                         *)
(* PostgreSQL runs at READ COMMITTED.  A step is a statement or a          *)
(* transaction nothing can be seen inside of; the autopublish transaction, *)
(* which others can overtake on the review entries, is two, with the App   *)
(* row locked in between.  Cards do not interact, duplicates apart.        *)
(*                                                                         *)
(* One text field stands for the seven the merge may fill, named by its    *)
(* author; one capability for all, one verdict for the proposals an entry  *)
(* can carry (launch status, pricing and scope summary are handled alike). *)
(***************************************************************************)
EXTENDS Integers, Sequences

CONSTANTS
    Enrichers,       \* concurrent enrichment runs of this card
    Importers,       \* concurrent feed imports that list this card
    Proposals,       \* what the LLM may answer: [text, cap, verdict]
    MaxEnrichments,  \* bound: enrichment runs
    MaxRefreshes,    \* bound: feed refreshes
    MaxForms,        \* bound: forms opened
    MaxReviews,      \* bound: review or publish actions begun
    MaxBatches       \* bound: autopublish batches that found the card ready

Texts == {"", "feed", "agent", "editor"}
Caps == {"unknown", "yes", "no"}
Verdicts == {"", "agent", "vague", "editor"}
Statuses == {"draft", "published", "hidden"}
Outcomes == {"pending", "accepted", "rejected", "no_action", "published"}

ASSUME ProposalsWellFormed ==
    Proposals \subseteq [text : {"", "agent"}, cap : Caps, verdict : {"", "agent", "vague"}]

ASSUME BoundsAreNat ==
    /\ MaxEnrichments \in Nat
    /\ MaxRefreshes \in Nat
    /\ MaxForms \in Nat
    /\ MaxReviews \in Nat
    /\ MaxBatches \in Nat

VARIABLES
    card,     \* the App row with its capability and its directory URL
    entries,  \* its NeedsReviewQueueEntry rows, in order of pk
    worker,   \* worker[e]: local state of an enrichment run
    refresh,  \* refresh[u]: local state of an import at this card
    form,     \* the App form an editor has open, as it was rendered
    review,   \* an admin action on an entry (or on the card) under way
    batch,    \* the autopublish batch at this card
    used      \* the bounded counters

vars == <<card, entries, worker, refresh, form, review, batch, used>>

\* official: platform_verification_status; url: an official_directory_url.
Card == [text : Texts, cap : Caps, verdict : Verdicts, status : Statuses,
         reviewed : BOOLEAN, official : BOOLEAN, url : BOOLEAN]

\* skipped: the entry carries a disagreement (skipped_field_updates or
\* skipped_capability_updates); resolved: resolved_at is set.
Entry == [verdict : {"", "agent", "vague"}, skipped : BOOLEAN, outcome : Outcomes,
          resolved : BOOLEAN]

\* snap*: the snapshot; text, cap: the merge plan; verdict, skipped: the proposal
\* for the queue.
Worker == [pc : {"idle", "eligible", "asked", "merged"}, snapText : Texts, snapCap : Caps,
           text : {"", "agent"}, cap : Caps, verdict : {"", "agent", "vague"},
           skipped : BOOLEAN]

\* fills, verifies: what is dirty; url: the draft has a directory URL.
Refresh == [pc : {"idle", "read", "saved"}, fills : BOOLEAN, verifies : BOOLEAN,
            url : BOOLEAN]

\* entry: its position, 0 for the action on the card; passes: the part of
\* _validate_publish that reads the loaded App; outcome: the entry's as loaded, or
\* the one to record once the card is written (pc "applied").
Review == [pc : {"idle", "loaded", "applied"}, entry : Nat, passes : BOOLEAN,
           outcome : Outcomes]

\* verdict, ids: the review plan; seen: history, the entries there were at the lock.
Batch == [pc : {"idle", "decided", "locked"}, verdict : {"", "agent"}, ids : SUBSET Nat,
          seen : Nat]

Counters == {"enrichments", "refreshes", "forms", "reviews", "batches"}

\* card: the fields as they were rendered.
Form == [open : BOOLEAN, card : Card]

TypeOK ==
    /\ card \in Card
    /\ entries \in Seq(Entry)
    /\ worker \in [Enrichers -> Worker]
    /\ refresh \in [Importers -> Refresh]
    /\ form \in Form
    /\ review \in Review
    /\ review.entry \in 0..Len(entries)
    /\ batch \in Batch
    /\ batch.ids \subseteq DOMAIN entries
    /\ used \in [Counters -> Nat]

IdleWorker == [pc |-> "idle", snapText |-> "", snapCap |-> "unknown", text |-> "",
               cap |-> "unknown", verdict |-> "", skipped |-> FALSE]
IdleRefresh == [pc |-> "idle", fills |-> FALSE, verifies |-> FALSE, url |-> FALSE]
IdleReview == [pc |-> "idle", entry |-> 0, passes |-> FALSE, outcome |-> "pending"]
Blank == [text |-> "", cap |-> "unknown", verdict |-> "", status |-> "draft",
          reviewed |-> FALSE, official |-> FALSE, url |-> FALSE]
NoForm == [open |-> FALSE, card |-> Blank]
IdleBatch == [pc |-> "idle", verdict |-> "", ids |-> {}, seen |-> 0]

\* What a draft says of the platform: whether it has a directory URL, and whether its
\* source is trusted with it (platform_verification_for_source).
Listings == {l \in [url : BOOLEAN, trusted : BOOLEAN] : l.trusted => l.url}

\* A card as _create_new_app leaves it.
Init ==
    /\ \E text \in {"", "feed"}, cap \in {"unknown", "yes"}, l \in Listings :
          card = [Blank EXCEPT !.text = text, !.cap = cap, !.official = l.trusted,
                               !.url = l.url]
    /\ entries = <<>>
    /\ worker = [e \in Enrichers |-> IdleWorker]
    /\ refresh = [u \in Importers |-> IdleRefresh]
    /\ form = NoForm
    /\ review = IdleReview
    /\ batch = IdleBatch
    /\ used = [k \in Counters |-> 0]

Counts(k, max) == used[k] < max /\ used' = [used EXCEPT ![k] = @ + 1]

\* Mutant of RowFree: the batch reads the card without select_for_update.
RowNeverLocked == TRUE

\* Nobody holds the App row: what every writer of the row waits for.
RowFree == batch.pc # "locked"

(***************************************************************************)
(* Enrichment: run_enrich_existing_draft.                                  *)
(***************************************************************************)
\* assert_app_is_eligible.
EnrichBegins(e) ==
    /\ worker[e].pc = "idle"
    /\ card.status = "draft"
    /\ Counts("enrichments", MaxEnrichments)
    /\ worker' = [worker EXCEPT ![e].pc = "eligible"]
    /\ UNCHANGED <<card, entries, refresh, form, review, batch>>

\* build_app_snapshot; the prompt goes out.
EnrichSnapshots(e) ==
    /\ worker[e].pc = "eligible"
    /\ worker' = [worker EXCEPT ![e] = [@ EXCEPT !.pc = "asked", !.snapText = card.text,
                                                 !.snapCap = card.cap]]
    /\ UNCHANGED <<card, entries, refresh, form, review, batch, used>>

\* The LLM answers p and compute_merge splits it over the plan and the queue, by
\* the snapshot.
EnrichMerges(e, p) ==
    LET w == worker[e]
        fillsText == p.text # "" /\ w.snapText = ""
        otherText == p.text # "" /\ w.snapText \notin {"", p.text}
        fillsCap == p.cap # "unknown" /\ w.snapCap = "unknown"
        otherCap == p.cap # "unknown" /\ w.snapCap \notin {"unknown", p.cap}
    IN /\ w.pc = "asked"
       /\ worker' = [worker EXCEPT ![e] =
              [IdleWorker EXCEPT !.pc = "merged",
                                 !.text = IF fillsText THEN p.text ELSE "",
                                 !.cap = IF fillsCap THEN p.cap ELSE "unknown",
                                 !.verdict = p.verdict,
                                 !.skipped = otherText \/ otherCap]]
       /\ UNCHANGED <<card, entries, refresh, form, review, batch, used>>

\* What the locked rows still have room for.
FillGaps(w) ==
    [card EXCEPT !.text = IF card.text = "" THEN w.text ELSE @,
                 !.cap = IF card.cap = "unknown" THEN w.cap ELSE @]

Queued(w) ==
    IF w.verdict = "" /\ ~w.skipped THEN entries
    ELSE Append(entries, [verdict |-> w.verdict, skipped |-> w.skipped,
                          outcome |-> "pending", resolved |-> FALSE])

\* The transaction of apply_merge_set, as far as its guards let it go.
Apply(e, next, filled) ==
    /\ worker[e].pc = "merged"
    /\ card' = filled
    /\ entries' = Queued(worker[e])
    /\ worker' = [worker EXCEPT ![e] = next]
    /\ UNCHANGED <<refresh, form, review, batch, used>>

\* Mutant of EnrichApplies: writes the plan without looking at the locked values.
EnrichAppliesPlan(e) ==
    /\ RowFree
    /\ card.status = "draft"
    /\ Apply(e, IdleWorker,
             [card EXCEPT !.text = IF worker[e].text # "" THEN worker[e].text ELSE @,
                          !.cap = IF worker[e].cap # "unknown" THEN worker[e].cap ELSE @])

\* Mutant of EnrichApplies: no status check under the lock.
EnrichAppliesAnyStatus(e) ==
    /\ RowFree
    /\ Apply(e, IdleWorker, FillGaps(worker[e]))

\* Mutant of EnrichApplies: no lock on the App row.
EnrichAppliesUnlocked(e) ==
    /\ card.status = "draft"
    /\ Apply(e, IdleWorker, FillGaps(worker[e]))

EnrichApplies(e) ==
    /\ RowFree
    /\ card.status = "draft"
    /\ Apply(e, IdleWorker, FillGaps(worker[e]))

\* AppNotEligibleError under the lock, a provider error, or the process dies.
EnrichFails(e) ==
    /\ worker[e].pc # "idle"
    /\ worker' = [worker EXCEPT ![e] = IdleWorker]
    /\ UNCHANGED <<card, entries, refresh, form, review, batch, used>>

(***************************************************************************)
(* Refresh: upsert_app_from_draft, the branch of a known external_id.      *)
(***************************************************************************)
\* The App is read and compared with the draft without a lock.
RefreshReads(u, hasText, l) ==
    /\ refresh[u].pc = "idle"
    /\ Counts("refreshes", MaxRefreshes)
    /\ refresh' = [refresh EXCEPT ![u] =
           [pc |-> "read", fills |-> hasText /\ card.text = "",
            verifies |-> l.trusted /\ ~card.official, url |-> l.url]]
    /\ UNCHANGED <<card, entries, worker, form, review, batch>>

\* app.save(update_fields=dirty), no statement when nothing is.
RefreshSaves(u) ==
    LET r == refresh[u]
    IN /\ r.pc = "read"
       /\ r.fills \/ r.verifies => RowFree
       /\ card' = [card EXCEPT !.text = IF r.fills THEN "feed" ELSE @,
                               !.official = @ \/ r.verifies]
       /\ refresh' = [refresh EXCEPT ![u] = [IdleRefresh EXCEPT !.pc = "saved",
                                                                !.url = r.url]]
       /\ UNCHANGED <<entries, worker, form, review, batch, used>>

\* attach_platforms: the link's own lock, an empty directory URL is filled.
RefreshAttaches(u) ==
    /\ refresh[u].pc = "saved"
    /\ card' = [card EXCEPT !.url = @ \/ refresh[u].url]
    /\ refresh' = [refresh EXCEPT ![u] = IdleRefresh]
    /\ UNCHANGED <<entries, worker, form, review, batch, used>>

\* A failed statement (the import counts an error and goes on) or a dead worker.
RefreshFails(u) ==
    /\ refresh[u].pc # "idle"
    /\ refresh' = [refresh EXCEPT ![u] = IdleRefresh]
    /\ UNCHANGED <<card, entries, worker, form, review, batch, used>>

(***************************************************************************)
(* Editors: the App form and the actions of the two changelists.           *)
(***************************************************************************)
EditorOpens ==
    /\ ~form.open
    /\ Counts("forms", MaxForms)
    /\ form' = [open |-> TRUE, card |-> card]
    /\ UNCHANGED <<card, entries, worker, refresh, review, batch>>

\* One field of the form is edited, or none.
Edited(f) ==
    {[f EXCEPT !.text = t] : t \in {"", "editor", f.text}}
    \cup {[f EXCEPT !.cap = c] : c \in Caps}
    \cup {[f EXCEPT !.verdict = "editor"]}
    \cup {[f EXCEPT !.status = t] : t \in Statuses}
    \cup {[f EXCEPT !.reviewed = b] : b \in BOOLEAN}
    \cup {[f EXCEPT !.official = b] : b \in BOOLEAN}
    \cup {[f EXCEPT !.url = b] : b \in BOOLEAN}

\* The POST writes every field and inline as submitted, the ones the editor did not
\* touch as they were rendered; nothing is validated against the publish gate.
EditorSaves ==
    /\ form.open
    /\ RowFree
    /\ card' \in Edited(form.card)
    /\ form' = NoForm
    /\ UNCHANGED <<entries, worker, refresh, review, batch, used>>

\* action_mark_editorial_reviewed; action_mark_platform_official.
EditorMarks ==
    /\ RowFree
    /\ \/ card' = [card EXCEPT !.reviewed = TRUE]
       \/ card.url /\ card' = [card EXCEPT !.official = TRUE]
    /\ card' # card
    /\ UNCHANGED <<entries, worker, refresh, form, review, batch, used>>

\* The request loads the entry with its App, or the App alone (action_publish); an
\* entry already resolved is skipped.  passes: what _validate_publish finds in the
\* columns of the loaded App.
ReviewLoads(i) ==
    /\ review.pc = "idle"
    /\ i # 0 => ~entries[i].resolved
    /\ Counts("reviews", MaxReviews)
    /\ review' = [pc |-> "loaded", entry |-> i,
                  passes |-> card.text # "" /\ card.reviewed /\ card.official,
                  outcome |-> IF i = 0 THEN "pending" ELSE entries[i].outcome]
    /\ UNCHANGED <<card, entries, worker, refresh, form, batch>>

\* _record_outcome leaves the entry unresolved, _resolve stamps it.  A change form
\* has saved every column as it was loaded first (whole).
Recorded(i, outcome, whole) ==
    [entries EXCEPT ![i] =
        [entries[i] EXCEPT !.outcome = outcome,
                           !.resolved = \/ outcome # "accepted"
                                        \/ entries[i].resolved /\ ~whole]]

\* With the card written, a button of the change form is one transaction with the
\* entry's outcome; a bulk action records it in a statement of its own.
Concludes(outcome) ==
    LET i == review.entry
    IN \/ /\ entries' = IF i = 0 THEN entries ELSE Recorded(i, outcome, TRUE)
          /\ review' = IdleReview
       \/ /\ i # 0
          /\ review' = [IdleReview EXCEPT !.pc = "applied", !.entry = i,
                                          !.outcome = outcome]
          /\ UNCHANGED entries

\* _apply_proposed_verdict.
AppliesVerdict ==
    /\ review.pc = "loaded"
    /\ review.entry # 0
    /\ entries[review.entry].verdict # ""
    /\ RowFree
    /\ card' = [card EXCEPT !.verdict = entries[review.entry].verdict]
    /\ Concludes("accepted")
    /\ UNCHANGED <<worker, refresh, form, batch, used>>

\* _approve_and_publish_entry, or action_publish without an entry: the checklist
\* mixes the loaded App with the capabilities and links of now.
EditorPublishes ==
    /\ review.pc = "loaded"
    /\ RowFree
    /\ review.passes
    /\ card.cap # "unknown"
    /\ card.url
    /\ card' = [card EXCEPT !.status = "published"]
    /\ Concludes("published")
    /\ UNCHANGED <<worker, refresh, form, batch, used>>

\* The second statement of a bulk action.
ReviewRecords ==
    /\ review.pc = "applied"
    /\ entries' = Recorded(review.entry, review.outcome, FALSE)
    /\ review' = IdleReview
    /\ UNCHANGED <<card, worker, refresh, form, batch, used>>

\* _reject_entry and _mark_entry_resolved.
Closes(outcome) ==
    /\ review.pc = "loaded"
    /\ review.entry # 0
    /\ entries' = Recorded(review.entry, outcome, TRUE)
    /\ review' = IdleReview
    /\ UNCHANGED <<card, worker, refresh, form, batch, used>>

\* The change form is saved with no button, or its button finds nothing to apply:
\* only the whole-row save of the entry as it was loaded remains.
FormRewrites ==
    LET i == review.entry
    IN /\ review.pc = "loaded"
       /\ i # 0
       /\ entries' = [entries EXCEPT ![i] = [entries[i] EXCEPT !.outcome = review.outcome,
                                                               !.resolved = FALSE]]
       /\ review' = IdleReview
       /\ UNCHANGED <<card, worker, refresh, form, batch, used>>

\* The checklist fails, a bulk action finds nothing to apply, or the request dies.
ReviewEnds ==
    /\ review.pc # "idle"
    /\ review' = IdleReview
    /\ UNCHANGED <<card, entries, worker, refresh, form, batch, used>>

(***************************************************************************)
(* Autopublish, with auto_review.                                          *)
(***************************************************************************)
Pending == {i \in DOMAIN entries : entries[i].outcome = "pending"}

\* Mutant of PlannedVerdict: low-information verdicts are planned too.
PlannedVerdictAny ==
    IF card.verdict = "" /\ \E i \in Pending : entries[i].verdict # ""
    THEN entries[CHOOSE i \in Pending : entries[i].verdict # ""].verdict ELSE ""

\* _plan_verdict over the pending entries in order: only an informative verdict is
\* planned, only on an empty one, and a later different one conflicts with it.
PlannedVerdict ==
    IF card.verdict = "" /\ \E i \in Pending : entries[i].verdict = "agent"
    THEN "agent" ELSE ""

ReviewBlocked ==
    \E i \in Pending :
        \/ entries[i].skipped
        \/ entries[i].verdict # "" /\ card.verdict \notin {"", entries[i].verdict}
        \/ /\ card.verdict = ""
           /\ entries[i].verdict = "vague"
           /\ \E k \in Pending : k < i /\ entries[k].verdict = "agent"

\* _base_publish_blockers, and with reviewed also _validate_publish.
Complete(c) == c.text # "" /\ c.cap # "unknown" /\ c.official /\ c.url

\* autopublish_batch evaluates its drafts first and applies the decisions later.
BatchEvaluates ==
    /\ batch.pc = "idle"
    /\ card.status = "draft"
    /\ Complete(card)
    /\ ~ReviewBlocked
    /\ Counts("batches", MaxBatches)
    /\ batch' = [IdleBatch EXCEPT !.pc = "decided"]
    /\ UNCHANGED <<card, entries, worker, refresh, form, review>>

\* apply_autopublish_decision locks the App row and evaluates again, status apart.
AutoLocks ==
    /\ batch.pc = "decided"
    /\ Complete(card)
    /\ ~ReviewBlocked
    /\ batch' = [pc |-> "locked", verdict |-> PlannedVerdict, ids |-> Pending,
                 seen |-> Len(entries)]
    /\ UNCHANGED <<card, entries, worker, refresh, form, review, used>>

AutoDeclines ==
    /\ batch.pc = "decided"
    /\ ~Complete(card) \/ ReviewBlocked
    /\ batch' = IdleBatch
    /\ UNCHANGED <<card, entries, worker, refresh, form, review, used>>

\* The updates of the plan, the entries that are still pending, and the final
\* transition_to_published with its checklist.
AutoCommitsOn(ids) ==
    /\ batch.pc = "locked"
    /\ Complete(card)
    /\ card' = [card EXCEPT !.verdict = IF batch.verdict # "" THEN batch.verdict ELSE @,
                            !.reviewed = TRUE, !.status = "published"]
    /\ entries' = [i \in DOMAIN entries |->
           IF i \in ids
           THEN [entries[i] EXCEPT !.resolved = TRUE,
                                   !.outcome = IF batch.verdict # "" THEN "accepted"
                                               ELSE "no_action"]
           ELSE entries[i]]
    /\ batch' = IdleBatch
    /\ UNCHANGED <<worker, refresh, form, review, used>>

\* Mutant of AutoCommits: resolves the entries it planned for, whatever they are now.
AutoCommitsPlanned == AutoCommitsOn(batch.ids)

AutoCommits == AutoCommitsOn(batch.ids \cap Pending)

\* An error rolls the transaction back, or the command dies.
AutoFails ==
    /\ batch.pc # "idle"
    /\ batch' = IdleBatch
    /\ UNCHANGED <<card, entries, worker, refresh, form, review, used>>

EnrichStep(e) ==
    \/ EnrichBegins(e)
    \/ EnrichSnapshots(e)
    \/ \E p \in Proposals : EnrichMerges(e, p)
    \/ EnrichApplies(e)
    \/ EnrichFails(e)

RefreshStep(u) ==
    \/ \E hasText \in BOOLEAN, l \in Listings : RefreshReads(u, hasText, l)
    \/ RefreshSaves(u)
    \/ RefreshAttaches(u)
    \/ RefreshFails(u)

EditorStep ==
    \/ EditorOpens
    \/ EditorSaves
    \/ EditorMarks
    \/ \E i \in {0} \cup DOMAIN entries : ReviewLoads(i)
    \/ AppliesVerdict
    \/ EditorPublishes
    \/ ReviewRecords
    \/ \E outcome \in {"rejected", "no_action"} : Closes(outcome)
    \/ FormRewrites
    \/ ReviewEnds

AutopublishStep ==
    \/ BatchEvaluates
    \/ AutoLocks
    \/ AutoDeclines
    \/ AutoCommits
    \/ AutoFails

Next ==
    \/ \E e \in Enrichers : EnrichStep(e)
    \/ \E u \in Importers : RefreshStep(u)
    \/ EditorStep
    \/ AutopublishStep

Spec == Init /\ [][Next]_vars

(***************************************************************************)
(* Properties.                                                             *)
(***************************************************************************)
FormSaved == form.open /\ ~form'.open

\* What a card says, it says until an editor's form says otherwise: no enrichment,
\* however stale its snapshot, no automation and no review replaces a filled text or
\* a known capability.  The one exception is a refresh that had read the text empty.
SlotsStay ==
    /\ card.text # "" /\ card'.text # card.text =>
          \/ FormSaved
          \/ \E u \in Importers : refresh[u].fills /\ refresh'[u] # refresh[u]
    /\ card.cap # "unknown" /\ card'.cap # card.cap => FormSaved

FilledSlotsStay == [][SlotsStay]_vars

\* An enrichment that began on a draft leaves no trace on the card or in its review
\* queue if the card is not a draft any more when it comes to apply.
KeepsToDrafts ==
    \A e \in Enrichers :
        worker'[e] # worker[e] /\ card.status # "draft" => UNCHANGED <<card, entries>>

EnrichmentKeepsToDrafts == [][KeepsToDrafts]_vars

\* What the lock is for, and what makes the next properties inductive: while the
\* autopublish transaction holds the App row its plan stays right, no proposal is
\* queued that it does not know and no verdict appears that it would overwrite.
PlanHolds ==
    batch.pc = "locked" =>
        /\ Len(entries) = batch.seen
        /\ card.verdict # "" => batch.verdict = ""

\* Autopublish keeps a verdict that somebody wrote, even after the batch evaluated
\* the card or while its transaction runs.
KeepsVerdict == AutoCommits /\ card.verdict # "" => card'.verdict = card.verdict

AutopublishKeepsVerdict == [][KeepsVerdict]_vars

\* A review entry that is decided changes by a review alone: neither an enrichment
\* that meets it nor autopublish, which planned while it was pending, overrules it.
DecisionsStay ==
    \A i \in DOMAIN entries \ Pending : entries'[i] # entries[i] => review' # review

OnlyReviewsDecideAgain == [][DecisionsStay]_vars

\* What autopublish publishes is complete and reviewed and leaves no proposal
\* pending, neither one it planned for nor one an enrichment queued meanwhile; only
\* an entry that was decided when it locked can come back, by a stale entry form.
Settles ==
    AutoCommits =>
        /\ Complete(card') /\ card'.reviewed
        /\ Pending' \subseteq 1..batch.seen \ batch.ids

AutopublishSettles == [][Settles]_vars

\* upsert.py's promise: editor edits are sacred and never overwritten.
EditorTextIsSacred ==
    [][card.text = "editor" /\ card'.text # "editor" => FormSaved]_vars

\* persist.py's promise for a capability that became known after the snapshot: the
\* disagreement is captured in the queue.
DisagreementIsQueued ==
    [][\A e \in Enrichers :
          EnrichApplies(e) /\ worker[e].cap # "unknown"
                          /\ card.cap \notin {"unknown", worker[e].cap} =>
              /\ Len(entries') > Len(entries)
              /\ entries'[Len(entries')].skipped]_vars

\* autopublish_candidates' promise: it publishes drafts.
AutopublishPublishesDrafts ==
    [][AutoCommits => card.status # "hidden"]_vars
============================================================================
