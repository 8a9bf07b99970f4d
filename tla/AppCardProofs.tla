--------------------------- MODULE AppCardProofs ---------------------------
(***************************************************************************)
(* AppCard for every number of enrichments, imports, editors' actions and  *)
(* whatever the LLM proposes: types; filled slots stay; enrichment keeps   *)
(* to drafts; autopublish keeps verdicts and settles a card.               *)
(***************************************************************************)
EXTENDS AppCard, TLAPS

(***************************************************************************)
(* Types.                                                                  *)
(***************************************************************************)
USE DEF Texts, Caps, Verdicts, Statuses, Outcomes

LEMMA InitType == Init => TypeOK
<1> SUFFICES ASSUME Init PROVE TypeOK OBVIOUS
<1>1. card \in Card BY DEF Init, Card, Blank, Listings
<1>2. entries \in Seq(Entry) /\ Len(entries) = 0 /\ DOMAIN entries = {}
  <2>1. entries = <<>> BY DEF Init
  <2> QED BY <2>1
<1>3. worker \in [Enrichers -> Worker] BY DEF Init, IdleWorker, Worker
<1>4. refresh \in [Importers -> Refresh] BY DEF Init, IdleRefresh, Refresh
<1>5. review \in Review /\ review.entry = 0 BY DEF Init, IdleReview, Review
<1>6. batch \in Batch /\ batch.ids = {} BY DEF Init, IdleBatch, Batch
<1>7. used \in [Counters -> Nat] BY DEF Init
<1>8. form \in Form BY DEF Init, NoForm, Blank, Form, Card
<1>9. review.entry \in 0..Len(entries) /\ batch.ids \subseteq DOMAIN entries
  BY <1>2, <1>5, <1>6
<1> QED BY <1>1, <1>2, <1>3, <1>4, <1>5, <1>6, <1>7, <1>8, <1>9 DEF TypeOK

LEMMA CountsType ==
  ASSUME TypeOK, NEW k \in Counters, NEW max, Counts(k, max)
  PROVE  used' \in [Counters -> Nat]
<1>1. used[k] \in Nat BY DEF TypeOK
<1> QED BY <1>1 DEF TypeOK, Counts

LEMMA EnrichStepType ==
  ASSUME TypeOK, NEW e \in Enrichers, EnrichStep(e)
  PROVE  TypeOK'
<1>0. /\ worker[e] \in Worker /\ IdleWorker \in Worker
      /\ card \in Card /\ card.text \in Texts /\ card.cap \in Caps
  BY DEF TypeOK, IdleWorker, Worker, Card
<1>1. ASSUME worker' \in [Enrichers -> Worker], UNCHANGED <<card, entries, refresh, form, review, batch>>,
             used' \in [Counters -> Nat]
      PROVE  TypeOK'
  BY <1>1 DEF TypeOK
<1>2. CASE EnrichBegins(e)
  <2>1. [worker[e] EXCEPT !.pc = "eligible"] \in Worker BY <1>0 DEF Worker
  <2>2. worker' \in [Enrichers -> Worker] BY <1>2, <2>1 DEF EnrichBegins, TypeOK
  <2> QED BY <1>1, <1>2, <2>2, CountsType DEF EnrichBegins, Counters
<1>3. CASE EnrichSnapshots(e)
  <2>1. [worker[e] EXCEPT !.pc = "asked", !.snapText = card.text, !.snapCap = card.cap]
           \in Worker
    BY <1>0 DEF Worker
  <2>2. worker' \in [Enrichers -> Worker] BY <1>3, <2>1 DEF EnrichSnapshots, TypeOK
  <2> QED BY <1>1, <1>3, <2>2 DEF EnrichSnapshots, TypeOK
<1>4. ASSUME NEW p \in Proposals, EnrichMerges(e, p) PROVE TypeOK'
  <2>1. /\ p.text \in {"", "agent"} /\ p.cap \in Caps
        /\ p.verdict \in {"", "agent", "vague"}
    BY ProposalsWellFormed
  <2>2. \A t \in {"", "agent"}, c \in Caps, s \in BOOLEAN :
           [IdleWorker EXCEPT !.pc = "merged", !.text = t, !.cap = c,
                              !.verdict = p.verdict, !.skipped = s] \in Worker
    BY <1>0, <2>1 DEF Worker
  <2>3. worker' \in [Enrichers -> Worker]
    BY <1>4, <2>1, <2>2 DEF EnrichMerges, TypeOK
  <2> QED BY <1>1, <1>4, <2>3 DEF EnrichMerges, TypeOK
<1>5. CASE EnrichApplies(e)
  <2>1. /\ card' = FillGaps(worker[e]) /\ entries' = Queued(worker[e])
        /\ worker' = [worker EXCEPT ![e] = IdleWorker]
        /\ UNCHANGED <<refresh, form, review, batch, used>>
    BY <1>5 DEF EnrichApplies, Apply
  <2>2. card' \in Card
    BY <1>0, <2>1 DEF FillGaps, Card, Worker
  <2>3. [verdict |-> worker[e].verdict, skipped |-> worker[e].skipped,
         outcome |-> "pending", resolved |-> FALSE] \in Entry
    BY <1>0 DEF Worker, Entry
  <2> DEFINE new == [verdict |-> worker[e].verdict, skipped |-> worker[e].skipped,
                     outcome |-> "pending", resolved |-> FALSE]
  <2>7. entries' = entries \/ entries' = Append(entries, new)
    BY <2>1 DEF Queued
  <2>8. new \in Entry BY <2>3
  <2> HIDE DEF new
  <2>4. entries' \in Seq(Entry) /\ Len(entries') >= Len(entries)
    BY <2>7, <2>8 DEF TypeOK
  <2>5. review'.entry \in 0..Len(entries') /\ batch'.ids \subseteq DOMAIN entries'
    BY <2>1, <2>4 DEF TypeOK
  <2>6. worker' \in [Enrichers -> Worker] BY <1>0, <2>1 DEF TypeOK
  <2> QED BY <2>1, <2>2, <2>4, <2>5, <2>6 DEF TypeOK
<1>6. CASE EnrichFails(e)
  <2>1. worker' \in [Enrichers -> Worker] BY <1>0, <1>6 DEF EnrichFails, TypeOK
  <2> QED BY <1>1, <1>6, <2>1 DEF EnrichFails, TypeOK
<1> QED BY <1>2, <1>3, <1>4, <1>5, <1>6 DEF EnrichStep

LEMMA RefreshStepType ==
  ASSUME TypeOK, NEW u \in Importers, RefreshStep(u)
  PROVE  TypeOK'
<1>0. /\ refresh[u] \in Refresh /\ IdleRefresh \in Refresh
      /\ card \in Card
  BY DEF TypeOK, IdleRefresh, Refresh
<1>1. ASSUME card' \in Card, refresh' \in [Importers -> Refresh], used' \in [Counters -> Nat],
             UNCHANGED <<entries, worker, form, review, batch>>
      PROVE  TypeOK'
  BY <1>1 DEF TypeOK
<1>2. ASSUME NEW hasText \in BOOLEAN, NEW l \in Listings, RefreshReads(u, hasText, l)
      PROVE  TypeOK'
  <2>1. [pc |-> "read", fills |-> hasText /\ card.text = "",
         verifies |-> l.trusted /\ ~card.official, url |-> l.url] \in Refresh
    BY DEF Refresh, Listings
  <2>2. refresh' \in [Importers -> Refresh] BY <1>2, <2>1 DEF RefreshReads, TypeOK
  <2>3. used' \in [Counters -> Nat] BY <1>2, CountsType DEF RefreshReads, Counters
  <2> QED BY <1>0, <1>1, <1>2, <2>2, <2>3 DEF RefreshReads
<1>3. CASE RefreshSaves(u)
  <2>1. card' \in Card BY <1>0, <1>3 DEF RefreshSaves, Card, Refresh
  <2>2. [IdleRefresh EXCEPT !.pc = "saved", !.url = refresh[u].url] \in Refresh
    BY <1>0 DEF Refresh
  <2>3. refresh' \in [Importers -> Refresh] BY <1>3, <2>2 DEF RefreshSaves, TypeOK
  <2> QED BY <1>1, <1>3, <2>1, <2>3 DEF RefreshSaves, TypeOK
<1>4. CASE RefreshAttaches(u)
  <2>1. card' \in Card BY <1>0, <1>4 DEF RefreshAttaches, Card, Refresh
  <2>2. refresh' \in [Importers -> Refresh] BY <1>0, <1>4 DEF RefreshAttaches, TypeOK
  <2> QED BY <1>1, <1>4, <2>1, <2>2 DEF RefreshAttaches, TypeOK
<1>5. CASE RefreshFails(u)
  <2>1. refresh' \in [Importers -> Refresh] BY <1>0, <1>5 DEF RefreshFails, TypeOK
  <2> QED BY <1>0, <1>1, <1>5, <2>1 DEF RefreshFails, TypeOK
<1> QED BY <1>2, <1>3, <1>4, <1>5 DEF RefreshStep

\* Replacing an entry by another keeps the sequence one of entries.
LEMMA EntryReplaced ==
  ASSUME TypeOK, NEW i \in DOMAIN entries, NEW n \in Entry,
         entries' = [entries EXCEPT ![i] = n]
  PROVE  entries' \in Seq(Entry) /\ Len(entries') = Len(entries) /\ DOMAIN entries' = DOMAIN entries
  BY DEF TypeOK

LEMMA RecordedType ==
  ASSUME TypeOK, NEW i \in DOMAIN entries, NEW outcome \in Outcomes, NEW whole \in BOOLEAN,
         entries' = Recorded(i, outcome, whole)
  PROVE  entries' \in Seq(Entry) /\ Len(entries') = Len(entries)
<1> DEFINE resolved == outcome # "accepted" \/ (entries[i].resolved /\ ~whole)
           new == [entries[i] EXCEPT !.outcome = outcome, !.resolved = resolved]
<1>1. entries[i] \in Entry BY DEF TypeOK
<1>2. resolved \in BOOLEAN OBVIOUS
<1>3. entries' = [entries EXCEPT ![i] = new] BY DEF Recorded
<1> HIDE DEF resolved
<1>4. new \in Entry BY <1>1, <1>2 DEF Entry
<1> HIDE DEF new
<1> QED BY <1>3, <1>4, EntryReplaced

LEMMA ConcludesType ==
  ASSUME TypeOK, NEW outcome \in Outcomes, Concludes(outcome)
  PROVE  /\ entries' \in Seq(Entry) /\ Len(entries') = Len(entries)
         /\ review' \in Review /\ review'.entry \in 0..Len(entries)
<1> DEFINE i == review.entry
<1>0. /\ IdleReview \in Review /\ IdleReview.entry = 0
      /\ i \in 0..Len(entries) /\ i \in Nat /\ (i # 0 => i \in DOMAIN entries)
  <2>1. IdleReview \in Review /\ IdleReview.entry = 0 BY DEF IdleReview, Review
  <2>2. i \in 0..Len(entries) /\ i \in Nat /\ (i # 0 => i \in DOMAIN entries)
    BY DEF TypeOK, Review
  <2> QED BY <2>1, <2>2
<1>1. CASE entries' = (IF i = 0 THEN entries ELSE Recorded(i, outcome, TRUE))
           /\ review' = IdleReview
  <2>1. CASE i = 0 BY <1>0, <1>1, <2>1 DEF TypeOK
  <2>2. CASE i # 0
    <3> HIDE DEF i
    <3>1. entries' = Recorded(i, outcome, TRUE) /\ i \in DOMAIN entries BY <1>0, <1>1, <2>2
    <3>2. entries' \in Seq(Entry) /\ Len(entries') = Len(entries) BY <3>1, RecordedType
    <3>3. IdleReview.entry \in 0..Len(entries) BY <1>0 DEF TypeOK
    <3> QED BY <1>0, <1>1, <3>2, <3>3
  <2> QED BY <2>1, <2>2
<1>2. CASE review' = [IdleReview EXCEPT !.pc = "applied", !.entry = i, !.outcome = outcome]
           /\ UNCHANGED entries
  <2>1. review' \in Review /\ review'.entry = i BY <1>0, <1>2 DEF Review
  <2> QED BY <1>0, <1>2, <2>1 DEF TypeOK
<1> QED BY <1>1, <1>2 DEF Concludes

LEMMA EditorStepType ==
  ASSUME TypeOK, EditorStep
  PROVE  TypeOK'
<1>0. /\ card \in Card /\ form.card \in Card /\ NoForm \in Form
      /\ IdleReview \in Review /\ IdleReview.entry = 0
      /\ \A i \in DOMAIN entries : entries[i] \in Entry
      /\ review.entry # 0 => review.entry \in DOMAIN entries
  <2>1. card \in Card /\ form.card \in Card BY DEF TypeOK, Form
  <2>2. NoForm \in Form BY DEF Form, NoForm, Blank, Card
  <2>3. IdleReview \in Review /\ IdleReview.entry = 0 BY DEF IdleReview, Review
  <2>4. \A i \in DOMAIN entries : entries[i] \in Entry BY DEF TypeOK
  <2>5. review.entry # 0 => review.entry \in DOMAIN entries BY DEF TypeOK
  <2> QED BY <2>1, <2>2, <2>3, <2>4, <2>5
<1>1. ASSUME card' \in Card, form' \in Form, review' \in Review,
             review'.entry \in 0..Len(entries), used' \in [Counters -> Nat],
             entries' \in Seq(Entry), Len(entries') = Len(entries),
             UNCHANGED <<worker, refresh, batch>>
      PROVE  TypeOK'
  <2>1. DOMAIN entries' = DOMAIN entries BY <1>1 DEF TypeOK
  <2> QED BY <1>1, <2>1 DEF TypeOK
<1>2. CASE EditorOpens
  <2>1. form' \in Form BY <1>0, <1>2 DEF EditorOpens, Form
  <2>2. used' \in [Counters -> Nat] BY <1>2, CountsType DEF EditorOpens, Counters
  <2> QED BY <1>0, <1>2, <2>1, <2>2 DEF EditorOpens, TypeOK
<1>3. CASE EditorSaves
  <2> DEFINE f == form.card
  <2>0. f \in Card BY <1>0
  <2> HIDE DEF f
  <2>a. \A t \in Texts : [f EXCEPT !.text = t] \in Card BY <2>0 DEF Card
  <2>b. \A c \in Caps : [f EXCEPT !.cap = c] \in Card BY <2>0 DEF Card
  <2>c. [f EXCEPT !.verdict = "editor"] \in Card BY <2>0 DEF Card
  <2>d. \A t \in Statuses : [f EXCEPT !.status = t] \in Card BY <2>0 DEF Card
  <2>e. \A b \in BOOLEAN : /\ [f EXCEPT !.reviewed = b] \in Card
                           /\ [f EXCEPT !.official = b] \in Card
                           /\ [f EXCEPT !.url = b] \in Card
    BY <2>0 DEF Card
  <2>f. {"", "editor", f.text} \subseteq Texts BY <2>0 DEF Card
  <2>1. Edited(form.card) \subseteq Card
    BY <2>a, <2>b, <2>c, <2>d, <2>e, <2>f DEF Edited, f
  <2>2. card' \in Card /\ form' \in Form BY <1>0, <1>3, <2>1 DEF EditorSaves
  <2> QED BY <1>3, <2>2 DEF EditorSaves, TypeOK
<1>4. CASE EditorMarks
  <2>1. card' \in Card BY <1>0, <1>4 DEF EditorMarks, Card
  <2> QED BY <1>4, <2>1 DEF EditorMarks, TypeOK
<1>5. ASSUME NEW i \in {0} \cup DOMAIN entries, ReviewLoads(i) PROVE TypeOK'
  <2>1. i \in 0..Len(entries) BY DEF TypeOK
  <2>2. review' \in Review /\ review'.entry = i
    <3>1. review' = [pc |-> "loaded", entry |-> i,
                     passes |-> card.text # "" /\ card.reviewed /\ card.official,
                     outcome |-> IF i = 0 THEN "pending" ELSE entries[i].outcome]
      BY <1>5 DEF ReviewLoads
    <3>2. i \in Nat
      BY <2>1 DEF TypeOK
    <3>3. card.reviewed \in BOOLEAN /\ card.official \in BOOLEAN BY <1>0 DEF Card
    <3> DEFINE passes == card.text # "" /\ card.reviewed /\ card.official
           outcome == IF i = 0 THEN "pending" ELSE entries[i].outcome
    <3>4. passes \in BOOLEAN BY <3>3
    <3>5. outcome \in Outcomes BY <1>0 DEF Entry
    <3> HIDE DEF passes, outcome
    <3>6. review' = [pc |-> "loaded", entry |-> i, passes |-> passes, outcome |-> outcome]
      BY <3>1 DEF passes, outcome
    <3> QED BY <3>2, <3>4, <3>5, <3>6 DEF Review
  <2>3. used' \in [Counters -> Nat] BY <1>5, CountsType DEF ReviewLoads, Counters
  <2> QED BY <1>5, <2>1, <2>2, <2>3 DEF ReviewLoads, TypeOK
<1>6. CASE AppliesVerdict
  <2> DEFINE i == review.entry
  <2>1. i \in DOMAIN entries /\ entries[i] \in Entry BY <1>0, <1>6 DEF AppliesVerdict
  <2>2. card' \in Card BY <1>0, <1>6, <2>1 DEF AppliesVerdict, Card, Entry
  <2>3. UNCHANGED <<worker, refresh, form, batch, used>> BY <1>6 DEF AppliesVerdict
  <2>4. Concludes("accepted") BY <1>6 DEF AppliesVerdict
  <2> QED BY <1>1, <2>2, <2>3, <2>4, ConcludesType DEF TypeOK
<1>7. CASE EditorPublishes
  <2>1. card' \in Card BY <1>0, <1>7 DEF EditorPublishes, Card
  <2>2. UNCHANGED <<worker, refresh, form, batch, used>> BY <1>7 DEF EditorPublishes
  <2>3. Concludes("published") BY <1>7 DEF EditorPublishes
  <2> QED BY <1>1, <2>1, <2>2, <2>3, ConcludesType DEF TypeOK
<1>8. CASE ReviewRecords
  <2>1. review.entry # 0 => review.entry \in DOMAIN entries BY <1>0
  <2>2. review.outcome \in Outcomes BY DEF TypeOK, Review
  <2>3. entries' \in Seq(Entry) /\ Len(entries') = Len(entries)
    <3>1. CASE review.entry = 0
      <4>1. 0 \notin DOMAIN entries BY DEF TypeOK
      <4>2. entries' = entries BY <1>8, <3>1, <4>1 DEF ReviewRecords, Recorded, TypeOK
      <4> QED BY <4>2 DEF TypeOK
    <3>2. CASE review.entry # 0
      BY <1>8, <2>1, <2>2, <3>2, RecordedType DEF ReviewRecords
    <3> QED BY <3>1, <3>2
  <2>4. review' = IdleReview /\ UNCHANGED <<card, worker, refresh, form, batch, used>>
    BY <1>8 DEF ReviewRecords
  <2> QED BY <1>0, <1>1, <2>3, <2>4 DEF TypeOK
<1>9. ASSUME NEW outcome \in {"rejected", "no_action"}, Closes(outcome) PROVE TypeOK'
  <2>1. entries' \in Seq(Entry) /\ Len(entries') = Len(entries)
    BY <1>0, <1>9, RecordedType DEF Closes
  <2>2. review' = IdleReview /\ UNCHANGED <<card, worker, refresh, form, batch, used>>
    BY <1>9 DEF Closes
  <2> QED BY <1>0, <1>1, <2>1, <2>2 DEF TypeOK
<1>10. CASE FormRewrites
  <2> DEFINE i == review.entry
             new == [entries[i] EXCEPT !.outcome = review.outcome, !.resolved = FALSE]
  <2>1. i \in DOMAIN entries /\ entries[i] \in Entry BY <1>0, <1>10 DEF FormRewrites
  <2>2. review.outcome \in Outcomes BY DEF TypeOK, Review
  <2>3. new \in Entry BY <2>1, <2>2 DEF Entry
  <2>4. entries' = [entries EXCEPT ![i] = new] BY <1>10 DEF FormRewrites
  <2> HIDE DEF new
  <2>5. entries' \in Seq(Entry) /\ Len(entries') = Len(entries)
    BY <2>1, <2>3, <2>4, EntryReplaced
  <2> QED BY <1>0, <1>1, <1>10, <2>5 DEF FormRewrites, TypeOK
<1>11. CASE ReviewEnds
  BY <1>0, <1>11 DEF ReviewEnds, TypeOK
<1> QED BY <1>2, <1>3, <1>4, <1>5, <1>6, <1>7, <1>8, <1>9, <1>10, <1>11 DEF EditorStep

LEMMA AutopublishStepType ==
  ASSUME TypeOK, AutopublishStep
  PROVE  TypeOK'
<1>0. /\ card \in Card /\ batch \in Batch /\ IdleBatch.ids = {}
      /\ IdleBatch \in Batch /\ [IdleBatch EXCEPT !.pc = "decided"] \in Batch
      /\ [IdleBatch EXCEPT !.pc = "decided"].ids = {}
  BY DEF TypeOK, IdleBatch, Batch
<1>1. ASSUME batch' \in Batch, batch'.ids \subseteq DOMAIN entries,
             used' \in [Counters -> Nat],
             UNCHANGED <<card, entries, worker, refresh, form, review>>
      PROVE  TypeOK'
  BY <1>1 DEF TypeOK
<1>2. CASE BatchEvaluates
  BY <1>0, <1>1, <1>2, CountsType DEF BatchEvaluates, Counters
<1>3. CASE AutoLocks
  <2>1. Pending \subseteq DOMAIN entries /\ Pending \subseteq Nat /\ PlannedVerdict \in {"", "agent"}
    BY DEF Pending, PlannedVerdict, TypeOK
  <2>2. batch' \in Batch /\ batch'.ids = Pending
    <3> DEFINE verdict == PlannedVerdict
               ids == Pending
               seen == Len(entries)
    <3>1. batch' = [pc |-> "locked", verdict |-> verdict, ids |-> ids, seen |-> seen]
      BY <1>3 DEF AutoLocks
    <3>2. verdict \in {"", "agent"} /\ ids \subseteq Nat BY <2>1
    <3>3. seen \in Nat BY DEF TypeOK
    <3> HIDE DEF verdict, ids, seen
    <3>4. batch' \in Batch /\ batch'.ids = ids BY <3>1, <3>2, <3>3 DEF Batch
    <3> QED BY <3>4 DEF ids
  <2> QED BY <1>1, <1>3, <2>1, <2>2 DEF AutoLocks, TypeOK
<1>4. CASE AutoDeclines \/ AutoFails
  <2>1. batch' = IdleBatch /\ UNCHANGED <<card, entries, worker, refresh, form, review, used>>
    BY <1>4 DEF AutoDeclines, AutoFails
  <2> QED BY <1>0, <1>1, <2>1 DEF TypeOK
<1>5. CASE AutoCommits
  <2> DEFINE ids == batch.ids \cap Pending
             settled(i) == [entries[i] EXCEPT !.resolved = TRUE,
                               !.outcome = IF batch.verdict # "" THEN "accepted"
                                           ELSE "no_action"]
             new(i) == IF i \in ids THEN settled(i) ELSE entries[i]
  <2>1. AutoCommitsOn(ids) BY <1>5 DEF AutoCommits
  <2>2. card' \in Card
    <3>1. (IF batch.verdict # "" THEN batch.verdict ELSE card.verdict) \in Verdicts
      BY <1>0 DEF Batch, Card
    <3> QED BY <1>0, <2>1, <3>1 DEF AutoCommitsOn, Card
  <2>3. \A i \in DOMAIN entries : new(i) \in Entry
    <3>1. \A i \in DOMAIN entries : entries[i] \in Entry BY DEF TypeOK
    <3> QED BY <3>1 DEF Entry
  <2>4. entries' = [i \in DOMAIN entries |-> new(i)]
    BY <2>1 DEF AutoCommitsOn
  <2>5. DOMAIN entries = 1..Len(entries) /\ Len(entries) \in Nat BY DEF TypeOK
  <2> HIDE DEF new
  <2>6. entries' \in Seq(Entry) /\ Len(entries') = Len(entries)
    <3>1. entries' \in [1..Len(entries) -> Entry] BY <2>3, <2>4, <2>5
    <3> QED BY <2>4, <2>5, <3>1
  <2>7. batch' = IdleBatch /\ UNCHANGED <<worker, refresh, form, review, used>>
    BY <2>1 DEF AutoCommitsOn
  <2> QED BY <1>0, <2>2, <2>6, <2>7 DEF TypeOK
<1> QED BY <1>2, <1>3, <1>4, <1>5 DEF AutopublishStep

LEMMA NextType == TypeOK /\ [Next]_vars => TypeOK'
<1> SUFFICES ASSUME TypeOK, [Next]_vars PROVE TypeOK' OBVIOUS
<1>1. CASE UNCHANGED vars BY <1>1 DEF TypeOK, vars
<1>2. CASE Next
  BY <1>2, EnrichStepType, RefreshStepType, EditorStepType, AutopublishStepType DEF Next
<1> QED BY <1>1, <1>2

\* A card, its queue and everybody at work on it are well formed, whatever the LLM
\* proposes and however many runs, imports, forms and batches there are.
THEOREM TypeCorrect == Spec => []TypeOK
<1>1. Init => TypeOK BY InitType
<1>2. TypeOK /\ [Next]_vars => TypeOK' BY NextType
<1> QED BY <1>1, <1>2, PTL DEF Spec

(***************************************************************************)
(* Filled slots stay.                                                      *)
(***************************************************************************)
LEMMA StepKeepsSlots == TypeOK /\ Next => SlotsStay
<1> SUFFICES ASSUME TypeOK, Next PROVE SlotsStay OBVIOUS
<1>0. card \in Card BY DEF TypeOK
<1>1. ASSUME card'.text = card.text, card'.cap = card.cap PROVE SlotsStay
  BY <1>1 DEF SlotsStay
<1>2. ASSUME NEW e \in Enrichers, EnrichStep(e) PROVE SlotsStay
  <2>1. CASE EnrichApplies(e)
    <3>1. card' = FillGaps(worker[e]) BY <2>1 DEF EnrichApplies, Apply
    <3>2. /\ card'.text = IF card.text = "" THEN worker[e].text ELSE card.text
          /\ card'.cap = IF card.cap = "unknown" THEN worker[e].cap ELSE card.cap
      BY <1>0, <3>1 DEF FillGaps, Card
    <3> QED BY <3>2 DEF SlotsStay
  <2>2. CASE ~EnrichApplies(e)
    BY <1>1, <1>2, <2>2 DEF EnrichStep, EnrichBegins, EnrichSnapshots, EnrichMerges, EnrichFails
  <2> QED BY <2>1, <2>2
<1>3. ASSUME NEW u \in Importers, RefreshStep(u) PROVE SlotsStay
  <2>1. CASE RefreshSaves(u)
    <3>1. refresh'[u].pc = "saved" /\ refresh[u].pc = "read"
      BY <2>1 DEF RefreshSaves, TypeOK, IdleRefresh
    <3>2. /\ card'.text = IF refresh[u].fills THEN "feed" ELSE card.text
          /\ card'.cap = card.cap
      BY <1>0, <2>1 DEF RefreshSaves, Card
    <3> QED BY <3>1, <3>2 DEF SlotsStay
  <2>2. CASE RefreshAttaches(u)
    BY <1>0, <1>1, <2>2 DEF RefreshAttaches, Card
  <2>3. CASE ~RefreshSaves(u) /\ ~RefreshAttaches(u)
    BY <1>1, <1>3, <2>3 DEF RefreshStep, RefreshReads, RefreshFails
  <2> QED BY <2>1, <2>2, <2>3
<1>4. CASE EditorStep
  <2>1. CASE EditorSaves
    <3>1. FormSaved BY <2>1 DEF EditorSaves, FormSaved, NoForm
    <3> QED BY <3>1 DEF SlotsStay
  <2>2. CASE EditorMarks BY <1>0, <1>1, <2>2 DEF EditorMarks, Card
  <2>3. CASE EditorPublishes BY <1>0, <1>1, <2>3 DEF EditorPublishes, Card
  <2>4. CASE AppliesVerdict BY <1>0, <1>1, <2>4 DEF AppliesVerdict, Card
  <2>5. CASE UNCHANGED card BY <1>1, <2>5
  <2> QED BY <1>4, <2>1, <2>2, <2>3, <2>4, <2>5
          DEF EditorStep, EditorOpens, ReviewLoads, ReviewRecords, Closes, FormRewrites,
              ReviewEnds
<1>5. CASE AutopublishStep
  <2>1. CASE AutoCommits BY <1>0, <1>1, <2>1 DEF AutoCommits, AutoCommitsOn, Card
  <2>2. CASE UNCHANGED card BY <1>1, <2>2
  <2> QED BY <1>5, <2>1, <2>2
          DEF AutopublishStep, BatchEvaluates, AutoLocks, AutoDeclines, AutoFails
<1> QED BY <1>2, <1>3, <1>4, <1>5 DEF Next

\* Whatever the LLM proposes and however stale a snapshot is, only an editor's form
\* replaces what a card says, or a refresh that had read the text empty.
THEOREM SlotsCorrect == Spec => FilledSlotsStay
<1>1. TypeOK /\ [Next]_vars => [SlotsStay]_vars BY StepKeepsSlots
<1> QED BY <1>1, TypeCorrect, PTL DEF Spec, FilledSlotsStay

(***************************************************************************)
(* Enrichment keeps to drafts.                                             *)
(***************************************************************************)
LEMMA StepKeepsToDrafts == TypeOK /\ Next => KeepsToDrafts
<1> SUFFICES ASSUME TypeOK, Next PROVE KeepsToDrafts OBVIOUS
<1>1. CASE UNCHANGED worker BY <1>1 DEF KeepsToDrafts
<1>2. ASSUME NEW e \in Enrichers, EnrichStep(e) PROVE KeepsToDrafts
  <2>1. CASE EnrichApplies(e)
    <3>1. card.status = "draft" BY <2>1 DEF EnrichApplies
    <3> QED BY <3>1 DEF KeepsToDrafts
  <2>2. CASE ~EnrichApplies(e)
    <3>1. UNCHANGED <<card, entries>>
      BY <1>2, <2>2 DEF EnrichStep, EnrichBegins, EnrichSnapshots, EnrichMerges, EnrichFails
    <3> QED BY <3>1 DEF KeepsToDrafts
  <2> QED BY <2>1, <2>2
<1>3. ASSUME NEW u \in Importers, RefreshStep(u) PROVE UNCHANGED worker
  BY <1>3 DEF RefreshStep, RefreshReads, RefreshSaves, RefreshAttaches, RefreshFails
<1>4. ASSUME EditorStep PROVE UNCHANGED worker
  BY <1>4 DEF EditorStep, EditorOpens, EditorSaves, EditorMarks, ReviewLoads, AppliesVerdict,
              EditorPublishes, ReviewRecords, Closes, FormRewrites, ReviewEnds
<1>5. ASSUME AutopublishStep PROVE UNCHANGED worker
  BY <1>5 DEF AutopublishStep, BatchEvaluates, AutoLocks, AutoDeclines, AutoCommits,
              AutoCommitsOn, AutoFails
<1> QED BY <1>1, <1>2, <1>3, <1>4, <1>5 DEF Next

\* No number of concurrent enrichments touches a published or hidden card.
THEOREM DraftsCorrect == Spec => EnrichmentKeepsToDrafts
<1>1. TypeOK /\ [Next]_vars => [KeepsToDrafts]_vars BY StepKeepsToDrafts
<1> QED BY <1>1, TypeCorrect, PTL DEF Spec, EnrichmentKeepsToDrafts

(***************************************************************************)
(* The plan of a locked batch.                                             *)
(***************************************************************************)
\* A step that leaves the batch and the verdict alone and queues nothing.
LEMMA PlanKept ==
  ASSUME PlanHolds, UNCHANGED batch, card'.verdict = card.verdict, Len(entries') = Len(entries)
  PROVE  PlanHolds'
  BY DEF PlanHolds

LEMMA RecordedLen ==
  ASSUME TypeOK, NEW i, NEW outcome, NEW whole, entries' = Recorded(i, outcome, whole)
  PROVE  Len(entries') = Len(entries)
<1> DEFINE new == [entries[i] EXCEPT !.outcome = outcome,
                       !.resolved = outcome # "accepted" \/ (entries[i].resolved /\ ~whole)]
<1>1. entries' = [entries EXCEPT ![i] = new] BY DEF Recorded
<1> HIDE DEF new
<1> QED BY <1>1 DEF TypeOK

LEMMA StepKeepsPlan == TypeOK /\ PlanHolds /\ Next => PlanHolds'
<1> SUFFICES ASSUME TypeOK, PlanHolds, Next PROVE PlanHolds' OBVIOUS
<1>0. card \in Card BY DEF TypeOK
\* What every writer of the App row waits for.
<1>1. ASSUME RowFree, UNCHANGED batch PROVE PlanHolds'
  BY <1>1 DEF RowFree, PlanHolds
<1>2. ASSUME UNCHANGED <<batch, entries>>, card'.verdict = card.verdict PROVE PlanHolds'
  BY <1>2, PlanKept
<1>3. ASSUME NEW e \in Enrichers, EnrichStep(e) PROVE PlanHolds'
  <2>1. CASE EnrichApplies(e) BY <1>1, <2>1 DEF EnrichApplies, Apply
  <2>2. CASE ~EnrichApplies(e)
    BY <1>2, <1>3, <2>2 DEF EnrichStep, EnrichBegins, EnrichSnapshots, EnrichMerges, EnrichFails
  <2> QED BY <2>1, <2>2
<1>4. ASSUME NEW u \in Importers, RefreshStep(u) PROVE PlanHolds'
  <2>1. CASE RefreshSaves(u) BY <1>0, <1>2, <2>1 DEF RefreshSaves, Card
  <2>2. CASE RefreshAttaches(u) BY <1>0, <1>2, <2>2 DEF RefreshAttaches, Card
  <2>3. CASE ~RefreshSaves(u) /\ ~RefreshAttaches(u)
    BY <1>2, <1>4, <2>3 DEF RefreshStep, RefreshReads, RefreshFails
  <2> QED BY <2>1, <2>2, <2>3
<1>5. CASE EditorStep
  <2>1. CASE EditorOpens \/ ReviewEnds \/ \E i \in {0} \cup DOMAIN entries : ReviewLoads(i)
    BY <1>2, <2>1 DEF EditorOpens, ReviewEnds, ReviewLoads
  <2>2. CASE EditorSaves \/ EditorMarks \/ EditorPublishes \/ AppliesVerdict
    BY <1>1, <2>2 DEF EditorSaves, EditorMarks, EditorPublishes, AppliesVerdict
  <2>3. CASE ReviewRecords
    <3>1. Len(entries') = Len(entries) BY <2>3, RecordedLen DEF ReviewRecords
    <3> QED BY <2>3, <3>1, PlanKept DEF ReviewRecords
  <2>4. ASSUME NEW outcome \in {"rejected", "no_action"}, Closes(outcome) PROVE PlanHolds'
    <3>1. Len(entries') = Len(entries) BY <2>4, RecordedLen DEF Closes
    <3> QED BY <2>4, <3>1, PlanKept DEF Closes
  <2>5. CASE FormRewrites
    <3> DEFINE i == review.entry
               new == [entries[i] EXCEPT !.outcome = review.outcome, !.resolved = FALSE]
    <3>1. entries' = [entries EXCEPT ![i] = new] BY <2>5 DEF FormRewrites
    <3> HIDE DEF new
    <3>2. Len(entries') = Len(entries) BY <3>1 DEF TypeOK
    <3> QED BY <2>5, <3>2, PlanKept DEF FormRewrites
  <2> QED BY <1>5, <2>1, <2>2, <2>3, <2>4, <2>5 DEF EditorStep
<1>6. CASE AutopublishStep
  <2>1. CASE AutoLocks
    <3>1. batch'.seen = Len(entries) /\ batch'.verdict = PlannedVerdict
      BY <2>1 DEF AutoLocks
    <3>2. UNCHANGED <<card, entries>> BY <2>1 DEF AutoLocks
    <3> QED BY <3>1, <3>2 DEF PlanHolds, PlannedVerdict
  <2>2. CASE ~AutoLocks
    <3>1. CASE BatchEvaluates
      <4>1. batch'.pc = "decided" BY <3>1 DEF BatchEvaluates, IdleBatch
      <4> QED BY <4>1 DEF PlanHolds
    <3>2. CASE AutoDeclines \/ AutoCommits \/ AutoFails
      <4>1. batch' = IdleBatch BY <3>2 DEF AutoDeclines, AutoCommits, AutoCommitsOn, AutoFails
      <4>2. IdleBatch.pc = "idle" BY DEF IdleBatch
      <4> QED BY <4>1, <4>2 DEF PlanHolds
    <3> QED BY <1>6, <2>2, <3>1, <3>2 DEF AutopublishStep
  <2> QED BY <2>1, <2>2
<1> QED BY <1>3, <1>4, <1>5, <1>6 DEF Next

THEOREM PlanCorrect == Spec => []PlanHolds
<1>1. Init => PlanHolds
  <2> SUFFICES ASSUME Init PROVE PlanHolds OBVIOUS
  <2>1. batch = IdleBatch BY DEF Init
  <2>2. IdleBatch.pc = "idle" BY DEF IdleBatch
  <2> QED BY <2>1, <2>2 DEF PlanHolds
<1>2. TypeOK /\ PlanHolds /\ [Next]_vars => PlanHolds'
  <2>1. TypeOK /\ PlanHolds /\ UNCHANGED vars => PlanHolds'
    BY PlanKept DEF vars
  <2> QED BY <2>1, StepKeepsPlan
<1> QED BY <1>1, <1>2, TypeCorrect, PTL DEF Spec

\* A verdict that is on the card when autopublish commits was on it before.
LEMMA StepKeepsVerdict == TypeOK /\ PlanHolds => KeepsVerdict
<1> SUFFICES ASSUME TypeOK, PlanHolds, AutoCommits, card.verdict # ""
             PROVE  card'.verdict = card.verdict
  BY DEF KeepsVerdict
<1>1. batch.verdict = "" BY DEF PlanHolds, AutoCommits, AutoCommitsOn
<1> QED BY <1>1 DEF AutoCommits, AutoCommitsOn, TypeOK, Card

LEMMA StepSettles == TypeOK /\ PlanHolds => Settles
<1> SUFFICES ASSUME TypeOK, PlanHolds, AutoCommits
             PROVE  /\ Complete(card') /\ card'.reviewed
                    /\ Pending' \subseteq 1..batch.seen \ batch.ids
  BY DEF Settles
<1> DEFINE ids == batch.ids \cap Pending
           verdict == IF batch.verdict # "" THEN batch.verdict ELSE card.verdict
           outcome == IF batch.verdict # "" THEN "accepted" ELSE "no_action"
<1>1. card' = [card EXCEPT !.verdict = verdict, !.reviewed = TRUE, !.status = "published"]
  BY DEF AutoCommits, AutoCommitsOn
<1>2. Complete(card) /\ Len(entries) = batch.seen
  BY DEF AutoCommits, AutoCommitsOn, PlanHolds
<1>3. Complete(card') /\ card'.reviewed
  <2> HIDE DEF verdict
  <2> QED BY <1>1, <1>2 DEF Complete, TypeOK, Card
<1>4. entries' = [i \in DOMAIN entries |->
                    IF i \in ids THEN [entries[i] EXCEPT !.resolved = TRUE, !.outcome = outcome]
                    ELSE entries[i]]
  BY DEF AutoCommits, AutoCommitsOn
<1>5. outcome # "pending" OBVIOUS
<1>6. \A i \in DOMAIN entries : entries[i] \in Entry BY DEF TypeOK
<1>7. DOMAIN entries = 1..batch.seen BY <1>2 DEF TypeOK
<1> HIDE DEF outcome
<1>8. ASSUME NEW i \in Pending' PROVE i \in 1..batch.seen \ batch.ids
  <2>1. i \in DOMAIN entries /\ entries'[i].outcome = "pending"
    BY <1>4, <1>8 DEF Pending
  <2>2. CASE i \in ids
    <3>1. entries'[i] = [entries[i] EXCEPT !.resolved = TRUE, !.outcome = outcome]
      BY <1>4, <2>1, <2>2
    <3> QED BY <1>5, <1>6, <2>1, <3>1 DEF Entry
  <2>3. CASE i \notin ids
    <3>1. entries'[i] = entries[i] BY <1>4, <2>1, <2>3
    <3>2. i \in Pending BY <2>1, <3>1 DEF Pending
    <3> QED BY <1>7, <2>1, <2>3, <3>2
  <2> QED BY <2>2, <2>3
<1> QED BY <1>3, <1>8

\* However many enrichments, reviews and forms run beside it, autopublish overwrites
\* no verdict, not even one written after its batch evaluated the card.
THEOREM VerdictCorrect == Spec => AutopublishKeepsVerdict
<1>1. TypeOK /\ PlanHolds => [KeepsVerdict]_vars BY StepKeepsVerdict
<1> QED BY <1>1, TypeCorrect, PlanCorrect, PTL DEF AutopublishKeepsVerdict

\* Whatever runs beside it, autopublish publishes complete and reviewed cards and
\* leaves pending nothing it planned for and nothing queued since it locked.
THEOREM SettlesCorrect == Spec => AutopublishSettles
<1>1. TypeOK /\ PlanHolds => [Settles]_vars BY StepSettles
<1> QED BY <1>1, TypeCorrect, PlanCorrect, PTL DEF AutopublishSettles

\* Enrichments append entries, imports have none, and the commit writes only entries that
\* are still pending.
LEMMA StepKeepsDecisions == TypeOK /\ Next => DecisionsStay
<1> SUFFICES ASSUME TypeOK, Next, review' = review,
                    NEW i \in DOMAIN entries \ Pending
             PROVE  entries'[i] = entries[i]
  BY DEF DecisionsStay
<1>1. CASE UNCHANGED entries BY <1>1
<1>2. ASSUME NEW e \in Enrichers, EnrichStep(e) PROVE entries'[i] = entries[i]
  <2>1. CASE EnrichApplies(e)
    <3>1. entries' = Queued(worker[e]) BY <2>1 DEF EnrichApplies, Apply
    <3>2. CASE entries' = entries BY <3>2
    <3>3. CASE entries' # entries
      <4>1. PICK x : entries' = Append(entries, x) BY <3>1, <3>3 DEF Queued
      <4>2. entries \in Seq(Entry) BY DEF TypeOK
      <4> QED BY <4>1, <4>2
    <3> QED BY <3>2, <3>3
  <2>2. CASE ~EnrichApplies(e)
    BY <1>2, <2>2 DEF EnrichStep, EnrichBegins, EnrichSnapshots, EnrichMerges, EnrichFails
  <2> QED BY <2>1, <2>2
<1>3. ASSUME NEW u \in Importers, RefreshStep(u) PROVE UNCHANGED entries
  BY <1>3 DEF RefreshStep, RefreshReads, RefreshSaves, RefreshAttaches, RefreshFails
<1>4. ASSUME EditorStep PROVE entries' = entries
  <2>1. CASE review.pc = "idle" \/ UNCHANGED entries
    BY <1>4, <2>1 DEF EditorStep, EditorOpens, EditorSaves, EditorMarks, ReviewLoads,
                      AppliesVerdict, EditorPublishes, ReviewRecords, Closes, FormRewrites,
                      ReviewEnds
  <2>2. CASE review.pc # "idle" /\ ~UNCHANGED entries
    <3>1. \/ review' = IdleReview
          \/ \E outcome : review' = [IdleReview EXCEPT !.pc = "applied", !.entry = review.entry,
                                                        !.outcome = outcome] /\ UNCHANGED entries
      BY <1>4, <2>2 DEF EditorStep, EditorOpens, EditorSaves, EditorMarks, ReviewLoads,
                        AppliesVerdict, EditorPublishes, ReviewRecords, Closes, FormRewrites,
                        ReviewEnds, Concludes
    <3>2. review' = IdleReview BY <2>2, <3>1
    <3>3. review'.pc = "idle" BY <3>2 DEF IdleReview
    <3> QED BY <2>2, <3>3
  <2> QED BY <2>1, <2>2
<1>5. ASSUME AutopublishStep PROVE entries'[i] = entries[i]
  <2>1. CASE AutoCommits BY <2>1 DEF AutoCommits, AutoCommitsOn
  <2>2. CASE ~AutoCommits
    BY <1>5, <2>2 DEF AutopublishStep, BatchEvaluates, AutoLocks, AutoDeclines, AutoFails
  <2> QED BY <2>1, <2>2
<1> QED BY <1>1, <1>2, <1>3, <1>4, <1>5 DEF Next

\* However many enrichments, imports and batches there are, a decided entry changes by a
\* review alone.
THEOREM DecisionsCorrect == Spec => OnlyReviewsDecideAgain
<1>1. TypeOK /\ [Next]_vars => [DecisionsStay]_vars BY StepKeepsDecisions
<1> QED BY <1>1, TypeCorrect, PTL DEF Spec, OnlyReviewsDecideAgain
============================================================================
