--------------------------- MODULE CatalogImport ---------------------------
(***************************************************************************)
(* How cards come into the catalog and which card a listing belongs to:    *)
(* upsert_app_from_draft (apps/sources/upsert.py), as the feeds and        *)
(* persist_new_draft (apps/agent/persist.py) call it; the merge of two     *)
(* cards found to be one (apps/sources/duplicate_merge.py); the command    *)
(* that takes historical over-merges apart and the one that dismisses weak *)
(* candidates (apps/sources/management/commands).                          *)
(*                                                                         *)
(* A draft is a listing of one feed and stands for its external_id.  Two   *)
(* drafts match strongly if they have the same product (a repository or a  *)
(* page, each with a field of its own on the card, which holds one), and   *)
(* weakly if they only have the same name.  A merge holds the              *)
(* rows of both cards, which an insert that refers to them waits for, so   *)
(* that a merge is one step; the lookups of an import are not.             *)
(***************************************************************************)
EXTENDS Integers, FiniteSets

CONSTANTS
    Drafts,     \* listings
    Registry,   \* those of the MCP Registry, which are never matched
    ProductOf,  \* ProductOf[d]: identity of the draft's repository or URLs
    FieldOf,    \* FieldOf[p]: the field of a card that holds the product p
    NameOf,     \* NameOf[d]
    MaxSimilar, \* the limit of find_duplicate_candidates, 5 in the code
    Overmerged, \* registry listings that an old import put on one card
    Importers,  \* running imports
    MaxApps,    \* bound: cards
    MaxEdits    \* bound: capabilities edited, cards published by hand

ASSUME ImportAssumption ==
    /\ Drafts # {}
    /\ Registry \subseteq Drafts
    /\ Overmerged \subseteq Registry
    /\ MaxSimilar \in Nat
    /\ MaxApps \in Nat \ {0}
    /\ MaxEdits \in Nat

Ids == 1..MaxApps
NoApp == 0
Products == {ProductOf[d] : d \in Drafts}
Verdicts == {"unknown", "yes", "no"}

VARIABLES
    app,      \* app[i]: the card with the primary key i
    source,   \* source[d]: its Source row
    pair,     \* pair[b][a]: DuplicateCandidate, b the newer card
    importer, \* importer[j]: local state of an import
    planned,  \* pairs a merge command has decided to merge
    splits,   \* listings a repair command has decided to split off
    weak,     \* candidates a dismissal command has decided to dismiss
    missed,   \* history: pairs of a card and one its import did not compare it with
    edits     \* the bounded counter

importVars == <<app, source, pair, importer, planned, splits, weak, missed, edits>>
commands == <<planned, splits, weak>>

\* from: the draft it was made from (history); keys: what it matches strongly.
App == [status : {"none", "draft", "published", "hidden"}, from : Drafts,
        keys : SUBSET Products, cap : Verdicts]

Source == [app : {NoApp} \cup Ids, primary : BOOLEAN]

\* app: the card of the row, or the match; fills: the row's card, as it was read, had
\* no URL where the listing has one; similar: the weak matches; seen: history, the
\* cards both lookups have compared.
Importer == [pc : {"idle", "refresh", "unknown", "match", "compare", "create"},
             draft : Drafts, app : {NoApp} \cup Ids, fills : BOOLEAN,
             similar : SUBSET Ids, seen : SUBSET Ids]

ImportTypeOK ==
    /\ app \in [Ids -> App]
    /\ source \in [Drafts -> Source]
    /\ pair \in [Ids -> [Ids -> {"none", "pending", "confirmed", "dismissed"}]]
    /\ importer \in [Importers -> Importer]
    /\ planned \subseteq Ids \X Ids
    /\ splits \subseteq Registry
    /\ weak \subseteq Ids \X Ids
    /\ missed \subseteq Ids \X Ids
    /\ edits \in 0..MaxEdits

AnyDraft == CHOOSE d \in Drafts : TRUE
Elder == CHOOSE d \in Overmerged : TRUE
Blank == [status |-> "none", from |-> AnyDraft, keys |-> {}, cap |-> "unknown"]
Idle == [pc |-> "idle", draft |-> AnyDraft, app |-> NoApp, fills |-> FALSE,
         similar |-> {}, seen |-> {}]

Made(d, cap) == [status |-> "draft", from |-> d, keys |-> {ProductOf[d]}, cap |-> cap]

ImportInit ==
    /\ app = [i \in Ids |-> IF i = 1 /\ Overmerged # {} THEN Made(Elder, "unknown") ELSE Blank]
    /\ source = [d \in Drafts |-> [app |-> IF d \in Overmerged THEN 1 ELSE NoApp,
                                   primary |-> d \in Overmerged /\ d = Elder]]
    /\ pair = [b \in Ids |-> [a \in Ids |-> "none"]]
    /\ importer = [j \in Importers |-> Idle]
    /\ planned = {}
    /\ splits = {}
    /\ weak = {}
    /\ missed = {}
    /\ edits = 0

Existing == {i \in Ids : app[i].status # "none"}
Free == Ids \ Existing
NewId == CHOOSE i \in Free : \A k \in Free : i <= k
\* The URLs of a card that share the field of this product: none or one.
SameField(i, product) == {k \in app[i].keys : FieldOf[k] = FieldOf[product]}

Goes(j, next) == importer' = [importer EXCEPT ![j] = next]

(***************************************************************************)
(* upsert_app_from_draft: a row that is known is refreshed.                *)
(***************************************************************************)
ImportLooksUp(j, d) ==
    /\ importer[j].pc = "idle"
    /\ Goes(j, [Idle EXCEPT !.pc = IF source[d].app = NoApp THEN "unknown" ELSE "refresh",
                            !.draft = d, !.app = source[d].app,
                            !.fills = source[d].app # NoApp
                                      /\ SameField(source[d].app, ProductOf[d]) = {}])
    /\ UNCHANGED <<app, source, pair, commands, missed, edits>>

\* Mutant of ImportRefreshes: the row is saved with every column as it was read.
ImportRefreshesRow(j) ==
    LET d == importer[j].draft
    IN /\ importer[j].pc = "refresh"
       /\ source' = [source EXCEPT ![d].app = importer[j].app]
       /\ Goes(j, Idle)
       /\ UNCHANGED <<app, pair, commands, missed, edits>>

\* The payload of the row, and the URL that the card it hung on lacked when it was
\* read, whatever the card holds there by now.
ImportRefreshes(j) ==
    LET p == importer[j]
        product == ProductOf[p.draft]
    IN /\ p.pc = "refresh"
       /\ app' = IF p.fills
                 THEN [app EXCEPT ![p.app].keys = (@ \ SameField(p.app, product)) \cup {product}]
                 ELSE app
       /\ Goes(j, Idle)
       /\ UNCHANGED <<source, pair, commands, missed, edits>>

(***************************************************************************)
(* A row that is not: the lookups, each a query of its own.                *)
(***************************************************************************)
Strong(d) ==
    IF d \in Registry THEN {} ELSE {i \in Existing : ProductOf[d] \in app[i].keys}

\* Mutant of Similar: cards that are published already are left out.
SimilarDrafts(d) ==
    IF d \in Registry THEN {}
    ELSE {i \in Existing \ Strong(d) : NameOf[app[i].from] = NameOf[d] /\ app[i].status = "draft"}

Similar(d) ==
    IF d \in Registry THEN {}
    ELSE {i \in Existing \ Strong(d) : NameOf[app[i].from] = NameOf[d]}

\* find_soft_duplicate: the first one of an unordered queryset.
ImportMatches(j) ==
    LET p == importer[j]
    IN /\ p.pc = "unknown"
       /\ IF Strong(p.draft) = {}
          THEN Goes(j, [p EXCEPT !.pc = "compare", !.seen = Existing])
          ELSE \E i \in Strong(p.draft) : Goes(j, [p EXCEPT !.pc = "match", !.app = i])
       /\ UNCHANGED <<app, source, pair, commands, missed, edits>>

\* Source.objects.create, or the unique constraint and a failed item.
ImportAttaches(j) ==
    LET p == importer[j]
    IN /\ p.pc = "match"
       /\ IF source[p.draft].app = NoApp
          THEN source' = [source EXCEPT ![p.draft] = [app |-> p.app, primary |-> FALSE]]
          ELSE UNCHANGED source
       /\ Goes(j, Idle)
       /\ UNCHANGED <<app, pair, commands, missed, edits>>

\* find_duplicate_candidates: the best of the weak matches, or whichever of equals,
\* up to the limit.
Best(similar) ==
    IF Cardinality(similar) <= MaxSimilar THEN {similar}
    ELSE {best \in SUBSET similar : Cardinality(best) = MaxSimilar}

\* A card that has come to match strongly in between is
\* passed over.
ImportCompares(j) ==
    LET p == importer[j]
    IN /\ p.pc = "compare"
       /\ \E best \in Best(Similar(p.draft)) :
             Goes(j, [p EXCEPT !.pc = "create", !.similar = best,
                               !.seen = @ \ Strong(p.draft)])
       /\ UNCHANGED <<app, source, pair, commands, missed, edits>>

\* _create_new_app, one transaction: the card, its relations, the row, the candidates.
ImportCreates(j) ==
    LET p == importer[j]
    IN /\ p.pc = "create"
       /\ IF source[p.draft].app # NoApp
          THEN UNCHANGED <<app, source, pair, missed>>
          ELSE /\ Free # {}
               /\ \E cap \in Verdicts : app' = [app EXCEPT ![NewId] = Made(p.draft, cap)]
               /\ source' = [source EXCEPT ![p.draft] = [app |-> NewId, primary |-> TRUE]]
               /\ pair' = [pair EXCEPT ![NewId] = [a \in Ids |-> IF a \in p.similar THEN "pending"
                                                                ELSE "none"]]
               /\ missed' = missed \cup {<<NewId, a>> : a \in Existing \ p.seen}
       /\ Goes(j, Idle)
       /\ UNCHANGED <<commands, edits>>

\* An exception (another import took the slug) costs the item; or the worker dies.
ImportFails(j) ==
    /\ importer[j].pc # "idle"
    /\ Goes(j, Idle)
    /\ UNCHANGED <<app, source, pair, commands, missed, edits>>

(***************************************************************************)
(* merge_cross_platform_duplicate_candidates.                              *)
(***************************************************************************)
Known(i) == app[i].cap # "unknown"
Conflict(b, a) == Known(b) /\ Known(a) /\ app[b].cap # app[a].cap

Pending == {p \in Ids \X Ids : pair[p[1]][p[2]] = "pending"}
Related(p) == {q \in Pending \ {p} : {q[1], q[2]} \cap {p[1], p[2]} # {}}

\* _plan_duplicate_merge without blockers.  (include_mcp is the operator's choice.)
Mergeable(p) ==
    /\ p \in Pending
    /\ app[p[1]].status = "draft" /\ app[p[2]].status = "draft"
    /\ Related(p) = {}
    /\ ~Conflict(p[1], p[2])

MergePlans ==
    /\ planned = {}
    /\ planned' = {p \in Pending : Mergeable(p)}
    /\ planned' # {}
    /\ UNCHANGED <<app, source, pair, importer, splits, weak, missed, edits>>

SourcesOf(i) == {d \in Drafts : source[d].app = i}
HasPrimary(i) == \E d \in SourcesOf(i) : source[d].primary

\* Mutant of Moved: the rows keep their flag.
MovedAsIs(from, to) ==
    [d \in Drafts |-> IF d \in SourcesOf(from) THEN [source[d] EXCEPT !.app = to] ELSE source[d]]

\* _move_sources.
Moved(from, to) ==
    [d \in Drafts |->
        IF d \in SourcesOf(from)
        THEN [app |-> to, primary |-> source[d].primary /\ ~HasPrimary(to)]
        ELSE source[d]]

\* _fill_empty_app_fields: a URL goes over where the other card has none.
Fills(to, from) == {k \in app[from].keys : SameField(to, k) = {}}

\* _merge_duplicate_apps and the rest of apply_duplicate_merge.
MergeInto(p, to, from) ==
    /\ app' = [app EXCEPT ![to].keys = @ \cup Fills(to, from),
                          ![to].cap = IF Known(to) THEN @ ELSE app[from].cap,
                          ![from].status = "hidden"]
    /\ source' = Moved(from, to)
    /\ pair' = [b \in Ids |-> [a \in Ids |->
                  IF <<b, a>> = p \/ (<<a, b>> = p /\ pair[b][a] = "pending") THEN "confirmed"
                  ELSE pair[b][a]]]

\* Mutant of MergeApplies: the plan is not made again under the lock.
MergeAppliesAsPlanned(p) ==
    /\ p \in planned
    /\ planned' = planned \ {p}
    /\ MergeInto(p, p[1], p[2]) \/ MergeInto(p, p[2], p[1])
    /\ UNCHANGED <<importer, splits, weak, missed, edits>>

\* apply_duplicate_merge; the score that chooses the target is not modelled.
MergeApplies(p) ==
    /\ p \in planned
    /\ planned' = planned \ {p}
    /\ IF Mergeable(p)
       THEN MergeInto(p, p[1], p[2]) \/ MergeInto(p, p[2], p[1])
       ELSE UNCHANGED <<app, source, pair>>
    /\ UNCHANGED <<importer, splits, weak, missed, edits>>

(***************************************************************************)
(* repair_mcp_registry_splits.                                             *)
(***************************************************************************)
Siblings(d) == SourcesOf(source[d].app) \cap Registry

\* Mutant of SplitPlans: rows of every source type.
SplitPlansAll ==
    /\ splits = {}
    /\ splits' = {d \in Drafts : source[d].app # NoApp /\ ~source[d].primary}
    /\ splits' # {}
    /\ UNCHANGED <<app, source, pair, importer, planned, weak, missed, edits>>

SplitPlans ==
    /\ splits = {}
    /\ splits' = {d \in Registry : /\ source[d].app # NoApp
                                   /\ ~source[d].primary
                                   /\ Siblings(d) # {d}}
    /\ splits' # {}
    /\ UNCHANGED <<app, source, pair, importer, planned, weak, missed, edits>>

Splittable(d) == ~source[d].primary /\ Siblings(d) # {d}

\* _split_source.
SplitApplies(d) ==
    /\ d \in splits
    /\ splits' = splits \ {d}
    /\ IF Splittable(d)
       THEN /\ Free # {}
            /\ \E cap \in Verdicts : app' = [app EXCEPT ![NewId] = Made(d, cap)]
            /\ source' = [source EXCEPT ![d] = [app |-> NewId, primary |-> TRUE]]
       ELSE UNCHANGED <<app, source>>
    /\ UNCHANGED <<pair, importer, planned, weak, missed, edits>>

(***************************************************************************)
(* dismiss_directory_duplicate_candidates, and editors.                    *)
(***************************************************************************)
\* Candidates of old imports may share no more than the host of a directory.
DismissPlans ==
    /\ weak = {}
    /\ weak' \in SUBSET Pending
    /\ weak' # {}
    /\ UNCHANGED <<app, source, pair, importer, planned, splits, missed, edits>>

\* Mutant of DismissApplies: by primary key only.
DismissAppliesAll ==
    /\ weak # {}
    /\ weak' = {}
    /\ pair' = [b \in Ids |-> [a \in Ids |-> IF <<b, a>> \in weak THEN "dismissed" ELSE pair[b][a]]]
    /\ UNCHANGED <<app, source, importer, planned, splits, missed, edits>>

DismissApplies ==
    /\ weak # {}
    /\ weak' = {}
    /\ pair' = [b \in Ids |-> [a \in Ids |-> IF <<b, a>> \in weak \cap Pending THEN "dismissed"
                                             ELSE pair[b][a]]]
    /\ UNCHANGED <<app, source, importer, planned, splits, missed, edits>>

\* The bulk actions of DuplicateCandidateAdmin, also on what was decided before.
EditorDecides(b, a, status) ==
    /\ pair[b][a] \notin {"none", status}
    /\ pair' = [pair EXCEPT ![b][a] = status]
    /\ UNCHANGED <<app, source, importer, commands, missed, edits>>

EditorEdits(i) ==
    /\ app[i].status = "draft"
    /\ edits < MaxEdits
    /\ edits' = edits + 1
    /\ \E status \in {"draft", "published"}, cap \in Verdicts \ {"unknown"} :
          app' = [app EXCEPT ![i].status = status, ![i].cap = cap]
    /\ UNCHANGED <<source, pair, importer, commands, missed>>

ImportStep(j) ==
    \/ \E d \in Drafts : ImportLooksUp(j, d)
    \/ ImportRefreshes(j)
    \/ ImportMatches(j)
    \/ ImportAttaches(j)
    \/ ImportCompares(j)
    \/ ImportCreates(j)
    \/ ImportFails(j)

CommandStep ==
    \/ MergePlans
    \/ \E p \in planned : MergeApplies(p)
    \/ SplitPlans
    \/ \E d \in splits : SplitApplies(d)
    \/ DismissPlans
    \/ DismissApplies

EditorStep ==
    \/ \E b, a \in Ids, status \in {"confirmed", "dismissed"} : EditorDecides(b, a, status)
    \/ \E i \in Ids : EditorEdits(i)

ImportNext ==
    \/ \E j \in Importers : ImportStep(j)
    \/ CommandStep
    \/ EditorStep

ImportSpec == ImportInit /\ [][ImportNext]_importVars

(***************************************************************************)
(* Properties.                                                             *)
(***************************************************************************)
\* A card has one primary source, whatever imports, merges and splits do to its rows: a
\* card that was merged away has none, every other one has one and only one (so that a
\* split never takes the last listing of a card).
OnePrimary ==
    \A i \in Existing :
        /\ HasPrimary(i) <=> app[i].status # "hidden"
        /\ \A d, e \in SourcesOf(i) : source[d].primary /\ source[e].primary => d = e

\* A duplicate is noticed: of two cards with one product or one name the newer one, if a
\* directory listed it, was compared with the older one, unless that one was created,
\* or came to match the new listing strongly, while the import was at its lookups.  Of
\* the cards with its name it is a candidate of each, or of as many as the limit allows.
DuplicatesAreNoticed ==
    \A b, a \in Existing :
        a < b /\ app[b].from \notin Registry /\ <<b, a>> \notin missed =>
            /\ ProductOf[app[b].from] # ProductOf[app[a].from]
            /\ NameOf[app[b].from] = NameOf[app[a].from] =>
                  \/ pair[b][a] # "none"
                  \/ Cardinality({c \in Ids : pair[b][c] # "none"}) = MaxSimilar

\* A listing changes hands by a merge or a split only: it follows the card that was
\* merged away, or founds a card of its own.  (A refresh that read the row before does
\* not take it back.)
ListingsStay ==
    [][\A d \in Drafts :
          source[d].app # NoApp /\ source'[d].app # source[d].app =>
              \/ app[source[d].app].status = "draft" /\ app'[source[d].app].status = "hidden"
              \/ app[source'[d].app].status = "none" /\ source'[d].primary]_importVars

\* What a merge hides survives on the other card wherever that one had nothing of its
\* own, which it keeps; and what was published, or was decided about, stays.
MergeKeepsFacts ==
    [][\A from \in Ids :
          app[from].status # "hidden" /\ app'[from].status = "hidden" =>
              /\ app[from].status = "draft"
              /\ \E to \in Ids \ {from} :
                    /\ app'[to].status = "draft"
                    /\ \A d \in SourcesOf(from) : source'[d].app = to
                    /\ app[to].keys \subseteq app'[to].keys
                    /\ \A k \in app[from].keys :
                          k \in app'[to].keys \/ SameField(to, k) # {}
                    /\ Known(from) => app'[to].cap = app[from].cap
                    /\ Known(to) => app'[to].cap = app[to].cap]_importVars

\* A decision about a pair of cards is overruled by an editor only, and not by a command
\* that planned before it.
DecisionsStay ==
    [][\A b, a \in Ids :
          pair[b][a] \in {"confirmed", "dismissed"} =>
              pair'[b][a] = pair[b][a] \/ EditorStep]_importVars
=============================================================================
