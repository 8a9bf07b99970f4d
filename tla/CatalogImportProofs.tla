------------------------ MODULE CatalogImportProofs ------------------------
(***************************************************************************)
(* Proofs about the catalog import, merges and splits, for any listings,   *)
(* products, names, number of imports and bound on the cards.              *)
(***************************************************************************)
EXTENDS CatalogImport, TLAPS

Status == {"none", "draft", "published", "hidden"}
PairStatus == {"none", "pending", "confirmed", "dismissed"}

-----------------------------------------------------------------------------
(***************************************************************************)
(* Types.                                                                  *)
(***************************************************************************)
\* A write of one entry of a function.
LEMMA EntryTyped ==
    ASSUME NEW D, NEW V, NEW f \in [D -> V], NEW d \in D, NEW v \in V
    PROVE  [f EXCEPT ![d] = v] \in [D -> V]
    OBVIOUS

\* The constants of a card, a new one and an idle import are what they are called.
LEMMA MadeTyped ==
    /\ Blank \in App /\ Idle \in Importer
    /\ \A d \in Drafts, cap \in Verdicts : Made(d, cap) \in App
<1>1. AnyDraft \in Drafts
    BY ImportAssumption DEF AnyDraft
<1>2. \A d \in Drafts : ProductOf[d] \in Products
    BY DEF Products
<1> QED
    BY <1>1, <1>2 DEF Blank, Idle, Made, App, Importer, Verdicts

\* The types of what an import knows.
LEMMA ImporterTypes ==
    ASSUME ImportTypeOK, NEW j \in Importers
    PROVE  /\ importer[j] \in Importer
           /\ importer[j].draft \in Drafts /\ importer[j].app \in {NoApp} \cup Ids
           /\ importer[j].similar \in SUBSET Ids /\ importer[j].seen \in SUBSET Ids
           /\ importer[j].fills \in BOOLEAN
    BY DEF ImportTypeOK, Importer

\* The types of the tables, entry by entry.
LEMMA TableTypes ==
    ASSUME ImportTypeOK
    PROVE  /\ \A i \in Ids : /\ app[i] \in App /\ app[i].status \in Status
                             /\ app[i].from \in Drafts /\ app[i].keys \in SUBSET Products
                             /\ app[i].cap \in Verdicts
           /\ \A d \in Drafts : /\ source[d] \in Source
                                /\ source[d].app \in {NoApp} \cup Ids
                                /\ source[d].primary \in BOOLEAN
           /\ \A b, a \in Ids : pair[b][a] \in PairStatus
           /\ Existing \in SUBSET Ids /\ Free \in SUBSET Ids
           /\ Pending \in SUBSET (Ids \X Ids)
    BY DEF ImportTypeOK, App, Source, Status, PairStatus, Existing, Free, Pending

\* Cards are numbered in the order of their creation: all keys up to the newest are taken.
CardsAreFirst == \E n \in 0..MaxApps : Existing = 1..n

\* The next key comes after those of all cards.
LEMMA NewIdIsNext ==
    ASSUME CardsAreFirst, Free # {}
    PROVE  /\ NewId \in Free
           /\ \A i \in Existing : i < NewId
           /\ \E n \in 0..MaxApps : Existing \cup {NewId} = 1..n
<1>1. PICK n \in 0..MaxApps : Existing = 1..n
    BY DEF CardsAreFirst
<1>2. MaxApps \in Nat
    BY ImportAssumption
<1>3. Free = (n + 1)..MaxApps
    BY <1>1, <1>2 DEF Free, Ids
<1>4. n + 1 \in Free /\ \A k \in Free : n + 1 <= k
    BY <1>1, <1>2, <1>3
<1>5. NewId \in Free /\ \A k \in Free : NewId <= k
    BY <1>4 DEF NewId
<1>6. NewId = n + 1
    BY <1>2, <1>3, <1>4, <1>5
<1>7. \A i \in Existing : i < NewId
    BY <1>1, <1>6
<1>8. Existing \cup {NewId} = 1..(n + 1)
    BY <1>1, <1>6
<1>9. n + 1 \in 0..MaxApps
    BY <1>2, <1>3, <1>4
<1> QED
    BY <1>5, <1>4, <1>7, <1>8, <1>9

\* The initial state is of the declared types.
LEMMA ImportInitTyped == ImportInit => ImportTypeOK /\ CardsAreFirst
<1> SUFFICES ASSUME ImportInit PROVE ImportTypeOK /\ CardsAreFirst
    OBVIOUS
<1>1. Overmerged # {} => Elder \in Overmerged /\ Elder \in Drafts
    BY ImportAssumption DEF Elder
<1>2. 1 \in Ids /\ MaxApps \in Nat /\ MaxApps >= 1
    BY ImportAssumption DEF Ids
<1>3. app \in [Ids -> App]
    <2>1. \A i \in Ids :
             (IF i = 1 /\ Overmerged # {} THEN Made(Elder, "unknown") ELSE Blank) \in App
        BY <1>1, MadeTyped DEF Verdicts
    <2> QED
        BY <2>1 DEF ImportInit
<1>4. source \in [Drafts -> Source]
    BY <1>2 DEF ImportInit, Source
<1>5. importer \in [Importers -> Importer]
    BY MadeTyped DEF ImportInit
<1>6. pair \in [Ids -> [Ids -> PairStatus]]
    BY DEF ImportInit, PairStatus
<1>7. ImportTypeOK
    BY <1>3, <1>4, <1>5, <1>6, ImportAssumption DEF ImportInit, ImportTypeOK, PairStatus
<1>8. CardsAreFirst
    <2>1. Made(Elder, "unknown").status = "draft" /\ Blank.status = "none"
        BY DEF Made, Blank
    <2>2. Existing = IF Overmerged # {} THEN {1} ELSE {}
        BY <1>2, <2>1 DEF Existing, ImportInit
    <2> DEFINE n == IF Overmerged # {} THEN 1 ELSE 0
    <2>3. n \in 0..MaxApps
        BY <1>2
    <2>4. Existing = 1..n
        <3>1. CASE Overmerged # {}
            BY <2>2, <3>1
        <3>2. CASE Overmerged = {}
            BY <2>2, <3>2
        <3> QED
            BY <3>1, <3>2
    <2> QED
        BY <2>3, <2>4 DEF CardsAreFirst
<1> QED
    BY <1>7, <1>8

\* A card with the product in the place of what it held in the field.
Filled(i, product) == [app[i] EXCEPT !.keys = (app[i].keys \ SameField(i, product)) \cup {product}]

\* What a refresh writes, card by card.
LEMMA RefreshWrites ==
    ASSUME ImportTypeOK, NEW j \in Importers, ImportRefreshes(j)
    PROVE  app' = [i \in Ids |-> IF importer[j].fills /\ i = importer[j].app
                                 THEN Filled(i, ProductOf[importer[j].draft]) ELSE app[i]]
<1> DEFINE p == importer[j]
           product == ProductOf[p.draft]
<1>1. app' = IF p.fills
             THEN [app EXCEPT ![p.app].keys = (app[p.app].keys \ SameField(p.app, product)) \cup {product}]
             ELSE app
    BY DEF ImportRefreshes
<1>2. app \in [Ids -> App] /\ p.fills \in BOOLEAN
    BY ImporterTypes DEF ImportTypeOK
<1> HIDE DEF p, product
<1> QED
    BY <1>1, <1>2 DEF Filled, p, product

\* Every query and every statement of an import keeps the types.
LEMMA ImportStepTyped ==
    ASSUME ImportTypeOK, CardsAreFirst, NEW j \in Importers, ImportStep(j)
    PROVE  ImportTypeOK'
<1> DEFINE p == importer[j]
<1>1. /\ p \in Importer
      /\ p.draft \in Drafts /\ p.app \in {NoApp} \cup Ids
      /\ p.similar \in SUBSET Ids /\ p.seen \in SUBSET Ids
    BY ImporterTypes
<1>2. Existing \in SUBSET Ids /\ Free \in SUBSET Ids
    BY TableTypes
<1>3. ASSUME NEW next \in Importer, Goes(j, next) PROVE importer' \in [Importers -> Importer]
    BY <1>3, EntryTyped DEF Goes, ImportTypeOK
<1>4. Idle \in Importer
    BY MadeTyped
<1>5. /\ \A d \in Drafts : Strong(d) \in SUBSET Ids
      /\ \A d \in Drafts : \A best \in Best(Similar(d)) : best \in SUBSET Ids
    BY <1>2 DEF Strong, Similar, Best
<1> HIDE DEF p
<1> USE DEF commands
<1>6. ASSUME NEW d \in Drafts, ImportLooksUp(j, d) PROVE ImportTypeOK'
    <2> DEFINE pc == IF source[d].app = NoApp THEN "unknown" ELSE "refresh"
           fills == source[d].app # NoApp /\ SameField(source[d].app, ProductOf[d]) = {}
    <2>1. pc \in {"unknown", "refresh"} /\ source[d].app \in {NoApp} \cup Ids /\ fills \in BOOLEAN
        BY TableTypes
    <2>2. Goes(j, [Idle EXCEPT !.pc = pc, !.draft = d, !.app = source[d].app, !.fills = fills])
        BY <1>6 DEF ImportLooksUp
    <2> HIDE DEF pc, fills
    <2>3. [Idle EXCEPT !.pc = pc, !.draft = d, !.app = source[d].app, !.fills = fills] \in Importer
        BY <1>4, <2>1 DEF Importer
    <2> QED
        BY <1>3, <1>6, <2>2, <2>3 DEF ImportLooksUp, ImportTypeOK
<1>7. CASE ImportRefreshes(j)
    <2>1. ProductOf[p.draft] \in Products
        BY <1>1 DEF Products
    <2>2. app' = [i \in Ids |-> IF p.fills /\ i = p.app THEN Filled(i, ProductOf[p.draft]) ELSE app[i]]
        BY <1>7, RefreshWrites DEF p
    <2>3. ASSUME NEW i \in Ids PROVE Filled(i, ProductOf[p.draft]) \in App
        BY <2>1, TableTypes DEF App, Filled
    <2>4. app' \in [Ids -> App]
        BY <2>2, <2>3, TableTypes
    <2> QED
        BY <1>3, <1>4, <1>7, <2>4 DEF ImportRefreshes, ImportTypeOK
<1>8. CASE ImportMatches(j)
    <2>1. [p EXCEPT !.pc = "compare", !.seen = Existing] \in Importer
        BY <1>1, <1>2 DEF Importer
    <2>2. ASSUME NEW i \in Strong(p.draft) PROVE [p EXCEPT !.pc = "match", !.app = i] \in Importer
        BY <1>1, <1>5 DEF Importer
    <2>3. importer' \in [Importers -> Importer]
        <3>1. CASE Strong(p.draft) = {}
            BY <1>3, <1>8, <2>1, <3>1 DEF ImportMatches, p
        <3>2. CASE Strong(p.draft) # {}
            BY <1>3, <1>8, <2>2, <3>2 DEF ImportMatches, p
        <3> QED
            BY <3>1, <3>2
    <2> QED
        BY <1>8, <2>3 DEF ImportMatches, ImportTypeOK
<1>9. CASE ImportAttaches(j)
    <2>1. [app |-> p.app, primary |-> FALSE] \in Source
        BY <1>1 DEF Source
    <2>2. source' \in [Drafts -> Source]
        <3>1. CASE source[p.draft].app = NoApp
            BY <1>1, <1>9, <2>1, <3>1, EntryTyped DEF ImportAttaches, ImportTypeOK, p
        <3>2. CASE source[p.draft].app # NoApp
            BY <1>9, <3>2 DEF ImportAttaches, ImportTypeOK, p
        <3> QED
            BY <3>1, <3>2
    <2> QED
        BY <1>3, <1>4, <1>9, <2>2 DEF ImportAttaches, ImportTypeOK
<1>10. CASE ImportCompares(j)
    <2>1. PICK best \in Best(Similar(p.draft)) :
              Goes(j, [p EXCEPT !.pc = "create", !.similar = best, !.seen = @ \ Strong(p.draft)])
        BY <1>10 DEF ImportCompares, p
    <2>2. [p EXCEPT !.pc = "create", !.similar = best, !.seen = @ \ Strong(p.draft)] \in Importer
        BY <1>1, <1>5 DEF Importer
    <2>3. importer' \in [Importers -> Importer]
        BY <1>3, <2>1, <2>2
    <2> QED
        BY <1>10, <2>3 DEF ImportCompares, ImportTypeOK
<1>11. CASE ImportCreates(j)
    <2>1. CASE source[p.draft].app # NoApp
        BY <1>3, <1>4, <1>11, <2>1 DEF ImportCreates, ImportTypeOK, p
    <2>2. CASE source[p.draft].app = NoApp
        <3>1. NewId \in Ids /\ Free # {}
            BY <1>2, <1>11, <2>2, NewIdIsNext DEF ImportCreates, p
        <3>2. app' \in [Ids -> App]
            BY <1>1, <1>11, <2>2, <3>1, MadeTyped, EntryTyped DEF ImportCreates, ImportTypeOK, p
        <3>3. [app |-> NewId, primary |-> TRUE] \in Source
            BY <3>1 DEF Source
        <3>4. source' \in [Drafts -> Source]
            BY <1>1, <1>11, <2>2, <3>3, EntryTyped DEF ImportCreates, ImportTypeOK, p
        <3>5. [a \in Ids |-> IF a \in p.similar THEN "pending" ELSE "none"] \in [Ids -> PairStatus]
            BY DEF PairStatus
        <3>6. pair' \in [Ids -> [Ids -> PairStatus]]
            BY <1>11, <2>2, <3>1, <3>5, EntryTyped DEF ImportCreates, ImportTypeOK, PairStatus, p
        <3>7. missed' \subseteq Ids \X Ids
            BY <1>2, <1>11, <2>2, <3>1 DEF ImportCreates, ImportTypeOK, p
        <3> QED
            BY <1>3, <1>4, <1>11, <3>2, <3>4, <3>6, <3>7
               DEF ImportCreates, ImportTypeOK, PairStatus
    <2> QED
        BY <2>1, <2>2
<1>12. CASE ImportFails(j)
    BY <1>3, <1>4, <1>12 DEF ImportFails, ImportTypeOK
<1> QED
    BY <1>6, <1>7, <1>8, <1>9, <1>10, <1>11, <1>12 DEF ImportStep

\* A merge writes cards, rows and candidates of the declared types.
LEMMA MergeTyped ==
    ASSUME ImportTypeOK, NEW p \in Ids \X Ids, NEW to \in Ids, NEW from \in Ids, MergeInto(p, to, from)
    PROVE  /\ app' \in [Ids -> App] /\ source' \in [Drafts -> Source]
           /\ pair' \in [Ids -> [Ids -> PairStatus]]
<1>1. app' \in [Ids -> App]
    <2> DEFINE cap == IF Known(to) THEN app[to].cap ELSE app[from].cap
               grown == [app[to] EXCEPT !.keys = @ \cup Fills(to, from), !.cap = cap]
               added == [app EXCEPT ![to] = grown]
    <2>1. cap \in Verdicts /\ app[to] \in App /\ Fills(to, from) \subseteq Products
        BY TableTypes DEF Fills
    <2> HIDE DEF cap
    <2>2. grown \in App
        BY <2>1 DEF App
    <2>3. app \in [Ids -> App]
        BY DEF ImportTypeOK
    <2>4. added \in [Ids -> App] /\ added[to] = grown /\ \A i \in Ids \ {to} : added[i] = app[i]
        BY <2>2, <2>3
    <2>5. app' = [added EXCEPT ![from].status = "hidden"]
        BY <2>3, <2>1 DEF MergeInto, cap, grown, App
    <2> HIDE DEF added
    <2>6. [added[from] EXCEPT !.status = "hidden"] \in App
        BY <2>4 DEF App
    <2> QED
        BY <2>4, <2>5, <2>6
<1>2. source' \in [Drafts -> Source]
    <2>1. ASSUME NEW d \in Drafts
          PROVE  (IF d \in SourcesOf(from)
                  THEN [app |-> to, primary |-> source[d].primary /\ ~HasPrimary(to)]
                  ELSE source[d]) \in Source
        <3>1. (source[d].primary /\ ~HasPrimary(to)) \in BOOLEAN /\ source[d] \in Source
            BY TableTypes
        <3> QED
            BY <3>1 DEF Source
    <2> QED
        BY <2>1 DEF MergeInto, Moved
<1>3. pair' \in [Ids -> [Ids -> PairStatus]]
    BY TableTypes DEF MergeInto, PairStatus
<1> QED
    BY <1>1, <1>2, <1>3

\* Every step of a command keeps the types.
LEMMA CommandStepTyped ==
    ASSUME ImportTypeOK, CardsAreFirst, CommandStep
    PROVE  ImportTypeOK'
<1>1. CASE MergePlans
    BY <1>1, TableTypes DEF MergePlans, ImportTypeOK
<1>2. ASSUME NEW p \in planned, MergeApplies(p) PROVE ImportTypeOK'
    <2>1. p \in Ids \X Ids /\ p[1] \in Ids /\ p[2] \in Ids
        BY DEF ImportTypeOK
    <2>2. CASE Mergeable(p)
        <3>1. PICK to \in Ids, from \in Ids : MergeInto(p, to, from)
            BY <1>2, <2>1, <2>2 DEF MergeApplies
        <3>2. /\ app' \in [Ids -> App] /\ source' \in [Drafts -> Source]
              /\ pair' \in [Ids -> [Ids -> PairStatus]]
            BY <2>1, <3>1, MergeTyped
        <3> QED
            BY <1>2, <3>2 DEF MergeApplies, ImportTypeOK, PairStatus
    <2>3. CASE ~Mergeable(p)
        BY <1>2, <2>3 DEF MergeApplies, ImportTypeOK
    <2> QED
        BY <2>2, <2>3
<1>3. CASE SplitPlans
    BY <1>3 DEF SplitPlans, ImportTypeOK
<1>4. ASSUME NEW d \in splits, SplitApplies(d) PROVE ImportTypeOK'
    <2>1. d \in Drafts /\ d \in Registry
        BY ImportAssumption DEF ImportTypeOK
    <2>2. CASE Splittable(d)
        <3>1. NewId \in Ids
            BY <1>4, <2>2, NewIdIsNext, TableTypes DEF SplitApplies
        <3>2. PICK cap \in Verdicts : app' = [app EXCEPT ![NewId] = Made(d, cap)]
            BY <1>4, <2>2 DEF SplitApplies
        <3>3. app' \in [Ids -> App]
            BY <2>1, <3>1, <3>2, MadeTyped, EntryTyped DEF ImportTypeOK
        <3>4. [app |-> NewId, primary |-> TRUE] \in Source
            BY <3>1 DEF Source
        <3>5. source' \in [Drafts -> Source]
            BY <1>4, <2>1, <2>2, <3>4, EntryTyped DEF SplitApplies, ImportTypeOK
        <3> QED
            BY <1>4, <3>3, <3>5 DEF SplitApplies, ImportTypeOK
    <2>3. CASE ~Splittable(d)
        BY <1>4, <2>3 DEF SplitApplies, ImportTypeOK
    <2> QED
        BY <2>2, <2>3
<1>5. CASE DismissPlans
    BY <1>5, TableTypes DEF DismissPlans, ImportTypeOK
<1>6. CASE DismissApplies
    <2>1. pair' \in [Ids -> [Ids -> PairStatus]]
        BY <1>6, TableTypes DEF DismissApplies, PairStatus
    <2> QED
        BY <1>6, <2>1 DEF DismissApplies, ImportTypeOK, PairStatus
<1> QED
    BY <1>1, <1>2, <1>3, <1>4, <1>5, <1>6 DEF CommandStep

\* An editor keeps the types.
LEMMA EditorStepTyped ==
    ASSUME ImportTypeOK, EditorStep
    PROVE  ImportTypeOK'
<1> USE DEF commands
<1>1. ASSUME NEW b \in Ids, NEW a \in Ids, NEW status \in {"confirmed", "dismissed"},
             EditorDecides(b, a, status)
      PROVE  ImportTypeOK'
    <2>1. pair' \in [Ids -> [Ids -> PairStatus]]
        BY <1>1 DEF EditorDecides, ImportTypeOK, PairStatus
    <2> QED
        BY <1>1, <2>1 DEF EditorDecides, ImportTypeOK, PairStatus
<1>2. ASSUME NEW i \in Ids, EditorEdits(i) PROVE ImportTypeOK'
    <2>1. PICK status \in {"draft", "published"}, cap \in Verdicts \ {"unknown"} :
              app' = [app EXCEPT ![i].status = status, ![i].cap = cap]
        BY <1>2 DEF EditorEdits
    <2>2. [app[i] EXCEPT !.status = status, !.cap = cap] \in App
        BY TableTypes DEF App
    <2>3. app' = [app EXCEPT ![i] = [app[i] EXCEPT !.status = status, !.cap = cap]]
        BY <2>1 DEF ImportTypeOK
    <2>4. app' \in [Ids -> App]
        BY <2>2, <2>3, EntryTyped DEF ImportTypeOK
    <2> QED
        BY <1>2, <2>4, ImportAssumption DEF EditorEdits, ImportTypeOK
<1> QED
    BY <1>1, <1>2 DEF EditorStep

-----------------------------------------------------------------------------
(***************************************************************************)
(* What a step does to the cards: it leaves them what they were made from, *)
(* and their keys unless it is a refresh, or makes the next one.           *)
(***************************************************************************)
KeysGrow == \A i \in Ids : app[i].keys \subseteq app'[i].keys

CardsKept ==
    /\ Existing' = Existing
    /\ \A i \in Ids : app'[i].from = app[i].from
    /\ KeysGrow \/ \E j \in Importers : ImportRefreshes(j)

CardMade(d) ==
    /\ Free # {}
    /\ Existing' = Existing \cup {NewId}
    /\ \A i \in Ids \ {NewId} : app'[i] = app[i]
    /\ app'[NewId].from = d /\ app'[NewId].keys = {ProductOf[d]} /\ app'[NewId].status = "draft"

\* A candidate relates a card and an older one.
PairsAreCards ==
    \A b, a \in Ids : pair[b][a] # "none" => b \in Existing /\ a \in Existing /\ a < b

\* What a merge may take up is a pair of two cards.
LEMMA MergeableCards ==
    ASSUME ImportTypeOK, PairsAreCards, NEW p \in planned, Mergeable(p)
    PROVE  p \in Ids \X Ids /\ p[1] \in Ids /\ p[2] \in Ids /\ p[2] < p[1] /\ p[1] # p[2]
<1>1. p \in Ids \X Ids /\ pair[p[1]][p[2]] = "pending"
    BY DEF Mergeable, Pending
<1>2. p[1] \in Ids /\ p[2] \in Ids
    BY <1>1
<1>3. p[2] < p[1]
    BY <1>1, <1>2 DEF PairsAreCards
<1>4. p[1] # p[2]
    BY <1>2, <1>3, ImportAssumption DEF Ids
<1> QED
    BY <1>1, <1>2, <1>3, <1>4

\* A step that only leaves cards alone.
LEMMA SameCards ==
    ASSUME ImportTypeOK, app' = app
    PROVE  CardsKept
    BY TableTypes DEF CardsKept, KeysGrow, Existing

\* A card is made with the next key.
LEMMA WriteMakesCard ==
    ASSUME ImportTypeOK, CardsAreFirst, Free # {}, NEW d \in Drafts, NEW cap \in Verdicts,
           app' = [app EXCEPT ![NewId] = Made(d, cap)]
    PROVE  CardMade(d)
<1>1. NewId \in Ids
    BY NewIdIsNext, TableTypes
<1>2. app \in [Ids -> App]
    BY DEF ImportTypeOK
<1>3. app'[NewId] = Made(d, cap) /\ \A i \in Ids \ {NewId} : app'[i] = app[i]
    BY <1>1, <1>2
<1>4. /\ Made(d, cap).from = d /\ Made(d, cap).keys = {ProductOf[d]}
      /\ Made(d, cap).status = "draft"
    BY DEF Made
<1>5. Existing' = Existing \cup {NewId}
    BY <1>1, <1>3, <1>4 DEF Existing
<1> QED
    BY <1>3, <1>4, <1>5 DEF CardMade

\* The import's creation of a card, and the split's.
Created(j) == ImportCreates(j) /\ source[importer[j].draft].app = NoApp
SplitOff(d) == SplitApplies(d) /\ Splittable(d)

\* A merge keeps the cards, the empty fields of its target are filled, its source is
\* hidden.
LEMMA MergeCards ==
    ASSUME ImportTypeOK, NEW p \in Ids \X Ids, NEW to \in Ids, NEW from \in Ids \ {to},
           app[from].status = "draft", app[to].status = "draft", MergeInto(p, to, from)
    PROVE  /\ CardsKept
           /\ app'[from].status = "hidden" /\ app'[to].status = "draft"
           /\ \A i \in Ids \ {from, to} : app'[i] = app[i]
           /\ app'[to].keys = app[to].keys \cup Fills(to, from)
           /\ app'[to].cap = IF Known(to) THEN app[to].cap ELSE app[from].cap
<1>1. app \in [Ids -> App] /\ app[to] \in App /\ app[from] \in App
    BY TableTypes DEF ImportTypeOK
<1>2. /\ app'[from] = [app[from] EXCEPT !.status = "hidden"]
      /\ app'[to] = [app[to] EXCEPT !.keys = @ \cup Fills(to, from),
                                    !.cap = IF Known(to) THEN @ ELSE app[from].cap]
      /\ \A i \in Ids \ {from, to} : app'[i] = app[i]
    BY <1>1 DEF MergeInto
<1>3. /\ app'[from].status = "hidden" /\ app'[from].from = app[from].from
      /\ app'[from].keys = app[from].keys
    BY <1>1, <1>2 DEF App
<1>4. /\ app'[to].status = "draft" /\ app'[to].from = app[to].from
      /\ app'[to].keys = app[to].keys \cup Fills(to, from)
      /\ app'[to].cap = IF Known(to) THEN app[to].cap ELSE app[from].cap
    BY <1>1, <1>2 DEF App
<1>5. (\A i \in Ids : app'[i].from = app[i].from) /\ KeysGrow
    BY <1>2, <1>3, <1>4 DEF KeysGrow
<1>6. \A i \in Ids : app'[i].status # "none" <=> app[i].status # "none"
    BY <1>2, <1>3, <1>4
<1>7. Existing' = Existing
    BY <1>6 DEF Existing
<1> QED
    BY <1>2, <1>3, <1>4, <1>5, <1>7 DEF CardsKept

\* Every step keeps the cards or makes the next one.
LEMMA CardsOfStep ==
    ASSUME ImportTypeOK, CardsAreFirst, PairsAreCards, [ImportNext]_importVars
    PROVE  \/ CardsKept
           \/ \E j \in Importers : Created(j) /\ CardMade(importer[j].draft)
           \/ \E d \in splits : SplitOff(d) /\ CardMade(d)
<1>1. ASSUME NEW j \in Importers, ImportStep(j)
      PROVE  CardsKept \/ (Created(j) /\ CardMade(importer[j].draft))
    <2>1. CASE ImportRefreshes(j)
        <3>1. \A i \in Ids : app'[i].from = app[i].from /\ app'[i].status = app[i].status
            BY <2>1, RefreshWrites, TableTypes DEF Filled, App
        <3> QED
            BY <2>1, <3>1 DEF CardsKept, Existing
    <2>2. CASE ImportCreates(j)
        <3>1. CASE source[importer[j].draft].app # NoApp
            BY <2>2, <3>1, SameCards DEF ImportCreates
        <3>2. CASE source[importer[j].draft].app = NoApp
            BY <2>2, <3>2, WriteMakesCard, ImporterTypes DEF ImportCreates, Created
        <3> QED
            BY <3>1, <3>2
    <2>3. CASE (\E d \in Drafts : ImportLooksUp(j, d)) \/ ImportMatches(j) \/ ImportAttaches(j)
               \/ ImportCompares(j) \/ ImportFails(j)
        BY <2>3, SameCards
           DEF ImportLooksUp, ImportMatches, ImportAttaches, ImportCompares, ImportFails
    <2> QED
        BY <1>1, <2>1, <2>2, <2>3 DEF ImportStep
<1>2. ASSUME NEW p \in planned, MergeApplies(p) PROVE CardsKept
    <2>1. CASE Mergeable(p)
        <3>1. p \in Ids \X Ids /\ p[1] \in Ids /\ p[2] \in Ids /\ p[1] # p[2]
            BY <2>1, MergeableCards
        <3> QED
            BY <1>2, <2>1, <3>1, MergeCards DEF MergeApplies, Mergeable
    <2>2. CASE ~Mergeable(p)
        BY <1>2, <2>2, SameCards DEF MergeApplies
    <2> QED
        BY <2>1, <2>2
<1>3. ASSUME NEW d \in splits, SplitApplies(d) PROVE CardsKept \/ (SplitOff(d) /\ CardMade(d))
    <2>1. d \in Drafts
        BY ImportAssumption DEF ImportTypeOK
    <2>2. CASE Splittable(d)
        BY <1>3, <2>1, <2>2, WriteMakesCard DEF SplitApplies, SplitOff
    <2>3. CASE ~Splittable(d)
        BY <1>3, <2>3, SameCards DEF SplitApplies
    <2> QED
        BY <2>2, <2>3
<1>4. ASSUME NEW i \in Ids, EditorEdits(i) PROVE CardsKept
    <2>1. PICK status \in {"draft", "published"}, cap \in Verdicts \ {"unknown"} :
              app' = [app EXCEPT ![i].status = status, ![i].cap = cap]
        BY <1>4 DEF EditorEdits
    <2>2. ASSUME NEW k \in Ids
          PROVE  /\ app'[k].from = app[k].from /\ app'[k].keys = app[k].keys
                 /\ app'[k].status # "none" <=> app[k].status # "none"
        BY <1>4, <2>1, TableTypes DEF EditorEdits, App, ImportTypeOK
    <2> QED
        BY <2>2 DEF CardsKept, KeysGrow, Existing
<1>5. CASE MergePlans \/ SplitPlans \/ DismissPlans \/ DismissApplies
    BY <1>5, SameCards DEF MergePlans, SplitPlans, DismissPlans, DismissApplies
<1>6. CASE \E b, a \in Ids, status \in {"confirmed", "dismissed"} : EditorDecides(b, a, status)
    BY <1>6, SameCards DEF EditorDecides
<1>7. CASE UNCHANGED importVars
    BY <1>7, SameCards DEF importVars
<1> QED
    BY <1>1, <1>2, <1>3, <1>4, <1>5, <1>6, <1>7 DEF ImportNext, CommandStep, EditorStep

\* No step forgets a card, and what a card was made from never changes.
LEMMA CardsStay ==
    ASSUME ImportTypeOK, CardsAreFirst, PairsAreCards, [ImportNext]_importVars
    PROVE  /\ Existing \subseteq Existing'
           /\ \A i \in Existing : app'[i].from = app[i].from
           /\ CardsAreFirst'
<1>1. CASE CardsKept
    BY <1>1, TableTypes DEF CardsKept, CardsAreFirst
<1>2. ASSUME NEW d \in Drafts, CardMade(d)
      PROVE  /\ Existing \subseteq Existing'
             /\ \A i \in Existing : app'[i].from = app[i].from
             /\ CardsAreFirst'
    <2>1. NewId \in Free /\ \E n \in 0..MaxApps : Existing \cup {NewId} = 1..n
        BY <1>2, NewIdIsNext DEF CardMade
    <2>2. \A i \in Existing : i \in Ids \ {NewId}
        BY <2>1, TableTypes DEF Free
    <2> QED
        BY <1>2, <2>1, <2>2 DEF CardMade, CardsAreFirst
<1>3. \A j \in Importers : importer[j].draft \in Drafts
    BY ImporterTypes
<1>4. \A d \in splits : d \in Drafts
    BY ImportAssumption DEF ImportTypeOK
<1> QED
    BY <1>1, <1>2, <1>3, <1>4, CardsOfStep

\* The declared types, and that cards are numbered in order, are kept by every step.
LEMMA ImportNextTyped ==
    ASSUME ImportTypeOK, CardsAreFirst, [ImportNext]_importVars
    PROVE  ImportTypeOK'
<1>1. ASSUME UNCHANGED importVars PROVE ImportTypeOK'
    BY <1>1 DEF importVars, ImportTypeOK
<1> QED
    BY <1>1, ImportStepTyped, CommandStepTyped, EditorStepTyped DEF ImportNext

-----------------------------------------------------------------------------
(***************************************************************************)
(* What rows, candidates and running imports refer to exists.  These, and  *)
(* the types, are what the properties below rest on.                       *)
(***************************************************************************)
\* A listing hangs on a card.
NoOrphans == \A d \in Drafts : source[d].app # NoApp => source[d].app \in Existing

\* What an import has read is a card still.
LookupsExist ==
    \A j \in Importers :
        /\ importer[j].pc \in {"match", "refresh"} => importer[j].app \in Existing
        /\ importer[j].similar \subseteq Existing
        /\ importer[j].seen \subseteq Existing

Structure ==
    /\ ImportTypeOK
    /\ CardsAreFirst
    /\ NoOrphans
    /\ PairsAreCards
    /\ LookupsExist

\* It holds initially.
LEMMA InitStructured == ImportInit => Structure
<1> SUFFICES ASSUME ImportInit PROVE Structure
    OBVIOUS
<1>1. ImportTypeOK /\ CardsAreFirst
    BY ImportInitTyped
<1>2. NoOrphans
    <2>1. 1 \in Ids /\ (Overmerged # {} => app[1] = Made(Elder, "unknown"))
        BY ImportAssumption DEF ImportInit, Ids
    <2>2. Overmerged # {} => 1 \in Existing
        BY <2>1 DEF Existing, Made
    <2>3. \A d \in Drafts : source[d].app # NoApp => source[d].app = 1 /\ d \in Overmerged
        BY DEF ImportInit
    <2> QED
        BY <2>2, <2>3 DEF NoOrphans
<1>3. PairsAreCards
    BY DEF ImportInit, PairsAreCards
<1>4. LookupsExist
    BY DEF ImportInit, LookupsExist, Idle
<1> QED
    BY <1>1, <1>2, <1>3, <1>4 DEF Structure

\* A new card takes a key that is no card's; no row and no candidate refers to it.
LEMMA NewIdIsUnused ==
    ASSUME Structure, Free # {}
    PROVE  /\ NewId \in Ids \ Existing /\ app[NewId].status = "none" /\ NewId # NoApp
           /\ \A i \in Existing : i < NewId
           /\ \A d \in Drafts : source[d].app # NewId
           /\ \A a \in Ids : pair[NewId][a] = "none" /\ pair[a][NewId] = "none"
<1>1. NewId \in Free /\ \A i \in Existing : i < NewId
    BY NewIdIsNext DEF Structure
<1>2. NewId \in Ids \ Existing
    BY <1>1 DEF Free
<1>3. NewId # NoApp
    BY <1>2, ImportAssumption DEF Ids, NoApp
<1> QED
    BY <1>1, <1>2, <1>3 DEF Structure, NoOrphans, PairsAreCards, Existing

\* What happens to the rows in a step: nothing; a row is attached to the match of its
\* import, founds the new card, or moves with the card that is merged away.
LEMMA RowsOfStep ==
    ASSUME Structure, [ImportNext]_importVars
    PROVE  \/ source' = source
           \/ \E j \in Importers : ImportAttaches(j) /\ source[importer[j].draft].app = NoApp
           \/ \E j \in Importers : Created(j)
           \/ \E d \in splits : SplitOff(d)
           \/ \E p \in planned : \E to, from \in Ids :
                 MergeApplies(p) /\ Mergeable(p) /\ {to, from} = {p[1], p[2]} /\ to # from
                 /\ MergeInto(p, to, from)
<1>1. ASSUME NEW j \in Importers, ImportStep(j)
      PROVE  \/ source' = source
             \/ ImportAttaches(j) /\ source[importer[j].draft].app = NoApp
             \/ Created(j)
    BY <1>1 DEF ImportStep, ImportLooksUp, ImportRefreshes, ImportMatches, ImportAttaches,
                ImportCompares, ImportCreates, ImportFails, Created
<1>2. ASSUME NEW p \in planned, MergeApplies(p)
      PROVE  \/ source' = source
             \/ \E to, from \in Ids :
                   MergeApplies(p) /\ Mergeable(p) /\ {to, from} = {p[1], p[2]} /\ to # from
                   /\ MergeInto(p, to, from)
    <2>1. CASE Mergeable(p)
        <3>1. p[1] \in Ids /\ p[2] \in Ids /\ p[1] # p[2]
            BY <2>1, MergeableCards DEF Structure
        <3> QED
            BY <1>2, <2>1, <3>1 DEF MergeApplies
    <2>2. CASE ~Mergeable(p)
        BY <1>2, <2>2 DEF MergeApplies
    <2> QED
        BY <2>1, <2>2
<1>3. ASSUME NEW d \in splits, SplitApplies(d) PROVE source' = source \/ SplitOff(d)
    BY <1>3 DEF SplitApplies, SplitOff
<1>4. CASE MergePlans \/ SplitPlans \/ DismissPlans \/ DismissApplies \/ EditorStep
    BY <1>4 DEF MergePlans, SplitPlans, DismissPlans, DismissApplies, EditorStep, EditorDecides,
                EditorEdits
<1>5. CASE UNCHANGED importVars
    BY <1>5 DEF importVars
<1> QED
    BY <1>1, <1>2, <1>3, <1>4, <1>5 DEF ImportNext, CommandStep

\* Every listing keeps hanging on a card.
LEMMA RowsStayOnCards ==
    ASSUME Structure, [ImportNext]_importVars
    PROVE  NoOrphans'
<1> SUFFICES ASSUME NEW d \in Drafts, source'[d].app # NoApp PROVE source'[d].app \in Existing'
    BY DEF NoOrphans
<1>1. Existing \subseteq Existing'
    BY CardsStay DEF Structure
<1>2. source \in [Drafts -> Source] /\ (source[d].app # NoApp => source[d].app \in Existing)
    BY DEF Structure, ImportTypeOK, NoOrphans
<1>3. CASE source' = source
    BY <1>1, <1>2, <1>3
<1>4. ASSUME NEW j \in Importers, ImportAttaches(j), source[importer[j].draft].app = NoApp
      PROVE  source'[d].app \in Existing'
    <2>1. importer[j].app \in Existing
        BY <1>4 DEF Structure, LookupsExist, ImportAttaches
    <2>2. source'[d] = source[d] \/ source'[d].app = importer[j].app
        BY <1>2, <1>4 DEF ImportAttaches
    <2> QED
        BY <1>1, <1>2, <2>1, <2>2
<1>5. ASSUME NEW e \in Drafts, CardMade(e),
             source' = [source EXCEPT ![e] = [app |-> NewId, primary |-> TRUE]]
      PROVE  source'[d].app \in Existing'
    <2>1. source'[d] = source[d] \/ source'[d].app = NewId
        BY <1>2, <1>5
    <2> QED
        BY <1>1, <1>2, <1>5, <2>1 DEF CardMade
<1>6. ASSUME NEW p \in planned, NEW to \in Ids, NEW from \in Ids,
             Mergeable(p), {to, from} = {p[1], p[2]}, MergeInto(p, to, from)
      PROVE  source'[d].app \in Existing'
    <2>1. to \in Existing
        BY <1>6 DEF Mergeable, Existing
    <2>2. source'[d].app = source[d].app \/ source'[d].app = to
        BY <1>6 DEF MergeInto, Moved
    <2> QED
        BY <1>1, <1>2, <2>1, <2>2
<1>7. ASSUME NEW j \in Importers, Created(j) PROVE source'[d].app \in Existing'
    <2>1. /\ importer[j].draft \in Drafts
          /\ source' = [source EXCEPT ![importer[j].draft] = [app |-> NewId, primary |-> TRUE]]
        BY <1>7, ImporterTypes DEF Created, ImportCreates, Structure
    <2>2. PICK cap \in Verdicts : app' = [app EXCEPT ![NewId] = Made(importer[j].draft, cap)]
        BY <1>7 DEF Created, ImportCreates
    <2>3. CardMade(importer[j].draft)
        BY <1>7, <2>1, <2>2, WriteMakesCard DEF Created, ImportCreates, Structure
    <2> QED
        BY <1>5, <2>1, <2>3
<1>8. ASSUME NEW e \in splits, SplitOff(e) PROVE source'[d].app \in Existing'
    <2>1. e \in Drafts
        BY ImportAssumption DEF ImportTypeOK, Structure
    <2>2. PICK cap \in Verdicts : app' = [app EXCEPT ![NewId] = Made(e, cap)]
        BY <1>8 DEF SplitOff, SplitApplies
    <2>3. CardMade(e)
        BY <1>8, <2>1, <2>2, WriteMakesCard DEF SplitOff, SplitApplies, Structure
    <2> QED
        BY <1>5, <1>8, <2>1, <2>3 DEF SplitOff, SplitApplies
<1> QED
    BY <1>3, <1>4, <1>6, <1>7, <1>8, RowsOfStep

\* No step relates a pair that was not related, except the creation of a card, which
\* relates it to the weak matches of its import; and none takes a relation back.
LEMMA PairsOfStep ==
    ASSUME Structure, [ImportNext]_importVars
    PROVE  \/ \A b, a \in Ids : pair'[b][a] # "none" <=> pair[b][a] # "none"
           \/ \E j \in Importers :
                 /\ Created(j)
                 /\ \A a \in Ids : pair'[NewId][a] # "none" <=> a \in importer[j].similar
                 /\ \A b \in Ids \ {NewId}, a \in Ids : pair'[b][a] = pair[b][a]
<1> DEFINE Same == \A b, a \in Ids : pair'[b][a] # "none" <=> pair[b][a] # "none"
<1>1. ASSUME NEW j \in Importers, ImportStep(j)
      PROVE  \/ Same
             \/ /\ Created(j)
                /\ \A a \in Ids : pair'[NewId][a] # "none" <=> a \in importer[j].similar
                /\ \A b \in Ids \ {NewId}, a \in Ids : pair'[b][a] = pair[b][a]
    <2>1. CASE Created(j)
        <3>1. NewId \in Ids
            BY <2>1, NewIdIsUnused DEF Created, ImportCreates
        <3> QED
            BY <2>1, <3>1 DEF Created, ImportCreates, Structure, ImportTypeOK
    <2>2. CASE ~Created(j)
        BY <1>1, <2>2 DEF ImportStep, ImportLooksUp, ImportRefreshes, ImportMatches, ImportAttaches,
                          ImportCompares, ImportCreates, ImportFails, Created
    <2> QED
        BY <2>1, <2>2
<1>2. ASSUME NEW p \in planned, MergeApplies(p) PROVE Same
    <2>1. CASE Mergeable(p)
        <3>1. pair[p[1]][p[2]] = "pending" /\ p = <<p[1], p[2]>>
            BY <2>1 DEF Mergeable, Pending
        <3>2. pair' = [b \in Ids |-> [a \in Ids |->
                         IF <<b, a>> = p \/ (<<a, b>> = p /\ pair[b][a] = "pending")
                         THEN "confirmed" ELSE pair[b][a]]]
            BY <1>2, <2>1 DEF MergeApplies, MergeInto
        <3>3. ASSUME NEW b \in Ids, NEW a \in Ids
              PROVE  pair'[b][a] # "none" <=> pair[b][a] # "none"
            <4>1. CASE <<b, a>> = p
                BY <3>1, <3>2, <4>1
            <4>2. CASE <<b, a>> # p
                BY <3>2, <4>2
            <4> QED
                BY <4>1, <4>2
        <3> QED
            BY <3>3
    <2>2. CASE ~Mergeable(p)
        BY <1>2, <2>2 DEF MergeApplies
    <2> QED
        BY <2>1, <2>2
<1>3. CASE DismissApplies
    <2>1. ASSUME NEW b \in Ids, NEW a \in Ids, <<b, a>> \in Pending PROVE pair[b][a] = "pending"
        BY <2>1 DEF Pending
    <2> QED
        BY <1>3, <2>1 DEF DismissApplies
<1>4. ASSUME NEW b \in Ids, NEW a \in Ids, NEW status \in {"confirmed", "dismissed"},
             EditorDecides(b, a, status)
      PROVE  Same
    BY <1>4 DEF EditorDecides, Structure, ImportTypeOK
<1>5. CASE MergePlans \/ SplitPlans \/ DismissPlans \/ (\E d \in splits : SplitApplies(d))
           \/ (\E i \in Ids : EditorEdits(i)) \/ UNCHANGED importVars
    BY <1>5 DEF MergePlans, SplitPlans, DismissPlans, SplitApplies, EditorEdits, importVars
<1> QED
    BY <1>1, <1>2, <1>3, <1>4, <1>5 DEF ImportNext, CommandStep, EditorStep

\* Candidates relate a card and an older one.
LEMMA PairsStayOnCards ==
    ASSUME Structure, [ImportNext]_importVars
    PROVE  PairsAreCards'
<1> SUFFICES ASSUME NEW b \in Ids, NEW a \in Ids, pair'[b][a] # "none"
             PROVE  b \in Existing' /\ a \in Existing' /\ a < b
    BY DEF PairsAreCards
<1>1. Existing \subseteq Existing'
    BY CardsStay DEF Structure
<1>2. CASE pair[b][a] # "none"
    BY <1>1, <1>2 DEF Structure, PairsAreCards
<1>3. CASE pair[b][a] = "none"
    <2>1. PICK j \in Importers : /\ Created(j)
                                 /\ \A k \in Ids : pair'[NewId][k] # "none" <=> k \in importer[j].similar
                                 /\ \A c \in Ids \ {NewId}, k \in Ids : pair'[c][k] = pair[c][k]
        BY <1>3, PairsOfStep
    <2>2. b = NewId /\ a \in importer[j].similar
        BY <1>3, <2>1
    <2>3. a \in Existing
        BY <2>2 DEF Structure, LookupsExist
    <2>4. a < b
        BY <2>1, <2>2, <2>3, NewIdIsUnused DEF Created, ImportCreates
    <2>5. PICK cap \in Verdicts : app' = [app EXCEPT ![NewId] = Made(importer[j].draft, cap)]
        BY <2>1 DEF Created, ImportCreates
    <2>6. CardMade(importer[j].draft)
        BY <2>1, <2>5, WriteMakesCard, ImporterTypes DEF Created, ImportCreates, Structure
    <2> QED
        BY <1>1, <2>2, <2>3, <2>4, <2>6 DEF CardMade
<1> QED
    BY <1>2, <1>3

\* A step changes what one import knows at most: what it takes up, it has just read.
LEMMA LookupsStay ==
    ASSUME Structure, [ImportNext]_importVars
    PROVE  LookupsExist'
<1> SUFFICES ASSUME NEW k \in Importers
             PROVE  /\ importer'[k].pc \in {"match", "refresh"} => importer'[k].app \in Existing'
                    /\ importer'[k].similar \subseteq Existing'
                    /\ importer'[k].seen \subseteq Existing'
    BY DEF LookupsExist
<1>1. Existing \subseteq Existing'
    BY CardsStay DEF Structure
<1>2. /\ importer[k].pc \in {"match", "refresh"} => importer[k].app \in Existing
      /\ importer[k].similar \subseteq Existing
      /\ importer[k].seen \subseteq Existing
    BY DEF Structure, LookupsExist
<1>3. importer \in [Importers -> Importer] /\ importer[k] \in Importer
    BY DEF Structure, ImportTypeOK
<1>4. CASE importer'[k] = importer[k]
    BY <1>1, <1>2, <1>4
<1>5. CASE importer'[k] = Idle
    BY <1>5 DEF Idle
<1>6. ASSUME NEW j \in Importers, ImportStep(j), importer'[k] # importer[k], importer'[k] # Idle
      PROVE  /\ importer'[k].pc \in {"match", "refresh"} => importer'[k].app \in Existing'
             /\ importer'[k].similar \subseteq Existing'
             /\ importer'[k].seen \subseteq Existing'
    <2> DEFINE p == importer[k]
    <2>1. ASSUME NEW next, Goes(j, next) PROVE j = k /\ importer'[k] = next
        BY <1>3, <1>6, <2>1 DEF Goes
    <2>2. ASSUME NEW d \in Drafts, ImportLooksUp(j, d)
          PROVE  /\ importer'[k].pc = "refresh" => importer'[k].app = source[d].app /\ source[d].app # NoApp
                 /\ importer'[k].pc # "match" /\ importer'[k].similar = {} /\ importer'[k].seen = {}
        <3>1. importer'[k] = [Idle EXCEPT !.pc = IF source[d].app = NoApp THEN "unknown" ELSE "refresh",
                                          !.draft = d, !.app = source[d].app,
                                          !.fills = source[d].app # NoApp
                                                    /\ SameField(source[d].app, ProductOf[d]) = {}]
            BY <2>1, <2>2 DEF ImportLooksUp
        <3>2. /\ importer'[k].pc = IF source[d].app = NoApp THEN "unknown" ELSE "refresh"
              /\ importer'[k].app = source[d].app
              /\ importer'[k].similar = {} /\ importer'[k].seen = {}
            BY <3>1 DEF Idle
        <3> QED
            BY <3>2
    <2>3. ASSUME NEW d \in Drafts, ImportLooksUp(j, d)
          PROVE  importer'[k].pc = "refresh" => importer'[k].app \in Existing
        BY <2>2, <2>3 DEF Structure, NoOrphans
    <2>4. CASE ImportMatches(j)
        <3>1. Strong(p.draft) \subseteq Existing
            BY DEF Strong
        <3>2. \/ importer'[k] = [p EXCEPT !.pc = "compare", !.seen = Existing]
              \/ \E i \in Strong(p.draft) : importer'[k] = [p EXCEPT !.pc = "match", !.app = i]
            BY <2>1, <2>4 DEF ImportMatches
        <3>3. CASE importer'[k] = [p EXCEPT !.pc = "compare", !.seen = Existing]
            BY <1>1, <1>2, <1>3, <3>3 DEF Importer
        <3>4. ASSUME NEW i \in Strong(p.draft), importer'[k] = [p EXCEPT !.pc = "match", !.app = i]
              PROVE  /\ importer'[k].app \in Existing' /\ importer'[k].similar \subseteq Existing'
                     /\ importer'[k].seen \subseteq Existing'
            BY <1>1, <1>2, <1>3, <3>1, <3>4 DEF Importer
        <3> QED
            BY <1>3, <3>2, <3>3, <3>4
    <2>5. CASE ImportCompares(j)
        <3>1. PICK best \in Best(Similar(p.draft)) :
                 importer'[k] = [p EXCEPT !.pc = "create", !.similar = best,
                                          !.seen = @ \ Strong(p.draft)]
            BY <2>1, <2>5 DEF ImportCompares
        <3>2. best \subseteq Existing
            BY DEF Similar, Best
        <3> QED
            BY <1>1, <1>2, <1>3, <3>1, <3>2 DEF Importer
    <2>6. CASE ImportRefreshes(j) \/ ImportAttaches(j) \/ ImportCreates(j) \/ ImportFails(j)
        BY <1>6, <2>1, <2>6 DEF ImportRefreshes, ImportAttaches, ImportCreates, ImportFails
    <2> QED
        BY <1>1, <1>6, <2>2, <2>3, <2>4, <2>5, <2>6 DEF ImportStep
<1>7. CASE CommandStep \/ EditorStep \/ UNCHANGED importVars
    BY <1>4, <1>7 DEF CommandStep, EditorStep, MergePlans, MergeApplies, SplitPlans, SplitApplies,
                      DismissPlans, DismissApplies, EditorDecides, EditorEdits, importVars
<1> QED
    BY <1>4, <1>5, <1>6, <1>7 DEF ImportNext

\* The structure is inductive.
LEMMA StructureStays ==
    ASSUME Structure, [ImportNext]_importVars
    PROVE  Structure'
<1>1. ImportTypeOK'
    BY ImportNextTyped DEF Structure
<1>2. CardsAreFirst'
    BY CardsStay DEF Structure
<1> QED
    BY <1>1, <1>2, RowsStayOnCards, PairsStayOnCards, LookupsStay DEF Structure

\* Every reachable state is of the declared types, and its references hold.
LEMMA AlwaysStructured == ImportSpec => []Structure
<1>1. ImportInit => Structure
    BY InitStructured
<1>2. Structure /\ [ImportNext]_importVars => Structure'
    BY StructureStays
<1> QED
    BY <1>1, <1>2, PTL DEF ImportSpec

\* The declared types, for any number of listings, imports and cards.
THEOREM ImportTypeCorrect == ImportSpec => []ImportTypeOK
<1>1. Structure => ImportTypeOK
    BY DEF Structure
<1> QED
    BY <1>1, AlwaysStructured, PTL

-----------------------------------------------------------------------------
(***************************************************************************)
(* A card has one primary source.                                          *)
(***************************************************************************)
\* The rows of one card: one of them is the primary, none if the card was merged away.
RowsAreSound(i) ==
    /\ HasPrimary(i) <=> app[i].status # "hidden"
    /\ \A d, e \in SourcesOf(i) : source[d].primary /\ source[e].primary => d = e

\* Rows and status of a card that no step touches stay sound.
LEMMA UntouchedStaysSound ==
    ASSUME NEW i \in Ids, RowsAreSound(i), (app[i].status = "hidden") <=> (app'[i].status = "hidden"),
           \A d \in Drafts : source[d].app = i \/ source'[d].app = i => source'[d] = source[d]
    PROVE  RowsAreSound(i)'
<1>1. SourcesOf(i)' = SourcesOf(i) /\ \A d \in SourcesOf(i) : source'[d] = source[d]
    BY DEF SourcesOf
<1>2. HasPrimary(i)' <=> HasPrimary(i)
    BY <1>1 DEF HasPrimary
<1> QED
    BY <1>1, <1>2 DEF RowsAreSound

\* A card founded for one listing has that listing as its primary source; the card that
\* listing came from, if any, keeps its own.
LEMMA FoundingIsSound ==
    ASSUME Structure, OnePrimary, Free # {}, NEW d \in Drafts, NEW cap \in Verdicts,
           source[d].app # NoApp => ~source[d].primary,
           app' = [app EXCEPT ![NewId] = Made(d, cap)],
           source' = [source EXCEPT ![d] = [app |-> NewId, primary |-> TRUE]]
    PROVE  OnePrimary'
<1> SUFFICES ASSUME NEW i \in Existing' PROVE RowsAreSound(i)'
    BY DEF OnePrimary, RowsAreSound
<1>1. CardMade(d)
    BY WriteMakesCard DEF Structure
<1>2. source \in [Drafts -> Source] /\ i \in Ids
    BY DEF Structure, ImportTypeOK, Existing
<1>3. source'[d] = [app |-> NewId, primary |-> TRUE] /\ \A e \in Drafts \ {d} : source'[e] = source[e]
    BY <1>2
<1>4. CASE i = NewId
    <2>1. SourcesOf(i)' = {d}
        BY <1>3, <1>4, NewIdIsUnused DEF SourcesOf
    <2>2. HasPrimary(i)' /\ app'[i].status = "draft"
        BY <1>1, <1>3, <1>4, <2>1 DEF HasPrimary, CardMade
    <2> QED
        BY <2>1, <2>2 DEF RowsAreSound
<1>5. CASE i # NewId
    <2>1. i \in Existing /\ app'[i] = app[i]
        BY <1>1, <1>2, <1>5 DEF CardMade
    <2>2. RowsAreSound(i)
        BY <2>1 DEF OnePrimary, RowsAreSound
    <2>3. SourcesOf(i)' = SourcesOf(i) \ {d}
        BY <1>3, <1>5 DEF SourcesOf
    <2>4. i # NoApp
        BY <1>2, ImportAssumption DEF Ids, NoApp
    <2>5. d \in SourcesOf(i) => ~source[d].primary
        BY <2>4 DEF SourcesOf
    <2>6. HasPrimary(i)' <=> HasPrimary(i)
        BY <1>3, <2>3, <2>5 DEF HasPrimary, SourcesOf
    <2>7. \A x, y \in SourcesOf(i)' : source'[x].primary /\ source'[y].primary => x = y
        BY <1>3, <2>2, <2>3 DEF RowsAreSound, SourcesOf
    <2> QED
        BY <2>1, <2>2, <2>6, <2>7 DEF RowsAreSound
<1> QED
    BY <1>4, <1>5

\* The rows of a card that is merged away follow it as secondary ones.
LEMMA MergeIsSound ==
    ASSUME Structure, OnePrimary, NEW p \in planned, NEW to \in Ids, NEW from \in Ids \ {to},
           app[from].status = "draft", app[to].status = "draft", MergeInto(p, to, from)
    PROVE  OnePrimary'
<1> SUFFICES ASSUME NEW i \in Existing' PROVE RowsAreSound(i)'
    BY DEF OnePrimary, RowsAreSound
<1>1. /\ CardsKept
      /\ app'[from].status = "hidden" /\ app'[to].status = "draft"
      /\ \A k \in Ids \ {from, to} : app'[k] = app[k]
    <2>1. p \in Ids \X Ids
        BY DEF Structure, ImportTypeOK
    <2> QED
        BY <2>1, MergeCards DEF Structure
<1>2. i \in Existing /\ i \in Ids /\ RowsAreSound(i) /\ RowsAreSound(to)
    BY <1>1 DEF CardsKept, OnePrimary, RowsAreSound, Existing
<1>3. HasPrimary(to)
    BY <1>2 DEF RowsAreSound
<1>4. /\ \A d \in SourcesOf(from) : source'[d] = [app |-> to, primary |-> FALSE]
      /\ \A d \in Drafts \ SourcesOf(from) : source'[d] = source[d]
    BY <1>3 DEF MergeInto, Moved, SourcesOf
<1>5. CASE i = from
    <2>1. SourcesOf(i)' = {}
        BY <1>4, <1>5 DEF SourcesOf
    <2> QED
        BY <1>1, <1>5, <2>1 DEF RowsAreSound, HasPrimary
<1>6. CASE i = to
    <2>1. SourcesOf(i)' = SourcesOf(i) \cup SourcesOf(from)
        BY <1>4, <1>6 DEF SourcesOf
    <2>2. \A d \in SourcesOf(i) : source'[d] = source[d]
        BY <1>4, <1>6 DEF SourcesOf
    <2>3. \A d \in SourcesOf(from) : ~source'[d].primary
        BY <1>4
    <2>4. HasPrimary(i)'
        BY <1>3, <1>6, <2>1, <2>2 DEF HasPrimary
    <2>5. \A x, y \in SourcesOf(i)' : source'[x].primary /\ source'[y].primary => x = y
        BY <1>2, <2>1, <2>2, <2>3 DEF RowsAreSound
    <2> QED
        BY <1>1, <1>6, <2>4, <2>5 DEF RowsAreSound
<1>7. CASE i \notin {from, to}
    <2>1. \A d \in Drafts : source[d].app = i \/ source'[d].app = i => source'[d] = source[d]
        BY <1>4, <1>7 DEF SourcesOf
    <2> QED
        BY <1>1, <1>2, <1>7, <2>1, UntouchedStaysSound
<1> QED
    BY <1>5, <1>6, <1>7

\* What an import or an editor writes in a card hides none and brings none back.
LEMMA WritesHideNothing ==
    ASSUME Structure,
           \/ \E j \in Importers : ImportRefreshes(j)
           \/ \E i \in Ids : EditorEdits(i)
    PROVE  \A k \in Ids : /\ (app'[k].status = "hidden") <=> (app[k].status = "hidden")
                          /\ (app'[k].status = "none") <=> (app[k].status = "none")
<1>1. app \in [Ids -> App]
    BY DEF Structure, ImportTypeOK
<1>2. ASSUME NEW j \in Importers, ImportRefreshes(j), NEW k \in Ids
      PROVE  app'[k].status = app[k].status
    BY <1>1, <1>2, RefreshWrites DEF Structure, Filled, App
<1>3. ASSUME NEW i \in Ids, EditorEdits(i), NEW k \in Ids
      PROVE  /\ (app'[k].status = "hidden") <=> (app[k].status = "hidden")
             /\ (app'[k].status = "none") <=> (app[k].status = "none")
    <2>1. PICK status \in {"draft", "published"}, cap \in Verdicts \ {"unknown"} :
              app' = [app EXCEPT ![i].status = status, ![i].cap = cap]
        BY <1>3 DEF EditorEdits
    <2> QED
        BY <1>1, <1>3, <2>1 DEF EditorEdits, App
<1> QED
    BY <1>2, <1>3

\* A card has one primary source, after every step.
LEMMA OnePrimaryStays ==
    ASSUME Structure, OnePrimary, [ImportNext]_importVars
    PROVE  OnePrimary'
<1>1. ASSUME source' = source,
             \A k \in Ids : /\ (app'[k].status = "hidden") <=> (app[k].status = "hidden")
                            /\ (app'[k].status = "none") <=> (app[k].status = "none")
      PROVE  OnePrimary'
    BY <1>1 DEF OnePrimary, Existing, HasPrimary, SourcesOf
<1>2. ASSUME source' = source, app' = app PROVE OnePrimary'
    BY <1>1, <1>2
<1>3. ASSUME NEW j \in Importers, ImportStep(j) PROVE OnePrimary'
    <2> DEFINE p == importer[j]
    <2>1. CASE ImportRefreshes(j)
        BY <1>1, <2>1, WritesHideNothing DEF ImportRefreshes
    <2>2. CASE ImportAttaches(j)
        <3>1. CASE source[p.draft].app = NoApp
            <4>1. p.app \in Existing /\ p.draft \in Drafts /\ source \in [Drafts -> Source]
                BY <2>2, ImporterTypes DEF Structure, LookupsExist, ImportAttaches, ImportTypeOK
            <4>2. /\ source'[p.draft] = [app |-> p.app, primary |-> FALSE]
                  /\ \A d \in Drafts \ {p.draft} : source'[d] = source[d]
                BY <2>2, <3>1, <4>1 DEF ImportAttaches
            <4>3. app' = app
                BY <2>2 DEF ImportAttaches
            <4> SUFFICES ASSUME NEW i \in Existing PROVE RowsAreSound(i)'
                BY <4>3 DEF OnePrimary, RowsAreSound, Existing
            <4>4. i # NoApp /\ RowsAreSound(i)
                BY ImportAssumption DEF OnePrimary, RowsAreSound, Existing, Ids, NoApp
            <4>5. p.draft \notin SourcesOf(i)
                BY <3>1, <4>4 DEF SourcesOf
            <4>6. SourcesOf(i)' = IF i = p.app THEN SourcesOf(i) \cup {p.draft} ELSE SourcesOf(i)
                BY <4>1, <4>2, <4>5 DEF SourcesOf
            <4>7. \A d \in SourcesOf(i) : source'[d] = source[d]
                BY <4>2, <4>5 DEF SourcesOf
            <4>8. ~source'[p.draft].primary
                BY <4>2
            <4>9. HasPrimary(i)' <=> HasPrimary(i)
                BY <4>6, <4>7, <4>8 DEF HasPrimary
            <4> QED
                BY <4>3, <4>4, <4>6, <4>7, <4>8, <4>9 DEF RowsAreSound
        <3>2. CASE source[p.draft].app # NoApp
            BY <1>2, <2>2, <3>2 DEF ImportAttaches
        <3> QED
            BY <3>1, <3>2
    <2>3. CASE ImportCreates(j)
        <3>1. CASE source[p.draft].app = NoApp
            <4>1. p.draft \in Drafts
                BY ImporterTypes DEF Structure
            <4>2. PICK cap \in Verdicts : app' = [app EXCEPT ![NewId] = Made(p.draft, cap)]
                BY <2>3, <3>1 DEF ImportCreates
            <4>3. Free # {} /\ source' = [source EXCEPT ![p.draft] = [app |-> NewId, primary |-> TRUE]]
                BY <2>3, <3>1 DEF ImportCreates
            <4> QED
                BY <3>1, <4>1, <4>2, <4>3, FoundingIsSound
        <3>2. CASE source[p.draft].app # NoApp
            BY <1>2, <2>3, <3>2 DEF ImportCreates
        <3> QED
            BY <3>1, <3>2
    <2>4. CASE (\E d \in Drafts : ImportLooksUp(j, d)) \/ ImportMatches(j)
               \/ ImportCompares(j) \/ ImportFails(j)
        BY <1>2, <2>4 DEF ImportLooksUp, ImportMatches, ImportCompares, ImportFails
    <2> QED
        BY <1>3, <2>1, <2>2, <2>3, <2>4 DEF ImportStep
<1>4. ASSUME NEW p \in planned, MergeApplies(p) PROVE OnePrimary'
    <2>1. CASE Mergeable(p)
        <3>1. p[1] \in Ids /\ p[2] \in Ids /\ p[1] # p[2]
            BY <2>1, MergeableCards DEF Structure
        <3>2. app[p[1]].status = "draft" /\ app[p[2]].status = "draft"
            BY <2>1 DEF Mergeable
        <3>3. MergeInto(p, p[1], p[2]) \/ MergeInto(p, p[2], p[1])
            BY <1>4, <2>1 DEF MergeApplies
        <3> QED
            BY <3>1, <3>2, <3>3, MergeIsSound
    <2>2. CASE ~Mergeable(p)
        BY <1>2, <1>4, <2>2 DEF MergeApplies
    <2> QED
        BY <2>1, <2>2
<1>5. ASSUME NEW d \in splits, SplitApplies(d) PROVE OnePrimary'
    <2>1. d \in Drafts
        BY ImportAssumption DEF Structure, ImportTypeOK
    <2>2. CASE Splittable(d)
        <3>1. PICK cap \in Verdicts : app' = [app EXCEPT ![NewId] = Made(d, cap)]
            BY <1>5, <2>2 DEF SplitApplies
        <3>2. /\ Free # {} /\ source' = [source EXCEPT ![d] = [app |-> NewId, primary |-> TRUE]]
              /\ ~source[d].primary
            BY <1>5, <2>2 DEF SplitApplies, Splittable
        <3> QED
            BY <2>1, <3>1, <3>2, FoundingIsSound
    <2>3. CASE ~Splittable(d)
        BY <1>2, <1>5, <2>3 DEF SplitApplies
    <2> QED
        BY <2>2, <2>3
<1>6. CASE \E i \in Ids : EditorEdits(i)
    BY <1>1, <1>6, WritesHideNothing DEF EditorEdits
<1>7. CASE MergePlans \/ SplitPlans \/ DismissPlans \/ DismissApplies \/ UNCHANGED importVars
           \/ \E b, a \in Ids, status \in {"confirmed", "dismissed"} : EditorDecides(b, a, status)
    BY <1>2, <1>7 DEF MergePlans, SplitPlans, DismissPlans, DismissApplies, EditorDecides, importVars
<1> QED
    BY <1>3, <1>4, <1>5, <1>6, <1>7 DEF ImportNext, CommandStep, EditorStep

\* A card has exactly one primary source, and a card that was merged away none, whatever
\* imports, merges and splits do to its listings and in whatever order.
THEOREM OnePrimaryCorrect == ImportSpec => []OnePrimary
<1>1. ImportInit => OnePrimary
    <2> SUFFICES ASSUME ImportInit, NEW i \in Existing PROVE RowsAreSound(i)
        BY DEF OnePrimary, RowsAreSound
    <2>1. i \in Ids /\ app[i].status # "none"
        BY DEF Existing
    <2>2. i = 1 /\ Overmerged # {} /\ app[i].status = "draft"
        BY <2>1 DEF ImportInit, Made, Blank
    <2>3. Elder \in Overmerged /\ Elder \in Drafts
        BY <2>2, ImportAssumption DEF Elder
    <2>4. \A d \in Drafts : source[d].app = (IF d \in Overmerged THEN 1 ELSE NoApp)
        BY DEF ImportInit
    <2>5. \A d \in Drafts : source[d].primary <=> d \in Overmerged /\ d = Elder
        BY DEF ImportInit
    <2>6. Elder \in SourcesOf(i)
        BY <2>2, <2>3, <2>4 DEF SourcesOf
    <2>7. HasPrimary(i)
        BY <2>3, <2>5, <2>6 DEF HasPrimary
    <2>8. \A d \in SourcesOf(i) : source[d].primary => d = Elder
        BY <2>5 DEF SourcesOf
    <2> QED
        BY <2>2, <2>7, <2>8 DEF RowsAreSound
<1>2. Structure /\ OnePrimary /\ [ImportNext]_importVars => OnePrimary'
    BY OnePrimaryStays
<1> QED
    BY <1>1, <1>2, AlwaysStructured, PTL DEF ImportSpec

-----------------------------------------------------------------------------
(***************************************************************************)
(* Duplicates are noticed.                                                 *)
(***************************************************************************)
\* A card matches strongly what it was made from.
KeysHoldProduct == \A i \in Existing : ProductOf[app[i].from] \in app[i].keys

\* A refresh that fills a field in has read a card whose own product is in another one.
RefreshesSpareOwn ==
    \A j \in Importers :
        importer[j].pc = "refresh" /\ importer[j].fills =>
            FieldOf[ProductOf[importer[j].draft]] # FieldOf[ProductOf[app[importer[j].app].from]]

\* What the lookups of an import have ruled out stays ruled out: none of the cards they
\* compared has the product of the listing, and those with its name are its candidates,
\* as many as the limit allows.
Compared(p) ==
    /\ \A a \in p.seen : ProductOf[p.draft] # ProductOf[app[a].from]
    /\ p.pc = "create" =>
          \A a \in p.seen : NameOf[p.draft] = NameOf[app[a].from] =>
              a \in p.similar \/ Cardinality(p.similar) = MaxSimilar

LookupsAreSound ==
    \A j \in Importers :
        importer[j].pc \in {"compare", "create"} /\ importer[j].draft \notin Registry =>
            Compared(importer[j])

\* Keys are added, and a refresh replaces none but in the field that it fills.
LEMMA KeysStay ==
    ASSUME Structure, KeysHoldProduct, RefreshesSpareOwn, [ImportNext]_importVars
    PROVE  KeysHoldProduct'
<1> SUFFICES ASSUME NEW i \in Existing' PROVE ProductOf[app'[i].from] \in app'[i].keys
    BY DEF KeysHoldProduct
<1>1. CASE i \in Existing
    <2>1. app'[i].from = app[i].from /\ ProductOf[app[i].from] \in app[i].keys /\ i \in Ids
        BY <1>1, CardsStay DEF Structure, KeysHoldProduct, Existing
    <2>2. CASE KeysGrow
        BY <2>1, <2>2 DEF KeysGrow
    <2>3. ASSUME NEW j \in Importers, ImportRefreshes(j)
          PROVE  ProductOf[app'[i].from] \in app'[i].keys
        <3> DEFINE p == importer[j]
                   product == ProductOf[p.draft]
        <3>1. app'[i] = IF p.fills /\ i = p.app THEN Filled(i, product) ELSE app[i]
            BY <2>1, <2>3, RefreshWrites DEF Structure
        <3>2. CASE p.fills /\ i = p.app
            <4>1. FieldOf[product] # FieldOf[ProductOf[app[i].from]]
                BY <2>3, <3>2 DEF RefreshesSpareOwn, ImportRefreshes
            <4>2. app'[i].keys = (app[i].keys \ SameField(i, product)) \cup {product}
                BY <2>1, <3>1, <3>2, TableTypes DEF Structure, Filled, App
            <4> QED
                BY <2>1, <4>1, <4>2 DEF SameField
        <3>3. CASE ~(p.fills /\ i = p.app)
            BY <2>1, <3>1, <3>3
        <3> QED
            BY <3>2, <3>3
    <2>4. ASSUME NEW d, CardMade(d) PROVE ProductOf[app'[i].from] \in app'[i].keys
        <3>1. i # NewId
            BY <1>1, <2>4, NewIdIsUnused DEF CardMade
        <3> QED
            BY <2>1, <2>4, <3>1 DEF CardMade
    <2> QED
        BY <2>2, <2>3, <2>4, CardsOfStep DEF Structure, CardsKept
<1>2. CASE i \notin Existing
    <2>1. CASE CardsKept
        BY <1>2, <2>1 DEF CardsKept
    <2>2. ASSUME NEW d, CardMade(d) PROVE ProductOf[app'[i].from] \in app'[i].keys
        BY <1>2, <2>2 DEF CardMade
    <2> QED
        BY <2>1, <2>2, CardsOfStep DEF Structure
<1> QED
    BY <1>1, <1>2

\* A refresh is found to fill a field when the card holds its own product in another one,
\* and what the card was made from does not change.
LEMMA RefreshesStaySparing ==
    ASSUME Structure, KeysHoldProduct, RefreshesSpareOwn, [ImportNext]_importVars
    PROVE  RefreshesSpareOwn'
<1> SUFFICES ASSUME NEW k \in Importers, importer'[k].pc = "refresh", importer'[k].fills
             PROVE  FieldOf[ProductOf[importer'[k].draft]]
                        # FieldOf[ProductOf[app'[importer'[k].app].from]]
    BY DEF RefreshesSpareOwn
<1>1. \A i \in Existing : app'[i].from = app[i].from
    BY CardsStay DEF Structure
<1>2. importer \in [Importers -> Importer] /\ importer[k] \in Importer
    BY DEF Structure, ImportTypeOK
<1>3. CASE importer'[k] = importer[k]
    <2>1. importer[k].app \in Existing
        BY <1>3 DEF Structure, LookupsExist
    <2> QED
        BY <1>1, <1>3, <2>1 DEF RefreshesSpareOwn
<1>4. ASSUME NEW j \in Importers, ImportStep(j), importer'[k] # importer[k]
      PROVE  FieldOf[ProductOf[importer'[k].draft]] # FieldOf[ProductOf[app'[importer'[k].app].from]]
    <2> DEFINE p == importer[k]
    <2>1. ASSUME NEW next, Goes(j, next) PROVE j = k /\ importer'[k] = next
        BY <1>2, <1>4, <2>1 DEF Goes
    <2>2. ASSUME NEW d \in Drafts, ImportLooksUp(j, d)
          PROVE  FieldOf[ProductOf[importer'[k].draft]]
                     # FieldOf[ProductOf[app'[importer'[k].app].from]]
        <3> DEFINE i == source[d].app
        <3>1. importer'[k] = [Idle EXCEPT !.pc = IF i = NoApp THEN "unknown" ELSE "refresh",
                                          !.draft = d, !.app = i,
                                          !.fills = i # NoApp /\ SameField(i, ProductOf[d]) = {}]
            BY <2>1, <2>2 DEF ImportLooksUp
        <3>2. /\ importer'[k].draft = d /\ importer'[k].app = i
              /\ importer'[k].fills = (i # NoApp /\ SameField(i, ProductOf[d]) = {})
            BY <3>1 DEF Idle
        <3>3. i \in Existing /\ SameField(i, ProductOf[d]) = {}
            BY <3>2 DEF Structure, NoOrphans
        <3>4. ProductOf[app[i].from] \in app[i].keys
            BY <3>3 DEF KeysHoldProduct
        <3>5. FieldOf[ProductOf[app[i].from]] # FieldOf[ProductOf[d]]
            BY <3>3, <3>4 DEF SameField
        <3> HIDE DEF i
        <3> QED
            BY <1>1, <3>2, <3>3, <3>5
    <2>3. CASE ImportMatches(j) \/ ImportCompares(j)
        <3>1. importer'[k].pc \in {"compare", "match", "create"}
            <4>1. \/ importer'[k] = [p EXCEPT !.pc = "compare", !.seen = Existing]
                  \/ \E i : importer'[k] = [p EXCEPT !.pc = "match", !.app = i]
                  \/ \E best : importer'[k] = [p EXCEPT !.pc = "create", !.similar = best,
                                                     !.seen = @ \ Strong(p.draft)]
                BY <2>1, <2>3 DEF ImportMatches, ImportCompares
            <4> QED
                BY <1>2, <4>1 DEF Importer
        <3> QED
            BY <3>1
    <2>4. CASE ImportRefreshes(j) \/ ImportAttaches(j) \/ ImportCreates(j) \/ ImportFails(j)
        <3>1. importer'[k] = Idle
            BY <2>1, <2>4 DEF ImportRefreshes, ImportAttaches, ImportCreates, ImportFails
        <3> QED
            BY <3>1 DEF Idle
    <2> QED
        BY <1>4, <2>2, <2>3, <2>4 DEF ImportStep
<1>5. CASE CommandStep \/ EditorStep \/ UNCHANGED importVars
    BY <1>3, <1>5 DEF CommandStep, EditorStep, MergePlans, MergeApplies, SplitPlans, SplitApplies,
                      DismissPlans, DismissApplies, EditorDecides, EditorEdits, importVars
<1> QED
    BY <1>3, <1>4, <1>5 DEF ImportNext

\* The lookups of an import are sound when they are made, and no step of another import,
\* of a command or of an editor makes them unsound.
LEMMA LookupsStaySound ==
    ASSUME Structure, KeysHoldProduct, LookupsAreSound, [ImportNext]_importVars
    PROVE  LookupsAreSound'
<1> SUFFICES ASSUME NEW k \in Importers, importer'[k].pc \in {"compare", "create"},
                    importer'[k].draft \notin Registry
             PROVE  Compared(importer[k])'
    BY DEF LookupsAreSound
<1>1. \A a \in Existing : app'[a].from = app[a].from
    BY CardsStay DEF Structure
<1>2. importer \in [Importers -> Importer] /\ importer[k] \in Importer
    BY DEF Structure, ImportTypeOK
<1>3. importer[k].seen \subseteq Existing
    BY DEF Structure, LookupsExist
<1>4. CASE importer'[k] = importer[k]
    <2>1. Compared(importer[k])
        BY <1>4 DEF LookupsAreSound
    <2> QED
        BY <1>1, <1>3, <1>4, <2>1 DEF Compared
<1>5. ASSUME NEW j \in Importers, ImportStep(j), importer'[k] # importer[k]
      PROVE  Compared(importer[k])'
    <2> DEFINE p == importer[k]
    <2>1. ASSUME NEW next, Goes(j, next) PROVE j = k /\ importer'[k] = next
        BY <1>2, <1>5, <2>1 DEF Goes
    <2>2. CASE ImportMatches(j)
        <3>1. /\ Strong(p.draft) = {} /\ j = k
              /\ importer'[k] = [p EXCEPT !.pc = "compare", !.seen = Existing]
            <4>1. CASE Strong(p.draft) = {}
                BY <2>1, <2>2, <4>1 DEF ImportMatches
            <4>2. ASSUME NEW i, Goes(j, [importer[j] EXCEPT !.pc = "match", !.app = i])
                  PROVE  FALSE
                <5>1. importer'[k] = [p EXCEPT !.pc = "match", !.app = i]
                    BY <2>1, <4>2
                <5>2. importer'[k].pc = "match"
                    BY <1>2, <5>1 DEF Importer
                <5> QED
                    BY <5>2
            <4>3. CASE Strong(p.draft) # {}
                <5>1. j = k
                    BY <2>1, <2>2 DEF ImportMatches
                <5> QED
                    BY <2>2, <4>2, <4>3, <5>1 DEF ImportMatches
            <4> QED
                BY <4>1, <4>3
        <3>2. importer'[k].draft = p.draft /\ importer'[k].seen = Existing /\ importer'[k].pc = "compare"
            BY <1>2, <3>1 DEF Importer
        <3>3. \A a \in Existing : ProductOf[p.draft] \notin app[a].keys
            BY <3>1, <3>2 DEF Strong
        <3>4. \A a \in Existing : ProductOf[p.draft] # ProductOf[app[a].from]
            BY <3>3 DEF KeysHoldProduct
        <3> QED
            BY <1>1, <3>2, <3>4 DEF Compared
    <2>3. CASE ImportCompares(j)
        <3>1. p.pc = "compare" /\ j = k /\ \E best \in Best(Similar(p.draft)) :
                 importer'[k] = [p EXCEPT !.pc = "create", !.similar = best,
                                          !.seen = @ \ Strong(p.draft)]
            <4>1. PICK best \in Best(Similar(importer[j].draft)) :
                      Goes(j, [importer[j] EXCEPT !.pc = "create", !.similar = best,
                                                  !.seen = @ \ Strong(importer[j].draft)])
                BY <2>3 DEF ImportCompares
            <4>2. j = k
                BY <2>1, <4>1
            <4> QED
                BY <2>1, <2>3, <4>1, <4>2 DEF ImportCompares
        <3>2. /\ importer'[k].draft = p.draft /\ importer'[k].similar \in Best(Similar(p.draft))
              /\ importer'[k].seen = p.seen \ Strong(p.draft)
            BY <1>2, <3>1 DEF Importer
        <3>3. \A a \in p.seen : ProductOf[p.draft] # ProductOf[app[a].from]
            BY <3>1, <3>2 DEF LookupsAreSound, Compared
        <3>4. \A a \in p.seen \ Strong(p.draft) :
                 NameOf[p.draft] = NameOf[app[a].from] =>
                     \/ a \in importer'[k].similar
                     \/ Cardinality(importer'[k].similar) = MaxSimilar
            BY <1>3, <3>2 DEF Similar, Best
        <3> QED
            BY <1>1, <1>3, <3>2, <3>3, <3>4 DEF Compared
    <2>4. ASSUME NEW d \in Drafts, ImportLooksUp(j, d) PROVE FALSE
        <3>1. importer'[k] = [Idle EXCEPT !.pc = IF source[d].app = NoApp THEN "unknown" ELSE "refresh",
                                          !.draft = d, !.app = source[d].app,
                                          !.fills = source[d].app # NoApp
                                                    /\ SameField(source[d].app, ProductOf[d]) = {}]
            BY <2>1, <2>4 DEF ImportLooksUp
        <3>2. importer'[k].pc = IF source[d].app = NoApp THEN "unknown" ELSE "refresh"
            BY <3>1 DEF Idle
        <3> QED
            BY <3>2
    <2>5. CASE ImportRefreshes(j) \/ ImportAttaches(j) \/ ImportCreates(j) \/ ImportFails(j)
        <3>1. importer'[k] = Idle
            BY <2>1, <2>5 DEF ImportRefreshes, ImportAttaches, ImportCreates, ImportFails
        <3> QED
            BY <3>1 DEF Idle
    <2> QED
        BY <1>5, <2>2, <2>3, <2>4, <2>5 DEF ImportStep
<1>6. CASE CommandStep \/ EditorStep \/ UNCHANGED importVars
    BY <1>4, <1>6 DEF CommandStep, EditorStep, MergePlans, MergeApplies, SplitPlans, SplitApplies,
                      DismissPlans, DismissApplies, EditorDecides, EditorEdits, importVars
<1> QED
    BY <1>4, <1>5, <1>6 DEF ImportNext

\* The cards that a card is a candidate of.
Candidates(b) == {c \in Ids : pair[b][c] # "none"}

\* A new card differs in product from all it was compared with, and is related to those
\* with its name, or to as many as the limit allows.
LEMMA CreationNoticesDuplicates ==
    ASSUME Structure, LookupsAreSound, NEW j \in Importers, Created(j), CardMade(importer[j].draft),
           importer[j].draft \notin Registry, NEW a \in Existing, <<NewId, a>> \notin missed'
    PROVE  /\ ProductOf[importer[j].draft] # ProductOf[app[a].from]
           /\ NameOf[importer[j].draft] = NameOf[app[a].from] =>
                 \A b \in {NewId} :
                     pair'[b][a] # "none" \/ Cardinality(Candidates(b)') = MaxSimilar
<1> DEFINE p == importer[j]
<1>1. p.pc = "create" /\ missed' = missed \cup {<<NewId, k>> : k \in Existing \ p.seen}
    BY DEF Created, ImportCreates
<1>2. a \in p.seen
    BY <1>1
<1>3. Compared(p)
    BY <1>1 DEF LookupsAreSound
<1>4. a \in Ids /\ NewId \in Ids /\ p.similar \in SUBSET Ids
    BY NewIdIsUnused, TableTypes, ImporterTypes DEF CardMade, Structure
<1>5. pair'[NewId] = [c \in Ids |-> IF c \in p.similar THEN "pending" ELSE "none"]
    BY <1>4 DEF Created, ImportCreates, Structure, ImportTypeOK
<1>6. \A c \in Ids : pair'[NewId][c] # "none" <=> c \in p.similar
    BY <1>5
<1>7. \A b \in {NewId} : Candidates(b)' = p.similar
    BY <1>4, <1>6 DEF Candidates
<1>8. NameOf[p.draft] = NameOf[app[a].from] =>
          a \in p.similar \/ Cardinality(p.similar) = MaxSimilar
    BY <1>1, <1>2, <1>3 DEF Compared
<1>9. ProductOf[p.draft] # ProductOf[app[a].from]
    BY <1>2, <1>3 DEF Compared
<1> HIDE DEF p
<1>10. NameOf[p.draft] = NameOf[app[a].from] =>
          \A b \in {NewId} :
              pair'[b][a] # "none" \/ Cardinality(Candidates(b)') = MaxSimilar
    BY <1>4, <1>6, <1>7, <1>8
<1> QED
    BY <1>9, <1>10 DEF p

\* The history of what imports could not compare only grows.
LEMMA MissedGrows ==
    ASSUME [ImportNext]_importVars
    PROVE  missed \subseteq missed'
    BY DEF ImportNext, ImportStep, CommandStep, EditorStep, ImportLooksUp, ImportRefreshes,
           ImportMatches, ImportAttaches, ImportCompares, ImportCreates, ImportFails, MergePlans,
           MergeApplies, SplitPlans, SplitApplies, DismissPlans, DismissApplies, EditorDecides,
           EditorEdits, importVars

\* A relation between two cards is never taken back, and none comes later.
LEMMA RelationsStay ==
    ASSUME Structure, [ImportNext]_importVars, NEW b \in Existing
    PROVE  /\ \A a \in Ids : pair'[b][a] # "none" <=> pair[b][a] # "none"
           /\ Candidates(b)' = Candidates(b)
<1>1. b \in Ids
    BY DEF Existing
<1>2. ASSUME NEW j \in Importers, Created(j) PROVE b # NewId
    BY <1>2, NewIdIsUnused DEF Created, ImportCreates
<1>3. \A a \in Ids : pair'[b][a] # "none" <=> pair[b][a] # "none"
    BY <1>1, <1>2, PairsOfStep
<1>4. {c \in Ids : pair'[b][c] # "none"} = {c \in Ids : pair[b][c] # "none"}
    BY <1>3
<1> QED
    BY <1>3, <1>4 DEF Candidates

\* A card with the name of another one is its candidate, or has as many as it may.
Noticed(b, a) == pair[b][a] # "none" \/ Cardinality(Candidates(b)) = MaxSimilar

\* Duplicates are noticed, after every step.
LEMMA DuplicatesStayNoticed ==
    ASSUME Structure, LookupsAreSound, DuplicatesAreNoticed, [ImportNext]_importVars
    PROVE  DuplicatesAreNoticed'
<1> SUFFICES ASSUME NEW b \in Existing', NEW a \in Existing',
                    a < b, app'[b].from \notin Registry, <<b, a>> \notin missed'
             PROVE  /\ ProductOf[app'[b].from] # ProductOf[app'[a].from]
                    /\ NameOf[app'[b].from] = NameOf[app'[a].from] => Noticed(b, a)'
    BY DEF DuplicatesAreNoticed, Noticed, Candidates
<1>1. \A i \in Existing : app'[i].from = app[i].from
    BY CardsStay DEF Structure
<1>2. ASSUME b \in Existing, a \in Existing
      PROVE  /\ ProductOf[app'[b].from] # ProductOf[app'[a].from]
             /\ NameOf[app'[b].from] = NameOf[app'[a].from] => Noticed(b, a)'
    <2>1. <<b, a>> \notin missed
        BY MissedGrows
    <2>2. /\ ProductOf[app[b].from] # ProductOf[app[a].from]
          /\ NameOf[app[b].from] = NameOf[app[a].from] => Noticed(b, a)
        BY <1>1, <1>2, <2>1 DEF DuplicatesAreNoticed, Noticed, Candidates
    <2>3. a \in Ids /\ b \in Ids
        BY <1>2 DEF Existing
    <2>4. Noticed(b, a) => Noticed(b, a)'
        BY <1>2, <2>3, RelationsStay DEF Noticed
    <2> QED
        BY <1>1, <1>2, <2>2, <2>4
<1>3. ASSUME NEW d \in Drafts, CardMade(d), b \notin Existing \/ a \notin Existing
      PROVE  b = NewId /\ a \in Existing /\ app'[b].from = d
    <2>1. Free # {} /\ b \in Existing \cup {NewId} /\ a \in Existing \cup {NewId}
        BY <1>3 DEF CardMade
    <2>2. NewId \in 1..MaxApps /\ MaxApps \in Nat /\ \A i \in Existing : i < NewId /\ i \in 1..MaxApps
        BY <2>1, NewIdIsUnused, ImportAssumption DEF Ids, Existing
    <2>3. a # NewId
        BY <2>1, <2>2
    <2> QED
        BY <1>3, <2>1, <2>3 DEF CardMade
<1>4. CASE CardsKept
    BY <1>2, <1>4 DEF CardsKept
<1>5. ASSUME NEW j \in Importers, Created(j), CardMade(importer[j].draft)
      PROVE  /\ ProductOf[app'[b].from] # ProductOf[app'[a].from]
             /\ NameOf[app'[b].from] = NameOf[app'[a].from] => Noticed(b, a)'
    <2>1. importer[j].draft \in Drafts
        BY ImporterTypes DEF Structure
    <2>2. CASE b \in Existing /\ a \in Existing
        BY <1>2, <2>2
    <2>3. CASE b \notin Existing \/ a \notin Existing
        <3>1. b = NewId /\ a \in Existing /\ app'[b].from = importer[j].draft
            BY <1>3, <1>5, <2>1, <2>3
        <3> QED
            BY <1>1, <1>5, <3>1, CreationNoticesDuplicates DEF Noticed
    <2> QED
        BY <2>2, <2>3
<1>6. ASSUME NEW d \in splits, CardMade(d)
      PROVE  b \in Existing /\ a \in Existing
    <2>1. d \in Drafts /\ d \in Registry
        BY ImportAssumption DEF Structure, ImportTypeOK
    <2> QED
        BY <1>3, <1>6, <2>1
<1> QED
    BY <1>2, <1>4, <1>5, <1>6, CardsOfStep DEF Structure

\* Of two cards with one product or one name the newer one was compared with the older
\* one, for any listings, products and names and any number of imports at once, with the
\* exceptions that DuplicatesAreNoticed names.
THEOREM DuplicatesNoticedCorrect == ImportSpec => []DuplicatesAreNoticed
<1> DEFINE Inv == KeysHoldProduct /\ RefreshesSpareOwn /\ LookupsAreSound /\ DuplicatesAreNoticed
<1>1. ImportInit => Inv
    <2> SUFFICES ASSUME ImportInit PROVE Inv
        OBVIOUS
    <2>1. \A i \in Existing : i = 1 /\ i \in Ids /\ Overmerged # {}
        BY DEF Existing, ImportInit, Blank
    <2>2. \A i \in Existing : app[i] = Made(Elder, "unknown")
        BY <2>1 DEF ImportInit
    <2>3. KeysHoldProduct
        BY <2>2 DEF KeysHoldProduct, Made
    <2>4. DuplicatesAreNoticed
        BY <2>1 DEF DuplicatesAreNoticed
    <2> QED
        BY <2>3, <2>4 DEF ImportInit, LookupsAreSound, RefreshesSpareOwn, Idle
<1>2. Structure /\ Inv /\ [ImportNext]_importVars => Inv'
    BY KeysStay, RefreshesStaySparing, LookupsStaySound, DuplicatesStayNoticed
<1>3. Inv => DuplicatesAreNoticed
    OBVIOUS
<1> QED
    BY <1>1, <1>2, <1>3, AlwaysStructured, PTL DEF ImportSpec

-----------------------------------------------------------------------------
(***************************************************************************)
(* What a step may never do.                                               *)
(***************************************************************************)
\* A listing changes hands by a merge or a split only.
LEMMA ListingsOfStep ==
    ASSUME Structure, [ImportNext]_importVars, NEW d \in Drafts,
           source[d].app # NoApp, source'[d].app # source[d].app
    PROVE  \/ app[source[d].app].status = "draft" /\ app'[source[d].app].status = "hidden"
           \/ app[source'[d].app].status = "none" /\ source'[d].primary
<1>1. source \in [Drafts -> Source]
    BY DEF Structure, ImportTypeOK
<1>2. ASSUME NEW j \in Importers, source[importer[j].draft].app = NoApp,
             ImportAttaches(j) \/ Created(j)
      PROVE  FALSE
    BY <1>1, <1>2 DEF ImportAttaches, Created, ImportCreates
<1>3. ASSUME NEW e \in splits, SplitOff(e)
      PROVE  app[source'[d].app].status = "none" /\ source'[d].primary
    <2>1. source' = [source EXCEPT ![e] = [app |-> NewId, primary |-> TRUE]] /\ Free # {}
        BY <1>3 DEF SplitOff, SplitApplies
    <2>2. source'[d] = [app |-> NewId, primary |-> TRUE]
        BY <1>1, <2>1
    <2> QED
        BY <2>1, <2>2, NewIdIsUnused
<1>4. ASSUME NEW p \in planned, NEW to \in Ids, NEW from \in Ids, MergeApplies(p), Mergeable(p),
             {to, from} = {p[1], p[2]}, to # from, MergeInto(p, to, from)
      PROVE  app[source[d].app].status = "draft" /\ app'[source[d].app].status = "hidden"
    <2>1. d \in SourcesOf(from)
        BY <1>4 DEF MergeInto, Moved
    <2>2. source[d].app = from
        BY <2>1 DEF SourcesOf
    <2>3. app[from].status = "draft" /\ app[to].status = "draft" /\ p \in Ids \X Ids
        BY <1>4 DEF Mergeable, Pending
    <2>4. app'[from].status = "hidden"
        BY <1>4, <2>3, MergeCards DEF Structure
    <2> QED
        BY <2>2, <2>3, <2>4
<1> QED
    BY <1>2, <1>3, <1>4, RowsOfStep DEF Created

\* A listing changes hands by a merge or a split only, and a refresh that read its row
\* before does not take it back.
THEOREM ListingsCorrect == ImportSpec => ListingsStay
<1>1. Structure /\ [ImportNext]_importVars =>
         [\A d \in Drafts :
            source[d].app # NoApp /\ source'[d].app # source[d].app =>
                \/ app[source[d].app].status = "draft" /\ app'[source[d].app].status = "hidden"
                \/ app[source'[d].app].status = "none" /\ source'[d].primary]_importVars
    BY ListingsOfStep
<1> QED
    BY <1>1, AlwaysStructured, PTL DEF ImportSpec, ListingsStay

\* A merge leaves what the hidden card had with the other one, where that had nothing.
FactsKept(from) ==
    /\ app[from].status = "draft"
    /\ \E to \in Ids \ {from} :
          /\ app'[to].status = "draft"
          /\ \A d \in SourcesOf(from) : source'[d].app = to
          /\ app[to].keys \subseteq app'[to].keys
          /\ \A k \in app[from].keys : k \in app'[to].keys \/ SameField(to, k) # {}
          /\ Known(from) => app'[to].cap = app[from].cap
          /\ Known(to) => app'[to].cap = app[to].cap

\* Only a merge hides a card, and what the card had survives on the other one.
LEMMA FactsOfStep ==
    ASSUME Structure, [ImportNext]_importVars, NEW i \in Ids,
           app[i].status # "hidden", app'[i].status = "hidden"
    PROVE  FactsKept(i)
<1>1. ASSUME NEW p \in planned, NEW to \in Ids, NEW from \in Ids \ {to}, Mergeable(p),
             {to, from} = {p[1], p[2]}, MergeInto(p, to, from)
      PROVE  FactsKept(i)
    <2>1. app[from].status = "draft" /\ app[to].status = "draft" /\ p \in Ids \X Ids
        BY <1>1 DEF Mergeable, Pending
    <2>2. /\ app'[from].status = "hidden" /\ app'[to].status = "draft"
          /\ \A k \in Ids \ {from, to} : app'[k] = app[k]
          /\ app'[to].keys = app[to].keys \cup Fills(to, from)
          /\ app'[to].cap = IF Known(to) THEN app[to].cap ELSE app[from].cap
        BY <1>1, <2>1, MergeCards DEF Structure
    <2>3. i = from
        BY <2>1, <2>2
    <2>4. \A d \in SourcesOf(from) : source'[d].app = to
        BY <1>1 DEF MergeInto, Moved, SourcesOf
    <2>5. Known(from) /\ Known(to) => app[from].cap = app[to].cap
        <3>1. ~Conflict(p[1], p[2])
            BY <1>1 DEF Mergeable
        <3> QED
            BY <1>1, <3>1 DEF Conflict
    <2>6. Known(from) => app'[to].cap = app[from].cap
        BY <2>2, <2>5
    <2>7. \A k \in app[from].keys : k \in app'[to].keys \/ SameField(to, k) # {}
        BY <2>2 DEF Fills
    <2> QED
        BY <2>1, <2>2, <2>3, <2>4, <2>6, <2>7 DEF FactsKept
<1>2. ASSUME NEW p \in planned, MergeApplies(p) PROVE FactsKept(i)
    <2>1. Mergeable(p)
        BY <1>2 DEF MergeApplies
    <2>2. p[1] \in Ids /\ p[2] \in Ids /\ p[1] # p[2]
        BY <2>1, MergeableCards DEF Structure
    <2>3. MergeInto(p, p[1], p[2]) \/ MergeInto(p, p[2], p[1])
        BY <1>2, <2>1 DEF MergeApplies
    <2> QED
        BY <1>1, <2>1, <2>2, <2>3
<1>3. ASSUME NEW d, Free # {}, \E cap \in Verdicts : app' = [app EXCEPT ![NewId] = Made(d, cap)]
      PROVE  FALSE
    <2>1. PICK cap \in Verdicts : app' = [app EXCEPT ![NewId] = Made(d, cap)]
        BY <1>3
    <2>2. app \in [Ids -> App] /\ NewId \in Ids
        BY <1>3, NewIdIsUnused DEF Structure, ImportTypeOK
    <2>3. app'[i] = app[i] \/ app'[i] = Made(d, cap)
        BY <2>1, <2>2
    <2> QED
        BY <2>3 DEF Made
<1>4. ASSUME NEW j \in Importers, ImportStep(j) PROVE FALSE
    <2>1. CASE ImportCreates(j)
        BY <1>3, <2>1 DEF ImportCreates
    <2>2. CASE ImportRefreshes(j)
        BY <2>2, WritesHideNothing
    <2> QED
        BY <1>4, <2>1, <2>2 DEF ImportStep, ImportLooksUp, ImportMatches, ImportAttaches,
                                ImportCompares, ImportFails
<1>5. ASSUME NEW d \in splits, SplitApplies(d) PROVE FALSE
    BY <1>3, <1>5 DEF SplitApplies
<1>6. ASSUME NEW k \in Ids, EditorEdits(k) PROVE FALSE
    BY <1>6, WritesHideNothing
<1>7. CASE MergePlans \/ SplitPlans \/ DismissPlans \/ DismissApplies \/ UNCHANGED importVars
           \/ \E b, a \in Ids, status \in {"confirmed", "dismissed"} : EditorDecides(b, a, status)
    BY <1>7 DEF MergePlans, SplitPlans, DismissPlans, DismissApplies, EditorDecides, importVars
<1> QED
    BY <1>2, <1>4, <1>5, <1>6, <1>7 DEF ImportNext, CommandStep, EditorStep

\* What a merge hides survives on the other card wherever that one had nothing of its
\* own, which it keeps; and what was published, or was decided about, stays.
THEOREM MergeCorrect == ImportSpec => MergeKeepsFacts
<1>1. Structure /\ [ImportNext]_importVars =>
         [\A from \in Ids :
            app[from].status # "hidden" /\ app'[from].status = "hidden" =>
                /\ app[from].status = "draft"
                /\ \E to \in Ids \ {from} :
                      /\ app'[to].status = "draft"
                      /\ \A d \in SourcesOf(from) : source'[d].app = to
                      /\ app[to].keys \subseteq app'[to].keys
                      /\ \A k \in app[from].keys :
                            k \in app'[to].keys \/ SameField(to, k) # {}
                      /\ Known(from) => app'[to].cap = app[from].cap
                      /\ Known(to) => app'[to].cap = app[to].cap]_importVars
    BY FactsOfStep DEF FactsKept
<1> QED
    BY <1>1, AlwaysStructured, PTL DEF ImportSpec, MergeKeepsFacts

\* A decision about a pair is kept by every step that is not an editor's.
LEMMA DecisionsOfStep ==
    ASSUME Structure, [ImportNext]_importVars, NEW b \in Ids, NEW a \in Ids,
           pair[b][a] \in {"confirmed", "dismissed"}, ~EditorStep
    PROVE  pair'[b][a] = pair[b][a]
<1>1. ASSUME NEW j \in Importers, ImportStep(j) PROVE pair'[b][a] = pair[b][a]
    <2>1. CASE Created(j)
        <3>1. b # NewId
            BY <2>1, NewIdIsUnused DEF Created, ImportCreates
        <3> QED
            BY <2>1, <3>1 DEF Created, ImportCreates, Structure, ImportTypeOK
    <2>2. CASE ~Created(j)
        BY <1>1, <2>2 DEF ImportStep, ImportLooksUp, ImportRefreshes, ImportMatches, ImportAttaches,
                          ImportCompares, ImportCreates, ImportFails, Created
    <2> QED
        BY <2>1, <2>2
<1>2. ASSUME NEW p \in planned, MergeApplies(p) PROVE pair'[b][a] = pair[b][a]
    <2>1. CASE Mergeable(p)
        <3>1. pair[p[1]][p[2]] = "pending" /\ p = <<p[1], p[2]>>
            BY <2>1 DEF Mergeable, Pending
        <3>2. pair' = [c \in Ids |-> [k \in Ids |->
                         IF <<c, k>> = p \/ (<<k, c>> = p /\ pair[c][k] = "pending")
                         THEN "confirmed" ELSE pair[c][k]]]
            BY <1>2, <2>1 DEF MergeApplies, MergeInto
        <3>3. <<b, a>> # p
            BY <3>1
        <3> QED
            BY <3>2, <3>3
    <2>2. CASE ~Mergeable(p)
        BY <1>2, <2>2 DEF MergeApplies
    <2> QED
        BY <2>1, <2>2
<1>3. CASE DismissApplies
    <2>1. <<b, a>> \notin Pending
        BY DEF Pending
    <2> QED
        BY <1>3, <2>1 DEF DismissApplies
<1>4. CASE MergePlans \/ SplitPlans \/ DismissPlans \/ (\E d \in splits : SplitApplies(d))
           \/ UNCHANGED importVars
    BY <1>4 DEF MergePlans, SplitPlans, DismissPlans, SplitApplies, importVars
<1> QED
    BY <1>1, <1>2, <1>3, <1>4 DEF ImportNext, CommandStep

\* A decision about a pair of cards is overruled by an editor only, and not by a command
\* that planned before it.
THEOREM DecisionsCorrect == ImportSpec => DecisionsStay
<1>1. Structure /\ [ImportNext]_importVars =>
         [\A b, a \in Ids :
            pair[b][a] \in {"confirmed", "dismissed"} =>
                pair'[b][a] = pair[b][a] \/ EditorStep]_importVars
    BY DecisionsOfStep
<1> QED
    BY <1>1, AlwaysStructured, PTL DEF ImportSpec, DecisionsStay

=============================================================================
