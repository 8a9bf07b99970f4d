-------------------------- MODULE CardViewsProofs --------------------------
(***************************************************************************)
(* The sitemap and the search vector of a card, for any number of readers, *)
(* workers, saves, lost purges and dying workers.                          *)
(***************************************************************************)
EXTENDS CardViews, TLAPS

-----------------------------------------------------------------------------
(* The sitemap                                                             *)

\* A rendering is that of the catalogue as it is, or its purge is still due,
\* or it has missed it.
Excused(x) == x # NoEntry => x.at = listed \/ purges > 0 \/ x.missed

SitemapCounts ==
    /\ listed \in 0 .. MaxSaves
    /\ open \in BOOLEAN
    /\ open => listed < MaxSaves
    /\ purges \in 0 .. listed
    /\ lost \in 0 .. MaxLost

SitemapRenderings ==
    /\ entry \in Rendering \cup {NoEntry}
    /\ rendering \in [Readers -> Rendering \cup {NoEntry}]

\* The same holds of what requests are about to store; no more purges are due
\* than saves were committed, and an open save is within the bound.
SitemapInv ==
    /\ SitemapCounts
    /\ SitemapRenderings
    /\ Excused(entry)
    /\ \A r \in Readers : Excused(rendering[r])

\* The cache starts empty.
LEMMA SitemapInitially == SitemapInit => SitemapInv
<1> SUFFICES ASSUME SitemapInit PROVE SitemapInv
  OBVIOUS
<1>1. SitemapCounts
  <2>1. open \in BOOLEAN /\ ~open
    BY DEF SitemapInit
  <2> QED
    BY <2>1, SitemapAssumption DEF SitemapInit, SitemapCounts
<1>2. SitemapRenderings
  BY DEF SitemapInit, SitemapRenderings
<1>3. Excused(entry) /\ \A r \in Readers : Excused(rendering[r])
  BY DEF SitemapInit, Excused
<1> QED
  BY <1>1, <1>2, <1>3 DEF SitemapInv

\* A purge marks what is being rendered.
LEMMA MissedIsExcused ==
  ASSUME NEW x \in Rendering \cup {NoEntry}
  PROVE  /\ Missed(x) \in Rendering \cup {NoEntry}
         /\ Missed(x) # NoEntry => Missed(x).missed
  BY DEF Missed, Rendering

\* The steps of a save leave the renderings as they are; a commit makes them
\* old and its purge due.
LEMMA SaveStep ==
  ASSUME SitemapInv, SaveBegins \/ SaveCommits \/ SaveRollsBack
  PROVE  SitemapInv'
<1>1. CASE SaveBegins
  <2>1. SitemapCounts'
    BY <1>1 DEF SaveBegins, SitemapInv, SitemapCounts
  <2> QED
    BY <1>1, <2>1 DEF SaveBegins, SitemapInv, SitemapRenderings, Excused
<1>2. CASE SaveRollsBack
  <2>1. SitemapCounts'
    BY <1>2 DEF SaveRollsBack, SitemapInv, SitemapCounts
  <2> QED
    BY <1>2, <2>1 DEF SaveRollsBack, SitemapInv, SitemapRenderings, Excused
<1>3. CASE SaveCommits
  <2>1. listed < MaxSaves /\ listed \in 0 .. MaxSaves /\ purges \in 0 .. listed
    BY <1>3 DEF SaveCommits, SitemapInv, SitemapCounts
  <2>2. listed' \in 0 .. MaxSaves /\ purges' \in 0 .. listed' /\ purges' > 0
    BY <1>3, <2>1, SitemapAssumption DEF SaveCommits
  <2>3. SitemapCounts'
    BY <1>3, <2>2 DEF SaveCommits, SitemapInv, SitemapCounts
  <2> QED
    BY <1>3, <2>2, <2>3 DEF SaveCommits, SitemapInv, SitemapRenderings, Excused
<1> QED
  BY <1>1, <1>2, <1>3

\* What drops the cache, or marks it, leaves nothing to excuse.
LEMMA DropStep ==
  ASSUME SitemapInv, SitemapCounts', UNCHANGED listed,
         entry' \in {NoEntry, Missed(entry)},
         rendering' = [r \in Readers |-> Missed(rendering[r])]
  PROVE  SitemapInv'
<1>1. /\ Missed(entry) \in Rendering \cup {NoEntry}
      /\ Missed(entry) # NoEntry => Missed(entry).missed
  BY MissedIsExcused DEF SitemapInv, SitemapRenderings
<1>2. ASSUME NEW r \in Readers
      PROVE  /\ rendering'[r] \in Rendering \cup {NoEntry}
             /\ rendering'[r] # NoEntry => rendering'[r].missed
  <2>1. rendering[r] \in Rendering \cup {NoEntry} /\ rendering'[r] = Missed(rendering[r])
    BY DEF SitemapInv, SitemapRenderings
  <2> QED
    BY <2>1, MissedIsExcused
<1>3. SitemapRenderings'
  BY <1>1, <1>2 DEF SitemapRenderings
<1> QED
  BY <1>1, <1>2, <1>3 DEF SitemapInv, Excused

\* Everything else that happens to the sitemap.
LEMMA SitemapRunsStep ==
  ASSUME SitemapInv, SitemapRuns
  PROVE  SitemapInv'
<1>0. SitemapCounts /\ SitemapRenderings
  BY DEF SitemapInv
<1>1. CASE Purge
  <2>1. SitemapCounts'
    BY <1>0, <1>1 DEF Purge, SitemapCounts
  <2> QED
    BY <1>1, <2>1, DropStep DEF Purge, Dropped
<1>2. CASE PurgeIsLost
  <2>1. purges' \in 0 .. listed /\ lost' \in 0 .. MaxLost
    BY <1>0, <1>2, SitemapAssumption DEF PurgeIsLost, SitemapCounts
  <2>2. SitemapCounts'
    BY <1>0, <1>2, <2>1 DEF PurgeIsLost, SitemapCounts
  <2> QED
    BY <1>2, <2>2, DropStep DEF PurgeIsLost
<1>3. CASE RebuildSitemap
  <2>1. SitemapCounts'
    BY <1>0, <1>3 DEF RebuildSitemap, SitemapCounts
  <2> QED
    BY <1>3, <2>1, DropStep DEF RebuildSitemap, Dropped
<1>4. CASE EntryExpires
  <2>1. SitemapCounts'
    BY <1>0, <1>4 DEF EntryExpires, SitemapCounts
  <2> QED
    BY <1>4, <2>1 DEF EntryExpires, SitemapInv, SitemapRenderings, Excused
<1>5. ASSUME NEW r \in Readers, RequestReads(r) PROVE SitemapInv'
  <2>1. SitemapCounts'
    BY <1>0, <1>5 DEF RequestReads, SitemapCounts
  <2>2. [at |-> listed, missed |-> FALSE] \in Rendering
    BY <1>0 DEF Rendering, SitemapCounts
  <2>3. SitemapRenderings'
    BY <1>0, <1>5, <2>2 DEF RequestReads, SitemapRenderings
  <2>4. Excused(entry)'
    BY <1>5 DEF RequestReads, Excused
  <2>5. ASSUME NEW q \in Readers PROVE Excused(rendering[q])'
    <3>1. CASE q = r
      <4>1. rendering'[q] = [at |-> listed, missed |-> FALSE]
        BY <1>0, <1>5, <3>1 DEF RequestReads, SitemapRenderings
      <4>2. rendering'[q].at = listed /\ listed' = listed
        BY <1>5, <4>1 DEF RequestReads
      <4> QED
        BY <4>2 DEF Excused
    <3>2. CASE q # r
      <4>1. rendering'[q] = rendering[q] /\ listed' = listed /\ purges' = purges
        BY <1>0, <1>5, <3>2 DEF RequestReads, SitemapRenderings
      <4> QED
        BY <4>1 DEF SitemapInv, Excused
    <3> QED
      BY <3>1, <3>2
  <2> QED
    BY <2>1, <2>3, <2>4, <2>5 DEF SitemapInv
<1>6. ASSUME NEW r \in Readers, RequestStores(r) PROVE SitemapInv'
  <2>1. SitemapCounts'
    BY <1>0, <1>6 DEF RequestStores, SitemapCounts
  <2>2. SitemapRenderings'
    BY <1>0, <1>6 DEF RequestStores, SitemapRenderings
  <2>3. entry' = rendering[r] /\ listed' = listed /\ purges' = purges
    BY <1>6 DEF RequestStores
  <2>4. \A q \in Readers : rendering'[q] \in {rendering[q], NoEntry}
    BY <1>0, <1>6 DEF RequestStores, SitemapRenderings
  <2> QED
    BY <2>1, <2>2, <2>3, <2>4 DEF SitemapInv, Excused
<1> QED
  BY <1>1, <1>2, <1>3, <1>4, <1>5, <1>6 DEF SitemapRuns

\* A step in which the sitemap rests.
LEMMA SitemapRests ==
  ASSUME SitemapInv, UNCHANGED sitemapVars
  PROVE  SitemapInv'
  BY DEF SitemapInv, SitemapCounts, SitemapRenderings, Excused, sitemapVars

-----------------------------------------------------------------------------
(* The search vector                                                       *)

WorkerTypeOK ==
    /\ taxa \in Taxa
    /\ refreshes \in Nat
    /\ worker \in [Workers -> Held \cup {Idle}]
    /\ deaths \in Nat

\* An old name has a refresh on its way, unless one died.
NamesAreComing ==
    deaths = 0 /\ vector.names # NotBuilt =>
        \/ vector.names = names
        \/ refreshes > 0
        \/ \E w \in Workers : worker[w] # Idle

\* A vector that disagrees with the text has a writer on its way.
TextIsComing ==
    deaths = 0 /\ vector.names # NotBuilt =>
        \/ vector.taxa = indexText
        \/ \E w \in Workers : worker[w] # Idle /\ worker[w].step = "vector"

IndexInv == WorkerTypeOK /\ NamesAreComing /\ TextIsComing

\* No vector has been built.
LEMMA IndexInitially == IndexInit => IndexInv
  BY IndexAssumption DEF IndexInit, IndexInv, WorkerTypeOK, NamesAreComing,
         TextIsComing, Taxa

\* The card changes.
LEMMA ChangeStep ==
  ASSUME IndexInv, NamesCommit \/ TaxaCommit \/ TaxaChangeQuietly
  PROVE  IndexInv'
<1>1. CASE NamesCommit
  BY <1>1 DEF NamesCommit, IndexInv, WorkerTypeOK, NamesAreComing, TextIsComing
<1>2. CASE TaxaCommit
  BY <1>2, IndexAssumption DEF TaxaCommit, IndexInv, WorkerTypeOK, NamesAreComing,
         TextIsComing, Taxa
<1>3. CASE TaxaChangeQuietly
  BY <1>3, IndexAssumption DEF TaxaChangeQuietly, IndexInv, WorkerTypeOK, NamesAreComing,
         TextIsComing, Taxa
<1> QED
  BY <1>1, <1>2, <1>3

\* One worker goes on.
LEMMA WorkerStep ==
  ASSUME IndexInv, NEW w \in Workers, WorkerSteps(w)
  PROVE  IndexInv'
<1>0. WorkerTypeOK
  BY DEF IndexInv
<1>1. CASE WorkerReads(w)
  <2>1. [step |-> "text", taxa |-> taxa] \in Held
    BY <1>0 DEF WorkerTypeOK, Held
  <2>2. /\ worker' \in [Workers -> Held \cup {Idle}]
        /\ worker'[w] # Idle
        /\ \A v \in Workers \ {w} : worker'[v] = worker[v]
        /\ worker[w] = Idle
    BY <1>0, <1>1, <2>1, IdleAssumption DEF WorkerReads, WorkerTypeOK
  <2>3. WorkerTypeOK'
    BY <1>0, <1>1, <2>2 DEF WorkerReads, WorkerTypeOK
  <2>4. NamesAreComing'
    BY <2>2 DEF NamesAreComing
  <2>5. TextIsComing'
    BY <1>1, <2>2 DEF WorkerReads, IndexInv, TextIsComing
  <2> QED
    BY <2>3, <2>4, <2>5 DEF IndexInv
<1>2. CASE WorkerWritesText(w)
  <2>1. worker[w] \in Held
    BY <1>0, <1>2 DEF WorkerWritesText, WorkerTypeOK
  <2>2. /\ [worker[w] EXCEPT !.step = "vector"] \in Held
        /\ [worker[w] EXCEPT !.step = "vector"].step = "vector"
    BY <2>1 DEF Held
  <2>3. /\ worker' \in [Workers -> Held \cup {Idle}]
        /\ worker'[w] # Idle
        /\ worker'[w].step = "vector"
    BY <1>0, <1>2, <2>2, IdleAssumption DEF WorkerWritesText, WorkerTypeOK
  <2>4. WorkerTypeOK'
    BY <1>0, <1>2, <2>3 DEF WorkerWritesText, WorkerTypeOK
  <2> QED
    BY <2>3, <2>4 DEF IndexInv, NamesAreComing, TextIsComing
<1>3. CASE WorkerWritesVector(w)
  <2>1. vector' = [names |-> names, taxa |-> indexText] /\ UNCHANGED <<names, indexText>>
    BY <1>3 DEF WorkerWritesVector
  <2>2. vector'.names = names' /\ vector'.taxa = indexText'
    BY <2>1
  <2>3. WorkerTypeOK'
    BY <1>0, <1>3 DEF WorkerWritesVector, WorkerTypeOK
  <2> QED
    BY <2>2, <2>3 DEF IndexInv, NamesAreComing, TextIsComing
<1> QED
  BY <1>1, <1>2, <1>3 DEF WorkerSteps

\* A worker or the nightly batch dies: nothing is claimed from then on.
LEMMA DeathStep ==
  ASSUME IndexInv, (\E w \in Workers : WorkerDies(w)) \/ NightlyFails
  PROVE  IndexInv'
<1>0. WorkerTypeOK
  BY DEF IndexInv
<1>1. deaths' \in Nat /\ deaths' # 0
  BY <1>0 DEF WorkerDies, NightlyFails, WorkerTypeOK
<1>2. worker' \in [Workers -> Held \cup {Idle}]
  BY <1>0 DEF WorkerDies, NightlyFails, WorkerTypeOK
<1>3. UNCHANGED <<taxa, refreshes>>
  BY DEF WorkerDies, NightlyFails
<1> QED
  BY <1>0, <1>1, <1>2, <1>3 DEF IndexInv, WorkerTypeOK, NamesAreComing, TextIsComing

\* The nightly batch writes text and vector together.
LEMMA NightlyStep ==
  ASSUME IndexInv, NightlyReads \/ NightlyCommits
  PROVE  IndexInv'
<1>1. CASE NightlyReads
  BY <1>1 DEF NightlyReads, IndexInv, WorkerTypeOK, NamesAreComing, TextIsComing
<1>2. CASE NightlyCommits
  <2>1. /\ vector' = [names |-> names, taxa |-> nightly.taxa]
        /\ indexText' = nightly.taxa /\ names' = names
    BY <1>2 DEF NightlyCommits
  <2>2. vector'.names = names' /\ vector'.taxa = indexText'
    BY <2>1
  <2>3. WorkerTypeOK'
    BY <1>2 DEF NightlyCommits, IndexInv, WorkerTypeOK
  <2> QED
    BY <2>2, <2>3 DEF IndexInv, NamesAreComing, TextIsComing
<1> QED
  BY <1>1, <1>2

\* A step in which the index rests.
LEMMA IndexRests ==
  ASSUME IndexInv, UNCHANGED indexVars
  PROVE  IndexInv'
  BY DEF IndexInv, WorkerTypeOK, NamesAreComing, TextIsComing, indexVars

-----------------------------------------------------------------------------
(* Both                                                                    *)

\* Every step of either keeps the invariants of both.
LEMMA ViewsStep ==
  SitemapInv /\ IndexInv /\ [ViewsNext]_viewsVars => SitemapInv' /\ IndexInv'
<1> SUFFICES ASSUME SitemapInv, IndexInv, [ViewsNext]_viewsVars
             PROVE  SitemapInv' /\ IndexInv'
  OBVIOUS
<1>1. CASE CardCommits
  BY <1>1, SaveStep, ChangeStep DEF CardCommits
<1>2. CASE SaveInTransaction
  BY <1>2, SaveStep, IndexRests DEF SaveInTransaction
<1>3. CASE TaxonomyChanges
  BY <1>3, ChangeStep, SitemapRests DEF TaxonomyChanges
<1>4. CASE SitemapRuns /\ UNCHANGED indexVars
  BY <1>4, SitemapRunsStep, IndexRests
<1>5. CASE IndexRuns /\ UNCHANGED sitemapVars
  <2>1. IndexInv'
    BY <1>5, WorkerStep, DeathStep, NightlyStep DEF IndexRuns
  <2> QED
    BY <1>5, <2>1, SitemapRests
<1>6. CASE UNCHANGED viewsVars
  BY <1>6, SitemapRests, IndexRests DEF viewsVars
<1> QED
  BY <1>1, <1>2, <1>3, <1>4, <1>5, <1>6 DEF ViewsNext

\* The two invariants hold of every behaviour.
LEMMA ViewsInvariant == ViewsSpec => [](SitemapInv /\ IndexInv)
<1>1. ViewsInit => SitemapInv /\ IndexInv
  BY SitemapInitially, IndexInitially DEF ViewsInit
<1>2. SitemapInv /\ IndexInv /\ [ViewsNext]_viewsVars => SitemapInv' /\ IndexInv'
  BY ViewsStep
<1> QED
  BY <1>1, <1>2, PTL DEF ViewsSpec

\* A sitemap older than the catalogue is served only while its purge is due,
\* or after it missed one.
THEOREM StalenessCorrect == ViewsSpec => []StaleOnlyInWindow
<1>1. SitemapInv /\ IndexInv => StaleOnlyInWindow
  BY DEF SitemapInv, Excused, StaleOnlyInWindow
<1> QED
  BY <1>1, ViewsInvariant, PTL

\* Once the refreshes have come to rest, and none died, the vector shows the
\* card's names and the text it was built from.
THEOREM QuietIndexCorrect == ViewsSpec => []QuietIndexFollowsTheRow
<1>1. SitemapInv /\ IndexInv => QuietIndexFollowsTheRow
  BY DEF IndexInv, WorkerTypeOK, NamesAreComing, TextIsComing, QuietIndexFollowsTheRow
<1> QED
  BY <1>1, ViewsInvariant, PTL

-----------------------------------------------------------------------------
(* Types                                                                   *)

\* No more refreshes are queued than changes of the card asked for.
IndexTypes == IndexTypeOK /\ refreshes <= names + taxa

\* A change of the card is counted, with the refresh it asks for.
LEMMA ChangeTyped ==
  ASSUME IndexTypes, NamesCommit \/ TaxaCommit \/ TaxaChangeQuietly
  PROVE  IndexTypes'
<1>1. /\ names \in Nat /\ taxa \in Nat /\ refreshes \in Nat /\ names <= MaxEdits /\ taxa <= MaxTaxa
      /\ refreshes <= names + taxa /\ MaxEdits \in Nat /\ MaxTaxa \in Nat
  BY IndexAssumption DEF IndexTypes, IndexTypeOK, Names, Taxa
<1>2. names' \in Names /\ taxa' \in Taxa /\ refreshes' \in 0 .. MaxEdits + MaxTaxa
      /\ refreshes' <= names' + taxa'
  BY <1>1 DEF NamesCommit, TaxaCommit, TaxaChangeQuietly, Names, Taxa
<1>3. UNCHANGED <<indexText, vector, worker, nightly, deaths>>
  BY DEF NamesCommit, TaxaCommit, TaxaChangeQuietly
<1> QED
  BY <1>2, <1>3 DEF IndexTypes, IndexTypeOK

\* A refresh that runs writes what the row has.
LEMMA WorkerTyped ==
  ASSUME IndexTypes, NEW w \in Workers, WorkerSteps(w) \/ WorkerDies(w)
  PROVE  IndexTypes'
<1>1. /\ names \in Names /\ taxa \in Taxa /\ refreshes \in 0 .. MaxEdits + MaxTaxa
      /\ refreshes <= names + taxa /\ deaths \in 0 .. MaxDeaths
      /\ worker \in [Workers -> Held \cup {Idle}]
      /\ indexText \in Taxa \cup {NotBuilt}
  BY DEF IndexTypes, IndexTypeOK
<1>2. names \in Nat /\ taxa \in Nat /\ MaxEdits \in Nat /\ MaxTaxa \in Nat
  BY <1>1, IndexAssumption DEF Names, Taxa
<1>3. CASE WorkerReads(w)
  <2>1. [step |-> "text", taxa |-> taxa] \in Held
    BY <1>1 DEF Held
  <2>2. worker' \in [Workers -> Held \cup {Idle}]
    BY <1>1, <1>3, <2>1 DEF WorkerReads
  <2>3. refreshes' \in 0 .. MaxEdits + MaxTaxa /\ refreshes' <= names + taxa
    BY <1>1, <1>2, <1>3 DEF WorkerReads
  <2> QED
    BY <1>3, <2>2, <2>3 DEF WorkerReads, IndexTypes, IndexTypeOK
<1>4. CASE WorkerWritesText(w)
  <2>1. worker[w] \in Held
    BY <1>1, <1>4 DEF WorkerWritesText
  <2>2. worker[w].taxa \in Taxa /\ [worker[w] EXCEPT !.step = "vector"] \in Held
    BY <2>1 DEF Held
  <2>3. worker' \in [Workers -> Held \cup {Idle}] /\ indexText' \in Taxa \cup {NotBuilt}
    BY <1>1, <1>4, <2>2 DEF WorkerWritesText
  <2> QED
    BY <1>4, <2>3 DEF WorkerWritesText, IndexTypes, IndexTypeOK
<1>5. CASE WorkerWritesVector(w)
  <2>1. vector' \in [names : Names \cup {NotBuilt}, taxa : Taxa \cup {NotBuilt}]
    BY <1>1, <1>5 DEF WorkerWritesVector
  <2>2. worker' \in [Workers -> Held \cup {Idle}]
    BY <1>1, <1>5 DEF WorkerWritesVector
  <2> QED
    BY <1>5, <2>1, <2>2 DEF WorkerWritesVector, IndexTypes, IndexTypeOK
<1>6. CASE WorkerDies(w)
  <2>1. worker' \in [Workers -> Held \cup {Idle}] /\ deaths' \in 0 .. MaxDeaths
    BY <1>1, <1>6, IndexAssumption DEF WorkerDies
  <2> QED
    BY <1>6, <2>1 DEF WorkerDies, IndexTypes, IndexTypeOK
<1> QED
  BY <1>3, <1>4, <1>5, <1>6 DEF WorkerSteps

\* So does the nightly batch.
LEMMA NightlyTyped ==
  ASSUME IndexTypes, NightlyReads \/ NightlyCommits \/ NightlyFails
  PROVE  IndexTypes'
<1>1. CASE NightlyReads
  <2>1. nightly' \in Held
    BY <1>1 DEF NightlyReads, IndexTypes, IndexTypeOK, Held
  <2> QED
    BY <1>1, <2>1 DEF NightlyReads, IndexTypes, IndexTypeOK
<1>2. CASE NightlyCommits
  <2>1. nightly.taxa \in Taxa /\ names \in Names
    BY <1>2 DEF NightlyCommits, IndexTypes, IndexTypeOK, Held
  <2>2. /\ indexText' \in Taxa \cup {NotBuilt}
        /\ vector' \in [names : Names \cup {NotBuilt}, taxa : Taxa \cup {NotBuilt}]
    BY <1>2, <2>1 DEF NightlyCommits
  <2> QED
    BY <1>2, <2>2 DEF NightlyCommits, IndexTypes, IndexTypeOK
<1>3. CASE NightlyFails
  <2>1. deaths' \in 0 .. MaxDeaths
    BY <1>3, IndexAssumption DEF NightlyFails, IndexTypes, IndexTypeOK
  <2> QED
    BY <1>3, <2>1 DEF NightlyFails, IndexTypes, IndexTypeOK
<1> QED
  BY <1>1, <1>2, <1>3

\* A step in which the index rests.
LEMMA IndexTypesRest ==
  ASSUME IndexTypes, UNCHANGED indexVars
  PROVE  IndexTypes'
  BY DEF IndexTypes, IndexTypeOK, indexVars

\* The types of the search index hold in every reachable state.
LEMMA IndexTypesInvariant == ViewsSpec => []IndexTypes
<1>1. ViewsInit => IndexTypes
  BY IndexAssumption DEF ViewsInit, IndexInit, IndexTypes, IndexTypeOK, Names, Taxa
<1>2. IndexTypes /\ [ViewsNext]_viewsVars => IndexTypes'
  <2> SUFFICES ASSUME IndexTypes, [ViewsNext]_viewsVars PROVE IndexTypes'
    OBVIOUS
  <2>1. CASE CardCommits \/ TaxonomyChanges
    BY <2>1, ChangeTyped DEF CardCommits, TaxonomyChanges
  <2>2. CASE SaveInTransaction \/ (SitemapRuns /\ UNCHANGED indexVars) \/ UNCHANGED viewsVars
    BY <2>2, IndexTypesRest DEF SaveInTransaction, viewsVars
  <2>3. CASE IndexRuns
    BY <2>3, WorkerTyped, NightlyTyped DEF IndexRuns
  <2> QED
    BY <2>1, <2>2, <2>3 DEF ViewsNext
<1> QED
  BY <1>1, <1>2, PTL DEF ViewsSpec

\* The types of the sitemap and of the search index: in particular no more refreshes are
\* queued and no more purges are due than commits asked for.
THEOREM ViewsTypeCorrect == ViewsSpec => []ViewsTypeOK
<1>1. SitemapInv /\ IndexTypes => ViewsTypeOK
  BY SitemapAssumption DEF SitemapInv, SitemapCounts, SitemapRenderings, IndexTypes, ViewsTypeOK,
                           SitemapTypeOK
<1> QED
  BY <1>1, ViewsInvariant, IndexTypesInvariant, PTL

-----------------------------------------------------------------------------
(* The copies are derived views: the safety part of DerivedView            *)

\* No rendering shows a save that was not committed.
NotAhead(x) == x # NoEntry => x.at \in 0 .. listed

SitemapBehind == NotAhead(entry) /\ \A r \in Readers : NotAhead(rendering[r])

\* A step of the sitemap leaves every rendering behind the catalogue.
LEMMA SitemapStaysBehind ==
  ASSUME SitemapInv, SitemapBehind, [ViewsNext]_viewsVars
  PROVE  SitemapBehind'
<1>0. /\ listed \in Nat /\ entry \in Rendering \cup {NoEntry}
      /\ rendering \in [Readers -> Rendering \cup {NoEntry}]
  BY DEF SitemapInv, SitemapCounts, SitemapRenderings
<1>1. ASSUME NEW x \in Rendering \cup {NoEntry}, NotAhead(x) PROVE NotAhead(Missed(x))
  BY <1>1 DEF NotAhead, Missed, Rendering
<1>2. CASE CardCommits \/ SaveInTransaction \/ UNCHANGED sitemapVars
  <2>1. listed' \in {listed, listed + 1} /\ UNCHANGED <<entry, rendering>>
    BY <1>2 DEF CardCommits, SaveInTransaction, SaveBegins, SaveCommits, SaveRollsBack, sitemapVars
  <2>2. \A x \in Nat : x \in 0 .. listed => x \in 0 .. listed'
    BY <1>0, <2>1
  <2> QED
    BY <1>0, <2>1, <2>2 DEF SitemapBehind, NotAhead
<1>3. CASE Purge \/ PurgeIsLost \/ RebuildSitemap
  <2>1. /\ listed' = listed /\ entry' \in {NoEntry, Missed(entry)}
        /\ rendering' = [r \in Readers |-> Missed(rendering[r])]
    BY <1>3 DEF Purge, PurgeIsLost, RebuildSitemap, Dropped
  <2>2. NotAhead(Missed(entry)) /\ \A r \in Readers : NotAhead(Missed(rendering[r]))
    BY <1>0, <1>1 DEF SitemapBehind
  <2> QED
    BY <2>1, <2>2 DEF SitemapBehind, NotAhead
<1>4. CASE EntryExpires
  BY <1>4 DEF EntryExpires, SitemapBehind, NotAhead
<1>5. ASSUME NEW r \in Readers, RequestReads(r) \/ RequestStores(r) PROVE SitemapBehind'
  <2>1. /\ listed' = listed /\ entry' \in {entry, rendering[r]}
        /\ \A q \in Readers :
              rendering'[q] \in {rendering[q], NoEntry, [at |-> listed, missed |-> FALSE]}
    BY <1>0, <1>5 DEF RequestReads, RequestStores
  <2>2. NotAhead([at |-> listed, missed |-> FALSE])
    BY <1>0 DEF NotAhead
  <2> QED
    BY <2>1, <2>2 DEF SitemapBehind, NotAhead
<1> QED
  BY <1>2, <1>3, <1>4, <1>5 DEF ViewsNext, SitemapRuns, TaxonomyChanges, viewsVars

\* The cached sitemap never shows what was not committed: each step of the cards' saves
\* and of the sitemap is a step of the derived view, or none.  (That it catches up in the
\* end needs the fairness of the task and is left to the model checker.)
THEOREM SitemapFollows ==
  ViewsSpec => Sitemap!ViewInit
               /\ [][Sitemap!ViewNext]_<<listed, IF entry = NoEntry THEN NoEntry ELSE entry.at>>
<1>1. ViewsInit => Sitemap!ViewInit /\ SitemapBehind
  BY DEF ViewsInit, SitemapInit, Sitemap!ViewInit, SitemapBehind, NotAhead
<1>2. SitemapInv /\ SitemapBehind /\ [ViewsNext]_viewsVars => SitemapBehind'
  BY SitemapStaysBehind
<1>3. SitemapInv /\ SitemapBehind /\ SitemapBehind' /\ [ViewsNext]_viewsVars
      => [Sitemap!ViewNext]_<<listed, IF entry = NoEntry THEN NoEntry ELSE entry.at>>
  <2> SUFFICES ASSUME SitemapInv, SitemapBehind, SitemapBehind', [ViewsNext]_viewsVars
               PROVE  [Sitemap!ViewNext]_<<listed, IF entry = NoEntry THEN NoEntry ELSE entry.at>>
    OBVIOUS
  <2>1. CASE CardCommits
    BY <2>1 DEF CardCommits, SaveCommits, Sitemap!ViewNext, Sitemap!Change
  <2>2. CASE listed' = listed
    <3>1. (IF entry' = NoEntry THEN NoEntry ELSE entry'.at) \in 0 .. listed \cup {NoEntry}
      BY <2>2 DEF SitemapBehind, NotAhead
    <3> QED
      BY <2>2, <3>1 DEF Sitemap!ViewNext, Sitemap!Rebuilt
  <2>3. CardCommits \/ listed' = listed
    BY DEF ViewsNext, SaveInTransaction, SaveBegins, SaveRollsBack, TaxonomyChanges, SitemapRuns,
           Purge, PurgeIsLost, RebuildSitemap, EntryExpires, RequestReads, RequestStores,
           viewsVars, sitemapVars
  <2> QED
    BY <2>1, <2>2, <2>3
<1> QED
  BY <1>1, <1>2, <1>3, ViewsInvariant, PTL DEF ViewsSpec

\* What a refresh holds, the text and the vector, show taxonomies the card once had.
Once(x) == x \in 0 .. taxa

IndexBehind ==
  /\ indexText # NotBuilt => Once(indexText)
  /\ vector.taxa # NotBuilt => Once(vector.taxa)
  /\ \A w \in Workers : worker[w] # Idle => Once(worker[w].taxa)
  /\ nightly # Idle => Once(nightly.taxa)

\* A step of a refresh writes what it read; a change of the taxonomies leaves it behind.
LEMMA IndexStaysBehind ==
  ASSUME IndexTypes, IndexBehind, [ViewsNext]_viewsVars
  PROVE  IndexBehind'
<1>0. /\ taxa \in Nat /\ worker \in [Workers -> Held \cup {Idle}] /\ Once(taxa)
      /\ nightly \in Held \cup {Idle}
  BY IndexAssumption DEF IndexTypes, IndexTypeOK, Taxa, Once
<1>1. CASE CardCommits \/ TaxonomyChanges \/ UNCHANGED indexVars
  <2>1. taxa' \in {taxa, taxa + 1} /\ UNCHANGED <<indexText, vector, worker, nightly>>
    BY <1>1 DEF CardCommits, NamesCommit, TaxonomyChanges, TaxaCommit, TaxaChangeQuietly, indexVars
  <2>2. \A x : Once(x) => x \in 0 .. taxa'
    BY <1>0, <2>1 DEF Once
  <2> QED
    BY <2>1, <2>2 DEF IndexBehind, Once
<1>2. ASSUME NEW w \in Workers, WorkerSteps(w) \/ WorkerDies(w) PROVE IndexBehind'
  <2>1. CASE WorkerReads(w)
    <3>1. /\ \A v \in Workers : worker'[v] \in {worker[v], [step |-> "text", taxa |-> taxa]}
          /\ UNCHANGED <<taxa, indexText, vector, nightly>>
      BY <1>0, <2>1 DEF WorkerReads
    <3> QED
      BY <1>0, <3>1 DEF IndexBehind, Once
  <2>2. CASE WorkerWritesText(w)
    <3>1. worker[w] # Idle /\ worker[w] \in Held /\ Once(worker[w].taxa)
      BY <1>0, <2>2 DEF WorkerWritesText, IndexBehind
    <3>2. [worker[w] EXCEPT !.step = "vector"].taxa = worker[w].taxa
      BY <3>1 DEF Held
    <3>3. /\ \A v \in Workers : worker'[v] = worker[v]
                                 \/ worker'[v].taxa = worker[w].taxa
          /\ indexText' = worker[w].taxa /\ UNCHANGED <<taxa, vector, nightly>>
      BY <1>0, <2>2, <3>2 DEF WorkerWritesText
    <3> QED
      BY <3>1, <3>3 DEF IndexBehind, Once
  <2>3. CASE WorkerWritesVector(w)
    <3>1. /\ \A v \in Workers : worker'[v] \in {worker[v], Idle}
          /\ vector'.taxa = indexText /\ UNCHANGED <<taxa, indexText, nightly>>
      BY <1>0, <2>3 DEF WorkerWritesVector
    <3> QED
      BY <3>1 DEF IndexBehind, Once
  <2>4. CASE WorkerDies(w)
    <3>1. /\ \A v \in Workers : worker'[v] \in {worker[v], Idle}
          /\ UNCHANGED <<taxa, indexText, vector, nightly>>
      BY <1>0, <2>4 DEF WorkerDies
    <3> QED
      BY <3>1 DEF IndexBehind, Once
  <2> QED
    BY <1>2, <2>1, <2>2, <2>3, <2>4 DEF WorkerSteps
<1>3. CASE NightlyReads \/ NightlyCommits \/ NightlyFails
  <2>1. CASE NightlyReads
    BY <1>0, <2>1 DEF NightlyReads, IndexBehind, Once
  <2>2. CASE NightlyCommits
    BY <2>2 DEF NightlyCommits, IndexBehind, Once
  <2>3. CASE NightlyFails
    BY <2>3 DEF NightlyFails, IndexBehind, Once
  <2> QED
    BY <1>3, <2>1, <2>2, <2>3
<1> QED
  BY <1>1, <1>2, <1>3 DEF ViewsNext, SaveInTransaction, IndexRuns, viewsVars

\* The search vector never shows taxonomies the card did not have: each step is a step of
\* the derived view, or none.  (That it catches up is left to the model checker.)
THEOREM VectorFollows ==
  ViewsSpec => Index!ViewInit /\ [][Index!ViewNext]_<<taxa, vector.taxa>>
<1>1. ViewsInit => Index!ViewInit /\ IndexBehind
  BY DEF ViewsInit, IndexInit, Index!ViewInit, IndexBehind
<1>2. IndexTypes /\ IndexBehind /\ [ViewsNext]_viewsVars => IndexBehind'
  BY IndexStaysBehind
<1>3. IndexBehind' /\ [ViewsNext]_viewsVars => [Index!ViewNext]_<<taxa, vector.taxa>>
  <2> SUFFICES ASSUME IndexBehind', [ViewsNext]_viewsVars
               PROVE  [Index!ViewNext]_<<taxa, vector.taxa>>
    OBVIOUS
  <2>1. CASE TaxonomyChanges
    BY <2>1 DEF TaxonomyChanges, TaxaCommit, TaxaChangeQuietly, Index!ViewNext, Index!Change
  <2>2. CASE taxa' = taxa
    BY <2>2 DEF IndexBehind, Once, Index!ViewNext, Index!Rebuilt
  <2>3. TaxonomyChanges \/ taxa' = taxa
    BY DEF ViewsNext, CardCommits, NamesCommit, SaveInTransaction, IndexRuns, WorkerSteps,
           WorkerReads, WorkerWritesText, WorkerWritesVector, WorkerDies, NightlyReads,
           NightlyCommits, NightlyFails, viewsVars, indexVars
  <2> QED
    BY <2>1, <2>2, <2>3
<1> QED
  BY <1>1, <1>2, <1>3, IndexTypesInvariant, PTL DEF ViewsSpec

=============================================================================
