----------------------------- MODULE CardViews -----------------------------
(***************************************************************************)
(* What the commit of a card sets in motion: the signals of the catalogue  *)
(* and of the SEO app both wait for it, the one queues a refresh of the    *)
(* search vector, the other purges the sitemap.                            *)
(***************************************************************************)
EXTENDS SitemapCache, SearchIndex

viewsVars == <<sitemapVars, indexVars>>

ViewsInit == SitemapInit /\ IndexInit

\* The transaction of a save commits for both.
CardCommits == SaveCommits /\ NamesCommit

\* Nothing of a save is seen before it commits, or after it rolls back.
SaveInTransaction == (SaveBegins \/ SaveRollsBack) /\ UNCHANGED indexVars

\* A taxonomy changes, with or without a signal; the sitemap has no part in it.
TaxonomyChanges ==
    (TaxaCommit \/ TaxaChangeQuietly) /\ UNCHANGED sitemapVars

ViewsNext ==
    \/ CardCommits
    \/ SaveInTransaction
    \/ TaxonomyChanges
    \/ SitemapRuns /\ UNCHANGED indexVars
    \/ IndexRuns /\ UNCHANGED sitemapVars

ViewsSpec == ViewsInit /\ [][ViewsNext]_viewsVars

-----------------------------------------------------------------------------
\* The type invariant: in particular no more refreshes are queued and no more
\* purges are due than commits asked for.
ViewsTypeOK == SitemapTypeOK /\ IndexTypeOK

=============================================================================
