---------------------------- MODULE SitemapCache ----------------------------
(***************************************************************************)
(* The rendered sitemap, kept by cache_page for thirty minutes, the purge  *)
(* that the save of a card schedules for after the commit                  *)
(* (apps/seo/signals.py), and the half-hourly rebuild_sitemap task.  The   *)
(* catalogue is the number of saves committed.  Redis errors are ignored   *)
(* by the cache backend, so a purge may be lost, as it is when the process *)
(* dies between its commit and its callbacks.                              *)
(***************************************************************************)
EXTENDS Naturals

CONSTANTS Readers,      \* requests for /sitemap.xml that may overlap
          MaxSaves,     \* bound on the cards saved
          MaxLost,      \* bound on the purges that are lost
          NoEntry       \* nothing is cached; nothing is being rendered

ASSUME SitemapAssumption == MaxSaves \in Nat /\ MaxLost \in Nat

VARIABLES listed,       \* the catalogue, as committed
          open,         \* a save is inside its transaction
          purges,       \* purges due: committed, callback not yet run
          entry,        \* the cached rendering
          rendering,    \* what each request has read and not yet stored
          lost          \* purges lost so far

sitemapVars == <<listed, open, purges, entry, rendering, lost>>

\* A rendering remembers the catalogue it was read from and, as history, if
\* a purge ran, or was lost, since it was read.
Rendering == [at : 0 .. MaxSaves, missed : BOOLEAN]

SitemapTypeOK ==
    /\ listed \in 0 .. MaxSaves
    /\ open \in BOOLEAN
    /\ purges \in 0 .. MaxSaves
    /\ entry \in Rendering \cup {NoEntry}
    /\ rendering \in [Readers -> Rendering \cup {NoEntry}]
    /\ lost \in 0 .. MaxLost

SitemapInit ==
    /\ listed = 0
    /\ open = FALSE
    /\ purges = 0
    /\ entry = NoEntry
    /\ rendering = [r \in Readers |-> NoEntry]
    /\ lost = 0

\* The rendering has missed its purge (history).
Missed(x) == IF x = NoEntry THEN NoEntry ELSE [x EXCEPT !.missed = TRUE]

SaveBegins ==
    /\ ~open /\ listed < MaxSaves
    /\ open' = TRUE
    /\ UNCHANGED <<listed, purges, entry, rendering, lost>>

\* Mutant of SaveCommits: the row is written with update(), which no signal sees.
CommitsUnseen ==
    /\ open
    /\ open' = FALSE
    /\ listed' = listed + 1
    /\ UNCHANGED <<purges, entry, rendering, lost>>

SaveCommits ==
    /\ open
    /\ open' = FALSE
    /\ listed' = listed + 1
    /\ purges' = purges + 1
    /\ UNCHANGED <<entry, rendering, lost>>

\* A transaction that fails runs no callback.
SaveRollsBack ==
    /\ open
    /\ open' = FALSE
    /\ UNCHANGED <<listed, purges, entry, rendering, lost>>

\* delete_pattern drops every cached fragment; what is being rendered is
\* not in the cache and survives.
Dropped ==
    /\ entry' = NoEntry
    /\ rendering' = [r \in Readers |-> Missed(rendering[r])]

Purge ==
    /\ purges > 0
    /\ purges' = purges - 1
    /\ Dropped
    /\ UNCHANGED <<listed, open, lost>>

PurgeIsLost ==
    /\ purges > 0 /\ lost < MaxLost
    /\ purges' = purges - 1
    /\ lost' = lost + 1
    /\ entry' = Missed(entry)
    /\ rendering' = [r \in Readers |-> Missed(rendering[r])]
    /\ UNCHANGED <<listed, open>>

\* Mutant of RebuildSitemap: the task only helps while a purge is due.
RebuildsIfDue ==
    /\ purges > 0
    /\ Dropped
    /\ UNCHANGED <<listed, open, purges, lost>>

\* Beat, every half hour.
RebuildSitemap == Dropped /\ UNCHANGED <<listed, open, purges, lost>>

\* The thirty minutes of cache_page are over.
EntryExpires ==
    /\ entry # NoEntry
    /\ entry' = NoEntry
    /\ UNCHANGED <<listed, open, purges, rendering, lost>>

\* A request misses the cache and reads the catalogue ...
RequestReads(r) ==
    /\ entry = NoEntry /\ rendering[r] = NoEntry
    /\ rendering' = [rendering EXCEPT ![r] = [at |-> listed, missed |-> FALSE]]
    /\ UNCHANGED <<listed, open, purges, entry, lost>>

\* ... and stores the response, whatever happened meanwhile.
RequestStores(r) ==
    /\ rendering[r] # NoEntry
    /\ entry' = rendering[r]
    /\ rendering' = [rendering EXCEPT ![r] = NoEntry]
    /\ UNCHANGED <<listed, open, purges, lost>>

SitemapRuns ==
    \/ Purge
    \/ PurgeIsLost
    \/ RebuildSitemap
    \/ EntryExpires
    \/ \E r \in Readers : RequestReads(r) \/ RequestStores(r)

\* on_commit callbacks run, requests end, and beat does not forget the task.
\* The expiry of the cache entry is not relied upon.
SitemapFairness ==
    /\ WF_sitemapVars(Purge \/ PurgeIsLost)
    /\ WF_sitemapVars(RebuildSitemap)
    /\ \A r \in Readers : WF_sitemapVars(RequestStores(r))

-----------------------------------------------------------------------------
\* A sitemap older than the catalogue is served only while its purge is still
\* due, or when the rendering was read before a purge and stored after it, or
\* when the purge was lost: the callback waits for the commit.
StaleOnlyInWindow ==
    entry # NoEntry =>
        entry.at = listed \/ purges > 0 \/ entry.missed

\* The cached sitemap is a derived view of the catalogue: whatever was missed,
\* the half-hourly task ends it.
Sitemap == INSTANCE DerivedView WITH
    NoView <- NoEntry,
    original <- listed,
    view <- IF entry = NoEntry THEN NoEntry ELSE entry.at

SitemapIsAView == Sitemap!ViewSpec

=============================================================================
