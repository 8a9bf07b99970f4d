# TLA+ models of LLM App Market

LLM App Market is a Django catalog of apps, connectors and MCP servers. Feeds and
scrapers import cards, an LLM agent fills their gaps, editors review them at the
admin, batches publish them, and periodic jobs check, re-actualize, index and mail
what is published. All of it runs as web requests, Celery tasks and management
commands over one PostgreSQL database at READ COMMITTED, with no request-wide
transactions. What is hard is therefore not one algorithm but *who may write what
when*: rows are read, an LLM or a network is asked for seconds, and a decision made
on what was read is written back.

Paths below are relative to the repository; `tasks.py:1151` is a line.

## 1. Inventory

Status: **M** modelled, **P** partly modelled, **–** not modelled.

| Component | Code | State | Operations and interactions | Hard behaviour | What makes it correct | |
|---|---|---|---|---|---|---|
| Agent budget | `apps/agent/budget.py`, `tasks.py:1104-1225`, `BudgetMonthState` | call log, one row per month with two latches | hourly check decides and mails; two gates read the row; admin edits it | gate passed long before the call is billed; check dies half-way; whole-row save; month rollover | bounded overrun, mail once, latches come off by hand only, a reached budget stops | M |
| Orchestration | `apps/agent/tasks.py` | `AgentRun`, `EnrichmentTask`, call log | batches of enrichments, discovery, re-actualization, single runs | failures counted or fatal, retries, paid answers whose write fails, crash leaves RUNNING rows | what was paid is in the log; nothing is starved by what always fails | M |
| Persist and merge | `apps/agent/persist.py`, `pipeline/merge.py` | App, capabilities, review queue, `Source.payload` | eligibility, snapshot, merge plan, locked conditional apply, queue entry | plan older than the row it is applied to | fills gaps only, drafts only | P |
| Re-actualization | `persist.py:719-894`, `pipeline/reactualize.py` | `Source.last_enriched_at` | select overdue apps, diff, queue | crash between queue and clock; any-source join | every due app is visited, drift is posted once | M |
| Import, dedupe | `apps/sources/upsert.py`, `sources/tasks.py:51-106` | App, Source, platform links, duplicate candidates | create, refresh, soft duplicate | unlocked compare and save; check-then-create | editor edits survive, duplicates are noticed | P |
| Duplicate merge | `apps/sources/duplicate_merge.py`, `management/commands/` | two Apps and all their relations | plan all, apply one by one; split; dismiss | plans age; listings change hands under a refresh | nothing lost, one primary source per card | M |
| Publishing | `apps/catalog/publishing.py`, `services.py` | App status, review outcomes | evaluate a batch, apply each under a lock, publish gate | evaluation older than application; entries not locked | publishes complete reviewed drafts, overrules nobody | P |
| Review and catalog admin | `apps/agent/admin.py`, `apps/catalog/admin.py` | the same rows | form saves, buttons, bulk actions | stale forms, stale `is_resolved`, lock order | decisions stick | P |
| Link checker | `sources/tasks.py:110-322` | `LinkHealth`, App launch status | probe, count failures, deprecate, queue VANISHED | five statements without a transaction, equality test on a counter | reported once per vanish, only a streak deprecates, a dead link is found | M |
| Search vectors | `apps/search/tasks.py`, `catalog/signals.py` | `search_index_text`, `search_vector` | on-commit refresh, nightly batch | two statements, overlapping workers, writes without a signal | index follows the card | M |
| Sitemap cache | `apps/seo/tasks.py`, `seo/signals.py` | cached pages | purge on commit, half-hourly task | page rendered before, stored after the purge; purge lost | staleness bounded and ended | M |
| Newsletter | `apps/newsletter/` | issues, subscribers | send, subscribe, confirm, unsubscribe | two senders, slices of a live list without an order, stale forms, crash in the middle | an issue goes to the active subscribers and to all of them, double opt-in | P |
| Submissions, claims | `apps/submissions/` | claim requests, App claim status | request, approve, reject, form of a claim | check, CAPTCHA, then create; claim and card saved apart; a form that passes the card by | one owner, and the card shows him | P |
| Rate limiter | `agent/pipeline/rate_limit.py`, `agent/rate_limit_redis.py` | next free slot per host | reserve and wait | bucket found without a lock; sleeping under a lock; old clock readings; TTL and backlog; lost replies | slots are spaced, nobody leaves before his | M |
| Use-case merge, quality, trust backfills | `catalog/services.py`, `catalog/trust.py` | use cases, derived columns, facts implied by a directory | plan over the catalogue, apply one by one | the decision is old when applied | known values stay, the repairs leave MCP servers alone | P |
| LLM client, validation | `agent/llm/`, `pipeline/validate.py` | none | provider calls with retries, text checks | final and transient errors, answers paid for and unusable | a usable answer is booked, a failure ends or passes over an item | P |
| Scrapers and adapters | `agent/sources/`, `sources/mcp_registry.py` | none | fetch and parse | – | – | – |
| Analytics, editorial, SEO pages, search views, API, core, deployment | rest of `apps/`, `config/`, `docker/` | counters, pages | rendering, aggregation | – | – | – |

`PROJECT.json` lists the hazards of all of them by line.

Who meets whom on one card:

    feed import ──refresh──►┐                       ┌── reads status ── enrichment batch
    enrichment ──apply────► │  App + capabilities   │
    App form, mark actions ►│  + platform link      ├── publishes ──── autopublish batch
    review actions ────────►│  + review entries ◄───┘
    enrichment ──queue────────► review entries ◄── accept / reject / close ── review admin
    link checker ──deprecates──► App, Source ◄── re-actualization (clock) ── feeds
    commit of the App ──────► search vector refresh, sitemap purge

and, orthogonally, every job that asks an LLM passes the gates of the budget row that
the hourly check latches, and every job that fetches a page passes the rate limiter.

## 2. Modules

A module is one component, a module `MC…` gives its constants small values, a module
`…Proofs` holds its theorems. "Mutant of X" in a module marks the way the code of X could
plausibly be wrong; it sits beside the definition that models the code and no specification
uses it. A variable marked *history* is not in the program: it remembers something a
property speaks about.

| Module | Models | Abstract specification |
|---|---|---|
| `AgentBudget` | budget check, latches, gates, the jobs they gate | |
| `AppCard` | everybody who writes one card: enrichment, feed refresh, App form, review actions, autopublish | |
| `LinkCheck` | the daily link check of a card | |
| `Reactualization` | selection and visits of published cards | |
| `CatalogImport` | import and soft duplicates, merge, split and dismissal commands | |
| `SitemapCache`, `SearchIndex`, composed in `CardViews` | what the commit of a card sets in motion | `DerivedView`, twice |
| `LocalThrottle`, `RedisThrottle`, composed in `DomainThrottle` | the two implementations of the domain rate limiter | `Spacing`, twice |
| `TrustBackfill` | the catalogue backfills, decided first and applied later | |
| `Newsletter` | subscription, confirmation, delivery of an issue | |
| `Claims` | claim requests and their approval | |
| `Services` | one behaviour is one of cards, limiters, trust, newsletter or claims; their specifications share nothing but the run | |
| `AgentRuns` | the batches of `tasks.py` over many cards: order, failures, retries, call log | |

**AgentBudget.** `cost[m]` is `current_month_cost` (calls logged since the first of month
`m`; the sum has no upper end, so a call counts for earlier months too), `row[m]` the
`BudgetMonthState` latches, `month` and `budget` the calendar and the deployed setting.
`agent_budget_check` is `CheckReadsCost` (spending, and the setting), `CheckReadsRow` (a
*second* `first_of_month`), `CheckSaves` (every column), `CheckAlerts` and `CheckAborts`. A
job passes a gate (`HardStopped`, `DiscoveryDisabled`), waits and logs its call, in separate
steps. `sent`, `late`, `edits` and `seen` are history. Left out: the task and run rows (see
AgentRuns), who cleared a latch, cents (costs are naturals).

**AppCard.** `card` is the App row with its capability and directory URL, `entries` its
review entries. `worker[e]`, `refresh[u]`, `form`, `review` and `batch` are what each party
has read and not yet written. A step is a statement, or a transaction in which nobody else
can be seen: `apply_merge_set` is one step (`EnrichApplies`), the refresh is two
(`RefreshReads`, `RefreshSaves`), and autopublish is `BatchEvaluates`, `AutoLocks`,
`AutoCommits`, since review entries are not locked with the App and can be decided in the
middle; whoever needs the App row then waits (`RowFree`). A button of an entry is one
transaction, a bulk action is two statements, a form POST writes every column as rendered
(`EditorSaves`, `FormRewrites`). The deadlock of the entry button and autopublish is broken
by PostgreSQL and appears as `AutoFails` or as `ReviewEnds`. One text, one capability and
one verdict stand for their kinds. Left out: entry kinds that carry no proposal, publish
blockers other than completeness, the content of the answers.

**LinkCheck.** `up[t][a]` is the world, `address[t]` the link on the card, `health[t]` the
`LinkHealth` row, `active[t]` the source that is switched off with it. A check loads the
card, probes, counts, deprecates, deactivates, queues and saves as separate steps, and may
fail or die between any two. `streak`, `queued`, `torn` and `undone` are history. Redirects
and the classes of HTTP error are one answer or none.

**Reactualization.** `place[s]` is the place of a row among those of its card, the last
fetched first, and `Primary` the rows marked `is_primary`, which nothing changes here: the
two say which row `pick_primary_active_source` returns (`Picked`). `age[s]` is
`last_enriched_at` in days. A visit is
`RowIsAsked`, `RowIsDiffed`, `RowIsQueued`, `RowAdvances`, any of which may break off. A row
of the kind "bare" is the URL-less one an enrichment creates: always overdue, never fetched,
and it keeps its card in the selection every day.

**CatalogImport.** `app`, `source` and `pair` are the tables. An import looks its listing
up, creates or refreshes, and looks for soft duplicates, one statement per step; merge,
split and dismissal commands first collect (`planned`, `splits`, `weak`) and later apply,
pair by pair. `ProductOf` and `NameOf` are what listings really are and how they are called.
`FieldOf` is the column of a card that holds a product's URL: a card has one value in each, a
refresh fills it if it was empty when the card was read (`fills`), a merge if it is empty
(`Fills`). `MaxSimilar` is the limit of `find_duplicate_candidates` (5 in the code), `Best`
the cut. `Overmerged` are listings an older version put on one card. `missed` is history:
pairs of cards of which one was created, or came to match the other strongly, while the
import of the other was at its lookups.

**CardViews.** `SitemapCache` has the row transaction with its `on_commit` purge, the cached
page with the moment it was rendered, and the half-hourly task; `SearchIndex` has the
columns a vector is built from (`names`), the related taxonomies (`taxa`), refreshes that
read, write the text and write the vector in three steps, and the nightly batch in two. One
commit of a card (`CardCommits`) triggers both. Taxonomies change with a signal or without
(`attach_platforms` on a refresh that finds nothing empty, the rename of a category): those
are mended by the nightly batch only. A merge is not one of them: it ends in a save of the
target, which queues a refresh.

**DomainThrottle.** `LocalThrottle` is the dictionary of buckets: looked up without a lock,
created under one, each with a lock of its own held while a thread sleeps. `slots` are the
moments given out, `left` when a thread really left, which may be later: the code moves on
from the slot, not from the wake-up. In `RedisThrottle` a process reads its clock
(`ReadsClock`), the Lua script runs later as one atomic step on that reading (`GetsSlot`,
readings at most `MaxDelay` old), and the sleep begins when the reply comes (`Wakes`). The key
has its TTL; a reply may be lost and Redis be down, after which the caller goes unthrottled.
The in-process limiter spaces the requests of its own process only.

**TrustBackfill.** The six commands of `catalog/trust.py` (verification, capability,
description, category, taxonomy, launch status) have one shape: `Plans` over the catalogue
without a lock, `Applies` card by card under a condition of its own, except capabilities,
which look up and save in two unlocked steps. Editors and imports act in between. `slot[k]`
is what command `k` may change on the card.

**Newsletter.** A subscriber's row is written by the views, by the actions of the admin and
by its change form, which saves every column as it was rendered (`rendered`, `FormOpens`,
`FormSaves`); the issue's status by an action or its form (`IssueIsSet`). A delivery takes
slices of whoever is active (`Slices`): as many as the offset leaves, but any of them, because
the queryset has no order and each slice is a query of its own. It mails those of a slice one
by one and marks the issue at the end. `reported` is the count the task returns. `consent`,
`overtaken`, `mails`, `audience` and `quiet` are history.

**Claims.** A request looks, waits for its CAPTCHA, inserts and saves the card
(`RequestChecks`, `RequestInserts`, `RequestSaves`); an approval reads, then saves claim and
card one after the other; the form of a claim writes its status and nothing else
(`EditorSavesClaim`), the App form the card's. History: `stale` are requests since whose look
something changed, `blind` says that somebody wrote on what he had not seen, `forgotten` that
the card missed an approval, `handled` which claims a form has written, `cardByHand` that an
editor set the card.

**AgentRuns.** `state[c]` of each draft or candidate, `gate` as the latches stand, and three
kinds of run, each with what is left of its list; `Precedes` orders it (the feed's order,
or the last seen first) and `FirstOf` cuts it to the size of a batch. `Poison` are items
whose enrichment always fails. An answer is `answered` before it is `booked` and only then
applied. One that is refused or does not parse (`GetsUselessAnswer`) is paid for as well, and
raises before anybody could book it: `refused` counts those.

## 3. What is checked

`tlc -workers 2 -config <cfg> <module>`; the eight passing runs finish within five minutes
each.

| Run | States | Properties |
|---|---|---|
| `agent_budget` | 1.8 M | `TypeOK`, `OverrunBounded` |
| `agent_budget_months` | 0.35 M | `EmailOncePerCrossing`, `LatchOnlyByHand`, `StopsInTheEnd` |
| `app_card` | 4.3 M | `TypeOK`, `PlanHolds`, `FilledSlotsStay`, `EnrichmentKeepsToDrafts`, `AutopublishKeepsVerdict`, `OnlyReviewsDecideAgain`, `AutopublishSettles` |
| `link_check` | 0.05 M | `LinkTypeOK`, `ReportedOnce`, `NoSilentVanish`, `OnlyStreakDeprecates`, `DeadLinkIsFound` |
| `reactualization` | 0.03 M | `ReactTypeOK`, `PostedOnce`, `EveryCardIsVisited` |
| `catalog_import` | 3.4 M | `ImportTypeOK`, `OnePrimary`, `DuplicatesAreNoticed`, `ListingsStay`, `MergeKeepsFacts`, `DecisionsStay` |
| `services` | 1.3 M | `ServicesTypeOK`, `StaleOnlyInWindow`, `QuietIndexFollowsTheRow`, `SitemapIsAView`, `IndexIsAView`, `LocalIsSpaced`, `RedisIsSpaced`, `StaleDecisionsDoNoHarm`, `ActiveMeansConsent`, `QuietSendIsWhole`, `OneOwner` |
| `agent_runs` | 0.68 M | `RunsTypeOK`, `AnswersAreBooked`, `WorkGetsThrough` |
| `bump_does_not_clear`, `sacred_edits`, `hidden_published`, `rollback_sticks` | | one each, violated: the findings below |

### What the properties say, and what they do not

*Budget.* A gate is passed long before a call is billed, so spending goes on under a stop:
`OverrunBounded` is how far, per slot. `EmailOncePerCrossing` counts one more mail per
manual edit of the row (an edit that clears a latch lets the check latch and mail again).
`LatchOnlyByHand` has an exception the code makes real: the check saves every column, so a
latch cleared between its read and its save returns, and one that was set is lost. Across
midnight the cost of the old month can latch the new month's row, since `first_of_month` is
called twice. Not covered: the mail is lost when `send_mail` raises after the save
(`tasks.py:1156`), and a jump over both thresholds never mails the 80 % alert
(`tasks.py:1162`). Costs are those of the call log; answers that are paid for and never
logged (see *Runs*) are in no sum the budget could look at.

*Card.* `FilledSlotsStay`, `EnrichmentKeepsToDrafts` and `PlanHolds` are what the row lock
and the re-read buy: a plan made from a snapshot before an LLM call of many seconds fills
only what is still empty, and does nothing to a card that has left DRAFT. The exception of
`FilledSlotsStay` is the feed refresh, which compares and saves without the lock (finding
2). `OnlyReviewsDecideAgain`: automation never overrules a decided entry, also when
autopublish planned while it was pending. But the plan's *verdict* is written to the card
all the same: reject its entry between lock and commit, and the card is published with a
rejected verdict (TLC shows it in nine steps). `AutopublishSettles` says that no proposal is
pending on a published card but one that was already decided when the batch locked the card
and that a stale entry form put back. It is about the batch's own commit: that two editors
overrule each other, or a stale form reopens what one of them decided, nothing in the code
excludes and no property here does.

*Links.* `ReportedOnce` and `NoSilentVanish` tie the counter, the review entry and the
deprecation together although five statements in no transaction write them; `torn` is the
case in which a check broke off, or was overtaken, half-way. `DeadLinkIsFound` is the
liveness: a link that stays dead reaches the threshold.

*Re-actualization.* `PostedOnce` is broken only by a run that dies between the entry and the
clock (`broke`), which is excepted: such a drift is posted again the next day. What it catches
is a visit that posts and leaves the clock where it was. A card with several overdue rows
comes several times in one batch and may be posted each time, the clock moving in between.
`EveryCardIsVisited` needs a batch that covers the selection: with a batch of one it fails,
because rows that never move come first. The overview promises one visit per interval; a card
with a "bare" row is visited every day.

*Import and merge.* `OnePrimary` holds through refreshes, merges and splits that read before
and write after each other. `DuplicatesAreNoticed` has the exception `missed`: two imports
that look before either has created its card, or an older card that a merge or another
listing made match after the import looked for strong matches and before it compared names
(`find_duplicate_candidates` passes over cards that match strongly, `upsert.py:287-305`). Of
the cards with one name it promises as many candidates as the limit, no more: a sixth is
dropped (`:305`). `MergeKeepsFacts` is about plans that have aged, and about what the code
transfers: a URL goes over where the other card has none (`duplicate_merge.py:420-443`), so
that of two different URLs in one field the hidden card's is lost. `DecisionsStay`: a bulk
dismissal that collected its ids earlier does not overrule an editor. A soft duplicate may be
found against a card that is hidden.

*Views.* `SitemapIsAView` and `IndexIsAView` are refinements of `DerivedView`: when the
original changes no more, the view is equal to it for good, whatever was lost or overtaken.
`StaleOnlyInWindow` and `QuietIndexFollowsTheRow` are the safety half: when it may lag at
all. A vector may show an old *taxonomy* after two overlapping refreshes, until the night;
never an old name.

*Limiters.* Both refine `Spacing`: the slots booked are an interval apart, and nobody who is
throttled leaves before his. It is not about the moments of the requests: who oversleeps
leaves late, and the next may leave on time and be right behind him, or beside him. In memory
the lock is held during the sleep, so three never meet (`NoThreeMeet`); with Redis nothing
bounds how many do. For Redis the spacing of the slots depends on the backlog staying within
the TTL of 60 s (`rate_limit_redis.py:68-70`), which the constants assume (`TTLAssumption`,
with the age of the clock readings): an interval long enough, or enough callers, would break
it, and a caller whose reply is lost goes outside the limit.

*Backfills.* `StaleDecisionsDoNoHarm` is about values that are filled by the time of the
write, and about the two repairs, which leave alone what is an MCP server by then; it excepts
the capability read a moment ago. The other four commands apply although the listing has gone
or the card has turned out to be a server. What it does not say either, because the code does
otherwise: the launch-status backfill overwrites a DEPRECATED of an editor or of the link
checker with BETA.

*Newsletter.* `ActiveMeansConsent`: the link in an old mail brings nobody back who left. Who
left while his confirmation was being saved, or while a form that shows him as active was
open, may be active again (`overtaken`). `QuietSendIsWhole` speaks of one delivery without
failures during which nobody becomes active or leaves: as many mails as there were active
subscribers, to none but them. Exactly one to *each* it promises only for a list that fits in
one batch (50): over several unordered slices one may be mailed in another's place. Two
deliveries mail twice.

*Claims.* `OneOwner` has three parts, each with what it takes to break it. The badge and the
address on the card belong to an approved claim, or to one that a form changed later
(`handled`). A claim approved by the action gets its badge, unless the approval died half-way
or a request put its "pending" over it (`forgotten`). And one claim at most is approved by the
action, unless a request or an approval wrote on what it had not seen (`blind`): the code has
no lock, and two claims of one card can both be approved. An approval that is saved in the
*form* of the claim passes by `mark_reviewed` (`submissions/models.py:173-184`) and leaves the
card unclaimed; an editor who sets the card's status by hand is obeyed.

*Runs.* `AnswersAreBooked` excepts a worker that died with an answer in hand, and answers that
are refused or do not parse: `complete` raises before it has read the usage
(`llm/client.py:273-281`), so that they are paid for and reach neither the log nor the
budget. `docs/agent-pipeline.md:146` and `:452` speak of every call. `WorkGetsThrough`: every
draft that can be enriched is, although always-failing ones come first in every batch; those
have to be fewer than the batch (`PoisonAssumption`), or they fill it every day. A candidate
listed behind a failing one is not promised anything, because an exception ends the discovery
batch.

### Findings

1. `bump_does_not_clear`: `admin.py:633-635` and the mail of `tasks.py:1207` say that a
   larger budget makes the next tick clear both flags; no code clears one.
2. `sacred_edits`: `upsert.py:470-471` says editor edits are never overwritten; a refresh
   that compared the card before the editor saved overwrites his text.
3. `hidden_published`: `publishing.py:226` re-evaluates under the lock everything but the
   status; a card hidden since the batch evaluated it is published.
4. `rollback_sticks`: `sources/tasks.py:292-293` says the entry lets the editor roll the
   deprecation back; the next failing check deprecates again (`:250-256`) and queues no
   entry (`:270`).

Three more promises are stated in their modules without a run of their own; TLC refutes both
when they are put in the place of a finding's property. `DisagreementIsQueued` (`AppCard`):
a capability that became known while the LLM answered should be queued as a disagreement,
but is dropped under the lock (`persist.py:550`). `OncePerInterval` (`Reactualization`): a
card is asked again on the next day as long as any of its rows is overdue.
`EveryCallIsLogged` (`AgentRuns`): the docs have each call in the log
(`docs/agent-pipeline.md:146`, `:452`), and an answer that is refused or does not parse is
not.

### Bounds

Each is a constant named in its module.

| Run | Instance | Why it is enough |
|---|---|---|
| `agent_budget` | 1 check, 2 slots, batches of 2, 2 starts, 1 edit, 1 deployment, budgets 3 and 9, costs 1 and 2 | a budget is crossed in one call or exactly; two slots overrun together; the stop comes off by hand and by a deployment to another budget |
| `agent_budget_months` | 1 slot, batches of 1, 2 months | a check across midnight, an edit of either month's row |
| `app_card` | 2 enrichments, 1 refresh, form, review and batch each | each pair of parties meets; two enrichments race on one card |
| `link_check` | 1 checker, 1 target, threshold 2 (7 in the code), 1 move of the link, 1 act by hand | below, at and above the threshold; the safety properties also hold with two overlapping checkers (2.0 M states); the liveness run is too large with them |
| `rollback_sticks` | threshold 3 | |
| `reactualization` | 2 cards, 3 rows one of them bare, interval 2, 1 crash | a card that is due daily beside one that is not |
| `catalog_import` | 4 listings (2 of an over-merged registry card, 2 in a directory under two names, one of them that of the registry entries; three products, two of which share a field), 3 cards, 2 imports, 1 edit, 1 candidate per card | chains of two merges, a merge after a split, a card that comes to match while an import compares, two cards of one name where the limit is one, a merge of two cards with different URLs in one field |
| `services` | cards: 1 reader, 2 workers, 2 saves, 1 quiet change, 1 death, 1 lost purge; limiters: 3 threads, interval 2, 2 callers, pause 2, readings 1 tick old, TTL 9, 1 lost reply; newsletter: 2 subscribers, 1 delivery, batches of 1, 1 confirmation and 1 form open at a time; claims: 2 claimants, 2 claims | two workers overtake; a third thread meets a bucket that exists; the key expires while the clock runs; a list of two batches and one of one; a form that is older than the row. The invariants of the newsletter also hold with two deliveries (3.7 M states) and with three subscribers in batches of two (6.8 M), that of the claims with three claims (3.4 M), each checked alone |
| `agent_runs` | 2 drafts, 2 candidates, the last of each always fails; limit 2, 2 at a time, 2 attempts, 1 failure, 1 lost run, 1 refused answer, 1 closing | the failing one comes first (newest first) and takes its place in each batch |

Symmetry is used only for identical slots, enrichments and imports, and in no run with a
liveness property. Deadlock is checked except where bounded operations simply end
(`app_card` and its findings, `services`, `agent_runs`).

### Fairness, and why the code justifies it

- `AgentBudget`: the hourly check only (`config/settings/base.py:300-303`): it is begun and
  its alert step ends (WF), and among ever new checks some get through their reads and save
  (SF, since a check may die). Jobs need not run.
- `LinkCheck`, `Reactualization`: days pass and the daily batch starts (WF); each statement
  fails sometimes but not always (SF).
- `CardViews`: callbacks run, workers take what is queued, the half-hourly and nightly tasks
  come (WF). The expiry of the page is not relied upon.
- `AgentRuns`: beat queues the batches again and again (SF: the gate may close in between),
  a run that has begun goes on (WF), months end (WF).
- `CatalogImport`, `AppCard`, the limiters, `TrustBackfill`, `Newsletter`, `Claims`: none;
  nothing obliges an editor, a subscriber or a command (nothing schedules
  `send_newsletter_issue`).

## 4. What is proved

`tlapm <module>` in this directory. Every theorem holds for all values of the constants that
satisfy the named assumptions; TLC evaluates those on the instances.

| Module | Theorems | Argument |
|---|---|---|
| `AgentBudgetProofs` | `TypeCorrect`, `OverrunCorrect`, `LatchCorrect`, `EmailCorrect` | `OverrunInv` counts, under a stop, what was billed *and* what can still be billed without a gate; `HeldInv` says what the row a check holds can lack; `MailInv` that a row without the latch, and a check that is about to mail, have a mail left. The last two theorems assume `NoOverlap`: with overlapping checks they are false |
| `AppCardProofs` | `TypeCorrect`, `SlotsCorrect`, `DraftsCorrect`, `PlanCorrect`, `VerdictCorrect`, `SettlesCorrect`, `DecisionsCorrect` | `PlanHolds`: whatever the plan counted cannot change while the row is locked; the verdict and settlement properties follow from it at the commit |
| `LinkCheckProofs` | `LinkTypeCorrect`, `ReportedOnceCorrect`, `NoSilentVanishCorrect`, `StreakDeprecatesCorrect` | `LinkInv`: while nothing tore it, the count in the row is the streak, or a check has counted and holds one more, which is the streak then; an entry belongs to a row that has reached the threshold, or to the check about to save that count; two checks that update one row are both marked. None of the three properties is inductive alone: each speaks of the row, and what could break it is what a check carries |
| `ReactualizationProofs` | `ReactTypeCorrect`, `PostedOnceCorrect` | `ClockIsDue`: a card with an entry is the one whose clock the batch is about to move, and has one entry, or a run broke off after it |
| `CatalogImportProofs` | `ImportTypeCorrect`, `OnePrimaryCorrect`, `DuplicatesNoticedCorrect`, `ListingsCorrect`, `MergeCorrect`, `DecisionsCorrect` | `Structure`: the cards are numbered without gaps, no listing is left without one, a pair is of two cards, and what an import has looked up exists; for the duplicates also that a card's keys hold the product it was made for (`KeysHoldProduct`), which no refresh under way will replace, because the field it fills is another one (`RefreshesSpareOwn`), and that no card an import has looked at has its listing's product, while those with its name are its candidates, up to the limit (`LookupsAreSound`) |
| `AgentRunsProofs` | `BooksCorrect`, `RunsTypeCorrect` | each unbooked answer was refused, is in the hands of one run or was lost with one; a list is short because no two of its entries have as many before them (`FirstOfIsShort`) |
| `CardViewsProofs` | `StalenessCorrect`, `QuietIndexCorrect`, `ViewsTypeCorrect`, `SitemapFollows`, `VectorFollows` | excuses for pages that are still being rendered, not only for the cached one; for the index, that an old name in the vector or the text has a refresh coming that will mend it; and that whatever is held, rendered or written was once committed, so that each step is one of `DerivedView` or a stutter |
| `ServicesProofs`, limiters | `LocalTypeCorrect`, `LocalImplementsSpacing`, `RedisImplementsSpacing` | in memory: a bucket has one owner, and its next free slot is an interval beyond every slot given out; who has left did so at a later slot at the latest (`LeftInTurn`), so that of three the first and the last are apart. Redis: the key is an interval beyond every slot given out, and lives until that slot is over and no reading from before it is accepted any more, since from any moment on the key lies no more than one pause ahead for each caller that sleeps beyond it and each reply lost (`KeyIsAhead`); once the key is gone no slot can be run into (`NoKeyIsSafe`); nobody wakes before his slot (`CallersAreInTurn`). Each step is then a step of `Spacing` or stutters |
| `ServicesProofs`, trust | `TrustTypeCorrect`, `StaleDecisionsCorrect` | each way of applying tests again what it is about to change |
| `ServicesProofs`, newsletter | `ConsentCorrect`, `QuietSendCorrect` | a confirmation under way, and a form that shows somebody as active, is covered: its subscriber consented, or left since (`SavesAreCovered`). A quiet delivery has loaded as many as its offset says and mailed those of them that are not in its batch; with one batch these are the active ones (`OnCourse`); when it is over it is `Delivered` |
| `ServicesProofs`, claims | `OneOwnerCorrect` | `ClaimInv`: what an approval has saved is approved (`HandIsApproved`), what was approved has the badge or is in hand (`BadgeIsGiven`), and of the claims that no form has written one at most is pending or approved, none if a request found the card free and nothing has changed since (`OneIsLive`); each under the conditions of its part of `OneOwner` |
| `ServicesProofs`, all | `ServicesTypeCorrect`, `ServicesKeepTheirPromises` | a behaviour of `ServicesSpec`, which the run checks, is one of each service's own specification: one moves and the others stutter |

The assumptions are `CostsAreNat`, `BoundsAreNat`, `ProposalsWellFormed` and, in the other
modules, `…Assumption`: bounds are naturals, intervals positive; the sets that something is
counted or chosen over (listings, rows, cards of a feed, subscribers, callers, links) are
finite, and not empty where the initial state has to name a member; special values
(`NoEntry`, `NotBuilt`, `Idle`, `NotSending`, `NoKey`) are none of the ordinary ones.
`TTLAssumption` (Redis) and `PoisonAssumption` (runs) are about deployments, not about the
code: the text above says what happens without them.

Every invariant and every action property of the runs has its theorem. What proving them
changed: `DuplicatesAreNoticed` was false for other constants than those of the run (an older
card may come to match a new listing strongly after the import has looked for strong
matches), which `missed` now records; the instance of `catalog_import` reaches that case.
Lists whose order alone matters (rows of a card, of a batch) became places or an order on
numbers, which loses none of the behaviours.

Only model-checked: all liveness (`StopsInTheEnd`, `DeadLinkIsFound`, `EveryCardIsVisited`,
`WorkGetsThrough`, and that the views of `SitemapIsAView` and `IndexIsAView` converge; their
initial states and steps are `SitemapFollows` and `VectorFollows`), which the prover cannot do
under fairness, and the four violations of the findings.

## 5. Reading order

`AgentBudget` (the shape of every model here: a step between what was read and what is
written), `AppCard`, `CatalogImport`, then any of the others; each `…Proofs` after its
module.

    tlasany AppCard.tla
    tlc -workers 2 -config AppCard.cfg MCAppCard
    tlapm AppCardProofs.tla

## 6. Not modelled

- The scrapers, registry adapters, prompts and validators: parsing and wording; what they
  deliver is an input of `CatalogImport`, `AppCard` and `AgentRuns`.
- Analytics, editorial pages, SEO pages, search views and the public API: reads and
  renderings without decisions; counters that nobody decides on.
- Core, configuration and deployment, apart from the beat schedule that fairness rests on.
- Of modelled components: `merge_use_cases` (`catalog/services.py:234`), the weekly draft
  and click tracking of the newsletter, rows of `Submission`, the quality score, retention
  jobs.
- Hazards that are known and that no run covers: an exception of `transition_to_published` ends
  the whole autopublish batch (`publishing.py:264`); a disagreement found under the lock is
  dropped (`persist.py:550`); a proposal that was applied leaves `resolved_at` empty
  (`admin.py:582`); `total_cost_usd` of a discovery run counts classifications only
  (`tasks.py:593`, against `models.py:63`); `persist_new_draft` writes back a payload it
  read before (`persist.py:313`) and the next refresh wipes it (`upsert.py:509`); two
  imports may choose one slug (`upsert.py:52`).
- Rows that an editor deletes (subscribers, claims), a claim moved to another card or address
  in its form, a confirmation that is waiting when its subscriber's row is gone.
- A call to the provider that times out and is billed all the same: no code can know. Readings
  of the clock older than `MaxDelay` when the Redis script runs: a bound on the network.
- The resubscribe branches of `newsletter/views.py:33-44` are unreachable: there is nothing to
  model. `delivered_count` is set by the delivery (`newsletter/tasks.py:64`) and not among the
  columns that `mark_as_sent` saves, so it never reaches the row: the model has the count the
  task reports.
- `DraftsGetThrough` assumes finitely many drafts: selection is newest first, and arrivals
  that never end would starve an old one.

## 7. Open

Next in line: what the findings' runs violate, stated as the strongest condition under which
each promise does hold and proved (a refresh whose comparison is not overtaken keeps the
editor's text; a card nobody touches between evaluation and lock is published as evaluated);
`OncePerInterval` for cards without an overdue bare row.
