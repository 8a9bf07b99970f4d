---------------------------- MODULE AgentBudget ----------------------------
(***************************************************************************)
(* The monthly cost hard-stop of the LLM agent (apps/agent/budget.py and   *)
(* the agent_budget_check beat task) together with the jobs it is there to *)
(* stop: enrichment, discovery and re-actualization batches and the manual *)
(* one-app runs of apps/agent/tasks.py.                                    *)
(*                                                                         *)
(* A check reads the month's cost, then the month and its row, decides,    *)
(* saves the whole row and mails, as separate steps; a job passes its gate,*)
(* waits for a provider and logs the call's cost as separate steps.  Costs *)
(* are naturals.  A month without a row and a row without latches are the  *)
(* same thing to every reader, so `row' is total.                          *)
(***************************************************************************)
EXTENDS Integers

CONSTANTS
    Checkers,     \* executions of agent_budget_check that may overlap
    Jobs,         \* slots in which an agent job runs (Celery workers, shells)
    Budgets,      \* values AGENT_MONTHLY_BUDGET_USD may be deployed with
    CheapCost,    \* cost of one classify_candidate call
    PrimaryCost,  \* cost of one enrichment call
    Limit,        \* largest batch
    LastMonth,    \* bound: months 1..LastMonth
    MaxStarts,    \* bound: jobs started in a behaviour
    MaxEdits,     \* bound: no manual edit once a row has had so many
    MaxDeploys    \* bound: budget changes

ASSUME CostsAreNat ==
    /\ CheapCost \in Nat
    /\ PrimaryCost \in Nat
    /\ Budgets \subseteq Nat

ASSUME BoundsAreNat ==
    /\ Limit \in Nat
    /\ LastMonth \in Nat \ {0}
    /\ MaxStarts \in Nat
    /\ MaxEdits \in Nat
    /\ MaxDeploys \in Nat

Months == 1..LastMonth
Thresholds == {80, 100}
Latches == [disc : BOOLEAN, hard : BOOLEAN]

VARIABLES
    month,     \* the calendar month
    budget,    \* the deployed AGENT_MONTHLY_BUDGET_USD; 0 is "not enforced"
    cost,      \* cost[m]: sum of LLMCallLog.cost_usd created on or after the first of m
    row,       \* row[m]: the latches of the BudgetMonthState row of month m
    sent,      \* sent[m][t]: alerts mailed for threshold t of month m
    check,     \* check[c]: local state of a running agent_budget_check
    job,       \* job[j]: local state of the job in slot j
    late,      \* history: late[j] counts slot j's calls logged under the current stop
    edits,     \* edits[m]: manual edits of the row of month m
    starts,    \* jobs started
    deploys    \* budget changes

boundVars == <<edits, starts, deploys>>
vars == <<month, budget, cost, row, sent, check, job, late, boundVars>>

\* cost, budget: what the check has read; month, row: the row it holds, latches
\* decided; alert: the threshold to mail after the save, 0 for none; seen: history, the
\* manual edits of that row by then.  A component the check no longer needs is back at
\* its IdleCheck value.
CheckState == [pc : {"idle", "costed", "held", "alert"}, cost : Nat, budget : Nat,
               month : Months, row : Latches, alert : {0} \cup Thresholds, seen : Nat]

\* left: batch items not yet taken.
JobState == [pc : {"idle", "loop", "classifying", "relevant", "admitted", "answered"},
             kind : {"enrich", "discover", "reactualize", "manual"},
             dry : BOOLEAN, left : 0..Limit]

TypeOK ==
    /\ month \in Months
    /\ budget \in Budgets
    /\ cost \in [Months -> Nat]
    /\ row \in [Months -> Latches]
    /\ sent \in [Months -> [Thresholds -> Nat]]
    /\ check \in [Checkers -> CheckState]
    /\ job \in [Jobs -> JobState]
    /\ late \in [Jobs -> [primary : Nat, cheap : Nat]]
    /\ edits \in [Months -> Nat]
    /\ starts \in Nat
    /\ deploys \in Nat

NoLatch == [disc |-> FALSE, hard |-> FALSE]

IdleCheck == [pc |-> "idle", cost |-> 0, budget |-> 0, month |-> 1, row |-> NoLatch,
              alert |-> 0, seen |-> 0]

NoJob == [pc |-> "idle", kind |-> "manual", dry |-> FALSE, left |-> 0]

NoLate == [j \in Jobs |-> [primary |-> 0, cheap |-> 0]]

Init ==
    /\ month = 1
    /\ budget \in Budgets
    /\ cost = [m \in Months |-> 0]
    /\ row = [m \in Months |-> NoLatch]
    /\ sent = [m \in Months |-> [t \in Thresholds |-> 0]]
    /\ check = [c \in Checkers |-> IdleCheck]
    /\ job = [j \in Jobs |-> NoJob]
    /\ late = NoLate
    /\ edits = [m \in Months |-> 0]
    /\ starts = 0
    /\ deploys = 0

(***************************************************************************)
(* The gates.                                                              *)
(***************************************************************************)
HardStopped == budget > 0 /\ row[month].hard

DiscoveryDisabled == budget > 0 /\ (row[month].disc \/ row[month].hard)

\* History: the counters are per stop, so a step that starts or ends a stop
\* resets them.  A conjunct of every step that can move HardStopped.
RestartLate == late' = IF HardStopped' # HardStopped THEN NoLate ELSE late

(***************************************************************************)
(* agent_budget_check.                                                     *)
(***************************************************************************)
CheckReadsCost(c) ==
    /\ check[c].pc = "idle"
    /\ check' = [check EXCEPT ![c] = [@ EXCEPT !.pc = "costed", !.cost = cost[month],
                                               !.budget = budget]]
    /\ UNCHANGED <<month, budget, cost, row, sent, job, late, boundVars>>

\* Mutant of Reached: the threshold has to be exceeded.
ReachedStrictly(c, t) == check[c].budget > 0 /\ 100 * check[c].cost > t * check[c].budget

Reached(c, t) == check[c].budget > 0 /\ 100 * check[c].cost >= t * check[c].budget

\* first_of_month is evaluated a second time, the row is fetched or created, and
\* the latches are decided on the fetched copy.
Decides(c, latches, alert) ==
    /\ check[c].pc = "costed"
    /\ check' = [check EXCEPT ![c] = [IdleCheck EXCEPT !.pc = "held", !.month = month,
                                                       !.row = latches, !.alert = alert,
                                                       !.seen = edits[month]]]
    /\ UNCHANGED <<month, budget, cost, row, sent, job, late, boundVars>>

\* Mutant of CheckReadsRow: no `is None' test, each check above 100% alerts again.
CheckAlertsAgain(c) ==
    Decides(c, [disc |-> row[month].disc \/ Reached(c, 80),
                hard |-> row[month].hard \/ Reached(c, 100)],
            IF Reached(c, 100) THEN 100
            ELSE IF Reached(c, 80) /\ ~row[month].disc THEN 80 ELSE 0)

\* Mutant of CheckReadsRow: the latches follow the utilization (no latching).
CheckFollowsCost(c) ==
    Decides(c, [disc |-> Reached(c, 80), hard |-> Reached(c, 100)],
            IF Reached(c, 100) /\ ~row[month].hard THEN 100
            ELSE IF Reached(c, 80) /\ ~row[month].disc THEN 80 ELSE 0)

CheckReadsRow(c) ==
    LET stopsNow == Reached(c, 100) /\ ~row[month].hard
        limitsNow == Reached(c, 80) /\ ~row[month].disc
    IN Decides(c, [disc |-> row[month].disc \/ limitsNow,
                   hard |-> row[month].hard \/ stopsNow],
               IF stopsNow THEN 100 ELSE IF limitsNow THEN 80 ELSE 0)

\* state.save() without update_fields: every column as it was read or decided.
CheckSaves(c) ==
    /\ check[c].pc = "held"
    /\ row' = [row EXCEPT ![check[c].month] = check[c].row]
    /\ check' = [check EXCEPT ![c] =
           IF check[c].alert = 0 THEN IdleCheck
           ELSE [@ EXCEPT !.pc = "alert", !.row = NoLatch, !.seen = 0]]
    /\ UNCHANGED <<month, budget, cost, sent, job, boundVars>>
    /\ RestartLate

CheckAlerts(c) ==
    /\ check[c].pc = "alert"
    /\ sent' = [sent EXCEPT ![check[c].month][check[c].alert] = @ + 1]
    /\ check' = [check EXCEPT ![c] = IdleCheck]
    /\ UNCHANGED <<month, budget, cost, row, job, late, boundVars>>

\* The worker dies, a query fails, send_mail raises (fail_silently=False), or no
\* recipient is configured and nothing is mailed.
CheckAborts(c) ==
    /\ check[c].pc # "idle"
    /\ check' = [check EXCEPT ![c] = IdleCheck]
    /\ UNCHANGED <<month, budget, cost, row, sent, job, late, boundVars>>

CheckStep(c) ==
    \/ CheckReadsCost(c)
    \/ CheckReadsRow(c)
    \/ CheckSaves(c)
    \/ CheckAlerts(c)
    \/ CheckAborts(c)

(***************************************************************************)
(* Jobs.  A gate that refuses a whole job leaves no trace, so it is the    *)
(* absence of a start.  AGENT_SOURCES_ENABLED and                          *)
(* AGENT_REACTUALIZATION_ENABLED are on.                                   *)
(***************************************************************************)
Begin(j, k, d, n, pc) ==
    /\ job[j].pc = "idle"
    /\ starts < MaxStarts
    /\ starts' = starts + 1
    /\ job' = [job EXCEPT ![j] = [pc |-> pc, kind |-> k, dry |-> d, left |-> n]]
    /\ UNCHANGED <<month, budget, cost, row, sent, check, late, edits, deploys>>

\* A shorter batch is one whose last items are skipped.
StartEnrich(j, d) == (d \/ ~DiscoveryDisabled) /\ Begin(j, "enrich", d, Limit, "loop")

StartDiscovery(j, d) == (d \/ ~DiscoveryDisabled) /\ Begin(j, "discover", d, Limit, "loop")

StartReactualize(j, d) == Begin(j, "reactualize", d, Limit, "loop")

\* run_enrich_existing_draft, run_enrich_new_app or run_reactualize_app with a
\* run of its own: the gate comes first, dry run or not.
StartManual(j, d) == ~HardStopped /\ Begin(j, "manual", d, 0, "admitted")

Becomes(j, pc, n) == job' = [job EXCEPT ![j] = [@ EXCEPT !.pc = pc, !.left = n]]

Unbilled == <<month, budget, cost, row, sent, check, late, boundVars>>

\* Taking the next item of an enrichment or re-actualization batch.  A refusal
\* (AgentBudgetExceeded), an ineligible app or a missing source costs one item.
BatchOfRuns(j) == job[j].pc = "loop" /\ job[j].kind \in {"enrich", "reactualize"}

\* Mutant of AdmitItem: the batch trusts the gate it passed when it began.
AdmitItemUngated(j) ==
    /\ BatchOfRuns(j)
    /\ job[j].left > 0
    /\ Becomes(j, "admitted", job[j].left - 1)
    /\ UNCHANGED Unbilled

AdmitItem(j) ==
    /\ BatchOfRuns(j)
    /\ job[j].left > 0
    /\ ~HardStopped
    /\ Becomes(j, "admitted", job[j].left - 1)
    /\ UNCHANGED Unbilled

\* Mutant of SkipItem: skips beyond the end of the batch.
SkipItemUnchecked(j) ==
    /\ job[j].pc = "loop"
    /\ Becomes(j, "loop", job[j].left - 1)
    /\ UNCHANGED Unbilled

SkipItem(j) ==
    /\ job[j].pc = "loop"
    /\ job[j].left > 0
    /\ Becomes(j, "loop", job[j].left - 1)
    /\ UNCHANGED Unbilled

\* A discovery candidate goes to the cheap model with no gate of its own.
ClassifyCandidate(j) ==
    /\ job[j].pc = "loop"
    /\ job[j].kind = "discover"
    /\ job[j].left > 0
    /\ Becomes(j, "classifying", job[j].left - 1)
    /\ UNCHANGED Unbilled

\* record_llm_call: a row created now is in the sum of this month and, the
\* filter having no upper end, of every earlier one.
Logged(c) == cost' = [m \in Months |-> IF m <= month THEN cost[m] + c ELSE cost[m]]

\* History: a call logged under a stop by a job that was not asked to be dry.
CountLate(j, which) ==
    late' = IF HardStopped /\ ~job[j].dry THEN [late EXCEPT ![j][which] = @ + 1] ELSE late

CandidateClassified(j) ==
    /\ job[j].pc = "classifying"
    /\ \E next \in IF job[j].dry THEN {"loop"} ELSE {"loop", "relevant"} :
          Becomes(j, next, job[j].left)
    /\ Logged(CheapCost)
    /\ CountLate(j, "cheap")
    /\ UNCHANGED <<month, budget, row, sent, check, boundVars>>

\* Mutant of AdmitRelevant: the relevant candidate is not gated a second time.
AdmitRelevantUngated(j) ==
    /\ job[j].pc = "relevant"
    /\ Becomes(j, "admitted", job[j].left)
    /\ UNCHANGED Unbilled

AdmitRelevant(j) ==
    /\ job[j].pc = "relevant"
    /\ ~HardStopped
    /\ Becomes(j, "admitted", job[j].left)
    /\ UNCHANGED Unbilled

ProviderAnswers(j) ==
    /\ job[j].pc = "admitted"
    /\ Becomes(j, "answered", job[j].left)
    /\ Logged(PrimaryCost)
    /\ CountLate(j, "primary")
    /\ UNCHANGED <<month, budget, row, sent, check, boundVars>>

\* apply_merge_set, persist_new_draft or queue_reactualization (none in a dry run)
\* is over, or raised where the batch counts a failed item and goes on.
ItemOver(j) ==
    /\ \/ job[j].pc = "answered"
       \/ job[j].pc = "admitted" /\ job[j].kind # "discover"
    /\ Becomes(j, "loop", job[j].left)
    /\ UNCHANGED Unbilled

RunOver(j) ==
    /\ job[j].pc = "loop"
    /\ job[j].left = 0
    /\ job' = [job EXCEPT ![j] = NoJob]
    /\ UNCHANGED Unbilled

\* An exception that no item handler stops ends the run: in discovery a fetch, the
\* provider, persistence, or the refused gate of a relevant candidate.  Anywhere,
\* the process may die.
RunFails(j) ==
    /\ job[j].pc # "idle"
    /\ job' = [job EXCEPT ![j] = NoJob]
    /\ UNCHANGED Unbilled

JobStep(j) ==
    \/ \E d \in BOOLEAN :
          \/ StartEnrich(j, d)
          \/ StartDiscovery(j, d)
          \/ StartReactualize(j, d)
          \/ StartManual(j, d)
    \/ AdmitItem(j)
    \/ SkipItem(j)
    \/ ClassifyCandidate(j)
    \/ CandidateClassified(j)
    \/ AdmitRelevant(j)
    \/ ProviderAnswers(j)
    \/ ItemOver(j)
    \/ RunOver(j)
    \/ RunFails(j)

(***************************************************************************)
(* The surroundings.                                                       *)
(***************************************************************************)
\* BudgetMonthStateAdmin: the form writes both timestamps of the row as submitted,
\* emptied, filled in, or as they were when the operator opened it.
OperatorEdits(m) ==
    /\ \A k \in Months : edits[k] < MaxEdits
    /\ \E latches \in Latches \ {row[m]} : row' = [row EXCEPT ![m] = latches]
    /\ edits' = [edits EXCEPT ![m] = @ + 1]
    /\ UNCHANGED <<month, budget, cost, sent, check, job, starts, deploys>>
    /\ RestartLate

\* A deployment with another AGENT_MONTHLY_BUDGET_USD.
BudgetChanges ==
    /\ deploys < MaxDeploys
    /\ deploys' = deploys + 1
    /\ budget' \in Budgets \ {budget}
    /\ UNCHANGED <<month, cost, row, sent, check, job, edits, starts>>
    /\ RestartLate

MonthTurns ==
    /\ month < LastMonth
    /\ month' = month + 1
    /\ UNCHANGED <<budget, cost, row, sent, check, job, boundVars>>
    /\ RestartLate

Next ==
    \/ \E c \in Checkers : CheckStep(c)
    \/ \E j \in Jobs : JobStep(j)
    \/ \E m \in Months : OperatorEdits(m)
    \/ BudgetChanges
    \/ MonthTurns

Spec == Init /\ [][Next]_vars

\* Beat starts a check every hour and the worker pool runs it; checks may abort,
\* but not each time (strong fairness).  Nothing is assumed of jobs, operators,
\* deployments or mail.
Fairness ==
    \A c \in Checkers :
        /\ WF_vars(CheckReadsCost(c))
        /\ SF_vars(CheckReadsRow(c))
        /\ SF_vars(CheckSaves(c))
        /\ WF_vars(CheckAlerts(c) \/ (check[c].pc = "alert" /\ CheckAborts(c)))

FairSpec == Spec /\ Fairness

(***************************************************************************)
(* Properties.                                                             *)
(***************************************************************************)
\* What the hard stop buys.  Under one stop a slot bills at most the one
\* enrichment call it had already been admitted for, and a discovery batch that
\* began before the stop at most the candidates of its batch; whatever starts
\* afterwards bills nothing (dry discovery runs excepted, which no gate covers).
OverrunBounded ==
    \A j \in Jobs : late[j].primary <= 1 /\ late[j].cheap <= Limit

\* What makes OverrunBounded inductive: classifying and relevant candidates belong
\* to discovery, whose items taken and to be taken are at most Limit; nothing is
\* counted outside a stop; and under one, what is counted and what a job can still
\* bill without passing a gate stay within the bound together.
Classifying(j) == IF job[j].pc = "classifying" THEN 1 ELSE 0

BatchInv(j) ==
    /\ job[j].pc \in {"classifying", "relevant"} => job[j].kind = "discover"
    /\ job[j].kind = "discover" => job[j].left + Classifying(j) <= Limit

UnderStop(j) ==
    /\ late[j].primary <= 1
    /\ job[j].pc = "admitted" /\ ~job[j].dry => late[j].primary = 0
    /\ late[j].cheap <= Limit
    /\ job[j].kind = "discover" /\ ~job[j].dry =>
           late[j].cheap + job[j].left + Classifying(j) <= Limit

OverrunInv ==
    /\ \A j \in Jobs : BatchInv(j)
    /\ ~HardStopped => late = NoLate
    /\ HardStopped => \A j \in Jobs : UnderStop(j)

\* "Email once": with no overlapping checks, a threshold of a month is mailed once
\* and once more for each manual edit of the month's row, which can take it off.
EmailOncePerCrossing ==
    \A m \in Months, t \in Thresholds : sent[m][t] <= 1 + edits[m]

\* A latch of any month comes off by hand alone: by a manual edit of that month's row
\* or, the check's save being of the whole row, by the save of a check that had read the
\* row before the last such edit.  No other save, cheaper reading of the cost or new
\* budget does it.
UndoesEdit(m) ==
    \E c \in Checkers :
        /\ check[c].pc = "held" /\ check'[c].pc # "held"
        /\ check[c].month = m /\ check[c].seen < edits[m]

LatchesStay ==
    \A m \in Months :
        \/ edits'[m] > edits[m]
        \/ UndoesEdit(m)
        \/ /\ row[m].hard => row'[m].hard
           /\ row[m].disc => row'[m].disc

LatchOnlyByHand == [][LatchesStay]_vars

\* Once the month's cost has reached the budget in force, the hard stop is on
\* sooner or later, unless the month ends or the budget changes first.
StopsInTheEnd ==
    \A m \in Months, b \in Budgets \ {0} :
        (month = m /\ budget = b /\ cost[m] >= b)
            ~> (row[m].hard \/ month # m \/ budget # b)

\* BudgetMonthStateAdmin's promise: after the budget is bumped so that the cost is
\* below 80% of it, the next beat tick clears the flags.  No code clears one.
WithinBudget(m, b) == month = m /\ budget = b /\ 100 * cost[m] < 80 * b

BumpClearsTheStop ==
    \A m \in Months, b \in Budgets \ {0} :
        WithinBudget(m, b) ~> (~row[m].hard \/ ~WithinBudget(m, b))
============================================================================
