------------------------- MODULE AgentBudgetProofs -------------------------
(***************************************************************************)
(* What the hard stop guarantees for every set of slots and checks, every  *)
(* budget, cost, batch limit and bound: the types of AgentBudget, the      *)
(* bound on what is billed under a stop, and, when checks do not overlap,  *)
(* that latches come off by hand only.                                     *)
(***************************************************************************)
EXTENDS AgentBudget, TLAPS

(***************************************************************************)
(* Types.                                                                  *)
(***************************************************************************)
LEMMA InitType == Init => TypeOK
  BY CostsAreNat, BoundsAreNat
     DEF Init, TypeOK, Months, Thresholds, Latches, NoLatch, CheckState, IdleCheck,
         JobState, NoJob, NoLate

LEMMA IdleValuesType ==
  /\ NoLatch \in Latches
  /\ IdleCheck \in CheckState
  /\ NoJob \in JobState
  /\ NoLate \in [Jobs -> [primary : Nat, cheap : Nat]]
  BY BoundsAreNat
     DEF NoLatch, Latches, IdleCheck, CheckState, NoJob, JobState, NoLate, Months, Thresholds

LEMMA RestartLateType == TypeOK /\ RestartLate => late' \in [Jobs -> [primary : Nat, cheap : Nat]]
  BY IdleValuesType DEF TypeOK, RestartLate

LEMMA CheckStepType ==
  ASSUME TypeOK, NEW c \in Checkers, CheckStep(c)
  PROVE  TypeOK'
<1>0. /\ cost[month] \in Nat /\ budget \in Nat
      /\ check[c].month \in Months /\ check[c].row \in Latches
      /\ check[c].alert \in {0} \cup Thresholds
      /\ check[c] \in CheckState
  <2>1. check[c] \in CheckState BY DEF TypeOK
  <2> QED BY <2>1, CostsAreNat DEF TypeOK, CheckState
<1>1. CASE CheckReadsCost(c)
  <2>1. [check[c] EXCEPT !.pc = "costed", !.cost = cost[month], !.budget = budget]
           \in CheckState
    BY <1>0 DEF CheckState
  <2>2. check' \in [Checkers -> CheckState]
    BY <1>1, <2>1 DEF TypeOK, CheckReadsCost
  <2> QED BY <1>1, <2>2 DEF TypeOK, CheckReadsCost, boundVars
<1>2. CASE CheckReadsRow(c)
  <2>1. PICK latches \in Latches, alert \in {0, 80, 100} : Decides(c, latches, alert)
    BY <1>2 DEF CheckReadsRow, Latches
  <2>2. [IdleCheck EXCEPT !.pc = "held", !.month = month, !.row = latches,
                          !.alert = alert, !.seen = edits[month]] \in CheckState
    BY DEF TypeOK, CheckState, IdleCheck, Latches, Thresholds
  <2>3. check' \in [Checkers -> CheckState]
    BY <2>1, <2>2 DEF TypeOK, Decides
  <2> QED BY <2>1, <2>3 DEF TypeOK, Decides, boundVars
<1>3. CASE CheckSaves(c)
  <2>1. [check[c] EXCEPT !.pc = "alert", !.row = NoLatch, !.seen = 0] \in CheckState
    BY IdleValuesType DEF TypeOK, CheckState
  <2>2. check' \in [Checkers -> CheckState]
    BY <1>3, <2>1, IdleValuesType DEF TypeOK, CheckSaves
  <2>3. row' \in [Months -> Latches]
    BY <1>0, <1>3 DEF TypeOK, CheckSaves
  <2> QED BY <1>3, <2>2, <2>3, RestartLateType DEF TypeOK, CheckSaves, boundVars
<1>4. CASE CheckAlerts(c)
  <2>1. check' \in [Checkers -> CheckState]
    BY <1>4, IdleValuesType DEF TypeOK, CheckAlerts
  <2>2. [sent[check[c].month] EXCEPT ![check[c].alert] = @ + 1] \in [Thresholds -> Nat]
    <3> DEFINE f == sent[check[c].month]
    <3>1. f \in [Thresholds -> Nat]
      BY <1>0 DEF TypeOK
    <3> HIDE DEF f
    <3>2. ASSUME NEW a, NEW t \in Thresholds
          PROVE  (IF t = a THEN f[a] + 1 ELSE f[t]) \in Nat
      <4>1. f[t] \in Nat BY <3>1
      <4> QED BY <4>1
    <3>3. \A a : [f EXCEPT ![a] = @ + 1] = [t \in Thresholds |-> IF t = a THEN f[a] + 1 ELSE f[t]]
      BY <3>1
    <3>4. \A a : [f EXCEPT ![a] = @ + 1] \in [Thresholds -> Nat]
      BY <3>2, <3>3
    <3> QED BY <3>4 DEF f
  <2>3. sent' \in [Months -> [Thresholds -> Nat]]
    BY <1>0, <1>4, <2>2 DEF TypeOK, CheckAlerts
  <2> QED BY <1>4, <2>1, <2>3 DEF TypeOK, CheckAlerts, boundVars
<1>5. CASE CheckAborts(c)
  <2>1. check' \in [Checkers -> CheckState]
    BY <1>5, IdleValuesType DEF TypeOK, CheckAborts
  <2> QED BY <1>5, <2>1 DEF TypeOK, CheckAborts, boundVars
<1> QED BY <1>1, <1>2, <1>3, <1>4, <1>5 DEF CheckStep

LEMMA JobStepType ==
  ASSUME TypeOK, NEW j \in Jobs, JobStep(j)
  PROVE  TypeOK'
<1> USE BoundsAreNat
<1>0. /\ job[j] \in JobState
      /\ job[j].pc \in {"idle", "loop", "classifying", "relevant", "admitted", "answered"}
      /\ job[j].left \in 0..Limit
      /\ job[j].dry \in BOOLEAN
  <2>1. job[j] \in JobState BY DEF TypeOK
  <2> QED BY <2>1 DEF JobState
<1>1. ASSUME NEW k \in {"enrich", "discover", "reactualize", "manual"}, NEW d \in BOOLEAN,
             NEW n \in 0..Limit, NEW pc \in {"loop", "admitted"}, Begin(j, k, d, n, pc)
      PROVE  TypeOK'
  <2>1. job' \in [Jobs -> JobState]
    BY <1>1 DEF TypeOK, Begin, JobState
  <2> QED BY <1>1, <2>1 DEF TypeOK, Begin
<1>2. ASSUME NEW d \in BOOLEAN,
             \/ StartEnrich(j, d) \/ StartDiscovery(j, d)
             \/ StartReactualize(j, d) \/ StartManual(j, d)
      PROVE  TypeOK'
  <2>1. 0 \in 0..Limit /\ Limit \in 0..Limit OBVIOUS
  <2> QED BY <1>1, <1>2, <2>1 DEF StartEnrich, StartDiscovery, StartReactualize, StartManual
<1>3. ASSUME NEW pc \in {"loop", "classifying", "relevant", "admitted", "answered"},
             NEW n \in 0..Limit, Becomes(j, pc, n)
      PROVE  job' \in [Jobs -> JobState]
  <2>1. [job[j] EXCEPT !.pc = pc, !.left = n] \in JobState
    BY <1>0 DEF JobState
  <2> QED BY <1>3, <2>1 DEF TypeOK, Becomes
<1>4. ASSUME NEW c \in Nat, NEW w \in {"primary", "cheap"},
             job' \in [Jobs -> JobState], Logged(c), CountLate(j, w),
             UNCHANGED <<month, budget, row, sent, check, boundVars>>
      PROVE  TypeOK'
  <2>1. cost' \in [Months -> Nat]
    BY <1>4 DEF TypeOK, Logged
  <2>2. late' \in [Jobs -> [primary : Nat, cheap : Nat]]
    <3>1. late[j] \in [primary : Nat, cheap : Nat] BY DEF TypeOK
    <3>2. [late[j] EXCEPT ![w] = @ + 1] \in [primary : Nat, cheap : Nat]
      BY <3>1
    <3> QED BY <1>4, <3>2 DEF TypeOK, CountLate
  <2> QED BY <1>4, <2>1, <2>2 DEF TypeOK, boundVars
<1>5. CASE AdmitItem(j) \/ SkipItem(j) \/ ClassifyCandidate(j)
  <2>1. job[j].left - 1 \in 0..Limit
    BY <1>0, <1>5 DEF AdmitItem, SkipItem, ClassifyCandidate
  <2>2. job' \in [Jobs -> JobState] /\ UNCHANGED Unbilled
    BY <1>3, <1>5, <2>1 DEF AdmitItem, SkipItem, ClassifyCandidate
  <2> QED BY <2>2 DEF TypeOK, Unbilled, boundVars
<1>6. CASE AdmitRelevant(j) \/ ItemOver(j)
  <2>1. job' \in [Jobs -> JobState] /\ UNCHANGED Unbilled
    BY <1>0, <1>3, <1>6 DEF AdmitRelevant, ItemOver
  <2> QED BY <2>1 DEF TypeOK, Unbilled, boundVars
<1>7. CASE RunOver(j) \/ RunFails(j)
  <2>1. job' = [job EXCEPT ![j] = NoJob] /\ UNCHANGED Unbilled
    BY <1>7 DEF RunOver, RunFails
  <2>2. job' \in [Jobs -> JobState]
    BY <2>1, IdleValuesType DEF TypeOK
  <2> QED BY <2>1, <2>2 DEF TypeOK, Unbilled, boundVars
<1>8. CASE CandidateClassified(j)
  <2>1. job' \in [Jobs -> JobState]
    BY <1>0, <1>3, <1>8 DEF CandidateClassified
  <2> QED BY <1>4, <1>8, <2>1, CostsAreNat DEF CandidateClassified
<1>9. CASE ProviderAnswers(j)
  <2>1. job' \in [Jobs -> JobState]
    BY <1>0, <1>3, <1>9 DEF ProviderAnswers
  <2> QED BY <1>4, <1>9, <2>1, CostsAreNat DEF ProviderAnswers
<1> QED BY <1>2, <1>5, <1>6, <1>7, <1>8, <1>9 DEF JobStep

LEMMA SurroundingsType ==
  ASSUME TypeOK, (\E m \in Months : OperatorEdits(m)) \/ BudgetChanges \/ MonthTurns
  PROVE  TypeOK'
<1>1. CASE \E m \in Months : OperatorEdits(m)
  <2>1. PICK m \in Months : OperatorEdits(m) BY <1>1
  <2>2. row' \in [Months -> Latches]
    BY <2>1 DEF TypeOK, OperatorEdits
  <2>3. edits[m] \in Nat /\ edits[m] + 1 \in Nat
    BY DEF TypeOK
  <2>4. edits' \in [Months -> Nat]
    BY <2>1, <2>3 DEF TypeOK, OperatorEdits
  <2> QED BY <2>1, <2>2, <2>4, RestartLateType DEF TypeOK, OperatorEdits
<1>2. CASE BudgetChanges
  BY <1>2, RestartLateType DEF TypeOK, BudgetChanges
<1>3. CASE MonthTurns
  <2>1. month' \in Months
    BY <1>3, BoundsAreNat DEF TypeOK, MonthTurns, Months
  <2> QED BY <1>3, <2>1, RestartLateType DEF TypeOK, MonthTurns, boundVars
<1> QED BY <1>1, <1>2, <1>3

LEMMA NextType == TypeOK /\ [Next]_vars => TypeOK'
<1> SUFFICES ASSUME TypeOK, [Next]_vars PROVE TypeOK' OBVIOUS
<1>1. CASE UNCHANGED vars
  BY <1>1 DEF TypeOK, vars, boundVars
<1>2. CASE Next
  BY <1>2, CheckStepType, JobStepType, SurroundingsType DEF Next
<1> QED BY <1>1, <1>2

\* Every state of the budget machinery is well formed, whatever the constants.
THEOREM TypeCorrect == Spec => []TypeOK
<1>1. Init => TypeOK BY InitType
<1>2. TypeOK /\ [Next]_vars => TypeOK' BY NextType
<1> QED BY <1>1, <1>2, PTL DEF Spec

(***************************************************************************)
(* The bound on what is billed under a stop.                               *)
(***************************************************************************)
LEMMA InitOverrun == Init => OverrunInv
<1> SUFFICES ASSUME Init PROVE OverrunInv OBVIOUS
<1>1. 1 \in Months BY BoundsAreNat DEF Months
<1>2. ~HardStopped BY <1>1 DEF Init, HardStopped, NoLatch
<1>3. ASSUME NEW j \in Jobs PROVE BatchInv(j)
  <2>1. job[j] = NoJob BY DEF Init
  <2> QED BY <2>1 DEF BatchInv, NoJob
<1> QED BY <1>2, <1>3 DEF Init, OverrunInv

\* A step that leaves the jobs alone and starts the count anew when it starts or
\* ends a stop.
LEMMA RestartOverrun ==
  ASSUME TypeOK, OverrunInv, UNCHANGED job, RestartLate
  PROVE  OverrunInv'
<1>1. \A j \in Jobs : BatchInv(j)'
  BY DEF OverrunInv, BatchInv, Classifying
<1>2. CASE HardStopped' = HardStopped
  <2>1. late' = late BY <1>2 DEF RestartLate
  <2> QED BY <1>1, <1>2, <2>1 DEF OverrunInv, UnderStop, Classifying
<1>3. CASE HardStopped' # HardStopped
  <2>1. late' = NoLate BY <1>3 DEF RestartLate
  <2>2. ASSUME NEW j \in Jobs PROVE UnderStop(j)'
    <3>1. late'[j].primary = 0 /\ late'[j].cheap = 0
      BY <2>1 DEF NoLate
    <3>2. job[j] \in JobState /\ BatchInv(j)'
      BY <1>1 DEF TypeOK
    <3> QED BY <3>1, <3>2, BoundsAreNat DEF UnderStop, BatchInv, Classifying, JobState
  <2>3. NoLate' = NoLate BY DEF NoLate
  <2> QED BY <1>1, <2>1, <2>2, <2>3 DEF OverrunInv
<1> QED BY <1>2, <1>3

\* A step of slot j, which cannot move the stop: slot j alone is in question.
LEMMA SlotOverrun ==
  ASSUME TypeOK, OverrunInv, NEW j \in Jobs, UNCHANGED <<month, budget, row>>,
         \A i \in Jobs \ {j} : job'[i] = job[i] /\ late'[i] = late[i],
         BatchInv(j)',
         ~HardStopped => late' = late,
         HardStopped => UnderStop(j)'
  PROVE  OverrunInv'
<1>1. HardStopped' = HardStopped BY DEF HardStopped
<1>2. \A i \in Jobs : BatchInv(i)'
  BY DEF OverrunInv, BatchInv, Classifying
<1>3. HardStopped => \A i \in Jobs : UnderStop(i)'
  BY DEF OverrunInv, UnderStop, Classifying
<1>4. NoLate' = NoLate BY DEF NoLate
<1> QED BY <1>1, <1>2, <1>3, <1>4 DEF OverrunInv

LEMMA JobStepOverrun ==
  ASSUME TypeOK, OverrunInv, NEW j \in Jobs, JobStep(j)
  PROVE  OverrunInv'
<1> USE BoundsAreNat
<1>0. /\ job[j] \in JobState
      /\ late[j] \in [primary : Nat, cheap : Nat]
      /\ job[j].left \in 0..Limit
      /\ BatchInv(j)
      /\ HardStopped => UnderStop(j)
  <2>1. job[j] \in JobState BY DEF TypeOK
  <2> QED BY <2>1 DEF TypeOK, JobState, OverrunInv
<1>1. ASSUME NEW k \in {"enrich", "discover", "reactualize", "manual"}, NEW d \in BOOLEAN,
             NEW n \in 0..Limit, NEW pc \in {"loop", "admitted"}, Begin(j, k, d, n, pc),
             HardStopped => pc = "loop" /\ (k = "discover" => d)
      PROVE  OverrunInv'
  <2>1. job'[j] = [pc |-> pc, kind |-> k, dry |-> d, left |-> n]
    BY <1>1 DEF Begin, TypeOK
  <2>2. BatchInv(j)' BY <2>1 DEF BatchInv, Classifying
  <2>3. HardStopped => UnderStop(j)'
    BY <1>0, <1>1, <2>1 DEF UnderStop, Begin
  <2> QED BY <1>1, <2>2, <2>3, SlotOverrun DEF Begin, TypeOK
<1>2. ASSUME NEW d \in BOOLEAN,
             \/ StartEnrich(j, d) \/ StartDiscovery(j, d)
             \/ StartReactualize(j, d) \/ StartManual(j, d)
      PROVE  OverrunInv'
  <2>1. 0 \in 0..Limit /\ Limit \in 0..Limit OBVIOUS
  <2>2. HardStopped => DiscoveryDisabled BY DEF HardStopped, DiscoveryDisabled
  <2> QED BY <1>1, <1>2, <2>1, <2>2
          DEF StartEnrich, StartDiscovery, StartReactualize, StartManual
\* A step inside a job that bills nothing.
<1>3. ASSUME NEW pc \in {"loop", "classifying", "relevant", "admitted", "answered"},
             NEW n \in 0..Limit, Becomes(j, pc, n), UNCHANGED Unbilled,
             pc \in {"classifying", "relevant"} => job[j].kind = "discover",
             n + (IF pc = "classifying" THEN 1 ELSE 0) <= job[j].left + Classifying(j),
             HardStopped /\ pc = "admitted" => job[j].pc = "admitted"
      PROVE  OverrunInv'
  <2>1. job'[j] = [job[j] EXCEPT !.pc = pc, !.left = n]
    BY <1>3 DEF Becomes, TypeOK
  <2>2. /\ job'[j].pc = pc /\ job'[j].left = n
        /\ job'[j].kind = job[j].kind /\ job'[j].dry = job[j].dry
    BY <1>0, <2>1 DEF JobState
  <2>3. Classifying(j)' = (IF pc = "classifying" THEN 1 ELSE 0) /\ Classifying(j) \in {0, 1}
    BY <2>2 DEF Classifying
  <2>4. BatchInv(j)'
    BY <1>0, <1>3, <2>2, <2>3 DEF BatchInv
  <2>5. late' = late /\ UNCHANGED <<month, budget, row>>
    BY <1>3 DEF Unbilled
  <2>6. HardStopped => UnderStop(j)'
    BY <1>0, <1>3, <2>2, <2>3, <2>5 DEF UnderStop
  <2>7. \A i \in Jobs \ {j} : job'[i] = job[i]
    BY <1>3 DEF Becomes, TypeOK
  <2> QED BY <2>4, <2>5, <2>6, <2>7, SlotOverrun
<1>4. CASE AdmitItem(j) \/ SkipItem(j) \/ ClassifyCandidate(j)
  <2>1. job[j].left - 1 \in 0..Limit /\ Classifying(j) \in {0, 1}
    BY <1>0, <1>4 DEF AdmitItem, SkipItem, ClassifyCandidate, Classifying
  <2>2. job[j].left - 1 + 1 <= job[j].left + Classifying(j)
    BY <1>0, <2>1
  <2> QED BY <1>0, <1>3, <1>4, <2>1, <2>2 DEF AdmitItem, SkipItem, ClassifyCandidate
<1>5. CASE AdmitRelevant(j) \/ ItemOver(j)
  <2>1. job[j].left <= job[j].left + Classifying(j)
    BY <1>0 DEF Classifying
  <2> QED BY <1>0, <1>3, <1>5, <2>1 DEF AdmitRelevant, ItemOver
<1>6. CASE RunOver(j) \/ RunFails(j)
  <2>1. job' = [job EXCEPT ![j] = NoJob] /\ UNCHANGED Unbilled
    BY <1>6 DEF RunOver, RunFails
  <2>2. job'[j] = NoJob /\ \A i \in Jobs \ {j} : job'[i] = job[i]
    BY <2>1 DEF TypeOK
  <2>3. late' = late /\ UNCHANGED <<month, budget, row>>
    BY <2>1 DEF Unbilled
  <2>4. BatchInv(j)' BY <2>2 DEF BatchInv, NoJob
  <2>5. HardStopped => UnderStop(j)'
    BY <1>0, <2>2, <2>3 DEF UnderStop, NoJob
  <2> QED BY <2>2, <2>3, <2>4, <2>5, SlotOverrun
\* A step that logs a call.
<1>7. ASSUME NEW pc \in {"loop", "relevant", "answered"}, NEW w \in {"primary", "cheap"},
             Becomes(j, pc, job[j].left), CountLate(j, w),
             UNCHANGED <<month, budget, row>>,
             IF w = "cheap" THEN job[j].pc = "classifying" ELSE job[j].pc = "admitted",
             pc = "relevant" => job[j].kind = "discover"
      PROVE  OverrunInv'
  <2>1. job'[j] = [job[j] EXCEPT !.pc = pc, !.left = job[j].left]
    BY <1>7 DEF Becomes, TypeOK
  <2>2. /\ job'[j].pc = pc /\ job'[j].left = job[j].left
        /\ job'[j].kind = job[j].kind /\ job'[j].dry = job[j].dry
    BY <1>0, <2>1 DEF JobState
  <2>3. Classifying(j)' = 0 /\ Classifying(j) = (IF w = "cheap" THEN 1 ELSE 0)
    BY <1>7, <2>2 DEF Classifying
  <2>4. BatchInv(j)'
    BY <1>0, <1>7, <2>2, <2>3 DEF BatchInv
  <2>5. \A i \in Jobs \ {j} : job'[i] = job[i] /\ late'[i] = late[i]
    BY <1>7 DEF Becomes, CountLate, TypeOK
  <2>6. ASSUME HardStopped PROVE UnderStop(j)'
    <3>1. CASE job[j].dry
      <4>1. late' = late BY <1>7, <3>1 DEF CountLate
      <4> QED BY <1>0, <1>7, <2>2, <2>6, <3>1, <4>1 DEF UnderStop
    <3>2. CASE ~job[j].dry
      <4>1. late'[j] = [late[j] EXCEPT ![w] = @ + 1]
        BY <1>7, <2>6, <3>2 DEF CountLate, TypeOK
      <4>2. CASE w = "primary"
        <5>1. late'[j].primary = late[j].primary + 1 /\ late'[j].cheap = late[j].cheap
          BY <1>0, <4>1, <4>2
        <5> QED BY <1>0, <1>7, <2>2, <2>3, <2>6, <3>2, <4>2, <5>1 DEF UnderStop
      <4>3. CASE w = "cheap"
        <5>1. late'[j].cheap = late[j].cheap + 1 /\ late'[j].primary = late[j].primary
          BY <1>0, <4>1, <4>3
        <5> QED BY <1>0, <1>7, <2>2, <2>3, <2>6, <3>2, <4>3, <5>1 DEF UnderStop, BatchInv
      <4> QED BY <4>2, <4>3
    <3> QED BY <1>0, <3>1, <3>2 DEF JobState
  <2>7. ~HardStopped => late' = late
    BY <1>7 DEF CountLate
  <2> QED BY <1>7, <2>4, <2>5, <2>6, <2>7, SlotOverrun
<1>8. CASE CandidateClassified(j)
  BY <1>0, <1>7, <1>8 DEF CandidateClassified, BatchInv
<1>9. CASE ProviderAnswers(j)
  BY <1>0, <1>7, <1>9 DEF ProviderAnswers
<1> QED BY <1>2, <1>4, <1>5, <1>6, <1>8, <1>9 DEF JobStep

LEMMA NextOverrun == TypeOK /\ OverrunInv /\ [Next]_vars => OverrunInv'
<1> SUFFICES ASSUME TypeOK, OverrunInv, [Next]_vars PROVE OverrunInv' OBVIOUS
<1>1. ASSUME UNCHANGED <<month, budget, row, job, late>> PROVE OverrunInv'
  <2>1. RestartLate BY <1>1 DEF RestartLate, HardStopped
  <2> QED BY <1>1, <2>1, RestartOverrun
<1>2. CASE UNCHANGED vars BY <1>1, <1>2 DEF vars, boundVars
<1>3. ASSUME NEW c \in Checkers, CheckStep(c) PROVE OverrunInv'
  <2>1. CASE CheckReadsCost(c) BY <1>1, <2>1 DEF CheckReadsCost
  <2>2. CASE CheckReadsRow(c) BY <1>1, <2>2 DEF CheckReadsRow, Decides
  <2>3. CASE CheckSaves(c) BY <2>3, RestartOverrun DEF CheckSaves
  <2>4. CASE CheckAlerts(c) BY <1>1, <2>4 DEF CheckAlerts
  <2>5. CASE CheckAborts(c) BY <1>1, <2>5 DEF CheckAborts
  <2> QED BY <1>3, <2>1, <2>2, <2>3, <2>4, <2>5 DEF CheckStep
<1>4. CASE \E m \in Months : OperatorEdits(m)
  BY <1>4, RestartOverrun DEF OperatorEdits
<1>5. CASE BudgetChanges BY <1>5, RestartOverrun DEF BudgetChanges
<1>6. CASE MonthTurns BY <1>6, RestartOverrun DEF MonthTurns
<1> QED BY <1>2, <1>3, <1>4, <1>5, <1>6, JobStepOverrun DEF Next

LEMMA OverrunInvSuffices == TypeOK /\ OverrunInv => OverrunBounded
<1> SUFFICES ASSUME TypeOK, OverrunInv, NEW j \in Jobs
             PROVE  late[j].primary <= 1 /\ late[j].cheap <= Limit
  BY DEF OverrunBounded
<1>1. CASE HardStopped BY <1>1 DEF OverrunInv, UnderStop
<1>2. CASE ~HardStopped
  <2>1. late[j].primary = 0 /\ late[j].cheap = 0
    BY <1>2 DEF OverrunInv, NoLate
  <2> QED BY <2>1, BoundsAreNat
<1> QED BY <1>1, <1>2

\* Under one stop a slot bills at most one enrichment call and one batch of
\* classifications, for every number of slots, batch size, cost and budget.
THEOREM OverrunCorrect == Spec => []OverrunBounded
<1>1. Init => OverrunInv BY InitOverrun
<1>2. TypeOK /\ OverrunInv /\ [Next]_vars => OverrunInv' BY NextOverrun
<1>3. TypeOK /\ OverrunInv => OverrunBounded BY OverrunInvSuffices
<1>4. Spec => []TypeOK BY TypeCorrect
<1> QED BY <1>1, <1>2, <1>3, <1>4, PTL DEF Spec

(***************************************************************************)
(* Latches come off by hand only, as long as one check runs at a time.     *)
(***************************************************************************)
\* What a check is about to save has every latch the row has, unless the row was
\* edited since the check read it.
HeldCovers(c) ==
    check[c].pc = "held" =>
        /\ check[c].seen <= edits[check[c].month]
        /\ check[c].seen = edits[check[c].month] =>
               /\ row[check[c].month].hard => check[c].row.hard
               /\ row[check[c].month].disc => check[c].row.disc

HeldInv == \A c \in Checkers : HeldCovers(c)

NoOverlap == \A c, d \in Checkers : c = d

LEMMA HeldCheckStep ==
  ASSUME NoOverlap, TypeOK, HeldInv, NEW c \in Checkers, CheckStep(c)
  PROVE  HeldInv' /\ LatchesStay
<1>0. Checkers = {c} BY DEF NoOverlap
<1>1. check[c] \in CheckState /\ HeldCovers(c) BY DEF TypeOK, HeldInv
<1>2. UNCHANGED row => LatchesStay BY DEF LatchesStay
<1>3. check'[c].pc # "held" => HeldInv' BY <1>0 DEF HeldInv, HeldCovers
<1>4. CASE CheckReadsCost(c)
  <2>1. check'[c].pc = "costed" BY <1>1, <1>4 DEF CheckReadsCost, TypeOK, CheckState
  <2> QED BY <1>2, <1>3, <1>4, <2>1 DEF CheckReadsCost
<1>5. CASE CheckReadsRow(c)
  <2>1. PICK latches, alert :
           /\ Decides(c, latches, alert)
           /\ row[month].hard => latches.hard
           /\ row[month].disc => latches.disc
    <3> DEFINE stopsNow == Reached(c, 100) /\ ~row[month].hard
               limitsNow == Reached(c, 80) /\ ~row[month].disc
               taken == [disc |-> row[month].disc \/ limitsNow,
                         hard |-> row[month].hard \/ stopsNow]
               mail == IF stopsNow THEN 100 ELSE IF limitsNow THEN 80 ELSE 0
    <3>1. Decides(c, taken, mail) BY <1>5 DEF CheckReadsRow
    <3>2. taken.hard = (row[month].hard \/ stopsNow) /\ taken.disc = (row[month].disc \/ limitsNow)
      OBVIOUS
    <3> HIDE DEF taken, mail
    <3> QED BY <3>1, <3>2
  <2>2. /\ check'[c].month = month /\ check'[c].row = latches
        /\ check'[c].seen = edits[month]
    BY <2>1 DEF Decides, IdleCheck, TypeOK
  <2>3. row' = row /\ edits' = edits BY <2>1 DEF Decides, boundVars
  <2>4. edits[month] <= edits[month] BY DEF TypeOK
  <2>5. HeldCovers(c)' BY <2>1, <2>2, <2>3, <2>4 DEF HeldCovers
  <2> QED BY <1>0, <1>2, <2>3, <2>5 DEF HeldInv
<1>6. CASE CheckSaves(c)
  <2>1. check'[c].pc # "held"
    BY <1>1, <1>6 DEF CheckSaves, TypeOK, CheckState, IdleCheck
  <2>2. check[c].seen \in Nat /\ \A m \in Months : edits[m] \in Nat
    BY <1>1 DEF TypeOK, CheckState
  <2>3. ASSUME NEW m \in Months, ~UndoesEdit(m)
        PROVE  (row[m].hard => row'[m].hard) /\ (row[m].disc => row'[m].disc)
    <3>1. CASE check[c].month # m BY <1>6, <3>1 DEF CheckSaves, TypeOK
    <3>2. CASE check[c].month = m
      <4>1. ~(check[c].seen < edits[m])
        BY <1>6, <2>1, <2>3, <3>2 DEF UndoesEdit, CheckSaves
      <4>2. check[c].seen = edits[m]
        BY <1>1, <1>6, <2>2, <3>2, <4>1 DEF CheckSaves, HeldCovers
      <4>3. (row[m].hard => check[c].row.hard) /\ (row[m].disc => check[c].row.disc)
        BY <1>1, <1>6, <3>2, <4>2 DEF CheckSaves, HeldCovers
      <4> QED BY <1>6, <3>2, <4>3 DEF CheckSaves, TypeOK
    <3> QED BY <3>1, <3>2
  <2> QED BY <1>3, <2>1, <2>3 DEF LatchesStay
<1>7. CASE CheckAlerts(c) \/ CheckAborts(c)
  <2>1. check'[c] = IdleCheck /\ row' = row
    BY <1>7 DEF CheckAlerts, CheckAborts, TypeOK
  <2> QED BY <1>2, <1>3, <2>1 DEF IdleCheck
<1> QED BY <1>4, <1>5, <1>6, <1>7 DEF CheckStep

LEMMA HeldNext ==
  ASSUME NoOverlap, TypeOK, HeldInv, [Next]_vars
  PROVE  HeldInv' /\ (LatchesStay \/ UNCHANGED vars)
<1>1. ASSUME UNCHANGED <<row, check, edits>> PROVE HeldInv' /\ LatchesStay
  BY <1>1 DEF HeldInv, HeldCovers, LatchesStay
<1>2. CASE UNCHANGED vars BY <1>1, <1>2 DEF vars, boundVars
<1>3. CASE \E c \in Checkers : CheckStep(c) BY <1>3, HeldCheckStep
<1>4. ASSUME NEW j \in Jobs, JobStep(j) PROVE UNCHANGED <<row, check, edits>>
  BY <1>4 DEF boundVars, JobStep, Begin, StartEnrich, StartDiscovery, StartReactualize, StartManual,
              Unbilled, AdmitItem, SkipItem, ClassifyCandidate, CandidateClassified,
              AdmitRelevant, ProviderAnswers, ItemOver, RunOver, RunFails
<1>5. ASSUME NEW m \in Months, OperatorEdits(m) PROVE HeldInv' /\ LatchesStay
  <2>1. \A k \in Months : k # m => row'[k] = row[k] /\ edits'[k] = edits[k]
    BY <1>5 DEF OperatorEdits, TypeOK
  <2>2. edits'[m] = edits[m] + 1 /\ edits[m] \in Nat BY <1>5 DEF OperatorEdits, TypeOK
  <2>3. check' = check BY <1>5 DEF OperatorEdits
  <2>4. ASSUME NEW c \in Checkers PROVE HeldCovers(c)'
    <3>1. check[c].month \in Months /\ check[c].seen \in Nat /\ HeldCovers(c)
      BY DEF TypeOK, CheckState, HeldInv
    <3>2. CASE check[c].month = m BY <2>2, <2>3, <3>1, <3>2 DEF HeldCovers
    <3>3. CASE check[c].month # m BY <2>1, <2>3, <3>1, <3>3 DEF HeldCovers
    <3> QED BY <3>2, <3>3
  <2>5. edits'[m] > edits[m] BY <2>2
  <2> QED BY <2>1, <2>4, <2>5 DEF LatchesStay, HeldInv
<1>6. CASE BudgetChanges \/ MonthTurns BY <1>1, <1>6 DEF BudgetChanges, MonthTurns, boundVars
<1> QED BY <1>1, <1>2, <1>3, <1>4, <1>5, <1>6 DEF Next

\* Without overlapping checks no latch of any month comes off except by hand (or by
\* the save of a check that missed the last manual edit), for any number of jobs,
\* months, budgets and manual edits.
THEOREM LatchCorrect ==
  ASSUME NoOverlap
  PROVE  Spec => LatchOnlyByHand
<1>1. Init => HeldInv BY DEF Init, HeldInv, HeldCovers, IdleCheck
<1>2. TypeOK /\ HeldInv /\ [Next]_vars => HeldInv' /\ [LatchesStay]_vars
  BY HeldNext
<1>3. Spec => []TypeOK BY TypeCorrect
<1> QED BY <1>1, <1>2, <1>3, PTL DEF Spec, LatchOnlyByHand

(***************************************************************************)
(* A threshold is mailed once per crossing.                                *)
(***************************************************************************)
Latched(latches, t) == IF t = 100 THEN latches.hard ELSE latches.disc

\* A mail of month m for threshold t is still allowed.
MayMail(m, t) == sent[m][t] <= edits[m]

\* The mail that check c may still send is allowed: it was decided on a row without the
\* latch, and whoever takes the latch off once more allows another one.
MailCovered(c, m, t) ==
    check[c].month = m =>
        /\ check[c].pc = "held" =>
              /\ check[c].alert = t \/ ~Latched(check[c].row, t) => MayMail(m, t)
              /\ check[c].alert = t => Latched(check[c].row, t)
        /\ check[c].pc = "alert" /\ check[c].alert = t =>
              MayMail(m, t) /\ (Latched(row[m], t) \/ sent[m][t] + 1 <= edits[m])

\* What makes EmailOncePerCrossing inductive: a row without the latch allows a mail.
MailInv ==
    \A m \in Months, t \in Thresholds :
        /\ sent[m][t] <= 1 + edits[m]
        /\ ~Latched(row[m], t) => MayMail(m, t)
        /\ \A c \in Checkers : MailCovered(c, m, t)

\* A row or a check's copy of it has the latches as Booleans, and the counters count.
LEMMA MailTypes ==
  ASSUME TypeOK
  PROVE  /\ \A m \in Months, t \in Thresholds : sent[m][t] \in Nat
         /\ \A m \in Months : edits[m] \in Nat /\ row[m] \in Latches
         /\ \A c \in Checkers : check[c] \in CheckState /\ check[c].row \in Latches
         /\ 80 # 100
  BY DEF TypeOK, CheckState

\* A step of the check, which is the only one.
LEMMA MailCheckStep ==
  ASSUME NoOverlap, TypeOK, MailInv, NEW c \in Checkers, CheckStep(c)
  PROVE  MailInv'
<1>0. Checkers = {c} BY DEF NoOverlap
<1>1. /\ check[c] \in CheckState /\ check[c].row \in Latches
      /\ \A m \in Months, t \in Thresholds : sent[m][t] \in Nat /\ edits[m] \in Nat
  BY MailTypes
<1>2. ASSUME UNCHANGED <<sent, row, edits>>, check'[c].pc \notin {"held", "alert"} PROVE MailInv'
  BY <1>0, <1>2 DEF MailInv, MailCovered, MayMail
<1>3. CASE CheckReadsCost(c)
  <2>1. check'[c].pc = "costed" BY <1>1, <1>3 DEF CheckReadsCost, TypeOK, CheckState
  <2> QED BY <1>2, <1>3, <2>1 DEF CheckReadsCost, boundVars
<1>4. CASE CheckReadsRow(c)
  <2> DEFINE stopsNow == Reached(c, 100) /\ ~row[month].hard
             limitsNow == Reached(c, 80) /\ ~row[month].disc
             taken == [disc |-> row[month].disc \/ limitsNow,
                       hard |-> row[month].hard \/ stopsNow]
             mail == IF stopsNow THEN 100 ELSE IF limitsNow THEN 80 ELSE 0
  <2>1. Decides(c, taken, mail) BY <1>4 DEF CheckReadsRow
  <2>2. ASSUME NEW t \in Thresholds
        PROVE  /\ mail = t => ~Latched(row[month], t) /\ Latched(taken, t)
               /\ ~Latched(taken, t) => ~Latched(row[month], t)
    <3>1. taken.hard = (row[month].hard \/ stopsNow) /\ taken.disc = (row[month].disc \/ limitsNow)
      OBVIOUS
    <3>2. CASE t = 100
      <4>1. mail = t <=> stopsNow BY <3>2
      <4>2. stopsNow => ~row[month].hard OBVIOUS
      <4> HIDE DEF taken, mail, stopsNow, limitsNow
      <4> QED BY <3>1, <3>2, <4>1, <4>2 DEF Latched
    <3>3. CASE t = 80
      <4>1. mail = t => limitsNow BY <3>3
      <4>2. limitsNow => ~row[month].disc OBVIOUS
      <4>3. t # 100 BY <3>3
      <4> HIDE DEF taken, mail, stopsNow, limitsNow
      <4> QED BY <3>1, <4>1, <4>2, <4>3 DEF Latched
    <3> QED BY <3>2, <3>3 DEF Thresholds
  <2> HIDE DEF taken, mail
  <2>3. /\ check'[c].month = month /\ check'[c].row = taken /\ check'[c].alert = mail
        /\ check'[c].pc = "held" /\ UNCHANGED <<sent, row, edits, month>>
    BY <2>1 DEF Decides, IdleCheck, TypeOK, boundVars
  <2>4. ASSUME NEW m \in Months, NEW t \in Thresholds PROVE MailCovered(c, m, t)'
    BY <2>2, <2>3 DEF MailCovered, MailInv, MayMail
  <2> QED BY <1>0, <2>3, <2>4 DEF MailInv, MayMail
<1>5. CASE CheckSaves(c)
  <2> DEFINE k == check[c].month
  <2>1. /\ k \in Months /\ check[c].pc = "held" /\ UNCHANGED <<sent, edits>>
        /\ row'[k] = check[c].row /\ \A m \in Months \ {k} : row'[m] = row[m]
    BY <1>1, <1>5 DEF CheckSaves, TypeOK, CheckState, boundVars
  <2>2. /\ check'[c].pc \in {"idle", "alert"}
        /\ check'[c].pc = "alert" => check'[c].month = k /\ check'[c].alert = check[c].alert
    BY <1>1, <1>5 DEF CheckSaves, TypeOK, CheckState, IdleCheck
  <2>3. ASSUME NEW t \in Thresholds
        PROVE  /\ check[c].alert = t \/ ~Latched(check[c].row, t) => MayMail(k, t)
               /\ check[c].alert = t => Latched(check[c].row, t)
    BY <2>1 DEF MailInv, MailCovered
  <2> HIDE DEF k
  <2>4. ASSUME NEW m \in Months, NEW t \in Thresholds
        PROVE  (~Latched(row[m], t) => MayMail(m, t))'
    <3>1. CASE m = k BY <2>1, <2>3, <3>1 DEF MayMail
    <3>2. CASE m # k BY <2>1, <3>2 DEF MailInv, MayMail
    <3> QED BY <3>1, <3>2
  <2>5. ASSUME NEW m \in Months, NEW t \in Thresholds PROVE MailCovered(c, m, t)'
    BY <2>1, <2>2, <2>3 DEF MailCovered, MayMail
  <2> QED BY <1>0, <2>1, <2>4, <2>5 DEF MailInv
<1>6. CASE CheckAlerts(c)
  <2> DEFINE k == check[c].month
             s == check[c].alert
  <2>1. /\ check'[c].pc = "idle" /\ UNCHANGED <<row, edits>> /\ check[c].pc = "alert"
        /\ \A m \in Months, t \in Thresholds :
              sent'[m][t] = IF m = k /\ t = s THEN sent[m][t] + 1 ELSE sent[m][t]
    BY <1>1, <1>6 DEF CheckAlerts, TypeOK, IdleCheck, boundVars
  <2>2. ASSUME NEW m \in Months, NEW t \in Thresholds
        PROVE  (/\ sent[m][t] <= 1 + edits[m] /\ (~Latched(row[m], t) => MayMail(m, t)))'
    <3>1. CASE m = k /\ t = s
      BY <1>1, <2>1, <3>1 DEF MailInv, MailCovered, MayMail
    <3>2. CASE ~(m = k /\ t = s)
      BY <2>1, <3>2 DEF MailInv, MayMail
    <3> QED BY <3>1, <3>2
  <2>3. ASSUME NEW m \in Months, NEW t \in Thresholds PROVE MailCovered(c, m, t)'
    BY <2>1 DEF MailCovered
  <2> QED BY <1>0, <2>2, <2>3 DEF MailInv
<1>7. CASE CheckAborts(c)
  <2>1. check'[c].pc = "idle" BY <1>7 DEF CheckAborts, TypeOK, IdleCheck
  <2> QED BY <1>2, <1>7, <2>1 DEF CheckAborts, boundVars
<1> QED BY <1>3, <1>4, <1>5, <1>6, <1>7 DEF CheckStep

\* Any step: a manual edit allows one mail more.
LEMMA MailNext == NoOverlap /\ TypeOK /\ MailInv /\ [Next]_vars => MailInv'
<1> SUFFICES ASSUME NoOverlap, TypeOK, MailInv, [Next]_vars PROVE MailInv'
  OBVIOUS
<1>1. ASSUME UNCHANGED <<sent, row, check, edits>> PROVE MailInv'
  BY <1>1 DEF MailInv, MailCovered, MayMail
<1>2. CASE UNCHANGED vars BY <1>1, <1>2 DEF vars, boundVars
<1>3. CASE \E c \in Checkers : CheckStep(c) BY <1>3, MailCheckStep
<1>4. ASSUME NEW j \in Jobs, JobStep(j) PROVE UNCHANGED <<sent, row, check, edits>>
  BY <1>4 DEF boundVars, JobStep, Begin, StartEnrich, StartDiscovery, StartReactualize, StartManual,
              Unbilled, AdmitItem, SkipItem, ClassifyCandidate, CandidateClassified,
              AdmitRelevant, ProviderAnswers, ItemOver, RunOver, RunFails
<1>5. ASSUME NEW k \in Months, OperatorEdits(k) PROVE MailInv'
  <2>1. /\ \A m \in Months : m # k => row'[m] = row[m] /\ edits'[m] = edits[m]
        /\ edits'[k] = edits[k] + 1 /\ UNCHANGED <<sent, check>>
    BY <1>5 DEF OperatorEdits, TypeOK
  <2>2. ASSUME NEW m \in Months, NEW t \in Thresholds, NEW c \in Checkers
        PROVE  (/\ sent[m][t] <= 1 + edits[m]
                /\ ~Latched(row[m], t) => MayMail(m, t)
                /\ MailCovered(c, m, t))'
    <3>1. sent[m][t] \in Nat /\ edits[m] \in Nat BY MailTypes
    <3>2. CASE m = k
      <4>1. sent[m][t] <= 1 + edits[m] BY DEF MailInv
      <4>2. MayMail(m, t)' /\ (sent[m][t] <= 1 + edits[m])'
        BY <2>1, <3>1, <3>2, <4>1 DEF MayMail
      <4>3. MayMail(m, t) => sent'[m][t] + 1 <= edits'[m]
        BY <2>1, <3>1, <3>2 DEF MayMail
      <4> QED BY <2>1, <4>2, <4>3 DEF MailCovered, MailInv
    <3>3. CASE m # k BY <2>1, <3>3 DEF MailInv, MailCovered, MayMail
    <3> QED BY <3>2, <3>3
  <2>3. ASSUME NEW m \in Months, NEW t \in Thresholds
        PROVE  (sent[m][t] <= 1 + edits[m] /\ (~Latched(row[m], t) => MayMail(m, t)))'
    <3>1. sent[m][t] \in Nat /\ edits[m] \in Nat BY MailTypes
    <3>2. CASE m = k BY <2>1, <3>1, <3>2 DEF MailInv, MayMail
    <3>3. CASE m # k BY <2>1, <3>3 DEF MailInv, MayMail
    <3> QED BY <3>2, <3>3
  <2> QED BY <2>2, <2>3 DEF MailInv
<1>6. CASE BudgetChanges \/ MonthTurns BY <1>1, <1>6 DEF BudgetChanges, MonthTurns, boundVars
<1> QED BY <1>1, <1>2, <1>3, <1>4, <1>5, <1>6 DEF Next

\* Without overlapping checks each threshold of a month is mailed at most once, and once
\* more for each manual edit of the month's row, for any jobs, months, budgets and edits.
THEOREM EmailCorrect ==
  ASSUME NoOverlap
  PROVE  Spec => []EmailOncePerCrossing
<1>1. Init => MailInv
  BY BoundsAreNat DEF Init, MailInv, MailCovered, MayMail, IdleCheck, Thresholds
<1>2. TypeOK /\ MailInv /\ [Next]_vars => MailInv' BY MailNext
<1>3. MailInv => EmailOncePerCrossing BY DEF MailInv, EmailOncePerCrossing
<1>4. Spec => []TypeOK BY TypeCorrect
<1> QED BY <1>1, <1>2, <1>3, <1>4, PTL DEF Spec
============================================================================
