------------------------------ MODULE Spacing ------------------------------
(***************************************************************************)
(* What a per-domain rate limiter promises: every request that it holds    *)
(* back is given a slot of its own, the slots of one host are Interval     *)
(* apart (Interval = 1 / the configured requests per second), and no       *)
(* request leaves before its slot.  It may leave later: a limiter wakes    *)
(* its callers when it can, so that requests may come closer than slots.   *)
(***************************************************************************)
EXTENDS Naturals

CONSTANTS Interval,
          Callers         \* those who fetch from the host

VARIABLES clock,
          slots,          \* the slots given out so far
          holds           \* the slot each caller waits for: none or one

spacingVars == <<clock, slots, holds>>

SpacingInit == slots = {} /\ holds = [c \in Callers |-> {}]

Apart(s, t) == s + Interval <= t \/ t + Interval <= s

ClockAdvances == clock' > clock /\ UNCHANGED <<slots, holds>>

Book(c) ==
    \E t \in slots' :
        /\ t \in Nat /\ holds[c] = {}
        /\ \A s \in slots : Apart(s, t)
        /\ slots' = slots \cup {t}
        /\ holds' = [holds EXCEPT ![c] = {t}]
        /\ UNCHANGED clock

Leave(c) ==
    /\ holds[c] # {} /\ \A t \in holds[c] : t <= clock
    /\ holds' = [holds EXCEPT ![c] = {}]
    /\ UNCHANGED <<clock, slots>>

SpacingNext == ClockAdvances \/ \E c \in Callers : Book(c) \/ Leave(c)

SpacingSpec == SpacingInit /\ [][SpacingNext]_spacingVars

=============================================================================
