--------------------------- MODULE LocalThrottle ---------------------------
(***************************************************************************)
(* InMemoryDomainRateLimiter (apps/agent/pipeline/rate_limit.py): the      *)
(* threads of one process that fetch from one host.  The bucket of the     *)
(* host is found without a lock, made under the registry lock, and used    *)
(* under its own lock, which is held while the thread sleeps.              *)
(***************************************************************************)
EXTENDS Naturals

CONSTANTS Threads,      \* threads of the process
          Interval,     \* ticks between two requests, 1 / rate
          Horizon,      \* bound on the clock
          NoBucket      \* the host has no bucket; a thread has none

ASSUME IntervalAssumption == Interval \in Nat \ {0}
ASSUME HorizonAssumption == Horizon \in Nat
ASSUME BucketAssumption == NoBucket \notin Threads

VARIABLES clock,        \* time.monotonic
          registry,     \* the bucket of the host: named by the thread that made it
          nextAt,       \* next_at of each bucket
          owner,        \* the thread that holds the lock of each bucket
          step,         \* where each thread is in acquire
          bucket,       \* the bucket each thread has in hand
          goes,         \* the slot of a thread that holds a lock
          slots,        \* the slots given out (history)
          left          \* those that were used, and when acquire returned (history)

localVars == <<clock, registry, nextAt, owner, step, bucket, goes, slots, left>>

\* A bucket is named by its maker, so there are as many names as threads.
NoBuckets == Threads \cup {NoBucket}
Steps == {"out", "register", "enter", "sleep"}

LocalTypeOK ==
    /\ clock \in Nat
    /\ registry \in NoBuckets
    /\ nextAt \in [Threads -> Nat]
    /\ owner \in [Threads -> NoBuckets]
    /\ step \in [Threads -> Steps]
    /\ bucket \in [Threads -> NoBuckets]
    /\ goes \in [Threads -> Nat]
    /\ slots \subseteq Nat
    /\ left \subseteq [slot : slots, at : Nat]
    /\ \A b \in Threads :        \* a lock is held by a thread that sleeps
          owner[b] # NoBucket => step[owner[b]] = "sleep" /\ bucket[owner[b]] = b

LocalInit ==
    /\ clock = 0
    /\ registry = NoBucket
    /\ nextAt = [b \in Threads |-> 0]
    /\ owner = [b \in Threads |-> NoBucket]
    /\ step = [t \in Threads |-> "out"]
    /\ bucket = [t \in Threads |-> NoBucket]
    /\ goes = [t \in Threads |-> 0]
    /\ slots = {} /\ left = {}

Tick ==
    /\ clock < Horizon
    /\ clock' = clock + 1
    /\ UNCHANGED <<registry, nextAt, owner, step, bucket, goes, slots, left>>

\* _bucket_for, first look: no lock is held.
LooksUp(t) ==
    /\ step[t] = "out"
    /\ bucket' = [bucket EXCEPT ![t] = registry]
    /\ step' = [step EXCEPT ![t] =
                    IF registry = NoBucket THEN "register" ELSE "enter"]
    /\ UNCHANGED <<clock, registry, nextAt, owner, goes, slots, left>>

\* Mutant of Registers: the second look is left out.
RegistersBlindly(t) ==
    /\ step[t] = "register"
    /\ registry' = t
    /\ bucket' = [bucket EXCEPT ![t] = registry']
    /\ step' = [step EXCEPT ![t] = "enter"]
    /\ UNCHANGED <<clock, nextAt, owner, goes, slots, left>>

\* _bucket_for, second look, under the registry lock.
Registers(t) ==
    /\ step[t] = "register"
    /\ registry' = IF registry = NoBucket THEN t ELSE registry
    /\ bucket' = [bucket EXCEPT ![t] = registry']
    /\ step' = [step EXCEPT ![t] = "enter"]
    /\ UNCHANGED <<clock, nextAt, owner, goes, slots, left>>

\* The thread has the lock: it reads the clock and knows its slot.
Enters(t) ==
    /\ step[t] = "enter" /\ owner[bucket[t]] = NoBucket
    /\ owner' = [owner EXCEPT ![bucket[t]] = t]
    /\ goes' = [goes EXCEPT ![t] =
                    IF nextAt[bucket[t]] > clock THEN nextAt[bucket[t]] ELSE clock]
    /\ slots' = slots \cup {goes'[t]}
    /\ step' = [step EXCEPT ![t] = "sleep"]
    /\ UNCHANGED <<clock, registry, nextAt, bucket, left>>

\* Mutant of Leaves: the lock is kept.
LeavesLocked(t) ==
    /\ step[t] = "sleep" /\ goes[t] <= clock
    /\ nextAt' = [nextAt EXCEPT ![bucket[t]] = goes[t] + Interval]
    /\ step' = [step EXCEPT ![t] = "out"]
    /\ bucket' = [bucket EXCEPT ![t] = NoBucket]
    /\ left' = left \cup {[slot |-> goes[t], at |-> clock]}
    /\ UNCHANGED <<clock, registry, owner, goes, slots>>

\* It has slept, perhaps too long (or had nothing to wait for): the next slot is
\* moved on from this one as if it had woken on time, the lock released, and
\* acquire returns.
Leaves(t) ==
    /\ step[t] = "sleep" /\ goes[t] <= clock
    /\ nextAt' = [nextAt EXCEPT ![bucket[t]] = goes[t] + Interval]
    /\ owner' = [owner EXCEPT ![bucket[t]] = NoBucket]
    /\ step' = [step EXCEPT ![t] = "out"]
    /\ bucket' = [bucket EXCEPT ![t] = NoBucket]
    /\ left' = left \cup {[slot |-> goes[t], at |-> clock]}
    /\ UNCHANGED <<clock, registry, goes, slots>>

LocalNext ==
    \/ Tick
    \/ \E t \in Threads : LooksUp(t) \/ Registers(t) \/ Enters(t) \/ Leaves(t)

LocalSpec == LocalInit /\ [][LocalNext]_localVars

-----------------------------------------------------------------------------
\* The threads of the process share one bucket, although it is looked up without
\* a lock: their slots are Interval apart and none leaves before its slot.
Promise == INSTANCE Spacing WITH
    Callers <- Threads,
    holds <- [t \in Threads |-> IF step[t] = "sleep" THEN {goes[t]} ELSE {}]

\* Threads that wake late come closer than their slots, two of them perhaps in one
\* moment, but never three within an interval: the lock is held while one sleeps.
NoThreeMeet ==
    \A x, y, z \in left :
        x.slot < y.slot /\ y.slot < z.slot => x.at + Interval <= z.at

LocalIsSpaced == Promise!SpacingSpec /\ []NoThreeMeet

=============================================================================
