--------------------------- MODULE RedisThrottle ---------------------------
(***************************************************************************)
(* RedisDomainRateLimiter (apps/agent/rate_limit_redis.py): the Lua script *)
(* run for one host by the worker processes.  A process reads its clock    *)
(* and sends it along; the script, when Redis comes to it, books the next  *)
(* slot in one step and returns how long to sleep; the key of an idle host *)
(* expires.  A reply may be lost after the script ran, and Redis may be    *)
(* down: then acquire returns at once and nothing is throttled.            *)
(***************************************************************************)
EXTENDS Naturals, FiniteSets

CONSTANTS Callers,      \* worker processes
          Pause,        \* the interval, in ticks
          KeyTTL,       \* _TTL_SECONDS, in ticks
          MaxDelay,     \* bound on the age of a clock reading when the script runs
          LastTick,     \* bound on the clock
          MaxRepliesLost, \* bound on the replies lost
          NoKey         \* the host has no key

ASSUME RedisAssumption ==
    /\ IsFiniteSet(Callers)
    /\ Pause \in Nat \ {0} /\ KeyTTL \in Nat /\ MaxDelay \in Nat
    /\ LastTick \in Nat /\ MaxRepliesLost \in Nat
    /\ NoKey \notin [at : Nat, expires : Nat]

\* "SET TTL well above max interval": the key outlives every slot booked, and
\* every reading of the clock from before that slot was over.
ASSUME TTLAssumption ==
    (Cardinality(Callers) + MaxRepliesLost + 1) * Pause + MaxDelay <= KeyTTL

VARIABLES time,         \* the wall clock all processes agree on
          key,          \* NoKey, or the next slot and when the key expires
          phase,        \* where each process is in acquire
          reading,      \* the time a process has read and sent along
          due,          \* the slot of a process that sleeps
          sleeps,       \* until when it sleeps
          booked,       \* the slots given out (history)
          repliesLost

callerVars == <<phase, reading, due, sleeps>>
redisVars == <<time, key, callerVars, booked, repliesLost>>

RedisTypeOK ==
    /\ time \in 0 .. LastTick
    /\ key \in [at : Nat, expires : Nat] \cup {NoKey}
    /\ phase \in [Callers -> {"out", "asks", "sleeps"}]
    /\ reading \in [Callers -> Nat]
    /\ due \in [Callers -> Nat]
    /\ sleeps \in [Callers -> Nat]
    /\ booked \subseteq Nat
    /\ repliesLost \in 0 .. MaxRepliesLost

RedisInit ==
    /\ time = 0
    /\ key = NoKey
    /\ phase = [c \in Callers |-> "out"]
    /\ reading = [c \in Callers |-> 0]
    /\ due = [c \in Callers |-> 0]
    /\ sleeps = [c \in Callers |-> 0]
    /\ booked = {}
    /\ repliesLost = 0

\* Redis drops the key when its time has come.
TimePasses ==
    /\ time < LastTick
    /\ time' = time + 1
    /\ key' = IF key # NoKey /\ key.expires <= time' THEN NoKey ELSE key
    /\ UNCHANGED <<callerVars, booked, repliesLost>>

\* acquire begins: the clock is read ...
ReadsClock(c) ==
    /\ phase[c] = "out"
    /\ phase' = [phase EXCEPT ![c] = "asks"]
    /\ reading' = [reading EXCEPT ![c] = time]
    /\ UNCHANGED <<time, key, due, sleeps, booked, repliesLost>>

\* ... and the script runs later, with what was read.
Asked(c) == phase[c] = "asks" /\ time <= reading[c] + MaxDelay

\* The slot the script gives out: the next one, or what it is told is now.
Slot(c) == IF key # NoKey /\ key.at > reading[c] THEN key.at ELSE reading[c]

\* Mutant of ScriptRuns: the key lives for one interval.
ScriptRunsShort(c) == key' = [at |-> Slot(c) + Pause, expires |-> time + Pause]

\* The Lua script: one atomic step of Redis.
ScriptRuns(c) == key' = [at |-> Slot(c) + Pause, expires |-> time + KeyTTL]

\* The process is out of acquire: what it held there is forgotten.
Out(c) ==
    /\ phase' = [phase EXCEPT ![c] = "out"]
    /\ reading' = [reading EXCEPT ![c] = 0]
    /\ due' = [due EXCEPT ![c] = 0]
    /\ sleeps' = [sleeps EXCEPT ![c] = 0]

\* The reply is the wait from the moment read, and the sleep begins now.
GetsSlot(c) ==
    /\ Asked(c)
    /\ ScriptRuns(c)
    /\ phase' = [phase EXCEPT ![c] = "sleeps"]
    /\ reading' = [reading EXCEPT ![c] = 0]
    /\ due' = [due EXCEPT ![c] = Slot(c)]
    /\ sleeps' = [sleeps EXCEPT ![c] = time + (Slot(c) - reading[c])]
    /\ booked' = booked \cup {Slot(c)}
    /\ UNCHANGED <<time, repliesLost>>

\* acquire returns, on time or later.
Wakes(c) ==
    /\ phase[c] = "sleeps" /\ sleeps[c] <= time
    /\ Out(c)
    /\ UNCHANGED <<time, key, booked, repliesLost>>

\* The script ran, the reply did not come: the caller goes at once, outside
\* the limit, and a slot stays empty.
ReplyIsLost(c) ==
    /\ Asked(c) /\ repliesLost < MaxRepliesLost
    /\ ScriptRuns(c)
    /\ repliesLost' = repliesLost + 1
    /\ Out(c)
    /\ UNCHANGED <<time, booked>>

\* Redis cannot be reached: the caller goes at once, and no slot is booked.
RedisFails(c) ==
    /\ phase[c] = "asks"
    /\ Out(c)
    /\ UNCHANGED <<time, key, booked, repliesLost>>

RedisNext ==
    \/ TimePasses
    \/ \E c \in Callers :
          ReadsClock(c) \/ GetsSlot(c) \/ Wakes(c) \/ ReplyIsLost(c) \/ RedisFails(c)

RedisSpec == RedisInit /\ [][RedisNext]_redisVars

-----------------------------------------------------------------------------
\* Whatever the processes do, the slots are an interval apart and none that was
\* throttled leaves before its slot: the key does not expire under a slot that is
\* still to come, nor under one that a stale reading could run into.
Shared == INSTANCE Spacing WITH
    Interval <- Pause, clock <- time, slots <- booked,
    holds <- [c \in Callers |-> IF phase[c] = "sleeps" THEN {due[c]} ELSE {}]

RedisIsSpaced == Shared!SpacingSpec

=============================================================================
