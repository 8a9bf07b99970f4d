--------------------------- MODULE DomainThrottle ---------------------------
(***************************************************************************)
(* build_limiter_from_settings: a process that reaches Redis when it       *)
(* starts shares the Redis limiter, one that does not keeps a limiter of   *)
(* its own, and the choice is never made again.                            *)
(***************************************************************************)
EXTENDS LocalThrottle, RedisThrottle

VARIABLE limiter        \* the limiter the process was started with

\* What the process registers for its fetchers.
Limiters == {"redis", "memory"}

throttleVars == <<limiter, localVars, redisVars>>

ThrottleInit ==
    /\ limiter \in Limiters
    /\ LocalInit
    /\ RedisInit

ThrottleNext ==
    \/ limiter = "redis" /\ RedisNext /\ UNCHANGED <<limiter, localVars>>
    \/ limiter = "memory" /\ LocalNext /\ UNCHANGED <<limiter, redisVars>>

ThrottleSpec == ThrottleInit /\ [][ThrottleNext]_throttleVars

\* The type invariant of both limiters.
ThrottleTypeOK == LocalTypeOK /\ RedisTypeOK

=============================================================================
