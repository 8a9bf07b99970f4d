------------------------------ MODULE Services ------------------------------
(***************************************************************************)
(* Services of the site that share no state with each other: what a card's *)
(* commit sets in motion, the rate limiter of the fetchers, the backfills  *)
(* of trusted connectors, the newsletter, and the claims of a card.  A     *)
(* behaviour is that of one of them, the others rest: checking them side   *)
(* by side would only multiply their states.                               *)
(***************************************************************************)
EXTENDS CardViews, DomainThrottle, TrustBackfill, Newsletter, Claims

VARIABLE service        \* the one that runs

servicesVars == <<service, viewsVars, throttleVars, trustVars, newsVars, claimVars>>

ServicesInit ==
    /\ service \in {"cards", "throttle", "trust", "newsletter", "claims"}
    /\ ViewsInit
    /\ ThrottleInit /\ (service # "throttle" => limiter = "memory")
    /\ TrustInit
    /\ NewsInit
    /\ ClaimInit

CardsRun ==
    /\ service = "cards" /\ ViewsNext
    /\ UNCHANGED <<throttleVars, trustVars, newsVars, claimVars>>

ThrottleRuns ==
    /\ service = "throttle" /\ ThrottleNext
    /\ UNCHANGED <<viewsVars, trustVars, newsVars, claimVars>>

TrustRuns ==
    /\ service = "trust" /\ TrustNext
    /\ UNCHANGED <<viewsVars, throttleVars, newsVars, claimVars>>

NewsletterRuns ==
    /\ service = "newsletter" /\ NewsNext
    /\ UNCHANGED <<viewsVars, throttleVars, trustVars, claimVars>>

ClaimsRun ==
    /\ service = "claims" /\ ClaimNext
    /\ UNCHANGED <<viewsVars, throttleVars, trustVars, newsVars>>

ServicesNext ==
    /\ CardsRun \/ ThrottleRuns \/ TrustRuns \/ NewsletterRuns \/ ClaimsRun
    /\ UNCHANGED service

\* Only the views of a card need fairness: they must come up to date.
ServicesSpec ==
    /\ ServicesInit /\ [][ServicesNext]_servicesVars
    /\ service = "cards" => SitemapFairness /\ IndexFairness

\* The type invariants of all of them.
ServicesTypeOK ==
    /\ ViewsTypeOK /\ ThrottleTypeOK /\ TrustTypeOK /\ NewsTypeOK
    /\ ClaimTypeOK

=============================================================================
