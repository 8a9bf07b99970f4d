--------------------------- MODULE TrustBackfill ---------------------------
(***************************************************************************)
(* The commands that fill what a listing in an official connector          *)
(* directory implies about a card (apps/catalog/trust.py and the           *)
(* backfill_* and repair_* commands).  Each first plans over the catalogue *)
(* without a lock and then applies its decisions one by one, while editors *)
(* edit the card and imports change what is known of its sources.  One     *)
(* card; each command has its slot of the card and one value to put there. *)
(***************************************************************************)

CONSTANT NoRun          \* no command has a decision in hand

VARIABLES slot,         \* the card: the value in each command's slot
          inDirectory,  \* an active source and a link of an official directory
          mcp,          \* a source of the MCP registry, or the platform mcp
          prose,        \* what the source's text is good for, "none" if nothing
          decision      \* the decision the running command has not yet applied

trustVars == <<slot, inDirectory, mcp, prose, decision>>

Commands ==
    {"verification", "capability", "description", "category", "taxonomy", "launch"}

Values == [
    verification |-> {"unknown", "official", "not_listed"},
    capability   |-> {"none", "unknown", "yes", "no"},
    description  |-> {"short", "edited", "derived"},
    category     |-> {"out", "in"},
    taxonomy     |-> {"clean", "cloud_and_mcp", "mcp_only"},
    launch       |-> {"live", "beta", "deprecated"}]

\* What each command writes.
Target == [
    verification |-> "official", capability |-> "yes", description |-> "derived",
    category |-> "in", taxonomy |-> "clean", launch |-> "beta"]

Prose == {"none", "plain", "in beta"}

\* held: the capability row was read as unknown and not yet saved.
Decision == [command : Commands, held : BOOLEAN]

TrustTypeOK ==
    /\ DOMAIN slot = Commands
    /\ \A k \in Commands : slot[k] \in Values[k]
    /\ inDirectory \in BOOLEAN /\ mcp \in BOOLEAN
    /\ prose \in Prose
    /\ decision \in Decision \cup {NoRun}

\* A card that has just been published; whatever else it may look like, the
\* others bring it there.
TrustInit ==
    /\ slot = [verification |-> "unknown", capability |-> "none", description |-> "short",
               category |-> "out", taxonomy |-> "clean", launch |-> "live"]
    /\ inDirectory = FALSE /\ mcp = FALSE
    /\ prose = "none"
    /\ decision = NoRun

-----------------------------------------------------------------------------
(* The decisions                                                           *)

\* No source of the MCP registry, no platform mcp, and not listed as a server.
NoTraceOfMcp == ~mcp /\ slot["taxonomy"] = "clean"

\* The querysets: a trusted directory, and no trace of MCP unless the operator
\* includes it.  The repairs of taxonomy and launch status look for MCP in the
\* sources and platforms only, and have no such option.
Selected(k, includeMcp) ==
    /\ inDirectory
    /\ IF k \in {"taxonomy", "launch"} THEN ~mcp ELSE includeMcp \/ NoTraceOfMcp

VerificationGap == slot["verification"] = "unknown"
CapabilityGap == slot["capability"] \in {"none", "unknown"}
CategoryGap == slot["category"] = "out"
TaxonomyGap == slot["taxonomy"] = "cloud_and_mcp"
LaunchGap == slot["launch"] # "beta" /\ prose = "in beta"

DescriptionGap == slot["description"] = "short" /\ prose # "none"

\* There is something to do, as the card and its source are now.
Gap(k) ==
    CASE k = "verification" -> VerificationGap
      [] k = "capability" -> CapabilityGap
      [] k = "description" -> DescriptionGap
      [] k = "category" -> CategoryGap
      [] k = "taxonomy" -> TaxonomyGap
      [] k = "launch" -> LaunchGap

Plans(k) ==
    /\ decision = NoRun
    /\ Gap(k)
    /\ \E includeMcp \in BOOLEAN : Selected(k, includeMcp)
    /\ decision' = [command |-> k, held |-> FALSE]
    /\ UNCHANGED <<slot, inDirectory, mcp, prose>>

\* The two repairs look at everything again, under the row lock.
TaxonomyStillFalse == inDirectory /\ ~mcp /\ TaxonomyGap
LaunchStillBeta == inDirectory /\ ~mcp /\ LaunchGap

\* Mutant of StillTrue: the decision was right when it was made.
StillTrueAsPlanned(k) == k \in {"verification", "description", "category"} \/ Gap(k)

\* What an apply looks at again, under the row lock or in the update's WHERE:
\* the others only at their own slot.
StillTrue(k) ==
    CASE k = "verification" -> VerificationGap
      [] k = "description" -> slot[k] = "short"
      [] k = "category" -> CategoryGap
      [] k = "taxonomy" -> TaxonomyStillFalse
      [] k = "launch" -> LaunchStillBeta

Fill(k) == slot' = [slot EXCEPT ![k] = Target[k]]

Finishes ==
    /\ decision' = NoRun
    /\ UNCHANGED <<inDirectory, mcp, prose>>

Applies ==
    /\ decision # NoRun /\ decision.command # "capability"
    /\ IF StillTrue(decision.command) THEN Fill(decision.command) ELSE UNCHANGED slot
    /\ Finishes

\* The capability is looked up again, without a lock: a missing row is created,
\* a known verdict is left alone ...
CapabilityLooksUp ==
    /\ decision # NoRun /\ decision.command = "capability" /\ ~decision.held
    /\ \/ slot["capability"] = "none" /\ Fill("capability") /\ Finishes
       \/ slot["capability"] \in {"yes", "no"} /\ UNCHANGED slot /\ Finishes
       \/ /\ slot["capability"] = "unknown"
          /\ decision' = [decision EXCEPT !.held = TRUE]
          /\ UNCHANGED <<slot, inDirectory, mcp, prose>>

\* ... and an unknown one is saved, whatever it has become; a row that was
\* deleted meanwhile makes the save raise.
CapabilitySaves ==
    /\ decision # NoRun /\ decision.held
    /\ IF slot["capability"] = "none" THEN UNCHANGED slot ELSE Fill("capability")
    /\ Finishes

-----------------------------------------------------------------------------
(* Everybody else                                                          *)

EditorSets(k) ==
    /\ \E v \in Values[k] \ {"derived", slot[k]} : slot' = [slot EXCEPT ![k] = v]
    /\ UNCHANGED <<inDirectory, mcp, prose, decision>>

\* A listing appears or goes, its text changes.
ListingChanges ==
    /\ inDirectory' \in BOOLEAN /\ prose' \in Prose
    /\ <<inDirectory', prose'>> # <<inDirectory, prose>>
    /\ UNCHANGED <<slot, mcp, decision>>

\* The import attaches a listing of the MCP registry, or an editor undoes it.
McpChanges ==
    /\ mcp' = ~mcp
    /\ UNCHANGED <<slot, inDirectory, prose, decision>>

TrustNext ==
    \/ \E k \in Commands : Plans(k) \/ EditorSets(k)
    \/ Applies
    \/ CapabilityLooksUp
    \/ CapabilitySaves
    \/ ListingChanges
    \/ McpChanges

TrustSpec == TrustInit /\ [][TrustNext]_trustVars

-----------------------------------------------------------------------------
\* What is known, and for the backfills not to touch.
Known == [
    verification |-> {"official", "not_listed"}, capability |-> {"yes", "no"},
    description |-> {"edited"}, category |-> {"in"}]

\* However old the decision, a backfill changes nothing that is known by the
\* time it is applied: only an editor does.  The exception is the capability
\* that was read as unknown a moment ago, which no lock protects.
KnownValuesStay ==
    [][\A k \in DOMAIN Known :
          slot[k] \in Known[k] /\ slot'[k] # slot[k] =>
              \/ EditorSets(k)
              \/ k = "capability" /\ decision # NoRun /\ decision.held]_trustVars

\* A card with evidence of MCP, or without its directory listing, is not
\* relabelled, even if it was a plain connector when the repair was planned.
McpCardsAreLeftAlone ==
    [][\A k \in {"taxonomy", "launch"} :
          slot'[k] # slot[k] => (inDirectory /\ ~mcp) \/ EditorSets(k)]_trustVars

\* Both: what was decided on an old view of the card does no harm.
StaleDecisionsDoNoHarm == KnownValuesStay /\ McpCardsAreLeftAlone

=============================================================================
