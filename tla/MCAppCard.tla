----------------------------- MODULE MCAppCard -----------------------------
(* Instances of AppCard for TLC. *)
EXTENDS AppCard, TLC

CONSTANTS e1, e2, u1

OneEnricher == {e1}
TwoEnrichers == {e1, e2}
OneImporter == {u1}

Answer(t, c, v) == [text |-> t, cap |-> c, verdict |-> v]

\* Everything at once; each capability value alone; each kind of verdict alone.
FewProposals == {Answer("agent", "yes", "agent"), Answer("", "no", ""),
                 Answer("", "unknown", "vague")}

EnricherSymmetry == Permutations(TwoEnrichers)
============================================================================
