---------------------------- MODULE DerivedView ----------------------------
(***************************************************************************)
(* What the site promises of anything it derives from a card and keeps     *)
(* elsewhere (the cached sitemap, the search vector): the copy is never    *)
(* ahead of what was committed, and once the cards stop changing it shows  *)
(* their last state or is absent, to be rebuilt by the next reader.        *)
(***************************************************************************)
EXTENDS Naturals

CONSTANT NoView         \* the copy is absent

VARIABLES original,     \* how many changes have been committed
          view          \* the change the copy shows, or NoView

ViewInit == original = 0 /\ view \in {0, NoView}

\* A change of the original is committed; the copy does not know yet.
Change == original' = original + 1 /\ UNCHANGED view

\* The copy is dropped, or rebuilt from something that was once committed.
Rebuilt == view' \in 0 .. original \cup {NoView} /\ UNCHANGED original

ViewNext == Change \/ Rebuilt

\* The copy converges once the original is left alone.
Converges ==
    <>[][FALSE]_original => <>[](view \in {original, NoView})

ViewSpec == ViewInit /\ [][ViewNext]_<<original, view>> /\ Converges

=============================================================================
