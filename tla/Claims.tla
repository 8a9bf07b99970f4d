------------------------------- MODULE Claims -------------------------------
(***************************************************************************)
(* Claims of one published card (apps/submissions): a developer's request  *)
(* looks for an owner and for pending claims, has its CAPTCHA verified by  *)
(* another service, and only then writes its claim and the card; editors   *)
(* approve or reject claims in the admin, row by row and without a lock,   *)
(* or save a claim from its form, which leaves the card alone.             *)
(***************************************************************************)
EXTENDS Naturals, Sequences, FiniteSets

CONSTANTS Claimants,    \* developers, each with one address
          MaxClaims,    \* bound on the claims
          NoOwner       \* contact_email is empty

ASSUME ClaimsAssumption == MaxClaims \in Nat

VARIABLES claims,       \* the rows of ClaimRequest, oldest first
          claimStatus,  \* App.developer_claim_status
          contact,      \* App.contact_email as approvals set it
          request,      \* the step of every POST
          approving,    \* what approve_claims read as pending and has yet to do
          stale,        \* requests since whose look card or claims changed (history)
          handled,      \* claims whose status an editor set in their form (history)
          cardByHand,   \* an editor set the status of the card (history)
          blind,        \* somebody wrote on what he had not seen (history)
          forgotten     \* the card missed an approval (history)

\* blind: a request wrote its claim when the card or its claims had changed since
\* it looked, or looked when an approval was half-way; an approval wrote over a
\* claim that was not pending any more.  forgotten: an approval died half-way, or a
\* request put its "pending" over it.
history == <<handled, cardByHand, blind, forgotten>>
claimVars == <<claims, claimStatus, contact, request, approving, stale, history>>

ClaimStatus == {"pending", "approved", "rejected"}
Claim == [by : Claimants, status : ClaimStatus]
CardStatus == {"unclaimed", "pending", "claimed"}
Approval == [claim : 1 .. MaxClaims, at : {"claim", "card"}]

ClaimTypeOK ==
    /\ claims \in Seq(Claim) /\ Len(claims) <= MaxClaims
    /\ claimStatus \in CardStatus
    /\ contact \in Claimants \cup {NoOwner}
    /\ request \in [Claimants -> {"none", "checked", "inserted"}]
    /\ approving \in Seq(Approval)
    /\ \A k \in DOMAIN approving : approving[k].claim \in DOMAIN claims
    /\ stale \subseteq Claimants
    /\ handled \subseteq DOMAIN claims
    /\ cardByHand \in BOOLEAN /\ blind \in BOOLEAN /\ forgotten \in BOOLEAN

ClaimInit ==
    /\ claims = <<>>
    /\ claimStatus = "unclaimed"
    /\ contact = NoOwner
    /\ request = [c \in Claimants |-> "none"]
    /\ approving = <<>>
    /\ stale = {}
    /\ handled = {}
    /\ cardByHand = FALSE /\ blind = FALSE /\ forgotten = FALSE

With(status) == {i \in DOMAIN claims : claims[i].status = status}
PendingClaims == With("pending")
Approved == With("approved")

\* The claim is approved and the card does not know yet.
HalfApproved == approving # <<>> /\ Head(approving).at = "card"

-----------------------------------------------------------------------------
(* claim_app, the POST                                                     *)

Looks(c) ==
    /\ request' = [request EXCEPT ![c] = "checked"]
    /\ blind' = (blind \/ HalfApproved)
    /\ UNCHANGED <<claims, claimStatus, contact, approving, handled, cardByHand, forgotten>>

\* Mutant of RequestChecks: only the card is asked.
RequestChecksCard(c) ==
    request[c] = "none" /\ claimStatus # "claimed" /\ Looks(c)

\* Nobody has claimed the card and no claim of it waits.
RequestChecks(c) ==
    request[c] = "none" /\ claimStatus # "claimed" /\ PendingClaims = {} /\ Looks(c)

\* The CAPTCHA is not accepted, the process dies, or the unique constraint
\* refuses a second pending claim of one address.
RequestFails(c) ==
    /\ request[c] # "none"
    /\ request' = [request EXCEPT ![c] = "none"]
    /\ UNCHANGED <<claims, claimStatus, contact, approving, history>>

RequestInserts(c) ==
    /\ request[c] = "checked" /\ Len(claims) < MaxClaims
    /\ \A i \in PendingClaims : claims[i].by # c
    /\ claims' = Append(claims, [by |-> c, status |-> "pending"])
    /\ request' = [request EXCEPT ![c] = "inserted"]
    /\ blind' = (blind \/ c \in stale)
    /\ UNCHANGED <<claimStatus, contact, approving, handled, cardByHand, forgotten>>

\* The card is saved as pending, whatever has become of it.
RequestSaves(c) ==
    /\ request[c] = "inserted"
    /\ claimStatus' = "pending"
    /\ request' = [request EXCEPT ![c] = "none"]
    /\ forgotten' = (forgotten \/ claimStatus = "claimed")
    /\ UNCHANGED <<claims, contact, approving, handled, cardByHand, blind>>

-----------------------------------------------------------------------------
(* ClaimRequestAdmin                                                       *)

\* approve_claims fetches the selected rows that are pending ...
ApprovalReads ==
    /\ approving = <<>>
    /\ \E i \in PendingClaims : \E j \in {i} \cup PendingClaims :
          /\ i <= j
          /\ approving' = LET read(k) == [claim |-> k, at |-> "claim"]
                          IN IF i = j THEN <<read(i)>> ELSE <<read(i), read(j)>>
    /\ UNCHANGED <<claims, claimStatus, contact, request, history>>

\* ... and reviews them one by one: mark_reviewed saves the row ...
ApprovalSavesClaim ==
    /\ approving # <<>> /\ Head(approving).at = "claim"
    /\ LET i == Head(approving).claim
       IN /\ claims' = [claims EXCEPT ![i].status = "approved"]
          /\ blind' = (blind \/ i \notin PendingClaims)
    /\ approving' = [approving EXCEPT ![1].at = "card"]
    /\ UNCHANGED <<claimStatus, contact, request, handled, cardByHand, forgotten>>

\* ... and then the card.
ApprovalSavesCard ==
    /\ HalfApproved
    /\ claimStatus' = "claimed"
    /\ contact' = claims[Head(approving).claim].by
    /\ approving' = Tail(approving)
    /\ UNCHANGED <<claims, request, history>>

\* The admin's request dies.
ApprovalDies ==
    /\ approving # <<>>
    /\ approving' = <<>>
    /\ forgotten' = (forgotten \/ HalfApproved)
    /\ UNCHANGED <<claims, claimStatus, contact, request, handled, cardByHand, blind>>

\* reject_claims: one UPDATE of the selected rows that are pending.
Rejects ==
    /\ \E selected \in (SUBSET PendingClaims) \ {{}} :
          claims' = [i \in DOMAIN claims |->
                        IF i \in selected THEN [claims[i] EXCEPT !.status = "rejected"]
                                          ELSE claims[i]]
    /\ UNCHANGED <<claimStatus, contact, request, approving, history>>

\* The form of a claim is saved, by an editor who changed its status or from a
\* page rendered when it was another; the card hears nothing of it.  A claimant
\* has one pending claim at most.
EditorSavesClaim ==
    /\ \E i \in DOMAIN claims : \E s \in ClaimStatus \ {claims[i].status} :
          /\ s = "pending" => \A j \in PendingClaims : claims[j].by # claims[i].by
          /\ claims' = [claims EXCEPT ![i].status = s]
          /\ handled' = handled \cup {i}
    /\ UNCHANGED <<claimStatus, contact, request, approving, cardByHand, blind, forgotten>>

\* The App form: an editor sets the status by hand.
EditorSetsStatus ==
    /\ \E s \in CardStatus \ {claimStatus} : claimStatus' = s
    /\ cardByHand' = TRUE
    /\ UNCHANGED <<claims, contact, request, approving, handled, blind, forgotten>>

\* Every change of the card or its claims goes past the requests that have looked.
PassesBy ==
    stale' = {c \in Claimants : /\ request[c] = "checked" /\ request'[c] = "checked"
                                /\ \/ c \in stale
                                   \/ <<claims, claimStatus>>' # <<claims, claimStatus>>}

ClaimNext ==
    /\ \/ \E c \in Claimants :
             RequestChecks(c) \/ RequestFails(c) \/ RequestInserts(c) \/ RequestSaves(c)
       \/ ApprovalReads \/ ApprovalSavesClaim \/ ApprovalSavesCard \/ ApprovalDies
       \/ Rejects
       \/ EditorSavesClaim \/ EditorSetsStatus
    /\ PassesBy

ClaimSpec == ClaimInit /\ [][ClaimNext]_claimVars

-----------------------------------------------------------------------------
\* The badge and the address on the card are those of a claim that was approved,
\* whoever raced with whom: an editor may have changed that claim since, in its
\* form, or the card itself.
BadgeHasAClaim ==
    claimStatus = "claimed" =>
        \E i \in Approved \cup handled : claims[i].by = contact

\* A claim that the action approved has its badge, as soon as the action is done
\* with it, unless the card missed the approval.
ApprovalHasABadge ==
    ~forgotten /\ ~HalfApproved /\ Approved \ handled # {} => claimStatus = "claimed"

\* The action approves one claim of a card at most, as long as nobody wrote on
\* what he had not seen.
OneIsApproved == ~forgotten /\ ~blind => Cardinality(Approved \ handled) <= 1

\* A card that no editor put into another state has one owner.
OneOwner == ~cardByHand => BadgeHasAClaim /\ ApprovalHasABadge /\ OneIsApproved

=============================================================================
