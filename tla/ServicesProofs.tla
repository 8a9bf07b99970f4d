--------------------------- MODULE ServicesProofs ---------------------------
(***************************************************************************)
(* Proofs about the services of the site, each for any number of           *)
(* processes, people and rows: the claims of a card, the trust backfills,  *)
(* the in-memory and the Redis rate limiter, the newsletter; and, last,    *)
(* that what is proved of each of them holds of all of them.               *)
(***************************************************************************)
EXTENDS Services, CardViewsProofs, SequenceTheorems, FiniteSetTheorems, TLAPS

-----------------------------------------------------------------------------
(***************************************************************************)
(* Claims: the badge has a claim, an approved claim its badge, and as long *)
(* as nobody wrote on what he had not seen one claim is approved at most.  *)
(***************************************************************************)
-----------------------------------------------------------------------------
(* Types                                                                   *)

\* Nobody has asked.
LEMMA ClaimInitTyped == ClaimInit => ClaimTypeOK
<1> SUFFICES ASSUME ClaimInit PROVE ClaimTypeOK
  OBVIOUS
<1>1. claims = <<>> /\ approving = <<>> /\ <<>> \in Seq(Claim) /\ <<>> \in Seq(Approval)
  BY EmptySeq DEF ClaimInit
<1>2. Len(claims) <= MaxClaims
  BY <1>1, ClaimsAssumption
<1>3. cardByHand \in BOOLEAN /\ blind \in BOOLEAN /\ forgotten \in BOOLEAN
  BY DEF ClaimInit
<1> QED
  BY <1>1, <1>2, <1>3 DEF ClaimInit, ClaimTypeOK, CardStatus

\* The rows of the claims and of the approval in hand are numbered from one.
LEMMA RowsAreNumbered ==
  ASSUME ClaimTypeOK
  PROVE  /\ claims \in Seq(Claim) /\ Len(claims) \in Nat /\ DOMAIN claims = 1 .. Len(claims)
         /\ \A i \in DOMAIN claims : claims[i] \in Claim
         /\ DOMAIN claims \subseteq 1 .. MaxClaims
<1>1. claims \in Seq(Claim) /\ Len(claims) <= MaxClaims
  BY DEF ClaimTypeOK
<1>2. Len(claims) \in Nat /\ DOMAIN claims = 1 .. Len(claims)
  BY <1>1, LenProperties
<1>3. \A i \in DOMAIN claims : claims[i] \in Claim
  BY <1>1, <1>2, ElementOfSeq
<1> QED
  BY <1>1, <1>2, <1>3, ClaimsAssumption

\* What becomes of a claim whose status is written.
LEMMA StatusOfOne ==
  ASSUME ClaimTypeOK, NEW i \in DOMAIN claims, NEW s \in ClaimStatus,
         claims' = [claims EXCEPT ![i].status = s]
  PROVE  /\ claims' \in Seq(Claim) /\ Len(claims') = Len(claims)
         /\ DOMAIN claims' = DOMAIN claims
         /\ \A j \in DOMAIN claims \ {i} : claims'[j] = claims[j]
         /\ claims'[i].status = s /\ claims'[i].by = claims[i].by
<1> DEFINE x == [claims[i] EXCEPT !.status = s]
<1>1. /\ claims \in Seq(Claim) /\ Len(claims) \in Nat /\ DOMAIN claims = 1 .. Len(claims)
      /\ claims[i] \in Claim
  BY RowsAreNumbered
<1>2. x \in Claim /\ x.status = s /\ x.by = claims[i].by
  BY <1>1 DEF Claim
<1>3. claims' = [claims EXCEPT ![i] = x]
  OBVIOUS
<1> HIDE DEF x
<1>4. /\ claims' \in Seq(Claim) /\ Len(claims') = Len(claims)
      /\ \A j \in 1 .. Len(claims) : claims'[j] = IF j = i THEN x ELSE claims[j]
  BY <1>1, <1>2, <1>3, ExceptSeq
<1>5. DOMAIN claims' = 1 .. Len(claims)
  BY <1>4, LenProperties
<1> QED
  BY <1>1, <1>2, <1>4, <1>5

\* A claim is appended.
LEMMA InsertTyped ==
  ASSUME ClaimTypeOK, NEW c \in Claimants, RequestInserts(c)
  PROVE  /\ claims' \in Seq(Claim) /\ Len(claims') = Len(claims) + 1
         /\ Len(claims') <= MaxClaims
         /\ DOMAIN claims' = DOMAIN claims \cup {Len(claims) + 1}
         /\ Len(claims) + 1 \notin DOMAIN claims
         /\ \A i \in DOMAIN claims : claims'[i] = claims[i]
         /\ claims'[Len(claims) + 1].status = "pending"
<1>1. [by |-> c, status |-> "pending"] \in Claim
  BY DEF Claim, ClaimStatus
<1>2. claims \in Seq(Claim) /\ Len(claims) \in Nat /\ Len(claims) < MaxClaims
  BY LenProperties DEF ClaimTypeOK, RequestInserts
<1>3. claims' = Append(claims, [by |-> c, status |-> "pending"])
  BY DEF RequestInserts
<1>4. claims' \in Seq(Claim) /\ Len(claims') = Len(claims) + 1
  BY <1>1, <1>2, <1>3, AppendProperties
<1>5. \A i \in 1 .. Len(claims) : claims'[i] = claims[i]
  BY <1>1, <1>2, <1>3, AppendProperties
<1>6. claims'[Len(claims) + 1] = [by |-> c, status |-> "pending"]
  BY <1>1, <1>2, <1>3, AppendProperties
<1>7. DOMAIN claims = 1 .. Len(claims) /\ DOMAIN claims' = 1 .. Len(claims')
  BY <1>2, <1>4, LenProperties
<1> QED
  BY <1>2, <1>4, <1>5, <1>6, <1>7, ClaimsAssumption

\* What an approval has in hand, and what is left of it.
LEMMA InHand ==
  ASSUME ClaimTypeOK, approving # <<>>
  PROVE  /\ Len(approving) \in Nat \ {0} /\ DOMAIN approving = 1 .. Len(approving)
         /\ approving[1] \in Approval /\ Head(approving) = approving[1]
         /\ Head(approving).claim \in DOMAIN claims
         /\ Tail(approving) \in Seq(Approval)
         /\ \A k \in DOMAIN Tail(approving) :
               /\ k + 1 \in DOMAIN approving /\ Tail(approving)[k] = approving[k + 1]
               /\ Tail(approving)[k].claim \in DOMAIN claims
<1>1. approving \in Seq(Approval) /\ \A k \in DOMAIN approving : approving[k].claim \in DOMAIN claims
  BY DEF ClaimTypeOK
<1>2. /\ Tail(approving) \in Seq(Approval) /\ Len(Tail(approving)) = Len(approving) - 1
      /\ \A k \in 1 .. Len(Tail(approving)) : Tail(approving)[k] = approving[k + 1]
  BY <1>1, HeadTailProperties
<1>3. /\ Len(approving) \in Nat \ {0} /\ DOMAIN approving = 1 .. Len(approving)
      /\ DOMAIN Tail(approving) = 1 .. Len(Tail(approving))
  BY <1>1, <1>2, EmptySeq, LenProperties
<1>4. Head(approving) = approving[1] /\ approving[1] \in Approval
  BY <1>1, <1>3, ElementOfSeq
<1> QED
  BY <1>1, <1>2, <1>3, <1>4

\* The approval turns from the claim it has in hand to the card.
LEMMA HandTyped ==
  ASSUME ClaimTypeOK, ApprovalSavesClaim
  PROVE  /\ approving' \in Seq(Approval) /\ approving' # <<>>
         /\ Head(approving') = [claim |-> Head(approving).claim, at |-> "card"]
         /\ \A k \in DOMAIN approving' :
               /\ approving'[k].claim \in DOMAIN claims
               /\ \/ approving'[k] = Head(approving')
                  \/ k \in DOMAIN approving /\ approving'[k] = approving[k]
<1> DEFINE y == [approving[1] EXCEPT !.at = "card"]
<1>1. approving \in Seq(Approval) /\ approving # <<>>
  BY DEF ClaimTypeOK, ApprovalSavesClaim
<1>2. /\ Len(approving) \in Nat \ {0} /\ DOMAIN approving = 1 .. Len(approving)
      /\ approving[1] \in Approval /\ Head(approving) = approving[1]
      /\ Head(approving).claim \in DOMAIN claims
  BY <1>1, InHand
<1>3. approving' = [approving EXCEPT ![1] = y]
  BY DEF ApprovalSavesClaim
<1>4. y \in Approval /\ y = [claim |-> Head(approving).claim, at |-> "card"]
      /\ y.claim = Head(approving).claim
  BY <1>2 DEF Approval
<1> HIDE DEF y
<1>5. /\ approving' \in Seq(Approval) /\ Len(approving') = Len(approving)
      /\ \A k \in 1 .. Len(approving) : approving'[k] = IF k = 1 THEN y ELSE approving[k]
  BY <1>1, <1>2, <1>3, <1>4, ExceptSeq
<1>6. approving' # <<>> /\ Head(approving') = approving'[1] /\ DOMAIN approving' = 1 .. Len(approving)
  BY <1>2, <1>5, EmptySeq, HeadTailProperties, LenProperties
<1>7. \A k \in DOMAIN approving : approving[k].claim \in DOMAIN claims
  BY DEF ClaimTypeOK
<1>8. ASSUME NEW k \in DOMAIN approving'
      PROVE  /\ approving'[k].claim \in DOMAIN claims
             /\ \/ approving'[k] = Head(approving')
                \/ k \in DOMAIN approving /\ approving'[k] = approving[k]
  BY <1>2, <1>4, <1>5, <1>6, <1>7, <1>8
<1> QED
  BY <1>2, <1>4, <1>5, <1>6, <1>8

-----------------------------------------------------------------------------
(* The invariant                                                           *)

\* Claims that wait or were approved, and that no editor wrote in their form.
Live == (PendingClaims \cup Approved) \ handled

\* The claim that an approval has saved is approved, unless an editor changed it since.
HandIsApproved ==
    \A k \in DOMAIN approving :
        approving[k].at = "card" => approving[k].claim \in Approved \cup handled

\* Every claim that the action approved has the badge, or the action is about to give it.
BadgeIsGiven ==
    \A i \in Approved \ handled :
        claimStatus = "claimed" \/ (HalfApproved /\ i = Head(approving).claim)

\* There is one such claim at most, and none if a request found the card free and nothing
\* has changed since.
OneIsLive ==
    /\ \A i, j \in Live : i = j
    /\ \A c \in Claimants : request[c] = "checked" /\ c \notin stale => Live = {}

ClaimInv ==
    /\ ClaimTypeOK
    /\ HandIsApproved
    /\ ~cardByHand =>
          /\ BadgeHasAClaim
          /\ ~forgotten =>
                /\ BadgeIsGiven
                /\ ~blind => OneIsLive

\* Who has looked and is not known to be stale has the claims as they were.
LEMMA NotStale ==
  ASSUME PassesBy, NEW c \in Claimants, request'[c] = "checked", c \notin stale',
         request[c] = "checked"
  PROVE  c \notin stale /\ claims' = claims /\ claimStatus' = claimStatus
  BY DEF PassesBy

\* A step that leaves the claims alone, and by which no request looks.
LEMMA ClaimsStay ==
  ASSUME ClaimInv, PassesBy, UNCHANGED <<claims, handled>>,
         request' \in [Claimants -> {"none", "checked", "inserted"}],
         \A d \in Claimants : request'[d] = "checked" => request[d] = "checked",
         approving' \in Seq(Approval),
         \A k \in DOMAIN approving' : approving'[k].claim \in DOMAIN claims,
         claimStatus' \in CardStatus, contact' \in Claimants \cup {NoOwner},
         UNCHANGED <<cardByHand, blind>> \/ cardByHand',
         cardByHand' \in BOOLEAN, blind' \in BOOLEAN, forgotten' \in BOOLEAN,
         forgotten => forgotten',
         HandIsApproved',
         ~cardByHand' => BadgeHasAClaim',
         ~cardByHand' /\ ~forgotten' => BadgeIsGiven'
  PROVE  ClaimInv'
<1>1. ClaimTypeOK'
  BY DEF ClaimInv, ClaimTypeOK, PassesBy
<1>2. ASSUME ~cardByHand', ~forgotten', ~blind' PROVE OneIsLive'
  <2>1. OneIsLive
    BY <1>2 DEF ClaimInv
  <2>2. Live' = Live
    BY DEF Live, PendingClaims, Approved, With
  <2> QED
    BY <2>1, <2>2, NotStale DEF OneIsLive
<1> QED
  BY <1>1, <1>2 DEF ClaimInv

\* A step that changes the claims: whoever looked before is stale, or there are no more
\* claims that count.
LEMMA ClaimsMove ==
  ASSUME ClaimInv, PassesBy, UNCHANGED <<claimStatus, contact, cardByHand, forgotten>>,
         ClaimTypeOK', blind => blind',
         \A d \in Claimants : request'[d] = "checked" => request[d] = "checked",
         DOMAIN claims \subseteq DOMAIN claims',
         \A i \in DOMAIN claims : claims'[i].by = claims[i].by,
         Approved \cup handled \subseteq Approved' \cup handled',
         HandIsApproved',
         BadgeIsGiven => BadgeIsGiven',
         Live' \subseteq Live \/ (claims' # claims /\ (~blind' => \A i, j \in Live' : i = j))
            \/ blind' \/ forgotten' \/ cardByHand'
  PROVE  ClaimInv'
<1>1. ASSUME ~cardByHand' PROVE BadgeHasAClaim'
  <2> SUFFICES ASSUME claimStatus' = "claimed"
               PROVE  \E i \in Approved' \cup handled' : claims'[i].by = contact'
    BY DEF BadgeHasAClaim
  <2>1. PICK i \in Approved \cup handled : claims[i].by = contact
    BY <1>1 DEF ClaimInv, BadgeHasAClaim
  <2>2. i \in DOMAIN claims
    BY DEF ClaimInv, ClaimTypeOK, Approved, With
  <2> QED
    BY <2>1, <2>2
<1>2. ASSUME ~cardByHand', ~forgotten', ~blind' PROVE OneIsLive'
  <2>1. OneIsLive
    BY <1>2 DEF ClaimInv
  <2>2. CASE Live' \subseteq Live
    BY <2>1, <2>2, NotStale DEF OneIsLive
  <2>3. CASE claims' # claims /\ (~blind' => \A i, j \in Live' : i = j)
    BY <1>2, <2>3, NotStale DEF OneIsLive
  <2> QED
    BY <1>2, <2>2, <2>3
<1> QED
  BY <1>1, <1>2 DEF ClaimInv

-----------------------------------------------------------------------------
(* A request's steps                                                       *)

\* A request looks.
LEMMA ChecksKeeps ==
  ASSUME ClaimInv, PassesBy, NEW c \in Claimants, RequestChecks(c)
  PROVE  ClaimInv'
<1>1. /\ claimStatus # "claimed" /\ PendingClaims = {} /\ request[c] = "none"
      /\ request' = [request EXCEPT ![c] = "checked"] /\ blind' = (blind \/ HalfApproved)
      /\ UNCHANGED <<claims, claimStatus, contact, approving, handled, cardByHand, forgotten>>
  BY DEF RequestChecks, Looks
<1>2. ClaimTypeOK'
  BY <1>1 DEF ClaimInv, ClaimTypeOK, PassesBy
<1>3. /\ Live' = Live /\ Approved' = Approved /\ HalfApproved' = HalfApproved
  BY <1>1 DEF Live, PendingClaims, Approved, With, HalfApproved
<1>4. HandIsApproved'
  BY <1>1, <1>3 DEF ClaimInv, HandIsApproved
<1>5. ~cardByHand' => BadgeHasAClaim'
  BY <1>1, <1>3 DEF ClaimInv, BadgeHasAClaim
<1>6. ~cardByHand' /\ ~forgotten' => BadgeIsGiven'
  BY <1>1, <1>3 DEF ClaimInv, BadgeIsGiven
<1>7. ASSUME ~cardByHand', ~forgotten', ~blind' PROVE OneIsLive'
  <2>1. ~HalfApproved /\ ~blind
    BY <1>1, <1>7
  <2>2. OneIsLive /\ BadgeIsGiven
    BY <1>1, <1>7, <2>1 DEF ClaimInv
  <2>3. Live = {}
    BY <1>1, <2>1, <2>2 DEF Live, BadgeIsGiven
  <2> QED
    BY <1>3, <2>3 DEF OneIsLive
<1> QED
  BY <1>2, <1>4, <1>5, <1>6, <1>7 DEF ClaimInv

\* A request gives up.
LEMMA FailsKeeps ==
  ASSUME ClaimInv, PassesBy, NEW c \in Claimants, RequestFails(c)
  PROVE  ClaimInv'
<1>1. /\ request' = [request EXCEPT ![c] = "none"]
      /\ UNCHANGED <<claims, claimStatus, contact, approving, handled, cardByHand, blind, forgotten>>
  BY DEF RequestFails, history
<1>2. /\ request' \in [Claimants -> {"none", "checked", "inserted"}]
      /\ \A d \in Claimants : request'[d] = "checked" => request[d] = "checked"
  BY <1>1 DEF ClaimInv, ClaimTypeOK
<1>3. Approved' = Approved /\ HalfApproved' = HalfApproved
  BY <1>1 DEF Approved, With, HalfApproved
<1>4. HandIsApproved' /\ (~cardByHand' => BadgeHasAClaim')
      /\ (~cardByHand' /\ ~forgotten' => BadgeIsGiven')
  BY <1>1, <1>3 DEF ClaimInv, HandIsApproved, BadgeHasAClaim, BadgeIsGiven
<1> QED
  BY <1>1, <1>2, <1>4, ClaimsStay DEF ClaimInv, ClaimTypeOK

\* A request writes its claim.
LEMMA InsertKeeps ==
  ASSUME ClaimInv, PassesBy, NEW c \in Claimants, RequestInserts(c)
  PROVE  ClaimInv'
<1> DEFINE n == Len(claims) + 1
<1>1. /\ ClaimTypeOK /\ blind' = (blind \/ c \in stale)
      /\ UNCHANGED <<claimStatus, contact, approving, handled, cardByHand, forgotten>>
      /\ request[c] = "checked" /\ request' = [request EXCEPT ![c] = "inserted"]
  BY DEF ClaimInv, RequestInserts
<1>2. /\ claims' \in Seq(Claim) /\ Len(claims') <= MaxClaims /\ Len(claims') = n
      /\ DOMAIN claims' = DOMAIN claims \cup {n} /\ n \notin DOMAIN claims
      /\ \A i \in DOMAIN claims : claims'[i] = claims[i]
      /\ claims'[n].status = "pending"
  BY <1>1, InsertTyped
<1>3. claims' # claims
  BY <1>1, <1>2, RowsAreNumbered
<1> HIDE DEF n
<1>4. /\ request' \in [Claimants -> {"none", "checked", "inserted"}]
      /\ \A d \in Claimants : request'[d] = "checked" => request[d] = "checked"
  BY <1>1 DEF ClaimTypeOK
<1>5. ClaimTypeOK'
  BY <1>1, <1>2, <1>4 DEF ClaimTypeOK, PassesBy
<1>6. /\ Approved' = Approved /\ PendingClaims' = PendingClaims \cup {n}
      /\ HalfApproved' = HalfApproved
  BY <1>1, <1>2 DEF Approved, PendingClaims, With, HalfApproved
<1>7. HandIsApproved' /\ (BadgeIsGiven => BadgeIsGiven')
  BY <1>1, <1>6 DEF ClaimInv, HandIsApproved, BadgeIsGiven
<1>8. ASSUME ~cardByHand', ~forgotten', ~blind' PROVE \A i, j \in Live' : i = j
  <2>1. OneIsLive /\ c \notin stale
    BY <1>1, <1>8 DEF ClaimInv
  <2>2. Live = {}
    BY <1>1, <2>1 DEF OneIsLive
  <2>3. Live' \subseteq {n}
    BY <1>1, <1>6, <2>2 DEF Live
  <2> QED
    BY <2>3
<1> QED
  BY <1>1, <1>2, <1>3, <1>4, <1>5, <1>6, <1>7, <1>8, ClaimsMove

\* A request saves the card.
LEMMA SavesKeeps ==
  ASSUME ClaimInv, PassesBy, NEW c \in Claimants, RequestSaves(c)
  PROVE  ClaimInv'
<1>1. /\ request' = [request EXCEPT ![c] = "none"] /\ claimStatus' = "pending"
      /\ forgotten' = (forgotten \/ claimStatus = "claimed")
      /\ UNCHANGED <<claims, contact, approving, handled, cardByHand, blind>>
  BY DEF RequestSaves
<1>2. /\ request' \in [Claimants -> {"none", "checked", "inserted"}]
      /\ \A d \in Claimants : request'[d] = "checked" => request[d] = "checked"
  BY <1>1 DEF ClaimInv, ClaimTypeOK
<1>3. Approved' = Approved /\ HalfApproved' = HalfApproved
  BY <1>1 DEF Approved, With, HalfApproved
<1>4. HandIsApproved' /\ BadgeHasAClaim'
  BY <1>1, <1>3 DEF ClaimInv, HandIsApproved, BadgeHasAClaim
<1>5. ASSUME ~cardByHand', ~forgotten' PROVE BadgeIsGiven'
  <2>1. claimStatus # "claimed" /\ BadgeIsGiven
    BY <1>1, <1>5 DEF ClaimInv
  <2> QED
    BY <1>1, <1>3, <2>1 DEF BadgeIsGiven
<1>6. forgotten' \in BOOLEAN /\ (forgotten => forgotten') /\ claimStatus' \in CardStatus
  BY <1>1 DEF ClaimInv, ClaimTypeOK, CardStatus
<1> QED
  BY <1>1, <1>2, <1>4, <1>5, <1>6, ClaimsStay DEF ClaimInv, ClaimTypeOK

-----------------------------------------------------------------------------
(* An editor's steps                                                       *)

\* An approval fetches its claims.
LEMMA ReadsKeeps ==
  ASSUME ClaimInv, PassesBy, ApprovalReads
  PROVE  ClaimInv'
<1>1. /\ ClaimTypeOK /\ approving = <<>>
      /\ UNCHANGED <<claims, claimStatus, contact, request, handled, cardByHand, blind, forgotten>>
  BY DEF ClaimInv, ApprovalReads, history
<1> DEFINE read(k) == [claim |-> k, at |-> "claim"]
<1>2. PICK i \in PendingClaims, j \in PendingClaims :
         approving' = IF i = j THEN <<read(i)>> ELSE <<read(i), read(j)>>
  BY DEF ApprovalReads
<1>3. read(i) \in Approval /\ read(j) \in Approval
  BY <1>1, <1>2, RowsAreNumbered DEF Approval, PendingClaims, With
<1>4. approving' \in Seq(Approval) /\ Head(approving').at = "claim"
  BY <1>2, <1>3
<1>5. \A k \in DOMAIN approving' : approving'[k].claim \in DOMAIN claims
  <2>1. \A k \in DOMAIN approving' : approving'[k].claim \in {i, j}
    BY <1>2
  <2> QED
    BY <1>2, <2>1 DEF PendingClaims, With
<1>6. ~HalfApproved' /\ ~HalfApproved /\ Approved' = Approved
  BY <1>1, <1>4 DEF HalfApproved, Approved, With
<1>7. HandIsApproved'
  <2>1. \A k \in DOMAIN approving' : approving'[k].at = "claim"
    BY <1>2
  <2> QED
    BY <2>1 DEF HandIsApproved
<1>8. (~cardByHand' => BadgeHasAClaim') /\ (~cardByHand' /\ ~forgotten' => BadgeIsGiven')
  BY <1>1, <1>6 DEF ClaimInv, BadgeHasAClaim, BadgeIsGiven
<1> QED
  BY <1>1, <1>4, <1>5, <1>7, <1>8, ClaimsStay DEF ClaimTypeOK

\* An approval saves its claim.
LEMMA SavesClaimKeeps ==
  ASSUME ClaimInv, PassesBy, ApprovalSavesClaim
  PROVE  ClaimInv'
<1>1. /\ ClaimTypeOK /\ approving # <<>> /\ ~HalfApproved
      /\ UNCHANGED <<claimStatus, contact, request, handled, cardByHand, forgotten>>
  BY DEF ClaimInv, ApprovalSavesClaim, HalfApproved
<1>2. PICK i \in DOMAIN claims :
         /\ i = Head(approving).claim
         /\ claims' = [claims EXCEPT ![i].status = "approved"]
         /\ blind' = (blind \/ i \notin PendingClaims)
  BY <1>1, InHand DEF ApprovalSavesClaim
<1>3. /\ claims' \in Seq(Claim) /\ Len(claims') = Len(claims)
      /\ DOMAIN claims' = DOMAIN claims
      /\ \A j \in DOMAIN claims \ {i} : claims'[j] = claims[j]
      /\ claims'[i].status = "approved" /\ claims'[i].by = claims[i].by
  BY <1>1, <1>2, StatusOfOne DEF ClaimStatus
<1>4. /\ approving' \in Seq(Approval) /\ approving' # <<>>
      /\ Head(approving') = [claim |-> i, at |-> "card"]
      /\ \A k \in DOMAIN approving' :
            /\ approving'[k].claim \in DOMAIN claims
            /\ \/ approving'[k] = Head(approving')
               \/ k \in DOMAIN approving /\ approving'[k] = approving[k]
  BY <1>1, <1>2, HandTyped
<1>5. ClaimTypeOK'
  BY <1>1, <1>2, <1>3, <1>4 DEF ClaimTypeOK, PassesBy
<1>6. /\ Approved' = Approved \cup {i} /\ PendingClaims' = PendingClaims \ {i}
      /\ HalfApproved' /\ Head(approving').claim = i
  BY <1>3, <1>4 DEF Approved, PendingClaims, With, HalfApproved
<1>7. HandIsApproved' /\ (BadgeIsGiven => BadgeIsGiven')
  <2>1. HandIsApproved'
    BY <1>1, <1>4, <1>6 DEF ClaimInv, HandIsApproved
  <2> QED
    BY <1>1, <1>6, <2>1 DEF BadgeIsGiven
<1>8. Live' \subseteq Live \/ blind'
  BY <1>1, <1>2, <1>6 DEF Live
<1>9. \A j \in DOMAIN claims : claims'[j].by = claims[j].by
  BY <1>3
<1> QED
  BY <1>1, <1>2, <1>3, <1>5, <1>6, <1>7, <1>8, <1>9, ClaimsMove

\* An approval saves the card.
LEMMA SavesCardKeeps ==
  ASSUME ClaimInv, PassesBy, ApprovalSavesCard
  PROVE  ClaimInv'
<1>1. /\ ClaimTypeOK /\ approving # <<>> /\ HalfApproved
      /\ UNCHANGED <<claims, request, handled, cardByHand, blind, forgotten>>
  BY DEF ClaimInv, ApprovalSavesCard, HalfApproved, history
<1>2. PICK i \in DOMAIN claims :
         /\ i = Head(approving).claim /\ claimStatus' = "claimed" /\ contact' = claims[i].by
         /\ approving' = Tail(approving)
  BY <1>1, InHand DEF ApprovalSavesCard
<1>3. claimStatus' \in CardStatus /\ contact' \in Claimants \cup {NoOwner}
  BY <1>1, <1>2, RowsAreNumbered DEF CardStatus, Claim
<1>4. /\ approving' \in Seq(Approval)
      /\ \A k \in DOMAIN approving' : approving'[k].claim \in DOMAIN claims
  BY <1>1, <1>2, InHand
<1>5. Approved' = Approved /\ i \in Approved \cup handled
  <2>1. 1 \in DOMAIN approving /\ Head(approving) = approving[1]
    BY <1>1, InHand
  <2> QED
    BY <1>1, <1>2, <2>1 DEF Approved, With, ClaimInv, HandIsApproved, HalfApproved
<1>6. BadgeHasAClaim' /\ BadgeIsGiven'
  BY <1>1, <1>2, <1>5 DEF BadgeHasAClaim, BadgeIsGiven
<1>7. HandIsApproved'
  <2>1. \A k \in DOMAIN approving' : k + 1 \in DOMAIN approving /\ approving'[k] = approving[k + 1]
    BY <1>1, <1>2, InHand
  <2> QED
    BY <1>1, <1>5, <2>1 DEF ClaimInv, HandIsApproved
<1> QED
  BY <1>1, <1>3, <1>4, <1>6, <1>7, ClaimsStay DEF ClaimTypeOK

\* An approval dies.
LEMMA DiesKeeps ==
  ASSUME ClaimInv, PassesBy, ApprovalDies
  PROVE  ClaimInv'
<1>1. /\ ClaimTypeOK /\ approving' = <<>> /\ forgotten' = (forgotten \/ HalfApproved)
      /\ UNCHANGED <<claims, claimStatus, contact, request, handled, cardByHand, blind>>
  BY DEF ClaimInv, ApprovalDies
<1>2. approving' \in Seq(Approval) /\ DOMAIN approving' = {} /\ ~HalfApproved'
  BY <1>1, EmptySeq DEF HalfApproved
<1>3. Approved' = Approved
  BY <1>1 DEF Approved, With
<1>4. HandIsApproved' /\ (~cardByHand' => BadgeHasAClaim')
  BY <1>1, <1>2, <1>3 DEF ClaimInv, HandIsApproved, BadgeHasAClaim
<1>5. ASSUME ~cardByHand', ~forgotten' PROVE BadgeIsGiven'
  <2>1. ~HalfApproved /\ BadgeIsGiven
    BY <1>1, <1>5 DEF ClaimInv
  <2> QED
    BY <1>1, <1>3, <2>1 DEF BadgeIsGiven
<1>6. forgotten' \in BOOLEAN /\ (forgotten => forgotten')
  BY <1>1 DEF ClaimTypeOK
<1> QED
  BY <1>1, <1>2, <1>4, <1>5, <1>6, ClaimsStay DEF ClaimTypeOK

\* An editor rejects.
LEMMA RejectsKeeps ==
  ASSUME ClaimInv, PassesBy, Rejects
  PROVE  ClaimInv'
<1>1. /\ ClaimTypeOK
      /\ UNCHANGED <<claimStatus, contact, request, approving, handled, cardByHand, blind, forgotten>>
  BY DEF ClaimInv, Rejects, history
<1>2. PICK selected \in (SUBSET PendingClaims) \ {{}} :
         claims' = [i \in DOMAIN claims |->
                      IF i \in selected THEN [claims[i] EXCEPT !.status = "rejected"]
                                        ELSE claims[i]]
  BY DEF Rejects
<1>3. claims \in Seq(Claim) /\ Len(claims) \in Nat /\ DOMAIN claims = 1 .. Len(claims)
  BY <1>1, RowsAreNumbered
<1>4. \A i \in DOMAIN claims :
         /\ claims[i] \in Claim
         /\ [claims[i] EXCEPT !.status = "rejected"] \in Claim
         /\ [claims[i] EXCEPT !.status = "rejected"].status = "rejected"
         /\ [claims[i] EXCEPT !.status = "rejected"].by = claims[i].by
  <2> SUFFICES ASSUME NEW i \in DOMAIN claims
               PROVE  /\ claims[i] \in Claim
                      /\ [claims[i] EXCEPT !.status = "rejected"] \in Claim
                      /\ [claims[i] EXCEPT !.status = "rejected"].status = "rejected"
                      /\ [claims[i] EXCEPT !.status = "rejected"].by = claims[i].by
    OBVIOUS
  <2>1. claims[i] \in Claim
    BY <1>1, RowsAreNumbered
  <2> QED
    BY <2>1 DEF Claim, ClaimStatus
<1>5. /\ DOMAIN claims' = 1 .. Len(claims)
      /\ \A i \in DOMAIN claims :
            /\ claims'[i] \in Claim /\ claims'[i].by = claims[i].by
            /\ \/ claims'[i].status = claims[i].status
               \/ i \in PendingClaims /\ claims'[i].status = "rejected"
  <2>1. DOMAIN claims' = 1 .. Len(claims)
    BY <1>2, <1>3
  <2>2. ASSUME NEW i \in DOMAIN claims, i \in selected
        PROVE  /\ claims'[i] \in Claim /\ claims'[i].by = claims[i].by
               /\ i \in PendingClaims /\ claims'[i].status = "rejected"
    <3>1. claims'[i] = [claims[i] EXCEPT !.status = "rejected"]
      BY <1>2, <2>2
    <3> QED
      BY <1>2, <1>4, <2>2, <3>1
  <2>3. ASSUME NEW i \in DOMAIN claims, i \notin selected
        PROVE  claims'[i] = claims[i] /\ claims'[i] \in Claim
    BY <1>2, <1>4, <2>3
  <2> QED
    BY <2>1, <2>2, <2>3
<1>6. claims' \in Seq(Claim) /\ Len(claims') = Len(claims)
  <2>1. claims' \in [1 .. Len(claims) -> Claim]
    BY <1>2, <1>3, <1>5
  <2> QED
    BY <1>3, <2>1
<1>7. ClaimTypeOK'
  BY <1>1, <1>3, <1>5, <1>6 DEF ClaimTypeOK, PassesBy
<1>8. Approved' = Approved /\ PendingClaims' \subseteq PendingClaims /\ HalfApproved' = HalfApproved
  BY <1>1, <1>3, <1>5 DEF Approved, PendingClaims, With, HalfApproved
<1>9. HandIsApproved' /\ (BadgeIsGiven => BadgeIsGiven')
  BY <1>1, <1>8 DEF ClaimInv, HandIsApproved, BadgeIsGiven
<1>10. Live' \subseteq Live
  BY <1>1, <1>8 DEF Live
<1> QED
  BY <1>1, <1>3, <1>5, <1>7, <1>8, <1>9, <1>10, ClaimsMove

\* An editor saves the form of a claim: from then on it counts as his.
LEMMA FormKeeps ==
  ASSUME ClaimInv, PassesBy, EditorSavesClaim
  PROVE  ClaimInv'
<1>1. /\ ClaimTypeOK
      /\ UNCHANGED <<claimStatus, contact, request, approving, cardByHand, blind, forgotten>>
  BY DEF ClaimInv, EditorSavesClaim
<1>2. PICK i \in DOMAIN claims, s \in ClaimStatus :
         claims' = [claims EXCEPT ![i].status = s] /\ handled' = handled \cup {i}
  BY DEF EditorSavesClaim
<1>3. /\ claims' \in Seq(Claim) /\ Len(claims') = Len(claims)
      /\ DOMAIN claims' = DOMAIN claims
      /\ \A j \in DOMAIN claims \ {i} : claims'[j] = claims[j]
      /\ claims'[i].by = claims[i].by
  BY <1>1, <1>2, StatusOfOne
<1>4. ClaimTypeOK'
  BY <1>1, <1>2, <1>3 DEF ClaimTypeOK, PassesBy
<1>5. /\ \A j \in DOMAIN claims : j # i => /\ j \in Approved' <=> j \in Approved
                                           /\ j \in PendingClaims' <=> j \in PendingClaims
      /\ Approved' \subseteq DOMAIN claims /\ PendingClaims' \subseteq DOMAIN claims
      /\ Approved \subseteq DOMAIN claims /\ HalfApproved' = HalfApproved
  BY <1>1, <1>3 DEF Approved, PendingClaims, With, HalfApproved
<1>6. Approved \cup handled \subseteq Approved' \cup handled'
  BY <1>2, <1>5
<1>7. HandIsApproved' /\ (BadgeIsGiven => BadgeIsGiven')
  BY <1>1, <1>2, <1>5, <1>6 DEF ClaimInv, HandIsApproved, BadgeIsGiven
<1>8. Live' \subseteq Live
  BY <1>2, <1>5 DEF Live
<1>9. \A j \in DOMAIN claims : claims'[j].by = claims[j].by
  BY <1>3
<1> QED
  BY <1>1, <1>3, <1>4, <1>6, <1>7, <1>8, <1>9, ClaimsMove

\* An editor sets the card's status.
LEMMA EditorKeeps ==
  ASSUME ClaimInv, PassesBy, EditorSetsStatus
  PROVE  ClaimInv'
<1>1. /\ UNCHANGED <<claims, contact, request, approving, handled, blind, forgotten>>
      /\ claimStatus' \in CardStatus /\ cardByHand' = TRUE
  BY DEF EditorSetsStatus
<1>2. HandIsApproved'
  BY <1>1 DEF ClaimInv, HandIsApproved, HalfApproved, Approved, With
<1> QED
  BY <1>1, <1>2, ClaimsStay DEF ClaimInv, ClaimTypeOK

-----------------------------------------------------------------------------
(* The theorem                                                             *)

\* At the start nobody owns the card.
LEMMA ClaimInvInit == ClaimInit => ClaimInv
<1> SUFFICES ASSUME ClaimInit PROVE ClaimInv
  OBVIOUS
<1>1. ClaimTypeOK
  BY ClaimInitTyped
<1>2. claims = <<>> /\ approving = <<>> /\ claimStatus = "unclaimed" /\ DOMAIN claims = {}
  BY EmptySeq DEF ClaimInit
<1>3. Approved = {} /\ PendingClaims = {} /\ ~HalfApproved
  BY <1>2 DEF Approved, PendingClaims, With, HalfApproved
<1> QED
  BY <1>1, <1>2, <1>3 DEF ClaimInv, HandIsApproved, BadgeHasAClaim, BadgeIsGiven, OneIsLive, Live

\* Every step keeps the invariant.
LEMMA ClaimInvStep == ClaimInv /\ [ClaimNext]_claimVars => ClaimInv'
<1> SUFFICES ASSUME ClaimInv, [ClaimNext]_claimVars PROVE ClaimInv'
  OBVIOUS
<1>1. CASE UNCHANGED claimVars
  BY <1>1 DEF claimVars, history, ClaimInv, ClaimTypeOK, HandIsApproved, BadgeHasAClaim,
              BadgeIsGiven, OneIsLive, Live, Approved, PendingClaims, With, HalfApproved
<1>2. CASE ClaimNext
  <2>1. PassesBy
    BY <1>2 DEF ClaimNext
  <2>2. CASE \E c \in Claimants :
                RequestChecks(c) \/ RequestFails(c) \/ RequestInserts(c) \/ RequestSaves(c)
    BY <2>1, <2>2, ChecksKeeps, FailsKeeps, InsertKeeps, SavesKeeps
  <2>3. CASE ApprovalReads \/ ApprovalSavesClaim \/ ApprovalSavesCard \/ ApprovalDies
    BY <2>1, <2>3, ReadsKeeps, SavesClaimKeeps, SavesCardKeeps, DiesKeeps
  <2>4. CASE Rejects \/ EditorSavesClaim \/ EditorSetsStatus
    BY <2>1, <2>4, RejectsKeeps, FormKeeps, EditorKeeps
  <2> QED
    BY <1>2, <2>2, <2>3, <2>4 DEF ClaimNext
<1> QED
  BY <1>1, <1>2

\* The invariant says that the card has one owner.
LEMMA ClaimInvOneOwner == ClaimInv => OneOwner
<1> SUFFICES ASSUME ClaimInv, ~cardByHand
             PROVE  BadgeHasAClaim /\ ApprovalHasABadge /\ OneIsApproved
  BY DEF OneOwner
<1>1. BadgeHasAClaim
  BY DEF ClaimInv
<1>2. ApprovalHasABadge
  BY DEF ClaimInv, BadgeIsGiven, ApprovalHasABadge
<1>3. ASSUME ~forgotten, ~blind PROVE Cardinality(Approved \ handled) <= 1
  <2>1. \A i, j \in Approved \ handled : i = j
    BY <1>3 DEF ClaimInv, OneIsLive, Live
  <2>2. CASE Approved \ handled = {}
    BY <2>2, FS_EmptySet
  <2>3. CASE Approved \ handled # {}
    <3>1. PICK i \in Approved \ handled : Approved \ handled = {i}
      BY <2>1, <2>3
    <3>2. Cardinality({i}) = 1
      BY FS_Singleton
    <3> QED
      BY <3>1, <3>2
  <2> QED
    BY <2>2, <2>3
<1> QED
  BY <1>1, <1>2, <1>3 DEF OneIsApproved

\* Whatever claims come in and however editors take them, by the actions, by the form of a
\* claim or by that of the card: a badge that no editor put there is that of a claim that
\* was approved; a claim approved by the action has its badge unless the card missed it;
\* and one claim of a card is approved so at most, as long as nobody wrote on what he had
\* not seen.
THEOREM OneOwnerCorrect == ClaimSpec => []OneOwner
<1>1. ClaimSpec => []ClaimInv
  BY ClaimInvInit, ClaimInvStep, PTL DEF ClaimSpec
<1> QED
  BY <1>1, ClaimInvOneOwner, PTL

-----------------------------------------------------------------------------
(***************************************************************************)
(* Trust backfills: whatever editors and imports do between a plan and its *)
(* application, and in whatever order the commands run, an old decision    *)
(* does no harm.                                                           *)
(***************************************************************************)
-----------------------------------------------------------------------------
\* What a command writes is a value of its slot.
LEMMA TargetsAreValues == \A k \in Commands : Target[k] \in Values[k]
  BY DEF Commands, Target, Values

\* A write to one slot keeps the card in its type and the other slots alone.
LEMMA SlotWrite ==
  ASSUME TrustTypeOK, NEW k \in Commands, NEW v \in Values[k],
         slot' = [slot EXCEPT ![k] = v]
  PROVE  /\ DOMAIN slot' = Commands
         /\ \A j \in Commands : slot'[j] \in Values[j]
         /\ slot'[k] = v
         /\ \A j \in Commands \ {k} : slot'[j] = slot[j]
  BY DEF TrustTypeOK

\* A command writes its own slot only.
LEMMA FillKeepsOthers ==
  ASSUME TrustTypeOK, NEW k \in Commands, Fill(k)
  PROVE  /\ DOMAIN slot' = Commands
         /\ \A j \in Commands : slot'[j] \in Values[j]
         /\ slot'[k] = Target[k]
         /\ \A j \in Commands \ {k} : slot'[j] = slot[j]
  BY TargetsAreValues, SlotWrite DEF Fill

\* A decision in hand has a command.
LEMMA DecisionHasCommand ==
  ASSUME TrustTypeOK, decision # NoRun
  PROVE  decision \in Decision /\ decision.command \in Commands
  BY DEF TrustTypeOK, Decision

-----------------------------------------------------------------------------
\* A card that has just been published has a value in every slot.
LEMMA TrustInitTyped == TrustInit => TrustTypeOK
<1> SUFFICES ASSUME TrustInit PROVE TrustTypeOK
  OBVIOUS
<1>1. DOMAIN slot = Commands
  <2>1. DOMAIN slot = {"verification", "capability", "description", "category",
                       "taxonomy", "launch"}
    BY SMT DEF TrustInit
  <2> QED
    BY <2>1 DEF Commands
<1>2. \A k \in Commands : slot[k] \in Values[k]
  <2>1. slot["verification"] \in Values["verification"] /\ slot["capability"] \in Values["capability"]
    BY SMT DEF TrustInit, Values
  <2>2. slot["description"] \in Values["description"] /\ slot["category"] \in Values["category"]
    BY SMT DEF TrustInit, Values
  <2>3. slot["taxonomy"] \in Values["taxonomy"] /\ slot["launch"] \in Values["launch"]
    BY SMT DEF TrustInit, Values
  <2> QED
    BY <2>1, <2>2, <2>3 DEF Commands
<1> QED
  BY <1>1, <1>2 DEF TrustInit, TrustTypeOK, Prose

\* Every step leaves a value in every slot.
LEMMA TrustStepTyped == TrustTypeOK /\ [TrustNext]_trustVars => TrustTypeOK'
<1> SUFFICES ASSUME TrustTypeOK, [TrustNext]_trustVars
             PROVE  TrustTypeOK'
  OBVIOUS
<1>1. ASSUME NEW k \in Commands, Plans(k) PROVE TrustTypeOK'
  BY <1>1 DEF Plans, TrustTypeOK, Decision
<1>2. ASSUME NEW k \in Commands, EditorSets(k) PROVE TrustTypeOK'
  <2>1. PICK v \in Values[k] : slot' = [slot EXCEPT ![k] = v]
    BY <1>2 DEF EditorSets
  <2> QED
    BY <1>2, <2>1, SlotWrite DEF EditorSets, TrustTypeOK
<1>3. CASE Applies
  <2>1. decision.command \in Commands
    BY <1>3, DecisionHasCommand DEF Applies
  <2>2. Fill(decision.command) \/ UNCHANGED slot
    BY <1>3 DEF Applies
  <2>3. DOMAIN slot' = Commands /\ \A j \in Commands : slot'[j] \in Values[j]
    BY <2>1, <2>2, FillKeepsOthers DEF TrustTypeOK
  <2> QED
    BY <1>3, <2>3 DEF Applies, Finishes, TrustTypeOK
<1>4. CASE CapabilityLooksUp
  <2>1. "capability" \in Commands
    BY DEF Commands
  <2>2. decision \in Decision /\ decision.command \in Commands
    BY <1>4, DecisionHasCommand DEF CapabilityLooksUp
  <2>3. CASE Fill("capability") /\ Finishes
    BY <2>1, <2>3, FillKeepsOthers DEF Finishes, TrustTypeOK
  <2>4. CASE UNCHANGED slot /\ Finishes
    BY <2>4 DEF Finishes, TrustTypeOK
  <2>5. CASE /\ decision' = [decision EXCEPT !.held = TRUE]
             /\ UNCHANGED <<slot, inDirectory, mcp, prose>>
    BY <2>2, <2>5 DEF TrustTypeOK, Decision
  <2> QED
    BY <1>4, <2>3, <2>4, <2>5 DEF CapabilityLooksUp
<1>5. CASE CapabilitySaves
  <2>1. "capability" \in Commands
    BY DEF Commands
  <2>2. Fill("capability") \/ UNCHANGED slot
    BY <1>5 DEF CapabilitySaves
  <2>3. DOMAIN slot' = Commands /\ \A j \in Commands : slot'[j] \in Values[j]
    BY <2>1, <2>2, FillKeepsOthers DEF TrustTypeOK
  <2> QED
    BY <1>5, <2>3 DEF CapabilitySaves, Finishes, TrustTypeOK
<1>6. CASE ListingChanges
  BY <1>6 DEF ListingChanges, TrustTypeOK
<1>7. CASE McpChanges
  BY <1>7 DEF McpChanges, TrustTypeOK
<1>8. CASE UNCHANGED trustVars
  BY <1>8 DEF trustVars, TrustTypeOK
<1> QED
  BY <1>1, <1>2, <1>3, <1>4, <1>5, <1>6, <1>7, <1>8 DEF TrustNext

\* Every behaviour of the backfills keeps the types.
THEOREM TrustTypeCorrect == TrustSpec => []TrustTypeOK
<1>1. TrustInit => TrustTypeOK
  BY TrustInitTyped
<1>2. TrustTypeOK /\ [TrustNext]_trustVars => TrustTypeOK'
  BY TrustStepTyped
<1> QED
  BY <1>1, <1>2, PTL DEF TrustSpec

-----------------------------------------------------------------------------
\* What one step may do to a slot with a known value ...
KnownStays ==
    \A k \in DOMAIN Known :
        slot[k] \in Known[k] /\ slot'[k] # slot[k] =>
            \/ EditorSets(k)
            \/ k = "capability" /\ decision # NoRun /\ decision.held

\* ... and to what the two repairs write.
RepairKeepsOff ==
    \A k \in {"taxonomy", "launch"} :
        slot'[k] # slot[k] => (inDirectory /\ ~mcp) \/ EditorSets(k)

\* What an apply finds at its own slot is not a known value, and a repair
\* finds the card to be a plain connector.
LEMMA StillTrueIsOpen ==
  ASSUME NEW k \in Commands \ {"capability"}, StillTrue(k)
  PROVE  /\ k \in DOMAIN Known => slot[k] \notin Known[k]
         /\ k \in {"taxonomy", "launch"} => inDirectory /\ ~mcp
<1>1. CASE k = "verification"
  BY <1>1 DEF StillTrue, VerificationGap, Known
<1>2. CASE k = "description"
  BY <1>2 DEF StillTrue, Known
<1>3. CASE k = "category"
  BY <1>3 DEF StillTrue, CategoryGap, Known
<1>4. CASE k = "taxonomy"
  BY <1>4 DEF StillTrue, TaxonomyStillFalse, Known
<1>5. CASE k = "launch"
  BY <1>5 DEF StillTrue, LaunchStillBeta, Known
<1> QED
  BY <1>1, <1>2, <1>3, <1>4, <1>5 DEF Commands

\* No step does harm.
LEMMA StepDoesNoHarm == TrustTypeOK /\ [TrustNext]_trustVars => KnownStays /\ RepairKeepsOff
<1> SUFFICES ASSUME TrustTypeOK, [TrustNext]_trustVars
             PROVE  KnownStays /\ RepairKeepsOff
  OBVIOUS
<1>0. DOMAIN Known \subseteq Commands /\ {"taxonomy", "launch"} \subseteq Commands
  BY DEF Known, Commands
<1>1. ASSUME NEW k \in Commands, EditorSets(k) PROVE KnownStays /\ RepairKeepsOff
  <2>1. PICK v \in Values[k] : slot' = [slot EXCEPT ![k] = v]
    BY <1>1 DEF EditorSets
  <2>2. \A j \in Commands \ {k} : slot'[j] = slot[j]
    BY <2>1, SlotWrite
  <2> QED
    BY <1>0, <1>1, <2>2 DEF KnownStays, RepairKeepsOff
<1>2. CASE Applies
  <2>1. decision.command \in Commands \ {"capability"}
    BY <1>2, DecisionHasCommand DEF Applies
  <2>2. CASE UNCHANGED slot
    BY <2>2 DEF KnownStays, RepairKeepsOff
  <2>3. CASE StillTrue(decision.command) /\ Fill(decision.command)
    <3>1. \A j \in Commands \ {decision.command} : slot'[j] = slot[j]
      BY <2>1, <2>3, FillKeepsOthers
    <3>2. /\ decision.command \in DOMAIN Known =>
                 slot[decision.command] \notin Known[decision.command]
          /\ decision.command \in {"taxonomy", "launch"} => inDirectory /\ ~mcp
      BY <2>1, <2>3, StillTrueIsOpen
    <3> QED
      BY <1>0, <3>1, <3>2 DEF KnownStays, RepairKeepsOff
  <2> QED
    BY <1>2, <2>2, <2>3 DEF Applies
<1>3. CASE CapabilityLooksUp
  <2>1. CASE UNCHANGED slot
    BY <2>1 DEF KnownStays, RepairKeepsOff
  <2>2. CASE slot["capability"] = "none" /\ Fill("capability")
    <3>1. \A j \in Commands \ {"capability"} : slot'[j] = slot[j]
      BY <2>2, FillKeepsOthers DEF Commands
    <3>2. slot["capability"] \notin Known["capability"]
      BY <2>2 DEF Known
    <3> QED
      BY <1>0, <3>1, <3>2 DEF KnownStays, RepairKeepsOff
  <2> QED
    BY <1>3, <2>1, <2>2 DEF CapabilityLooksUp
<1>4. CASE CapabilitySaves
  <2>1. CASE UNCHANGED slot
    BY <2>1 DEF KnownStays, RepairKeepsOff
  <2>2. CASE Fill("capability")
    <3>1. \A j \in Commands \ {"capability"} : slot'[j] = slot[j]
      BY <2>2, FillKeepsOthers DEF Commands
    <3> QED
      BY <1>0, <1>4, <3>1 DEF KnownStays, RepairKeepsOff, CapabilitySaves
  <2> QED
    BY <1>4, <2>1, <2>2 DEF CapabilitySaves
<1>5. CASE UNCHANGED slot
  BY <1>5 DEF KnownStays, RepairKeepsOff
<1>6. ASSUME NEW k \in Commands, Plans(k) PROVE UNCHANGED slot
  BY <1>6 DEF Plans
<1>7. ListingChanges \/ McpChanges \/ UNCHANGED trustVars => UNCHANGED slot
  BY DEF ListingChanges, McpChanges, trustVars
<1> QED
  BY <1>1, <1>2, <1>3, <1>4, <1>5, <1>6, <1>7 DEF TrustNext

\* For any order of commands, edits and imports: what is known by the time an
\* old decision is applied stays, and a card that turned out to be an MCP
\* server is not relabelled.
THEOREM StaleDecisionsCorrect == TrustSpec => StaleDecisionsDoNoHarm
<1>1. TrustTypeOK /\ [TrustNext]_trustVars => [KnownStays /\ RepairKeepsOff]_trustVars
  BY StepDoesNoHarm
<1>2. TrustSpec => [][KnownStays]_trustVars /\ [][RepairKeepsOff]_trustVars
  BY <1>1, TrustTypeCorrect, PTL DEF TrustSpec
<1> QED
  BY <1>2 DEF StaleDecisionsDoNoHarm, KnownValuesStay, McpCardsAreLeftAlone,
              KnownStays, RepairKeepsOff

-----------------------------------------------------------------------------
(***************************************************************************)
(* The in-memory rate limiter uses one bucket and implements the spacing   *)
(* of the slots; threads that wake late meet in pairs at most.             *)
(***************************************************************************)
\* Every thread that is past the lookup has the registered bucket in hand.
OneBucket ==
    \A t \in Threads :
        step[t] \in {"enter", "sleep"} =>
            bucket[t] = registry /\ registry # NoBucket

\* A thread that sleeps holds the lock and has the last slot, no earlier than the
\* bucket says; every other one is a whole interval before it.
SleeperHoldsLock ==
    \A t \in Threads :
        step[t] = "sleep" =>
            /\ owner[bucket[t]] = t /\ nextAt[bucket[t]] <= goes[t]
            /\ goes[t] \in slots
            /\ \A s \in slots : s = goes[t] \/ s + Interval <= goes[t]

\* If nobody sleeps, every slot is a whole interval before the bucket's next one.
SlotsArePast ==
    /\ registry = NoBucket => slots = {}
    /\ registry # NoBucket /\ owner[registry] = NoBucket =>
          \A s \in slots : s + Interval <= nextAt[registry]

\* Slots are an interval apart.  Who has left did so at his slot or later, and before
\* any later slot, because he held the lock until he left.
LeftInTurn ==
    /\ \A s, u \in slots : s < u => s + Interval <= u
    /\ \A x \in left : x.slot <= x.at /\ x.at <= clock
    /\ \A x \in left : \A s \in slots : x.slot < s => x.at <= s

LocalInv == LocalTypeOK /\ OneBucket /\ SleeperHoldsLock /\ SlotsArePast /\ LeftInTurn

-----------------------------------------------------------------------------
LEMMA LocalInitInv == LocalInit => LocalInv
BY HorizonAssumption, BucketAssumption
   DEF LocalInit, LocalInv, LocalTypeOK, NoBuckets, Steps, OneBucket,
       SleeperHoldsLock, SlotsArePast, LeftInTurn

\* A thread that has the lock has the one of the registered bucket, and nobody else
\* sleeps.
LEMMA OnlySleeper ==
  ASSUME LocalInv, NEW t \in Threads, step[t] = "sleep"
  PROVE  /\ bucket[t] = registry /\ registry \in Threads /\ owner[registry] = t
         /\ nextAt[registry] <= goes[t] /\ goes[t] \in Nat /\ goes[t] \in slots
         /\ \A u \in Threads : step[u] = "sleep" => u = t
         /\ \A s \in slots : s = goes[t] \/ s + Interval <= goes[t]
<1>1. bucket[t] = registry /\ registry \in Threads
  BY BucketAssumption DEF LocalInv, LocalTypeOK, NoBuckets, OneBucket
<1>2. owner[registry] = t
  BY <1>1 DEF LocalInv, SleeperHoldsLock
<1>3. \A u \in Threads : step[u] = "sleep" => u = t
  BY <1>1, <1>2 DEF LocalInv, OneBucket, SleeperHoldsLock
<1> QED
  BY <1>1, <1>2, <1>3 DEF LocalInv, LocalTypeOK, SleeperHoldsLock

\* Nobody sleeps while the lock of the registered bucket is free.
LEMMA NobodySleeps ==
  ASSUME LocalInv, registry # NoBucket, owner[registry] = NoBucket
  PROVE  \A u \in Threads : step[u] # "sleep"
<1> SUFFICES ASSUME NEW u \in Threads, step[u] = "sleep" PROVE FALSE
  OBVIOUS
<1>1. owner[registry] = u
  BY OnlySleeper
<1> QED
  BY <1>1, BucketAssumption

\* The thread that gets the lock is given a slot behind all others, and nobody has
\* left later than that.
LEMMA EntersInTurn ==
  ASSUME LocalInv, NEW t \in Threads, Enters(t)
  PROVE  /\ bucket[t] = registry /\ registry \in Threads /\ owner[registry] = NoBucket
         /\ goes'[t] \in Nat /\ nextAt[registry] <= goes'[t] /\ clock <= goes'[t]
         /\ goes' = [goes EXCEPT ![t] = goes'[t]]
         /\ slots' = slots \cup {goes'[t]} /\ goes'[t] \notin slots
         /\ \A s \in slots : s \in Nat /\ s + Interval <= goes'[t]
<1>1. bucket[t] = registry /\ registry \in Threads
  BY BucketAssumption DEF Enters, LocalInv, LocalTypeOK, NoBuckets, OneBucket
<1>2. owner[registry] = NoBucket /\ registry # NoBucket
  BY <1>1, BucketAssumption DEF Enters
<1> DEFINE g == IF nextAt[bucket[t]] > clock THEN nextAt[bucket[t]] ELSE clock
<1>3. nextAt[registry] \in Nat /\ clock \in Nat
  BY <1>1 DEF LocalInv, LocalTypeOK
<1>4. g \in Nat /\ nextAt[registry] <= g /\ clock <= g
  BY <1>1, <1>3
<1>5. goes' = [goes EXCEPT ![t] = g] /\ goes'[t] = g /\ slots' = slots \cup {g}
  <2>1. goes' = [goes EXCEPT ![t] = g]
    BY DEF Enters
  <2>2. goes'[t] = g
    BY <2>1 DEF LocalInv, LocalTypeOK
  <2> QED
    BY <2>1, <2>2 DEF Enters
<1> HIDE DEF g
<1>6. \A s \in slots : s \in Nat /\ s + Interval <= nextAt[registry]
  BY <1>2 DEF LocalInv, LocalTypeOK, SlotsArePast
<1>7. \A s \in slots : s \in Nat /\ s + Interval <= g
  BY <1>3, <1>4, <1>6, IntervalAssumption
<1>8. g \notin slots
  BY <1>4, <1>7, IntervalAssumption
<1> QED
  BY <1>1, <1>2, <1>4, <1>5, <1>7, <1>8

\* Every step keeps the invariant: one case per action.
LEMMA LocalStepInv == LocalInv /\ [LocalNext]_localVars => LocalInv'
<1>. SUFFICES ASSUME LocalInv, [LocalNext]_localVars PROVE LocalInv'
  OBVIOUS
<1>. USE IntervalAssumption, BucketAssumption
<1>1. CASE Tick
  <2>1. /\ clock \in Nat /\ clock' = clock + 1
        /\ UNCHANGED <<registry, nextAt, owner, step, bucket, goes, slots, left>>
    BY <1>1 DEF Tick, LocalInv, LocalTypeOK
  <2>2. LocalTypeOK'
    BY <2>1 DEF LocalInv, LocalTypeOK
  <2>3. \A x \in left : x.at \in Nat /\ x.at <= clock'
    BY <2>1 DEF LocalInv, LocalTypeOK, LeftInTurn
  <2>4. LeftInTurn'
    BY <2>1, <2>3 DEF LocalInv, LeftInTurn
  <2>. QED BY <2>1, <2>2, <2>4 DEF LocalInv, OneBucket, SleeperHoldsLock, SlotsArePast
<1>2. ASSUME NEW t \in Threads, LooksUp(t) PROVE LocalInv'
  <2>1. LocalTypeOK'
    BY <1>2 DEF LooksUp, LocalInv, LocalTypeOK, NoBuckets, Steps
  <2>2. OneBucket'
    BY <1>2 DEF LooksUp, LocalInv, LocalTypeOK, NoBuckets, OneBucket
  <2>3. SleeperHoldsLock'
    BY <1>2 DEF LooksUp, LocalInv, LocalTypeOK, SleeperHoldsLock
  <2>4. SlotsArePast' /\ LeftInTurn'
    BY <1>2 DEF LooksUp, LocalInv, SlotsArePast, LeftInTurn
  <2>. QED BY <2>1, <2>2, <2>3, <2>4 DEF LocalInv
<1>3. ASSUME NEW t \in Threads, Registers(t) PROVE LocalInv'
  <2>1. LocalTypeOK'
    BY <1>3 DEF Registers, LocalInv, LocalTypeOK, NoBuckets, Steps
  <2>2. OneBucket'
    BY <1>3 DEF Registers, LocalInv, LocalTypeOK, NoBuckets, OneBucket
  <2>3. SleeperHoldsLock'
    BY <1>3 DEF Registers, LocalInv, LocalTypeOK, SleeperHoldsLock
  <2>4. SlotsArePast' /\ LeftInTurn'
    BY <1>3 DEF Registers, LocalInv, SlotsArePast, LeftInTurn
  <2>. QED BY <2>1, <2>2, <2>3, <2>4 DEF LocalInv
<1>4. ASSUME NEW t \in Threads, Enters(t) PROVE LocalInv'
  <2>1. /\ bucket[t] = registry /\ registry \in Threads /\ owner[registry] = NoBucket
        /\ goes'[t] \in Nat /\ nextAt[registry] <= goes'[t] /\ clock <= goes'[t]
        /\ goes' = [goes EXCEPT ![t] = goes'[t]]
        /\ slots' = slots \cup {goes'[t]}
        /\ \A s \in slots : s \in Nat /\ s + Interval <= goes'[t]
    BY <1>4, EntersInTurn
  <2>2. /\ owner' = [owner EXCEPT ![registry] = t] /\ step' = [step EXCEPT ![t] = "sleep"]
        /\ UNCHANGED <<clock, registry, nextAt, bucket, left>>
    BY <1>4, <2>1 DEF Enters
  <2>3. \A u \in Threads : step[u] # "sleep"
    BY <2>1, NobodySleeps
  <2>4. /\ owner'[registry] = t /\ step'[t] = "sleep"
        /\ \A b \in Threads \ {registry} : owner'[b] = owner[b]
        /\ \A u \in Threads \ {t} : step'[u] = step[u]
        /\ owner' \in [Threads -> NoBuckets] /\ step' \in [Threads -> Steps]
    BY <2>1, <2>2 DEF LocalInv, LocalTypeOK, NoBuckets, Steps
  <2>5. /\ goes' \in [Threads -> Nat] /\ slots' \subseteq Nat
        /\ left' \subseteq [slot : slots', at : Nat]
    BY <2>1, <2>2 DEF LocalInv, LocalTypeOK
  <2>6. \A b \in Threads : owner'[b] # NoBucket => step'[owner'[b]] = "sleep" /\ bucket'[owner'[b]] = b
    BY <2>1, <2>2, <2>3, <2>4 DEF LocalInv, LocalTypeOK, NoBuckets
  <2>7. LocalTypeOK'
    BY <2>2, <2>4, <2>5, <2>6 DEF LocalInv, LocalTypeOK
  <2>8. OneBucket'
    BY <2>1, <2>2, <2>4 DEF LocalInv, OneBucket
  <2>9. SleeperHoldsLock'
    BY <2>1, <2>2, <2>3, <2>4 DEF SleeperHoldsLock
  <2>10. SlotsArePast'
    BY <2>1, <2>2, <2>4 DEF SlotsArePast
  <2>11. LeftInTurn'
    <3>1. \A s, u \in slots' : s < u => s + Interval <= u
      BY <2>1 DEF LocalInv, LeftInTurn
    <3>2. \A x \in left : x.slot \in Nat /\ x.at \in Nat /\ x.at <= clock /\ clock \in Nat
      BY DEF LocalInv, LocalTypeOK, LeftInTurn
    <3>3. \A x \in left : \A s \in slots' : x.slot < s => x.at <= s
      BY <2>1, <3>2 DEF LocalInv, LeftInTurn
    <3>. QED BY <2>2, <3>1, <3>3 DEF LocalInv, LeftInTurn
  <2>. QED BY <2>7, <2>8, <2>9, <2>10, <2>11 DEF LocalInv
<1>5. ASSUME NEW t \in Threads, Leaves(t) PROVE LocalInv'
  <2>1. /\ bucket[t] = registry /\ registry \in Threads /\ owner[registry] = t
        /\ nextAt[registry] <= goes[t] /\ goes[t] \in Nat /\ goes[t] \in slots
        /\ \A u \in Threads : step[u] = "sleep" => u = t
        /\ \A s \in slots : s = goes[t] \/ s + Interval <= goes[t]
    BY <1>5, OnlySleeper DEF Leaves
  <2>2. \A b \in Threads : b # registry => owner[b] = NoBucket
    <3>1. SUFFICES ASSUME NEW b \in Threads, b # registry, owner[b] # NoBucket
                   PROVE  FALSE
      OBVIOUS
    <3>2. owner[b] \in Threads /\ step[owner[b]] = "sleep" /\ bucket[owner[b]] = b
      BY <3>1 DEF LocalInv, LocalTypeOK, NoBuckets
    <3>. QED BY <2>1, <3>1, <3>2
  <2>3. /\ nextAt' = [nextAt EXCEPT ![registry] = goes[t] + Interval]
        /\ owner' = [owner EXCEPT ![registry] = NoBucket]
        /\ step' = [step EXCEPT ![t] = "out"] /\ bucket' = [bucket EXCEPT ![t] = NoBucket]
        /\ left' = left \cup {[slot |-> goes[t], at |-> clock]} /\ goes[t] <= clock
        /\ UNCHANGED <<clock, registry, goes, slots>>
    BY <1>5, <2>1 DEF Leaves
  <2>4. \A b \in Threads : owner'[b] = NoBucket
    BY <2>1, <2>2, <2>3 DEF LocalInv, LocalTypeOK
  <2>5. \A u \in Threads : step'[u] # "sleep"
    BY <2>1, <2>3 DEF LocalInv, LocalTypeOK, Steps
  <2>6. goes[t] + Interval \in Nat /\ [slot |-> goes[t], at |-> clock] \in [slot : slots, at : Nat]
    BY <2>1 DEF LocalInv, LocalTypeOK
  <2>7. LocalTypeOK'
    BY <2>1, <2>3, <2>4, <2>6 DEF LocalInv, LocalTypeOK, NoBuckets, Steps
  <2>8. OneBucket'
    BY <2>3 DEF LocalInv, LocalTypeOK, OneBucket
  <2>9. SleeperHoldsLock'
    BY <2>5 DEF SleeperHoldsLock
  <2>10. SlotsArePast'
    <3>1. nextAt'[registry] = goes[t] + Interval
      BY <2>1, <2>3 DEF LocalInv, LocalTypeOK
    <3>2. \A s \in slots : s \in Nat /\ s + Interval <= goes[t] + Interval
      BY <2>1 DEF LocalInv, LocalTypeOK
    <3>. QED BY <2>1, <2>3, <3>1, <3>2 DEF SlotsArePast
  <2>11. LeftInTurn'
    <3>1. \A x \in left' : x.slot <= x.at /\ x.at <= clock
      BY <2>1, <2>3 DEF LocalInv, LocalTypeOK, LeftInTurn
    <3>2. ASSUME NEW s \in slots, goes[t] < s PROVE FALSE
      BY <2>1, <3>2 DEF LocalInv, LocalTypeOK
    <3>3. \A x \in left' : \A s \in slots : x.slot < s => x.at <= s
      BY <2>3, <3>2 DEF LocalInv, LeftInTurn
    <3>. QED BY <2>3, <3>1, <3>3 DEF LocalInv, LeftInTurn
  <2>. QED BY <2>7, <2>8, <2>9, <2>10, <2>11 DEF LocalInv
<1>6. CASE UNCHANGED localVars
  BY <1>6 DEF localVars, LocalInv, LocalTypeOK, OneBucket, SleeperHoldsLock, SlotsArePast, LeftInTurn
<1>. QED BY <1>1, <1>2, <1>3, <1>4, <1>5, <1>6 DEF LocalNext

\* The inductive invariant holds: one bucket, its lock held by whoever sleeps, slots an
\* interval apart, and departures in the order of the slots.
THEOREM LocalInvariant == LocalSpec => []LocalInv
<1>. QED BY LocalInitInv, LocalStepInv, PTL DEF LocalSpec

\* Types, and a lock is only ever held by a thread that sleeps on it.
THEOREM LocalTypeCorrect == LocalSpec => []LocalTypeOK
<1>1. LocalInv => LocalTypeOK
  BY DEF LocalInv
<1>. QED BY <1>1, LocalInvariant, PTL

-----------------------------------------------------------------------------
(* The refinement: getting the lock books a slot, giving it up leaves.     *)

\* The slot each thread waits for, as the abstract limiter sees it.
ThreadHolds == [t \in Threads |-> IF step[t] = "sleep" THEN {goes[t]} ELSE {}]

LEMMA LocalStepRefines ==
    LocalInv /\ [LocalNext]_localVars => [Promise!SpacingNext]_(Promise!spacingVars)
<1>. SUFFICES ASSUME LocalInv, [LocalNext]_localVars
              PROVE  [Promise!SpacingNext]_(Promise!spacingVars)
  OBVIOUS
<1>1. ASSUME NEW t \in Threads, Enters(t) PROVE Promise!Book(t)
  <2>1. /\ goes'[t] \in Nat /\ slots' = slots \cup {goes'[t]}
        /\ goes' = [goes EXCEPT ![t] = goes'[t]]
        /\ \A s \in slots : s + Interval <= goes'[t]
    BY <1>1, EntersInTurn
  <2>2. step[t] = "enter" /\ step' = [step EXCEPT ![t] = "sleep"] /\ UNCHANGED clock
    BY <1>1 DEF Enters
  <2>3. ThreadHolds' = [ThreadHolds EXCEPT ![t] = {goes'[t]}] /\ ThreadHolds[t] = {}
    <3>1. \A u \in Threads : ThreadHolds'[u] = [ThreadHolds EXCEPT ![t] = {goes'[t]}][u]
      BY <2>1, <2>2 DEF ThreadHolds, LocalInv, LocalTypeOK
    <3>. QED BY <2>2, <3>1 DEF ThreadHolds
  <2>. QED BY <2>1, <2>2, <2>3 DEF Promise!Book, Promise!Apart, ThreadHolds
<1>2. ASSUME NEW t \in Threads, Leaves(t) PROVE Promise!Leave(t)
  <2>1. /\ step[t] = "sleep" /\ goes[t] <= clock /\ step' = [step EXCEPT ![t] = "out"]
        /\ UNCHANGED <<clock, goes, slots>>
    BY <1>2 DEF Leaves
  <2>2. ThreadHolds' = [ThreadHolds EXCEPT ![t] = {}] /\ ThreadHolds[t] = {goes[t]}
    <3>1. \A u \in Threads : ThreadHolds'[u] = [ThreadHolds EXCEPT ![t] = {}][u]
      BY <2>1 DEF ThreadHolds, LocalInv, LocalTypeOK
    <3>. QED BY <2>1, <3>1 DEF ThreadHolds
  <2>. QED BY <2>1, <2>2 DEF Promise!Leave, ThreadHolds
<1>3. CASE Tick
  BY <1>3 DEF Tick, Promise!SpacingNext, Promise!ClockAdvances, LocalInv, LocalTypeOK
<1>4. ASSUME NEW t \in Threads, LooksUp(t) \/ Registers(t) PROVE UNCHANGED <<clock, slots, ThreadHolds>>
  <2>1. \A u \in Threads : step'[u] = "sleep" <=> step[u] = "sleep"
    BY <1>4 DEF LooksUp, Registers, LocalInv, LocalTypeOK
  <2>2. UNCHANGED <<clock, slots, goes>>
    BY <1>4 DEF LooksUp, Registers
  <2>. QED BY <2>1, <2>2 DEF ThreadHolds
<1>5. CASE UNCHANGED localVars
  BY <1>5 DEF localVars, Promise!spacingVars
<1>6. CASE \E t \in Threads : LooksUp(t) \/ Registers(t)
  BY <1>4, <1>6 DEF ThreadHolds, Promise!spacingVars
<1>. QED BY <1>1, <1>2, <1>3, <1>5, <1>6 DEF LocalNext, Promise!SpacingNext

\* Three requests of the process are never within an interval.
LEMMA ThreeAreApart == LocalInv => NoThreeMeet
<1>. SUFFICES ASSUME LocalInv, NEW x \in left, NEW y \in left, NEW z \in left,
                     x.slot < y.slot, y.slot < z.slot
              PROVE  x.at + Interval <= z.at
  BY DEF NoThreeMeet
<1>1. /\ x.at \in Nat /\ y.slot \in slots /\ z.slot \in slots /\ z.at \in Nat
      /\ y.slot \in Nat /\ z.slot \in Nat
  BY DEF LocalInv, LocalTypeOK
<1>2. x.at <= y.slot /\ y.slot + Interval <= z.slot /\ z.slot <= z.at
  BY <1>1 DEF LocalInv, LeftInTurn
<1>. QED BY <1>1, <1>2, IntervalAssumption

\* The in-memory limiter implements the spacing it promises: the slots of the process for
\* one host are never closer than the interval and no request leaves before its slot; and
\* although a thread that wakes late leaves late, no three requests leave within an
\* interval.
THEOREM LocalImplementsSpacing == LocalSpec => LocalIsSpaced
<1>1. LocalInit => Promise!SpacingInit
  BY DEF LocalInit, Promise!SpacingInit
<1>. QED BY <1>1, LocalInvariant, LocalStepRefines, ThreeAreApart, PTL
        DEF LocalSpec, LocalIsSpaced, Promise!SpacingSpec

-----------------------------------------------------------------------------
(***************************************************************************)
(* The Redis rate limiter: the key outlives every slot that was booked, so *)
(* that the slots of all processes keep their distance.                    *)
(***************************************************************************)
\* Who sleeps beyond x.
Later(x) == {c \in Callers : sleeps[c] > x}

\* What is booked is a whole interval before the next slot.  From any moment on, the next
\* slot is no further away than one interval for each process that sleeps beyond that
\* moment and each reply that was lost.  The key outlives its slot, and by then nobody
\* comes with an older reading.
KeyIsAhead ==
    key # NoKey =>
        /\ \A s \in booked : s + Pause <= key.at
        /\ \A x \in Nat : time <= x => key.at <= x + (Cardinality(Later(x)) + repliesLost + 1) * Pause
        /\ key.at + MaxDelay <= key.expires

\* Without a key, what is booked is a whole interval before any reading still accepted.
NoKeyIsSafe == key = NoKey => \A s \in booked : s + Pause + MaxDelay <= time

\* A process asks with a reading of the past, only who got a slot sleeps, and nobody
\* wakes before his slot.
CallersAreInTurn ==
    \A c \in Callers :
        /\ phase[c] # "sleeps" => sleeps[c] = 0
        /\ phase[c] = "asks" => reading[c] <= time
        /\ phase[c] = "sleeps" => due[c] <= sleeps[c]

RedisInv == RedisTypeOK /\ KeyIsAhead /\ NoKeyIsSafe /\ CallersAreInTurn

\* More of them wait longer.
LEMMA MoreIntervals ==
    ASSUME NEW m \in Nat, NEW n \in Nat, m <= n
    PROVE  m * Pause <= n * Pause
<1>1. PICK k \in Nat : n = m + k
    <2>1. n - m \in Nat /\ n = m + (n - m)
        OBVIOUS
    <2> QED
        BY <2>1
<1>2. Pause \in Nat /\ k * Pause \in Nat /\ m * Pause \in Nat
    BY RedisAssumption
<1>3. n * Pause = m * Pause + k * Pause
    BY <1>1, <1>2
<1> QED
    BY <1>2, <1>3

\* No more processes are late than there are.
LEMMA LaterIsFew ==
    ASSUME NEW x
    PROVE  /\ IsFiniteSet(Later(x)) /\ Cardinality(Later(x)) \in Nat
           /\ Cardinality(Callers) \in Nat /\ Cardinality(Later(x)) <= Cardinality(Callers)
<1>1. Later(x) \subseteq Callers /\ IsFiniteSet(Callers)
    BY RedisAssumption DEF Later
<1> QED
    BY <1>1, FS_Subset, FS_CardinalityType

\* The types of the counters and of the key.
LEMMA RedisTyped ==
    ASSUME RedisInv
    PROVE  /\ time \in Nat /\ repliesLost \in Nat /\ Pause \in Nat /\ Pause > 0
           /\ KeyTTL \in Nat /\ MaxDelay \in Nat /\ booked \subseteq Nat
           /\ key # NoKey => key.at \in Nat /\ key.expires \in Nat /\ key \in [at : Nat, expires : Nat]
<1>1. /\ time \in Nat /\ repliesLost \in Nat /\ Pause \in Nat /\ Pause > 0
      /\ KeyTTL \in Nat /\ MaxDelay \in Nat /\ booked \subseteq Nat
      /\ key # NoKey => key \in [at : Nat, expires : Nat]
    BY RedisAssumption DEF RedisInv, RedisTypeOK
<1> QED
    BY <1>1

\* The slot given to a process that asks in time is a whole interval behind every other,
\* although its reading of the clock may be old.
LEMMA SlotIsNew ==
    ASSUME RedisInv, NEW c \in Callers, Asked(c)
    PROVE  /\ reading[c] \in Nat /\ Slot(c) \in Nat /\ reading[c] <= Slot(c) /\ reading[c] <= time
           /\ key # NoKey => key.at <= Slot(c)
           /\ \A s \in booked : s \in Nat /\ s + Pause <= Slot(c)
           /\ sleeps[c] = 0
<1>1. /\ time \in Nat /\ Pause \in Nat /\ MaxDelay \in Nat /\ booked \subseteq Nat
      /\ key # NoKey => key.at \in Nat
    BY RedisTyped
<1>2. reading[c] \in Nat /\ reading[c] <= time /\ time <= reading[c] + MaxDelay /\ sleeps[c] = 0
    BY DEF Asked, RedisInv, RedisTypeOK, CallersAreInTurn
<1>3. Slot(c) \in Nat /\ reading[c] <= Slot(c) /\ (key # NoKey => key.at <= Slot(c))
    BY <1>1, <1>2 DEF Slot
<1>4. ASSUME NEW s \in booked PROVE s \in Nat /\ s + Pause <= Slot(c)
    <2>1. CASE key = NoKey
        <3>1. s \in Nat /\ s + Pause + MaxDelay <= time
            BY <1>1, <2>1 DEF RedisInv, NoKeyIsSafe
        <3> QED
            BY <1>1, <1>2, <1>3, <3>1
    <2>2. CASE key # NoKey
        <3>1. s \in Nat /\ s + Pause <= key.at
            BY <1>1, <2>2 DEF RedisInv, KeyIsAhead
        <3> QED
            BY <1>1, <1>3, <2>2, <3>1
    <2> QED
        BY <2>1, <2>2
<1> QED
    BY <1>2, <1>3, <1>4

\* The script books the next slot and the key outlives it, if the wait it books is paid
\* for: by a process that sleeps until then or longer, or by a reply that is lost.
LEMMA ScriptKeepsAhead ==
    ASSUME RedisInv, NEW c \in Callers, Asked(c), ScriptRuns(c), time' = time,
           booked' \subseteq booked \cup {Slot(c)}, repliesLost' \in 0..MaxRepliesLost,
           sleeps' \in [Callers -> Nat],
           \A d \in Callers \ {c} : sleeps'[d] = sleeps[d],
           \/ sleeps'[c] >= Slot(c) /\ repliesLost' = repliesLost
           \/ repliesLost' = repliesLost + 1
    PROVE  KeyIsAhead' /\ NoKeyIsSafe' /\ key' \in [at : Nat, expires : Nat]
<1>1. /\ time \in Nat /\ repliesLost \in Nat /\ Pause \in Nat /\ KeyTTL \in Nat
      /\ MaxDelay \in Nat /\ booked \subseteq Nat
      /\ key # NoKey => key.at \in Nat
    BY RedisTyped
<1>0. PICK next \in Nat : next = Slot(c)
    BY SlotIsNew
<1>2. /\ reading[c] <= time /\ reading[c] \in Nat /\ sleeps[c] = 0
      /\ \A s \in booked : s \in Nat /\ s + Pause <= next
    BY <1>0, SlotIsNew
<1>3. /\ key' = [at |-> next + Pause, expires |-> time + KeyTTL]
      /\ key' \in [at : Nat, expires : Nat] /\ key' # NoKey
      /\ key'.at = next + Pause /\ key'.expires = time + KeyTTL
    BY <1>0, <1>1, RedisAssumption DEF ScriptRuns
<1>4. sleeps \in [Callers -> Nat]
    BY DEF RedisInv, RedisTypeOK
<1>5. \A s \in booked' : s + Pause <= key'.at
    BY <1>0, <1>1, <1>2, <1>3
<1>6. ASSUME NEW x \in Nat, time <= x
      PROVE  next + Pause <= x + (Cardinality(Later(x)') + repliesLost' + 1) * Pause
    <2>1. PICK n \in Nat : n = Cardinality(Later(x))
        BY LaterIsFew
    <2>2. IsFiniteSet(Later(x)) /\ c \notin Later(x)
        BY <1>1, <1>2, <1>6, LaterIsFew DEF Later
    <2>3. Later(x) \subseteq Later(x)' /\ Later(x)' \subseteq Callers /\ IsFiniteSet(Later(x)')
        <3>1. Later(x) \subseteq Later(x)' /\ Later(x)' \subseteq Callers
            BY <2>2 DEF Later
        <3> QED
            BY <3>1, RedisAssumption, FS_Subset
    <2>4. PICK m \in Nat : m = Cardinality(Later(x)') /\ n <= m
        BY <2>1, <2>3, FS_Subset, FS_CardinalityType
    <2>5. PICK l \in Nat : l = repliesLost'
        BY RedisAssumption
    <2>6. CASE next <= x
        <3>1. 1 * Pause <= (m + l + 1) * Pause
            BY MoreIntervals
        <3>2. (m + l + 1) * Pause \in Nat
            BY <1>1
        <3> QED
            BY <1>1, <2>4, <2>5, <2>6, <3>1, <3>2
    <2>7. CASE x < next
        <3>1. key # NoKey /\ next = key.at
            BY <1>0, <1>1, <1>2, <1>6, <2>7 DEF Slot
        <3>2. next <= x + (n + repliesLost + 1) * Pause
            BY <1>6, <2>1, <3>1 DEF RedisInv, KeyIsAhead
        <3>3. n + repliesLost + 1 <= m + l
            <4>1. CASE sleeps'[c] >= Slot(c) /\ repliesLost' = repliesLost
                <5>1. Later(x) \cup {c} \subseteq Later(x)'
                    <6>1. sleeps'[c] \in Nat /\ sleeps'[c] > x
                        BY <1>0, <2>7, <4>1
                    <6> QED
                        BY <2>3, <6>1 DEF Later
                <5>2. Cardinality(Later(x) \cup {c}) = n + 1
                    BY <2>1, <2>2, FS_AddElement
                <5>3. n + 1 <= m
                    BY <2>3, <2>4, <5>1, <5>2, FS_Subset
                <5> QED
                    BY <1>1, <2>5, <4>1, <5>3
            <4>2. CASE repliesLost' = repliesLost + 1
                BY <1>1, <2>4, <2>5, <4>2
            <4> QED
                BY <4>1, <4>2
        <3>4. (n + repliesLost + 1) * Pause <= (m + l) * Pause
            BY <1>1, <3>3, MoreIntervals
        <3>5. /\ (m + l + 1) * Pause = (m + l) * Pause + Pause
              /\ (m + l) * Pause \in Nat /\ (n + repliesLost + 1) * Pause \in Nat
            BY <1>1
        <3> QED
            BY <1>1, <2>4, <2>5, <3>2, <3>4, <3>5
    <2> QED
        BY <1>1, <2>6, <2>7
<1>7. key'.at + MaxDelay <= key'.expires
    <2>1. PICK m \in Nat : m = Cardinality(Later(time)') /\ m <= Cardinality(Callers)
        <3>1. Later(time)' \subseteq Callers /\ IsFiniteSet(Callers)
            BY RedisAssumption DEF Later
        <3> QED
            BY <3>1, FS_Subset, FS_CardinalityType
    <2>2. PICK l \in Nat : l = repliesLost' /\ l <= MaxRepliesLost
        BY RedisAssumption
    <2>3. next + Pause <= time + (m + l + 1) * Pause
        BY <1>1, <1>6, <2>1, <2>2
    <2>4. PICK k \in Nat : k = Cardinality(Callers)
        BY RedisAssumption, FS_CardinalityType
    <2>5. (m + l + 1) * Pause <= (k + MaxRepliesLost + 1) * Pause
        BY <2>1, <2>2, <2>4, MoreIntervals, RedisAssumption
    <2>6. (m + l + 1) * Pause \in Nat /\ (k + MaxRepliesLost + 1) * Pause \in Nat
        BY <1>1, RedisAssumption
    <2>7. (k + MaxRepliesLost + 1) * Pause + MaxDelay <= KeyTTL
        BY <2>4, TTLAssumption
    <2> QED
        BY <1>1, <1>3, <2>3, <2>5, <2>6, <2>7
<1>8. KeyIsAhead'
    BY <1>3, <1>5, <1>6, <1>7 DEF KeyIsAhead
<1> QED
    BY <1>3, <1>8 DEF NoKeyIsSafe

\* Who leaves acquire on time, or without a next, changes nothing of that.
LEMMA OutKeepsAhead ==
    ASSUME RedisInv, NEW c \in Callers, sleeps[c] <= time, Out(c),
           UNCHANGED <<time, key, booked, repliesLost>>
    PROVE  RedisInv'
<1>1. time \in Nat /\ sleeps \in [Callers -> Nat]
    BY RedisTyped DEF RedisInv, RedisTypeOK
<1>2. RedisTypeOK'
    BY DEF Out, RedisInv, RedisTypeOK
<1>3. \A x \in Nat : time <= x => Later(x)' = Later(x)
    <2> SUFFICES ASSUME NEW x \in Nat, time <= x, NEW d \in Callers
                 PROVE  sleeps'[d] > x <=> sleeps[d] > x
        BY DEF Later
    <2>1. CASE d = c
        BY <1>1, <2>1 DEF Out
    <2>2. CASE d # c
        BY <1>1, <2>2 DEF Out
    <2> QED
        BY <2>1, <2>2
<1>4. KeyIsAhead' /\ NoKeyIsSafe'
    BY <1>3 DEF RedisInv, KeyIsAhead, NoKeyIsSafe
<1>5. CallersAreInTurn'
    BY DEF Out, RedisInv, RedisTypeOK, CallersAreInTurn
<1> QED
    BY <1>2, <1>4, <1>5 DEF RedisInv

\* Every step keeps it.
LEMMA RedisStep == RedisInv /\ [RedisNext]_redisVars => RedisInv'
<1> SUFFICES ASSUME RedisInv, [RedisNext]_redisVars PROVE RedisInv'
    OBVIOUS
<1>1. /\ time \in Nat /\ repliesLost \in Nat /\ booked \subseteq Nat
      /\ Pause \in Nat /\ MaxDelay \in Nat
      /\ key # NoKey => key.at \in Nat /\ key.expires \in Nat /\ key \in [at : Nat, expires : Nat]
    BY RedisTyped
<1>2. CASE TimePasses
    <2>1. /\ time' = time + 1 /\ time' \in 0..LastTick
          /\ UNCHANGED <<phase, reading, due, sleeps, booked, repliesLost>>
        BY <1>1, <1>2, RedisAssumption DEF TimePasses, callerVars
    <2>2. CallersAreInTurn'
        BY <1>1, <2>1 DEF RedisInv, RedisTypeOK, CallersAreInTurn
    <2>3. CASE key # NoKey /\ key.expires <= time'
        <3>1. key' = NoKey
            BY <1>2, <2>3 DEF TimePasses
        <3>2. \A s \in booked : s + Pause + MaxDelay <= time'
            BY <1>1, <2>1, <2>3 DEF RedisInv, KeyIsAhead
        <3> QED
            BY <2>1, <2>2, <3>1, <3>2 DEF RedisInv, RedisTypeOK, KeyIsAhead, NoKeyIsSafe
    <2>4. CASE ~(key # NoKey /\ key.expires <= time')
        <3>1. key' = key
            BY <1>2, <2>4 DEF TimePasses
        <3>2. \A x : Later(x)' = Later(x)
            BY <2>1 DEF Later
        <3>3. KeyIsAhead'
            BY <1>1, <2>1, <3>1, <3>2 DEF RedisInv, KeyIsAhead
        <3>4. NoKeyIsSafe'
            BY <1>1, <2>1, <3>1 DEF RedisInv, NoKeyIsSafe
        <3> QED
            BY <2>1, <2>2, <3>1, <3>3, <3>4 DEF RedisInv, RedisTypeOK
    <2> QED
        BY <2>3, <2>4
<1>3. ASSUME NEW c \in Callers, ReadsClock(c) PROVE RedisInv'
    <2>1. /\ phase' = [phase EXCEPT ![c] = "asks"] /\ reading' = [reading EXCEPT ![c] = time]
          /\ UNCHANGED <<time, key, due, sleeps, booked, repliesLost>> /\ phase[c] = "out"
        BY <1>3 DEF ReadsClock
    <2>2. RedisTypeOK'
        BY <1>1, <2>1 DEF RedisInv, RedisTypeOK
    <2>3. CallersAreInTurn'
        BY <1>1, <2>1 DEF RedisInv, RedisTypeOK, CallersAreInTurn
    <2>4. \A x : Later(x)' = Later(x)
        BY <2>1 DEF Later
    <2> QED
        BY <2>1, <2>2, <2>3, <2>4 DEF RedisInv, KeyIsAhead, NoKeyIsSafe
<1>4. ASSUME NEW c \in Callers, GetsSlot(c) PROVE RedisInv'
    <2>1. /\ reading[c] \in Nat /\ Slot(c) \in Nat /\ reading[c] <= Slot(c) /\ reading[c] <= time
        BY <1>4, SlotIsNew DEF GetsSlot
    <2>2. PICK till \in Nat : till = time + (Slot(c) - reading[c]) /\ till >= Slot(c)
        BY <1>1, <2>1
    <2>3. /\ phase' = [phase EXCEPT ![c] = "sleeps"] /\ reading' = [reading EXCEPT ![c] = 0]
          /\ due' = [due EXCEPT ![c] = Slot(c)] /\ sleeps' = [sleeps EXCEPT ![c] = till]
          /\ booked' = booked \cup {Slot(c)} /\ UNCHANGED <<time, repliesLost>>
          /\ Asked(c) /\ ScriptRuns(c)
        BY <1>4, <2>2 DEF GetsSlot
    <2>4. /\ sleeps' \in [Callers -> Nat] /\ sleeps'[c] = till
          /\ \A d \in Callers \ {c} : sleeps'[d] = sleeps[d]
          /\ repliesLost' \in 0..MaxRepliesLost
        BY <2>3 DEF RedisInv, RedisTypeOK
    <2>5. KeyIsAhead' /\ NoKeyIsSafe' /\ key' \in [at : Nat, expires : Nat]
        BY <2>2, <2>3, <2>4, ScriptKeepsAhead
    <2>6. RedisTypeOK'
        BY <2>1, <2>3, <2>4, <2>5 DEF RedisInv, RedisTypeOK
    <2>7. CallersAreInTurn'
        BY <2>1, <2>2, <2>3 DEF RedisInv, RedisTypeOK, CallersAreInTurn
    <2> QED
        BY <2>5, <2>6, <2>7 DEF RedisInv
<1>5. ASSUME NEW c \in Callers, Wakes(c) PROVE RedisInv'
    BY <1>5, OutKeepsAhead DEF Wakes
<1>6. ASSUME NEW c \in Callers, ReplyIsLost(c) PROVE RedisInv'
    <2>1. repliesLost' \in 0..MaxRepliesLost /\ repliesLost' = repliesLost + 1
        BY <1>1, <1>6, RedisAssumption DEF ReplyIsLost
    <2>2. /\ phase' = [phase EXCEPT ![c] = "out"] /\ reading' = [reading EXCEPT ![c] = 0]
          /\ due' = [due EXCEPT ![c] = 0] /\ sleeps' = [sleeps EXCEPT ![c] = 0]
          /\ UNCHANGED <<time, booked>> /\ Asked(c) /\ ScriptRuns(c)
        BY <1>6 DEF ReplyIsLost, Out
    <2>3. /\ sleeps' \in [Callers -> Nat]
          /\ \A d \in Callers \ {c} : sleeps'[d] = sleeps[d]
        BY <2>2 DEF RedisInv, RedisTypeOK
    <2>4. KeyIsAhead' /\ NoKeyIsSafe' /\ key' \in [at : Nat, expires : Nat]
        BY <2>1, <2>2, <2>3, ScriptKeepsAhead
    <2>5. RedisTypeOK'
        BY <2>1, <2>2, <2>3, <2>4 DEF RedisInv, RedisTypeOK
    <2>6. CallersAreInTurn'
        BY <2>2 DEF RedisInv, RedisTypeOK, CallersAreInTurn
    <2> QED
        BY <2>4, <2>5, <2>6 DEF RedisInv
<1>7. ASSUME NEW c \in Callers, RedisFails(c) PROVE RedisInv'
    <2>1. sleeps[c] <= time
        BY <1>1, <1>7 DEF RedisFails, RedisInv, CallersAreInTurn
    <2> QED
        BY <1>7, <2>1, OutKeepsAhead DEF RedisFails
<1>8. CASE UNCHANGED redisVars
    <2>1. \A x : Later(x)' = Later(x)
        BY <1>8 DEF redisVars, callerVars, Later
    <2> QED
        BY <1>8, <2>1 DEF redisVars, callerVars, RedisInv, RedisTypeOK, KeyIsAhead,
                          NoKeyIsSafe, CallersAreInTurn
<1> QED
    BY <1>2, <1>3, <1>4, <1>5, <1>6, <1>7, <1>8 DEF RedisNext

\* The invariant holds in every reachable state.
LEMMA RedisInvariant == RedisSpec => []RedisInv
<1>1. RedisInit => RedisInv
    BY RedisAssumption DEF RedisInit, RedisInv, RedisTypeOK, KeyIsAhead, NoKeyIsSafe, CallersAreInTurn
<1> QED
    BY <1>1, RedisStep, PTL DEF RedisSpec

\* The slot each process waits for, as the abstract limiter sees it.
WaitsFor == [c \in Callers |-> IF phase[c] = "sleeps" THEN {due[c]} ELSE {}]

\* The refinement: a reply books a slot, waking up leaves; the rest is not seen.
LEMMA RedisStepRefines ==
    RedisInv /\ [RedisNext]_redisVars => [Shared!SpacingNext]_(Shared!spacingVars)
<1> SUFFICES ASSUME RedisInv, [RedisNext]_redisVars
             PROVE  [Shared!SpacingNext]_(Shared!spacingVars)
    OBVIOUS
<1>1. ASSUME NEW c \in Callers, GetsSlot(c) PROVE Shared!Book(c)
    <2>1. Slot(c) \in Nat /\ \A s \in booked : s + Pause <= Slot(c)
        BY <1>1, SlotIsNew DEF GetsSlot
    <2>2. /\ phase[c] = "asks" /\ phase' = [phase EXCEPT ![c] = "sleeps"]
          /\ due' = [due EXCEPT ![c] = Slot(c)]
          /\ booked' = booked \cup {Slot(c)} /\ UNCHANGED time
        BY <1>1 DEF GetsSlot, Asked
    <2>3. WaitsFor' = [WaitsFor EXCEPT ![c] = {Slot(c)}] /\ WaitsFor[c] = {}
        <3>1. \A d \in Callers : WaitsFor'[d] = [WaitsFor EXCEPT ![c] = {Slot(c)}][d]
            BY <2>2 DEF WaitsFor, RedisInv, RedisTypeOK
        <3> QED
            BY <2>2, <3>1 DEF WaitsFor
    <2> QED
        BY <2>1, <2>2, <2>3 DEF Shared!Book, Shared!Apart, WaitsFor
<1>2. ASSUME NEW c \in Callers, Wakes(c) PROVE Shared!Leave(c)
    <2>1. due[c] <= time
        <3>1. due[c] <= sleeps[c] /\ sleeps[c] <= time
            BY <1>2 DEF Wakes, RedisInv, CallersAreInTurn
        <3> QED
            BY <3>1, RedisTyped DEF RedisInv, RedisTypeOK
    <2>2. /\ phase[c] = "sleeps" /\ phase' = [phase EXCEPT ![c] = "out"]
          /\ due' = [due EXCEPT ![c] = 0] /\ UNCHANGED <<time, booked>>
        BY <1>2 DEF Wakes, Out
    <2>3. WaitsFor' = [WaitsFor EXCEPT ![c] = {}] /\ WaitsFor[c] = {due[c]}
        <3>1. \A d \in Callers : WaitsFor'[d] = [WaitsFor EXCEPT ![c] = {}][d]
            BY <2>2 DEF WaitsFor, RedisInv, RedisTypeOK
        <3> QED
            BY <2>2, <3>1 DEF WaitsFor
    <2> QED
        BY <2>1, <2>2, <2>3 DEF Shared!Leave, WaitsFor
<1>3. CASE TimePasses
    BY <1>3, RedisTyped DEF TimePasses, callerVars, Shared!SpacingNext, Shared!ClockAdvances
<1>4. ASSUME NEW c \in Callers, ReadsClock(c) \/ ReplyIsLost(c) \/ RedisFails(c)
      PROVE  UNCHANGED <<time, booked, WaitsFor>>
    <2>1. /\ UNCHANGED <<time, booked>>
          /\ phase[c] # "sleeps" /\ phase' = [phase EXCEPT ![c] = phase'[c]] /\ phase'[c] # "sleeps"
          /\ \A d \in Callers \ {c} : due'[d] = due[d]
        BY <1>4 DEF ReadsClock, ReplyIsLost, RedisFails, Asked, Out, RedisInv, RedisTypeOK
    <2>2. \A d \in Callers : WaitsFor'[d] = WaitsFor[d]
        BY <2>1 DEF WaitsFor, RedisInv, RedisTypeOK
    <2> QED
        BY <2>1, <2>2 DEF WaitsFor
<1>5. CASE UNCHANGED redisVars
    BY <1>5 DEF redisVars, callerVars, Shared!spacingVars
<1>6. CASE \E c \in Callers : ReadsClock(c) \/ ReplyIsLost(c) \/ RedisFails(c)
    BY <1>4, <1>6 DEF WaitsFor, Shared!spacingVars
<1> QED
    BY <1>1, <1>2, <1>3, <1>5, <1>6 DEF RedisNext, Shared!SpacingNext

\* The Redis limiter implements the spacing it promises, for any number of processes, any
\* interval and readings of the clock up to MaxDelay old, as long as the key's time to live
\* covers one interval for every process, every reply lost and one more, and that age: no two
\* slots are closer than the interval, and who is given one does not leave before it.
THEOREM RedisImplementsSpacing == RedisSpec => RedisIsSpaced
<1>1. RedisInit => Shared!SpacingInit
    BY DEF RedisInit, Shared!SpacingInit
<1> QED
    BY <1>1, RedisInvariant, RedisStepRefines, PTL DEF RedisSpec, RedisIsSpaced, Shared!SpacingSpec

-----------------------------------------------------------------------------
(***************************************************************************)
(* Newsletter: nobody is active who did not ask for it or has left since,  *)
(* and a quiet delivery is whole.                                          *)
(***************************************************************************)
-----------------------------------------------------------------------------
\* The types of what subscribing is about.
PeopleTypeOK ==
    /\ status \in [Subscribers -> Statuses]
    /\ confirming \subseteq Subscribers
    /\ rendered \in [Subscribers -> Statuses \cup {"closed"}]
    /\ consent \in [Subscribers -> BOOLEAN]
    /\ overtaken \in [Subscribers -> BOOLEAN]

\* Whoever a confirmation or a form may still make active asked for it, or has left since.
SavesAreCovered ==
    \A s \in Subscribers :
        s \in confirming \/ rendered[s] = "active" => consent[s] \/ overtaken[s]

PeopleInv == PeopleTypeOK /\ ActiveMeansConsent /\ SavesAreCovered

\* A write of one row changes no other status.
LEMMA WriteOne ==
  ASSUME PeopleTypeOK, NEW s \in Subscribers, NEW to \in Statuses, Writes(s, to)
  PROVE  /\ status' \in [Subscribers -> Statuses]
         /\ status'[s] = to
         /\ \A x \in Subscribers \ {s} : status'[x] = status[x]
  BY DEF PeopleTypeOK, Writes

\* A wish of one subscriber is no other's; if he leaves, what may still make him active is
\* on record.
LEMMA WishOfOne ==
  ASSUME PeopleTypeOK, NEW s \in Subscribers, NEW wish \in BOOLEAN, Wants(s, wish)
  PROVE  /\ consent' \in [Subscribers -> BOOLEAN] /\ overtaken' \in [Subscribers -> BOOLEAN]
         /\ consent'[s] <=> wish
         /\ s \in confirming \/ rendered'[s] = "active" => consent'[s] \/ overtaken'[s]
         /\ \A x \in Subscribers \ {s} : /\ consent'[x] <=> consent[x]
                                         /\ overtaken'[x] <=> overtaken[x]
  BY DEF PeopleTypeOK, Wants

\* It holds before anybody has subscribed.
LEMMA PeopleInitially == NewsInit => PeopleInv
  BY DEF NewsInit, PeopleInv, PeopleTypeOK, ActiveMeansConsent, SavesAreCovered, Statuses

\* A row is written with a status that does not make its subscriber active unless that is
\* covered, and what he asked for is not touched.
LEMMA HarmlessWrite ==
  ASSUME PeopleInv, NEW s \in Subscribers, NEW to \in Statuses, Writes(s, to),
         to = "active" => consent[s] \/ overtaken[s],
         UNCHANGED <<consent, overtaken>>, confirming' \subseteq confirming,
         rendered' \in [Subscribers -> Statuses \cup {"closed"}],
         \A x \in Subscribers : rendered'[x] \in {rendered[x], "closed"}
  PROVE  PeopleInv'
  BY WriteOne DEF PeopleInv, PeopleTypeOK, ActiveMeansConsent, SavesAreCovered

\* A row is written as its subscriber wants, or an editor for him.
LEMMA WrittenAsWanted ==
  ASSUME PeopleInv, NEW s \in Subscribers, NEW to \in Statuses, NEW wish \in BOOLEAN,
         Writes(s, to), Wants(s, wish), to = "active" => wish,
         UNCHANGED confirming,
         rendered' \in [Subscribers -> Statuses \cup {"closed"}],
         \A x \in Subscribers : rendered'[x] \in {rendered[x], "closed"}
  PROVE  PeopleInv'
<1>1. PeopleTypeOK
  BY DEF PeopleInv
<1>2. PeopleTypeOK'
  BY <1>1, WriteOne, WishOfOne DEF PeopleTypeOK
<1>3. ActiveMeansConsent'
  BY <1>1, WriteOne, WishOfOne DEF PeopleInv, ActiveMeansConsent
<1>4. SavesAreCovered'
  BY <1>1, WishOfOne DEF PeopleInv, SavesAreCovered
<1> QED
  BY <1>2, <1>3, <1>4 DEF PeopleInv

\* Each step of subscribers and admins keeps it.
LEMMA PeopleStep ==
  ASSUME PeopleInv, NEW s \in Subscribers,
         \/ Subscribes(s) \/ ConfirmReads(s) \/ ConfirmSaves(s)
         \/ Unsubscribes(s) \/ Activates(s) \/ FormOpens(s) \/ FormSaves(s)
  PROVE  PeopleInv'
<1>0. /\ {"none", "pending", "active", "unsubscribed"} = Statuses
      /\ rendered \in [Subscribers -> Statuses \cup {"closed"}]
  BY DEF Statuses, PeopleInv, PeopleTypeOK
<1>1. CASE Subscribes(s)
  BY <1>0, <1>1, HarmlessWrite DEF Subscribes
<1>2. CASE ConfirmReads(s)
  <2>1. /\ consent' = [consent EXCEPT ![s] = TRUE] /\ overtaken' = [overtaken EXCEPT ![s] = FALSE]
        /\ confirming = {} /\ confirming' = {s} /\ UNCHANGED <<status, rendered>>
    BY <1>2 DEF ConfirmReads, NoVisit
  <2> QED
    BY <2>1 DEF PeopleInv, PeopleTypeOK, ActiveMeansConsent, SavesAreCovered
<1>3. CASE ConfirmSaves(s)
  <2>1. consent[s] \/ overtaken[s]
    BY <1>3 DEF ConfirmSaves, PeopleInv, SavesAreCovered
  <2> QED
    BY <1>0, <1>3, <2>1, HarmlessWrite DEF ConfirmSaves
<1>4. CASE Unsubscribes(s)
  BY <1>0, <1>4, WrittenAsWanted DEF Unsubscribes
<1>5. CASE Activates(s)
  BY <1>0, <1>5, WrittenAsWanted DEF Activates
<1>6. CASE FormOpens(s)
  <2>1. /\ rendered' = [x \in Subscribers |-> IF x = s THEN status[s] ELSE "closed"]
        /\ UNCHANGED <<status, confirming, consent, overtaken>>
    BY <1>6 DEF FormOpens
  <2> QED
    BY <2>1 DEF PeopleInv, PeopleTypeOK, ActiveMeansConsent, SavesAreCovered
<1>7. CASE FormSaves(s)
  <2>1. PICK chosen \in Statuses :
           /\ Writes(s, chosen)
           /\ IF chosen = rendered[s] THEN UNCHANGED <<consent, overtaken>>
              ELSE Wants(s, chosen = "active")
    BY <1>7 DEF FormSaves
  <2>2. rendered' = [rendered EXCEPT ![s] = "closed"] /\ UNCHANGED confirming
    BY <1>7 DEF FormSaves
  <2>3. /\ rendered' \in [Subscribers -> Statuses \cup {"closed"}]
        /\ \A x \in Subscribers : rendered'[x] \in {rendered[x], "closed"}
    BY <1>0, <2>2
  <2>4. CASE chosen = rendered[s]
    <3>1. chosen = "active" => consent[s] \/ overtaken[s]
      BY <2>4 DEF PeopleInv, SavesAreCovered
    <3> QED
      BY <2>1, <2>2, <2>3, <2>4, <3>1, HarmlessWrite
  <2>5. CASE chosen # rendered[s]
    BY <2>1, <2>2, <2>3, <2>5, WrittenAsWanted
  <2> QED
    BY <2>4, <2>5
<1> QED
  BY <1>1, <1>2, <1>3, <1>4, <1>5, <1>6, <1>7

\* Every step keeps it; a delivery does not touch a subscriber.
LEMMA PeopleNext == PeopleInv /\ [NewsNext]_newsVars => PeopleInv'
<1> SUFFICES ASSUME PeopleInv, [NewsNext]_newsVars PROVE PeopleInv'
  OBVIOUS
<1>1. CASE UNCHANGED peopleVars
  BY <1>1 DEF peopleVars, PeopleInv, PeopleTypeOK, ActiveMeansConsent, SavesAreCovered
<1>2. CASE IssueIsSet
  BY <1>1, <1>2 DEF IssueIsSet
<1>3. ASSUME NEW d \in Sends,
             SendBegins(d) \/ SendLoads(d) \/ SendMails(d) \/ SendEnds(d) \/ SendDies(d)
      PROVE  PeopleInv'
  BY <1>1, <1>3 DEF SendBegins, SendLoads, SendMails, SendEnds, SendDies
<1>4. CASE UNCHANGED newsVars
  BY <1>1, <1>4 DEF newsVars
<1> QED
  BY <1>2, <1>3, <1>4, PeopleStep DEF NewsNext

\* Double opt-in, whatever subscribers, editors and deliveries do, and however old the
\* links and the forms are: who is active asked for it and has not left since, unless he
\* left while his confirmation or a form that shows him as active was still to be saved.
THEOREM ConsentCorrect == NewsSpec => []ActiveMeansConsent
<1>1. PeopleInv => ActiveMeansConsent
  BY DEF PeopleInv
<1> QED
  BY <1>1, PeopleInitially, PeopleNext, PTL DEF NewsSpec

-----------------------------------------------------------------------------
(* Types                                                                   *)

\* There are finitely many active subscribers.
LEMMA ActiveAreFew ==
    /\ Active \subseteq Subscribers /\ IsFiniteSet(Active) /\ Cardinality(Active) \in Nat
    /\ BatchSize \in Nat /\ BatchSize > 0
<1>1. Active \subseteq Subscribers /\ IsFiniteSet(Subscribers)
    BY NewsletterAssumption DEF Active
<1> QED
    BY <1>1, FS_Subset, FS_CardinalityType, NewsletterAssumption

\* What a delivery that runs has in hand.
LEMMA RunningTyped ==
    ASSUME NewsTypeOK, NEW d \in Sends, Running(d)
    PROVE  /\ send[d] \in Sending /\ send[d].offset \in Nat /\ send[d].total \in Nat
           /\ send[d].sent \in Nat /\ send[d].batch \subseteq Subscribers
           /\ IsFiniteSet(send[d].batch) /\ Cardinality(send[d].batch) \in Nat
<1>1. send[d] \in Sending
    BY DEF NewsTypeOK, Running
<1>2. /\ send[d].offset \in Nat /\ send[d].total \in Nat /\ send[d].sent \in Nat
      /\ send[d].batch \subseteq Subscribers
    BY <1>1 DEF Sending
<1> QED
    BY <1>1, <1>2, NewsletterAssumption, FS_Subset, FS_CardinalityType

\* The slice of a batch, and what a delivery has in hand with it.
LEMMA LoadsASlice ==
    ASSUME NewsTypeOK, NEW d \in Sends, SendLoads(d)
    PROVE  \E slice \in Slices(send[d].offset, BatchSize) :
              /\ slice \subseteq Active
              /\ send'[d] \in Sending
              /\ send'[d].offset = send[d].offset + BatchSize /\ send'[d].batch = slice
              /\ send'[d].total = send[d].total /\ send'[d].sent = send[d].sent
              /\ send' = [send EXCEPT ![d] = send'[d]]
<1>1. PICK slice \in Slices(send[d].offset, BatchSize) :
         send' = [send EXCEPT ![d] = [send[d] EXCEPT !.offset = @ + BatchSize, !.batch = slice]]
    BY DEF SendLoads
<1>2. /\ send[d] \in Sending /\ send[d].offset \in Nat /\ BatchSize \in Nat
      /\ send \in [Sends -> Sending \cup {NotSending}]
    BY RunningTyped, ActiveAreFew DEF SendLoads, NewsTypeOK
<1>3. slice \subseteq Active /\ slice \subseteq Subscribers
    BY ActiveAreFew DEF Slices
<1> DEFINE v == [send[d] EXCEPT !.offset = @ + BatchSize]
           q == [v EXCEPT !.batch = slice]
<1>4. send' = [send EXCEPT ![d] = q] /\ send'[d] = q
    BY <1>1, <1>2
<1>5. /\ v \in Sending /\ v.offset = send[d].offset + BatchSize
      /\ v.total = send[d].total /\ v.sent = send[d].sent
    BY <1>2 DEF Sending
<1> HIDE DEF v
<1>6. /\ q \in Sending /\ q.offset = send[d].offset + BatchSize /\ q.batch = slice
      /\ q.total = send[d].total /\ q.sent = send[d].sent
    BY <1>3, <1>5 DEF Sending
<1> HIDE DEF q
<1> QED
    BY <1>3, <1>4, <1>6

\* One of the batch is mailed, or his mail fails.
LEMMA MailsOne ==
    ASSUME NewsTypeOK, NEW d \in Sends, SendMails(d)
    PROVE  \E s \in send[d].batch :
              /\ s \in Subscribers /\ send'[d] \in Sending
              /\ send'[d].offset = send[d].offset /\ send'[d].batch = send[d].batch \ {s}
              /\ send'[d].total = send[d].total
              /\ send' = [send EXCEPT ![d] = send'[d]]
              /\ \/ /\ mails' = [mails EXCEPT ![s] = @ + 1] /\ send'[d].sent = send[d].sent + 1
                    /\ UNCHANGED quiet
                 \/ mails' = mails /\ ~quiet' /\ quiet' \in BOOLEAN
<1>1. PICK s \in send[d].batch :
          \/ /\ mails' = [mails EXCEPT ![s] = @ + 1]
             /\ send' = [send EXCEPT ![d] = [send[d] EXCEPT !.batch = @ \ {s}, !.sent = @ + 1]]
             /\ UNCHANGED quiet
          \/ /\ send' = [send EXCEPT ![d] = [send[d] EXCEPT !.batch = @ \ {s}]]
             /\ quiet' = FALSE
             /\ UNCHANGED mails
    BY DEF SendMails
<1>2. /\ send[d] \in Sending /\ send[d].sent \in Nat /\ send[d].batch \subseteq Subscribers
      /\ send \in [Sends -> Sending \cup {NotSending}]
    BY RunningTyped DEF SendMails, NewsTypeOK
<1>3. s \in Subscribers
    BY <1>2
<1>4. CASE /\ mails' = [mails EXCEPT ![s] = @ + 1]
           /\ send' = [send EXCEPT ![d] = [send[d] EXCEPT !.batch = @ \ {s}, !.sent = @ + 1]]
           /\ UNCHANGED quiet
    <2> DEFINE v == [send[d] EXCEPT !.batch = @ \ {s}]
               q == [v EXCEPT !.sent = @ + 1]
    <2>1. send' = [send EXCEPT ![d] = q] /\ send'[d] = q
        BY <1>2, <1>4
    <2>2. /\ v \in Sending /\ v.offset = send[d].offset /\ v.batch = send[d].batch \ {s}
          /\ v.total = send[d].total /\ v.sent = send[d].sent
        BY <1>2 DEF Sending
    <2> HIDE DEF v
    <2>3. /\ q \in Sending /\ q.offset = send[d].offset /\ q.batch = send[d].batch \ {s}
          /\ q.total = send[d].total /\ q.sent = send[d].sent + 1
        BY <1>2, <2>2 DEF Sending
    <2> HIDE DEF q
    <2> QED
        BY <1>3, <1>4, <2>1, <2>3
<1>5. CASE /\ send' = [send EXCEPT ![d] = [send[d] EXCEPT !.batch = @ \ {s}]]
           /\ quiet' = FALSE
           /\ UNCHANGED mails
    <2> DEFINE q == [send[d] EXCEPT !.batch = @ \ {s}]
    <2>1. send' = [send EXCEPT ![d] = q] /\ send'[d] = q
        BY <1>2, <1>5
    <2>2. /\ q \in Sending /\ q.offset = send[d].offset /\ q.batch = send[d].batch \ {s}
          /\ q.total = send[d].total
        BY <1>2 DEF Sending
    <2> HIDE DEF q
    <2> QED
        BY <1>3, <1>5, <2>1, <2>2
<1> QED
    BY <1>1, <1>4, <1>5

\* It holds before anything was sent.
LEMMA NewsInitially == NewsInit => NewsTypeOK
    BY DEF NewsInit, NewsTypeOK, Statuses, Issues

\* Every step keeps the types.
LEMMA NewsTyped == NewsTypeOK /\ PeopleTypeOK' /\ [NewsNext]_newsVars => NewsTypeOK'
<1> SUFFICES ASSUME NewsTypeOK, PeopleTypeOK', [NewsNext]_newsVars PROVE NewsTypeOK'
    OBVIOUS
<1>0. /\ send \in [Sends -> Sending \cup {NotSending}] /\ ended \subseteq Sends
      /\ mails \in [Subscribers -> Nat] /\ reported \in Nat /\ audience \subseteq Subscribers
      /\ quiet \in BOOLEAN /\ issue \in Issues
    BY DEF NewsTypeOK
<1>1. ASSUME /\ issue' \in Issues /\ send' \in [Sends -> Sending \cup {NotSending}]
             /\ ended' \subseteq Sends /\ mails' \in [Subscribers -> Nat] /\ reported' \in Nat
             /\ audience' \subseteq Subscribers
             /\ quiet' \in BOOLEAN
      PROVE  NewsTypeOK'
    BY <1>1 DEF NewsTypeOK, PeopleTypeOK
<1>2. ASSUME NEW s \in Subscribers,
             \/ Subscribes(s) \/ ConfirmReads(s) \/ ConfirmSaves(s)
             \/ Unsubscribes(s) \/ Activates(s) \/ FormOpens(s) \/ FormSaves(s)
      PROVE  NewsTypeOK'
    <2>1. UNCHANGED issueVars
        BY <1>2 DEF Subscribes, ConfirmReads, ConfirmSaves, Unsubscribes, Activates, FormOpens,
                    FormSaves
    <2>2. quiet' \in BOOLEAN
        BY <1>0, <1>2 DEF Subscribes, ConfirmReads, ConfirmSaves, Unsubscribes, Activates, FormOpens,
                    FormSaves, Writes
    <2> QED
        BY <1>0, <1>1, <2>1, <2>2 DEF issueVars
<1>3. CASE IssueIsSet
    <2>1. /\ issue' \in Issues /\ quiet' \in BOOLEAN
          /\ UNCHANGED <<send, ended, mails, reported, audience>>
        BY <1>0, <1>3 DEF IssueIsSet
    <2> QED
        BY <1>0, <1>1, <2>1
<1>4. ASSUME NEW d \in Sends, SendBegins(d) PROVE NewsTypeOK'
    <2> DEFINE q == [total |-> Cardinality(Active), offset |-> 0, batch |-> {}, sent |-> 0]
    <2>1. q \in Sending
        BY ActiveAreFew DEF Sending
    <2>2. UNCHANGED <<issue, mails, reported>>
        BY <1>4 DEF SendBegins
    <2>3. CASE Active = {}
        BY <1>0, <1>1, <1>4, <2>2, <2>3 DEF SendBegins
    <2>4. CASE Active # {}
        <3>1. /\ send' = [send EXCEPT ![d] = q] /\ audience' \in {audience, Active}
              /\ UNCHANGED ended /\ quiet' \in BOOLEAN
            BY <1>0, <1>4, <2>4 DEF SendBegins
        <3> HIDE DEF q
        <3>2. send' \in [Sends -> Sending \cup {NotSending}] /\ audience' \subseteq Subscribers
            BY <1>0, <2>1, <3>1, ActiveAreFew
        <3> QED
            BY <1>0, <1>1, <2>2, <3>1, <3>2
    <2> QED
        BY <2>3, <2>4
<1>5. ASSUME NEW d \in Sends, SendLoads(d) PROVE NewsTypeOK'
    <2>1. /\ send'[d] \in Sending /\ send' = [send EXCEPT ![d] = send'[d]]
        BY <1>5, LoadsASlice
    <2>2. send' \in [Sends -> Sending \cup {NotSending}]
        BY <1>0, <2>1
    <2>3. UNCHANGED <<issue, ended, mails, reported, audience, quiet>>
        BY <1>5 DEF SendLoads
    <2> QED
        BY <1>0, <1>1, <2>2, <2>3
<1>6. ASSUME NEW d \in Sends, SendMails(d) PROVE NewsTypeOK'
    <2>1. /\ send'[d] \in Sending /\ send' = [send EXCEPT ![d] = send'[d]]
          /\ mails' \in [Subscribers -> Nat] /\ quiet' \in BOOLEAN
        BY <1>0, <1>6, MailsOne
    <2>2. send' \in [Sends -> Sending \cup {NotSending}]
        BY <1>0, <2>1
    <2>3. UNCHANGED <<issue, ended, reported, audience>>
        BY <1>6 DEF SendMails
    <2> QED
        BY <1>0, <1>1, <2>1, <2>2, <2>3
<1>7. ASSUME NEW d \in Sends, SendEnds(d) \/ SendDies(d) PROVE NewsTypeOK'
    <2>1. /\ send' = [send EXCEPT ![d] = NotSending] /\ ended' = ended \cup {d}
          /\ issue' \in {issue, "sent"} /\ reported' \in {reported, send[d].sent}
          /\ UNCHANGED <<mails, audience>> /\ quiet' \in BOOLEAN
        BY <1>0, <1>7 DEF SendEnds, SendDies
    <2>2. send[d].sent \in Nat
        BY <1>7, RunningTyped DEF SendEnds, SendDies
    <2>3. issue' \in Issues
        BY <1>0, <2>1 DEF Issues
    <2>4. reported' \in Nat
        BY <1>0, <2>1, <2>2
    <2> QED
        BY <1>0, <1>1, <2>1, <2>3, <2>4
<1>8. CASE UNCHANGED newsVars
    BY <1>0, <1>1, <1>8 DEF newsVars, issueVars
<1> QED
    BY <1>2, <1>3, <1>4, <1>5, <1>6, <1>7, <1>8 DEF NewsNext

\* The types of the newsletter hold in every reachable state.
LEMMA NewsInvariant == NewsSpec => []NewsTypeOK
<1>1. PeopleInv => PeopleTypeOK
    BY DEF PeopleInv
<1> QED
    BY <1>1, PeopleInitially, PeopleNext, NewsInitially, NewsTyped, PTL DEF NewsSpec

-----------------------------------------------------------------------------
(* A quiet delivery                                                        *)

\* What a quiet delivery has done: the slices so far have as many rows as the table has
\* before the offset, whichever they were; if one batch holds all, they were all.
OnCourse(d) ==
    /\ issue = "scheduled" /\ audience = Active /\ audience # {}
    /\ send[d].total = Cardinality(Active) /\ send[d].batch \subseteq Active
    /\ send[d].sent + Cardinality(send[d].batch)
          = IF send[d].offset < send[d].total THEN send[d].offset ELSE send[d].total
    /\ send[d].offset = 0 => send[d].batch = {}
    /\ \A s \in Subscribers : mails[s] > 0 => s \in Active
    /\ Cardinality(Active) <= BatchSize =>
          /\ send[d].offset = 0 \/ send[d].offset >= send[d].total
          /\ \A s \in Active : mails[s] = IF send[d].offset = 0 \/ s \in send[d].batch THEN 0 ELSE 1

\* What a quiet delivery has done when it is over; before it, nothing.
Delivered ==
    /\ reported = Cardinality(audience)
    /\ \A s \in Subscribers : mails[s] > 0 => s \in audience
    /\ Cardinality(audience) <= BatchSize => \A s \in audience : mails[s] = 1

\* As long as it is quiet there is one delivery, and it is on course.
QuietInv ==
    quiet =>
        /\ \A d, e \in Sends : Running(d) /\ Running(e) => d = e
        /\ \A d \in Sends : Running(d) => OnCourse(d)
        /\ NobodySends => Delivered

\* A step that touches neither the deliveries nor who is active, while it matters.
LEMMA QuietRest ==
    ASSUME QuietInv, UNCHANGED <<send, mails, reported, audience>>, quiet' => quiet,
           quiet' => NobodySends \/ (issue' = issue /\ Active' = Active)
    PROVE  QuietInv'
<1> SUFFICES ASSUME quiet' PROVE QuietInv'
    BY DEF QuietInv
<1>1. \A d : Running(d)' <=> Running(d)
    BY DEF Running
<1>2. CASE NobodySends
    BY <1>1, <1>2 DEF QuietInv, NobodySends, Delivered
<1>3. CASE issue' = issue /\ Active' = Active
    BY <1>1, <1>3 DEF QuietInv, NobodySends, Delivered, OnCourse
<1> QED
    BY <1>2, <1>3

\* The first delivery begins on course.
LEMMA QuietBegins ==
    ASSUME NewsTypeOK, QuietInv, NEW d \in Sends, SendBegins(d)
    PROVE  QuietInv'
<1>1. Active' = Active /\ UNCHANGED <<issue, mails, reported>> /\ issue = "scheduled"
    BY DEF SendBegins, peopleVars, Active
<1>2. CASE Active = {}
    BY <1>1, <1>2, QuietRest DEF SendBegins
<1>3. CASE Active # {}
    <2> DEFINE q == [total |-> Cardinality(Active), offset |-> 0, batch |-> {}, sent |-> 0]
    <2> SUFFICES ASSUME quiet' PROVE QuietInv'
        BY DEF QuietInv
    <2>1. quiet /\ audience = {} /\ audience' = Active /\ send' = [send EXCEPT ![d] = q]
        BY <1>3 DEF SendBegins
    <2>2. \A e \in Sends : ~Running(e)
        BY <2>1 DEF QuietInv, OnCourse
    <2>3. \A s \in Subscribers : mails[s] = 0
        <3>1. \A s \in Subscribers : mails[s] \in Nat /\ ~(mails[s] > 0)
            BY <2>1, <2>2 DEF QuietInv, NobodySends, Delivered, NewsTypeOK
        <3> QED
            BY <3>1
    <2>4. \A e \in Sends : IF e = d THEN send'[e] = q ELSE ~Running(e)'
        BY <2>1, <2>2 DEF NewsTypeOK, Running
    <2>5. Running(d)'
        <3>1. q \in Sending
            BY ActiveAreFew DEF Sending
        <3> HIDE DEF q
        <3> QED
            BY <2>4, <3>1, NewsletterAssumption DEF Running
    <2>6. OnCourse(d)'
        <3>1. /\ send'[d].total = Cardinality(Active) /\ send'[d].offset = 0
              /\ send'[d].batch = {} /\ send'[d].sent = 0
            BY <2>4
        <3>2. Cardinality(Active) \in Nat /\ Cardinality({}) = 0 /\ Cardinality(Active) > 0
            BY <1>3, ActiveAreFew, FS_EmptySet
        <3>3. Cardinality(send'[d].batch) = 0
            BY <3>1, <3>2
        <3>4. send'[d].sent + Cardinality(send'[d].batch)
                 = IF send'[d].offset < send'[d].total THEN send'[d].offset ELSE send'[d].total
            BY <3>1, <3>2, <3>3
        <3>5. \A s \in Subscribers : mails'[s] = 0
            BY <1>1, <2>3
        <3>6. \A s \in Active : mails'[s] = 0
            BY <3>5, ActiveAreFew
        <3> QED
            BY <1>1, <1>3, <2>1, <3>1, <3>4, <3>5, <3>6 DEF OnCourse
    <2> QED
        BY <2>4, <2>5, <2>6 DEF QuietInv, NobodySends
<1> QED
    BY <1>2, <1>3

\* A step of a delivery that runs on.
LEMMA QuietRuns ==
    ASSUME NewsTypeOK, QuietInv, NEW d \in Sends, Running(d), quiet' => quiet,
           send' = [send EXCEPT ![d] = send'[d]], send'[d] \in Sending,
           quiet' => OnCourse(d)'
    PROVE  QuietInv'
<1> SUFFICES ASSUME quiet' PROVE QuietInv'
    BY DEF QuietInv
<1>1. \A e \in Sends : Running(e) => e = d
    BY DEF QuietInv
<1>2. \A e \in Sends : Running(e)' <=> e = d
    BY <1>1, NewsletterAssumption DEF Running, NewsTypeOK
<1> QED
    BY <1>2 DEF QuietInv, NobodySends

\* A delivery that loads the next slice stays on course: the slice has as many rows as
\* there are left, or a batch of them.
LEMMA QuietLoads ==
    ASSUME NewsTypeOK, QuietInv, NEW d \in Sends, SendLoads(d)
    PROVE  QuietInv'
<1>1. PICK slice \in Slices(send[d].offset, BatchSize) :
              /\ slice \subseteq Active
              /\ send'[d] \in Sending
              /\ send'[d].offset = send[d].offset + BatchSize /\ send'[d].batch = slice
              /\ send'[d].total = send[d].total /\ send'[d].sent = send[d].sent
              /\ send' = [send EXCEPT ![d] = send'[d]]
    BY LoadsASlice
<1>2. /\ Running(d) /\ send[d].batch = {} /\ send[d].offset < send[d].total
      /\ Active' = Active /\ UNCHANGED <<issue, mails, reported, audience, quiet>>
    BY DEF SendLoads, peopleVars, Active
<1>3. ASSUME quiet PROVE OnCourse(d)'
    <2>1. OnCourse(d)
        BY <1>2, <1>3 DEF QuietInv
    <2>2. PICK n \in Nat : n = Cardinality(Active)
        BY ActiveAreFew
    <2>3. PICK o \in Nat : o = send[d].offset
        BY <1>2, RunningTyped
    <2>4. send[d].total = n /\ o < n
        BY <1>2, <2>1, <2>2, <2>3 DEF OnCourse
    <2>5. send[d].sent = o
        <3>1. Cardinality(send[d].batch) = 0 /\ send[d].sent \in Nat
            BY <1>2, FS_EmptySet, RunningTyped
        <3> QED
            BY <2>1, <2>3, <2>4, <3>1 DEF OnCourse
    <2>6. Cardinality(slice) = IF n - o < BatchSize THEN n - o ELSE BatchSize
        <3>1. Cardinality(slice) = LET rest == IF n > o THEN n - o ELSE 0
                                   IN  IF rest < BatchSize THEN rest ELSE BatchSize
            BY <2>2, <2>3 DEF Slices
        <3> QED
            BY <2>4, <3>1
    <2>7. send'[d].offset = o + BatchSize /\ BatchSize \in Nat /\ BatchSize > 0
        BY <1>1, <2>3, ActiveAreFew
    <2>8. send'[d].sent + Cardinality(send'[d].batch)
             = IF send'[d].offset < send'[d].total THEN send'[d].offset ELSE send'[d].total
        BY <1>1, <2>4, <2>5, <2>6, <2>7
    <2>9. ASSUME n <= BatchSize
          PROVE  /\ send'[d].offset >= send'[d].total
                 /\ \A s \in Active : mails'[s] = 0 /\ s \in send'[d].batch
        <3>1. o = 0
            BY <2>1, <2>2, <2>3, <2>4, <2>9 DEF OnCourse
        <3>2. Cardinality(slice) = n
            BY <2>6, <2>7, <2>9, <3>1
        <3>3. slice = Active
            BY <1>1, <2>2, <3>2, ActiveAreFew, FS_Subset
        <3>4. \A s \in Active : mails[s] = 0
            BY <2>1, <2>2, <2>3, <2>9, <3>1 DEF OnCourse
        <3>5. send'[d].offset >= send'[d].total
            BY <1>1, <2>4, <2>7, <2>9, <3>1
        <3> QED
            BY <1>1, <1>2, <3>3, <3>4, <3>5
    <2>10. send'[d].offset # 0
        BY <2>7
    <2>11. /\ (issue = "scheduled")' /\ (audience = Active)' /\ (audience # {})'
           /\ (send[d].total = Cardinality(Active))' /\ (send[d].batch \subseteq Active)'
           /\ (\A s \in Subscribers : mails[s] > 0 => s \in Active)'
        BY <1>1, <1>2, <2>1 DEF OnCourse
    <2>12. Cardinality(Active') = n
        BY <1>2, <2>2
    <2> QED
        BY <1>2, <2>8, <2>9, <2>10, <2>11, <2>12 DEF OnCourse
<1> QED
    BY <1>1, <1>2, <1>3, QuietRuns

\* A mail that does not fail keeps the delivery on course.
LEMMA QuietMails ==
    ASSUME NewsTypeOK, QuietInv, NEW d \in Sends, SendMails(d)
    PROVE  QuietInv'
<1>1. PICK s \in send[d].batch :
              /\ s \in Subscribers /\ send'[d] \in Sending
              /\ send'[d].offset = send[d].offset /\ send'[d].batch = send[d].batch \ {s}
              /\ send'[d].total = send[d].total
              /\ send' = [send EXCEPT ![d] = send'[d]]
              /\ \/ /\ mails' = [mails EXCEPT ![s] = @ + 1] /\ send'[d].sent = send[d].sent + 1
                    /\ UNCHANGED quiet
                 \/ mails' = mails /\ ~quiet' /\ quiet' \in BOOLEAN
    BY MailsOne
<1>2. Running(d) /\ Active' = Active /\ UNCHANGED <<issue, reported, audience>>
    BY DEF SendMails, peopleVars, Active
<1>3. ASSUME quiet' PROVE quiet /\ OnCourse(d)'
    <2>1. /\ quiet /\ mails' = [mails EXCEPT ![s] = @ + 1] /\ send'[d].sent = send[d].sent + 1
        BY <1>1, <1>3
    <2>2. OnCourse(d)
        BY <1>2, <2>1 DEF QuietInv
    <2>3. s \in Active /\ send[d].offset # 0
        BY <2>2 DEF OnCourse
    <2>4. /\ send[d].sent \in Nat /\ Cardinality(send[d].batch) \in Nat
          /\ Cardinality(send[d].batch \ {s}) = Cardinality(send[d].batch) - 1
        BY <1>2, RunningTyped, FS_RemoveElement
    <2>5. send'[d].sent + Cardinality(send'[d].batch) = send[d].sent + Cardinality(send[d].batch)
        BY <1>1, <2>1, <2>4
    <2>6. send'[d].sent + Cardinality(send'[d].batch)
             = IF send'[d].offset < send'[d].total THEN send'[d].offset ELSE send'[d].total
        BY <1>1, <2>2, <2>5 DEF OnCourse
    <2>7. \A x \in Subscribers : mails'[x] = IF x = s THEN mails[s] + 1 ELSE mails[x]
        BY <2>1 DEF NewsTypeOK
    <2>8. \A x \in Subscribers : mails'[x] > 0 => x \in Active
        BY <2>2, <2>3, <2>7 DEF OnCourse
    <2>9. ASSUME Cardinality(Active) <= BatchSize
          PROVE  /\ send[d].offset >= send[d].total
                 /\ \A x \in Active : mails'[x] = IF x \in send[d].batch \ {s} THEN 0 ELSE 1
        <3>1. /\ send[d].offset >= send[d].total
              /\ \A x \in Active : mails[x] = IF x \in send[d].batch THEN 0 ELSE 1
            BY <2>2, <2>3, <2>9 DEF OnCourse
        <3>2. mails[s] = 0 /\ mails'[s] = 1
            BY <1>1, <2>3, <2>7, <3>1
        <3>3. \A x \in Active \ {s} : mails'[x] = mails[x]
            BY <2>7, ActiveAreFew
        <3> QED
            BY <3>1, <3>2, <3>3
    <2>10. /\ (issue = "scheduled")' /\ (audience = Active)' /\ (audience # {})'
           /\ (send[d].total = Cardinality(Active))' /\ (send[d].batch \subseteq Active)'
        BY <1>1, <1>2, <2>2 DEF OnCourse
    <2> QED
        BY <1>1, <1>2, <2>1, <2>3, <2>6, <2>8, <2>9, <2>10 DEF OnCourse
<1> QED
    BY <1>1, <1>2, <1>3, QuietRuns

\* A delivery that ends has handled as many rows as it counted; one that dies ends the
\* quiet.
LEMMA QuietEnds ==
    ASSUME NewsTypeOK, QuietInv, NEW d \in Sends, SendEnds(d) \/ SendDies(d)
    PROVE  QuietInv'
<1> SUFFICES ASSUME quiet' PROVE QuietInv'
    BY DEF QuietInv
<1>1. /\ quiet /\ Running(d) /\ send' = [send EXCEPT ![d] = NotSending]
      /\ reported' = send[d].sent /\ UNCHANGED <<mails, audience>>
      /\ send[d].batch = {} /\ send[d].offset >= send[d].total
    BY DEF SendEnds, SendDies
<1>2. OnCourse(d) /\ \A e \in Sends : Running(e) => e = d
    BY <1>1 DEF QuietInv
<1>3. \A e \in Sends : ~Running(e)'
    BY <1>1, <1>2 DEF NewsTypeOK, Running
<1>4. /\ send[d].total = Cardinality(audience) /\ Cardinality(audience) \in Nat
      /\ Cardinality(audience) > 0
    BY <1>2, ActiveAreFew, FS_EmptySet DEF OnCourse
<1>5. send[d].offset \in Nat /\ send[d].sent \in Nat /\ Cardinality(send[d].batch) = 0
    BY <1>1, RunningTyped, FS_EmptySet
<1>6. send[d].sent = Cardinality(audience) /\ send[d].offset # 0
    BY <1>1, <1>2, <1>4, <1>5 DEF OnCourse
<1>7. Delivered'
    <2>1. \A s \in Subscribers : mails[s] > 0 => s \in audience
        BY <1>2 DEF OnCourse
    <2>2. Cardinality(audience) <= BatchSize => \A s \in audience : mails[s] = 1
        BY <1>1, <1>2, <1>6 DEF OnCourse
    <2> QED
        BY <1>1, <1>6, <2>1, <2>2 DEF Delivered
<1> QED
    BY <1>3, <1>7 DEF QuietInv

\* Every step keeps it.
LEMMA QuietStep == NewsTypeOK /\ QuietInv /\ [NewsNext]_newsVars => QuietInv'
<1> SUFFICES ASSUME NewsTypeOK, QuietInv, [NewsNext]_newsVars PROVE QuietInv'
    OBVIOUS
<1>0. quiet \in BOOLEAN /\ status \in [Subscribers -> Statuses]
    BY DEF NewsTypeOK
<1>1. ASSUME NEW s \in Subscribers, NEW to, Writes(s, to), UNCHANGED issueVars
      PROVE  QuietInv'
    <2>1. quiet' => quiet /\ (NobodySends \/ Active' = Active)
        BY <1>0, <1>1 DEF Writes, Active
    <2> QED
        BY <1>1, <2>1, QuietRest DEF issueVars
<1>2. ASSUME NEW s \in Subscribers,
             \/ Subscribes(s) \/ ConfirmSaves(s) \/ Unsubscribes(s) \/ Activates(s) \/ FormSaves(s)
      PROVE  QuietInv'
    BY <1>1, <1>2 DEF Subscribes, ConfirmSaves, Unsubscribes, Activates, FormSaves
<1>3. ASSUME NEW s \in Subscribers, ConfirmReads(s) \/ FormOpens(s) PROVE QuietInv'
    <2>1. UNCHANGED <<status, issue, send, mails, reported, audience, quiet>>
        BY <1>3 DEF ConfirmReads, FormOpens, issueVars
    <2> QED
        BY <2>1, QuietRest DEF Active
<1>4. CASE IssueIsSet
    BY <1>0, <1>4, QuietRest DEF IssueIsSet
<1>5. CASE UNCHANGED newsVars
    <2>1. UNCHANGED <<status, issue, send, mails, reported, audience, quiet>>
        BY <1>5 DEF newsVars, peopleVars, issueVars
    <2> QED
        BY <2>1, QuietRest DEF Active
<1> QED
    BY <1>2, <1>3, <1>4, <1>5, QuietBegins, QuietLoads, QuietMails, QuietEnds DEF NewsNext

\* An issue sent by one delivery, while no mail failed and nobody became or ceased to be
\* active, was mailed as often as there were active subscribers and to none but them, and
\* exactly once to each if one batch held them: for any number of subscribers, any size of
\* the batches and whatever order the rows of a slice come in.
THEOREM QuietSendCorrect == NewsSpec => []QuietSendIsWhole
<1>1. NewsInit => QuietInv
    <2> SUFFICES ASSUME NewsInit PROVE QuietInv
        OBVIOUS
    <2>1. reported = 0 /\ audience = {} /\ \A s \in Subscribers : mails[s] = 0
        BY DEF NewsInit
    <2>2. Delivered
        BY <2>1, FS_EmptySet DEF Delivered
    <2> QED
        BY <2>2 DEF NewsInit, QuietInv, Running
<1>2. QuietInv => QuietSendIsWhole
    <2> SUFFICES ASSUME QuietInv, issue = "sent", quiet PROVE QuietSendIsWhole
        BY DEF QuietSendIsWhole
    <2>1. NobodySends
        BY DEF QuietInv, OnCourse, NobodySends
    <2> QED
        BY <2>1 DEF QuietInv, Delivered, QuietSendIsWhole
<1> QED
    BY <1>1, <1>2, NewsInvariant, QuietStep, PTL DEF NewsSpec

-----------------------------------------------------------------------------
(***************************************************************************)
(* All of them: one service runs and the others rest, so a behaviour of    *)
(* the site is one of each of them.                                        *)
(***************************************************************************)
-----------------------------------------------------------------------------
\* The fairness of the card's views aside, the services are a step relation.
LEMMA ServicesSteps == ServicesSpec => ServicesInit /\ [][ServicesNext]_servicesVars
BY PTL DEF ServicesSpec

\* The views of a card move or rest.
LEMMA ServicesView == ServicesSpec => ViewsSpec
<1>1. ServicesInit => ViewsInit
    BY DEF ServicesInit
<1>2. [ServicesNext]_servicesVars => [ViewsNext]_viewsVars
    BY DEF ServicesNext, servicesVars, CardsRun, ThrottleRuns, TrustRuns, NewsletterRuns, ClaimsRun
<1> QED
    BY <1>1, <1>2, ServicesSteps, PTL DEF ViewsSpec

\* Either limiter moves or rests.
LEMMA ServicesThrottle == ServicesSpec => LocalSpec /\ RedisSpec
<1>1. ServicesInit => LocalInit /\ RedisInit
    BY DEF ServicesInit, ThrottleInit
<1>2. [ServicesNext]_servicesVars => [LocalNext]_localVars /\ [RedisNext]_redisVars
    <2> SUFFICES ASSUME [ServicesNext]_servicesVars
                 PROVE  [LocalNext]_localVars /\ [RedisNext]_redisVars
        OBVIOUS
    <2>1. ThrottleNext \/ UNCHANGED throttleVars
        BY DEF ServicesNext, servicesVars, CardsRun, ThrottleRuns, TrustRuns, NewsletterRuns,
               ClaimsRun
    <2> QED
        BY <2>1 DEF ThrottleNext, throttleVars
<1> QED
    BY <1>1, <1>2, ServicesSteps, PTL DEF LocalSpec, RedisSpec

\* The trust backfills move or rest.
LEMMA ServicesTrust == ServicesSpec => TrustSpec
<1>1. ServicesInit => TrustInit
    BY DEF ServicesInit
<1>2. [ServicesNext]_servicesVars => [TrustNext]_trustVars
    BY DEF ServicesNext, servicesVars, CardsRun, ThrottleRuns, TrustRuns, NewsletterRuns, ClaimsRun
<1> QED
    BY <1>1, <1>2, ServicesSteps, PTL DEF TrustSpec

\* The newsletter moves or rests.
LEMMA ServicesNews == ServicesSpec => NewsSpec
<1>1. ServicesInit => NewsInit
    BY DEF ServicesInit
<1>2. [ServicesNext]_servicesVars => [NewsNext]_newsVars
    BY DEF ServicesNext, servicesVars, CardsRun, ThrottleRuns, TrustRuns, NewsletterRuns, ClaimsRun
<1> QED
    BY <1>1, <1>2, ServicesSteps, PTL DEF NewsSpec

\* The claims of a card move or rest.
LEMMA ServicesClaims == ServicesSpec => ClaimSpec
<1>1. ServicesInit => ClaimInit
    BY DEF ServicesInit
<1>2. [ServicesNext]_servicesVars => [ClaimNext]_claimVars
    BY DEF ServicesNext, servicesVars, CardsRun, ThrottleRuns, TrustRuns, NewsletterRuns, ClaimsRun
<1> QED
    BY <1>1, <1>2, ServicesSteps, PTL DEF ClaimSpec

\* The types of every service hold whichever of them runs: for any number of readers,
\* workers, threads, processes, subscribers and claimants.
THEOREM ServicesTypeCorrect == ServicesSpec => []ServicesTypeOK
<1>1. ClaimInv => ClaimTypeOK
    BY DEF ClaimInv
<1>2. RedisInv => RedisTypeOK
    BY DEF RedisInv
<1>3. ClaimSpec => []ClaimInv
    BY ClaimInvInit, ClaimInvStep, PTL DEF ClaimSpec
<1> QED
    BY <1>1, <1>2, <1>3, ServicesView, ServicesThrottle, ServicesTrust, ServicesNews,
       ServicesClaims, ViewsTypeCorrect, LocalTypeCorrect, RedisInvariant, TrustTypeCorrect,
       NewsInvariant, PTL DEF ServicesTypeOK, ThrottleTypeOK

\* What was proved of each service holds of the site: a stale sitemap is excused, a quiet
\* index follows its row, who is active asked for it, a quiet send is whole, a card has one
\* owner, both limiters keep the slots apart and stale decisions do no harm.
THEOREM ServicesKeepTheirPromises ==
    ServicesSpec =>
        /\ [](StaleOnlyInWindow /\ QuietIndexFollowsTheRow)
        /\ [](ActiveMeansConsent /\ QuietSendIsWhole /\ OneOwner)
        /\ LocalIsSpaced /\ RedisIsSpaced
        /\ StaleDecisionsDoNoHarm
BY ServicesView, ServicesThrottle, ServicesTrust, ServicesNews, ServicesClaims,
   StalenessCorrect, QuietIndexCorrect, ConsentCorrect, QuietSendCorrect, OneOwnerCorrect,
   LocalImplementsSpacing, RedisImplementsSpacing, StaleDecisionsCorrect, PTL

=============================================================================
