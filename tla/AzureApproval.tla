--------------------------- MODULE AzureApproval ---------------------------
(***************************************************************************)
(* The Azure DevOps side: a build publishes a review, a later stage        *)
(* verifies the publication against the running build, an approval         *)
(* authority signs an assertion over both, and a verifier accepts the      *)
(* assertion while its key is not revoked on a list that is fresh enough.  *)
(*                                                                         *)
(* Time is a counter that the builds, the authority and the publisher of   *)
(* revocation lists read; the verifier's clock is off by up to ClockSkew.  *)
(* Revocation lists are external documents: each holds every entry of the  *)
(* one before it.  A digest binds a document, so an assertion holds its    *)
(* publication and receipt themselves; signatures are not modelled.        *)
(***************************************************************************)
EXTENDS GateDecision

CONSTANTS
    AzureReviews,        \* the reviews a build can publish: [case, policy]
    Keys, TrustedKey,    \* the trust store: [actions, valid_from, valid_until] of a key
    MaximumAge,          \* of a publication when it is verified
    AuthenticationWindow, IssueWindow, Lifetime,
    MaxRevocationAge, ClockSkew,
    Backdates,           \* the past instants a revocation may be dated to
    MaxTime, MaxReceipts, MaxAssertions, MaxLists

ASSUME AzureAssumption ==
    /\ {MaximumAge, AuthenticationWindow, IssueWindow, Lifetime, MaxRevocationAge, ClockSkew,
        MaxTime, MaxReceipts, MaxAssertions, MaxLists} \subseteq Nat
    /\ Backdates \subseteq Nat
    /\ \A k \in Keys : TrustedKey[k].actions \subseteq {"approve", "exception"}

VARIABLES
    now,
    publications,   \* [decision, codes, created_at], codes of the findings that count
    receipts,       \* [publication, verified_at]
    assertions,     \* [receipt, key, action, codes, authenticated_at, issued_at, expires_at]
    lists,          \* the revocation lists published so far, [updated_at, entries]
    accepted        \* the latest acceptance, [assertion, at], at being the time of the check

azureVars == <<now, publications, receipts, assertions, lists, accepted>>

Time == 0 .. MaxTime

AzureInit ==
    /\ now = 0
    /\ publications = {} /\ receipts = {} /\ assertions = {} /\ accepted = {}
    /\ lists = {[updated_at |-> 0, entries |-> {}]}

Tick ==
    /\ now < MaxTime
    /\ now' = now + 1
    /\ UNCHANGED <<publications, receipts, assertions, lists, accepted>>

PublishReview(review) ==
    /\ publications = {}
    /\ publications' = {[decision |-> Decide(review.case, review.policy),
                         codes |-> FindingCodes(review.case, review.policy),
                         created_at |-> now]}
    /\ UNCHANGED <<now, receipts, assertions, lists, accepted>>

\* The receipt a publication earns at an instant, if it earns one.
CanVerify(publication, instant) ==
    /\ instant >= publication.created_at
    /\ instant - publication.created_at <= MaximumAge

VerifyPublication(publication) ==
    /\ CanVerify(publication, now)
    /\ Cardinality(receipts) < MaxReceipts
    /\ receipts' = receipts \cup {[publication |-> publication, verified_at |-> now]}
    /\ UNCHANGED <<now, publications, assertions, lists, accepted>>

---------------------------------------------------------------------------
(* The assertion                                                           *)

\* What the parser demands of the times of any assertion.
TimesFit(a) ==
    /\ a.authenticated_at <= a.issued_at
    /\ a.issued_at - a.authenticated_at <= IssueWindow
    /\ a.issued_at < a.expires_at
    /\ a.expires_at - a.issued_at <= Lifetime

\* An approval follows the verification it is about and fits its review; an
\* exception names every finding that stands against the change.
ScopeFits(a) ==
    LET publication == a.receipt.publication
        verified    == a.receipt.verified_at
    IN  /\ verified <= a.authenticated_at
        /\ a.authenticated_at - verified <= AuthenticationWindow
        /\ a.expires_at - verified <= Lifetime
        /\ a.action = "approve" => publication.decision = "approve" /\ a.codes = {}
        /\ a.action = "exception" =>
             /\ publication.decision # "approve"
             /\ a.codes # {} /\ a.codes = publication.codes

Issue(receipt, key, action, authenticated, expires) ==
    LET codes == IF action = "approve" THEN {} ELSE receipt.publication.codes
        a == [receipt |-> receipt, key |-> key, action |-> action, codes |-> codes,
              authenticated_at |-> authenticated, issued_at |-> now, expires_at |-> expires]
    IN  /\ Cardinality(assertions) < MaxAssertions
        /\ TimesFit(a) /\ ScopeFits(a)
        /\ assertions' = assertions \cup {a}
        /\ UNCHANGED <<now, publications, receipts, lists, accepted>>

---------------------------------------------------------------------------
(* Revocation                                                              *)

Newest(list) == \A other \in lists : other.updated_at <= list.updated_at

PublishList(list, entries) ==
    /\ Newest(list) /\ list.updated_at < now
    /\ Cardinality(lists) < MaxLists
    /\ lists' = lists \cup {[updated_at |-> now, entries |-> list.entries \cup entries]}
    /\ UNCHANGED <<now, publications, receipts, assertions, accepted>>

Republish(list) == PublishList(list, {})

\* The time of an entry that revokes all signatures is not read.
Revoke(list, key, mode, revoked_at) ==
    /\ mode = "all_signatures" => revoked_at = now
    /\ revoked_at <= now
    /\ \A e \in list.entries : e.key # key
    /\ PublishList(list, {[key |-> key, mode |-> mode, revoked_at |-> revoked_at]})

RevokedBy(a, entry) ==
    /\ entry.key = a.key
    /\ entry.mode = "all_signatures" \/ a.issued_at >= entry.revoked_at

---------------------------------------------------------------------------
(* The check                                                               *)

KeyAllows(a) ==
    LET k == TrustedKey[a.key]
    IN  /\ a.action \in k.actions
        /\ k.valid_from <= a.issued_at /\ a.issued_at < k.valid_until
        /\ a.expires_at <= k.valid_until

InItsTime(a, checked) == a.issued_at <= checked + ClockSkew /\ checked < a.expires_at

\* Mutant: a list may be of any age.
ListNotFromFuture(list, checked) == list.updated_at <= checked + ClockSkew

FreshList(list, checked) ==
    /\ list.updated_at <= checked + ClockSkew
    /\ checked - list.updated_at <= MaxRevocationAge + ClockSkew

CheckApproval(a, list, checked) ==
    /\ KeyAllows(a)
    /\ InItsTime(a, checked)
    /\ FreshList(list, checked)
    /\ \A e \in list.entries : ~RevokedBy(a, e)
    /\ CanVerify(a.receipt.publication, a.receipt.verified_at)
    /\ ScopeFits(a)
    /\ accepted' = {[assertion |-> a, at |-> now]}
    /\ UNCHANGED <<now, publications, receipts, assertions, lists>>

AzureNext ==
    \/ Tick
    \/ \E review \in AzureReviews : PublishReview(review)
    \/ \E publication \in publications : VerifyPublication(publication)
    \/ \E receipt \in receipts, key \in Keys, action \in {"approve", "exception"},
          authenticated \in Time, expires \in Time :
            Issue(receipt, key, action, authenticated, expires)
    \/ \E list \in lists : Republish(list)
    \/ \E list \in lists, key \in Keys, mode \in {"all_signatures", "issued_at_or_after"},
          at \in Backdates \cup {now} :
            Revoke(list, key, mode, at)
    \/ \E a \in assertions, list \in lists, checked \in now - ClockSkew .. now + ClockSkew :
            CheckApproval(a, list, checked)

AzureSpec == AzureInit /\ [][AzureNext]_azureVars

---------------------------------------------------------------------------
(* Property                                                                *)

(* An accepted approval stands: no list that was out for longer than the   *)
(* verifier tolerates a list to be old, its clock wrong by the skew and    *)
(* the skew allowed on top, revokes it, whichever older list the verifier  *)
(* was given; and it is about a review published no longer ago than the    *)
(* publication window, the lifetime and the skew together.                 *)
AcceptedApprovalsStand ==
    \A x \in accepted :
        /\ \A list \in lists :
             list.updated_at + MaxRevocationAge + 2 * ClockSkew < x.at =>
                \A e \in list.entries : ~RevokedBy(x.assertion, e)
        /\ x.at - x.assertion.receipt.publication.created_at < MaximumAge + Lifetime + ClockSkew
        /\ x.assertion.action = "approve" =>
             x.assertion.receipt.publication.decision = "approve"
=============================================================================
