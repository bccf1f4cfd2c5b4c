--------------------------- MODULE KycVerification ---------------------------
(***************************************************************************)
(* KYC of businesses and investors (verification.rs): a record per address *)
(* and, for each kind, one list of addresses per status.  Both kinds of    *)
(* record are stored under the bare address, so reading one kind where the *)
(* other is stored traps: an address is either a business or an investor.  *)
(*                                                                         *)
(* Only the admin reviews.  Who the admin is, is left to                   *)
(* ProtocolGovernance.  An action is a call that succeeds; one that        *)
(* returns an error leaves the state alone.                                *)
(***************************************************************************)
EXTENDS Sublists, SequencesExt, InvestorScoring

CONSTANTS
    Actor,          \* addresses
    Reasons,        \* texts of rejection reasons
    NoReason,       \* rejection_reason is None
    KycData,        \* lengths of the KYC data submitted
    MaxKycData,     \* MAX_KYC_DATA_LENGTH
    Limits,         \* limits the admin grants
    MaxListed       \* bound of the model: length of a status list

VARIABLES
    record,         \* address -> its record, <<>> when there is none
    businesses,     \* status -> list of businesses
    investors,      \* status -> list of investors
    paused          \* the pause flag of the contract

vars == <<record, businesses, investors, paused>>

Statuses == {"Pending", "Verified", "Rejected"}

EmptyLists == [s \in Statuses |-> <<>>]

Init ==
    /\ record = [a \in Actor |-> <<>>]
    /\ businesses = EmptyLists
    /\ investors = EmptyLists
    /\ paused = FALSE

HasRecord(a, kind) == record[a] # <<>> /\ record[a].kind = kind

(* A call for one kind traps on a record of the other. *)
Readable(a, kind) == record[a] # <<>> => record[a].kind = kind

StatusOf(a) == IF record[a] = <<>> THEN "None" ELSE record[a].status

(* The address stays in the list it is taken from. *)
Relisted_Fault(lists, a, from, to) == [lists EXCEPT ![to] = Append(@, a)]

(* The lists once the address has left the one and joined the other. *)
Relisted(lists, a, from, to) ==
    LET left == IF from = "None" THEN lists ELSE [lists EXCEPT ![from] = Without(@, {a})]
    IN  [left EXCEPT ![to] = Append(@, a)]

Bounded(lists) == \A s \in Statuses : Len(lists[s]) <= MaxListed

----------------------------------------------------------------------------
(* Businesses. *)

(* Any status but Verified may become Pending again. *)
BusinessTransitions_Fault ==
    {<<"None", "Pending">>, <<"Pending", "Verified">>, <<"Pending", "Rejected">>,
     <<"Verified", "Rejected">>, <<"Rejected", "Pending">>}

(* validate_state_transition *)
BusinessTransitions ==
    {<<"None", "Pending">>, <<"Pending", "Verified">>, <<"Pending", "Rejected">>,
     <<"Rejected", "Pending">>}

(* validate_rejection_reason_immutability *)
ReasonKept(b, reason) == StatusOf(b) = "Rejected" => reason = record[b].reason

(* verify_index_consistency *)
InOneList(lists, b) == Cardinality({s \in Statuses : Contains(lists[s], b)}) = 1

(* update_verification *)
UpdateVerification(b, status, reason) ==
    LET relisted == Relisted(businesses, b, StatusOf(b), status) IN
    /\ <<StatusOf(b), status>> \in BusinessTransitions
    /\ ReasonKept(b, reason)
    /\ InOneList(relisted, b)
    /\ businesses' = relisted
    /\ record' = [record EXCEPT ![b] = [kind |-> "business", status |-> status,
                                        reason |-> reason]]
    /\ UNCHANGED <<investors, paused>>

(* submit_kyc_application clears the reason; the result of the pause check   *)
(* of the entry point is dropped.                                            *)
SubmitKycApplication(b, kyc) ==
    /\ kyc <= MaxKycData
    /\ Readable(b, "business")
    /\ UpdateVerification(b, "Pending", NoReason)

VerifyBusiness(b) ==
    /\ HasRecord(b, "business")
    /\ UpdateVerification(b, "Verified", NoReason)

RejectBusiness(b, reason) ==
    /\ HasRecord(b, "business")
    /\ UpdateVerification(b, "Rejected", reason)

----------------------------------------------------------------------------
(* Investors. *)

InvestorRecord(p, status, reason) ==
    [kind |-> "investor", status |-> status, reason |-> reason, profile |-> p]

(* InvestorVerificationStorage::update *)
UpdateInvestor(v, new) ==
    /\ investors' = Relisted(investors, v, StatusOf(v), new.status)
    /\ Bounded(investors')
    /\ record' = [record EXCEPT ![v] = new]
    /\ UNCHANGED <<businesses, paused>>

(* submit: a resubmission keeps the history and joins the pending list; it   *)
(* does not leave the rejected one.                                          *)
SubmitInvestorKyc(v, kyc) ==
    LET old == IF StatusOf(v) = "None" THEN NewProfile(kyc) ELSE record[v].profile IN
    /\ kyc <= MaxKycData
    /\ Readable(v, "investor")
    /\ StatusOf(v) \notin {"Pending", "Verified"}
    /\ record' = [record EXCEPT ![v] =
                    InvestorRecord([old EXCEPT !.kyc = kyc], "Pending", NoReason)]
    /\ investors' = [investors EXCEPT !["Pending"] = Append(@, v)]
    /\ UNCHANGED <<businesses, paused>>

(* Also from Rejected; the reason of the rejection stays in the record. *)
VerifyInvestor(v, limit) ==
    /\ limit > 0
    /\ HasRecord(v, "investor")
    /\ StatusOf(v) # "Verified"
    /\ UpdateInvestor(v, InvestorRecord(Scored(record[v].profile, limit), "Verified",
                                        record[v].reason))

(* The status is not checked. *)
RejectInvestor_Fault(v, reason) ==
    /\ HasRecord(v, "investor")
    /\ UpdateInvestor(v, InvestorRecord(record[v].profile, "Rejected", reason))

RejectInvestor(v, reason) ==
    /\ HasRecord(v, "investor")
    /\ StatusOf(v) = "Pending"
    /\ UpdateInvestor(v, InvestorRecord(record[v].profile, "Rejected", reason))

(* The base becomes the limit. *)
SetInvestmentLimit_Fault(v, limit) ==
    /\ limit > 0
    /\ HasRecord(v, "investor")
    /\ StatusOf(v) = "Verified"
    /\ UpdateInvestor(v, [record[v] EXCEPT !.profile = [@ EXCEPT !.limit = limit]])

SetInvestmentLimit(v, limit) ==
    /\ limit > 0
    /\ HasRecord(v, "investor")
    /\ StatusOf(v) = "Verified"
    /\ LET p == record[v].profile IN
       UpdateInvestor(v, [record[v] EXCEPT !.profile =
                            [p EXCEPT !.limit = Limit(p.tier, p.level, limit)]])

SetPaused(flag) ==
    /\ paused' = flag
    /\ UNCHANGED <<record, businesses, investors>>

Next ==
    \/ \E a \in Actor, kyc \in KycData : SubmitKycApplication(a, kyc) \/ SubmitInvestorKyc(a, kyc)
    \/ \E a \in Actor : VerifyBusiness(a)
    \/ \E a \in Actor, reason \in Reasons : RejectBusiness(a, reason) \/ RejectInvestor(a, reason)
    \/ \E a \in Actor, limit \in Limits : VerifyInvestor(a, limit) \/ SetInvestmentLimit(a, limit)
    \/ \E flag \in BOOLEAN : SetPaused(flag)

Spec == Init /\ [][Next]_vars

----------------------------------------------------------------------------
TypeOK ==
    /\ \A a \in Actor : record[a] # <<>> =>
          /\ record[a].kind \in {"business", "investor"}
          /\ record[a].status \in Statuses
          /\ record[a].reason \in Reasons \cup {NoReason}
    /\ businesses \in [Statuses -> Seq(Actor)]
    /\ investors \in [Statuses -> Seq(Actor)]
    /\ paused \in BOOLEAN

Listed(lists, a, s) == Cardinality({n \in DOMAIN lists[s] : lists[s][n] = a})

(* The lists agree with the records: a business is in the list of its status *)
(* once and in no other; an investor is in the pending and in the verified   *)
(* list exactly when it has that status, once, and a rejected one is in the  *)
(* rejected list (which also keeps investors that have resubmitted).         *)
ListsFollowRecords ==
    /\ \A a \in Actor, s \in Statuses :
          Listed(businesses, a, s) =
              IF HasRecord(a, "business") /\ StatusOf(a) = s THEN 1 ELSE 0
    /\ \A a \in Actor, s \in {"Pending", "Verified"} :
          Listed(investors, a, s) =
              IF HasRecord(a, "investor") /\ StatusOf(a) = s THEN 1 ELSE 0
    /\ \A a \in Actor :
          HasRecord(a, "investor") /\ StatusOf(a) = "Rejected" => Listed(investors, a, "Rejected") > 0

(* A verified party stays verified, whatever else is submitted or reviewed   *)
(* later, and of which kind an address is never changes.                     *)
VerifiedIsFinal ==
    [][\A a \in Actor : record[a] # <<>> =>
          /\ record'[a] # <<>> /\ record'[a].kind = record[a].kind
          /\ StatusOf(a) = "Verified" => record'[a].status = "Verified"]_vars

(* A limit in force was granted by the admin, scaled by tier and risk: no    *)
(* sequence of rejections, resubmissions and reviews verifies an investor    *)
(* without one or with more than the largest grant.                          *)
VerifiedHaveLimit ==
    \A a \in Actor : HasRecord(a, "investor") /\ StatusOf(a) = "Verified" =>
        record[a].profile.limit \in
            {Limit(record[a].profile.tier, record[a].profile.level, g) : g \in Limits}

(* The verification state an address has, its lists and its limit agree at   *)
(* every step.                                                               *)
KycConsistent == [](ListsFollowRecords /\ VerifiedHaveLimit) /\ VerifiedIsFinal

(* emergency.md: "`submit_kyc_application` blocked when paused": while the   *)
(* contract is paused, nobody submits KYC data.                              *)
NoSubmissionWhilePaused ==
    [][paused => \A a \in Actor :
          ~(StatusOf(a) # "Pending" /\ record'[a] # <<>> /\ record'[a].status = "Pending")]_vars
=============================================================================
