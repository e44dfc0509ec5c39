------------------------------- MODULE MCQuota -------------------------------
(***************************************************************************)
(* Instances of Quota and Gateway. The Default rules follow the order of   *)
(* build_quota_rules: requests, bandwidth, payload, concurrency. Two       *)
(* requests and a worker contend for one slot of the gateway, which has    *)
(* all its stages. A behaviour is about one of the two.                    *)
(***************************************************************************)
EXTENDS Admission, TLC

CONSTANTS r1, r2, r3, t1, t2, s1, s2, w1, k1

VARIABLE about

OneTenant == [r \in Request |-> t1]
TwoTenants == [r \in Request |-> IF r = r3 THEN t2 ELSE t1]

\* r1 sends the larger body; both fit the payload quota, r3's does not.
BytesMap == [r \in Request |-> IF r = r1 THEN 2 ELSE IF r = r2 THEN 1 ELSE 3]

DefaultKind == <<"requests", "bandwidth", "payload", "concurrent">>
DefaultLimit == <<2, 3, 2, 1>>
DefaultWindow == <<2, 3, 3, 2>>
-----------------------------------------------------------------------------
Anonymous == [origin |-> "none", preflight |-> FALSE, key |-> NoKey, body |-> "b1",
              supported |-> TRUE, wellformed |-> TRUE, encoding |-> FALSE]

\* A page of an allowed origin, its preflight, the retry of a keyed request
\* with the same and with another body, and what the first stages refuse.
Requested ==
    {[Anonymous EXCEPT !.origin = "allowed", !.encoding = TRUE, !.key = k1],
     [Anonymous EXCEPT !.origin = "allowed", !.preflight = TRUE],
     [Anonymous EXCEPT !.origin = "other", !.key = k1, !.body = "b2"],
     [Anonymous EXCEPT !.origin = "allowed", !.supported = FALSE],
     [Anonymous EXCEPT !.origin = "allowed", !.wellformed = FALSE]}

\* Every stage is installed.
Stages == {"cors", "audit", "compression", "versioning", "validation",
           "rate_limit", "quota", "idempotency"}

\* A subscriber of any event may raise.
Events == {"request.accepted", "request.rejected", "audit.recorded",
           "version.negotiated", "rate.limit.exceeded", "quota.exceeded",
           "idempotency.detected", "request.compressed"}

-----------------------------------------------------------------------------
MCInit ==
    /\ about \in {"quota", "pipeline"}
    /\ Init
    /\ IF about = "pipeline" THEN Pipeline!Init
       ELSE sent = [r \in Sender |-> CHOOSE q \in Traffic : q.preflight] /\ Pipeline!Init

MCNext ==
    /\ UNCHANGED about
    /\ \/ about = "quota" /\ Next /\ UNCHANGED pipelineVars
       \/ about = "pipeline" /\ Pipeline!Next /\ UNCHANGED vars

\* The senders of the pipeline are alike.
Alike == Permutations(Sender)

MCSpec == MCInit /\ [][MCNext]_<<about, vars, pipelineVars>>
=============================================================================
