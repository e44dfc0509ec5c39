----------------------------- MODULE MCSecurity -----------------------------
(***************************************************************************)
(* Instance of Security: Azure AD for several tenants and LDAP beside the  *)
(* providers of SecurityModule; tokens of the issuer by each key, a forged *)
(* one, one of a tenant that is not let in, and the other credentials; API *)
(* keys that expire, of which a rotated one does not. Identity and Tokens  *)
(* share no state: a behaviour is about one of them.                       *)
(***************************************************************************)
EXTENDS Security, TLC

CONSTANTS k1, k2, k3, t1, t2, admin, guest, read, r1, r2

Cred(via, sound, kid, tenant, roles, scopes) ==
    [via |-> via, sound |-> sound, kid |-> kid, tenant |-> tenant,
     roles |-> roles, scopes |-> scopes]

Credentials ==
    {Cred("azure", TRUE, k, t1, {admin}, {}) : k \in Kid} \cup
    {Cred("azure", FALSE, k1, t1, {admin}, {}),
     Cred("azure", TRUE, k1, t2, {admin}, {}),
     Cred("azure", TRUE, k1, t1, {guest}, {}),
     Cred("code", TRUE, k1, t1, {admin}, {}),
     Cred("token", TRUE, k1, t1, {guest}, {read}),
     Cred("token", FALSE, k1, t1, {admin}, {read}),
     Cred("key", TRUE, k1, t1, {}, {read}),
     Cred("basic", TRUE, k1, t1, {admin}, {}),
     Cred("malformed", FALSE, k1, t1, {admin}, {}),
     Cred("none", FALSE, k1, t1, {}, {})}

AzureAndLdap == <<"azure-ad", "ldap">>
OneTenant == {t1}
AdminReads == [role \in {admin} |-> {read}]
NeedsAdmin == [roles |-> {admin}, permissions |-> {read}, tenants |-> {}]
Requests == Permutations(Request)

-----------------------------------------------------------------------------
MCInit == Init /\ Issued!Init

MCNext ==
    \/ clock = 0 /\ pairs = <<>> /\ keys = <<>> /\ Next /\ UNCHANGED issuedVars
    \/ published = {k1} /\ Init /\ Issued!Next /\ UNCHANGED vars

MCSpec == MCInit /\ [][MCNext]_<<vars, issuedVars>>
=============================================================================
