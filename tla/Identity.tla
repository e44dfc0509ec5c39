------------------------------ MODULE Identity ------------------------------
(***************************************************************************)
(* Who a request is, and what it may call: SecurityMiddleware, the         *)
(* registry of identity providers in the order SecurityModule builds it,   *)
(* the OpenID Connect provider with its caches, Azure AD and LDAP,         *)
(* PrincipalResolver and the check of @authorize (teaf/_internal/security).*)
(*                                                                         *)
(* Requests run concurrently on one event loop. An action is the code      *)
(* between two awaits; the awaits are the calls to the issuer (discovery,  *)
(* key set, exchange of a code) and the thread of the LDAP bind. A reply   *)
(* is what the issuer publishes when it answers, and may arrive late. What *)
(* verifying a token or key of the application itself says is a field of   *)
(* the credential: Tokens models it.                                       *)
(***************************************************************************)
EXTENDS Naturals, Sequences, FiniteSets, FiniteSetsExt

CONSTANTS
    Request,       \* places for requests that run at a time
    Kid, Tenant, Role, Permission, None,
    Credential,    \* what requests carry
    Configured,    \* identity_providers of SecurityModule, in order
    MultiTenant,   \* the tenant of AzureADIdentityProvider is "common" or alike
    Home,          \* the tenant whose issuer the discovery document names
    Allowed,       \* allowed_tenants (Tenant stands for None)
    Grants,        \* roles of the catalogue with their permissions
    Need           \* what @authorize asks: roles, permissions, tenants of a policy

ASSUME IdentityAssumption ==
    /\ Credential \subseteq
         [via : {"azure", "code", "token", "key", "basic", "malformed", "none"},
          sound : BOOLEAN, kid : Kid, tenant : Tenant,
          roles : SUBSET Role, scopes : SUBSET Permission]
    /\ Configured \in Seq({"ldap", "azure-ad"})
    /\ \A keys \in SUBSET Kid : keys # None
    /\ MultiTenant \in BOOLEAN /\ Home \in Tenant /\ Allowed \subseteq Tenant
    /\ DOMAIN Grants \subseteq Role
    /\ \A role \in DOMAIN Grants : Grants[role] \subseteq Permission
    /\ Need \in [roles : SUBSET Role, permissions : SUBSET Permission,
                 tenants : SUBSET Tenant]

VARIABLES
    published,  \* key ids in the issuer's key set
    retired,    \* key ids the issuer withdrew
    discovery,  \* _discovery is set
    jwks,       \* _jwks: the key ids cached, or None
    req,        \* the requests
    purged      \* history: retired keys no cache or reply in flight holds any more

vars == <<published, retired, discovery, jwks, req, purged>>

-----------------------------------------------------------------------------
(* Routing.                                                                *)

\* _extract_credentials with _sniff_bearer_scheme: iss is read unverified. A
\* Basic header that cannot be decoded gives credentials without a name.
Scheme(c) == CASE c.via = "azure" -> "azure-ad"
               [] c.via = "token" -> "jwt"
               [] c.via = "key" -> "api-key"
               [] c.via \in {"basic", "malformed"} -> "ldap"
               [] OTHER -> "anonymous"

Registered == <<"anonymous", "jwt", "api-key">> \o Configured

\* supports of the providers.
Supports(p, c) == p = "anonymous" \/ (p = Scheme(c) /\ c.via # "malformed")

\* IdentityProviderRegistry.resolve: the provider of the scheme, or the first
\* that supports the credentials, and AnonymousIdentityProvider, the first
\* registered, supports all.
Provider(c) ==
    LET supporting == {i \in 1..Len(Registered) : Supports(Registered[i], c)}
        exact == {i \in supporting : Registered[i] = Scheme(c)}
    IN  Registered[Min(IF exact # {} THEN exact ELSE supporting)]

-----------------------------------------------------------------------------
(* Principals.                                                             *)

Anonymous == [authenticated |-> FALSE, provider |-> "anonymous",
              roles |-> {}, permissions |-> {}, tenant |-> None]

\* PrincipalResolver: roles out of the catalogue are dropped; the permissions
\* are those of the identity and those its roles grant. Of the providers here
\* azure-ad fills roles and tenant, api-key permissions, jwt and ldap both.
Principal(p, c) ==
    LET roles == (IF p = "api-key" THEN {} ELSE c.roles) \cap DOMAIN Grants
        direct == IF p = "azure-ad" THEN {} ELSE c.scopes
    IN  [authenticated |-> TRUE, provider |-> p, roles |-> roles,
         permissions |-> direct \cup UNION {Grants[role] : role \in roles},
         tenant |-> IF p \in {"azure-ad", "jwt"} THEN c.tenant ELSE None]

\* _check_access.
Access(p) ==
    IF ~p.authenticated THEN "unauthenticated"
    ELSE IF \/ Need.roles # {} /\ Need.roles \cap p.roles = {}
            \/ Need.permissions # {} /\ Need.permissions \cap p.permissions = {}
            \/ Need.tenants # {} /\ p.tenant \notin Need.tenants
    THEN "forbidden" ELSE "called"

-----------------------------------------------------------------------------
(* A request. reply is what the issuer answered, before the request runs   *)
(* again; result names the event of dispatch, or "crashed" for an          *)
(* exception that is no AuthenticationException.                           *)

NoReply == [kind |-> "none", keys |-> {}]
Reply == [kind : {"none", "keys", "error", "unreadable"}, keys : SUBSET Kid]

\* steady: the issuer has published the key since the token was shown;
\* unlucky: a call to the issuer failed.
Idle == [at |-> "idle", cred |-> None, reply |-> NoReply, result |-> "none",
         principal |-> Anonymous, access |-> "none", steady |-> FALSE, unlucky |-> FALSE]

Asking == {"discovering", "fetching", "refreshing", "exchanging"}
Waiting(r) == req[r].at \in Asking /\ req[r].reply.kind = "none"
Answered(r) == req[r].at \in Asking /\ req[r].reply.kind # "none"

\* dispatch, from the identity to the endpoint.
Concluded(q, result, p) ==
    [q EXCEPT !.at = "ended", !.reply = NoReply, !.result = result, !.principal = p,
              !.access = IF result = "crashed" THEN "error" ELSE Access(p)]
Rejected(q) == Concluded(q, "failed", Anonymous)
Accepted(q, p) == Concluded(q, "succeeded", Principal(p, q.cred))

Asked(q, what) == [q EXCEPT !.at = what, !.reply = NoReply]

\* Mutant: in multi-tenant mode the tenant is not looked at.
TenantAssumed(c) == MultiTenant \/ c.tenant = Home

\* _issuer_for_validation and _map_claims of AzureADIdentityProvider.
TenantOk(c) == (MultiTenant \/ c.tenant = Home) /\ c.tenant \in Allowed

\* authenticate, once the key is found. The sound tokens are signed with the
\* key they name, for this audience and unexpired.
Decoded(q) ==
    IF q.cred.sound /\ TenantOk(q.cred) THEN Accepted(q, "azure-ad") ELSE Rejected(q)

\* Mutant: a key that the cached set lacks is not looked for again.
SearchedOnce(q, keys, again) ==
    IF q.cred.kid \in keys THEN Decoded(q) ELSE Rejected(q)

\* _signing_key_for: one forced refresh when the key is not in the set.
Searched(q, keys, again) ==
    CASE q.cred.kid \in keys -> Decoded(q)
      [] q.cred.kid \notin keys /\ again -> Asked(q, "refreshing")
      [] OTHER -> Rejected(q)

\* _get_jwks without force_refresh.
KeySought(q) == IF jwks = None THEN Asked(q, "fetching") ELSE Searched(q, jwks, TRUE)

\* What follows _discover: the exchange of a code, or the key of the token.
Discovered(q) == IF q.cred.via = "code" THEN Asked(q, "exchanging") ELSE KeySought(q)

Oidc(q) == IF discovery THEN Discovered(q) ELSE Asked(q, "discovering")

-----------------------------------------------------------------------------

TypeOK ==
    /\ published \subseteq Kid /\ retired \subseteq Kid /\ published \cap retired = {}
    /\ discovery \in BOOLEAN
    /\ jwks # None => (discovery /\ jwks \subseteq published \cup retired)
    /\ \A r \in Request :
         /\ req[r].at \in Asking \cup {"idle", "binding", "ended"}
         /\ req[r].reply \in Reply
         /\ req[r].result \in {"none", "succeeded", "failed", "crashed"}
         /\ req[r].at \in {"fetching", "refreshing", "exchanging"} => discovery
         /\ req[r].at = "refreshing" => jwks # None
    /\ purged \subseteq retired

Init ==
    /\ \E k \in Kid : published = {k}
    /\ retired = {} /\ purged = {}
    /\ discovery = FALSE /\ jwks = None
    /\ req = [r \in Request |-> Idle]

\* dispatch and exchange_code_for_token, up to their first await.
Arrive(r, c) ==
    LET q == [Idle EXCEPT !.cred = c, !.steady = c.kid \in published]
        p == Provider(c)
    IN  /\ req[r].at = "idle"
        /\ req' = [req EXCEPT ![r] =
             CASE c.via = "code" -> Oidc(q)
               [] p = "azure-ad" /\ c.via # "code" -> Oidc(q)
               [] p = "ldap" -> Asked(q, "binding")
               [] p = "anonymous" /\ c.via # "code" -> Concluded(q, "succeeded", Anonymous)
               [] OTHER -> IF c.sound THEN Accepted(q, p) ELSE Rejected(q)]
        /\ UNCHANGED <<published, retired, discovery, jwks, purged>>

\* _authenticate_sync: bind and search in a thread. Either may fail.
Bound(r) ==
    /\ req[r].at = "binding"
    /\ \/ req[r].cred.sound /\ req' = [req EXCEPT ![r] = Accepted(@, "ldap")]
       \/ req' = [req EXCEPT ![r] = Rejected(@)]
    /\ UNCHANGED <<published, retired, discovery, jwks, purged>>

\* The issuer answers with what it publishes now, signs with a key it
\* publishes, or fails; httpx gives up on it after its timeout.
Answer(r) ==
    /\ Waiting(r)
    /\ \E reply \in [kind : {"keys"}, keys : IF req[r].at = "exchanging"
                                             THEN {{k} : k \in published} ELSE {published}]
                    \cup [kind : {"error", "unreadable"}, keys : {{}}] :
         req' = [req EXCEPT ![r].reply = reply, ![r].unlucky = @ \/ reply.kind # "keys"]
    /\ UNCHANGED <<published, retired, discovery, jwks, purged>>

\* httpx.HTTPError becomes OidcException; a body that is no JSON or lacks what
\* is read from it leaves the provider, and dispatch, as another exception.
Fail(r) ==
    /\ Answered(r) /\ req[r].reply.kind # "keys"
    /\ req' = [req EXCEPT ![r] = IF @.reply.kind = "error" THEN Rejected(@)
                                 ELSE Concluded(@, "crashed", Anonymous)]
    /\ UNCHANGED <<published, retired, discovery, jwks, purged>>

Discover(r) ==
    /\ req[r].at = "discovering" /\ req[r].reply.kind = "keys"
    /\ discovery' = TRUE
    /\ req' = [req EXCEPT ![r] = Discovered(@)]
    /\ UNCHANGED <<published, retired, jwks, purged>>

\* Retired keys that are gone once keys is cached: replies still to come are
\* of later, those answered already may hold them.
Gone(r, keys) ==
    {k \in retired \ keys : \A s \in Request \ {r} : k \notin req[s].reply.keys}

\* Mutant: what is fetched is added to what is cached.
StoreMerged(r) ==
    /\ req[r].at \in {"fetching", "refreshing"} /\ req[r].reply.kind = "keys"
    /\ jwks' = (IF jwks = None THEN {} ELSE jwks) \cup req[r].reply.keys
    /\ purged' = purged \cup Gone(r, req[r].reply.keys)
    /\ req' = [req EXCEPT ![r] = Searched(@, jwks', @.at = "fetching")]
    /\ UNCHANGED <<published, retired, discovery>>

\* _get_jwks after its request. The last reply to arrive stays cached.
Store(r) ==
    /\ req[r].at \in {"fetching", "refreshing"} /\ req[r].reply.kind = "keys"
    /\ jwks' = req[r].reply.keys
    /\ purged' = purged \cup Gone(r, req[r].reply.keys)
    /\ req' = [req EXCEPT ![r] = Searched(@, @.reply.keys, @.at = "fetching")]
    /\ UNCHANGED <<published, retired, discovery>>

\* exchange_code_for_token goes on to authenticate the token it got.
Exchange(r) ==
    /\ req[r].at = "exchanging" /\ req[r].reply.kind = "keys"
    /\ \E k \in req[r].reply.keys :
         req' = [req EXCEPT ![r] =
                   KeySought([@ EXCEPT !.cred.kid = k, !.steady = k \in published])]
    /\ UNCHANGED <<published, retired, discovery, jwks, purged>>

\* The response is out; another request takes the place.
Leave(r) ==
    /\ req[r].at = "ended"
    /\ req' = [req EXCEPT ![r] = Idle]
    /\ UNCHANGED <<published, retired, discovery, jwks, purged>>

\* The issuer publishes a new key, or withdraws an old one.
Publish(k) ==
    /\ k \notin published \cup retired
    /\ published' = published \cup {k}
    /\ UNCHANGED <<retired, discovery, jwks, req, purged>>

Withdraw(k) ==
    /\ k \in published /\ published # {k}
    /\ published' = published \ {k}
    /\ retired' = retired \cup {k}
    /\ req' = [r \in Request |->
                 IF req[r].steady /\ req[r].cred.kid = k
                 THEN [req[r] EXCEPT !.steady = FALSE] ELSE req[r]]
    /\ UNCHANGED <<discovery, jwks, purged>>

Next ==
    \/ \E r \in Request :
         \/ \E c \in Credential : Arrive(r, c)
         \/ Bound(r) \/ Answer(r) \/ Fail(r) \/ Discover(r) \/ Store(r) \/ Exchange(r)
         \/ Leave(r)
    \/ \E k \in Kid : Publish(k) \/ Withdraw(k)

Spec == Init /\ [][Next]_vars

-----------------------------------------------------------------------------
(* Properties.                                                             *)

Ended(r) == req[r].at = "ended"

\* A rotation of the issuer's keys is not felt: a sound token of an allowed
\* tenant, signed with a key published all along, is refused only when a call
\* to the issuer failed, whatever is cached and however replies are overtaken.
PublishedKeyAccepted ==
    \A r \in Request :
        LET q == req[r]
            trusted == q.cred.sound /\ q.steady /\ TenantOk(q.cred)
            oidc == Provider(q.cred) = "azure-ad" \/ q.cred.via = "code"
        IN  (Ended(r) /\ q.result = "failed" /\ oidc /\ trusted) => q.unlucky

\* What the endpoint asks for is held by the credential itself: it is sound,
\* by a key the issuer did publish if it is the issuer's, of a tenant that is
\* let in, and names a known role and a permission, or a role granting it.
CalledByTheEntitled ==
    \A r \in Request : (Ended(r) /\ req[r].access = "called") =>
        LET c == req[r].cred
            known == {role \in c.roles : role \in DOMAIN Grants}
        IN  /\ c.sound
            /\ c.via \in {"azure", "code"} =>
                 /\ c.kid \in published \cup retired
                 /\ c.tenant \in Allowed
            /\ Need.roles # {} => \E role \in known : role \in Need.roles
            /\ Need.permissions # {} =>
                 \/ \E perm \in Need.permissions : perm \in c.scopes
                 \/ \E role \in known : Grants[role] \cap Need.permissions # {}

\* A withdrawn key is accepted while it stays cached, without a limit. But
\* once a set without it is cached and no older reply is on its way, no token
\* is accepted by it again.
PurgedKeysStayRefused ==
    [][\A r \in Request : (Ended(r)' /\ ~Ended(r) /\ req'[r].principal.provider = "azure-ad")
          => req'[r].cred.kid \notin purged]_vars
=============================================================================
