--------------------------- MODULE SecurityProofs ---------------------------
(***************************************************************************)
(* Proofs about Security: Identity, for any requests, keys, tenants,       *)
(* credentials, providers, roles and demands of the endpoint, and Tokens,  *)
(* for any lifetimes, leeway and numbers of tokens and keys.               *)
(***************************************************************************)
EXTENDS Security, FiniteSetTheorems, WellFoundedInduction, TLAPS

-----------------------------------------------------------------------------
(* The inductive invariant of Identity.                                    *)

CredType == [via : {"azure", "code", "token", "key", "basic", "malformed", "none"},
             sound : BOOLEAN, kid : Kid, tenant : Tenant,
             roles : SUBSET Role, scopes : SUBSET Permission]

\* Providers that authenticate, and the principals they make.
Names == {"azure-ad", "jwt", "api-key", "ldap"}
Principals == {Anonymous} \cup {Principal(p, c) : p \in Names, c \in CredType}
Verdict == {"unauthenticated", "forbidden", "called"}

ReqType ==
    [at : Asking \cup {"idle", "binding", "ended"}, cred : CredType \cup {None},
     reply : Reply, result : {"none", "succeeded", "failed", "crashed"},
     principal : Principals, access : Verdict \cup {"none", "error"},
     steady : BOOLEAN, unlucky : BOOLEAN]

\* Credentials that are the OpenID Connect provider's.
OfIssuer(c) == c.via = "code" \/ Provider(c) = "azure-ad"

Trusted(q) == q.cred.sound /\ q.steady /\ TenantOk(q.cred)

\* What a request shows whose principal is not the anonymous one. pub and ret
\* are the keys the issuer publishes and withdrew.
Vouched(q, pub, ret) ==
    /\ q.cred.sound /\ q.access = Access(q.principal)
    /\ \E p \in Names : /\ q.principal = Principal(p, q.cred)
                        /\ p = "azure-ad" <=> q.cred.via \in {"azure", "code"}
    /\ q.cred.via \in {"azure", "code"} => TenantOk(q.cred) /\ q.cred.kid \in pub \cup ret

\* What is known of a request. gone are the purged keys.
Good(q, pub, ret, gone) ==
    /\ q \in ReqType
    /\ q.at # "idle" => q.cred \in CredType
    /\ q.at \in Asking => OfIssuer(q.cred)
    /\ q.at = "exchanging" => q.cred.via = "code"
    /\ q.at = "binding" => q.cred.via # "code" /\ Provider(q.cred) = "ldap"
    /\ q.steady => q.at # "idle" /\ q.cred.kid \in pub
    /\ q.reply.keys \subseteq pub \cup ret /\ q.reply.keys \cap gone = {}
    /\ q.at \in {"fetching", "refreshing"} /\ q.reply.kind = "keys" /\ q.steady =>
          q.cred.kid \in q.reply.keys
    /\ q.reply.kind \in {"error", "unreadable"} => q.unlucky
    /\ q.at = "ended" /\ q.result = "failed" /\ OfIssuer(q.cred) /\ Trusted(q) => q.unlucky
    /\ q.at = "ended" /\ q.access = "called" => Vouched(q, pub, ret)

\* The caches a request relies on are there.
Ready(q, known, cached) ==
    /\ q.at \in {"fetching", "refreshing", "exchanging"} => known
    /\ q.at = "refreshing" => cached # None

Keys ==
    /\ published \subseteq Kid /\ retired \subseteq Kid /\ published \cap retired = {}
    /\ discovery \in BOOLEAN
    /\ jwks # None => (discovery /\ jwks \subseteq published \cup retired /\ jwks \cap purged = {})
    /\ purged \subseteq retired

IInv ==
    /\ Keys
    /\ req \in [Request -> ReqType]
    /\ \A r \in Request : /\ Good(req[r], published, retired, purged)
                          /\ Ready(req[r], discovery, jwks)

-----------------------------------------------------------------------------
(* Routing.                                                                *)

LEMMA MinOfNumbers ==
    ASSUME NEW S, S \subseteq Nat, S # {}
    PROVE  Min(S) \in S
<1> DEFINE R == StrictSubsetOrdering(Nat)
           F == FiniteSubsetsOf(Nat)
           U == {1..n : n \in S}
<1>1. IsWellFoundedOn(R, F) /\ U \subseteq F /\ U # {}
  <2>1. IsWellFoundedOn(R, F)
    BY FS_StrictSubsetOrderingWellFounded
  <2>2. \A n \in Nat : IsFiniteSet(1..n) /\ 1..n \subseteq Nat
    BY FS_Interval
  <2>3. U \subseteq F
    BY <2>2 DEF FiniteSubsetsOf
  <2> QED
    BY <2>1, <2>3
<1>2. \E u \in U : \A v \in U : <<v, u>> \notin R
  <2> HIDE DEF R, F, U
  <2> QED
    BY <1>1, WFMin
<1>3. PICK m \in S : \A v \in U : <<v, 1..m>> \notin R
  BY <1>2
<1>4. ASSUME NEW n \in S, n < m PROVE FALSE
  <2>1. n \in Nat /\ m \in Nat
    OBVIOUS
  <2>2. 1..n \subseteq 1..m /\ 1..n # 1..m
    BY <2>1, <1>4
  <2>3. <<1..n, 1..m>> \in R
    BY <2>2 DEF StrictSubsetOrdering
  <2> QED
    BY <1>3, <2>3
<1>5. \E x \in S : \A y \in S : x <= y
  BY <1>4
<1> QED
  BY <1>5 DEF Min

\* The provider a credential goes to supports it.
LEMMA ProviderSupports ==
    ASSUME NEW c \in CredType
    PROVE  /\ Provider(c) \in Names \cup {"anonymous"}
           /\ Provider(c) = "ldap" => c.via \in {"basic", "malformed"}
           /\ Provider(c) = "azure-ad" => c.via = "azure"
           /\ Provider(c) = "jwt" => c.via = "token"
           /\ Provider(c) = "api-key" => c.via = "key"
<1> DEFINE supporting == {i \in 1..Len(Registered) : Supports(Registered[i], c)}
           exact == {i \in supporting : Registered[i] = Scheme(c)}
           candidates == IF exact # {} THEN exact ELSE supporting
<1>1. /\ Configured \in Seq({"ldap", "azure-ad"})
      /\ Registered \in Seq(Names \cup {"anonymous"})
      /\ Registered[1] = "anonymous" /\ Len(Registered) >= 1
  BY IdentityAssumption DEF Registered, Names
<1>2. 1 \in supporting /\ supporting \subseteq Nat
  BY <1>1 DEF Supports
<1>3. Min(candidates) \in supporting
  <2>1. candidates \subseteq Nat /\ candidates # {} /\ candidates \subseteq supporting
    BY <1>2
  <2> HIDE DEF candidates
  <2> QED
    BY <2>1, MinOfNumbers
<1>4. Provider(c) = Registered[Min(candidates)]
  BY DEF Provider
<1> HIDE DEF candidates
<1>5. Provider(c) \in Names \cup {"anonymous"} /\ Supports(Provider(c), c)
  BY <1>1, <1>3, <1>4
<1> QED
  BY <1>5 DEF Supports, Scheme, Names, CredType

-----------------------------------------------------------------------------
(* What the code between two awaits makes of a request.                    *)

\* A request that authenticates at the issuer.
Working(q, pub) ==
    /\ q \in ReqType /\ q.cred \in CredType /\ OfIssuer(q.cred)
    /\ q.steady => q.cred.kid \in pub

LEMMA AskedIsGood ==
    ASSUME NEW pub, NEW ret, NEW gone, NEW q, Working(q, pub),
           NEW what \in Asking, what = "exchanging" => q.cred.via = "code"
    PROVE  /\ Good(Asked(q, what), pub, ret, gone)
           /\ Asked(q, what).at = what
<1>1. NoReply \in Reply /\ NoReply.keys = {} /\ NoReply.kind = "none"
  BY DEF NoReply, Reply
<1>2. Asked(q, what) \in ReqType
  BY <1>1 DEF Working, Asked, ReqType
<1> QED
  BY <1>1, <1>2 DEF Working, Asked, Good, Asking, ReqType

LEMMA AnonymousAccess == Access(Anonymous) = "unauthenticated" /\ Anonymous \in Principals
BY DEF Access, Anonymous, Principals

LEMMA RejectedIsGood ==
    ASSUME NEW pub, NEW ret, NEW gone, NEW q \in ReqType, q.cred \in CredType,
           q.steady => q.cred.kid \in pub,
           OfIssuer(q.cred) /\ Trusted(q) => q.unlucky
    PROVE  /\ Good(Rejected(q), pub, ret, gone)
           /\ Rejected(q).at = "ended" /\ Rejected(q).principal = Anonymous
<1>1. NoReply \in Reply /\ NoReply.keys = {} /\ NoReply.kind = "none"
  BY DEF NoReply, Reply
<1>2. Rejected(q) = [q EXCEPT !.at = "ended", !.reply = NoReply, !.result = "failed",
                              !.principal = Anonymous, !.access = "unauthenticated"]
  BY AnonymousAccess DEF Rejected, Concluded
<1>3. Rejected(q) \in ReqType
  BY <1>1, <1>2, AnonymousAccess DEF ReqType, Verdict
<1> QED
  BY <1>1, <1>2, <1>3 DEF Good, Asking, ReqType, Trusted

LEMMA CrashedIsGood ==
    ASSUME NEW pub, NEW ret, NEW gone, NEW q \in ReqType, q.cred \in CredType,
           q.steady => q.cred.kid \in pub
    PROVE  /\ Good(Concluded(q, "crashed", Anonymous), pub, ret, gone)
           /\ Concluded(q, "crashed", Anonymous).at = "ended"
           /\ Concluded(q, "crashed", Anonymous).principal = Anonymous
<1>1. NoReply \in Reply /\ NoReply.keys = {} /\ NoReply.kind = "none"
  BY DEF NoReply, Reply
<1>2. Concluded(q, "crashed", Anonymous) =
        [q EXCEPT !.at = "ended", !.reply = NoReply, !.result = "crashed",
                  !.principal = Anonymous, !.access = "error"]
  BY DEF Concluded
<1>3. Concluded(q, "crashed", Anonymous) \in ReqType
  BY <1>1, <1>2, AnonymousAccess DEF ReqType, Verdict
<1> QED
  BY <1>1, <1>2, <1>3 DEF Good, Asking, ReqType

LEMMA AcceptedIsGood ==
    ASSUME NEW pub, NEW ret, NEW gone, NEW q \in ReqType, q.cred \in CredType, q.cred.sound,
           q.steady => q.cred.kid \in pub,
           NEW p \in Names, p = "azure-ad" <=> q.cred.via \in {"azure", "code"},
           p = "azure-ad" => TenantOk(q.cred) /\ q.cred.kid \in pub \cup ret
    PROVE  /\ Good(Accepted(q, p), pub, ret, gone)
           /\ Accepted(q, p).at = "ended" /\ Accepted(q, p).principal.provider = p
           /\ Accepted(q, p).cred = q.cred
<1>1. NoReply \in Reply /\ NoReply.keys = {} /\ NoReply.kind = "none"
  BY DEF NoReply, Reply
<1>2. PICK principal \in Principals : principal = Principal(p, q.cred)
  BY DEF Principals
<1>3. PICK access \in Verdict : access = Access(principal)
  BY DEF Access, Verdict
<1>4. Accepted(q, p) = [q EXCEPT !.at = "ended", !.reply = NoReply, !.result = "succeeded",
                                 !.principal = principal, !.access = access]
  BY <1>2, <1>3 DEF Accepted, Concluded
<1>5. Accepted(q, p) \in ReqType
  BY <1>1, <1>4 DEF ReqType
<1>6. principal.provider = p
  BY <1>2 DEF Principal
<1>7. Vouched(Accepted(q, p), pub, ret)
  BY <1>2, <1>3, <1>4 DEF Vouched, ReqType
<1> QED
  BY <1>1, <1>4, <1>5, <1>6, <1>7 DEF Good, Asking, ReqType

\* The first search, which may be repeated, and the last.
SearchedFirst(q, ks) == Searched(q, ks, TRUE)
SearchedLast(q, ks) == Searched(q, ks, FALSE)

\* The search for the key of a token among keys the issuer publishes or did.
LEMMA SearchedIsGood ==
    ASSUME NEW pub, NEW ret, NEW gone, NEW q, Working(q, pub),
           NEW ks, ks \subseteq pub \cup ret, NEW n,
           \/ n = SearchedFirst(q, ks)
           \/ n = SearchedLast(q, ks) /\ (q.steady => q.cred.kid \in ks)
    PROVE  /\ Good(n, pub, ret, gone)
           /\ n.at \in {"ended", "refreshing"}
           /\ n.at = "ended" /\ n.principal.provider = "azure-ad" => n.cred.kid \in ks
<1>1. q \in ReqType /\ q.cred \in CredType /\ OfIssuer(q.cred) /\ (q.steady => q.cred.kid \in pub)
  BY DEF Working
<1>2. q.cred.via \in {"azure", "code"}
  BY <1>1, ProviderSupports DEF OfIssuer
<1>3. CASE q.cred.kid \in ks /\ q.cred.sound /\ TenantOk(q.cred)
  <2>1. n = Accepted(q, "azure-ad")
    BY <1>3 DEF SearchedFirst, SearchedLast, Searched, Decoded
  <2> QED
    BY <1>1, <1>2, <1>3, <2>1, AcceptedIsGood DEF Names
<1>4. CASE q.cred.kid \in ks /\ ~(q.cred.sound /\ TenantOk(q.cred))
  <2>1. n = Rejected(q)
    BY <1>4 DEF SearchedFirst, SearchedLast, Searched, Decoded
  <2> QED
    BY <1>1, <1>4, <2>1, RejectedIsGood DEF Trusted, Anonymous
<1>5. CASE q.cred.kid \notin ks /\ n = SearchedFirst(q, ks)
  <2>1. n = Asked(q, "refreshing")
    BY <1>5 DEF SearchedFirst, Searched
  <2> QED
    BY <2>1, AskedIsGood DEF Asking
<1>6. CASE q.cred.kid \notin ks /\ n = SearchedLast(q, ks) /\ ~q.steady
  <2>1. n = Rejected(q)
    BY <1>6 DEF SearchedLast, Searched
  <2> QED
    BY <1>1, <1>6, <2>1, RejectedIsGood DEF Trusted, Anonymous
<1> QED
  BY <1>3, <1>4, <1>5, <1>6

\* What a step that has the discovery document makes of a request.
Fine(n) ==
    /\ Good(n, published, retired, purged)
    /\ Ready(n, TRUE, jwks)
    /\ n.at = "ended" /\ n.principal.provider = "azure-ad" => n.cred.kid \notin purged

LEMMA KeySoughtIsFine ==
    ASSUME Keys, NEW q, Working(q, published)
    PROVE  Fine(KeySought(q))
<1>1. CASE jwks = None
  <2>1. KeySought(q) = Asked(q, "fetching")
    BY <1>1 DEF KeySought
  <2> QED
    BY <2>1, AskedIsGood DEF Fine, Ready, Asking
<1>2. CASE jwks # None
  <2>1. KeySought(q) = SearchedFirst(q, jwks)
    BY <1>2 DEF KeySought, SearchedFirst
  <2>2. jwks \subseteq published \cup retired /\ jwks \cap purged = {}
    BY <1>2 DEF Keys
  <2>3. PICK n : n = KeySought(q)
    OBVIOUS
  <2>4. /\ Good(n, published, retired, purged) /\ n.at \in {"ended", "refreshing"}
        /\ n.at = "ended" /\ n.principal.provider = "azure-ad" => n.cred.kid \in jwks
    BY <2>1, <2>2, <2>3, SearchedIsGood
  <2> QED
    BY <1>2, <2>2, <2>3, <2>4 DEF Fine, Ready
<1> QED
  BY <1>1, <1>2

LEMMA DiscoveredIsFine ==
    ASSUME Keys, NEW q, Working(q, published)
    PROVE  Fine(Discovered(q))
<1>1. CASE q.cred.via = "code"
  <2>1. Discovered(q) = Asked(q, "exchanging")
    BY <1>1 DEF Discovered
  <2> QED
    BY <1>1, <2>1, AskedIsGood DEF Fine, Ready, Asking
<1>2. CASE q.cred.via # "code"
  BY <1>2, KeySoughtIsFine DEF Discovered
<1> QED
  BY <1>1, <1>2

-----------------------------------------------------------------------------
(* Each action keeps the invariant, and accepts no token by a purged key.  *)

\* It suffices that the request a step is about stays good.
Refused == \A r \in Request :
    Ended(r)' /\ ~Ended(r) /\ req'[r].principal.provider = "azure-ad"
        => req'[r].cred.kid \notin purged

LEMMA InitEstablishesInvariant == Init => IInv
<1> SUFFICES ASSUME Init PROVE IInv
  OBVIOUS
<1>1. Keys
  BY DEF Init, Keys
<1>2. Idle \in ReqType
  BY AnonymousAccess DEF Idle, ReqType, NoReply, Reply
<1>3. Good(Idle, published, retired, purged) /\ Ready(Idle, discovery, jwks)
  BY <1>2 DEF Good, Ready, Idle, NoReply, Asking
<1> QED
  BY <1>1, <1>2, <1>3 DEF Init, IInv

\* A step that leaves the issuer and the caches alone.
LEMMA RequestStep ==
    ASSUME IInv, NEW r \in Request, NEW n, req' = [req EXCEPT ![r] = n],
           UNCHANGED <<published, retired, purged, discovery, jwks>>,
           Good(n, published, retired, purged), Ready(n, discovery, jwks),
           n.at = "ended" /\ n.principal.provider = "azure-ad" /\ ~Ended(r) => n.cred.kid \notin purged
    PROVE  IInv' /\ Refused
<1>1. n \in ReqType
  BY DEF Good
<1>2. Keys'
  BY DEF IInv, Keys
<1>3. req' \in [Request -> ReqType] /\ req'[r] = n /\ \A s \in Request : s # r => req'[s] = req[s]
  BY <1>1 DEF IInv
<1>4. \A s \in Request : Good(req'[s], published, retired, purged) /\ Ready(req'[s], discovery, jwks)
  BY <1>3 DEF IInv
<1>5. IInv'
  BY <1>2, <1>3, <1>4 DEF IInv, Good, Vouched, Ready
<1>6. Refused
  BY <1>3 DEF Refused, Ended
<1> QED
  BY <1>5, <1>6

LEMMA ArriveStep ==
    ASSUME IInv, NEW r \in Request, NEW c \in Credential, Arrive(r, c)
    PROVE  IInv' /\ Refused
<1> DEFINE q == [Idle EXCEPT !.cred = c, !.steady = c.kid \in published]
           p == Provider(c)
<1>1. c \in CredType
  BY IdentityAssumption DEF CredType
<1>2. q \in ReqType /\ q.cred = c /\ (q.steady => c.kid \in published)
  <2>1. (c.kid \in published) \in BOOLEAN
    OBVIOUS
  <2>2. PICK b \in BOOLEAN : b = (c.kid \in published)
    BY <2>1
  <2>3. q = [Idle EXCEPT !.cred = c, !.steady = b]
    BY <2>2
  <2>4. q \in ReqType /\ q.cred = c /\ q.steady = b
    <3> HIDE DEF q
    <3> QED
      BY <1>1, <2>3, AnonymousAccess DEF Idle, ReqType, NoReply, Reply
  <2> QED
    BY <2>2, <2>4
<1>3. Keys /\ discovery \in BOOLEAN
  BY DEF IInv, Keys
<1>4. PICK n : /\ req' = [req EXCEPT ![r] = n]
               /\ n = CASE c.via = "code" -> Oidc(q)
                        [] p = "azure-ad" /\ c.via # "code" -> Oidc(q)
                        [] p = "ldap" -> Asked(q, "binding")
                        [] p = "anonymous" /\ c.via # "code" -> Concluded(q, "succeeded", Anonymous)
                        [] OTHER -> IF c.sound THEN Accepted(q, p) ELSE Rejected(q)
  BY DEF Arrive
<1>5. UNCHANGED <<published, retired, purged, discovery, jwks>>
  BY DEF Arrive
<1> HIDE DEF q, p
<1>6. p = Provider(c)
  BY DEF p
<1>7. /\ p \in Names \cup {"anonymous"}
      /\ p = "ldap" => c.via \in {"basic", "malformed"}
      /\ p = "azure-ad" => c.via = "azure"
      /\ p = "jwt" => c.via = "token"
      /\ p = "api-key" => c.via = "key"
  BY <1>1, <1>6, ProviderSupports
<1>8. /\ Good(n, published, retired, purged) /\ Ready(n, discovery, jwks)
      /\ n.at = "ended" /\ n.principal.provider = "azure-ad" => n.cred.kid \notin purged
  <2>1. CASE c.via = "code" \/ p = "azure-ad"
    <3>1. Working(q, published)
      BY <1>1, <1>2, <1>6, <2>1 DEF Working, OfIssuer
    <3>2. n = Oidc(q)
      BY <1>4, <1>7, <2>1
    <3>3. CASE discovery
      <4>1. Fine(Discovered(q))
        BY <1>3, <3>1, DiscoveredIsFine
      <4> QED
        BY <3>2, <3>3, <4>1 DEF Oidc, Fine, Ready
    <3>4. CASE ~discovery
      <4>1. n = Asked(q, "discovering")
        BY <3>2, <3>4 DEF Oidc
      <4> QED
        BY <3>1, <4>1, AskedIsGood DEF Asking, Ready
    <3> QED
      BY <3>3, <3>4
  <2>2. CASE p = "ldap"
    <3>1. n = [q EXCEPT !.at = "binding", !.reply = NoReply]
      BY <1>4, <1>7, <2>2 DEF Asked
    <3>2. n \in ReqType
      BY <1>2, <3>1 DEF ReqType, NoReply, Reply
    <3> QED
      BY <1>1, <1>2, <1>6, <1>7, <2>2, <3>1, <3>2 DEF Good, Ready, ReqType, NoReply, Asking
  <2>3. CASE p = "anonymous" /\ c.via # "code"
    <3>1. n = [q EXCEPT !.at = "ended", !.reply = NoReply, !.result = "succeeded",
                        !.principal = Anonymous, !.access = "unauthenticated"]
      BY <1>4, <2>3, AnonymousAccess DEF Concluded
    <3>2. n \in ReqType
      BY <1>2, <3>1, AnonymousAccess DEF ReqType, NoReply, Reply, Verdict
    <3> QED
      BY <1>1, <1>2, <3>1, <3>2 DEF Good, Ready, ReqType, NoReply, Asking, Anonymous
  <2>4. CASE p \in {"jwt", "api-key"}
    <3>1. n = IF c.sound THEN Accepted(q, p) ELSE Rejected(q)
      BY <1>4, <1>7, <2>4
    <3>2. CASE c.sound
      BY <1>1, <1>2, <1>7, <2>4, <3>1, <3>2, AcceptedIsGood DEF Ready, Names
    <3>3. CASE ~c.sound
      BY <1>1, <1>2, <3>1, <3>3, RejectedIsGood DEF Ready, Trusted, Anonymous
    <3> QED
      BY <3>2, <3>3
  <2> QED
    BY <1>7, <2>1, <2>2, <2>3, <2>4 DEF Names
<1> QED
  BY <1>4, <1>5, <1>8, RequestStep

LEMMA BoundStep == ASSUME IInv, NEW r \in Request, Bound(r) PROVE IInv' /\ Refused
<1> DEFINE q == req[r]
<1>1. /\ Good(q, published, retired, purged) /\ q.at = "binding"
      /\ UNCHANGED <<published, retired, purged, discovery, jwks>>
  BY DEF Bound, IInv
<1>2. PICK n : /\ req' = [req EXCEPT ![r] = n]
               /\ (q.cred.sound /\ n = Accepted(q, "ldap")) \/ n = Rejected(q)
  BY DEF Bound, IInv
<1>3. /\ q \in ReqType /\ q.cred \in CredType /\ (q.steady => q.cred.kid \in published)
      /\ q.cred.via # "code" /\ Provider(q.cred) = "ldap"
  BY <1>1 DEF Good, Asking
<1>4. q.cred.via \in {"basic", "malformed"}
  BY <1>3, ProviderSupports
<1> HIDE DEF q
<1>5. CASE q.cred.sound /\ n = Accepted(q, "ldap")
  <2>1. /\ Good(n, published, retired, purged) /\ n.at = "ended" /\ n.principal.provider = "ldap"
    BY <1>3, <1>4, <1>5, AcceptedIsGood DEF Names
  <2> QED
    BY <1>1, <1>2, <2>1, RequestStep DEF Ready
<1>6. CASE n = Rejected(q)
  <2>1. /\ Good(n, published, retired, purged) /\ n.at = "ended" /\ n.principal.provider = "anonymous"
    BY <1>3, <1>6, RejectedIsGood DEF OfIssuer, Anonymous
  <2> QED
    BY <1>1, <1>2, <2>1, RequestStep DEF Ready
<1> QED
  BY <1>2, <1>5, <1>6

LEMMA AnswerStep == ASSUME IInv, NEW r \in Request, Answer(r) PROVE IInv' /\ Refused
<1> DEFINE q == req[r]
<1>1. /\ Good(q, published, retired, purged) /\ Ready(q, discovery, jwks) /\ Keys /\ q.at \in Asking
      /\ UNCHANGED <<published, retired, purged, discovery, jwks>>
  BY DEF Answer, Waiting, IInv
<1>2. PICK reply \in [kind : {"keys"}, keys : IF q.at = "exchanging"
                                             THEN {{k} : k \in published} ELSE {published}]
                     \cup [kind : {"error", "unreadable"}, keys : {{}}] :
        req' = [req EXCEPT ![r].reply = reply, ![r].unlucky = @ \/ reply.kind # "keys"]
  BY DEF Answer
<1>a. \/ /\ reply.kind = "keys" /\ reply.keys \subseteq published
         /\ q.at # "exchanging" => reply.keys = published
      \/ reply.kind \in {"error", "unreadable"} /\ reply.keys = {}
  OBVIOUS
<1>b. reply \in [kind : {"keys", "error", "unreadable"}, keys : SUBSET Kid]
  <2>1. published \in SUBSET Kid /\ \A k \in published : {k} \in SUBSET Kid
    BY <1>1 DEF Keys
  <2> QED
    BY <2>1
<1>3. PICK n : n = [q EXCEPT !.reply = reply, !.unlucky = @ \/ reply.kind # "keys"]
  OBVIOUS
<1>4. req' = [req EXCEPT ![r] = n]
  BY <1>2, <1>3 DEF IInv
<1> HIDE DEF q
<1>5. q \in ReqType
  BY <1>1 DEF Good
<1>6. n \in ReqType
  BY <1>b, <1>3, <1>5 DEF ReqType, Reply
<1>7. Good(n, published, retired, purged)
  <2>1. /\ n.at = q.at /\ n.cred = q.cred /\ n.steady = q.steady /\ n.reply = reply
        /\ n.unlucky = (q.unlucky \/ reply.kind # "keys")
    BY <1>3, <1>5 DEF ReqType
  <2>2. reply.keys \subseteq published
    BY <1>a
  <2>3. n.unlucky \in BOOLEAN /\ (reply.kind # "keys" => n.unlucky)
    BY <1>6, <2>1 DEF ReqType
  <2>4. published \cap purged = {}
    BY <1>1 DEF Keys
  <2> QED
    BY <1>1, <1>a, <1>6, <2>1, <2>2, <2>3, <2>4 DEF Good, Asking
<1> QED
  BY <1>1, <1>3, <1>4, <1>5, <1>7, RequestStep DEF Ready, ReqType, Asking

LEMMA FailStep == ASSUME IInv, NEW r \in Request, Fail(r) PROVE IInv' /\ Refused
<1> DEFINE q == req[r]
<1>1. /\ Good(q, published, retired, purged) /\ q.at \in Asking /\ q.reply.kind \notin {"none", "keys"}
      /\ UNCHANGED <<published, retired, purged, discovery, jwks>>
  BY DEF Fail, Answered, IInv
<1>2. PICK n : /\ req' = [req EXCEPT ![r] = n]
               /\ n = Rejected(q) \/ n = Concluded(q, "crashed", Anonymous)
  BY DEF Fail, IInv
<1>3. /\ q \in ReqType /\ q.cred \in CredType /\ (q.steady => q.cred.kid \in published)
      /\ q.unlucky
  BY <1>1 DEF Good, Asking, ReqType, Reply
<1> HIDE DEF q
<1>4. /\ Good(n, published, retired, purged) /\ n.at = "ended" /\ n.principal = Anonymous
  BY <1>2, <1>3, RejectedIsGood, CrashedIsGood
<1>5. n.principal.provider # "azure-ad"
  BY <1>4 DEF Anonymous
<1> QED
  BY <1>1, <1>2, <1>4, <1>5, RequestStep DEF Ready

LEMMA ExchangeStep == ASSUME IInv, NEW r \in Request, Exchange(r) PROVE IInv' /\ Refused
<1> DEFINE q == req[r]
<1>1. /\ Good(q, published, retired, purged) /\ Ready(q, discovery, jwks) /\ Keys
      /\ q.at = "exchanging"
      /\ UNCHANGED <<published, retired, purged, discovery, jwks>>
  BY DEF Exchange, IInv
<1>2. PICK k \in q.reply.keys :
        req' = [req EXCEPT ![r] = KeySought([q EXCEPT !.cred.kid = k, !.steady = k \in published])]
  BY DEF Exchange, IInv
<1>3. /\ q \in ReqType /\ q.cred \in CredType /\ q.cred.via = "code" /\ k \in Kid /\ discovery
  BY <1>1 DEF Good, Ready, ReqType, Reply
<1> HIDE DEF q
<1>4. PICK m : m = [q EXCEPT !.cred.kid = k, !.steady = k \in published]
  OBVIOUS
<1>a. (k \in published) \in BOOLEAN
  OBVIOUS
<1>b. PICK b \in BOOLEAN : b = (k \in published)
  BY <1>a
<1>5. PICK c \in CredType : c = [q.cred EXCEPT !.kid = k]
  BY <1>3 DEF CredType
<1>6. m = [q EXCEPT !.cred = c, !.steady = b]
  BY <1>b, <1>3, <1>4, <1>5 DEF ReqType
<1>7. c.via = "code" /\ c.kid = k
  BY <1>3, <1>5 DEF CredType
<1>8. m \in ReqType /\ m.cred = c /\ (m.steady => k \in published)
  <2>1. m \in ReqType /\ m.cred = c /\ m.steady = b
    BY <1>3, <1>6 DEF ReqType
  <2> QED
    BY <2>1, <1>b
<1>9. Working(m, published)
  BY <1>7, <1>8 DEF Working, OfIssuer
<1>10. Fine(KeySought(m))
  BY <1>1, <1>9, KeySoughtIsFine
<1> QED
  BY <1>1, <1>2, <1>3, <1>4, <1>10, RequestStep DEF Fine

LEMMA LeaveStep == ASSUME IInv, NEW r \in Request, Leave(r) PROVE IInv' /\ Refused
<1>1. Idle \in ReqType
  BY AnonymousAccess DEF Idle, ReqType, NoReply, Reply
<1>2. Good(Idle, published, retired, purged) /\ Ready(Idle, discovery, jwks) /\ Idle.at = "idle"
  BY <1>1 DEF Good, Ready, Idle, NoReply, Asking
<1> QED
  BY <1>2, RequestStep DEF Leave

LEMMA DiscoverStep == ASSUME IInv, NEW r \in Request, Discover(r) PROVE IInv' /\ Refused
<1> DEFINE q == req[r]
<1>1. /\ Good(q, published, retired, purged) /\ Keys /\ q.at = "discovering"
      /\ UNCHANGED <<published, retired, purged, jwks>> /\ discovery' = TRUE
  BY DEF Discover, IInv
<1>2. PICK n : n = Discovered(q) /\ req' = [req EXCEPT ![r] = n]
  BY DEF Discover, IInv
<1> HIDE DEF q
<1>3. Working(q, published)
  BY <1>1 DEF Good, Working, Asking
<1>4. Fine(n)
  BY <1>1, <1>2, <1>3, DiscoveredIsFine
<1>5. req' \in [Request -> ReqType] /\ req'[r] = n /\ \A s \in Request : s # r => req'[s] = req[s]
  BY <1>2, <1>4 DEF IInv, Fine, Good
<1>6. \A s \in Request : Good(req'[s], published, retired, purged) /\ Ready(req'[s], TRUE, jwks)
  BY <1>4, <1>5 DEF IInv, Fine, Ready
<1>7. IInv'
  BY <1>1, <1>5, <1>6 DEF IInv, Keys, Good, Vouched, Ready
<1>8. Refused
  BY <1>4, <1>5 DEF Refused, Ended, Fine
<1> QED
  BY <1>7, <1>8

LEMMA StoreStep == ASSUME IInv, NEW r \in Request, Store(r) PROVE IInv' /\ Refused
<1> DEFINE q == req[r]
           again == q.at = "fetching"
<1>1. /\ Good(q, published, retired, purged) /\ Ready(q, discovery, jwks) /\ Keys
      /\ q.at \in {"fetching", "refreshing"} /\ q.reply.kind = "keys"
      /\ UNCHANGED <<published, retired, discovery>>
      /\ jwks' = q.reply.keys /\ purged' = purged \cup Gone(r, q.reply.keys)
  BY DEF Store, IInv
<1>2. PICK n : n = Searched(q, q.reply.keys, again) /\ req' = [req EXCEPT ![r] = n]
  BY DEF Store, IInv
<1>3. /\ Working(q, published) /\ q.reply.keys \in SUBSET Kid
      /\ q.reply.keys \subseteq published \cup retired /\ q.reply.keys \cap purged = {}
      /\ q.steady => q.cred.kid \in q.reply.keys
  BY <1>1 DEF Good, Working, Asking, ReqType, Reply
<1>4. jwks' # None
  BY <1>1, <1>3, IdentityAssumption
<1>5. PICK gone : gone = purged \cup Gone(r, q.reply.keys)
  OBVIOUS
<1>6. gone \subseteq retired /\ q.reply.keys \cap gone = {}
  BY <1>1, <1>3, <1>5 DEF Keys, Gone
<1>7. \A s \in Request : s # r => req[s].reply.keys \cap gone = {}
  BY <1>5 DEF Gone, IInv, Good
<1> HIDE DEF q
<1>8. /\ Good(n, published, retired, gone)
      /\ n.at \in {"ended", "refreshing"}
      /\ n.at = "ended" /\ n.principal.provider = "azure-ad" => n.cred.kid \in q.reply.keys
  <2>1. n = SearchedFirst(q, q.reply.keys) \/ n = SearchedLast(q, q.reply.keys)
    <3>1. CASE q.at = "fetching"
      BY <1>2, <3>1 DEF SearchedFirst
    <3>2. CASE q.at # "fetching"
      BY <1>2, <3>2 DEF SearchedLast
    <3> QED
      BY <3>1, <3>2
  <2>2. PICK ks : ks = q.reply.keys
    OBVIOUS
  <2>3. /\ Working(q, published) /\ ks \subseteq published \cup retired
        /\ n = SearchedFirst(q, ks) \/ n = SearchedLast(q, ks)
        /\ q.steady => q.cred.kid \in ks
    BY <1>3, <2>1, <2>2
  <2>4. /\ Good(n, published, retired, gone) /\ n.at \in {"ended", "refreshing"}
        /\ n.at = "ended" /\ n.principal.provider = "azure-ad" => n.cred.kid \in ks
    <3>1. CASE n = SearchedFirst(q, ks)
      BY <2>3, <3>1, SearchedIsGood
    <3>2. CASE n = SearchedLast(q, ks)
      BY <2>3, <3>2, SearchedIsGood
    <3> QED
      BY <2>3, <3>1, <3>2
  <2> QED
    BY <2>2, <2>4
<1>9. req' \in [Request -> ReqType] /\ req'[r] = n /\ \A s \in Request : s # r => req'[s] = req[s]
  BY <1>2, <1>8 DEF IInv, Good
<1>10. \A s \in Request : Good(req'[s], published, retired, gone)
  <2>1. \A s \in Request : Good(req[s], published, retired, purged)
    BY DEF IInv
  <2> QED
    BY <1>7, <1>8, <1>9, <2>1 DEF Good
<1>11. \A s \in Request : Ready(req'[s], discovery, jwks')
  BY <1>1, <1>4, <1>8, <1>9 DEF IInv, Ready
<1>12. Keys'
  BY <1>1, <1>3, <1>5, <1>6 DEF Keys, Ready
<1>13. IInv'
  BY <1>1, <1>5, <1>9, <1>10, <1>11, <1>12 DEF IInv, Good, Vouched, Ready
<1>14. Refused
  BY <1>3, <1>8, <1>9 DEF Refused, Ended
<1> QED
  BY <1>13, <1>14

LEMMA IssuerStep == ASSUME IInv, NEW k \in Kid, Publish(k) \/ Withdraw(k) PROVE IInv' /\ Refused
<1>1. /\ published \cup retired \subseteq published' \cup retired' /\ UNCHANGED purged
      /\ UNCHANGED <<discovery, jwks>> /\ retired \subseteq retired'
      /\ published' \subseteq Kid /\ retired' \subseteq Kid /\ published' \cap retired' = {}
  BY DEF Publish, Withdraw, IInv, Keys
<1>2. Keys'
  BY <1>1 DEF IInv, Keys
<1>3. req' \in [Request -> ReqType]
  <2>1. \A r \in Request : req[r] \in ReqType /\ [req[r] EXCEPT !.steady = FALSE] \in ReqType
    BY DEF IInv, ReqType
  <2>2. CASE Publish(k)
    BY <2>2 DEF Publish, IInv
  <2>3. CASE Withdraw(k)
    BY <2>1, <2>3 DEF Withdraw
  <2> QED
    BY <2>2, <2>3
<1>4. ASSUME NEW r \in Request
      PROVE  /\ Good(req'[r], published', retired', purged') /\ Ready(req'[r], discovery', jwks')
             /\ req'[r].at = req[r].at
  <2>1. Good(req[r], published, retired, purged) /\ Ready(req[r], discovery, jwks)
    BY DEF IInv
  <2>2. CASE Withdraw(k) /\ req[r].steady /\ req[r].cred.kid = k
    <3>1. req'[r] = [req[r] EXCEPT !.steady = FALSE] /\ req'[r] \in ReqType
      BY <1>3, <2>2 DEF Withdraw
    <3>2. req[r] \in ReqType
      BY DEF IInv
    <3> QED
      BY <1>1, <2>1, <3>1, <3>2 DEF Good, Ready, ReqType, Trusted, Vouched
  <2>3. CASE ~(Withdraw(k) /\ req[r].steady /\ req[r].cred.kid = k)
    <3>1. req'[r] = req[r] /\ (req[r].steady => req[r].cred.kid \in published')
      BY <2>1, <2>3 DEF Publish, Withdraw, Good
    <3> QED
      BY <1>1, <2>1, <3>1 DEF Good, Ready, Vouched
  <2> QED
    BY <2>2, <2>3
<1>5. IInv'
  BY <1>2, <1>3, <1>4 DEF IInv, Good, Vouched, Ready
<1>6. Refused
  BY <1>4 DEF Refused, Ended
<1> QED
  BY <1>5, <1>6

LEMMA NextKeepsInvariant == ASSUME IInv, [Next]_vars PROVE IInv' /\ (Refused \/ UNCHANGED vars)
<1>1. CASE Next
  BY <1>1, ArriveStep, BoundStep, AnswerStep, FailStep, DiscoverStep, StoreStep, ExchangeStep,
     LeaveStep, IssuerStep DEF Next
<1>2. CASE UNCHANGED vars
  BY <1>2 DEF vars, IInv, Keys, Good, Vouched, Ready
<1> QED
  BY <1>1, <1>2

-----------------------------------------------------------------------------
(* The theorems.                                                           *)

LEMMA InvariantHolds == Spec => []IInv
<1> QED
  BY InitEstablishesInvariant, NextKeepsInvariant, PTL DEF Spec

\* Every variable stays in its range: a request waits for the issuer only
\* where the caches it goes by were filled before.
THEOREM TypeCorrect == Spec => []TypeOK
<1>1. IInv => TypeOK
  BY DEF IInv, Keys, Good, Ready, ReqType, TypeOK
<1> QED
  BY <1>1, InvariantHolds, PTL

\* However many requests, rotations and late replies: a sound token by a key
\* published all along is refused only if a call to the issuer failed.
THEOREM RotationIsNotFelt == Spec => []PublishedKeyAccepted
<1>1. IInv => PublishedKeyAccepted
  BY DEF IInv, Good, Trusted, OfIssuer, PublishedKeyAccepted, Ended
<1> QED
  BY <1>1, InvariantHolds, PTL

\* Whatever the catalogue of roles, the providers and the demands: what calls
\* the endpoint is a sound credential that itself holds what is asked for.
THEOREM OnlyTheEntitledCall == Spec => []CalledByTheEntitled
<1>1. IInv => CalledByTheEntitled
  <2> SUFFICES ASSUME IInv, NEW r \in Request, Ended(r), req[r].access = "called"
               PROVE  LET c == req[r].cred
                          known == {role \in c.roles : role \in DOMAIN Grants}
                      IN  /\ c.sound
                          /\ c.via \in {"azure", "code"} =>
                               /\ c.kid \in published \cup retired
                               /\ c.tenant \in Allowed
                          /\ Need.roles # {} => \E role \in known : role \in Need.roles
                          /\ Need.permissions # {} =>
                               \/ \E perm \in Need.permissions : perm \in c.scopes
                               \/ \E role \in known : Grants[role] \cap Need.permissions # {}
    BY DEF CalledByTheEntitled
  <2> DEFINE c == req[r].cred
  <2>1. Vouched(req[r], published, retired)
    BY DEF IInv, Good, Ended
  <2>2. PICK p \in Names : req[r].principal = Principal(p, c)
    BY <2>1 DEF Vouched
  <2>3. Access(Principal(p, c)) = "called"
    BY <2>1, <2>2 DEF Vouched
  <2>4. /\ Need.roles # {} => Need.roles \cap Principal(p, c).roles # {}
        /\ Need.permissions # {} => Need.permissions \cap Principal(p, c).permissions # {}
    BY <2>3 DEF Access
  <2>5. /\ Principal(p, c).roles \subseteq c.roles \cap DOMAIN Grants
        /\ Principal(p, c).permissions \subseteq
             c.scopes \cup UNION {Grants[role] : role \in c.roles \cap DOMAIN Grants}
    BY DEF Principal
  <2> QED
    BY <2>1, <2>4, <2>5 DEF Vouched, TenantOk
<1> QED
  BY <1>1, InvariantHolds, PTL

\* No step accepts a token by a key that is purged.
THEOREM PurgedKeysAreRefused == Spec => PurgedKeysStayRefused
<1>1. ASSUME IInv, [Next]_vars PROVE Refused \/ UNCHANGED vars
  BY <1>1, NextKeepsInvariant
<1> QED
  BY <1>1, InvariantHolds, PTL DEF Spec, PurgedKeysStayRefused, Refused

-----------------------------------------------------------------------------
(* Tokens and API keys.                                                    *)

Refreshing(n) == [pair |-> n, type |-> "refresh"]

\* A revocation is there as long as its token is not expired, and a pair that
\* came from a refresh token withdrew it.
Stored ==
    /\ \A tok \in withdrawn : clock <= Issued!Exp(tok) => tok \in DOMAIN revoked
    /\ \A n \in 1..Len(pairs) :
          pairs[n].from # 0 => pairs[n].from < n /\ Refreshing(pairs[n].from) \in withdrawn

\* A pair that came from the same refresh token as an earlier one came when
\* that token had expired.
Once ==
    \A m, n \in 1..Len(pairs) :
        (m < n /\ pairs[m].from # 0 /\ pairs[m].from = pairs[n].from)
            => pairs[n].issued > pairs[pairs[n].from].issued + RefreshTTL

\* A key that was rotated was revoked, and no key names itself.
Rotated ==
    \A n \in 1..Len(keys) :
        keys[n].rotated # 0 =>
            /\ keys[n].rotated < n
            /\ keys[keys[n].rotated].revoked = TRUE

TokensIInv == Issued!TypeOK /\ Stored /\ Once /\ Rotated

LEMMA TokenParams ==
    /\ AccessTTL \in Nat /\ RefreshTTL \in Nat /\ Skew \in Nat
    /\ KeyTTL \subseteq Nat
    /\ MaxPairs \in Nat /\ MaxKeys \in Nat /\ MaxTime \in Nat
BY IssuedAssumption DEF Issued!TokensAssumption

LEMMA MemberOf ==
    ASSUME NEW S, NEW s \in Seq(S), NEW n \in 1..Len(s)
    PROVE  s[n] \in S
OBVIOUS

\* A pair keeps its place, and its tokens their expiry.
LEMMA PairsAppended ==
    ASSUME Issued!TypeOK, NEW parent \in 0..MaxPairs,
           Len(pairs) < MaxPairs, Issued!Issued(parent)
    PROVE  /\ pairs' \in Seq([issued : 0..MaxTime, from : 0..MaxPairs])
           /\ Len(pairs') = Len(pairs) + 1 /\ Len(pairs') <= MaxPairs
           /\ \A n \in 1..Len(pairs) : pairs'[n] = pairs[n]
           /\ pairs'[Len(pairs) + 1] = [issued |-> clock, from |-> parent]
           /\ Issued!Token \subseteq Issued!Token'
           /\ \A tok \in Issued!Token : Issued!Exp(tok)' = Issued!Exp(tok)
<1> DEFINE new == [issued |-> clock, from |-> parent]
<1>1. /\ pairs \in Seq([issued : 0..MaxTime, from : 0..MaxPairs])
      /\ new \in [issued : 0..MaxTime, from : 0..MaxPairs]
      /\ pairs' = Append(pairs, new)
  BY DEF Issued!TypeOK, Issued!Issued
<1> HIDE DEF new
<1>2. /\ pairs' \in Seq([issued : 0..MaxTime, from : 0..MaxPairs])
      /\ Len(pairs') = Len(pairs) + 1 /\ Len(pairs') <= MaxPairs
      /\ \A n \in 1..Len(pairs) : pairs'[n] = pairs[n]
      /\ pairs'[Len(pairs) + 1] = new
  BY <1>1, TokenParams
<1>3. Issued!Token \subseteq Issued!Token'
  <2>1. 1..Len(pairs) \subseteq 1..Len(pairs')
    BY <1>1, <1>2
  <2> QED
    BY <2>1 DEF Issued!Token
<1>4. \A tok \in Issued!Token : Issued!Exp(tok)' = Issued!Exp(tok)
  <2> SUFFICES ASSUME NEW tok \in Issued!Token
               PROVE  Issued!Exp(tok)' = Issued!Exp(tok)
    OBVIOUS
  <2>1. tok.pair \in 1..Len(pairs)
    BY DEF Issued!Token
  <2>2. pairs'[tok.pair] = pairs[tok.pair]
    BY <1>2, <2>1
  <2> QED
    BY <2>2 DEF Issued!Exp, Issued!TTL
<1> QED
  BY <1>2, <1>3, <1>4 DEF new

LEMMA TokenOf ==
    ASSUME Issued!TypeOK, NEW tok \in Issued!Token
    PROVE  /\ tok.pair \in 1..Len(pairs) /\ tok.type \in Issued!Type
           /\ Issued!Exp(tok) \in Nat
           /\ tok.type = "refresh" => tok = Refreshing(tok.pair)
<1>1. tok.pair \in 1..Len(pairs) /\ tok.type \in Issued!Type
      /\ tok = [pair |-> tok.pair, type |-> tok.type]
  BY DEF Issued!Token
<1>2. pairs[tok.pair].issued \in Nat
  <2>1. pairs[tok.pair] \in [issued : 0..MaxTime, from : 0..MaxPairs]
    BY <1>1, MemberOf DEF Issued!TypeOK
  <2> QED
    BY <2>1, TokenParams
<1>3. Issued!Exp(tok) \in Nat
  BY <1>2, TokenParams DEF Issued!Exp, Issued!TTL
<1> QED
  BY <1>1, <1>3 DEF Refreshing

\* What Evicted leaves are the revocations that are not over, and those of the
\* tokens that may still be accepted.
LEMMA EvictedKeeps ==
    ASSUME Issued!TypeOK, Stored, NEW tok \in withdrawn, clock <= Issued!Exp(tok)
    PROVE  tok \in Issued!Evicted
<1>1. tok \in DOMAIN revoked /\ revoked[tok] = Issued!Exp(tok)
  BY DEF Stored, Issued!TypeOK
<1>2. Issued!Exp(tok) \in Nat /\ clock \in Nat
  BY TokenOf, TokenParams DEF Issued!TypeOK
<1> QED
  BY <1>1, <1>2 DEF Issued!Evicted

LEMMA WithoutOf ==
    ASSUME Issued!TypeOK
    PROVE  /\ DOMAIN Issued!Without(Issued!Evicted) = Issued!Evicted
           /\ Issued!Evicted \subseteq DOMAIN revoked
           /\ \A tok \in Issued!Evicted : Issued!Without(Issued!Evicted)[tok] = Issued!Exp(tok)
BY DEF Issued!Without, Issued!Evicted, Issued!TypeOK

-----------------------------------------------------------------------------
(* The steps.                                                              *)

LEMMA TokensStart == Issued!Init => TokensIInv
<1> SUFFICES ASSUME Issued!Init PROVE TokensIInv
  OBVIOUS
<1>1. pairs = <<>> /\ Len(pairs) = 0 /\ keys = <<>> /\ Len(keys) = 0
  BY DEF Issued!Init
<1>2. Issued!TypeOK
  BY <1>1, TokenParams DEF Issued!Init, Issued!TypeOK
<1>3. Stored /\ Once /\ Rotated
  BY <1>1 DEF Issued!Init, Stored, Once, Rotated
<1> QED
  BY <1>2, <1>3 DEF TokensIInv


\* A pair more, of a parent that is none or a withdrawn token whose earlier
\* pairs came before it expired.
LEMMA PairsGrow ==
    ASSUME TokensIInv, NEW parent \in 0..MaxPairs,
           Len(pairs) < MaxPairs, Issued!Issued(parent),
           withdrawn \subseteq withdrawn', clock' = clock,
           parent # 0 =>
              /\ parent \in 1..Len(pairs) /\ Refreshing(parent) \in withdrawn'
              /\ Refreshing(parent) \in withdrawn => clock > pairs[parent].issued + RefreshTTL
    PROVE  /\ \A n \in 1..Len(pairs') :
                pairs'[n].from # 0 =>
                    pairs'[n].from < n /\ Refreshing(pairs'[n].from) \in withdrawn'
           /\ Once'
<1>1. /\ Issued!TypeOK /\ Stored /\ Once
      /\ pairs \in Seq([issued : 0..MaxTime, from : 0..MaxPairs])
  BY DEF TokensIInv, Issued!TypeOK
<1>2. /\ Len(pairs') = Len(pairs) + 1
      /\ \A n \in 1..Len(pairs) : pairs'[n] = pairs[n]
      /\ pairs'[Len(pairs) + 1] = [issued |-> clock, from |-> parent]
  BY <1>1, PairsAppended
<1>3. ASSUME NEW n \in 1..Len(pairs), pairs[n].from # 0
      PROVE  /\ pairs[n].from \in 1..Len(pairs) /\ pairs[n].from < n
             /\ Refreshing(pairs[n].from) \in withdrawn
  <2>1. pairs[n].from \in Nat
    <3>1. pairs[n] \in [issued : 0..MaxTime, from : 0..MaxPairs]
      BY <1>1, MemberOf
    <3> QED
      BY <3>1, TokenParams
  <2>2. pairs[n].from < n /\ Refreshing(pairs[n].from) \in withdrawn
    BY <1>1, <1>3 DEF Stored
  <2> QED
    BY <1>1, <1>3, <2>1, <2>2
<1>4. ASSUME NEW n \in 1..Len(pairs'), pairs'[n].from # 0
      PROVE  pairs'[n].from < n /\ Refreshing(pairs'[n].from) \in withdrawn'
  <2>1. CASE n \in 1..Len(pairs)
    <3>1. pairs'[n] = pairs[n]
      BY <1>2, <2>1
    <3> QED
      BY <1>3, <1>4, <2>1, <3>1
  <2>2. CASE n = Len(pairs) + 1
    BY <1>2, <1>4, <2>2
  <2> QED
    BY <1>1, <1>2, <2>1, <2>2
<1>5. ASSUME NEW m \in 1..Len(pairs'), NEW n \in 1..Len(pairs'),
             m < n, pairs'[m].from # 0, pairs'[m].from = pairs'[n].from
      PROVE  pairs'[n].issued > pairs'[pairs'[n].from].issued + RefreshTTL
  <2>1. m \in 1..Len(pairs) /\ pairs'[m] = pairs[m]
    BY <1>1, <1>2, <1>5
  <2>2. CASE n \in 1..Len(pairs)
    <3>1. pairs'[n] = pairs[n]
      BY <1>2, <2>2
    <3>2. pairs'[pairs[n].from] = pairs[pairs[n].from]
      BY <1>2, <1>3, <1>5, <2>1, <2>2, <3>1
    <3>3. pairs[n].issued > pairs[pairs[n].from].issued + RefreshTTL
      BY <1>1, <1>5, <2>1, <2>2, <3>1 DEF Once
    <3> QED
      BY <3>1, <3>2, <3>3
  <2>3. CASE n = Len(pairs) + 1
    <3>1. pairs'[n].from = parent /\ pairs'[n].issued = clock /\ parent # 0
      BY <1>2, <1>5, <2>3
    <3>2. Refreshing(parent) \in withdrawn
      BY <1>3, <1>5, <2>1, <3>1
    <3>3. clock > pairs[parent].issued + RefreshTTL /\ pairs'[parent] = pairs[parent]
      BY <1>2, <3>1, <3>2
    <3> QED
      BY <3>1, <3>3
  <2> QED
    BY <1>1, <1>2, <2>2, <2>3
<1>6. Once'
  BY <1>5 DEF Once
<1> QED
  BY <1>4, <1>6

LEMMA IssueStep ==
    ASSUME TokensIInv, Issued!Issue
    PROVE  TokensIInv'
<1>1. /\ Issued!TypeOK /\ Stored /\ Rotated
      /\ Len(pairs) < MaxPairs /\ Issued!Issued(0) /\ 0 \in 0..MaxPairs
      /\ UNCHANGED <<clock, revoked, keys, withdrawn>>
  BY TokenParams DEF TokensIInv, Issued!Issue
<1>2. /\ pairs' \in Seq([issued : 0..MaxTime, from : 0..MaxPairs])
      /\ Len(pairs') <= MaxPairs
      /\ Issued!Token \subseteq Issued!Token'
      /\ \A tok \in Issued!Token : Issued!Exp(tok)' = Issued!Exp(tok)
  BY <1>1, PairsAppended
<1>3. /\ \A n \in 1..Len(pairs') :
           pairs'[n].from # 0 =>
               pairs'[n].from < n /\ Refreshing(pairs'[n].from) \in withdrawn'
      /\ Once'
  BY <1>1, PairsGrow
<1>4. Issued!TypeOK'
  BY <1>1, <1>2 DEF Issued!TypeOK
<1>5. ASSUME NEW tok \in withdrawn', clock' <= Issued!Exp(tok)'
      PROVE  tok \in DOMAIN revoked'
  BY <1>1, <1>2, <1>5 DEF Stored, Issued!TypeOK
<1>6. Stored'
  BY <1>3, <1>5 DEF Stored, Refreshing
<1>7. Rotated'
  BY <1>1 DEF Rotated
<1> QED
  BY <1>3, <1>4, <1>6, <1>7 DEF TokensIInv

\* Only the store changes, and keeps what it must.
LEMMA RevocationsKept ==
    ASSUME TokensIInv, UNCHANGED <<clock, pairs, keys>>,
           withdrawn \subseteq withdrawn', withdrawn' \subseteq Issued!Token,
           DOMAIN revoked' \subseteq Issued!Token,
           \A tok \in DOMAIN revoked' : revoked'[tok] = Issued!Exp(tok),
           \A tok \in withdrawn' : clock <= Issued!Exp(tok) => tok \in DOMAIN revoked'
    PROVE  TokensIInv'
<1>1. Issued!Token' = Issued!Token /\ \A tok : Issued!Exp(tok)' = Issued!Exp(tok)
  BY DEF Issued!Token, Issued!Exp
<1>2. Issued!TypeOK'
  BY <1>1 DEF TokensIInv, Issued!TypeOK
<1>3. Stored'
  BY <1>1 DEF TokensIInv, Stored, Refreshing
<1>4. Once' /\ Rotated'
  BY DEF TokensIInv, Once, Rotated
<1> QED
  BY <1>2, <1>3, <1>4 DEF TokensIInv

LEMMA LookStep ==
    ASSUME TokensIInv, NEW tok \in Issued!Token, Issued!Look(tok)
    PROVE  TokensIInv'
<1>1. Issued!TypeOK /\ Stored
  BY DEF TokensIInv
<1>2. UNCHANGED <<clock, pairs, keys, withdrawn>> /\ revoked' = Issued!Without(Issued!Evicted)
  BY DEF Issued!Look
<1>3. /\ DOMAIN revoked' = Issued!Evicted /\ Issued!Evicted \subseteq DOMAIN revoked
      /\ \A x \in DOMAIN revoked' : revoked'[x] = Issued!Exp(x)
  BY <1>1, <1>2, WithoutOf
<1>4. \A x \in withdrawn' : clock <= Issued!Exp(x) => x \in DOMAIN revoked'
  BY <1>1, <1>2, <1>3, EvictedKeeps
<1>5. DOMAIN revoked \subseteq Issued!Token /\ withdrawn \subseteq Issued!Token
  BY <1>1 DEF Issued!TypeOK
<1> QED
  BY <1>2, <1>3, <1>4, <1>5, RevocationsKept

LEMMA RevokeStep ==
    ASSUME TokensIInv, NEW tok \in Issued!Token, Issued!Revoke(tok)
    PROVE  TokensIInv'
<1>1. Issued!TypeOK /\ Stored
  BY DEF TokensIInv
<1>2. /\ UNCHANGED <<clock, pairs, keys>> /\ withdrawn' = withdrawn \cup {tok}
      /\ DOMAIN revoked' = DOMAIN revoked \cup {tok}
      /\ \A x \in DOMAIN revoked' :
            revoked'[x] = IF x = tok THEN Issued!Exp(tok) ELSE revoked[x]
  BY DEF Issued!Revoke, Issued!Revoked
<1>3. /\ DOMAIN revoked \subseteq Issued!Token /\ withdrawn \subseteq Issued!Token
      /\ \A x \in DOMAIN revoked : revoked[x] = Issued!Exp(x)
  BY <1>1 DEF Issued!TypeOK
<1>4. \A x \in DOMAIN revoked' : revoked'[x] = Issued!Exp(x)
  BY <1>2, <1>3
<1>5. \A x \in withdrawn' : clock <= Issued!Exp(x) => x \in DOMAIN revoked'
  BY <1>1, <1>2 DEF Stored
<1> QED
  BY <1>2, <1>3, <1>4, <1>5, RevocationsKept

\* Up to its expiry a token that was exchanged is not accepted.
LEMMA RefreshStep ==
    ASSUME TokensIInv, NEW tok \in Issued!Token, Issued!Refresh(tok)
    PROVE  TokensIInv'
<1>1. /\ Issued!TypeOK /\ Stored /\ Rotated
      /\ Len(pairs) < MaxPairs /\ Issued!Issued(tok.pair)
      /\ tok.type = "refresh" /\ tok \notin Issued!Evicted
      /\ withdrawn' = withdrawn \cup {tok}
      /\ UNCHANGED <<clock, keys>>
  BY DEF TokensIInv, Issued!Refresh, Issued!Accepts
<1>2. /\ DOMAIN revoked' = Issued!Evicted \cup {tok}
      /\ \A x \in DOMAIN revoked' :
            revoked'[x] = IF x = tok THEN Issued!Exp(tok)
                          ELSE Issued!Without(Issued!Evicted)[x]
  <2>1. revoked' = Issued!Revoked(Issued!Without(Issued!Evicted), tok)
    BY DEF Issued!Refresh
  <2>2. DOMAIN Issued!Without(Issued!Evicted) = Issued!Evicted
    BY <1>1, WithoutOf
  <2> QED
    BY <2>1, <2>2 DEF Issued!Revoked
<1>3. /\ tok.pair \in 1..Len(pairs) /\ tok = Refreshing(tok.pair)
      /\ Issued!Exp(tok) \in Nat
  BY <1>1, TokenOf
<1>4. tok.pair \in 0..MaxPairs /\ tok.pair # 0
  <2>1. Len(pairs) \in Nat
    BY <1>1 DEF Issued!TypeOK
  <2> QED
    BY <1>1, <1>3, <2>1, TokenParams
<1>5. /\ pairs' \in Seq([issued : 0..MaxTime, from : 0..MaxPairs])
      /\ Len(pairs') <= MaxPairs
      /\ Issued!Token \subseteq Issued!Token'
      /\ \A x \in Issued!Token : Issued!Exp(x)' = Issued!Exp(x)
  BY <1>1, <1>4, PairsAppended
<1>6. tok \in withdrawn => clock > pairs[tok.pair].issued + RefreshTTL
  <2> SUFFICES ASSUME tok \in withdrawn
               PROVE  clock > pairs[tok.pair].issued + RefreshTTL
    OBVIOUS
  <2>1. ~(clock <= Issued!Exp(tok))
    BY <1>1, EvictedKeeps
  <2>2. Issued!Exp(tok) = pairs[tok.pair].issued + RefreshTTL
    BY <1>1 DEF Issued!Exp, Issued!TTL
  <2>3. clock \in Nat
    BY <1>1, TokenParams DEF Issued!TypeOK
  <2> QED
    BY <1>3, <2>1, <2>2, <2>3
<1>7. /\ \A n \in 1..Len(pairs') :
           pairs'[n].from # 0 =>
               pairs'[n].from < n /\ Refreshing(pairs'[n].from) \in withdrawn'
      /\ Once'
  <2>1. /\ Refreshing(tok.pair) \in withdrawn'
        /\ Refreshing(tok.pair) \in withdrawn => clock > pairs[tok.pair].issued + RefreshTTL
    BY <1>1, <1>3, <1>6
  <2>2. withdrawn \subseteq withdrawn' /\ clock' = clock
    BY <1>1
  <2> QED
    BY <1>1, <1>3, <1>4, <2>1, <2>2, PairsGrow
<1>8. /\ DOMAIN revoked' \subseteq Issued!Token'
      /\ \A x \in DOMAIN revoked' : revoked'[x] = Issued!Exp(x)'
  <2>1. Issued!Evicted \subseteq Issued!Token
    BY <1>1, WithoutOf DEF Issued!TypeOK
  <2>2. \A x \in Issued!Evicted : Issued!Without(Issued!Evicted)[x] = Issued!Exp(x)
    BY <1>1, WithoutOf
  <2>3. \A x \in DOMAIN revoked' : x \in Issued!Token /\ revoked'[x] = Issued!Exp(x)
    BY <1>2, <2>1, <2>2
  <2> QED
    BY <1>5, <2>3
<1>9. Issued!TypeOK'
  BY <1>1, <1>5, <1>8 DEF Issued!TypeOK
<1>10. ASSUME NEW x \in withdrawn', clock' <= Issued!Exp(x)'
       PROVE  x \in DOMAIN revoked'
  <2>1. CASE x = tok
    BY <1>2, <2>1
  <2>2. CASE x \in withdrawn
    <3>1. clock <= Issued!Exp(x)
      BY <1>1, <1>5, <1>10, <2>2 DEF Issued!TypeOK
    <3> QED
      BY <1>1, <1>2, <2>2, <3>1, EvictedKeeps
  <2> QED
    BY <1>1, <2>1, <2>2
<1>11. Stored'
  BY <1>7, <1>10 DEF Stored, Refreshing
<1>12. Rotated'
  BY <1>1 DEF Rotated
<1> QED
  BY <1>7, <1>9, <1>11, <1>12 DEF TokensIInv

LEMMA TickTokens ==
    ASSUME TokensIInv, Issued!Tick
    PROVE  TokensIInv'
<1>1. /\ Issued!TypeOK /\ Stored /\ Once /\ Rotated
      /\ clock < MaxTime /\ clock' = clock + 1 /\ UNCHANGED <<pairs, revoked, keys, withdrawn>>
  BY DEF TokensIInv, Issued!Tick
<1>2. Issued!Token' = Issued!Token /\ \A tok : Issued!Exp(tok)' = Issued!Exp(tok)
  BY <1>1 DEF Issued!Token, Issued!Exp
<1>3. Issued!TypeOK'
  BY <1>1, <1>2, TokenParams DEF Issued!TypeOK
<1>4. Stored'
  <2>1. ASSUME NEW tok \in withdrawn, clock + 1 <= Issued!Exp(tok)
        PROVE  tok \in DOMAIN revoked
    <3>1. Issued!Exp(tok) \in Nat /\ clock \in Nat
      BY <1>1, TokenOf, TokenParams DEF Issued!TypeOK
    <3> QED
      BY <1>1, <2>1, <3>1 DEF Stored
  <2> QED
    BY <1>1, <1>2, <2>1 DEF Stored, Refreshing
<1>5. Once' /\ Rotated'
  BY <1>1 DEF Once, Rotated
<1> QED
  BY <1>3, <1>4, <1>5 DEF TokensIInv

LEMMA KeyOf ==
    ASSUME Issued!TypeOK, NEW n \in 1..Len(keys)
    PROVE  /\ keys[n] \in Issued!Key /\ keys[n].expires \in Nat
           /\ keys[n].revoked \in BOOLEAN /\ keys[n].rotated \in 0..MaxKeys
<1>1. keys \in Seq(Issued!Key)
  BY DEF Issued!TypeOK
<1>2. keys[n] \in Issued!Key
  BY <1>1, MemberOf
<1> QED
  BY <1>2 DEF Issued!Key

\* Keys are revoked, and at most one is added, that names none or a revoked one.
KeysKept ==
    /\ UNCHANGED <<clock, pairs, revoked, withdrawn>>
    /\ keys' \in Seq(Issued!Key) /\ Len(keys') <= MaxKeys
    /\ Len(keys) <= Len(keys') /\ Len(keys') <= Len(keys) + 1
    /\ \A n \in 1..Len(keys) :
          /\ keys'[n].expires = keys[n].expires /\ keys'[n].rotated = keys[n].rotated
          /\ keys[n].revoked = TRUE => keys'[n].revoked = TRUE
    /\ \A n \in 1..Len(keys') : n > Len(keys) /\ keys'[n].rotated # 0 =>
             /\ keys'[n].rotated \in 1..Len(keys)
             /\ keys'[keys'[n].rotated].revoked = TRUE

LEMMA KeysStep ==
    ASSUME TokensIInv, KeysKept
    PROVE  /\ TokensIInv'
           /\ \A n \in 1..Len(keys) :
                (\E m \in 1..Len(keys') : keys'[m].rotated = n) => keys'[n].revoked = TRUE
<1>0. /\ UNCHANGED <<clock, pairs, revoked, withdrawn>>
      /\ keys' \in Seq(Issued!Key) /\ Len(keys') <= MaxKeys
      /\ Len(keys) <= Len(keys') /\ Len(keys') <= Len(keys) + 1
  BY DEF KeysKept
<1>1. /\ Issued!TypeOK /\ Stored /\ Once /\ Rotated
      /\ keys \in Seq(Issued!Key) /\ Len(keys) \in Nat /\ Len(keys') \in Nat
  BY <1>0 DEF TokensIInv, Issued!TypeOK
<1>2. Issued!TypeOK'
  <2>1. Issued!Token' = Issued!Token /\ \A tok : Issued!Exp(tok)' = Issued!Exp(tok)
    BY <1>0 DEF Issued!Token, Issued!Exp
  <2>2. Issued!Key' = Issued!Key
    BY DEF Issued!Key
  <2> QED
    BY <1>0, <1>1, <2>1, <2>2 DEF Issued!TypeOK
<1>3. Stored' /\ Once'
  <2>1. \A tok : Issued!Exp(tok)' = Issued!Exp(tok)
    BY <1>0 DEF Issued!Exp
  <2> QED
    BY <1>0, <1>1, <2>1 DEF Stored, Once, Refreshing
<1>4. ASSUME NEW m \in 1..Len(keys'), keys'[m].rotated # 0
      PROVE  keys'[m].rotated < m /\ keys'[keys'[m].rotated].revoked = TRUE
  <2>1. CASE m \in 1..Len(keys)
    <3>1. /\ keys'[m].rotated = keys[m].rotated
          /\ \A n \in 1..Len(keys) : keys[n].revoked = TRUE => keys'[n].revoked = TRUE
      BY <2>1, Zenon DEF KeysKept
    <3>2. keys[m].rotated < m /\ keys[keys[m].rotated].revoked = TRUE
      BY <1>1, <1>4, <2>1, <3>1 DEF Rotated
    <3>3. keys[m].rotated \in 1..Len(keys)
      BY <1>1, <1>4, <2>1, <3>1, <3>2, KeyOf, TokenParams
    <3>4. keys'[keys[m].rotated].revoked = TRUE
      BY <3>1, <3>2, <3>3, Zenon
    <3> QED
      BY <3>1, <3>2, <3>4
  <2>2. CASE m > Len(keys)
    <3>1. /\ keys'[m].rotated \in 1..Len(keys)
          /\ keys'[keys'[m].rotated].revoked = TRUE
      BY <1>4, <2>2, Zenon DEF KeysKept
    <3> QED
      BY <1>1, <2>2, <3>1
  <2>3. m \in 1..Len(keys) \/ m > Len(keys)
    BY <1>1
  <2> QED
    BY <2>1, <2>2, <2>3, Zenon
<1>5. Rotated'
  BY <1>4 DEF Rotated
<1>6. ASSUME NEW n \in 1..Len(keys), NEW m \in 1..Len(keys'), keys'[m].rotated = n
      PROVE  keys'[n].revoked = TRUE
  <2>1. keys'[m].rotated # 0
    BY <1>6
  <2>2. keys'[keys'[m].rotated].revoked = TRUE
    BY <1>4, <2>1, Zenon
  <2> QED
    BY <1>6, <2>2, Zenon
<1> QED
  BY <1>2, <1>3, <1>5, <1>6 DEF TokensIInv

\* A key whose record is revoked is refused, and one that expired stays so.
LEMMA DeadWhen ==
    ASSUME NEW k, k.revoked = TRUE
    PROVE  ~Issued!Valid(k)
BY DEF Issued!Valid

LEMMA IssueKeyStep ==
    ASSUME TokensIInv, NEW ttl \in KeyTTL, Issued!IssueKey(ttl)
    PROVE  KeysKept
<1> DEFINE k == Issued!NewKey(ttl, 0)
<1>1. /\ Issued!TypeOK /\ keys \in Seq(Issued!Key) /\ Len(keys) \in Nat
      /\ Len(keys) < MaxKeys /\ keys' = Append(keys, k)
      /\ UNCHANGED <<clock, pairs, revoked, withdrawn>>
  BY DEF TokensIInv, Issued!TypeOK, Issued!IssueKey
<1>2. k \in Issued!Key /\ k.rotated = 0
  BY <1>1, TokenParams DEF Issued!NewKey, Issued!Key, Issued!TypeOK
<1> HIDE DEF k
<1>3. /\ keys' \in Seq(Issued!Key) /\ Len(keys') = Len(keys) + 1
      /\ \A n \in 1..Len(keys) : keys'[n] = keys[n]
      /\ keys'[Len(keys) + 1] = k
  BY <1>1, <1>2
<1>4. Len(keys') <= MaxKeys /\ Len(keys) <= Len(keys')
  BY <1>1, <1>3, TokenParams
<1>5. \A n \in 1..Len(keys') : n > Len(keys) => keys'[n].rotated = 0
  BY <1>1, <1>2, <1>3
<1>6. Len(keys') <= Len(keys) + 1
  BY <1>1, <1>3
<1> QED
  BY <1>1, <1>3, <1>4, <1>5, <1>6, Zenon DEF KeysKept

LEMMA MemberReplaced ==
    ASSUME NEW S, NEW s \in Seq(S), NEW i \in 1..Len(s), NEW v \in S
    PROVE  /\ [s EXCEPT ![i] = v] \in Seq(S)
           /\ Len([s EXCEPT ![i] = v]) = Len(s) /\ [s EXCEPT ![i] = v][i] = v
           /\ \A n \in 1..Len(s) : n # i => [s EXCEPT ![i] = v][n] = s[n]
OBVIOUS

LEMMA Marked ==
    ASSUME Issued!TypeOK, NEW i \in 1..Len(keys), NEW ks, ks = [keys EXCEPT ![i].revoked = TRUE]
    PROVE  /\ ks \in Seq(Issued!Key) /\ Len(ks) = Len(keys) /\ ks[i].revoked = TRUE
           /\ \A n \in 1..Len(keys) :
                /\ ks[n].expires = keys[n].expires /\ ks[n].rotated = keys[n].rotated
                /\ keys[n].revoked = TRUE => ks[n].revoked = TRUE
<1> DEFINE k == [keys[i] EXCEPT !.revoked = TRUE]
<1>1. keys \in Seq(Issued!Key) /\ keys[i] \in Issued!Key
  BY KeyOf DEF Issued!TypeOK
<1>2. /\ k \in Issued!Key /\ k.revoked = TRUE
      /\ k.expires = keys[i].expires /\ k.rotated = keys[i].rotated
  BY <1>1 DEF Issued!Key
<1>3. ks = [keys EXCEPT ![i] = k]
  OBVIOUS
<1> HIDE DEF k
<1>4. /\ ks \in Seq(Issued!Key) /\ Len(ks) = Len(keys) /\ ks[i] = k
      /\ \A n \in 1..Len(keys) : n # i => ks[n] = keys[n]
  <2> DEFINE new == [keys EXCEPT ![i] = k]
  <2>0. keys \in Seq(Issued!Key) /\ k \in Issued!Key
    BY <1>1, <1>2
  <2>1. /\ new \in Seq(Issued!Key) /\ Len(new) = Len(keys) /\ new[i] = k
        /\ \A n \in 1..Len(keys) : n # i => new[n] = keys[n]
    BY <2>0, MemberReplaced
  <2>2. ks = new
    BY <1>3
  <2> HIDE DEF new
  <2> QED
    BY <2>1, <2>2, Zenon
<1>5. ASSUME NEW n \in 1..Len(keys)
      PROVE  /\ ks[n].expires = keys[n].expires /\ ks[n].rotated = keys[n].rotated
             /\ keys[n].revoked = TRUE => ks[n].revoked = TRUE
  <2>1. CASE n = i
    BY <1>2, <1>4, <2>1, Zenon
  <2>2. CASE n # i
    BY <1>4, <2>2, Zenon
  <2> QED
    BY <2>1, <2>2, Zenon
<1> QED
  BY <1>2, <1>4, <1>5, Zenon

LEMMA RevokeKeyStep ==
    ASSUME TokensIInv, NEW i \in 1..Len(keys), Issued!RevokeKey(i)
    PROVE  KeysKept
<1>1. /\ Issued!TypeOK /\ Len(keys) \in Nat /\ Len(keys) <= MaxKeys
      /\ keys' = [keys EXCEPT ![i].revoked = TRUE]
      /\ UNCHANGED <<clock, pairs, revoked, withdrawn>>
  BY DEF TokensIInv, Issued!TypeOK, Issued!RevokeKey
<1>2. /\ keys' \in Seq(Issued!Key) /\ Len(keys') = Len(keys)
      /\ \A n \in 1..Len(keys) :
            /\ keys'[n].expires = keys[n].expires /\ keys'[n].rotated = keys[n].rotated
            /\ keys[n].revoked = TRUE => keys'[n].revoked = TRUE
  BY <1>1, Marked
<1>3. Len(keys') <= MaxKeys /\ Len(keys) <= Len(keys') /\ Len(keys') <= Len(keys) + 1
  BY <1>1, <1>2
<1>4. \A n \in 1..Len(keys') : ~(n > Len(keys))
  BY <1>1, <1>2
<1> QED
  BY <1>1, <1>2, <1>3, <1>4, Zenon DEF KeysKept

LEMMA RotateKeyStep ==
    ASSUME TokensIInv, NEW i \in 1..Len(keys), Issued!RotateKey(i)
    PROVE  KeysKept
<1> DEFINE ks == [keys EXCEPT ![i].revoked = TRUE]
           k == Issued!NewKey(0, i)
<1>1. /\ Issued!TypeOK /\ Len(keys) \in Nat /\ Len(keys) < MaxKeys
      /\ keys' = Append(ks, k)
      /\ UNCHANGED <<clock, pairs, revoked, withdrawn>>
  BY DEF TokensIInv, Issued!TypeOK, Issued!RotateKey
<1>2. /\ ks \in Seq(Issued!Key) /\ Len(ks) = Len(keys) /\ ks[i].revoked = TRUE
      /\ \A n \in 1..Len(keys) :
            /\ ks[n].expires = keys[n].expires /\ ks[n].rotated = keys[n].rotated
            /\ keys[n].revoked = TRUE => ks[n].revoked = TRUE
  <2> HIDE DEF ks
  <2>1. ks = [keys EXCEPT ![i].revoked = TRUE]
    BY DEF ks
  <2> QED
    BY <1>1, <2>1, Marked
<1>3. k \in Issued!Key /\ k.rotated = i
  <2>1. i \in 0..MaxKeys
    BY <1>1, TokenParams
  <2> QED
    BY <2>1 DEF Issued!NewKey, Issued!Key
<1> HIDE DEF k, ks
<1>4. /\ keys' \in Seq(Issued!Key) /\ Len(keys') = Len(keys) + 1
      /\ \A n \in 1..Len(keys) : keys'[n] = ks[n]
      /\ keys'[Len(keys) + 1] = k
  BY <1>1, <1>2, <1>3
<1>5. Len(keys') <= MaxKeys /\ Len(keys) <= Len(keys')
  BY <1>1, <1>4, TokenParams
<1>6. \A n \in 1..Len(keys') : n > Len(keys) => keys'[n] = k
  <2>1. \A n \in 1..Len(keys') : n > Len(keys) => n = Len(keys) + 1
    BY <1>1, <1>4
  <2> QED
    BY <1>4, <2>1, Zenon
<1>7. keys'[i].revoked = TRUE
  BY <1>2, <1>4, Zenon
<1>8. \A n \in 1..Len(keys) :
         /\ keys'[n].expires = keys[n].expires /\ keys'[n].rotated = keys[n].rotated
         /\ keys[n].revoked = TRUE => keys'[n].revoked = TRUE
  BY <1>2, <1>4, Zenon
<1>9. \A n \in 1..Len(keys') : n > Len(keys) =>
         /\ keys'[n].rotated \in 1..Len(keys)
         /\ keys'[keys'[n].rotated].revoked = TRUE
  BY <1>3, <1>6, <1>7, Zenon
<1>10. Len(keys') <= Len(keys) + 1
  BY <1>1, <1>4
<1> QED
  BY <1>1, <1>4, <1>5, <1>8, <1>9, <1>10, Zenon DEF KeysKept

-----------------------------------------------------------------------------
(* The theorems about Tokens.                                              *)

\* A key that is refused stays so while time passes and keys are revoked.
LEMMA DeadStays ==
    ASSUME Issued!TypeOK, NEW n \in 1..Len(keys), ~Issued!Valid(keys[n]),
           clock <= clock', keys'[n].expires = keys[n].expires, clock' \in Nat,
           keys[n].revoked = TRUE => keys'[n].revoked = TRUE
    PROVE  ~Issued!Valid(keys[n])'
<1>1. CASE keys[n].revoked
  <2>1. keys[n].revoked = TRUE
    BY <1>1, KeyOf
  <2>2. keys'[n].revoked = TRUE
    BY <2>1
  <2> QED
    BY <2>2 DEF Issued!Valid
<1>2. CASE ~keys[n].revoked
  <2>1. ~(keys[n].expires = 0 \/ clock < keys[n].expires)
    BY <1>2 DEF Issued!Valid
  <2>2. clock \in Nat /\ keys[n].expires \in Nat
    BY KeyOf, TokenParams DEF Issued!TypeOK
  <2>3. ~(keys'[n].expires = 0 \/ clock' < keys'[n].expires)
    BY <2>1, <2>2
  <2> QED
    BY <2>3 DEF Issued!Valid
<1> QED
  BY <1>1, <1>2

LEMMA DeadAction ==
    ASSUME TokensIInv, [Issued!Next]_issuedVars, TokensIInv'
    PROVE  \A n \in 1..Len(keys) :
              /\ ~Issued!Valid(keys[n]) => ~Issued!Valid(keys[n])'
              /\ (\E m \in 1..Len(keys') : keys'[m].rotated = n) => ~Issued!Valid(keys[n])'
<1>1. /\ Issued!TypeOK /\ Rotated /\ Rotated' /\ clock \in Nat /\ clock' \in Nat
  BY TokenParams DEF TokensIInv, Issued!TypeOK
<1>2. \/ KeysKept
      \/ keys' = keys /\ clock <= clock'
  <2>1. CASE UNCHANGED issuedVars
    BY <1>1, <2>1 DEF issuedVars
  <2>2. CASE Issued!Issue
    BY <1>1, <2>2 DEF Issued!Issue
  <2>3. ASSUME NEW tok \in Issued!Token, Issued!Look(tok) \/ Issued!Refresh(tok) \/ Issued!Revoke(tok)
        PROVE  keys' = keys /\ clock <= clock'
    BY <1>1, <2>3 DEF Issued!Look, Issued!Refresh, Issued!Revoke
  <2>4. ASSUME NEW ttl \in KeyTTL, Issued!IssueKey(ttl) PROVE KeysKept
    BY <2>4, IssueKeyStep
  <2>5. ASSUME NEW n \in 1..Len(keys), Issued!RevokeKey(n) \/ Issued!RotateKey(n) PROVE KeysKept
    BY <2>5, RevokeKeyStep, RotateKeyStep
  <2>6. CASE Issued!Tick
    BY <1>1, <2>6 DEF Issued!Tick
  <2> QED
    BY <2>1, <2>2, <2>3, <2>4, <2>5, <2>6 DEF Issued!Next
<1>3. CASE KeysKept
  <2>1. \A n \in 1..Len(keys) :
           (\E m \in 1..Len(keys') : keys'[m].rotated = n) => keys'[n].revoked = TRUE
    BY <1>3, KeysStep
  <2>2. ASSUME NEW n \in 1..Len(keys), \E m \in 1..Len(keys') : keys'[m].rotated = n
        PROVE  ~Issued!Valid(keys[n])'
    <3>1. keys'[n].revoked = TRUE
      BY <2>1, <2>2, Zenon
    <3> QED
      BY <3>1 DEF Issued!Valid
  <2>3. ASSUME NEW n \in 1..Len(keys), ~Issued!Valid(keys[n])
        PROVE  ~Issued!Valid(keys[n])'
    <3>1. /\ keys'[n].expires = keys[n].expires
          /\ keys[n].revoked = TRUE => keys'[n].revoked = TRUE
      BY <1>3, Zenon DEF KeysKept
    <3>2. clock <= clock'
      BY <1>1, <1>3 DEF KeysKept
    <3> QED
      BY <1>1, <2>3, <3>1, <3>2, DeadStays
  <2> QED
    BY <2>2, <2>3
<1>4. CASE keys' = keys /\ clock <= clock'
  <2>1. ASSUME NEW n \in 1..Len(keys), NEW m \in 1..Len(keys'), keys'[m].rotated = n
        PROVE  ~Issued!Valid(keys[n])'
    <3>1. keys[m].rotated # 0 /\ m \in 1..Len(keys)
      BY <1>4, <2>1
    <3>2. keys[keys[m].rotated].revoked = TRUE
      BY <1>1, <3>1, Zenon DEF Rotated
    <3>3. keys'[n].revoked = TRUE
      BY <1>4, <2>1, <3>2
    <3> QED
      BY <3>3 DEF Issued!Valid
  <2>2. ASSUME NEW n \in 1..Len(keys), ~Issued!Valid(keys[n])
        PROVE  ~Issued!Valid(keys[n])'
    BY <1>1, <1>4, <2>2, DeadStays
  <2> QED
    BY <2>1, <2>2
<1> QED
  BY <1>2, <1>3, <1>4

LEMMA TokensStep == TokensIInv /\ [Issued!Next]_issuedVars => TokensIInv'
<1> SUFFICES ASSUME TokensIInv, [Issued!Next]_issuedVars PROVE TokensIInv'
  OBVIOUS
<1>1. CASE UNCHANGED issuedVars
  <2>1. UNCHANGED <<clock, pairs, revoked, keys, withdrawn>>
    BY <1>1 DEF issuedVars
  <2> QED
    BY <2>1 DEF TokensIInv, Issued!TypeOK, Issued!Token, Issued!Key, Issued!Exp, Issued!TTL,
                Stored, Once, Rotated
<1>2. CASE Issued!Issue
  BY <1>2, IssueStep
<1>3. ASSUME NEW tok \in Issued!Token, Issued!Look(tok) \/ Issued!Refresh(tok) \/ Issued!Revoke(tok)
      PROVE  TokensIInv'
  BY <1>3, LookStep, RefreshStep, RevokeStep
<1>4. ASSUME NEW ttl \in KeyTTL, Issued!IssueKey(ttl) PROVE TokensIInv'
  BY <1>4, IssueKeyStep, KeysStep
<1>5. ASSUME NEW n \in 1..Len(keys), Issued!RevokeKey(n) \/ Issued!RotateKey(n)
      PROVE  TokensIInv'
  BY <1>5, RevokeKeyStep, RotateKeyStep, KeysStep
<1>6. CASE Issued!Tick
  BY <1>6, TickTokens
<1> QED
  BY <1>1, <1>2, <1>3, <1>4, <1>5, <1>6 DEF Issued!Next

\* Every variable of Tokens stays in its range.
THEOREM TokensTypeCorrect == Issued!Spec => []Issued!TypeOK
<1>1. TokensIInv => Issued!TypeOK
  BY DEF TokensIInv
<1>2. Issued!Spec => []TokensIInv
  BY TokensStart, TokensStep, PTL DEF Issued!Spec, Issued!vars, issuedVars
<1> QED
  BY <1>1, <1>2, PTL

\* A token that was revoked or exchanged is refused up to its expiry, whatever
\* is looked up, revoked and evicted in between (JWTTokenProvider._decode with
\* InMemoryTokenRevocationStore).
THEOREM WithdrawnTokensAreRefused == Issued!Spec => []WithdrawnIsRefused
<1>1. TokensIInv => WithdrawnIsRefused
  BY EvictedKeeps DEF TokensIInv, WithdrawnIsRefused, Issued!WithdrawnIsRefused, Issued!Accepts
<1>2. Issued!Spec => []TokensIInv
  BY TokensStart, TokensStep, PTL DEF Issued!Spec, Issued!vars, issuedVars
<1> QED
  BY <1>1, <1>2, PTL

\* Of two presentations of a refresh token before its expiry, the second is
\* refused (JWTTokenProvider.refresh).
THEOREM RefreshTokensGiveOnePair == Issued!Spec => []ExchangedOnce
<1>1. TokensIInv => ExchangedOnce
  BY DEF TokensIInv, Once, ExchangedOnce, Issued!ExchangedOnce, Issued!Exp, Issued!TTL
<1>2. Issued!Spec => []TokensIInv
  BY TokensStart, TokensStep, PTL DEF Issued!Spec, Issued!vars, issuedVars
<1> QED
  BY <1>1, <1>2, PTL

\* A key that was refused once, or that was rotated, is refused for ever
\* (ApiKeyProvider.revoke, rotate and is_valid).
THEOREM DeadKeysAreNeverRevived == Issued!Spec => DeadKeysStayDead
<1>1. Issued!Spec => []TokensIInv
  BY TokensStart, TokensStep, PTL DEF Issued!Spec, Issued!vars, issuedVars
<1> DEFINE A == \A n \in 1..Len(keys) :
                   /\ ~Issued!Valid(keys[n]) => ~Issued!Valid(keys[n])'
                   /\ (\E m \in 1..Len(keys') : keys'[m].rotated = n) => ~Issued!Valid(keys[n])'
<1>2. TokensIInv /\ TokensIInv' /\ [Issued!Next]_issuedVars => [A]_issuedVars
  BY DeadAction
<1> HIDE DEF A
<1>3. Issued!Spec => [][A]_issuedVars
  BY <1>1, <1>2, PTL DEF Issued!Spec, Issued!vars, issuedVars
<1> QED
  BY <1>3 DEF A, DeadKeysStayDead, Issued!DeadKeysStayDead, Issued!vars, issuedVars
=============================================================================
