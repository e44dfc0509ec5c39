------------------------------- MODULE Session -------------------------------
(***************************************************************************)
(* The session of the TEAF console (src/frontend): the auth store, the     *)
(* HttpClient with its shared refresh, the token storage, and the server   *)
(* as they see it.                                                         *)
(*                                                                         *)
(* JavaScript runs one callback at a time, so a step is the code between   *)
(* two awaits. What a settled promise wakes runs in the same turn of the   *)
(* event loop: a settled refresh and the calls that wait for it are one    *)
(* step. Every fetch settles, by an answer, an abort or its timeout.       *)
(*                                                                         *)
(* Token pairs are numbered in the order the server issues them; 0 is      *)
(* null. The access token of the SessionBridge is the one of the store's   *)
(* pair: every function that sets one sets the other in the same step.     *)
(***************************************************************************)
EXTENDS Integers

CONSTANTS
    Call,       \* calls in progress: logins, logouts, the restore, queries
    User,       \* who may log in
    Nobody,     \* principal: null
    Persistent, \* persistSession: LocalStorageTokenStorage, not memory
    MaxPairs,   \* bound of the token pairs the server issues
    MaxReloads  \* bound of the reloads of the page

Pair == 1 .. MaxPairs

ASSUME SessionAssumption ==
    /\ Nobody \notin User
    /\ Persistent \in BOOLEAN
    /\ MaxPairs \in Nat
    /\ MaxReloads \in Nat

VARIABLES
    status,     \* AuthState.status
    principal,  \* AuthState.principal, by its user
    tokens,     \* AuthState.tokens, and the bridge's access token
    storage,    \* what TokenStorage holds
    mounted,    \* the effect of App has called restore()
    reloads,    \* reloads of the page so far
    call,       \* call[c]: request, its phase, the pair it carries or brought
    renewal,    \* refreshInFlight: its phase, the pair sent, the pair brought
    owner,      \* server: owner[p] is the user pair p was issued to
    valid,      \* server: pairs whose access token is accepted
    live,       \* server: pairs whose refresh token is accepted
    ended,      \* server: pairs that a logout revoked
    stranded    \* history: rotated pairs whose successor did not arrive

client == <<status, principal, tokens, storage, mounted, reloads, call, renewal>>
server == <<owner, valid, live, ended, stranded>>
vars == <<client, server>>

-----------------------------------------------------------------------------
(* Calls.                                                                  *)

Idle == [request |-> "none", phase |-> "idle", pair |-> 0, retry |-> FALSE]
NoRenewal == [phase |-> "none", sent |-> 0, got |-> 0]

\* send(): the request leaves with the token of that moment.
Sent(request, p, retry) ==
    [request |-> request, phase |-> "sent", pair |-> p, retry |-> retry]

Send(c, request, p) == call' = [call EXCEPT ![c] = Sent(request, p, FALSE)]
Return(c) == call' = [call EXCEPT ![c] = Idle]
Answered(c, phase) == call' = [call EXCEPT ![c].phase = phase]

\* Only these requests renew the session on a 401: login, refresh and logout
\* pass retryOnUnauthorized: false.
Renews(c) == call[c].request \in {"me", "query"} /\ ~call[c].retry

CommitTokens(p) == tokens' = p /\ storage' = p

ClearSession ==
    /\ CommitTokens(0)
    /\ status' = "anonymous"
    /\ principal' = Nobody

KeepSession == UNCHANGED <<status, principal, tokens, storage>>

-----------------------------------------------------------------------------
(* What the user and the page start.                                       *)

Init ==
    /\ status = "anonymous" /\ principal = Nobody
    /\ tokens = 0 /\ storage = 0
    /\ mounted = FALSE /\ reloads = 0
    /\ call = [c \in Call |-> Idle]
    /\ renewal = NoRenewal
    /\ owner = [p \in Pair |-> Nobody]
    /\ valid = {} /\ live = {} /\ ended = {} /\ stranded = {}

\* The effect of App: restore(), a no-op without stored tokens.
Restore(c) ==
    /\ ~mounted /\ call[c] = Idle
    /\ mounted' = TRUE
    /\ IF storage = 0
       THEN UNCHANGED <<status, tokens, call>>
       ELSE /\ tokens' = storage
            /\ status' = "authenticating"
            /\ Send(c, "me", storage)
    /\ UNCHANGED <<principal, storage, reloads, renewal, server>>

\* LoginPage: its button is disabled while authenticating, and an
\* authenticated user is redirected away.
Login(c) ==
    /\ mounted /\ call[c] = Idle
    /\ status = "anonymous"
    /\ status' = "authenticating"
    /\ Send(c, "login", tokens)
    /\ UNCHANGED <<principal, tokens, storage, mounted, reloads, renewal, server>>

\* AppHeader: the button is there, and can be clicked again, while authenticated.
Logout(c) ==
    /\ status = "authenticated" /\ call[c] = Idle
    /\ Send(c, "logout", tokens)
    /\ KeepSession
    /\ UNCHANGED <<mounted, reloads, renewal, server>>

\* A page behind ProtectedRoute reads something.
Query(c) ==
    /\ status = "authenticated" /\ call[c] = Idle
    /\ Send(c, "query", tokens)
    /\ KeepSession
    /\ UNCHANGED <<mounted, reloads, renewal, server>>

\* The page is loaded anew: what was in flight has no caller any more.
Reload ==
    /\ mounted /\ reloads < MaxReloads
    /\ status' = "anonymous" /\ principal' = Nobody /\ tokens' = 0
    /\ storage' = IF Persistent THEN storage ELSE 0
    /\ mounted' = FALSE /\ reloads' = reloads + 1
    /\ call' = [c \in Call |-> Idle]
    /\ renewal' = NoRenewal
    /\ stranded' = stranded \cup (IF renewal.phase = "ok" THEN {renewal.sent} ELSE {})
    /\ UNCHANGED <<owner, valid, live, ended>>

-----------------------------------------------------------------------------
(* The server and the network, as the console uses them.                   *)

\* Pairs are issued in order, to user u.
Issued == {p \in Pair : owner[p] # Nobody}
Issue(p, u) ==
    /\ p \notin Issued /\ 1 .. p - 1 \subseteq Issued
    /\ owner' = [owner EXCEPT ![p] = u]
    /\ valid' = valid \cup {p}

\* Credentials are right, and a pair is issued, or they are wrong.
ServeLogin(c) ==
    /\ call[c].request = "login" /\ call[c].phase = "sent"
    /\ \/ \E p \in Pair, u \in User :
            /\ Issue(p, u)
            /\ live' = live \cup {p}
            /\ call' = [call EXCEPT ![c].phase = "ok", ![c].pair = p]
       \/ Answered(c, "401") /\ UNCHANGED <<owner, valid, live>>
    /\ KeepSession
    /\ UNCHANGED <<mounted, reloads, renewal, ended, stranded>>

Serve(c) ==
    /\ call[c].request \in {"me", "query", "logout"} /\ call[c].phase = "sent"
    /\ Answered(c, IF call[c].pair \in valid THEN "ok" ELSE "401")
    /\ LET revoked == IF call[c].request = "logout" /\ call[c].pair \in valid
                      THEN {call[c].pair} ELSE {}
       IN  /\ valid' = valid \ revoked
           /\ live' = live \ revoked
           /\ ended' = ended \cup revoked
    /\ KeepSession
    /\ UNCHANGED <<mounted, reloads, renewal, owner, stranded>>

\* NetworkError, timeout, or the caller's abort.
Lose(c) ==
    /\ call[c].phase = "sent"
    /\ Answered(c, "failed")
    /\ KeepSession
    /\ UNCHANGED <<mounted, reloads, renewal, server>>

\* JWTTokenProvider.refresh: the refresh token is revoked, a new pair issued,
\* and the answer may be lost.
ServeRenewal ==
    /\ renewal.phase = "sent" /\ renewal.sent \in live
    /\ \E p \in Pair :
         /\ Issue(p, owner[renewal.sent])
         /\ live' = (live \ {renewal.sent}) \cup {p}
         /\ \/ renewal' = [renewal EXCEPT !.phase = "ok", !.got = p] /\ UNCHANGED stranded
            \/ /\ renewal' = [renewal EXCEPT !.phase = "failed"]
               /\ stranded' = stranded \cup {renewal.sent}
    /\ UNCHANGED <<status, principal, tokens, storage, mounted, reloads, call, ended>>

\* The refresh token is refused, or the request does not get through.
RefuseRenewal ==
    /\ renewal.phase = "sent"
    /\ renewal' = [renewal EXCEPT !.phase = "failed"]
    /\ UNCHANGED <<status, principal, tokens, storage, mounted, reloads, call, server>>

\* An access token reaches its exp.
Expire(p) ==
    /\ p \in valid
    /\ valid' = valid \ {p}
    /\ UNCHANGED <<client, owner, live, ended, stranded>>

-----------------------------------------------------------------------------
(* Continuations of the awaits.                                            *)

\* login(): the pair arrived; it is committed and GET me is sent with it.
LoggedIn(c) ==
    /\ call[c].request = "login" /\ call[c].phase = "ok"
    /\ CommitTokens(call[c].pair)
    /\ Send(c, "me", call[c].pair)
    /\ UNCHANGED <<status, principal, mounted, reloads, renewal, server>>

\* login() and restore(): the Principal arrived.
Identified(c) ==
    /\ call[c].request = "me" /\ call[c].phase = "ok"
    /\ status' = "authenticated"
    /\ principal' = owner[call[c].pair]
    /\ Return(c)
    /\ UNCHANGED <<tokens, storage, mounted, reloads, renewal, server>>

QueryDone(c) ==
    /\ call[c].request = "query" /\ call[c].phase = "ok"
    /\ Return(c)
    /\ KeepSession
    /\ UNCHANGED <<mounted, reloads, renewal, server>>

\* logout(): whatever the answer was, the session is cleared.
LoggedOut(c) ==
    /\ call[c].request = "logout" /\ call[c].phase \in {"ok", "401", "failed"}
    /\ ClearSession
    /\ Return(c)
    /\ UNCHANGED <<mounted, reloads, renewal, server>>

\* The call throws: login() and restore() clear the session, a query does not.
Throw(c) ==
    /\ IF call[c].request \in {"login", "me"} THEN ClearSession ELSE KeepSession
    /\ Return(c)
    /\ UNCHANGED <<mounted, reloads, renewal, server>>

Failed(c) ==
    /\ call[c].request \in {"login", "me", "query"}
    /\ \/ call[c].phase = "failed"
       \/ call[c].phase = "401" /\ (~Renews(c) \/ (renewal = NoRenewal /\ tokens = 0))
    /\ Throw(c)

\* Mutant: every caller starts a renewal of its own.
RefreshEach ==
    renewal' = [phase |-> "sent", sent |-> tokens, got |-> 0]

\* refreshOnce(): join the renewal in flight, or start one with current tokens.
RefreshOnce ==
    renewal' = IF renewal = NoRenewal
               THEN [phase |-> "sent", sent |-> tokens, got |-> 0] ELSE renewal

\* send() got a 401: it waits for the shared renewal.
Unauthorized(c) ==
    /\ call[c].phase = "401" /\ Renews(c)
    /\ renewal # NoRenewal \/ tokens # 0
    /\ RefreshOnce
    /\ Answered(c, "renewing")
    /\ KeepSession
    /\ UNCHANGED <<mounted, reloads, server>>

Waiting(c) == call[c].phase = "renewing"

\* Mutant: the renewed pair is not written to the storage.
RenewedInMemory ==
    /\ renewal.phase = "ok"
    /\ tokens' = renewal.got
    /\ renewal' = NoRenewal
    /\ call' = [c \in Call |-> IF Waiting(c) THEN Sent(call[c].request, renewal.got, TRUE)
                               ELSE call[c]]
    /\ UNCHANGED <<status, principal, storage, mounted, reloads, server>>

\* The refresh handler publishes the pair; who waited sends again, once.
Renewed ==
    /\ renewal.phase = "ok"
    /\ CommitTokens(renewal.got)
    /\ renewal' = NoRenewal
    /\ call' = [c \in Call |-> IF Waiting(c) THEN Sent(call[c].request, renewal.got, TRUE)
                               ELSE call[c]]
    /\ UNCHANGED <<status, principal, mounted, reloads, server>>

\* Mutant: a refused refresh asks for a renewal, which is the one in flight.
NotRenewedButWaiting == renewal.phase = "failed" /\ UNCHANGED vars

\* The handler closes the session; who waited throws the 401.
NotRenewed ==
    /\ renewal.phase = "failed"
    /\ ClearSession
    /\ renewal' = NoRenewal
    /\ call' = [c \in Call |-> IF Waiting(c) THEN Idle ELSE call[c]]
    /\ UNCHANGED <<mounted, reloads, server>>

-----------------------------------------------------------------------------
Network(c) == ServeLogin(c) \/ Serve(c) \/ Lose(c)
Continue(c) ==
    \/ LoggedIn(c) \/ Identified(c) \/ QueryDone(c) \/ LoggedOut(c)
    \/ Failed(c) \/ Unauthorized(c)
RenewalStep == ServeRenewal \/ RefuseRenewal \/ Renewed \/ NotRenewed

Next ==
    \/ \E c \in Call : Restore(c) \/ Login(c) \/ Logout(c) \/ Query(c)
    \/ \E c \in Call : Network(c) \/ Continue(c)
    \/ RenewalStep
    \/ Reload
    \/ \E p \in Pair : Expire(p)

\* A fetch settles and a settled promise runs its continuation; nobody has to
\* log in, click, or reload.
Fairness ==
    /\ \A c \in Call : WF_vars(Network(c)) /\ WF_vars(Continue(c))
    /\ WF_vars(RenewalStep)

Spec == Init /\ [][Next]_vars /\ Fairness

-----------------------------------------------------------------------------
(* Properties.                                                             *)

Request == {"none", "login", "me", "logout", "query"}
Phase == {"idle", "sent", "ok", "401", "failed", "renewing"}

\* Every variable stays in its range, and whoever waits for a renewal waits
\* for one that is in flight.
TypeOK ==
    /\ status \in {"anonymous", "authenticating", "authenticated"}
    /\ principal \in User \cup {Nobody}
    /\ tokens \in 0 .. MaxPairs /\ storage \in 0 .. MaxPairs
    /\ mounted \in BOOLEAN /\ reloads \in 0 .. MaxReloads
    /\ call \in [Call -> [request : Request, phase : Phase,
                          pair : 0 .. MaxPairs, retry : BOOLEAN]]
    /\ renewal \in [phase : {"none", "sent", "ok", "failed"},
                    sent : 0 .. MaxPairs, got : 0 .. MaxPairs]
    /\ owner \in [Pair -> User \cup {Nobody}]
    /\ valid \subseteq Issued /\ live \subseteq Issued
    /\ ended \subseteq Issued /\ stranded \subseteq Issued
    /\ \A c \in Call : Waiting(c) => renewal # NoRenewal

\* Pairs the server refuses to renew for a reason other than a rotation whose
\* successor the console was given.
Excused == ended \cup stranded

\* A refresh token that was exchanged is not sent again, however many calls
\* meet a 401 at once, and whatever logins, logouts and reloads overlap: with
\* rotation, the second exchange would close the session (HttpClient,
\* single-flight).
RotatedTokenNotResent ==
    [][renewal'.phase = "sent" /\ renewal' # renewal =>
         renewal'.sent \in live \cup Excused]_vars

\* Rotation never leaves the console with a pair it cannot renew: the store and
\* the storage hold the successor as soon as it has arrived, so the session
\* also survives the next reload (authService.refresh, authStore).
HeldPairIsUsable ==
    {tokens, storage} \ {0} \subseteq
        live \cup Excused \cup (IF renewal.phase = "ok" THEN {renewal.sent} ELSE {})

\* No call hangs and no screen stays in "authenticating": in particular a
\* refused refresh ends the session instead of waiting for itself
\* (RequestOptions.retryOnUnauthorized).
SessionSettles ==
    /\ \A c \in Call : call[c] # Idle ~> call[c] = Idle
    /\ status = "authenticating" ~> status # "authenticating"

=============================================================================
