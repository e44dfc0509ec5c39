------------------------------- MODULE Tokens -------------------------------
(***************************************************************************)
(* The credentials TEAF issues itself: the token pairs of JWTTokenProvider *)
(* with InMemoryTokenRevocationStore (security/tokens/jwt_provider.py) and *)
(* the keys of ApiKeyProvider (security/tokens/api_key_provider.py).       *)
(*                                                                         *)
(* None of their methods suspends, so each is one step. Whoever was given  *)
(* a token or a key may present it at any time, a copy of it too. Time     *)
(* passes in whole seconds. Signature, issuer, audience and claims are     *)
(* those of the provider itself; PyJWT is external, its checks of exp and  *)
(* nbf with a leeway are translated.                                       *)
(***************************************************************************)
EXTENDS Integers, Sequences, FiniteSets

CONSTANTS
    AccessTTL,   \* access_token_ttl_seconds
    RefreshTTL,  \* refresh_token_ttl_seconds
    Skew,        \* clock_skew_seconds
    KeyTTL,      \* the ttl values keys are issued with; 0 stands for None
    MaxPairs,    \* bound on token pairs
    MaxKeys,     \* bound on keys
    MaxTime      \* bound on the clock

TokensAssumption ==
    /\ AccessTTL \in Nat \ {0} /\ RefreshTTL \in Nat \ {0}
    /\ Skew \in Nat
    /\ KeyTTL \subseteq Nat
    /\ MaxPairs \in Nat /\ MaxKeys \in Nat /\ MaxTime \in Nat

VARIABLES
    clock,    \* time.time()
    pairs,    \* pairs[n]: when pair n was issued, and from which refresh token
    revoked,  \* _revoked: expires_at of the revoked tokens, by jti
    keys,     \* keys[n]: the ApiKeyRecord of key n
    withdrawn \* history: tokens that were ever revoked

vars == <<clock, pairs, revoked, keys, withdrawn>>

-----------------------------------------------------------------------------
(* Tokens. The jti of a token is its pair and its type.                    *)

Type == {"access", "refresh"}
Token == {[pair |-> n, type |-> t] : n \in 1..Len(pairs), t \in Type}

TTL(type) == IF type = "access" THEN AccessTTL ELSE RefreshTTL
Exp(tok) == pairs[tok.pair].issued + TTL(tok.type)

\* pyjwt.decode: ExpiredSignatureError when exp <= now - leeway; nbf and iat
\* are the time of issue, never later than now.
Unexpired(tok) == Exp(tok) > clock - Skew

\* Mutant: a revocation is dropped already at exp.
EvictedAtExp == {tok \in DOMAIN revoked : revoked[tok] > clock}

\* _evict_expired: what is_revoked leaves in the store before it looks.
Evicted == {tok \in DOMAIN revoked : revoked[tok] >= clock}

Without(kept) == [tok \in kept |-> revoked[tok]]

\* _decode: expiry, type, revocation.
Accepts(tok, type) == Unexpired(tok) /\ tok.type = type /\ tok \notin Evicted

Issued(parent) == pairs' = Append(pairs, [issued |-> clock, from |-> parent])

\* The store after tok was revoked, from what it held.
Revoked(store, tok) ==
    [x \in DOMAIN store \cup {tok} |-> IF x = tok THEN Exp(tok) ELSE store[x]]

-----------------------------------------------------------------------------
(* Keys.                                                                   *)

\* expires_at 0 is None: a key never expires.
Key == [expires : Nat, revoked : BOOLEAN, rotated : 0..MaxKeys]

\* is_valid.
Valid(k) == ~k.revoked /\ (k.expires = 0 \/ clock < k.expires)

\* The record ApiKeyProvider.issue saves.
NewKey(ttl, from) ==
    [expires |-> IF ttl = 0 THEN 0 ELSE clock + ttl, revoked |-> FALSE, rotated |-> from]

-----------------------------------------------------------------------------

TypeOK ==
    /\ clock \in 0..MaxTime
    /\ pairs \in Seq([issued : 0..MaxTime, from : 0..MaxPairs]) /\ Len(pairs) <= MaxPairs
    /\ DOMAIN revoked \subseteq Token
    /\ \A tok \in DOMAIN revoked : revoked[tok] = Exp(tok)
    /\ keys \in Seq(Key) /\ Len(keys) <= MaxKeys
    /\ withdrawn \subseteq Token

Init ==
    /\ clock = 0
    /\ pairs = <<>>
    /\ revoked = [tok \in {} |-> 0]
    /\ keys = <<>>
    /\ withdrawn = {}

\* issue, after a login.
Issue ==
    /\ Len(pairs) < MaxPairs
    /\ Issued(0)
    /\ UNCHANGED <<clock, revoked, keys, withdrawn>>

\* verify and refresh of a token that is refused, and verify of one that is
\* accepted: once exp and type are right, is_revoked clears the store.
Look(tok) ==
    /\ Unexpired(tok)
    /\ revoked' = Without(Evicted)
    /\ UNCHANGED <<clock, pairs, keys, withdrawn>>

\* Mutant: refresh leaves the token it was given valid.
RefreshUnrotated(tok) ==
    /\ Len(pairs) < MaxPairs
    /\ Accepts(tok, "refresh")
    /\ revoked' = Without(Evicted)
    /\ Issued(tok.pair)
    /\ withdrawn' = withdrawn \cup {tok}
    /\ UNCHANGED <<clock, keys>>

\* refresh: decode, revoke the token, issue a pair.
Refresh(tok) ==
    /\ Len(pairs) < MaxPairs
    /\ Accepts(tok, "refresh")
    /\ revoked' = Revoked(Without(Evicted), tok)
    /\ Issued(tok.pair)
    /\ withdrawn' = withdrawn \cup {tok}
    /\ UNCHANGED <<clock, keys>>

\* revoke takes any token of the provider, expired or not, and clears nothing.
Revoke(tok) ==
    /\ revoked' = Revoked(revoked, tok)
    /\ withdrawn' = withdrawn \cup {tok}
    /\ UNCHANGED <<clock, pairs, keys>>

IssueKey(ttl) ==
    /\ Len(keys) < MaxKeys
    /\ keys' = Append(keys, NewKey(ttl, 0))
    /\ UNCHANGED <<clock, pairs, revoked, withdrawn>>

RevokeKey(n) ==
    /\ keys' = [keys EXCEPT ![n].revoked = TRUE]
    /\ UNCHANGED <<clock, pairs, revoked, withdrawn>>

\* Mutant: rotate saves the record it read before revoking.
RotateKeySavingOld(n) ==
    /\ Len(keys) < MaxKeys
    /\ keys' = Append(keys, NewKey(0, n))
    /\ UNCHANGED <<clock, pairs, revoked, withdrawn>>

\* rotate: revoke and issue, without the expiry, whatever became of the key.
RotateKey(n) ==
    /\ Len(keys) < MaxKeys
    /\ keys' = Append([keys EXCEPT ![n].revoked = TRUE], NewKey(0, n))
    /\ UNCHANGED <<clock, pairs, revoked, withdrawn>>

Tick ==
    /\ clock < MaxTime
    /\ clock' = clock + 1
    /\ UNCHANGED <<pairs, revoked, keys, withdrawn>>

Next ==
    \/ Issue
    \/ \E tok \in Token : Look(tok) \/ Refresh(tok) \/ Revoke(tok)
    \/ \E ttl \in KeyTTL : IssueKey(ttl)
    \/ \E n \in 1..Len(keys) : RevokeKey(n) \/ RotateKey(n)
    \/ Tick

Spec == Init /\ [][Next]_vars

-----------------------------------------------------------------------------
(* Properties.                                                             *)

\* A token that was revoked, or exchanged, is refused up to its expiry,
\* whatever is looked up, revoked and evicted in between. In the leeway after
\* exp it is accepted again: _evict_expired drops the revocation at exp, while
\* decode takes the token for clock_skew_seconds more.
WithdrawnIsRefused ==
    \A tok \in withdrawn : clock <= Exp(tok) => ~Accepts(tok, tok.type)

\* Up to its expiry a refresh token gives one pair: of two presentations, a
\* copy's among them, the second is refused.
ExchangedOnce ==
    \A m, n \in 1..Len(pairs) :
        (m < n /\ pairs[m].from # 0 /\ pairs[m].from = pairs[n].from)
            => pairs[n].issued > Exp([pair |-> pairs[n].from, type |-> "refresh"])

\* A key that is refused once is refused for ever, and a key that was rotated
\* is refused from then on, also when it is revoked or rotated again.
DeadKeysStayDead ==
    [][\A n \in 1..Len(keys) :
          /\ ~Valid(keys[n]) => ~Valid(keys[n])'
          /\ (\E m \in 1..Len(keys') : keys'[m].rotated = n) => ~Valid(keys[n])']_vars
=============================================================================
