------------------------------ MODULE Security ------------------------------
(***************************************************************************)
(* The security package: Identity and Tokens. The two share no state:      *)
(* Identity takes what verifying a token of the application itself says    *)
(* from the credential, and Tokens is about the credentials TEAF issues.   *)
(***************************************************************************)
EXTENDS Identity

CONSTANTS AccessTTL, RefreshTTL, Skew, KeyTTL, MaxPairs, MaxKeys, MaxTime

VARIABLES clock, pairs, revoked, keys, withdrawn

Issued == INSTANCE Tokens

issuedVars == <<clock, pairs, revoked, keys, withdrawn>>

ASSUME IssuedAssumption == Issued!TokensAssumption

-----------------------------------------------------------------------------
(* The properties of Tokens, which see.                                    *)

\* A revoked or exchanged token is refused up to its expiry.
WithdrawnIsRefused == Issued!WithdrawnIsRefused

\* A refresh token gives one pair up to its expiry.
ExchangedOnce == Issued!ExchangedOnce

\* A key that was refused once, or rotated, is refused for ever.
DeadKeysStayDead == Issued!DeadKeysStayDead
=============================================================================
