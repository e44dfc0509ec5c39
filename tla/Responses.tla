----------------------------- MODULE Responses ------------------------------
(***************************************************************************)
(* What a request is answered: Idempotency, whether with an answer that    *)
(* was given before; and Policies, by what the configuration says of the   *)
(* request alone. They share no state.                                     *)
(***************************************************************************)
EXTENDS Idempotency

CONSTANTS None, Malformed, Blank, ParsedVersion, Network, BrotliInstalled,
          Address, Deployment, Traffic, Page

VARIABLES values, state, gateway, request, page, reply

Policy == INSTANCE Policies

policyVars == <<values, state, gateway, request, page, reply>>

ASSUME PoliciesAssumption == Policy!PoliciesAssumption

-----------------------------------------------------------------------------
(* The properties of Policies, which see.                                  *)

\* The gateway is built of its configuration, whole.
BuiltAsAssumed == Policy!BuiltAsAssumed

\* The client is the one our proxies vouch for.
ClientIsVouchedFor == Policy!ClientIsVouchedFor

\* Versions and encodings are the ones asked for.
NegotiatedAsAsked == Policy!NegotiatedAsAsked

\* A grant is of its origin, and stays with it.
GrantsStayWithTheirOrigin == Policy!GrantsStayWithTheirOrigin
=============================================================================
