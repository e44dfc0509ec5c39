----------------------------- MODULE MCLifespan -----------------------------
(* Instances of Lifespan: ids of three modules and of one placeholder.     *)
EXTENDS Lifespan

CONSTANTS ai, security, database, cache, c1, c2

DistinctIds == <<security, database, cache>>

\* The placeholder ai depends on security, as in _INFRASTRUCTURE_MODULES.
TreeDeps == [n \in Name |-> IF n = ai THEN {security} ELSE {}]
CyclicDeps == [n \in Name |-> IF n = ai THEN {security}
                              ELSE IF n = security THEN {ai} ELSE {}]

OwnCapabilities == <<{c1}, {c2}, {}>>
\* The third module declares what the first two provide.
ClashingCapabilities == <<{c1}, {c2}, {c1, c2}>>

\* DatabaseModule and CacheModule release in dispose, the others in stop.
CloseStages == <<"stopped", "disposed", "disposed">>

Everywhere == (RuntimePlace \ {"graph"}) \union ModulePlace

\* No bundled module overrides initialize(): it does not raise.
ButInitialize == Everywhere \ {"initialized"}
=============================================================================
