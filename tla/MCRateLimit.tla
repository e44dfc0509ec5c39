----------------------------- MODULE MCRateLimit -----------------------------
(* Instances of RateLimit.                                                 *)
EXTENDS RateLimit

CONSTANTS r1, r2, r3, c1, c2

SharedClient == [r \in Request |-> IF r = r3 THEN c2 ELSE c1]

\* Each rule is, in some state, the first one to refuse.
AllAlgorithm == <<"fixed_window", "leaky_bucket", "sliding_window", "token_bucket">>
AllLimit == <<2, 1, 3, 1>>
AllWindow == <<3, 2, 5, 1>>
AllCapacity == <<2, 2, 3, 1>>
=============================================================================
