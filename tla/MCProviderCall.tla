--------------------------- MODULE MCProviderCall ---------------------------
(* ProviderCall for TLC: two workers of one request, which share its budget *)
(* and one upstream slot.                                                   *)
EXTENDS ProviderCall, TLC

CONSTANTS w1, w2, r1

OneRequest == (w1 :> r1) @@ (w2 :> r1)
OneRequestCosts == (w1 :> [inputBytes |-> 1, outputTokens |-> 2])
                @@ (w2 :> [inputBytes |-> 2, outputTokens |-> 1])
=============================================================================
