----------------------------- MODULE MCRouting ------------------------------
(* Three routers, in a line a - b - c or each with a wire to both others.    *)
EXTENDS Routing

MCLine == [r \in Routers |-> IF r = "b" THEN <<"a", "c">> ELSE <<"b">>]
MCTriangle == [r \in Routers |-> SetToSeq(Routers \ {r})]
MCSenders == {<<"a", "c">>}
=============================================================================
