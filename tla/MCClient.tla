------------------------------ MODULE MCClient -----------------------------
(* Client for TLC: one call of the application's, one of the handler's. *)
EXTENDS Client

CONSTANTS r1, r2

MCHistories == UNION {Prefixes(hist) : hist \in {
    <<<<"break">>, <<"crash">>>>,
    <<<<"break">>, <<"time out", r1>>>>,
    <<<<"leave">>, <<"join">>, <<"leave">>, <<"from start">>>>,
    <<<<"leave">>, <<"from start">>, <<"leave">>, <<"join">>>>}}
=============================================================================
