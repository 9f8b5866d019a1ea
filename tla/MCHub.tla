------------------------------- MODULE MCHub -------------------------------
(* Hub for TLC: one worker and its sockets. *)
EXTENDS Hub, TLC

CONSTANTS w1, s1, s2, s3

Prefixes(S) == UNION {{SubSeq(hist, 1, n) : n \in 0..Len(hist)} : hist \in S}

MCMembers == {<<w1, 1>>, <<w1, 2>>}
MCHistories == Prefixes({
    <<<<"leave", w1, 1>>, <<"from start", w1, 1>>, <<"drop">>>>,
    <<<<"leave", w1, 2>>, <<"join", w1, 2>>, <<"drop">>>>,
    <<<<"remove", 1>>, <<"from start", w1, 1>>>>,
    <<<<"prune">>, <<"restart">>>>,
    <<<<"stray", w1>>, <<"leave", w1, 1>>>>,
    <<<<"leave", w1, 1>>, <<"from start", w1, 1>>, <<"stray", w1>>>>,
    <<<<"drop">>, <<"rotate", w1>>>>,
    <<<<"remove", w1>>, <<"join", w1, 1>>>>})

SocketSymmetry == Permutations(Sockets)
=============================================================================
