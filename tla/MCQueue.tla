------------------------------ MODULE MCQueue ------------------------------
(* Queue for TLC: a harvester h that posts, and takers a and b in that order. *)
EXTENDS Queue, TLC

CONSTANTS h, a, b, pa, pb

MCWorkers == {h, a, b}
MCPolls == {pa, pb}
MCOwner == (pa :> a) @@ (pb :> b)
MCRank == (h :> 0) @@ (a :> 1) @@ (b :> 2)
MCTakers == (h :> 0) @@ (a :> 1) @@ (b :> 1)
MCAuthor == [s \in 1..MaxSeq |-> h]
MCRoutes == [w \in {h, a, b, Server} |-> {}]

\* The administrator's acts and the failures, in the orders a run explores.
MCHistories == {<<>>, <<<<"fail", pa>>>>, <<<<"keep", 1>>>>, <<<<"off">>>>,
                <<<<"leave", a>>>>, <<<<"leave", a>>, <<"join", a, TRUE>>>>}

LongHistories == UNION {{SubSeq(hist, 1, n) : n \in 0..Len(hist)} : hist \in
    {<<<<"turn", a, 0>>, <<"turn", a, 1>>, <<"stop", b>>>>,
     <<<<"leave", a>>, <<"join", a, TRUE>>, <<"turn", a, 1>>>>,
     <<<<"off">>, <<"on">>, <<"fail", pa>>>>,
     <<<<"stop", a>>, <<"turn", h, 1>>>>,
     <<<<"fail", pa>>, <<"fail", pb>>>>}}
=============================================================================
