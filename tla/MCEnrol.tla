------------------------------ MODULE MCEnrol ------------------------------
(* Enrol for TLC: one bridge, and two people at the console.  A bridge that is
   deployed anew without its file stands for a second machine of its name. *)
EXTENDS Enrol, TLC

CONSTANTS b, x, y

Prefixes(S) == UNION {{SubSeq(h, 1, n) : n \in 0..Len(h)} : h \in S}

MCName == b :> "p"

MCHistories == Prefixes({
    <<"crash", "reject">>, <<"redeploy", "restart">>, <<"reject", "redeploy", "age">>,
    <<"age", "crash">>, <<"remove", "crash">>, <<"reissue", "redeploy">>,
    <<"error">>})

NoHistories == Prefixes({<<"reject">>})
=============================================================================
