------------------------------ MODULE MCBridge ------------------------------
(* Bridge for TLC: a job, a bad one and a good one in one channel, news in
   another, and a channel that is not watched. *)
EXTENDS Bridge, TLC

Prefixes(S) == UNION {{SubSeq(h, 1, n) : n \in 0..Len(h)} : h \in S}

MCChannel == <<"jobs", "other", "jobs", "github", "other", "jobs">>
MCBad == 3 :> "no budget" @@ 6 :> "no budget"

MCHistories == Prefixes({
    <<"down", "up", "crash">>, <<"amiss", "up", "ack lost">>, <<"amiss", "crash", "up">>,
    <<"ack lost", "down", "up">>, <<"time out", "crash">>, <<"crash", "time out", "ack lost">>})
=============================================================================
