------------------------------- MODULE MCLog -------------------------------
(* ChannelLog for TLC: a reader w and a publisher. *)
EXTENDS ChannelLog, TLC

CONSTANTS w, r1, r2, r3, other, id, job

Prefixes(S) == UNION {{SubSeq(hist, 1, n) : n \in 0..Len(hist)} : hist \in S}

MCRequests == {r1, r2, r3}
NoHistories == {<<>>}

\* Publishing, with nobody reading: r1 and r2 tell one id, r1 and r3 one job.
PublishSender == [r \in MCRequests |-> other]
PublishCid == (r1 :> id) @@ (r2 :> id) @@ (r3 :> None)
PublishJob == (r1 :> job) @@ (r2 :> None) @@ (r3 :> job)
PublishHistories == Prefixes({
    <<<<"fail", r1>>, <<"fail", r2>>, <<"fail", r1>>>>,
    <<<<"fail", r3>>, <<"fail", r1>>>>,
    <<<<"mute", id>>, <<"unmute", id>>, <<"fail", r2>>>>})

\* Reading, with two publishers, one of which may store its message twice.
ReadSender == [r \in MCRequests |-> other]
ReadNone == [r \in MCRequests |-> None]
ReadHistories == Prefixes({
    <<<<"lose", w>>, <<"fail", r1>>, <<"lose", w>>>>,
    <<<<"join", w>>, <<"leave", w>>, <<"fail", r1>>>>,
    <<<<"leave", w>>, <<"join", w>>, <<"stray", w>>>>,
    <<<<"leave", w>>, <<"from start", w>>, <<"stray", w>>>>,
    <<<<"again", w>>, <<"lose", w>>, <<"fail", r1>>>>,
    <<<<"skip", w>>, <<"resend", w>>, <<"fail", r1>>>>,
    <<<<"resend", w>>, <<"leave", w>>, <<"from start", w>>>>})
=============================================================================
