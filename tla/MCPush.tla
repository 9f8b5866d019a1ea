------------------------------- MODULE MCPush -------------------------------
(* Push for TLC: two servers, a chat and a trigger that work and one of each
   whose address is gone. *)
EXTENDS Push, TLC

CONSTANTS v1, v2, c, cGone, t, tGone, x, y

Prefixes(S) == UNION {{SubSeq(h, 1, n) : n \in 0..Len(h)} : h \in S}

MCServers == {v1, v2}
MCChats == {c, cGone}
MCTriggers == {t, tGone}
MCBroken == {cGone, tGone}
MCAuthor == [s \in 1..MaxSeq |-> IF s = 1 THEN x ELSE y]

MCHistories == Prefixes({
    <<<<"crash", v1>>>>, <<<<"abort", <<v1, MCChats>>>>>>, <<<<"fail", t>>>>,
    <<<<"refuse", c>>>>, <<<<"silence", c, x>>>>, <<<<"resend", c>>>>, <<<<"skip", c>>>>,
    <<<<"leave", t>>, <<"from start", t>>>>, <<<<"leave", c>>, <<"join", c>>>>})
=============================================================================
