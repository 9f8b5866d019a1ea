------------------------------- MODULE Client ------------------------------
(***************************************************************************)
(* RelayClient of relay/client.py: a process that publishes to a channel   *)
(* and handles what others post there, over a connection that breaks, to a *)
(* relay that does what Hub does: one session of it, its log and the       *)
(* worker's cursor.                                                        *)
(*                                                                         *)
(* The client's tasks share one event loop: callers of publish, _dispatch  *)
(* reading the socket, and _handle_loop.  A step ends where one of them    *)
(* awaits; a frame is on its way as soon as it is sent, and the task goes  *)
(* on later.                                                               *)
(*                                                                         *)
(* Abstractions.  One channel.  A broken connection loses what is on its   *)
(* way both ways and swallows what is sent until the client notices.  The  *)
(* back-off between connections is any delay.  Posts bounds what others    *)
(* post, Histories which connections break, which calls time out, when the *)
(* process dies and what the administrator does.                           *)
(***************************************************************************)
EXTENDS Integers, FiniteSets, SequencesExt

CONSTANTS
    Requests,   \* calls of publish
    Reply,      \* the request the handler makes of its first message, or None
    None,
    OutboxMax,
    Posts,      \* how many messages others post
    Histories   \* a prefix-closed set of sequences of acts

MaxSeq == Posts + Cardinality(Requests)
Seqs == 1..MaxSeq

ASSUME ClientAssumption ==
    /\ Posts \in Nat /\ OutboxMax \in Nat \ {0}
    /\ IsFiniteSet(Requests) /\ None \notin Requests
    /\ Reply \in Requests \cup {None}
    /\ <<>> \in Histories

VARIABLES
    \* the relay
    author,     \* the log: a sequence of requests, None for what others posted
    member,     \* whether the worker is in the channel
    cursor,     \* members.cursor
    sent,       \* Session.sent of the connection
    up, down,   \* frames on their way to the relay, and to the client
    \* the client
    link,       \* "none", "open", or "broken" before the client notices
    outbox,     \* _outbox: requests the relay has not confirmed
    call,       \* [Requests -> where the call is]
    result,     \* [Requests -> the seq it returned]
    reader,     \* _dispatch: [at, todo: what _flush is still to send, ack]
    inbox,      \* _inbox
    handler,    \* _handle_loop: [at, seq, ack]
    handled,    \* _handled
    acks,       \* _acks, 0 if there is none to send
    \* history
    runs,       \* what the handler of this process was called with
    seen,       \* what a handler of any process was done with
    owed,       \* what was posted to the worker as a member
    again,      \* joined from the start while the process knew the channel
    passed,     \* up to where the connection had been sent it then
    acts

relay == <<author, member, cursor, sent>>
wire == <<up, down>>
calls == <<outbox, call, result>>
work == <<inbox, handler, handled, runs, seen>>
rejoin == <<again, passed>>
vars == <<relay, wire, link, calls, reader, work, acks, owed, rejoin, acts>>

-----------------------------------------------------------------------------

Reading == [at |-> "reading", todo |-> <<>>, ack |-> 0]
Idle == [at |-> "idle", seq |-> 0, ack |-> 0]

Act(what) == Append(acts, what) \in Histories /\ acts' = Append(acts, what)

Larger(a, b) == IF a < b THEN b ELSE a

\* _send: what it was told to send is on its way, unless the connection broke.
Sends(frame) == up' = IF link = "open" THEN Append(up, frame) ELSE up

Publish_(r) == [type |-> "publish", of |-> r]
Ack_(seq) == [type |-> "ack", of |-> seq]
Frame(type, of, seq) == [type |-> type, of |-> of, seq |-> seq]

-----------------------------------------------------------------------------
(* The relay.                                                              *)

Stored(r) == {q \in 1..Len(author) : author[q] = r}

\* Somebody else posts to the channel.
Post ==
    /\ Cardinality(Stored(None)) < Posts
    /\ author' = Append(author, None)
    /\ owed' = IF member THEN owed \cup {Len(author')} ELSE owed
    /\ UNCHANGED <<member, cursor, sent, wire, link, calls, reader, work, acks, rejoin, acts>>

\* _deliver: the next row that is not the worker's own.
Deliver ==
    LET rows == {q \in Stored(None) : q > Larger(cursor, sent)} IN
    /\ link = "open" /\ member
    /\ \E q \in rows :
          /\ \A p \in rows : q <= p
          /\ sent' = q
          /\ down' = Append(down, Frame("message", None, q))
    /\ UNCHANGED <<author, member, cursor, up, link, calls, reader, work, acks,
                   owed, rejoin, acts>>

\* _deliver forgets what it sent of a channel the worker is not in, when it looks.
Forget ==
    /\ link = "open" /\ ~ member
    /\ sent # 0 /\ sent' = 0
    /\ UNCHANGED <<author, member, cursor, wire, link, calls, reader, work, acks,
                   owed, rejoin, acts>>

\* Mutant: every telling of a request is stored.
OnPublishAlways ==
    LET r == Head(up).of IN
    /\ up # <<>> /\ Head(up).type = "publish" /\ Len(author) < MaxSeq
    /\ up' = Tail(up)
    /\ author' = Append(author, r)
    /\ down' = Append(down, Frame("published", r, Len(author')))
    /\ UNCHANGED <<member, cursor, sent, link, calls, reader, work, acks, owed, rejoin, acts>>

\* Mutant: a resend is told the head of the channel.
OnPublishHead ==
    LET r == Head(up).of IN
    /\ up # <<>> /\ Head(up).type = "publish"
    /\ up' = Tail(up)
    /\ author' = IF Stored(r) = {} THEN Append(author, r) ELSE author
    /\ down' = Append(down, Frame("published", r, Len(author')))
    /\ UNCHANGED <<member, cursor, sent, link, calls, reader, work, acks, owed, rejoin, acts>>

\* _on_publish and append: a request is stored once.
OnPublish ==
    LET r == Head(up).of IN
    /\ up # <<>> /\ Head(up).type = "publish"
    /\ up' = Tail(up)
    /\ \/ /\ ~ member
          /\ down' = Append(down, Frame("error", r, 0))
          /\ UNCHANGED author
       \/ /\ member /\ Stored(r) = {}
          /\ author' = Append(author, r)
          /\ down' = Append(down, Frame("published", r, Len(author')))
       \/ /\ member
          /\ \E q \in Stored(r) : down' = Append(down, Frame("published", r, q))
          /\ UNCHANGED author
    /\ UNCHANGED <<member, cursor, sent, link, calls, reader, work, acks, owed, rejoin, acts>>

\* Store.ack.
OnAck ==
    LET q == Head(up).of IN
    /\ up # <<>> /\ Head(up).type = "ack"
    /\ up' = Tail(up)
    /\ cursor' = IF member THEN Larger(cursor, q) ELSE cursor
    /\ UNCHANGED <<author, member, sent, down, link, calls, reader, work, acks,
                   owed, rejoin, acts>>

Leave ==
    /\ Act(<<"leave">>)
    /\ member /\ member' = FALSE
    /\ cursor' = 0 /\ owed' = {} /\ passed' = 0
    /\ UNCHANGED <<author, sent, wire, link, calls, reader, work, acks, again>>

Join(from) ==
    /\ ~ member /\ member' = TRUE
    /\ cursor' = from
    /\ owed' = {q \in Stored(None) : q > from}
    /\ UNCHANGED <<author, sent, wire, link, calls, reader, work, acks>>

JoinNow == Act(<<"join">>) /\ Join(Len(author)) /\ again' = FALSE /\ UNCHANGED passed

JoinFromStart ==
    /\ Act(<<"from start">>) /\ Join(0)
    /\ again' = (handled > 0 \/ handler.at = "handling" \/ inbox # <<>>
                    \/ \E f \in Range(down) : f.type = "message")
    /\ passed' = IF link = "open" THEN sent ELSE 0

-----------------------------------------------------------------------------
(* The connection.                                                         *)

\* run connects; the session's first frame is the welcome.
Connect ==
    /\ link = "none"
    /\ link' = "open"
    /\ up' = <<>> /\ down' = <<Frame("welcome", None, 0)>>
    /\ sent' = 0 /\ passed' = 0
    /\ UNCHANGED <<author, member, cursor, calls, reader, work, acks, owed, again, acts>>

Break ==
    /\ Act(<<"break">>)
    /\ link = "open" /\ link' = "broken"
    /\ up' = <<>> /\ down' = <<>>
    /\ UNCHANGED <<relay, calls, reader, work, acks, owed, rejoin>>

\* run's read loop ends; a flush in it is given up.
Notice ==
    /\ link = "broken" /\ link' = "none"
    /\ reader' = Reading
    /\ UNCHANGED <<relay, wire, calls, work, acks, owed, rejoin, acts>>

\* The process dies and is started again.  Its calls end with it.
Crash ==
    /\ Act(<<"crash">>)
    /\ link' = "none" /\ up' = <<>> /\ down' = <<>>
    /\ outbox' = <<>> /\ reader' = Reading
    /\ call' = [r \in Requests |-> IF call[r] = "waiting" THEN "dead" ELSE call[r]]
    /\ inbox' = <<>> /\ handler' = Idle /\ handled' = 0 /\ acks' = 0 /\ runs' = <<>>
    /\ UNCHANGED <<relay, result, seen, owed, rejoin>>

-----------------------------------------------------------------------------
(* publish.                                                                *)

Call(r) ==
    /\ call[r] = "idle"
    /\ IF Len(outbox) >= OutboxMax
       THEN call' = [call EXCEPT ![r] = "full"] /\ UNCHANGED <<outbox, up>>
       ELSE /\ call' = [call EXCEPT ![r] = "waiting"]
            /\ outbox' = Append(outbox, r)
            /\ IF link = "none" THEN UNCHANGED up ELSE Sends(Publish_(r))
    /\ UNCHANGED <<relay, down, link, result, reader, work, acks, owed, rejoin, acts>>

\* Mutant: the request stays in the outbox.
TimeOutStays(r) ==
    /\ Act(<<"time out", r>>)
    /\ call[r] = "waiting" /\ call' = [call EXCEPT ![r] = "timed out"]
    /\ UNCHANGED <<relay, wire, link, outbox, result, reader, work, acks, owed, rejoin>>

\* wait_for gives up, and the request leaves the outbox.
TimeOut(r) ==
    /\ Act(<<"time out", r>>)
    /\ call[r] = "waiting" /\ call' = [call EXCEPT ![r] = "timed out"]
    /\ outbox' = RemoveFirst(outbox, r)
    /\ UNCHANGED <<relay, wire, link, result, reader, work, acks, owed, rejoin>>

\* _settle: whoever still waits is told.
Settle(r, how, seq) ==
    /\ outbox' = RemoveFirst(outbox, r)
    /\ IF call[r] = "waiting"
       THEN call' = [call EXCEPT ![r] = how] /\ result' = [result EXCEPT ![r] = seq]
       ELSE UNCHANGED <<call, result>>

-----------------------------------------------------------------------------
(* _dispatch.                                                              *)

\* Mutant: reads on when the handler is done.
DispatchWaits ==
    LET f == Head(down) IN
    /\ reader.at = "reading" /\ down # <<>> /\ handler.at # "handling"
    /\ down' = Tail(down)
    /\ \/ f.type = "message" /\ inbox' = Append(inbox, f.seq) /\ UNCHANGED <<calls, reader>>
       \/ f.type = "published" /\ Settle(f.of, "done", f.seq) /\ UNCHANGED <<inbox, reader>>
       \/ f.type = "error" /\ Settle(f.of, "refused", 0) /\ UNCHANGED <<inbox, reader>>
       \/ /\ f.type = "welcome" /\ UNCHANGED <<calls, inbox>>
          /\ reader' = [at |-> "publishing", todo |-> outbox, ack |-> 0]
    /\ UNCHANGED <<relay, up, link, handler, handled, runs, seen, acks, owed, rejoin, acts>>

\* The frames that do not make it await.
Dispatch ==
    LET f == Head(down) IN
    /\ reader.at = "reading" /\ down # <<>>
    /\ down' = Tail(down)
    /\ \/ /\ f.type = "message"
          /\ inbox' = Append(inbox, f.seq)
          /\ UNCHANGED <<calls, reader>>
       \/ /\ f.type = "published" /\ Settle(f.of, "done", f.seq)
          /\ UNCHANGED <<inbox, reader>>
       \/ /\ f.type = "error" /\ Settle(f.of, "refused", 0)
          /\ UNCHANGED <<inbox, reader>>
       \/ /\ f.type = "welcome"
          /\ reader' = [at |-> "publishing", todo |-> outbox, ack |-> 0]
          /\ UNCHANGED <<calls, inbox>>
    /\ UNCHANGED <<relay, up, link, handler, handled, runs, seen, acks, owed, rejoin, acts>>

\* _flush: the publishes that were waiting when it began, then _flush_acks.
Flush ==
    /\ reader.at = "publishing" /\ link # "none"
    /\ \/ /\ reader.todo # <<>>
          /\ Sends(Publish_(Head(reader.todo)))
          /\ reader' = [reader EXCEPT !.todo = Tail(@)]
       \/ /\ reader.todo = <<>> /\ acks = 0
          /\ reader' = Reading /\ UNCHANGED up
       \/ /\ reader.todo = <<>> /\ acks # 0
          /\ Sends(Ack_(acks))
          /\ reader' = [reader EXCEPT !.at = "acking", !.ack = acks]
    /\ UNCHANGED <<relay, down, link, calls, work, acks, owed, rejoin, acts>>

Flushed ==
    /\ reader.at = "acking" /\ reader' = Reading
    /\ acks' = IF acks = reader.ack THEN 0 ELSE acks
    /\ UNCHANGED <<relay, wire, link, calls, work, owed, rejoin, acts>>

-----------------------------------------------------------------------------
(* _handle_loop.                                                           *)

\* _flush_acks, up to where it has sent: without a connection nothing is.
Acknowledge(q) ==
    LET seq == Larger(q, acks) IN
    /\ acks' = seq
    /\ IF link = "none"
       THEN handler' = Idle /\ UNCHANGED up
       ELSE handler' = [at |-> "acking", seq |-> q, ack |-> seq] /\ Sends(Ack_(seq))

\* Mutant: acknowledged when it is given to the handler.
HandleAcked ==
    LET q == Head(inbox) IN
    /\ handler.at = "idle" /\ inbox # <<>>
    /\ inbox' = Tail(inbox)
    /\ q > handled
    /\ handler' = [at |-> "handling", seq |-> q, ack |-> 0]
    /\ runs' = Append(runs, q)
    /\ IF link = "none" THEN UNCHANGED up ELSE Sends(Ack_(q))
    /\ UNCHANGED <<relay, down, link, calls, reader, handled, seen, acks, owed, rejoin, acts>>

\* Mutant: whatever arrives is handled.
HandleAll ==
    LET q == Head(inbox) IN
    /\ handler.at = "idle" /\ inbox # <<>>
    /\ inbox' = Tail(inbox)
    /\ handler' = [at |-> "handling", seq |-> q, ack |-> 0]
    /\ runs' = Append(runs, q)
    /\ UNCHANGED <<relay, wire, link, calls, reader, handled, seen, acks, owed, rejoin, acts>>

\* A message that is new to the process goes to the handler, which may publish
\* and wait for that.
Handle ==
    LET q == Head(inbox) IN
    /\ handler.at = "idle" /\ inbox # <<>>
    /\ inbox' = Tail(inbox)
    /\ q > handled
    /\ handler' = [at |-> "handling", seq |-> q, ack |-> 0]
    /\ runs' = Append(runs, q)
    /\ UNCHANGED <<relay, wire, link, calls, reader, handled, seen, acks, owed, rejoin, acts>>

\* Mutant: nothing to do about one it has handled.
PassOverSilently ==
    /\ handler.at = "idle" /\ inbox # <<>>
    /\ inbox' = Tail(inbox)
    /\ Head(inbox) <= handled
    /\ UNCHANGED <<relay, wire, link, calls, reader, handler, handled, runs, seen, acks,
                   owed, rejoin, acts>>

\* One it has handled is acknowledged again.
PassOver ==
    LET q == Head(inbox) IN
    /\ handler.at = "idle" /\ inbox # <<>>
    /\ inbox' = Tail(inbox)
    /\ q <= handled /\ Acknowledge(q)
    /\ UNCHANGED <<relay, down, link, calls, reader, handled, runs, seen, owed, rejoin, acts>>

\* The handler returns, or raises, which is the same.
Return ==
    LET q == handler.seq IN
    /\ handler.at = "handling"
    /\ Reply # None => call[Reply] \notin {"idle", "waiting"}
    /\ handled' = q /\ seen' = seen \cup {q}
    /\ Acknowledge(q)
    /\ UNCHANGED <<relay, down, link, calls, reader, inbox, runs, owed, rejoin, acts>>

Acknowledged ==
    /\ handler.at = "acking" /\ handler' = Idle
    /\ acks' = IF acks = handler.ack THEN 0 ELSE acks
    /\ UNCHANGED <<relay, wire, link, calls, reader, inbox, handled, runs, seen, owed, rejoin, acts>>

-----------------------------------------------------------------------------

Init ==
    /\ author = <<>> /\ member = TRUE /\ cursor = 0 /\ sent = 0
    /\ up = <<>> /\ down = <<>> /\ link = "none"
    /\ outbox = <<>>
    /\ call = [r \in Requests |-> "idle"] /\ result = [r \in Requests |-> 0]
    /\ reader = Reading
    /\ inbox = <<>> /\ handler = Idle /\ handled = 0 /\ acks = 0
    /\ runs = <<>> /\ seen = {} /\ owed = {} /\ again = FALSE /\ passed = 0
    /\ acts = <<>>

\* The application publishes when it likes; its handler, while it handles.
Calls == \E r \in Requests : (r = Reply => handler.at = "handling") /\ Call(r)

Relay == Deliver \/ Forget \/ OnPublish \/ OnAck
Reader == Dispatch \/ Flush \/ Flushed
Handler == Handle \/ PassOver \/ Return \/ Acknowledged

Next ==
    \/ Post \/ Relay \/ Leave \/ JoinNow \/ JoinFromStart
    \/ Connect \/ Break \/ Notice \/ Crash
    \/ Calls \/ \E r \in Requests : TimeOut(r)
    \/ Reader \/ Handler

Spec == Init /\ [][Next]_vars

\* The relay and the client's tasks go on, a client without a connection gets
\* one, and a handler makes the request it is to make.
Fairness ==
    /\ WF_vars(Deliver) /\ WF_vars(OnPublish \/ OnAck)
    /\ WF_vars(Connect) /\ WF_vars(Notice)
    /\ WF_vars(Reader) /\ WF_vars(Handler)
    /\ WF_vars(Reply # None /\ handler.at = "handling" /\ Call(Reply))

FairSpec == Spec /\ Fairness

-----------------------------------------------------------------------------
(* Properties.                                                             *)

Types == {"publish", "ack", "message", "published", "error", "welcome"}

TypeOK ==
    /\ Len(author) <= MaxSeq /\ Range(author) \subseteq Requests \cup {None}
    /\ member \in BOOLEAN /\ cursor \in 0..Len(author) /\ sent \in 0..Len(author)
    /\ Range(up) \subseteq [type : {"publish"}, of : Requests] \cup [type : {"ack"}, of : Seqs]
    /\ Range(down) \subseteq [type : Types, of : Requests \cup {None}, seq : 0..MaxSeq]
    /\ link \in {"none", "open", "broken"}
    /\ Range(outbox) = {r \in Requests : call[r] = "waiting"} /\ Len(outbox) <= OutboxMax
    /\ call \in [Requests -> {"idle", "waiting", "done", "refused", "full", "timed out", "dead"}]
    /\ result \in [Requests -> 0..MaxSeq]
    /\ reader.at \in {"reading", "publishing", "acking"}
    /\ Range(reader.todo) \subseteq Requests /\ reader.ack \in 0..MaxSeq
    /\ Range(inbox) \subseteq Stored(None)
    /\ handler \in [at : {"idle", "handling", "acking"}, seq : 0..MaxSeq, ack : 0..MaxSeq]
    /\ handled \in {0} \cup Stored(None) /\ acks \in {0} \cup Stored(None)
    /\ Range(runs) \subseteq Stored(None) /\ seen \subseteq Stored(None)
    /\ owed \subseteq Stored(None) /\ again \in BOOLEAN
    /\ passed \in 0..Len(author)
    /\ acts \in Histories

\* "Resends from the publisher are dropped": however often a request is sent,
\* over however many connections, the channel has it once.
StoredOnce == \A r \in Requests : Cardinality(Stored(r)) <= 1

\* "Stored before it is confirmed": a call returns the seq its message has.
Confirmed == \A r \in Requests : call[r] = "done" => result[r] \in Stored(r)

\* "In order per channel", and "the client skips resends it already handled in
\* the same process".
HandledInOrder ==
    \A i, j \in DOMAIN runs : i < j => runs[i] < runs[j]

\* "The client acknowledges a message after its handler returns": what the
\* cursor is past was handled by this process or one before it, whatever was
\* sent twice, lost or given up in between.  A worker that joins from the start
\* again is another matter.
AckedHandled ==
    \A q \in owed : q <= cursor => q \in seen \/ again

\* A call that does not time out returns in the end: its message waits through
\* disconnects, and its handler is not waiting for itself.
Returned ==
    \A r \in Requests : call[r] = "waiting" ~> call[r] # "waiting"

\* What is posted to the worker is handled and acknowledged in the end, by a
\* process that comes back after it died.  A worker taken out and let in again
\* from the start before _deliver looked is another matter: the connection
\* passes over what it was sent before, until there is another one.
Acked ==
    \A q \in Seqs : q \in owed ~> q \notin owed \/ q <= cursor \/ q <= passed
=============================================================================
