-------------------------------- MODULE Hub --------------------------------
(***************************************************************************)
(* The process relay: Hub of relay/hub.py, the routes of relay/app.py that *)
(* call it and the Store of relay/store.py beneath it.                     *)
(*                                                                         *)
(* Everything between two awaits is one step, because one event loop runs  *)
(* it all; a step ends where the code awaits a socket: accepting it,       *)
(* closing the one it replaces, sending a row or a frame.  Store's methods *)
(* do not await.                                                           *)
(*                                                                         *)
(* Abstractions.  A socket is used once.  What a client does is its        *)
(* acknowledgements: of any seq of any channel, at any time.  A frame that *)
(* is sent counts as received.  Channels are numbered in the order         *)
(* channels_of returns them.  MaxSeq bounds the messages, and a seq beyond *)
(* it is acknowledged as MaxSeq is; MaxTokens bounds a worker's tokens,    *)
(* and Histories what the administrator does, which connections are lost,  *)
(* when messages are pruned and what is acknowledged that was not sent.    *)
(***************************************************************************)
EXTENDS Integers, FiniteSets, Sequences

CONSTANTS
    Workers,
    Sockets,    \* connections a worker may open
    Channels,
    Server,     \* who posts without being a member
    None,
    Members,    \* the memberships at the start, <<worker, channel>>
    Batch,      \* BATCH: rows _deliver reads of a channel at a time
    MaxSeq,
    MaxTokens,
    Histories   \* a prefix-closed set of sequences of acts

Seqs == 1..MaxSeq
NoCursor == -1

ASSUME HubAssumption ==
    /\ Channels \subseteq Nat /\ Batch \in Nat \ {0}
    /\ MaxSeq \in Nat /\ MaxTokens \in Nat \ {0}
    /\ Members \subseteq Workers \X Channels /\ <<>> \in Histories
    /\ None \notin Sockets /\ Server \notin Workers
    /\ None \notin Workers \cup {Server}

VARIABLES
    last,       \* sqlite_sequence: the last seq issued
    room,       \* [Seqs -> the channel of the message, or 0]
    sender,     \* [Seqs -> who posted it, or None]
    log,        \* the messages stored
    cursor,     \* [Workers -> [Channels -> members.cursor, or NoCursor]]
    token,      \* [Workers -> its token, 0 for a worker that is removed]
    issued,     \* [Workers -> how many tokens it had]
    session,    \* Hub.sessions: [Workers -> a socket or None]
    at,         \* [Sockets -> where serving it is]
    owner,      \* [Sockets -> the worker it authenticated as, or None]
    proof,      \* [Sockets -> the token it showed]
    up,         \* sockets that are open
    sent,       \* Session.sent: [Sockets -> [Channels -> seq]]
    wake,       \* sockets whose Session.wake is set
    loop,       \* [Sockets -> where its delivery loop is]
    frames,     \* [Sockets -> what was sent on it]
    tell,       \* members of a removed channel that are yet to be notified
    pending,    \* [Sockets -> how many notifies are sending a frame on it]
    got,        \* history: [Workers -> what it was sent since it joined]
    owed,       \* history: [Workers -> what was posted to it as a member]
    newest,     \* history: [Workers -> the socket that registered last]
    mixed,      \* history: see Remnant
    stray,      \* history: see Beyond
    acts

store == <<last, room, sender, log>>
keys == <<token, issued>>
conns == <<session, at, owner, proof, up, newest>>
delivery == <<sent, loop, frames>>
waking == <<wake, tell, pending>>
history == <<got, owed, mixed, stray>>
vars == <<store, cursor, keys, conns, delivery, waking, history, acts>>

-----------------------------------------------------------------------------

Member(w, c) == cursor[w][c] # NoCursor
Serving(s) == at[s] = "serving"

Lowest(S, n) == {q \in S : Cardinality({r \in S : r < q}) < n}
First(S) == CHOOSE q \in S : \A r \in S : q <= r
Larger(a, b) == IF a < b THEN b ELSE a

\* Mutant: everything above the cursor, sent or not.
RowsUnacknowledged(w, c, snap, done) ==
    Lowest({q \in log : room[q] = c /\ sender[q] # w /\ q > snap[c]}, Batch)

\* messages_after for a channel of the snapshot: neither what was sent already
\* nor the worker's own.
Rows(w, c, snap, done) ==
    Lowest({q \in log : /\ room[q] = c /\ sender[q] # w
                        /\ q > Larger(snap[c], done[c])}, Batch)

Nowhere == [c \in Channels |-> NoCursor]
Unsent == [c \in Channels |-> 0]
Resting(where) == [at |-> where, snap |-> Nowhere, todo |-> {}, rows |-> {}, more |-> FALSE]

\* _deliver from where it has sent the rows of a channel: on to the next one
\* that has some, or back to _delivery_loop, which looks again if a batch was
\* full and otherwise waits.
Onward(w, snap, todo, done, more) ==
    LET ready == {c \in todo : Rows(w, c, snap, done) # {}}
        c == First(ready)
        rows == Rows(w, c, snap, done)
    IN  IF ready = {} THEN Resting(IF more THEN "looking" ELSE "waiting")
        ELSE [at |-> "sending", snap |-> snap, todo |-> {d \in todo : d > c},
              rows |-> rows, more |-> more \/ Cardinality(rows) = Batch]

Act(what) == Append(acts, what) \in Histories /\ acts' = Append(acts, what)

-----------------------------------------------------------------------------
(* The store.                                                              *)

\* publish: the members of the channel that are connected are woken, in the
\* step that stores the message.
Post(c, from) ==
    LET q == last + 1
        to == {w \in Workers \ {from} : Member(w, c)}
    IN
    /\ last < MaxSeq
    /\ from # Server => Member(from, c)
    /\ last' = q
    /\ room' = [room EXCEPT ![q] = c] /\ sender' = [sender EXCEPT ![q] = from]
    /\ log' = log \cup {q}
    /\ wake' = wake \cup ({session[w] : w \in to} \ {None})
    /\ owed' = [w \in Workers |-> owed[w] \cup IF w \in to THEN {q} ELSE {}]
    /\ UNCHANGED <<cursor, keys, conns, delivery, tell, pending, got, mixed, stray, acts>>

\* A message leaves the log, and nobody is owed it any more.
Delete(gone) ==
    /\ log' = log \ gone
    /\ owed' = [w \in Workers |-> owed[w] \ gone]

\* _prune_loop.
Prune ==
    /\ Act(<<"prune">>)
    /\ \E q \in log : Delete({r \in log : r <= q})
    /\ UNCHANGED <<last, room, sender, cursor, keys, conns, delivery, waking, got, mixed, stray>>

\* w's membership of the channels in C ends.
Forget(w, C) ==
    /\ cursor' = [cursor EXCEPT ![w] = [c \in Channels |-> IF c \in C THEN NoCursor ELSE @[c]]]
    /\ owed' = [owed EXCEPT ![w] = {q \in @ : room[q] \notin C}]

\* notify, up to where it sends the frame.
Notify(w) ==
    pending' = [s \in Sockets |-> IF s = session[w] THEN pending[s] + 1 ELSE pending[s]]

\* What of an earlier membership is left when a worker joins from the start:
\* rows its socket was sent, which it may still acknowledge, or a delivery that
\* is not past the channel yet.
Remnant(s, c) ==
    \/ \E q \in frames[s] \cup loop[s].rows : room[q] = c
    \/ c \in loop[s].todo

Join(w, c, from) ==
    /\ token[w] # 0 /\ ~ Member(w, c)
    /\ cursor' = [cursor EXCEPT ![w][c] = from]
    /\ owed' = [owed EXCEPT ![w] =
                  @ \cup {q \in log : room[q] = c /\ sender[q] # w /\ q > from}]
    /\ mixed' = IF \E s \in Sockets : owner[s] = w /\ Remnant(s, c)
                THEN IF from = 0 THEN mixed \cup {<<w, c>>} ELSE mixed
                ELSE mixed \ {<<w, c>>}
    /\ got' = [got EXCEPT ![w] = {q \in @ : room[q] # c}]
    /\ stray' = stray \ {<<w, c>>}
    /\ Notify(w)
    /\ UNCHANGED <<store, keys, conns, delivery, wake, tell>>

JoinNow(w, c) == Act(<<"join", w, c>>) /\ Join(w, c, last)
JoinFromStart(w, c) == Act(<<"from start", w, c>>) /\ Join(w, c, 0)

Leave(w, c) ==
    /\ Act(<<"leave", w, c>>)
    /\ Member(w, c)
    /\ Forget(w, {c})
    /\ Notify(w)
    /\ UNCHANGED <<store, keys, conns, delivery, wake, tell, got, mixed, stray>>

\* remove_channel: its rows and memberships go at once, and its members are
\* notified one after the other.  The name may be used again.
RemoveChannel(c) ==
    LET gone == {q \in log : room[q] = c} IN
    /\ Act(<<"remove", c>>)
    /\ log' = log \ gone
    /\ cursor' = [w \in Workers |-> [cursor[w] EXCEPT ![c] = NoCursor]]
    /\ owed' = [w \in Workers |-> owed[w] \ gone]
    /\ tell' = tell \cup {w \in Workers : Member(w, c)}
    /\ UNCHANGED <<last, room, sender, keys, conns, delivery, wake, pending, got, mixed, stray>>

Tell(w) ==
    /\ w \in tell /\ tell' = tell \ {w}
    /\ Notify(w)
    /\ UNCHANGED <<store, cursor, keys, conns, delivery, wake, history, acts>>

\* notify, once the frame was sent or could not be.
Notified(s) ==
    /\ pending[s] > 0 /\ pending' = [pending EXCEPT ![s] = @ - 1]
    /\ wake' = wake \cup {s}
    /\ UNCHANGED <<store, cursor, keys, conns, delivery, tell, history, acts>>

-----------------------------------------------------------------------------
(* Connections.                                                            *)

\* worker_socket, up to where it accepts the socket.
Arrive(s, w) ==
    /\ at[s] = "free" /\ token[w] # 0
    /\ at' = [at EXCEPT ![s] = "accepting"]
    /\ owner' = [owner EXCEPT ![s] = w] /\ proof' = [proof EXCEPT ![s] = token[w]]
    /\ up' = up \cup {s}
    /\ UNCHANGED <<store, cursor, keys, session, newest, delivery, waking, history, acts>>

\* The session takes the worker's place and its loops start.
Enter(s) ==
    /\ session' = [session EXCEPT ![owner[s]] = s]
    /\ newest' = [newest EXCEPT ![owner[s]] = s]
    /\ at' = [at EXCEPT ![s] = "serving"]
    /\ loop' = [loop EXCEPT ![s] = Resting("looking")]
    /\ UNCHANGED <<owner, proof, sent, frames>>

\* serve, up to where it waits for the connection it replaces to close.
Serve(s) ==
    LET old == session[owner[s]] IN
    /\ at[s] = "accepting"
    /\ \/ old = None /\ Enter(s) /\ UNCHANGED up
       \/ /\ old # None
          /\ up' = up \ {old}
          /\ at' = [at EXCEPT ![s] = "replacing"]
          /\ UNCHANGED <<session, newest, owner, proof, delivery>>
    /\ UNCHANGED <<store, cursor, keys, waking, history, acts>>

Register(s) ==
    /\ at[s] = "replacing" /\ Enter(s)
    /\ UNCHANGED <<store, cursor, keys, up, waking, history, acts>>

\* Nothing is left of the socket's session.
Gone(s) ==
    /\ at' = [at EXCEPT ![s] = "ended"]
    /\ sent' = [sent EXCEPT ![s] = Unsent]
    /\ loop' = [loop EXCEPT ![s] = Resting("waiting")]
    /\ frames' = [frames EXCEPT ![s] = {}]
    /\ wake' = wake \ {s}
    /\ pending' = [pending EXCEPT ![s] = 0]

\* Mutant: whoever is registered is removed.
EndEvicts(s) ==
    LET w == owner[s] IN
    /\ Serving(s) /\ s \notin up
    /\ session' = [session EXCEPT ![w] = None]
    /\ Gone(s)
    /\ UNCHANGED <<store, cursor, keys, owner, proof, up, newest, tell, history, acts>>

\* serve's finally, once the socket was closed from either side.
End(s) ==
    LET w == owner[s] IN
    /\ Serving(s) /\ s \notin up
    /\ session' = [session EXCEPT ![w] = IF @ = s THEN None ELSE @]
    /\ Gone(s)
    /\ UNCHANGED <<store, cursor, keys, owner, proof, up, newest, tell, history, acts>>

Drop(s) ==
    /\ Act(<<"drop">>)
    /\ s \in up /\ up' = up \ {s}
    /\ UNCHANGED <<store, cursor, keys, session, at, owner, proof, newest,
                   delivery, waking, history>>

\* The server is restarted: what it had in memory is gone.
Restart ==
    /\ Act(<<"restart">>)
    /\ session' = [w \in Workers |-> None] /\ newest' = [w \in Workers |-> None]
    /\ at' = [s \in Sockets |-> IF at[s] = "free" THEN "free" ELSE "ended"]
    /\ up' = {} /\ wake' = {} /\ tell' = {}
    /\ pending' = [s \in Sockets |-> 0]
    /\ sent' = [s \in Sockets |-> Unsent]
    /\ loop' = [s \in Sockets |-> Resting("waiting")]
    /\ frames' = [s \in Sockets |-> {}]
    /\ UNCHANGED <<store, cursor, keys, owner, proof, history>>

\* kick: whoever is registered is closed.
Kick(w) == up' = up \ {session[w]}

Rotate(w) ==
    /\ Act(<<"rotate", w>>)
    /\ token[w] # 0 /\ issued[w] < MaxTokens
    /\ issued' = [issued EXCEPT ![w] = @ + 1] /\ token' = [token EXCEPT ![w] = issued'[w]]
    /\ Kick(w)
    /\ UNCHANGED <<store, cursor, session, at, owner, proof, newest, delivery,
                   waking, history>>

RemoveWorker(w) ==
    /\ Act(<<"remove", w>>)
    /\ token[w] # 0 /\ token' = [token EXCEPT ![w] = 0]
    /\ Forget(w, Channels)
    /\ Kick(w)
    /\ UNCHANGED <<store, issued, session, at, owner, proof, newest, delivery,
                   waking, got, mixed, stray>>

AddWorker(w) ==
    /\ token[w] = 0 /\ issued[w] < MaxTokens
    /\ issued' = [issued EXCEPT ![w] = @ + 1] /\ token' = [token EXCEPT ![w] = issued'[w]]
    /\ UNCHANGED <<store, cursor, conns, delivery, waking, history, acts>>

-----------------------------------------------------------------------------
(* The loops of a session.                                                 *)

\* _delivery_loop clears wake and _deliver reads the cursors, drops what was
\* sent of channels the worker is not in, and reads the first rows.
Look(s) ==
    LET w == owner[s]
        done == [c \in Channels |-> IF Member(w, c) THEN sent[s][c] ELSE 0]
        here == {c \in Channels : Member(w, c)}
    IN
    /\ Serving(s) /\ s \in up
    /\ loop[s].at = "looking" \/ (loop[s].at = "waiting" /\ s \in wake)
    /\ wake' = wake \ {s}
    /\ sent' = [sent EXCEPT ![s] = done]
    /\ loop' = [loop EXCEPT ![s] = Onward(w, cursor[w], here, done, FALSE)]
    /\ UNCHANGED <<store, cursor, keys, conns, frames, tell, pending, history, acts>>

\* Mutant: wake is cleared after the reading.
SendClears(s) ==
    LET l == loop[s]
        q == First(l.rows)
        done == [sent[s] EXCEPT ![room[q]] = q]
    IN
    /\ Serving(s) /\ s \in up
    /\ l.at = "sending"
    /\ sent' = [sent EXCEPT ![s] = done]
    /\ frames' = [frames EXCEPT ![s] = @ \cup {q}]
    /\ got' = [got EXCEPT ![owner[s]] = @ \cup {q}]
    /\ loop' = [loop EXCEPT ![s] =
                  IF l.rows # {q} THEN [l EXCEPT !.rows = @ \ {q}]
                  ELSE Onward(owner[s], l.snap, l.todo, done, l.more)]
    /\ wake' = IF loop'[s].at = "waiting" THEN wake \ {s} ELSE wake
    /\ UNCHANGED <<store, cursor, keys, conns, tell, pending, owed, mixed, stray, acts>>

\* A row was sent; the next one is, or the rows of the next channel are read.
Send(s) ==
    LET l == loop[s]
        q == First(l.rows)
        done == [sent[s] EXCEPT ![room[q]] = q]
    IN
    /\ Serving(s) /\ s \in up
    /\ l.at = "sending"
    /\ sent' = [sent EXCEPT ![s] = done]
    /\ frames' = [frames EXCEPT ![s] = @ \cup {q}]
    /\ got' = [got EXCEPT ![owner[s]] = @ \cup {q}]
    /\ loop' = [loop EXCEPT ![s] =
                  IF l.rows # {q} THEN [l EXCEPT !.rows = @ \ {q}]
                  ELSE Onward(owner[s], l.snap, l.todo, done, l.more)]
    /\ UNCHANGED <<store, cursor, keys, conns, waking, owed, mixed, stray, acts>>

\* An acknowledgement that takes w's place to where it was sent nothing yet of
\* the channel since it joined is a stray: a mistake, or kept by a client from a
\* membership before.  No other one is counted.
Beyond(w, c, to) == cursor[w][c] < to /\ \A r \in got[w] : room[r] = c => r < to

Counted(w, c, to) ==
    IF Beyond(w, c, to)
    THEN Act(<<"stray", w>>) /\ stray' = stray \cup {<<w, c>>}
    ELSE UNCHANGED <<stray, acts>>

\* Mutant: without MIN, as far as it is told to.
AckUncapped(s, c, q) ==
    LET w == owner[s] IN
    /\ Serving(s) /\ Member(w, c)
    /\ cursor' = [cursor EXCEPT ![w][c] = Larger(@, q)]
    /\ Counted(w, c, q)
    /\ UNCHANGED <<store, keys, conns, delivery, waking, got, owed, mixed>>

\* Mutant: WHERE worker_id = ?, whatever the channel.
AckEverywhere(s, c, q) ==
    LET w == owner[s] IN
    /\ Serving(s) /\ Member(w, c)
    /\ \E top \in log \cup {0} :
          LET to == IF q < top THEN q ELSE top IN
          /\ \A t \in log : t <= top
          /\ cursor' = [cursor EXCEPT ![w] = [d \in Channels |->
                            IF Member(w, d) THEN Larger(@[d], to) ELSE NoCursor]]
          /\ Counted(w, c, to)
    /\ UNCHANGED <<store, keys, conns, delivery, waking, got, owed, mixed>>

\* Store.ack, whatever the seq and wherever the client has it from: never
\* backwards, never past the last stored message.
Ack(s, c, q) ==
    LET w == owner[s] IN
    /\ Serving(s) /\ Member(w, c)
    /\ \E top \in log \cup {0} :
          LET to == IF q < top THEN q ELSE top IN
          /\ \A t \in log : t <= top
          /\ cursor' = [cursor EXCEPT ![w][c] = Larger(@, to)]
          /\ Counted(w, c, to)
    /\ UNCHANGED <<store, keys, conns, delivery, waking, got, owed, mixed>>

-----------------------------------------------------------------------------

Init ==
    /\ last = 0 /\ log = {}
    /\ room = [q \in Seqs |-> 0] /\ sender = [q \in Seqs |-> None]
    /\ cursor = [w \in Workers |->
                   [c \in Channels |-> IF <<w, c>> \in Members THEN 0 ELSE NoCursor]]
    /\ token = [w \in Workers |-> 1] /\ issued = [w \in Workers |-> 1]
    /\ session = [w \in Workers |-> None] /\ newest = [w \in Workers |-> None]
    /\ at = [s \in Sockets |-> "free"]
    /\ owner = [s \in Sockets |-> None] /\ proof = [s \in Sockets |-> 0]
    /\ up = {} /\ wake = {} /\ tell = {}
    /\ pending = [s \in Sockets |-> 0]
    /\ sent = [s \in Sockets |-> Unsent]
    /\ loop = [s \in Sockets |-> Resting("waiting")]
    /\ frames = [s \in Sockets |-> {}]
    /\ got = [w \in Workers |-> {}] /\ owed = [w \in Workers |-> {}]
    /\ mixed = {} /\ stray = {} /\ acts = <<>>

Admin(w) ==
    \/ Rotate(w) \/ RemoveWorker(w) \/ AddWorker(w) \/ Tell(w)
    \/ \E c \in Channels : JoinNow(w, c) \/ JoinFromStart(w, c) \/ Leave(w, c)

Connection(s) ==
    \/ \E w \in Workers : Arrive(s, w)
    \/ Serve(s) \/ Register(s) \/ End(s) \/ Drop(s) \/ Notified(s)

Next ==
    \/ \E c \in Channels : RemoveChannel(c) \/ \E from \in Workers \cup {Server} : Post(c, from)
    \/ \E w \in Workers : Admin(w)
    \/ \E s \in Sockets :
          \/ Connection(s) \/ Look(s) \/ Send(s)
          \/ \E c \in Channels, q \in Seqs : Ack(s, c, q)
    \/ Prune \/ Restart

Spec == Init /\ [][Next]_vars

-----------------------------------------------------------------------------
(* Properties.                                                             *)

Cursors == [Channels -> {NoCursor} \cup 0..MaxSeq]

TypeOK ==
    /\ last \in 0..MaxSeq /\ log \subseteq 1..last
    /\ room \in [Seqs -> Channels \cup {0}]
    /\ sender \in [Seqs -> Workers \cup {Server, None}]
    /\ \A q \in 1..last : room[q] \in Channels
    /\ cursor \in [Workers -> [Channels -> {NoCursor} \cup 0..last]]
    /\ issued \in [Workers -> 1..MaxTokens]
    /\ token \in [Workers -> 0..MaxTokens] /\ \A w \in Workers : token[w] <= issued[w]
    /\ session \in [Workers -> Sockets \cup {None}]
    /\ newest \in [Workers -> Sockets \cup {None}]
    /\ at \in [Sockets -> {"free", "accepting", "replacing", "serving", "ended"}]
    /\ owner \in [Sockets -> Workers \cup {None}]
    /\ \A s \in Sockets : at[s] # "free" => owner[s] \in Workers
    /\ proof \in [Sockets -> 0..MaxTokens]
    /\ up \subseteq Sockets /\ wake \subseteq Sockets /\ tell \subseteq Workers
    /\ pending \in [Sockets -> Nat]
    /\ sent \in [Sockets -> [Channels -> 0..last]]
    /\ loop \in [Sockets -> [at : {"looking", "sending", "waiting"}, snap : Cursors,
                             todo : SUBSET Channels, rows : SUBSET (1..last), more : BOOLEAN]]
    /\ \A s \in Sockets : loop[s].at = "sending" => loop[s].rows # {}
    /\ frames \in [Sockets -> SUBSET (1..last)]
    /\ got \in [Workers -> SUBSET (1..last)] /\ owed \in [Workers -> SUBSET (1..last)]
    /\ mixed \subseteq Workers \X Channels /\ stray \subseteq Workers \X Channels
    /\ acts \in Histories

\* The registered session of a worker is the one that registered last, for as
\* long as that one is served: "A replaced session finishes after its successor
\* registered; it must not evict the connection that is still live".
Presence ==
    \A w \in Workers :
        session[w] = IF newest[w] # None /\ Serving(newest[w]) THEN newest[w] ELSE None

\* When the delivery loop of a registered socket sleeps and nothing is about to
\* wake it, it sent everything that its worker is owed and did not acknowledge:
\* no publish, join or reconnection in the middle of a read is forgotten.
Registered(s) == owner[s] # None /\ session[owner[s]] = s
Asleep(s) == s \in up /\ loop[s].at = "waiting" /\ s \notin wake /\ pending[s] = 0

NothingForgotten ==
    \A s \in Sockets : Registered(s) /\ Asleep(s) =>
        LET w == owner[s] IN
        \A q \in owed[w] :
            \/ q \in frames[s] \/ q <= cursor[w][room[q]]
            \/ <<w, room[q]>> \in mixed

\* "In order per channel", and a socket is sent a row once: what a delivery is
\* about to send is beyond what its socket was sent of the channel.
InOrder ==
    \A s \in Sockets : \A q \in loop[s].rows : \A r \in frames[s] :
        room[r] = room[q] /\ <<owner[s], room[q]>> \notin mixed => r < q

\* A worker's cursor passes nothing it is owed that it was not sent, on whatever
\* sockets since it joined, unless a stray acknowledgement of this membership
\* took it there or it joined from the start over a remnant of an earlier one.
\* An acknowledgement kept over a lost connection or a restart is none: whoever
\* acknowledges what it received misses nothing, and "a bad ack cannot make a
\* worker skip future ones" (store.py:213), nor another channel's.
Missed(w, q) == q \in owed[w] /\ q \notin got[w] /\ q <= cursor[w][room[q]]

MissedOnlyStray ==
    \A w \in Workers, q \in Seqs : Missed(w, q) => <<w, room[q]>> \in mixed \cup stray
=============================================================================
