-------------------------------- MODULE Push --------------------------------
(***************************************************************************)
(* The serverless relay's own deliveries, to what cannot come and collect: *)
(* Telegram chats (relay/sender.py) and triggers (relay/hooks.py), with    *)
(* the statements of relay/pgstore.py they run.                            *)
(*                                                                         *)
(* Each server runs one loop of either kind, and several servers share one *)
(* database: nothing keeps two loops from serving one row.  A loop lists   *)
(* the rows with something above their cursor, goes through the list, and  *)
(* for each one sends what it reads (a chat) or calls once (a trigger),    *)
(* and only then moves the cursor, with a statement of its own.            *)
(*                                                                         *)
(* Abstractions.  One channel, in which every chat and trigger may be.  A  *)
(* chat's message is sent with all its parts or not at all.  nudge and the *)
(* idle timer both end a wait, so a wait may end at any time.  Seqs are    *)
(* allocated before they commit, and appear in any order.  resend_to and   *)
(* skip_to_now read and write in one step (ChannelLog takes them apart).   *)
(* MaxSeq bounds the seqs; Histories bounds what an administrator does and *)
(* what fails.                                                             *)
(***************************************************************************)
EXTENDS Integers, FiniteSets, Sequences

CONSTANTS
    Servers,    \* instances of the relay
    Chats,      \* bot_members rows of the channel
    Triggers,   \* hooks rows of the channel
    Broken,     \* those whose address answers every time with an error that
                \* may pass: a revoked token, an endpoint that is gone
    Authors,
    Author,     \* [Seqs -> Authors]
    MaxSeq,
    Batch,      \* how many rows one round lists
    Page,       \* how many messages one chat is sent in one round
    Histories   \* a prefix-closed set of sequences of acts

Seqs == 1..MaxSeq
Rows == Chats \cup Triggers
Loops == Servers \X {Chats, Triggers}
Entries == [row : Rows, cursor : 0..MaxSeq, head : 0..MaxSeq, deaf : SUBSET Authors]

ASSUME PushAssumption ==
    /\ Rows # {} /\ Chats \cap Triggers = {} /\ Broken \subseteq Rows
    /\ MaxSeq \in Nat /\ Batch \in Nat \ {0} /\ Page \in Nat \ {0}
    /\ Author \in [Seqs -> Authors] /\ <<>> \in Histories

VARIABLES
    running,    \* the loops create_app was given: chats, triggers or both
    stored,     \* messages of the channel
    late,       \* history: those that appeared below one already there
    member,     \* rows that are in the channel
    cursor,
    deaf,       \* bot_members.deaf_to
    resting,    \* triggers that failed less than RETRY seconds ago
    loop,       \* [Loops -> where it is, its list, the row in hand, its page]
    told,       \* history: what each row was sent, or called after, since it was last put back
    passed,     \* history: what it was not to be sent
    mine,       \* history: what each loop sent and may not send again
    acts        \* what the administrator has done, and what has failed

log == <<stored, late>>
rows == <<member, cursor, deaf, resting>>
hist == <<told, passed, mine>>
vars == <<running, log, rows, loop, hist, acts>>

-----------------------------------------------------------------------------

Larger(a, b) == IF a > b THEN a ELSE b
Newest == IF stored = {} THEN 0 ELSE CHOOSE s \in stored : \A t \in stored : t <= s
Lowest(S, n) == {s \in S : Cardinality({t \in S : t < s}) < n}
First(S) == CHOOSE s \in S : \A t \in S : s <= t
Above(c) == {s \in stored : s > c}

Act(what) == Append(acts, what) \in Histories /\ acts' = Append(acts, what)

\* bots_with_work and hooks_with_work: a trigger that just failed is left alone.
HasWork(r) == r \in member \ resting /\ Above(cursor[r]) # {}

Entry(r) == [row |-> r, cursor |-> cursor[r], head |-> Newest, deaf |-> deaf[r]]
NoEntry == [row |-> CHOOSE r \in Rows : TRUE, cursor |-> 0, head |-> 0, deaf |-> {}]

\* A loop at the top of its `while True`, nothing sent.
Fresh(at) == [at |-> at, list |-> {}, now |-> NoEntry, page |-> {}, sent |-> FALSE]

Row(l) == loop[l].now.row
Message(l) == First(loop[l].page)
Current(l) == <<l, Row(l), Message(l)>>

\* l with what is left of its page: none, and the row's turn is over.
Left(l, page) ==
    [loop[l] EXCEPT !.page = page, !.now = IF page = {} THEN NoEntry ELSE @]

\* What a loop sent may be sent again once it was put back by hand.
Forgiven(r, from) == {m \in mine : m[2] = r /\ m[3] > from}

\* A round has listed r and is not done with it.
InHand(r) ==
    \E l \in Loops :
        \/ \E e \in loop[l].list : e.row = r
        \/ loop[l].page # {} /\ Row(l) = r

\* S is to be sent to r again.  A round that has r in hand moves its cursor past
\* S all the same: bot_ack and hook_fired write what the round listed.
PutBack(r, S) ==
    IF InHand(r) THEN UNCHANGED <<told, passed>>
    ELSE /\ told' = [told EXCEPT ![r] = @ \ S]
         /\ passed' = [passed EXCEPT ![r] = @ \ S]

-----------------------------------------------------------------------------
(* A loop's round.                                                         *)

Wake(l) ==
    /\ loop[l].at = "waiting"
    /\ loop' = [loop EXCEPT ![l].at = "looking"]
    /\ UNCHANGED <<running, log, rows, hist, acts>>

\* ORDER BY cursor LIMIT batch.
Look(l) ==
    LET due == {r \in l[2] : HasWork(r)}
    IN /\ loop[l].at = "looking"
       /\ \E chosen \in SUBSET due :
             /\ Cardinality(chosen) <= Batch
             /\ chosen # due => Cardinality(chosen) = Batch
             /\ \A r \in chosen, q \in due \ chosen : cursor[r] <= cursor[q]
             /\ loop' = [loop EXCEPT ![l] =
                   [Fresh("round") EXCEPT !.list = {Entry(r) : r \in chosen}]]
       /\ UNCHANGED <<running, log, rows, hist, acts>>

\* The next row of the list.  A chat's messages are read now, above the cursor
\* it had when it was listed; a trigger is called once, for the head of then.
Turn(l) ==
    /\ loop[l].at = "round" /\ loop[l].page = {}
    /\ \E e \in loop[l].list :
          /\ \A f \in loop[l].list : e.cursor <= f.cursor
          /\ loop' = [loop EXCEPT ![l].list = @ \ {e}, ![l].now = e,
                ![l].page = IF e.row \in Chats THEN Lowest(Above(e.cursor), Page)
                            ELSE {e.head}]
    /\ UNCHANGED <<running, log, rows, hist, acts>>

\* The round is over: once more if it sent anything, otherwise it waits.
End(l) ==
    /\ loop[l].at = "round" /\ loop[l].page = {} /\ loop[l].list = {}
    /\ loop' = [loop EXCEPT ![l] = Fresh(IF loop[l].sent THEN "looking" ELSE "waiting")]
    /\ UNCHANGED <<running, log, rows, hist, acts>>

AtMessage(l) == loop[l].at = "round" /\ loop[l].page # {}
Silenced(l) == Row(l) \in Chats /\ Author[Message(l)] \in loop[l].now.deaf

\* The publisher of this message is one the chat does not hear.
PassOver(l) ==
    /\ AtMessage(l) /\ Silenced(l)
    /\ passed' = [passed EXCEPT ![Row(l)] = @ \cup {Message(l)}]
    /\ loop' = [loop EXCEPT ![l].at = "acking"]
    /\ UNCHANGED <<running, log, rows, told, mine, acts>>

\* Telegram took the message; or the trigger's address answered 2xx, and what
\* it woke finds all that is stored by now.
Send(l) ==
    /\ AtMessage(l) /\ ~ Silenced(l) /\ Row(l) \notin Broken
    /\ LET now == IF Row(l) \in Chats THEN {Message(l)} ELSE stored
       IN told' = [told EXCEPT ![Row(l)] = @ \cup now]
    /\ mine' = mine \cup {Current(l)}
    /\ loop' = [loop EXCEPT ![l].at = "acking"]
    /\ UNCHANGED <<running, log, rows, passed, acts>>

\* An error that is permanent: 400 is about the message, 403 about the chat.
\* It is dropped, like one that was sent.
Refuse(l) ==
    /\ Act(<<"refuse", Row(l)>>)
    /\ AtMessage(l) /\ ~ Silenced(l) /\ Row(l) \in Chats
    /\ passed' = [passed EXCEPT ![Row(l)] = @ \cup {Message(l)}]
    /\ loop' = [loop EXCEPT ![l].at = "acking"]
    /\ UNCHANGED <<running, log, rows, told, mine>>

\* Mutant: the exception of one chat is not caught in deliver, and ends once.
GiveUpAll(l) ==
    /\ loop' = [loop EXCEPT ![l] = Fresh("waiting")]
    /\ resting' = resting \cup ({Row(l)} \cap Triggers \cap member)

\* Mutant: the loop goes on to the acknowledgement after a temporary error.
GiveUpAcked(l) ==
    /\ loop' = [loop EXCEPT ![l].at = "acking"]
    /\ resting' = resting \cup ({Row(l)} \cap Triggers \cap member)

\* A temporary error, or to wait: this row's turn ends, and its cursor stays.
\* hook_failed notes when.
GiveUp(l) ==
    /\ loop' = [loop EXCEPT ![l] = Left(l, {})]
    /\ resting' = resting \cup ({Row(l)} \cap Triggers \cap member)

Fail(l) ==
    /\ AtMessage(l) /\ ~ Silenced(l)
    /\ \/ Row(l) \in Broken /\ UNCHANGED acts
       \/ Row(l) \notin Broken /\ Act(<<"fail", Row(l)>>)
    /\ GiveUp(l)
    /\ UNCHANGED <<running, log, member, cursor, deaf, hist>>

\* Mutant: the UPDATE without GREATEST.
MovedBack(r, s) == s

\* Mutant: the cursor is moved to the seq that would come next.
MovedNext(r, s) == Larger(cursor[r], s + 1)

\* bot_ack and hook_fired: SET cursor = GREATEST(cursor, seq).
Moved(r, s) == Larger(cursor[r], s)

Ack(l) ==
    /\ loop[l].at = "acking"
    /\ IF Row(l) \in member
       THEN /\ cursor' = [cursor EXCEPT ![Row(l)] = Moved(Row(l), Message(l))]
            /\ resting' = resting \ {Row(l)}
       ELSE UNCHANGED <<cursor, resting>>
    /\ loop' = [loop EXCEPT ![l] = [Left(l, loop[l].page \ {Message(l)}) EXCEPT
                                   !.at = "round", !.sent = TRUE]]
    /\ UNCHANGED <<running, log, member, deaf, hist, acts>>

\* Any other exception, the database's or the network's: run() reports it and
\* waits, and the rows behind it wait too.
Abort(l) ==
    /\ Act(<<"abort", l>>)
    /\ loop[l].at \in {"looking", "round", "acking"}
    /\ mine' = IF loop[l].at = "acking" THEN mine \ {Current(l)} ELSE mine
    /\ loop' = [loop EXCEPT ![l] = Fresh("waiting")]
    /\ UNCHANGED <<running, log, rows, told, passed>>

\* A server dies with its loops and is started again.
Crash(v) ==
    /\ Act(<<"crash", v>>)
    /\ loop' = [l \in Loops |-> IF l[1] = v /\ l \in running THEN Fresh("looking") ELSE loop[l]]
    /\ mine' = {m \in mine : m[1][1] # v}
    /\ UNCHANGED <<running, log, rows, told, passed>>

\* RETRY seconds have passed since a trigger failed.
Rested(r) ==
    /\ r \in resting
    /\ resting' = resting \ {r}
    /\ UNCHANGED <<running, log, member, cursor, deaf, loop, hist, acts>>

-----------------------------------------------------------------------------
(* What goes on around the loops.                                          *)

Publish(s) ==
    /\ s \notin stored
    /\ stored' = stored \cup {s}
    /\ late' = IF Above(s) # {} THEN late \cup {s} ELSE late
    /\ UNCHANGED <<running, rows, loop, hist, acts>>

\* leave_bot, remove_hook.
Leave(r) ==
    /\ Act(<<"leave", r>>)
    /\ r \in member
    /\ member' = member \ {r}
    /\ resting' = resting \ {r}
    /\ UNCHANGED <<running, log, cursor, deaf, loop, hist>>

\* The row is made anew: nobody is silenced, nothing has failed.
NewRow(r, from) ==
    /\ r \notin member
    /\ member' = member \cup {r}
    /\ cursor' = [cursor EXCEPT ![r] = from]
    /\ deaf' = [deaf EXCEPT ![r] = {}]
    /\ mine' = mine \ Forgiven(r, 0)
    /\ UNCHANGED <<running, log, resting, loop>>

\* join_bot, add_hook: it starts at the head.
Join(r) ==
    /\ Act(<<"join", r>>)
    /\ NewRow(r, Newest)
    /\ passed' = [passed EXCEPT ![r] = @ \cup stored]
    /\ UNCHANGED told

\* ... or with from_start, at the beginning.
JoinFromStart(r) ==
    /\ Act(<<"from start", r>>)
    /\ NewRow(r, 0)
    /\ PutBack(r, stored)

\* skip_to_now(bot=True): what it never collected is given up.
Skip(r) ==
    /\ Act(<<"skip", r>>)
    /\ r \in member \cap Chats
    /\ cursor' = [cursor EXCEPT ![r] = Larger(@, Newest)]
    /\ passed' = [passed EXCEPT ![r] = @ \cup stored]
    /\ UNCHANGED <<running, log, member, deaf, resting, loop, told, mine>>

\* resend_to(bot=True, count=1): its place goes back by one message.
Resend(r) ==
    LET had == {s \in stored : s <= cursor[r]}
        last == CHOOSE s \in had : \A t \in had : t <= s
    IN /\ Act(<<"resend", r>>)
       /\ r \in member \cap Chats /\ had # {}
       /\ cursor' = [cursor EXCEPT ![r] = last - 1]
       /\ PutBack(r, {last})
       /\ mine' = mine \ Forgiven(r, last - 1)
       /\ UNCHANGED <<running, log, member, deaf, resting, loop>>

\* bot_hears, either way.
Silence(r, a) ==
    /\ Act(<<"silence", r, a>>)
    /\ r \in member \cap Chats
    /\ deaf' = [deaf EXCEPT ![r] = IF a \in @ THEN @ \ {a} ELSE @ \cup {a}]
    /\ UNCHANGED <<running, log, member, cursor, resting, loop, hist>>

-----------------------------------------------------------------------------

Init ==
    /\ running \in {Servers \X {Chats}, Servers \X {Triggers}}
    /\ stored = {} /\ late = {}
    /\ member = UNION {l[2] : l \in running}
    /\ cursor = [r \in Rows |-> 0] /\ deaf = [r \in Rows |-> {}] /\ resting = {}
    /\ loop = [l \in Loops |-> Fresh(IF l \in running THEN "looking" ELSE "off")]
    /\ told = [r \in Rows |-> {}] /\ passed = [r \in Rows |-> {}] /\ mine = {}
    /\ acts = <<>>

\* What a loop does by itself, as long as its process lives.
Step(l) ==
    \/ Wake(l) \/ Look(l) \/ Turn(l) \/ End(l) \/ PassOver(l) \/ Send(l) \/ Ack(l)
    \/ Row(l) \in Broken /\ Fail(l)

Next ==
    \/ \E l \in Loops : Step(l) \/ Fail(l) \/ Refuse(l) \/ Abort(l)
    \/ \E v \in Servers : Crash(v)
    \/ \E s \in Seqs : Publish(s)
    \/ \E r \in Rows :
          \/ Rested(r) \/ Leave(r) \/ Join(r) \/ JoinFromStart(r) \/ Skip(r) \/ Resend(r)
          \/ \E a \in Authors : Silence(r, a)

Spec == Init /\ [][Next]_vars

\* A loop that is running goes on, asyncio.wait_for ends every wait, and time
\* passes.  Nobody need publish, administer or fail.
Fairness ==
    /\ \A l \in Loops : WF_vars(Step(l))
    /\ \A r \in Triggers : WF_vars(Rested(r))

FairSpec == Spec /\ Fairness

-----------------------------------------------------------------------------
(* What must hold.                                                         *)

LoopType ==
    [at : {"off", "waiting", "looking", "round", "acking"}, list : SUBSET Entries,
     now : Entries, page : SUBSET (0..MaxSeq), sent : BOOLEAN]

TypeOK ==
    /\ running \subseteq Loops
    /\ late \subseteq stored /\ stored \subseteq Seqs
    /\ member \subseteq Rows /\ resting \subseteq Triggers
    /\ cursor \in [Rows -> 0..MaxSeq] /\ deaf \in [Rows -> SUBSET Authors]
    /\ loop \in [Loops -> LoopType]
    /\ \A h \in {told, passed} : h \in [Rows -> SUBSET Seqs]
    /\ mine \subseteq Loops \X Rows \X (0..MaxSeq)
    /\ acts \in Histories

\* A cursor is below every message that its chat was not sent, and that no
\* answered call of its trigger came after, whatever two servers, a crash
\* between a send and its statement, a failure, or a change by hand do:
\* "a message is sent before the cursor moves past it" (telegram.py:9).  What is
\* put back is sent again (pgstore.py:1561), unless a round had the row in hand;
\* what became visible below a message already there is the other exception.
NothingPassedOver ==
    \A r \in Rows : {s \in stored \ late : s <= cursor[r]} \subseteq told[r] \cup passed[r]

\* A loop that is not interrupted sends a chat each message once, and calls a
\* trigger again only for something new, though it reads the cursors of a whole
\* round at its start and other servers move them meanwhile.
OnceEach == [][\A l \in Loops : Send(l) => Current(l) \notin mine]_vars

\* Everything gets to where it can be sent, though another chat's token is
\* revoked or another trigger's address is gone (fewer of those than Batch).
Served ==
    \A r \in Rows \ Broken, s \in Seqs :
        (s \in stored /\ r \in member) ~> (cursor[r] >= s \/ r \notin member)
=============================================================================
