------------------------------- MODULE Queue -------------------------------
(***************************************************************************)
(* One queue channel of the serverless relay: relay/pgstore.py, and the    *)
(* poll route of relay/serverless.py that drives it.                       *)
(*                                                                         *)
(* Several server instances share one Postgres and hold nothing between    *)
(* requests, so every actor here is a request in flight: a poll, an        *)
(* acknowledgement, a publish, or an administrator's change.  A step is    *)
(* one committed SQL statement, or one statement of _take_from's           *)
(* transaction: that runs at READ COMMITTED, each statement sees what      *)
(* other requests committed before it, and its own writes appear to them   *)
(* when it commits.                                                        *)
(*                                                                         *)
(* Abstractions.  One workspace and one channel: the lock, the claims and  *)
(* the turns are per channel.  Time is two facts: whether a claim's lease  *)
(* has run out and whether a polling mark is still in the future.  The     *)
(* author of each seq and the routes are constants of an instance.  Seqs   *)
(* are allocated before they commit, so they may become visible in any     *)
(* order.  The two statements of an acknowledgement are one step (Ack).    *)
(* MaxSeq bounds the seqs; Histories bounds what the administrator does    *)
(* and which requests fail, and in which order.                            *)
(***************************************************************************)
EXTENDS Integers, FiniteSets, Sequences

CONSTANTS
    Workers,    \* worker ids of the workspace
    Server,     \* "@server", who may post without being a member
    Polls,      \* requests to GET /messages that may be open at once
    Patient,    \* those that ask to wait
    Owner,      \* [Polls -> Workers]: whose request it is
    Rank,       \* [Workers -> Nat]: the order of worker ids, for equal turns
    Turns,      \* priorities an administrator gives (1 is asked first)
    Author,     \* [Seqs -> Workers \cup {Server}]: who posts each message
    Routes,     \* [Workers \cup {Server} -> SUBSET Workers]: {} is "no rows"
    Members,    \* who is in the channel at the start, with cursor 0
    Takers,     \* [Workers -> Nat]: the turns at the start
    From,       \* queue_from at the start
    MaxSeq,
    Histories,  \* a prefix-closed set of sequences of acts (see Act)
    Batch,      \* RELAY_QUEUE_BATCH
    Keep,       \* the channel's "keep" at the start; 0 keeps everything
    Keeps,      \* what an administrator may set it to
    NoOne       \* the holder of a message nobody holds

Seqs == 1..MaxSeq
Authors == Workers \cup {Server}
Room == -1                      \* queue_from IS NULL
Free == [by |-> NoOne, is |-> "free"]
Claim == [by : Workers, is : {"held", "lapsed", "settled"}] \cup {Free}
NoTx == [poll |-> NoOne, purge |-> {}, from |-> 0, picks |-> {}]
NoSwitch == [to |-> "none", head |-> 0]

ASSUME ConstantsAssumption ==
    /\ NoOne \notin Workers \cup Polls
    /\ Server \notin Workers
    /\ Owner \in [Polls -> Workers] /\ Patient \subseteq Polls
    /\ Rank \in [Workers -> Nat]
    /\ \A v, w \in Workers : v # w => Rank[v] # Rank[w]
    /\ Turns \subseteq Nat \ {0}
    /\ MaxSeq \in Nat /\ From \in {0, Room} /\ Batch \in Nat \ {0} /\ Keep \in Nat
    /\ Keeps \subseteq Nat
    /\ Author \in [Seqs -> Authors]
    /\ Routes \in [Authors -> SUBSET Workers]
    /\ Members \subseteq Workers /\ <<>> \in Histories
    /\ Takers \in [Workers -> Turns \cup {0}]
    /\ \A w \in Workers \ Members : Takers[w] = 0

VARIABLES
    head,       \* last seq the sequence issued
    posted,     \* seqs whose INSERT has committed
    stored,     \* those not dropped since
    queueFrom,  \* channels.queue_from
    keep,       \* channels.keep
    member,     \* who has a row in members
    turn,       \* members.priority, 0 for NULL
    cursor,     \* members.cursor
    asking,     \* members whose polling_until is in the future
    claims,     \* the claims table
    releasing,  \* workers whose turn or membership went, _release still to come
    switch,     \* set_queue between its read of the head and its transaction
    tx,         \* the transaction that holds the channel's advisory lock
    pc,         \* where each poll is
    rows,       \* what it was handed from the queue
    got,        \* what each worker has received
    handed,     \* history: whom each message was handed to as work, since it
                \* last went back to the queue
    acts        \* what the administrator has done, and what has failed

poll == <<pc, rows, tx>>
table == <<head, posted, stored, queueFrom, keep, member, turn, cursor>>
vars == <<table, asking, claims, releasing, switch, poll, got, handed, acts>>

-----------------------------------------------------------------------------
(* What the statements read.                                               *)

IsTaker(w) == w \in member /\ turn[w] # 0
Unacked(s) == claims[s].is \in {"held", "lapsed"}
HeldBy(w) == {s \in Seqs : claims[s].by = w /\ Unacked(s)}
OverdueEarly == {s \in Seqs : Unacked(s)}  \* mutant: the lease is not compared
Overdue == {s \in Seqs : claims[s].is = "lapsed"}

Reaches(a, w) == Routes[a] = {} \/ w \in Routes[a]

\* Mutant: QUEUED without its NOT EXISTS over claims.
QueuedClaimed(from, w) ==
    {s \in stored :
        s > from /\ Author[s] # w /\ ~ IsTaker(Author[s]) /\ Reaches(Author[s], w)}

\* QUEUED: what is waiting for one taker.
Queued(from, w) ==
    {s \in stored :
        /\ s > from
        /\ Author[s] # w
        /\ ~ IsTaker(Author[s])
        /\ claims[s] = Free \/ s \in tx.purge
        /\ Reaches(Author[s], w)}

\* ORDER BY seq LIMIT n
Lowest(S, n) == {s \in S : Cardinality({t \in S : t < s}) < n}

\* Mutant: every taker ahead counts, without asking whether it is polling.
AheadDeaf(w) ==
    {o \in Workers \ {w} :
        /\ IsTaker(o)
        /\ turn[o] < turn[w] \/ (turn[o] = turn[w] /\ Rank[o] < Rank[w])
        /\ HeldBy(o) \ Overdue = {}}

\* The takers ahead of w that are idle: asking, and holding nothing.
IdleAhead(w) ==
    {o \in asking \ {w} :
        /\ IsTaker(o)
        /\ turn[o] < turn[w] \/ (turn[o] = turn[w] /\ Rank[o] < Rank[w])
        /\ HeldBy(o) \ Overdue = {}}

\* waiting_for's own query: the room's copies, which a taker has none of.
RoomRows(w) ==
    IF w \notin member \/ (queueFrom # Room /\ turn[w] # 0) THEN {}
    ELSE {s \in stored : s > cursor[w] /\ Author[s] # w /\ Reaches(Author[s], w)}

\* What _trim leaves of a channel.
Kept(S, n) ==
    IF n = 0 THEN S ELSE {s \in S : Cardinality({t \in S : t > s}) < n}

\* _trim drops claims by seq, as it drops messages.
UpTo(S) == {t \in Seqs : \E s \in S : t <= s}

Without(S) == [s \in Seqs |-> IF s \in S THEN Free ELSE claims[s]]

Act(what) == Append(acts, what) \in Histories /\ acts' = Append(acts, what)

Stopped == {w \in Workers : \E i \in 1..Len(acts) : acts[i] = <<"stop", w>>}

-----------------------------------------------------------------------------
(* Publishing and acknowledging.                                           *)

\* PgStore.append: the INSERT, _trim and the NOTIFY are one transaction.  A
\* seq above the head is allocated now; one below it was allocated earlier,
\* by a transaction that is only now committing.
Post(s) ==
    /\ s \notin posted
    /\ Author[s] \in member \cup {Server}
    /\ head' = IF s > head THEN s ELSE head
    /\ posted' = posted \cup {s}
    /\ stored' = Kept(stored \cup {s}, keep)
    /\ claims' = Without(UpTo((stored \cup {s}) \ stored'))
    /\ UNCHANGED <<queueFrom, keep, member, turn, cursor, asking, releasing, switch,
                   poll, got, handed, acts>>

\* Mutant: the UPDATE of claims without its worker_id.
AckAnybodys(w, s) ==
    /\ s \in got[w]
    /\ claims' = [t \in Seqs |->
                    IF Unacked(t) /\ t \notin tx.purge /\ t <= s
                    THEN [by |-> w, is |-> "settled"] ELSE claims[t]]
    /\ UNCHANGED <<table, asking, releasing, switch, poll, got, handed, acts>>

\* WorkspaceStore.ack, for a message the worker received.  The request may
\* arrive late, or again: a worker repeats one it heard no answer to.  An
\* UPDATE that meets a row _take_from has deleted waits for it, and finds
\* nothing.  Its two UPDATEs, of the cursor and then of the claims, commit one
\* by one and are one step here: no hand-out to a taker depends on a cursor, and
\* no property is about one.
Ack(w, s) ==
    /\ s \in got[w]
    /\ \E top \in stored \cup {0} :
          /\ \A t \in stored : t <= top
          /\ cursor' = [v \in Workers |->
                LET upto == IF s < top THEN s ELSE top
                IN IF v = w /\ w \in member /\ cursor[w] < upto THEN upto ELSE cursor[v]]
    /\ claims' = [t \in Seqs |->
                    IF t \in HeldBy(w) \ tx.purge /\ t <= s
                    THEN [by |-> w, is |-> "settled"] ELSE claims[t]]
    /\ UNCHANGED <<head, posted, stored, queueFrom, keep, member, turn, asking,
                   releasing, switch, poll, got, handed, acts>>

-----------------------------------------------------------------------------
(* Time.                                                                   *)

\* A claim has been held for longer than QUEUE_LEASE.
Lapse(s) ==
    /\ claims[s].is = "held"
    /\ claims' = [claims EXCEPT ![s].is = "lapsed"]
    /\ handed' = [handed EXCEPT ![s] = {}]
    /\ UNCHANGED <<table, asking, releasing, switch, poll, got, acts>>

\* polling_until is now in the past.
AskLapse(w) ==
    /\ w \in asking
    /\ asking' = asking \ {w}
    /\ UNCHANGED <<table, claims, releasing, switch, poll, got, handed, acts>>

-----------------------------------------------------------------------------
(* A poll: GET /messages, around waiting_for, around _take_from.           *)

\* An open poll that is asked to wait marks its worker as idle.
Open(p) ==
    /\ pc[p] = "closed" /\ Owner[p] \notin Stopped
    /\ pc' = [pc EXCEPT ![p] = "take"]
    /\ asking' = IF p \in Patient /\ IsTaker(Owner[p])
                 THEN asking \cup {Owner[p]} ELSE asking
    /\ UNCHANGED <<table, claims, releasing, switch, rows, tx, got, handed, acts>>

\* The transaction of p ends with `taken`: its DELETE and INSERT appear.
Commit(p, purge, picks, taken) ==
    /\ claims' = [s \in Seqs |->
                    IF s \in picks THEN [by |-> Owner[p], is |-> "held"]
                    ELSE IF s \in purge THEN Free ELSE claims[s]]
    /\ rows' = [rows EXCEPT ![p] = taken]
    /\ pc' = [pc EXCEPT ![p] = "read"]

\* _take asks which queues this worker is a taker in.
Enter(p) ==
    /\ pc[p] = "take"
    /\ pc' = [pc EXCEPT ![p] = IF IsTaker(Owner[p]) /\ queueFrom # Room
                               THEN "lock" ELSE "read"]
    /\ UNCHANGED <<table, asking, claims, releasing, switch, rows, tx, got, handed, acts>>

\* Mutants: without the advisory lock, and without looking at the channel again
\* under it.
LookUnlocked(p) ==
    /\ pc[p] = "lock"
    /\ IsTaker(Owner[p]) /\ queueFrom # Room
    /\ tx' = [poll |-> p, purge |-> Overdue, from |-> queueFrom, picks |-> {}]
    /\ pc' = [pc EXCEPT ![p] = "insert"]
    /\ UNCHANGED <<table, asking, claims, rows, releasing, switch, got, handed, acts>>

LookOnce(p) ==
    /\ pc[p] = "lock" /\ tx.poll = NoOne
    /\ tx' = [poll |-> p, purge |-> Overdue, from |-> queueFrom, picks |-> {}]
    /\ pc' = [pc EXCEPT ![p] = "insert"]
    /\ UNCHANGED <<table, asking, claims, rows, releasing, switch, got, handed, acts>>

\* _take_from up to its SELECT of the takers ahead, under the advisory lock.
\* The DELETE of overdue claims comes first.  What the worker still holds is
\* handed to it again; one that is no taker any more has nothing, nor has one
\* with an idle taker ahead; otherwise the queue_from it read goes into the
\* INSERT to come.  Meanwhile nobody else adds a claim, so these statements
\* are one step (its own turn and the others' are read at one moment).
Look(p) ==
    LET w == Owner[p]
        held == HeldBy(w) \ Overdue
        nothing == ~ IsTaker(w) \/ queueFrom = Room \/ IdleAhead(w) # {}
    IN /\ pc[p] = "lock" /\ tx.poll = NoOne
       /\ IF held # {} \/ nothing
          THEN /\ Commit(p, Overdue, {}, held)
               /\ UNCHANGED tx
          ELSE /\ tx' = [poll |-> p, purge |-> Overdue, from |-> queueFrom, picks |-> {}]
               /\ pc' = [pc EXCEPT ![p] = "insert"]
               /\ UNCHANGED <<claims, rows>>
       /\ UNCHANGED <<table, asking, releasing, switch, got, handed, acts>>

\* INSERT INTO claims SELECT ... WHERE QUEUED ... LIMIT, not yet committed.
Insert(p) ==
    /\ pc[p] = "insert"
    /\ tx' = [tx EXCEPT !.picks = Lowest(Queued(tx.from, Owner[p]), Batch)]
    /\ pc' = [pc EXCEPT ![p] = "commit"]
    /\ UNCHANGED <<table, asking, claims, releasing, switch, rows, got, handed, acts>>

HandOver(p) ==
    /\ pc[p] = "commit"
    /\ Commit(p, tx.purge, tx.picks, tx.picks)
    /\ tx' = NoTx
    /\ handed' = [s \in Seqs |-> IF s \in tx.picks THEN handed[s] \cup {Owner[p]}
                                 ELSE handed[s]]
    /\ UNCHANGED <<table, asking, releasing, switch, got, acts>>

\* The `finally` of the route: polling(worker_id, 0).
NotAsking(p) ==
    asking' = IF p \in Patient /\ IsTaker(Owner[p]) THEN asking \ {Owner[p]} ELSE asking

\* waiting_for's own query, and the messages behind the claims.
Found(p) == RoomRows(Owner[p]) \cup (rows[p] \cap stored)

\* Something to hand over: the poll answers, and the worker has it.  A worker
\* acknowledges whenever it likes, so a slow response is no other behaviour.
Answer(p) ==
    /\ pc[p] = "read" /\ Found(p) # {}
    /\ got' = [got EXCEPT ![Owner[p]] = @ \cup Found(p)]
    /\ rows' = [rows EXCEPT ![p] = {}]
    /\ pc' = [pc EXCEPT ![p] = "closed"]
    /\ NotAsking(p)
    /\ UNCHANGED <<table, claims, releasing, switch, tx, handed, acts>>

\* Nothing, and time left: it waits for a notification or POLL_INTERVAL.
Again(p) ==
    /\ pc[p] = "read" /\ Found(p) = {} /\ p \in Patient
    /\ rows' = [rows EXCEPT ![p] = {}]
    /\ pc' = [pc EXCEPT ![p] = "take"]
    /\ UNCHANGED <<table, asking, claims, releasing, switch, tx, got, handed, acts>>

\* Nothing, and no time left, or only a notice to hand over.
Close(p) ==
    /\ pc[p] = "read" /\ Found(p) = {}
    /\ rows' = [rows EXCEPT ![p] = {}]
    /\ pc' = [pc EXCEPT ![p] = "closed"]
    /\ NotAsking(p)
    /\ UNCHANGED <<table, claims, releasing, switch, tx, got, handed, acts>>

\* The response is lost, or the instance dies: an open transaction rolls
\* back, and the polling mark stays until it lapses.
Fail(p) ==
    /\ Act(<<"fail", p>>)
    /\ pc[p] # "closed"
    /\ rows' = [rows EXCEPT ![p] = {}]
    /\ pc' = [pc EXCEPT ![p] = "closed"]
    /\ tx' = IF tx.poll = p THEN NoTx ELSE tx
    /\ UNCHANGED <<table, asking, claims, releasing, switch, got, handed>>

\* A worker's process dies for good: what it holds is overdue in time.
Stop(w) ==
    /\ Act(<<"stop", w>>)
    /\ UNCHANGED <<table, asking, claims, releasing, switch, poll, got, handed>>

-----------------------------------------------------------------------------
(* The administrator.                                                      *)

\* set_priority: the UPDATE.  Without a turn, _release follows.
SetTurn(w, t) ==
    /\ Act(<<"turn", w, t>>)
    /\ w \in member /\ turn[w] # t
    /\ turn' = [turn EXCEPT ![w] = t]
    /\ releasing' = IF t = 0 THEN releasing \cup {w} ELSE releasing
    /\ UNCHANGED <<head, posted, stored, queueFrom, keep, member, cursor, asking,
                   claims, switch, poll, got, handed>>

\* _release, a statement of its own: it may find the worker has come back.
Release(w) ==
    /\ w \in releasing
    /\ releasing' = releasing \ {w}
    /\ claims' = Without(HeldBy(w))
    /\ handed' = [s \in Seqs |-> IF s \in HeldBy(w) THEN {} ELSE handed[s]]
    /\ UNCHANGED <<table, asking, switch, poll, got, acts>>

\* leave: the row goes first, what it held after.  remove_worker takes the
\* row the same way and releases nothing.
Leave(w) ==
    /\ Act(<<"leave", w>>)
    /\ w \in member
    /\ member' = member \ {w}
    /\ turn' = [turn EXCEPT ![w] = 0]
    /\ cursor' = [cursor EXCEPT ![w] = 0]
    /\ asking' = asking \ {w}
    /\ releasing' = releasing \cup {w}
    /\ UNCHANGED <<head, posted, stored, queueFrom, keep, claims, switch, poll, got, handed>>

Join(w, fromStart) ==
    /\ Act(<<"join", w, fromStart>>)
    /\ w \notin member
    /\ member' = member \cup {w}
    /\ cursor' = [cursor EXCEPT ![w] = IF fromStart THEN 0 ELSE head]
    /\ UNCHANGED <<head, posted, stored, queueFrom, keep, turn, asking, claims,
                   releasing, switch, poll, got, handed>>

\* set_keep: the UPDATE and the _trim are one transaction.
SetKeep(n) ==
    /\ Act(<<"keep", n>>)
    /\ keep' = n
    /\ stored' = Kept(stored, n)
    /\ claims' = Without(UpTo(stored \ stored'))
    /\ UNCHANGED <<head, posted, queueFrom, member, turn, cursor, asking,
                   releasing, switch, poll, got, handed>>

\* set_queue reads the head first, outside its transaction.
SwitchRead(to) ==
    /\ Act(<<to>>)
    /\ switch = NoSwitch
    /\ switch' = [to |-> to, head |-> head]
    /\ UNCHANGED <<table, asking, claims, releasing, poll, got, handed>>

SwitchOn ==
    /\ switch.to = "on"
    /\ queueFrom' = IF queueFrom = Room THEN switch.head ELSE queueFrom
    /\ switch' = NoSwitch
    /\ UNCHANGED <<head, posted, stored, keep, member, turn, cursor, asking, claims,
                   releasing, poll, got, handed, acts>>

SwitchOff ==
    /\ switch.to = "off"
    /\ queueFrom' = Room
    /\ cursor' = [w \in Workers |->
                    IF IsTaker(w) /\ cursor[w] < switch.head
                    THEN switch.head ELSE cursor[w]]
    /\ claims' = Without(Seqs)
    /\ handed' = [s \in Seqs |-> {}]
    /\ switch' = NoSwitch
    /\ UNCHANGED <<head, posted, stored, keep, member, turn, asking, releasing, poll,
                   got, acts>>

-----------------------------------------------------------------------------

Init ==
    /\ head = 0 /\ posted = {} /\ stored = {}
    /\ queueFrom = From
    /\ keep = Keep
    /\ member = Members
    /\ turn = Takers
    /\ cursor = [w \in Workers |-> 0]
    /\ asking = {}
    /\ claims = [s \in Seqs |-> Free]
    /\ releasing = {}
    /\ switch = NoSwitch
    /\ tx = NoTx
    /\ pc = [p \in Polls |-> "closed"]
    /\ rows = [p \in Polls |-> {}]
    /\ got = [w \in Workers |-> {}]
    /\ handed = [s \in Seqs |-> {}]
    /\ acts = <<>>

Poll(p) ==
    \/ Open(p) \/ Enter(p) \/ Look(p) \/ Insert(p) \/ HandOver(p)
    \/ Answer(p) \/ Again(p) \/ Close(p)

Admin(w) ==
    \/ \E t \in Turns \cup {0} : SetTurn(w, t)
    \/ Release(w)
    \/ Leave(w)
    \/ \E fromStart \in BOOLEAN : Join(w, fromStart)

Switch == SwitchOn \/ SwitchOff \/ \E to \in {"on", "off"} : SwitchRead(to)

Next ==
    \/ \E s \in Seqs : Post(s) \/ Lapse(s)
    \/ \E w \in Workers, s \in Seqs : Ack(w, s)
    \/ \E w \in Workers : AskLapse(w) \/ Stop(w) \/ Admin(w)
    \/ \E p \in Polls : Poll(p) \/ Fail(p)
    \/ Switch
    \/ \E n \in Keeps : SetKeep(n)

Spec == Init /\ [][Next]_vars

\* A live worker keeps polling and an instance finishes the request it has;
\* Postgres gives the advisory lock to whoever waits for it; leases and polling
\* marks run out; a live worker sooner or later acknowledges within the lease.
\* Nothing makes an administrator's request, a publish or a _release happen.
Fairness ==
    /\ \A p \in Polls : WF_vars(Poll(p)) /\ SF_vars(Look(p))
    /\ WF_vars(\E s \in Seqs : Lapse(s))
    /\ WF_vars(\E w \in Workers : AskLapse(w))
    /\ \A p \in Polls : SF_vars(Owner[p] \notin Stopped /\ \E s \in Seqs : Ack(Owner[p], s))

FairSpec == Spec /\ Fairness

-----------------------------------------------------------------------------
(* Properties.                                                             *)

TypeOK ==
    /\ head \in 0..MaxSeq
    /\ stored \subseteq posted /\ posted \subseteq Seqs
    /\ queueFrom \in 0..MaxSeq \cup {Room} /\ keep \in {Keep} \cup Keeps
    /\ member \subseteq Workers /\ asking \subseteq Workers /\ releasing \subseteq Workers
    /\ turn \in [Workers -> Turns \cup {0}]
    /\ cursor \in [Workers -> 0..MaxSeq]
    /\ claims \in [Seqs -> Claim]
    /\ switch \in [to : {"none", "on", "off"}, head : 0..MaxSeq]
    /\ tx \in [poll : Polls \cup {NoOne}, purge : SUBSET Seqs, from : 0..MaxSeq,
               picks : SUBSET Seqs]
    /\ pc \in [Polls -> {"closed", "take", "lock", "insert", "commit", "read"}]
    /\ rows \in [Polls -> SUBSET Seqs]
    /\ got \in [Workers -> SUBSET Seqs]
    /\ handed \in [Seqs -> SUBSET Workers]
    /\ acts \in Histories

\* The README's "handed to one taker at a time": since it last went back to
\* the queue - overdue, given up, or the queue switched off - a message has
\* been handed to one taker at most, however polls, acknowledgements, crashes
\* and administrators interleave.
OneTaker ==
    \A s \in Seqs : \A v, w \in handed[s] : v = w

\* What the open transaction decided still holds when it commits: nobody else
\* can have claimed what it picked, and what it purges is still overdue.
TxInv ==
    /\ \A p \in Polls : pc[p] \in {"insert", "commit"} <=> tx.poll = p
    /\ \A s \in tx.purge : claims[s] = Free \/ claims[s].is = "lapsed"
    /\ \A s \in tx.picks : claims[s] = Free \/ s \in tx.purge
    /\ tx.poll = NoOne => tx = NoTx
    /\ tx.picks # {} => pc[tx.poll] = "commit"
    /\ tx.picks \subseteq posted

\* A message handed to somebody is still claimed by that taker, or dropped; and
\* a claim is of a message that was posted.
ClaimInv ==
    \A s \in Seqs :
        /\ claims[s] # Free => s \in posted
        /\ handed[s] # {} =>
              \/ claims[s].is \in {"held", "settled"} /\ handed[s] = {claims[s].by}
              \/ claims[s] = Free /\ s \in posted \ stored /\ s \notin tx.picks

\* The queue as the README describes it, from the tables.
Word == [free |-> "waiting", held |-> "held", lapsed |-> "overdue", settled |-> "done"]
Item(s) ==
    IF s \notin posted THEN [at |-> "new", by |-> NoOne]
    ELSE IF s \notin stored THEN [at |-> "gone", by |-> NoOne]
    ELSE [at |-> Word[claims[s].is], by |-> claims[s].by]

Promise == INSTANCE WorkQueue WITH item <- [s \in Seqs |-> Item(s)],
                                   on <- queueFrom # Room

\* Every request, whatever else is in flight, does to the queue what WorkQueue
\* allows: no message leaves a taker that holds it in time, and none that is
\* done is handed out again while the queue is on.
KeepsPromise == Promise!Spec

\* Whatever is in the queue is worked in the end, as long as one taker lives,
\* even if the one it was handed to died or never heard of it.
InQueue(s) ==
    s \in stored /\ queueFrom # Room /\ s > queueFrom /\ ~ IsTaker(Author[s])

Served == \A s \in Seqs : InQueue(s) ~> ~ InQueue(s) \/ claims[s].is = "settled"

=============================================================================
