----------------------------- MODULE ChannelLog ----------------------------
(***************************************************************************)
(* One channel of the serverless relay as a log with a cursor per member:  *)
(* append, _trim, join, leave, ack, resend_to, send_again and skip_to_now  *)
(* of relay/pgstore.py, and the publish and messages routes around them.   *)
(*                                                                         *)
(* append is a transaction at READ COMMITTED: its look for the job, the    *)
(* INSERT taking a seq from the sequence, the row being placed and the     *)
(* channel trimmed, and its commit are steps of their own, and any number  *)
(* of them are open at once.  The administrator's operations read in one   *)
(* statement and write in another.                                         *)
(*                                                                         *)
(* Abstractions.  A publish is a request that may be made again with the   *)
(* same id.  A worker has one poll open at a time; a response to a         *)
(* membership that ended counts as lost.  Routes and queues are left to    *)
(* other modules.  MaxSeq bounds the sequence; Histories bounds what the   *)
(* administrator does and which requests fail.                             *)
(***************************************************************************)
EXTENDS Integers, FiniteSets, Sequences

CONSTANTS
    Workers,    \* those who read the channel
    Requests,   \* publishes
    Sender,     \* [Requests -> who makes it]: a worker or somebody else
    Cid,        \* [Requests -> the id the publisher chose, or None]
    Job,        \* [Requests -> the job its link names, or None]
    MayRepeat,  \* requests whose sender may repeat a job
    None,
    Members,    \* who is in the channel at the start
    Keep,       \* how many messages the channel keeps, 0 for all
    Limit,      \* how many a response carries
    MaxSeq,
    Histories   \* a prefix-closed set of sequences of acts

Seqs == 1..MaxSeq
NoAnswer == 0

ASSUME LogAssumption ==
    /\ None \notin Requests
    /\ MayRepeat \subseteq Requests /\ Members \subseteq Workers
    /\ Keep \in Nat /\ Limit \in Nat \ {0} /\ MaxSeq \in Nat
    /\ <<>> \in Histories

VARIABLES
    last,       \* last value of the sequence
    author,     \* [Seqs -> the request that took the seq, or None]
    log,        \* rows of messages that are committed
    posted,     \* history: seqs that were ever committed
    pub,        \* [Requests -> where its transaction is]
    answer,     \* [Requests -> the seq its publisher was told]
    muted,      \* ids refused at the door
    member,
    cursor,     \* members.cursor
    plan,       \* [Workers -> what an administrator's request has read]
    redo,       \* redeliveries
    resp,       \* the response a worker's poll is making
    got,        \* what it received since it joined
    owed,       \* history: what was posted to it since it joined
    late,       \* history: see Overtaken
    acts

writing == <<last, author, log, posted, pub, answer, muted>>
place == <<member, cursor, plan>>
reading == <<place, redo, resp, got, owed>>
vars == <<writing, reading, late, acts>>

-----------------------------------------------------------------------------

Idle == [at |-> "idle", seq |-> 0, drop |-> {}]
NoResp == [at |-> "none", seqs |-> {}]
NoPlan == [op |-> "none", to |-> 0]

Open(r) == pub[r].at \in {"inserting", "placed"}
InFlight == {s \in Seqs : \E r \in Requests : Open(r) /\ pub[r].seq = s}

\* Messages whose transaction is open when a later seq is issued or the head
\* is read are late: somebody's place in the channel may be past them already.
Overtaken == late' = late \cup InFlight

Told(r, by) == by \in Requests /\ Cid[r] # None /\ Cid[by] = Cid[r]
SameJob(r, by) == by \in Requests /\ Job[r] # None /\ Job[by] = Job[r]

\* Mutant: newest first.
Newest(S, n) == {s \in S : Cardinality({t \in S : t > s}) < n}

Lowest(S, n) == {s \in S : Cardinality({t \in S : t < s}) < n}
Kept(S) ==
    IF Keep = 0 THEN S ELSE {s \in S : Cardinality({t \in S : t > s}) < Keep}

Others(w, S) == {s \in S : author[s] \in Requests /\ Sender[author[s]] # w}

Act(what) == Append(acts, what) \in Histories /\ acts' = Append(acts, what)

At(r, where) == pub' = [pub EXCEPT ![r].at = where]

-----------------------------------------------------------------------------
(* append.                                                                 *)

\* The publish route, and append up to its SELECT for the job.  A muted id is
\* refused and nobody is told; the publisher of a job the channel has is told
\* the first telling of it.
Check(r) ==
    LET seen == {s \in log : SameJob(r, author[s])} IN
    /\ pub[r].at = "idle"
    /\ Sender[r] \in Workers => Sender[r] \in member
    /\ \/ Cid[r] \in muted /\ At(r, "done") /\ UNCHANGED answer
       \/ /\ Cid[r] \notin muted /\ r \notin MayRepeat /\ seen # {}
          /\ \E s \in Lowest(seen, 1) : answer' = [answer EXCEPT ![r] = s]
          /\ At(r, "done")
       \/ /\ Cid[r] \notin muted /\ (r \in MayRepeat \/ seen = {})
          /\ At(r, "checked") /\ UNCHANGED answer
    /\ UNCHANGED <<last, author, log, posted, muted, reading, late, acts>>

\* The INSERT takes a seq, whatever comes of it.
Insert(r) ==
    LET s == last + 1 IN
    /\ pub[r].at = "checked" /\ last < MaxSeq
    /\ last' = s
    /\ Overtaken
    /\ author' = [author EXCEPT ![s] = r]
    /\ pub' = [pub EXCEPT ![r] = [at |-> "inserting", seq |-> s, drop |-> {}]]
    /\ UNCHANGED <<log, posted, answer, muted, reading, acts>>

\* Mutant: the id is looked for, and nothing makes it unique.
PlaceLooked(r) ==
    LET seen == log \cup {pub[r].seq} IN
    /\ pub[r].at = "inserting"
    /\ IF \E t \in log : Told(r, author[t])
       THEN At(r, "clash")
       ELSE pub' = [pub EXCEPT ![r] = [at |-> "placed", seq |-> @.seq,
                                      drop |-> seen \ Kept(seen)]]
    /\ UNCHANGED <<last, author, log, posted, answer, muted, reading, late, acts>>

\* Mutant: trims before it inserts.
PlaceTrimsFirst(r) ==
    /\ pub[r].at = "inserting"
    /\ \A q \in Requests : pub[q].at = "placed" => ~ Told(r, q)
    /\ IF \E t \in log : Told(r, author[t])
       THEN At(r, "clash")
       ELSE pub' = [pub EXCEPT ![r] = [at |-> "placed", seq |-> @.seq,
                                      drop |-> log \ Kept(log)]]
    /\ UNCHANGED <<last, author, log, posted, answer, muted, reading, late, acts>>

\* Its row is placed, once no open transaction has one with the same id, and
\* _trim drops the oldest it sees.  An id the channel has is a UniqueViolation.
Place(r) ==
    LET seen == log \cup {pub[r].seq} IN
    /\ pub[r].at = "inserting"
    /\ \A q \in Requests : pub[q].at = "placed" => ~ Told(r, q)
    /\ IF \E t \in log : Told(r, author[t])
       THEN At(r, "clash")
       ELSE pub' = [pub EXCEPT ![r] = [at |-> "placed", seq |-> @.seq,
                                      drop |-> seen \ Kept(seen)]]
    /\ UNCHANGED <<last, author, log, posted, answer, muted, reading, late, acts>>

Commit(r) ==
    LET s == pub[r].seq IN
    /\ pub[r].at = "placed"
    /\ log' = (log \cup {s}) \ pub[r].drop
    /\ posted' = posted \cup {s}
    /\ At(r, "stored")
    /\ owed' = [w \in Workers |->
                  (owed[w] \cup IF w \in member /\ Sender[r] # w THEN {s} ELSE {})
                     \cap log']
    /\ redo' = [w \in Workers |-> redo[w] \ pub[r].drop]
    /\ UNCHANGED <<last, author, answer, muted, place, resp, got, late, acts>>

Confirm(r) ==
    /\ pub[r].at = "stored"
    /\ answer' = [answer EXCEPT ![r] = pub[r].seq]
    /\ At(r, "done")
    /\ UNCHANGED <<last, author, log, posted, muted, reading, late, acts>>

\* Mutant: answers with the seq its own INSERT took.
LookupOwn(r) ==
    /\ pub[r].at = "clash"
    /\ answer' = [answer EXCEPT ![r] = pub[r].seq] /\ At(r, "done")
    /\ UNCHANGED <<last, author, log, posted, muted, reading, late, acts>>

\* After a UniqueViolation: whose the id is.  The message may be gone by now,
\* and the request fails.
Lookup(r) ==
    LET same == {s \in log : Told(r, author[s])} IN
    /\ pub[r].at = "clash"
    /\ \/ same = {} /\ At(r, "idle") /\ UNCHANGED answer
       \/ \E s \in same : answer' = [answer EXCEPT ![r] = s] /\ At(r, "done")
    /\ UNCHANGED <<last, author, log, posted, muted, reading, late, acts>>

Publish(r) ==
    Check(r) \/ Insert(r) \/ Place(r) \/ Commit(r) \/ Confirm(r) \/ Lookup(r)

\* The instance dies, or the answer is lost: the transaction is rolled back
\* unless it was committed, and the publisher asks again with the same id.
Fail(r) ==
    /\ Act(<<"fail", r>>)
    /\ pub[r].at \notin {"idle", "done"}
    /\ pub' = [pub EXCEPT ![r] = Idle]
    /\ UNCHANGED <<last, author, log, posted, answer, muted, reading, late>>

Mute(id) ==
    /\ Act(<<"mute", id>>) /\ id # None
    /\ muted' = muted \cup {id}
    /\ UNCHANGED <<last, author, log, posted, pub, answer, reading, late>>

Unmute(id) ==
    /\ Act(<<"unmute", id>>)
    /\ muted' = muted \ {id}
    /\ UNCHANGED <<last, author, log, posted, pub, answer, reading, late>>

-----------------------------------------------------------------------------
(* A member's poll and its acknowledgements.                               *)

\* waiting_for: what is above the cursor or was asked for by hand, lowest
\* first.
Read(w) ==
    LET rows == Lowest(Others(w, {s \in log : s > cursor[w] \/ s \in redo[w]}), Limit) IN
    /\ w \in member /\ resp[w] = NoResp
    /\ rows # {}
    /\ resp' = [resp EXCEPT ![w] = [at |-> "read", seqs |-> rows]]
    /\ UNCHANGED <<writing, place, redo, got, owed, late, acts>>

\* redelivered: what was asked for by hand is spent when it is handed over.
Spend(w) ==
    /\ resp[w].at = "read"
    /\ redo' = [redo EXCEPT ![w] = @ \ resp[w].seqs]
    /\ resp' = [resp EXCEPT ![w].at = "sent"]
    /\ UNCHANGED <<writing, place, got, owed, late, acts>>

Receive(w) ==
    /\ resp[w].at = "sent"
    /\ got' = [got EXCEPT ![w] = @ \cup resp[w].seqs]
    /\ resp' = [resp EXCEPT ![w] = NoResp]
    /\ UNCHANGED <<writing, place, redo, owed, late, acts>>

Lose(w) ==
    /\ Act(<<"lose", w>>)
    /\ resp[w] # NoResp
    /\ resp' = [resp EXCEPT ![w] = NoResp]
    /\ UNCHANGED <<writing, place, redo, got, owed, late>>

\* ack's cap: the last stored message, which may be another channel's.
Tops == {top \in 0..last : top \notin InFlight /\ \A s \in log : s <= top}

\* Mutant: without LEAST.
ForwardUncapped(w, s, top) == cursor' = [cursor EXCEPT ![w] = IF @ < s THEN s ELSE @]

\* ack: never backwards, never past the last stored message.
Forward(w, s, top) ==
    LET upto == IF s < top THEN s ELSE top
    IN cursor' = [cursor EXCEPT ![w] = IF @ < upto THEN upto ELSE @]

Ack(w, s) ==
    /\ w \in member /\ s \in got[w]
    /\ \E top \in Tops : Forward(w, s, top)
    /\ UNCHANGED <<writing, member, plan, redo, resp, got, owed, late, acts>>

\* History: w is not owed what is below n any more.
GiveUp(w, n) == owed' = [owed EXCEPT ![w] = {s \in @ : s > n}]

\* An acknowledgement of what this membership was not sent: one that was on
\* its way when the worker left, or a mistake.  It gives up what is stored.
StrayAck(w, s) ==
    /\ Act(<<"stray", w>>)
    /\ w \in member /\ s \notin got[w]
    /\ \E top \in Tops : Forward(w, s, top)
    /\ GiveUp(w, IF s < last THEN s ELSE last)
    /\ UNCHANGED <<writing, member, plan, redo, resp, got, late>>

-----------------------------------------------------------------------------
(* The administrator.                                                      *)

Plan(w, op, to) ==
    /\ plan[w] = NoPlan
    /\ plan' = [plan EXCEPT ![w] = [op |-> op, to |-> to]]
    /\ UNCHANGED <<writing, member, cursor, redo, resp, got, owed>>

Carry(w, op) == plan[w].op = op /\ plan' = [plan EXCEPT ![w] = NoPlan]

\* join reads the head before it inserts the member, if it is not one by then.
JoinRead(w) == Act(<<"join", w>>) /\ Plan(w, "join", last) /\ Overtaken

Enter(w, from) ==
    /\ member' = member \cup {w}
    /\ cursor' = [cursor EXCEPT ![w] = from]
    /\ owed' = [owed EXCEPT ![w] = {s \in Others(w, log) : s > from}]
    /\ UNCHANGED <<writing, redo, resp, got, late>>

Join(w) ==
    /\ Carry(w, "join") /\ UNCHANGED acts
    /\ \/ w \notin member /\ Enter(w, plan[w].to)
       \/ w \in member /\ UNCHANGED <<writing, member, cursor, redo, resp, got, owed, late>>

JoinFromStart(w) ==
    Act(<<"from start", w>>) /\ w \notin member /\ Enter(w, 0) /\ UNCHANGED plan

Leave(w) ==
    /\ Act(<<"leave", w>>)
    /\ w \in member
    /\ member' = member \ {w}
    /\ cursor' = [cursor EXCEPT ![w] = 0]
    /\ got' = [got EXCEPT ![w] = {}]
    /\ resp' = [resp EXCEPT ![w] = NoResp]
    /\ owed' = [owed EXCEPT ![w] = {}]
    /\ UNCHANGED <<writing, plan, redo, late>>

SendAgain(w) ==
    /\ Act(<<"again", w>>)
    /\ w \in member
    /\ \E s \in log : redo' = [redo EXCEPT ![w] = @ \cup {s}]
    /\ UNCHANGED <<writing, place, resp, got, owed, late>>

\* Mutant: one too far.
RewindFurther(w) ==
    /\ Act(<<"resend", w>>)
    /\ w \in member
    /\ \E s \in log : s <= cursor[w] /\ Plan(w, "rewind", s - 2)
    /\ UNCHANGED late

\* resend_to: the place goes back below a message it had passed, unless
\* somebody put it further back meanwhile.
RewindRead(w) ==
    /\ Act(<<"resend", w>>)
    /\ w \in member
    /\ \E s \in log : s <= cursor[w] /\ Plan(w, "rewind", s - 1)
    /\ UNCHANGED late

Rewind(w) ==
    LET to == plan[w].to IN
    /\ Carry(w, "rewind")
    /\ cursor' = [cursor EXCEPT ![w] = IF w \in member THEN to ELSE @]
    /\ GiveUp(w, IF cursor[w] < to THEN to ELSE 0)
    /\ UNCHANGED <<writing, member, redo, resp, got, late, acts>>

\* skip_to_now: everything up to the head it read is given up.
SkipRead(w) ==
    Act(<<"skip", w>>) /\ w \in member /\ Plan(w, "skip", last) /\ Overtaken

Skip(w) ==
    LET to == plan[w].to IN
    /\ Carry(w, "skip")
    /\ cursor' = [cursor EXCEPT ![w] = IF w \in member /\ @ < to THEN to ELSE @]
    /\ GiveUp(w, to)
    /\ UNCHANGED <<writing, member, redo, resp, got, late, acts>>

-----------------------------------------------------------------------------

Init ==
    /\ last = 0
    /\ author = [s \in Seqs |-> None]
    /\ log = {} /\ posted = {} /\ muted = {}
    /\ pub = [r \in Requests |-> Idle]
    /\ answer = [r \in Requests |-> NoAnswer]
    /\ member = Members
    /\ cursor = [w \in Workers |-> 0]
    /\ plan = [w \in Workers |-> NoPlan]
    /\ redo = [w \in Workers |-> {}]
    /\ resp = [w \in Workers |-> NoResp]
    /\ got = [w \in Workers |-> {}]
    /\ owed = [w \in Workers |-> {}]
    /\ late = {} /\ acts = <<>>

Deliver(w) == Read(w) \/ Spend(w) \/ Receive(w)

Admin(w) ==
    \/ JoinRead(w) \/ Join(w) \/ JoinFromStart(w) \/ Leave(w)
    \/ SendAgain(w) \/ RewindRead(w) \/ Rewind(w) \/ SkipRead(w) \/ Skip(w)

Next ==
    \/ \E r \in Requests : Publish(r) \/ Fail(r) \/ Mute(Cid[r]) \/ Unmute(Cid[r])
    \/ \E w \in Workers :
          \/ Deliver(w) \/ Lose(w) \/ Admin(w)
          \/ \E s \in Seqs : Ack(w, s) \/ StrayAck(w, s)

Spec == Init /\ [][Next]_vars

\* A member goes on polling, its responses are not all lost, and it
\* acknowledges what it received.
Fairness ==
    \A w \in Workers : WF_vars(Deliver(w)) /\ WF_vars(\E s \in Seqs : Ack(w, s))

FairSpec == Spec /\ Fairness

-----------------------------------------------------------------------------
(* Properties.                                                             *)

Places == {"idle", "checked", "inserting", "placed", "clash", "stored", "done"}

TypeOK ==
    /\ last \in 0..MaxSeq
    /\ author \in [Seqs -> Requests \cup {None}]
    /\ log \subseteq posted /\ posted \subseteq Seqs /\ late \subseteq Seqs
    /\ pub \in [Requests -> [at : Places, seq : 0..MaxSeq, drop : SUBSET (0..MaxSeq)]]
    /\ \A r \in Requests : Open(r) => pub[r].seq \in Seqs
    /\ answer \in [Requests -> 0..MaxSeq]
    /\ member \subseteq Workers
    /\ cursor \in [Workers -> 0..MaxSeq]
    /\ plan \in [Workers -> [op : {"none", "join", "rewind", "skip"}, to : 0..MaxSeq]]
    /\ redo \in [Workers -> SUBSET Seqs]
    /\ resp \in [Workers -> [at : {"none", "read", "sent"}, seqs : SUBSET Seqs]]
    /\ got \in [Workers -> SUBSET Seqs] /\ owed \in [Workers -> SUBSET Seqs]
    /\ acts \in Histories

\* "Resends dropped": whatever fails between two tellings of one id, and however
\* the transactions of two publishers overlap, the channel holds one of them.
StoredOnce ==
    \A s, t \in log : Told(author[s], author[t]) => s = t

\* "Stored before confirmed": what a publisher is told is a message that was
\* committed, and one it could have meant: its own, its id's or its job's.
Confirmed ==
    \A r \in Requests : answer[r] # NoAnswer =>
        /\ answer[r] \in posted
        /\ LET by == author[answer[r]] IN by = r \/ Told(r, by) \/ SameJob(r, by)

\* What a member may be passed over for: s was posted to it, it did not receive
\* s, and its cursor is at s or beyond.
Missed(w, s) == s \in owed[w] /\ s \notin got[w] /\ s <= cursor[w]

\* A member's cursor passes nothing it was not given, except messages whose
\* transaction was overtaken: at least once holds for everything else, through
\* lost responses, trimming, rewinding, joining, and acknowledgements of what is
\* not there yet ("a bad ack cannot make a worker skip future ones").
MissedOnlyLate ==
    \A w \in Workers, s \in Seqs : Missed(w, s) => s \in late

\* _trim runs in the transaction of its message, "so the channel is never briefly
\* longer than it is allowed to be" (pgstore.py:1956, and set_keep, 1247: "so the
\* channel is never longer than it says it keeps").  At READ COMMITTED it is,
\* until something else is posted: two publishers do not see each other's row.
\* But it is longer by overtaken messages only.
KeptPlusLate ==
    Keep # 0 => Cardinality(log) <= Keep + Cardinality(log \cap late)

\* What is posted to a member reaches it, unless it is dropped, given up, or
\* overtaken.
Delivered ==
    \A w \in Workers, s \in Seqs :
        s \in owed[w] ~> s \in got[w] \/ s \notin owed[w] \/ s \in late

\* pgstore.py 1884-1885: the look for the job "cannot be made stale by something
\* committing meanwhile".
JobOnce ==
    \A s, t \in log :
        SameJob(author[s], author[t]) /\ {author[s], author[t]} \cap MayRepeat = {}
            => s = t

=============================================================================
